--------------------------------- MODULE GoServer ---------------------------------
(* go-js: the body is decoded into a typed struct. *)
EXTENDS ServerTypes

(* Decode: a member of another type than string fails, null leaves "". *)
Decodes(r) ==
  /\ r.body \in {"object", "unread", "null"}
  /\ \A v \in {r.token, r.email} \cup {r.browser[n] : n \in DOMAIN r.browser}:
       v \notin {"number", "list"}
  /\ r.customerKind # "list"
  /\ r.browserKind # "list"

(* A map keeps the key of a null member. *)
browserParams(r) ==
  LET given == Given(r.browser, BrowserFields)
  IN  Over([n \in DOMAIN given |-> OrEmpty(given[n])],
           HeaderParams(IF r.accept \in {"absent", "empty"} THEN "*/*" ELSE r.accept))

clientIP(r) == PlainAddress(IF r.forwarded = <<>> THEN r.peer ELSE Head(r.forwarded))

(* The server's own parameters are there first and are not overwritten. *)
createSale(r) == Over(OwnParams(r.token, OrEmpty(r.email), clientIP(r)), browserParams(r))

handlePay(r) ==
  IF ~Decodes(r) \/ r.body = "null" \/ OrEmpty(r.token) = "empty" THEN Reply(Answer(400))
  ELSE Ask("sale", createSale(r))

handleStatus(r) ==
  LET order == FirstOf(r.orderId)
      client == FirstOf(r.clientOrderId)
  IN  IF order = <<>> \/ client = <<>> THEN Reply(Answer(400)) ELSE AskStatus(order, client)

Fields(form) == [n \in DOMAIN form |-> FirstOf(form[n])]
validCallback(form) == Signed(Fields(form))

(* url.Values.Encode would have sorted the names: a bug the comment names. *)
handleResultCallbackSorted(r) ==
  LET form == IF r.method = "POST" /\ r.body = "form" THEN r.form ELSE NoForm
  IN  IF r.method = "POST" /\ r.body = "unreadable" THEN Answer(400)
      ELSE IF r.method = "POST" /\ ~validCallback(form) THEN Answer(403)
      ELSE Redirect(Reverse(SignedQuery(Fields(form))))

(* PostForm is empty but for a POST of a form. *)
handleResultCallback(r) ==
  LET form == IF r.method = "POST" /\ r.body = "form" THEN r.form ELSE NoForm
  IN  IF r.method = "POST" /\ r.body = "unreadable" THEN Answer(400)
      ELSE IF r.method = "POST" /\ ~validCallback(form) THEN Answer(403)
      ELSE Redirect(SignedQuery(Fields(form)))

handleResult(r) ==
  IF Fields(r.form)["orderid"] # <<>> /\ ~validCallback(r.form) THEN Answer(403) ELSE Page

Handle(r) ==
  CASE r.route = "config" -> Ask("ticket", <<>>)
    [] r.route = "pay" -> handlePay(r)
    [] r.route = "status" -> handleStatus(r)
    [] r.route = "callback" -> Reply(handleResultCallback(r))
    [] r.route = "result" -> Reply(handleResult(r))

(* postJSON decodes into a map: null leaves it nil, and is no error. *)
Failed(g) == g.kind \in {"timeout", "text", "list", "scalar"}

getEphemeralTicket(g) == IF MemberOf(g, g.ticket) = "text" THEN "text" ELSE "absent"

(* An assignment to a nil map panics, and net/http drops the connection. *)
Finish(r, g) ==
  CASE r.route = "config" -> Config(getEphemeralTicket(g))
    [] r.route # "config" /\ Failed(g) -> Answer(502)
    [] r.route = "pay" /\ g.kind = "null" -> Dropped
    [] r.route = "pay" /\ g.kind = "object" -> Sold(g.order)
    [] r.route = "status" /\ ~Failed(g) -> Looked(MemberOf(g, g.status))

(* http.Client's Timeout includes reading the body. *)
Timed == {"asked", "headers"}

(* loadConfig fails and main ends: there is no listener. *)
Unready(r) == Dropped
=============================================================================
