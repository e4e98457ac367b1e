-------------------------------- MODULE NextServer --------------------------------
(* nextjs: the route handlers, the middleware and the two pages. *)
EXTENDS ServerTypes

pickBrowser(r) ==
  Over(Given(r.browser, BrowserFields),
       HeaderParams(IF r.accept = "absent" THEN "*/*" ELSE r.accept))

(* A route handler has no socket to ask. *)
clientIp(r) == PlainAddress(IF r.forwarded = <<>> THEN "127.0.0.1" ELSE Head(r.forwarded))

(* customer is used as it came: a detail that is missing from it is sent   *)
(* as the text undefined, and one that is null as the text null.           *)
Email(r) ==
  CASE r.customerKind \in Nothing -> "empty"
    [] r.customerKind \notin Nothing -> IF r.email = "absent" THEN "undefined" ELSE r.email

createSale(r) == Over(OwnParams(r.token, Email(r), clientIp(r)), pickBrowser(r))

(* request.json() looks at no content type; a member of null is read       *)
(* outside the try.                                                        *)
Pay(r) ==
  CASE r.body = "malformed" -> Reply(Answer(400))
    [] r.body = "null" -> Reply(Answer(500))
    [] r.body \in {"scalar", "list"} -> Reply(Answer(400))
    [] r.body \in {"object", "unread"} ->
         IF OrEmpty(r.token) = "empty" THEN Reply(Answer(400)) ELSE Ask("sale", createSale(r))

Status(r) ==
  LET order == FirstOf(r.orderId)
      client == FirstOf(r.clientOrderId)
  IN  IF order = <<>> \/ client = <<>> THEN Reply(Answer(400)) ELSE AskStatus(order, client)

Fields(form) == [n \in DOMAIN form |-> FirstOf(form[n])]
validCallback(form) == Signed(Fields(form))
redirectToResult(form) == Redirect(SignedQuery(Fields(form)))

(* The body is read as a form whatever it says it is. *)
Callback(r) ==
  CASE r.method = "GET" -> Redirect(<<>>)
    [] r.method = "POST" /\ r.body = "unreadable" -> Answer(400)
    [] r.method = "POST" /\ r.body # "unreadable" ->
         IF validCallback(r.form) THEN redirectToResult(r.form) ELSE Answer(403)

(* The middleware reads the first of a name's values. *)
forbiddenResult(form) == Fields(form)["orderid"] # <<>> /\ ~validCallback(form)
Result(r) == IF forbiddenResult(r.form) THEN Answer(403) ELSE Page

Handle(r) ==
  CASE r.route = "config" -> Ask("ticket", <<>>)
    [] r.route = "pay" -> Pay(r)
    [] r.route = "status" -> Status(r)
    [] r.route = "callback" -> Reply(Callback(r))
    [] r.route = "result" -> Reply(Result(r))

Failed(g) == g.kind \in {"timeout", "text", "null"}

getEphemeralTicket(g) ==
  IF ~Failed(g) /\ MemberOf(g, g.ticket) = "text" THEN "text" ELSE "absent"

Finish(r, g) ==
  CASE r.route = "config" -> Config(getEphemeralTicket(g))
    [] r.route # "config" /\ Failed(g) -> Answer(502)
    [] r.route = "pay" /\ ~Failed(g) -> Sold(MemberOf(g, g.order))
    [] r.route = "status" /\ ~Failed(g) -> Looked(MemberOf(g, g.status))

(* AbortSignal.timeout goes on while the body is read. *)
Timed == {"asked", "headers"}

-----------------------------------------------------------------------------
(* A setting is missed when it is first asked for.  (MERCHANT_CONTROL is   *)
(* there: another setting is not.)  The pages ask for the settings outside *)
(* their try; a sale or a status finds out inside it.                      *)
UnreadyCall(r) == IF Handle(r).call = NoCall THEN Handle(r).answer ELSE Answer(502)

Unready(r) ==
  CASE r.route = "config" -> Answer(500)
    [] r.route \in {"pay", "status"} -> UnreadyCall(r)
    [] r.route = "callback" -> Answer(500)
    [] r.route = "result" -> IF forbiddenResult(r.form) THEN Answer(403) ELSE Answer(500)
=============================================================================
