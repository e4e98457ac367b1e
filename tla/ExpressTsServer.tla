----------------------------- MODULE ExpressTsServer -----------------------------
(* nodejs-express-ts-js: what arrives is checked before it is read. *)
EXTENDS ServerTypes

pickBrowser(r) ==
  Over(Given(r.browser, BrowserFields),
       HeaderParams(IF r.accept = "absent" THEN "*/*" ELSE r.accept))

clientIp(r) == PlainAddress(IF r.forwarded = <<>> THEN r.peer ELSE Head(r.forwarded))

createSale(r) == Over(OwnParams(r.token, OrEmpty(r.email), clientIp(r)), pickBrowser(r))

(* express.json() throws for what is neither an object nor a list. *)
Pay(r) ==
  CASE r.body \in {"malformed", "null", "scalar"} -> Reply(Answer(502))
    [] r.body \in {"unread", "list"} -> Reply(Answer(400))
    [] r.body = "object" ->
         IF OrEmpty(r.token) = "empty" THEN Reply(Answer(400)) ELSE Ask("sale", createSale(r))

(* queryValue takes a name that was given once. *)
Status(r) ==
  LET order == OnlyOf(r.orderId)
      client == OnlyOf(r.clientOrderId)
  IN  IF order = <<>> \/ client = <<>> THEN Reply(Answer(400)) ELSE AskStatus(order, client)

Fields(form) == [n \in DOMAIN form |-> CommaJoined(form[n])]

(* The lengths compared first are in characters; timingSafeEqual throws    *)
(* for buffers of unequal length in bytes, and the checksum is in ASCII.   *)
Throws(form) ==
  LET control == Fields(form)["control"]
  IN  Len(control) = Len(Expected(Fields(form))) /\ ~IsAscii(control)
validCallback(form) == Signed(Fields(form))
resultUrl(form) == SignedQuery(Fields(form))

Callback(r) ==
  LET callback == IF r.body = "form" THEN r.form ELSE NoForm
  IN  CASE r.body = "unreadable" -> Answer(502)
        [] r.method = "GET" /\ r.body # "unreadable" -> Redirect(<<>>)
        [] r.method = "POST" /\ r.body # "unreadable" ->
             IF Throws(callback) THEN Answer(502)
             ELSE IF validCallback(callback) THEN Redirect(resultUrl(callback)) ELSE Answer(403)

Result(r) ==
  IF Fields(r.form)["orderid"] = <<>> THEN Page
  ELSE IF Throws(r.form) THEN Answer(502)
  ELSE IF validCallback(r.form) THEN Page ELSE Answer(403)

Handle(r) ==
  CASE r.route = "config" -> Ask("ticket", <<>>)
    [] r.route = "pay" -> Pay(r)
    [] r.route = "status" -> Status(r)
    [] r.route = "callback" -> Reply(Callback(r))
    [] r.route = "result" -> Reply(Result(r))

(* postJson wants an object. *)
Failed(g) == g.kind # "object"

getEphemeralTicket(g) ==
  IF ~Failed(g) /\ g.ticket \in {"text", "number", "list"} THEN g.ticket ELSE "absent"

Finish(r, g) ==
  CASE r.route = "config" -> Config(getEphemeralTicket(g))
    [] r.route # "config" /\ Failed(g) -> Answer(502)
    [] r.route = "pay" /\ ~Failed(g) -> Sold(g.order)
    [] r.route = "status" /\ ~Failed(g) -> Looked(g.status)

(* AbortSignal.timeout goes on while the body is read. *)
Timed == {"asked", "headers"}

(* required() throws while config.ts loads: there is no listener. *)
Unready(r) == Dropped
=============================================================================
