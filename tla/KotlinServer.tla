------------------------------- MODULE KotlinServer -------------------------------
(* kotlin-ktor-js: any primitive but null is a text. *)
EXTENDS ServerTypes

text(v) == IF v \in Nothing \cup {"list"} THEN "empty" ELSE v

browserParams(r) ==
  LET given == {n \in BrowserFields: r.browser[n] \notin Nothing \cup {"list"}}
  IN  Over([n \in given |-> r.browser[n]],
           HeaderParams(IF r.accept \in {"absent", "empty"} THEN "*/*" ELSE r.accept))

clientIp(r) == PlainAddress(IF r.forwarded = <<>> THEN r.peer ELSE Head(r.forwarded))

(* putIfAbsent: the server's own parameters are not overwritten. *)
sale(r) == Over(OwnParams(r.token, text(r.email), clientIp(r)), browserParams(r))

(* The body is received as a text, of whatever content type. *)
pay(r) ==
  IF r.body \notin {"object", "unread"} \/ text(r.token) = "empty" THEN Reply(Answer(400))
  ELSE Ask("sale", sale(r))

status(r) ==
  LET order == FirstOf(r.orderId)
      client == FirstOf(r.clientOrderId)
  IN  IF order = <<>> \/ client = <<>> THEN Reply(Answer(400)) ELSE AskStatus(order, client)

formParams(form) == [n \in DOMAIN form |-> FirstOf(form[n])]
valid(form) == Signed(formParams(form))
seeOther(form) == Redirect(SignedQuery(formParams(form)))

(* Nothing catches what URLDecoder throws. *)
resultCallback(r) ==
  CASE r.method = "GET" -> seeOther(NoForm)
    [] r.method = "POST" /\ r.body = "unreadable" -> Answer(500)
    [] r.method = "POST" /\ r.body # "unreadable" ->
         IF valid(r.form) THEN seeOther(r.form) ELSE Answer(403)

result(r) ==
  IF formParams(r.form)["orderid"] # <<>> /\ ~valid(r.form) THEN Answer(403) ELSE Page

Handle(r) ==
  CASE r.route = "config" -> Ask("ticket", <<>>)
    [] r.route = "pay" -> pay(r)
    [] r.route = "status" -> status(r)
    [] r.route = "callback" -> Reply(resultCallback(r))
    [] r.route = "result" -> Reply(result(r))

Failed(g) == g.kind # "object"

(* JsonNull is a JsonPrimitive, whose content is the word null. *)
ephemeralTicket(g) ==
  IF ~Failed(g) /\ g.ticket \in {"text", "number", "null"} THEN g.ticket ELSE "absent"

Finish(r, g) ==
  CASE r.route = "config" -> Config(ephemeralTicket(g))
    [] r.route # "config" /\ Failed(g) -> Answer(502)
    [] r.route = "pay" /\ ~Failed(g) -> Sold(g.order)
    [] r.route = "status" /\ ~Failed(g) -> Looked(g.status)

(* java.net.http's timeout ends with the reply's headers. *)
Timed == {"asked"}

(* Settings are loaded before the engine starts: there is no listener. *)
Unready(r) == Dropped
=============================================================================
