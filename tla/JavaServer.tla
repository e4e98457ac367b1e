-------------------------------- MODULE JavaServer --------------------------------
(* java-springboot-js: Jackson fills a record. *)
EXTENDS ServerTypes

(* A number becomes a String; a list does not. *)
Readable(r) ==
  /\ r.body = "object"
  /\ "list" \notin {r.token, r.email, r.browserKind, r.customerKind}
                     \cup {r.browser[n] : n \in DOMAIN r.browser}

browserParams(r) ==
  LET given == {n \in BrowserFields: r.browser[n] \notin Nothing}
  IN  Over([n \in given |-> r.browser[n]],
           HeaderParams(IF r.accept \in {"absent", "empty"} THEN "*/*" ELSE r.accept))

clientIp(r) == PlainAddress(IF r.forwarded = <<>> THEN r.peer ELSE Head(r.forwarded))

(* putIfAbsent: the server's own parameters are not overwritten. *)
createSale(r) == Over(OwnParams(r.token, OrEmpty(r.email), clientIp(r)), browserParams(r))

(* No converter for text/plain: 415, before the handler. *)
pay(r) ==
  CASE r.body = "unread" -> Reply(Answer(415))
    [] r.body # "unread" ->
         IF ~Readable(r) \/ OrEmpty(r.token) = "empty" THEN Reply(Answer(400))
         ELSE Ask("sale", createSale(r))

(* Spring makes one String of a @RequestParam given twice. *)
status(r) ==
  LET order == CommaJoined(r.orderId)
      client == CommaJoined(r.clientOrderId)
  IN  IF order = <<>> \/ client = <<>> THEN Reply(Answer(400)) ELSE AskStatus(order, client)

formParams(form) == [n \in DOMAIN form |-> FirstOf(form[n])]
valid(form) == Signed(formParams(form))
seeOther(form) == Redirect(SignedQuery(formParams(form)))

(* The body is read as a form whatever it says it is; one that is not      *)
(* there to be read goes to the handler that speaks of a JSON.             *)
resultCallback(r) ==
  CASE r.method = "GET" -> Redirect(<<>>)
    [] r.method = "POST" /\ r.body = "unreadable" -> Answer(400)
    [] r.method = "POST" /\ r.body # "unreadable" ->
         IF valid(r.form) THEN seeOther(r.form) ELSE Answer(403)

(* A bug: the second check is left to the first. *)
resultUnchecked(r) == Page

result(r) ==
  IF formParams(r.form)["orderid"] # <<>> /\ ~valid(r.form) THEN Answer(403) ELSE Page

Handle(r) ==
  CASE r.route = "config" -> Ask("ticket", <<>>)
    [] r.route = "pay" -> pay(r)
    [] r.route = "status" -> status(r)
    [] r.route = "callback" -> Reply(resultCallback(r))
    [] r.route = "result" -> Reply(result(r))

Failed(g) == g.kind \in {"timeout", "text", "list", "scalar"}

ephemeralTicket(g) == IF MemberOf(g, g.ticket) = "text" THEN "text" ELSE "absent"

(* Jackson reads null as no map at all, and logReason trips over it: that  *)
(* is no GatewayException, which is all that the handlers catch.           *)
Finish(r, g) ==
  CASE g.kind = "null" -> Answer(500)
    [] g.kind # "null" /\ r.route = "config" -> Config(ephemeralTicket(g))
    [] r.route # "config" /\ Failed(g) -> Answer(502)
    [] r.route = "pay" /\ g.kind = "object" -> Sold(g.order)
    [] r.route = "status" /\ g.kind = "object" -> Looked(g.status)

(* java.net.http's timeout ends with the reply's headers. *)
Timed == {"asked"}

(* Settings are read before the container is built. *)
Unready(r) == Dropped
=============================================================================
