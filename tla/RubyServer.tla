-------------------------------- MODULE RubyServer --------------------------------
(* ruby-sinatra-js.  Rack keeps the last of a name's values. *)
EXTENDS ServerTypes

pick_browser(r) ==
  LET given == Given(r.browser, BrowserFields)
  IN  Over([n \in DOMAIN given |-> OrEmpty(given[n])],
           HeaderParams(IF r.accept \in {"absent", "empty"} THEN "*/*" ELSE r.accept))

client_ip(r) == PlainAddress(IF r.forwarded = <<>> THEN r.peer ELSE Head(r.forwarded))

(* The page's data first, the server's over it. *)
sale(r) == Over(OwnParams(r.token, OrEmpty(r.email), client_ip(r)), pick_browser(r))

pay(r) ==
  IF r.body \in {"object", "unread"} /\ r.token \in Texts \ {"empty"}
  THEN Ask("sale", sale(r)) ELSE Reply(Answer(400))

status(r) ==
  LET order == LastOf(r.orderId)
      client == LastOf(r.clientOrderId)
  IN  IF order = <<>> \/ client = <<>> THEN Reply(Answer(400)) ELSE AskStatus(order, client)

Fields(form) == [n \in DOMAIN form |-> LastOf(form[n])]
valid_callback(form) == Signed(Fields(form))
result_url(form) == SignedQuery(Fields(form))

(* Sinatra's params: what the URL has, and the body's form over it.  Where *)
(* they cannot be read it answers 400 before the route.                    *)
params(r) == Merged(IF r.body = "form" THEN r.form ELSE NoForm, r.query)

result_callback(r) ==
  CASE r.body = "unreadable" -> Answer(400)
    [] r.method = "GET" /\ r.body # "unreadable" -> Redirect(<<>>)
    [] r.method = "POST" /\ r.body # "unreadable" ->
         IF valid_callback(params(r)) THEN Redirect(result_url(params(r))) ELSE Answer(403)

result(r) ==
  IF Fields(r.form)["orderid"] # <<>> /\ ~valid_callback(r.form) THEN Answer(403) ELSE Page

Handle(r) ==
  CASE r.route = "config" -> Ask("ticket", <<>>)
    [] r.route = "pay" -> pay(r)
    [] r.route = "status" -> status(r)
    [] r.route = "callback" -> Reply(result_callback(r))
    [] r.route = "result" -> Reply(result(r))

Failed(g) == g.kind # "object"

ephemeral_ticket(g) ==
  IF ~Failed(g) /\ g.ticket \in {"text", "number", "list"} THEN g.ticket ELSE "absent"

Finish(r, g) ==
  CASE r.route = "config" -> Config(ephemeral_ticket(g))
    [] r.route # "config" /\ Failed(g) -> Answer(502)
    [] r.route = "pay" /\ ~Failed(g) -> Sold(g.order)
    [] r.route = "status" /\ ~Failed(g) -> Looked(g.status)

(* read_timeout limits every read. *)
Timed == {"asked", "headers"}

(* settings.rb raises while it is required: there is no listener. *)
Unready(r) == Dropped
=============================================================================
