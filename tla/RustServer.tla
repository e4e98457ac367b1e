-------------------------------- MODULE RustServer --------------------------------
(* rust-axum-js: serde fills a struct. *)
EXTENDS ServerTypes

(* A member may be missing but not null; a list fills a struct, not a map. *)
Decodes(r) ==
  /\ r.body \in {"object", "unread"}
  /\ \A v \in {r.token, r.email} \cup {r.browser[n] : n \in DOMAIN r.browser}:
       v \in Texts \cup {"absent"}
  /\ r.customerKind # "null"
  /\ r.browserKind \notin {"null", "list"}

browser_params(r) ==
  Over(Given(r.browser, BrowserFields),
       HeaderParams(IF r.accept \in {"absent", "empty"} THEN "*/*" ELSE r.accept))

(* The last entry is the one that the merchant's own proxy wrote. *)
client_ip(r) == PlainAddress(IF r.forwarded = <<>> THEN r.peer ELSE Last(r.forwarded))

(* or_insert: the server's own parameters are not overwritten. *)
create_sale(r) == Over(OwnParams(r.token, OrEmpty(r.email), client_ip(r)), browser_params(r))

pay(r) ==
  IF ~Decodes(r) \/ OrEmpty(r.token) = "empty" THEN Reply(Answer(400))
  ELSE Ask("sale", create_sale(r))

(* Both names have to be there; neither has to have a value. *)
status(r) ==
  IF r.orderId = <<>> \/ r.clientOrderId = <<>> THEN Reply(Answer(400))
  ELSE AskStatus(FirstOf(r.orderId), FirstOf(r.clientOrderId))

form_params(form) == [n \in DOMAIN form |-> FirstOf(form[n])]
valid_callback(form) == Signed(form_params(form))

(* The body is a form whatever its type, and is forwarded by a GET too;    *)
(* one that does not make a String is refused before the handler.          *)
result_callback(r) ==
  IF r.body = "unreadable" THEN Answer(400)
  ELSE IF r.method = "POST" /\ ~valid_callback(r.form) THEN Answer(403)
  ELSE Redirect(SignedQuery(form_params(r.form)))

result(r) ==
  IF form_params(r.form)["orderid"] # <<>> /\ ~valid_callback(r.form) THEN Answer(403) ELSE Page

Handle(r) ==
  CASE r.route = "config" -> Ask("ticket", <<>>)
    [] r.route = "pay" -> pay(r)
    [] r.route = "status" -> status(r)
    [] r.route = "callback" -> Reply(result_callback(r))
    [] r.route = "result" -> Reply(result(r))

Failed(g) == g.kind # "object"

ephemeral_ticket(g) == IF ~Failed(g) /\ g.ticket = "text" THEN "text" ELSE "absent"

Finish(r, g) ==
  CASE r.route = "config" -> Config(ephemeral_ticket(g))
    [] r.route # "config" /\ Failed(g) -> Answer(502)
    [] r.route = "pay" /\ ~Failed(g) -> Sold(g.order)
    [] r.route = "status" /\ ~Failed(g) -> Looked(g.status)

(* A bug the source warns of: reqwest has no timeout of its own. *)
TimedNever == {}

(* The client's ten seconds cover the whole exchange. *)
Timed == {"asked", "headers"}

(* Config::load fails and main ends: there is no listener. *)
Unready(r) == Dropped
=============================================================================
