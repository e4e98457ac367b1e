--------------------------------- MODULE PhpServer ---------------------------------
(* php-js: every request is a script of its own, and is checked as such. *)
EXTENDS ServerTypes

request_header(value) == IF value \in {"absent", "empty"} THEN "*/*" ELSE value

(* Only texts are kept. *)
browser_params(r) ==
  LET texts == {n \in BrowserFields: r.browser[n] \in Texts}
  IN  Over([n \in texts |-> r.browser[n]], HeaderParams(request_header(r.accept)))

client_ip(r) == PlainAddress(IF r.forwarded = <<>> THEN r.peer ELSE Head(r.forwarded))

(* The server's own parameters are there first and are not overwritten. *)
create_sale(r) == Over(OwnParams(r.token, TextOrEmpty(r.email), client_ip(r)), browser_params(r))

(* json_decode looks at no content type, and a list is an array. *)
handle_pay(r) ==
  IF r.body \in {"object", "unread"} /\ r.token \in Texts \ {"empty"}
  THEN Ask("sale", create_sale(r)) ELSE Reply(Answer(400))

(* form_params keeps the first of a name's values. *)
form_params(form) == [n \in DOMAIN form |-> FirstOf(form[n])]

handle_status(r) ==
  LET order == FirstOf(r.orderId)
      client == FirstOf(r.clientOrderId)
  IN  IF order = <<>> \/ client = <<>> THEN Reply(Answer(400)) ELSE AskStatus(order, client)

valid_callback(form) == Signed(form_params(form))

(* What cannot be read is cast to an empty string. *)
handle_result_callback(r) ==
  LET form == IF r.method = "POST" /\ r.body # "unreadable" THEN r.form ELSE NoForm
  IN  IF r.method = "POST" /\ ~valid_callback(form) THEN Answer(403)
      ELSE Redirect(SignedQuery(form_params(form)))

handle_result(r) ==
  IF form_params(r.form)["orderid"] # <<>> /\ ~valid_callback(r.form) THEN Answer(403) ELSE Page

Handle(r) ==
  CASE r.route = "config" -> Ask("ticket", <<>>)
    [] r.route = "pay" -> handle_pay(r)
    [] r.route = "status" -> handle_status(r)
    [] r.route = "callback" -> Reply(handle_result_callback(r))
    [] r.route = "result" -> Reply(handle_result(r))

(* is_array is true of an object and of a list. *)
Failed(g) == g.kind \notin {"object", "list"}

get_ephemeral_ticket(g) == IF MemberOf(g, g.ticket) = "text" THEN "text" ELSE "absent"

Finish(r, g) ==
  CASE r.route = "config" -> Config(get_ephemeral_ticket(g))
    [] r.route # "config" /\ Failed(g) -> Answer(502)
    [] r.route = "pay" /\ ~Failed(g) -> Sold(MemberOf(g, g.order))
    [] r.route = "status" /\ ~Failed(g) -> Looked(MemberOf(g, g.status))

(* CURLOPT_TIMEOUT limits the whole transfer. *)
Timed == {"asked", "headers"}

(* handle_request asks for the settings before anything else. *)
Unready(r) == Answer(500)
=============================================================================
