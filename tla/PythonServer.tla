------------------------------- MODULE PythonServer -------------------------------
(* python-flask-js. *)
EXTENDS ServerTypes

pick_browser(r) ==
  Over(Given(r.browser, BrowserFields),
       HeaderParams(IF r.accept \in {"absent", "empty"} THEN "*/*" ELSE r.accept))

(* ProxyFix counts one proxy from the right. *)
client_ip(r) == PlainAddress(IF r.forwarded = <<>> THEN r.peer ELSE Last(r.forwarded))

(* The page's data first, the server's over it. *)
create_sale(r) == Over(OwnParams(r.token, OrEmpty(r.email), client_ip(r)), pick_browser(r))

(* get_json(silent=True) has nothing for what it cannot or will not parse. *)
pay(r) ==
  IF r.body = "object" /\ r.token \in Texts \ {"empty"}
  THEN Ask("sale", create_sale(r)) ELSE Reply(Answer(400))

status(r) ==
  LET order == FirstOf(r.orderId)
      client == FirstOf(r.clientOrderId)
  IN  IF order = <<>> \/ client = <<>> THEN Reply(Answer(400)) ELSE AskStatus(order, client)

Fields(form) == [n \in DOMAIN form |-> FirstOf(form[n])]

(* compare_digest raises for a str that is not ASCII: Flask answers 500. *)
raises(form) == ~IsAscii(Fields(form)["control"])
valid_callback(form) == Signed(Fields(form))
result_url(form) == SignedQuery(Fields(form))

(* request.form raises for a form above its limit, and Flask answers 413. *)
result_callback(r) ==
  LET form == IF r.body = "form" THEN r.form ELSE NoForm
  IN  CASE r.method = "GET" -> Redirect(<<>>)
        [] r.method = "POST" /\ r.body = "unreadable" -> Answer(413)
        [] r.method = "POST" /\ r.body # "unreadable" ->
             IF raises(form) THEN Answer(500)
             ELSE IF valid_callback(form) THEN Redirect(result_url(form)) ELSE Answer(403)

result(r) ==
  IF Fields(r.form)["orderid"] = <<>> THEN Page
  ELSE IF raises(r.form) THEN Answer(500)
  ELSE IF valid_callback(r.form) THEN Page ELSE Answer(403)

Handle(r) ==
  CASE r.route = "config" -> Ask("ticket", <<>>)
    [] r.route = "pay" -> pay(r)
    [] r.route = "status" -> status(r)
    [] r.route = "callback" -> Reply(result_callback(r))
    [] r.route = "result" -> Reply(result(r))

Failed(g) == g.kind # "object"

get_ephemeral_ticket(g) ==
  IF ~Failed(g) /\ g.ticket \in {"text", "number", "list"} THEN g.ticket ELSE "absent"

Finish(r, g) ==
  CASE r.route = "config" -> Config(get_ephemeral_ticket(g))
    [] r.route # "config" /\ Failed(g) -> Answer(502)
    [] r.route = "pay" /\ ~Failed(g) -> Sold(g.order)
    [] r.route = "status" /\ ~Failed(g) -> Looked(g.status)

(* urlopen's timeout limits every read. *)
Timed == {"asked", "headers"}

(* settings.py raises while it is imported: there is no listener. *)
Unready(r) == Dropped
=============================================================================
