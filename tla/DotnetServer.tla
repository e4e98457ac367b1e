------------------------------- MODULE DotnetServer -------------------------------
(* dotnet-aspnetcore-js: System.Text.Json fills a class. *)
EXTENDS ServerTypes

(* A member of another type than string does not deserialize. *)
Decodes(r) ==
  /\ r.body \in {"object", "unread"}
  /\ \A v \in {r.token, r.email} \cup {r.browser[n] : n \in DOMAIN r.browser}:
       v \notin {"number", "list"}
  /\ "list" \notin {r.browserKind, r.customerKind}

(* A null that is written out replaces the property's default, and the     *)
(* first use of it throws what no handler catches.                         *)
NullUsed(r) == "null" \in {r.token, r.email, r.browserKind, r.customerKind}
                            \cup {r.browser[n] : n \in BrowserFields}

BrowserParams(r) ==
  Over(Given(r.browser, BrowserFields),
       HeaderParams(IF r.accept \in {"absent", "empty"} THEN "*/*" ELSE r.accept))

ClientIp(r) == PlainAddress(IF r.forwarded = <<>> THEN r.peer ELSE Head(r.forwarded))

(* ContainsKey: the server's own parameters are not overwritten. *)
CreateSale(r) == Over(OwnParams(r.token, OrEmpty(r.email), ClientIp(r)), BrowserParams(r))

Pay(r) ==
  IF ~Decodes(r) THEN Reply(Answer(400))
  ELSE IF r.token \in {"absent", "empty"} THEN Reply(Answer(400))
  ELSE IF NullUsed(r) THEN Reply(Answer(500))
  ELSE Ask("sale", CreateSale(r))

(* A StringValues is written with commas. *)
Status(r) ==
  LET order == CommaJoined(r.orderId)
      client == CommaJoined(r.clientOrderId)
  IN  IF order = <<>> \/ client = <<>> THEN Reply(Answer(400)) ELSE AskStatus(order, client)

FirstValues(form) == [n \in DOMAIN form |-> FirstOf(form[n])]
ValidCallback(form) == Signed(FirstValues(form))

ResultCallback(r) ==
  LET callback == IF r.method = "POST" /\ r.body = "form" THEN r.form ELSE NoForm
  IN  IF r.method = "POST" /\ r.body = "unreadable" THEN Answer(400)
      ELSE IF r.method = "POST" /\ ~ValidCallback(callback) THEN Answer(403)
      ELSE Redirect(SignedQuery(FirstValues(callback)))

Result(r) ==
  IF FirstValues(r.form)["orderid"] # <<>> /\ ~ValidCallback(r.form) THEN Answer(403) ELSE Page

Handle(r) ==
  CASE r.route = "config" -> Ask("ticket", <<>>)
    [] r.route = "pay" -> Pay(r)
    [] r.route = "status" -> Status(r)
    [] r.route = "callback" -> Reply(ResultCallback(r))
    [] r.route = "result" -> Reply(Result(r))

Failed(g) == g.kind # "object"

GetEphemeralTicket(g) == IF ~Failed(g) /\ g.ticket = "text" THEN "text" ELSE "absent"

Finish(r, g) ==
  CASE r.route = "config" -> Config(GetEphemeralTicket(g))
    [] r.route # "config" /\ Failed(g) -> Answer(502)
    [] r.route = "pay" /\ ~Failed(g) -> Sold(g.order)
    [] r.route = "status" /\ ~Failed(g) -> Looked(g.status)

(* HttpClient.Timeout covers the content, which SendAsync waits for. *)
Timed == {"asked", "headers"}

(* Settings.Load throws before the builder: there is no listener. *)
Unready(r) == Dropped
=============================================================================
