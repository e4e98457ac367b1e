------------------------------ MODULE ExpressServer ------------------------------
(* nodejs-express-js: the port that Payment's Merchant is taken from. *)
EXTENDS ServerTypes

pickBrowser(r) ==
  Over(Given(r.browser, BrowserFields),
       HeaderParams(IF r.accept = "absent" THEN "*/*" ELSE r.accept))

(* req.ip under trust proxy: the first address of X-Forwarded-For. *)
clientIp(r) == PlainAddress(IF r.forwarded = <<>> THEN r.peer ELSE Head(r.forwarded))

(* Bugs: the body is merged, not filtered; and it goes last. *)
createSaleMerged(r) ==
  Over(Over(Given(r.browser, PostedFields), pickBrowser(r)),
       OwnParams(r.token, OrEmpty(r.email), clientIp(r)))

(* The page's data first, the server's over it. *)
createSale(r) == Over(OwnParams(r.token, OrEmpty(r.email), clientIp(r)), pickBrowser(r))

(* A body that is not a JSON object or list ends in the error handler:     *)
(* express.json() throws for it, or has left req.body undefined.           *)
Pay(r) ==
  IF r.body \notin {"object", "list"} THEN Reply(Answer(502))
  ELSE IF r.body = "list" \/ r.token \in Nothing \cup {"empty"} THEN Reply(Answer(400))
  ELSE Ask("sale", createSale(r))

Status(r) ==
  LET order == CommaJoined(r.orderId)
      client == CommaJoined(r.clientOrderId)
  IN  IF order = <<>> \/ client = <<>> THEN Reply(Answer(400)) ELSE AskStatus(order, client)

Fields(form) == [n \in DOMAIN form |-> CommaJoined(form[n])]

(* The lengths compared first are in characters; timingSafeEqual throws    *)
(* for buffers of unequal length in bytes, and the checksum is in ASCII.   *)
Throws(form) ==
  LET control == Fields(form)["control"]
  IN  Len(control) = Len(Expected(Fields(form))) /\ ~IsAscii(control)
validCallback(form) == Signed(Fields(form))

(* A bug: the checksum does not travel on. *)
resultUrlUnsigned(form) == SelectSeq(SignedQuery(Fields(form)), LAMBDA pair: pair[1] # "control")

resultUrl(form) == SignedQuery(Fields(form))

(* A body that is no form leaves req.body undefined, and reading a member  *)
(* of that throws; so does, for any method, a form that is not to be read. *)
Callback(r) ==
  CASE r.body = "unreadable" \/ (r.method = "POST" /\ r.body # "form") -> Answer(502)
    [] r.method = "GET" /\ r.body # "unreadable" -> Redirect(<<>>)
    [] r.method = "POST" /\ r.body = "form" ->
         IF Throws(r.form) THEN Answer(502)
         ELSE IF validCallback(r.form) THEN Redirect(resultUrl(r.form)) ELSE Answer(403)

Result(r) ==
  IF Fields(r.form)["orderid"] = <<>> THEN Page
  ELSE IF Throws(r.form) THEN Answer(502)
  ELSE IF validCallback(r.form) THEN Page ELSE Answer(403)

Handle(r) ==
  CASE r.route = "config" -> Ask("ticket", <<>>)
    [] r.route = "pay" -> Pay(r)
    [] r.route = "status" -> Status(r)
    [] r.route = "callback" -> Reply(Callback(r))
    [] r.route = "result" -> Reply(Result(r))

(* postJson takes any JSON for a reply, but logReason() cannot read a      *)
(* member of null.                                                         *)
Failed(g) == g.kind \in {"timeout", "text", "null"}

(* A ticket of blanks is trimmed to an empty one, which the page takes for *)
(* none.                                                                   *)
getEphemeralTicket(g) ==
  IF ~Failed(g) /\ g.ticket \in {"text", "number", "list"} THEN MemberOf(g, g.ticket) ELSE "absent"

Finish(r, g) ==
  CASE r.route = "config" -> Config(getEphemeralTicket(g))
    [] r.route # "config" /\ Failed(g) -> Answer(502)
    [] r.route = "pay" /\ ~Failed(g) -> Sold(MemberOf(g, g.order))
    [] r.route = "status" /\ ~Failed(g) -> Looked(MemberOf(g, g.status))

(* AbortSignal.timeout goes on while the body is read. *)
Timed == {"asked", "headers"}

(* config.js throws while the modules load: there is no listener. *)
Unready(r) == Dropped
=============================================================================
