------------------------------ MODULE Server_proofs ------------------------------
(***************************************************************************)
(* The eleven ports of the server, for any requests, any replies and any   *)
(* set of ports deployed: each of them keeps the contract of PortContract, *)
(* none of them lets the page decide on what is charged, all of them treat *)
(* an ordinary request alike, and what one signs off any other accepts.    *)
(***************************************************************************)
EXTENDS ServerProperties, TLAPS

-----------------------------------------------------------------------------
(* What a port may do with a request, and with the reply to its call. *)

Asked(r) ==
  /\ r.route \in {"config", "pay", "status", "callback", "result"}
  /\ r.method \in {"GET", "POST"}
  /\ r.body \in {"object", "list", "scalar", "null", "malformed", "unread", "form", "unreadable"}
  /\ r.route = "pay" => r.body \notin {"form", "unreadable"} /\ r.token \in Kinds

Failing == {0, 500, 502}
RefusedBy(r) ==
  IF r.route = "pay" THEN {400, 415}
  ELSE IF r.route = "status" THEN {400}
  ELSE IF r.route = "callback" THEN {400, 403, 413}
  ELSE IF r.route = "result" THEN {403} ELSE {}

Refused(r, a) == a.code \in RefusedBy(r) \cup Failing

(* No member that the page sends takes the place of the server's. *)
SaleOurs(params) ==
  /\ \A n \in {"client_orderid", "amount", "redirect_url"}: params[n] = "ours"
  /\ params.hosted_fields_token \notin Nothing \cup {"empty"}
  /\ params.customer_browser_user_agent = "agent"
  /\ DOMAIN params \subseteq
       BrowserFields \cup DOMAIN OwnParams("text", "text", "peer") \cup DOMAIN HeaderParams("text")

Called(r, h) ==
  /\ h.call.command \in {"ticket", "sale", "status"} /\ h.answer.code = 0
  /\ r.route \in {"config", "pay", "status"}
  /\ h.call.command = "sale" => SaleOurs(h.call.params)

(* What one reading of the request has found signed. *)
Found(r, query) ==
  \E form \in Sources(r): \E field \in Readings(form): Signed(field) /\ query = SignedQuery(field)

Granted(r, h) ==
  /\ r.route \in {"callback", "result"} /\ ~Wrong(r)
  /\ h.answer.code = IF r.route = "callback" THEN 303 ELSE 200
  /\ r.route = "callback" /\ r.method = "POST" => Found(r, h.answer.query)

Handled(r, h) ==
  \/ Called(r, h)
  \/ h.call = NoCall /\ (Refused(r, h.answer) \/ Granted(r, h))

Returned(a) == a.code \in {200} \cup Failing

AnyReply(g) == g.kind \in {"object", "list", "scalar", "null", "text", "timeout"}

-----------------------------------------------------------------------------
(* Signatures: a form is read in one of three ways. *)

LEMMA ReadFirst ==
  ASSUME NEW form PROVE [n \in DOMAIN form |-> FirstOf(form[n])] \in Readings(form)
BY DEF Readings

LEMMA ReadLast ==
  ASSUME NEW form PROVE [n \in DOMAIN form |-> LastOf(form[n])] \in Readings(form)
BY DEF Readings

LEMMA ReadJoined ==
  ASSUME NEW form PROVE [n \in DOMAIN form |-> CommaJoined(form[n])] \in Readings(form)
BY DEF Readings

LEMMA SignedIsRight ==
  ASSUME NEW r, NEW field \in Readings(r.form), Signed(field) PROVE ~Wrong(r)
BY DEF Wrong, Unsigned, Sources

LEMMA SignedIsFound ==
  ASSUME NEW r, NEW field \in Readings(r.form), Signed(field) PROVE Found(r, SignedQuery(field))
BY DEF Found, Sources

LEMMA NamelessIsRight ==
  ASSUME NEW r, r.route = "result", NEW field \in Readings(r.form), field["orderid"] = <<>>
  PROVE  ~Wrong(r)
BY DEF Wrong

LEMMA GetIsRight == ASSUME NEW r, r.route = "callback", r.method = "GET" PROVE ~Wrong(r)
BY DEF Wrong

(* Where there is no form there is no signature. *)
LEMMA NothingSigned ==
  ASSUME NEW field, field["status"] = <<>>, field["orderid"] = <<>>,
         field["merchant_order"] = <<>>, field["control"] = <<>>
  PROVE  ~Signed(field)
<1>1. field["status"] \o field["orderid"] \o field["merchant_order"] = <<>>
  OBVIOUS
<1>2. DOMAIN Checksum(<<>>) = {1}
  BY DEF Checksum
<1> QED BY <1>1, <1>2 DEF Signed, Expected

LEMMA NoFormIs ==
  /\ DOMAIN NoForm = {"status", "orderid", "merchant_order", "control"}
  /\ \A n \in DOMAIN NoForm: NoForm[n] = <<>>
<1>1. ToSet(SignedNames) = {"status", "orderid", "merchant_order", "control"}
  BY DEF ToSet, SignedNames
<1> QED BY <1>1 DEF NoForm

LEMMA NothingJoined == FirstOf(<<>>) = <<>> /\ LastOf(<<>>) = <<>> /\ CommaJoined(<<>>) = <<>>
BY DEF FirstOf, LastOf, CommaJoined, FlattenSeq

LEMMA NoFormSigned ==
  /\ ~Signed([n \in DOMAIN NoForm |-> FirstOf(NoForm[n])])
  /\ ~Signed([n \in DOMAIN NoForm |-> LastOf(NoForm[n])])
  /\ ~Signed([n \in DOMAIN NoForm |-> CommaJoined(NoForm[n])])
BY NoFormIs, NothingJoined, NothingSigned

-----------------------------------------------------------------------------
(* Sales: the server's own parameters lie over the page's. *)

LEMMA OursGoFirst ==
  ASSUME NEW token, token \notin Nothing \cup {"empty"}, NEW email, NEW address,
         NEW given, DOMAIN given \subseteq BrowserFields, NEW accept
  PROVE  SaleOurs(Over(OwnParams(token, email, address), Over(given, HeaderParams(accept))))
<1> DEFINE own == OwnParams(token, email, address)
           headers == HeaderParams(accept)
           picked == Over(given, headers)
           params == Over(own, picked)
<1>1. DOMAIN own = {"client_orderid", "amount", "redirect_url", "hosted_fields_token", "email",
                    "ipaddress"}
      /\ own["client_orderid"] = "ours" /\ own["amount"] = "ours" /\ own["redirect_url"] = "ours"
      /\ own["hosted_fields_token"] = token
  BY DEF OwnParams
<1>2. DOMAIN headers = {"customer_browser_accept_header", "customer_browser_user_agent"}
      /\ headers["customer_browser_user_agent"] = "agent"
  BY DEF HeaderParams
<1>3. DOMAIN OwnParams("text", "text", "peer") = DOMAIN own
      /\ DOMAIN HeaderParams("text") = DOMAIN headers
  BY DEF OwnParams, HeaderParams
<1> HIDE DEF own, headers
<1>4. "customer_browser_user_agent" \notin DOMAIN given
  BY DEF BrowserFields
<1>5. DOMAIN picked = DOMAIN given \cup DOMAIN headers
      /\ picked["customer_browser_user_agent"] = "agent"
  BY <1>2, <1>4 DEF Over
<1> HIDE DEF picked
<1>6. DOMAIN params = DOMAIN own \cup DOMAIN picked
      /\ \A n \in DOMAIN params: params[n] = IF n \in DOMAIN own THEN own[n] ELSE picked[n]
  BY DEF Over
<1> HIDE DEF params
<1>7. params["customer_browser_user_agent"] = "agent"
  BY <1>1, <1>2, <1>5, <1>6
<1>8. SaleOurs(params)
  BY <1>1, <1>2, <1>3, <1>5, <1>6, <1>7 DEF SaleOurs
<1> QED BY <1>8 DEF params, picked, own, headers

LEMMA GivenIsNamed == ASSUME NEW browser PROVE DOMAIN Given(browser, BrowserFields) \subseteq BrowserFields
BY DEF Given

-----------------------------------------------------------------------------
(* The ordinary course: every port does with a request what Usual says. *)

Once(form) == [n \in DOMAIN form |-> FirstOf(form[n])]

(* No name is given twice, and the checksum is no longer than its bytes. *)
Plain(form) ==
  /\ DOMAIN form = DOMAIN NoForm
  /\ \A n \in DOMAIN form: form[n] = <<>> \/ \E v: form[n] = <<v>>
  /\ IsAscii(FirstOf(form["control"]))

Usually(r) ==
  /\ r.route \in {"config", "pay", "status", "callback", "result"}
  /\ r.route = "pay" =>
       /\ OrdinaryPay(r) /\ \E a: r.forwarded = <<a>>
       /\ \A n \in BrowserFields: r.browser[n] \in {"absent", "empty", "text"}
  /\ r.route = "status" =>
       \A v \in {r.orderId, r.clientOrderId}: v = <<>> \/ \E w: v = <<w>> /\ w # <<>>
  /\ r.route = "callback" =>
       /\ r.method \in {"GET", "POST"} /\ Plain(r.form) /\ r.query = NoForm
       /\ IF r.method = "POST" THEN r.body = "form" ELSE r.form = NoForm /\ r.body # "unreadable"
  /\ r.route = "result" => Plain(r.form)

UsualSale(r) ==
  Over(OwnParams(r.token, r.email, PlainAddress(Head(r.forwarded))),
       Over(Given(r.browser, BrowserFields), HeaderParams("text")))

Usual(r) ==
  CASE r.route = "config" -> Ask("ticket", <<>>)
    [] r.route = "pay" -> IF r.token = "text" THEN Ask("sale", UsualSale(r)) ELSE Reply(Answer(400))
    [] r.route = "status" ->
         IF r.orderId = <<>> \/ r.clientOrderId = <<>> THEN Reply(Answer(400))
         ELSE AskStatus(Head(r.orderId), Head(r.clientOrderId))
    [] r.route = "callback" -> Reply(
         IF r.method = "GET" THEN Redirect(<<>>)
         ELSE IF Signed(Once(r.form)) THEN Redirect(SignedQuery(Once(r.form))) ELSE Answer(403))
    [] r.route = "result" -> Reply(
         IF Once(r.form)["orderid"] = <<>> \/ Signed(Once(r.form)) THEN Page ELSE Answer(403))

(* The answer once the call has come to an ordinary reply. *)
UsualFinish(r, g) ==
  CASE r.route = "config" ->
         Config(IF g.kind = "object" /\ g.ticket = "text" THEN "text" ELSE "absent")
    [] r.route # "config" /\ g.kind # "object" -> Answer(502)
    [] r.route = "pay" /\ g.kind = "object" -> Sold(g.order)
    [] r.route = "status" /\ g.kind = "object" -> Looked(g.status)

LEMMA OneOrNone ==
  ASSUME NEW values, values = <<>> \/ \E v: values = <<v>>
  PROVE  LastOf(values) = FirstOf(values) /\ CommaJoined(values) = FirstOf(values)
         /\ (values # <<>> => OnlyOf(values) = FirstOf(values) /\ FirstOf(values) = Head(values))
         /\ OnlyOf(values) = FirstOf(values)
<1>1. CASE values = <<>>
  BY <1>1 DEF LastOf, FirstOf, CommaJoined, OnlyOf
<1>2. ASSUME NEW v, values = <<v>> PROVE
         /\ Len(values) = 1 /\ values # <<>> /\ Head(values) = v /\ values[1] = v
  BY <1>2
<1>3. CASE \E v: values = <<v>>
  BY <1>2, <1>3 DEF LastOf, FirstOf, CommaJoined, OnlyOf, Last
<1> QED BY <1>1, <1>3

LEMMA PlainReadings ==
  ASSUME NEW form, Plain(form)
  PROVE  /\ Once(form) = [n \in DOMAIN form |-> LastOf(form[n])]
         /\ Once(form) = [n \in DOMAIN form |-> CommaJoined(form[n])]
BY OneOrNone DEF Plain, Once

LEMMA PlainNoForm == Plain(NoForm) /\ \A n \in DOMAIN NoForm: Once(NoForm)[n] = <<>>
<1>1. DOMAIN NoForm = {"status", "orderid", "merchant_order", "control"}
      /\ \A n \in DOMAIN NoForm: NoForm[n] = <<>>
  BY NoFormIs
<1>2. IsAscii(FirstOf(NoForm["control"]))
  BY <1>1 DEF FirstOf, IsAscii, ToSet
<1> QED BY <1>1, <1>2 DEF Plain, Once, FirstOf

LEMMA OnceControl ==
  ASSUME NEW form, Plain(form) PROVE Once(form)["control"] = FirstOf(form["control"])
BY NoFormIs DEF Plain, Once

LEMMA NothingTravels ==
  ASSUME NEW field, \A n \in DOMAIN NoForm: field[n] = <<>> PROVE SignedQuery(field) = <<>>
BY NoFormIs DEF SignedQuery

-----------------------------------------------------------------------------
(* nodejs-express-js *)

LEMMA ExpressReads ==
  ASSUME NEW form PROVE Express!Fields(form) = [n \in DOMAIN form |-> CommaJoined(form[n])]
BY DEF Express!Fields, Express!CommaJoined, CommaJoined, Express!FirstOf, FirstOf,
       Express!FlattenSeq, FlattenSeq

LEMMA ExpressSigns ==
  ASSUME NEW field
  PROVE  /\ Express!Expected(field) = Expected(field)
         /\ Express!Signed(field) <=> Signed(field)
         /\ Express!SignedQuery(field) = SignedQuery(field)
BY DEF Express!Expected, Expected, Express!Checksum, Checksum, Express!Signed, Signed,
       Express!SignedQuery, SignedQuery

LEMMA ExpressSaleIs ==
  ASSUME NEW r
  PROVE  Express!createSale(r)
           = Over(OwnParams(r.token, OrEmpty(r.email), Express!clientIp(r)),
                  Over(Given(r.browser, BrowserFields),
                       HeaderParams(IF r.accept = "absent" THEN "*/*" ELSE r.accept)))
BY DEF Express!createSale, Express!pickBrowser, Express!Over, Over, Express!OwnParams, OwnParams,
       Express!HeaderParams, HeaderParams, Express!Given, Given, Express!BrowserFields,
       BrowserFields, Express!OrEmpty, OrEmpty, Express!Nothing, Nothing

LEMMA ExpressHandles == ASSUME NEW r, Asked(r) PROVE Handled(r, Express!Handle(r))
<1> USE DEF Asked, Handled, Refused, RefusedBy, Failing, NoCall, Express!NoCall, Express!Reply,
            Express!Answer
<1> DEFINE field == [n \in DOMAIN r.form |-> CommaJoined(r.form[n])]
<1>1. field \in Readings(r.form) /\ Express!Fields(r.form) = field
  BY ReadJoined, ExpressReads
<1>2. Express!validCallback(r.form) => Signed(field) /\ ~Wrong(r)
  BY <1>1, ExpressSigns, SignedIsRight DEF Express!validCallback
<1>4. CASE r.route = "config"
  BY <1>4 DEF Express!Handle, Express!Ask, Express!Call, Called
<1>5. CASE r.route = "pay"
  <2>1. CASE r.token \notin Nothing \cup {"empty"}
    <3> DEFINE given == Given(r.browser, BrowserFields)
               accept == IF r.accept = "absent" THEN "*/*" ELSE r.accept
    <3>1. DOMAIN given \subseteq BrowserFields
      BY DEF Given
    <3>2. Express!createSale(r)
            = Over(OwnParams(r.token, OrEmpty(r.email), Express!clientIp(r)), Over(given, HeaderParams(accept)))
      BY ExpressSaleIs
    <3> HIDE DEF given, accept
    <3>3. SaleOurs(Express!createSale(r))
      BY <2>1, <3>1, <3>2, OursGoFirst
    <3> QED BY <1>5, <2>1, <3>3 DEF Express!Handle, Express!Pay, Express!Ask, Express!Call,
           Called, Express!Nothing
  <2>2. CASE r.token \in Nothing \cup {"empty"}
    BY <1>5, <2>2 DEF Express!Handle, Express!Pay, Express!Nothing, Nothing
  <2> QED BY <2>1, <2>2
<1>6. CASE r.route = "status"
  BY <1>6 DEF Express!Handle, Express!Status, Express!AskStatus, Express!Ask, Express!Call, Called
<1>7. CASE r.route = "callback"
  <2>1. Express!Handle(r) = Express!Reply(Express!Callback(r))
    BY <1>7 DEF Express!Handle
  <2>2. CASE r.method = "GET"
    BY <1>7, <2>1, <2>2, GetIsRight DEF Express!Callback, Express!Redirect, Granted,
       Express!resultUrl
  <2>3. CASE r.method = "POST" /\ Express!Handle(r).answer.code = 303
    <3>1. Express!validCallback(r.form) /\ Express!Handle(r).answer.query = Express!SignedQuery(Express!Fields(r.form))
      BY <1>1, <1>7, <2>1, <2>3 DEF Express!Callback, Express!Redirect, Express!resultUrl
    <3>2. Express!Handle(r).answer.query = SignedQuery(field)
      BY <1>1, <3>1, ExpressSigns
    <3> QED BY <1>1, <1>2, <1>7, <2>1, <2>3, <3>1, <3>2, SignedIsFound DEF Granted
  <2>4. CASE r.method = "POST" /\ Express!Handle(r).answer.code # 303
    BY <1>7, <2>1, <2>4 DEF Express!Callback, Express!Redirect, Express!resultUrl
  <2> QED BY <2>2, <2>3, <2>4
<1>8. CASE r.route = "result"
  <2>1. Express!Handle(r) = Express!Reply(Express!Result(r))
    BY <1>8 DEF Express!Handle
  <2>2. field["orderid"] = <<>> => ~Wrong(r)
    BY <1>1, <1>8, NamelessIsRight
  <2> QED BY <1>1, <1>2, <1>8, <2>1, <2>2 DEF Express!Result, Express!Page, Granted
<1> QED BY <1>4, <1>5, <1>6, <1>7, <1>8

LEMMA ExpressUsual == ASSUME NEW r, Usually(r) PROVE Express!Handle(r) = Usual(r)
<1> USE DEF Usually, Express!Reply, Reply, Express!Answer, Answer, Express!NoCall, NoCall
<1>1. ASSUME NEW form, Plain(form) PROVE Express!Fields(form) = Once(form)
  BY <1>1, ExpressReads, PlainReadings DEF Once
<1>2. ASSUME NEW form, Plain(form) PROVE ~Express!Throws(form)
  <2>1. Express!Fields(form)["control"] = FirstOf(form["control"])
    BY <1>1, <1>2, OnceControl
  <2>2. Express!IsAscii(FirstOf(form["control"])) <=> IsAscii(FirstOf(form["control"]))
    BY DEF Express!IsAscii, IsAscii, Express!ToSet, ToSet
  <2> QED BY <1>2, <2>1, <2>2 DEF Plain, Express!Throws
<1>3. CASE r.route = "config"
  BY <1>3 DEF Usual, Express!Handle, Express!Ask, Ask, Express!Call, Call
<1>4. CASE r.route = "pay"
  <2> DEFINE given == Given(r.browser, BrowserFields)
             accept == IF r.accept = "absent" THEN "*/*" ELSE r.accept
  <2>1. given = Given(r.browser, BrowserFields) /\ accept = "text"
    BY <1>4 DEF OrdinaryPay, Given, OrEmpty, Nothing, Texts
  <2>2. OrEmpty(r.email) = r.email /\ Express!clientIp(r) = PlainAddress(Head(r.forwarded))
    BY <1>4 DEF OrdinaryPay, OrEmpty, Nothing, Express!clientIp, Express!PlainAddress,
       PlainAddress, Express!Last, Last
  <2>3. Express!createSale(r)
          = Over(OwnParams(r.token, OrEmpty(r.email), Express!clientIp(r)), Over(given, HeaderParams(accept)))
    BY ExpressSaleIs
  <2> HIDE DEF given, accept
  <2>4. Express!createSale(r) = UsualSale(r)
    BY <2>1, <2>2, <2>3 DEF UsualSale
  <2> QED BY <1>4, <2>4 DEF OrdinaryPay, Usual, Express!Handle, Express!Pay, Express!Ask, Ask,
           Express!Call, Call, Express!Nothing
<1>5. CASE r.route = "status"
  <2>1. ASSUME NEW v \in {r.orderId, r.clientOrderId} PROVE Express!CommaJoined(v) = FirstOf(v)
    <3>1. Express!CommaJoined(v) = CommaJoined(v)
      BY DEF Express!CommaJoined, CommaJoined, Express!FirstOf, FirstOf, Express!FlattenSeq,
         FlattenSeq
    <3>2. v = <<>> \/ \E w: v = <<w>>
      BY <1>5
    <3> HIDE DEF Usually
    <3> QED BY <3>1, <3>2, OneOrNone
  <2>2. ASSUME NEW v \in {r.orderId, r.clientOrderId}
        PROVE  (FirstOf(v) = <<>> <=> v = <<>>) /\ (v # <<>> => FirstOf(v) = Head(v))
    BY <1>5 DEF FirstOf
  <2> QED BY <1>5, <2>1, <2>2 DEF Usual, Express!Handle, Express!Status, Express!AskStatus,
           AskStatus, Express!Ask, Ask, Express!Call, Call
<1>7. CASE r.route = "callback"
  BY <1>1, <1>2, <1>7, ExpressSigns DEF Usual, Express!Handle, Express!Callback, Express!Redirect,
     Redirect, Express!validCallback, Express!resultUrl
<1>8. CASE r.route = "result"
  BY <1>1, <1>2, <1>8, ExpressSigns DEF Usual, Express!Handle, Express!Result, Express!Page, Page,
     Express!validCallback
<1> QED BY <1>3, <1>4, <1>5, <1>7, <1>8

LEMMA ExpressFinishes ==
  ASSUME NEW r, r.route \in {"config", "pay", "status"}, NEW g, AnyReply(g)
  PROVE  Returned(Express!Finish(r, g)) /\ (OrdinaryReply(g) => Express!Finish(r, g) = UsualFinish(r, g))
<1>1. Returned(Express!Finish(r, g))
  BY DEF AnyReply, Returned, Failing, Express!Finish, Express!Failed, Express!Config,
       Express!Sold, Express!Looked, Express!Answer
<1>2. ASSUME OrdinaryReply(g) PROVE Express!Finish(r, g) = UsualFinish(r, g)
  <2>1. CASE g.kind = "object"
    BY <1>2, <2>1 DEF OrdinaryReply, UsualFinish, Express!Finish, Express!Failed,
       Express!getEphemeralTicket, Express!MemberOf, MemberOf, Express!Config, Config,
       Express!Sold, Sold, Express!Looked, Looked, Express!Answer, Answer
  <2>2. CASE g.kind \in {"timeout", "text"}
    BY <2>2 DEF UsualFinish, Express!Finish, Express!Failed, Express!getEphemeralTicket,
       Express!MemberOf, MemberOf, Express!Config, Config, Express!Answer, Answer
  <2> QED BY <1>2, <2>1, <2>2 DEF OrdinaryReply
<1> QED BY <1>1, <1>2

LEMMA ExpressUnready == ASSUME NEW r, Asked(r) PROVE Refused(r, Express!Unready(r))
BY DEF Refused, Failing, Express!Unready, Express!Dropped, Express!Answer

-----------------------------------------------------------------------------
(* nodejs-express-ts-js *)

LEMMA ExpressTsReads ==
  ASSUME NEW form PROVE ExpressTs!Fields(form) = [n \in DOMAIN form |-> CommaJoined(form[n])]
BY DEF ExpressTs!Fields, ExpressTs!CommaJoined, CommaJoined, ExpressTs!FirstOf, FirstOf,
       ExpressTs!FlattenSeq, FlattenSeq

LEMMA ExpressTsSigns ==
  ASSUME NEW field
  PROVE  /\ ExpressTs!Expected(field) = Expected(field)
         /\ ExpressTs!Signed(field) <=> Signed(field)
         /\ ExpressTs!SignedQuery(field) = SignedQuery(field)
BY DEF ExpressTs!Expected, Expected, ExpressTs!Checksum, Checksum, ExpressTs!Signed, Signed,
       ExpressTs!SignedQuery, SignedQuery

LEMMA ExpressTsNoForm == ExpressTs!NoForm = NoForm
BY DEF ExpressTs!NoForm, NoForm, ExpressTs!ToSet, ToSet, ExpressTs!SignedNames, SignedNames

LEMMA ExpressTsSaleIs ==
  ASSUME NEW r
  PROVE  ExpressTs!createSale(r)
           = Over(OwnParams(r.token, OrEmpty(r.email), ExpressTs!clientIp(r)),
                  Over(Given(r.browser, BrowserFields),
                       HeaderParams(IF r.accept = "absent" THEN "*/*" ELSE r.accept)))
BY DEF ExpressTs!createSale, ExpressTs!pickBrowser, ExpressTs!Over, Over, ExpressTs!OwnParams,
       OwnParams, ExpressTs!HeaderParams, HeaderParams, ExpressTs!Given, Given,
       ExpressTs!BrowserFields, BrowserFields, ExpressTs!OrEmpty, OrEmpty, ExpressTs!Nothing,
       Nothing

LEMMA ExpressTsHandles == ASSUME NEW r, Asked(r) PROVE Handled(r, ExpressTs!Handle(r))
<1> USE DEF Asked, Handled, Refused, RefusedBy, Failing, NoCall, ExpressTs!NoCall,
            ExpressTs!Reply, ExpressTs!Answer
<1> DEFINE field == [n \in DOMAIN r.form |-> CommaJoined(r.form[n])]
<1>1. field \in Readings(r.form) /\ ExpressTs!Fields(r.form) = field
  BY ReadJoined, ExpressTsReads
<1>2. ExpressTs!validCallback(r.form) => Signed(field) /\ ~Wrong(r)
  BY <1>1, ExpressTsSigns, SignedIsRight DEF ExpressTs!validCallback
<1>3. ~ExpressTs!validCallback(ExpressTs!NoForm)
  BY ExpressTsNoForm, ExpressTsReads, ExpressTsSigns, NoFormSigned DEF ExpressTs!validCallback
<1>4. CASE r.route = "config"
  BY <1>4 DEF ExpressTs!Handle, ExpressTs!Ask, ExpressTs!Call, Called
<1>5. CASE r.route = "pay"
  <2>1. CASE r.token \notin Nothing \cup {"empty"}
    <3> DEFINE given == Given(r.browser, BrowserFields)
               accept == IF r.accept = "absent" THEN "*/*" ELSE r.accept
    <3>1. DOMAIN given \subseteq BrowserFields
      BY DEF Given
    <3>2. ExpressTs!createSale(r)
            = Over(OwnParams(r.token, OrEmpty(r.email), ExpressTs!clientIp(r)), Over(given, HeaderParams(accept)))
      BY ExpressTsSaleIs
    <3> HIDE DEF given, accept
    <3>3. SaleOurs(ExpressTs!createSale(r))
      BY <2>1, <3>1, <3>2, OursGoFirst
    <3> QED BY <1>5, <2>1, <3>3 DEF ExpressTs!Handle, ExpressTs!Pay, ExpressTs!Ask,
           ExpressTs!Call, Called, ExpressTs!OrEmpty, ExpressTs!Nothing
  <2>2. CASE r.token \in Nothing \cup {"empty"}
    BY <1>5, <2>2 DEF ExpressTs!Handle, ExpressTs!Pay, ExpressTs!Nothing, Nothing,
       ExpressTs!OrEmpty
  <2> QED BY <2>1, <2>2
<1>6. CASE r.route = "status"
  BY <1>6 DEF ExpressTs!Handle, ExpressTs!Status, ExpressTs!AskStatus, ExpressTs!Ask,
     ExpressTs!Call, Called
<1>7. CASE r.route = "callback"
  <2>1. ExpressTs!Handle(r) = ExpressTs!Reply(ExpressTs!Callback(r))
    BY <1>7 DEF ExpressTs!Handle
  <2>2. CASE r.method = "GET"
    BY <1>7, <2>1, <2>2, GetIsRight DEF ExpressTs!Callback, ExpressTs!Redirect, Granted,
       ExpressTs!resultUrl
  <2>3. CASE r.method = "POST" /\ ExpressTs!Handle(r).answer.code = 303
    <3>1. ExpressTs!validCallback(r.form) /\ ExpressTs!Handle(r).answer.query = ExpressTs!SignedQuery(ExpressTs!Fields(r.form))
      BY <1>1, <1>3, <1>7, <2>1, <2>3 DEF ExpressTs!Callback, ExpressTs!Redirect,
         ExpressTs!resultUrl
    <3>2. ExpressTs!Handle(r).answer.query = SignedQuery(field)
      BY <1>1, <3>1, ExpressTsSigns
    <3> QED BY <1>1, <1>2, <1>7, <2>1, <2>3, <3>1, <3>2, SignedIsFound DEF Granted
  <2>4. CASE r.method = "POST" /\ ExpressTs!Handle(r).answer.code # 303
    BY <1>7, <2>1, <2>4 DEF ExpressTs!Callback, ExpressTs!Redirect, ExpressTs!resultUrl
  <2> QED BY <2>2, <2>3, <2>4
<1>8. CASE r.route = "result"
  <2>1. ExpressTs!Handle(r) = ExpressTs!Reply(ExpressTs!Result(r))
    BY <1>8 DEF ExpressTs!Handle
  <2>2. field["orderid"] = <<>> => ~Wrong(r)
    BY <1>1, <1>8, NamelessIsRight
  <2> QED BY <1>1, <1>2, <1>8, <2>1, <2>2 DEF ExpressTs!Result, ExpressTs!Page, Granted
<1> QED BY <1>4, <1>5, <1>6, <1>7, <1>8

LEMMA ExpressTsUsual == ASSUME NEW r, Usually(r) PROVE ExpressTs!Handle(r) = Usual(r)
<1> USE DEF Usually, ExpressTs!Reply, Reply, ExpressTs!Answer, Answer, ExpressTs!NoCall, NoCall
<1>1. ASSUME NEW form, Plain(form) PROVE ExpressTs!Fields(form) = Once(form)
  BY <1>1, ExpressTsReads, PlainReadings DEF Once
<1>2. ASSUME NEW form, Plain(form) PROVE ~ExpressTs!Throws(form)
  <2>1. ExpressTs!Fields(form)["control"] = FirstOf(form["control"])
    BY <1>1, <1>2, OnceControl
  <2>2. ExpressTs!IsAscii(FirstOf(form["control"])) <=> IsAscii(FirstOf(form["control"]))
    BY DEF ExpressTs!IsAscii, IsAscii, ExpressTs!ToSet, ToSet
  <2> QED BY <1>2, <2>1, <2>2 DEF Plain, ExpressTs!Throws
<1>3. CASE r.route = "config"
  BY <1>3 DEF Usual, ExpressTs!Handle, ExpressTs!Ask, Ask, ExpressTs!Call, Call
<1>4. CASE r.route = "pay"
  <2> DEFINE given == Given(r.browser, BrowserFields)
             accept == IF r.accept = "absent" THEN "*/*" ELSE r.accept
  <2>1. given = Given(r.browser, BrowserFields) /\ accept = "text"
    BY <1>4 DEF OrdinaryPay, Given, OrEmpty, Nothing, Texts
  <2>2. OrEmpty(r.email) = r.email /\ ExpressTs!clientIp(r) = PlainAddress(Head(r.forwarded))
    BY <1>4 DEF OrdinaryPay, OrEmpty, Nothing, ExpressTs!clientIp, ExpressTs!PlainAddress,
       PlainAddress, ExpressTs!Last, Last
  <2>3. ExpressTs!createSale(r)
          = Over(OwnParams(r.token, OrEmpty(r.email), ExpressTs!clientIp(r)), Over(given, HeaderParams(accept)))
    BY ExpressTsSaleIs
  <2> HIDE DEF given, accept
  <2>4. ExpressTs!createSale(r) = UsualSale(r)
    BY <2>1, <2>2, <2>3 DEF UsualSale
  <2> QED BY <1>4, <2>4 DEF OrdinaryPay, Usual, ExpressTs!Handle, ExpressTs!Pay, ExpressTs!Ask,
           Ask, ExpressTs!Call, Call, ExpressTs!Nothing, ExpressTs!OrEmpty
<1>5. CASE r.route = "status"
  <2>1. ASSUME NEW v \in {r.orderId, r.clientOrderId} PROVE ExpressTs!OnlyOf(v) = FirstOf(v)
    <3>1. ExpressTs!OnlyOf(v) = OnlyOf(v)
      BY DEF ExpressTs!OnlyOf, OnlyOf
    <3>2. v = <<>> \/ \E w: v = <<w>>
      BY <1>5
    <3> HIDE DEF Usually
    <3> QED BY <3>1, <3>2, OneOrNone
  <2>2. ASSUME NEW v \in {r.orderId, r.clientOrderId}
        PROVE  (FirstOf(v) = <<>> <=> v = <<>>) /\ (v # <<>> => FirstOf(v) = Head(v))
    BY <1>5 DEF FirstOf
  <2> QED BY <1>5, <2>1, <2>2 DEF Usual, ExpressTs!Handle, ExpressTs!Status, ExpressTs!AskStatus,
           AskStatus, ExpressTs!Ask, Ask, ExpressTs!Call, Call
<1>6. ExpressTs!SignedQuery(ExpressTs!Fields(ExpressTs!NoForm)) = <<>>
  BY <1>1, ExpressTsNoForm, ExpressTsSigns, PlainNoForm, NothingTravels
<1>7. CASE r.route = "callback"
  BY <1>1, <1>2, <1>6, <1>7, ExpressTsSigns DEF Usual, ExpressTs!Handle, ExpressTs!Callback,
     ExpressTs!Redirect, Redirect, ExpressTs!validCallback, ExpressTs!resultUrl
<1>8. CASE r.route = "result"
  BY <1>1, <1>2, <1>8, ExpressTsSigns DEF Usual, ExpressTs!Handle, ExpressTs!Result,
     ExpressTs!Page, Page, ExpressTs!validCallback
<1> QED BY <1>3, <1>4, <1>5, <1>7, <1>8

LEMMA ExpressTsFinishes ==
  ASSUME NEW r, r.route \in {"config", "pay", "status"}, NEW g, AnyReply(g)
  PROVE  Returned(ExpressTs!Finish(r, g)) /\ (OrdinaryReply(g) => ExpressTs!Finish(r, g) = UsualFinish(r, g))
<1>1. Returned(ExpressTs!Finish(r, g))
  BY DEF AnyReply, Returned, Failing, ExpressTs!Finish, ExpressTs!Failed, ExpressTs!Config,
       ExpressTs!Sold, ExpressTs!Looked, ExpressTs!Answer
<1>2. ASSUME OrdinaryReply(g) PROVE ExpressTs!Finish(r, g) = UsualFinish(r, g)
  <2>1. CASE g.kind = "object"
    BY <1>2, <2>1 DEF OrdinaryReply, UsualFinish, ExpressTs!Finish, ExpressTs!Failed,
       ExpressTs!getEphemeralTicket, ExpressTs!MemberOf, MemberOf, ExpressTs!Config, Config,
       ExpressTs!Sold, Sold, ExpressTs!Looked, Looked, ExpressTs!Answer, Answer
  <2>2. CASE g.kind \in {"timeout", "text"}
    BY <2>2 DEF UsualFinish, ExpressTs!Finish, ExpressTs!Failed, ExpressTs!getEphemeralTicket,
       ExpressTs!MemberOf, MemberOf, ExpressTs!Config, Config, ExpressTs!Answer, Answer
  <2> QED BY <1>2, <2>1, <2>2 DEF OrdinaryReply
<1> QED BY <1>1, <1>2

LEMMA ExpressTsUnready == ASSUME NEW r, Asked(r) PROVE Refused(r, ExpressTs!Unready(r))
BY DEF Refused, Failing, ExpressTs!Unready, ExpressTs!Dropped, ExpressTs!Answer

-----------------------------------------------------------------------------
(* nextjs *)

LEMMA NextJsReads ==
  ASSUME NEW form PROVE NextJs!Fields(form) = [n \in DOMAIN form |-> FirstOf(form[n])]
BY DEF NextJs!Fields, NextJs!FirstOf, FirstOf

LEMMA NextJsSigns ==
  ASSUME NEW field
  PROVE  /\ NextJs!Expected(field) = Expected(field)
         /\ NextJs!Signed(field) <=> Signed(field)
         /\ NextJs!SignedQuery(field) = SignedQuery(field)
BY DEF NextJs!Expected, Expected, NextJs!Checksum, Checksum, NextJs!Signed, Signed,
       NextJs!SignedQuery, SignedQuery

LEMMA NextJsSaleIs ==
  ASSUME NEW r
  PROVE  NextJs!createSale(r)
           = Over(OwnParams(r.token, NextJs!Email(r), NextJs!clientIp(r)),
                  Over(Given(r.browser, BrowserFields),
                       HeaderParams(IF r.accept = "absent" THEN "*/*" ELSE r.accept)))
BY DEF NextJs!createSale, NextJs!pickBrowser, NextJs!Over, Over, NextJs!OwnParams, OwnParams,
       NextJs!HeaderParams, HeaderParams, NextJs!Given, Given, NextJs!BrowserFields,
       BrowserFields, NextJs!OrEmpty, OrEmpty, NextJs!Nothing, Nothing, NextJs!Email

LEMMA NextJsHandles == ASSUME NEW r, Asked(r) PROVE Handled(r, NextJs!Handle(r))
<1> USE DEF Asked, Handled, Refused, RefusedBy, Failing, NoCall, NextJs!NoCall, NextJs!Reply,
            NextJs!Answer
<1> DEFINE field == [n \in DOMAIN r.form |-> FirstOf(r.form[n])]
<1>1. field \in Readings(r.form) /\ NextJs!Fields(r.form) = field
  BY ReadFirst, NextJsReads
<1>2. NextJs!validCallback(r.form) => Signed(field) /\ ~Wrong(r)
  BY <1>1, NextJsSigns, SignedIsRight DEF NextJs!validCallback
<1>4. CASE r.route = "config"
  BY <1>4 DEF NextJs!Handle, NextJs!Ask, NextJs!Call, Called
<1>5. CASE r.route = "pay"
  <2>1. CASE r.token \notin Nothing \cup {"empty"}
    <3> DEFINE given == Given(r.browser, BrowserFields)
               accept == IF r.accept = "absent" THEN "*/*" ELSE r.accept
    <3>1. DOMAIN given \subseteq BrowserFields
      BY DEF Given
    <3>2. NextJs!createSale(r)
            = Over(OwnParams(r.token, NextJs!Email(r), NextJs!clientIp(r)), Over(given, HeaderParams(accept)))
      BY NextJsSaleIs
    <3> HIDE DEF given, accept
    <3>3. SaleOurs(NextJs!createSale(r))
      BY <2>1, <3>1, <3>2, OursGoFirst
    <3> QED BY <1>5, <2>1, <3>3 DEF NextJs!Handle, NextJs!Pay, NextJs!Ask, NextJs!Call, Called,
           NextJs!OrEmpty, NextJs!Nothing
  <2>2. CASE r.token \in Nothing \cup {"empty"}
    BY <1>5, <2>2 DEF NextJs!Handle, NextJs!Pay, NextJs!Nothing, Nothing, NextJs!OrEmpty
  <2> QED BY <2>1, <2>2
<1>6. CASE r.route = "status"
  BY <1>6 DEF NextJs!Handle, NextJs!Status, NextJs!AskStatus, NextJs!Ask, NextJs!Call, Called
<1>7. CASE r.route = "callback"
  <2>1. NextJs!Handle(r) = NextJs!Reply(NextJs!Callback(r))
    BY <1>7 DEF NextJs!Handle
  <2>2. CASE r.method = "GET"
    BY <1>7, <2>1, <2>2, GetIsRight DEF NextJs!Callback, NextJs!Redirect, Granted,
       NextJs!redirectToResult
  <2>3. CASE r.method = "POST" /\ NextJs!Handle(r).answer.code = 303
    <3>1. NextJs!validCallback(r.form) /\ NextJs!Handle(r).answer.query = NextJs!SignedQuery(NextJs!Fields(r.form))
      BY <1>1, <1>7, <2>1, <2>3 DEF NextJs!Callback, NextJs!Redirect, NextJs!redirectToResult
    <3>2. NextJs!Handle(r).answer.query = SignedQuery(field)
      BY <1>1, <3>1, NextJsSigns
    <3> QED BY <1>1, <1>2, <1>7, <2>1, <2>3, <3>1, <3>2, SignedIsFound DEF Granted
  <2>4. CASE r.method = "POST" /\ NextJs!Handle(r).answer.code # 303
    BY <1>7, <2>1, <2>4 DEF NextJs!Callback, NextJs!Redirect, NextJs!redirectToResult
  <2> QED BY <2>2, <2>3, <2>4
<1>8. CASE r.route = "result"
  <2>1. NextJs!Handle(r) = NextJs!Reply(NextJs!Result(r))
    BY <1>8 DEF NextJs!Handle
  <2>2. field["orderid"] = <<>> => ~Wrong(r)
    BY <1>1, <1>8, NamelessIsRight
  <2> QED BY <1>1, <1>2, <1>8, <2>1, <2>2 DEF NextJs!Result, NextJs!Page, Granted,
       NextJs!forbiddenResult
<1> QED BY <1>4, <1>5, <1>6, <1>7, <1>8

LEMMA NextJsUsual == ASSUME NEW r, Usually(r) PROVE NextJs!Handle(r) = Usual(r)
<1> USE DEF Usually, NextJs!Reply, Reply, NextJs!Answer, Answer, NextJs!NoCall, NoCall
<1>1. ASSUME NEW form, Plain(form) PROVE NextJs!Fields(form) = Once(form)
  BY <1>1, NextJsReads, PlainReadings DEF Once
<1>3. CASE r.route = "config"
  BY <1>3 DEF Usual, NextJs!Handle, NextJs!Ask, Ask, NextJs!Call, Call
<1>4. CASE r.route = "pay"
  <2> DEFINE given == Given(r.browser, BrowserFields)
             accept == IF r.accept = "absent" THEN "*/*" ELSE r.accept
  <2>1. given = Given(r.browser, BrowserFields) /\ accept = "text"
    BY <1>4 DEF OrdinaryPay, Given, OrEmpty, Nothing, Texts
  <2>2. NextJs!Email(r) = r.email /\ NextJs!clientIp(r) = PlainAddress(Head(r.forwarded))
    BY <1>4 DEF OrdinaryPay, OrEmpty, Nothing, NextJs!clientIp, NextJs!PlainAddress, PlainAddress,
       NextJs!Email, NextJs!Nothing, NextJs!Last, Last
  <2>3. NextJs!createSale(r)
          = Over(OwnParams(r.token, NextJs!Email(r), NextJs!clientIp(r)), Over(given, HeaderParams(accept)))
    BY NextJsSaleIs
  <2> HIDE DEF given, accept
  <2>4. NextJs!createSale(r) = UsualSale(r)
    BY <2>1, <2>2, <2>3 DEF UsualSale
  <2> QED BY <1>4, <2>4 DEF OrdinaryPay, Usual, NextJs!Handle, NextJs!Pay, NextJs!Ask, Ask,
           NextJs!Call, Call, NextJs!Nothing, NextJs!OrEmpty
<1>5. CASE r.route = "status"
  <2>1. ASSUME NEW v \in {r.orderId, r.clientOrderId} PROVE NextJs!FirstOf(v) = FirstOf(v)
    BY DEF NextJs!FirstOf, FirstOf
  <2>2. ASSUME NEW v \in {r.orderId, r.clientOrderId}
        PROVE  (FirstOf(v) = <<>> <=> v = <<>>) /\ (v # <<>> => FirstOf(v) = Head(v))
    BY <1>5 DEF FirstOf
  <2> QED BY <1>5, <2>1, <2>2 DEF Usual, NextJs!Handle, NextJs!Status, NextJs!AskStatus,
           AskStatus, NextJs!Ask, Ask, NextJs!Call, Call
<1>7. CASE r.route = "callback"
  BY <1>1, <1>7, NextJsSigns DEF Usual, NextJs!Handle, NextJs!Callback, NextJs!Redirect, Redirect,
     NextJs!validCallback, NextJs!redirectToResult
<1>8. CASE r.route = "result"
  BY <1>1, <1>8, NextJsSigns DEF Usual, NextJs!Handle, NextJs!Result, NextJs!Page, Page,
     NextJs!validCallback, NextJs!forbiddenResult
<1> QED BY <1>3, <1>4, <1>5, <1>7, <1>8

LEMMA NextJsFinishes ==
  ASSUME NEW r, r.route \in {"config", "pay", "status"}, NEW g, AnyReply(g)
  PROVE  Returned(NextJs!Finish(r, g)) /\ (OrdinaryReply(g) => NextJs!Finish(r, g) = UsualFinish(r, g))
<1>1. Returned(NextJs!Finish(r, g))
  BY DEF AnyReply, Returned, Failing, NextJs!Finish, NextJs!Failed, NextJs!Config, NextJs!Sold,
       NextJs!Looked, NextJs!Answer
<1>2. ASSUME OrdinaryReply(g) PROVE NextJs!Finish(r, g) = UsualFinish(r, g)
  <2>1. CASE g.kind = "object"
    BY <1>2, <2>1 DEF OrdinaryReply, UsualFinish, NextJs!Finish, NextJs!Failed,
       NextJs!getEphemeralTicket, NextJs!MemberOf, MemberOf, NextJs!Config, Config, NextJs!Sold,
       Sold, NextJs!Looked, Looked, NextJs!Answer, Answer
  <2>2. CASE g.kind \in {"timeout", "text"}
    BY <2>2 DEF UsualFinish, NextJs!Finish, NextJs!Failed, NextJs!getEphemeralTicket,
       NextJs!MemberOf, MemberOf, NextJs!Config, Config, NextJs!Answer, Answer
  <2> QED BY <1>2, <2>1, <2>2 DEF OrdinaryReply
<1> QED BY <1>1, <1>2

LEMMA NextJsUnready == ASSUME NEW r, Asked(r) PROVE Refused(r, NextJs!Unready(r))
<1> USE DEF Refused, Failing, RefusedBy, NextJs!Answer
<1>1. CASE r.route \in {"pay", "status"}
  <2>1. Handled(r, NextJs!Handle(r))
    BY NextJsHandles
  <2>2. NextJs!Handle(r).call = NextJs!NoCall => Refused(r, NextJs!Handle(r).answer)
    BY <1>1, <2>1 DEF Handled, Called, Granted, NextJs!NoCall
  <2> QED BY <1>1, <2>2 DEF NextJs!Unready, NextJs!UnreadyCall
<1>2. CASE r.route \notin {"pay", "status"}
  BY <1>2 DEF Asked, NextJs!Unready
<1> QED BY <1>1, <1>2

-----------------------------------------------------------------------------
(* go-js *)

LEMMA GoReads ==
  ASSUME NEW form PROVE Go!Fields(form) = [n \in DOMAIN form |-> FirstOf(form[n])]
BY DEF Go!Fields, Go!FirstOf, FirstOf

LEMMA GoSigns ==
  ASSUME NEW field
  PROVE  /\ Go!Expected(field) = Expected(field)
         /\ Go!Signed(field) <=> Signed(field)
         /\ Go!SignedQuery(field) = SignedQuery(field)
BY DEF Go!Expected, Expected, Go!Checksum, Checksum, Go!Signed, Signed, Go!SignedQuery,
       SignedQuery

LEMMA GoNoForm == Go!NoForm = NoForm
BY DEF Go!NoForm, NoForm, Go!ToSet, ToSet, Go!SignedNames, SignedNames

LEMMA GoSaleIs ==
  ASSUME NEW r
  PROVE  Go!createSale(r)
           = Over(OwnParams(r.token, OrEmpty(r.email), Go!clientIP(r)),
                  Over([n \in DOMAIN Given(r.browser, BrowserFields) |->
                       OrEmpty(Given(r.browser, BrowserFields)[n])],
                       HeaderParams(IF r.accept \in {"absent", "empty"} THEN "*/*" ELSE r.accept)))
BY DEF Go!createSale, Go!browserParams, Go!Over, Over, Go!OwnParams, OwnParams, Go!HeaderParams,
       HeaderParams, Go!Given, Given, Go!BrowserFields, BrowserFields, Go!OrEmpty, OrEmpty,
       Go!Nothing, Nothing

LEMMA GoHandles == ASSUME NEW r, Asked(r) PROVE Handled(r, Go!Handle(r))
<1> USE DEF Asked, Handled, Refused, RefusedBy, Failing, NoCall, Go!NoCall, Go!Reply, Go!Answer
<1> DEFINE field == [n \in DOMAIN r.form |-> FirstOf(r.form[n])]
<1>1. field \in Readings(r.form) /\ Go!Fields(r.form) = field
  BY ReadFirst, GoReads
<1>2. Go!validCallback(r.form) => Signed(field) /\ ~Wrong(r)
  BY <1>1, GoSigns, SignedIsRight DEF Go!validCallback
<1>3. ~Go!validCallback(Go!NoForm)
  BY GoNoForm, GoReads, GoSigns, NoFormSigned DEF Go!validCallback
<1>4. CASE r.route = "config"
  BY <1>4 DEF Go!Handle, Go!Ask, Go!Call, Called
<1>5. CASE r.route = "pay"
  <2>1. CASE r.token \notin Nothing \cup {"empty"}
    <3> DEFINE given == [n \in DOMAIN Given(r.browser, BrowserFields) |->
                         OrEmpty(Given(r.browser, BrowserFields)[n])]
               accept == IF r.accept \in {"absent", "empty"} THEN "*/*" ELSE r.accept
    <3>1. DOMAIN given \subseteq BrowserFields
      BY DEF Given
    <3>2. Go!createSale(r)
            = Over(OwnParams(r.token, OrEmpty(r.email), Go!clientIP(r)), Over(given, HeaderParams(accept)))
      BY GoSaleIs
    <3> HIDE DEF given, accept
    <3>3. SaleOurs(Go!createSale(r))
      BY <2>1, <3>1, <3>2, OursGoFirst
    <3> QED BY <1>5, <2>1, <3>3 DEF Go!Handle, Go!handlePay, Go!Ask, Go!Call, Called, Go!OrEmpty,
           Go!Nothing, Go!Decodes
  <2>2. CASE r.token \in Nothing \cup {"empty"}
    BY <1>5, <2>2 DEF Go!Handle, Go!handlePay, Go!Nothing, Nothing, Go!OrEmpty, Go!Decodes
  <2> QED BY <2>1, <2>2
<1>6. CASE r.route = "status"
  BY <1>6 DEF Go!Handle, Go!handleStatus, Go!AskStatus, Go!Ask, Go!Call, Called
<1>7. CASE r.route = "callback"
  <2>1. Go!Handle(r) = Go!Reply(Go!handleResultCallback(r))
    BY <1>7 DEF Go!Handle
  <2>2. CASE r.method = "GET"
    BY <1>7, <2>1, <2>2, GetIsRight DEF Go!handleResultCallback, Go!Redirect, Granted
  <2>3. CASE r.method = "POST" /\ Go!Handle(r).answer.code = 303
    <3>1. Go!validCallback(r.form) /\ Go!Handle(r).answer.query = Go!SignedQuery(Go!Fields(r.form))
      BY <1>1, <1>3, <1>7, <2>1, <2>3 DEF Go!handleResultCallback, Go!Redirect
    <3>2. Go!Handle(r).answer.query = SignedQuery(field)
      BY <1>1, <3>1, GoSigns
    <3> QED BY <1>1, <1>2, <1>7, <2>1, <2>3, <3>1, <3>2, SignedIsFound DEF Granted
  <2>4. CASE r.method = "POST" /\ Go!Handle(r).answer.code # 303
    BY <1>7, <2>1, <2>4 DEF Go!handleResultCallback, Go!Redirect
  <2> QED BY <2>2, <2>3, <2>4
<1>8. CASE r.route = "result"
  <2>1. Go!Handle(r) = Go!Reply(Go!handleResult(r))
    BY <1>8 DEF Go!Handle
  <2>2. field["orderid"] = <<>> => ~Wrong(r)
    BY <1>1, <1>8, NamelessIsRight
  <2> QED BY <1>1, <1>2, <1>8, <2>1, <2>2 DEF Go!handleResult, Go!Page, Granted
<1> QED BY <1>4, <1>5, <1>6, <1>7, <1>8

LEMMA GoUsual == ASSUME NEW r, Usually(r) PROVE Go!Handle(r) = Usual(r)
<1> USE DEF Usually, Go!Reply, Reply, Go!Answer, Answer, Go!NoCall, NoCall
<1>1. ASSUME NEW form, Plain(form) PROVE Go!Fields(form) = Once(form)
  BY <1>1, GoReads, PlainReadings DEF Once
<1>3. CASE r.route = "config"
  BY <1>3 DEF Usual, Go!Handle, Go!Ask, Ask, Go!Call, Call
<1>4. CASE r.route = "pay"
  <2> DEFINE given == [n \in DOMAIN Given(r.browser, BrowserFields) |->
                       OrEmpty(Given(r.browser, BrowserFields)[n])]
             accept == IF r.accept \in {"absent", "empty"} THEN "*/*" ELSE r.accept
  <2>1. given = Given(r.browser, BrowserFields) /\ accept = "text"
    BY <1>4 DEF OrdinaryPay, Given, OrEmpty, Nothing, Texts
  <2>2. OrEmpty(r.email) = r.email /\ Go!clientIP(r) = PlainAddress(Head(r.forwarded))
    BY <1>4 DEF OrdinaryPay, OrEmpty, Nothing, Go!clientIP, Go!PlainAddress, PlainAddress,
       Go!Last, Last
  <2>3. Go!createSale(r)
          = Over(OwnParams(r.token, OrEmpty(r.email), Go!clientIP(r)), Over(given, HeaderParams(accept)))
    BY GoSaleIs
  <2> HIDE DEF given, accept
  <2>4. Go!createSale(r) = UsualSale(r)
    BY <2>1, <2>2, <2>3 DEF UsualSale
  <2> QED BY <1>4, <2>4 DEF OrdinaryPay, Usual, Go!Handle, Go!handlePay, Go!Ask, Ask, Go!Call,
           Call, Go!Nothing, Go!OrEmpty, Go!Decodes
<1>5. CASE r.route = "status"
  <2>1. ASSUME NEW v \in {r.orderId, r.clientOrderId} PROVE Go!FirstOf(v) = FirstOf(v)
    BY DEF Go!FirstOf, FirstOf
  <2>2. ASSUME NEW v \in {r.orderId, r.clientOrderId}
        PROVE  (FirstOf(v) = <<>> <=> v = <<>>) /\ (v # <<>> => FirstOf(v) = Head(v))
    BY <1>5 DEF FirstOf
  <2> QED BY <1>5, <2>1, <2>2 DEF Usual, Go!Handle, Go!handleStatus, Go!AskStatus, AskStatus,
           Go!Ask, Ask, Go!Call, Call
<1>6. Go!SignedQuery(Go!Fields(Go!NoForm)) = <<>>
  BY <1>1, GoNoForm, GoSigns, PlainNoForm, NothingTravels
<1>7. CASE r.route = "callback"
  BY <1>1, <1>6, <1>7, GoSigns DEF Usual, Go!Handle, Go!handleResultCallback, Go!Redirect,
     Redirect, Go!validCallback
<1>8. CASE r.route = "result"
  BY <1>1, <1>8, GoSigns DEF Usual, Go!Handle, Go!handleResult, Go!Page, Page, Go!validCallback
<1> QED BY <1>3, <1>4, <1>5, <1>7, <1>8

LEMMA GoFinishes ==
  ASSUME NEW r, r.route \in {"config", "pay", "status"}, NEW g, AnyReply(g)
  PROVE  Returned(Go!Finish(r, g)) /\ (OrdinaryReply(g) => Go!Finish(r, g) = UsualFinish(r, g))
<1>1. Returned(Go!Finish(r, g))
  BY DEF AnyReply, Returned, Failing, Go!Finish, Go!Failed, Go!Config, Go!Sold, Go!Looked,
       Go!Answer, Go!Dropped
<1>2. ASSUME OrdinaryReply(g) PROVE Go!Finish(r, g) = UsualFinish(r, g)
  <2>1. CASE g.kind = "object"
    BY <1>2, <2>1 DEF OrdinaryReply, UsualFinish, Go!Finish, Go!Failed, Go!getEphemeralTicket,
       Go!MemberOf, MemberOf, Go!Config, Config, Go!Sold, Sold, Go!Looked, Looked, Go!Answer,
       Answer
  <2>2. CASE g.kind \in {"timeout", "text"}
    BY <2>2 DEF UsualFinish, Go!Finish, Go!Failed, Go!getEphemeralTicket, Go!MemberOf, MemberOf,
       Go!Config, Config, Go!Answer, Answer
  <2> QED BY <1>2, <2>1, <2>2 DEF OrdinaryReply
<1> QED BY <1>1, <1>2

LEMMA GoUnready == ASSUME NEW r, Asked(r) PROVE Refused(r, Go!Unready(r))
BY DEF Refused, Failing, Go!Unready, Go!Dropped, Go!Answer

-----------------------------------------------------------------------------
(* php-js *)

LEMMA PhpReads ==
  ASSUME NEW form PROVE Php!form_params(form) = [n \in DOMAIN form |-> FirstOf(form[n])]
BY DEF Php!form_params, Php!FirstOf, FirstOf

LEMMA PhpSigns ==
  ASSUME NEW field
  PROVE  /\ Php!Expected(field) = Expected(field)
         /\ Php!Signed(field) <=> Signed(field)
         /\ Php!SignedQuery(field) = SignedQuery(field)
BY DEF Php!Expected, Expected, Php!Checksum, Checksum, Php!Signed, Signed, Php!SignedQuery,
       SignedQuery

LEMMA PhpNoForm == Php!NoForm = NoForm
BY DEF Php!NoForm, NoForm, Php!ToSet, ToSet, Php!SignedNames, SignedNames

LEMMA PhpSaleIs ==
  ASSUME NEW r
  PROVE  Php!create_sale(r)
           = Over(OwnParams(r.token, TextOrEmpty(r.email), Php!client_ip(r)),
                  Over([n \in {m \in BrowserFields: r.browser[m] \in Texts} |-> r.browser[n]],
                       HeaderParams(IF r.accept \in {"absent", "empty"} THEN "*/*" ELSE r.accept)))
BY DEF Php!create_sale, Php!browser_params, Php!Over, Over, Php!OwnParams, OwnParams,
       Php!HeaderParams, HeaderParams, Php!Given, Given, Php!BrowserFields, BrowserFields,
       Php!OrEmpty, OrEmpty, Php!Nothing, Nothing, Php!Texts, Texts, Php!TextOrEmpty, TextOrEmpty,
       Php!request_header

LEMMA PhpHandles == ASSUME NEW r, Asked(r) PROVE Handled(r, Php!Handle(r))
<1> USE DEF Asked, Handled, Refused, RefusedBy, Failing, NoCall, Php!NoCall, Php!Reply, Php!Answer
<1> DEFINE field == [n \in DOMAIN r.form |-> FirstOf(r.form[n])]
<1>1. field \in Readings(r.form) /\ Php!form_params(r.form) = field
  BY ReadFirst, PhpReads
<1>2. Php!valid_callback(r.form) => Signed(field) /\ ~Wrong(r)
  BY <1>1, PhpSigns, SignedIsRight DEF Php!valid_callback
<1>3. ~Php!valid_callback(Php!NoForm)
  BY PhpNoForm, PhpReads, PhpSigns, NoFormSigned DEF Php!valid_callback
<1>4. CASE r.route = "config"
  BY <1>4 DEF Php!Handle, Php!Ask, Php!Call, Called
<1>5. CASE r.route = "pay"
  <2>1. CASE r.token \notin Nothing \cup {"empty"}
    <3> DEFINE given == [n \in {m \in BrowserFields: r.browser[m] \in Texts} |-> r.browser[n]]
               accept == IF r.accept \in {"absent", "empty"} THEN "*/*" ELSE r.accept
    <3>1. DOMAIN given \subseteq BrowserFields
      BY DEF Given
    <3>2. Php!create_sale(r)
            = Over(OwnParams(r.token, TextOrEmpty(r.email), Php!client_ip(r)), Over(given, HeaderParams(accept)))
      BY PhpSaleIs
    <3> HIDE DEF given, accept
    <3>3. SaleOurs(Php!create_sale(r))
      BY <2>1, <3>1, <3>2, OursGoFirst
    <3> QED BY <1>5, <2>1, <3>3 DEF Php!Handle, Php!handle_pay, Php!Ask, Php!Call, Called,
           Php!Texts
  <2>2. CASE r.token \in Nothing \cup {"empty"}
    BY <1>5, <2>2 DEF Php!Handle, Php!handle_pay, Php!Nothing, Nothing, Php!Texts
  <2> QED BY <2>1, <2>2
<1>6. CASE r.route = "status"
  BY <1>6 DEF Php!Handle, Php!handle_status, Php!AskStatus, Php!Ask, Php!Call, Called
<1>7. CASE r.route = "callback"
  <2>1. Php!Handle(r) = Php!Reply(Php!handle_result_callback(r))
    BY <1>7 DEF Php!Handle
  <2>2. CASE r.method = "GET"
    BY <1>7, <2>1, <2>2, GetIsRight DEF Php!handle_result_callback, Php!Redirect, Granted
  <2>3. CASE r.method = "POST" /\ Php!Handle(r).answer.code = 303
    <3>1. Php!valid_callback(r.form) /\ Php!Handle(r).answer.query = Php!SignedQuery(Php!form_params(r.form))
      BY <1>1, <1>3, <1>7, <2>1, <2>3 DEF Php!handle_result_callback, Php!Redirect
    <3>2. Php!Handle(r).answer.query = SignedQuery(field)
      BY <1>1, <3>1, PhpSigns
    <3> QED BY <1>1, <1>2, <1>7, <2>1, <2>3, <3>1, <3>2, SignedIsFound DEF Granted
  <2>4. CASE r.method = "POST" /\ Php!Handle(r).answer.code # 303
    BY <1>7, <2>1, <2>4 DEF Php!handle_result_callback, Php!Redirect
  <2> QED BY <2>2, <2>3, <2>4
<1>8. CASE r.route = "result"
  <2>1. Php!Handle(r) = Php!Reply(Php!handle_result(r))
    BY <1>8 DEF Php!Handle
  <2>2. field["orderid"] = <<>> => ~Wrong(r)
    BY <1>1, <1>8, NamelessIsRight
  <2> QED BY <1>1, <1>2, <1>8, <2>1, <2>2 DEF Php!handle_result, Php!Page, Granted
<1> QED BY <1>4, <1>5, <1>6, <1>7, <1>8

LEMMA PhpUsual == ASSUME NEW r, Usually(r) PROVE Php!Handle(r) = Usual(r)
<1> USE DEF Usually, Php!Reply, Reply, Php!Answer, Answer, Php!NoCall, NoCall
<1>1. ASSUME NEW form, Plain(form) PROVE Php!form_params(form) = Once(form)
  BY <1>1, PhpReads, PlainReadings DEF Once
<1>3. CASE r.route = "config"
  BY <1>3 DEF Usual, Php!Handle, Php!Ask, Ask, Php!Call, Call
<1>4. CASE r.route = "pay"
  <2> DEFINE given == [n \in {m \in BrowserFields: r.browser[m] \in Texts} |-> r.browser[n]]
             accept == IF r.accept \in {"absent", "empty"} THEN "*/*" ELSE r.accept
  <2>1. given = Given(r.browser, BrowserFields) /\ accept = "text"
    BY <1>4 DEF OrdinaryPay, Given, OrEmpty, Nothing, Texts
  <2>2. TextOrEmpty(r.email) = r.email /\ Php!client_ip(r) = PlainAddress(Head(r.forwarded))
    BY <1>4 DEF OrdinaryPay, OrEmpty, Nothing, Php!client_ip, Php!PlainAddress, PlainAddress,
       Php!Texts, Texts, Php!TextOrEmpty, TextOrEmpty, Php!request_header, Php!Last, Last
  <2>3. Php!create_sale(r)
          = Over(OwnParams(r.token, TextOrEmpty(r.email), Php!client_ip(r)), Over(given, HeaderParams(accept)))
    BY PhpSaleIs
  <2> HIDE DEF given, accept
  <2>4. Php!create_sale(r) = UsualSale(r)
    BY <2>1, <2>2, <2>3 DEF UsualSale
  <2> QED BY <1>4, <2>4 DEF OrdinaryPay, Usual, Php!Handle, Php!handle_pay, Php!Ask, Ask,
           Php!Call, Call, Php!Nothing, Php!Texts
<1>5. CASE r.route = "status"
  <2>1. ASSUME NEW v \in {r.orderId, r.clientOrderId} PROVE Php!FirstOf(v) = FirstOf(v)
    BY DEF Php!FirstOf, FirstOf
  <2>2. ASSUME NEW v \in {r.orderId, r.clientOrderId}
        PROVE  (FirstOf(v) = <<>> <=> v = <<>>) /\ (v # <<>> => FirstOf(v) = Head(v))
    BY <1>5 DEF FirstOf
  <2> QED BY <1>5, <2>1, <2>2 DEF Usual, Php!Handle, Php!handle_status, Php!AskStatus, AskStatus,
           Php!Ask, Ask, Php!Call, Call
<1>6. Php!SignedQuery(Php!form_params(Php!NoForm)) = <<>>
  BY <1>1, PhpNoForm, PhpSigns, PlainNoForm, NothingTravels
<1>7. CASE r.route = "callback"
  BY <1>1, <1>6, <1>7, PhpSigns DEF Usual, Php!Handle, Php!handle_result_callback, Php!Redirect,
     Redirect, Php!valid_callback
<1>8. CASE r.route = "result"
  BY <1>1, <1>8, PhpSigns DEF Usual, Php!Handle, Php!handle_result, Php!Page, Page,
     Php!valid_callback
<1> QED BY <1>3, <1>4, <1>5, <1>7, <1>8

LEMMA PhpFinishes ==
  ASSUME NEW r, r.route \in {"config", "pay", "status"}, NEW g, AnyReply(g)
  PROVE  Returned(Php!Finish(r, g)) /\ (OrdinaryReply(g) => Php!Finish(r, g) = UsualFinish(r, g))
<1>1. Returned(Php!Finish(r, g))
  BY DEF AnyReply, Returned, Failing, Php!Finish, Php!Failed, Php!Config, Php!Sold, Php!Looked,
       Php!Answer
<1>2. ASSUME OrdinaryReply(g) PROVE Php!Finish(r, g) = UsualFinish(r, g)
  <2>1. CASE g.kind = "object"
    BY <1>2, <2>1 DEF OrdinaryReply, UsualFinish, Php!Finish, Php!Failed,
       Php!get_ephemeral_ticket, Php!MemberOf, MemberOf, Php!Config, Config, Php!Sold, Sold,
       Php!Looked, Looked, Php!Answer, Answer
  <2>2. CASE g.kind \in {"timeout", "text"}
    BY <2>2 DEF UsualFinish, Php!Finish, Php!Failed, Php!get_ephemeral_ticket, Php!MemberOf,
       MemberOf, Php!Config, Config, Php!Answer, Answer
  <2> QED BY <1>2, <2>1, <2>2 DEF OrdinaryReply
<1> QED BY <1>1, <1>2

LEMMA PhpUnready == ASSUME NEW r, Asked(r) PROVE Refused(r, Php!Unready(r))
BY DEF Refused, Failing, Php!Unready, Php!Dropped, Php!Answer

-----------------------------------------------------------------------------
(* python-flask-js *)

LEMMA PythonReads ==
  ASSUME NEW form PROVE Python!Fields(form) = [n \in DOMAIN form |-> FirstOf(form[n])]
BY DEF Python!Fields, Python!FirstOf, FirstOf

LEMMA PythonSigns ==
  ASSUME NEW field
  PROVE  /\ Python!Expected(field) = Expected(field)
         /\ Python!Signed(field) <=> Signed(field)
         /\ Python!SignedQuery(field) = SignedQuery(field)
BY DEF Python!Expected, Expected, Python!Checksum, Checksum, Python!Signed, Signed,
       Python!SignedQuery, SignedQuery

LEMMA PythonNoForm == Python!NoForm = NoForm
BY DEF Python!NoForm, NoForm, Python!ToSet, ToSet, Python!SignedNames, SignedNames

LEMMA PythonSaleIs ==
  ASSUME NEW r
  PROVE  Python!create_sale(r)
           = Over(OwnParams(r.token, OrEmpty(r.email), Python!client_ip(r)),
                  Over(Given(r.browser, BrowserFields),
                       HeaderParams(IF r.accept \in {"absent", "empty"} THEN "*/*" ELSE r.accept)))
BY DEF Python!create_sale, Python!pick_browser, Python!Over, Over, Python!OwnParams, OwnParams,
       Python!HeaderParams, HeaderParams, Python!Given, Given, Python!BrowserFields,
       BrowserFields, Python!OrEmpty, OrEmpty, Python!Nothing, Nothing

LEMMA PythonHandles == ASSUME NEW r, Asked(r) PROVE Handled(r, Python!Handle(r))
<1> USE DEF Asked, Handled, Refused, RefusedBy, Failing, NoCall, Python!NoCall, Python!Reply,
            Python!Answer
<1> DEFINE field == [n \in DOMAIN r.form |-> FirstOf(r.form[n])]
<1>1. field \in Readings(r.form) /\ Python!Fields(r.form) = field
  BY ReadFirst, PythonReads
<1>2. Python!valid_callback(r.form) => Signed(field) /\ ~Wrong(r)
  BY <1>1, PythonSigns, SignedIsRight DEF Python!valid_callback
<1>3. ~Python!valid_callback(Python!NoForm)
  BY PythonNoForm, PythonReads, PythonSigns, NoFormSigned DEF Python!valid_callback
<1>4. CASE r.route = "config"
  BY <1>4 DEF Python!Handle, Python!Ask, Python!Call, Called
<1>5. CASE r.route = "pay"
  <2>1. CASE r.token \notin Nothing \cup {"empty"}
    <3> DEFINE given == Given(r.browser, BrowserFields)
               accept == IF r.accept \in {"absent", "empty"} THEN "*/*" ELSE r.accept
    <3>1. DOMAIN given \subseteq BrowserFields
      BY DEF Given
    <3>2. Python!create_sale(r)
            = Over(OwnParams(r.token, OrEmpty(r.email), Python!client_ip(r)), Over(given, HeaderParams(accept)))
      BY PythonSaleIs
    <3> HIDE DEF given, accept
    <3>3. SaleOurs(Python!create_sale(r))
      BY <2>1, <3>1, <3>2, OursGoFirst
    <3> QED BY <1>5, <2>1, <3>3 DEF Python!Handle, Python!pay, Python!Ask, Python!Call, Called,
           Python!Texts
  <2>2. CASE r.token \in Nothing \cup {"empty"}
    BY <1>5, <2>2 DEF Python!Handle, Python!pay, Python!Nothing, Nothing, Python!Texts
  <2> QED BY <2>1, <2>2
<1>6. CASE r.route = "status"
  BY <1>6 DEF Python!Handle, Python!status, Python!AskStatus, Python!Ask, Python!Call, Called
<1>7. CASE r.route = "callback"
  <2>1. Python!Handle(r) = Python!Reply(Python!result_callback(r))
    BY <1>7 DEF Python!Handle
  <2>2. CASE r.method = "GET"
    BY <1>7, <2>1, <2>2, GetIsRight DEF Python!result_callback, Python!Redirect, Granted,
       Python!result_url
  <2>3. CASE r.method = "POST" /\ Python!Handle(r).answer.code = 303
    <3>1. Python!valid_callback(r.form) /\ Python!Handle(r).answer.query = Python!SignedQuery(Python!Fields(r.form))
      BY <1>1, <1>3, <1>7, <2>1, <2>3 DEF Python!result_callback, Python!Redirect,
         Python!result_url
    <3>2. Python!Handle(r).answer.query = SignedQuery(field)
      BY <1>1, <3>1, PythonSigns
    <3> QED BY <1>1, <1>2, <1>7, <2>1, <2>3, <3>1, <3>2, SignedIsFound DEF Granted
  <2>4. CASE r.method = "POST" /\ Python!Handle(r).answer.code # 303
    BY <1>7, <2>1, <2>4 DEF Python!result_callback, Python!Redirect, Python!result_url
  <2> QED BY <2>2, <2>3, <2>4
<1>8. CASE r.route = "result"
  <2>1. Python!Handle(r) = Python!Reply(Python!result(r))
    BY <1>8 DEF Python!Handle
  <2>2. field["orderid"] = <<>> => ~Wrong(r)
    BY <1>1, <1>8, NamelessIsRight
  <2> QED BY <1>1, <1>2, <1>8, <2>1, <2>2 DEF Python!result, Python!Page, Granted
<1> QED BY <1>4, <1>5, <1>6, <1>7, <1>8

LEMMA PythonUsual == ASSUME NEW r, Usually(r) PROVE Python!Handle(r) = Usual(r)
<1> USE DEF Usually, Python!Reply, Reply, Python!Answer, Answer, Python!NoCall, NoCall
<1>1. ASSUME NEW form, Plain(form) PROVE Python!Fields(form) = Once(form)
  BY <1>1, PythonReads, PlainReadings DEF Once
<1>2. ASSUME NEW form, Plain(form) PROVE ~Python!raises(form)
  <2>1. Python!Fields(form)["control"] = FirstOf(form["control"])
    BY <1>1, <1>2, OnceControl
  <2>2. Python!IsAscii(FirstOf(form["control"])) <=> IsAscii(FirstOf(form["control"]))
    BY DEF Python!IsAscii, IsAscii, Python!ToSet, ToSet
  <2> QED BY <1>2, <2>1, <2>2 DEF Plain, Python!raises
<1>3. CASE r.route = "config"
  BY <1>3 DEF Usual, Python!Handle, Python!Ask, Ask, Python!Call, Call
<1>4. CASE r.route = "pay"
  <2> DEFINE given == Given(r.browser, BrowserFields)
             accept == IF r.accept \in {"absent", "empty"} THEN "*/*" ELSE r.accept
  <2>1. given = Given(r.browser, BrowserFields) /\ accept = "text"
    BY <1>4 DEF OrdinaryPay, Given, OrEmpty, Nothing, Texts
  <2>2. OrEmpty(r.email) = r.email /\ Python!client_ip(r) = PlainAddress(Head(r.forwarded))
    BY <1>4 DEF OrdinaryPay, OrEmpty, Nothing, Python!client_ip, Python!PlainAddress,
       PlainAddress, Python!Last, Last
  <2>3. Python!create_sale(r)
          = Over(OwnParams(r.token, OrEmpty(r.email), Python!client_ip(r)), Over(given, HeaderParams(accept)))
    BY PythonSaleIs
  <2> HIDE DEF given, accept
  <2>4. Python!create_sale(r) = UsualSale(r)
    BY <2>1, <2>2, <2>3 DEF UsualSale
  <2> QED BY <1>4, <2>4 DEF OrdinaryPay, Usual, Python!Handle, Python!pay, Python!Ask, Ask,
           Python!Call, Call, Python!Nothing, Python!Texts
<1>5. CASE r.route = "status"
  <2>1. ASSUME NEW v \in {r.orderId, r.clientOrderId} PROVE Python!FirstOf(v) = FirstOf(v)
    BY DEF Python!FirstOf, FirstOf
  <2>2. ASSUME NEW v \in {r.orderId, r.clientOrderId}
        PROVE  (FirstOf(v) = <<>> <=> v = <<>>) /\ (v # <<>> => FirstOf(v) = Head(v))
    BY <1>5 DEF FirstOf
  <2> QED BY <1>5, <2>1, <2>2 DEF Usual, Python!Handle, Python!status, Python!AskStatus,
           AskStatus, Python!Ask, Ask, Python!Call, Call
<1>6. Python!SignedQuery(Python!Fields(Python!NoForm)) = <<>>
  BY <1>1, PythonNoForm, PythonSigns, PlainNoForm, NothingTravels
<1>7. CASE r.route = "callback"
  BY <1>1, <1>2, <1>6, <1>7, PythonSigns DEF Usual, Python!Handle, Python!result_callback,
     Python!Redirect, Redirect, Python!valid_callback, Python!result_url
<1>8. CASE r.route = "result"
  BY <1>1, <1>2, <1>8, PythonSigns DEF Usual, Python!Handle, Python!result, Python!Page, Page,
     Python!valid_callback
<1> QED BY <1>3, <1>4, <1>5, <1>7, <1>8

LEMMA PythonFinishes ==
  ASSUME NEW r, r.route \in {"config", "pay", "status"}, NEW g, AnyReply(g)
  PROVE  Returned(Python!Finish(r, g)) /\ (OrdinaryReply(g) => Python!Finish(r, g) = UsualFinish(r, g))
<1>1. Returned(Python!Finish(r, g))
  BY DEF AnyReply, Returned, Failing, Python!Finish, Python!Failed, Python!Config, Python!Sold,
       Python!Looked, Python!Answer
<1>2. ASSUME OrdinaryReply(g) PROVE Python!Finish(r, g) = UsualFinish(r, g)
  <2>1. CASE g.kind = "object"
    BY <1>2, <2>1 DEF OrdinaryReply, UsualFinish, Python!Finish, Python!Failed,
       Python!get_ephemeral_ticket, Python!MemberOf, MemberOf, Python!Config, Config, Python!Sold,
       Sold, Python!Looked, Looked, Python!Answer, Answer
  <2>2. CASE g.kind \in {"timeout", "text"}
    BY <2>2 DEF UsualFinish, Python!Finish, Python!Failed, Python!get_ephemeral_ticket,
       Python!MemberOf, MemberOf, Python!Config, Config, Python!Answer, Answer
  <2> QED BY <1>2, <2>1, <2>2 DEF OrdinaryReply
<1> QED BY <1>1, <1>2

LEMMA PythonUnready == ASSUME NEW r, Asked(r) PROVE Refused(r, Python!Unready(r))
BY DEF Refused, Failing, Python!Unready, Python!Dropped, Python!Answer

-----------------------------------------------------------------------------
(* ruby-sinatra-js *)

LEMMA RubyReads ==
  ASSUME NEW form PROVE Ruby!Fields(form) = [n \in DOMAIN form |-> LastOf(form[n])]
BY DEF Ruby!Fields, Ruby!LastOf, LastOf, Ruby!Last, Last

LEMMA RubySigns ==
  ASSUME NEW field
  PROVE  /\ Ruby!Expected(field) = Expected(field)
         /\ Ruby!Signed(field) <=> Signed(field)
         /\ Ruby!SignedQuery(field) = SignedQuery(field)
BY DEF Ruby!Expected, Expected, Ruby!Checksum, Checksum, Ruby!Signed, Signed, Ruby!SignedQuery,
       SignedQuery

LEMMA RubyNoForm == Ruby!NoForm = NoForm
BY DEF Ruby!NoForm, NoForm, Ruby!ToSet, ToSet, Ruby!SignedNames, SignedNames

LEMMA RubySaleIs ==
  ASSUME NEW r
  PROVE  Ruby!sale(r)
           = Over(OwnParams(r.token, OrEmpty(r.email), Ruby!client_ip(r)),
                  Over([n \in DOMAIN Given(r.browser, BrowserFields) |->
                       OrEmpty(Given(r.browser, BrowserFields)[n])],
                       HeaderParams(IF r.accept \in {"absent", "empty"} THEN "*/*" ELSE r.accept)))
BY DEF Ruby!sale, Ruby!pick_browser, Ruby!Over, Over, Ruby!OwnParams, OwnParams,
       Ruby!HeaderParams, HeaderParams, Ruby!Given, Given, Ruby!BrowserFields, BrowserFields,
       Ruby!OrEmpty, OrEmpty, Ruby!Nothing, Nothing

(* What Ruby's params are made of is one of the sources. *)
LEMMA RubyParams ==
  ASSUME NEW r
  PROVE  /\ Ruby!params(r) \in Sources(r)
         /\ [n \in DOMAIN Ruby!params(r) |-> LastOf(Ruby!params(r)[n])] \in Readings(Ruby!params(r))
         /\ Plain(r.form) /\ r.query = NoForm /\ r.body = "form" =>
              Plain(Ruby!params(r)) /\ Once(Ruby!params(r)) = Once(r.form)
<1> DEFINE given == Ruby!params(r)
<1>1. given = Merged(IF r.body = "form" THEN r.form ELSE NoForm, r.query)
  BY RubyNoForm DEF Ruby!params, Ruby!Merged, Merged
<1>2. given \in Sources(r)
  BY <1>1 DEF Sources
<1>3. ASSUME Plain(r.form), r.query = NoForm, r.body = "form" PROVE Plain(given) /\ Once(given) = Once(r.form)
  <2>1. DOMAIN given = DOMAIN r.form /\ \A n \in DOMAIN given: given[n] = r.form[n]
    BY <1>1, <1>3, NoFormIs DEF Merged, Plain
  <2>2. "control" \in DOMAIN r.form
    BY <1>3, NoFormIs DEF Plain
  <2> HIDE DEF given
  <2> QED BY <1>3, <2>1, <2>2 DEF Plain, Once
<1>4. [n \in DOMAIN given |-> LastOf(given[n])] \in Readings(given)
  BY DEF Readings
<1> QED BY <1>2, <1>3, <1>4

LEMMA RubyHandles == ASSUME NEW r, Asked(r) PROVE Handled(r, Ruby!Handle(r))
<1> USE DEF Asked, Handled, Refused, RefusedBy, Failing, NoCall, Ruby!NoCall, Ruby!Reply,
            Ruby!Answer
<1> DEFINE field == [n \in DOMAIN r.form |-> LastOf(r.form[n])]
<1>1. field \in Readings(r.form) /\ Ruby!Fields(r.form) = field
  BY ReadLast, RubyReads
<1>2. Ruby!valid_callback(r.form) => Signed(field) /\ ~Wrong(r)
  BY <1>1, RubySigns, SignedIsRight DEF Ruby!valid_callback
<1>3. Ruby!valid_callback(Ruby!params(r)) =>
        (r.route = "result" \/ ~Wrong(r)) /\ Found(r, Ruby!SignedQuery(Ruby!Fields(Ruby!params(r))))
  <2>1. PICK given: given = Ruby!params(r)
    OBVIOUS
  <2>2. PICK signed: signed = [n \in DOMAIN given |-> LastOf(given[n])]
    OBVIOUS
  <2>3. given \in Sources(r) /\ signed \in Readings(given) /\ Ruby!Fields(given) = signed
    BY <2>1, <2>2, RubyParams, RubyReads
  <2>4. Ruby!valid_callback(given) => Signed(signed)
    BY <2>3, RubySigns DEF Ruby!valid_callback
  <2>5. Signed(signed) => (r.route = "result" \/ ~Wrong(r)) /\ Found(r, SignedQuery(signed))
    BY <2>3 DEF Wrong, Unsigned, Found
  <2> QED BY <2>1, <2>3, <2>4, <2>5, RubySigns
<1>4. CASE r.route = "config"
  BY <1>4 DEF Ruby!Handle, Ruby!Ask, Ruby!Call, Called
<1>5. CASE r.route = "pay"
  <2>1. CASE r.token \notin Nothing \cup {"empty"}
    <3> DEFINE given == [n \in DOMAIN Given(r.browser, BrowserFields) |->
                         OrEmpty(Given(r.browser, BrowserFields)[n])]
               accept == IF r.accept \in {"absent", "empty"} THEN "*/*" ELSE r.accept
    <3>1. DOMAIN given \subseteq BrowserFields
      BY DEF Given
    <3>2. Ruby!sale(r)
            = Over(OwnParams(r.token, OrEmpty(r.email), Ruby!client_ip(r)), Over(given, HeaderParams(accept)))
      BY RubySaleIs
    <3> HIDE DEF given, accept
    <3>3. SaleOurs(Ruby!sale(r))
      BY <2>1, <3>1, <3>2, OursGoFirst
    <3> QED BY <1>5, <2>1, <3>3 DEF Ruby!Handle, Ruby!pay, Ruby!Ask, Ruby!Call, Called, Ruby!Texts
  <2>2. CASE r.token \in Nothing \cup {"empty"}
    BY <1>5, <2>2 DEF Ruby!Handle, Ruby!pay, Ruby!Nothing, Nothing, Ruby!Texts
  <2> QED BY <2>1, <2>2
<1>6. CASE r.route = "status"
  BY <1>6 DEF Ruby!Handle, Ruby!status, Ruby!AskStatus, Ruby!Ask, Ruby!Call, Called
<1>7. CASE r.route = "callback"
  <2>1. Ruby!Handle(r) = Ruby!Reply(Ruby!result_callback(r))
    BY <1>7 DEF Ruby!Handle
  <2>2. CASE r.method = "GET"
    BY <1>7, <2>1, <2>2, GetIsRight DEF Ruby!result_callback, Ruby!Redirect, Granted,
       Ruby!result_url
  <2>3. CASE r.method = "POST" /\ Ruby!Handle(r).answer.code = 303
    <3>1. /\ Ruby!valid_callback(Ruby!params(r))
          /\ Ruby!Handle(r).answer.query = Ruby!SignedQuery(Ruby!Fields(Ruby!params(r)))
      BY <1>7, <2>1, <2>3 DEF Ruby!result_callback, Ruby!Redirect, Ruby!result_url
    <3> QED BY <1>3, <1>7, <2>1, <2>3, <3>1 DEF Granted, Ruby!result_callback, Ruby!Redirect
  <2>4. CASE r.method = "POST" /\ Ruby!Handle(r).answer.code # 303
    BY <1>7, <2>1, <2>4 DEF Ruby!result_callback, Ruby!Redirect, Ruby!result_url
  <2> QED BY <2>2, <2>3, <2>4
<1>8. CASE r.route = "result"
  <2>1. Ruby!Handle(r) = Ruby!Reply(Ruby!result(r))
    BY <1>8 DEF Ruby!Handle
  <2>2. field["orderid"] = <<>> => ~Wrong(r)
    BY <1>1, <1>8, NamelessIsRight
  <2> QED BY <1>1, <1>2, <1>8, <2>1, <2>2 DEF Ruby!result, Ruby!Page, Granted
<1> QED BY <1>4, <1>5, <1>6, <1>7, <1>8

LEMMA RubyUsual == ASSUME NEW r, Usually(r) PROVE Ruby!Handle(r) = Usual(r)
<1> USE DEF Usually, Ruby!Reply, Reply, Ruby!Answer, Answer, Ruby!NoCall, NoCall
<1>1. ASSUME NEW form, Plain(form) PROVE Ruby!Fields(form) = Once(form)
  BY <1>1, RubyReads, PlainReadings DEF Once
<1>3. CASE r.route = "config"
  BY <1>3 DEF Usual, Ruby!Handle, Ruby!Ask, Ask, Ruby!Call, Call
<1>4. CASE r.route = "pay"
  <2> DEFINE given == [n \in DOMAIN Given(r.browser, BrowserFields) |->
                       OrEmpty(Given(r.browser, BrowserFields)[n])]
             accept == IF r.accept \in {"absent", "empty"} THEN "*/*" ELSE r.accept
  <2>1. given = Given(r.browser, BrowserFields) /\ accept = "text"
    BY <1>4 DEF OrdinaryPay, Given, OrEmpty, Nothing, Texts
  <2>2. OrEmpty(r.email) = r.email /\ Ruby!client_ip(r) = PlainAddress(Head(r.forwarded))
    BY <1>4 DEF OrdinaryPay, OrEmpty, Nothing, Ruby!client_ip, Ruby!PlainAddress, PlainAddress,
       Ruby!Last, Last
  <2>3. Ruby!sale(r)
          = Over(OwnParams(r.token, OrEmpty(r.email), Ruby!client_ip(r)), Over(given, HeaderParams(accept)))
    BY RubySaleIs
  <2> HIDE DEF given, accept
  <2>4. Ruby!sale(r) = UsualSale(r)
    BY <2>1, <2>2, <2>3 DEF UsualSale
  <2> QED BY <1>4, <2>4 DEF OrdinaryPay, Usual, Ruby!Handle, Ruby!pay, Ruby!Ask, Ask, Ruby!Call,
           Call, Ruby!Nothing, Ruby!Texts
<1>5. CASE r.route = "status"
  <2>1. ASSUME NEW v \in {r.orderId, r.clientOrderId} PROVE Ruby!LastOf(v) = FirstOf(v)
    <3>1. Ruby!LastOf(v) = LastOf(v)
      BY DEF Ruby!LastOf, LastOf, Ruby!Last, Last
    <3>2. v = <<>> \/ \E w: v = <<w>>
      BY <1>5
    <3> HIDE DEF Usually
    <3> QED BY <3>1, <3>2, OneOrNone
  <2>2. ASSUME NEW v \in {r.orderId, r.clientOrderId}
        PROVE  (FirstOf(v) = <<>> <=> v = <<>>) /\ (v # <<>> => FirstOf(v) = Head(v))
    BY <1>5 DEF FirstOf
  <2> QED BY <1>5, <2>1, <2>2 DEF Usual, Ruby!Handle, Ruby!status, Ruby!AskStatus, AskStatus,
           Ruby!Ask, Ask, Ruby!Call, Call
<1>7. CASE r.route = "callback"
  <2>1. r.method = "POST" => Ruby!Fields(Ruby!params(r)) = Once(r.form)
    <3>1. PICK given: given = Ruby!params(r)
      OBVIOUS
    <3>2. r.method = "POST" => Plain(given) /\ Once(given) = Once(r.form)
      BY <1>7, <3>1, RubyParams
    <3> QED BY <1>1, <3>1, <3>2
  <2> QED BY <1>7, <2>1, RubySigns DEF Usual, Ruby!Handle, Ruby!result_callback, Ruby!Redirect,
           Redirect, Ruby!valid_callback, Ruby!result_url
<1>8. CASE r.route = "result"
  BY <1>1, <1>8, RubySigns DEF Usual, Ruby!Handle, Ruby!result, Ruby!Page, Page,
     Ruby!valid_callback
<1> QED BY <1>3, <1>4, <1>5, <1>7, <1>8

LEMMA RubyFinishes ==
  ASSUME NEW r, r.route \in {"config", "pay", "status"}, NEW g, AnyReply(g)
  PROVE  Returned(Ruby!Finish(r, g)) /\ (OrdinaryReply(g) => Ruby!Finish(r, g) = UsualFinish(r, g))
<1>1. Returned(Ruby!Finish(r, g))
  BY DEF AnyReply, Returned, Failing, Ruby!Finish, Ruby!Failed, Ruby!Config, Ruby!Sold,
       Ruby!Looked, Ruby!Answer
<1>2. ASSUME OrdinaryReply(g) PROVE Ruby!Finish(r, g) = UsualFinish(r, g)
  <2>1. CASE g.kind = "object"
    BY <1>2, <2>1 DEF OrdinaryReply, UsualFinish, Ruby!Finish, Ruby!Failed, Ruby!ephemeral_ticket,
       Ruby!MemberOf, MemberOf, Ruby!Config, Config, Ruby!Sold, Sold, Ruby!Looked, Looked,
       Ruby!Answer, Answer
  <2>2. CASE g.kind \in {"timeout", "text"}
    BY <2>2 DEF UsualFinish, Ruby!Finish, Ruby!Failed, Ruby!ephemeral_ticket, Ruby!MemberOf,
       MemberOf, Ruby!Config, Config, Ruby!Answer, Answer
  <2> QED BY <1>2, <2>1, <2>2 DEF OrdinaryReply
<1> QED BY <1>1, <1>2

LEMMA RubyUnready == ASSUME NEW r, Asked(r) PROVE Refused(r, Ruby!Unready(r))
BY DEF Refused, Failing, Ruby!Unready, Ruby!Dropped, Ruby!Answer

-----------------------------------------------------------------------------
(* java-springboot-js *)

LEMMA JavaReads ==
  ASSUME NEW form PROVE Java!formParams(form) = [n \in DOMAIN form |-> FirstOf(form[n])]
BY DEF Java!formParams, Java!FirstOf, FirstOf

LEMMA JavaSigns ==
  ASSUME NEW field
  PROVE  /\ Java!Expected(field) = Expected(field)
         /\ Java!Signed(field) <=> Signed(field)
         /\ Java!SignedQuery(field) = SignedQuery(field)
BY DEF Java!Expected, Expected, Java!Checksum, Checksum, Java!Signed, Signed, Java!SignedQuery,
       SignedQuery

LEMMA JavaSaleIs ==
  ASSUME NEW r
  PROVE  Java!createSale(r)
           = Over(OwnParams(r.token, OrEmpty(r.email), Java!clientIp(r)),
                  Over([n \in {m \in BrowserFields: r.browser[m] \notin Nothing} |-> r.browser[n]],
                       HeaderParams(IF r.accept \in {"absent", "empty"} THEN "*/*" ELSE r.accept)))
BY DEF Java!createSale, Java!browserParams, Java!Over, Over, Java!OwnParams, OwnParams,
       Java!HeaderParams, HeaderParams, Java!Given, Given, Java!BrowserFields, BrowserFields,
       Java!OrEmpty, OrEmpty, Java!Nothing, Nothing

LEMMA JavaHandles == ASSUME NEW r, Asked(r) PROVE Handled(r, Java!Handle(r))
<1> USE DEF Asked, Handled, Refused, RefusedBy, Failing, NoCall, Java!NoCall, Java!Reply,
            Java!Answer
<1> DEFINE field == [n \in DOMAIN r.form |-> FirstOf(r.form[n])]
<1>1. field \in Readings(r.form) /\ Java!formParams(r.form) = field
  BY ReadFirst, JavaReads
<1>2. Java!valid(r.form) => Signed(field) /\ ~Wrong(r)
  BY <1>1, JavaSigns, SignedIsRight DEF Java!valid
<1>4. CASE r.route = "config"
  BY <1>4 DEF Java!Handle, Java!Ask, Java!Call, Called
<1>5. CASE r.route = "pay"
  <2>1. CASE r.token \notin Nothing \cup {"empty"}
    <3> DEFINE given == [n \in {m \in BrowserFields: r.browser[m] \notin Nothing} |-> r.browser[n]]
               accept == IF r.accept \in {"absent", "empty"} THEN "*/*" ELSE r.accept
    <3>1. DOMAIN given \subseteq BrowserFields
      BY DEF Given
    <3>2. Java!createSale(r)
            = Over(OwnParams(r.token, OrEmpty(r.email), Java!clientIp(r)), Over(given, HeaderParams(accept)))
      BY JavaSaleIs
    <3> HIDE DEF given, accept
    <3>3. SaleOurs(Java!createSale(r))
      BY <2>1, <3>1, <3>2, OursGoFirst
    <3> QED BY <1>5, <2>1, <3>3 DEF Java!Handle, Java!pay, Java!Ask, Java!Call, Called,
           Java!OrEmpty, Java!Nothing, Java!Readable
  <2>2. CASE r.token \in Nothing \cup {"empty"}
    BY <1>5, <2>2 DEF Java!Handle, Java!pay, Java!Nothing, Nothing, Java!OrEmpty, Java!Readable
  <2> QED BY <2>1, <2>2
<1>6. CASE r.route = "status"
  BY <1>6 DEF Java!Handle, Java!status, Java!AskStatus, Java!Ask, Java!Call, Called
<1>7. CASE r.route = "callback"
  <2>1. Java!Handle(r) = Java!Reply(Java!resultCallback(r))
    BY <1>7 DEF Java!Handle
  <2>2. CASE r.method = "GET"
    BY <1>7, <2>1, <2>2, GetIsRight DEF Java!resultCallback, Java!Redirect, Granted, Java!seeOther
  <2>3. CASE r.method = "POST" /\ Java!Handle(r).answer.code = 303
    <3>1. Java!valid(r.form) /\ Java!Handle(r).answer.query = Java!SignedQuery(Java!formParams(r.form))
      BY <1>1, <1>7, <2>1, <2>3 DEF Java!resultCallback, Java!Redirect, Java!seeOther
    <3>2. Java!Handle(r).answer.query = SignedQuery(field)
      BY <1>1, <3>1, JavaSigns
    <3> QED BY <1>1, <1>2, <1>7, <2>1, <2>3, <3>1, <3>2, SignedIsFound DEF Granted
  <2>4. CASE r.method = "POST" /\ Java!Handle(r).answer.code # 303
    BY <1>7, <2>1, <2>4 DEF Java!resultCallback, Java!Redirect, Java!seeOther
  <2> QED BY <2>2, <2>3, <2>4
<1>8. CASE r.route = "result"
  <2>1. Java!Handle(r) = Java!Reply(Java!result(r))
    BY <1>8 DEF Java!Handle
  <2>2. field["orderid"] = <<>> => ~Wrong(r)
    BY <1>1, <1>8, NamelessIsRight
  <2> QED BY <1>1, <1>2, <1>8, <2>1, <2>2 DEF Java!result, Java!Page, Granted
<1> QED BY <1>4, <1>5, <1>6, <1>7, <1>8

LEMMA JavaUsual == ASSUME NEW r, Usually(r) PROVE Java!Handle(r) = Usual(r)
<1> USE DEF Usually, Java!Reply, Reply, Java!Answer, Answer, Java!NoCall, NoCall
<1>1. ASSUME NEW form, Plain(form) PROVE Java!formParams(form) = Once(form)
  BY <1>1, JavaReads, PlainReadings DEF Once
<1>3. CASE r.route = "config"
  BY <1>3 DEF Usual, Java!Handle, Java!Ask, Ask, Java!Call, Call
<1>4. CASE r.route = "pay"
  <2> DEFINE given == [n \in {m \in BrowserFields: r.browser[m] \notin Nothing} |-> r.browser[n]]
             accept == IF r.accept \in {"absent", "empty"} THEN "*/*" ELSE r.accept
  <2>1. given = Given(r.browser, BrowserFields) /\ accept = "text"
    BY <1>4 DEF OrdinaryPay, Given, OrEmpty, Nothing, Texts
  <2>2. OrEmpty(r.email) = r.email /\ Java!clientIp(r) = PlainAddress(Head(r.forwarded))
    BY <1>4 DEF OrdinaryPay, OrEmpty, Nothing, Java!clientIp, Java!PlainAddress, PlainAddress,
       Java!Last, Last
  <2>3. Java!createSale(r)
          = Over(OwnParams(r.token, OrEmpty(r.email), Java!clientIp(r)), Over(given, HeaderParams(accept)))
    BY JavaSaleIs
  <2> HIDE DEF given, accept
  <2>4. Java!createSale(r) = UsualSale(r)
    BY <2>1, <2>2, <2>3 DEF UsualSale
  <2> QED BY <1>4, <2>4 DEF OrdinaryPay, Usual, Java!Handle, Java!pay, Java!Ask, Ask, Java!Call,
           Call, Java!Nothing, Java!OrEmpty, Java!Readable
<1>5. CASE r.route = "status"
  <2>1. ASSUME NEW v \in {r.orderId, r.clientOrderId} PROVE Java!CommaJoined(v) = FirstOf(v)
    <3>1. Java!CommaJoined(v) = CommaJoined(v)
      BY DEF Java!CommaJoined, CommaJoined, Java!FirstOf, FirstOf, Java!FlattenSeq, FlattenSeq
    <3>2. v = <<>> \/ \E w: v = <<w>>
      BY <1>5
    <3> HIDE DEF Usually
    <3> QED BY <3>1, <3>2, OneOrNone
  <2>2. ASSUME NEW v \in {r.orderId, r.clientOrderId}
        PROVE  (FirstOf(v) = <<>> <=> v = <<>>) /\ (v # <<>> => FirstOf(v) = Head(v))
    BY <1>5 DEF FirstOf
  <2> QED BY <1>5, <2>1, <2>2 DEF Usual, Java!Handle, Java!status, Java!AskStatus, AskStatus,
           Java!Ask, Ask, Java!Call, Call
<1>7. CASE r.route = "callback"
  BY <1>1, <1>7, JavaSigns DEF Usual, Java!Handle, Java!resultCallback, Java!Redirect, Redirect,
     Java!valid, Java!seeOther
<1>8. CASE r.route = "result"
  BY <1>1, <1>8, JavaSigns DEF Usual, Java!Handle, Java!result, Java!Page, Page, Java!valid
<1> QED BY <1>3, <1>4, <1>5, <1>7, <1>8

LEMMA JavaFinishes ==
  ASSUME NEW r, r.route \in {"config", "pay", "status"}, NEW g, AnyReply(g)
  PROVE  Returned(Java!Finish(r, g)) /\ (OrdinaryReply(g) => Java!Finish(r, g) = UsualFinish(r, g))
<1>1. Returned(Java!Finish(r, g))
  BY DEF AnyReply, Returned, Failing, Java!Finish, Java!Failed, Java!Config, Java!Sold,
       Java!Looked, Java!Answer
<1>2. ASSUME OrdinaryReply(g) PROVE Java!Finish(r, g) = UsualFinish(r, g)
  <2>1. CASE g.kind = "object"
    BY <1>2, <2>1 DEF OrdinaryReply, UsualFinish, Java!Finish, Java!Failed, Java!ephemeralTicket,
       Java!MemberOf, MemberOf, Java!Config, Config, Java!Sold, Sold, Java!Looked, Looked,
       Java!Answer, Answer
  <2>2. CASE g.kind \in {"timeout", "text"}
    BY <2>2 DEF UsualFinish, Java!Finish, Java!Failed, Java!ephemeralTicket, Java!MemberOf,
       MemberOf, Java!Config, Config, Java!Answer, Answer
  <2> QED BY <1>2, <2>1, <2>2 DEF OrdinaryReply
<1> QED BY <1>1, <1>2

LEMMA JavaUnready == ASSUME NEW r, Asked(r) PROVE Refused(r, Java!Unready(r))
BY DEF Refused, Failing, Java!Unready, Java!Dropped, Java!Answer

-----------------------------------------------------------------------------
(* kotlin-ktor-js *)

LEMMA KotlinReads ==
  ASSUME NEW form PROVE Kotlin!formParams(form) = [n \in DOMAIN form |-> FirstOf(form[n])]
BY DEF Kotlin!formParams, Kotlin!FirstOf, FirstOf

LEMMA KotlinSigns ==
  ASSUME NEW field
  PROVE  /\ Kotlin!Expected(field) = Expected(field)
         /\ Kotlin!Signed(field) <=> Signed(field)
         /\ Kotlin!SignedQuery(field) = SignedQuery(field)
BY DEF Kotlin!Expected, Expected, Kotlin!Checksum, Checksum, Kotlin!Signed, Signed,
       Kotlin!SignedQuery, SignedQuery

LEMMA KotlinNoForm == Kotlin!NoForm = NoForm
BY DEF Kotlin!NoForm, NoForm, Kotlin!ToSet, ToSet, Kotlin!SignedNames, SignedNames

LEMMA KotlinSaleIs ==
  ASSUME NEW r
  PROVE  Kotlin!sale(r)
           = Over(OwnParams(r.token, Kotlin!text(r.email), Kotlin!clientIp(r)),
                  Over([n \in {m \in BrowserFields: r.browser[m] \notin Nothing \cup {"list"}} |->
                       r.browser[n]],
                       HeaderParams(IF r.accept \in {"absent", "empty"} THEN "*/*" ELSE r.accept)))
BY DEF Kotlin!sale, Kotlin!browserParams, Kotlin!Over, Over, Kotlin!OwnParams, OwnParams,
       Kotlin!HeaderParams, HeaderParams, Kotlin!Given, Given, Kotlin!BrowserFields,
       BrowserFields, Kotlin!OrEmpty, OrEmpty, Kotlin!Nothing, Nothing, Kotlin!text

LEMMA KotlinHandles == ASSUME NEW r, Asked(r) PROVE Handled(r, Kotlin!Handle(r))
<1> USE DEF Asked, Handled, Refused, RefusedBy, Failing, NoCall, Kotlin!NoCall, Kotlin!Reply,
            Kotlin!Answer
<1> DEFINE field == [n \in DOMAIN r.form |-> FirstOf(r.form[n])]
<1>1. field \in Readings(r.form) /\ Kotlin!formParams(r.form) = field
  BY ReadFirst, KotlinReads
<1>2. Kotlin!valid(r.form) => Signed(field) /\ ~Wrong(r)
  BY <1>1, KotlinSigns, SignedIsRight DEF Kotlin!valid
<1>3. ~Kotlin!valid(Kotlin!NoForm)
  BY KotlinNoForm, KotlinReads, KotlinSigns, NoFormSigned DEF Kotlin!valid
<1>4. CASE r.route = "config"
  BY <1>4 DEF Kotlin!Handle, Kotlin!Ask, Kotlin!Call, Called
<1>5. CASE r.route = "pay"
  <2>1. CASE r.token \notin Nothing \cup {"empty"}
    <3> DEFINE given == [n \in {m \in BrowserFields: r.browser[m] \notin Nothing \cup {"list"}} |->
                         r.browser[n]]
               accept == IF r.accept \in {"absent", "empty"} THEN "*/*" ELSE r.accept
    <3>1. DOMAIN given \subseteq BrowserFields
      BY DEF Given
    <3>2. Kotlin!sale(r)
            = Over(OwnParams(r.token, Kotlin!text(r.email), Kotlin!clientIp(r)), Over(given, HeaderParams(accept)))
      BY KotlinSaleIs
    <3> HIDE DEF given, accept
    <3>3. SaleOurs(Kotlin!sale(r))
      BY <2>1, <3>1, <3>2, OursGoFirst
    <3> QED BY <1>5, <2>1, <3>3 DEF Kotlin!Handle, Kotlin!pay, Kotlin!Ask, Kotlin!Call, Called,
           Kotlin!text, Kotlin!Nothing
  <2>2. CASE r.token \in Nothing \cup {"empty"}
    BY <1>5, <2>2 DEF Kotlin!Handle, Kotlin!pay, Kotlin!Nothing, Nothing, Kotlin!text
  <2> QED BY <2>1, <2>2
<1>6. CASE r.route = "status"
  BY <1>6 DEF Kotlin!Handle, Kotlin!status, Kotlin!AskStatus, Kotlin!Ask, Kotlin!Call, Called
<1>7. CASE r.route = "callback"
  <2>1. Kotlin!Handle(r) = Kotlin!Reply(Kotlin!resultCallback(r))
    BY <1>7 DEF Kotlin!Handle
  <2>2. CASE r.method = "GET"
    BY <1>7, <2>1, <2>2, GetIsRight DEF Kotlin!resultCallback, Kotlin!Redirect, Granted,
       Kotlin!seeOther
  <2>3. CASE r.method = "POST" /\ Kotlin!Handle(r).answer.code = 303
    <3>1. Kotlin!valid(r.form) /\ Kotlin!Handle(r).answer.query = Kotlin!SignedQuery(Kotlin!formParams(r.form))
      BY <1>1, <1>3, <1>7, <2>1, <2>3 DEF Kotlin!resultCallback, Kotlin!Redirect, Kotlin!seeOther
    <3>2. Kotlin!Handle(r).answer.query = SignedQuery(field)
      BY <1>1, <3>1, KotlinSigns
    <3> QED BY <1>1, <1>2, <1>7, <2>1, <2>3, <3>1, <3>2, SignedIsFound DEF Granted
  <2>4. CASE r.method = "POST" /\ Kotlin!Handle(r).answer.code # 303
    BY <1>7, <2>1, <2>4 DEF Kotlin!resultCallback, Kotlin!Redirect, Kotlin!seeOther
  <2> QED BY <2>2, <2>3, <2>4
<1>8. CASE r.route = "result"
  <2>1. Kotlin!Handle(r) = Kotlin!Reply(Kotlin!result(r))
    BY <1>8 DEF Kotlin!Handle
  <2>2. field["orderid"] = <<>> => ~Wrong(r)
    BY <1>1, <1>8, NamelessIsRight
  <2> QED BY <1>1, <1>2, <1>8, <2>1, <2>2 DEF Kotlin!result, Kotlin!Page, Granted
<1> QED BY <1>4, <1>5, <1>6, <1>7, <1>8

LEMMA KotlinUsual == ASSUME NEW r, Usually(r) PROVE Kotlin!Handle(r) = Usual(r)
<1> USE DEF Usually, Kotlin!Reply, Reply, Kotlin!Answer, Answer, Kotlin!NoCall, NoCall
<1>1. ASSUME NEW form, Plain(form) PROVE Kotlin!formParams(form) = Once(form)
  BY <1>1, KotlinReads, PlainReadings DEF Once
<1>3. CASE r.route = "config"
  BY <1>3 DEF Usual, Kotlin!Handle, Kotlin!Ask, Ask, Kotlin!Call, Call
<1>4. CASE r.route = "pay"
  <2> DEFINE given == [n \in {m \in BrowserFields: r.browser[m] \notin Nothing \cup {"list"}} |->
                       r.browser[n]]
             accept == IF r.accept \in {"absent", "empty"} THEN "*/*" ELSE r.accept
  <2>1. given = Given(r.browser, BrowserFields) /\ accept = "text"
    BY <1>4 DEF OrdinaryPay, Given, OrEmpty, Nothing, Texts
  <2>2. Kotlin!text(r.email) = r.email /\ Kotlin!clientIp(r) = PlainAddress(Head(r.forwarded))
    BY <1>4 DEF OrdinaryPay, OrEmpty, Nothing, Kotlin!clientIp, Kotlin!PlainAddress, PlainAddress,
       Kotlin!text, Kotlin!Nothing, Kotlin!Last, Last
  <2>3. Kotlin!sale(r)
          = Over(OwnParams(r.token, Kotlin!text(r.email), Kotlin!clientIp(r)), Over(given, HeaderParams(accept)))
    BY KotlinSaleIs
  <2> HIDE DEF given, accept
  <2>4. Kotlin!sale(r) = UsualSale(r)
    BY <2>1, <2>2, <2>3 DEF UsualSale
  <2> QED BY <1>4, <2>4 DEF OrdinaryPay, Usual, Kotlin!Handle, Kotlin!pay, Kotlin!Ask, Ask,
           Kotlin!Call, Call, Kotlin!Nothing, Kotlin!text
<1>5. CASE r.route = "status"
  <2>1. ASSUME NEW v \in {r.orderId, r.clientOrderId} PROVE Kotlin!FirstOf(v) = FirstOf(v)
    BY DEF Kotlin!FirstOf, FirstOf
  <2>2. ASSUME NEW v \in {r.orderId, r.clientOrderId}
        PROVE  (FirstOf(v) = <<>> <=> v = <<>>) /\ (v # <<>> => FirstOf(v) = Head(v))
    BY <1>5 DEF FirstOf
  <2> QED BY <1>5, <2>1, <2>2 DEF Usual, Kotlin!Handle, Kotlin!status, Kotlin!AskStatus,
           AskStatus, Kotlin!Ask, Ask, Kotlin!Call, Call
<1>6. Kotlin!SignedQuery(Kotlin!formParams(Kotlin!NoForm)) = <<>>
  BY <1>1, KotlinNoForm, KotlinSigns, PlainNoForm, NothingTravels
<1>7. CASE r.route = "callback"
  BY <1>1, <1>6, <1>7, KotlinSigns DEF Usual, Kotlin!Handle, Kotlin!resultCallback,
     Kotlin!Redirect, Redirect, Kotlin!valid, Kotlin!seeOther
<1>8. CASE r.route = "result"
  BY <1>1, <1>8, KotlinSigns DEF Usual, Kotlin!Handle, Kotlin!result, Kotlin!Page, Page,
     Kotlin!valid
<1> QED BY <1>3, <1>4, <1>5, <1>7, <1>8

LEMMA KotlinFinishes ==
  ASSUME NEW r, r.route \in {"config", "pay", "status"}, NEW g, AnyReply(g)
  PROVE  Returned(Kotlin!Finish(r, g)) /\ (OrdinaryReply(g) => Kotlin!Finish(r, g) = UsualFinish(r, g))
<1>1. Returned(Kotlin!Finish(r, g))
  BY DEF AnyReply, Returned, Failing, Kotlin!Finish, Kotlin!Failed, Kotlin!Config, Kotlin!Sold,
       Kotlin!Looked, Kotlin!Answer
<1>2. ASSUME OrdinaryReply(g) PROVE Kotlin!Finish(r, g) = UsualFinish(r, g)
  <2>1. CASE g.kind = "object"
    BY <1>2, <2>1 DEF OrdinaryReply, UsualFinish, Kotlin!Finish, Kotlin!Failed,
       Kotlin!ephemeralTicket, Kotlin!MemberOf, MemberOf, Kotlin!Config, Config, Kotlin!Sold,
       Sold, Kotlin!Looked, Looked, Kotlin!Answer, Answer
  <2>2. CASE g.kind \in {"timeout", "text"}
    BY <2>2 DEF UsualFinish, Kotlin!Finish, Kotlin!Failed, Kotlin!ephemeralTicket,
       Kotlin!MemberOf, MemberOf, Kotlin!Config, Config, Kotlin!Answer, Answer
  <2> QED BY <1>2, <2>1, <2>2 DEF OrdinaryReply
<1> QED BY <1>1, <1>2

LEMMA KotlinUnready == ASSUME NEW r, Asked(r) PROVE Refused(r, Kotlin!Unready(r))
BY DEF Refused, Failing, Kotlin!Unready, Kotlin!Dropped, Kotlin!Answer

-----------------------------------------------------------------------------
(* rust-axum-js *)

LEMMA RustReads ==
  ASSUME NEW form PROVE Rust!form_params(form) = [n \in DOMAIN form |-> FirstOf(form[n])]
BY DEF Rust!form_params, Rust!FirstOf, FirstOf

LEMMA RustSigns ==
  ASSUME NEW field
  PROVE  /\ Rust!Expected(field) = Expected(field)
         /\ Rust!Signed(field) <=> Signed(field)
         /\ Rust!SignedQuery(field) = SignedQuery(field)
BY DEF Rust!Expected, Expected, Rust!Checksum, Checksum, Rust!Signed, Signed, Rust!SignedQuery,
       SignedQuery

LEMMA RustSaleIs ==
  ASSUME NEW r
  PROVE  Rust!create_sale(r)
           = Over(OwnParams(r.token, OrEmpty(r.email), Rust!client_ip(r)),
                  Over(Given(r.browser, BrowserFields),
                       HeaderParams(IF r.accept \in {"absent", "empty"} THEN "*/*" ELSE r.accept)))
BY DEF Rust!create_sale, Rust!browser_params, Rust!Over, Over, Rust!OwnParams, OwnParams,
       Rust!HeaderParams, HeaderParams, Rust!Given, Given, Rust!BrowserFields, BrowserFields,
       Rust!OrEmpty, OrEmpty, Rust!Nothing, Nothing

LEMMA RustHandles == ASSUME NEW r, Asked(r) PROVE Handled(r, Rust!Handle(r))
<1> USE DEF Asked, Handled, Refused, RefusedBy, Failing, NoCall, Rust!NoCall, Rust!Reply,
            Rust!Answer
<1> DEFINE field == [n \in DOMAIN r.form |-> FirstOf(r.form[n])]
<1>1. field \in Readings(r.form) /\ Rust!form_params(r.form) = field
  BY ReadFirst, RustReads
<1>2. Rust!valid_callback(r.form) => Signed(field) /\ ~Wrong(r)
  BY <1>1, RustSigns, SignedIsRight DEF Rust!valid_callback
<1>4. CASE r.route = "config"
  BY <1>4 DEF Rust!Handle, Rust!Ask, Rust!Call, Called
<1>5. CASE r.route = "pay"
  <2>1. CASE r.token \notin Nothing \cup {"empty"}
    <3> DEFINE given == Given(r.browser, BrowserFields)
               accept == IF r.accept \in {"absent", "empty"} THEN "*/*" ELSE r.accept
    <3>1. DOMAIN given \subseteq BrowserFields
      BY DEF Given
    <3>2. Rust!create_sale(r)
            = Over(OwnParams(r.token, OrEmpty(r.email), Rust!client_ip(r)), Over(given, HeaderParams(accept)))
      BY RustSaleIs
    <3> HIDE DEF given, accept
    <3>3. SaleOurs(Rust!create_sale(r))
      BY <2>1, <3>1, <3>2, OursGoFirst
    <3> QED BY <1>5, <2>1, <3>3 DEF Rust!Handle, Rust!pay, Rust!Ask, Rust!Call, Called,
           Rust!OrEmpty, Rust!Nothing, Rust!Decodes, Rust!Texts
  <2>2. CASE r.token \in Nothing \cup {"empty"}
    BY <1>5, <2>2 DEF Rust!Handle, Rust!pay, Rust!Nothing, Nothing, Rust!OrEmpty, Rust!Decodes,
       Rust!Texts
  <2> QED BY <2>1, <2>2
<1>6. CASE r.route = "status"
  BY <1>6 DEF Rust!Handle, Rust!status, Rust!AskStatus, Rust!Ask, Rust!Call, Called
<1>7. CASE r.route = "callback"
  <2>1. Rust!Handle(r) = Rust!Reply(Rust!result_callback(r))
    BY <1>7 DEF Rust!Handle
  <2>2. CASE r.method = "GET"
    BY <1>7, <2>1, <2>2, GetIsRight DEF Rust!result_callback, Rust!Redirect, Granted
  <2>3. CASE r.method = "POST" /\ Rust!Handle(r).answer.code = 303
    <3>1. Rust!valid_callback(r.form) /\ Rust!Handle(r).answer.query = Rust!SignedQuery(Rust!form_params(r.form))
      BY <1>1, <1>7, <2>1, <2>3 DEF Rust!result_callback, Rust!Redirect
    <3>2. Rust!Handle(r).answer.query = SignedQuery(field)
      BY <1>1, <3>1, RustSigns
    <3> QED BY <1>1, <1>2, <1>7, <2>1, <2>3, <3>1, <3>2, SignedIsFound DEF Granted
  <2>4. CASE r.method = "POST" /\ Rust!Handle(r).answer.code # 303
    BY <1>7, <2>1, <2>4 DEF Rust!result_callback, Rust!Redirect
  <2> QED BY <2>2, <2>3, <2>4
<1>8. CASE r.route = "result"
  <2>1. Rust!Handle(r) = Rust!Reply(Rust!result(r))
    BY <1>8 DEF Rust!Handle
  <2>2. field["orderid"] = <<>> => ~Wrong(r)
    BY <1>1, <1>8, NamelessIsRight
  <2> QED BY <1>1, <1>2, <1>8, <2>1, <2>2 DEF Rust!result, Rust!Page, Granted
<1> QED BY <1>4, <1>5, <1>6, <1>7, <1>8

LEMMA RustUsual == ASSUME NEW r, Usually(r) PROVE Rust!Handle(r) = Usual(r)
<1> USE DEF Usually, Rust!Reply, Reply, Rust!Answer, Answer, Rust!NoCall, NoCall
<1>1. ASSUME NEW form, Plain(form) PROVE Rust!form_params(form) = Once(form)
  BY <1>1, RustReads, PlainReadings DEF Once
<1>3. CASE r.route = "config"
  BY <1>3 DEF Usual, Rust!Handle, Rust!Ask, Ask, Rust!Call, Call
<1>4. CASE r.route = "pay"
  <2> DEFINE given == Given(r.browser, BrowserFields)
             accept == IF r.accept \in {"absent", "empty"} THEN "*/*" ELSE r.accept
  <2>1. given = Given(r.browser, BrowserFields) /\ accept = "text"
    BY <1>4 DEF OrdinaryPay, Given, OrEmpty, Nothing, Texts
  <2>2. OrEmpty(r.email) = r.email /\ Rust!client_ip(r) = PlainAddress(Head(r.forwarded))
    BY <1>4 DEF OrdinaryPay, OrEmpty, Nothing, Rust!client_ip, Rust!PlainAddress, PlainAddress,
       Rust!Last, Last
  <2>3. Rust!create_sale(r)
          = Over(OwnParams(r.token, OrEmpty(r.email), Rust!client_ip(r)), Over(given, HeaderParams(accept)))
    BY RustSaleIs
  <2> HIDE DEF given, accept
  <2>4. Rust!create_sale(r) = UsualSale(r)
    BY <2>1, <2>2, <2>3 DEF UsualSale
  <2> QED BY <1>4, <2>4 DEF OrdinaryPay, Usual, Rust!Handle, Rust!pay, Rust!Ask, Ask, Rust!Call,
           Call, Rust!Nothing, Rust!OrEmpty, Rust!Decodes, Rust!Texts
<1>5. CASE r.route = "status"
  <2>1. ASSUME NEW v \in {r.orderId, r.clientOrderId} PROVE Rust!FirstOf(v) = FirstOf(v)
    BY DEF Rust!FirstOf, FirstOf
  <2>2. ASSUME NEW v \in {r.orderId, r.clientOrderId}
        PROVE  (FirstOf(v) = <<>> <=> v = <<>>) /\ (v # <<>> => FirstOf(v) = Head(v))
    BY <1>5 DEF FirstOf
  <2> QED BY <1>5, <2>1, <2>2 DEF Usual, Rust!Handle, Rust!status, Rust!AskStatus, AskStatus,
           Rust!Ask, Ask, Rust!Call, Call
<1>6. Rust!SignedQuery(Rust!form_params(NoForm)) = <<>>
  BY <1>1, RustSigns, PlainNoForm, NothingTravels
<1>7. CASE r.route = "callback"
  BY <1>1, <1>6, <1>7, RustSigns DEF Usual, Rust!Handle, Rust!result_callback, Rust!Redirect,
     Redirect, Rust!valid_callback
<1>8. CASE r.route = "result"
  BY <1>1, <1>8, RustSigns DEF Usual, Rust!Handle, Rust!result, Rust!Page, Page,
     Rust!valid_callback
<1> QED BY <1>3, <1>4, <1>5, <1>7, <1>8

LEMMA RustFinishes ==
  ASSUME NEW r, r.route \in {"config", "pay", "status"}, NEW g, AnyReply(g)
  PROVE  Returned(Rust!Finish(r, g)) /\ (OrdinaryReply(g) => Rust!Finish(r, g) = UsualFinish(r, g))
<1>1. Returned(Rust!Finish(r, g))
  BY DEF AnyReply, Returned, Failing, Rust!Finish, Rust!Failed, Rust!Config, Rust!Sold,
       Rust!Looked, Rust!Answer
<1>2. ASSUME OrdinaryReply(g) PROVE Rust!Finish(r, g) = UsualFinish(r, g)
  <2>1. CASE g.kind = "object"
    BY <1>2, <2>1 DEF OrdinaryReply, UsualFinish, Rust!Finish, Rust!Failed, Rust!ephemeral_ticket,
       Rust!MemberOf, MemberOf, Rust!Config, Config, Rust!Sold, Sold, Rust!Looked, Looked,
       Rust!Answer, Answer
  <2>2. CASE g.kind \in {"timeout", "text"}
    BY <2>2 DEF UsualFinish, Rust!Finish, Rust!Failed, Rust!ephemeral_ticket, Rust!MemberOf,
       MemberOf, Rust!Config, Config, Rust!Answer, Answer
  <2> QED BY <1>2, <2>1, <2>2 DEF OrdinaryReply
<1> QED BY <1>1, <1>2

LEMMA RustUnready == ASSUME NEW r, Asked(r) PROVE Refused(r, Rust!Unready(r))
BY DEF Refused, Failing, Rust!Unready, Rust!Dropped, Rust!Answer

-----------------------------------------------------------------------------
(* dotnet-aspnetcore-js *)

LEMMA DotnetReads ==
  ASSUME NEW form PROVE Dotnet!FirstValues(form) = [n \in DOMAIN form |-> FirstOf(form[n])]
BY DEF Dotnet!FirstValues, Dotnet!FirstOf, FirstOf

LEMMA DotnetSigns ==
  ASSUME NEW field
  PROVE  /\ Dotnet!Expected(field) = Expected(field)
         /\ Dotnet!Signed(field) <=> Signed(field)
         /\ Dotnet!SignedQuery(field) = SignedQuery(field)
BY DEF Dotnet!Expected, Expected, Dotnet!Checksum, Checksum, Dotnet!Signed, Signed,
       Dotnet!SignedQuery, SignedQuery

LEMMA DotnetNoForm == Dotnet!NoForm = NoForm
BY DEF Dotnet!NoForm, NoForm, Dotnet!ToSet, ToSet, Dotnet!SignedNames, SignedNames

LEMMA DotnetSaleIs ==
  ASSUME NEW r
  PROVE  Dotnet!CreateSale(r)
           = Over(OwnParams(r.token, OrEmpty(r.email), Dotnet!ClientIp(r)),
                  Over(Given(r.browser, BrowserFields),
                       HeaderParams(IF r.accept \in {"absent", "empty"} THEN "*/*" ELSE r.accept)))
BY DEF Dotnet!CreateSale, Dotnet!BrowserParams, Dotnet!Over, Over, Dotnet!OwnParams, OwnParams,
       Dotnet!HeaderParams, HeaderParams, Dotnet!Given, Given, Dotnet!BrowserFields,
       BrowserFields, Dotnet!OrEmpty, OrEmpty, Dotnet!Nothing, Nothing

LEMMA DotnetHandles == ASSUME NEW r, Asked(r) PROVE Handled(r, Dotnet!Handle(r))
<1> USE DEF Asked, Handled, Refused, RefusedBy, Failing, NoCall, Dotnet!NoCall, Dotnet!Reply,
            Dotnet!Answer
<1> DEFINE field == [n \in DOMAIN r.form |-> FirstOf(r.form[n])]
<1>1. field \in Readings(r.form) /\ Dotnet!FirstValues(r.form) = field
  BY ReadFirst, DotnetReads
<1>2. Dotnet!ValidCallback(r.form) => Signed(field) /\ ~Wrong(r)
  BY <1>1, DotnetSigns, SignedIsRight DEF Dotnet!ValidCallback
<1>3. ~Dotnet!ValidCallback(Dotnet!NoForm)
  BY DotnetNoForm, DotnetReads, DotnetSigns, NoFormSigned DEF Dotnet!ValidCallback
<1>4. CASE r.route = "config"
  BY <1>4 DEF Dotnet!Handle, Dotnet!Ask, Dotnet!Call, Called
<1>5. CASE r.route = "pay"
  <2>1. CASE r.token \notin Nothing \cup {"empty"}
    <3> DEFINE given == Given(r.browser, BrowserFields)
               accept == IF r.accept \in {"absent", "empty"} THEN "*/*" ELSE r.accept
    <3>1. DOMAIN given \subseteq BrowserFields
      BY DEF Given
    <3>2. Dotnet!CreateSale(r)
            = Over(OwnParams(r.token, OrEmpty(r.email), Dotnet!ClientIp(r)), Over(given, HeaderParams(accept)))
      BY DotnetSaleIs
    <3> HIDE DEF given, accept
    <3>3. SaleOurs(Dotnet!CreateSale(r))
      BY <2>1, <3>1, <3>2, OursGoFirst
    <3> QED BY <1>5, <2>1, <3>3 DEF Dotnet!Handle, Dotnet!Pay, Dotnet!Ask, Dotnet!Call, Called,
           Dotnet!NullUsed, Dotnet!Decodes
  <2>2. CASE r.token \in Nothing \cup {"empty"}
    BY <1>5, <2>2 DEF Dotnet!Handle, Dotnet!Pay, Dotnet!Nothing, Nothing, Dotnet!NullUsed,
       Dotnet!Decodes
  <2> QED BY <2>1, <2>2
<1>6. CASE r.route = "status"
  BY <1>6 DEF Dotnet!Handle, Dotnet!Status, Dotnet!AskStatus, Dotnet!Ask, Dotnet!Call, Called
<1>7. CASE r.route = "callback"
  <2>1. Dotnet!Handle(r) = Dotnet!Reply(Dotnet!ResultCallback(r))
    BY <1>7 DEF Dotnet!Handle
  <2>2. CASE r.method = "GET"
    BY <1>7, <2>1, <2>2, GetIsRight DEF Dotnet!ResultCallback, Dotnet!Redirect, Granted
  <2>3. CASE r.method = "POST" /\ Dotnet!Handle(r).answer.code = 303
    <3>1. Dotnet!ValidCallback(r.form) /\ Dotnet!Handle(r).answer.query = Dotnet!SignedQuery(Dotnet!FirstValues(r.form))
      BY <1>1, <1>3, <1>7, <2>1, <2>3 DEF Dotnet!ResultCallback, Dotnet!Redirect
    <3>2. Dotnet!Handle(r).answer.query = SignedQuery(field)
      BY <1>1, <3>1, DotnetSigns
    <3> QED BY <1>1, <1>2, <1>7, <2>1, <2>3, <3>1, <3>2, SignedIsFound DEF Granted
  <2>4. CASE r.method = "POST" /\ Dotnet!Handle(r).answer.code # 303
    BY <1>7, <2>1, <2>4 DEF Dotnet!ResultCallback, Dotnet!Redirect
  <2> QED BY <2>2, <2>3, <2>4
<1>8. CASE r.route = "result"
  <2>1. Dotnet!Handle(r) = Dotnet!Reply(Dotnet!Result(r))
    BY <1>8 DEF Dotnet!Handle
  <2>2. field["orderid"] = <<>> => ~Wrong(r)
    BY <1>1, <1>8, NamelessIsRight
  <2> QED BY <1>1, <1>2, <1>8, <2>1, <2>2 DEF Dotnet!Result, Dotnet!Page, Granted
<1> QED BY <1>4, <1>5, <1>6, <1>7, <1>8

LEMMA DotnetUsual == ASSUME NEW r, Usually(r) PROVE Dotnet!Handle(r) = Usual(r)
<1> USE DEF Usually, Dotnet!Reply, Reply, Dotnet!Answer, Answer, Dotnet!NoCall, NoCall
<1>1. ASSUME NEW form, Plain(form) PROVE Dotnet!FirstValues(form) = Once(form)
  BY <1>1, DotnetReads, PlainReadings DEF Once
<1>3. CASE r.route = "config"
  BY <1>3 DEF Usual, Dotnet!Handle, Dotnet!Ask, Ask, Dotnet!Call, Call
<1>4. CASE r.route = "pay"
  <2> DEFINE given == Given(r.browser, BrowserFields)
             accept == IF r.accept \in {"absent", "empty"} THEN "*/*" ELSE r.accept
  <2>1. given = Given(r.browser, BrowserFields) /\ accept = "text"
    BY <1>4 DEF OrdinaryPay, Given, OrEmpty, Nothing, Texts
  <2>2. OrEmpty(r.email) = r.email /\ Dotnet!ClientIp(r) = PlainAddress(Head(r.forwarded))
    BY <1>4 DEF OrdinaryPay, OrEmpty, Nothing, Dotnet!ClientIp, Dotnet!PlainAddress, PlainAddress,
       Dotnet!Last, Last
  <2>3. Dotnet!CreateSale(r)
          = Over(OwnParams(r.token, OrEmpty(r.email), Dotnet!ClientIp(r)), Over(given, HeaderParams(accept)))
    BY DotnetSaleIs
  <2> HIDE DEF given, accept
  <2>4. Dotnet!CreateSale(r) = UsualSale(r)
    BY <2>1, <2>2, <2>3 DEF UsualSale
  <2> QED BY <1>4, <2>4 DEF OrdinaryPay, Usual, Dotnet!Handle, Dotnet!Pay, Dotnet!Ask, Ask,
           Dotnet!Call, Call, Dotnet!Nothing, Dotnet!NullUsed, Dotnet!Decodes
<1>5. CASE r.route = "status"
  <2>1. ASSUME NEW v \in {r.orderId, r.clientOrderId} PROVE Dotnet!CommaJoined(v) = FirstOf(v)
    <3>1. Dotnet!CommaJoined(v) = CommaJoined(v)
      BY DEF Dotnet!CommaJoined, CommaJoined, Dotnet!FirstOf, FirstOf, Dotnet!FlattenSeq,
         FlattenSeq
    <3>2. v = <<>> \/ \E w: v = <<w>>
      BY <1>5
    <3> HIDE DEF Usually
    <3> QED BY <3>1, <3>2, OneOrNone
  <2>2. ASSUME NEW v \in {r.orderId, r.clientOrderId}
        PROVE  (FirstOf(v) = <<>> <=> v = <<>>) /\ (v # <<>> => FirstOf(v) = Head(v))
    BY <1>5 DEF FirstOf
  <2> QED BY <1>5, <2>1, <2>2 DEF Usual, Dotnet!Handle, Dotnet!Status, Dotnet!AskStatus,
           AskStatus, Dotnet!Ask, Ask, Dotnet!Call, Call
<1>6. Dotnet!SignedQuery(Dotnet!FirstValues(Dotnet!NoForm)) = <<>>
  BY <1>1, DotnetNoForm, DotnetSigns, PlainNoForm, NothingTravels
<1>7. CASE r.route = "callback"
  BY <1>1, <1>6, <1>7, DotnetSigns DEF Usual, Dotnet!Handle, Dotnet!ResultCallback,
     Dotnet!Redirect, Redirect, Dotnet!ValidCallback
<1>8. CASE r.route = "result"
  BY <1>1, <1>8, DotnetSigns DEF Usual, Dotnet!Handle, Dotnet!Result, Dotnet!Page, Page,
     Dotnet!ValidCallback
<1> QED BY <1>3, <1>4, <1>5, <1>7, <1>8

LEMMA DotnetFinishes ==
  ASSUME NEW r, r.route \in {"config", "pay", "status"}, NEW g, AnyReply(g)
  PROVE  Returned(Dotnet!Finish(r, g)) /\ (OrdinaryReply(g) => Dotnet!Finish(r, g) = UsualFinish(r, g))
<1>1. Returned(Dotnet!Finish(r, g))
  BY DEF AnyReply, Returned, Failing, Dotnet!Finish, Dotnet!Failed, Dotnet!Config, Dotnet!Sold,
       Dotnet!Looked, Dotnet!Answer
<1>2. ASSUME OrdinaryReply(g) PROVE Dotnet!Finish(r, g) = UsualFinish(r, g)
  <2>1. CASE g.kind = "object"
    BY <1>2, <2>1 DEF OrdinaryReply, UsualFinish, Dotnet!Finish, Dotnet!Failed,
       Dotnet!GetEphemeralTicket, Dotnet!MemberOf, MemberOf, Dotnet!Config, Config, Dotnet!Sold,
       Sold, Dotnet!Looked, Looked, Dotnet!Answer, Answer
  <2>2. CASE g.kind \in {"timeout", "text"}
    BY <2>2 DEF UsualFinish, Dotnet!Finish, Dotnet!Failed, Dotnet!GetEphemeralTicket,
       Dotnet!MemberOf, MemberOf, Dotnet!Config, Config, Dotnet!Answer, Answer
  <2> QED BY <1>2, <2>1, <2>2 DEF OrdinaryReply
<1> QED BY <1>1, <1>2

LEMMA DotnetUnready == ASSUME NEW r, Asked(r) PROVE Refused(r, Dotnet!Unready(r))
BY DEF Refused, Failing, Dotnet!Unready, Dotnet!Dropped, Dotnet!Answer

-----------------------------------------------------------------------------
(* Whichever port is deployed. *)

LEMMA PortHandles ==
  ASSUME NEW p \in Ports, NEW r, Asked(r) PROVE Handled(r, HandleBy(p, r))
<1>1. CASE p = "nodejs-express-js"
  BY <1>1, ExpressHandles DEF HandleBy
<1>2. CASE p = "nodejs-express-ts-js"
  BY <1>2, ExpressTsHandles DEF HandleBy
<1>3. CASE p = "nextjs"
  BY <1>3, NextJsHandles DEF HandleBy
<1>4. CASE p = "go-js"
  BY <1>4, GoHandles DEF HandleBy
<1>5. CASE p = "php-js"
  BY <1>5, PhpHandles DEF HandleBy
<1>6. CASE p = "python-flask-js"
  BY <1>6, PythonHandles DEF HandleBy
<1>7. CASE p = "ruby-sinatra-js"
  BY <1>7, RubyHandles DEF HandleBy
<1>8. CASE p = "java-springboot-js"
  BY <1>8, JavaHandles DEF HandleBy
<1>9. CASE p = "kotlin-ktor-js"
  BY <1>9, KotlinHandles DEF HandleBy
<1>10. CASE p = "rust-axum-js"
  BY <1>10, RustHandles DEF HandleBy
<1>11. CASE p = "dotnet-aspnetcore-js"
  BY <1>11, DotnetHandles DEF HandleBy
<1> QED BY <1>1, <1>2, <1>3, <1>4, <1>5, <1>6, <1>7, <1>8, <1>9, <1>10, <1>11, ServersAssumption

LEMMA PortFinishes ==
  ASSUME NEW p \in Ports, NEW r, r.route \in {"config", "pay", "status"}, NEW g, AnyReply(g)
  PROVE  Returned(FinishBy(p, r, g))
<1>1. CASE p = "nodejs-express-js"
  BY <1>1, ExpressFinishes DEF FinishBy
<1>2. CASE p = "nodejs-express-ts-js"
  BY <1>2, ExpressTsFinishes DEF FinishBy
<1>3. CASE p = "nextjs"
  BY <1>3, NextJsFinishes DEF FinishBy
<1>4. CASE p = "go-js"
  BY <1>4, GoFinishes DEF FinishBy
<1>5. CASE p = "php-js"
  BY <1>5, PhpFinishes DEF FinishBy
<1>6. CASE p = "python-flask-js"
  BY <1>6, PythonFinishes DEF FinishBy
<1>7. CASE p = "ruby-sinatra-js"
  BY <1>7, RubyFinishes DEF FinishBy
<1>8. CASE p = "java-springboot-js"
  BY <1>8, JavaFinishes DEF FinishBy
<1>9. CASE p = "kotlin-ktor-js"
  BY <1>9, KotlinFinishes DEF FinishBy
<1>10. CASE p = "rust-axum-js"
  BY <1>10, RustFinishes DEF FinishBy
<1>11. CASE p = "dotnet-aspnetcore-js"
  BY <1>11, DotnetFinishes DEF FinishBy
<1> QED BY <1>1, <1>2, <1>3, <1>4, <1>5, <1>6, <1>7, <1>8, <1>9, <1>10, <1>11, ServersAssumption

LEMMA PortUnready ==
  ASSUME NEW p \in Ports, NEW r, Asked(r) PROVE Refused(r, UnreadyBy(p, r))
<1>1. CASE p = "nodejs-express-js"
  BY <1>1, ExpressUnready DEF UnreadyBy
<1>2. CASE p = "nodejs-express-ts-js"
  BY <1>2, ExpressTsUnready DEF UnreadyBy
<1>3. CASE p = "nextjs"
  BY <1>3, NextJsUnready DEF UnreadyBy
<1>4. CASE p = "go-js"
  BY <1>4, GoUnready DEF UnreadyBy
<1>5. CASE p = "php-js"
  BY <1>5, PhpUnready DEF UnreadyBy
<1>6. CASE p = "python-flask-js"
  BY <1>6, PythonUnready DEF UnreadyBy
<1>7. CASE p = "ruby-sinatra-js"
  BY <1>7, RubyUnready DEF UnreadyBy
<1>8. CASE p = "java-springboot-js"
  BY <1>8, JavaUnready DEF UnreadyBy
<1>9. CASE p = "kotlin-ktor-js"
  BY <1>9, KotlinUnready DEF UnreadyBy
<1>10. CASE p = "rust-axum-js"
  BY <1>10, RustUnready DEF UnreadyBy
<1>11. CASE p = "dotnet-aspnetcore-js"
  BY <1>11, DotnetUnready DEF UnreadyBy
<1> QED BY <1>1, <1>2, <1>3, <1>4, <1>5, <1>6, <1>7, <1>8, <1>9, <1>10, <1>11, ServersAssumption

(* Only a call is timed. *)
LEMMA OnlyCallsAreTimed ==
  ASSUME NEW p \in Ports PROVE TimedBy(p) \subseteq {"asked", "headers"}
BY ServersAssumption
   DEF TimedBy, Express!Timed, ExpressTs!Timed, NextJs!Timed, Go!Timed, Php!Timed, Python!Timed,
       Ruby!Timed, Java!Timed, Kotlin!Timed, Rust!Timed, Dotnet!Timed

(* The requests that arrive, the one that a redirect leads to among them. *)
LEMMA RequestsAreAsked == ASSUME NEW r \in Requests PROVE Asked(r)
BY ServersAssumption DEF RequestRecords, Asked

LEMMA ResultIsAsked ==
  ASSUME NEW query
  PROVE  Asked(ResultRequest(query)) /\ ResultRequest(query).route = "result"
<1> DEFINE base == CHOOSE r \in Requests: r.route = "result"
<1>1. base \in RequestRecords /\ base.route = "result"
  BY ServersAssumption
<1>2. ResultRequest(query) = [base EXCEPT !.form = AsForm(query)]
  BY DEF ResultRequest
<1> HIDE DEF base
<1> QED BY <1>1, <1>2 DEF RequestRecords, Asked

(* A request is handled before anything else happens to it. *)
ServedAs(r, h) ==
  /\ Handled(r, h) /\ request' = r /\ call' = h.call /\ answer' = h.answer
  /\ stage' = IF h.call = NoCall THEN "answered" ELSE "asked"

LEMMA ServeHandles ==
  ASSUME port \in Ports, NEW r, Asked(r), Serve(r)
  PROVE  port' = port /\ \E h: ServedAs(r, h)
<1>1. CASE ready
  <2>1. ServedAs(r, HandleBy(port, r))
    BY <1>1, PortHandles DEF Serve, ServedAs
  <2> QED BY <2>1 DEF Serve
<1>2. CASE ~ready
  <2> DEFINE h == Reply(UnreadyBy(port, r))
  <2>1. h.call = NoCall /\ h.answer = UnreadyBy(port, r)
    BY DEF Reply
  <2>2. Handled(r, h)
    BY <2>1, PortUnready DEF Handled
  <2>3. request' = r /\ call' = h.call /\ answer' = h.answer
        /\ stage' = IF h.call = NoCall THEN "answered" ELSE "asked"
    BY <1>2 DEF Serve
  <2>4. ServedAs(r, h)
    BY <2>2, <2>3 DEF ServedAs
  <2> QED BY <2>4 DEF Serve
<1> QED BY <1>1, <1>2

-----------------------------------------------------------------------------
(* The server's invariant: a call is out only for a request that needs one *)
(* and has had no answer yet.                                              *)

Waiting ==
  stage \in {"asked", "headers"} =>
    request.route \in {"config", "pay", "status"} /\ call # NoCall /\ answer.code = 0

OursIfSale == call.command = "sale" => SaleOurs(call.params)

ServerInv ==
  /\ port \in Ports /\ stage \in {"none", "asked", "headers", "answered"}
  /\ request = NoRequest \/ Asked(request)
  /\ stage # "none" => Asked(request)
  /\ Waiting
  /\ OursIfSale

LEMMA ServerStarts == Init => ServerInv
BY DEF Init, ServerInv, Waiting, OursIfSale, NoCall

LEMMA ServedKeeps ==
  ASSUME ServerInv, NEW r, Asked(r), Serve(r) PROVE ServerInv'
<1>1. PICK h: ServedAs(r, h)
  BY ServeHandles DEF ServerInv
<1>2. port' \in Ports
  BY DEF ServerInv, Serve
<1>3. CASE Called(r, h)
  <2>1. h.call # NoCall
    BY <1>3 DEF Called, NoCall
  <2>2. stage' = "asked" /\ Waiting'
    BY <1>1, <1>3, <2>1 DEF ServedAs, Waiting, Called
  <2>3. OursIfSale'
    BY <1>1, <1>3 DEF ServedAs, OursIfSale, Called
  <2> QED BY <1>1, <1>2, <2>2, <2>3 DEF ServedAs, ServerInv
<1>4. CASE h.call = NoCall
  <2>1. stage' = "answered" /\ Waiting'
    BY <1>1, <1>4 DEF ServedAs, Waiting
  <2>2. OursIfSale'
    BY <1>1, <1>4 DEF ServedAs, OursIfSale, NoCall
  <2> QED BY <1>1, <1>2, <2>1, <2>2 DEF ServedAs, ServerInv
<1> QED BY <1>1, <1>3, <1>4 DEF ServedAs, Handled

LEMMA ServerKeeps == ServerInv /\ [Next]_vars => ServerInv'
<1> SUFFICES ASSUME ServerInv, [Next]_vars PROVE ServerInv'
  OBVIOUS
<1>1. CASE UNCHANGED vars
  BY <1>1 DEF vars, ServerInv, Waiting, OursIfSale
<1>2. CASE \E p \in Ports, complete \in BOOLEAN: Deploy(p, complete)
  BY <1>2 DEF Deploy, ServerInv, Waiting, OursIfSale
<1>3. CASE \E r \in Requests: Receive(r)
  BY <1>3, RequestsAreAsked, ServedKeeps DEF Receive
<1>4. CASE Follow
  BY <1>4, ResultIsAsked, ServedKeeps DEF Follow
<1>5. CASE ReplyBegins
  BY <1>5 DEF ReplyBegins, ServerInv, Waiting, OursIfSale
<1>6. CASE Forget
  BY <1>6 DEF Forget, ServerInv, Waiting, OursIfSale, NoCall
<1>7. CASE (\E g \in Replies: ReplyEnds(g)) \/ CallTimesOut
  <2>1. \E g: Finished(g)
    BY <1>7 DEF ReplyEnds, CallTimesOut
  <2>2. stage # "none"
    BY <1>7, OnlyCallsAreTimed DEF ReplyEnds, CallTimesOut, ServerInv
  <2> QED BY <2>1, <2>2 DEF Finished, ServerInv, Waiting, OursIfSale
<1> QED BY <1>1, <1>2, <1>3, <1>4, <1>5, <1>6, <1>7 DEF Next

LEMMA ServerInvariant == Spec => []ServerInv
BY ServerStarts, ServerKeeps, PTL DEF Spec

(* No member of a body decides what is charged, in any port and whatever   *)
(* the page posts: src/nodejs-express-js/src/paynet.js:69-91 and its       *)
(* translations.                                                           *)
THEOREM SaleStaysOurs == Spec => []SaleIsOurs
<1>1. ServerInv => SaleIsOurs
  BY DEF ServerInv, OursIfSale, SaleOurs, SaleIsOurs
<1> QED BY <1>1, ServerInvariant, PTL

-----------------------------------------------------------------------------
(* The contract. *)

LEMMA WrongOrNot == ASSUME NEW r PROVE Wrong(r) \in BOOLEAN
BY DEF Wrong

LEMMA CallsAreNotWrong ==
  ASSUME NEW r, r.route \in {"config", "pay", "status"} PROVE ~Wrong(r)
BY DEF Wrong

(* A request that is served: the gateway is asked, or the request refused, *)
(* or the redirect or the page granted.                                    *)
LEMMA ServeKeepsTheContract ==
  ASSUME ServerInv, NEW r, Asked(r), Serve(r),
         stage = "none" \/ (stage = "answered" /\ answer.code = 303 /\ r.route = "result")
  PROVE  Contract!Asks \/ Contract!Refuses \/ Contract!Grants
<1>1. PICK h: ServedAs(r, h)
  BY ServeHandles DEF ServerInv
<1>2. request' = r /\ call' = h.call /\ answer' = h.answer /\ r # NoRequest
  BY <1>1 DEF ServedAs, Asked, NoRequest
<1>3. ASSUME NEW w, (r # NoRequest /\ Wrong(r)) = w PROVE Contract!Arrives(r.route, w)
  BY <1>2, <1>3 DEF Contract!Arrives
<1>4. CASE Called(r, h)
  <2>1. h.call # NoCall /\ stage' = "asked"
    BY <1>1, <1>4 DEF ServedAs, Called, NoCall
  <2>2. (r # NoRequest /\ Wrong(r)) = FALSE
    BY <1>4, CallsAreNotWrong DEF Called
  <2>3. Contract!Arrives(r.route, FALSE)
    BY <1>3, <2>2
  <2> QED BY <1>2, <1>4, <2>1, <2>3 DEF Contract!Asks, Called, Contract!CallRoutes
<1>5. CASE h.call = NoCall /\ Refused(r, h.answer)
  <2>1. stage' = "answered"
    BY <1>1, <1>5 DEF ServedAs
  <2>2. \E w \in BOOLEAN: Contract!Arrives(r.route, w)
    BY <1>3, WrongOrNot
  <2>3. answer'.code \in Contract!Refusals(r.route) \cup Contract!Failures
    BY <1>2, <1>5 DEF Refused, RefusedBy, Failing, Asked, Contract!Refusals, Contract!Failures,
       Contract!PageRoutes
  <2>4. r.route \in Contract!CallRoutes \cup Contract!PageRoutes
    BY DEF Asked, Contract!CallRoutes, Contract!PageRoutes
  <2> QED BY <1>2, <1>5, <2>1, <2>2, <2>3, <2>4 DEF Contract!Refuses
<1>6. CASE h.call = NoCall /\ Granted(r, h)
  <2>1. stage' = "answered"
    BY <1>1, <1>6 DEF ServedAs
  <2>2. (r # NoRequest /\ Wrong(r)) = FALSE
    BY <1>6 DEF Granted
  <2>3. Contract!Arrives(r.route, FALSE)
    BY <1>3, <2>2
  <2>4. r.route \in Contract!PageRoutes /\ answer'.code = Contract!Granted(r.route)
    BY <1>2, <1>6 DEF Granted, Contract!Granted, Contract!PageRoutes
  <2> QED BY <1>2, <1>6, <2>1, <2>3, <2>4 DEF Contract!Grants
<1> QED BY <1>1, <1>4, <1>5, <1>6 DEF ServedAs, Handled

LEMMA FinishKeepsTheContract ==
  ASSUME ServerInv, stage \in {"asked", "headers"}, NEW g, AnyReply(g), Finished(g)
  PROVE  Contract!CallReturns
<1>1. Returned(answer')
  BY PortFinishes DEF ServerInv, Waiting, Finished
<1> QED BY <1>1 DEF Finished, Contract!CallReturns, Returned, Failing, Contract!Failures

LEMMA StepKeepsTheContract ==
  ServerInv /\ [Next]_vars => [Contract!Next]_(Contract!vars)
<1> SUFFICES ASSUME ServerInv, [Next]_vars PROVE Contract!Next \/ UNCHANGED Contract!vars
  OBVIOUS
<1>1. CASE UNCHANGED vars
  BY <1>1 DEF vars, Contract!vars
<1>2. CASE \E p \in Ports, complete \in BOOLEAN: Deploy(p, complete)
  <2>1. CASE stage \in {"asked", "headers"}
    <3>1. Contract!CallReturns
      BY <1>2, <2>1 DEF Deploy, Contract!CallReturns, Contract!Failures, ServerInv, Waiting
    <3> QED BY <3>1 DEF Contract!Next
  <2>2. CASE stage \notin {"asked", "headers"}
    BY <1>2, <2>2 DEF Deploy, Contract!vars
  <2> QED BY <2>1, <2>2
<1>3. CASE \E r \in Requests: Receive(r)
  BY <1>3, RequestsAreAsked, ServeKeepsTheContract DEF Receive, Contract!Next
<1>4. CASE Follow
  BY <1>4, ResultIsAsked, ServeKeepsTheContract DEF Follow, Contract!Next
<1>5. CASE ReplyBegins
  BY <1>5 DEF ReplyBegins, Contract!vars
<1>6. CASE \E g \in Replies: ReplyEnds(g)
  <2>1. PICK g \in Replies: ReplyEnds(g)
    BY <1>6
  <2>2. AnyReply(g)
    BY ServersAssumption DEF AnyReply
  <2> QED BY <2>1, <2>2, FinishKeepsTheContract DEF ReplyEnds, Contract!Next
<1>7. CASE CallTimesOut
  <2>1. AnyReply(TimedOut)
    BY DEF AnyReply, TimedOut
  <2>2. stage \in {"asked", "headers"}
    BY <1>7, OnlyCallsAreTimed DEF CallTimesOut, ServerInv
  <2> QED BY <1>7, <2>1, <2>2, FinishKeepsTheContract DEF CallTimesOut, Contract!Next
<1>8. CASE Forget
  <2>1. Contract!Forgets
    BY <1>8 DEF Forget, Contract!Forgets, NoRequest, Dropped, Answer
  <2> QED BY <2>1 DEF Contract!Next
<1> QED BY <1>1, <1>2, <1>3, <1>4, <1>5, <1>6, <1>7, <1>8 DEF Next

(* Every port keeps the contract, whatever arrives, whatever the gateway   *)
(* makes of it and whenever the server is replaced by another: one call at *)
(* most for a request, and no page for wrong parameters (the handlers of   *)
(* src/nodejs-express-js/src/server.js:99-205 and of its ten translations).*)
THEOREM EveryPortKeepsTheContract == Spec => KeepsTheContract
<1>1. Init => Contract!Init
  BY DEF Init, Contract!Init, NoRequest, NoCall, Dropped, Answer
<1> QED BY <1>1, ServerInvariant, StepKeepsTheContract, PTL DEF Spec, KeepsTheContract, Contract!Spec

-----------------------------------------------------------------------------
(* What one port signs off, another reads back. *)

LEMMA JoinedHolds ==
  ASSUME NEW S, NEW s \in Seq(S), NEW t \in Seq(S)
  PROVE  s \o t \in Seq(S) /\ ToSet(s \o t) = ToSet(s) \cup ToSet(t)
<1>1. s \o t \in Seq(S) /\ Len(s \o t) = Len(s) + Len(t)
  OBVIOUS
<1>2. ASSUME NEW i \in 1..Len(s) PROVE (s \o t)[i] = s[i] /\ i \in 1..Len(s \o t)
  OBVIOUS
<1>3. ASSUME NEW i \in 1..Len(t) PROVE (s \o t)[i + Len(s)] = t[i] /\ i + Len(s) \in 1..Len(s \o t)
  OBVIOUS
<1>4. ASSUME NEW i \in 1..Len(s \o t), i \notin 1..Len(s)
      PROVE  i - Len(s) \in 1..Len(t) /\ (s \o t)[i] = t[i - Len(s)]
  BY <1>1, <1>4
<1>5. ToSet(s \o t) \subseteq ToSet(s) \cup ToSet(t)
  BY <1>1, <1>2, <1>4 DEF ToSet
<1>6. ToSet(s) \cup ToSet(t) \subseteq ToSet(s \o t)
  <2>1. ToSet(s) \subseteq ToSet(s \o t)
    BY <1>1, <1>2 DEF ToSet
  <2>2. ASSUME NEW x \in ToSet(t) PROVE x \in ToSet(s \o t)
    <3>1. PICK i \in 1..Len(t): x = t[i]
      BY DEF ToSet
    <3>2. PICK j \in 1..Len(s \o t): (s \o t)[j] = x
      BY <1>3, <3>1
    <3> QED BY <1>1, <3>2 DEF ToSet
  <2> QED BY <2>1, <2>2
<1> QED BY <1>1, <1>5, <1>6

LEMMA QueryHolds ==
  ASSUME NEW field
  PROVE  ToSet(SignedQuery(field))
           = {<<n, field[n]>> : n \in {m \in DOMAIN NoForm: field[m] # <<>>}}
<1> DEFINE pair(n) == IF field[n] = <<>> THEN <<>> ELSE <<<<n, field[n]>>>>
           held(n) == IF field[n] = <<>> THEN {} ELSE {<<n, field[n]>>}
           S == {<<n, field[n]>> : n \in DOMAIN NoForm}
<1>1. ASSUME NEW n \in DOMAIN NoForm PROVE pair(n) \in Seq(S) /\ ToSet(pair(n)) = held(n)
  <2>1. CASE field[n] = <<>>
    BY <2>1 DEF ToSet
  <2>2. CASE field[n] # <<>>
    <3>1. pair(n) \in Seq(S) /\ DOMAIN pair(n) = {1} /\ pair(n)[1] = <<n, field[n]>>
      BY <2>2
    <3> HIDE DEF pair
    <3> QED BY <2>2, <3>1 DEF ToSet
  <2> QED BY <2>1, <2>2
<1>2. SignedQuery(field)
        = pair("status") \o pair("orderid") \o pair("merchant_order") \o pair("control")
  BY DEF SignedQuery
<1> HIDE DEF pair, S
<1> DEFINE two == pair("status") \o pair("orderid")
           three == two \o pair("merchant_order")
<1>3. two \in Seq(S) /\ ToSet(two) = held("status") \cup held("orderid")
  BY <1>1, NoFormIs, JoinedHolds
<1> HIDE DEF two
<1>4. three \in Seq(S) /\ ToSet(three) = ToSet(two) \cup held("merchant_order")
  BY <1>1, <1>3, NoFormIs, JoinedHolds
<1> HIDE DEF three
<1>5. ToSet(SignedQuery(field)) = ToSet(three) \cup held("control")
  <2>1. SignedQuery(field) = three \o pair("control")
    BY <1>2 DEF two, three
  <2> QED BY <1>1, <1>4, <2>1, NoFormIs, JoinedHolds
<1> QED BY <1>3, <1>4, <1>5, NoFormIs

LEMMA ChecksumIsAscii == ASSUME NEW s PROVE IsAscii(Checksum(s))
<1> DEFINE digest == <<"#">> \o s
<1>1. Checksum(s) = [i \in DOMAIN digest |-> IF digest[i] = "e-acute" THEN "e" ELSE digest[i]]
  BY DEF Checksum
<1> HIDE DEF digest
<1> QED BY <1>1 DEF IsAscii, ToSet

LEMMA FormComesBack ==
  ASSUME NEW field, field = [n \in DOMAIN NoForm |-> field[n]], Signed(field),
         NEW form, form = AsForm(SignedQuery(field))
  PROVE  Plain(form) /\ Once(form) = field
<1> DEFINE query == SignedQuery(field)
           given(n) == {pair \in ToSet(query): pair[1] = n}
<1>1. form = [n \in DOMAIN NoForm |->
                IF given(n) = {} THEN <<>> ELSE <<(CHOOSE pair \in given(n): TRUE)[2]>>]
  BY DEF AsForm
<1>2. ASSUME NEW n \in DOMAIN NoForm
      PROVE  given(n) = IF field[n] = <<>> THEN {} ELSE {<<n, field[n]>>}
  BY QueryHolds
<1> HIDE DEF given
<1>3. ASSUME NEW n \in DOMAIN NoForm
      PROVE  form[n] = IF field[n] = <<>> THEN <<>> ELSE <<field[n]>>
  <2>1. CASE field[n] = <<>>
    BY <1>1, <1>2, <2>1
  <2>2. CASE field[n] # <<>>
    <3>1. given(n) = {<<n, field[n]>>}
      BY <1>2, <2>2
    <3>2. (CHOOSE pair \in given(n): TRUE) = <<n, field[n]>>
      BY <3>1
    <3> QED BY <1>1, <2>2, <3>1, <3>2
  <2> QED BY <2>1, <2>2
<1>4. ASSUME NEW n \in DOMAIN NoForm PROVE FirstOf(form[n]) = field[n]
  <2>1. CASE field[n] = <<>>
    BY <1>3, <2>1 DEF FirstOf
  <2>2. CASE field[n] # <<>>
    <3>1. form[n] = <<field[n]>>
      BY <1>3, <2>2
    <3>2. form[n] # <<>> /\ Head(form[n]) = field[n]
      BY <3>1
    <3> QED BY <3>2 DEF FirstOf
  <2> QED BY <2>1, <2>2
<1>5. DOMAIN form = DOMAIN NoForm
  BY <1>1
<1>6. IsAscii(FirstOf(form["control"]))
  BY <1>4, NoFormIs, ChecksumIsAscii DEF Signed, Expected
<1>7. Plain(form)
  BY <1>3, <1>5, <1>6 DEF Plain
<1>8. Once(form) = field
  BY <1>4, <1>5 DEF Once
<1> QED BY <1>7, <1>8

-----------------------------------------------------------------------------
(* The ordinary course, whichever port is deployed. *)

LEMMA PortUsual == ASSUME NEW p \in Ports, NEW r, Usually(r) PROVE HandleBy(p, r) = Usual(r)
<1>1. CASE p = "nodejs-express-js"
  BY <1>1, ExpressUsual DEF HandleBy
<1>2. CASE p = "nodejs-express-ts-js"
  BY <1>2, ExpressTsUsual DEF HandleBy
<1>3. CASE p = "nextjs"
  BY <1>3, NextJsUsual DEF HandleBy
<1>4. CASE p = "go-js"
  BY <1>4, GoUsual DEF HandleBy
<1>5. CASE p = "php-js"
  BY <1>5, PhpUsual DEF HandleBy
<1>6. CASE p = "python-flask-js"
  BY <1>6, PythonUsual DEF HandleBy
<1>7. CASE p = "ruby-sinatra-js"
  BY <1>7, RubyUsual DEF HandleBy
<1>8. CASE p = "java-springboot-js"
  BY <1>8, JavaUsual DEF HandleBy
<1>9. CASE p = "kotlin-ktor-js"
  BY <1>9, KotlinUsual DEF HandleBy
<1>10. CASE p = "rust-axum-js"
  BY <1>10, RustUsual DEF HandleBy
<1>11. CASE p = "dotnet-aspnetcore-js"
  BY <1>11, DotnetUsual DEF HandleBy
<1> QED BY <1>1, <1>2, <1>3, <1>4, <1>5, <1>6, <1>7, <1>8, <1>9, <1>10, <1>11, ServersAssumption

LEMMA PortUsualFinish ==
  ASSUME NEW p \in Ports, NEW r, r.route \in {"config", "pay", "status"},
         NEW g, AnyReply(g), OrdinaryReply(g)
  PROVE  FinishBy(p, r, g) = UsualFinish(r, g)
<1>1. CASE p = "nodejs-express-js"
  BY <1>1, ExpressFinishes DEF FinishBy
<1>2. CASE p = "nodejs-express-ts-js"
  BY <1>2, ExpressTsFinishes DEF FinishBy
<1>3. CASE p = "nextjs"
  BY <1>3, NextJsFinishes DEF FinishBy
<1>4. CASE p = "go-js"
  BY <1>4, GoFinishes DEF FinishBy
<1>5. CASE p = "php-js"
  BY <1>5, PhpFinishes DEF FinishBy
<1>6. CASE p = "python-flask-js"
  BY <1>6, PythonFinishes DEF FinishBy
<1>7. CASE p = "ruby-sinatra-js"
  BY <1>7, RubyFinishes DEF FinishBy
<1>8. CASE p = "java-springboot-js"
  BY <1>8, JavaFinishes DEF FinishBy
<1>9. CASE p = "kotlin-ktor-js"
  BY <1>9, KotlinFinishes DEF FinishBy
<1>10. CASE p = "rust-axum-js"
  BY <1>10, RustFinishes DEF FinishBy
<1>11. CASE p = "dotnet-aspnetcore-js"
  BY <1>11, DotnetFinishes DEF FinishBy
<1> QED BY <1>1, <1>2, <1>3, <1>4, <1>5, <1>6, <1>7, <1>8, <1>9, <1>10, <1>11, ServersAssumption

(* An ordinary request is one that Usual describes. *)
Known(r) == r \in Requests \/ \E query: r = ResultRequest(query)

LEMMA ShortIsOneOrNone ==
  ASSUME NEW S, NEW values \in Seq(S), Len(values) <= 1
  PROVE  values = <<>> \/ \E v: values = <<v>>
<1>1. CASE Len(values) = 0
  BY <1>1
<1>2. CASE Len(values) = 1
  <2>1. values = <<values[1]>>
    BY <1>2
  <2> QED BY <2>1
<1>3. Len(values) = 0 \/ Len(values) = 1
  <2>1. Len(values) \in Nat
    OBVIOUS
  <2>2. \A n \in Nat: n <= 1 => n = 0 \/ n = 1
    OBVIOUS
  <2> QED BY <2>1, <2>2
<1> QED BY <1>1, <1>2, <1>3

LEMMA ResultForm == ASSUME NEW query PROVE ResultRequest(query).form = AsForm(query)
<1> DEFINE base == CHOOSE q \in Requests: q.route = "result"
<1>1. base \in RequestRecords
  BY ServersAssumption
<1>2. ResultRequest(query) = [base EXCEPT !.form = AsForm(query)]
  BY DEF ResultRequest
<1> HIDE DEF base
<1> QED BY <1>1, <1>2 DEF RequestRecords

LEMMA KnownForms ==
  ASSUME NEW r, Known(r)
  PROVE  /\ Asked(r)
         /\ DOMAIN r.form = DOMAIN NoForm
         /\ \A n \in DOMAIN r.form: Len(r.form[n]) <= 1 =>
              r.form[n] = <<>> \/ \E v: r.form[n] = <<v>>
<1>1. CASE r \in Requests
  <2>1. r.form \in [ToSet(SignedNames) -> Seq(Words)]
    BY <1>1, ServersAssumption DEF RequestRecords
  <2> QED BY <1>1, <2>1, RequestsAreAsked, ShortIsOneOrNone DEF NoForm
<1>2. CASE \E query: r = ResultRequest(query)
  <2>1. PICK query: r = ResultRequest(query)
    BY <1>2
  <2>2. Asked(r) /\ r.form = AsForm(query)
    BY <2>1, ResultForm, ResultIsAsked
  <2>3. ASSUME NEW n \in DOMAIN r.form PROVE r.form[n] = <<>> \/ \E v: r.form[n] = <<v>>
    BY <2>2 DEF AsForm
  <2>4. DOMAIN r.form = DOMAIN NoForm
    BY <2>2 DEF AsForm
  <2> QED BY <2>2, <2>3, <2>4
<1> QED BY <1>1, <1>2 DEF Known

LEMMA OrdinaryIsPlain ==
  ASSUME NEW r, Known(r), OrdinaryForm(r.form) PROVE Plain(r.form)
<1>1. \A n \in DOMAIN r.form: r.form[n] = <<>> \/ \E v: r.form[n] = <<v>>
  BY KnownForms DEF OrdinaryForm
<1>2. "control" \in DOMAIN r.form
  BY KnownForms, NoFormIs
<1>3. IsAscii(FirstOf(r.form["control"]))
  <2>1. CASE r.form["control"] = <<>>
    BY <2>1 DEF FirstOf, IsAscii, ToSet
  <2>2. CASE r.form["control"] # <<>>
    <3>1. PICK v: r.form["control"] = <<v>>
      BY <1>1, <1>2, <2>2
    <3>2. Len(r.form["control"]) = 1 /\ r.form["control"][1] = v /\ Head(r.form["control"]) = v
      BY <3>1
    <3>3. IsAscii(v)
      BY <1>2, <3>2 DEF OrdinaryForm
    <3> QED BY <2>2, <3>2, <3>3 DEF FirstOf
  <2> QED BY <2>1, <2>2
<1> QED BY <1>1, <1>3, KnownForms DEF Plain

LEMMA OrdinaryIsUsual == ASSUME NEW r, Known(r), Ordinary(r) PROVE Usually(r)
<1>1. Asked(r)
  BY KnownForms
<1>2. ASSUME r.route \in {"config", "pay", "status", "callback"} PROVE r \in RequestRecords
  BY <1>2, ResultIsAsked, ServersAssumption DEF Known
<1>3. CASE r.route = "config"
  BY <1>3 DEF Usually
<1>4. CASE r.route = "pay"
  <2>1. OrdinaryPay(r)
    BY <1>4 DEF Ordinary
  <2>2. \E a: r.forwarded = <<a>>
    <3>1. r.forwarded \in Words /\ Len(r.forwarded) = 1
      BY <1>2, <1>4, <2>1 DEF OrdinaryPay, RequestRecords
    <3> QED BY <3>1, ShortIsOneOrNone DEF Words
  <2>3. BrowserFields \subseteq DOMAIN r.browser
    BY <1>2, <1>4 DEF RequestRecords, PostedFields
  <2> QED BY <1>4, <2>1, <2>2, <2>3 DEF OrdinaryPay, Usually
<1>5. CASE r.route = "status"
  <2>1. ASSUME NEW v \in {r.orderId, r.clientOrderId}
        PROVE  v = <<>> \/ \E w: v = <<w>> /\ w # <<>>
    <3>1. v \in Seq(Words) /\ Len(v) <= 1 /\ v # <<<<>>>>
      BY <1>2, <1>5 DEF Ordinary, RequestRecords
    <3> QED BY <3>1, ShortIsOneOrNone
  <2> QED BY <1>5, <2>1 DEF Usually
<1>6. CASE r.route = "callback"
  BY <1>1, <1>6, OrdinaryIsPlain DEF Ordinary, Asked, Usually
<1>7. CASE r.route = "result"
  BY <1>7, OrdinaryIsPlain DEF Ordinary, Usually
<1> QED BY <1>1, <1>3, <1>4, <1>5, <1>6, <1>7 DEF Asked
-----------------------------------------------------------------------------
(* A known request is served as Usual says if it is ordinary; a reply is   *)
(* there only once its call has ended; and the payer who was sent on from  *)
(* the bank carries what was signed.                                       *)

KnownIfAny == IF stage = "none" THEN served = "unready" /\ arrival = "fresh" ELSE Known(request)

AsUsual ==
  served # "unready" /\ Ordinary(request) =>
    /\ call = Usual(request).call
    /\ stage = "answered" /\ call = NoCall => answer = Usual(request).answer

EndsAsUsual ==
  reply # NoReply =>
    /\ stage = "answered" /\ request.route \in {"config", "pay", "status"} /\ AnyReply(reply)
    /\ OrdinaryReply(reply) => answer = UsualFinish(request, reply)

SignedOff(query) ==
  \E field: field = [n \in DOMAIN NoForm |-> field[n]] /\ Signed(field) /\ query = SignedQuery(field)

SentOnSigned ==
  stage = "answered" /\ answer.code = 303 /\ request.method = "POST" => SignedOff(answer.query)

Reaches ==
  /\ arrival = "POST" => stage = "answered"
  /\ arrival = "POST" /\ served # "unready" => answer.code = 200

UsualInv == KnownIfAny /\ AsUsual /\ EndsAsUsual /\ SentOnSigned /\ Reaches

LEMMA UsualStarts == Init => UsualInv
BY DEF Init, UsualInv, KnownIfAny, AsUsual, EndsAsUsual, SentOnSigned, Reaches

(* A redirect is for the callback, and what a POST is redirected with is   *)
(* what one reading of it found signed.                                    *)
LEMMA RedirectIsSigned ==
  ASSUME NEW r, Known(r), NEW h, Handled(r, h), h.call = NoCall, h.answer.code = 303,
         r.method = "POST"
  PROVE  SignedOff(h.answer.query)
<1>1. Granted(r, h) /\ r.route = "callback"
  BY KnownForms DEF Handled, Called, Refused, RefusedBy, Failing, Granted, NoCall, Asked
<1>2. PICK form \in Sources(r): \E field \in Readings(form):
         Signed(field) /\ h.answer.query = SignedQuery(field)
  BY <1>1 DEF Granted, Found
<1>3. PICK field \in Readings(form): Signed(field) /\ h.answer.query = SignedQuery(field)
  BY <1>2
<1>4. DOMAIN form = DOMAIN NoForm
  BY KnownForms DEF Sources, Merged
<1>5. field = [n \in DOMAIN NoForm |-> field[n]]
  BY <1>4 DEF Readings
<1> QED BY <1>3, <1>5 DEF SignedOff

LEMMA ServedKeepsUsual ==
  ASSUME ServerInv, NEW r, Known(r), Serve(r),
         arrival' = "POST" =>
           r.route = "result" /\ \E query: SignedOff(query) /\ r = ResultRequest(query)
  PROVE  UsualInv'
<1>1. Asked(r) /\ request' = r
  BY KnownForms DEF Serve
<1>2. PICK h: ServedAs(r, h)
  BY <1>1, ServeHandles DEF ServerInv
<1>3. stage' # "none" /\ KnownIfAny'
  BY <1>1, <1>2 DEF ServedAs, KnownIfAny
<1>4. EndsAsUsual'
  BY DEF Serve, EndsAsUsual
<1>5. served' # "unready" => ready /\ call' = HandleBy(port, r).call /\ answer' = HandleBy(port, r).answer
  BY DEF Serve
<1>6. AsUsual'
  <2> SUFFICES ASSUME served' # "unready", Ordinary(r)
               PROVE  call' = Usual(r).call /\ answer' = Usual(r).answer
    BY <1>1 DEF AsUsual
  <2> QED BY <1>5, OrdinaryIsUsual, PortUsual DEF ServerInv
<1>7. SentOnSigned'
  <2> SUFFICES ASSUME stage' = "answered", answer'.code = 303, r.method = "POST"
               PROVE  SignedOff(answer'.query)
    BY <1>1 DEF SentOnSigned
  <2>1. h.call = NoCall /\ answer' = h.answer /\ Handled(r, h)
    BY <1>2 DEF ServedAs
  <2> QED BY <2>1, RedirectIsSigned
<1>8. Reaches'
  <2> SUFFICES ASSUME arrival' = "POST"
               PROVE  stage' = "answered" /\ (served' # "unready" => answer'.code = 200)
    BY DEF Reaches
  <2>1. stage' = "answered"
    BY <1>2 DEF ServedAs, Handled, Called
  <2>2. PICK query: SignedOff(query) /\ r = ResultRequest(query)
    OBVIOUS
  <2>3. PICK field: field = [n \in DOMAIN NoForm |-> field[n]] /\ Signed(field)
                    /\ query = SignedQuery(field)
    BY <2>2 DEF SignedOff
  <2>4. r.form = AsForm(query)
    BY <2>2, ResultForm
  <2>5. Plain(r.form) /\ Once(r.form) = field
    BY <2>3, <2>4, FormComesBack
  <2>6. Usually(r) /\ Usual(r) = Reply(Page)
    BY <2>3, <2>5 DEF Usually, Usual
  <2>7. served' # "unready" => answer' = Page
    BY <1>5, <2>6, PortUsual DEF ServerInv, Reply
  <2> QED BY <2>1, <2>7 DEF Page, Answer
<1> QED BY <1>3, <1>4, <1>6, <1>7, <1>8 DEF UsualInv

LEMMA UsualKeeps == ServerInv /\ UsualInv /\ [Next]_vars => UsualInv'
<1> SUFFICES ASSUME ServerInv, UsualInv, [Next]_vars PROVE UsualInv'
  OBVIOUS
<1> USE DEF UsualInv, KnownIfAny, AsUsual, EndsAsUsual, SentOnSigned, Reaches
<1>1. CASE UNCHANGED vars
  BY <1>1 DEF vars
<1>2. CASE \E p \in Ports, complete \in BOOLEAN: Deploy(p, complete)
  BY <1>2 DEF Deploy, ServerInv, Waiting
<1>3. CASE \E r \in Requests: Receive(r)
  BY <1>3, ServedKeepsUsual DEF Receive, Known
<1>4. CASE Follow
  <2>1. Known(ResultRequest(answer.query)) /\ ResultRequest(answer.query).route = "result"
    BY ResultIsAsked DEF Known
  <2>2. arrival' = "POST" => SignedOff(answer.query)
    BY <1>4 DEF Follow
  <2> HIDE DEF UsualInv
  <2> QED BY <1>4, <2>1, <2>2, ServedKeepsUsual DEF Follow
<1>5. CASE ReplyBegins
  BY <1>5 DEF ReplyBegins
<1>6. CASE (\E g \in Replies: ReplyEnds(g)) \/ CallTimesOut
  <2>1. PICK g: Finished(g) /\ AnyReply(g)
    BY <1>6, ServersAssumption DEF ReplyEnds, CallTimesOut, AnyReply, TimedOut
  <2>2. stage \in {"asked", "headers"}
    BY <1>6, OnlyCallsAreTimed DEF ReplyEnds, CallTimesOut, ServerInv
  <2>3. request.route \in {"config", "pay", "status"} /\ call # NoCall /\ port \in Ports
    BY <2>2 DEF ServerInv, Waiting
  <2>4. OrdinaryReply(g) => answer' = UsualFinish(request, g)
    BY <2>1, <2>3, PortUsualFinish DEF Finished
  <2>5. answer'.code # 303
    BY <2>1, <2>3, PortFinishes DEF Finished, Returned, Failing
  <2> QED BY <2>1, <2>2, <2>3, <2>4, <2>5 DEF Finished
<1>7. CASE Forget
  BY <1>7 DEF Forget
<1> QED BY <1>1, <1>2, <1>3, <1>4, <1>5, <1>6, <1>7 DEF Next

LEMMA UsualInvariant == Spec => [](ServerInv /\ UsualInv)
BY ServerStarts, ServerKeeps, UsualStarts, UsualKeeps, PTL DEF Spec

(* What the page, its proxy and the gateway ask in the ordinary course     *)
(* leads in all eleven ports to the call and to the answer that it leads   *)
(* to in Express: "the server behind it is interchangeable" (README.md:31).*)
THEOREM PortsAreInterchangeable == Spec => []SameEverywhere
<1>1. ServerInv /\ UsualInv => SameEverywhere
  <2> SUFFICES ASSUME ServerInv, UsualInv, served # "unready", Ordinary(request)
               PROVE  /\ call = Express!Handle(request).call
                      /\ stage = "answered" /\ call = NoCall
                           => answer = Express!Handle(request).answer
                      /\ reply # NoReply /\ OrdinaryReply(reply)
                           => answer = Express!Finish(request, reply)
    BY DEF SameEverywhere
  <2>1. Known(request)
    BY DEF UsualInv, KnownIfAny
  <2>2. Express!Handle(request) = Usual(request)
    BY <2>1, OrdinaryIsUsual, ExpressUsual
  <2>3. reply # NoReply /\ OrdinaryReply(reply)
          => Express!Finish(request, reply) = UsualFinish(request, reply)
    BY ExpressFinishes DEF UsualInv, EndsAsUsual
  <2> QED BY <2>2, <2>3 DEF UsualInv, AsUsual, EndsAsUsual
<1> QED BY <1>1, UsualInvariant, PTL

(* A payer whom one port has sent on from the bank is shown the result     *)
(* page by whichever port he reaches: resultUrl, validCallback and the     *)
(* result handlers (src/nodejs-express-js/src/server.js:165-205 and the    *)
(* ten translations).                                                      *)
THEOREM ReturnsAreAccepted == Spec => []ReturnReachesThePage
<1>1. UsualInv => ReturnReachesThePage
  BY DEF UsualInv, Reaches, ReturnReachesThePage
<1> QED BY <1>1, UsualInvariant, PTL
=============================================================================
