---------------------------- MODULE ServerProperties ----------------------------
(* What every port does, and what the repository says of all of them. *)
EXTENDS MerchantServers

-----------------------------------------------------------------------------
(* How a server may read a name that is given several times. *)
Readings(form) ==
  {[n \in DOMAIN form |-> FirstOf(form[n])],
   [n \in DOMAIN form |-> LastOf(form[n])],
   [n \in DOMAIN form |-> CommaJoined(form[n])]}

Unsigned(form) == \A field \in Readings(form): ~Signed(field)

(* Where it may look for one: in the body, in the URL, or in both. *)
Sources(r) == {r.form, Merged(NoForm, r.query), Merged(r.form, r.query)}

(* A return that the gateway has not signed, or a URL that names an order  *)
(* without the gateway's signature.                                        *)
Wrong(r) ==
  \/ r.route = "callback" /\ r.method = "POST" /\ \A form \in Sources(r): Unsigned(form)
  \/ /\ r.route = "result" /\ Unsigned(r.form)
     /\ \A field \in Readings(r.form): field["orderid"] # <<>>

Contract == INSTANCE PortContract WITH
  stage <- CASE stage = "none" -> "rest" [] stage = "headers" -> "asked" [] OTHER -> stage,
  route <- request.route,
  wrong <- request # NoRequest /\ Wrong(request),
  calls <- IF call = NoCall THEN 0 ELSE 1,
  code <- answer.code

(* Whatever arrives, whatever the gateway makes of it and whenever the     *)
(* server is replaced, every port keeps the contract: wrong parameters are *)
(* never redirected nor served, a refused request has asked the gateway    *)
(* for nothing, and there are no two calls for one request.                *)
KeepsTheContract == Contract!Spec

(* README: the flow is identical in every example, and the server behind   *)
(* the page is interchangeable.  A request that the page, its proxy or the *)
(* gateway makes in the ordinary course leads, in every port, to the call  *)
(* and to the answer it leads to in Express, the port that Payment models. *)
OrdinaryPay(r) ==
  /\ r.body = "object" /\ r.token \in {"absent", "empty", "text"}
  /\ r.customerKind = "object" /\ r.email \in {"empty", "text"}
  /\ r.browserKind \in {"absent", "object"}
  /\ \A n \in DOMAIN r.browser: r.browser[n] \in {"absent", "empty", "text"}
  /\ r.accept = "text" /\ Len(r.forwarded) = 1

OrdinaryForm(form) ==
  /\ \A n \in DOMAIN form: Len(form[n]) <= 1
  /\ \A n \in DOMAIN form, i \in {1}: Len(form[n]) = 1 => IsAscii(form[n][i])

Ordinary(r) ==
  CASE r.route = "none" -> FALSE
    [] r.route = "config" -> TRUE
    [] r.route = "pay" -> OrdinaryPay(r)
    [] r.route = "status" -> \A v \in {r.orderId, r.clientOrderId}: Len(v) <= 1 /\ v # <<<<>>>>
    [] r.route = "callback" ->
         /\ OrdinaryForm(r.form) /\ r.query = NoForm
         /\ IF r.method = "POST" THEN r.body = "form" ELSE r.form = NoForm /\ r.body # "unreadable"
    [] r.route = "result" -> OrdinaryForm(r.form)

OrdinaryReply(g) ==
  \/ g.kind \in {"timeout", "text"}
  \/ g.kind = "object" /\ g.ticket \in {"absent", "text"}

SameEverywhere ==
  served # "unready" /\ Ordinary(request) =>
    /\ call = Express!Handle(request).call
    /\ stage = "answered" /\ call = NoCall => answer = Express!Handle(request).answer
    /\ reply # NoReply /\ OrdinaryReply(reply) => answer = Express!Finish(request, reply)

(* A payer whom a port has sent on from the bank is shown the result page, *)
(* whichever port answers there: what one of them signs off and puts into  *)
(* the URL, any of them reads back and accepts.                            *)
ReturnReachesThePage ==
  arrival = "POST" /\ served # "unready" => answer.code = 200

(* No member of a body decides what is charged, nor stands in for what the *)
(* request's own headers say; and no Sale goes out without a token.        *)
SaleIsOurs ==
  call.command = "sale" =>
    /\ \A n \in {"client_orderid", "amount", "redirect_url"}: call.params[n] = "ours"
    /\ call.params.hosted_fields_token \notin Nothing \cup {"empty"}
    /\ call.params.customer_browser_user_agent = "agent"
    /\ DOMAIN call.params \subseteq
         BrowserFields \cup DOMAIN OwnParams("text", "text", "peer") \cup DOMAIN HeaderParams("text")

(* A gateway that never answers does not keep the payer waiting for ever;  *)
(* nor, but in the two ports on java.net.http, does one that stops after   *)
(* its headers.                                                            *)
UsesJavaNetHttp(p) == p \in {"java-springboot-js", "kotlin-ktor-js"}
RequestsEnd ==
  /\ stage = "asked" ~> stage \in {"headers", "answered"}
  /\ stage = "headers" /\ ~UsesJavaNetHttp(port) ~> stage = "answered"

-----------------------------------------------------------------------------
(* What the repository says and the code does not do. *)

(* README.md:121: an edited URL gets a 403.  Where every reading is wrong  *)
(* and there is a listener, it does.                                       *)
EditedUrlIs403 ==
  served # "unready" /\ request.route = "result" /\ Wrong(request) => answer.code = 403

(* java-springboot-js Routes.java:109: config.js has to stay valid          *)
(* JavaScript whatever happened upstream.                                  *)
ConfigStaysAScript ==
  reply # NoReply /\ request.route = "config" => answer.code = 200

(* java-springboot-js Paynet.java:37: both halves of the timeout are       *)
(* named, so that the payer's page does not wait forever.                  *)
NobodyWaitsForever == stage \in {"asked", "headers"} ~> stage = "answered"
=============================================================================
