--------------------------------- MODULE Payment ---------------------------------
(***************************************************************************)
(* A whole checkout: page loads, the SDK in each of them, the merchant's   *)
(* server and the gateway, with every request and reply a step of its own  *)
(* that others can get in between.  Any reply can be lost on its way back, *)
(* any gateway call can outlive the 30 s the server waits for it, any page *)
(* can be closed or reloaded at any time.                                  *)
(*                                                                         *)
(* An attempt is one press of the Pay button that got past the details     *)
(* check.  It is the chain of callbacks tokenize -> onToken -> POST /pay.  *)
(***************************************************************************)
EXTENDS CheckoutPage, Merchant, Gateway

VARIABLES
  attempt,    \* whose press it is, what its chain waits for, the SDK's reply
  callbacks   \* signed 3DS returns that some browser holds

vars == <<pageVars, merchantVars, gatewayVars, attempt, callbacks>>

NoTokenReply == Failed(0)   \* the gateway has not dealt with the tokenization

AttemptStates == [doc: Docs \cup {None}, waits: {"nothing", "token", "sale"},
                  reply: TokenReplies \cup {NoTokenReply}]
NoAttempt == [doc |-> None, waits |-> "nothing", reply |-> NoTokenReply]

PaymentTypeOK ==
  /\ PageTypeOK
  /\ MerchantTypeOK
  /\ GatewayTypeOK
  /\ attempt \in [Attempts -> AttemptStates]
  /\ callbacks \subseteq OrderRef

Init ==
  /\ PageInit
  /\ MerchantInit
  /\ GatewayInit
  /\ attempt = [i \in Attempts |-> NoAttempt]
  /\ callbacks = {}

(* The promise chain of an attempt goes on only while its page is there. *)
Waiting(i, what) == attempt[i].doc # None /\ attempt[i].waits = what
SettleLeavesChain(i) == UNCHANGED attempt   \* a bug: the reply is handled again

Settle(i) == attempt' = [attempt EXCEPT ![i].waits = "nothing"]

-----------------------------------------------------------------------------
(* Loading a page.  The ticket is minted and delivered in one step: nobody *)
(* but the page that gets it can tell when it was minted.                  *)

ServeConfig(d, t) ==
  /\ \E reply \in {t, None}: CreateEphemeralTicket(t, reply) /\ ConfigArrives(d, reply)
  /\ UNCHANGED <<merchantVars, attempt, callbacks>>

(* getEphemeralTicket failed: config.js carries an error instead. *)
FailConfig(d) ==
  /\ ConfigArrives(d, None)
  /\ UNCHANGED <<merchantVars, gatewayVars, attempt, callbacks>>

LoadPage(d) ==
  /\ OpenCheckout(d) \/ ConfigLost(d) \/ ScriptLoads(d) \/ ScriptFails(d) \/ FieldsReady(d)
  /\ UNCHANGED <<merchantVars, gatewayVars, attempt, callbacks>>

PayerEdits(d) ==
  /\ \E x \in Details: EditDetails(d, x)
  /\ UNCHANGED <<merchantVars, gatewayVars, attempt, callbacks>>

PayerLeaves(d) ==
  /\ Leave(d)
  /\ UNCHANGED <<merchantVars, gatewayVars, attempt, callbacks>>

-----------------------------------------------------------------------------
(* An attempt, from the button to the order. *)

PressPay(i, d) ==
  /\ attempt[i] = NoAttempt
  /\ Submit(d)
  /\ attempt' = [attempt EXCEPT ![i].doc = d, ![i].waits = "token"]
  /\ UNCHANGED <<merchantVars, gatewayVars, callbacks>>

(* The SDK's request, with whatever card the payer has typed, reaches the  *)
(* gateway; it may do so after the page has given up on it.  It may also   *)
(* never be sent: a press before the SDK has the card values of another    *)
(* one takes its place, and a field loaded again has lost its value.       *)
TokenizeCard(i) ==
  /\ attempt[i].doc # None
  /\ attempt[i].reply = NoTokenReply
  /\ \E card \in Cards, reply \in TokenReplies:
       /\ Tokenize(ticket[attempt[i].doc], card, reply)
       /\ attempt' = [attempt EXCEPT ![i].reply = reply]
  /\ UNCHANGED <<pageVars, merchantVars, callbacks>>

(* onToken: the details are read again, as they are now. *)
HearToken(i) ==
  /\ Waiting(i, "token")
  /\ attempt[i].reply.token # None
  /\ stage[attempt[i].doc] = "form"
  /\ PostPay(i, attempt[i].reply.token, details[attempt[i].doc])
  /\ attempt' = [attempt EXCEPT ![i].waits = "sale"]
  /\ UNCHANGED <<pageVars, gatewayVars, callbacks>>

HearTokenError(i) ==
  /\ Waiting(i, "token")
  /\ attempt[i].reply.code # 0
  /\ ShowError(attempt[i].doc, attempt[i].reply.code)
  /\ Settle(i)
  /\ UNCHANGED <<merchantVars, gatewayVars, callbacks>>

(* The SDK's fetch failed: it reports 5001, whatever the gateway did. *)
LoseToken(i) ==
  /\ Waiting(i, "token")
  /\ ShowError(attempt[i].doc, 5001)
  /\ Settle(i)
  /\ UNCHANGED <<merchantVars, gatewayVars, callbacks>>

ServerHandlesPay(i) ==
  /\ \E c \in ClientOrders: HandlePay(i, c)
  /\ UNCHANGED <<pageVars, gatewayVars, attempt, callbacks>>

MakeSale(i) ==
  /\ \E reply \in OrderIds \cup {None}:
       /\ SaleDone(i, reply)
       /\ Sale(payCall[i].token, OrderAmount, payCall[i].client, payCall[i].details, reply)
  /\ UNCHANGED <<pageVars, attempt, callbacks>>

ServerAnswersPay(i) ==
  /\ AnswerPay(i) \/ FailPay(i)   \* in time, or after 30 s at the latest
  /\ UNCHANGED <<pageVars, gatewayVars, attempt, callbacks>>

HearPay(i) ==
  LET d == attempt[i].doc IN
  /\ Waiting(i, "sale")
  /\ \/ /\ payCall[i].answer = "order"
        /\ PayAccepted(d, [order |-> payCall[i].order, client |-> payCall[i].client])
     \/ /\ payCall[i].answer \in {"refusal", "failure"}
        /\ PayRefused(d)
  /\ Settle(i)
  /\ UNCHANGED <<merchantVars, gatewayVars, callbacks>>

LosePay(i) ==
  /\ Waiting(i, "sale")
  /\ PayLost(attempt[i].doc)
  /\ Settle(i)
  /\ UNCHANGED <<merchantVars, gatewayVars, callbacks>>

-----------------------------------------------------------------------------
(* Following the order. *)

(* A bug: the server asks for the order it has last heard of. *)
ReadStatusOfLast(d) ==
  /\ poll[d].loop = "asking"
  /\ \E i \in Attempts: /\ payCall[i].order # None
                          /\ AnswerStatus(d, StatusReply(payCall[i].order))
  /\ UNCHANGED <<pageVars, gatewayVars, attempt, callbacks>>

(* The server's /status handler: the order as it is at this moment, or a   *)
(* 502 when the call to the gateway fails or takes more than 30 s.         *)
ReadStatus(d) ==
  /\ poll[d].loop = "asking"
  /\ AnswerStatus(d, StatusReply(orderOf[d].order))
  /\ UNCHANGED <<pageVars, gatewayVars, attempt, callbacks>>

FailStatus(d) ==
  /\ poll[d].loop = "asking"
  /\ AnswerStatus(d, FailureReply)
  /\ UNCHANGED <<pageVars, gatewayVars, attempt, callbacks>>

PageHearsStatus(d) ==
  /\ statusReply[d] # None
  /\ HearStatus(d, statusReply[d])
  /\ ForgetStatus(d)
  /\ UNCHANGED <<gatewayVars, attempt, callbacks>>

PageLosesStatus(d) ==
  /\ LoseStatus(d)
  /\ ForgetStatus(d)
  /\ UNCHANGED <<gatewayVars, attempt, callbacks>>

PollAgain(d) ==
  /\ TimerFires(d)
  /\ UNCHANGED <<merchantVars, gatewayVars, attempt, callbacks>>

(* location.href took the browser to the issuer, whose page holds a signed *)
(* form that posts the payer back to /result/callback.                     *)
VisitIssuer(d) ==
  LET o == orderOf[d].order IN
  /\ poll[d].loop = "sent"
  /\ Leave(d)
  /\ ChallengePage(o)
  /\ callbacks' = callbacks \cup {[order |-> o, client |-> order[o].client]}
  /\ UNCHANGED <<merchantVars, attempt>>

(* Both checks of the signature pass for a signed return and for no order  *)
(* at all; a reload of /result brings the same parameters again.           *)
ShowResult(d) ==
  /\ \/ \E ref \in callbacks: OpenResult(d, ref)
     \/ OpenResult(d, NoOrderRef)
     \/ ResultConfigLost(d)
  /\ UNCHANGED <<merchantVars, gatewayVars, attempt, callbacks>>

-----------------------------------------------------------------------------
Decide(o) ==
  /\ BankDecides(o)
  /\ UNCHANGED <<pageVars, merchantVars, attempt, callbacks>>

(* A bound: the pending scenario is read by the minting of a ticket only, *)
(* so it is not chosen again when the instance has no ticket left.        *)
TicketsLeft == \E t \in Tickets: ticketName[t] = None

ChooseScenario(s) ==
  /\ TicketsLeft
  /\ SetScenario(s)
  /\ UNCHANGED <<pageVars, merchantVars, attempt, callbacks>>

PageStep(d) ==
  \/ \E t \in Tickets: ServeConfig(d, t)
  \/ FailConfig(d)
  \/ LoadPage(d)
  \/ PayerEdits(d)
  \/ PayerLeaves(d)
  \/ ReadStatus(d)
  \/ FailStatus(d)
  \/ PageHearsStatus(d)
  \/ PageLosesStatus(d)
  \/ PollAgain(d)
  \/ VisitIssuer(d)
  \/ ShowResult(d)

AttemptStep(i) ==
  \/ \E d \in Docs: PressPay(i, d)
  \/ TokenizeCard(i)
  \/ HearToken(i)
  \/ HearTokenError(i)
  \/ LoseToken(i)
  \/ ServerHandlesPay(i)
  \/ MakeSale(i)
  \/ ServerAnswersPay(i)
  \/ HearPay(i)
  \/ LosePay(i)

Next ==
  \/ \E d \in Docs: PageStep(d)
  \/ \E i \in Attempts: AttemptStep(i)
  \/ \E o \in OrderIds: Decide(o)
  \/ \E s \in Scenarios: ChooseScenario(s)

Spec == Init /\ [][Next]_vars

Unanswered(i) ==
  /\ attempt[i].reply = NoTokenReply
  /\ \A j \in Attempts: attempt[j].doc = attempt[i].doc => j = i
FieldReports(i) == \E d \in Docs: attempt[i].doc = d /\ LoadPage(d)

(* What goes on by itself: the SDK's exchange with the gateway, our server *)
(* (whose gateway calls end after 30 s), the callbacks of a reply that has *)
(* arrived, and timers.  A card value is missing for ever only if a field  *)
(* was loaded again, which then says ready.  Nothing is assumed of the     *)
(* payer, of the gateway's answers to our server, of how often a reply is  *)
(* lost, or of a press that another one may have replaced.                 *)
Fairness ==
  /\ \A i \in Attempts:
       /\ WF_vars(Unanswered(i) /\ (TokenizeCard(i) \/ FieldReports(i)))
       /\ WF_vars(HearToken(i))
       /\ WF_vars(HearTokenError(i))
       /\ WF_vars(ServerHandlesPay(i))
       /\ WF_vars(ServerAnswersPay(i))
       /\ WF_vars(HearPay(i))
  /\ \A d \in Docs:
       /\ WF_vars(FailStatus(d))
       /\ WF_vars(PageHearsStatus(d))
       /\ WF_vars(PollAgain(d))

FairSpec == Spec /\ Fairness
=============================================================================
