----------------------------- MODULE Payment_proofs -----------------------------
(***************************************************************************)
(* A whole checkout with any number of pages, presses of the button,       *)
(* tickets, tokens and orders, and any MAX_POLLS: who pays, what the       *)
(* button and the panel show, which order a page follows and what it tells *)
(* of it - also when a field is loaded again under a payment, and when the *)
(* gateway draws an order id that is taken.                                *)
(***************************************************************************)
EXTENDS PaymentProperties, TLAPS

-----------------------------------------------------------------------------
(* The gateway, for any number of tickets, tokens and orders: a ticket     *)
(* yields at most one token, and an order plays the scenario its ticket    *)
(* was minted under.                                                       *)

(* A ticket still in the Map keeps the scenario it was named after, and no *)
(* token has been made from it.                                            *)
LiveTicketUnused ==
  \A t \in Tickets: ticketScenario[t] # None =>
    /\ ticketScenario[t] = ticketName[t]
    /\ \A k \in Tokens: tokenTicket[k] # t

(* A token was made from a minted ticket and plays its scenario. *)
TokenFollowsTicket ==
  \A k \in Tokens:
    /\ tokenTicket[k] # None => ticketName[tokenTicket[k]] # None
    /\ tokenScenario[k] # None =>
         tokenTicket[k] # None /\ tokenScenario[k] = ticketName[tokenTicket[k]]

(* An order was paid for with a minted token. *)
OrderFollowsToken ==
  \A o \in OrderIds: Known(o) =>
    /\ order[o].token \in Tokens
    /\ tokenTicket[order[o].token] # None
    /\ order[o].scenario = ticketName[tokenTicket[order[o].token]]

GatewayInv ==
  /\ GatewayTypeOK
  /\ LiveTicketUnused
  /\ TokenFollowsTicket
  /\ OneTokenPerTicket
  /\ OrderFollowsToken

(* Nothing is in the Maps at the start. *)
LEMMA GatewayInitInv == GatewayInit => GatewayInv
  BY GatewayAssumption, DomainsAssumption DEF GatewayInit, GatewayInv, GatewayTypeOK, LiveTicketUnused,
     TokenFollowsTicket, OneTokenPerTicket, OrderFollowsToken, Known, NoOrder, Order, Scenarios

(* Minting takes a text no ticket ever had, so no token can point at it. *)
LEMMA MintTicketInv ==
  ASSUME GatewayInv, NEW t \in Tickets, NEW reply, CreateEphemeralTicket(t, reply)
  PROVE  GatewayInv'
<1> USE GatewayAssumption, DomainsAssumption DEF GatewayInv, CreateEphemeralTicket
<1>1. GatewayTypeOK'
  BY DEF GatewayTypeOK, Scenarios
<1>2. \A k \in Tokens: tokenTicket[k] # t
  BY DEF TokenFollowsTicket
<1>3. LiveTicketUnused'
  BY <1>2 DEF LiveTicketUnused, GatewayTypeOK
<1>4. TokenFollowsTicket'
  BY <1>2 DEF TokenFollowsTicket, GatewayTypeOK
<1>5. OneTokenPerTicket'
  BY DEF OneTokenPerTicket
<1>6. OrderFollowsToken'
  BY <1>2 DEF OrderFollowsToken, Known, GatewayTypeOK
<1>7. QED
  BY <1>1, <1>3, <1>4, <1>5, <1>6

(* The token takes its ticket out of the Map, so the next one has to come  *)
(* from another ticket.                                                    *)
LEMMA MintTokenInv ==
  ASSUME GatewayInv, NEW t \in Tickets, NEW k \in Tokens, MintToken(t, k)
  PROVE  GatewayInv'
<1> USE GatewayAssumption, DomainsAssumption DEF GatewayInv, MintToken
<1>1. GatewayTypeOK'
  BY DEF GatewayTypeOK
<1>2. LiveTicketUnused'
  BY DEF LiveTicketUnused, GatewayTypeOK
<1>3. TokenFollowsTicket'
  BY DEF TokenFollowsTicket, LiveTicketUnused, GatewayTypeOK
<1>4. OneTokenPerTicket'
  BY DEF OneTokenPerTicket, LiveTicketUnused, GatewayTypeOK
<1>5. OrderFollowsToken'
  BY DEF OrderFollowsToken, Known, GatewayTypeOK
<1>6. QED
  BY <1>1, <1>2, <1>3, <1>4, <1>5

(* createOrder() gives an order the scenario of the token it is paid with. *)
LEMMA CreateOrderInv ==
  ASSUME GatewayInv, NEW o \in OrderIds, NEW k \in Tokens, NEW c \in ClientOrders,
         NEW x \in Details, tokenScenario[k] # None, CreateOrder(o, k, c, x)
  PROVE  GatewayInv'
<1> USE GatewayAssumption, DomainsAssumption DEF GatewayInv, CreateOrder
<1>1. GatewayTypeOK'
  BY DEF GatewayTypeOK, Order
<1>2. LiveTicketUnused' /\ TokenFollowsTicket' /\ OneTokenPerTicket'
  BY DEF LiveTicketUnused, TokenFollowsTicket, OneTokenPerTicket
<1>3. OrderFollowsToken'
  BY DEF OrderFollowsToken, TokenFollowsTicket, Known, GatewayTypeOK
<1>4. QED
  BY <1>1, <1>2, <1>3

(* One case for each handler of the emulator. *)
LEMMA GatewayStepInv ==
  GatewayInv /\ [GatewayNext]_gatewayVars => GatewayInv'
<1> SUFFICES ASSUME GatewayInv, [GatewayNext]_gatewayVars PROVE GatewayInv'
  OBVIOUS
<1>1. CASE UNCHANGED gatewayVars
  BY <1>1 DEF GatewayInv, gatewayVars, GatewayTypeOK, LiveTicketUnused, TokenFollowsTicket,
     OneTokenPerTicket, OrderFollowsToken, Known
<1>2. ASSUME NEW s \in Scenarios, SetScenario(s) PROVE GatewayInv'
  BY <1>2 DEF SetScenario, GatewayInv, GatewayTypeOK, LiveTicketUnused, TokenFollowsTicket,
     OneTokenPerTicket, OrderFollowsToken, Known
<1>3. CASE Reset
  BY <1>3, GatewayAssumption, DomainsAssumption DEF Reset, GatewayInv, GatewayTypeOK, LiveTicketUnused,
     TokenFollowsTicket, OneTokenPerTicket, OrderFollowsToken, Known, NoOrder, Order, Scenarios
<1>4. ASSUME NEW t \in Tickets, NEW reply, CreateEphemeralTicket(t, reply) PROVE GatewayInv'
  BY <1>4, MintTicketInv
<1>5. ASSUME NEW t \in Tickets, NEW card \in Cards, NEW reply \in TokenReplies,
             Tokenize(t, card, reply)
      PROVE  GatewayInv'
  <2>1. CASE UNCHANGED gatewayVars
    BY <1>1, <2>1
  <2>2. ASSUME NEW k \in Tokens, MintToken(t, k) PROVE GatewayInv'
    BY <2>2, MintTokenInv
  <2>3. QED
    BY <1>5, <2>1, <2>2 DEF Tokenize
<1>6. ASSUME NEW k \in Tokens, NEW a \in Amounts, NEW c \in ClientOrders, NEW x \in Details,
             NEW reply \in OrderIds \cup {None}, Sale(k, a, c, x, reply)
      PROVE  GatewayInv'
  <2>1. CASE UNCHANGED gatewayVars
    BY <1>1, <2>1
  <2>2. CASE ~SaleRefused(k, a) /\ reply \in OrderIds /\ CreateOrder(reply, k, c, x)
    BY <2>2, CreateOrderInv DEF SaleRefused
  <2>3. QED
    BY <1>6, <2>1, <2>2 DEF Sale
<1>7. ASSUME NEW o \in OrderIds, ChallengePage(o) \/ BankDecides(o) PROVE GatewayInv'
  <2> USE DEF GatewayInv
  <2>1. PICK c \in BOOLEAN, b \in BOOLEAN:
          order' = [order EXCEPT ![o] = [order[o] EXCEPT !.challengeDone = c, !.decided = b]]
    <3>1. CASE ChallengePage(o)
      <4>1. (order[o].decided \/ ~SlowBank) \in BOOLEAN
        BY GatewayAssumption DEF GatewayTypeOK, Order
      <4>2. order' = [order EXCEPT ![o] = [order[o] EXCEPT !.challengeDone = TRUE,
                                             !.decided = order[o].decided \/ ~SlowBank]]
        BY <3>1 DEF ChallengePage
      <4>3. QED
        BY <4>1, <4>2
    <3>2. CASE BankDecides(o)
      <4>1. order' = [order EXCEPT ![o] = [order[o] EXCEPT !.decided = TRUE]]
        BY <3>2 DEF BankDecides
      <4>2. order[o] \in Order
        BY DEF GatewayTypeOK
      <4>3. [order[o] EXCEPT !.decided = TRUE]
              = [order[o] EXCEPT !.challengeDone = order[o].challengeDone, !.decided = TRUE]
        BY <4>2 DEF Order
      <4>4. order[o].challengeDone \in BOOLEAN
        BY <4>2 DEF Order
      <4>5. QED
        BY <4>1, <4>3, <4>4
    <3>3. QED
      BY <1>7, <3>1, <3>2
  <2>2. order[o] \in Order
    BY DEF GatewayTypeOK
  <2>3. [order[o] EXCEPT !.challengeDone = c, !.decided = b] \in Order
    BY <2>2 DEF Order
  <2>4. UNCHANGED <<pending, ticketName, ticketScenario, tokenTicket, tokenScenario>>
    BY <1>7 DEF ChallengePage, BankDecides
  <2>5. GatewayTypeOK'
    BY <2>1, <2>3, <2>4 DEF GatewayTypeOK
  <2>6. \A p \in OrderIds: order'[p].scenario = order[p].scenario /\ order'[p].token = order[p].token
    BY <2>1, <2>2 DEF GatewayTypeOK, Order
  <2>7. OrderFollowsToken'
    BY <2>4, <2>6 DEF OrderFollowsToken, Known
  <2>8. LiveTicketUnused' /\ TokenFollowsTicket' /\ OneTokenPerTicket'
    BY <2>4 DEF LiveTicketUnused, TokenFollowsTicket, OneTokenPerTicket
  <2>9. QED
    BY <2>5, <2>7, <2>8
<1>8. QED
  BY <1>1, <1>2, <1>3, <1>4, <1>5, <1>6, <1>7 DEF GatewayNext

(* Every call of the emulator, in any order, keeps the types, one token    *)
(* per ticket and the scenario of every flow.                              *)
THEOREM GatewayInvariant == GatewaySpec => []GatewayInv
  BY GatewayInitInv, GatewayStepInv, PTL DEF GatewaySpec

(* state.ts:51 for every number of tickets and tokens: no two tokens were  *)
(* made from the same ticket.                                              *)
THEOREM TicketIsSingleUse == GatewaySpec => []OneTokenPerTicket
<1>1. GatewayInv => OneTokenPerTicket
  BY DEF GatewayInv
<1>2. QED
  BY <1>1, GatewayInvariant, PTL

(* scenarios.ts:3 for every number of orders: a flow in progress keeps the *)
(* scenario its ticket was minted under.                                   *)
THEOREM ScenarioIsPinned == GatewaySpec => []ScenarioPinned
<1>1. GatewayInv => ScenarioPinned
  BY DEF GatewayInv, OrderFollowsToken, ScenarioPinned
<1>2. QED
  BY <1>1, GatewayInvariant, PTL

-----------------------------------------------------------------------------
(* The browser half, whatever the server, the SDK and the payer do with    *)
(* it: its type, and the order in which a page gets a ticket, a form and   *)
(* an order to follow.                                                     *)

(* Only a page with a ticket gets as far as loading the SDK. *)
PageHasTicket ==
  \A d \in Docs: stage[d] \in {"script", "fields", "form"} => ticket[d] \in Tickets

(* A loop that runs, or has run, is about an order, and none runs before   *)
(* the page is there.                                                      *)
FollowsAnOrder ==
  \A d \in Docs: poll[d].loop # "off" =>
    orderOf[d].order \in OrderIds /\ stage[d] \notin {"closed", "config"}

(* A page has no ticket before it has its configuration. *)
NoTicketYet ==
  \A d \in Docs: stage[d] \in {"closed", "config"} => ticket[d] = None

(* The timer is set only while another poll is allowed. *)
PageMaySleep ==
  \A d \in Docs: poll[d].loop = "sleeping" => poll[d].attempts < MaxPolls

PageInv ==
  /\ PageTypeOK
  /\ PageHasTicket
  /\ FollowsAnOrder
  /\ NoTicketYet
  /\ PageMaySleep

(* A page on its own: every handler and callback, for any input. *)
RealOrder == [order: OrderIds, client: ClientOrders \cup {None}]
AnyReply == [status: FinalStatuses \cup {"processing", "none"}, redirect: BOOLEAN]

PageNext(d) ==
  \/ OpenCheckout(d) \/ ConfigLost(d) \/ ScriptLoads(d) \/ ScriptFails(d) \/ FieldsReady(d)
  \/ \E t \in Tickets \cup {None}: ConfigArrives(d, t)
  \/ \E x \in Details: EditDetails(d, x)
  \/ Submit(d)
  \/ \E code \in Nat: ShowError(d, code)
  \/ PayRefused(d) \/ PayLost(d)
  \/ \E ref \in RealOrder: PayAccepted(d, ref)
  \/ \E r \in AnyReply: HearStatus(d, r)
  \/ LoseStatus(d) \/ TimerFires(d)
  \/ \E ref \in RealOrder \cup {NoOrderRef}: OpenResult(d, ref)
  \/ ResultConfigLost(d) \/ Leave(d)

-----------------------------------------------------------------------------
LEMMA PageInitInv == PageInit => PageInv
BY PollAssumption DEF PageInit, PageInv, PageTypeOK, PageHasTicket, FollowsAnOrder, NoTicketYet,
   PageMaySleep, NoPoll, Polls, Panels, Stages, Buttons, OrderRef, NoOrderRef

(* showFormError() writes one of the buttons and one of the messages. *)
LEMMA ErrorBoxInv ==
  ASSUME PageTypeOK, NEW d \in Docs, NEW kind \in FormErrors, ShowFormError(d, kind)
  PROVE  /\ pay' \in [Docs -> Buttons]
         /\ formError' \in [Docs -> FormErrors \cup {"none"}]
BY DEF PageTypeOK, ShowFormError, FormErrors, Buttons, TerminalErrors

(* Loading the payment page: a form comes only after a ticket. *)
LEMMA LoadingInv ==
  ASSUME PageInv, NEW d \in Docs,
         \/ OpenCheckout(d) \/ ConfigLost(d) \/ ScriptLoads(d) \/ ScriptFails(d) \/ FieldsReady(d)
         \/ ResultConfigLost(d) \/ Leave(d)
         \/ \E t \in Tickets \cup {None}: ConfigArrives(d, t)
  PROVE  PageInv'
<1> USE DEF PageInv, PageTypeOK, PageHasTicket, FollowsAnOrder, NoTicketYet, PageMaySleep
<1>1. CASE OpenCheckout(d)
  BY <1>1 DEF OpenCheckout, Stages
<1>2. CASE ConfigLost(d)
  BY <1>2 DEF ConfigLost, Stages
<1>3. CASE ScriptLoads(d)
  BY <1>3 DEF ScriptLoads, Stages
<1>4. CASE ScriptFails(d)
  <2>1. ShowFormError(d, "unavailable") /\ "unavailable" \in FormErrors
    BY <1>4 DEF ScriptFails, FormErrors, TerminalErrors
  <2> QED BY <1>4, <2>1, ErrorBoxInv DEF ScriptFails, Stages
<1>5. CASE FieldsReady(d)
  BY <1>5 DEF FieldsReady, Stages, Buttons
<1>6. CASE ResultConfigLost(d)
  BY <1>6 DEF ResultConfigLost, Stages
<1>7. CASE Leave(d)
  BY <1>7 DEF Leave, Stages
<1>8. ASSUME NEW t \in Tickets \cup {None}, ConfigArrives(d, t) PROVE PageInv'
  <2>1. CASE t = None
    <3>1. ShowFormError(d, "unavailable") /\ "unavailable" \in FormErrors
      BY <1>8, <2>1 DEF ConfigArrives, FormErrors, TerminalErrors
    <3> QED BY <1>8, <2>1, <3>1, ErrorBoxInv DEF ConfigArrives, Stages
  <2>2. CASE t # None
    BY <1>8, <2>2 DEF ConfigArrives, Stages
  <2> QED BY <2>1, <2>2
<1> QED BY <1>1, <1>2, <1>3, <1>4, <1>5, <1>6, <1>7, <1>8

(* Paying: the form stays a form, with the ticket it had. *)
LEMMA PayingInv ==
  ASSUME PageInv, NEW d \in Docs,
         \/ \E x \in Details: EditDetails(d, x)
         \/ Submit(d)
         \/ \E code \in Nat: ShowError(d, code)
         \/ PayRefused(d) \/ PayLost(d)
         \/ \E ref \in RealOrder: PayAccepted(d, ref)
  PROVE  PageInv'
<1> USE PollAssumption DEF PageInv, PageTypeOK, PageHasTicket, FollowsAnOrder, NoTicketYet, PageMaySleep
<1>1. ASSUME NEW x \in Details, EditDetails(d, x) PROVE PageInv'
  BY <1>1 DEF EditDetails
<1>2. CASE Submit(d)
  BY <1>2 DEF Submit, Buttons, Panels
<1>3. ASSUME NEW kind \in FormErrors, ShowFormError(d, kind), HideStatusPanel(d),
             UNCHANGED <<stage, ticket, details, orderOf, poll, rearmed>>
      PROVE  PageInv'
  BY <1>3, ErrorBoxInv DEF HideStatusPanel, Panels
<1>4. ASSUME NEW code \in Nat, ShowError(d, code) PROVE PageInv'
  <2>1. KindOf(code) \in FormErrors
    BY DEF KindOf, FormErrors, TerminalErrors
  <2> QED BY <1>3, <1>4, <2>1 DEF ShowError
<1>5. CASE PayRefused(d) \/ PayLost(d)
  <2>1. {"retry", "network"} \subseteq FormErrors
    BY DEF FormErrors
  <2> QED BY <1>3, <1>5, <2>1 DEF PayRefused, PayLost
<1>6. ASSUME NEW ref \in RealOrder, PayAccepted(d, ref) PROVE PageInv'
  <2>1. Started(FALSE) \in Polls /\ Started(FALSE).loop = "asking"
    BY DEF Started, Polls
  <2>2. ref \in OrderRef /\ ref.order \in OrderIds
    BY DEF RealOrder, OrderRef
  <2> QED BY <1>6, <2>1, <2>2 DEF PayAccepted
<1> QED BY <1>1, <1>2, <1>4, <1>5, <1>6

(* Following an order: the loop of one page, as status.js runs it. *)
LEMMA FollowingInv ==
  ASSUME PageInv, NEW d \in Docs,
         \/ \E r \in AnyReply: HearStatus(d, r)
         \/ LoseStatus(d) \/ TimerFires(d)
         \/ \E ref \in RealOrder \cup {NoOrderRef}: OpenResult(d, ref)
  PROVE  PageInv'
<1> USE PollAssumption DEF PageInv, PageTypeOK, PageHasTicket, FollowsAnOrder, NoTicketYet, PageMaySleep
<1>1. ASSUME NEW p \in Polls, NEW w \in Panels,
             poll[d].loop # "off", p.loop = "sleeping" => p.attempts < MaxPolls,
             poll' = [poll EXCEPT ![d] = p], panel' = [panel EXCEPT ![d] = w],
             UNCHANGED <<stage, ticket, pay, formError, details, orderOf, rearmed>>
      PROVE  PageInv'
  BY <1>1
<1>2. poll[d] \in Polls
  OBVIOUS
<1>3. ASSUME NEW r \in AnyReply, HearStatus(d, r) PROVE PageInv'
  <2>1. r.status \in FinalStatuses \cup {"processing", "none"}
    BY DEF AnyReply
  <2>2. /\ Heard(poll[d], r) \in Polls
        /\ Heard(poll[d], r).loop = "sleeping" => Heard(poll[d], r).attempts < MaxPolls
    <3>1. CASE Heard(poll[d], r) = [poll[d] EXCEPT !.loop = "told"]
      BY <1>2, <3>1 DEF Polls
    <3>2. CASE Heard(poll[d], r) = [poll[d] EXCEPT !.loop = "sent", !.redirected = TRUE]
      BY <1>2, <3>2 DEF Polls
    <3>3. CASE Heard(poll[d], r) = [poll[d] EXCEPT !.loop = "sleeping"] /\ AskAgain(poll[d], r)
      BY <1>2, <3>3 DEF Polls, AskAgain
    <3> QED BY <1>2, <2>1, <3>1, <3>2, <3>3, ReplyBranches
  <2>3. PanelAfter(poll[d], r) \in Panels
    BY <2>1 DEF PanelAfter, PanelOf, Panels, FinalStatuses
  <2> QED BY <1>1, <1>3, <2>2, <2>3 DEF HearStatus
<1>4. CASE LoseStatus(d)
  <2>1. GaveUp(poll[d]) \in Polls /\ GaveUp(poll[d]).loop = "told"
    BY <1>2 DEF GaveUp, Polls
  <2>2. "error" \in Panels
    BY DEF Panels, FinalStatuses
  <2> QED BY <1>1, <1>4, <2>1, <2>2 DEF LoseStatus
<1>5. CASE TimerFires(d)
  <2>1. poll[d].attempts + 1 \in 0..MaxPolls /\ poll[d].loop = "sleeping"
    BY <1>2, <1>5 DEF TimerFires, Polls
  <2>2. Again(poll[d]) \in Polls /\ Again(poll[d]).loop = "asking"
    BY <1>2, <2>1 DEF Again, Polls
  <2>3. panel' = [panel EXCEPT ![d] = panel[d]] /\ panel[d] \in Panels
    BY <1>5 DEF TimerFires
  <2> QED BY <1>1, <1>5, <2>1, <2>2, <2>3 DEF TimerFires
<1>6. ASSUME NEW ref \in RealOrder \cup {NoOrderRef}, OpenResult(d, ref) PROVE PageInv'
  <2>1. Started(TRUE) \in Polls /\ Started(TRUE).loop = "asking" /\ "error" \in Panels
    BY DEF Started, Polls, Panels, FinalStatuses
  <2>2. ref \in OrderRef /\ (ref.order # None => ref.order \in OrderIds)
    BY DEF RealOrder, OrderRef, NoOrderRef
  <2>3. CASE ref.order # None
    <3>1. /\ poll' = [poll EXCEPT ![d] = Started(TRUE)]
          /\ stage' = [stage EXCEPT ![d] = "result"]
          /\ orderOf' = [orderOf EXCEPT ![d] = ref]
          /\ UNCHANGED <<panel, ticket, pay, formError, details, rearmed>>
      BY <1>6, <2>3 DEF OpenResult
    <3>2. PageTypeOK'
      BY <2>1, <2>2, <3>1 DEF Stages
    <3> QED BY <2>1, <2>2, <2>3, <3>1, <3>2
  <2>4. CASE ref.order = None
    BY <1>6, <2>1, <2>2, <2>4 DEF OpenResult, Stages
  <2> QED BY <2>3, <2>4
<1> QED BY <1>3, <1>4, <1>5, <1>6

(* No input of any handler takes a page out of its invariant. *)
LEMMA PageStepInv ==
  PageInv /\ ((\E d \in Docs: PageNext(d)) \/ UNCHANGED pageVars) => PageInv'
<1>1. ASSUME PageInv, NEW d \in Docs, PageNext(d) PROVE PageInv'
  BY <1>1, LoadingInv, PayingInv, FollowingInv DEF PageNext
<1>2. ASSUME PageInv, UNCHANGED pageVars PROVE PageInv'
  BY <1>2 DEF pageVars, PageInv, PageTypeOK, PageHasTicket, FollowsAnOrder, NoTicketYet, PageMaySleep
<1> QED BY <1>1, <1>2

(* A page that has its form keeps form and ticket until it is gone. *)
LEMMA FormKeepsTicket ==
  ASSUME PageTypeOK, (\E e \in Docs: PageNext(e)) \/ UNCHANGED pageVars,
         NEW d \in Docs, stage[d] \in {"form", "gone"}
  PROVE  stage'[d] \in {"form", "gone"} /\ ticket'[d] = ticket[d]
<1> USE DEF PageTypeOK
<1>1. CASE UNCHANGED pageVars
  BY <1>1 DEF pageVars
<1>2. ASSUME NEW e \in Docs, PageNext(e)
      PROVE  stage'[d] \in {"form", "gone"} /\ ticket'[d] = ticket[d]
  <2>1. CASE OpenCheckout(e) \/ ConfigLost(e) \/ ScriptLoads(e) \/ ScriptFails(e) \/ FieldsReady(e)
    BY <2>1 DEF OpenCheckout, ConfigLost, ScriptLoads, ScriptFails, FieldsReady
  <2>2. ASSUME NEW t, ConfigArrives(e, t)
        PROVE  stage'[d] \in {"form", "gone"} /\ ticket'[d] = ticket[d]
    BY <2>2 DEF ConfigArrives
  <2>3. CASE UNCHANGED <<stage, ticket>>
    BY <2>3
  <2>4. CASE ResultConfigLost(e) \/ Leave(e)
    BY <2>4 DEF ResultConfigLost, Leave
  <2>5. ASSUME NEW ref, OpenResult(e, ref)
        PROVE  stage'[d] \in {"form", "gone"} /\ ticket'[d] = ticket[d]
    BY <2>5 DEF OpenResult
  <2> QED
    BY <1>2, <2>1, <2>2, <2>3, <2>4, <2>5 DEF PageNext, EditDetails, Submit, ShowError, PayRefused,
       PayLost, PayAccepted, HearStatus, LoseStatus, TimerFires
<1> QED BY <1>1, <1>2

(* A page that has an order to follow is past its loading. *)
Loaded(d) == stage[d] \in {"form", "result", "gone"}

(* Past its loading a page stays past it, with the ticket it has or lacks. *)
LEMMA LoadedIsKept ==
  ASSUME PageTypeOK, (\E e \in Docs: PageNext(e)) \/ UNCHANGED pageVars, NEW d \in Docs
  PROVE  /\ Loaded(d) => Loaded(d)'
         /\ ticket'[d] # ticket[d] =>
              stage[d] = "config" /\ \A e \in Docs: e # d => ticket'[e] = ticket[e]
<1> USE DEF PageTypeOK, Loaded
<1>1. CASE UNCHANGED pageVars
  BY <1>1 DEF pageVars
<1>2. ASSUME NEW e \in Docs, PageNext(e)
      PROVE  /\ Loaded(d) => Loaded(d)'
             /\ ticket'[d] # ticket[d] =>
                  stage[d] = "config" /\ \A c \in Docs: c # d => ticket'[c] = ticket[c]
  <2>1. CASE OpenCheckout(e) \/ ConfigLost(e) \/ ScriptLoads(e) \/ ScriptFails(e) \/ FieldsReady(e)
    BY <2>1 DEF OpenCheckout, ConfigLost, ScriptLoads, ScriptFails, FieldsReady
  <2>2. ASSUME NEW t, ConfigArrives(e, t)
        PROVE  /\ Loaded(d) => Loaded(d)'
               /\ ticket'[d] # ticket[d] =>
                    stage[d] = "config" /\ \A c \in Docs: c # d => ticket'[c] = ticket[c]
    BY <2>2 DEF ConfigArrives
  <2>3. CASE UNCHANGED <<stage, ticket>>
    BY <2>3
  <2>4. CASE ResultConfigLost(e) \/ Leave(e)
    BY <2>4 DEF ResultConfigLost, Leave
  <2>5. ASSUME NEW ref, OpenResult(e, ref) PROVE UNCHANGED ticket /\ (Loaded(d) => Loaded(d)')
    BY <2>5 DEF OpenResult
  <2> QED
    BY <1>2, <2>1, <2>2, <2>3, <2>4, <2>5 DEF PageNext, EditDetails, Submit, ShowError, PayRefused,
       PayLost, PayAccepted, HearStatus, LoseStatus, TimerFires
<1> QED BY <1>1, <1>2

-----------------------------------------------------------------------------
(* A page whose chain of callbacks has not come to its end. *)
Busy(d) == pay[d] = "processing" /\ poll[d].loop = "off"

(* How button, error, panel and loop go together until a field that is     *)
(* loaded again makes the button live under a payment.                     *)
InOrder(d) ==
  /\ formError[d] # "none" => panel[d] = "hidden" /\ pay[d] # "processing"
  /\ stage[d] = "form" /\ pay[d] = "processing" => panel[d] # "hidden"
  /\ stage[d] = "form" /\ poll[d].loop # "off" => pay[d] = "processing"

(* ... and on any page. *)
PageFits(d) ==
  /\ stage[d] \in {"closed", "config", "script", "fields"} =>
       /\ pay[d] = "preparing" /\ formError[d] = "none"
       /\ panel[d] = "hidden" /\ poll[d].loop = "off"
  /\ stage[d] = "result" => formError[d] = "none"
  /\ stage[d] = "form" /\ poll[d].loop = "off" => panel[d] \in {"hidden", "processing"}
  /\ pay[d] = "unavailable" => stage[d] \in {"unusable", "gone"}
  /\ d \in rearmed => stage[d] \in {"form", "gone"}
  /\ d \notin rearmed => InOrder(d)

(* What a step may do to the dead buttons. *)
ButtonsStayDead ==
  \A c \in Docs: pay[c] \in TerminalErrors =>
    pay'[c] = pay[c] \/ (c \in rearmed' /\ pay[c] # "unavailable")

(* A step as the button of each page sees it. *)
Fits ==
  /\ \A c \in Docs: PageFits(c)'
  /\ \A c \in Docs \ rearmed': stage[c] \in {"form", "gone"} /\ Busy(c) => Busy(c)'
  /\ ButtonsStayDead
  /\ rearmed \subseteq rearmed'

(* The handlers that no attempt calls: they leave a busy page busy. *)
LEMMA OwnHandlersFit ==
  ASSUME PageInv, \A c \in Docs: PageFits(c), NEW d \in Docs,
         \/ OpenCheckout(d) \/ ConfigLost(d) \/ ScriptLoads(d) \/ ScriptFails(d) \/ FieldsReady(d)
         \/ \E t \in Tickets \cup {None}: ConfigArrives(d, t)
         \/ \E x \in Details: EditDetails(d, x)
         \/ \E r \in AnyReply: HearStatus(d, r)
         \/ LoseStatus(d) \/ TimerFires(d)
         \/ \E ref \in RealOrder \cup {NoOrderRef}: OpenResult(d, ref)
         \/ ResultConfigLost(d) \/ Leave(d)
  PROVE  Fits
<1> USE DEF PageInv, PageTypeOK, PageFits, InOrder, Busy, TerminalErrors, Fits, ButtonsStayDead
<1>1. CASE OpenCheckout(d)
  BY <1>1 DEF OpenCheckout
<1>2. CASE ConfigLost(d) \/ ResultConfigLost(d)
  BY <1>2 DEF ConfigLost, ResultConfigLost
<1>3. CASE ScriptLoads(d)
  BY <1>3 DEF ScriptLoads
<1>4. CASE ScriptFails(d)
  BY <1>4 DEF ScriptFails, ShowFormError
<1>5. CASE FieldsReady(d)
  BY <1>5 DEF FieldsReady
<1>6. ASSUME NEW t \in Tickets \cup {None}, ConfigArrives(d, t)
      PROVE  Fits
  BY <1>6 DEF ConfigArrives, ShowFormError
<1>7. ASSUME NEW x \in Details, EditDetails(d, x)
      PROVE  UNCHANGED <<stage, pay, formError, panel, poll, rearmed>>
  BY <1>7 DEF EditDetails
<1>8. ASSUME NEW p \in Polls, NEW w \in Panels \ {"hidden"}, Alive(d), poll[d].loop # "off",
             p.loop # "off", poll' = [poll EXCEPT ![d] = p],
             panel' = [panel EXCEPT ![d] = w] \/ UNCHANGED panel,
             UNCHANGED <<stage, pay, formError, rearmed>>
      PROVE  Fits
  BY <1>8 DEF Alive
<1>9. poll[d] \in Polls
  OBVIOUS
<1>10. ASSUME NEW r \in AnyReply, HearStatus(d, r)
       PROVE  /\ Heard(poll[d], r) \in Polls /\ Heard(poll[d], r).loop # "off"
              /\ PanelAfter(poll[d], r) \in Panels \ {"hidden"}
  <2>1. r.status \in FinalStatuses \cup {"processing", "none"}
    BY DEF AnyReply
  <2>2. /\ Heard(poll[d], r) \in Polls
        /\ Heard(poll[d], r).loop # "off"
    <3>1. CASE Heard(poll[d], r) = [poll[d] EXCEPT !.loop = "told"]
      BY <1>9, <3>1 DEF Polls
    <3>2. CASE Heard(poll[d], r) = [poll[d] EXCEPT !.loop = "sent", !.redirected = TRUE]
      BY <1>9, <3>2 DEF Polls
    <3>3. CASE Heard(poll[d], r) = [poll[d] EXCEPT !.loop = "sleeping"]
      BY <1>9, <3>3 DEF Polls
    <3> HIDE DEF PageInv, PageTypeOK, PageFits, InOrder, Busy
    <3> QED BY <1>9, <2>1, <3>1, <3>2, <3>3, ReplyBranches
  <2>3. PanelAfter(poll[d], r) \in Panels \ {"hidden"}
    BY <2>1 DEF PanelAfter, PanelOf, Panels, FinalStatuses
  <2> QED BY <2>2, <2>3
<1>11. ASSUME NEW r \in AnyReply, HearStatus(d, r)
       PROVE  Fits
  <2>1. poll[d].loop = "asking" /\ Alive(d)
    BY <1>11 DEF HearStatus
  <2> QED BY <1>8, <1>10, <1>11, <2>1 DEF HearStatus
<1>12. CASE LoseStatus(d)
  <2>1. GaveUp(poll[d]) \in Polls /\ GaveUp(poll[d]).loop = "told"
    BY <1>9 DEF GaveUp, Polls
  <2>2. "error" \in Panels \ {"hidden"}
    BY DEF Panels, FinalStatuses
  <2>3. poll[d].loop = "asking" /\ Alive(d)
    BY <1>12 DEF LoseStatus
  <2> QED BY <1>8, <1>12, <2>1, <2>2, <2>3 DEF LoseStatus
<1>13. CASE TimerFires(d)
  <2>1. poll[d].loop = "sleeping" /\ poll[d].attempts + 1 \in 0..MaxPolls /\ Alive(d)
    BY <1>9, <1>13, PollAssumption DEF TimerFires, PageMaySleep, Polls
  <2>2. Again(poll[d]) \in Polls /\ Again(poll[d]).loop = "asking"
    BY <1>9, <2>1 DEF Again, Polls
  <2>3. "error" \in Panels \ {"hidden"}
    BY DEF Panels, FinalStatuses
  <2> QED BY <1>8, <1>13, <2>1, <2>2, <2>3 DEF TimerFires
<1>14. ASSUME NEW ref \in RealOrder \cup {NoOrderRef}, OpenResult(d, ref)
       PROVE  Fits
  BY <1>14 DEF OpenResult
<1>15. CASE Leave(d)
  BY <1>15 DEF Leave
<1> QED
  BY <1>1, <1>2, <1>3, <1>4, <1>5, <1>6, <1>7, <1>11, <1>12, <1>13, <1>14, <1>15


-----------------------------------------------------------------------------
(* The merchant's server: what a handler has in hand at each point. *)

CallProgress ==
  \A i \in Attempts:
    /\ payCall[i].token # None => payCall[i].details # None
    /\ payCall[i].sale # "unsent" => payCall[i].token # None /\ payCall[i].client # None
    /\ payCall[i].sale = "made" <=> payCall[i].order # None
    /\ payCall[i].answer = "order" => payCall[i].sale = "made"

MerchantInv == MerchantTypeOK /\ CallProgress

MerchantNext ==
  \/ \E i \in Attempts, k \in Tokens, x \in Details: PostPay(i, k, x)
  \/ \E i \in Attempts, c \in ClientOrders: HandlePay(i, c)
  \/ \E i \in Attempts, o \in OrderIds \cup {None}: SaleDone(i, o)
  \/ \E i \in Attempts: AnswerPay(i) \/ FailPay(i)
  \/ \E d \in Docs, r \in Replies: AnswerStatus(d, r)
  \/ \E d \in Docs: ForgetStatus(d)

LEMMA MerchantInitInv == MerchantInit => MerchantInv
BY DEF MerchantInit, MerchantInv, MerchantTypeOK, CallProgress, NoPayCall, PayCalls

(* The server's handlers fill in one request at a time, in this order. *)
LEMMA MerchantStepInv ==
  MerchantInv /\ (MerchantNext \/ UNCHANGED merchantVars) => MerchantInv'
<1> SUFFICES ASSUME MerchantInv, MerchantNext \/ UNCHANGED merchantVars PROVE MerchantInv'
  OBVIOUS
<1> USE DomainsAssumption DEF MerchantInv, MerchantTypeOK, CallProgress
<1>1. ASSUME NEW i \in Attempts, NEW call \in PayCalls,
             payCall' = [payCall EXCEPT ![i] = call], UNCHANGED statusReply,
             call.token # None => call.details # None,
             call.sale # "unsent" => call.token # None /\ call.client # None,
             call.sale = "made" <=> call.order # None,
             call.answer = "order" => call.sale = "made"
      PROVE  MerchantInv'
  BY <1>1
<1>2. ASSUME NEW i \in Attempts, NEW k \in Tokens, NEW x \in Details, PostPay(i, k, x)
      PROVE  MerchantInv'
  <2> DEFINE call == [payCall[i] EXCEPT !.token = k, !.details = x]
  <2>1. payCall' = [payCall EXCEPT ![i] = call] /\ UNCHANGED statusReply
    BY <1>2 DEF PostPay
  <2>2. call \in PayCalls /\ payCall[i] \in PayCalls
    BY DEF PayCalls
  <2>3. /\ call.token = k /\ call.details = x /\ call.sale = payCall[i].sale
        /\ call.client = payCall[i].client /\ call.order = payCall[i].order
        /\ call.answer = payCall[i].answer
    BY <2>2 DEF PayCalls
  <2> HIDE DEF call
  <2> QED BY <1>1, <2>1, <2>2, <2>3
<1>3. ASSUME NEW i \in Attempts, NEW c \in ClientOrders, HandlePay(i, c) PROVE MerchantInv'
  <2> DEFINE call == [payCall[i] EXCEPT !.client = c, !.sale = "asked"]
  <2>1. payCall' = [payCall EXCEPT ![i] = call] /\ UNCHANGED statusReply
    BY <1>3 DEF HandlePay
  <2>2. call \in PayCalls /\ payCall[i] \in PayCalls
    BY DEF PayCalls
  <2>3. /\ call.token = payCall[i].token /\ call.details = payCall[i].details
        /\ call.sale = "asked" /\ call.client = c /\ call.order = payCall[i].order
        /\ call.answer = payCall[i].answer
    BY <2>2 DEF PayCalls
  <2>4. payCall[i].token # None /\ payCall[i].sale = "unsent"
    BY <1>3 DEF HandlePay
  <2> HIDE DEF call
  <2> QED BY <1>1, <2>1, <2>2, <2>3, <2>4
<1>4. ASSUME NEW i \in Attempts, NEW o \in OrderIds \cup {None}, SaleDone(i, o) PROVE MerchantInv'
  <2> DEFINE done == IF o = None THEN "refused" ELSE "made"
             call == [payCall[i] EXCEPT !.sale = done, !.order = o]
  <2>1. payCall' = [payCall EXCEPT ![i] = call] /\ UNCHANGED statusReply
    BY <1>4 DEF SaleDone
  <2>2. call \in PayCalls /\ payCall[i] \in PayCalls
    BY DEF PayCalls
  <2>3. /\ call.token = payCall[i].token /\ call.details = payCall[i].details
        /\ call.sale = done /\ call.client = payCall[i].client /\ call.order = o
        /\ call.answer = payCall[i].answer
    BY <2>2 DEF PayCalls
  <2>4. payCall[i].sale = "asked"
    BY <1>4 DEF SaleDone
  <2> HIDE DEF call
  <2> QED BY <1>1, <2>1, <2>2, <2>3, <2>4
<1>5. ASSUME NEW i \in Attempts, AnswerPay(i) \/ FailPay(i) PROVE MerchantInv'
  <2>1. PICK a \in {"order", "refusal", "failure"}:
          /\ payCall' = [payCall EXCEPT ![i].answer = a]
          /\ UNCHANGED statusReply
          /\ a = "order" => payCall[i].sale = "made"
    BY <1>5 DEF AnswerPay, FailPay
  <2> DEFINE call == [payCall[i] EXCEPT !.answer = a]
  <2>2. payCall' = [payCall EXCEPT ![i] = call]
    BY <2>1
  <2>3. call \in PayCalls /\ payCall[i] \in PayCalls
    BY DEF PayCalls
  <2>4. /\ call.token = payCall[i].token /\ call.details = payCall[i].details
        /\ call.sale = payCall[i].sale /\ call.client = payCall[i].client
        /\ call.order = payCall[i].order /\ call.answer = a
    BY <2>3 DEF PayCalls
  <2> HIDE DEF call
  <2> QED BY <1>1, <2>1, <2>2, <2>3, <2>4
<1>6. ASSUME NEW d \in Docs, NEW r \in Replies \cup {None},
             statusReply' = [statusReply EXCEPT ![d] = r], UNCHANGED payCall
      PROVE  MerchantInv'
  BY <1>6
<1>7. CASE UNCHANGED merchantVars
  BY <1>7 DEF merchantVars
<1> QED
  BY <1>2, <1>3, <1>4, <1>5, <1>6, <1>7 DEF MerchantNext, AnswerStatus, ForgetStatus

(* A call that has made its order is never made again. *)
LEMMA SaleIsMadeOnce ==
  ASSUME MerchantInv, MerchantNext \/ UNCHANGED merchantVars,
         NEW i \in Attempts, payCall[i].sale = "made"
  PROVE  /\ payCall'[i].sale = "made"
         /\ payCall'[i].order = payCall[i].order
         /\ payCall'[i].token = payCall[i].token
         /\ payCall'[i].client = payCall[i].client
<1> USE DEF MerchantInv, MerchantTypeOK, CallProgress, PayCalls
<1>1. CASE UNCHANGED payCall
  BY <1>1
<1>2. ASSUME NEW j \in Attempts, NEW k, NEW x, PostPay(j, k, x)
      PROVE  payCall'[i] = payCall[i]
  BY <1>2 DEF PostPay
<1>3. ASSUME NEW j \in Attempts, NEW c, HandlePay(j, c) PROVE payCall'[i] = payCall[i]
  BY <1>3 DEF HandlePay
<1>4. ASSUME NEW j \in Attempts, NEW o, SaleDone(j, o) PROVE payCall'[i] = payCall[i]
  BY <1>4 DEF SaleDone
<1>5. ASSUME NEW j \in Attempts, AnswerPay(j) \/ FailPay(j)
      PROVE  /\ payCall'[i].sale = payCall[i].sale
             /\ payCall'[i].order = payCall[i].order
             /\ payCall'[i].token = payCall[i].token
             /\ payCall'[i].client = payCall[i].client
  BY <1>5 DEF AnswerPay, FailPay
<1> QED
  BY <1>1, <1>2, <1>3, <1>4, <1>5 DEF MerchantNext, merchantVars, AnswerStatus, ForgetStatus

(* Nor is a call posted twice. *)
LEMMA PostedOnce ==
  ASSUME MerchantInv, MerchantNext \/ UNCHANGED merchantVars,
         NEW i \in Attempts, Posted(i)
  PROVE  payCall'[i].token = payCall[i].token
<1> USE DEF MerchantInv, MerchantTypeOK, PayCalls, Posted
<1>1. CASE UNCHANGED payCall
  BY <1>1
<1>2. ASSUME NEW j \in Attempts, NEW k, NEW x, PostPay(j, k, x)
      PROVE  payCall'[i] = payCall[i]
  BY <1>2 DEF PostPay
<1>3. ASSUME NEW j \in Attempts, NEW c, HandlePay(j, c)
      PROVE  payCall'[i].token = payCall[i].token
  BY <1>3 DEF HandlePay
<1>4. ASSUME NEW j \in Attempts, NEW o, SaleDone(j, o)
      PROVE  payCall'[i].token = payCall[i].token
  BY <1>4 DEF SaleDone
<1>5. ASSUME NEW j \in Attempts, AnswerPay(j) \/ FailPay(j)
      PROVE  payCall'[i].token = payCall[i].token
  BY <1>5 DEF AnswerPay, FailPay
<1> QED
  BY <1>1, <1>2, <1>3, <1>4, <1>5 DEF MerchantNext, merchantVars, AnswerStatus, ForgetStatus

-----------------------------------------------------------------------------
(* What ties an attempt to its page, its token and its order. *)

AttemptTypeOK ==
  /\ attempt \in [Attempts -> AttemptStates]
  /\ callbacks \subseteq RealOrder

(* An attempt belongs to a page that has, or had, its form and a ticket. *)
AttemptHasPage ==
  \A i \in Attempts:
    /\ attempt[i].doc = None => attempt[i] = NoAttempt
    /\ attempt[i].doc # None =>
         stage[attempt[i].doc] \in {"form", "gone"} /\ ticket[attempt[i].doc] \in Tickets

(* The token an attempt was given was made from its page's ticket, and for *)
(* this attempt alone.                                                     *)
TokenIsOwn ==
  /\ \A i \in Attempts: attempt[i].reply.token # None =>
       tokenTicket[attempt[i].reply.token] = ticket[attempt[i].doc]
  /\ \A i, j \in Attempts:
       attempt[i].reply.token # None /\ attempt[i].reply.token = attempt[j].reply.token => i = j

(* What was posted is the attempt's own token. *)
PostedIsOwn ==
  \A i \in Attempts: Posted(i) => payCall[i].token = attempt[i].reply.token

(* Every order was made by a call of the server, with that call's token. *)
OrderIsPaid ==
  \A o \in OrderIds: Known(o) =>
    \E i \in Attempts: /\ payCall[i].sale = "made" /\ payCall[i].order = o
                       /\ payCall[i].token = order[o].token

(* A page waits for a sale only of a call it has posted. *)
SaleIsPosted == \A i \in Attempts: attempt[i].waits = "sale" => Posted(i)

(* The loop of a payment page was begun by a press that has paid, and      *)
(* waits for nothing any more.                                             *)
LoopIsPaid ==
  \A d \in Docs: ticket[d] # None /\ poll[d].loop # "off" =>
    \E j \in Attempts: attempt[j].doc = d /\ attempt[j].waits = "nothing" /\ Posted(j)

PaymentInv ==
  /\ PageInv
  /\ MerchantInv
  /\ GatewayInv
  /\ AttemptTypeOK
  /\ AttemptHasPage
  /\ TokenIsOwn
  /\ PostedIsOwn
  /\ OrderIsPaid
  /\ SaleIsPosted
  /\ LoopIsPaid

LEMMA PaymentInitInv == Init => PaymentInv
<1> SUFFICES ASSUME Init PROVE PaymentInv
  OBVIOUS
<1>1. PageInv /\ MerchantInv /\ GatewayInv
  BY PageInitInv, MerchantInitInv, GatewayInitInv DEF Init
<1>2. NoAttempt \in AttemptStates /\ NoAttempt.doc = None /\ NoAttempt.reply.token = None
  BY DEF NoAttempt, AttemptStates, NoTokenReply, Failed
<1>3. AttemptTypeOK /\ AttemptHasPage /\ TokenIsOwn
  BY <1>2 DEF Init, AttemptTypeOK, AttemptHasPage, TokenIsOwn
<1>4. PostedIsOwn
  BY DEF Init, MerchantInit, NoPayCall, PostedIsOwn, Posted
<1>5. OrderIsPaid
  BY DEF Init, GatewayInit, NoOrder, Known, OrderIsPaid
<1>6. SaleIsPosted /\ LoopIsPaid
  BY DEF Init, PageInit, NoPoll, NoAttempt, SaleIsPosted, LoopIsPaid
<1> QED BY <1>1, <1>3, <1>4, <1>5, <1>6 DEF PaymentInv

-----------------------------------------------------------------------------
(* Every step of the checkout is one handler of the page, one of the       *)
(* server and one operation of the gateway, or leaves that part alone.     *)

(* The gateway answers with a status the pages know, or none. *)
LEMMA StatusRepliesTyped ==
  ASSUME GatewayTypeOK, NEW o \in OrderIds
  PROVE  StatusReply(o) \in Replies
<1>1. order[o].decided \in BOOLEAN
  BY DEF GatewayTypeOK, Order
<1>2. StatusReply(o).status \in {"none", "processing", "approved", "declined"}
  BY <1>1 DEF StatusReply
<1> QED BY <1>1, <1>2 DEF StatusReply, Replies

(* Every step of a checkout is, for the browser, one handler of one page, *)
(* or none.                                                              *)
LEMMA StepOfPage ==
  PaymentInv /\ [Next]_vars => (\E d \in Docs: PageNext(d)) \/ UNCHANGED pageVars
<1> SUFFICES ASSUME PaymentInv, [Next]_vars
             PROVE  (\E d \in Docs: PageNext(d)) \/ UNCHANGED pageVars
  OBVIOUS
<1> USE DEF PaymentInv
<1>1. ASSUME NEW d \in Docs, PageStep(d) PROVE PageNext(d) \/ UNCHANGED pageVars
  <2>1. ASSUME NEW t \in Tickets, ServeConfig(d, t) PROVE PageNext(d)
    BY <2>1 DEF ServeConfig, PageNext
  <2>2. CASE FailConfig(d)
    BY <2>2 DEF FailConfig, PageNext
  <2>3. CASE LoadPage(d) \/ PayerEdits(d) \/ PayerLeaves(d)
    BY <2>3 DEF LoadPage, PayerEdits, PayerLeaves, PageNext
  <2>4. CASE ReadStatus(d) \/ FailStatus(d)
    BY <2>4 DEF ReadStatus, FailStatus
  <2>5. CASE PageHearsStatus(d)
    <3>1. statusReply[d] \in Replies /\ HearStatus(d, statusReply[d])
      BY <2>5 DEF PageHearsStatus, MerchantInv, MerchantTypeOK
    <3>2. Replies \subseteq AnyReply
      BY DEF Replies, AnyReply, FinalStatuses
    <3> QED BY <3>1, <3>2 DEF PageNext
  <2>6. CASE PageLosesStatus(d) \/ PollAgain(d) \/ VisitIssuer(d)
    BY <2>6 DEF PageLosesStatus, PollAgain, VisitIssuer, PageNext
  <2>7. CASE ShowResult(d)
    BY <2>7 DEF ShowResult, PageNext, AttemptTypeOK
  <2> QED
    BY <1>1, <2>1, <2>2, <2>3, <2>4, <2>5, <2>6, <2>7 DEF PageStep
<1>2. ASSUME NEW i \in Attempts, AttemptStep(i)
      PROVE  (\E d \in Docs: PageNext(d)) \/ UNCHANGED pageVars
  <2>1. ASSUME NEW d \in Docs, PressPay(i, d) PROVE PageNext(d)
    BY <2>1 DEF PressPay, PageNext
  <2>2. CASE TokenizeCard(i) \/ HearToken(i) \/ ServerHandlesPay(i) \/ MakeSale(i)
             \/ ServerAnswersPay(i)
    BY <2>2 DEF TokenizeCard, HearToken, ServerHandlesPay, MakeSale, ServerAnswersPay
  <2>3. attempt[i].doc # None => attempt[i].doc \in Docs
    BY DEF AttemptTypeOK, AttemptStates
  <2>4. CASE HearTokenError(i)
    <3>1. attempt[i].reply.code \in Nat
      BY DEF AttemptTypeOK, AttemptStates, TokenReplies, NoTokenReply, Failed, TokenOf
    <3> QED BY <2>3, <2>4, <3>1 DEF HearTokenError, Waiting, PageNext
  <2>5. CASE LoseToken(i) \/ LosePay(i)
    BY <2>3, <2>5 DEF LoseToken, LosePay, Waiting, PageNext
  <2>6. CASE HearPay(i)
    <3> DEFINE ref == [order |-> payCall[i].order, client |-> payCall[i].client]
    <3>1. payCall[i].answer = "order" => ref \in RealOrder
      BY DEF MerchantInv, MerchantTypeOK, CallProgress, PayCalls, RealOrder
    <3> HIDE DEF ref
    <3>2. \/ PayAccepted(attempt[i].doc, ref) /\ payCall[i].answer = "order"
          \/ PayRefused(attempt[i].doc)
      BY <2>6 DEF HearPay, ref
    <3> QED BY <2>3, <2>6, <3>1, <3>2 DEF HearPay, Waiting, PageNext
  <2> QED BY <1>2, <2>1, <2>2, <2>4, <2>5, <2>6 DEF AttemptStep
<1>3. CASE \/ \E o \in OrderIds: Decide(o)
           \/ \E s \in Scenarios: ChooseScenario(s)
           \/ UNCHANGED vars
  BY <1>3 DEF Decide, ChooseScenario, vars
<1> QED BY <1>1, <1>2, <1>3 DEF Next

(* ... for the server, one step of one request, or none. *)
LEMMA StepOfMerchant ==
  PaymentInv /\ [Next]_vars => MerchantNext \/ UNCHANGED merchantVars
<1> SUFFICES ASSUME PaymentInv, [Next]_vars PROVE MerchantNext \/ UNCHANGED merchantVars
  OBVIOUS
<1> USE DEF PaymentInv
<1>1. ASSUME NEW d \in Docs, PageStep(d) PROVE MerchantNext \/ UNCHANGED merchantVars
  <2>1. CASE ReadStatus(d)
    <3>1. orderOf[d].order \in OrderIds
      BY <2>1 DEF ReadStatus, PageInv, FollowsAnOrder
    <3>2. StatusReply(orderOf[d].order) \in Replies
      BY <3>1, StatusRepliesTyped DEF GatewayInv
    <3> QED BY <2>1, <3>2 DEF ReadStatus, MerchantNext
  <2>2. CASE FailStatus(d)
    <3>1. FailureReply \in Replies
      BY DEF FailureReply, Replies
    <3> QED BY <2>2, <3>1 DEF FailStatus, MerchantNext
  <2>3. CASE PageHearsStatus(d) \/ PageLosesStatus(d)
    BY <2>3 DEF PageHearsStatus, PageLosesStatus, MerchantNext
  <2> QED
    BY <1>1, <2>1, <2>2, <2>3 DEF PageStep, ServeConfig, FailConfig, LoadPage, PayerEdits,
       PayerLeaves, PollAgain, VisitIssuer, ShowResult
<1>2. ASSUME NEW i \in Attempts, AttemptStep(i) PROVE MerchantNext \/ UNCHANGED merchantVars
  <2>1. CASE HearToken(i)
    <3>1. attempt[i].reply.token \in Tokens
      BY <2>1, DomainsAssumption
         DEF HearToken, AttemptTypeOK, AttemptStates, TokenReplies, NoTokenReply, Failed, TokenOf
    <3>2. details[attempt[i].doc] \in Details
      BY <2>1 DEF HearToken, Waiting, AttemptTypeOK, AttemptStates, PageInv, PageTypeOK
    <3> QED BY <2>1, <3>1, <3>2 DEF HearToken, MerchantNext
  <2>2. CASE ServerHandlesPay(i) \/ MakeSale(i) \/ ServerAnswersPay(i)
    BY <2>2 DEF ServerHandlesPay, MakeSale, ServerAnswersPay, MerchantNext
  <2>3. ASSUME NEW d \in Docs, PressPay(i, d) PROVE UNCHANGED merchantVars
    BY <2>3 DEF PressPay
  <2>4. CASE TokenizeCard(i) \/ HearTokenError(i) \/ LoseToken(i) \/ LosePay(i)
    BY <2>4 DEF TokenizeCard, HearTokenError, LoseToken, LosePay
  <2>5. CASE HearPay(i)
    BY <2>5 DEF HearPay
  <2> QED BY <1>2, <2>1, <2>2, <2>3, <2>4, <2>5 DEF AttemptStep
<1>3. CASE \/ \E o \in OrderIds: Decide(o)
           \/ \E s \in Scenarios: ChooseScenario(s)
           \/ UNCHANGED vars
  BY <1>3 DEF Decide, ChooseScenario, vars
<1> QED BY <1>1, <1>2, <1>3 DEF Next

(* ... for the gateway, one of its operations, or none. *)
LEMMA StepOfGateway ==
  PaymentInv /\ [Next]_vars => [GatewayNext]_gatewayVars
<1> SUFFICES ASSUME PaymentInv, [Next]_vars PROVE GatewayNext \/ UNCHANGED gatewayVars
  OBVIOUS
<1> USE DEF PaymentInv
<1>1. ASSUME NEW d \in Docs, PageStep(d) PROVE GatewayNext \/ UNCHANGED gatewayVars
  <2>1. ASSUME NEW t \in Tickets, ServeConfig(d, t) PROVE GatewayNext
    <3>1. CreateEphemeralTicket(t, IF pending = "no-ticket" THEN None ELSE t)
      BY <2>1 DEF ServeConfig, CreateEphemeralTicket
    <3> QED BY <3>1 DEF GatewayNext
  <2>2. CASE VisitIssuer(d)
    <3>1. orderOf[d].order \in OrderIds /\ ChallengePage(orderOf[d].order)
      BY <2>2 DEF VisitIssuer, PageInv, FollowsAnOrder
    <3> QED BY <3>1 DEF GatewayNext
  <2> QED
    BY <1>1, <2>1, <2>2 DEF PageStep, FailConfig, LoadPage, PayerEdits, PayerLeaves, ReadStatus,
       FailStatus, PageHearsStatus, PageLosesStatus, PollAgain, ShowResult
<1>2. ASSUME NEW i \in Attempts, AttemptStep(i) PROVE GatewayNext \/ UNCHANGED gatewayVars
  <2>1. CASE TokenizeCard(i)
    <3>1. ticket[attempt[i].doc] \in Tickets
      BY <2>1 DEF TokenizeCard, AttemptHasPage
    <3> QED BY <2>1, <3>1 DEF TokenizeCard, GatewayNext
  <2>2. CASE MakeSale(i)
    <3>1. /\ payCall[i].token \in Tokens /\ payCall[i].client \in ClientOrders
          /\ payCall[i].details \in Details
      BY <2>2 DEF MakeSale, SaleDone, MerchantInv, MerchantTypeOK, CallProgress, PayCalls
    <3>2. OrderAmount \in Amounts
      BY GatewayAssumption
    <3>3. PICK reply \in OrderIds \cup {None}:
            Sale(payCall[i].token, OrderAmount, payCall[i].client, payCall[i].details, reply)
      BY <2>2 DEF MakeSale
    <3> QED BY <3>1, <3>2, <3>3 DEF GatewayNext
  <2>3. ASSUME NEW d \in Docs, PressPay(i, d) PROVE UNCHANGED gatewayVars
    BY <2>3 DEF PressPay
  <2>4. CASE HearToken(i) \/ HearTokenError(i) \/ LoseToken(i) \/ LosePay(i)
    BY <2>4 DEF HearToken, HearTokenError, LoseToken, LosePay
  <2>5. CASE ServerHandlesPay(i) \/ ServerAnswersPay(i)
    BY <2>5 DEF ServerHandlesPay, ServerAnswersPay
  <2>6. CASE HearPay(i)
    BY <2>6 DEF HearPay
  <2> QED BY <1>2, <2>1, <2>2, <2>3, <2>4, <2>5, <2>6 DEF AttemptStep
<1>3. ASSUME NEW o \in OrderIds, Decide(o) PROVE GatewayNext
  BY <1>3 DEF Decide, GatewayNext
<1>4. ASSUME NEW s \in Scenarios, ChooseScenario(s) PROVE GatewayNext
  BY <1>4 DEF ChooseScenario, GatewayNext
<1>5. CASE UNCHANGED vars
  BY <1>5 DEF vars
<1> QED BY <1>1, <1>2, <1>3, <1>4, <1>5 DEF Next

-----------------------------------------------------------------------------
(* What a step can do to an attempt: begin it, bring its token, or let its *)
(* chain go on.                                                            *)

AttemptGoesOn ==
  /\ attempt' \in [Attempts -> AttemptStates]
  /\ \A i \in Attempts:
       /\ attempt'[i].doc = attempt[i].doc /\ attempt'[i].reply = attempt[i].reply
       /\ attempt[i].doc = None => attempt'[i] = attempt[i]

(* ... for a press of the button, one link of its own chain, or none. *)
LEMMA StepOfAttempt ==
  ASSUME PaymentInv, [Next]_vars
  PROVE  \/ AttemptGoesOn
         \/ \E i \in Attempts, d \in Docs: PressPay(i, d)
         \/ \E i \in Attempts: TokenizeCard(i)
<1> USE DEF PaymentInv, AttemptTypeOK
<1>1. ASSUME UNCHANGED attempt PROVE AttemptGoesOn
  BY <1>1 DEF AttemptGoesOn
<1>2. ASSUME NEW i \in Attempts, NEW w \in {"nothing", "sale"},
             attempt[i].doc # None, attempt' = [attempt EXCEPT ![i].waits = w]
      PROVE  AttemptGoesOn
  BY <1>2 DEF AttemptGoesOn, AttemptStates
<1>3. ASSUME NEW d \in Docs, PageStep(d) PROVE UNCHANGED attempt
  BY <1>3 DEF PageStep, ServeConfig, FailConfig, LoadPage, PayerEdits, PayerLeaves, ReadStatus,
     FailStatus, PageHearsStatus, PageLosesStatus, PollAgain, VisitIssuer, ShowResult
<1>4. ASSUME NEW i \in Attempts, AttemptStep(i)
      PROVE  AttemptGoesOn \/ (\E d \in Docs: PressPay(i, d)) \/ TokenizeCard(i)
  <2>1. CASE ServerHandlesPay(i) \/ MakeSale(i) \/ ServerAnswersPay(i)
    BY <1>1, <2>1 DEF ServerHandlesPay, MakeSale, ServerAnswersPay
  <2>2. CASE HearToken(i)
    BY <1>2, <2>2 DEF HearToken, Waiting
  <2>3. CASE HearTokenError(i) \/ LoseToken(i) \/ LosePay(i)
    BY <1>2, <2>3 DEF HearTokenError, LoseToken, LosePay, Waiting, Settle
  <2>4. CASE HearPay(i)
    BY <1>2, <2>4 DEF HearPay, Waiting, Settle
  <2> QED BY <1>4, <2>1, <2>2, <2>3, <2>4 DEF AttemptStep
<1>5. CASE \/ \E o \in OrderIds: Decide(o)
           \/ \E s \in Scenarios: ChooseScenario(s)
           \/ UNCHANGED vars
  BY <1>1, <1>5 DEF Decide, ChooseScenario, vars
<1> QED BY <1>1, <1>3, <1>4, <1>5 DEF Next

(* A press of the button ties the attempt to a page with a form and a      *)
(* ticket; nothing unties it.                                              *)
LEMMA AttemptStepInv ==
  ASSUME PaymentInv, [Next]_vars
  PROVE  attempt' \in [Attempts -> AttemptStates] /\ AttemptHasPage'
<1> USE DEF PaymentInv, AttemptTypeOK
<1>1. ASSUME NEW d \in Docs, stage[d] \in {"form", "gone"}
      PROVE  stage'[d] \in {"form", "gone"} /\ ticket'[d] = ticket[d]
  BY <1>1, StepOfPage, FormKeepsTicket DEF PageInv
<1>2. \A i \in Attempts: attempt[i].doc # None => attempt[i].doc \in Docs
  BY DEF AttemptStates
<1>3. CASE AttemptGoesOn
  BY <1>1, <1>2, <1>3 DEF AttemptGoesOn, AttemptHasPage
<1>4. ASSUME NEW i \in Attempts, NEW d \in Docs, PressPay(i, d)
      PROVE  attempt' \in [Attempts -> AttemptStates] /\ AttemptHasPage'
  <2>1. stage[d] = "form" /\ ticket[d] \in Tickets
    BY <1>4 DEF PressPay, Submit, PageInv, PageHasTicket
  <2>2. attempt' = [attempt EXCEPT ![i] = [attempt[i] EXCEPT !.doc = d, !.waits = "token"]]
    BY <1>4 DEF PressPay
  <2>3. attempt[i] \in AttemptStates
    OBVIOUS
  <2>4. [attempt[i] EXCEPT !.doc = d, !.waits = "token"] \in AttemptStates
        /\ [attempt[i] EXCEPT !.doc = d, !.waits = "token"].doc = d
    BY <2>3 DEF AttemptStates
  <2>5. d # None
    BY DomainsAssumption
  <2>6. attempt' \in [Attempts -> AttemptStates] /\ attempt'[i].doc = d
        /\ \A j \in Attempts: j # i => attempt'[j] = attempt[j]
    BY <2>2, <2>4
  <2> QED BY <1>1, <1>2, <2>1, <2>5, <2>6 DEF AttemptHasPage
<1>5. ASSUME NEW i \in Attempts, TokenizeCard(i)
      PROVE  attempt' \in [Attempts -> AttemptStates] /\ AttemptHasPage'
  <2>1. PICK reply \in TokenReplies: attempt' = [attempt EXCEPT ![i].reply = reply]
    BY <1>5 DEF TokenizeCard
  <2>2. attempt[i].doc # None
    BY <1>5 DEF TokenizeCard
  <2>3. attempt' \in [Attempts -> AttemptStates]
        /\ \A j \in Attempts: attempt'[j].doc = attempt[j].doc /\ (j # i => attempt'[j] = attempt[j])
    BY <2>1 DEF AttemptStates
  <2> QED BY <1>1, <1>2, <2>2, <2>3 DEF AttemptHasPage
<1> QED BY <1>3, <1>4, <1>5, StepOfAttempt

(* A return to /result/callback names an order the gateway signed for. *)
LEMMA CallbacksStepInv ==
  ASSUME PaymentInv, [Next]_vars
  PROVE  callbacks' \subseteq RealOrder
<1> USE DEF PaymentInv, AttemptTypeOK
<1>1. ASSUME NEW d \in Docs, VisitIssuer(d) PROVE callbacks' \subseteq RealOrder
  <2> DEFINE o == orderOf[d].order
  <2>1. o \in OrderIds
    BY <1>1 DEF VisitIssuer, PageInv, FollowsAnOrder
  <2>2. order[o].client \in ClientOrders \cup {None}
    BY <2>1 DEF GatewayInv, GatewayTypeOK, Order
  <2>3. [order |-> o, client |-> order[o].client] \in RealOrder
    BY <2>1, <2>2 DEF RealOrder
  <2> QED BY <1>1, <2>3 DEF VisitIssuer
<1>2. ASSUME NEW d \in Docs, PageStep(d) PROVE callbacks' \subseteq RealOrder
  BY <1>1, <1>2 DEF PageStep, ServeConfig, FailConfig, LoadPage, PayerEdits, PayerLeaves,
     ReadStatus, FailStatus, PageHearsStatus, PageLosesStatus, PollAgain, ShowResult
<1>3. ASSUME NEW i \in Attempts, AttemptStep(i) PROVE UNCHANGED callbacks
  <2>1. ASSUME NEW d \in Docs, PressPay(i, d) PROVE UNCHANGED callbacks
    BY <2>1 DEF PressPay
  <2>2. CASE TokenizeCard(i) \/ HearToken(i) \/ HearTokenError(i) \/ LoseToken(i)
    BY <2>2 DEF TokenizeCard, HearToken, HearTokenError, LoseToken
  <2>3. CASE ServerHandlesPay(i) \/ MakeSale(i) \/ ServerAnswersPay(i) \/ LosePay(i)
    BY <2>3 DEF ServerHandlesPay, MakeSale, ServerAnswersPay, LosePay
  <2>4. CASE HearPay(i)
    BY <2>4 DEF HearPay
  <2> QED BY <1>3, <2>1, <2>2, <2>3, <2>4 DEF AttemptStep
<1>4. CASE \/ \E o \in OrderIds: Decide(o)
           \/ \E s \in Scenarios: ChooseScenario(s)
           \/ UNCHANGED vars
  BY <1>4 DEF Decide, ChooseScenario, vars
<1> QED BY <1>2, <1>3, <1>4 DEF Next

-----------------------------------------------------------------------------
(* A token never changes its ticket. *)
LEMMA TokenKeepsTicket ==
  ASSUME GatewayTypeOK, [GatewayNext]_gatewayVars, NEW k \in Tokens, tokenTicket[k] # None
  PROVE  tokenTicket'[k] = tokenTicket[k]
<1> USE DEF GatewayTypeOK
<1>1. ASSUME NEW t, NEW card, NEW reply, Tokenize(t, card, reply)
      PROVE  tokenTicket'[k] = tokenTicket[k]
  BY <1>1 DEF Tokenize, MintToken, gatewayVars
<1>2. ASSUME NEW j, NEW a, NEW c, NEW x, NEW reply, Sale(j, a, c, x, reply)
      PROVE  UNCHANGED tokenTicket
  BY <1>2 DEF Sale, CreateOrder, gatewayVars
<1>3. CASE \/ Reset
           \/ \E s \in Scenarios: SetScenario(s)
           \/ \E o \in OrderIds: ChallengePage(o) \/ BankDecides(o)
           \/ \E t \in Tickets: CreateEphemeralTicket(t, IF pending = "no-ticket" THEN None ELSE t)
           \/ UNCHANGED gatewayVars
  BY <1>3 DEF Reset, SetScenario, ChallengePage, BankDecides, CreateEphemeralTicket, gatewayVars
<1> QED BY <1>1, <1>2, <1>3 DEF GatewayNext

(* The token that tokenize() hands an attempt is new, and made from the    *)
(* ticket of the attempt's page.                                           *)
LEMMA TokenStepInv ==
  ASSUME PaymentInv, [Next]_vars
  PROVE  TokenIsOwn'
<1> USE DEF PaymentInv, AttemptTypeOK
<1>1. ASSUME NEW i \in Attempts, attempt[i].reply.token # None
      PROVE  /\ attempt[i].reply.token \in Tokens
             /\ attempt[i].doc \in Docs
             /\ tokenTicket[attempt[i].reply.token] \in Tickets
             /\ tokenTicket'[attempt[i].reply.token] = tokenTicket[attempt[i].reply.token]
             /\ ticket'[attempt[i].doc] = ticket[attempt[i].doc]
  <2>1. attempt[i].reply.token \in Tokens
    BY <1>1 DEF AttemptStates, TokenReplies, NoTokenReply, Failed, TokenOf
  <2>2. attempt[i].doc \in Docs
    BY <1>1 DEF AttemptHasPage, NoAttempt, NoTokenReply, Failed, AttemptStates
  <2>3. tokenTicket[attempt[i].reply.token] \in Tickets
    BY <1>1, <2>2, DomainsAssumption DEF TokenIsOwn, AttemptHasPage
  <2>4. tokenTicket'[attempt[i].reply.token] = tokenTicket[attempt[i].reply.token]
    BY <2>1, <2>3, DomainsAssumption, StepOfGateway, TokenKeepsTicket DEF GatewayInv
  <2>5. ticket'[attempt[i].doc] = ticket[attempt[i].doc]
    BY <2>2, DomainsAssumption, StepOfPage, FormKeepsTicket DEF AttemptHasPage, PageInv
  <2> QED BY <2>1, <2>2, <2>3, <2>4, <2>5
<1>2. ASSUME \A i \in Attempts: attempt'[i].reply.token # None =>
               attempt'[i].reply = attempt[i].reply /\ attempt'[i].doc = attempt[i].doc
      PROVE  TokenIsOwn'
  BY <1>1, <1>2 DEF TokenIsOwn
<1>3. CASE AttemptGoesOn
  BY <1>2, <1>3 DEF AttemptGoesOn
<1>4. ASSUME NEW i \in Attempts, NEW d \in Docs, PressPay(i, d) PROVE TokenIsOwn'
  <2>1. attempt'[i].reply = attempt[i].reply /\ attempt[i].reply.token = None
    BY <1>4 DEF PressPay, NoAttempt, NoTokenReply, Failed, AttemptStates
  <2>2. \A j \in Attempts: j # i => attempt'[j] = attempt[j]
    BY <1>4 DEF PressPay
  <2> QED BY <1>2, <2>1, <2>2
<1>5. ASSUME NEW i \in Attempts, TokenizeCard(i) PROVE TokenIsOwn'
  <2>1. PICK card \in Cards, reply \in TokenReplies:
          /\ Tokenize(ticket[attempt[i].doc], card, reply)
          /\ attempt' = [attempt EXCEPT ![i].reply = reply]
    BY <1>5 DEF TokenizeCard
  <2>2. /\ attempt'[i].reply = reply /\ attempt'[i].doc = attempt[i].doc
        /\ \A j \in Attempts: j # i => attempt'[j] = attempt[j]
    BY <2>1 DEF AttemptStates
  <2>3. CASE reply.token = None
    BY <1>2, <2>2, <2>3
  <2>4. CASE reply.token # None
    <3>1. PICK k \in Tokens: reply = TokenOf(k) /\ MintToken(ticket[attempt[i].doc], k)
      BY <2>1, <2>4 DEF Tokenize, Failed
    <3>2. tokenTicket[k] = None /\ tokenTicket'[k] = ticket[attempt[i].doc] /\ reply.token = k
      BY <3>1 DEF MintToken, TokenOf, GatewayInv, GatewayTypeOK
    <3>3. ticket' = ticket
      BY <1>5 DEF TokenizeCard, pageVars
    <3>4. \A j \in Attempts: attempt[j].reply.token # k
      BY <1>1, <3>2, DomainsAssumption
    <3> QED BY <1>1, <2>2, <3>2, <3>3, <3>4 DEF TokenIsOwn
  <2> QED BY <2>3, <2>4
<1> QED BY <1>3, <1>4, <1>5, StepOfAttempt

(* sendTokenToServer() posts the token its own tokenization was given. *)
LEMMA PostedStepInv ==
  ASSUME PaymentInv, [Next]_vars
  PROVE  PostedIsOwn'
<1> USE DEF PaymentInv, AttemptTypeOK, MerchantInv, MerchantTypeOK
<1>1. ASSUME NEW i \in Attempts, HearToken(i) PROVE PostedIsOwn'
  <2>1. /\ payCall' = [payCall EXCEPT ![i] = [payCall[i] EXCEPT
                         !.token = attempt[i].reply.token,
                         !.details = details[attempt[i].doc]]]
        /\ attempt' = [attempt EXCEPT ![i].waits = "sale"]
    BY <1>1 DEF HearToken, PostPay
  <2>2. \A j \in Attempts: attempt'[j].reply = attempt[j].reply
    BY <2>1 DEF AttemptStates
  <2>3. payCall'[i].token = attempt[i].reply.token
        /\ \A j \in Attempts: j # i => payCall'[j] = payCall[j]
    BY <2>1 DEF PayCalls
  <2> QED BY <2>2, <2>3 DEF PostedIsOwn, Posted
<1>2. ASSUME \A i \in Attempts: payCall'[i].token = payCall[i].token PROVE PostedIsOwn'
  <2>1. CASE AttemptGoesOn
    BY <1>2, <2>1 DEF AttemptGoesOn, PostedIsOwn, Posted
  <2>2. ASSUME NEW i \in Attempts, NEW d \in Docs, PressPay(i, d) PROVE PostedIsOwn'
    <3>1. \A j \in Attempts: attempt'[j].reply = attempt[j].reply
      BY <2>2 DEF PressPay, AttemptStates
    <3> QED BY <1>2, <3>1 DEF PostedIsOwn, Posted
  <2>3. ASSUME NEW i \in Attempts, TokenizeCard(i) PROVE PostedIsOwn'
    <3>1. ~Posted(i)
      BY <2>3 DEF TokenizeCard, PostedIsOwn, Posted, NoTokenReply, Failed
    <3>2. \A j \in Attempts: j # i => attempt'[j] = attempt[j]
      BY <2>3 DEF TokenizeCard
    <3> QED BY <1>2, <3>1, <3>2 DEF PostedIsOwn, Posted
  <2> QED BY <2>1, <2>2, <2>3, StepOfAttempt
<1>3. ASSUME NEW d \in Docs, PageStep(d) PROVE UNCHANGED payCall
  BY <1>3 DEF PageStep, ServeConfig, FailConfig, LoadPage, PayerEdits, PayerLeaves, ReadStatus,
     FailStatus, PageHearsStatus, PageLosesStatus, PollAgain, VisitIssuer, ShowResult,
     merchantVars, AnswerStatus, ForgetStatus
<1>4. ASSUME NEW i \in Attempts, AttemptStep(i)
      PROVE  HearToken(i) \/ \A j \in Attempts: payCall'[j].token = payCall[j].token
  <2>1. CASE ServerHandlesPay(i) \/ MakeSale(i) \/ ServerAnswersPay(i)
    <3>1. payCall[i] \in PayCalls
      OBVIOUS
    <3>2. ASSUME NEW c, HandlePay(i, c)
          PROVE  \A j \in Attempts: payCall'[j].token = payCall[j].token
      BY <3>1, <3>2 DEF HandlePay, PayCalls
    <3>3. ASSUME NEW o, SaleDone(i, o)
          PROVE  \A j \in Attempts: payCall'[j].token = payCall[j].token
      BY <3>1, <3>3 DEF SaleDone, PayCalls
    <3>4. CASE AnswerPay(i) \/ FailPay(i)
      BY <3>1, <3>4 DEF AnswerPay, FailPay, PayCalls
    <3> QED BY <2>1, <3>2, <3>3, <3>4 DEF ServerHandlesPay, MakeSale, ServerAnswersPay
  <2>2. ASSUME NEW d \in Docs, PressPay(i, d) PROVE UNCHANGED payCall
    BY <2>2 DEF PressPay, merchantVars
  <2>3. CASE TokenizeCard(i) \/ HearTokenError(i) \/ LoseToken(i) \/ LosePay(i)
    BY <2>3 DEF TokenizeCard, HearTokenError, LoseToken, LosePay, merchantVars
  <2>4. CASE HearPay(i)
    BY <2>4 DEF HearPay, merchantVars
  <2> QED BY <1>4, <2>1, <2>2, <2>3, <2>4 DEF AttemptStep
<1>5. ASSUME \/ \E o \in OrderIds: Decide(o)
             \/ \E s \in Scenarios: ChooseScenario(s)
             \/ UNCHANGED vars
      PROVE  UNCHANGED payCall
  BY <1>5 DEF Decide, ChooseScenario, vars, merchantVars
<1> QED BY <1>1, <1>2, <1>3, <1>4, <1>5 DEF Next

(* An order is made only in answer to a call, and keeps its token. *)
LEMMA OrderStepInv ==
  ASSUME PaymentInv, [Next]_vars
  PROVE  OrderIsPaid'
<1> USE DEF PaymentInv
<1>1. ASSUME NEW i \in Attempts, payCall[i].sale = "made"
      PROVE  /\ payCall'[i].sale = "made" /\ payCall'[i].order = payCall[i].order
             /\ payCall'[i].token = payCall[i].token
  BY <1>1, StepOfMerchant, SaleIsMadeOnce
<1>2. ASSUME \A o \in OrderIds: Known(o)' => Known(o) /\ order'[o].token = order[o].token
      PROVE  OrderIsPaid'
  BY <1>1, <1>2 DEF OrderIsPaid
<1>3. ASSUME UNCHANGED order PROVE OrderIsPaid'
  BY <1>2, <1>3 DEF Known
<1>4. ASSUME NEW o \in OrderIds, ChallengePage(o) \/ BankDecides(o) PROVE OrderIsPaid'
  <2>1. \A p \in OrderIds: order'[p].scenario = order[p].scenario /\ order'[p].token = order[p].token
    BY <1>4 DEF ChallengePage, BankDecides, GatewayInv, GatewayTypeOK, Order
  <2> QED BY <1>2, <2>1 DEF Known
<1>5. ASSUME NEW i \in Attempts, MakeSale(i) PROVE OrderIsPaid'
  <2>1. PICK reply \in OrderIds \cup {None}:
          /\ SaleDone(i, reply)
          /\ Sale(payCall[i].token, OrderAmount, payCall[i].client, payCall[i].details, reply)
    BY <1>5 DEF MakeSale
  <2>2. CASE UNCHANGED gatewayVars
    BY <1>3, <2>2 DEF gatewayVars
  <2>3. CASE reply \in OrderIds
             /\ CreateOrder(reply, payCall[i].token, payCall[i].client, payCall[i].details)
    <3>1. order'[reply].token = payCall[i].token
          /\ \A o \in OrderIds: o # reply => order'[o] = order[o]
      BY <2>3 DEF CreateOrder, GatewayInv, GatewayTypeOK
    <3>2. payCall'[i].sale = "made" /\ payCall'[i].order = reply
          /\ payCall'[i].token = payCall[i].token
      BY <2>1, <2>3, DomainsAssumption DEF SaleDone, MerchantInv, MerchantTypeOK, PayCalls
    <3> QED BY <1>1, <3>1, <3>2 DEF OrderIsPaid, Known
  <2> QED BY <2>1, <2>2, <2>3 DEF Sale
<1>6. ASSUME NEW d \in Docs, PageStep(d) PROVE OrderIsPaid'
  <2>1. ASSUME NEW t \in Tickets, ServeConfig(d, t) PROVE UNCHANGED order
    BY <2>1 DEF ServeConfig, CreateEphemeralTicket
  <2>2. CASE VisitIssuer(d)
    BY <1>4, <2>2 DEF VisitIssuer, PageInv, FollowsAnOrder
  <2> QED
    BY <1>3, <1>6, <2>1, <2>2 DEF PageStep, FailConfig, LoadPage, PayerEdits, PayerLeaves, ReadStatus,
       FailStatus, PageHearsStatus, PageLosesStatus, PollAgain, ShowResult, gatewayVars
<1>7. ASSUME NEW i \in Attempts, AttemptStep(i) PROVE OrderIsPaid'
  <2>1. CASE TokenizeCard(i)
    BY <1>3, <2>1 DEF TokenizeCard, Tokenize, MintToken, gatewayVars
  <2>2. ASSUME NEW d \in Docs, PressPay(i, d) PROVE UNCHANGED order
    BY <2>2 DEF PressPay, gatewayVars
  <2>3. CASE HearToken(i) \/ HearTokenError(i) \/ LoseToken(i) \/ LosePay(i)
             \/ ServerHandlesPay(i) \/ ServerAnswersPay(i)
    BY <1>3, <2>3 DEF HearToken, HearTokenError, LoseToken, LosePay, ServerHandlesPay,
       ServerAnswersPay, gatewayVars
  <2>4. CASE HearPay(i)
    BY <1>3, <2>4 DEF HearPay, gatewayVars
  <2> QED BY <1>3, <1>5, <1>7, <2>1, <2>2, <2>3, <2>4 DEF AttemptStep
<1>8. ASSUME NEW o \in OrderIds, Decide(o) PROVE OrderIsPaid'
  BY <1>4, <1>8 DEF Decide
<1>9. CASE (\E s \in Scenarios: ChooseScenario(s)) \/ UNCHANGED vars
  BY <1>3, <1>9 DEF ChooseScenario, SetScenario, vars, gatewayVars
<1> QED BY <1>6, <1>7, <1>8, <1>9 DEF Next

-----------------------------------------------------------------------------
(* A chain of callbacks that has come to its end stays there, and one      *)
(* waits for a sale from the moment it has posted it.                      *)
LEMMA WaitsStep ==
  ASSUME PaymentInv, [Next]_vars, NEW i \in Attempts
  PROVE  /\ attempt[i].doc # None /\ attempt[i].waits = "nothing" =>
              attempt'[i].doc = attempt[i].doc /\ attempt'[i].waits = "nothing"
         /\ attempt'[i].waits = "sale" => attempt[i].waits = "sale" \/ HearToken(i)
<1> DEFINE Goal == /\ attempt[i].doc # None /\ attempt[i].waits = "nothing" =>
                        attempt'[i].doc = attempt[i].doc /\ attempt'[i].waits = "nothing"
                   /\ attempt'[i].waits = "sale" => attempt[i].waits = "sale" \/ HearToken(i)
<1> SUFFICES Goal
  OBVIOUS
<1>1. attempt \in [Attempts -> AttemptStates]
  BY DEF PaymentInv, AttemptTypeOK
<1>2. ASSUME UNCHANGED attempt PROVE Goal
  BY <1>2
<1>3. ASSUME NEW j \in Attempts, Waiting(j, "token") \/ Waiting(j, "sale"), Settle(j) PROVE Goal
  BY <1>1, <1>3 DEF Settle, Waiting, AttemptStates
<1>4. ASSUME NEW j \in Attempts, HearToken(j) PROVE Goal
  BY <1>1, <1>4 DEF HearToken, Waiting, AttemptStates
<1>5. ASSUME NEW j \in Attempts, TokenizeCard(j) PROVE Goal
  BY <1>1, <1>5 DEF TokenizeCard, AttemptStates
<1>6. ASSUME NEW j \in Attempts, NEW d \in Docs, PressPay(j, d) PROVE Goal
  BY <1>1, <1>6 DEF PressPay, NoAttempt, AttemptStates
<1> HIDE DEF Goal
<1>7. ASSUME NEW d \in Docs, PageStep(d) PROVE UNCHANGED attempt
  BY <1>7 DEF PageStep, ServeConfig, FailConfig, LoadPage, PayerEdits, PayerLeaves, ReadStatus,
     FailStatus, PageHearsStatus, PageLosesStatus, PollAgain, VisitIssuer, ShowResult
<1>8. ASSUME NEW j \in Attempts, AttemptStep(j) PROVE Goal
  <2>1. CASE ServerHandlesPay(j) \/ MakeSale(j) \/ ServerAnswersPay(j)
    BY <1>2, <2>1 DEF ServerHandlesPay, MakeSale, ServerAnswersPay
  <2>2. CASE HearTokenError(j) \/ LoseToken(j) \/ LosePay(j)
    BY <1>3, <2>2 DEF HearTokenError, LoseToken, LosePay
  <2>3. CASE HearPay(j)
    BY <1>3, <2>3 DEF HearPay
  <2> QED BY <1>4, <1>5, <1>6, <1>8, <2>1, <2>2, <2>3 DEF AttemptStep
<1>9. CASE \/ \E o \in OrderIds: Decide(o)
           \/ \E s \in Scenarios: ChooseScenario(s)
           \/ UNCHANGED vars
  BY <1>2, <1>9 DEF Decide, ChooseScenario, vars
<1> QED BY <1>2, <1>7, <1>8, <1>9 DEF Next

(* A loop begins with the answer to a payment, or on the return page.      *)
LEMMA LoopBegins ==
  ASSUME PaymentInv, [Next]_vars, NEW d \in Docs, poll[d].loop = "off", poll'[d].loop # "off"
  PROVE  \/ ticket'[d] = None
         \/ \E i \in Attempts: HearPay(i) /\ attempt[i].doc = d
<1> DEFINE Goal == \/ ticket'[d] = None
                   \/ \E i \in Attempts: HearPay(i) /\ attempt[i].doc = d
<1> SUFFICES Goal
  OBVIOUS
<1>1. poll \in [Docs -> Polls]
  BY DEF PaymentInv, PageInv, PageTypeOK
<1>2. ASSUME UNCHANGED poll PROVE Goal
  BY <1>2
<1>3. ASSUME NEW e \in Docs, NEW p, poll[e].loop # "off", poll' = [poll EXCEPT ![e] = p]
      PROVE  Goal
  BY <1>1, <1>3
<1>4. ASSUME NEW e \in Docs, NEW ref, OpenResult(e, ref) PROVE Goal
  <2>1. ticket[e] = None /\ UNCHANGED ticket
    BY <1>4 DEF OpenResult, PaymentInv, PageInv, NoTicketYet
  <2>2. e # d => poll'[d] = poll[d]
    BY <1>1, <1>4 DEF OpenResult
  <2> QED BY <2>1, <2>2
<1>5. ASSUME NEW i \in Attempts, HearPay(i) PROVE Goal
  <2>1. attempt[i].doc # d => poll'[d] = poll[d]
    BY <1>1, <1>5 DEF HearPay, PayAccepted, PayRefused
  <2> QED BY <1>5, <2>1
<1> HIDE DEF Goal
<1>6. ASSUME NEW e \in Docs, PageStep(e) PROVE Goal
  <2>1. ASSUME NEW t \in Tickets, ServeConfig(e, t) PROVE UNCHANGED poll
    BY <2>1 DEF ServeConfig, ConfigArrives
  <2>2. CASE FailConfig(e) \/ LoadPage(e)
    BY <2>2 DEF FailConfig, ConfigArrives, LoadPage, OpenCheckout, ConfigLost, ScriptLoads,
       ScriptFails, FieldsReady
  <2>3. CASE PayerEdits(e) \/ PayerLeaves(e) \/ VisitIssuer(e)
    BY <2>3 DEF PayerEdits, EditDetails, PayerLeaves, VisitIssuer, Leave
  <2>4. CASE ReadStatus(e) \/ FailStatus(e)
    BY <2>4 DEF ReadStatus, FailStatus, pageVars
  <2>5. CASE PageHearsStatus(e) \/ PageLosesStatus(e) \/ PollAgain(e)
    BY <1>3, <2>5 DEF PageHearsStatus, HearStatus, PageLosesStatus, LoseStatus, PollAgain, TimerFires
  <2>6. CASE ShowResult(e)
    BY <1>2, <1>4, <2>6 DEF ShowResult, ResultConfigLost
  <2> QED BY <1>2, <1>6, <2>1, <2>2, <2>3, <2>4, <2>5, <2>6 DEF PageStep
<1>7. ASSUME NEW i \in Attempts, AttemptStep(i) PROVE UNCHANGED poll \/ HearPay(i)
  <2>1. ASSUME NEW e \in Docs, PressPay(i, e) PROVE UNCHANGED poll
    BY <2>1 DEF PressPay, Submit
  <2>2. CASE HearTokenError(i) \/ LoseToken(i) \/ LosePay(i)
    BY <2>2 DEF HearTokenError, LoseToken, LosePay, ShowError, PayLost
  <2>3. CASE TokenizeCard(i) \/ HearToken(i) \/ ServerHandlesPay(i) \/ MakeSale(i)
             \/ ServerAnswersPay(i)
    BY <2>3 DEF TokenizeCard, HearToken, ServerHandlesPay, MakeSale, ServerAnswersPay, pageVars
  <2> QED BY <1>7, <2>1, <2>2, <2>3 DEF AttemptStep
<1>8. CASE \/ \E o \in OrderIds: Decide(o)
           \/ \E s \in Scenarios: ChooseScenario(s)
           \/ UNCHANGED vars
  BY <1>2, <1>8 DEF Decide, ChooseScenario, vars, pageVars
<1> QED BY <1>2, <1>5, <1>6, <1>7, <1>8 DEF Next

(* The chain of callbacks ends when its loop begins. *)
LEMMA LoopStepInv ==
  ASSUME PaymentInv, [Next]_vars
  PROVE  SaleIsPosted' /\ LoopIsPaid'
<1>1. \A i \in Attempts: Posted(i) => Posted(i)'
  BY StepOfMerchant, PostedOnce DEF PaymentInv, Posted
<1>2. ASSUME NEW i \in Attempts, HearToken(i) PROVE Posted(i)'
  <2>1. payCall' = [payCall EXCEPT ![i].token = attempt[i].reply.token,
                                   ![i].details = details[attempt[i].doc]]
        /\ attempt[i].reply.token # None
    BY <1>2 DEF HearToken, PostPay
  <2> QED BY <2>1 DEF Posted, PaymentInv, MerchantInv, MerchantTypeOK, PayCalls
<1>3. SaleIsPosted'
  BY <1>1, <1>2, WaitsStep DEF PaymentInv, SaleIsPosted
<1>4. ASSUME NEW d \in Docs, NEW j \in Attempts, attempt[j].doc = d, attempt[j].waits = "nothing",
             Posted(j)
      PROVE  attempt'[j].doc = d /\ attempt'[j].waits = "nothing" /\ Posted(j)'
  BY <1>1, <1>4, WaitsStep, DomainsAssumption
<1>5. ASSUME NEW d \in Docs, ticket'[d] # None, poll'[d].loop # "off"
      PROVE  \E j \in Attempts: /\ attempt'[j].doc = d /\ attempt'[j].waits = "nothing"
                                /\ Posted(j)'
  <2>1. CASE poll[d].loop # "off"
    <3>1. ticket'[d] = ticket[d]
      BY <2>1, StepOfPage, LoadedIsKept DEF PaymentInv, PageInv, FollowsAnOrder
    <3> QED BY <1>4, <1>5, <2>1, <3>1 DEF PaymentInv, LoopIsPaid
  <2>2. CASE poll[d].loop = "off"
    <3>1. PICK i \in Attempts: HearPay(i) /\ attempt[i].doc = d
      BY <1>5, <2>2, LoopBegins
    <3>2. attempt[i].waits = "sale" /\ Settle(i)
      BY <3>1 DEF HearPay, Waiting
    <3>3. attempt'[i].doc = d /\ attempt'[i].waits = "nothing"
      BY <3>1, <3>2 DEF Settle, PaymentInv, AttemptTypeOK, AttemptStates
    <3>4. Posted(i)'
      BY <1>1, <3>2 DEF PaymentInv, SaleIsPosted
    <3> QED BY <3>3, <3>4
  <2> QED BY <2>1, <2>2
<1>6. LoopIsPaid'
  BY <1>5 DEF LoopIsPaid
<1> QED BY <1>3, <1>6

-----------------------------------------------------------------------------
(* The parts keep each their own, and what ties them together is kept. *)
LEMMA PaymentStepInv == PaymentInv /\ [Next]_vars => PaymentInv'
<1> SUFFICES ASSUME PaymentInv, [Next]_vars PROVE PaymentInv'
  OBVIOUS
<1>1. PageInv'
  BY StepOfPage, PageStepInv DEF PaymentInv
<1>2. MerchantInv'
  BY StepOfMerchant, MerchantStepInv DEF PaymentInv
<1>3. GatewayInv'
  BY StepOfGateway, GatewayStepInv DEF PaymentInv
<1>4. AttemptTypeOK' /\ AttemptHasPage'
  BY AttemptStepInv, CallbacksStepInv DEF AttemptTypeOK
<1>5. TokenIsOwn' /\ PostedIsOwn' /\ OrderIsPaid'
  BY TokenStepInv, PostedStepInv, OrderStepInv
<1>6. SaleIsPosted' /\ LoopIsPaid'
  BY LoopStepInv
<1> QED BY <1>1, <1>2, <1>3, <1>4, <1>5, <1>6 DEF PaymentInv

(* The invariant that ties page, attempt, token, call and order together. *)
THEOREM PaymentInvariant == Spec => []PaymentInv
BY PaymentInitInv, PaymentStepInv, PTL DEF Spec

(* Every handler, for any reply, keeps every part of the state in its type. *)
THEOREM PaymentTypes == Spec => []PaymentTypeOK
<1>1. RealOrder \subseteq OrderRef
  BY DEF RealOrder, OrderRef
<1>2. PaymentInv => PaymentTypeOK
  BY <1>1 DEF PaymentInv, PageInv, MerchantInv, GatewayInv, AttemptTypeOK, PaymentTypeOK
<1> QED BY <1>2, PaymentInvariant, PTL

(* Two presses of a page cannot both have posted: its ticket makes one     *)
(* token, and a token is handed to one press.                              *)
LEMMA PaidOnce == PaymentInv => OnePayPerPage
<1>1. ASSUME PaymentInv, NEW i \in Attempts, NEW j \in Attempts,
             Posted(i), Posted(j), attempt[i].doc = attempt[j].doc
      PROVE  i = j
  <2>1. /\ attempt[i].reply.token # None /\ attempt[j].reply.token # None
        /\ attempt[i].reply.token \in Tokens /\ attempt[j].reply.token \in Tokens
    BY <1>1 DEF PaymentInv, PostedIsOwn, Posted, MerchantInv, MerchantTypeOK, PayCalls
  <2>2. /\ tokenTicket[attempt[i].reply.token] = ticket[attempt[i].doc]
        /\ tokenTicket[attempt[j].reply.token] = ticket[attempt[i].doc]
    BY <1>1, <2>1 DEF PaymentInv, TokenIsOwn
  <2>3. ticket[attempt[i].doc] # None
    BY <1>1, <2>1, DomainsAssumption
       DEF PaymentInv, AttemptHasPage, NoAttempt, NoTokenReply, Failed
  <2>4. attempt[i].reply.token = attempt[j].reply.token
    BY <1>1, <2>1, <2>2, <2>3 DEF PaymentInv, GatewayInv, OneTokenPerTicket
  <2> QED BY <1>1, <2>1, <2>4 DEF PaymentInv, TokenIsOwn
<1> QED BY <1>1 DEF OnePayPerPage

(* checkout.js:440 from the page to the server: however often the button   *)
(* comes back and whatever is lost, one page load posts one payment.       *)
THEOREM PageIsPaidOnce == Spec => []OnePayPerPage
BY PaidOnce, PaymentInvariant, PTL

(* The press that has begun a page's loop was the one that paid, so no     *)
(* other press of the page can be waiting for a sale.                      *)
LEMMA NoLoopYet ==
  ASSUME PaymentInv, NEW i \in Attempts, Waiting(i, "sale")
  PROVE  attempt[i].doc \in Docs /\ poll[attempt[i].doc].loop = "off"
<1> DEFINE d == attempt[i].doc
<1>1. d \in Docs /\ ticket[d] # None /\ Posted(i) /\ attempt[i].waits = "sale"
  BY DomainsAssumption DEF PaymentInv, AttemptTypeOK, AttemptStates, AttemptHasPage, SaleIsPosted,
     Waiting
<1>2. ASSUME NEW j \in Attempts, attempt[j].doc = d, attempt[j].waits = "nothing", Posted(j)
      PROVE  FALSE
  BY <1>1, <1>2, PaidOnce DEF OnePayPerPage
<1> QED BY <1>1, <1>2 DEF PaymentInv, LoopIsPaid

(* When the answer to POST /pay brings an order, its page follows none,    *)
(* although a field loaded again lets the payer press while one is.        *)
THEOREM OneLoopAtATime == Spec => []OneLoopPerPage
<1>1. PaymentInv => OneLoopPerPage
  BY NoLoopYet DEF OneLoopPerPage
<1> QED BY <1>1, PaymentInvariant, PTL

(* No token pays for two orders, although the gateway never spends one:    *)
(* each order has a call of its own, and each call a token of its own.     *)
THEOREM TokenPaysOnce == Spec => []NoTokenPaysTwice
<1>1. ASSUME PaymentInv, NEW o1 \in OrderIds, NEW o2 \in OrderIds,
             Known(o1), Known(o2), order[o1].token = order[o2].token
      PROVE  o1 = o2
  <2>1. PICK i \in Attempts: payCall[i].sale = "made" /\ payCall[i].order = o1
                             /\ payCall[i].token = order[o1].token
    BY <1>1 DEF PaymentInv, OrderIsPaid
  <2>2. PICK j \in Attempts: payCall[j].sale = "made" /\ payCall[j].order = o2
                             /\ payCall[j].token = order[o2].token
    BY <1>1 DEF PaymentInv, OrderIsPaid
  <2>3. Posted(i) /\ Posted(j)
    BY <1>1, <2>1, <2>2 DEF PaymentInv, MerchantInv, CallProgress, Posted
  <2>4. attempt[i].reply.token = attempt[j].reply.token /\ attempt[i].reply.token # None
    BY <1>1, <2>1, <2>2, <2>3 DEF PaymentInv, PostedIsOwn, Posted
  <2>5. i = j
    BY <1>1, <2>4 DEF PaymentInv, TokenIsOwn
  <2> QED BY <2>1, <2>2, <2>5
<1>2. PaymentInv => NoTokenPaysTwice
  BY <1>1 DEF NoTokenPaysTwice
<1> QED BY <1>2, PaymentInvariant, PTL

(* A checkout uses the gateway by its operations alone, so that what is    *)
(* proved of the gateway holds in every checkout.                          *)
THEOREM CheckoutUsesGateway == Spec => GatewaySpec
<1>1. Init => GatewayInit
  BY DEF Init
<1> QED BY <1>1, StepOfGateway, PaymentInvariant, PTL DEF Spec, GatewaySpec

-----------------------------------------------------------------------------
(* The Pay button: what a press that still waits has in hand. *)

WaitsOn(i, d) == attempt[i].doc = d /\ attempt[i].waits # "nothing"

(* Until a field that is loaded again lets go of it, a press that still    *)
(* waits for something holds the button of its page, which is why there is *)
(* no other such press.                                                    *)
PressHoldsButton ==
  \A i \in Attempts, d \in Docs \ rearmed: WaitsOn(i, d) =>
    Busy(d) /\ \A j \in Attempts: WaitsOn(j, d) => i = j

ButtonInv == (\A d \in Docs: PageFits(d)) /\ PressHoldsButton

-----------------------------------------------------------------------------
LEMMA ButtonInitInv == Init => ButtonInv
BY DomainsAssumption DEF Init, PageInit, ButtonInv, PageFits, InOrder, PressHoldsButton, WaitsOn,
   Busy, NoAttempt, NoPoll

(* Submit puts a page with a live button in flight; unless a field has     *)
(* rearmed it, that page waits for nothing.                                *)
LEMMA PressFits ==
  ASSUME PaymentInv, ButtonInv, NEW i \in Attempts, NEW d \in Docs, PressPay(i, d)
  PROVE  ButtonInv' /\ ButtonsStayDead
<1> USE DEF PaymentInv, PageInv, PageTypeOK, AttemptTypeOK, ButtonInv
<1>1. /\ stage[d] = "form" /\ pay[d] = "ready"
      /\ pay' = [pay EXCEPT ![d] = "processing"] /\ formError' = [formError EXCEPT ![d] = "none"]
      /\ panel' = [panel EXCEPT ![d] = "processing"] /\ UNCHANGED <<stage, poll, rearmed>>
  BY DEF PressPay, Submit
<1>2. d \notin rearmed => \A j \in Attempts: ~WaitsOn(j, d)
  BY <1>1 DEF PressHoldsButton, Busy
<1>3. attempt[i] \in AttemptStates
  OBVIOUS
<1>4. /\ attempt'[i].doc = d /\ attempt'[i].waits = "token"
      /\ \A j \in Attempts: j # i => attempt'[j] = attempt[j]
  BY <1>3 DEF PressPay, AttemptStates
<1>5. d \notin rearmed => poll[d].loop = "off"
  BY <1>1 DEF PageFits, InOrder
<1>6. \A c \in Docs: PageFits(c)'
  BY <1>1, <1>5 DEF PageFits, InOrder
<1>7. \A j \in Attempts, c \in Docs: WaitsOn(j, c)' <=> (IF j = i THEN c = d ELSE WaitsOn(j, c))
  BY <1>4 DEF WaitsOn
<1>8. /\ d \notin rearmed => Busy(d)'
      /\ \A c \in Docs: Busy(c) => Busy(c)'
  BY <1>1, <1>5 DEF Busy
<1>9. PressHoldsButton'
  BY <1>1, <1>2, <1>7, <1>8 DEF PressHoldsButton
<1>10. ButtonsStayDead
  BY <1>1 DEF ButtonsStayDead, TerminalErrors
<1> QED BY <1>6, <1>9, <1>10

(* A step that lets no press wait longer than it did, and lets go of the   *)
(* button of no page whose press still waits, if no field does.            *)
LEMMA HoldsOn ==
  ASSUME PressHoldsButton, rearmed \subseteq rearmed',
         \A i \in Attempts, d \in Docs \ rearmed': WaitsOn(i, d)' => WaitsOn(i, d) /\ Busy(d)'
  PROVE  PressHoldsButton'
BY DEF PressHoldsButton

(* An error settles the press it is about and gives the button back, or    *)
(* kills it.                                                               *)
LEMMA ErrorFits ==
  ASSUME PaymentInv, ButtonInv, NEW i \in Attempts, NEW kind \in FormErrors \ {"unavailable"},
         attempt[i].doc # None, attempt[i].waits # "nothing", stage[attempt[i].doc] = "form",
         ShowFormError(attempt[i].doc, kind), HideStatusPanel(attempt[i].doc), Settle(i),
         UNCHANGED <<stage, poll, rearmed>>
  PROVE  ButtonInv' /\ ButtonsStayDead
<1> USE DEF PaymentInv, PageInv, PageTypeOK, AttemptTypeOK, ButtonInv
<1> DEFINE d == attempt[i].doc
<1>1. d \in Docs /\ WaitsOn(i, d) /\ stage[d] = "form"
  BY DEF AttemptStates, WaitsOn
<1>2. d \notin rearmed => Busy(d) /\ \A j \in Attempts: WaitsOn(j, d) => j = i
  BY <1>1 DEF PressHoldsButton
<1>3. /\ attempt'[i].waits = "nothing"
      /\ \A j \in Attempts: j # i => attempt'[j] = attempt[j]
  BY DEF Settle, AttemptStates
<1> HIDE DEF d
<1>4. /\ formError' = [formError EXCEPT ![d] = kind] /\ panel' = [panel EXCEPT ![d] = "hidden"]
      /\ pay' = [pay EXCEPT ![d] = IF kind \in TerminalErrors THEN kind ELSE "ready"]
  BY DEF ShowFormError, HideStatusPanel, d
<1>5. PICK button: /\ button = (IF kind \in TerminalErrors THEN kind ELSE "ready")
                   /\ button \notin {"processing", "unavailable"}
  BY DEF TerminalErrors
<1>6. \A c \in Docs: PageFits(c)'
  BY <1>1, <1>2, <1>4, <1>5 DEF PageFits, InOrder, Busy
<1>7. \A j \in Attempts, c \in Docs \ rearmed: WaitsOn(j, c)' => j # i /\ c # d /\ WaitsOn(j, c)
  BY <1>2, <1>3 DEF WaitsOn
<1>8. \A c \in Docs: c # d /\ Busy(c) => Busy(c)'
  BY <1>4 DEF Busy
<1>9. PressHoldsButton'
  BY <1>7, <1>8, HoldsOn DEF PressHoldsButton
<1>10. ButtonsStayDead
  BY <1>1, <1>2, <1>4 DEF ButtonsStayDead, PageFits, Busy, TerminalErrors
<1> QED BY <1>6, <1>9, <1>10

(* A step that leaves button, error, panel, loop and the waiting alone. *)
LEMMA QuietFits ==
  ASSUME ButtonInv, UNCHANGED <<stage, pay, formError, panel, poll, rearmed>>,
         \A i \in Attempts: attempt'[i].doc = attempt[i].doc
         /\ (attempt'[i].waits # "nothing" => attempt[i].waits # "nothing")
  PROVE  ButtonInv' /\ ButtonsStayDead
<1>1. \A i \in Attempts, d \in Docs: WaitsOn(i, d)' => WaitsOn(i, d)
  BY DEF WaitsOn
<1>2. \A d \in Docs: Busy(d) => Busy(d)'
  BY DEF Busy
<1>3. PressHoldsButton'
  BY <1>1, <1>2, HoldsOn DEF ButtonInv, PressHoldsButton
<1> QED BY <1>3 DEF ButtonInv, PageFits, InOrder, ButtonsStayDead

(* The order of an accepted payment takes over the button that the press   *)
(* has held.                                                               *)
LEMMA OrderFits ==
  ASSUME PaymentInv, ButtonInv, NEW i \in Attempts, NEW ref,
         attempt[i].doc # None, attempt[i].waits # "nothing",
         PayAccepted(attempt[i].doc, ref), Settle(i)
  PROVE  ButtonInv' /\ ButtonsStayDead
<1> USE DEF PaymentInv, PageInv, PageTypeOK, AttemptTypeOK, ButtonInv
<1> DEFINE d == attempt[i].doc
<1>1. d \in Docs /\ WaitsOn(i, d)
  BY DEF AttemptStates, WaitsOn
<1>2. d \notin rearmed => Busy(d) /\ \A j \in Attempts: WaitsOn(j, d) => j = i
  BY <1>1 DEF PressHoldsButton
<1>3. /\ attempt'[i].waits = "nothing"
      /\ \A j \in Attempts: j # i => attempt'[j] = attempt[j]
  BY DEF Settle, AttemptStates
<1> HIDE DEF d
<1>4. /\ stage[d] = "form" /\ poll' = [poll EXCEPT ![d] = Started(FALSE)]
      /\ UNCHANGED <<stage, pay, formError, panel, rearmed>>
  BY DEF PayAccepted, d
<1>5. Started(FALSE).loop # "off"
  BY DEF Started
<1>6. \A c \in Docs: PageFits(c)'
  BY <1>1, <1>2, <1>4, <1>5 DEF PageFits, InOrder, Busy
<1>7. \A j \in Attempts, c \in Docs \ rearmed: WaitsOn(j, c)' => j # i /\ c # d /\ WaitsOn(j, c)
  BY <1>2, <1>3 DEF WaitsOn
<1>8. \A c \in Docs: c # d /\ Busy(c) => Busy(c)'
  BY <1>4 DEF Busy
<1>9. PressHoldsButton'
  BY <1>4, <1>7, <1>8, HoldsOn DEF PressHoldsButton
<1> QED BY <1>4, <1>6, <1>9 DEF ButtonsStayDead

-----------------------------------------------------------------------------
(* Every step keeps button, press and panel together, and no dead button   *)
(* comes back but by a field that is loaded again.                         *)
LEMMA ButtonStepInv ==
  ASSUME PaymentInv, ButtonInv, [Next]_vars
  PROVE  ButtonInv' /\ ButtonsStayDead
<1> DEFINE Kept == ButtonInv' /\ ButtonsStayDead
<1> HIDE DEF Kept
<1>1. ASSUME NEW d \in Docs, PageStep(d) PROVE Kept
  <2>1. UNCHANGED attempt
    BY <1>1 DEF PageStep, ServeConfig, FailConfig, LoadPage, PayerEdits, PayerLeaves, ReadStatus,
       FailStatus, PageHearsStatus, PageLosesStatus, PollAgain, VisitIssuer, ShowResult
  <2>2. CASE UNCHANGED pageVars
    BY <2>1, <2>2, QuietFits DEF pageVars, Kept
  <2>3. ASSUME \/ OpenCheckout(d) \/ ConfigLost(d) \/ ScriptLoads(d) \/ ScriptFails(d)
               \/ FieldsReady(d)
               \/ \E t \in Tickets \cup {None}: ConfigArrives(d, t)
               \/ \E x \in Details: EditDetails(d, x)
               \/ \E r \in AnyReply: HearStatus(d, r)
               \/ LoseStatus(d) \/ TimerFires(d)
               \/ \E ref \in RealOrder \cup {NoOrderRef}: OpenResult(d, ref)
               \/ ResultConfigLost(d) \/ Leave(d)
        PROVE  Kept
    <3>1. Fits
      BY <2>3, OwnHandlersFit DEF PaymentInv, ButtonInv
    <3>2. \A i \in Attempts, c \in Docs: WaitsOn(i, c)' => WaitsOn(i, c)
      BY <2>1 DEF WaitsOn
    <3>3. \A i \in Attempts, c \in Docs \ rearmed:
            WaitsOn(i, c) => stage[c] \in {"form", "gone"} /\ Busy(c)
      BY DomainsAssumption DEF PaymentInv, AttemptHasPage, WaitsOn, ButtonInv, PressHoldsButton
    <3>4. PressHoldsButton'
      BY <3>1, <3>2, <3>3, HoldsOn DEF Fits, ButtonInv
    <3> QED BY <3>1, <3>4 DEF Fits, ButtonInv, Kept
  <2>4. ASSUME NEW t \in Tickets, ServeConfig(d, t) PROVE Kept
    BY <2>3, <2>4 DEF ServeConfig
  <2>5. CASE FailConfig(d) \/ LoadPage(d) \/ PayerEdits(d) \/ PayerLeaves(d)
    BY <2>3, <2>5 DEF FailConfig, LoadPage, PayerEdits, PayerLeaves
  <2>6. CASE ReadStatus(d) \/ FailStatus(d)
    BY <2>2, <2>6 DEF ReadStatus, FailStatus
  <2>7. CASE PageHearsStatus(d)
    <3>1. statusReply[d] \in AnyReply /\ HearStatus(d, statusReply[d])
      BY <2>7 DEF PageHearsStatus, PaymentInv, MerchantInv, MerchantTypeOK, Replies, AnyReply,
         FinalStatuses
    <3> QED BY <2>3, <3>1
  <2>8. CASE PageLosesStatus(d) \/ PollAgain(d) \/ VisitIssuer(d)
    BY <2>3, <2>8 DEF PageLosesStatus, PollAgain, VisitIssuer
  <2>9. CASE ShowResult(d)
    BY <2>3, <2>9 DEF ShowResult, PaymentInv, AttemptTypeOK
  <2> QED BY <1>1, <2>4, <2>5, <2>6, <2>7, <2>8, <2>9 DEF PageStep
<1>2. ASSUME NEW i \in Attempts, AttemptStep(i) PROVE Kept
  <2>1. ASSUME NEW d \in Docs, PressPay(i, d) PROVE Kept
    BY <2>1, PressFits DEF Kept
  <2>2. CASE UNCHANGED pageVars
              /\ \A j \in Attempts:
                   attempt'[j].doc = attempt[j].doc
                   /\ (attempt'[j].waits # "nothing" => attempt[j].waits # "nothing")
    BY <2>2, QuietFits DEF pageVars, Kept
  <2>3. CASE ServerHandlesPay(i) \/ MakeSale(i) \/ ServerAnswersPay(i)
    <3>1. UNCHANGED <<pageVars, attempt>>
      BY <2>3 DEF ServerHandlesPay, MakeSale, ServerAnswersPay
    <3> QED BY <2>2, <3>1
  <2>4. CASE TokenizeCard(i)
    <3>1. UNCHANGED pageVars /\ \E reply: attempt' = [attempt EXCEPT ![i].reply = reply]
      BY <2>4 DEF TokenizeCard
    <3>2. \A j \in Attempts: attempt'[j].doc = attempt[j].doc /\ attempt'[j].waits = attempt[j].waits
      BY <3>1 DEF PaymentInv, AttemptTypeOK, AttemptStates
    <3> QED BY <2>2, <3>1, <3>2
  <2>5. CASE HearToken(i)
    <3>1. /\ UNCHANGED pageVars /\ attempt[i].waits = "token"
          /\ attempt' = [attempt EXCEPT ![i].waits = "sale"]
      BY <2>5 DEF HearToken, Waiting
    <3>2. \A j \in Attempts: attempt'[j].doc = attempt[j].doc
                             /\ (j # i => attempt'[j].waits = attempt[j].waits)
      BY <3>1 DEF PaymentInv, AttemptTypeOK, AttemptStates
    <3> QED BY <2>2, <3>1, <3>2
  <2>6. ASSUME NEW code \in Nat, ShowError(attempt[i].doc, code), Settle(i),
               attempt[i].doc # None, attempt[i].waits # "nothing"
        PROVE  Kept
    <3>1. KindOf(code) \in FormErrors \ {"unavailable"}
      BY DEF KindOf, FormErrors, TerminalErrors
    <3> QED BY <2>6, <3>1, ErrorFits DEF ShowError, Kept
  <2>7. CASE HearTokenError(i)
    <3>1. attempt[i].reply.code \in Nat
      BY DEF PaymentInv, AttemptTypeOK, AttemptStates, TokenReplies, NoTokenReply, Failed, TokenOf
    <3> QED BY <2>6, <2>7, <3>1 DEF HearTokenError, Waiting
  <2>8. CASE LoseToken(i)
    BY <2>6, <2>8 DEF LoseToken, Waiting
  <2>9. CASE LosePay(i)
    <3>1. "network" \in FormErrors \ {"unavailable"}
      BY DEF FormErrors
    <3> QED BY <2>9, <3>1, ErrorFits DEF LosePay, PayLost, Waiting, Kept
  <2>10. CASE HearPay(i)
    <3>1. "retry" \in FormErrors \ {"unavailable"}
      BY DEF FormErrors
    <3>2. CASE PayRefused(attempt[i].doc)
      BY <2>10, <3>1, <3>2, ErrorFits DEF HearPay, PayRefused, Waiting, Kept
    <3>3. ASSUME NEW ref, PayAccepted(attempt[i].doc, ref) PROVE Kept
      BY <2>10, <3>3, OrderFits DEF HearPay, Waiting, Kept
    <3> QED BY <2>10, <3>2, <3>3 DEF HearPay
  <2> QED BY <1>2, <2>1, <2>3, <2>4, <2>5, <2>7, <2>8, <2>9, <2>10 DEF AttemptStep
<1>3. CASE \/ \E o \in OrderIds: Decide(o)
           \/ \E s \in Scenarios: ChooseScenario(s)
           \/ UNCHANGED vars
  <2>1. UNCHANGED <<pageVars, attempt>>
    BY <1>3 DEF Decide, ChooseScenario, vars
  <2> QED BY <2>1, QuietFits DEF pageVars, Kept
<1> QED BY <1>1, <1>2, <1>3 DEF Next, Kept

(* checkout.js:367 to 500: what a press that still waits does to its page, *)
(* and that it is the only one there.                                      *)
THEOREM ButtonInvariant == Spec => [](PaymentInv /\ ButtonInv)
<1>1. Init => PaymentInv /\ ButtonInv
  BY PaymentInitInv, ButtonInitInv
<1>2. PaymentInv /\ ButtonInv /\ [Next]_vars => (PaymentInv /\ ButtonInv)'
  BY PaymentStepInv, ButtonStepInv
<1> QED BY <1>1, <1>2, PTL DEF Spec

(* A live button waits for nothing, however many presses and replies are   *)
(* on their way, on every page where no field was loaded again under a     *)
(* payment (hosted-fields.js:83, checkout.js:429).                         *)
THEOREM LiveButtonIsIdle == Spec => []LiveButtonIdle
<1>1. PaymentInv /\ ButtonInv => LiveButtonIdle
  <2> SUFFICES ASSUME PaymentInv, ButtonInv, NEW d \in Docs \ rearmed, LiveForm(d),
                      pay[d] = "ready"
               PROVE  /\ poll[d].loop = "off"
                      /\ \A i \in Attempts: attempt[i].doc = d => attempt[i].waits = "nothing"
    BY DEF LiveButtonIdle
  <2>1. poll[d].loop = "off"
    BY DEF ButtonInv, PageFits, InOrder, LiveForm
  <2>2. \A i \in Attempts: ~WaitsOn(i, d)
    BY DEF ButtonInv, PressHoldsButton, Busy
  <2> QED BY <2>1, <2>2 DEF WaitsOn
<1> QED BY <1>1, ButtonInvariant, PTL

(* checkout.js:489: error and status panel never show together, and a page *)
(* in flight has its panel open, where no field was loaded again.          *)
THEOREM OneMessageShown == Spec => []OneMessageAtATime
<1>1. ButtonInv => OneMessageAtATime
  BY DEF ButtonInv, PageFits, InOrder, OneMessageAtATime, LiveForm
<1> QED BY <1>1, ButtonInvariant, PTL

(* checkout.js:402: nothing but a field that is loaded again revives a     *)
(* dead button, and nothing at all the one of a page without its SDK.      *)
THEOREM DeadButtonIsDead == Spec => DeadButtonStaysDead
<1>1. PaymentInv /\ ButtonInv /\ [Next]_vars
        => [\A d \in Docs: pay[d] \in TerminalErrors =>
              pay'[d] = pay[d] \/ (d \in rearmed' /\ pay[d] # "unavailable")]_vars
  BY ButtonStepInv DEF ButtonsStayDead
<1> QED BY <1>1, ButtonInvariant, PTL DEF Spec, DeadButtonStaysDead

-----------------------------------------------------------------------------
(***************************************************************************)
(* The order of a checkout: calls, returns and pages know the order they   *)
(* are about, a page follows its own and shows the gateway's verdict on    *)
(* it, one page at most takes it to the issuer, and every page keeps what  *)
(* OrderWatch promises its payer.  An id that is drawn for a second sale   *)
(* takes the first sale's order away, and with it all but the last.        *)
(***************************************************************************)

(* What the gateway reports of an order once the bank has decided. *)
Verdicts == {"approved", "declined"}

CallsKnowTheirOrder ==
  \A i \in Attempts: payCall[i].sale = "made" =>
    /\ Known(payCall[i].order)
    /\ \/ /\ order[payCall[i].order].client = payCall[i].client
          /\ order[payCall[i].order].token = payCall[i].token
       \/ Collided(payCall[i].order)

ReturnsKnowTheirOrder ==
  \A ref \in callbacks:
    Known(ref.order) /\ (order[ref.order].client = ref.client \/ Collided(ref.order))

PagesKnowTheirOrder ==
  \A d \in Docs: orderOf[d].order # None =>
    /\ Loaded(d)
    /\ Known(orderOf[d].order)
    /\ \/ /\ order[orderOf[d].order].client = orderOf[d].client
          /\ ticket[d] # None => tokenTicket[order[orderOf[d].order].token] = ticket[d]
       \/ Collided(orderOf[d].order)

(* No two pages were given the same ticket. *)
TicketIsOwn ==
  /\ \A d \in Docs: ticket[d] # None => ticketName[ticket[d]] # None
  /\ \A d, e \in Docs: ticket[d] # None /\ ticket[d] = ticket[e] => d = e

(* Only the return page, which never takes a payer to the issuer, follows  *)
(* an order without a ticket.                                              *)
NoTicketNoIssuer ==
  \A d \in Docs: ticket[d] = None =>
    poll[d].loop = "off" \/ (poll[d].redirected /\ poll[d].loop # "sent")

(* An answer on its way, and a verdict shown, are still true. *)
AnswerIsTrue ==
  \A d \in Docs: statusReply[d] # None =>
    /\ poll[d].loop = "asking"
    /\ statusReply[d].status \in Verdicts =>
         \/ StatusReply(orderOf[d].order).status = statusReply[d].status
         \/ Collided(orderOf[d].order)

PanelIsTrue ==
  \A d \in Docs: panel[d] \in Verdicts =>
    /\ poll[d].loop # "off"
    /\ StatusReply(orderOf[d].order).status = panel[d] \/ Collided(orderOf[d].order)

FollowInv ==
  /\ CallsKnowTheirOrder
  /\ ReturnsKnowTheirOrder
  /\ PagesKnowTheirOrder
  /\ TicketIsOwn
  /\ NoTicketNoIssuer
  /\ AnswerIsTrue
  /\ PanelIsTrue

(* Before the first page is opened there is no order to know. *)
LEMMA FollowInitInv == Init => FollowInv
BY DomainsAssumption DEF Init, PageInit, MerchantInit, NoPayCall, NoOrderRef, NoPoll, Verdicts,
   FollowInv, CallsKnowTheirOrder, ReturnsKnowTheirOrder, PagesKnowTheirOrder, TicketIsOwn,
   NoTicketNoIssuer, AnswerIsTrue, PanelIsTrue

-----------------------------------------------------------------------------
(* The gateway's orders. *)

(* Only a Sale, the issuer and the bank write to the orders. *)
LEMMA StepOfOrder ==
  ASSUME PaymentInv, [Next]_vars
  PROVE  \/ UNCHANGED order
         \/ \E i \in Attempts: MakeSale(i)
         \/ \E o \in OrderIds: ChallengePage(o) \/ BankDecides(o)
<1>1. ASSUME NEW d \in Docs, PageStep(d)
      PROVE  UNCHANGED order \/ \E o \in OrderIds: ChallengePage(o)
  <2>1. ASSUME NEW t \in Tickets, ServeConfig(d, t) PROVE UNCHANGED order
    BY <2>1 DEF ServeConfig, CreateEphemeralTicket
  <2>2. CASE VisitIssuer(d)
    BY <2>2 DEF VisitIssuer, PaymentInv, PageInv, FollowsAnOrder
  <2> QED
    BY <1>1, <2>1, <2>2 DEF PageStep, FailConfig, LoadPage, PayerEdits, PayerLeaves, ReadStatus,
       FailStatus, PageHearsStatus, PageLosesStatus, PollAgain, ShowResult, gatewayVars
<1>2. ASSUME NEW i \in Attempts, AttemptStep(i) PROVE UNCHANGED order \/ MakeSale(i)
  <2>1. CASE TokenizeCard(i)
    BY <2>1 DEF TokenizeCard, Tokenize, MintToken, gatewayVars
  <2>2. ASSUME NEW d \in Docs, PressPay(i, d) PROVE UNCHANGED order
    BY <2>2 DEF PressPay, gatewayVars
  <2>3. CASE HearToken(i) \/ HearTokenError(i) \/ LoseToken(i) \/ LosePay(i)
             \/ ServerHandlesPay(i) \/ ServerAnswersPay(i)
    BY <2>3 DEF HearToken, HearTokenError, LoseToken, LosePay, ServerHandlesPay,
       ServerAnswersPay, gatewayVars
  <2>4. CASE HearPay(i)
    BY <2>4 DEF HearPay, gatewayVars
  <2> QED BY <1>2, <2>1, <2>2, <2>3, <2>4 DEF AttemptStep
<1>3. ASSUME NEW o \in OrderIds, Decide(o) PROVE BankDecides(o)
  BY <1>3 DEF Decide
<1>4. CASE (\E s \in Scenarios: ChooseScenario(s)) \/ UNCHANGED vars
  BY <1>4 DEF ChooseScenario, SetScenario, vars, gatewayVars
<1> QED BY <1>1, <1>2, <1>3, <1>4 DEF Next

(* The ids that two sales were given are given to them for good. *)
LEMMA CollidedStays ==
  ASSUME PaymentInv, [Next]_vars, NEW o \in OrderIds, Collided(o)
  PROVE  Collided(o)'
<1>1. PICK i \in Attempts, j \in Attempts: i # j /\ payCall[i].order = o /\ payCall[j].order = o
  BY DEF Collided
<1>2. payCall[i].sale = "made" /\ payCall[j].sale = "made"
  BY <1>1, DomainsAssumption DEF PaymentInv, MerchantInv, CallProgress
<1>3. payCall'[i].order = o /\ payCall'[j].order = o
  BY <1>1, <1>2, StepOfMerchant, SaleIsMadeOnce DEF PaymentInv
<1> QED BY <1>1, <1>3 DEF Collided

(* A Sale that is given a taken id pays with a token of its own, and the   *)
(* two sales have the id in common from then on.                           *)
LEMMA SaleOverwrites ==
  ASSUME PaymentInv, NEW i \in Attempts, MakeSale(i), NEW o \in OrderIds, Known(o),
         order'[o] # order[o]
  PROVE  Known(o)' /\ order'[o].token # order[o].token /\ Collided(o)'
<1>1. PICK reply \in OrderIds \cup {None}:
        /\ SaleDone(i, reply)
        /\ Sale(payCall[i].token, OrderAmount, payCall[i].client, payCall[i].details, reply)
  BY DEF MakeSale
<1>2. ~SaleRefused(payCall[i].token, OrderAmount)
      /\ CreateOrder(reply, payCall[i].token, payCall[i].client, payCall[i].details)
  BY <1>1 DEF Sale, gatewayVars
<1>3. reply = o
  BY <1>2 DEF CreateOrder, PaymentInv, GatewayInv, GatewayTypeOK
<1>4. order'[o].token = payCall[i].token /\ order'[o].scenario = tokenScenario[payCall[i].token]
  BY <1>2, <1>3 DEF CreateOrder, PaymentInv, GatewayInv, GatewayTypeOK
<1>5. PICK j \in Attempts: /\ payCall[j].sale = "made" /\ payCall[j].order = o
                           /\ payCall[j].token = order[o].token
  BY DEF PaymentInv, OrderIsPaid
<1>6. payCall[i].sale = "asked" /\ i # j
  BY <1>1, <1>5 DEF SaleDone
<1>7. payCall'[i].order = o /\ payCall'[j].order = o
  BY <1>1, <1>3, <1>5, <1>6 DEF SaleDone, PaymentInv, MerchantInv, MerchantTypeOK, PayCalls
<1>8. Posted(i) /\ Posted(j)
  BY <1>5, <1>6 DEF PaymentInv, MerchantInv, CallProgress, Posted
<1>9. payCall[i].token # payCall[j].token
  BY <1>6, <1>8 DEF PaymentInv, PostedIsOwn, TokenIsOwn, Posted
<1>10. Known(o)'
  BY <1>2, <1>4 DEF SaleRefused, Known
<1> QED BY <1>4, <1>5, <1>6, <1>7, <1>9, <1>10 DEF Collided

(* Under its id, an order keeps its client and its verdict until a second  *)
(* sale is given the id, which then has another token.                     *)
LEMMA OrderIsKept ==
  ASSUME PaymentInv, [Next]_vars, NEW o \in OrderIds, Known(o)
  PROVE  /\ Known(o)'
         /\ \/ /\ order'[o].scenario = order[o].scenario
               /\ order'[o].client = order[o].client
               /\ order'[o].token = order[o].token
               /\ order[o].decided => order'[o].decided
            \/ Collided(o)' /\ order'[o].token # order[o].token
<1> DEFINE Same == /\ order'[o].scenario = order[o].scenario
                   /\ order'[o].client = order[o].client
                   /\ order'[o].token = order[o].token
                   /\ order[o].decided => order'[o].decided
<1>1. CASE UNCHANGED order
  BY <1>1 DEF Known
<1>2. ASSUME NEW i \in Attempts, MakeSale(i)
      PROVE  Known(o)' /\ (Same \/ (Collided(o)' /\ order'[o].token # order[o].token))
  BY <1>2, SaleOverwrites DEF Known
<1>3. ASSUME NEW p \in OrderIds, ChallengePage(p) \/ BankDecides(p)
      PROVE  Same
  <2> USE DEF PaymentInv, GatewayInv, GatewayTypeOK
  <2>1. order[p] \in Order
    OBVIOUS
  <2>2. CASE ChallengePage(p)
    BY <2>1, <2>2 DEF ChallengePage, Order
  <2>3. CASE BankDecides(p)
    BY <2>1, <2>3 DEF BankDecides, Order
  <2> QED BY <1>3, <2>2, <2>3
<1> QED BY <1>1, <1>2, <1>3, StepOfOrder DEF Known

(* What StatusReply has once said of an order in the end, it says until a  *)
(* second sale is given the id.                                            *)
LEMMA VerdictIsKept ==
  ASSUME PaymentInv, [Next]_vars, NEW o \in OrderIds,
         StatusReply(o).status \in Verdicts
  PROVE  \/ StatusReply(o)' = StatusReply(o)
         \/ Collided(o)' /\ order'[o].token # order[o].token
<1>1. order[o].decided \in BOOLEAN /\ order'[o].decided \in BOOLEAN
  <2>1. PaymentInv'
    BY PaymentStepInv
  <2> QED BY <2>1 DEF PaymentInv, GatewayInv, GatewayTypeOK, Order
<1>2. Known(o) /\ order[o].decided
  <2>1. CASE ~Known(o)
    BY <2>1 DEF StatusReply, Verdicts
  <2>2. CASE Known(o) /\ ~order[o].decided
    BY <2>2 DEF StatusReply, Verdicts
  <2> QED BY <1>1, <2>1, <2>2
<1>3. \/ order'[o].scenario = order[o].scenario /\ order'[o].decided = order[o].decided
      \/ Collided(o)' /\ order'[o].token # order[o].token
  BY <1>1, <1>2, OrderIsKept
<1> QED BY <1>3 DEF StatusReply, Known

-----------------------------------------------------------------------------
(* What ties pages, calls and returns to their orders. *)

(* A call learns its order from the reply to its own Sale. *)
LEMMA CallsStepInv ==
  ASSUME PaymentInv, [Next]_vars, FollowInv
  PROVE  CallsKnowTheirOrder'
<1> SUFFICES ASSUME NEW i \in Attempts, payCall'[i].sale = "made"
             PROVE  /\ Known(payCall[i].order)'
                    /\ \/ /\ order'[payCall'[i].order].client = payCall'[i].client
                          /\ order'[payCall'[i].order].token = payCall'[i].token
                       \/ Collided(payCall[i].order)'
  BY DEF CallsKnowTheirOrder
<1> USE DEF PaymentInv, MerchantInv, MerchantTypeOK
<1>1. CASE payCall[i].sale = "made"
  <2>1. /\ payCall'[i].order = payCall[i].order /\ payCall'[i].token = payCall[i].token
        /\ payCall'[i].client = payCall[i].client
    BY <1>1, StepOfMerchant, SaleIsMadeOnce
  <2>2. payCall[i].order \in OrderIds /\ Known(payCall[i].order)
    BY <1>1 DEF CallProgress, PayCalls, FollowInv, CallsKnowTheirOrder
  <2>3. PICK o \in OrderIds: o = payCall[i].order
    BY <2>2
  <2>4. /\ Known(o)
        /\ (order[o].client = payCall[i].client /\ order[o].token = payCall[i].token) \/ Collided(o)
    BY <1>1, <2>3 DEF FollowInv, CallsKnowTheirOrder
  <2>5. /\ Known(o)'
        /\ (order'[o].client = payCall[i].client /\ order'[o].token = payCall[i].token) \/ Collided(o)'
    BY <2>4, OrderIsKept, CollidedStays
  <2>6. (Known(payCall[i].order)' <=> Known(o)') /\ (Collided(payCall[i].order)' <=> Collided(o)')
    BY <2>1, <2>3 DEF Known, Collided
  <2> QED BY <2>1, <2>3, <2>5, <2>6
<1>2. CASE payCall[i].sale # "made"
  <2>1. ASSUME NEW j \in Attempts, MakeSale(j)
        PROVE  /\ Known(payCall[i].order)'
               /\ order'[payCall'[i].order].client = payCall'[i].client
               /\ order'[payCall'[i].order].token = payCall'[i].token
    <3>1. PICK reply \in OrderIds \cup {None}:
            /\ SaleDone(j, reply)
            /\ Sale(payCall[j].token, OrderAmount, payCall[j].client, payCall[j].details, reply)
      BY <2>1 DEF MakeSale
    <3>2. i = j /\ reply # None
      BY <1>2, <3>1 DEF SaleDone, PayCalls
    <3>3. /\ payCall'[i].order = reply /\ payCall'[i].client = payCall[i].client
          /\ payCall'[i].token = payCall[i].token
      BY <3>1, <3>2 DEF SaleDone, PayCalls
    <3>4. /\ CreateOrder(reply, payCall[i].token, payCall[i].client, payCall[i].details)
          /\ ~SaleRefused(payCall[i].token, OrderAmount) /\ reply \in OrderIds
      BY <3>1, <3>2 DEF Sale
    <3>5. /\ order'[reply].client = payCall[i].client /\ order'[reply].token = payCall[i].token
          /\ order'[reply].scenario = tokenScenario[payCall[i].token]
      BY <3>4 DEF CreateOrder, GatewayInv, GatewayTypeOK
    <3> QED BY <3>3, <3>4, <3>5 DEF SaleRefused, Known
  <2>2. ASSUME NEW j \in Attempts, AttemptStep(j), ~MakeSale(j)
        PROVE  payCall'[i].sale # "made"
    <3>1. ASSUME NEW k, NEW x, PostPay(j, k, x) PROVE payCall'[i].sale # "made"
      BY <1>2, <3>1 DEF PostPay, PayCalls
    <3>2. ASSUME NEW c, HandlePay(j, c) PROVE payCall'[i].sale # "made"
      BY <1>2, <3>2 DEF HandlePay, PayCalls
    <3>3. CASE AnswerPay(j) \/ FailPay(j)
      BY <1>2, <3>3 DEF AnswerPay, FailPay, PayCalls
    <3>4. CASE UNCHANGED payCall
      BY <1>2, <3>4
    <3>5. ASSUME NEW d \in Docs, PressPay(j, d) PROVE UNCHANGED payCall
      BY <3>5 DEF PressPay, merchantVars
    <3>6. CASE TokenizeCard(j) \/ HearTokenError(j) \/ LoseToken(j) \/ LosePay(j)
      BY <3>4, <3>6 DEF TokenizeCard, HearTokenError, LoseToken, LosePay, merchantVars
    <3>7. CASE HearPay(j)
      BY <3>4, <3>7 DEF HearPay, merchantVars
    <3>8. CASE HearToken(j)
      BY <3>1, <3>8 DEF HearToken
    <3>9. CASE ServerHandlesPay(j) \/ ServerAnswersPay(j)
      BY <3>2, <3>3, <3>9 DEF ServerHandlesPay, ServerAnswersPay
    <3> QED BY <2>2, <3>4, <3>5, <3>6, <3>7, <3>8, <3>9 DEF AttemptStep
  <2>3. ASSUME NEW d \in Docs, PageStep(d) PROVE UNCHANGED payCall
    BY <2>3 DEF PageStep, ServeConfig, FailConfig, LoadPage, PayerEdits, PayerLeaves, ReadStatus,
       FailStatus, PageHearsStatus, PageLosesStatus, PollAgain, VisitIssuer, ShowResult,
       merchantVars, AnswerStatus, ForgetStatus
  <2>4. ASSUME \/ \E o \in OrderIds: Decide(o)
               \/ \E s \in Scenarios: ChooseScenario(s)
               \/ UNCHANGED vars
        PROVE  UNCHANGED payCall
    BY <2>4 DEF Decide, ChooseScenario, vars, merchantVars
  <2> QED BY <1>2, <2>1, <2>2, <2>3, <2>4 DEF Next
<1> QED BY <1>1, <1>2

(* The issuer's form carries the order as the gateway has it. *)
LEMMA ReturnsStepInv ==
  ASSUME PaymentInv, [Next]_vars, FollowInv
  PROVE  ReturnsKnowTheirOrder'
<1>1. ASSUME NEW ref \in callbacks
      PROVE  Known(ref.order)' /\ (order'[ref.order].client = ref.client \/ Collided(ref.order)')
  <2>1. PICK o \in OrderIds: o = ref.order
    BY <1>1 DEF PaymentInv, AttemptTypeOK, RealOrder
  <2>2. Known(o) /\ (order[o].client = ref.client \/ Collided(o))
    BY <1>1, <2>1 DEF FollowInv, ReturnsKnowTheirOrder
  <2>3. Known(o)' /\ (order'[o].client = ref.client \/ Collided(o)')
    BY <2>2, OrderIsKept, CollidedStays
  <2> QED BY <2>1, <2>3 DEF Known, Collided
<1>2. ASSUME NEW d \in Docs, VisitIssuer(d) PROVE ReturnsKnowTheirOrder'
  <2>1. PICK o \in OrderIds:
          Known(o) /\ callbacks' = callbacks \cup {[order |-> o, client |-> order[o].client]}
    BY <1>2 DEF VisitIssuer, ChallengePage, PaymentInv, PageInv, FollowsAnOrder
  <2>2. Known(o)' /\ (order'[o].client = order[o].client \/ Collided(o)')
    BY <2>1, OrderIsKept
  <2>3. ASSUME NEW ref \in callbacks'
        PROVE  Known(ref.order)' /\ (order'[ref.order].client = ref.client \/ Collided(ref.order)')
    BY <1>1, <2>1, <2>2 DEF Known, Collided
  <2> QED BY <2>3 DEF ReturnsKnowTheirOrder, Known, Collided
<1>3. ASSUME UNCHANGED callbacks PROVE ReturnsKnowTheirOrder'
  BY <1>1, <1>3 DEF ReturnsKnowTheirOrder, Known, Collided
<1>4. ASSUME NEW d \in Docs, PageStep(d), ~VisitIssuer(d) PROVE UNCHANGED callbacks
  BY <1>4 DEF PageStep, ServeConfig, FailConfig, LoadPage, PayerEdits, PayerLeaves, ReadStatus,
     FailStatus, PageHearsStatus, PageLosesStatus, PollAgain, ShowResult
<1>5. ASSUME NEW i \in Attempts, AttemptStep(i) PROVE UNCHANGED callbacks
  <2>1. ASSUME NEW d \in Docs, PressPay(i, d) PROVE UNCHANGED callbacks
    BY <2>1 DEF PressPay
  <2>2. CASE TokenizeCard(i) \/ HearToken(i) \/ HearTokenError(i) \/ LoseToken(i)
    BY <2>2 DEF TokenizeCard, HearToken, HearTokenError, LoseToken
  <2>3. CASE ServerHandlesPay(i) \/ MakeSale(i) \/ ServerAnswersPay(i) \/ LosePay(i)
    BY <2>3 DEF ServerHandlesPay, MakeSale, ServerAnswersPay, LosePay
  <2>4. CASE HearPay(i)
    BY <2>4 DEF HearPay
  <2> QED BY <1>5, <2>1, <2>2, <2>3, <2>4 DEF AttemptStep
<1>6. ASSUME \/ \E o \in OrderIds: Decide(o)
             \/ \E s \in Scenarios: ChooseScenario(s)
             \/ UNCHANGED vars
      PROVE  UNCHANGED callbacks
  BY <1>6 DEF Decide, ChooseScenario, vars
<1> QED BY <1>2, <1>3, <1>4, <1>5, <1>6 DEF Next

(* What a step can do to the orders that pages follow, to their loops, to  *)
(* the answers on their way and to the verdicts shown.                     *)
Still ==
  /\ UNCHANGED <<orderOf, poll, statusReply>>
  /\ \A d \in Docs: panel'[d] \in Verdicts => panel'[d] = panel[d]
  /\ \A d \in Docs \ rearmed: poll[d].loop # "off" => panel'[d] = panel[d]

(* Who begins to follow an order, who asks about it and who tells of it. *)
LEMMA StepOfFollowing ==
  ASSUME PaymentInv, ButtonInv, [Next]_vars
  PROVE  \/ Still
         \/ \E d \in Docs: ReadStatus(d) \/ FailStatus(d) \/ PageHearsStatus(d)
                           \/ PageLosesStatus(d) \/ PollAgain(d)
         \/ \E d \in Docs: ShowResult(d)
         \/ \E i \in Attempts: HearPay(i)
<1> USE DEF Still, Verdicts
<1>1. ASSUME NEW d \in Docs, PageStep(d)
      PROVE  \/ Still \/ ReadStatus(d) \/ FailStatus(d) \/ PageHearsStatus(d)
             \/ PageLosesStatus(d) \/ PollAgain(d) \/ ShowResult(d)
  <2>1. ASSUME NEW t \in Tickets, ServeConfig(d, t) PROVE Still
    BY <2>1 DEF ServeConfig, ConfigArrives, merchantVars
  <2>2. CASE FailConfig(d)
    BY <2>2 DEF FailConfig, ConfigArrives, merchantVars
  <2>3. CASE LoadPage(d)
    BY <2>3 DEF LoadPage, OpenCheckout, ConfigLost, ScriptLoads, ScriptFails, FieldsReady,
       merchantVars
  <2>4. CASE PayerEdits(d) \/ PayerLeaves(d) \/ VisitIssuer(d)
    BY <2>4 DEF PayerEdits, EditDetails, PayerLeaves, VisitIssuer, Leave, merchantVars
  <2> QED BY <1>1, <2>1, <2>2, <2>3, <2>4 DEF PageStep
<1>2. ASSUME NEW i \in Attempts, AttemptStep(i) PROVE Still \/ HearPay(i)
  <2>1. attempt[i].doc # None /\ attempt[i].waits # "nothing" =>
          /\ attempt[i].doc \in Docs
          /\ attempt[i].doc \in rearmed \/ poll[attempt[i].doc].loop = "off"
    BY DEF PaymentInv, AttemptTypeOK, AttemptStates, ButtonInv, PressHoldsButton, WaitsOn, Busy
  <2>2. ASSUME NEW d \in Docs, PressPay(i, d) PROVE Still
    <3>1. d \in rearmed \/ poll[d].loop = "off"
      BY <2>2 DEF PressPay, Submit, ButtonInv, PageFits, InOrder
    <3> QED BY <2>2, <3>1 DEF PressPay, Submit, merchantVars, PaymentInv, PageInv, PageTypeOK
  <2>3. CASE HearTokenError(i) \/ LoseToken(i) \/ LosePay(i)
    <3>1. PICK d \in Docs: /\ d \in rearmed \/ poll[d].loop = "off"
                          /\ panel' = [panel EXCEPT ![d] = "hidden"]
      BY <2>1, <2>3 DEF HearTokenError, LoseToken, LosePay, ShowError, PayLost, Waiting, HideStatusPanel
    <3>2. UNCHANGED <<orderOf, poll, statusReply>>
      BY <2>3 DEF HearTokenError, LoseToken, LosePay, ShowError, PayLost, merchantVars
    <3> QED BY <3>1, <3>2 DEF PaymentInv, PageInv, PageTypeOK
  <2>4. CASE TokenizeCard(i)
    BY <2>4 DEF TokenizeCard, pageVars, merchantVars
  <2>5. CASE HearToken(i)
    BY <2>5 DEF HearToken, PostPay, pageVars
  <2>6. CASE ServerHandlesPay(i) \/ MakeSale(i) \/ ServerAnswersPay(i)
    BY <2>6 DEF ServerHandlesPay, HandlePay, MakeSale, SaleDone, ServerAnswersPay, AnswerPay,
       FailPay, pageVars
  <2> QED BY <1>2, <2>2, <2>3, <2>4, <2>5, <2>6 DEF AttemptStep
<1>3. CASE \/ \E o \in OrderIds: Decide(o)
           \/ \E s \in Scenarios: ChooseScenario(s)
           \/ UNCHANGED vars
  BY <1>3 DEF Decide, ChooseScenario, vars, pageVars, merchantVars
<1> QED BY <1>1, <1>2, <1>3 DEF Next

(* A page learns of its order from the answer to its own call, or from a   *)
(* return that was signed for it.                                          *)
LEMMA PagesStepInv ==
  ASSUME PaymentInv, ButtonInv, [Next]_vars, FollowInv
  PROVE  PagesKnowTheirOrder'
<1> USE DEF FollowInv
<1>1. /\ \A d \in Docs: Loaded(d) => Loaded(d)'
      /\ \A d \in Docs: Loaded(d) => ticket'[d] = ticket[d]
  BY StepOfPage, LoadedIsKept DEF PaymentInv, PageInv, Loaded
<1> DEFINE Own(ref, d) ==
             \/ /\ order[ref.order].client = ref.client
                /\ ticket[d] # None => tokenTicket[order[ref.order].token] = ticket[d]
             \/ Collided(ref.order)
<1>2. ASSUME NEW ref, NEW d \in Docs, ref.order \in OrderIds, Known(ref.order),
             Loaded(d) \/ ticket'[d] = ticket[d], Own(ref, d)
      PROVE  Known(ref.order)' /\ Own(ref, d)'
  <2>1. PICK o \in OrderIds: o = ref.order
    BY <1>2
  <2>2. order[o].token \in Tokens /\ tokenTicket[order[o].token] # None
    BY <1>2, <2>1 DEF PaymentInv, GatewayInv, OrderFollowsToken
  <2>3. tokenTicket'[order[o].token] = tokenTicket[order[o].token]
    BY <2>2, StepOfGateway, TokenKeepsTicket DEF PaymentInv, GatewayInv
  <2>4. ticket'[d] = ticket[d]
    BY <1>1, <1>2
  <2>5. /\ Known(o)'
        /\ \/ order'[o].client = order[o].client /\ order'[o].token = order[o].token
           \/ Collided(o)'
    BY <1>2, <2>1, OrderIsKept
  <2>6. Collided(o) => Collided(o)'
    BY CollidedStays
  <2>7. (Known(ref.order)' <=> Known(o)') /\ (Collided(ref.order)' <=> Collided(o)')
    BY <2>1 DEF Known, Collided
  <2> QED BY <1>2, <2>1, <2>3, <2>4, <2>5, <2>6, <2>7 DEF Collided
<1>3. ASSUME NEW d \in Docs, orderOf'[d] = orderOf[d], orderOf[d].order # None
      PROVE  Loaded(d)' /\ Known(orderOf[d].order)' /\ Own(orderOf[d], d)'
  <2>1. PICK ref: ref = orderOf[d]
    OBVIOUS
  <2>2. ref.order \in OrderIds
    BY <1>3, <2>1 DEF PaymentInv, PageInv, PageTypeOK, OrderRef
  <2>3. Loaded(d) /\ Known(ref.order) /\ Own(ref, d)
    BY <1>3, <2>1 DEF PagesKnowTheirOrder
  <2>4. Known(ref.order)' /\ Own(ref, d)'
    BY <1>2, <2>2, <2>3
  <2> QED BY <1>1, <1>3, <2>1, <2>3, <2>4 DEF Known, Collided
<1>4. ASSUME UNCHANGED orderOf PROVE PagesKnowTheirOrder'
  BY <1>3, <1>4 DEF PagesKnowTheirOrder
<1>5. ASSUME NEW d \in Docs, NEW ref, orderOf' = [orderOf EXCEPT ![d] = ref],
             ref.order # None => /\ ref.order \in OrderIds /\ Known(ref.order) /\ Own(ref, d)
                                 /\ ticket'[d] = ticket[d] /\ Loaded(d)'
      PROVE  PagesKnowTheirOrder'
  <2>1. orderOf'[d] = ref /\ \A c \in Docs: c # d => orderOf'[c] = orderOf[c]
    BY <1>5 DEF PaymentInv, PageInv, PageTypeOK
  <2>2. ref.order # None => Loaded(d)' /\ Known(ref.order)' /\ Own(ref, d)'
    BY <1>2, <1>5
  <2>3. ASSUME NEW c \in Docs, orderOf'[c].order # None
        PROVE  Loaded(c)' /\ Known(orderOf[c].order)' /\ Own(orderOf[c], c)'
    <3>1. CASE c # d
      BY <1>3, <2>1, <2>3, <3>1
    <3>2. CASE c = d
      BY <2>1, <2>2, <2>3, <3>2 DEF Known, Collided
    <3> QED BY <3>1, <3>2
  <2> QED BY <2>3 DEF PagesKnowTheirOrder
<1>6. ASSUME NEW d \in Docs, ReadStatus(d) \/ FailStatus(d) \/ PageHearsStatus(d)
                             \/ PageLosesStatus(d) \/ PollAgain(d)
      PROVE  PagesKnowTheirOrder'
  BY <1>4, <1>6 DEF ReadStatus, FailStatus, PageHearsStatus, PageLosesStatus, PollAgain, HearStatus,
     LoseStatus, TimerFires, pageVars
<1>7. ASSUME NEW d \in Docs, ShowResult(d) PROVE PagesKnowTheirOrder'
  <2>1. CASE ResultConfigLost(d)
    BY <1>4, <2>1 DEF ResultConfigLost
  <2>2. ASSUME NEW ref \in callbacks \cup {NoOrderRef}, OpenResult(d, ref) PROVE PagesKnowTheirOrder'
    <3>1. /\ stage[d] = "closed" /\ stage' = [stage EXCEPT ![d] = "result"] /\ ticket' = ticket
          /\ orderOf' = [orderOf EXCEPT ![d] = ref]
      BY <2>2 DEF OpenResult
    <3>2. Loaded(d)' /\ ticket[d] = None
      BY <3>1 DEF Loaded, PaymentInv, PageInv, PageTypeOK, NoTicketYet
    <3>3. ref.order # None => /\ ref.order \in OrderIds /\ Known(ref.order)
                              /\ (order[ref.order].client = ref.client \/ Collided(ref.order))
      BY DEF NoOrderRef, ReturnsKnowTheirOrder, PaymentInv, AttemptTypeOK, RealOrder
    <3> QED BY <1>5, <3>1, <3>2, <3>3
  <2> QED BY <1>7, <2>1, <2>2 DEF ShowResult
<1>8. ASSUME NEW i \in Attempts, HearPay(i) PROVE PagesKnowTheirOrder'
  <2> DEFINE ref == [order |-> payCall[i].order, client |-> payCall[i].client]
  <2>1. attempt[i].doc # None /\ attempt[i].doc \in Docs
    BY <1>8 DEF HearPay, Waiting, PaymentInv, AttemptTypeOK, AttemptStates
  <2>2. CASE PayRefused(attempt[i].doc)
    BY <1>4, <2>2 DEF PayRefused
  <2>3. CASE payCall[i].answer = "order" /\ PayAccepted(attempt[i].doc, ref)
    <3>1. payCall[i].sale = "made" /\ payCall[i].order \in OrderIds /\ payCall[i].token # None
      BY <2>3 DEF PaymentInv, MerchantInv, MerchantTypeOK, CallProgress, PayCalls
    <3>2. payCall[i].token = attempt[i].reply.token
      BY <3>1 DEF PaymentInv, PostedIsOwn, Posted
    <3>3. tokenTicket[payCall[i].token] = ticket[attempt[i].doc]
      BY <3>1, <3>2 DEF PaymentInv, TokenIsOwn
    <3>4. /\ Known(payCall[i].order)
          /\ \/ /\ order[payCall[i].order].client = payCall[i].client
                /\ order[payCall[i].order].token = payCall[i].token
             \/ Collided(payCall[i].order)
      BY <3>1 DEF CallsKnowTheirOrder
    <3>5. /\ stage[attempt[i].doc] = "form" /\ UNCHANGED <<stage, ticket>>
          /\ orderOf' = [orderOf EXCEPT ![attempt[i].doc] = ref]
      BY <2>3 DEF PayAccepted
    <3>6. PICK d \in Docs: d = attempt[i].doc
      BY <2>1
    <3>7. PICK new: new = ref
      OBVIOUS
    <3>8. new.order = payCall[i].order /\ new.client = payCall[i].client
      BY <3>7
    <3>9. Loaded(d)'
      BY <3>5, <3>6 DEF Loaded
    <3>10. orderOf' = [orderOf EXCEPT ![d] = new]
      BY <3>5, <3>6, <3>7
    <3>11. /\ new.order \in OrderIds /\ Known(new.order) /\ ticket'[d] = ticket[d]
      BY <3>1, <3>4, <3>5, <3>8 DEF Known
    <3>12. Own(new, d)
      BY <3>3, <3>4, <3>6, <3>8 DEF Collided
    <3> QED BY <1>5, <3>9, <3>10, <3>11, <3>12
  <2> QED BY <1>8, <2>2, <2>3 DEF HearPay
<1> QED BY <1>4, <1>6, <1>7, <1>8, StepOfFollowing DEF Still

-----------------------------------------------------------------------------
(* The tickets of the pages. *)

(* Only the page's own /config.js gives it a ticket. *)
LEMMA StepOfTicket ==
  ASSUME [Next]_vars
  PROVE  \/ UNCHANGED ticket
         \/ \E d \in Docs: FailConfig(d) \/ \E t \in Tickets: ServeConfig(d, t)
<1>1. ASSUME NEW d \in Docs, PageStep(d)
      PROVE  UNCHANGED ticket \/ FailConfig(d) \/ \E t \in Tickets: ServeConfig(d, t)
  <2>1. CASE LoadPage(d)
    BY <2>1 DEF LoadPage, OpenCheckout, ConfigLost, ScriptLoads, ScriptFails, FieldsReady
  <2>2. CASE PayerEdits(d) \/ PayerLeaves(d) \/ VisitIssuer(d)
    BY <2>2 DEF PayerEdits, EditDetails, PayerLeaves, VisitIssuer, Leave
  <2>3. CASE ReadStatus(d) \/ FailStatus(d) \/ PageHearsStatus(d) \/ PageLosesStatus(d) \/ PollAgain(d)
    BY <2>3 DEF ReadStatus, FailStatus, PageHearsStatus, PageLosesStatus, PollAgain, HearStatus,
       LoseStatus, TimerFires, pageVars
  <2>4. CASE ShowResult(d)
    BY <2>4 DEF ShowResult, OpenResult, ResultConfigLost
  <2> QED BY <1>1, <2>1, <2>2, <2>3, <2>4 DEF PageStep
<1>2. ASSUME NEW i \in Attempts, AttemptStep(i) PROVE UNCHANGED ticket
  <2>1. ASSUME NEW d \in Docs, PressPay(i, d) PROVE UNCHANGED ticket
    BY <2>1 DEF PressPay, Submit
  <2>2. CASE HearTokenError(i) \/ LoseToken(i) \/ LosePay(i)
    BY <2>2 DEF HearTokenError, LoseToken, LosePay, ShowError, PayLost
  <2>3. CASE HearPay(i)
    BY <2>3 DEF HearPay, PayAccepted, PayRefused
  <2>4. CASE TokenizeCard(i) \/ HearToken(i) \/ ServerHandlesPay(i) \/ MakeSale(i)
             \/ ServerAnswersPay(i)
    BY <2>4 DEF TokenizeCard, HearToken, ServerHandlesPay, MakeSale, ServerAnswersPay, pageVars
  <2> QED BY <1>2, <2>1, <2>2, <2>3, <2>4 DEF AttemptStep
<1>3. CASE \/ \E o \in OrderIds: Decide(o)
           \/ \E s \in Scenarios: ChooseScenario(s)
           \/ UNCHANGED vars
  BY <1>3 DEF Decide, ChooseScenario, vars, pageVars
<1> QED BY <1>1, <1>2, <1>3 DEF Next

(* The text of a ticket is never given to another one. *)
LEMMA TicketKeepsName ==
  ASSUME GatewayTypeOK, [GatewayNext]_gatewayVars, NEW t \in Tickets, ticketName[t] # None
  PROVE  ticketName'[t] = ticketName[t]
<1>1. ASSUME NEW u \in Tickets, NEW reply, CreateEphemeralTicket(u, reply)
      PROVE  ticketName'[t] = ticketName[t]
  BY <1>1 DEF CreateEphemeralTicket, GatewayTypeOK
<1>2. ASSUME NEW u, NEW card, NEW reply, Tokenize(u, card, reply) PROVE UNCHANGED ticketName
  BY <1>2 DEF Tokenize, MintToken, gatewayVars
<1>3. ASSUME NEW j, NEW a, NEW c, NEW x, NEW reply, Sale(j, a, c, x, reply)
      PROVE  UNCHANGED ticketName
  BY <1>3 DEF Sale, CreateOrder, gatewayVars
<1>4. CASE \/ Reset
           \/ \E s \in Scenarios: SetScenario(s)
           \/ \E o \in OrderIds: ChallengePage(o) \/ BankDecides(o)
           \/ UNCHANGED gatewayVars
  BY <1>4 DEF Reset, SetScenario, ChallengePage, BankDecides, gatewayVars
<1> QED BY <1>1, <1>2, <1>3, <1>4 DEF GatewayNext

(* A page is given a ticket whose name nobody has yet. *)
LEMMA TicketStepInv ==
  ASSUME PaymentInv, [Next]_vars, FollowInv
  PROVE  TicketIsOwn'
<1> USE DEF FollowInv, TicketIsOwn
<1>2. \A t \in Tickets: ticketName[t] # None => ticketName'[t] # None
  BY StepOfGateway, TicketKeepsName DEF PaymentInv, GatewayInv
<1>3. \A d \in Docs: ticket[d] # None => ticket[d] \in Tickets
  BY DEF PaymentInv, PageInv, PageTypeOK
<1>4. ASSUME \A d \in Docs: ticket'[d] # None => ticket'[d] = ticket[d] PROVE TicketIsOwn'
  BY <1>2, <1>3, <1>4
<1>5. ASSUME NEW d \in Docs, NEW t \in Tickets, ServeConfig(d, t) PROVE TicketIsOwn'
  <2>1. PICK reply \in {t, None}: CreateEphemeralTicket(t, reply) /\ ConfigArrives(d, reply)
    BY <1>5 DEF ServeConfig
  <2>2. /\ ticket'[d] = reply /\ \A e \in Docs: e # d => ticket'[e] = ticket[e]
    BY <2>1 DEF ConfigArrives, PaymentInv, PageInv, PageTypeOK
  <2>3. ticketName[t] = None /\ ticketName'[t] # None
    BY <2>1, GatewayAssumption DEF CreateEphemeralTicket, PaymentInv, GatewayInv, GatewayTypeOK
  <2>4. \A e \in Docs: ticket[e] # t
    BY <2>3, DomainsAssumption
  <2> QED BY <1>2, <1>3, <2>2, <2>3, <2>4
<1>6. ASSUME NEW d \in Docs, FailConfig(d) PROVE TicketIsOwn'
  BY <1>4, <1>6 DEF FailConfig, ConfigArrives, PaymentInv, PageInv, PageTypeOK
<1> QED BY <1>4, <1>5, <1>6, StepOfTicket

(* Only a page that knows of no visit to the issuer goes there, and one    *)
(* without a ticket is the return page, which knows of it.                 *)
LEMMA IssuerStepInv ==
  ASSUME PaymentInv, [Next]_vars, FollowInv
  PROVE  NoTicketNoIssuer'
<1> USE DEF PaymentInv, PageInv, PageTypeOK
<1>1. ASSUME NEW d \in Docs, ticket'[d] = None, ticket[d] # None PROVE FALSE
  <2>1. stage[d] = "config"
    BY <1>1, StepOfPage, LoadedIsKept
  <2> QED BY <1>1, <2>1 DEF NoTicketYet
<1> DEFINE Ok(p) == p.loop = "off" \/ (p.redirected /\ p.loop # "sent")
<1>2. ASSUME NEW e \in Docs, NEW p, poll' = [poll EXCEPT ![e] = p],
             ticket[e] = None /\ Ok(poll[e]) => Ok(p)
      PROVE  NoTicketNoIssuer'
  BY <1>1, <1>2 DEF FollowInv, NoTicketNoIssuer
<1>3. ASSUME UNCHANGED poll PROVE NoTicketNoIssuer'
  BY <1>1, <1>3 DEF FollowInv, NoTicketNoIssuer
<1>4. ASSUME NEW e \in Docs, NEW r \in AnyReply, HearStatus(e, r) PROVE NoTicketNoIssuer'
  <2>1. r.status \in FinalStatuses \cup {"processing", "none"} /\ poll[e] \in Polls
    BY DEF AnyReply
  <2>2. poll[e].loop = "asking" /\ poll' = [poll EXCEPT ![e] = Heard(poll[e], r)]
    BY <1>4 DEF HearStatus
  <2>3. poll[e].redirected => Ok(Heard(poll[e], r))
    <3>1. CASE Heard(poll[e], r) = [poll[e] EXCEPT !.loop = "told"]
      BY <2>1, <3>1 DEF Polls
    <3>2. CASE ToIssuer(poll[e], r)
      BY <3>2 DEF ToIssuer
    <3>3. CASE Heard(poll[e], r) = [poll[e] EXCEPT !.loop = "sleeping"]
      BY <2>1, <3>3 DEF Polls
    <3> HIDE DEF Ok, PaymentInv, PageInv, PageTypeOK
    <3> QED BY <2>1, <3>1, <3>2, <3>3, ReplyBranches
  <2> QED BY <1>2, <2>2, <2>3
<1>5. ASSUME NEW e \in Docs, LoseStatus(e) \/ TimerFires(e) PROVE NoTicketNoIssuer'
  <2>1. PICK p: /\ poll' = [poll EXCEPT ![e] = p] /\ p.redirected = poll[e].redirected
                /\ p.loop # "sent" /\ poll[e].loop # "off"
    <3>1. GaveUp(poll[e]).redirected = poll[e].redirected /\ GaveUp(poll[e]).loop = "told"
      BY DEF GaveUp, Polls
    <3>2. Again(poll[e]).redirected = poll[e].redirected /\ Again(poll[e]).loop = "asking"
      BY DEF Again, Polls
    <3> QED BY <1>5, <3>1, <3>2 DEF LoseStatus, TimerFires
  <2> QED BY <1>2, <2>1
<1>6. ASSUME NEW e \in Docs, NEW ref, PayAccepted(e, ref) PROVE NoTicketNoIssuer'
  <2>1. ticket[e] # None
    BY <1>6, DomainsAssumption DEF PayAccepted, PageHasTicket
  <2> QED BY <1>2, <1>6, <2>1 DEF PayAccepted
<1>7. ASSUME NEW e \in Docs, NEW ref, OpenResult(e, ref) PROVE NoTicketNoIssuer'
  BY <1>2, <1>3, <1>7 DEF OpenResult, Started
<1> HIDE DEF Ok, PaymentInv, PageInv, PageTypeOK
<1>8. CASE UNCHANGED pageVars
  BY <1>3, <1>8 DEF pageVars
<1>9. ASSUME NEW e \in Docs, PageNext(e) PROVE NoTicketNoIssuer'
  BY <1>3, <1>4, <1>5, <1>6, <1>7, <1>9
     DEF PageNext, OpenCheckout, ConfigLost, ScriptLoads, ScriptFails, FieldsReady, ConfigArrives,
         EditDetails, Submit, ShowError, PayRefused, PayLost, ResultConfigLost, Leave
<1> QED BY <1>8, <1>9, StepOfPage

-----------------------------------------------------------------------------
(* An answer may be old by the time it is shown, but a verdict in it still *)
(* stands, and the page still follows the order it was asked about.        *)
LEMMA TruthStepInv ==
  ASSUME PaymentInv, ButtonInv, [Next]_vars, FollowInv
  PROVE  AnswerIsTrue' /\ PanelIsTrue'
<1> DEFINE AnswerOf(d) == statusReply[d] # None =>
             /\ poll[d].loop = "asking"
             /\ statusReply[d].status \in Verdicts =>
                  \/ StatusReply(orderOf[d].order).status = statusReply[d].status
                  \/ Collided(orderOf[d].order)
           PanelOk(d) == panel[d] \in Verdicts =>
             /\ poll[d].loop # "off"
             /\ StatusReply(orderOf[d].order).status = panel[d] \/ Collided(orderOf[d].order)
<1>1. \A d \in Docs: AnswerOf(d) /\ PanelOk(d)
  BY DEF FollowInv, AnswerIsTrue, PanelIsTrue
<1>2. ASSUME NEW d \in Docs, orderOf'[d] = orderOf[d], poll[d].loop # "off", NEW v \in Verdicts,
             StatusReply(orderOf[d].order).status = v \/ Collided(orderOf[d].order)
      PROVE  (StatusReply(orderOf[d].order).status = v \/ Collided(orderOf[d].order))'
  <2>1. PICK o \in OrderIds: o = orderOf[d].order
    BY <1>2 DEF PaymentInv, PageInv, FollowsAnOrder
  <2>2. StatusReply(o)'.status = v \/ Collided(o)'
    BY <1>2, <2>1, VerdictIsKept, CollidedStays
  <2>3. StatusReply(orderOf[d].order)' = StatusReply(o)' /\ (Collided(orderOf[d].order)' <=> Collided(o)')
    BY <1>2, <2>1 DEF StatusReply, Known, Collided
  <2> QED BY <2>2, <2>3
<1>3. ASSUME NEW d \in Docs, orderOf'[d] = orderOf[d], poll'[d].loop = poll[d].loop,
             statusReply'[d] = statusReply[d], panel'[d] \in Verdicts => panel'[d] = panel[d]
      PROVE  AnswerOf(d)' /\ PanelOk(d)'
  <2>1. AnswerOf(d) /\ PanelOk(d)
    BY <1>1
  <2> QED BY <1>2, <1>3, <2>1
<1>4. (\A d \in Docs: AnswerOf(d)' /\ PanelOk(d)') => AnswerIsTrue' /\ PanelIsTrue'
  BY DEF AnswerIsTrue, PanelIsTrue
<1>5. ASSUME Still PROVE AnswerIsTrue' /\ PanelIsTrue'
  BY <1>3, <1>4, <1>5 DEF Still
<1>6. ASSUME NEW d \in Docs,
             \A c \in Docs: c # d =>
               /\ orderOf'[c] = orderOf[c] /\ poll'[c] = poll[c]
               /\ statusReply'[c] = statusReply[c] /\ panel'[c] = panel[c],
             AnswerOf(d)' /\ PanelOk(d)'
      PROVE  AnswerIsTrue' /\ PanelIsTrue'
  BY <1>3, <1>4, <1>6
<1> USE DEF PaymentInv, PageInv, PageTypeOK, MerchantInv, MerchantTypeOK
<1>7. ASSUME NEW d \in Docs, ReadStatus(d) \/ FailStatus(d) PROVE AnswerIsTrue' /\ PanelIsTrue'
  <2>1. PICK r: /\ statusReply' = [statusReply EXCEPT ![d] = r] /\ poll[d].loop = "asking"
                /\ r.status \in Verdicts => r = StatusReply(orderOf[d].order)
    BY <1>7 DEF ReadStatus, FailStatus, AnswerStatus, FailureReply, Verdicts
  <2>2. UNCHANGED <<orderOf, poll, panel>>
    BY <1>7 DEF ReadStatus, FailStatus, pageVars
  <2>3. PanelOk(d)'
    BY <1>1, <1>2, <2>2
  <2>4. AnswerOf(d)'
    BY <1>2, <2>1, <2>2
  <2> HIDE DEF AnswerOf, PanelOk
  <2> QED BY <1>6, <2>1, <2>2, <2>3, <2>4
<1>8. ASSUME NEW d \in Docs, PageHearsStatus(d) PROVE AnswerIsTrue' /\ PanelIsTrue'
  <2>1. /\ statusReply[d] # None /\ poll[d].loop = "asking"
        /\ poll' = [poll EXCEPT ![d] = Heard(poll[d], statusReply[d])]
        /\ panel' = [panel EXCEPT ![d] = PanelAfter(poll[d], statusReply[d])]
        /\ statusReply' = [statusReply EXCEPT ![d] = None] /\ UNCHANGED orderOf
    BY <1>8 DEF PageHearsStatus, HearStatus, ForgetStatus
  <2>2. statusReply[d].status \in FinalStatuses \cup {"processing", "none"} /\ poll[d] \in Polls
    BY <2>1 DEF Replies, FinalStatuses
  <2>3. Heard(poll[d], statusReply[d]).loop # "off"
    <3>1. CASE Heard(poll[d], statusReply[d]) = [poll[d] EXCEPT !.loop = "told"]
      BY <2>2, <3>1 DEF Polls
    <3>2. CASE Heard(poll[d], statusReply[d]) = [poll[d] EXCEPT !.loop = "sent", !.redirected = TRUE]
      BY <2>2, <3>2 DEF Polls
    <3>3. CASE Heard(poll[d], statusReply[d]) = [poll[d] EXCEPT !.loop = "sleeping"]
      BY <2>2, <3>3 DEF Polls
    <3> HIDE DEF PaymentInv, PageInv, PageTypeOK, MerchantInv, MerchantTypeOK
    <3> QED BY <2>2, <3>1, <3>2, <3>3, ReplyBranches
  <2>4. PanelAfter(poll[d], statusReply[d]) \in Verdicts
          => PanelAfter(poll[d], statusReply[d]) = statusReply[d].status
    BY <2>2 DEF PanelAfter, PanelOf, Verdicts
  <2>5. PanelOk(d)'
    BY <1>1, <1>2, <2>1, <2>3, <2>4
  <2>6. AnswerOf(d)'
    BY <2>1
  <2> HIDE DEF AnswerOf, PanelOk
  <2> QED BY <1>6, <2>1, <2>5, <2>6
<1>9. ASSUME NEW d \in Docs, PageLosesStatus(d) PROVE AnswerIsTrue' /\ PanelIsTrue'
  <2>1. /\ panel' = [panel EXCEPT ![d] = "error"] /\ statusReply' = [statusReply EXCEPT ![d] = None]
        /\ UNCHANGED orderOf /\ \A c \in Docs: c # d => poll'[c] = poll[c]
    BY <1>9 DEF PageLosesStatus, LoseStatus, ForgetStatus
  <2>2. AnswerOf(d)' /\ PanelOk(d)'
    BY <2>1 DEF Verdicts
  <2> HIDE DEF AnswerOf, PanelOk
  <2> QED BY <1>6, <2>1, <2>2
<1>10. ASSUME NEW d \in Docs, PollAgain(d) PROVE AnswerIsTrue' /\ PanelIsTrue'
  <2>1. /\ poll[d].loop = "sleeping" /\ poll' = [poll EXCEPT ![d] = Again(poll[d])]
        /\ UNCHANGED <<orderOf, panel, statusReply>>
    BY <1>10 DEF PollAgain, TimerFires, merchantVars
  <2>2. Again(poll[d]).loop = "asking"
    BY DEF Again, Polls
  <2>3. AnswerOf(d)'
    BY <1>1, <2>1
  <2>4. PanelOk(d)'
    BY <1>1, <1>2, <2>1, <2>2
  <2> HIDE DEF AnswerOf, PanelOk
  <2> QED BY <1>6, <2>1, <2>3, <2>4
<1>11. ASSUME NEW d \in Docs, poll[d].loop = "off",
              \A c \in Docs: c # d => orderOf'[c] = orderOf[c] /\ poll'[c] = poll[c]
                                      /\ panel'[c] = panel[c],
              panel'[d] \in {panel[d], "error", "hidden"}, UNCHANGED statusReply
       PROVE  AnswerIsTrue' /\ PanelIsTrue'
  <2>1. statusReply[d] = None /\ panel[d] \notin Verdicts
    BY <1>1, <1>11
  <2>2. AnswerOf(d)' /\ PanelOk(d)'
    BY <1>11, <2>1 DEF Verdicts
  <2> HIDE DEF AnswerOf, PanelOk
  <2> QED BY <1>6, <1>11, <2>2
<1>12. ASSUME NEW d \in Docs, ShowResult(d) PROVE AnswerIsTrue' /\ PanelIsTrue'
  <2>1. CASE ResultConfigLost(d)
    BY <1>5, <1>12, <2>1 DEF ResultConfigLost, ShowResult, Still, merchantVars
  <2>2. ASSUME NEW ref, OpenResult(d, ref) PROVE AnswerIsTrue' /\ PanelIsTrue'
    <3>1. poll[d].loop = "off"
      BY <2>2 DEF OpenResult, FollowsAnOrder
    <3> QED BY <1>11, <1>12, <2>2, <3>1 DEF OpenResult, ShowResult, merchantVars
  <2> QED BY <1>12, <2>1, <2>2 DEF ShowResult
<1>13. ASSUME NEW i \in Attempts, HearPay(i) PROVE AnswerIsTrue' /\ PanelIsTrue'
  <2>1. PICK d \in Docs: d = attempt[i].doc
    BY <1>13 DEF HearPay, Waiting, AttemptTypeOK, AttemptStates
  <2>2. poll[d].loop = "off" /\ UNCHANGED statusReply
    BY <1>13, <2>1, NoLoopYet DEF HearPay, merchantVars
  <2>3. CASE PayRefused(d)
    BY <1>11, <2>2, <2>3 DEF PayRefused, HideStatusPanel
  <2>4. ASSUME NEW ref, PayAccepted(d, ref) PROVE AnswerIsTrue' /\ PanelIsTrue'
    BY <1>11, <2>2, <2>4 DEF PayAccepted
  <2> QED BY <1>13, <2>1, <2>3, <2>4 DEF HearPay
<1> HIDE DEF PaymentInv, PageInv, PageTypeOK, MerchantInv, MerchantTypeOK
<1> QED BY <1>5, <1>7, <1>8, <1>9, <1>10, <1>12, <1>13, StepOfFollowing

-----------------------------------------------------------------------------
(* Everything about an order followed, whatever ids the gateway draws.     *)
THEOREM FollowInvariant == Spec => [](PaymentInv /\ ButtonInv /\ FollowInv)
<1>1. Init => PaymentInv /\ ButtonInv /\ FollowInv
  BY PaymentInitInv, ButtonInitInv, FollowInitInv
<1>2. PaymentInv /\ ButtonInv /\ FollowInv /\ [Next]_vars => (PaymentInv /\ ButtonInv /\ FollowInv)'
  <2> SUFFICES ASSUME PaymentInv, ButtonInv, FollowInv, [Next]_vars
               PROVE  (PaymentInv /\ ButtonInv /\ FollowInv)'
    OBVIOUS
  <2>1. PaymentInv' /\ ButtonInv'
    BY PaymentStepInv, ButtonStepInv
  <2>2. CallsKnowTheirOrder' /\ ReturnsKnowTheirOrder' /\ PagesKnowTheirOrder'
    BY CallsStepInv, ReturnsStepInv, PagesStepInv
  <2>3. TicketIsOwn' /\ NoTicketNoIssuer' /\ AnswerIsTrue' /\ PanelIsTrue'
    BY TicketStepInv, IssuerStepInv, TruthStepInv
  <2> QED BY <2>1, <2>2, <2>3 DEF FollowInv
<1> QED BY <1>1, <1>2, PTL DEF Spec

(* A page follows its own order, on either side of the issuer, unless      *)
(* state.ts:62 has given the id of that order to a second sale.            *)
THEOREM OrderIsOwn == Spec => []FollowsOwnOrder
<1>1. FollowInv => FollowsOwnOrder
  BY DEF FollowInv, PagesKnowTheirOrder, FollowsOwnOrder
<1> QED BY <1>1, FollowInvariant, PTL

(* A verdict shown is the gateway's verdict on the order followed, unless  *)
(* two sales were given its id.                                            *)
THEOREM VerdictShownIsTrue == Spec => []VerdictIsTrue
<1>1. FollowInv => VerdictIsTrue
  BY DEF FollowInv, PanelIsTrue, Verdicts, VerdictIsTrue
<1> QED BY <1>1, FollowInvariant, PTL

(* status.js:32, "once": an order is taken to the issuer by one page, the  *)
(* one that was given the ticket it was paid with.                         *)
THEOREM IssuerIsVisitedOnce == Spec => []IssuerOnce
<1>1. PaymentInv /\ FollowInv => IssuerOnce
  <2> SUFFICES ASSUME PaymentInv, FollowInv, NEW d \in Docs, NEW e \in Docs,
                      poll[d].loop = "sent", poll[e].loop = "sent",
                      orderOf[d].order = orderOf[e].order, ~Collided(orderOf[d].order)
               PROVE  d = e
    BY DEF IssuerOnce
  <2>1. ticket[d] # None /\ ticket[e] # None
    BY DEF FollowInv, NoTicketNoIssuer
  <2>2. orderOf[d].order # None
    BY DomainsAssumption DEF PaymentInv, PageInv, FollowsAnOrder
  <2>3. ~Collided(orderOf[e].order)
    BY DEF Collided
  <2>4. ticket[d] = ticket[e]
    BY <2>1, <2>2, <2>3 DEF FollowInv, PagesKnowTheirOrder
  <2> QED BY <2>1, <2>4 DEF FollowInv, TicketIsOwn
<1> QED BY <1>1, FollowInvariant, PTL

(* The gateway takes no verdict back, so that a poller may stop at one,    *)
(* and the id of an order that has one is only ever reused with another    *)
(* token.                                                                  *)
THEOREM VerdictNeverChanges == Spec => VerdictSticks
<1>1. PaymentInv /\ [Next]_vars
        => [\A o \in OrderIds: StatusReply(o).status \in {"approved", "declined"} =>
              StatusReply(o)' = StatusReply(o) \/ order'[o].token # order[o].token]_vars
  BY VerdictIsKept DEF Verdicts
<1> QED BY <1>1, PaymentInvariant, PTL DEF Spec, VerdictSticks

-----------------------------------------------------------------------------
(* What the pages promise their payers. *)

WatchStep(d) ==
  \/ WatchOf(d)!WatchNext
  \/ UNCHANGED WatchOf(d)!watchVars
  \/ d \in rearmed /\ poll'[d] = poll[d]

(* A step that leaves a loop and what it shows alone changes no promise,   *)
(* nor does one that leaves the loop of a rearmed page alone.              *)
LEMMA QuietWatch ==
  ASSUME NEW d \in Docs, poll'[d] = poll[d],
         d \notin rearmed /\ poll[d].loop # "off" => panel'[d] = panel[d] /\ ticket'[d] = ticket[d]
  PROVE  WatchStep(d)
BY DEF WatchStep, WatchOf!watchVars

(* Every step of a checkout is a step of OrderWatch for each page, or none. *)
LEMMA PagesStepWatch ==
  ASSUME PaymentInv, ButtonInv, FollowInv, [Next]_vars, NEW d \in Docs
  PROVE  WatchStep(d)
<1> USE DEF PaymentInv, PageInv, PageTypeOK
<1>1. poll[d].loop # "off" => ticket'[d] = ticket[d]
  BY StepOfPage, LoadedIsKept DEF FollowsAnOrder
<1>2. poll[d] \in Polls
  OBVIOUS
<1> HIDE DEF PaymentInv, PageInv, PageTypeOK
<1>3. ASSUME poll'[d] = poll[d], d \notin rearmed /\ poll[d].loop # "off" => panel'[d] = panel[d]
      PROVE  WatchStep(d)
  BY <1>1, <1>3, QuietWatch
<1>4. CASE Still
  BY <1>3, <1>4 DEF Still
<1>5. ASSUME NEW e \in Docs, PageHearsStatus(e) PROVE WatchStep(d)
  <2>1. /\ statusReply[e] \in Replies /\ poll[e].loop = "asking"
        /\ poll' = [poll EXCEPT ![e] = Heard(poll[e], statusReply[e])]
        /\ panel' = [panel EXCEPT ![e] = PanelAfter(poll[e], statusReply[e])]
        /\ ticket' = ticket
    BY <1>5 DEF PageHearsStatus, HearStatus, PaymentInv, MerchantInv, MerchantTypeOK
  <2>2. CASE e # d
    BY <1>3, <2>1, <2>2
  <2>3. CASE e = d
    <3>1. PICK r \in Replies: r = statusReply[d]
      BY <2>1, <2>3
    <3>2. /\ poll[d].loop = "asking"
          /\ poll'[d] = Heard(poll[d], r) /\ panel'[d] = PanelAfter(poll[d], r)
      BY <2>1, <2>3, <3>1 DEF PaymentInv, PageInv, PageTypeOK
    <3>3. r.status \in FinalStatuses \cup {"processing", "none"}
      BY DEF Replies, FinalStatuses
    <3>4. CASE /\ Heard(poll[d], r) = [poll[d] EXCEPT !.loop = "told"]
               /\ PanelAfter(poll[d], r) \in FinalStatuses
      <4>1. poll'[d].loop = "told"
        BY <1>2, <3>2, <3>4 DEF Polls
      <4>2. WatchOf(d)!Tell
        BY <2>1, <3>2, <3>4, <4>1 DEF WatchOf!Tell
      <4> QED BY <4>2 DEF WatchStep, WatchOf!WatchNext
    <3>5. CASE /\ Heard(poll[d], r) = [poll[d] EXCEPT !.loop = "sent", !.redirected = TRUE]
               /\ PanelAfter(poll[d], r) \in FinalStatuses \cup {"processing"}
               /\ ~poll[d].redirected
      <4>1. poll'[d].loop = "sent" /\ ticket[d] # None
        BY <1>2, <3>2, <3>5 DEF Polls, FollowInv, NoTicketNoIssuer
      <4>2. WatchOf(d)!Escalate
        BY <2>1, <3>2, <3>5, <4>1 DEF WatchOf!Escalate
      <4> QED BY <4>2 DEF WatchStep, WatchOf!WatchNext
    <3>6. CASE /\ Heard(poll[d], r) = [poll[d] EXCEPT !.loop = "sleeping"]
               /\ PanelAfter(poll[d], r) = "processing"
      <4>1. poll'[d].loop = "sleeping"
        BY <1>2, <3>2, <3>6 DEF Polls
      <4>2. WatchOf(d)!Wait
        BY <2>1, <3>2, <3>6, <4>1 DEF WatchOf!Wait
      <4> QED BY <4>2 DEF WatchStep, WatchOf!WatchNext
    <3> QED
      BY <1>2, <3>3, <3>4, <3>5, <3>6, ReplyBranches DEF ToIssuer, IsFinal, FinalStatuses
  <2> QED BY <2>2, <2>3
<1>6. ASSUME NEW e \in Docs, PageLosesStatus(e) PROVE WatchStep(d)
  <2>1. /\ poll[e].loop = "asking" /\ poll' = [poll EXCEPT ![e] = GaveUp(poll[e])]
        /\ panel' = [panel EXCEPT ![e] = "error"] /\ ticket' = ticket
    BY <1>6 DEF PageLosesStatus, LoseStatus
  <2>2. CASE e # d
    BY <1>3, <2>1, <2>2
  <2>3. CASE e = d
    <3>1. poll'[d].loop = "told" /\ panel'[d] = "error"
      BY <1>2, <2>1, <2>3 DEF GaveUp, Polls, PaymentInv, PageInv, PageTypeOK
    <3>2. WatchOf(d)!Tell
      BY <2>1, <2>3, <3>1 DEF WatchOf!Tell, FinalStatuses
    <3> QED BY <3>2 DEF WatchStep, WatchOf!WatchNext
  <2> QED BY <2>2, <2>3
<1>7. ASSUME NEW e \in Docs, PollAgain(e) PROVE WatchStep(d)
  <2>1. /\ poll[e].loop = "sleeping" /\ poll' = [poll EXCEPT ![e] = Again(poll[e])]
        /\ UNCHANGED <<panel, ticket>>
    BY <1>7 DEF PollAgain, TimerFires
  <2>2. CASE e # d
    BY <1>3, <2>1, <2>2
  <2>3. CASE e = d
    <3>1. poll'[d].loop = "asking"
      BY <1>2, <2>1, <2>3 DEF Again, Polls, PaymentInv, PageInv, PageTypeOK
    <3> QED BY <2>1, <2>3, <3>1 DEF WatchStep, WatchOf!watchVars
  <2> QED BY <2>2, <2>3
<1>8. ASSUME NEW e \in Docs, ReadStatus(e) \/ FailStatus(e) PROVE WatchStep(d)
  BY <1>3, <1>8 DEF ReadStatus, FailStatus, pageVars
(* Only a page that follows no order begins to follow one. *)
<1>9. ASSUME poll[d].loop = "off", poll'[d].loop = "asking", panel'[d] \in {"hidden", "processing"}
      PROVE  WatchStep(d)
  <2>1. WatchOf(d)!Begin
    BY <1>9 DEF WatchOf!Begin
  <2> QED BY <2>1 DEF WatchStep, WatchOf!WatchNext
<1>10. ASSUME NEW e \in Docs, ShowResult(e) PROVE WatchStep(d)
  <2>1. CASE ResultConfigLost(e)
    BY <1>3, <2>1 DEF ResultConfigLost
  <2>2. ASSUME NEW ref, OpenResult(e, ref) PROVE WatchStep(d)
    <3>1. poll[e].loop = "off" /\ panel[e] = "hidden"
      BY <2>2 DEF OpenResult, ButtonInv, PageFits, Busy
    <3>2. CASE e # d \/ ref.order = None
      <4>1. poll'[d] = poll[d] /\ (poll[d].loop # "off" => panel'[d] = panel[d])
        BY <2>2, <3>1, <3>2 DEF OpenResult, PaymentInv, PageInv, PageTypeOK
      <4> QED BY <1>3, <4>1
    <3>3. CASE e = d /\ ref.order # None
      <4>1. poll'[d] = Started(TRUE) /\ panel'[d] = "hidden"
        BY <2>2, <3>1, <3>3 DEF OpenResult, PaymentInv, PageInv, PageTypeOK
      <4> QED BY <1>9, <3>1, <3>3, <4>1 DEF Started
    <3> QED BY <3>2, <3>3
  <2> QED BY <1>10, <2>1, <2>2 DEF ShowResult
<1>11. ASSUME NEW i \in Attempts, HearPay(i) PROVE WatchStep(d)
  <2>1. PICK e \in Docs: e = attempt[i].doc
    BY <1>11 DEF HearPay, Waiting, PaymentInv, AttemptTypeOK, AttemptStates
  <2>2. poll[e].loop = "off"
    BY <1>11, <2>1, NoLoopYet DEF HearPay
  <2>3. CASE PayRefused(e)
    BY <1>3, <2>2, <2>3 DEF PayRefused, HideStatusPanel, PaymentInv, PageInv, PageTypeOK
  <2>4. ASSUME NEW ref, PayAccepted(e, ref) PROVE WatchStep(d)
    <3>1. CASE e # d
      <4>1. poll'[d] = poll[d] /\ panel'[d] = panel[d]
        BY <2>4, <3>1 DEF PayAccepted, PaymentInv, PageInv, PageTypeOK
      <4> QED BY <1>3, <4>1
    <3>2. CASE e = d
      <4>1. poll'[d] = Started(FALSE) /\ panel'[d] = panel[d] /\ stage[d] = "form"
        BY <2>4, <3>2 DEF PayAccepted, PaymentInv, PageInv, PageTypeOK
      <4>2. panel[d] \in {"hidden", "processing"}
        BY <2>2, <3>2, <4>1 DEF ButtonInv, PageFits
      <4> QED BY <1>9, <2>2, <3>2, <4>1, <4>2 DEF Started
    <3> QED BY <3>1, <3>2
  <2> QED BY <1>11, <2>1, <2>3, <2>4 DEF HearPay
<1> QED BY <1>4, <1>5, <1>6, <1>7, <1>8, <1>10, <1>11, StepOfFollowing

(* Every page of a checkout keeps the safety half of OrderWatch, whoever   *)
(* else is at work on the same order, and every loop of a page that a      *)
(* field has rearmed.                                                      *)
THEOREM PagesKeepTheirWatch == Spec => PagesKeepWatch
<1>1. Init => \A d \in Docs: WatchOf(d)!WatchInit
  BY DEF Init, PageInit, NoPoll, WatchOf!WatchInit
<1>2. PaymentInv /\ ButtonInv /\ FollowInv /\ [Next]_vars
        => [\A d \in Docs: \/ WatchOf(d)!WatchNext
                           \/ UNCHANGED WatchOf(d)!watchVars
                           \/ d \in rearmed /\ poll'[d] = poll[d]]_vars
  BY PagesStepWatch DEF WatchStep
<1> QED BY <1>1, <1>2, FollowInvariant, PTL DEF Spec, PagesKeepWatch
=============================================================================
