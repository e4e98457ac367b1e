------------------------------ MODULE CheckoutPage ------------------------------
(***************************************************************************)
(* The browser half: shared/public/checkout.js on the payment page and     *)
(* shared/public/result.js on the 3DS return page.  A document is one page *)
(* load; a reload is another document.  Scripts run to completion, so each *)
(* event handler or promise callback is one action.  The inputs of an      *)
(* action (a reply, an error code, what the payer typed) are parameters.   *)
(*                                                                         *)
(* Field hints, wording, focus and styles are left out; the copy a panel   *)
(* or an error box shows is kept as its key.                               *)
(***************************************************************************)
EXTENDS PollLoop, Domains

VARIABLES
  stage,      \* how far the document has come
  ticket,     \* CONFIG.ephemeralTicket
  pay,        \* the Pay button: enabled exactly when "ready"
  formError,  \* kind of the message in #formError, "none" when empty
  panel,      \* key of the copy in #orderStatus, "hidden" when hidden
  details,    \* what the payer's own fields hold now
  orderOf,    \* orderId and clientOrderId the page follows
  poll,       \* the polling loop
  rearmed     \* history: pages whose dead or busy button a field made live

pageVars == <<stage, ticket, pay, formError, panel, details, orderOf, poll, rearmed>>

Stages == {"closed", "config", "broken", "script", "unusable", "fields", "form",
           "result", "gone"}
TerminalErrors == {"rejected", "spent", "unavailable"}
FormErrors == TerminalErrors \cup {"retry", "network"}
Buttons == TerminalErrors \cup {"preparing", "ready", "processing"}

PageTypeOK ==
  /\ stage \in [Docs -> Stages]
  /\ ticket \in [Docs -> Tickets \cup {None}]
  /\ pay \in [Docs -> Buttons]
  /\ formError \in [Docs -> FormErrors \cup {"none"}]
  /\ panel \in [Docs -> Panels]
  /\ details \in [Docs -> Details]
  /\ orderOf \in [Docs -> OrderRef]
  /\ poll \in [Docs -> Polls]
  /\ rearmed \subseteq Docs

(* The markup: a disabled "Preparing..." button, a hidden panel, no error. *)
PageInit ==
  /\ stage = [d \in Docs |-> "closed"]
  /\ ticket = [d \in Docs |-> None]
  /\ pay = [d \in Docs |-> "preparing"]
  /\ formError = [d \in Docs |-> "none"]
  /\ panel = [d \in Docs |-> "hidden"]
  /\ details \in [Docs -> Details]
  /\ orderOf = [d \in Docs |-> NoOrderRef]
  /\ poll = [d \in Docs |-> NoPoll]
  /\ rearmed = {}

-----------------------------------------------------------------------------
(* Loading the payment page. *)

OpenCheckout(d) ==
  /\ stage[d] = "closed"
  /\ stage' = [stage EXCEPT ![d] = "config"]
  /\ UNCHANGED <<ticket, pay, formError, panel, details, orderOf, poll, rearmed>>

(* showFormError(kind): the button comes back unless the kind is terminal. *)
ShowFormError(d, kind) ==
  /\ formError' = [formError EXCEPT ![d] = kind]
  /\ pay' = [pay EXCEPT ![d] = IF kind \in TerminalErrors THEN kind ELSE "ready"]

(* A bug: the panel stays open under an error. *)
KeepStatusPanel(d) == UNCHANGED panel

HideStatusPanel(d) == panel' = [panel EXCEPT ![d] = "hidden"]

(* /config.js ran and checkout.js after it.  Without a ticket the page is  *)
(* finished; with one it asks for the SDK bundle.                          *)
ConfigArrives(d, t) ==
  /\ stage[d] = "config"
  /\ ticket' = [ticket EXCEPT ![d] = t]
  /\ IF t = None
     THEN stage' = [stage EXCEPT ![d] = "unusable"] /\ ShowFormError(d, "unavailable")
     ELSE stage' = [stage EXCEPT ![d] = "script"] /\ UNCHANGED <<formError, pay>>
  /\ UNCHANGED <<panel, details, orderOf, poll, rearmed>>

(* /config.js did not load: CONFIG is undefined and checkout.js stops at   *)
(* its first use of it, setOrderSummary(), before it can show an error.    *)
ConfigLost(d) ==
  /\ stage[d] = "config"
  /\ stage' = [stage EXCEPT ![d] = "broken"]
  /\ UNCHANGED <<ticket, pay, formError, panel, details, orderOf, poll, rearmed>>

(* onHostedFieldsReady: HostedFields.init() mounts the card iframes. *)
ScriptLoads(d) ==
  /\ stage[d] = "script"
  /\ stage' = [stage EXCEPT ![d] = "fields"]
  /\ UNCHANGED <<ticket, pay, formError, panel, details, orderOf, poll, rearmed>>

ScriptFails(d) ==
  /\ stage[d] = "script"
  /\ stage' = [stage EXCEPT ![d] = "unusable"]
  /\ ShowFormError(d, "unavailable")
  /\ UNCHANGED <<ticket, panel, details, orderOf, poll, rearmed>>

(* checkout.js:429, onReady: setFormLoading(false).  The SDK calls it, at   *)
(* hosted-fields.js:83, when the last field says ready, and once more for  *)
(* every field that was loaded again: the button is live then, whatever it *)
(* was, and nothing else changes.                                          *)
FieldsReady(d) ==
  /\ stage[d] \in {"fields", "form"}
  /\ stage' = [stage EXCEPT ![d] = "form"]
  /\ pay' = [pay EXCEPT ![d] = "ready"]
  /\ rearmed' = IF stage[d] = "form" /\ pay[d] # "ready" THEN rearmed \cup {d} ELSE rearmed
  /\ UNCHANGED <<ticket, formError, panel, details, orderOf, poll>>

-----------------------------------------------------------------------------
(* Paying. *)

(* The inputs stay editable for as long as the form is there, also while a *)
(* payment is in flight.                                                   *)
EditDetails(d, x) ==
  /\ stage[d] = "form"
  /\ details' = [details EXCEPT ![d] = x]
  /\ UNCHANGED <<stage, ticket, pay, formError, panel, orderOf, poll, rearmed>>

(* A bug: the form submits with a disabled button. *)
SubmitAnyButton(d) ==
  /\ stage[d] = "form"
  /\ details[d] \in ValidDetails
  /\ pay' = [pay EXCEPT ![d] = "processing"]
  /\ formError' = [formError EXCEPT ![d] = "none"]
  /\ panel' = [panel EXCEPT ![d] = "processing"]
  /\ UNCHANGED <<stage, ticket, details, orderOf, poll, rearmed>>

(* submit: invalid details only write the field hints; valid ones put the  *)
(* page in flight (setPayInFlight), and sdk.tokenize follows.              *)
Submit(d) ==
  /\ stage[d] = "form"
  /\ pay[d] = "ready"
  /\ details[d] \in ValidDetails
  /\ pay' = [pay EXCEPT ![d] = "processing"]
  /\ formError' = [formError EXCEPT ![d] = "none"]
  /\ panel' = [panel EXCEPT ![d] = "processing"]
  /\ UNCHANGED <<stage, ticket, details, orderOf, poll, rearmed>>

(* showError: 4004 is a mistyped card, any other 4xxx a spent ticket, and  *)
(* the rest leaves the button live.                                        *)
KindOf(code) ==
  CASE code = 4004 -> "rejected"
    [] code \in 4000..4999 /\ code # 4004 -> "spent"
    [] code \notin 4000..4999 -> "retry"

ShowError(d, code) ==
  /\ stage[d] = "form"
  /\ ShowFormError(d, KindOf(code))
  /\ HideStatusPanel(d)
  /\ UNCHANGED <<stage, ticket, details, orderOf, poll, rearmed>>

(* The reply of POST /pay: without a paynet-order-id it is a refusal or a  *)
(* 502, with one it starts the polling loop.                               *)
PayRefused(d) ==
  /\ stage[d] = "form"
  /\ ShowFormError(d, "retry")
  /\ HideStatusPanel(d)
  /\ UNCHANGED <<stage, ticket, details, orderOf, poll, rearmed>>

PayAcceptedRevivesButton(d, ref) ==   \* a bug: the button comes back with the order
  /\ stage[d] = "form"
  /\ orderOf' = [orderOf EXCEPT ![d] = ref]
  /\ poll' = [poll EXCEPT ![d] = Started(FALSE)]
  /\ pay' = [pay EXCEPT ![d] = "ready"]
  /\ UNCHANGED <<stage, ticket, formError, panel, details, rearmed>>

PayAccepted(d, ref) ==
  /\ stage[d] = "form"
  /\ orderOf' = [orderOf EXCEPT ![d] = ref]
  /\ poll' = [poll EXCEPT ![d] = Started(FALSE)]
  /\ UNCHANGED <<stage, ticket, pay, formError, panel, details, rearmed>>

(* The fetch failed or its body was not JSON. *)
PayLost(d) ==
  /\ stage[d] = "form"
  /\ ShowFormError(d, "network")
  /\ HideStatusPanel(d)
  /\ UNCHANGED <<stage, ticket, details, orderOf, poll, rearmed>>

-----------------------------------------------------------------------------
(* Following the order, on either page. *)

Alive(d) == stage[d] \in {"form", "result"}

HearStatus(d, r) ==
  /\ Alive(d)
  /\ poll[d].loop = "asking"
  /\ poll' = [poll EXCEPT ![d] = Heard(@, r)]
  /\ panel' = [panel EXCEPT ![d] = PanelAfter(poll[d], r)]
  /\ UNCHANGED <<stage, ticket, pay, formError, details, orderOf, rearmed>>

LoseStatus(d) ==
  /\ Alive(d)
  /\ poll[d].loop = "asking"
  /\ poll' = [poll EXCEPT ![d] = GaveUp(@)]
  /\ panel' = [panel EXCEPT ![d] = "error"]
  /\ UNCHANGED <<stage, ticket, pay, formError, details, orderOf, rearmed>>

TimerFires(d) ==
  /\ Alive(d)
  /\ poll[d].loop = "sleeping"
  /\ poll' = [poll EXCEPT ![d] = Again(@)]
  /\ UNCHANGED <<stage, ticket, pay, formError, panel, details, orderOf, rearmed>>

(* A bug: the return page forgets that the payer has been to the issuer. *)
OpenResultBounces(d, ref) ==
  /\ stage[d] = "closed"
  /\ stage' = [stage EXCEPT ![d] = "result"]
  /\ orderOf' = [orderOf EXCEPT ![d] = ref]
  /\ IF ref.order # None
     THEN poll' = [poll EXCEPT ![d] = Started(FALSE)] /\ UNCHANGED panel
     ELSE panel' = [panel EXCEPT ![d] = "error"] /\ UNCHANGED poll
  /\ UNCHANGED <<ticket, pay, formError, details, rearmed>>

(* result.js: poll the order the query names, or say there is none. *)
OpenResult(d, ref) ==
  /\ stage[d] = "closed"
  /\ stage' = [stage EXCEPT ![d] = "result"]
  /\ orderOf' = [orderOf EXCEPT ![d] = ref]
  /\ IF ref.order # None
     THEN poll' = [poll EXCEPT ![d] = Started(TRUE)] /\ UNCHANGED panel
     ELSE panel' = [panel EXCEPT ![d] = "error"] /\ UNCHANGED poll
  /\ UNCHANGED <<ticket, pay, formError, details, rearmed>>

(* /result-config.js did not load: result.js stops before it polls. *)
ResultConfigLost(d) ==
  /\ stage[d] = "closed"
  /\ stage' = [stage EXCEPT ![d] = "broken"]
  /\ UNCHANGED <<ticket, pay, formError, panel, details, orderOf, poll, rearmed>>

(* The payer closes the tab, reloads it, or is carried off to another page. *)
Leave(d) ==
  /\ stage[d] \notin {"closed", "gone"}
  /\ stage' = [stage EXCEPT ![d] = "gone"]
  /\ UNCHANGED <<ticket, pay, formError, panel, details, orderOf, poll, rearmed>>
=============================================================================
