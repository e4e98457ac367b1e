------------------------------ MODULE GoReactPage ------------------------------
(***************************************************************************)
(* The browser half of go-react/ as operators: the same page as NextPage,  *)
(* from sources of its own.  The settings come from a script the template  *)
(* loads (page-config.ts) and not with the page, the two requests are made *)
(* by shared/api, and the effects run under <StrictMode>.                  *)
(***************************************************************************)
EXTENDS PageTypes

TERMINAL_ERRORS == [rejected |-> "reload", spent |-> "closed", unavailable |-> "reload"]

NoOrder == <<>>
NoWatch == [polled |-> <<>>, redirected |-> FALSE, left |-> 0, runs |-> <<>>]

(* The first render. *)
CheckoutForm ==
  [value |-> EmptyCustomer, latest |-> EmptyCustomer, problems |-> NoProblems, touched |-> FALSE,
   ready |-> FALSE, formError |-> NoError, inFlight |-> FALSE, order |-> NoOrder, started |-> FALSE,
   watch |-> NoWatch, at |-> "new"]

-----------------------------------------------------------------------------
(* customer.ts *)

NAME_PATTERN(s) ==
  /\ s # <<>> /\ s[1] \in Letters
  /\ \A i \in DOMAIN s: s[i] \in Letters \cup {Space, "."}

EMAIL_PATTERN(s) ==
  \E i, j \in DOMAIN s:
    /\ 1 < i /\ i + 1 < j /\ j < Len(s)
    /\ s[i] = "@" /\ s[j] = "."
    /\ \A k \in DOMAIN s \ {i}: s[k] \notin {"@", Space}
    /\ \A k \in i + 1..j - 1: s[k] # "."

CUSTOMER_FIELDS(id, s) ==
  CASE id \in Names -> Len(s) <= NameMax /\ NAME_PATTERN(s)
    [] id = "cardholderName" -> Len(s) <= CardNameMax /\ NAME_PATTERN(s)
    [] id = "email" -> EMAIL_PATTERN(s)

problem(id, s) ==
  IF s = <<>> THEN "empty" ELSE IF CUSTOMER_FIELDS(id, s) THEN "none" ELSE "invalid"

validateCustomer(values) ==
  LET problems == [id \in FieldIds |-> problem(id, Trim(values[id]))]
  IN  [valid |-> problems = NoProblems,
       problems |-> problems,
       customer |-> [firstName |-> Trim(values.firstName), lastName |-> Trim(values.lastName),
                     email |-> Trim(values.email),
                     cardPrintedName |-> Trim(values.cardholderName)]]

cardPrintedName(values) == OneSpace(Trim(values.firstName) \o <<Space>> \o Trim(values.lastName))

-----------------------------------------------------------------------------
(* status-format.ts and status-panel.tsx *)

FINAL_STATUSES == {"approved", "declined", "error", "filtered"}
STATUS_COPY == FINAL_STATUSES \cup {"processing"}

statusPick(data, keys) ==
  LET present == {i \in DOMAIN keys: Field(data, keys[i]) # ""}
  IN  IF present = {} THEN "" ELSE data[keys[Min(present)]]

statusAmount(data) ==
  LET raw == statusPick(data, <<"amount", "sum", "total">>)
  IN  IF raw = "" THEN <<>>
      ELSE <<Upper(statusPick(data, <<"currency", "currency_code">>)), raw>>

statusCard(data) ==
  LET type == statusPick(data, <<"card-type", "card_type", "card_brand", "payment_method">>)
      last == statusPick(data, <<"last-four-digits", "last_four_digits", "card_last4", "last4">>)
  IN  CASE type = "" /\ last = "" -> <<>>
        [] type # "" /\ last = "" -> <<type>>
        [] last # "" -> <<type, last>>

Word(value) == IF value = "" THEN <<>> ELSE <<value>>

STATUS_ROWS(data) ==
  <<<<"Amount", statusAmount(data)>>,
    <<"Card", statusCard(data)>>,
    <<"Cardholder", Word(statusPick(data, <<"cardholder-name", "cardholder_name">>))>>,
    <<"Order", Word(statusPick(data, <<"merchant-order-id", "merchant_order_id", "order_id">>))>>,
    <<"Reference", Word(statusPick(data, <<"paynet-order-id", "paynet_order_id",
                                           "processor-rrn", "processor_rrn">>))>>,
    <<"Approval code", Word(statusPick(data, <<"approval-code", "approval_code">>))>>,
    <<"Bank message", Word(statusPick(data, <<"bank_message", "error-message", "error_message">>))>>,
    <<"Filter", Word(statusPick(data, <<"filter_message", "fraud_message">>))>>>>

HasValue(row) == row[2] # <<>>

StatusPanel(data) ==
  LET key == Lower(IF "status" \in DOMAIN data THEN data["status"] ELSE "processing")
      isFinal == key # "processing"
  IN  [key |-> key, copy |-> IF key \in STATUS_COPY THEN key ELSE "error", busy |-> ~isFinal,
       rows |-> IF isFinal THEN SelectSeq(STATUS_ROWS(data), HasValue) ELSE <<>>,
       raw |-> IF isFinal THEN DOMAIN data ELSE {},
       action |-> IF ~isFinal THEN "none" ELSE IF key = "error" THEN "reload" ELSE "home"]

-----------------------------------------------------------------------------
(* useOrderStatus() *)

(* The effect, for an order that is there. *)
orderEffect(w, order) ==
  IF order.basePath = "" \/ order.orderId = "" \/ order.clientOrderId = "" THEN w
  ELSE [w EXCEPT !.redirected = order.redirected,
                 !.runs = Append(@, [active |-> TRUE, attempts |-> 1, at |-> "asking"])]

(* What the effect returns: the timer goes, a request stays on its way. *)
orderCleanup(w, i) ==
  [w EXCEPT !.runs[i].active = FALSE, !.runs[i].at = IF @ = "sleeping" THEN "over" ELSE @]

statusReplied(w, i, data) ==
  LET run == w.runs[i]
      status == Field(data, "status")
      noStatus == IF Field(data, "error") = "" THEN NoStatusText ELSE data["error"]
      done == [w EXCEPT !.runs[i].at = "over"]
  IN  IF ~run.active THEN done
      ELSE IF status = "" THEN [done EXCEPT !.polled = <<ErrorData(noStatus)>>]
      ELSE IF Field(data, "redirect-to") # "" /\ ~w.redirected
        THEN [done EXCEPT !.polled = <<data>>, !.redirected = TRUE, !.left = @ + 1]
      ELSE IF status \in FINAL_STATUSES THEN [done EXCEPT !.polled = <<data>>]
      ELSE IF run.attempts >= PollsMax THEN [done EXCEPT !.polled = <<ErrorData(TimeoutText)>>]
      ELSE [w EXCEPT !.polled = <<data>>, !.runs[i].at = "sleeping"]

statusLost(w, i) ==
  LET done == [w EXCEPT !.runs[i].at = "over"]
  IN  IF w.runs[i].active THEN [done EXCEPT !.polled = <<ErrorData(FailedText)>>] ELSE done

timerFired(w, i) == [w EXCEPT !.runs[i].at = "asking", !.runs[i].attempts = @ + 1]

-----------------------------------------------------------------------------
(* checkout-form.tsx *)

showFormError(p, error) == [p EXCEPT !.formError = error, !.inFlight = FALSE]

editName(p, id, text) ==
  LET next == [p.value EXCEPT ![id] = text]
  IN  [p EXCEPT !.value = IF p.touched THEN next
                          ELSE [next EXCEPT !.cardholderName = ToUpperCase(cardPrintedName(next))]]

editCardholder(p, text) ==
  [p EXCEPT !.touched = TRUE, !.value.cardholderName = ToUpperCase(text)]

editEmail(p, text) == [p EXCEPT !.value.email = text]

(* React's onChange hears the `change` event of an autofill as well. *)
onChange(p, id, text) ==
  CASE id \in Names -> editName(p, id, text)
    [] id = "cardholderName" -> editCardholder(p, text)
    [] id = "email" -> editEmail(p, text)

(* React renders what an event has set before it hears the next one, and   *)
(* the render leaves the values it shows in the ref.                       *)
rendered(p) == [p EXCEPT !.latest = p.value]

typed(p, id, text) == rendered(onChange(p, id, text))
filledIn(p, id, text) == typed(p, id, text)

(* The SDK effect, which StrictMode runs twice: once is enough. *)
sdkEffect(p, ticket) ==
  IF p.started THEN p
  ELSE LET q == [p EXCEPT !.started = TRUE]
       IN  IF ticket THEN [q EXCEPT !.at = "script"]
           ELSE [showFormError(q, Copy("unavailable")) EXCEPT !.at = "unusable"]

(* checkoutConfig(): a config.js that did not load is one without a ticket. *)
checkoutConfig(config) == config = "ticket"

load(p, config) == sdkEffect(sdkEffect(p, checkoutConfig(config)), checkoutConfig(config))
scriptFailed(p) == [showFormError(p, Copy("unavailable")) EXCEPT !.at = "unusable"]

(* Nothing takes `ready` back: called again it changes nothing. *)
onReady(p) == [p EXCEPT !.ready = TRUE, !.at = IF @ = "script" THEN "form" ELSE @]

handleSubmit(p) ==
  LET checked == validateCustomer(p.latest)
  IN  IF checked.valid
      THEN [p EXCEPT !.problems = checked.problems, !.formError = NoError, !.inFlight = TRUE,
                     !.at = "tokenizing"]
      ELSE [p EXCEPT !.problems = checked.problems]

(* The SDK calls the sendTokenToServer() of the first render, which reads  *)
(* latestValues.current.                                                   *)
saleCustomer(p) == validateCustomer(p.latest).customer

(* The requests of shared/api. *)
postSale(p) == [p EXCEPT !.at = "paying"]
sendTokenToServer(p) == postSale(p)

(* setOrder(), and the effect of the render that follows. *)
followOrder(p, order) == [p EXCEPT !.order = <<order>>, !.watch = orderEffect(@, order), !.at = "order"]

saleReplied(p, sale) ==
  IF Field(sale, "paynet-order-id") # ""
  THEN followOrder(p, [basePath |-> "/demo", orderId |-> sale["paynet-order-id"],
                       clientOrderId |-> sale["clientOrderId"], redirected |-> FALSE])
  ELSE LET key == IF "error-message" \in DOMAIN sale THEN "error-message" ELSE "error"
       IN  [showFormError(p, Said("retry", Field(sale, key))) EXCEPT !.at = "form"]

saleLost(p) == [showFormError(p, Said("network", FailedText)) EXCEPT !.at = "form"]

showError(p, code, payerMessage) ==
  LET spentTicket == code \in 4000..4999
      kind == IF code = 4004 THEN "rejected" ELSE IF spentTicket THEN "spent" ELSE "retry"
      error == IF spentTicket THEN Copy(kind) ELSE Said(kind, payerMessage)
  IN  [showFormError(p, error) EXCEPT !.at = "form"]

-----------------------------------------------------------------------------
(* What is rendered. *)

terminal(p) == p.formError.kind \in DOMAIN TERMINAL_ERRORS
disabled(p) == ~p.ready \/ p.inFlight \/ terminal(p)
label(p) ==
  IF terminal(p) THEN TERMINAL_ERRORS[p.formError.kind]
  ELSE IF ~p.ready THEN "preparing" ELSE IF p.inFlight THEN "processing" ELSE "pay"

panel(p) ==
  LET polled == p.watch.polled
  IN  IF p.order # NoOrder THEN <<StatusPanel(IF polled = <<>> THEN Processing ELSE polled[1])>>
      ELSE IF p.inFlight THEN <<StatusPanel(Processing)>>
      ELSE NoPanel

stands(p) ==
  IF p.at # "order" \/ p.watch.runs = <<>> THEN p.at
  ELSE IF p.watch.left > 0 THEN "sent" ELSE p.watch.runs[Len(p.watch.runs)].at

view(p) == [value |-> p.value, hint |-> p.problems, label |-> label(p), disabled |-> disabled(p),
            error |-> p.formError, panel |-> panel(p), at |-> stands(p)]

(* result-view.tsx: what the 3DS return page shows. *)
ResultView(w, orderId) ==
  IF orderId = "" THEN <<StatusPanel(ErrorData(EmptyResultText))>>
  ELSE IF w.polled # <<>> THEN <<StatusPanel(w.polled[1])>>
  ELSE NoPanel   \* "Confirming your payment", a text of its own
=============================================================================
