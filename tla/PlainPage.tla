------------------------------- MODULE PlainPage -------------------------------
(***************************************************************************)
(* shared/public/checkout.js and status.js as operators on the document:   *)
(* `p` holds what the inputs, the hints, the button, the error box and the *)
(* panel show, and where the payment stands.  CheckoutPage models the same *)
(* scripts among the other parts of a payment; here the payer's own fields *)
(* and what the payer reads are kept, to be compared with the React ports. *)
(***************************************************************************)
EXTENDS PageTypes

(* The markup before the scripts run. *)
markup ==
  [value |-> EmptyCustomer, hint |-> NoProblems, touched |-> FALSE,
   label |-> "preparing", disabled |-> TRUE, error |-> NoError, panel |-> NoPanel,
   at |-> "new", attempts |-> 0, redirected |-> FALSE]

TERMINAL_ERRORS == [rejected |-> "reload", spent |-> "closed", unavailable |-> "reload"]

NAME_PATTERN(s) ==
  /\ s # <<>> /\ s[1] \in Letters
  /\ \A i \in DOMAIN s: s[i] \in Letters \cup {Space, "."}

EMAIL_PATTERN(s) ==
  \E i, j \in DOMAIN s:
    /\ 1 < i /\ i + 1 < j /\ j < Len(s)
    /\ s[i] = "@" /\ s[j] = "."
    /\ \A k \in DOMAIN s \ {i}: s[k] \notin {"@", Space}
    /\ \A k \in i + 1..j - 1: s[k] # "."

CUSTOMER_FIELDS(id, s) ==
  CASE id \in Names -> Len(s) <= NameMax /\ NAME_PATTERN(s)
    [] id = "cardholderName" -> Len(s) <= CardNameMax /\ NAME_PATTERN(s)
    [] id = "email" -> EMAIL_PATTERN(s)

-----------------------------------------------------------------------------
(* The panel: showStatus(). *)

FINAL_STATUSES == {"approved", "declined", "error", "filtered"}
STATUS_COPY == FINAL_STATUSES \cup {"processing"}

statusPick(data, keys) ==
  LET present == {i \in DOMAIN keys: Field(data, keys[i]) # ""}
  IN  IF present = {} THEN "" ELSE data[keys[Min(present)]]

(* The amount with its sign, or with a code that has none. *)
statusAmount(data) ==
  LET raw == statusPick(data, <<"amount", "sum", "total">>)
  IN  IF raw = "" THEN <<>>
      ELSE <<Upper(statusPick(data, <<"currency", "currency_code">>)), raw>>

statusCard(data) ==
  LET type == statusPick(data, <<"card-type", "card_type", "card_brand", "payment_method">>)
      last == statusPick(data, <<"last-four-digits", "last_four_digits", "card_last4", "last4">>)
  IN  CASE type = "" /\ last = "" -> <<>>
        [] type # "" /\ last = "" -> <<type>>
        [] last # "" -> <<type, last>>

Word(value) == IF value = "" THEN <<>> ELSE <<value>>

STATUS_ROWS(data) ==
  <<<<"Amount", statusAmount(data)>>,
    <<"Card", statusCard(data)>>,
    <<"Cardholder", Word(statusPick(data, <<"cardholder-name", "cardholder_name">>))>>,
    <<"Order", Word(statusPick(data, <<"merchant-order-id", "merchant_order_id", "order_id">>))>>,
    <<"Reference", Word(statusPick(data, <<"paynet-order-id", "paynet_order_id",
                                           "processor-rrn", "processor_rrn">>))>>,
    <<"Approval code", Word(statusPick(data, <<"approval-code", "approval_code">>))>>,
    <<"Bank message", Word(statusPick(data, <<"bank_message", "error-message", "error_message">>))>>,
    <<"Filter", Word(statusPick(data, <<"filter_message", "fraud_message">>))>>>>

HasValue(row) == row[2] # <<>>

(* What the panel comes to show; the button of an unknown status has the   *)
(* words of an error and does not do what they say.                        *)
shown(data) ==
  LET key == Lower(IF Field(data, "status") = "" THEN "processing" ELSE data["status"])
      isFinal == key # "processing"
  IN  [key |-> key, copy |-> IF key \in STATUS_COPY THEN key ELSE "error", busy |-> ~isFinal,
       rows |-> IF isFinal THEN SelectSeq(STATUS_ROWS(data), HasValue) ELSE <<>>,
       raw |-> IF isFinal THEN DOMAIN data ELSE {},
       action |-> IF ~isFinal THEN "none" ELSE IF key = "error" THEN "reload" ELSE "home"]

showStatus(p, data) == [p EXCEPT !.panel = <<shown(data)>>]
hideStatusPanel(p) == [p EXCEPT !.panel = NoPanel]

-----------------------------------------------------------------------------
(* The button and the error box. *)

setFormLoading(p, loading) ==
  [p EXCEPT !.disabled = loading, !.label = IF loading THEN "preparing" ELSE "pay"]

showFormError(p, error) ==
  LET terminal == error.kind \in DOMAIN TERMINAL_ERRORS
  IN  [p EXCEPT !.error = error, !.disabled = terminal,
                !.label = IF terminal THEN TERMINAL_ERRORS[error.kind] ELSE "pay"]

clearFormError(p) == [p EXCEPT !.error = NoError]

setPayInFlight(p) ==
  showStatus(clearFormError([p EXCEPT !.disabled = TRUE, !.label = "processing"]), Processing)

-----------------------------------------------------------------------------
(* The payer's own fields. *)

setFieldHint(p, problems) == [p EXCEPT !.hint = problems]
fieldValue(p, id) == Trim(p.value[id])

cardPrintedName(p) == OneSpace(fieldValue(p, "firstName") \o <<Space>> \o fieldValue(p, "lastName"))

upperCaseCardholderName(p) == [p EXCEPT !.value["cardholderName"] = ToUpperCase(@)]

(* A bug: the suggestion overwrites what the payer typed. *)
syncAlways(p) == [p EXCEPT !.value["cardholderName"] = ToUpperCase(cardPrintedName(p))]

syncCardholderName(p) == IF p.touched THEN p ELSE syncAlways(p)

(* watchCardholderName(): the listeners on `input`, which what the payer   *)
(* types fires, and on `change` alone, which some autofills do.            *)
typed(p, id, text) ==
  LET q == [p EXCEPT !.value[id] = text]
  IN  CASE id = "cardholderName" -> upperCaseCardholderName([q EXCEPT !.touched = TRUE])
        [] id \in Names -> syncCardholderName(q)
        [] id = "email" -> q

filledIn(p, id, text) ==
  LET q == [p EXCEPT !.value[id] = text]
  IN  IF id = "cardholderName" THEN upperCaseCardholderName(q) ELSE q

problem(id, s) ==
  IF s = <<>> THEN "empty" ELSE IF CUSTOMER_FIELDS(id, s) THEN "none" ELSE "invalid"

(* customerDetails() writes the hints on its way. *)
customerDetails(p) ==
  LET problems == [id \in FieldIds |-> problem(id, fieldValue(p, id))]
  IN  [valid |-> problems = NoProblems,
       page |-> setFieldHint(p, problems),
       customer |-> [firstName |-> fieldValue(p, "firstName"), lastName |-> fieldValue(p, "lastName"),
                     email |-> fieldValue(p, "email"),
                     cardPrintedName |-> fieldValue(p, "cardholderName")]]

-----------------------------------------------------------------------------
(* The steps of a payment. *)

load(p, config) ==
  CASE config = "ticket" -> [p EXCEPT !.at = "script"]
    [] config = "none" -> [showFormError(p, Copy("unavailable")) EXCEPT !.at = "unusable"]
    [] config = "lost" -> [p EXCEPT !.at = "unusable"]   \* CONFIG is undefined: the script stops

scriptFailed(p) == [showFormError(p, Copy("unavailable")) EXCEPT !.at = "unusable"]

(* Called again when a field that was loaded again is ready: the button is *)
(* live then, whatever the payment has come to.                            *)
onReady(p) == [setFormLoading(p, FALSE) EXCEPT !.at = IF @ = "script" THEN "form" ELSE @]

(* A press while a payment is under way starts a second beside it.  Of a   *)
(* page with two under way CheckoutPage is the model: this one stops.      *)
submit(p) ==
  LET details == customerDetails(p)
  IN  IF details.valid
      THEN [setPayInFlight(details.page) EXCEPT !.at = IF @ \in UnderWay THEN "twice" ELSE "tokenizing"]
      ELSE details.page

(* sendTokenToServer(): the fields are read once more. *)
sendTokenToServer(p) == [customerDetails(p).page EXCEPT !.at = "paying"]
saleCustomer(p) == customerDetails(p).customer

newOrder(p) == [p EXCEPT !.attempts = 0, !.redirected = FALSE]
pollStatus(p) == [p EXCEPT !.at = "asking", !.attempts = @ + 1]

saleReplied(p, sale) ==
  IF Field(sale, "paynet-order-id") # "" THEN pollStatus(newOrder(p))
  ELSE LET message == IF Field(sale, "error-message") # "" THEN sale["error-message"]
                                                           ELSE Field(sale, "error")
       IN  [hideStatusPanel(showFormError(p, Said("retry", message))) EXCEPT !.at = "form"]

saleLost(p) == [hideStatusPanel(showFormError(p, Said("network", FailedText))) EXCEPT !.at = "form"]

showError(p, code, payerMessage) ==
  LET spentTicket == code \in 4000..4999
      kind == IF code = 4004 THEN "rejected" ELSE IF spentTicket THEN "spent" ELSE "retry"
      error == IF spentTicket THEN Copy(kind) ELSE Said(kind, payerMessage)
  IN  [hideStatusPanel(showFormError(p, error)) EXCEPT !.at = "form"]

(* The reply handler of pollStatus(). *)
statusReplied(p, data) ==
  LET status == Field(data, "status")
      noStatus == IF Field(data, "error") = "" THEN NoStatusText ELSE data["error"]
      sent == Field(data, "redirect-to") # "" /\ ~p.redirected
      q == showStatus(p, data)
  IN  IF status = "" THEN [showStatus(p, ErrorData(noStatus)) EXCEPT !.at = "over"]
      ELSE IF sent THEN [q EXCEPT !.redirected = TRUE, !.at = "sent"]
      ELSE IF status \in FINAL_STATUSES THEN [q EXCEPT !.at = "over"]
      ELSE IF p.attempts >= PollsMax THEN [showStatus(p, ErrorData(TimeoutText)) EXCEPT !.at = "over"]
      ELSE [q EXCEPT !.at = "sleeping"]

statusLost(p) == [showStatus(p, ErrorData(FailedText)) EXCEPT !.at = "over"]
timerFired(p) == pollStatus(p)

(* What the payer can see. *)
view(p) == [value |-> p.value, hint |-> p.hint, label |-> p.label, disabled |-> p.disabled,
            error |-> p.error, panel |-> p.panel, at |-> p.at]
=============================================================================
