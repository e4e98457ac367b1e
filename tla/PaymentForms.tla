------------------------------ MODULE PaymentForms ------------------------------
(***************************************************************************)
(* The three ports of the payment page side by side: the payer does the    *)
(* same to each of them, and the SDK and the server answer each of them    *)
(* the same.  The ports share no code with each other, and the sources     *)
(* say that the payer must not be able to tell.                            *)
(***************************************************************************)
EXTENDS PageTypes

CONSTANTS
  Texts,         \* what may be put in each of the payer's fields
  Codes,         \* error codes of the SDK
  SaleReplies,   \* replies of POST /pay
  Statuses,      \* replies of GET /status
  MaxEdits       \* bound on the payer's edits

(* What a payer types is a text.  Our server adds its clientOrderId to     *)
(* what the gateway says of a Sale, and what it says itself is under       *)
(* "error"; the gateway refuses a Sale with a message that is not empty,   *)
(* or with none.                                                           *)
ASSUME FormsAssumption ==
  /\ \A id \in FieldIds: Texts[id] \subseteq Seq(STRING)
  /\ \A sale \in SaleReplies:
       /\ Field(sale, "paynet-order-id") # "" => Field(sale, "clientOrderId") # ""
       /\ Field(sale, "error") # "" /\ "error-message" \in DOMAIN sale =>
            sale["error-message"] # ""

PP == INSTANCE PlainPage
NP == INSTANCE NextPage
GP == INSTANCE GoReactPage

VARIABLES
  plain, next, goreact,   \* the page of each port
  sent,        \* history: the customer each port last posted, <<>> before
  edits,       \* history: edits so far
  silent,      \* history: a field was filled in without an `input` event
  late,        \* history: a field was edited while a payment was under way
  corrected,   \* history: the payer has typed in the cardholder's field
  reloaded,    \* history: a field was loaded again and said ready once more
  apart        \* history: the payer pressed a button that not every port had live

vars == <<plain, next, goreact, sent, edits, silent, late, corrected, reloaded, apart>>

Views == <<PP!view(plain), NP!view(next), GP!view(goreact)>>
PlainView == Views[1]
ReactViews == {Views[2], Views[3]}

FormsInit ==
  /\ plain = PP!markup
  /\ next = NP!CheckoutForm
  /\ goreact = GP!CheckoutForm
  /\ sent = <<<<>>, <<>>, <<>>>>
  /\ edits = 0
  /\ silent = FALSE /\ late = FALSE /\ corrected = FALSE
  /\ reloaded = FALSE /\ apart = FALSE

(* Where each port stands, and the ports that stand at one of `stages`. *)
Stands == <<plain.at, NP!stands(next), GP!stands(goreact)>>
At(stages) == {i \in DOMAIN Stands: Stands[i] \in stages}

(* One event, for every port that waits for it. *)
Each(waiting, P(_), N(_), G(_)) ==
  /\ waiting # {}
  /\ plain' = IF 1 \in waiting THEN P(plain) ELSE plain
  /\ next' = IF 2 \in waiting THEN N(next) ELSE next
  /\ goreact' = IF 3 \in waiting THEN G(goreact) ELSE goreact

Quiet == UNCHANGED <<sent, edits, silent, late, corrected, reloaded, apart>>

-----------------------------------------------------------------------------
(* Loading.  The settings of the Next.js page come with the page: they can *)
(* lack a ticket and cannot be lost.                                       *)

Load(config) ==
  /\ LET P(p) == PP!load(p, config)
         N(p) == NP!load(p, IF config = "lost" THEN "none" ELSE config)
         G(p) == GP!load(p, config)
     IN  Each(At({"new"}), P, N, G)
  /\ Quiet

BundleFails == Each(At({"script"}), PP!scriptFailed, NP!scriptFailed, GP!scriptFailed) /\ Quiet

(* onReady, when the last field says ready and whenever one that was       *)
(* loaded again does.                                                      *)
FieldsReady ==
  /\ Each(At({"script"} \cup Mounted), PP!onReady, NP!onReady, GP!onReady)
  /\ reloaded' = (reloaded \/ At(Mounted) # {})
  /\ UNCHANGED <<sent, edits, silent, late, corrected, apart>>

-----------------------------------------------------------------------------
(* The payer. *)

Editable == At({"script"} \cup Mounted)

Edited ==
  /\ edits < MaxEdits
  /\ edits' = edits + 1
  /\ late' = (late \/ At({"tokenizing", "paying"}) # {})
  /\ UNCHANGED <<sent, reloaded, apart>>

Type(id, text) ==
  /\ LET P(p) == PP!typed(p, id, text)
         N(p) == NP!typed(p, id, text)
         G(p) == GP!typed(p, id, text)
     IN  Each(Editable, P, N, G)
  /\ corrected' = (corrected \/ id = "cardholderName")
  /\ Edited
  /\ UNCHANGED silent

(* An autofill that fires `change` and not `input`. *)
FillIn(id, text) ==
  /\ LET P(p) == PP!filledIn(p, id, text)
         N(p) == NP!filledIn(p, id, text)
         G(p) == GP!filledIn(p, id, text)
     IN  Each(Editable, P, N, G)
  /\ silent' = TRUE
  /\ Edited
  /\ UNCHANGED corrected

CanPress == At(Mounted) \ {i \in DOMAIN Views: Views[i].disabled}
Press ==
  /\ Each(CanPress, PP!submit, NP!handleSubmit, GP!handleSubmit)
  /\ late' = FALSE
  /\ apart' = (apart \/ CanPress # DOMAIN Views)
  /\ UNCHANGED <<sent, edits, silent, corrected, reloaded>>

-----------------------------------------------------------------------------
(* The SDK and the server. *)

Tokenizing == At({"tokenizing"})
TokenArrives ==
  /\ Each(Tokenizing, PP!sendTokenToServer, NP!sendTokenToServer, GP!sendTokenToServer)
  /\ sent' = <<IF 1 \in Tokenizing THEN <<PP!saleCustomer(plain)>> ELSE sent[1],
               IF 2 \in Tokenizing THEN <<NP!saleCustomer(next)>> ELSE sent[2],
               IF 3 \in Tokenizing THEN <<GP!saleCustomer(goreact)>> ELSE sent[3]>>
  /\ UNCHANGED <<edits, silent, late, corrected, reloaded, apart>>

TokenFails(code, payerMessage) ==
  /\ LET P(p) == PP!showError(p, code, payerMessage)
         N(p) == NP!showError(p, code, payerMessage)
         G(p) == GP!showError(p, code, payerMessage)
     IN  Each(Tokenizing, P, N, G)
  /\ Quiet

SaleReplied(sale) ==
  /\ LET P(p) == PP!saleReplied(p, sale)
         N(p) == NP!saleReplied(p, sale)
         G(p) == GP!saleReplied(p, sale)
     IN  Each(At({"paying"}), P, N, G)
  /\ Quiet
SaleLost == Each(At({"paying"}), PP!saleLost, NP!saleLost, GP!saleLost) /\ Quiet

StatusReplied(data) ==
  /\ LET P(p) == PP!statusReplied(p, data)
         N(p) == [p EXCEPT !.watch = NP!statusReplied(@, Len(@.runs), data)]
         G(p) == [p EXCEPT !.watch = GP!statusReplied(@, Len(@.runs), data)]
     IN  Each(At({"asking"}), P, N, G)
  /\ Quiet
StatusLost ==
  /\ LET N(p) == [p EXCEPT !.watch = NP!statusLost(@, Len(@.runs))]
         G(p) == [p EXCEPT !.watch = GP!statusLost(@, Len(@.runs))]
     IN  Each(At({"asking"}), PP!statusLost, N, G)
  /\ Quiet

TimerFires ==
  /\ LET N(p) == [p EXCEPT !.watch = NP!timerFired(@, Len(@.runs))]
         G(p) == [p EXCEPT !.watch = GP!timerFired(@, Len(@.runs))]
     IN  Each(At({"sleeping"}), PP!timerFired, N, G)
  /\ Quiet

FormsNext ==
  \/ \E config \in {"ticket", "none", "lost"}: Load(config)
  \/ BundleFails
  \/ FieldsReady
  \/ \E id \in FieldIds: \E text \in Texts[id]: Type(id, text) \/ FillIn(id, text)
  \/ Press
  \/ TokenArrives
  \/ \E code \in Codes, message \in {"", "Try another card"}: TokenFails(code, message)
  \/ \E sale \in SaleReplies: SaleReplied(sale)
  \/ SaleLost
  \/ \E data \in Statuses: StatusReplied(data)
  \/ StatusLost
  \/ TimerFires

FormsSpec == FormsInit /\ [][FormsNext]_vars

-----------------------------------------------------------------------------
(* Properties. *)

(* A page whose config.js did not load, which only the Go and React port   *)
(* can still tell from one that takes payments.                            *)
ConfigLost == PlainView.at = "unusable" /\ PlainView.label = "preparing"

(* A button of the plain page that a field which was loaded again has made *)
(* live; those of the React pages take no notice.                          *)
Revived == reloaded /\ PlainView.label = "pay" /\ ~PlainView.disabled

(* checkout-form.tsx:58, "the payer must read the same words in both", and *)
(* :79, the callbacks that "outlive every render": the three pages hold    *)
(* the same values, show the same button, error and panel, and have posted *)
(* the same customer, whatever the order of edits, presses, errors and     *)
(* replies.  They differ in the hints once a field is edited while a       *)
(* payment is under way (the plain page checks the fields again when it    *)
(* posts them) and in a revived button - until the payer presses it, or    *)
(* an edit does not announce itself.                                       *)
Read(v) ==
  [v EXCEPT !.hint = IF late THEN NoProblems ELSE @,
            !.disabled = IF Revived THEN FALSE ELSE @,
            !.label = IF Revived THEN "pay" ELSE @]
SamePage ==
  ~silent /\ ~apart /\ ~ConfigLost =>
    /\ \A v \in ReactViews: Read(v) = Read(PlainView)
    /\ sent[1] = sent[2] /\ sent[2] = sent[3]

(* customer.ts:36: the name that is suggested for the card is refused by   *)
(* no port when it takes both halves.                                      *)
SuggestionFits ==
  LET Fits(v, Problem(_, _)) ==
        (\A id \in Names: Problem(id, Trim(v.value[id])) = "none")
          => Problem("cardholderName", Trim(v.value.cardholderName)) = "none"
  IN  ~silent /\ ~corrected =>
        /\ Fits(Views[1], PP!problem)
        /\ Fits(Views[2], NP!problem)
        /\ Fits(Views[3], GP!problem)

=============================================================================
