--------------------------- MODULE PaymentProperties ---------------------------
(* What should be true of a whole checkout, whatever is lost, late or      *)
(* interleaved.                                                            *)
EXTENDS Payment

Posted(i) == payCall[i].token # None
LiveForm(d) == stage[d] = "form"

(* One page load pays at most once, although a refused or lost payment     *)
(* gives the button back: checkout.js:440, "one tokenization per           *)
(* ephemeralTicket", must hold from page to server, not just per click.    *)
OnePayPerPage ==
  \A i, j \in Attempts:
    Posted(i) /\ Posted(j) /\ attempt[i].doc = attempt[j].doc => i = j

(* The gateway does not spend tokens, although gateway.ts:46 speaks of an  *)
(* "already spent" one, so that no token pays for two orders is up to the  *)
(* page and the server: neither repeats a call whose answer it missed.     *)
NoTokenPaysTwice ==
  \A o1, o2 \in OrderIds:
    Known(o1) /\ Known(o2) /\ order[o1].token = order[o2].token => o1 = o2

(* A page never has two polling loops: when the answer to POST /pay brings *)
(* an order, the page is not following one yet.                            *)
OneLoopPerPage ==
  \A i \in Attempts:
    Waiting(i, "sale") /\ payCall[i].answer = "order" => poll[attempt[i].doc].loop = "off"

(* state.ts:65, an order id is seven random digits: two sales were given   *)
(* the same one, and the later order has taken the place of the other.     *)
Collided(o) ==
  \E i, j \in Attempts: i # j /\ payCall[i].order = o /\ payCall[j].order = o

(* A page follows its own order: the ids it polls with belong together,    *)
(* and on the payment page the order was paid with that page's ticket.     *)
(* The gateway forgets an order only by drawing its id for another one.    *)
FollowsOwnOrder ==
  \A d \in Docs: orderOf[d].order # None =>
    \/ /\ order[orderOf[d].order].client = orderOf[d].client
       /\ ticket[d] # None => tokenTicket[order[orderOf[d].order].token] = ticket[d]
    \/ Collided(orderOf[d].order)

(* The Pay button is live only on a page that waits for nothing: no token, *)
(* no sale and no status can still arrive and change what the payer sees   *)
(* under a second payment.  Only a field that is loaded again while the    *)
(* page waits breaks that.                                                 *)
LiveButtonIdle ==
  \A d \in Docs \ rearmed: LiveForm(d) /\ pay[d] = "ready" =>
    /\ poll[d].loop = "off"
    /\ \A i \in Attempts: attempt[i].doc = d => attempt[i].waits = "nothing"

(* checkout.js:489, "the panel must not keep saying we are waiting on the  *)
(* bank": an error message and the status panel never show together, and a *)
(* page in flight always has the panel open - unless a field loaded again  *)
(* has let the payer press Pay under a payment.                            *)
OneMessageAtATime ==
  \A d \in Docs \ rearmed:
    /\ formError[d] # "none" => panel[d] = "hidden" /\ pay[d] # "processing"
    /\ LiveForm(d) /\ pay[d] = "processing" => panel[d] # "hidden"

(* A verdict in the panel is the gateway's verdict on the order followed,  *)
(* although the reply it came from is old by the time it is shown; an      *)
(* order whose id was drawn again is the one exception.                    *)
VerdictIsTrue ==
  \A d \in Docs: panel[d] \in {"approved", "declined"} =>
    \/ StatusReply(orderOf[d].order).status = panel[d]
    \/ Collided(orderOf[d].order)

(* A poller may stop at a final status because the gateway never takes one *)
(* back: an order that answers approved or declined goes on answering the  *)
(* same, whatever pages and payers do, until its id is drawn again for     *)
(* another sale, with another token.                                       *)
VerdictSticks ==
  [][\A o \in OrderIds:
       StatusReply(o).status \in {"approved", "declined"} =>
         StatusReply(o)' = StatusReply(o) \/ order'[o].token # order[o].token]_vars

(* status.js:32, "the gateway asks to send the payer to the issuer, once": *)
(* no two pages take the same order to the issuer, not even the return     *)
(* page of a challenge or its reloads.                                     *)
IssuerOnce ==
  \A d, e \in Docs:
    poll[d].loop = "sent" /\ poll[e].loop = "sent" /\ orderOf[d].order = orderOf[e].order
      => d = e \/ Collided(orderOf[d].order)

(* checkout.js:204, "Errors the button cannot come back from": no answer   *)
(* and no press revives the button of a page that needs a reload.  A field *)
(* loaded again does, except where there is no SDK to report it.           *)
DeadButtonStaysDead ==
  [][\A d \in Docs: pay[d] \in TerminalErrors =>
       pay'[d] = pay[d] \/ (d \in rearmed' /\ pay[d] # "unavailable")]_vars

(* Each page keeps the promise of OrderWatch to the payer it shows an      *)
(* order to.  On a page that a field has rearmed, another press can        *)
(* overwrite what is shown, a verdict even, but every step of the loop     *)
(* that follows the order still keeps it.                                  *)
WatchOf(d) == INSTANCE OrderWatch WITH
  Outcomes <- FinalStatuses,
  fromIssuer <- poll[d].loop # "off" /\ ticket[d] = None,
  watch <- IF poll[d].loop \in {"asking", "sleeping"} THEN "on" ELSE poll[d].loop,
  shown <- IF poll[d].loop = "off" THEN "hidden" ELSE panel[d]

PagesKeepWatch ==
  /\ \A d \in Docs: WatchOf(d)!WatchInit
  /\ [][\A d \in Docs: \/ WatchOf(d)!WatchNext
                       \/ UNCHANGED WatchOf(d)!watchVars
                       \/ d \in rearmed /\ poll'[d] = poll[d]]_vars

(* The payer of this page waits for what becomes of a payment. *)
InFlight(d) ==
  \/ LiveForm(d) /\ pay[d] = "processing" /\ poll[d].loop = "off"
  \/ Alive(d) /\ poll[d].loop \in {"asking", "sleeping"}

(* paynet.js:24, without the 30 s timeout "a wedged gateway holds the      *)
(* request, and the payer's page, indefinitely": a payment in flight ends  *)
(* in an error, a verdict, the way to the issuer or, if a field is loaded  *)
(* again, a live button, even if the gateway answers no call of our        *)
(* server; and no page polls for ever.                                     *)
PaymentsEnd == \A d \in Docs: InFlight(d) ~> ~InFlight(d)

-----------------------------------------------------------------------------
(* Claims of the repository that the code does not keep. *)

(* checkout.js:204 lists the "Errors the button cannot come back from",    *)
(* those for which "a retry would need [a ticket] this page no longer      *)
(* has": a live button has a ticket that can still be tokenized with.      *)
LiveButtonHasTicket ==
  \A d \in Docs: LiveForm(d) /\ pay[d] = "ready" => ticketScenario[ticket[d]] # None

(* status.js:96, the copy of the error panel: "The payment could not be    *)
(* finished and nothing has been charged."                                 *)
ErrorMeansNothingCharged ==
  \A d \in Docs: panel[d] = "error" /\ orderOf[d].order # None =>
    StatusReply(orderOf[d].order).status # "approved"

(* checkout.js:377, details are "Caught here rather than after             *)
(* tokenization": what is posted with a token has passed the check.        *)
PostedDetailsValid ==
  \A i \in Attempts: Posted(i) => payCall[i].details \in ValidDetails
=============================================================================
