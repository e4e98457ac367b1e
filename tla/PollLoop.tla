-------------------------------- MODULE PollLoop --------------------------------
(***************************************************************************)
(* pollStatus() and showStatus() of shared/public/status.js as operators   *)
(* on the `order` object a loop carries: how many requests it has made,    *)
(* whether it has already been to the issuer, and what its next step is.   *)
(* The modules of the page and of a single loop build their actions from   *)
(* them.                                                                   *)
(***************************************************************************)
EXTENDS Naturals, TLAPS

CONSTANTS
  MaxPolls,         \* MAX_POLLS; 45 in the code
  GatewayStatuses   \* words the gateway uses for a status

FinalStatuses == {"approved", "declined", "error", "filtered"}

(* status.js:69, "One entry per final status the gateway can report, plus  *)
(* the in-flight case".                                                    *)
ASSUME PollAssumption ==
  /\ MaxPolls \in Nat \ {0}
  /\ GatewayStatuses \subseteq FinalStatuses \cup {"processing"}

(* A reply of GET /status: "none" stands for JSON without a status, which  *)
(* is what a 400 and a 502 of our own server are, and what the gateway     *)
(* answers for an order it does not know.                                  *)
StatusReplies == [status: GatewayStatuses \cup {"none"}, redirect: BOOLEAN]
NoStatusReply == [status |-> "none", redirect |-> FALSE]

(* What the panel can say: the keys of STATUS_COPY, or nothing at all. *)
Panels == FinalStatuses \cup {"processing", "hidden"}
PanelOf(word) == IF word \in FinalStatuses \cup {"processing"} THEN word ELSE "error"

Polls == [loop: {"off", "asking", "sleeping", "told", "sent"},
          attempts: 0..MaxPolls, redirected: BOOLEAN]

NoPoll == [loop |-> "off", attempts |-> 0, redirected |-> FALSE]

(* pollStatus(order) from the outside, and from its own timer. *)
Started(backFromIssuer) ==
  [loop |-> "asking", attempts |-> 1, redirected |-> backFromIssuer]
Again(p) == [p EXCEPT !.loop = "asking", !.attempts = @ + 1]

(* Bugs: one final status is missing from the list; the payer goes to the  *)
(* issuer whenever the gateway says so; the last poll is not counted; the  *)
(* panel keeps its text when the loop gives up.                            *)
IsFinalWithoutDeclined(p, r) ==
  ~(r.status # "none" /\ r.redirect /\ ~p.redirected) /\ r.status \in FinalStatuses \ {"declined"}
ToIssuerAlways(p, r) == r.status # "none" /\ r.redirect
PanelWithoutTimeout(p, r) == IF r.status = "none" THEN "error" ELSE PanelOf(r.status)
AskAgainPastLimit(p, r) ==
  /\ r.status # "none" /\ ~(r.redirect /\ ~p.redirected) /\ r.status \notin FinalStatuses
  /\ p.attempts <= MaxPolls

(* The branches of the reply handler, in the order the code tries them. *)
NoVerdict(r) == r.status = "none"
ToIssuer(p, r) == r.status # "none" /\ r.redirect /\ ~p.redirected
IsFinal(p, r) == ~ToIssuer(p, r) /\ r.status \in FinalStatuses
TooLate(p, r) == /\ ~NoVerdict(r) /\ ~ToIssuer(p, r) /\ ~IsFinal(p, r)
                   /\ p.attempts >= MaxPolls
AskAgain(p, r) == /\ ~NoVerdict(r) /\ ~ToIssuer(p, r) /\ ~IsFinal(p, r)
                   /\ p.attempts < MaxPolls

Heard(p, r) ==
  CASE ToIssuer(p, r) -> [p EXCEPT !.loop = "sent", !.redirected = TRUE]
    [] AskAgain(p, r) -> [p EXCEPT !.loop = "sleeping"]
    [] NoVerdict(r) \/ IsFinal(p, r) \/ TooLate(p, r) -> [p EXCEPT !.loop = "told"]

PanelAfter(p, r) == IF NoVerdict(r) \/ TooLate(p, r) THEN "error" ELSE PanelOf(r.status)

(* The catch handler: the request failed or its body was not JSON. *)
GaveUp(p) == [p EXCEPT !.loop = "told"]

-----------------------------------------------------------------------------
(* The reply handler of status.js:21-46: what each of its five branches    *)
(* makes of the order object and of the panel.  The branches exclude each  *)
(* other and there is no sixth.                                            *)
LEMMA ReplyBranches ==
  ASSUME NEW r, r.status \in FinalStatuses \cup {"processing", "none"}, NEW p \in Polls
  PROVE  \/ /\ NoVerdict(r)
            /\ Heard(p, r) = [p EXCEPT !.loop = "told"]
            /\ PanelAfter(p, r) = "error"
         \/ /\ ToIssuer(p, r)
            /\ Heard(p, r) = [p EXCEPT !.loop = "sent", !.redirected = TRUE]
            /\ PanelAfter(p, r) = r.status
         \/ /\ IsFinal(p, r)
            /\ Heard(p, r) = [p EXCEPT !.loop = "told"]
            /\ PanelAfter(p, r) = r.status
         \/ /\ TooLate(p, r)
            /\ Heard(p, r) = [p EXCEPT !.loop = "told"]
            /\ PanelAfter(p, r) = "error"
         \/ /\ AskAgain(p, r)
            /\ Heard(p, r) = [p EXCEPT !.loop = "sleeping"]
            /\ PanelAfter(p, r) = "processing"
<1>1. "none" \notin FinalStatuses /\ "processing" \notin FinalStatuses
  BY DEF FinalStatuses
<1>2. p.attempts \in Nat /\ MaxPolls \in Nat
  BY PollAssumption DEF Polls
<1>3. CASE NoVerdict(r)
  <2>1. ~ToIssuer(p, r) /\ ~AskAgain(p, r)
    BY <1>3 DEF NoVerdict, ToIssuer, AskAgain
  <2>2. Heard(p, r) = [p EXCEPT !.loop = "told"]
    BY <1>3, <2>1 DEF Heard
  <2>3. PanelAfter(p, r) = "error"
    BY <1>3 DEF PanelAfter
  <2> QED BY <1>3, <2>2, <2>3
<1>4. CASE ToIssuer(p, r)
  <2>1. ~NoVerdict(r) /\ ~TooLate(p, r) /\ ~IsFinal(p, r) /\ ~AskAgain(p, r)
    BY <1>4 DEF NoVerdict, ToIssuer, TooLate, IsFinal, AskAgain
  <2>2. Heard(p, r) = [p EXCEPT !.loop = "sent", !.redirected = TRUE]
    BY <1>4, <2>1 DEF Heard
  <2>3. PanelAfter(p, r) = r.status
    BY <2>1 DEF PanelAfter, PanelOf, NoVerdict
  <2> QED BY <1>4, <2>2, <2>3
<1>5. CASE IsFinal(p, r)
  <2>1. ~NoVerdict(r) /\ ~TooLate(p, r) /\ ~ToIssuer(p, r) /\ ~AskAgain(p, r)
    BY <1>5, <1>1 DEF NoVerdict, TooLate, IsFinal, AskAgain
  <2>2. Heard(p, r) = [p EXCEPT !.loop = "told"]
    BY <1>5, <2>1 DEF Heard
  <2>3. PanelAfter(p, r) = r.status
    BY <2>1 DEF PanelAfter, PanelOf, NoVerdict
  <2> QED BY <1>5, <2>2, <2>3
<1>6. CASE TooLate(p, r)
  <2>1. ~ToIssuer(p, r) /\ ~AskAgain(p, r)
    BY <1>6, <1>2 DEF TooLate, AskAgain
  <2>2. Heard(p, r) = [p EXCEPT !.loop = "told"]
    BY <1>6, <2>1 DEF Heard
  <2>3. PanelAfter(p, r) = "error"
    BY <1>6 DEF PanelAfter
  <2> QED BY <1>6, <2>2, <2>3
<1>7. CASE AskAgain(p, r)
  <2>1. ~NoVerdict(r) /\ ~ToIssuer(p, r) /\ ~IsFinal(p, r) /\ ~TooLate(p, r)
    BY <1>7, <1>2 DEF TooLate, AskAgain
  <2>2. Heard(p, r) = [p EXCEPT !.loop = "sleeping"]
    BY <1>7, <2>1 DEF Heard
  <2>3. r.status = "processing"
    BY <1>7 DEF AskAgain, NoVerdict, IsFinal
  <2>4. PanelAfter(p, r) = "processing"
    BY <2>1, <2>3 DEF PanelAfter, PanelOf
  <2> QED BY <1>7, <2>2, <2>4
<1>8. NoVerdict(r) \/ ToIssuer(p, r) \/ IsFinal(p, r) \/ TooLate(p, r) \/ AskAgain(p, r)
  BY <1>2 DEF TooLate, AskAgain
<1> QED BY <1>3, <1>4, <1>5, <1>6, <1>7, <1>8
=============================================================================
