------------------------------- MODULE StatusPoll -------------------------------
(***************************************************************************)
(* One status-polling loop of shared/public/status.js against a gateway    *)
(* that may answer anything at all, and a network that may lose any reply. *)
(* The payment page starts it after a Sale, the 3DS return page on load.   *)
(***************************************************************************)
EXTENDS PollLoop

VARIABLES
  fromIssuer,   \* the page is the return page: order.redirected starts TRUE
  poll,         \* the order object and where its loop stands
  panel,        \* what #orderStatus says
  asked         \* history: GET /status requests made

pollVars == <<fromIssuer, poll, panel, asked>>

PollTypeOK ==
  /\ fromIssuer \in BOOLEAN
  /\ poll \in Polls
  /\ panel \in Panels
  /\ asked \in Nat

(* setPayInFlight() has opened the panel of the payment page. *)
PollInit ==
  /\ fromIssuer \in BOOLEAN
  /\ poll = NoPoll
  /\ panel = IF fromIssuer THEN "hidden" ELSE "processing"
  /\ asked = 0

PollStatus ==
  /\ poll.loop = "off"
  /\ poll' = Started(fromIssuer)
  /\ asked' = asked + 1
  /\ UNCHANGED <<fromIssuer, panel>>

HearStatus(r) ==
  /\ poll.loop = "asking"
  /\ poll' = Heard(poll, r)
  /\ panel' = PanelAfter(poll, r)
  /\ UNCHANGED <<fromIssuer, asked>>

LoseStatus ==
  /\ poll.loop = "asking"
  /\ poll' = GaveUp(poll)
  /\ panel' = "error"
  /\ UNCHANGED <<fromIssuer, asked>>

TimerFires ==
  /\ poll.loop = "sleeping"
  /\ poll' = Again(poll)
  /\ asked' = asked + 1
  /\ UNCHANGED <<fromIssuer, panel>>

(* Nothing is left to run: the verdict stays, or the browser is leaving. *)
Rest == poll.loop \in {"told", "sent"} /\ UNCHANGED pollVars

PollNext ==
  \/ PollStatus
  \/ \E r \in StatusReplies: HearStatus(r)
  \/ LoseStatus
  \/ TimerFires
  \/ Rest

(* The page calls pollStatus; a fetch settles, because our server answers  *)
(* within its 30 s gateway timeout or the connection breaks; timers fire.  *)
PollFairness ==
  /\ WF_pollVars(PollStatus)
  /\ WF_pollVars((\E r \in StatusReplies: HearStatus(r)) \/ LoseStatus)
  /\ WF_pollVars(TimerFires)

PollSpec == PollInit /\ [][PollNext]_pollVars /\ PollFairness

-----------------------------------------------------------------------------
(* Properties. *)

(* status.js:7, "a page that polls a wedged server until the tab closes    *)
(* helps nobody": the loop makes at most MAX_POLLS requests, counted one   *)
(* by one here, and order.attempts is that count.                          *)
PollsBounded == asked = poll.attempts /\ asked <= MaxPolls

(* A page that still waits for a verdict shows none: whenever the loop has *)
(* work left the panel is not saying how the payment ended, so the payer   *)
(* is not offered another attempt at a payment that is still running.      *)
NoVerdictWhileWatching ==
  poll.loop \in {"asking", "sleeping"} => panel \in {"processing", "hidden"}

(* The loop implements the promise made to the payer. *)
Watch == INSTANCE OrderWatch WITH
  Outcomes <- FinalStatuses,
  watch <- IF poll.loop \in {"asking", "sleeping"} THEN "on" ELSE poll.loop,
  shown <- panel,
  fromIssuer <- poll.loop # "off" /\ fromIssuer

ImplementsOrderWatch == Watch!WatchSpec

-----------------------------------------------------------------------------
(* For every MAX_POLLS and every set of statuses the gateway may use, the  *)
(* loop keeps its count, shows no verdict while it has work left, and      *)
(* implements the safety half of OrderWatch.                               *)

LoopCounts == asked = poll.attempts

(* Nothing has happened before pollStatus() is called. *)
LoopUnstarted ==
  poll.loop = "off" => poll = NoPoll /\ panel \in {"hidden", "processing"}

(* The timer is set only while another poll is allowed. *)
LoopMaySleep == poll.loop = "sleeping" => poll.attempts < MaxPolls

(* A payer who came back from the issuer is known to have been there. *)
LoopRemembers == poll.loop # "off" /\ fromIssuer => poll.redirected

PollInv ==
  /\ PollTypeOK
  /\ LoopCounts
  /\ LoopUnstarted
  /\ LoopMaySleep
  /\ LoopRemembers
  /\ NoVerdictWhileWatching

-----------------------------------------------------------------------------
(* The loop starts in the invariant. *)
LEMMA PollInitInv == PollInit => PollInv
BY PollAssumption DEF PollInit, PollInv, PollTypeOK, LoopCounts, LoopUnstarted,
   LoopMaySleep, LoopRemembers, NoVerdictWhileWatching, NoPoll, Polls, Panels

(* Every request, reply, loss and timer keeps the invariant. *)
LEMMA PollStepInv == PollInv /\ [PollNext]_pollVars => PollInv'
<1> SUFFICES ASSUME PollInv, [PollNext]_pollVars PROVE PollInv'
  OBVIOUS
<1> USE PollAssumption
<1> USE DEF PollInv, PollTypeOK, LoopCounts, LoopUnstarted, LoopMaySleep, LoopRemembers,
        NoVerdictWhileWatching
<1>1. CASE PollStatus
  BY <1>1 DEF PollStatus, Started, NoPoll, Polls, Panels
<1>2. ASSUME NEW r \in StatusReplies, HearStatus(r) PROVE PollInv'
  <2>1. r.status \in FinalStatuses \cup {"processing", "none"}
    BY DEF StatusReplies
  <2>2. poll.loop = "asking" /\ poll' = Heard(poll, r) /\ panel' = PanelAfter(poll, r)
        /\ UNCHANGED <<fromIssuer, asked>>
    BY <1>2 DEF HearStatus
  <2>3. CASE /\ Heard(poll, r) = [poll EXCEPT !.loop = "told"]
             /\ PanelAfter(poll, r) \in {"error", r.status}
             /\ PanelAfter(poll, r) # "none"
    BY <2>1, <2>2, <2>3 DEF Polls, Panels, FinalStatuses
  <2>4. CASE /\ Heard(poll, r) = [poll EXCEPT !.loop = "sent", !.redirected = TRUE]
             /\ PanelAfter(poll, r) = r.status
             /\ r.status # "none"
    BY <2>1, <2>2, <2>4 DEF Polls, Panels
  <2>5. CASE /\ Heard(poll, r) = [poll EXCEPT !.loop = "sleeping"]
             /\ PanelAfter(poll, r) = "processing"
             /\ poll.attempts < MaxPolls
    BY <2>2, <2>5 DEF Polls, Panels
  <2> QED
    BY <2>1, <2>3, <2>4, <2>5, ReplyBranches DEF NoVerdict, ToIssuer, IsFinal, AskAgain, FinalStatuses
<1>3. CASE LoseStatus
  BY <1>3 DEF LoseStatus, GaveUp, Polls, Panels, FinalStatuses
<1>4. CASE TimerFires
  <2>1. poll.attempts \in Nat /\ MaxPolls \in Nat /\ poll.attempts + 1 \in 0..MaxPolls
    BY <1>4 DEF TimerFires, Polls
  <2>2. poll' = [poll EXCEPT !.loop = "asking", !.attempts = poll.attempts + 1]
    BY <1>4 DEF TimerFires, Again
  <2>3. poll' \in Polls /\ poll'.loop = "asking" /\ poll'.attempts = poll.attempts + 1
        /\ poll'.redirected = poll.redirected
    BY <2>1, <2>2 DEF Polls
  <2> QED BY <1>4, <2>1, <2>3 DEF TimerFires
<1>5. CASE Rest \/ UNCHANGED pollVars
  BY <1>5 DEF Rest, pollVars
<1> QED BY <1>1, <1>2, <1>3, <1>4, <1>5 DEF PollNext

(* The invariant holds throughout. *)
THEOREM PollInvariant == PollSpec => []PollInv
<1>1. PollInit => PollInv BY PollInitInv
<1>2. PollInv /\ [PollNext]_pollVars => PollInv' BY PollStepInv
<1> QED BY <1>1, <1>2, PTL DEF PollSpec

(* status.js:9 and :41: whatever the gateway answers and whichever reply   *)
(* is lost, the loop makes at most MAX_POLLS requests and counts them all. *)
THEOREM PollsAreBounded == PollSpec => []PollsBounded
<1>1. PollInv => PollsBounded
  BY PollAssumption DEF PollInv, PollTypeOK, Polls, LoopCounts, PollsBounded
<1> QED BY <1>1, PollInvariant, PTL

(* status.js:39-46: a loop with work left has shown the payer no verdict. *)
THEOREM NoEarlyVerdict == PollSpec => []NoVerdictWhileWatching
<1>1. PollInv => NoVerdictWhileWatching
  BY DEF PollInv
<1> QED BY <1>1, PollInvariant, PTL

-----------------------------------------------------------------------------
(* Every step of the loop is a step of OrderWatch or changes nothing in it. *)
LEMMA PollStepWatches ==
  PollInv /\ [PollNext]_pollVars => [Watch!WatchNext]_(Watch!watchVars)
<1> SUFFICES ASSUME PollInv, [PollNext]_pollVars
             PROVE  Watch!WatchNext \/ UNCHANGED Watch!watchVars
  OBVIOUS
<1> USE PollAssumption
<1> USE DEF PollInv, PollTypeOK, LoopUnstarted, LoopRemembers, NoVerdictWhileWatching
<1>1. CASE PollStatus
  <2>1. poll.loop = "off" /\ poll'.loop = "asking" /\ panel' = panel
        /\ UNCHANGED fromIssuer
    BY <1>1 DEF PollStatus, Started
  <2>2. panel' \in {"hidden", "processing"}
    BY <2>1
  <2>3. Watch!Begin
    BY <2>1, <2>2 DEF Watch!Begin
  <2> QED BY <2>3 DEF Watch!WatchNext
<1>2. ASSUME NEW r \in StatusReplies, HearStatus(r) PROVE Watch!WatchNext
  <2>1. r.status \in FinalStatuses \cup {"processing", "none"}
    BY DEF StatusReplies
  <2>2. poll.loop = "asking" /\ poll' = Heard(poll, r) /\ panel' = PanelAfter(poll, r)
        /\ UNCHANGED fromIssuer
    BY <1>2 DEF HearStatus
  <2>3. CASE /\ Heard(poll, r) = [poll EXCEPT !.loop = "told"]
             /\ PanelAfter(poll, r) \in FinalStatuses
    <3>1. poll'.loop = "told"
      BY <2>2, <2>3 DEF Polls
    <3>2. Watch!Tell
      BY <2>2, <2>3, <3>1 DEF Watch!Tell
    <3> QED BY <3>2 DEF Watch!WatchNext
  <2>4. CASE /\ Heard(poll, r) = [poll EXCEPT !.loop = "sent", !.redirected = TRUE]
             /\ PanelAfter(poll, r) \in FinalStatuses \cup {"processing"}
             /\ ~poll.redirected
    <3>1. poll'.loop = "sent" /\ ~fromIssuer
      BY <2>2, <2>4 DEF Polls
    <3>2. Watch!Escalate
      BY <2>2, <2>4, <3>1 DEF Watch!Escalate
    <3> QED BY <3>2 DEF Watch!WatchNext
  <2>5. CASE /\ Heard(poll, r) = [poll EXCEPT !.loop = "sleeping"]
             /\ PanelAfter(poll, r) = "processing"
    <3>1. poll'.loop = "sleeping"
      BY <2>2, <2>5 DEF Polls
    <3>2. Watch!Wait
      BY <2>2, <2>5, <3>1 DEF Watch!Wait
    <3> QED BY <3>2 DEF Watch!WatchNext
  <2> QED
    BY <2>1, <2>3, <2>4, <2>5, ReplyBranches DEF ToIssuer, IsFinal, FinalStatuses
<1>3. CASE LoseStatus
  <2>1. poll.loop = "asking" /\ poll'.loop = "told" /\ panel' \in FinalStatuses
        /\ UNCHANGED fromIssuer
    BY <1>3 DEF LoseStatus, GaveUp, Polls, FinalStatuses
  <2>2. Watch!Tell
    BY <2>1 DEF Watch!Tell
  <2> QED BY <2>2 DEF Watch!WatchNext
<1>4. CASE TimerFires
  <2>1. poll.loop = "sleeping" /\ poll'.loop = "asking" /\ panel' = panel
        /\ UNCHANGED fromIssuer
    BY <1>4 DEF TimerFires, Again, Polls
  <2> QED BY <2>1 DEF Watch!watchVars
<1>5. CASE Rest \/ UNCHANGED pollVars
  BY <1>5 DEF Rest, pollVars, Watch!watchVars
<1> QED BY <1>1, <1>2, <1>3, <1>4, <1>5 DEF PollNext

(* Whatever the gateway answers, the loop keeps the safety half of the     *)
(* promise to the payer: it waits in "processing", tells one outcome and   *)
(* keeps it, or goes to the issuer - once, and not from the return page.   *)
THEOREM PollKeepsWatch == PollSpec => Watch!WatchSafety
<1>1. PollInit => Watch!WatchInit
  BY DEF PollInit, NoPoll, Watch!WatchInit
<1>2. PollInv /\ [PollNext]_pollVars => [Watch!WatchNext]_(Watch!watchVars)
  BY PollStepWatches
<1> QED BY <1>1, <1>2, PollInvariant, PTL DEF PollSpec, Watch!WatchSafety
==============================================================================
