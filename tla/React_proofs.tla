------------------------------ MODULE React_proofs ------------------------------
(***************************************************************************)
(* useOrderStatus() of the two React ports for any MAX_POLLS, any base     *)
(* paths and any statuses the panel has words for: the types it keeps to,  *)
(* the silence of a run of its effect that was cleaned up, and the safety  *)
(* half of the promise made to the payer.                                  *)
(***************************************************************************)
EXTENDS ReactPage, TLAPS

-----------------------------------------------------------------------------
(* The two ports have sources of their own for one and the same hook. *)

LEMMA OneHook ==
  ASSUME NEW w, NEW i, NEW data, NEW o
  PROVE  /\ GP!orderEffect(w, o) = NP!orderEffect(w, o)
         /\ GP!orderCleanup(w, i) = NP!orderCleanup(w, i)
         /\ GP!statusReplied(w, i, data) = NP!statusReplied(w, i, data)
         /\ GP!statusLost(w, i) = NP!statusLost(w, i)
         /\ GP!timerFired(w, i) = NP!timerFired(w, i)
<1>1. GP!orderEffect(w, o) = NP!orderEffect(w, o)
  BY DEF GP!orderEffect, NP!orderEffect
<1>2. GP!orderCleanup(w, i) = NP!orderCleanup(w, i)
  BY DEF GP!orderCleanup, NP!orderCleanup
<1>3. GP!statusReplied(w, i, data) = NP!statusReplied(w, i, data)
  BY DEF GP!statusReplied, NP!statusReplied, NP!toIssuer, NP!lastTry, NP!statusMissing,
         GP!FINAL_STATUSES, NP!FINAL_STATUSES, GP!Field, NP!Field, GP!ErrorData, NP!ErrorData,
         GP!NoStatusText, NP!NoStatusText, GP!TimeoutText, NP!TimeoutText
<1>4. GP!statusLost(w, i) = NP!statusLost(w, i)
  BY DEF GP!statusLost, NP!statusLost, GP!ErrorData, NP!ErrorData, GP!FailedText, NP!FailedText
<1>5. GP!timerFired(w, i) = NP!timerFired(w, i)
  BY DEF GP!timerFired, NP!timerFired
<1> QED BY <1>1, <1>2, <1>3, <1>4, <1>5

-----------------------------------------------------------------------------
(* The panel. *)

CopyOf(data) ==
  LET key == Lower(IF "status" \in DOMAIN data THEN data["status"] ELSE "processing")
  IN  IF key \in NP!STATUS_COPY THEN key ELSE "error"

LEMMA CopyOfPanel ==
  ASSUME NEW data
  PROVE  NP!StatusPanel(data).copy = CopyOf(data) /\ GP!StatusPanel(data).copy = CopyOf(data)
BY DEF NP!StatusPanel, GP!StatusPanel, CopyOf, NP!STATUS_COPY, GP!STATUS_COPY,
       NP!FINAL_STATUSES, GP!FINAL_STATUSES, NP!Lower, GP!Lower, Lower

(* Where nothing was polled yet the return page has no panel, and the      *)
(* payment page one that says "processing".                                *)
LEMMA ShownIs ==
  ASSUME NEW p, NEW d \in {"form", "result"}, NEW o, NEW w,
         d = "form" /\ o = <<>> => w.polled = <<>>
  PROVE  ShownOn(p, d, o, w) =
           IF w.polled # <<>> THEN CopyOf(w.polled[1])
           ELSE IF d = "result" THEN "hidden" ELSE "processing"
<1>1. CopyOf(Processing) = "processing"
  BY DEF CopyOf, Processing, Lower, NP!STATUS_COPY
<1>2. CASE d = "result"
  <2>1. NP!ResultView(w, "7") = IF w.polled # <<>> THEN <<NP!StatusPanel(w.polled[1])>> ELSE <<>>
    BY DEF NP!ResultView, NP!NoPanel
  <2>2. GP!ResultView(w, "7") = IF w.polled # <<>> THEN <<GP!StatusPanel(w.polled[1])>> ELSE <<>>
    BY DEF GP!ResultView, GP!NoPanel
  <2> QED BY <1>2, <2>1, <2>2, CopyOfPanel DEF ShownOn, Panel
<1>3. CASE d = "form"
  <2> DEFINE page == [NP!CheckoutForm EXCEPT !.inFlight = TRUE, !.order = o, !.watch = w]
             data == IF w.polled = <<>> THEN Processing ELSE w.polled[1]
  <2>1. page.watch = w /\ page.order = o
    BY DEF NP!CheckoutForm
  <2>2. page.inFlight
    BY DEF NP!CheckoutForm
  <2> HIDE DEF page
  <2>3. NP!panel(page) = <<NP!StatusPanel(data)>>
    BY <1>3, <2>1, <2>2 DEF NP!panel, NP!NoOrder, NP!Processing, Processing
  <2>4. GP!panel(page) = <<GP!StatusPanel(data)>>
    BY <1>3, <2>1, <2>2 DEF GP!panel, GP!NoOrder, GP!Processing, Processing
  <2>5. Panel(p, d, o, w) = IF p = "nextjs" THEN NP!panel(page) ELSE GP!panel(page)
    BY <1>3 DEF Panel, page
  <2>6. ShownOn(p, d, o, w) = CopyOf(data)
    BY <2>3, <2>4, <2>5, CopyOfPanel DEF ShownOn
  <2> QED BY <1>1, <1>3, <2>6
<1> QED BY <1>2, <1>3

LEMMA ErrorCopy == ASSUME NEW message PROVE CopyOf(ErrorData(message)) = "error"
BY DEF CopyOf, ErrorData, Lower, NP!STATUS_COPY, NP!FINAL_STATUSES

(* What the replies of the gateway come to. *)
LEMMA ReplyIs ==
  ASSUME NEW data \in StatusReplies
  PROVE  \/ Field(data, "status") = ""
         \/ /\ Field(data, "status") \in GatewayStatuses
            /\ CopyOf(data) = Field(data, "status")
<1>1. GatewayStatuses \subseteq NP!STATUS_COPY
  BY ReactAssumption
<1>2. CASE data = <<>> \/ data = [error |-> "no answer"]
  <2>1. "status" \notin DOMAIN data
    <3>1. CASE data = <<>>
      <4>1. DOMAIN data = {}
        BY <3>1
      <4> QED BY <4>1
    <3>2. CASE data = [error |-> "no answer"]
      <4>1. DOMAIN data = {"error"}
        BY <3>2
      <4> QED BY <4>1
    <3> QED BY <1>2, <3>1, <3>2
  <2> QED BY <2>1 DEF Field
<1>3. ASSUME NEW s \in GatewayStatuses, data = [status |-> s] \/ data = ToIssuerReply(s)
      PROVE  Field(data, "status") = s /\ CopyOf(data) = s
  <2>1. "status" \in DOMAIN data /\ data["status"] = s
    BY <1>3 DEF ToIssuerReply
  <2>2. Lower(s) = s /\ s \in NP!STATUS_COPY
    BY <1>1 DEF Lower, NP!STATUS_COPY, NP!FINAL_STATUSES
  <2> QED BY <2>1, <2>2 DEF Field, CopyOf
<1> QED BY <1>2, <1>3 DEF StatusReplies

-----------------------------------------------------------------------------
(* The invariant.  A run of the effect speaks while it is the last one.    *)

RunRecords == [active: BOOLEAN, attempts: 1..PollsMax, at: {"asking", "sleeping", "over"}]

Shape(w) ==
  /\ w = [polled |-> w.polled, redirected |-> w.redirected, left |-> w.left, runs |-> w.runs]
  /\ w.polled = <<>> \/ w.polled = <<w.polled[1]>>
  /\ w.redirected \in BOOLEAN
  /\ w.left \in Nat
  /\ w.runs \in Seq(RunRecords)
  /\ Len(w.runs) <= 2

LastRun(w) == w.runs[Len(w.runs)]

LastRunSpeaks(w) ==
  \A i \in DOMAIN w.runs: /\ w.runs[i].active <=> i = Len(w.runs)
                          /\ w.runs[i].at = "sleeping" => i = Len(w.runs)

(* The timer is set only while another poll is allowed. *)
TimerIsAllowed(w) ==
  \A i \in DOMAIN w.runs: w.runs[i].at = "sleeping" => w.runs[i].attempts < PollsMax

(* While the hook asks it has said "processing", or nothing at all, and    *)
(* has sent the payer nowhere.                                             *)
NothingToldYet(w) ==
  w.runs = <<>> \/ LastRun(w).at # "over" =>
    w.left = 0 /\ (w.polled = <<>> \/ CopyOf(w.polled[1]) = "processing")

(* It never stops without a word, and says none before it starts. *)
ToldWhenOver(w) ==
  IF w.runs = <<>> THEN w.polled = <<>> ELSE LastRun(w).at = "over" => w.polled # <<>>

(* A payer who came back from the issuer is known to have been there. *)
KnowsWhoIsBack(d, w) == d = "result" /\ w.runs # <<>> => w.redirected

WatchInv(d, w) ==
  Shape(w) /\ LastRunSpeaks(w) /\ TimerIsAllowed(w) /\ NothingToldYet(w) /\ ToldWhenOver(w)
    /\ KnowsWhoIsBack(d, w)

HookInv ==
  /\ port \in Ports /\ strict \in BOOLEAN
  /\ document \in {"form", "result"}
  /\ basePath \in BasePaths \cup {""}
  /\ order = <<>> \/ order = <<order[1]>>
  /\ order = <<>> => watch = NP!NoWatch
  /\ WatchInv(document, watch)

-----------------------------------------------------------------------------
(* What a request or a timer of run `i` may come to. *)

After(w, i, at, attempts, polled, redirected, left) ==
  [polled |-> polled, redirected |-> redirected, left |-> left,
   runs |-> [w.runs EXCEPT ![i] = [active |-> w.runs[i].active, attempts |-> attempts, at |-> at]]]

Silent(w, i, v) ==
  i # Len(w.runs) /\ v = After(w, i, "over", w.runs[i].attempts, w.polled, w.redirected, w.left)

Tells(w, i, v, data) ==
  /\ i = Len(w.runs) /\ CopyOf(data) \in NP!FINAL_STATUSES
  /\ v = After(w, i, "over", w.runs[i].attempts, <<data>>, w.redirected, w.left)

Sends(w, i, v, data) ==
  /\ i = Len(w.runs) /\ ~w.redirected /\ CopyOf(data) \in NP!STATUS_COPY
  /\ v = After(w, i, "over", w.runs[i].attempts, <<data>>, TRUE, w.left + 1)

Waits(w, i, v, data) ==
  /\ i = Len(w.runs) /\ w.runs[i].attempts < PollsMax /\ CopyOf(data) = "processing"
  /\ v = After(w, i, "sleeping", w.runs[i].attempts, <<data>>, w.redirected, w.left)

Asks(w, i, v) ==
  /\ i = Len(w.runs) /\ w.runs[i].at = "sleeping"
  /\ v = After(w, i, "asking", w.runs[i].attempts + 1, w.polled, w.redirected, w.left)

LEMMA Looks ==
  ASSUME NEW w, Shape(w), NEW i \in DOMAIN w.runs
  PROVE  /\ i \in 1..Len(w.runs)
         /\ w.runs[i].active \in BOOLEAN
         /\ w.runs[i].attempts \in 1..PollsMax
         /\ w.runs[i].at \in {"asking", "sleeping", "over"}
         /\ w.runs[i] = [active |-> w.runs[i].active, attempts |-> w.runs[i].attempts,
                         at |-> w.runs[i].at]
<1>1. i \in 1..Len(w.runs) /\ w.runs[i] \in RunRecords
  BY DEF Shape
<1> QED BY <1>1 DEF RunRecords

(* `done` of the code. *)
LEMMA Done ==
  ASSUME NEW w, Shape(w), NEW i \in DOMAIN w.runs, NEW at
  PROVE  [w EXCEPT !.runs[i].at = at]
           = After(w, i, at, w.runs[i].attempts, w.polled, w.redirected, w.left)
<1>1. w = [polled |-> w.polled, redirected |-> w.redirected, left |-> w.left, runs |-> w.runs]
  BY DEF Shape
<1>2. [w.runs[i] EXCEPT !.at = at]
        = [active |-> w.runs[i].active, attempts |-> w.runs[i].attempts, at |-> at]
  <2> DEFINE run == w.runs[i]
  <2>1. run = [active |-> run.active, attempts |-> run.attempts, at |-> run.at]
    BY Looks
  <2> HIDE DEF run
  <2>2. [run EXCEPT !.at = at] = [active |-> run.active, attempts |-> run.attempts, at |-> at]
    BY <2>1
  <2> QED BY <2>2 DEF run
<1> QED BY <1>1, <1>2 DEF After

(* A reply, a loss and a timer of run `i`. *)
LEMMA RepliedComesTo ==
  ASSUME NEW w, Shape(w), LastRunSpeaks(w), NEW i \in DOMAIN w.runs, NEW data \in StatusReplies
  PROVE  LET v == NP!statusReplied(w, i, data)
         IN  \/ Silent(w, i, v)
             \/ \E said: Tells(w, i, v, said) \/ Sends(w, i, v, said) \/ Waits(w, i, v, said)
<1> DEFINE v == NP!statusReplied(w, i, data)
           run == w.runs[i]
           status == Field(data, "status")
           done == [w EXCEPT !.runs[i].at = "over"]
           over == After(w, i, "over", run.attempts, w.polled, w.redirected, w.left)
<1>1. run.active <=> i = Len(w.runs)
  BY DEF LastRunSpeaks
<1>2. done = over
  BY Done
<1>3. /\ run.attempts \in 1..PollsMax
      /\ PollsMax \in Nat
  BY Looks, PageAssumption
<1>4. NP!Field(data, "status") = status
  BY DEF NP!Field, Field
<1>5. CASE ~run.active
  <2>1. v = done
    BY <1>5 DEF NP!statusReplied
  <2> QED BY <1>1, <1>2, <1>5, <2>1 DEF Silent
<1>6. CASE run.active /\ status = ""
  <2>1. PICK said : v = [done EXCEPT !.polled = <<said>>] /\ CopyOf(said) = "error"
    <3>1. PICK message : v = [done EXCEPT !.polled = <<NP!ErrorData(message)>>]
      BY <1>4, <1>6 DEF NP!statusReplied, NP!statusMissing
    <3>2. CopyOf(NP!ErrorData(message)) = "error"
      BY ErrorCopy DEF NP!ErrorData, ErrorData
    <3> QED BY <3>1, <3>2
  <2>2. v = After(w, i, "over", run.attempts, <<said>>, w.redirected, w.left)
    BY <1>2, <2>1 DEF After
  <2> QED BY <1>1, <1>6, <2>1, <2>2 DEF Tells, NP!FINAL_STATUSES
<1>7. CASE run.active /\ status # ""
  <2>1. status \in NP!STATUS_COPY /\ CopyOf(data) = status
    BY <1>7, ReplyIs, ReactAssumption
  <2>2. CASE NP!toIssuer(w, data)
    <3>1. v = [done EXCEPT !.polled = <<data>>, !.redirected = TRUE, !.left = @ + 1]
      BY <1>4, <1>7, <2>2 DEF NP!statusReplied
    <3>2. v = After(w, i, "over", run.attempts, <<data>>, TRUE, w.left + 1)
      BY <1>2, <3>1 DEF After
    <3>3. ~w.redirected
      BY <2>2 DEF NP!toIssuer
    <3> QED BY <1>1, <1>7, <2>1, <3>2, <3>3 DEF Sends
  <2>3. CASE ~NP!toIssuer(w, data) /\ status \in NP!FINAL_STATUSES
    <3>1. v = [done EXCEPT !.polled = <<data>>]
      BY <1>4, <1>7, <2>3 DEF NP!statusReplied
    <3>2. v = After(w, i, "over", run.attempts, <<data>>, w.redirected, w.left)
      BY <1>2, <3>1 DEF After
    <3> QED BY <1>1, <1>7, <2>1, <2>3, <3>2 DEF Tells
  <2>4. CASE ~NP!toIssuer(w, data) /\ status \notin NP!FINAL_STATUSES /\ run.attempts >= PollsMax
    <3> DEFINE said == NP!ErrorData(NP!TimeoutText)
    <3>1. v = [done EXCEPT !.polled = <<said>>]
      BY <1>4, <1>7, <2>4 DEF NP!statusReplied, NP!lastTry
    <3>2. v = After(w, i, "over", run.attempts, <<said>>, w.redirected, w.left)
      BY <1>2, <3>1 DEF After
    <3>3. CopyOf(said) = "error"
      BY ErrorCopy DEF NP!ErrorData, ErrorData
    <3> HIDE DEF said
    <3> QED BY <1>1, <1>7, <3>2, <3>3 DEF Tells, NP!FINAL_STATUSES
  <2>5. CASE ~NP!toIssuer(w, data) /\ status \notin NP!FINAL_STATUSES /\ ~(run.attempts >= PollsMax)
    <3>1. v = [w EXCEPT !.polled = <<data>>, !.runs[i].at = "sleeping"]
      BY <1>4, <1>7, <2>5 DEF NP!statusReplied, NP!lastTry
    <3>2. [w EXCEPT !.runs[i].at = "sleeping"]
            = After(w, i, "sleeping", run.attempts, w.polled, w.redirected, w.left)
      BY Done
    <3>3. v = [[w EXCEPT !.runs[i].at = "sleeping"] EXCEPT !.polled = <<data>>]
      BY <3>1 DEF Shape
    <3>4. v = After(w, i, "sleeping", run.attempts, <<data>>, w.redirected, w.left)
      BY <3>2, <3>3 DEF After
    <3>5. run.attempts < PollsMax
      BY <1>3, <2>5
    <3>6. CopyOf(data) = "processing"
      BY <2>1, <2>5 DEF NP!STATUS_COPY
    <3> QED BY <1>1, <1>7, <3>4, <3>5, <3>6 DEF Waits
  <2> QED BY <2>2, <2>3, <2>4, <2>5
<1> QED BY <1>5, <1>6, <1>7

LEMMA LostComesTo ==
  ASSUME NEW w, Shape(w), LastRunSpeaks(w), NEW i \in DOMAIN w.runs
  PROVE  LET v == NP!statusLost(w, i)
         IN  Silent(w, i, v) \/ \E said: Tells(w, i, v, said)
<1> DEFINE v == NP!statusLost(w, i)
           run == w.runs[i]
           done == [w EXCEPT !.runs[i].at = "over"]
           said == NP!ErrorData(NP!FailedText)
<1>1. run.active <=> i = Len(w.runs)
  BY DEF LastRunSpeaks
<1>2. done = After(w, i, "over", run.attempts, w.polled, w.redirected, w.left)
  BY Done
<1>3. CASE ~run.active
  <2>1. v = done
    BY <1>3 DEF NP!statusLost
  <2> QED BY <1>1, <1>2, <1>3, <2>1 DEF Silent
<1>4. CASE run.active
  <2>1. v = [done EXCEPT !.polled = <<said>>]
    BY <1>4 DEF NP!statusLost
  <2>2. v = After(w, i, "over", run.attempts, <<said>>, w.redirected, w.left)
    BY <1>2, <2>1 DEF After
  <2>3. CopyOf(said) = "error"
    BY ErrorCopy DEF NP!ErrorData, ErrorData
  <2> HIDE DEF said
  <2> QED BY <1>1, <1>4, <2>2, <2>3 DEF Tells, NP!FINAL_STATUSES
<1> QED BY <1>3, <1>4

LEMMA FiredComesTo ==
  ASSUME NEW w, Shape(w), LastRunSpeaks(w), NEW i \in DOMAIN w.runs, w.runs[i].at = "sleeping"
  PROVE  Asks(w, i, NP!timerFired(w, i))
<1> DEFINE run == w.runs[i]
<1>1. i = Len(w.runs)
  BY DEF LastRunSpeaks
<1>2. [w EXCEPT !.runs[i].at = "asking"]
        = After(w, i, "asking", run.attempts, w.polled, w.redirected, w.left)
  BY Done
<1>3. NP!timerFired(w, i)
        = [[w EXCEPT !.runs[i].at = "asking"] EXCEPT !.runs[i].attempts = run.attempts + 1]
  BY DEF NP!timerFired, Shape
<1>4. NP!timerFired(w, i)
        = After(w, i, "asking", run.attempts + 1, w.polled, w.redirected, w.left)
  <2> DEFINE asking == [w EXCEPT !.runs[i].at = "asking"]
             first == [active |-> run.active, attempts |-> run.attempts, at |-> "asking"]
             then == [active |-> run.active, attempts |-> run.attempts + 1, at |-> "asking"]
  <2>1. asking = [polled |-> w.polled, redirected |-> w.redirected, left |-> w.left,
                  runs |-> [w.runs EXCEPT ![i] = first]]
    BY <1>2 DEF After
  <2>2. asking.runs[i] = first /\ [first EXCEPT !.attempts = run.attempts + 1] = then
    BY <2>1 DEF Shape
  <2>3. [asking.runs EXCEPT ![i] = then] = [w.runs EXCEPT ![i] = then]
    BY <2>1 DEF Shape
  <2> HIDE DEF first, then, run, asking
  <2>4. [asking EXCEPT !.runs[i].attempts = run.attempts + 1]
          = [polled |-> w.polled, redirected |-> w.redirected, left |-> w.left,
             runs |-> [w.runs EXCEPT ![i] = then]]
    BY <2>1, <2>2, <2>3
  <2> QED BY <1>3, <2>4 DEF After, then, run, asking
<1> QED BY <1>1, <1>4 DEF Asks

-----------------------------------------------------------------------------
(* Each of them keeps the invariant. *)

IsAfter(v, w, i, at, n, polled, redirected, left) ==
  /\ v = [polled |-> v.polled, redirected |-> v.redirected, left |-> v.left,
           runs |-> v.runs]
  /\ v.polled = polled /\ v.redirected = redirected /\ v.left = left
  /\ v.runs \in Seq(RunRecords)
  /\ Len(v.runs) = Len(w.runs) /\ DOMAIN v.runs = DOMAIN w.runs
  /\ v.runs # <<>> /\ w.runs # <<>>
  /\ v.runs[i] = [active |-> w.runs[i].active, attempts |-> n, at |-> at]
  /\ \A j \in DOMAIN w.runs: j # i => v.runs[j] = w.runs[j]
  /\ LastRun(v) = IF i = Len(w.runs) THEN v.runs[i] ELSE LastRun(w)

LEMMA AfterIs ==
  ASSUME NEW w, Shape(w), NEW i \in DOMAIN w.runs, NEW polled, NEW redirected, NEW left,
         NEW at \in {"asking", "sleeping", "over"}, NEW n \in 1..PollsMax, NEW v,
         v = After(w, i, at, n, polled, redirected, left)
  PROVE  IsAfter(v, w, i, at, n, polled, redirected, left)
<1> DEFINE run == [active |-> w.runs[i].active, attempts |-> n, at |-> at]
<1>1. v = [polled |-> polled, redirected |-> redirected, left |-> left,
           runs |-> [w.runs EXCEPT ![i] = run]]
  BY DEF After
<1>2. run \in RunRecords
  BY Looks DEF RunRecords
<1>3. w.runs \in Seq(RunRecords) /\ i \in 1..Len(w.runs) /\ Len(w.runs) \in Nat
  BY DEF Shape
<1> HIDE DEF run
<1>4. /\ v.runs \in Seq(RunRecords) /\ Len(v.runs) = Len(w.runs) /\ DOMAIN v.runs = DOMAIN w.runs
      /\ v.runs[i] = run
      /\ \A j \in DOMAIN w.runs: j # i => v.runs[j] = w.runs[j]
  BY <1>1, <1>2, <1>3
<1>5. v.runs # <<>> /\ w.runs # <<>> /\ Len(w.runs) \in DOMAIN w.runs
  BY <1>3, <1>4
<1>6. LastRun(v) = IF i = Len(w.runs) THEN v.runs[i] ELSE LastRun(w)
  BY <1>4, <1>5 DEF LastRun
<1> QED BY <1>1, <1>4, <1>5, <1>6 DEF run, IsAfter

LEMMA SilentKeeps ==
  ASSUME NEW d, NEW w, WatchInv(d, w), NEW i \in DOMAIN w.runs, NEW v, Silent(w, i, v)
  PROVE  WatchInv(d, v) /\ LastRun(v) = LastRun(w) /\ v.polled = w.polled /\ v.left = w.left
           /\ v.runs # <<>> /\ w.runs # <<>>
<1>0. Shape(w) /\ LastRunSpeaks(w) /\ TimerIsAllowed(w) /\ NothingToldYet(w) /\ ToldWhenOver(w)
      /\ KnowsWhoIsBack(d, w)
  BY DEF WatchInv
<1> DEFINE n == w.runs[i].attempts
<1>1. n \in 1..PollsMax /\ v = After(w, i, "over", n, w.polled, w.redirected, w.left) /\ i # Len(w.runs)
  BY <1>0, Looks DEF Silent
<1> HIDE DEF n
<1>2. IsAfter(v, w, i, "over", n, w.polled, w.redirected, w.left)
  BY <1>0, <1>1, AfterIs
<1>3. Shape(v)
  BY <1>0, <1>1, <1>2 DEF IsAfter, Shape
<1>4. LastRunSpeaks(v) /\ TimerIsAllowed(v)
  BY <1>0, <1>1, <1>2 DEF IsAfter, LastRunSpeaks, TimerIsAllowed
<1>5. NothingToldYet(v) /\ ToldWhenOver(v) /\ KnowsWhoIsBack(d, v)
  BY <1>0, <1>1, <1>2 DEF IsAfter, NothingToldYet, ToldWhenOver, KnowsWhoIsBack
<1> QED BY <1>1, <1>2, <1>3, <1>4, <1>5 DEF WatchInv, IsAfter

(* The steps of the last run: whatever it has to say comes with its end,   *)
(* or is "processing".                                                     *)
Fits(w, at, n, polled, redirected, left) ==
  /\ at \in {"asking", "sleeping", "over"} /\ n \in 1..PollsMax
  /\ redirected \in BOOLEAN /\ left \in Nat
  /\ w.redirected => redirected
  /\ at = "sleeping" => n < PollsMax
  /\ polled = <<>> \/ polled = <<polled[1]>>
  /\ at = "over" => polled # <<>>
  /\ at # "over" => left = 0 /\ (polled = <<>> \/ CopyOf(polled[1]) = "processing")

LEMMA SpeakingKeeps ==
  ASSUME NEW d, NEW w, WatchInv(d, w), NEW i \in DOMAIN w.runs, NEW v, i = Len(w.runs),
         NEW at, NEW n, NEW polled, NEW redirected, NEW left,
         Fits(w, at, n, polled, redirected, left),
         v = After(w, i, at, n, polled, redirected, left)
  PROVE  WatchInv(d, v) /\ LastRun(v).at = at /\ v.polled = polled /\ v.left = left
           /\ v.runs # <<>> /\ w.runs # <<>>
<1> USE DEF Fits
<1>0. Shape(w) /\ LastRunSpeaks(w) /\ TimerIsAllowed(w) /\ NothingToldYet(w) /\ ToldWhenOver(w)
      /\ KnowsWhoIsBack(d, w)
  BY DEF WatchInv
<1>1. IsAfter(v, w, i, at, n, polled, redirected, left)
  BY <1>0, AfterIs
<1>2. Shape(v)
  BY <1>0, <1>1 DEF IsAfter, Shape
<1>3. LastRunSpeaks(v) /\ TimerIsAllowed(v)
  BY <1>0, <1>1 DEF IsAfter, LastRunSpeaks, TimerIsAllowed
<1>4. LastRun(v).at = at
  BY <1>1 DEF IsAfter
<1>5. NothingToldYet(v) /\ ToldWhenOver(v) /\ KnowsWhoIsBack(d, v)
  BY <1>0, <1>1, <1>4 DEF IsAfter, NothingToldYet, ToldWhenOver, KnowsWhoIsBack
<1> QED BY <1>1, <1>2, <1>3, <1>4, <1>5 DEF WatchInv, IsAfter

(* How an order starts: with one run of the effect, or, in a development   *)
(* build, with one that was cleaned up and one that goes on.               *)

Live == [active |-> TRUE, attempts |-> 1, at |-> "asking"]
Dead == [Live EXCEPT !.active = FALSE, !.at = IF @ = "sleeping" THEN "over" ELSE @]
Once == Append(<<>>, Live)
Twice == Append(<<Dead>>, Live)
Started(back, runs) == [polled |-> <<>>, redirected |-> back, left |-> 0, runs |-> runs]

LEMMA NotStartedKeeps == ASSUME NEW d PROVE WatchInv(d, NP!NoWatch)
BY DEF NP!NoWatch, WatchInv, Shape, LastRunSpeaks, TimerIsAllowed, NothingToldYet, ToldWhenOver,
       KnowsWhoIsBack

LEMMA StartedKeeps ==
  ASSUME NEW d, NEW back \in BOOLEAN, d = "result" => back, NEW runs \in {Once, Twice}
  PROVE  /\ WatchInv(d, Started(back, runs))
         /\ runs # <<>> /\ LastRun(Started(back, runs)).at = "asking"
<1> DEFINE w == Started(back, runs)
<1>0. w.polled = <<>> /\ w.redirected = back /\ w.left = 0 /\ w.runs = runs
      /\ w = [polled |-> w.polled, redirected |-> w.redirected, left |-> w.left, runs |-> w.runs]
  BY DEF Started
<1> HIDE DEF w
<1>1. Live \in RunRecords /\ Dead \in RunRecords
  <2>1. Live \in RunRecords
    BY PageAssumption DEF Live, RunRecords
  <2> QED BY <2>1 DEF Dead, RunRecords
<1>2. Live.active /\ ~Dead.active /\ Live.at = "asking" /\ Dead.at = "asking"
  BY DEF Live, Dead
<1>3. /\ runs \in Seq(RunRecords) /\ Len(runs) \in 1..2
      /\ \A i \in 1..Len(runs): runs[i] = IF i = Len(runs) THEN Live ELSE Dead
  <2>1. CASE runs = Once
    BY <1>1, <2>1 DEF Once
  <2>2. CASE runs = Twice
    <3>1. <<Dead>> \in Seq(RunRecords) /\ Len(<<Dead>>) = 1 /\ <<Dead>>[1] = Dead
      BY <1>1
    <3>2. runs \in Seq(RunRecords) /\ Len(runs) = 2 /\ runs[1] = Dead /\ runs[2] = Live
      BY <1>1, <2>2, <3>1 DEF Twice
    <3> QED BY <3>2
  <2> QED BY <2>1, <2>2
<1>4. runs # <<>> /\ DOMAIN runs = 1..Len(runs) /\ runs[Len(runs)] = Live
  BY <1>3
<1>5. LastRun(w).at = "asking"
  BY <1>0, <1>2, <1>4 DEF LastRun
<1>6. Shape(w)
  BY <1>0, <1>3 DEF Shape
<1>7. \A i \in DOMAIN runs: runs[i].at = "asking" /\ (runs[i].active <=> i = Len(runs))
  BY <1>2, <1>3, <1>4
<1>8. LastRunSpeaks(w) /\ TimerIsAllowed(w)
  BY <1>0, <1>7 DEF LastRunSpeaks, TimerIsAllowed
<1>9. NothingToldYet(w) /\ ToldWhenOver(w) /\ KnowsWhoIsBack(d, w)
  BY <1>0, <1>4, <1>5 DEF NothingToldYet, ToldWhenOver, KnowsWhoIsBack
<1> QED BY <1>4, <1>5, <1>6, <1>8, <1>9 DEF WatchInv, w

LEMMA EffectAdds ==
  ASSUME NEW o, NEW before, NEW runs, o.basePath # "", o.orderId # "", o.clientOrderId # ""
  PROVE  NP!orderEffect(Started(before, runs), o) = Started(o.redirected, Append(runs, Live))
BY DEF NP!orderEffect, Started, Live

LEMMA EffectStarts ==
  ASSUME NEW path, NEW back
  PROVE  LET o == NewOrder(path, back)
             once == NP!orderEffect(NP!NoWatch, o)
         IN  \/ once = NP!NoWatch
             \/ /\ once = Started(back, Once)
                /\ NP!orderEffect(NP!orderCleanup(once, 1), o) = Started(back, Twice)
<1> DEFINE o == NewOrder(path, back)
           once == NP!orderEffect(NP!NoWatch, o)
           first == Started(back, Once)
           second == Started(back, <<Dead>>)
<1>0. o.basePath = path /\ o.orderId = "7" /\ o.clientOrderId = "c" /\ o.redirected = back
  BY DEF NewOrder
<1> HIDE DEF o
<1>1. CASE path = ""
  <2>1. once = NP!NoWatch
    BY <1>0, <1>1 DEF NP!orderEffect
  <2> QED BY <2>1 DEF o
<1>2. CASE path # ""
  <2>1. once = first
    <3>1. NP!NoWatch = Started(FALSE, <<>>)
      BY DEF NP!NoWatch, Started
    <3>2. NP!orderEffect(Started(FALSE, <<>>), o) = Started(o.redirected, Append(<<>>, Live))
      BY <1>0, <1>2, EffectAdds
    <3> QED BY <1>0, <3>1, <3>2 DEF Once
  <2>2. NP!orderCleanup(first, 1) = second
    <3>1. NP!orderCleanup(first, 1) = [first EXCEPT !.runs = [@ EXCEPT ![1] = Dead]]
      <4>1. Once[1] = Live
        BY DEF Once
      <4> QED BY <4>1 DEF NP!orderCleanup, Started, Dead
    <3>2. [Once EXCEPT ![1] = Dead] = <<Dead>>
      BY DEF Once
    <3> QED BY <3>1, <3>2 DEF Started
  <2>3. NP!orderEffect(second, o) = Started(back, Twice)
    <3>1. NP!orderEffect(second, o) = Started(o.redirected, Append(<<Dead>>, Live))
      BY <1>0, <1>2, EffectAdds
    <3> QED BY <1>0, <3>1 DEF Twice
  <2> QED BY <2>1, <2>2, <2>3 DEF o
<1> QED BY <1>1, <1>2

-----------------------------------------------------------------------------
(* The steps of a document: an order starts, or a run of the effect hears, *)
(* loses or is woken.                                                      *)

Starts(w) ==
  /\ order = <<>> /\ order' = <<order'[1]>>
  /\ \/ w = NP!NoWatch
     \/ \E back \in BOOLEAN, runs \in {Once, Twice}:
          (document = "result" <=> back) /\ w = Started(back, runs)

RunMoves(i, v) ==
  \/ Silent(watch, i, v)
  \/ Asks(watch, i, v)
  \/ watch.runs[i].at = "asking" /\ \E said: Tells(watch, i, v, said)
  \/ watch.runs[i].at = "asking" /\ \E said: Sends(watch, i, v, said)
  \/ watch.runs[i].at = "asking" /\ \E said: Waits(watch, i, v, said)

LEMMA HookSteps ==
  HookInv /\ ReactNext =>
    /\ UNCHANGED <<port, strict, document>> /\ basePath' \in {basePath, ""}
    /\ \/ Starts(watch')
       \/ UNCHANGED order /\ \E i \in Runs: RunMoves(i, watch')
<1> SUFFICES ASSUME HookInv, ReactNext
             PROVE  /\ UNCHANGED <<port, strict, document>> /\ basePath' \in {basePath, ""}
                    /\ \/ Starts(watch')
                       \/ UNCHANGED order /\ \E i \in Runs: RunMoves(i, watch')
  OBVIOUS
<1>0. Shape(watch) /\ LastRunSpeaks(watch)
  BY DEF HookInv, WatchInv
<1>1. CASE OrderAccepted
  <2>1. order = <<>> /\ watch = NP!NoWatch /\ document = "form" /\ order' = <<order'[1]>>
        /\ order'[1] = NewOrder(basePath, FALSE) /\ UNCHANGED <<port, strict, document, basePath>>
    BY <1>1 DEF OrderAccepted, HookInv
  <2>2. watch' = NP!orderEffect(NP!NoWatch, NewOrder(basePath, FALSE))
    BY <1>1, <2>1, OneHook DEF OrderAccepted, Effect
  <2>3. watch' = NP!NoWatch \/ watch' = Started(FALSE, Once)
    BY <2>2, EffectStarts
  <2> QED BY <2>1, <2>3 DEF Starts
<1>2. ASSUME NEW configLost \in BOOLEAN, ResultMounts(configLost)
      PROVE  UNCHANGED <<port, strict, document>> /\ basePath' \in {basePath, ""} /\ Starts(watch')
  <2> DEFINE o == NewOrder(basePath', TRUE)
             once == NP!orderEffect(NP!NoWatch, o)
  <2>1. order = <<>> /\ watch = NP!NoWatch /\ document = "result" /\ order' = <<order'[1]>>
        /\ order'[1] = o /\ UNCHANGED <<port, strict, document>> /\ basePath' \in {basePath, ""}
    BY <1>2 DEF ResultMounts, HookInv
  <2>2. Effect(watch, order'[1]) = once
    BY <2>1, OneHook DEF Effect
  <2>3. Effect(Cleanup(once, 1), order'[1]) = NP!orderEffect(NP!orderCleanup(once, 1), o)
    BY <2>1, OneHook DEF Effect, Cleanup
  <2>4. watch' = once \/ (watch' = NP!orderEffect(NP!orderCleanup(once, 1), o) /\ once.runs # <<>>)
    BY <1>2, <2>2, <2>3 DEF ResultMounts
  <2>5. NP!NoWatch.runs = <<>>
    BY DEF NP!NoWatch
  <2>6. watch' = NP!NoWatch \/ watch' = Started(TRUE, Once) \/ watch' = Started(TRUE, Twice)
    BY <2>4, <2>5, EffectStarts
  <2> QED BY <2>1, <2>6 DEF Starts
<1>3. ASSUME NEW i \in Runs, NEW data \in StatusReplies, HearStatus(i, data)
      PROVE  UNCHANGED <<port, strict, document, basePath, order>> /\ RunMoves(i, watch')
  <2>1. watch' = NP!statusReplied(watch, i, data) /\ watch.runs[i].at = "asking"
        /\ UNCHANGED <<port, strict, document, basePath, order>>
    BY <1>3, OneHook DEF HearStatus
  <2>2. \/ Silent(watch, i, watch')
        \/ \E said: Tells(watch, i, watch', said) \/ Sends(watch, i, watch', said)
                      \/ Waits(watch, i, watch', said)
    BY <1>0, <2>1, RepliedComesTo DEF Runs
  <2> QED BY <2>1, <2>2 DEF RunMoves
<1>4. ASSUME NEW i \in Runs, LoseStatus(i)
      PROVE  UNCHANGED <<port, strict, document, basePath, order>> /\ RunMoves(i, watch')
  <2>1. watch' = NP!statusLost(watch, i) /\ watch.runs[i].at = "asking"
        /\ UNCHANGED <<port, strict, document, basePath, order>>
    BY <1>4, OneHook DEF LoseStatus
  <2>2. Silent(watch, i, watch') \/ \E said: Tells(watch, i, watch', said)
    BY <1>0, <2>1, LostComesTo DEF Runs
  <2> QED BY <2>1, <2>2 DEF RunMoves
<1>5. ASSUME NEW i \in Runs, TimerFires(i)
      PROVE  UNCHANGED <<port, strict, document, basePath, order>> /\ RunMoves(i, watch')
  <2>1. watch' = NP!timerFired(watch, i) /\ watch.runs[i].at = "sleeping"
        /\ UNCHANGED <<port, strict, document, basePath, order>>
    BY <1>5, OneHook DEF TimerFires
  <2>2. Asks(watch, i, watch')
    BY <1>0, <2>1, FiredComesTo DEF Runs
  <2> QED BY <2>1, <2>2 DEF RunMoves
<1>6. CASE \E configLost \in BOOLEAN: ResultMounts(configLost)
  BY <1>2, <1>6
<1>7. CASE \E i \in Runs: \/ \E data \in StatusReplies: HearStatus(i, data)
                          \/ LoseStatus(i)
                          \/ TimerFires(i)
  BY <1>3, <1>4, <1>5, <1>7
<1> QED BY <1>1, <1>6, <1>7 DEF ReactNext, OrderAccepted

(* What a move of run `i` leaves, all kinds of moves alike. *)
LEMMA MovesKeep ==
  ASSUME NEW d, WatchInv(d, watch), NEW i \in Runs, NEW v, RunMoves(i, v)
  PROVE  WatchInv(d, v) /\ v.runs # <<>> /\ watch.runs # <<>>
<1>0. Shape(watch) /\ LastRunSpeaks(watch) /\ NothingToldYet(watch) /\ i \in DOMAIN watch.runs
  BY DEF WatchInv, Runs
<1>1. watch.runs[i].attempts \in 1..PollsMax /\ watch.redirected \in BOOLEAN /\ watch.left \in Nat
      /\ PollsMax \in Nat
  BY <1>0, Looks, PageAssumption DEF Shape
<1>2. CASE Silent(watch, i, v)
  BY <1>0, <1>2, SilentKeeps
<1>3. CASE Asks(watch, i, v)
  <2>1. i = Len(watch.runs) /\ watch.runs[i].at = "sleeping"
        /\ watch.runs[i].attempts < PollsMax
        /\ v = After(watch, i, "asking", watch.runs[i].attempts + 1, watch.polled,
                     watch.redirected, watch.left)
    BY <1>0, <1>3 DEF Asks, WatchInv, TimerIsAllowed
  <2>2. watch.left = 0 /\ (watch.polled = <<>> \/ CopyOf(watch.polled[1]) = "processing")
    BY <1>0, <2>1 DEF NothingToldYet, LastRun
  <2>3. PICK n \in 1..PollsMax: n = watch.runs[i].attempts + 1
    BY <1>1, <2>1
  <2>4. watch.polled = <<>> \/ watch.polled = <<watch.polled[1]>>
    BY <1>0 DEF Shape
  <2>5. v = After(watch, i, "asking", n, watch.polled, watch.redirected, watch.left)
    BY <2>1, <2>3
  <2>6. Fits(watch, "asking", n, watch.polled, watch.redirected, watch.left)
    BY <1>1, <2>2, <2>4 DEF Fits
  <2> QED BY <1>0, <2>1, <2>5, <2>6, SpeakingKeeps
<1>4. ASSUME NEW said, watch.runs[i].at = "asking",
             Tells(watch, i, v, said) \/ Sends(watch, i, v, said) \/ Waits(watch, i, v, said)
      PROVE  WatchInv(d, v) /\ v.runs # <<>> /\ watch.runs # <<>>
  <2>1. i = Len(watch.runs)
    BY <1>4 DEF Tells, Sends, Waits
  <2>2. watch.left = 0
    BY <1>0, <1>4, <2>1 DEF NothingToldYet, LastRun
  <2> DEFINE polled == <<said>>
             n == watch.runs[i].attempts
  <2>3. polled = <<polled[1]>> /\ polled # <<>> /\ polled[1] = said
    OBVIOUS
  <2>4. n \in 1..PollsMax
    BY <1>1
  <2> HIDE DEF polled, n
  <2>5. CASE Tells(watch, i, v, said)
    <3>1. v = After(watch, i, "over", n, polled, watch.redirected, watch.left)
      BY <2>5 DEF Tells, polled, n
    <3>2. Fits(watch, "over", n, polled, watch.redirected, watch.left)
      BY <1>1, <2>3, <2>4 DEF Fits
    <3> QED BY <1>0, <2>1, <3>1, <3>2, SpeakingKeeps
  <2>6. CASE Sends(watch, i, v, said)
    <3> DEFINE back == TRUE
               left == watch.left + 1
    <3>1. v = After(watch, i, "over", n, polled, back, left)
      BY <2>6 DEF Sends, polled, n
    <3>2. Fits(watch, "over", n, polled, back, left)
      BY <1>1, <2>3, <2>4 DEF Fits
    <3> HIDE DEF back, left
    <3> QED BY <1>0, <2>1, <3>1, <3>2, SpeakingKeeps
  <2>7. CASE Waits(watch, i, v, said)
    <3>1. v = After(watch, i, "sleeping", n, polled, watch.redirected, watch.left) /\ n < PollsMax
          /\ CopyOf(said) = "processing"
      BY <2>7 DEF Waits, polled, n
    <3>2. Fits(watch, "sleeping", n, polled, watch.redirected, watch.left)
      BY <1>1, <2>2, <2>3, <2>4, <3>1 DEF Fits
    <3> QED BY <1>0, <2>1, <3>1, <3>2, SpeakingKeeps
  <2> QED BY <1>4, <2>5, <2>6, <2>7
<1> QED BY <1>2, <1>3, <1>4 DEF RunMoves

LEMMA NoWatchIs == NP!NoWatch.runs = <<>> /\ NP!NoWatch.polled = <<>>
BY DEF NP!NoWatch

LEMMA OneAtMost == ASSUME NEW s, s = <<>> \/ s = <<s[1]>> PROVE Len(s) <= 1
<1>1. CASE s = <<>>
  BY <1>1
<1>2. ASSUME NEW x, s = <<x>> PROVE Len(s) <= 1
  BY <1>2
<1> QED BY <1>1, <1>2

LEMMA HookInitInv == ReactInit => HookInv
<1> SUFFICES ASSUME ReactInit PROVE HookInv
  OBVIOUS
<1>1. basePath \in BasePaths \cup {""}
  BY DEF ReactInit, PathsOf
<1> QED BY <1>1, NotStartedKeeps DEF ReactInit, HookInv

LEMMA HookStepInv == HookInv /\ [ReactNext]_vars => HookInv'
<1> SUFFICES ASSUME HookInv, [ReactNext]_vars PROVE HookInv'
  OBVIOUS
<1>1. CASE ReactNext
  <2>1. UNCHANGED <<port, strict, document>> /\ basePath' \in {basePath, ""}
        /\ (Starts(watch') \/ (UNCHANGED order /\ \E i \in Runs: RunMoves(i, watch')))
    BY <1>1, HookSteps
  <2>2. WatchInv(document, watch)
    BY DEF HookInv
  <2>3. CASE Starts(watch')
    <3>1. WatchInv(document, watch')
      BY <2>3, NotStartedKeeps, StartedKeeps DEF Starts
    <3>2. order' = <<order'[1]>>
      BY <2>3 DEF Starts
    <3>3. order' # <<>>
      BY <3>2
    <3> QED BY <2>1, <3>1, <3>2, <3>3 DEF HookInv
  <2>4. ASSUME UNCHANGED order, NEW i \in Runs, RunMoves(i, watch')
        PROVE  HookInv'
    <3>1. WatchInv(document, watch') /\ watch.runs # <<>>
      BY <2>2, <2>4, MovesKeep
    <3>2. order # <<>>
      BY <3>1, NoWatchIs DEF HookInv
    <3> QED BY <2>1, <2>4, <3>1, <3>2 DEF HookInv
  <2> QED BY <2>1, <2>3, <2>4
<1>2. CASE UNCHANGED vars
  BY <1>2 DEF vars, HookInv
<1> QED BY <1>1, <1>2

LEMMA HookAlways == ReactSpec => []HookInv
BY HookInitInv, HookStepInv, PTL DEF ReactSpec

(* The hook keeps to its types: one order, one thing said, two runs of its *)
(* effect, and never a poll beyond MAX_POLLS.                              *)
THEOREM ReactTypes == ReactSpec => []ReactTypeOK
<1>1. HookInv => ReactTypeOK
  <2> SUFFICES ASSUME HookInv PROVE ReactTypeOK
    OBVIOUS
  <2>1. Shape(watch)
    BY DEF HookInv, WatchInv
  <2>2. Len(order) <= 1
    BY OneAtMost DEF HookInv
  <2>3. Len(watch.polled) <= 1
    BY <2>1, OneAtMost DEF Shape
  <2>4. \A i \in Runs: watch.runs[i] \in RunRecords
    BY <2>1 DEF Shape, Runs
  <2> QED BY <2>1, <2>2, <2>3, <2>4 DEF HookInv, Shape, ReactTypeOK, RunRecords
<1> QED BY <1>1, HookAlways, PTL

-----------------------------------------------------------------------------
(* The promise made to the payer. *)

LEMMA StageIs ==
  ASSUME NEW d, NEW w, WatchInv(d, w)
  PROVE  StageOf(w) = IF w.runs = <<>> THEN "off"
                      ELSE IF LastRun(w).at # "over" THEN "on"
                      ELSE IF w.left > 0 THEN "sent" ELSE "told"
<1>0. Shape(w) /\ LastRunSpeaks(w) /\ NothingToldYet(w) /\ ToldWhenOver(w)
  BY DEF WatchInv
<1>1. CASE w.runs = <<>>
  <2>1. DOMAIN w.runs = {}
    BY <1>1
  <2>2. ~Following(w) /\ ~Over(w) /\ ~(w.left > 0)
    BY <1>0, <1>1, <2>1 DEF NothingToldYet, ToldWhenOver, Following, Over
  <2> QED BY <1>1, <2>2 DEF StageOf
<1>2. CASE w.runs # <<>>
  <2>1. Len(w.runs) \in DOMAIN w.runs
    BY <1>0, <1>2 DEF Shape
  <2>2. Following(w) <=> LastRun(w).at # "over"
    BY <1>0, <2>1 DEF LastRunSpeaks, LastRun, Following
  <2>3. LastRun(w).at = "over" => Over(w)
    BY <1>0, <1>2, <2>2 DEF ToldWhenOver, Over
  <2>4. w.left \in Nat
    BY <1>0 DEF Shape
  <2> QED BY <1>2, <2>2, <2>3, <2>4 DEF StageOf, Over
<1> QED BY <1>1, <1>2

LEMMA ShownInv ==
  ASSUME NEW p, NEW d \in {"form", "result"}, NEW o, NEW w, o = <<>> => w = NP!NoWatch
  PROVE  ShownOn(p, d, o, w) =
           IF w.polled # <<>> THEN CopyOf(w.polled[1])
           ELSE IF d = "result" THEN "hidden" ELSE "processing"
<1>1. o = <<>> => w.polled = <<>>
  BY DEF NP!NoWatch
<1> QED BY <1>1, ShownIs

LEMMA WatchStarts == ReactInit => Watch!WatchInit
<1> SUFFICES ASSUME ReactInit PROVE Watch!WatchInit
  OBVIOUS
<1>1. watch = NP!NoWatch /\ document \in {"form", "result"} /\ watch.runs = <<>>
      /\ watch.polled = <<>>
  BY NoWatchIs DEF ReactInit
<1>2. StageOf(watch) = "off"
  BY <1>1, NotStartedKeeps, StageIs
<1>3. ShownOn(port, document, order, watch) \in {"hidden", "processing"}
  BY <1>1, ShownInv
<1>4. BackFromIssuer(document, watch) = FALSE
  BY <1>1 DEF BackFromIssuer
<1> QED BY <1>2, <1>3, <1>4 DEF Watch!WatchInit

LEMMA WatchSteps ==
  HookInv /\ HookInv' /\ [ReactNext]_vars => [Watch!WatchNext]_(Watch!watchVars)
<1> SUFFICES ASSUME HookInv, HookInv', [ReactNext]_vars
             PROVE  [Watch!WatchNext]_(Watch!watchVars)
  OBVIOUS
<1> DEFINE shown == ShownOn(port, document, order, watch)
           back == BackFromIssuer(document, watch)
<1>1. CASE UNCHANGED vars
  <2>1. UNCHANGED <<StageOf(watch), shown, back>>
    BY <1>1 DEF vars
  <2> QED BY <2>1 DEF Watch!watchVars
<1>2. CASE ReactNext
  <2>0. /\ UNCHANGED <<port, strict, document>>
        /\ Starts(watch') \/ (UNCHANGED order /\ \E i \in Runs: RunMoves(i, watch'))
    BY <1>2, HookSteps
  <2>1. WatchInv(document, watch) /\ WatchInv(document, watch') /\ document \in {"form", "result"}
        /\ (order = <<>> => watch = NP!NoWatch) /\ (order' = <<>> => watch' = NP!NoWatch)
    BY <2>0 DEF HookInv
  <2>2. StageOf(watch) = IF watch.runs = <<>> THEN "off"
                         ELSE IF LastRun(watch).at # "over" THEN "on"
                         ELSE IF watch.left > 0 THEN "sent" ELSE "told"
    BY <2>1, StageIs
  <2>3. StageOf(watch') = IF watch'.runs = <<>> THEN "off"
                          ELSE IF LastRun(watch').at # "over" THEN "on"
                          ELSE IF watch'.left > 0 THEN "sent" ELSE "told"
    BY <2>1, StageIs
  <2>4. shown = IF watch.polled # <<>> THEN CopyOf(watch.polled[1])
                ELSE IF document = "result" THEN "hidden" ELSE "processing"
    BY <2>1, ShownInv
  <2>5. shown' = IF watch'.polled # <<>> THEN CopyOf(watch'.polled[1])
                 ELSE IF document = "result" THEN "hidden" ELSE "processing"
    <3>1. shown' = ShownOn(port, document, order', watch')
      BY <2>0
    <3> QED BY <2>1, <3>1, ShownInv
  <2>6. /\ back <=> watch.runs # <<>> /\ document = "result"
        /\ back' <=> watch'.runs # <<>> /\ document = "result"
        /\ back \in BOOLEAN /\ back' \in BOOLEAN
    BY <2>0 DEF BackFromIssuer
  <2> HIDE DEF shown, back
  <2>7. CASE Starts(watch')
    <3>1. watch = NP!NoWatch /\ watch.runs = <<>> /\ watch.polled = <<>>
      BY <2>1, <2>7, NoWatchIs DEF Starts
    <3>2. CASE watch' = NP!NoWatch
      <4>1. UNCHANGED <<StageOf(watch), shown, back>>
        BY <2>0, <2>2, <2>3, <2>4, <2>5, <2>6, <3>1, <3>2
      <4> QED BY <4>1 DEF Watch!watchVars, shown, back
    <3>3. ASSUME NEW b \in BOOLEAN, NEW runs \in {Once, Twice}, document = "result" => b,
                 watch' = Started(b, runs)
          PROVE  Watch!Begin
      <4>1. watch'.runs # <<>> /\ LastRun(watch').at = "asking" /\ watch'.polled = <<>>
        BY <3>3, StartedKeeps DEF Started
      <4>2. StageOf(watch) = "off" /\ StageOf(watch') = "on"
        BY <2>2, <2>3, <3>1, <4>1
      <4>3. shown' \in {"hidden", "processing"}
        BY <2>5, <4>1
      <4> QED BY <2>6, <4>2, <4>3 DEF Watch!Begin, shown, back
    <3> QED BY <2>7, <3>2, <3>3 DEF Starts, Watch!WatchNext
  <2>8. ASSUME UNCHANGED order, NEW i \in Runs, RunMoves(i, watch')
        PROVE  [Watch!WatchNext]_(Watch!watchVars)
    <3>0. Shape(watch) /\ NothingToldYet(watch) /\ i \in DOMAIN watch.runs
          /\ KnowsWhoIsBack(document, watch)
      BY <2>1 DEF WatchInv, Runs
    <3>1. watch.runs # <<>> /\ watch'.runs # <<>>
      BY <2>1, <2>8, MovesKeep
    <3>2. UNCHANGED back
      BY <2>0, <2>6, <3>1
    <3>3. CASE Silent(watch, i, watch')
      <4>1. LastRun(watch') = LastRun(watch) /\ watch'.polled = watch.polled
            /\ watch'.left = watch.left
        BY <2>1, <3>0, <3>3, SilentKeeps
      <4>2. UNCHANGED <<StageOf(watch), shown, back>>
        BY <2>2, <2>3, <2>4, <2>5, <3>1, <3>2, <4>1
      <4> QED BY <4>2 DEF Watch!watchVars, shown, back
    <3>4. CASE Asks(watch, i, watch')
      <4>1. LastRun(watch).at # "over" /\ LastRun(watch').at # "over"
            /\ watch'.polled = watch.polled
        <5>1. i = Len(watch.runs) /\ watch.runs[i].at = "sleeping"
              /\ watch' = After(watch, i, "asking", watch.runs[i].attempts + 1, watch.polled,
                                watch.redirected, watch.left)
          BY <3>4 DEF Asks
        <5>2. LastRun(watch') = [active |-> watch.runs[i].active,
                                 attempts |-> watch.runs[i].attempts + 1, at |-> "asking"]
          BY <3>0, <5>1 DEF After, LastRun, Shape
        <5> QED BY <5>1, <5>2 DEF LastRun, After
      <4>2. UNCHANGED <<StageOf(watch), shown, back>>
        BY <2>2, <2>3, <2>4, <2>5, <3>1, <3>2, <4>1
      <4> QED BY <4>2 DEF Watch!watchVars, shown, back
    <3>5. ASSUME NEW said, watch.runs[i].at = "asking",
                 \/ Tells(watch, i, watch', said) \/ Sends(watch, i, watch', said)
                 \/ Waits(watch, i, watch', said)
          PROVE  Watch!WatchNext
      <4>1. i = Len(watch.runs) /\ LastRun(watch).at = "asking"
        BY <3>5 DEF Tells, Sends, Waits, LastRun
      <4>2. StageOf(watch) = "on" /\ watch.left = 0
        BY <2>2, <3>0, <3>1, <4>1 DEF NothingToldYet
      <4>3. PICK n, at, redirected, left:
              /\ watch' = After(watch, i, at, n, <<said>>, redirected, left)
              /\ \/ at = "over" /\ left = 0 /\ CopyOf(said) \in NP!FINAL_STATUSES
                 \/ at = "over" /\ left = 1 /\ ~watch.redirected /\ CopyOf(said) \in NP!STATUS_COPY
                 \/ at = "sleeping" /\ CopyOf(said) = "processing"
        <5> DEFINE tried == watch.runs[i].attempts
        <5>1. CASE Tells(watch, i, watch', said)
          <6>1. watch' = After(watch, i, "over", tried, <<said>>, watch.redirected, watch.left)
                /\ CopyOf(said) \in NP!FINAL_STATUSES
            BY <5>1 DEF Tells
          <6> QED BY <4>2, <6>1
        <5>2. CASE Sends(watch, i, watch', said)
          <6>1. watch' = After(watch, i, "over", tried, <<said>>, TRUE, watch.left + 1)
                /\ watch.left + 1 = 1 /\ ~watch.redirected /\ CopyOf(said) \in NP!STATUS_COPY
            BY <4>2, <5>2 DEF Sends
          <6> QED BY <6>1
        <5>3. CASE Waits(watch, i, watch', said)
          <6>1. watch' = After(watch, i, "sleeping", tried, <<said>>, watch.redirected, watch.left)
                /\ CopyOf(said) = "processing"
            BY <5>3 DEF Waits
          <6> QED BY <6>1
        <5> QED BY <3>5, <5>1, <5>2, <5>3
      <4>4. watch'.polled = <<said>> /\ watch'.left = left /\ LastRun(watch').at = at
        BY <3>0, <4>1, <4>3 DEF After, LastRun, Shape
      <4>5. shown' = CopyOf(said)
        BY <2>5, <4>4
      <4>6. CASE at = "over" /\ left = 0 /\ CopyOf(said) \in NP!FINAL_STATUSES
        <5>1. StageOf(watch') = "told"
          BY <2>3, <3>1, <4>4, <4>6
        <5> QED BY <3>2, <4>2, <4>5, <4>6, <5>1 DEF Watch!WatchNext, Watch!Tell, shown, back
      <4>7. CASE at = "over" /\ left = 1 /\ ~watch.redirected /\ CopyOf(said) \in NP!STATUS_COPY
        <5>1. StageOf(watch') = "sent"
          BY <2>3, <3>1, <4>4, <4>7
        <5>2. ~back
          BY <2>6, <3>0, <3>1, <4>7 DEF KnowsWhoIsBack
        <5>3. shown' \in NP!FINAL_STATUSES \cup {"processing"}
          BY <4>5, <4>7 DEF NP!STATUS_COPY
        <5> QED BY <3>2, <4>2, <5>1, <5>2, <5>3 DEF Watch!WatchNext, Watch!Escalate, shown, back
      <4>8. CASE at = "sleeping" /\ CopyOf(said) = "processing"
        <5>1. StageOf(watch') = "on"
          BY <2>3, <3>1, <4>4, <4>8
        <5> QED BY <3>2, <4>2, <4>5, <4>8, <5>1 DEF Watch!WatchNext, Watch!Wait, shown, back
      <4> QED BY <4>3, <4>6, <4>7, <4>8
    <3> QED BY <2>8, <3>3, <3>4, <3>5 DEF RunMoves
  <2> QED BY <2>0, <2>7, <2>8
<1> QED BY <1>1, <1>2

(* The hook of either port keeps the promise of OrderWatch for any         *)
(* MAX_POLLS and whatever the gateway answers: "processing" for as long as *)
(* it has nothing to tell, one outcome that is never taken back, or one    *)
(* way to the issuer, never for a payer who has just come back from there. *)
THEOREM HookKeepsThePromise == ReactSpec => Watch!WatchSafety
<1>1. ReactSpec => Watch!WatchInit
  BY WatchStarts, PTL DEF ReactSpec
<1> QED BY <1>1, WatchSteps, HookAlways, PTL DEF ReactSpec, Watch!WatchSafety

-----------------------------------------------------------------------------
(* A run that another one followed was cleaned up: it ends without a word, *)
(* and sends the payer nowhere.                                            *)

LEMMA SilenceSteps ==
  HookInv /\ [ReactNext]_vars =>
    [\A i \in Runs: i < Len(watch.runs) /\ watch'.runs[i] # watch.runs[i] =>
       watch' = [watch EXCEPT !.runs[i] = watch'.runs[i]]]_vars
<1> SUFFICES ASSUME HookInv, ReactNext, NEW j \in Runs, j < Len(watch.runs),
                    watch'.runs[j] # watch.runs[j]
             PROVE  watch' = [watch EXCEPT !.runs[j] = watch'.runs[j]]
  OBVIOUS
<1>0. WatchInv(document, watch) /\ Shape(watch)
  BY DEF HookInv, WatchInv
<1>1. order # <<>>
  <2>1. DOMAIN << >> = {}
    OBVIOUS
  <2> QED BY NoWatchIs, <2>1 DEF HookInv, Runs
<1>2. PICK i \in Runs: RunMoves(i, watch')
  BY <1>1, HookSteps DEF Starts
<1>3. PICK n, at, polled, redirected, left:
        watch' = After(watch, i, at, n, polled, redirected, left)
  BY <1>2 DEF RunMoves, Silent, Asks, Tells, Sends, Waits
<1>4. i = j
  BY <1>0, <1>3 DEF After, Shape, Runs
<1>5. Silent(watch, i, watch')
  <2>1. i # Len(watch.runs)
    BY <1>0, <1>4 DEF Shape
  <2> QED BY <1>2, <2>1 DEF RunMoves, Asks, Tells, Sends, Waits
<1>6. watch' = After(watch, i, "over", watch.runs[i].attempts, watch.polled, watch.redirected,
                     watch.left)
  BY <1>5 DEF Silent
<1> DEFINE run == [active |-> watch.runs[j].active, attempts |-> watch.runs[j].attempts,
                   at |-> "over"]
<1>7. watch' = [polled |-> watch.polled, redirected |-> watch.redirected, left |-> watch.left,
                runs |-> [watch.runs EXCEPT ![j] = run]]
  BY <1>4, <1>6 DEF After
<1> HIDE DEF run
<1>8. watch'.runs[j] = run
  BY <1>0, <1>7 DEF Shape, Runs
<1>9. [watch EXCEPT !.runs[j] = run]
        = [polled |-> watch.polled, redirected |-> watch.redirected, left |-> watch.left,
           runs |-> [watch.runs EXCEPT ![j] = run]]
  BY <1>0 DEF Shape
<1> QED BY <1>7, <1>8, <1>9

THEOREM CleanedUpIsSilent == ReactSpec => CleanedUpRunIsSilent
BY SilenceSteps, HookAlways, PTL DEF ReactSpec, CleanedUpRunIsSilent
=================================================================================
