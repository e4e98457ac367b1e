------------------------------- MODULE E2E_proofs -------------------------------
(***************************************************************************)
(* The end-to-end suite for any number of runs, kills and removals, any    *)
(* applications, machines, command lines and payments.  Two key files are  *)
(* a pair; a green run means that every application asked for was paid; a  *)
(* signed call is accepted exactly with the key it was signed with, and a  *)
(* signature vouches for one payload; and a red run has a cause outside    *)
(* the code under test.                                                    *)
(*                                                                         *)
(* In between stands what the signatures need: texts of any length, how    *)
(* they are escaped and read back, put together and taken apart again.     *)
(* Induction is by the least counterexample (Counting), for the induction  *)
(* theorems of the library take an operator, which no prover instantiates. *)
(***************************************************************************)
EXTENDS E2E, FiniteSetTheorems, WellFoundedInduction, SequenceTheorems, TLAPS

-----------------------------------------------------------------------------
(* Numbers. *)

LEMMA LeastIsThere ==
  ASSUME NEW S \in SUBSET Nat, S # {}
  PROVE  \E x \in S: \A y \in S: x <= y
<1> DEFINE Below == {1..i: i \in S}
<1>1. Below \subseteq FiniteSubsetsOf(Nat) /\ Below # {}
  <2>1. ASSUME NEW i \in S PROVE IsFiniteSet(1..i) /\ 1..i \subseteq Nat
    BY FS_Interval
  <2> QED BY <2>1 DEF FiniteSubsetsOf
<1>2. PICK U \in Below: \A V \in Below: ~(<<V, U>> \in StrictSubsetOrdering(Nat))
  <2>1. IsWellFoundedOn(StrictSubsetOrdering(Nat), FiniteSubsetsOf(Nat))
    BY FS_StrictSubsetOrderingWellFounded
  <2> HIDE DEF Below
  <2> QED BY <1>1, <2>1, WFMin
<1>3. PICK x \in S: U = 1..x
  OBVIOUS
<1>4. ASSUME NEW y \in S, y < x PROVE FALSE
  <2>1. 1..y \in SUBSET Nat /\ 1..x \in SUBSET Nat
    OBVIOUS
  <2>2. x \in 1..x /\ x \notin 1..y /\ 1..y \subseteq 1..x
    BY <1>4
  <2>3. <<1..y, 1..x>> \in StrictSubsetOrdering(Nat)
    BY <2>1, <2>2 DEF StrictSubsetOrdering
  <2> QED BY <1>2, <1>3, <2>3
<1>5. ASSUME NEW y \in S PROVE x <= y
  BY <1>4
<1> QED BY <1>5

-----------------------------------------------------------------------------
(* The key pair. *)

Places == {"out", "check", "private", "public", "have"}

MakersTypeOK ==
  /\ minted \in Nat
  /\ \A m \in Makers: maker[m].at \in Places
  /\ maker = [m \in Makers |-> [at |-> maker[m].at, key |-> maker[m].key]]

(* As long as nothing raced: one process writes at a time, the public half *)
(* is missing until it has written the private one, and a public key that  *)
(* is there has its private half next to it.                               *)
PairInv ==
  "raced" \notin upset =>
    /\ ~(Writing("config") /\ Writing("emulator"))
    /\ \A m \in Makers: Writing(m) => publicKey = NoKey
    /\ \A m \in Makers: maker[m].at = "public" => privateKey = maker[m].key
    /\ publicKey # NoKey => privateKey = publicKey

(* Of the steps of a run only these touch what the pair depends on. *)
PairStep ==
  \/ \E m \in Makers: Check(m) \/ WritePrivate(m) \/ WritePublic(m)
  \/ RemoveTmp
  \/ /\ \E m \in Makers:
          \/ Ensure(m)
          \/ maker' = [maker EXCEPT ![m].at = "out"]
          \/ maker' = [maker EXCEPT ![m] = [at |-> "out", key |-> NoKey]]
          \/ UNCHANGED maker
     /\ UNCHANGED <<privateKey, publicKey, minted>>
     /\ upset \subseteq upset'

LEMMA StepsOfThePair == [Next]_vars => PairStep
<1> SUFFICES ASSUME [Next]_vars PROVE PairStep
  OBVIOUS
<1> USE DEF PairStep, Makers
<1>1. ASSUME NEW m \in Makers, Check(m) \/ WritePrivate(m) \/ WritePublic(m) PROVE PairStep
  BY <1>1
<1>2. CASE Configured
  BY <1>2 DEF Configured, devVars
<1>3. CASE StartEmulator
  BY <1>3 DEF StartEmulator, devVars
<1>4. CASE EmulatorListens
  BY <1>4 DEF EmulatorListens, devVars
<1>5. CASE composeUp \/ AllStarted \/ globalSetup \/ Ask \/ Answer \/ Finish
  BY <1>5 DEF composeUp, AllStarted, globalSetup, Ask, Answer, Finish, keyVars, devVars
<1>6. ASSUME NEW a \in Known, StartServer(a) \/ PickTest(a) PROVE PairStep
  BY <1>6 DEF StartServer, PickTest, keyVars, devVars
<1>7. ASSUME NEW argv \in CommandLines, NEW target \in Targets, StartRun(argv, target)
      PROVE  PairStep
  BY <1>7 DEF StartRun, devVars
<1>8. CASE EmulatorByHand
  BY <1>8 DEF EmulatorByHand
<1>9. CASE Kill
  BY <1>9 DEF Kill
<1>10. CASE StopLeftovers
  BY <1>10 DEF StopLeftovers, keyVars, devVars
<1>11. CASE RemoveTmp
  BY <1>11
<1>12. CASE UNCHANGED vars
  BY <1>12 DEF vars, keyVars, devVars
<1> QED
  BY <1>1, <1>2, <1>3, <1>4, <1>5, <1>6, <1>7, <1>8, <1>9, <1>10, <1>11, <1>12
     DEF Next, Programs, Developer

(* One process moves, to where it may be. *)
LEMMA MakerMoves ==
  ASSUME NEW m \in Makers, MakersTypeOK, NEW place \in Places, NEW key,
         maker' = [maker EXCEPT ![m] = [at |-> place, key |-> key]], minted' \in Nat
  PROVE  /\ MakersTypeOK'
         /\ maker'[m].at = place /\ maker'[m].key = key
         /\ \A other \in Makers \ {m}: maker'[other] = maker[other]
<1>1. DOMAIN maker = Makers
  BY DEF MakersTypeOK
<1>2. /\ maker'[m] = [at |-> place, key |-> key]
      /\ \A other \in Makers \ {m}: maker'[other] = maker[other]
      /\ DOMAIN maker' = Makers
  BY <1>1
<1>3. \A other \in Makers: maker[other] = [at |-> maker[other].at, key |-> maker[other].key]
  BY DEF MakersTypeOK
<1>4. \A other \in Makers: maker'[other] = [at |-> maker'[other].at, key |-> maker'[other].key]
  BY <1>2, <1>3
<1>5. maker' = [other \in Makers |-> maker'[other]]
  BY <1>2
<1>6. maker' = [other \in Makers |-> [at |-> maker'[other].at, key |-> maker'[other].key]]
  BY <1>4, <1>5
<1>7. \A other \in Makers: maker'[other].at \in Places
  BY <1>2 DEF MakersTypeOK
<1> QED BY <1>2, <1>6, <1>7 DEF MakersTypeOK

LEMMA MakerGoes ==
  ASSUME NEW m \in Makers, MakersTypeOK, NEW place,
         maker' = [maker EXCEPT ![m].at = place]
  PROVE  maker' = [maker EXCEPT ![m] = [at |-> place, key |-> maker[m].key]]
<1>1. maker[m] = [at |-> maker[m].at, key |-> maker[m].key] /\ DOMAIN maker = Makers
  BY DEF MakersTypeOK
<1>2. [maker[m] EXCEPT !.at = place] = [at |-> place, key |-> maker[m].key]
  BY <1>1
<1>3. maker' = [maker EXCEPT ![m] = [maker[m] EXCEPT !.at = place]]
  OBVIOUS
<1> QED BY <1>2, <1>3

(* Where keys.ts goes from one line to the next, the pair stays a pair. *)
LEMMA PairStepInv == MakersTypeOK /\ PairInv /\ PairStep => MakersTypeOK' /\ PairInv'
<1> SUFFICES ASSUME MakersTypeOK, PairInv, PairStep PROVE MakersTypeOK' /\ PairInv'
  OBVIOUS
<1>1. \A m \in Makers: m = "config" \/ m = "emulator"
  BY DEF Makers
<1>2. "config" \in Makers /\ "emulator" \in Makers
  BY DEF Makers
<1>3. ASSUME NEW m \in Makers, Check(m) PROVE MakersTypeOK' /\ PairInv'
  <2>1. CASE privateKey # NoKey /\ publicKey # NoKey
    <3>1. maker' = [maker EXCEPT ![m] = [at |-> "have", key |-> maker[m].key]]
      BY <1>3, <2>1, MakerGoes DEF Check
    <3>2. UNCHANGED <<privateKey, publicKey, minted, upset>>
      BY <1>3, <2>1 DEF Check
    <3>3. "have" \in Places /\ minted' \in Nat
      BY <3>2 DEF Places, MakersTypeOK
    <3>4. /\ MakersTypeOK' /\ maker'[m].at = "have"
          /\ \A other \in Makers \ {m}: maker'[other] = maker[other]
      BY <3>1, <3>3, MakerMoves
    <3> QED BY <1>1, <1>2, <3>2, <3>4 DEF PairInv, Writing
  <2>2. CASE ~(privateKey # NoKey /\ publicKey # NoKey)
    <3>1. /\ minted' = minted + 1 /\ upset' = upset \cup Raced
          /\ maker' = [maker EXCEPT ![m] = [at |-> "private", key |-> KeyNames[minted + 1]]]
          /\ UNCHANGED <<privateKey, publicKey>>
      BY <1>3, <2>2 DEF Check
    <3>2. "private" \in Places /\ minted' \in Nat
      BY <3>1 DEF Places, MakersTypeOK
    <3>3. /\ MakersTypeOK' /\ maker'[m].at = "private"
          /\ \A other \in Makers \ {m}: maker'[other] = maker[other]
      BY <3>1, <3>2, MakerMoves
    <3>4. ASSUME "raced" \notin upset'
          PROVE  /\ \A other \in Makers: ~Writing(other)
                 /\ "raced" \notin upset
      BY <3>1, <3>4 DEF Raced
    <3>5. "raced" \notin upset' => publicKey = NoKey
      BY <2>2, <3>4 DEF PairInv
    <3> QED BY <1>1, <1>2, <3>1, <3>3, <3>4, <3>5 DEF PairInv, Writing
  <2> QED BY <2>1, <2>2
<1>4. ASSUME NEW m \in Makers, WritePrivate(m) PROVE MakersTypeOK' /\ PairInv'
  <2>1. maker' = [maker EXCEPT ![m] = [at |-> "public", key |-> maker[m].key]]
    BY <1>4, MakerGoes DEF WritePrivate
  <2>2. privateKey' = maker[m].key /\ UNCHANGED <<publicKey, minted, upset>> /\ maker[m].at = "private"
    BY <1>4 DEF WritePrivate, devVars
  <2>3. "public" \in Places /\ minted' \in Nat
    BY <2>2 DEF Places, MakersTypeOK
  <2>4. /\ MakersTypeOK' /\ maker'[m].at = "public" /\ maker'[m].key = maker[m].key
        /\ \A other \in Makers \ {m}: maker'[other] = maker[other]
    BY <2>1, <2>3, MakerMoves
  <2> QED BY <1>1, <1>2, <2>2, <2>4 DEF PairInv, Writing
<1>5. ASSUME NEW m \in Makers, WritePublic(m) PROVE MakersTypeOK' /\ PairInv'
  <2>1. /\ maker' = [maker EXCEPT ![m] = [at |-> "have", key |-> NoKey]] /\ maker[m].at = "public"
        /\ publicKey' = maker[m].key /\ UNCHANGED <<privateKey, minted, upset>>
    BY <1>5 DEF WritePublic, devVars
  <2>2. "have" \in Places /\ minted' \in Nat
    BY <2>1 DEF Places, MakersTypeOK
  <2>3. /\ MakersTypeOK' /\ maker'[m].at = "have"
        /\ \A other \in Makers \ {m}: maker'[other] = maker[other]
    BY <2>1, <2>2, MakerMoves
  <2> QED BY <1>1, <1>2, <2>1, <2>3 DEF PairInv, Writing
<1>6. CASE RemoveTmp
  <2>1. /\ privateKey' = NoKey /\ publicKey' = NoKey /\ UNCHANGED <<minted, maker>>
        /\ upset' = upset \cup {"removed"} \cup Raced
    BY <1>6 DEF RemoveTmp
  <2>2. MakersTypeOK'
    BY <2>1 DEF MakersTypeOK
  <2>3. "raced" \notin upset' => \A m \in Makers: ~Writing(m)
    BY <2>1 DEF Raced
  <2> QED BY <1>2, <2>1, <2>2, <2>3 DEF PairInv, Writing
<1>7. ASSUME NEW m \in Makers, NEW place \in {"check", "out"}, NEW key,
             maker' = [maker EXCEPT ![m] = [at |-> place, key |-> key]],
             UNCHANGED <<privateKey, publicKey, minted>>, upset \subseteq upset'
      PROVE  MakersTypeOK' /\ PairInv'
  <2>1. place \in Places /\ minted' \in Nat
    BY <1>7 DEF Places, MakersTypeOK
  <2>2. /\ MakersTypeOK' /\ maker'[m].at = place
        /\ \A other \in Makers \ {m}: maker'[other] = maker[other]
    BY <1>7, <2>1, MakerMoves
  <2> QED BY <1>1, <1>2, <1>7, <2>2 DEF PairInv, Writing
<1>8. ASSUME NEW m \in Makers,
             Ensure(m) \/ maker' = [maker EXCEPT ![m].at = "out"],
             UNCHANGED <<privateKey, publicKey, minted>>, upset \subseteq upset'
      PROVE  MakersTypeOK' /\ PairInv'
  <2>1. PICK place \in {"check", "out"}: maker' = [maker EXCEPT ![m].at = place]
    BY <1>8 DEF Ensure
  <2>2. maker' = [maker EXCEPT ![m] = [at |-> place, key |-> maker[m].key]]
    BY <2>1, MakerGoes
  <2> QED BY <1>7, <1>8, <2>2
<1>9. ASSUME UNCHANGED <<privateKey, publicKey, minted, maker>>, upset \subseteq upset'
      PROVE  MakersTypeOK' /\ PairInv'
  BY <1>9 DEF MakersTypeOK, PairInv, Writing
<1> QED BY <1>3, <1>4, <1>5, <1>6, <1>7, <1>8, <1>9 DEF PairStep

LEMMA PairAtFirst == E2EInit => MakersTypeOK /\ PairInv
<1> SUFFICES ASSUME E2EInit PROVE MakersTypeOK /\ PairInv
  OBVIOUS
<1>1. /\ maker = [m \in Makers |-> [at |-> "out", key |-> NoKey]]
      /\ minted = 0 /\ publicKey = NoKey
  BY DEF E2EInit
<1>2. \A m \in Makers: maker[m].at = "out" /\ maker[m].key = NoKey
  BY <1>1
<1>3. maker = [m \in Makers |-> [at |-> maker[m].at, key |-> maker[m].key]]
  BY <1>1, <1>2
<1>4. MakersTypeOK
  BY <1>1, <1>2, <1>3 DEF MakersTypeOK, Places
<1> QED BY <1>1, <1>2, <1>4 DEF PairInv, Writing, Makers

(* keys.ts:15, "Safe to call repeatedly". *)
THEOREM KeysAreAPair == E2ESpec => []PairIsAPair
<1>1. E2EInit => MakersTypeOK /\ PairInv
  BY PairAtFirst
<1>2. MakersTypeOK /\ PairInv /\ [Next]_vars => MakersTypeOK' /\ PairInv'
  BY StepsOfThePair, PairStepInv
<1>3. PairInv => PairIsAPair
  BY DEF PairInv, PairIsAPair
<1> QED BY <1>1, <1>2, <1>3, PTL DEF E2ESpec

-----------------------------------------------------------------------------
(* The command line. *)

(* The first of some applications, in the order of APPS, is one of them. *)
LEMMA FirstIsOne ==
  ASSUME NEW apps \in SUBSET Known, apps # {}
  PROVE  FirstOfApps(apps) \in apps
<1> DEFINE places == {i \in 1..Len(Order): Order[i] \in apps}
<1>1. Order \in Seq(STRING)
  BY E2EAssumption
<1>2. places # {} /\ places \in SUBSET Nat
  <2>1. PICK a \in apps: TRUE
    OBVIOUS
  <2>2. PICK i \in DOMAIN Order: Order[i] = a
    BY <2>1 DEF Known, ToSet
  <2>3. i \in places
    BY <1>1, <2>1, <2>2
  <2> QED BY <2>3
<1>3. Min(places) \in places
  BY <1>2, LeastIsThere DEF Min
<1>4. SelectInSeq(Order, LAMBDA a: a \in apps) = Min(places)
  BY <1>2 DEF SelectInSeq
<1> QED BY <1>3, <1>4 DEF FirstOfApps

(* A command line that names no project for Playwright names none for the  *)
(* config either.                                                          *)
LEMMA SelectedAreNamed ==
  ASSUME NEW argv \in Seq(Seq(STRING))
  PROVE  selectedApps(argv, Known) \subseteq ProjectsNamed(argv)
<1> SUFFICES ASSUME NEW a \in selectedApps(argv, Known) PROVE a \in ProjectsNamed(argv)
  OBVIOUS
<1>1. a \in DOMAIN APPS /\ a \notin {"--project", "-p", "--project="}
  BY E2EAssumption DEF selectedApps, APPS, AppNames
<1>2. PICK i \in DOMAIN argv:
        \/ argv[i] = <<"--project=", a>>
        \/ IsProject(argv[i]) /\ i < Len(argv) /\ argv[i + 1] = <<a>>
  BY DEF selectedApps
<1>3. CASE argv[i] = <<"--project=", a>>
  <2>1. Head(argv[i]) = "--project=" /\ argv[i][2] = a
    BY <1>3
  <2> QED BY <2>1 DEF ProjectsNamed
<1>4. CASE IsProject(argv[i]) /\ i < Len(argv) /\ argv[i + 1] = <<a>>
  <2>1. PICK j \in DOMAIN argv: j = i + 1
    BY <1>4
  <2>2. i \in 1..(j - 1) /\ i + 1..j = {j}
    BY <2>1
  <2>3. ~IsFlag(argv[j]) /\ argv[j][1] = a
    BY <1>1, <1>4, <2>1 DEF IsFlag
  <2>4. \E f \in 1..(j - 1): IsProject(argv[f]) /\ \A m \in f+1..j: ~IsFlag(argv[m])
    BY <1>4, <2>2, <2>3
  <2> QED BY <2>3, <2>4 DEF ProjectsNamed
<1> QED BY <1>2, <1>3, <1>4

(* What Playwright runs is what the command line asks for. *)
LEMMA WantedIsAsked ==
  ASSUME NEW r, r.argv \in Seq(Seq(STRING))
  PROVE  Wanted(r) = Asked(r)
BY SelectedAreNamed DEF Wanted, Asked, projects, ByDefault

-----------------------------------------------------------------------------
(* The accounts of a run. *)

UnderWay == {"emulator", "servers", "probe", "tests"}

RunRecords ==
  [number: Nat, stage: {"config"} \cup UnderWay \cup Ended, argv: Seq(Seq(STRING)),
   target: Targets, started: SUBSET Known, ready: SUBSET Known, app: Known \cup {"none"},
   step: 0..Len(Script), tested: SUBSET Known, failing: SUBSET Known, paid: SUBSET Known]

(* A test that got past its sale has been paid, and a test that is over    *)
(* was paid or is counted as failing.                                      *)
Accounts(r) ==
  /\ r.app # "none" => /\ r.app \in Wanted(r) /\ r.step \in 1..Len(Script)
                       /\ r.step > 9 => r.app \in r.paid
  /\ r.paid \subseteq Wanted(r)
  /\ r.tested \ r.failing \subseteq r.paid

(* Playwright runs only what the config lists, and is done when all of it  *)
(* was tested.                                                             *)
Standing(r) ==
  /\ r.stage \in UnderWay => Wanted(r) \subseteq Known
  /\ r.stage = "passed" => Wanted(r) \subseteq r.tested /\ r.failing = {}

GreenInv ==
  /\ run \in RunRecords /\ Accounts(run) /\ Standing(run)
  /\ wire.sent => run.stage = "tests" /\ run.app # "none"

(* A step that leaves the accounts alone. *)
LEMMA AccountsStand ==
  ASSUME NEW r \in RunRecords, NEW q \in RunRecords, Accounts(r),
         q.argv = r.argv, q.target = r.target, q.app = r.app, q.step = r.step,
         q.tested = r.tested, q.failing = r.failing, q.paid = r.paid
  PROVE  Accounts(q) /\ Wanted(q) = Wanted(r)
BY DEF Accounts, Wanted

LEMMA StageChanges ==
  ASSUME NEW r \in RunRecords, Accounts(r), NEW s \in {"config"} \cup UnderWay \cup Ended,
         s \in UnderWay => Wanted(r) \subseteq Known,
         s = "passed" => Wanted(r) \subseteq r.tested /\ r.failing = {}
  PROVE  LET q == [r EXCEPT !.stage = s]
         IN  /\ q \in RunRecords /\ Accounts(q) /\ Standing(q)
             /\ q.stage = s /\ q.app = r.app
<1> DEFINE q == [r EXCEPT !.stage = s]
<1>1. q \in RunRecords
  BY DEF RunRecords
<1>2. /\ q.argv = r.argv /\ q.target = r.target /\ q.app = r.app /\ q.step = r.step
      /\ q.tested = r.tested /\ q.failing = r.failing /\ q.paid = r.paid /\ q.stage = s
  BY DEF RunRecords
<1> HIDE DEF q
<1>3. Accounts(q) /\ Wanted(q) = Wanted(r)
  BY <1>1, <1>2, AccountsStand
<1>4. Standing(q)
  BY <1>2, <1>3 DEF Standing
<1> QED BY <1>1, <1>2, <1>3, <1>4 DEF q

LEMMA ProjectsAreKnown ==
  ASSUME NEW argv, NEW target
  PROVE  /\ projects(argv, target, Known) \subseteq Known
         /\ startedApps(argv, target, Known) \subseteq Known
BY DEF projects, startedApps, selectedApps, ByDefault

LEMMA ScriptIs ==
  /\ Len(Script) = 11
  /\ Script[9] = "sale"
BY DEF Script

(* A test ends: an answer that is not usable, or the last one that is. *)
LEMMA TestEnds ==
  ASSUME NEW r \in RunRecords, Accounts(r), r.stage = "tests", Wanted(r) \subseteq Known,
         r.app # "none", NEW failed \in BOOLEAN, failed \/ r.app \in r.paid,
         TestOver(r, failed)
  PROVE  run' \in RunRecords /\ Accounts(run') /\ Standing(run')
<1> DEFINE failing == IF failed THEN r.failing \cup {r.app} ELSE r.failing
<1>1. run' = [r EXCEPT !.app = "none", !.step = 0, !.tested = @ \cup {r.app}, !.failing = failing]
  BY DEF TestOver
<1>2. r.app \in Known /\ failing \in SUBSET Known
  BY DEF RunRecords
<1>3. r.tested \cup {r.app} \in SUBSET Known /\ 0 \in 0..Len(Script)
  BY <1>2, ScriptIs DEF RunRecords
<1>4. run' \in RunRecords
  BY <1>1, <1>2, <1>3 DEF RunRecords
<1>5. /\ run'.argv = r.argv /\ run'.target = r.target /\ run'.app = "none"
      /\ run'.tested = r.tested \cup {r.app} /\ run'.failing = failing
      /\ run'.paid = r.paid /\ run'.stage = "tests"
  BY <1>1 DEF RunRecords
<1>6. Wanted(run') = Wanted(r)
  BY <1>5 DEF Wanted
<1>7. run'.tested \ run'.failing \subseteq run'.paid
  BY <1>5 DEF Accounts
<1>8. Accounts(run')
  BY <1>5, <1>6, <1>7 DEF Accounts
<1>9. Standing(run')
  BY <1>5, <1>6 DEF Standing
<1> QED BY <1>4, <1>8, <1>9

LEMMA SaleIsAnswered ==
  ASSUME NEW reply, NEW from, Usable(reply, "sale", from)
  PROVE  reply.by = "sale"
<1>1. Last(CommandOf("sale")) = "sale"
  BY DEF Last, CommandOf
<1> QED BY <1>1 DEF Usable, Signed

LEMMA AnswerKeepsAccounts == GreenInv /\ Answer => GreenInv'
<1> SUFFICES ASSUME GreenInv, Answer PROVE GreenInv'
  OBVIOUS
<1> DEFINE reply == ReplyToWire
           from == appOrigin(run.app, run.target)
           paid == IF reply.by = "sale" THEN run.paid \cup {run.app} ELSE run.paid
           counted == [run EXCEPT !.paid = paid]
<1>1. /\ run \in RunRecords /\ Accounts(run) /\ Standing(run)
      /\ run.stage = "tests" /\ run.app # "none" /\ Wanted(run) \subseteq Known
  BY DEF GreenInv, Answer, Standing, UnderWay
<1>2. ~wire'.sent
  BY DEF Answer, NoRequest
<1>3. /\ run.app \in Wanted(run) /\ run.app \in Known /\ run.step \in 1..11
      /\ run.step > 9 => run.app \in run.paid
  BY <1>1, ScriptIs DEF Accounts
<1>4. \/ ~Usable(reply, Script[run.step], from) /\ TestOver(run, TRUE)
      \/ /\ Usable(reply, Script[run.step], from)
         /\ IF run.step = 11 THEN TestOver(counted, FALSE)
                             ELSE run' = [counted EXCEPT !.step = @ + 1]
  BY ScriptIs DEF Answer
<1>5. run.step = 9 /\ Usable(reply, Script[run.step], from) => run.app \in paid
  BY ScriptIs, SaleIsAnswered
<1> HIDE DEF reply, from
<1>6. paid \in SUBSET Known /\ run.paid \subseteq paid /\ paid \subseteq Wanted(run)
  BY <1>1, <1>3 DEF RunRecords, Accounts
<1> HIDE DEF paid
<1>7. counted \in RunRecords
  BY <1>1, <1>6 DEF RunRecords
<1>8. /\ counted.argv = run.argv /\ counted.target = run.target /\ counted.app = run.app
      /\ counted.step = run.step /\ counted.tested = run.tested
      /\ counted.failing = run.failing /\ counted.paid = paid /\ counted.stage = run.stage
  BY <1>1 DEF RunRecords
<1> HIDE DEF counted
<1>9. Wanted(counted) = Wanted(run) /\ Accounts(counted)
  BY <1>1, <1>6, <1>8 DEF Wanted, Accounts
<1>10. CASE TestOver(run, TRUE)
  BY <1>1, <1>2, <1>10, TestEnds DEF GreenInv
<1>11. CASE run.step = 11 /\ TestOver(counted, FALSE)
  <2>1. counted.app \in counted.paid
    BY <1>3, <1>6, <1>8, <1>11
  <2> QED BY <1>1, <1>2, <1>7, <1>8, <1>9, <1>11, <2>1, TestEnds DEF GreenInv
<1>12. CASE /\ Usable(reply, Script[run.step], from) /\ run.step # 11
            /\ run' = [counted EXCEPT !.step = @ + 1]
  <2>1. run.step + 1 \in 1..11 /\ run.step + 1 \in 0..Len(Script)
    BY <1>3, <1>12, ScriptIs
  <2>2. run' = [counted EXCEPT !.step = run.step + 1]
    BY <1>8, <1>12
  <2>3. run' \in RunRecords
    BY <1>7, <2>1, <2>2 DEF RunRecords
  <2>4. /\ run'.argv = counted.argv /\ run'.target = counted.target /\ run'.app = counted.app
        /\ run'.step = run.step + 1 /\ run'.tested = counted.tested
        /\ run'.failing = counted.failing /\ run'.paid = counted.paid /\ run'.stage = "tests"
    BY <1>1, <1>7, <1>8, <2>2 DEF RunRecords
  <2>5. run.step + 1 > 9 => run.app \in paid
    BY <1>3, <1>5, <1>6, <1>12
  <2>6. Wanted(run') = Wanted(counted)
    BY <2>4 DEF Wanted
  <2>7. Accounts(run')
    BY <1>3, <1>8, <1>9, <2>1, <2>4, <2>5, <2>6, ScriptIs DEF Accounts
  <2>8. Standing(run')
    BY <1>1, <1>9, <2>4, <2>6 DEF Standing
  <2> QED BY <1>2, <2>3, <2>7, <2>8 DEF GreenInv
<1> QED BY <1>4, <1>10, <1>11, <1>12

(* A step that moves the run from one stage to another. *)
LEMMA StageMoves ==
  ASSUME GreenInv, NEW s \in {"config"} \cup UnderWay \cup Ended,
         run' = [run EXCEPT !.stage = s],
         s \in UnderWay => Wanted(run) \subseteq Known,
         s = "passed" => Wanted(run) \subseteq run.tested /\ run.failing = {},
         ~wire'.sent
  PROVE  GreenInv'
BY StageChanges DEF GreenInv

LEMMA GreenStepInv == GreenInv /\ [Next]_vars => GreenInv'
<1> SUFFICES ASSUME GreenInv, [Next]_vars PROVE GreenInv'
  OBVIOUS
<1>1. /\ run \in RunRecords /\ Accounts(run) /\ Standing(run)
      /\ wire.sent => run.stage = "tests" /\ run.app # "none"
  BY DEF GreenInv
<1>2. ASSUME UNCHANGED <<run, wire>> PROVE GreenInv'
  BY <1>2, <1>1 DEF GreenInv, Accounts, Standing, Wanted
<1>3. ASSUME NEW m \in Makers, Check(m) \/ WritePrivate(m) \/ WritePublic(m) PROVE GreenInv'
  BY <1>2, <1>3 DEF Check, WritePrivate, WritePublic
<1>4. CASE EmulatorListens \/ EmulatorByHand \/ StopLeftovers \/ RemoveTmp
  BY <1>2, <1>4 DEF EmulatorListens, EmulatorByHand, StopLeftovers, RemoveTmp
<1>5. CASE Configured
  <2>1. run.stage = "config" /\ UNCHANGED wire
    BY <1>5 DEF Configured
  <2>2. ~wire'.sent
    BY <1>1, <2>1
  <2>3. CASE ProjectsNamed(run.argv) \subseteq projects(run.argv, run.target, Known)
    <3> DEFINE apps == startedApps(run.argv, run.target, Known)
    <3>1. run' = [run EXCEPT !.stage = "emulator", !.started = apps]
      BY <1>5, <2>3 DEF Configured
    <3>2. apps \in SUBSET Known
      BY ProjectsAreKnown
    <3> HIDE DEF apps
    <3>3. run' \in RunRecords
      BY <1>1, <3>1, <3>2 DEF RunRecords, UnderWay
    <3>4. /\ run'.argv = run.argv /\ run'.target = run.target /\ run'.app = run.app
          /\ run'.step = run.step /\ run'.tested = run.tested /\ run'.failing = run.failing
          /\ run'.paid = run.paid /\ run'.stage = "emulator"
      BY <1>1, <3>1 DEF RunRecords
    <3>5. Accounts(run') /\ Wanted(run') = Wanted(run)
      BY <1>1, <3>3, <3>4, AccountsStand
    <3>6. Wanted(run) \subseteq Known
      BY <2>3, ProjectsAreKnown DEF Wanted
    <3> QED BY <2>2, <3>3, <3>4, <3>5, <3>6 DEF GreenInv, Standing
  <2>4. CASE ~(ProjectsNamed(run.argv) \subseteq projects(run.argv, run.target, Known))
    <3>1. run' = [run EXCEPT !.stage = "failed"]
      BY <1>5, <2>4 DEF Configured
    <3> QED BY <2>2, <3>1, StageMoves DEF Ended, UnderWay
  <2> QED BY <2>3, <2>4
<1>6. CASE StartEmulator
  <2>1. run.stage = "emulator" /\ UNCHANGED wire
    BY <1>6 DEF StartEmulator, devVars
  <2>2. \/ UNCHANGED run
        \/ run' = [run EXCEPT !.stage = "servers"]
        \/ run' = [run EXCEPT !.stage = "failed"]
    BY <1>6 DEF StartEmulator, EndRun
  <2>3. ~wire'.sent /\ Wanted(run) \subseteq Known
    BY <1>1, <2>1 DEF Standing, UnderWay
  <2> QED BY <1>2, <2>1, <2>2, <2>3, StageMoves DEF Ended, UnderWay
<1>7. CASE composeUp
  <2>1. run.stage = "emulator" /\ UNCHANGED wire
    BY <1>7 DEF composeUp
  <2>2. run' = [run EXCEPT !.stage = "probe"] \/ run' = [run EXCEPT !.stage = "failed"]
    BY <1>7 DEF composeUp, EndRun
  <2>3. ~wire'.sent /\ Wanted(run) \subseteq Known
    BY <1>1, <2>1 DEF Standing, UnderWay
  <2> QED BY <2>2, <2>3, StageMoves DEF Ended, UnderWay
<1>8. ASSUME NEW a \in Known, StartServer(a) PROVE GreenInv'
  <2>1. run.stage = "servers" /\ UNCHANGED wire
    BY <1>8 DEF StartServer
  <2>2. run' = [run EXCEPT !.ready = @ \cup {a}] \/ run' = [run EXCEPT !.stage = "failed"]
    BY <1>8 DEF StartServer, EndRun
  <2>3. ~wire'.sent /\ Wanted(run) \subseteq Known
    BY <1>1, <2>1 DEF Standing, UnderWay
  <2>4. CASE run' = [run EXCEPT !.ready = @ \cup {a}]
    <3>1. run' \in RunRecords
      BY <1>1, <2>4 DEF RunRecords
    <3>2. /\ run'.argv = run.argv /\ run'.target = run.target /\ run'.app = run.app
          /\ run'.step = run.step /\ run'.tested = run.tested /\ run'.failing = run.failing
          /\ run'.paid = run.paid /\ run'.stage = run.stage
      BY <1>1, <2>4 DEF RunRecords
    <3>3. Accounts(run') /\ Wanted(run') = Wanted(run)
      BY <1>1, <3>1, <3>2, AccountsStand
    <3> QED BY <2>1, <2>3, <3>1, <3>2, <3>3 DEF GreenInv, Standing
  <2> QED BY <2>2, <2>3, <2>4, StageMoves DEF Ended, UnderWay
<1>9. CASE AllStarted
  <2>1. run.stage = "servers" /\ UNCHANGED wire /\ run' = [run EXCEPT !.stage = "probe"]
    BY <1>9 DEF AllStarted
  <2>2. ~wire'.sent /\ Wanted(run) \subseteq Known
    BY <1>1, <2>1 DEF Standing, UnderWay
  <2> QED BY <2>1, <2>2, StageMoves DEF Ended, UnderWay
<1>10. CASE globalSetup
  <2>1. run.stage = "probe" /\ UNCHANGED wire
    BY <1>10 DEF globalSetup
  <2>2. run' = [run EXCEPT !.stage = "tests"] \/ run' = [run EXCEPT !.stage = "failed"]
    BY <1>10 DEF globalSetup, EndRun
  <2>3. ~wire'.sent /\ Wanted(run) \subseteq Known
    BY <1>1, <2>1 DEF Standing, UnderWay
  <2> QED BY <2>2, <2>3, StageMoves DEF Ended, UnderWay
<1>11. ASSUME NEW a \in Known, PickTest(a) PROVE GreenInv'
  <2>1. /\ run.stage = "tests" /\ run.app = "none" /\ UNCHANGED wire
        /\ a = FirstOfApps(Wanted(run) \ run.tested)
        /\ run' = [run EXCEPT !.app = a, !.step = 1]
    BY <1>11 DEF PickTest
  <2>2. Wanted(run) \ run.tested \in SUBSET Known
    BY <1>1, <2>1 DEF Standing, UnderWay
  <2>3. a # "none" => a \in Wanted(run)
    BY <2>1, <2>2, FirstIsOne DEF FirstOfApps
  <2>4. run' \in RunRecords
    <3>1. 1 \in 0..Len(Script) /\ a \in Known \cup {"none"}
      BY ScriptIs
    <3> QED BY <1>1, <2>1, <3>1 DEF RunRecords
  <2>5. /\ run'.argv = run.argv /\ run'.target = run.target /\ run'.app = a
        /\ run'.step = 1 /\ run'.tested = run.tested /\ run'.failing = run.failing
        /\ run'.paid = run.paid /\ run'.stage = run.stage
    BY <1>1, <2>1 DEF RunRecords
  <2>6. Wanted(run') = Wanted(run)
    BY <2>5 DEF Wanted
  <2>7. Accounts(run')
    BY <1>1, <2>3, <2>5, <2>6, ScriptIs DEF Accounts
  <2>8. Standing(run')
    BY <1>1, <2>5, <2>6 DEF Standing
  <2>9. ~wire'.sent
    BY <1>1, <2>1
  <2> QED BY <2>4, <2>7, <2>8, <2>9 DEF GreenInv
<1>12. CASE Ask
  <2>1. run.stage = "tests" /\ run.app # "none" /\ ~wire.sent /\ Wanted(run) \subseteq Known
    BY <1>1, <1>12 DEF Ask, Standing, UnderWay
  <2>2. UNCHANGED run \/ (TestOver(run, TRUE) /\ UNCHANGED wire)
    BY <1>12 DEF Ask
  <2>3. CASE UNCHANGED run
    BY <1>1, <2>1, <2>3 DEF GreenInv, Accounts, Standing, Wanted
  <2>4. CASE TestOver(run, TRUE) /\ UNCHANGED wire
    <3>1. run' \in RunRecords /\ Accounts(run') /\ Standing(run')
      BY <1>1, <2>1, <2>4, TestEnds
    <3>2. ~wire'.sent
      BY <2>1, <2>4
    <3> QED BY <3>1, <3>2 DEF GreenInv
  <2> QED BY <2>2, <2>3, <2>4
<1>13. CASE Answer
  BY <1>13, AnswerKeepsAccounts
<1>14. CASE Finish
  <2>1. /\ run.stage = "tests" /\ run.app = "none" /\ Wanted(run) \subseteq run.tested
        /\ UNCHANGED wire
        /\ run' = [run EXCEPT !.stage = IF run.failing = {} THEN "passed" ELSE "failed"]
    BY <1>14 DEF Finish, EndRun
  <2>2. ~wire'.sent
    BY <1>1, <2>1
  <2>3. CASE run.failing = {}
    BY <2>1, <2>2, <2>3, StageMoves DEF Ended, UnderWay
  <2>4. CASE run.failing # {}
    BY <2>1, <2>2, <2>4, StageMoves DEF Ended, UnderWay
  <2> QED BY <2>3, <2>4
<1>15. ASSUME NEW argv \in CommandLines, NEW target \in Targets, StartRun(argv, target)
       PROVE  GreenInv'
  <2>1. /\ run.stage \in Ended /\ UNCHANGED wire
        /\ run' = [number |-> run.number + 1, stage |-> "config", argv |-> argv,
                   target |-> target, started |-> {}, ready |-> {}, app |-> "none", step |-> 0,
                   tested |-> {}, failing |-> {}, paid |-> {}]
    BY <1>15 DEF StartRun
  <2>2. ~wire'.sent
    BY <1>1, <2>1 DEF Ended
  <2>3. argv \in Seq(Seq(STRING)) /\ run.number + 1 \in Nat /\ 0 \in 0..Len(Script)
    BY <1>1, E2EAssumption, ScriptIs DEF RunRecords
  <2>4. run' \in RunRecords
    BY <2>1, <2>3 DEF RunRecords
  <2>5. Accounts(run') /\ Standing(run')
    BY <2>1 DEF Accounts, Standing, UnderWay
  <2> QED BY <2>2, <2>4, <2>5 DEF GreenInv
<1>16. CASE Kill
  <2>1. run' = [run EXCEPT !.stage = "killed"] /\ ~wire'.sent
    BY <1>16 DEF Kill, NoRequest
  <2> QED BY <2>1, StageMoves DEF Ended, UnderWay
<1>17. CASE UNCHANGED vars
  BY <1>2, <1>17 DEF vars
<1> QED
  BY <1>3, <1>4, <1>5, <1>6, <1>7, <1>8, <1>9, <1>10, <1>11, <1>12, <1>13, <1>14, <1>15, <1>16,
     <1>17 DEF Next, Programs, Developer

LEMMA GreenAtFirst == E2EInit => GreenInv
<1> SUFFICES ASSUME E2EInit PROVE GreenInv
  OBVIOUS
<1>1. /\ run = [number |-> 0, stage |-> "idle", argv |-> <<>>, target |-> "native",
                started |-> {}, ready |-> {}, app |-> "none", step |-> 0, tested |-> {},
                failing |-> {}, paid |-> {}]
      /\ ~wire.sent
  BY DEF E2EInit, NoRequest
<1>2. <<>> \in Seq(Seq(STRING)) /\ 0 \in 0..Len(Script)
  BY ScriptIs
<1>3. run \in RunRecords
  BY <1>1, <1>2 DEF RunRecords, Targets, Ended
<1>4. Accounts(run) /\ Standing(run)
  BY <1>1 DEF Accounts, Standing, UnderWay
<1> QED BY <1>1, <1>3, <1>4 DEF GreenInv

(* apps.ts:80, "a green run has to mean every app really passed". *)
THEOREM GreenRunsWerePaid == E2ESpec => []GreenMeansPaid
<1>1. E2EInit => GreenInv
  BY GreenAtFirst
<1>2. GreenInv => GreenMeansPaid
  <2> SUFFICES ASSUME GreenInv, run.stage = "passed"
               PROVE  run.paid = Asked(run) /\ run.failing = {}
    BY DEF GreenMeansPaid
  <2>1. Wanted(run) \subseteq run.tested /\ run.failing = {}
    BY DEF GreenInv, Standing
  <2>2. run.paid = Wanted(run)
    BY <2>1 DEF GreenInv, Accounts
  <2>3. Wanted(run) = Asked(run)
    BY WantedIsAsked DEF GreenInv, RunRecords
  <2> QED BY <2>1, <2>2, <2>3
<1> QED BY <1>1, <1>2, GreenStepInv, PTL DEF E2ESpec

-----------------------------------------------------------------------------
(* Texts. *)

LEMMA Counting ==
  ASSUME NEW S, 0 \in S, \A n \in Nat: n \in S => n + 1 \in S
  PROVE  \A n \in Nat: n \in S
<1> SUFFICES ASSUME Nat \ S # {} PROVE FALSE
  OBVIOUS
<1>1. PICK least \in Nat \ S: \A n \in Nat \ S: least <= n
  BY LeastIsThere
<1>2. least # 0 /\ least - 1 \in Nat /\ ~(least <= least - 1)
  OBVIOUS
<1>3. least - 1 \in S
  BY <1>1, <1>2
<1>4. (least - 1) + 1 = least
  OBVIOUS
<1> QED BY <1>2, <1>3, <1>4

(* What holds of the empty sequence, and of a sequence with one more at    *)
(* its end, holds of every sequence.                                       *)
LEMMA Growing ==
  ASSUME NEW S, NEW G, <<>> \in G,
         \A s \in Seq(S): s \in G => \A c \in S: Append(s, c) \in G
  PROVE  \A s \in Seq(S): s \in G
<1> DEFINE Long == {n \in Nat: \A s \in Seq(S): Len(s) = n => s \in G}
<1>1. 0 \in Long
  BY EmptySeq
<1>2. ASSUME NEW n \in Nat, n \in Long PROVE n + 1 \in Long
  <2> SUFFICES ASSUME NEW s \in Seq(S), Len(s) = n + 1 PROVE s \in G
    OBVIOUS
  <2>1. s # <<>>
    BY EmptySeq
  <2>2. PICK front \in Seq(S), c \in S: s = Append(front, c)
    BY <2>1, SequenceEmptyOrAppend
  <2>3. Len(front) = n
    BY <2>2, AppendProperties, LenProperties
  <2> QED BY <1>2, <2>2, <2>3
<1>3. \A n \in Nat: n \in Long
  <2> HIDE DEF Long
  <2> QED BY <1>1, <1>2, Counting
<1> QED BY <1>3, LenProperties

(* A function on lo..n may be defined by recursion, in one way only.       *)
Iterates(f, lo, n, first, step) ==
  f[lo] = first /\ \A i \in lo..n: i # lo => f[i] = step[<<i, f[i - 1]>>]
GoOnAlike(f, g, lo, n) ==
  f[lo] = g[lo] /\ \A i \in lo..n: i # lo /\ f[i - 1] = g[i - 1] => f[i] = g[i]
Alike(f, g, lo, n) == \A i \in lo..n: f[i] = g[i]

LEMMA Recursion ==
  ASSUME NEW V, NEW lo \in Nat, NEW n \in Nat, lo <= n, NEW first \in V,
         NEW step \in [(lo..n) \X V -> V]
  PROVE  \E f \in [lo..n -> V]: Iterates(f, lo, n, first, step)
<1> DEFINE Solves(f, m) == Iterates(f, lo, m, first, step)
           Solved == {k \in Nat: lo + k <= n => \E f \in [lo..(lo + k) -> V]: Solves(f, lo + k)}
<1>1. 0 \in Solved
  <2> DEFINE f == [i \in lo..lo |-> first]
  <2>1. lo + 0 = lo /\ lo..lo = {lo}
    OBVIOUS
  <2>2. f \in [lo..lo -> V] /\ Solves(f, lo)
    BY <2>1 DEF Iterates
  <2> QED BY <2>1, <2>2
<1>2. ASSUME NEW k \in Nat, k \in Solved PROVE k + 1 \in Solved
  <2> SUFFICES ASSUME lo + (k + 1) <= n
               PROVE  \E g \in [lo..(lo + (k + 1)) -> V]: Solves(g, lo + (k + 1))
    OBVIOUS
  <2>1. PICK f \in [lo..(lo + k) -> V]: Solves(f, lo + k)
    BY <1>2
  <2> DEFINE m == lo + (k + 1)
             g == [i \in lo..m |-> IF i = m THEN step[<<m, f[lo + k]>>] ELSE f[i]]
  <2>2. m \in lo..n /\ m \in lo..m /\ m - 1 = lo + k /\ lo + k \in lo..(lo + k) /\ m # lo
    OBVIOUS
  <2>3. g[m] \in V /\ g[m] = step[<<m, g[m - 1]>>]
    <3>1. f[lo + k] \in V /\ g[m - 1] = f[lo + k] /\ g[m] = step[<<m, f[lo + k]>>]
      BY <2>2
    <3>2. <<m, f[lo + k]>> \in (lo..n) \X V
      BY <2>2, <3>1
    <3>3. step[<<m, f[lo + k]>>] \in V
      <4> HIDE DEF m
      <4> QED BY <3>2
    <3> QED BY <3>1, <3>3
  <2>4. ASSUME NEW i \in lo..m, i # m
        PROVE  g[i] \in V /\ (i # lo => g[i] = step[<<i, g[i - 1]>>])
    <3>1. i \in lo..(lo + k) /\ g[i] = f[i]
      BY <2>4
    <3>2. i # lo => i - 1 \in lo..(lo + k) /\ i - 1 # m /\ i - 1 \in lo..m
      BY <2>4
    <3>3. i # lo => g[i - 1] = f[i - 1]
      BY <3>2
    <3> QED BY <2>1, <3>1, <3>3 DEF Iterates
  <2>5. g \in [lo..m -> V]
    BY <2>2, <2>3, <2>4
  <2>6. g[lo] = first
    BY <2>1, <2>2 DEF Iterates
  <2>7. \A i \in lo..m: i # lo => g[i] = step[<<i, g[i - 1]>>]
    <3> HIDE DEF g, m
    <3> QED BY <2>3, <2>4
  <2>8. Solves(g, m)
    <3> HIDE DEF g, m
    <3> QED BY <2>6, <2>7 DEF Iterates
  <2> QED BY <2>5, <2>8
<1>3. \A k \in Nat: k \in Solved
  <2> HIDE DEF Solved
  <2> QED BY <1>1, <1>2, Counting
<1>4. n - lo \in Nat /\ lo + (n - lo) = n /\ lo + (n - lo) <= n
  OBVIOUS
<1>5. n - lo \in Solved
  <2> HIDE DEF Solved
  <2> QED BY <1>3, <1>4
<1> QED BY <1>4, <1>5

LEMMA OneSolution ==
  ASSUME NEW lo \in Nat, NEW n \in Nat, NEW f, NEW g, GoOnAlike(f, g, lo, n)
  PROVE  Alike(f, g, lo, n)
<1> DEFINE Agree == {k \in Nat: lo + k <= n => f[lo + k] = g[lo + k]}
<1>1. 0 \in Agree
  BY DEF GoOnAlike
<1>2. ASSUME NEW k \in Nat, k \in Agree PROVE k + 1 \in Agree
  <2> SUFFICES ASSUME lo + (k + 1) <= n PROVE f[lo + (k + 1)] = g[lo + (k + 1)]
    OBVIOUS
  <2>1. /\ lo + (k + 1) \in lo..n /\ lo + (k + 1) # lo
        /\ (lo + (k + 1)) - 1 = lo + k /\ lo + k <= n
    OBVIOUS
  <2>2. f[(lo + (k + 1)) - 1] = g[(lo + (k + 1)) - 1]
    BY <1>2, <2>1
  <2> QED BY <2>1, <2>2 DEF GoOnAlike
<1>3. \A k \in Nat: k \in Agree
  <2> HIDE DEF Agree
  <2> QED BY <1>1, <1>2, Counting
<1>4. ASSUME NEW i \in lo..n PROVE f[i] = g[i]
  <2>1. i - lo \in Nat /\ lo + (i - lo) = i /\ i <= n
    OBVIOUS
  <2> QED BY <1>3, <2>1
<1> QED BY <1>4 DEF Alike

-----------------------------------------------------------------------------
(* Texts put together: FlattenSeq. *)

(* What FlattenSeq computes on its way, and comes to. *)
Flattens(f, seqs, n) ==
  /\ f[1] = seqs[1] /\ \A i \in 1..n: i # 1 => f[i] = f[i - 1] \o seqs[i]
  /\ FlattenSeq(seqs) = f[n]

LEMMA FlattenIs ==
  ASSUME NEW S, NEW n \in Nat \ {0}, NEW seqs \in [1..n -> Seq(S)]
  PROVE  \E f \in [1..n -> Seq(S)]: Flattens(f, seqs, n)
<1> DEFINE step == [p \in (1..n) \X Seq(S) |-> p[2] \o seqs[p[1]]]
<1>1. step \in [(1..n) \X Seq(S) -> Seq(S)]
  <2>1. ASSUME NEW i \in 1..n, NEW t \in Seq(S) PROVE t \o seqs[i] \in Seq(S)
    BY ConcatProperties
  <2> QED BY <2>1
<1>2. PICK f \in [1..n -> Seq(S)]: Iterates(f, 1, n, seqs[1], step)
  <2>1. seqs[1] \in Seq(S) /\ 1 \in Nat /\ n \in Nat /\ 1 <= n
    OBVIOUS
  <2> HIDE DEF step
  <2> QED BY <1>1, <2>1, Recursion
<1>3. ASSUME NEW i \in 1..n, i # 1 PROVE f[i] = f[i - 1] \o seqs[i]
  <2>1. i - 1 \in 1..n /\ f[i - 1] \in Seq(S)
    BY <1>3
  <2>2. f[i] = step[<<i, f[i - 1]>>]
    <3> HIDE DEF step
    <3> QED BY <1>2, <1>3 DEF Iterates
  <2> QED BY <2>1, <2>2
<1>4. ASSUME NEW i \in 1..n PROVE f[i] = IF i = 1 THEN seqs[i] ELSE f[i - 1] \o seqs[i]
  BY <1>2, <1>3 DEF Iterates
<1>5. f = [i \in 1..n |-> IF i = 1 THEN seqs[i] ELSE f[i - 1] \o seqs[i]]
  BY <1>4
<1>6. ASSUME NEW g, g = [i \in 1..n |-> IF i = 1 THEN seqs[i] ELSE g[i - 1] \o seqs[i]]
      PROVE  g = f
  <2>1. \A i \in 1..n: g[i] = IF i = 1 THEN seqs[i] ELSE g[i - 1] \o seqs[i]
    BY <1>6
  <2>2. g[1] = f[1]
    BY <1>4, <2>1
  <2>3. ASSUME NEW i \in 1..n, i # 1, g[i - 1] = f[i - 1] PROVE g[i] = f[i]
    BY <1>3, <2>1, <2>3
  <2>4. \A i \in 1..n: g[i] = f[i]
    <3>1. 1 \in Nat /\ n \in Nat
      OBVIOUS
    <3>2. GoOnAlike(g, f, 1, n)
      BY <2>2, <2>3 DEF GoOnAlike
    <3>3. Alike(g, f, 1, n)
      BY <3>1, <3>2, OneSolution
    <3> QED BY <3>3 DEF Alike
  <2>5. f = [i \in 1..n |-> f[i]] /\ g = [i \in 1..n |-> g[i]]
    BY <1>6
  <2> QED BY <2>4, <2>5
<1>7. seqs \in Seq(Seq(S)) /\ Len(seqs) = n
  OBVIOUS
<1>8. FlattenSeq(seqs) = f[n]
  BY <1>5, <1>6, <1>7 DEF FlattenSeq
<1>9. Flattens(f, seqs, n)
  BY <1>3, <1>4, <1>8 DEF Flattens
<1> QED BY <1>9

LEMMA FlattenNothing == FlattenSeq(<<>>) = <<>>
BY EmptySeq DEF FlattenSeq

LEMMA FlattenAppend ==
  ASSUME NEW S, NEW seqs \in Seq(Seq(S)), NEW s \in Seq(S)
  PROVE  /\ FlattenSeq(seqs) \in Seq(S)
         /\ FlattenSeq(Append(seqs, s)) = FlattenSeq(seqs) \o s
<1>1. PICK n \in Nat: n = Len(seqs) /\ seqs \in [1..n -> Seq(S)]
  BY LenProperties
<1>2. PICK more: more = Append(seqs, s)
  OBVIOUS
<1>3. /\ more \in [1..(n + 1) -> Seq(S)] /\ more[n + 1] = s
      /\ \A i \in 1..n: more[i] = seqs[i]
  <2>1. /\ more \in Seq(Seq(S)) /\ Len(more) = n + 1
        /\ \A i \in 1..n: more[i] = seqs[i]
        /\ more[n + 1] = s
    BY <1>1, <1>2, AppendProperties
  <2>2. more \in [1..Len(more) -> Seq(S)]
    BY <2>1, LenProperties
  <2> QED BY <2>1, <2>2
<1>4. PICK g \in [1..(n + 1) -> Seq(S)]:
        Flattens(g, more, n + 1)
  <2>1. n + 1 \in Nat \ {0}
    OBVIOUS
  <2> QED BY <1>3, <2>1, FlattenIs
<1>5. CASE n = 0
  <2>1. seqs = <<>> /\ FlattenSeq(seqs) = <<>>
    BY <1>1, <1>5, EmptySeq, FlattenNothing
  <2>2. FlattenSeq(more) = s
    BY <1>3, <1>4, <1>5 DEF Flattens
  <2> QED BY <1>2, <2>1, <2>2, EmptySeq, ConcatEmptySeq
<1>6. CASE n # 0
  <2>1. PICK f \in [1..n -> Seq(S)]:
          Flattens(f, seqs, n)
    <3>1. n \in Nat \ {0}
      BY <1>6
    <3> QED BY <1>1, <3>1, FlattenIs
  <2>2. g[1] = f[1]
    <3>1. 1 \in 1..n
      BY <1>6
    <3> QED BY <1>3, <1>4, <2>1, <3>1 DEF Flattens
  <2>3. ASSUME NEW i \in 1..n, i # 1, g[i - 1] = f[i - 1] PROVE g[i] = f[i]
    <3>1. i \in 1..(n + 1)
      OBVIOUS
    <3> QED BY <1>3, <1>4, <2>1, <2>3, <3>1 DEF Flattens
  <2>4. \A i \in 1..n: g[i] = f[i]
    <3>1. 1 \in Nat /\ n \in Nat
      OBVIOUS
    <3>2. GoOnAlike(g, f, 1, n)
      BY <2>2, <2>3 DEF GoOnAlike
    <3>3. Alike(g, f, 1, n)
      BY <3>1, <3>2, OneSolution
    <3> QED BY <3>3 DEF Alike
  <2>5. g[n + 1] = g[n] \o s /\ f[n] \in Seq(S) /\ g[n] = f[n]
    <3>1. n + 1 \in 1..(n + 1) /\ n + 1 # 1 /\ (n + 1) - 1 = n /\ n \in 1..n
      BY <1>6
    <3> QED BY <1>3, <1>4, <2>4, <3>1 DEF Flattens
  <2> QED BY <1>2, <1>4, <2>1, <2>5 DEF Flattens
<1> QED BY <1>5, <1>6

LEMMA OneLonger ==
  ASSUME NEW V, NEW n \in Nat, NEW f \in [1..n -> V], NEW v \in V, NEW g \in [1..(n + 1) -> V],
         g[n + 1] = v, \A i \in 1..n: g[i] = f[i]
  PROVE  f \in Seq(V) /\ Len(f) = n /\ g \in Seq(V) /\ g = Append(f, v)
<1>1. f \in Seq(V) /\ Len(f) = n /\ g \in Seq(V) /\ Len(g) = n + 1
  OBVIOUS
<1>2. /\ Append(f, v) \in Seq(V) /\ Len(Append(f, v)) = n + 1
      /\ Append(f, v)[n + 1] = v /\ \A i \in 1..n: Append(f, v)[i] = f[i]
  BY <1>1, AppendProperties
<1>3. \A i \in 1..(n + 1): g[i] = Append(f, v)[i]
  <2>1. ASSUME NEW i \in 1..(n + 1), i # n + 1 PROVE i \in 1..n
    BY <2>1
  <2> QED BY <1>2, <2>1
<1> QED BY <1>1, <1>2, <1>3, SeqEqual

-----------------------------------------------------------------------------
(* Percent codes.  The words of the code are named, since the provers do   *)
(* not know that a word is a member of STRING.                             *)

OAuthNames == {"oauth_consumer_key", "oauth_nonce", "oauth_signature", "oauth_signature_method"}
Letter ==
  STRING \cup OAuthNames
    \cup {" ", "+", "&", "=", ",", "%", "'", "/", "20", "2B", "26", "3D", "2C", "25", "27", "2F"}
    \cup {"OAuth", "\"", "ticket", "signature of", "test-merchant", "nonce", "RSA-SHA256", "POST", "c",
          "api", "v4", "tokenize", "create-ephemeral-ticket", "sale", "status", Origin, ENDPOINT_ID}
Text == Seq(Letter)

(* A text spelled out again, letter by letter. *)
Spell(h, t) == FlattenSeq([i \in DOMAIN t |-> h[t[i]]])

LEMMA SpellNothing == \A h: Spell(h, <<>>) = <<>>
<1> TAKE h
<1>1. [i \in DOMAIN <<>> |-> h[<<>>[i]]] = <<>>
  OBVIOUS
<1> QED BY <1>1, FlattenNothing DEF Spell

LEMMA SpellAppend ==
  ASSUME NEW h \in [Letter -> Text], NEW t \in Text, NEW c \in Letter
  PROVE  Spell(h, t) \in Text /\ Spell(h, Append(t, c)) = Spell(h, t) \o h[c]
<1>1. PICK n \in Nat: n = Len(t) /\ DOMAIN t = 1..n /\ t \in [1..n -> Letter]
  BY LenProperties DEF Text
<1>2. /\ DOMAIN Append(t, c) = 1..(n + 1) /\ Append(t, c)[n + 1] = c
      /\ \A i \in 1..n: Append(t, c)[i] = t[i]
      /\ \A i \in 1..(n + 1): Append(t, c)[i] \in Letter
  <2>1. /\ Append(t, c) \in Text /\ Len(Append(t, c)) = n + 1 /\ Append(t, c)[n + 1] = c
        /\ \A i \in 1..n: Append(t, c)[i] = t[i]
    BY <1>1, AppendProperties DEF Text
  <2> QED BY <2>1, LenProperties DEF Text
<1>3. PICK f: f = [i \in DOMAIN t |-> h[t[i]]]
  OBVIOUS
<1>4. PICK g: g = [i \in DOMAIN Append(t, c) |-> h[Append(t, c)[i]]]
  OBVIOUS
<1>5. f \in [1..n -> Text] /\ g \in [1..(n + 1) -> Text] /\ h[c] \in Text
  BY <1>1, <1>2, <1>3, <1>4
<1>6. g[n + 1] = h[c] /\ \A i \in 1..n: g[i] = f[i]
  <2>1. n + 1 \in 1..(n + 1) /\ \A i \in 1..n: i \in 1..(n + 1)
    OBVIOUS
  <2> QED BY <1>1, <1>2, <1>3, <1>4, <2>1
<1>7. f \in Seq(Text) /\ g = Append(f, h[c])
  BY <1>5, <1>6, OneLonger
<1>8. Spell(h, t) = FlattenSeq(f) /\ Spell(h, Append(t, c)) = FlattenSeq(g)
  BY <1>3, <1>4 DEF Spell
<1> QED BY <1>5, <1>7, <1>8, FlattenAppend DEF Text

LEMMA SpellIsText ==
  ASSUME NEW h \in [Letter -> Text], NEW t \in Text
  PROVE  Spell(h, t) \in Text
<1>1. CASE t = <<>>
  BY <1>1, SpellNothing, EmptySeq DEF Text
<1>2. CASE t # <<>>
  <2>1. PICK c: c \in Letter
    BY <1>2, ElementOfSeq, EmptySeq, LenProperties DEF Text
  <2> QED BY <2>1, SpellAppend
<1> QED BY <1>1, <1>2

LEMMA CodesAre ==
  /\ DOMAIN Codes = {" ", "+", "&", "=", ",", "%", "'", "/"}
  /\ Codes[" "] = "20" /\ Codes["+"] = "2B" /\ Codes["&"] = "26" /\ Codes["="] = "3D"
  /\ Codes[","] = "2C" /\ Codes["%"] = "25" /\ Codes["'"] = "27" /\ Codes["/"] = "2F"
BY DEF Codes

LEMMA CodesAreLetters ==
  ASSUME NEW c \in DOMAIN Codes
  PROVE  /\ c \in Letter /\ Codes[c] \in Letter
         /\ Codes[c] \notin DOMAIN Codes /\ Codes[c] # "\"" /\ CharOf(Codes[c]) = c
<1>1. c \in Letter /\ Codes[c] \in Letter /\ Codes[c] \notin DOMAIN Codes /\ Codes[c] # "\""
  BY CodesAre DEF Letter
<1>2. CharOf(Codes[c]) = c
  BY CodesAre DEF CharOf
<1> QED BY <1>1, <1>2

(* Escape and Replace spell a text letter by letter. *)
EscapeOf(reserved) == [c \in Letter |-> IF c \in reserved THEN <<"%", Codes[c]>> ELSE <<c>>]
ReplaceOf(old, new) == [c \in Letter |-> IF c = old THEN new ELSE <<c>>]

LEMMA OneLetter == \A c \in Letter: <<c>> \in Text
BY DEF Text

LEMMA EscapeLetters ==
  ASSUME NEW reserved \in SUBSET DOMAIN Codes
  PROVE  EscapeOf(reserved) \in [Letter -> Text]
<1>1. ASSUME NEW c \in reserved PROVE <<"%", Codes[c]>> \in Text
  <2>1. "%" \in Letter /\ Codes[c] \in Letter
    BY CodesAre, CodesAreLetters
  <2> QED BY <2>1 DEF Text
<1> QED BY <1>1, OneLetter DEF EscapeOf

LEMMA ReplaceLetters ==
  ASSUME NEW old, NEW new \in Text
  PROVE  ReplaceOf(old, new) \in [Letter -> Text]
BY OneLetter DEF ReplaceOf

LEMMA LettersOfText ==
  ASSUME NEW t \in Text
  PROVE  /\ DOMAIN t = 1..Len(t) /\ Len(t) \in Nat
         /\ \A i \in DOMAIN t: t[i] \in Letter
BY LenProperties, ElementOfSeq DEF Text

LEMMA EscapeSpells ==
  ASSUME NEW t \in Text, NEW reserved
  PROVE  Escape(t, reserved) = Spell(EscapeOf(reserved), t)
<1>1. \A i \in DOMAIN t: EscapeOf(reserved)[t[i]]
                           = IF t[i] \in reserved THEN <<"%", Codes[t[i]]>> ELSE <<t[i]>>
  BY LettersOfText DEF EscapeOf
<1> QED BY <1>1 DEF Escape, Spell

LEMMA ReplaceSpells ==
  ASSUME NEW t \in Text, NEW old, NEW new
  PROVE  Replace(t, old, new) = Spell(ReplaceOf(old, new), t)
<1>1. \A i \in DOMAIN t: ReplaceOf(old, new)[t[i]] = IF t[i] = old THEN new ELSE <<t[i]>>
  BY LettersOfText DEF ReplaceOf
<1> QED BY <1>1 DEF Replace, Spell

LEMMA AppendIsText ==
  \A t \in Text: \A c \in Letter: Append(t, c) \in Text /\ t \o <<c>> = Append(t, c)
BY AppendProperties DEF Text

LEMMA TwoLetters ==
  ASSUME NEW t \in Text, NEW c \in Letter, NEW d \in Letter
  PROVE  /\ <<c, d>> \in Text /\ Append(t, c) \in Text /\ Append(Append(t, c), d) \in Text
         /\ t \o <<c, d>> = Append(Append(t, c), d)
BY DEF Text

LEMMA EscapeGrows ==
  ASSUME NEW reserved \in SUBSET DOMAIN Codes, NEW t \in Text, NEW c \in Letter
  PROVE  /\ Escape(t, reserved) \in Text
         /\ c \in reserved => Escape(Append(t, c), reserved)
                                = Append(Append(Escape(t, reserved), "%"), Codes[c])
         /\ c \notin reserved => Escape(Append(t, c), reserved) = Append(Escape(t, reserved), c)
<1>1. Append(t, c) \in Text
  BY AppendIsText
<1>2. PICK h: h = EscapeOf(reserved)
  OBVIOUS
<1>3. h \in [Letter -> Text]
  BY <1>2, EscapeLetters
<1>4. /\ c \in reserved => h[c] = <<"%", Codes[c]>>
      /\ c \notin reserved => h[c] = <<c>>
  BY <1>2 DEF EscapeOf
<1>5. PICK w: w = Spell(h, t)
  OBVIOUS
<1>6. w \in Text /\ Spell(h, Append(t, c)) = w \o h[c]
  BY <1>3, <1>5, SpellAppend
<1>7. Escape(t, reserved) = w /\ Escape(Append(t, c), reserved) = w \o h[c]
  BY <1>1, <1>2, <1>5, <1>6, EscapeSpells
<1>8. c \in reserved => w \o h[c] = Append(Append(w, "%"), Codes[c])
  <2> SUFFICES ASSUME c \in reserved PROVE w \o h[c] = Append(Append(w, "%"), Codes[c])
    OBVIOUS
  <2>1. "%" \in Letter /\ Codes[c] \in Letter
    BY CodesAre, CodesAreLetters
  <2>2. w \o <<"%", Codes[c]>> = Append(Append(w, "%"), Codes[c])
    BY <1>6, <2>1, TwoLetters
  <2> QED BY <1>4, <2>2
<1>9. c \notin reserved => w \o h[c] = Append(w, c)
  BY <1>4, <1>6, AppendIsText
<1> QED BY <1>6, <1>7, <1>8, <1>9

Grows(old, new, t, c) ==
  /\ Replace(t, old, new) \in Text
  /\ c = old => Replace(Append(t, c), old, new) = Replace(t, old, new) \o new
  /\ c # old => Replace(Append(t, c), old, new) = Append(Replace(t, old, new), c)

LEMMA ReplaceGrows ==
  ASSUME NEW old, NEW new \in Text, NEW t \in Text, NEW c \in Letter
  PROVE  Grows(old, new, t, c)
<1>1. Append(t, c) \in Text
  BY AppendIsText
<1>2. PICK h: h = ReplaceOf(old, new)
  OBVIOUS
<1>3. h \in [Letter -> Text]
  BY <1>2, ReplaceLetters
<1>4. /\ c = old => h[c] = new
      /\ c # old => h[c] = <<c>>
  BY <1>2 DEF ReplaceOf
<1>5. PICK w: w = Spell(h, t)
  OBVIOUS
<1>6. w \in Text /\ Spell(h, Append(t, c)) = w \o h[c]
  BY <1>3, <1>5, SpellAppend
<1>7. Replace(t, old, new) = w /\ Replace(Append(t, c), old, new) = w \o h[c]
  BY <1>1, <1>2, <1>5, <1>6, ReplaceSpells
<1>8. c # old => w \o h[c] = Append(w, c)
  BY <1>4, <1>6, AppendIsText
<1> QED BY <1>4, <1>6, <1>7, <1>8 DEF Grows

LEMMA NothingIsText ==
  <<>> \in Text /\ \A r: Escape(<<>>, r) = <<>> /\ \A old, new: Replace(<<>>, old, new) = <<>>
<1>1. <<>> \in Text
  BY EmptySeq DEF Text
<1>2. ASSUME NEW r PROVE Escape(<<>>, r) = <<>>
  BY <1>1, EscapeSpells, SpellNothing, Zenon
<1>3. ASSUME NEW old, NEW new PROVE Replace(<<>>, old, new) = <<>>
  BY <1>1, ReplaceSpells, SpellNothing, Zenon
<1> QED BY <1>1, <1>2, <1>3

-----------------------------------------------------------------------------
(* The twelve encodings are one. *)

Encode(t) == Escape(t, DOMAIN Codes)

LEMMA GrowingText ==
  ASSUME NEW G, <<>> \in G, \A t \in Text: t \in G => \A c \in Letter: Append(t, c) \in G
  PROVE  \A t \in Text: t \in G
BY Growing DEF Text

(* What JavaScript's encodeURIComponent escapes, and its apostrophe. *)
Most == DOMAIN Codes \ {"'"}
Apostrophe == <<"%", "27">>

LEMMA QuotesAreEncoded ==
  ASSUME NEW t \in Text
  PROVE  Replace(encodeURIComponent(t), "'", <<"%", "27">>) = Encode(t)
<1>1. Most \in SUBSET DOMAIN Codes /\ DOMAIN Codes \in SUBSET DOMAIN Codes
  BY DEF Most
<1>2. "%" \in Letter /\ "27" \in Letter
  BY DEF Letter
<1>3. Apostrophe \in Text
  BY <1>2 DEF Apostrophe, Text
<1>4. ASSUME NEW x \in Text, NEW d \in Letter
      PROVE  /\ d = "'" => Replace(Append(x, d), "'", Apostrophe) = Replace(x, "'", Apostrophe) \o Apostrophe
             /\ d # "'" => Replace(Append(x, d), "'", Apostrophe) = Append(Replace(x, "'", Apostrophe), d)
  <2>1. PICK mark: mark = "'"
    OBVIOUS
  <2>2. PICK new \in Text: new = Apostrophe
    BY <1>3
  <2>3. Grows(mark, new, x, d)
    BY ReplaceGrows
  <2> QED BY <2>1, <2>2, <2>3 DEF Grows
<1> DEFINE G == {u \in Text: Replace(Escape(u, Most), "'", Apostrophe) = Encode(u)}
<1>5. <<>> \in G
  BY NothingIsText DEF Encode
<1>6. ASSUME NEW u \in Text, u \in G, NEW c \in Letter PROVE Append(u, c) \in G
  <2>1. PICK w: w = Escape(u, Most)
    OBVIOUS
  <2>2. PICK v: v = Encode(u)
    OBVIOUS
  <2>3. /\ w \in Text
        /\ c \in Most => Escape(Append(u, c), Most) = Append(Append(w, "%"), Codes[c])
        /\ c \notin Most => Escape(Append(u, c), Most) = Append(w, c)
    BY <1>1, <2>1, EscapeGrows
  <2>4. /\ v \in Text
        /\ c \in DOMAIN Codes => Encode(Append(u, c)) = Append(Append(v, "%"), Codes[c])
        /\ c \notin DOMAIN Codes => Encode(Append(u, c)) = Append(v, c)
    BY <1>1, <2>2, EscapeGrows DEF Encode
  <2>5. Replace(w, "'", Apostrophe) = v
    BY <1>6, <2>1, <2>2
  <2>6. Append(u, c) \in Text
    BY AppendIsText
  <2> SUFFICES Replace(Escape(Append(u, c), Most), "'", Apostrophe) = Encode(Append(u, c))
    BY <2>6
  <2>7. CASE c \in Most
    <3>1. c \in DOMAIN Codes /\ Codes[c] \in Letter /\ Codes[c] # "'" /\ "%" # "'"
      BY <2>7, CodesAre, CodesAreLetters DEF Most
    <3>2. Replace(Append(w, "%"), "'", Apostrophe) = Append(v, "%")
      BY <1>2, <1>4, <2>3, <2>5, <3>1
    <3>3. Append(w, "%") \in Text
      BY <1>2, <2>3, AppendIsText
    <3>4. Replace(Append(Append(w, "%"), Codes[c]), "'", Apostrophe) = Append(Append(v, "%"), Codes[c])
      BY <1>4, <3>1, <3>2, <3>3
    <3> QED BY <2>3, <2>4, <2>7, <3>1, <3>4
  <2>8. CASE c = "'"
    <3>1. c \notin Most /\ c \in DOMAIN Codes /\ Codes[c] = "27"
      BY <2>8, CodesAre DEF Most
    <3>2. Replace(Append(w, c), "'", Apostrophe) = v \o Apostrophe
      BY <1>4, <2>3, <2>5, <2>8
    <3>3. v \o Apostrophe = Append(Append(v, "%"), "27")
      BY <1>2, <2>4, TwoLetters DEF Apostrophe
    <3> QED BY <2>3, <2>4, <3>1, <3>2, <3>3
  <2>9. CASE c \notin DOMAIN Codes
    <3>1. c \notin Most /\ c # "'"
      BY <2>9, CodesAre DEF Most
    <3>2. Replace(Append(w, c), "'", Apostrophe) = Append(v, c)
      BY <1>4, <2>3, <2>5, <3>1
    <3> QED BY <2>3, <2>4, <2>9, <3>1, <3>2
  <2> QED BY <2>7, <2>8, <2>9 DEF Most
<1>7. \A u \in Text: u \in G
  <2> HIDE DEF G
  <2> QED BY <1>5, <1>6, GrowingText
<1> QED BY <1>7 DEF encodeURIComponent, Most, Apostrophe

LEMMA EncodesAgree ==
  ASSUME NEW t \in Text
  PROVE  /\ encode(t) = Encode(t) /\ tsEncode(t) = Encode(t) /\ nextEncode(t) = Encode(t)
         /\ goEncode(t) = Encode(t) /\ oauth_encode(t) = Encode(t) /\ pyEncode(t) = Encode(t)
         /\ rubyEncode(t) = Encode(t) /\ javaEncode(t) = Encode(t) /\ kotlinEncode(t) = Encode(t)
         /\ rustEncode(t) = Encode(t) /\ dotnetEncode(t) = Encode(t) /\ verifierEncode(t) = Encode(t)
<1>1. DOMAIN Codes \ {} = DOMAIN Codes
  OBVIOUS
<1>2. pyEncode(t) = Encode(t)
  BY <1>1 DEF pyEncode, quote, Encode
<1>3. /\ encode(t) = Encode(t) /\ tsEncode(t) = Encode(t) /\ nextEncode(t) = Encode(t)
      /\ verifierEncode(t) = Encode(t)
  BY QuotesAreEncoded DEF encode, tsEncode, nextEncode, verifierEncode
<1>4. /\ goEncode(t) = Encode(t) /\ oauth_encode(t) = Encode(t) /\ rubyEncode(t) = Encode(t)
      /\ javaEncode(t) = Encode(t) /\ kotlinEncode(t) = Encode(t)
      /\ rustEncode(t) = Encode(t) /\ dotnetEncode(t) = Encode(t)
  BY DEF goEncode, oauth_encode, rubyEncode, javaEncode, kotlinEncode, rustEncode, dotnetEncode,
         rawurlencode, url_encode, Encode
<1> QED BY <1>2, <1>3, <1>4

-----------------------------------------------------------------------------
(* Reading an escaped text back. *)

(* One letter of a text, read behind another. *)
Decoded(before, c) ==
  IF c = "%" THEN <<>> ELSE IF before = "%" THEN <<CharOf(c)>> ELSE <<c>>
LastOf(t) == IF t = <<>> THEN "none" ELSE t[Len(t)]
(* What any letter may be read as. *)
Readings == Letter \cup {CharOf(c): c \in Letter}

LEMMA DecodeNothing == decodeURIComponent(<<>>) = <<>>
<1>1. [i \in DOMAIN <<>> |-> IF <<>>[i] = "%" THEN <<>>
                             ELSE IF i > 1 /\ <<>>[i - 1] = "%" THEN <<CharOf(<<>>[i])>>
                             ELSE <<<<>>[i]>>] = <<>>
  OBVIOUS
<1> QED BY <1>1, FlattenNothing DEF decodeURIComponent

LEMMA DecodeGrows ==
  ASSUME NEW t \in Text, NEW c \in Letter
  PROVE  /\ decodeURIComponent(t) \in Seq(Readings)
         /\ decodeURIComponent(Append(t, c)) = decodeURIComponent(t) \o Decoded(LastOf(t), c)
<1> DEFINE at(u, i) == IF u[i] = "%" THEN <<>>
                       ELSE IF i > 1 /\ u[i - 1] = "%" THEN <<CharOf(u[i])>> ELSE <<u[i]>>
<1>1. PICK n \in Nat: n = Len(t) /\ DOMAIN t = 1..n /\ t \in [1..n -> Letter]
  BY LenProperties DEF Text
<1>2. PICK u: u = Append(t, c)
  OBVIOUS
<1>3. DOMAIN u = 1..(n + 1) /\ u[n + 1] = c /\ \A i \in 1..n: u[i] = t[i]
  <2>1. /\ u \in Text /\ Len(u) = n + 1 /\ u[n + 1] = c
        /\ \A i \in 1..n: u[i] = t[i]
    BY <1>1, <1>2, AppendProperties DEF Text
  <2> QED BY <2>1, LenProperties DEF Text
<1>4. PICK f: f = [i \in DOMAIN t |-> at(t, i)]
  OBVIOUS
<1>5. PICK g: g = [i \in DOMAIN u |-> at(u, i)]
  OBVIOUS
<1>6. \A i \in 1..(n + 1): u[i] \in Letter
  <2>1. ASSUME NEW i \in 1..(n + 1), i # n + 1 PROVE i \in 1..n
    BY <2>1
  <2> QED BY <1>1, <1>3, <2>1
<1>7. ASSUME NEW d \in Letter
      PROVE  <<>> \in Seq(Readings) /\ <<d>> \in Seq(Readings) /\ <<CharOf(d)>> \in Seq(Readings)
  <2>1. d \in Readings /\ CharOf(d) \in Readings
    BY DEF Readings
  <2> QED BY <2>1
<1>8. f \in [1..n -> Seq(Readings)]
  BY <1>1, <1>4, <1>7
<1>9. g \in [1..(n + 1) -> Seq(Readings)]
  BY <1>3, <1>5, <1>6, <1>7
<1>10. ASSUME NEW i \in 1..n PROVE g[i] = f[i]
  <2>1. i \in 1..(n + 1) /\ (i > 1 => i - 1 \in 1..n)
    OBVIOUS
  <2>2. u[i] = t[i] /\ (i > 1 => u[i - 1] = t[i - 1])
    BY <1>3, <2>1
  <2>3. at(u, i) = at(t, i)
    BY <2>2
  <2> QED BY <1>1, <1>3, <1>4, <1>5, <2>1, <2>3
<1>11. g[n + 1] = Decoded(LastOf(t), c)
  <2>1. n + 1 \in 1..(n + 1) /\ g[n + 1] = at(u, n + 1)
    BY <1>3, <1>5
  <2>2. CASE n = 0
    <3>1. t = <<>> /\ ~(n + 1 > 1)
      BY <1>1, <2>2, EmptySeq DEF Text
    <3> QED BY <1>3, <2>1, <3>1 DEF Decoded, LastOf
  <2>3. CASE n # 0
    <3>1. t # <<>> /\ n + 1 > 1 /\ (n + 1) - 1 = n /\ n \in 1..n
      BY <1>1, <2>3, EmptySeq
    <3> QED BY <1>1, <1>3, <2>1, <3>1 DEF Decoded, LastOf
  <2> QED BY <2>2, <2>3
<1>12. g[n + 1] \in Seq(Readings)
  BY <1>9
<1>13. f \in Seq(Seq(Readings)) /\ g = Append(f, g[n + 1])
  <2>1. PICK v: v = g[n + 1]
    OBVIOUS
  <2> QED BY <1>8, <1>9, <1>10, <1>12, <2>1, OneLonger
<1>14. decodeURIComponent(t) = FlattenSeq(f) /\ decodeURIComponent(u) = FlattenSeq(g)
  BY <1>4, <1>5 DEF decodeURIComponent
<1> QED BY <1>2, <1>11, <1>12, <1>13, <1>14, FlattenAppend

LEMMA LastOfAppend ==
  \A t \in Text: \A c \in Letter: LastOf(Append(t, c)) = c
BY AppendProperties, EmptySeq DEF LastOf, Text

(* Whatever else was escaped, as long as percent signs were. *)
LEMMA DecodeEscape ==
  ASSUME NEW reserved \in SUBSET DOMAIN Codes, "%" \in reserved, NEW t \in Text
  PROVE  decodeURIComponent(Escape(t, reserved)) = t
<1> DEFINE G == {u \in Text: /\ decodeURIComponent(Escape(u, reserved)) = u
                             /\ LastOf(Escape(u, reserved)) # "%"}
<1>1. <<>> \in G
  BY NothingIsText, DecodeNothing DEF LastOf
<1>2. ASSUME NEW u \in Text, u \in G, NEW c \in Letter PROVE Append(u, c) \in G
  <2>1. PICK w: w = Escape(u, reserved)
    OBVIOUS
  <2>2. /\ w \in Text
        /\ c \in reserved => Escape(Append(u, c), reserved) = Append(Append(w, "%"), Codes[c])
        /\ c \notin reserved => Escape(Append(u, c), reserved) = Append(w, c)
    BY <2>1, EscapeGrows
  <2>3. decodeURIComponent(w) = u /\ LastOf(w) # "%"
    BY <1>2, <2>1
  <2>4. Append(u, c) \in Text /\ u \o <<c>> = Append(u, c)
    BY AppendIsText
  <2>5. CASE c \in reserved
    <3>1. /\ "%" \in Letter /\ Codes[c] \in Letter /\ Codes[c] # "%" /\ CharOf(Codes[c]) = c
      BY <2>5, CodesAre, CodesAreLetters
    <3>2. PICK p: p = "%"
      OBVIOUS
    <3>3. Append(w, p) \in Text /\ LastOf(Append(w, p)) = p
      BY <2>2, <3>1, <3>2, AppendIsText, LastOfAppend
    <3>4. decodeURIComponent(Append(w, p)) = u
      <4>1. decodeURIComponent(Append(w, p)) = u \o Decoded(LastOf(w), p)
        BY <2>2, <2>3, <3>1, <3>2, DecodeGrows
      <4>2. Decoded(LastOf(w), p) = <<>>
        BY <3>2 DEF Decoded
      <4> QED BY <4>1, <4>2 DEF Text
    <3>5. decodeURIComponent(Append(Append(w, p), Codes[c])) = u \o <<c>>
      <4>1. decodeURIComponent(Append(Append(w, p), Codes[c])) = u \o Decoded(p, Codes[c])
        BY <3>1, <3>3, <3>4, DecodeGrows
      <4>2. Decoded(p, Codes[c]) = <<c>>
        BY <3>1, <3>2 DEF Decoded
      <4> QED BY <4>1, <4>2
    <3>6. LastOf(Append(Append(w, p), Codes[c])) # "%"
      BY <3>1, <3>3, LastOfAppend
    <3> QED BY <2>2, <2>4, <2>5, <3>2, <3>5, <3>6
  <2>6. CASE c \notin reserved
    <3>1. c # "%"
      BY <2>6
    <3>2. decodeURIComponent(Append(w, c)) = u \o <<c>>
      <4>1. decodeURIComponent(Append(w, c)) = u \o Decoded(LastOf(w), c)
        BY <2>2, <2>3, DecodeGrows
      <4>2. Decoded(LastOf(w), c) = <<c>>
        BY <2>3, <3>1 DEF Decoded
      <4> QED BY <4>1, <4>2
    <3>3. LastOf(Append(w, c)) # "%"
      BY <2>2, <3>1, LastOfAppend
    <3> QED BY <2>2, <2>4, <2>6, <3>2, <3>3
  <2> QED BY <2>5, <2>6
<1>3. \A u \in Text: u \in G
  <2> HIDE DEF G
  <2> QED BY <1>1, <1>2, GrowingText
<1> QED BY <1>3

(* The texts without a letter: an escaped text is free of what was escaped, *)
(* but for the percent signs of the codes.                                 *)
Free(c) == Seq(Letter \ {c})

LEMMA FreeIsText == \A c: Free(c) \subseteq Text /\ <<>> \in Free(c)
BY EmptySeq DEF Free, Text

LEMMA FreeGrows ==
  \A c: \A t \in Free(c): \A d \in Letter: d # c => Append(t, d) \in Free(c)
BY AppendProperties DEF Free

LEMMA EscapeIsFree ==
  ASSUME NEW reserved \in SUBSET DOMAIN Codes, NEW c \in reserved, c # "%", NEW t \in Text
  PROVE  Escape(t, reserved) \in Free(c)
<1> DEFINE G == {u \in Text: Escape(u, reserved) \in Free(c)}
<1>1. <<>> \in G
  BY NothingIsText, FreeIsText
<1>2. ASSUME NEW u \in Text, u \in G, NEW d \in Letter PROVE Append(u, d) \in G
  <2>1. PICK w: w = Escape(u, reserved)
    OBVIOUS
  <2>2. /\ d \in reserved => Escape(Append(u, d), reserved) = Append(Append(w, "%"), Codes[d])
        /\ d \notin reserved => Escape(Append(u, d), reserved) = Append(w, d)
    BY <2>1, EscapeGrows
  <2>3. w \in Free(c)
    BY <1>2, <2>1
  <2>4. Append(u, d) \in Text
    BY AppendIsText
  <2>5. CASE d \in reserved
    <3>1. "%" \in Letter /\ Codes[d] \in Letter /\ Codes[d] # c
      BY <2>5, CodesAre, CodesAreLetters
    <3>2. PICK p: p = "%"
      OBVIOUS
    <3>3. Append(w, p) \in Free(c)
      BY <2>3, <3>1, <3>2, FreeGrows
    <3>4. Append(Append(w, p), Codes[d]) \in Free(c)
      BY <3>1, <3>3, FreeGrows
    <3> QED BY <2>2, <2>4, <2>5, <3>2, <3>4
  <2>6. CASE d \notin reserved
    <3>1. Append(w, d) \in Free(c)
      BY <2>3, <2>6, FreeGrows
    <3> QED BY <2>2, <2>4, <2>6, <3>1
  <2> QED BY <2>5, <2>6
<1>3. \A u \in Text: u \in G
  <2> HIDE DEF G
  <2> QED BY <1>1, <1>2, GrowingText
<1> QED BY <1>3

(* A letter that is not there is not replaced. *)
LEMMA NothingToReplace ==
  ASSUME NEW old, NEW new \in Text, NEW t \in Free(old)
  PROVE  Replace(t, old, new) = t
<1> DEFINE G == {u \in Free(old): Replace(u, old, new) = u}
<1>1. <<>> \in G
  BY NothingIsText, FreeIsText
<1>2. ASSUME NEW u \in Seq(Letter \ {old}), u \in G, NEW d \in Letter \ {old} PROVE Append(u, d) \in G
  <2>1. u \in Text /\ u \in Free(old) /\ Replace(u, old, new) = u /\ d # old /\ d \in Letter
    BY <1>2, FreeIsText
  <2>2. Replace(Append(u, d), old, new) = Append(Replace(u, old, new), d)
    <3>1. Grows(old, new, u, d)
      BY <2>1, ReplaceGrows
    <3> QED BY <2>1, <3>1 DEF Grows
  <2>3. Append(u, d) \in Free(old)
    BY <2>1, FreeGrows
  <2> QED BY <2>1, <2>2, <2>3
<1>3. \A u \in Seq(Letter \ {old}): u \in G
  <2> HIDE DEF G
  <2> QED BY <1>1, <1>2, Growing
<1> QED BY <1>3 DEF Free

(* x-www-form-urlencoded: a plus for a space, and a space for a plus. *)
LEMMA PlusAndBack ==
  ASSUME NEW t \in Free("+")
  PROVE  /\ Replace(t, " ", <<"+">>) \in Text
         /\ Replace(Replace(t, " ", <<"+">>), "+", <<" ">>) = t
<1>1. PICK space: space = " "
  OBVIOUS
<1>2. PICK plus: plus = "+"
  OBVIOUS
<1>3. space \in Letter /\ plus \in Letter /\ space # plus
  BY <1>1, <1>2 DEF Letter
<1>4. PICK aSpace \in Text, aPlus \in Text: aSpace = <<space>> /\ aPlus = <<plus>>
  BY <1>3, OneLetter
<1>5. ASSUME NEW w \in Text, NEW e \in Letter
      PROVE  /\ Replace(w, space, aPlus) \in Text
             /\ e = space => Replace(Append(w, e), space, aPlus) = Replace(w, space, aPlus) \o aPlus
             /\ e # space => Replace(Append(w, e), space, aPlus) = Append(Replace(w, space, aPlus), e)
  <2>1. Grows(space, aPlus, w, e)
    BY ReplaceGrows
  <2> QED BY <2>1 DEF Grows
<1>6. ASSUME NEW w \in Text, NEW e \in Letter
      PROVE  /\ e = plus => Replace(Append(w, e), plus, aSpace) = Replace(w, plus, aSpace) \o aSpace
             /\ e # plus => Replace(Append(w, e), plus, aSpace) = Append(Replace(w, plus, aSpace), e)
  <2>1. Grows(plus, aSpace, w, e)
    BY ReplaceGrows
  <2> QED BY <2>1 DEF Grows
<1> DEFINE r(u) == Replace(u, space, aPlus)
           b(u) == Replace(u, plus, aSpace)
           G == {u \in Free(plus): r(u) \in Text /\ b(r(u)) = u}
<1>7. <<>> \in G
  BY NothingIsText, FreeIsText
<1>8. ASSUME NEW u \in Seq(Letter \ {plus}), u \in G, NEW d \in Letter \ {plus} PROVE Append(u, d) \in G
  <2>1. u \in Text /\ u \in Free(plus) /\ r(u) \in Text /\ b(r(u)) = u /\ d # plus /\ d \in Letter
    BY <1>8, FreeIsText
  <2>2. Append(u, d) \in Free(plus)
    BY <2>1, FreeGrows
  <2>3. PICK w \in Text: w = r(u)
    BY <2>1
  <2>4. /\ d = space => r(Append(u, d)) = r(u) \o aPlus
        /\ d # space => r(Append(u, d)) = Append(r(u), d)
    BY <1>5, <2>1
  <2>5. ASSUME NEW e \in Letter
        PROVE  /\ e = plus => b(Append(w, e)) = b(w) \o aSpace
               /\ e # plus => b(Append(w, e)) = Append(b(w), e)
    BY <1>6
  <2>6. /\ w \o aPlus = Append(w, plus) /\ Append(w, plus) \in Text /\ Append(w, d) \in Text
        /\ u \o aSpace = Append(u, space)
    BY <1>3, <1>4, <2>1, AppendIsText
  <2>7. b(w) = u
    BY <2>1, <2>3
  <2> HIDE DEF b, r
  <2>8. CASE d = space
    BY <1>3, <2>2, <2>3, <2>4, <2>5, <2>6, <2>7, <2>8
  <2>9. CASE d # space
    BY <2>1, <2>2, <2>3, <2>4, <2>5, <2>6, <2>7, <2>9
  <2> QED BY <2>8, <2>9
<1>9. \A u \in Seq(Letter \ {plus}): u \in G
  <2> HIDE DEF G
  <2> QED BY <1>7, <1>8, Growing
<1> QED BY <1>1, <1>2, <1>4, <1>9 DEF Free

(* The plus signs of a form stay free of what was escaped in it. *)
LEMMA ReplaceIsFree ==
  ASSUME NEW old, NEW c, NEW d \in Letter \ {c}, NEW t \in Free(c)
  PROVE  Replace(t, old, <<d>>) \in Free(c)
<1>1. <<d>> \in Text
  BY OneLetter
<1> DEFINE G == {u \in Free(c): Replace(u, old, <<d>>) \in Free(c)}
<1>2. <<>> \in G
  BY NothingIsText, FreeIsText
<1>3. ASSUME NEW u \in Seq(Letter \ {c}), u \in G, NEW e \in Letter \ {c} PROVE Append(u, e) \in G
  <2>1. u \in Text /\ u \in Free(c) /\ Replace(u, old, <<d>>) \in Free(c) /\ e # c /\ e \in Letter
    BY <1>3, FreeIsText
  <2>2. Append(u, e) \in Free(c)
    BY <2>1, FreeGrows
  <2>3. /\ Replace(u, old, <<d>>) \in Text
        /\ e = old => Replace(Append(u, e), old, <<d>>) = Replace(u, old, <<d>>) \o <<d>>
        /\ e # old => Replace(Append(u, e), old, <<d>>) = Append(Replace(u, old, <<d>>), e)
    <3>1. PICK dash \in Text: dash = <<d>>
      BY <1>1
    <3>2. Grows(old, dash, u, e)
      BY <2>1, ReplaceGrows
    <3> QED BY <3>1, <3>2 DEF Grows
  <2>4. Replace(u, old, <<d>>) \o <<d>> = Append(Replace(u, old, <<d>>), d)
    BY <2>3, AppendIsText
  <2>5. Append(Replace(u, old, <<d>>), d) \in Free(c) /\ Append(Replace(u, old, <<d>>), e) \in Free(c)
    BY <2>1, FreeGrows
  <2> QED BY <2>2, <2>3, <2>4, <2>5
<1>4. \A u \in Seq(Letter \ {c}): u \in G
  <2> HIDE DEF G
  <2> QED BY <1>2, <1>3, Growing
<1> QED BY <1>4 DEF Free

-----------------------------------------------------------------------------
(* Texts taken apart at a separator, and put together with one. *)

Parts == Seq(Text) \ {<<>>}
Take(before, c, s) ==
  IF c = s THEN Append(before, <<>>) ELSE [before EXCEPT ![Len(before)] = Append(@, c)]
Splits(f, t, s) ==
  /\ f[0] = <<<<>>>> /\ \A i \in 0..Len(t): i # 0 => f[i] = Take(f[i - 1], t[i], s)
  /\ Split(t, s) = f[Len(t)]

LEMMA TakeIsParts ==
  ASSUME NEW ps \in Parts, NEW c \in Letter, NEW s
  PROVE  Take(ps, c, s) \in Parts
<1>1. ps \in Seq(Text) /\ ps # <<>> /\ Len(ps) \in Nat /\ Len(ps) # 0 /\ ps \in [1..Len(ps) -> Text]
  BY LenProperties, EmptySeq DEF Parts
<1>2. CASE c = s
  <2>1. <<>> \in Text
    BY NothingIsText
  <2>2. Append(ps, <<>>) \in Seq(Text) /\ Len(Append(ps, <<>>)) = Len(ps) + 1
    BY <1>1, <2>1, AppendProperties
  <2>3. Append(ps, <<>>) # <<>>
    BY <1>1, <2>2, EmptySeq
  <2> QED BY <1>2, <2>2, <2>3 DEF Take, Parts
<1>3. CASE c # s
  <2>1. PICK n \in Nat: n = Len(ps) /\ n # 0 /\ ps \in [1..n -> Text]
    BY <1>1
  <2>2. ps[n] \in Text /\ n \in 1..n
    BY <2>1
  <2>3. PICK q: q = Append(ps[n], c)
    OBVIOUS
  <2>4. q \in Text
    BY <2>2, <2>3, AppendIsText
  <2>5. PICK r: r = [ps EXCEPT ![n] = q]
    OBVIOUS
  <2>6. r \in [1..n -> Text]
    BY <2>1, <2>4, <2>5
  <2>7. r \in Seq(Text) /\ Len(r) = n
    BY <2>6
  <2>8. r # <<>>
    <3>1. Len(r) # 0
      BY <2>1, <2>7
    <3>2. Len(<<>>) = 0
      BY EmptySeq
    <3> QED BY <3>1, <3>2, Zenon
  <2>9. Take(ps, c, s) = r
    BY <1>3, <2>1, <2>3, <2>5 DEF Take
  <2>10. r \in Parts
    BY <2>7, <2>8, Zenon DEF Parts
  <2> QED BY <2>9, <2>10, Zenon
<1> QED BY <1>2, <1>3

LEMMA SplitIs ==
  ASSUME NEW t \in Text, NEW s
  PROVE  \E f \in [0..Len(t) -> Parts]: Splits(f, t, s)
<1>1. PICK n \in Nat: n = Len(t) /\ DOMAIN t = 1..n /\ t \in [1..n -> Letter]
  BY LenProperties DEF Text
<1> DEFINE step == [p \in (0..n) \X Parts |-> IF p[1] = 0 THEN p[2] ELSE Take(p[2], t[p[1]], s)]
<1>2. step \in [(0..n) \X Parts -> Parts]
  <2>1. ASSUME NEW i \in 0..n, NEW ps \in Parts, i # 0 PROVE Take(ps, t[i], s) \in Parts
    <3>1. t[i] \in Letter
      BY <1>1, <2>1
    <3> QED BY <3>1, TakeIsParts
  <2> QED BY <2>1
<1>3. <<<<>>>> \in Parts
  BY NothingIsText, EmptySeq DEF Parts
<1>4. PICK f \in [0..n -> Parts]: Iterates(f, 0, n, <<<<>>>>, step)
  <2>1. 0 \in Nat /\ n \in Nat /\ 0 <= n
    OBVIOUS
  <2> HIDE DEF step
  <2> QED BY <1>2, <1>3, <2>1, Recursion
<1>5. ASSUME NEW i \in 0..n, i # 0 PROVE f[i] = Take(f[i - 1], t[i], s)
  <2>1. i - 1 \in 0..n /\ f[i - 1] \in Parts
    BY <1>5
  <2>2. f[i] = step[<<i, f[i - 1]>>]
    <3> HIDE DEF step
    <3> QED BY <1>4, <1>5 DEF Iterates
  <2> QED BY <1>5, <2>1, <2>2
<1> DEFINE at(g, i) == IF i = 0 THEN <<<<>>>>
                       ELSE IF t[i] = s THEN Append(g[i - 1], <<>>)
                       ELSE [g[i - 1] EXCEPT ![Len(g[i - 1])] = Append(@, t[i])]
<1>6. ASSUME NEW i \in 0..n PROVE f[i] = at(f, i)
  BY <1>4, <1>5 DEF Iterates, Take
<1>7. f = [i \in 0..n |-> at(f, i)]
  <2> HIDE DEF at
  <2> QED BY <1>6
<1>8. ASSUME NEW g, g = [i \in 0..n |-> at(g, i)]
      PROVE  g = f
  <2>1. \A i \in 0..n: g[i] = at(g, i)
    <3> HIDE DEF at
    <3>1. PICK h: h = [i \in 0..n |-> at(g, i)]
      OBVIOUS
    <3>2. \A i \in 0..n: h[i] = at(g, i)
      BY <3>1
    <3> QED BY <1>8, <3>1, <3>2
  <2>2. g[0] = f[0]
    <3>1. 0 \in 0..n
      OBVIOUS
    <3>2. g[0] = <<<<>>>> /\ f[0] = <<<<>>>>
      BY <1>6, <2>1, <3>1
    <3> QED BY <3>2
  <2>3. ASSUME NEW i \in 0..n, i # 0, g[i - 1] = f[i - 1] PROVE g[i] = f[i]
    <3>1. at(g, i) = at(f, i)
      BY <2>3
    <3> QED BY <1>6, <2>1, <3>1
  <2>4. \A i \in 0..n: g[i] = f[i]
    <3>1. 0 \in Nat /\ n \in Nat
      OBVIOUS
    <3>2. GoOnAlike(g, f, 0, n)
      BY <2>2, <2>3 DEF GoOnAlike
    <3>3. Alike(g, f, 0, n)
      BY <3>1, <3>2, OneSolution
    <3> QED BY <3>3 DEF Alike
  <2>5. DOMAIN g = 0..n /\ g = [i \in DOMAIN g |-> g[i]] /\ f = [i \in 0..n |-> f[i]]
    <3> HIDE DEF at
    <3>1. PICK h: h = [i \in 0..n |-> at(g, i)]
      OBVIOUS
    <3>2. DOMAIN h = 0..n /\ h = [i \in DOMAIN h |-> h[i]]
      BY <3>1
    <3> QED BY <1>8, <3>1, <3>2
  <2> QED BY <2>4, <2>5
<1>9. Split(t, s) = f[n]
  <2> DEFINE parts == CHOOSE g: g = [i \in 0..n |-> at(g, i)]
  <2>1. parts = f
    <3>1. parts = [i \in 0..n |-> at(parts, i)]
      <4> HIDE DEF at
      <4> QED BY <1>7
    <3> HIDE DEF parts
    <3> QED BY <1>8, <3>1
  <2>2. Split(t, s) = parts[n]
    BY <1>1 DEF Split
  <2> QED BY <2>1, <2>2
<1>10. Splits(f, t, s)
  BY <1>1, <1>4, <1>5, <1>9 DEF Splits, Iterates
<1> QED BY <1>1, <1>10

LEMMA SplitNothing == \A s: Split(<<>>, s) = <<<<>>>>
<1> TAKE s
<1>1. <<>> \in Text /\ Len(<<>>) = 0
  BY NothingIsText
<1>2. PICK f \in [0..Len(<<>>) -> Parts]: Splits(f, <<>>, s)
  BY <1>1, SplitIs
<1> QED BY <1>1, <1>2 DEF Splits

LEMMA SplitGrows ==
  ASSUME NEW t \in Text, NEW c \in Letter, NEW s
  PROVE  Split(t, s) \in Parts /\ Split(Append(t, c), s) = Take(Split(t, s), c, s)
<1>1. PICK n \in Nat: n = Len(t) /\ DOMAIN t = 1..n
  BY LenProperties DEF Text
<1>2. PICK u: u = Append(t, c)
  OBVIOUS
<1>3. u \in Text /\ Len(u) = n + 1 /\ u[n + 1] = c /\ \A i \in 1..n: u[i] = t[i]
  BY <1>1, <1>2, AppendProperties DEF Text
<1>4. PICK f \in [0..n -> Parts]: Splits(f, t, s)
  BY <1>1, SplitIs
<1>5. PICK g \in [0..(n + 1) -> Parts]: Splits(g, u, s)
  BY <1>3, SplitIs
<1>6. g[0] = f[0]
  BY <1>4, <1>5 DEF Splits
<1>7. ASSUME NEW i \in 0..n, i # 0, g[i - 1] = f[i - 1] PROVE g[i] = f[i]
  <2>1. i \in 0..(n + 1) /\ u[i] = t[i]
    BY <1>3, <1>7
  <2> QED BY <1>1, <1>3, <1>4, <1>5, <1>7, <2>1 DEF Splits
<1>8. g[n] = f[n]
  <2>1. 0 \in Nat /\ n \in Nat /\ n \in 0..n
    OBVIOUS
  <2>2. GoOnAlike(g, f, 0, n)
    BY <1>6, <1>7 DEF GoOnAlike
  <2>3. Alike(g, f, 0, n)
    BY <2>1, <2>2, OneSolution
  <2> QED BY <2>1, <2>3 DEF Alike
<1>9. g[n + 1] = Take(g[n], c, s)
  <2>1. n + 1 \in 0..(n + 1) /\ n + 1 # 0 /\ (n + 1) - 1 = n
    OBVIOUS
  <2> QED BY <1>3, <1>5, <2>1 DEF Splits
<1>10. f[n] \in Parts
  OBVIOUS
<1> QED BY <1>1, <1>2, <1>3, <1>4, <1>5, <1>8, <1>9, <1>10 DEF Splits

(* What comes behind a separator is a part of its own. *)
LEMMA SplitBehind ==
  ASSUME NEW s \in Letter, NEW t \in Text, NEW u \in Free(s)
  PROVE  Split(Append(t, s) \o u, s) = Append(Split(t, s), u)
<1>1. PICK a \in Text: a = Append(t, s)
  BY AppendIsText
<1>2. PICK ps \in Parts: ps = Split(t, s)
  BY SplitGrows
<1>3. PICK n \in Nat: n = Len(ps) /\ ps \in [1..n -> Text] /\ ps \in Seq(Text)
  BY LenProperties DEF Parts
<1> DEFINE G == {w \in Free(s): a \o w \in Text /\ Split(a \o w, s) = Append(ps, w)}
<1>4. <<>> \in G
  <2>1. a \o <<>> = a
    BY <1>1 DEF Text
  <2>2. Split(a, s) = Append(ps, <<>>)
    BY <1>1, <1>2, SplitGrows DEF Take
  <2> QED BY <2>1, <2>2, FreeIsText
<1>5. ASSUME NEW w \in Seq(Letter \ {s}), w \in G, NEW c \in Letter \ {s} PROVE Append(w, c) \in G
  <2>1. /\ w \in Text /\ w \in Free(s) /\ a \o w \in Text
        /\ Split(a \o w, s) = Append(ps, w) /\ c # s /\ c \in Letter
    BY <1>5, FreeIsText
  <2>2. Append(w, c) \in Free(s)
    BY <2>1, FreeGrows
  <2>3. a \o Append(w, c) = Append(a \o w, c)
    BY <1>1, <2>1 DEF Text
  <2>4. Append(a \o w, c) \in Text
    BY <2>1, AppendIsText
  <2>5. Split(Append(a \o w, c), s) = Take(Append(ps, w), c, s)
    <3>1. PICK x \in Text: x = a \o w
      BY <2>1
    <3>2. Split(Append(x, c), s) = Take(Split(x, s), c, s)
      BY <2>1, SplitGrows
    <3> QED BY <2>1, <3>1, <3>2
  <2>6. Take(Append(ps, w), c, s) = Append(ps, Append(w, c))
    <3>1. PICK q: q = Append(ps, w)
      OBVIOUS
    <3>2. PICK x \in Text: x = Append(w, c)
      BY <2>1, AppendIsText
    <3>3. PICK r: r = Append(ps, x)
      OBVIOUS
    <3>4. q \in Seq(Text) /\ Len(q) = n + 1 /\ q[n + 1] = w /\ \A i \in 1..n: q[i] = ps[i]
      BY <1>3, <2>1, <3>1, AppendProperties
    <3>5. r \in Seq(Text) /\ Len(r) = n + 1 /\ r[n + 1] = x /\ \A i \in 1..n: r[i] = ps[i]
      BY <1>3, <3>2, <3>3, AppendProperties
    <3>6. Take(q, c, s) = [q EXCEPT ![n + 1] = x]
      BY <2>1, <3>2, <3>4 DEF Take
    <3>7. q \in [1..(n + 1) -> Text] /\ r \in [1..(n + 1) -> Text]
      BY <3>4, <3>5, LenProperties
    <3>8. ASSUME NEW i \in 1..(n + 1) PROVE [q EXCEPT ![n + 1] = x][i] = r[i]
      <4>1. i # n + 1 => i \in 1..n
        OBVIOUS
      <4> QED BY <3>4, <3>5, <3>7, <4>1
    <3>9. [q EXCEPT ![n + 1] = x] = r
      BY <3>7, <3>8
    <3> QED BY <3>1, <3>2, <3>3, <3>6, <3>9
  <2> QED BY <2>2, <2>3, <2>4, <2>5, <2>6
<1>6. \A w \in Seq(Letter \ {s}): w \in G
  <2> HIDE DEF G
  <2> QED BY <1>4, <1>5, Growing
<1> QED BY <1>1, <1>2, <1>6 DEF Free

(* A text without the separator is one part. *)
LEMMA SplitOne ==
  ASSUME NEW s \in Letter, NEW u \in Free(s)
  PROVE  Split(u, s) = <<u>>
<1> DEFINE G == {w \in Free(s): Split(w, s) = <<w>>}
<1>1. <<>> \in G
  BY SplitNothing, FreeIsText
<1>2. ASSUME NEW w \in Seq(Letter \ {s}), w \in G, NEW c \in Letter \ {s} PROVE Append(w, c) \in G
  <2>1. w \in Text /\ w \in Free(s) /\ Split(w, s) = <<w>> /\ c # s /\ c \in Letter
    BY <1>2, FreeIsText
  <2>2. Append(w, c) \in Free(s)
    BY <2>1, FreeGrows
  <2>3. Split(Append(w, c), s) = Take(<<w>>, c, s)
    BY <2>1, SplitGrows
  <2>4. PICK x: x = Append(w, c)
    OBVIOUS
  <2>5. Take(<<w>>, c, s) = [<<w>> EXCEPT ![1] = x]
    BY <2>1, <2>4 DEF Take
  <2>6. [<<w>> EXCEPT ![1] = x] = <<x>>
    OBVIOUS
  <2> QED BY <2>2, <2>3, <2>4, <2>5, <2>6
<1>3. \A w \in Seq(Letter \ {s}): w \in G
  <2> HIDE DEF G
  <2> QED BY <1>1, <1>2, Growing
<1> QED BY <1>3 DEF Free

LEMMA JoinNothing == \A sep: Join(<<>>, sep) = <<>>
<1> TAKE sep
<1>1. [i \in DOMAIN <<>> |-> IF i = 1 THEN <<>>[i] ELSE sep \o <<>>[i]] = <<>>
  OBVIOUS
<1> QED BY <1>1, FlattenNothing DEF Join

LEMMA JoinOne ==
  ASSUME NEW p \in Text, NEW sep \in Text
  PROVE  Join(<<p>>, sep) = p
<1>1. PICK g: g = [i \in DOMAIN <<p>> |-> IF i = 1 THEN <<p>>[i] ELSE sep \o <<p>>[i]]
  OBVIOUS
<1>2. g = <<p>>
  BY <1>1
<1>3. <<>> \in Seq(Seq(Letter)) /\ <<p>> = Append(<<>>, p) /\ p \in Seq(Letter)
  BY DEF Text
<1>4. FlattenSeq(<<p>>) = FlattenSeq(<<>>) \o p
  BY <1>3, FlattenAppend
<1>5. Join(<<p>>, sep) = FlattenSeq(g)
  BY <1>1 DEF Join
<1>6. <<>> \o p = p
  BY <1>3, ConcatEmptySeq
<1> QED BY <1>2, <1>4, <1>5, <1>6, FlattenNothing

LEMMA JoinGrows ==
  ASSUME NEW ps \in Seq(Text), ps # <<>>, NEW p \in Text, NEW sep \in Text
  PROVE  Join(ps, sep) \in Text /\ Join(Append(ps, p), sep) = Join(ps, sep) \o (sep \o p)
<1>1. PICK n \in Nat: n = Len(ps) /\ n # 0 /\ DOMAIN ps = 1..n /\ ps \in [1..n -> Text]
  BY LenProperties, EmptySeq
<1>2. PICK qs: qs = Append(ps, p)
  OBVIOUS
<1>3. DOMAIN qs = 1..(n + 1) /\ qs[n + 1] = p /\ \A i \in 1..n: qs[i] = ps[i]
  <2>1. qs \in Seq(Text) /\ Len(qs) = n + 1 /\ qs[n + 1] = p /\ \A i \in 1..n: qs[i] = ps[i]
    BY <1>1, <1>2, AppendProperties
  <2> QED BY <2>1, LenProperties
<1>4. ASSUME NEW x \in Text PROVE sep \o x \in Text
  BY ConcatProperties DEF Text
<1>5. PICK f: f = [i \in DOMAIN ps |-> IF i = 1 THEN ps[i] ELSE sep \o ps[i]]
  OBVIOUS
<1>6. PICK g: g = [i \in DOMAIN qs |-> IF i = 1 THEN qs[i] ELSE sep \o qs[i]]
  OBVIOUS
<1>7. f \in [1..n -> Text]
  <2>1. \A i \in 1..n: ps[i] \in Text /\ sep \o ps[i] \in Text
    BY <1>1, <1>4
  <2> QED BY <1>1, <1>5, <2>1
<1>8. PICK v \in Text: v = sep \o p
  BY <1>4
<1>9. g[n + 1] = v /\ \A i \in 1..n: g[i] = f[i]
  <2>1. n + 1 \in 1..(n + 1) /\ n + 1 # 1 /\ \A i \in 1..n: i \in 1..(n + 1)
    BY <1>1
  <2> QED BY <1>1, <1>3, <1>5, <1>6, <1>8, <2>1
<1>10. g \in [1..(n + 1) -> Text]
  <2>1. \A i \in 1..(n + 1): g[i] \in Text
    <3>1. \A i \in 1..(n + 1): i # n + 1 => i \in 1..n
      OBVIOUS
    <3> QED BY <1>7, <1>8, <1>9, <3>1
  <2> QED BY <1>3, <1>6, <2>1
<1>11. f \in Seq(Text) /\ g = Append(f, v)
  BY <1>7, <1>8, <1>9, <1>10, OneLonger
<1>12. Join(ps, sep) = FlattenSeq(f) /\ Join(qs, sep) = FlattenSeq(g)
  BY <1>5, <1>6 DEF Join
<1> QED BY <1>2, <1>8, <1>11, <1>12, FlattenAppend DEF Text

(* The first part stays as it is; the others may have something in front,  *)
(* the blank behind a comma.                                               *)
Behind(w, ps) == [i \in DOMAIN ps |-> IF i = 1 THEN ps[i] ELSE w \o ps[i]]

LEMMA TextRegroups ==
  ASSUME NEW u \in Text, NEW v \in Text, NEW w \in Text
  PROVE  (u \o v) \o w = u \o (v \o w)
BY SMT DEF Text

LEMMA Regroup ==
  ASSUME NEW j \in Text, NEW s \in Letter, NEW w \in Text, NEW p \in Text
  PROVE  j \o ((<<s>> \o w) \o p) = Append(j, s) \o (w \o p)
<1>1. PICK one \in Text: one = <<s>>
  BY OneLetter
<1>2. PICK x \in Text: x = w \o p
  BY ConcatProperties DEF Text
<1>3. (one \o w) \o p = one \o x
  BY <1>2, TextRegroups
<1>4. j \o (one \o x) = (j \o one) \o x
  BY SMT DEF Text
<1>5. j \o one = Append(j, s)
  BY <1>1, AppendIsText
<1> QED BY <1>1, <1>2, <1>3, <1>4, <1>5

LEMMA SplitJoin ==
  ASSUME NEW s \in Letter, NEW w \in Free(s), NEW ps \in Seq(Free(s)), ps # <<>>
  PROVE  Split(Join(ps, <<s>> \o w), s) = Behind(w, ps)
<1>1. PICK sep \in Text: sep = <<s>> \o w
  BY OneLetter, FreeIsText, ConcatProperties DEF Text
<1> DEFINE G == {qs \in Seq(Free(s)): qs # <<>> => Split(Join(qs, sep), s) = Behind(w, qs)}
<1>2. <<>> \in G
  BY EmptySeq
<1>3. ASSUME NEW qs \in Seq(Free(s)), qs \in G, NEW p \in Free(s) PROVE Append(qs, p) \in G
  <2>1. PICK rs \in Seq(Free(s)): rs = Append(qs, p)
    BY AppendProperties
  <2>2. qs \in Seq(Text) /\ p \in Text /\ w \in Text
    <3>1. qs \in [1..Len(qs) -> Free(s)] /\ Len(qs) \in Nat
      BY LenProperties
    <3>2. qs \in [1..Len(qs) -> Text]
      BY <3>1, FreeIsText
    <3> QED BY <3>1, <3>2, FreeIsText
  <2>3. CASE qs = <<>>
    <3>1. rs = <<p>>
      BY <2>1, <2>3
    <3>2. Split(p, s) = <<p>> /\ Join(<<p>>, sep) = p
      BY <2>2, JoinOne, SplitOne
    <3>3. Behind(w, <<p>>) = <<p>>
      BY DEF Behind
    <3> QED BY <2>1, <3>1, <3>2, <3>3
  <2>4. CASE qs # <<>>
    <3>1. PICK j \in Text: j = Join(qs, sep) /\ Join(rs, sep) = j \o (sep \o p)
      BY <2>1, <2>2, <2>4, JoinGrows
    <3>2. w \o p \in Free(s)
      BY ConcatProperties DEF Free
    <3>3. j \o (sep \o p) = Append(j, s) \o (w \o p)
      <4>1. j \o ((<<s>> \o w) \o p) = Append(j, s) \o (w \o p)
        BY <2>2, Regroup
      <4> QED BY <1>1, <4>1
    <3>4. Split(Append(j, s) \o (w \o p), s) = Append(Split(j, s), w \o p)
      BY <3>2, SplitBehind
    <3>5. Split(j, s) = Behind(w, qs)
      BY <1>3, <2>4, <3>1
    <3>6. Append(Behind(w, qs), w \o p) = Behind(w, rs)
      <4>1. PICK n \in Nat: n = Len(qs) /\ n # 0 /\ DOMAIN qs = 1..n /\ qs \in [1..n -> Text]
        BY <2>2, <2>4, LenProperties, EmptySeq
      <4>2. DOMAIN rs = 1..(n + 1) /\ rs[n + 1] = p /\ \A i \in 1..n: rs[i] = qs[i]
        BY <2>1, <4>1, AppendProperties, LenProperties
      <4>3. PICK v \in Text: v = w \o p
        BY <3>2, FreeIsText
      <4>4. PICK f: f = Behind(w, qs)
        OBVIOUS
      <4>5. PICK g: g = Behind(w, rs)
        OBVIOUS
      <4>6. ASSUME NEW x \in Text PROVE w \o x \in Text
        BY <2>2, ConcatProperties DEF Text
      <4>7. f \in [1..n -> Text]
        <5>1. \A i \in 1..n: qs[i] \in Text /\ w \o qs[i] \in Text
          BY <4>1, <4>6
        <5> QED BY <4>1, <4>4, <5>1 DEF Behind
      <4>8. g[n + 1] = v /\ \A i \in 1..n: g[i] = f[i]
        <5>1. n + 1 \in 1..(n + 1) /\ n + 1 # 1 /\ \A i \in 1..n: i \in 1..(n + 1)
          BY <4>1
        <5> QED BY <4>1, <4>2, <4>3, <4>4, <4>5, <5>1 DEF Behind
      <4>9. g \in [1..(n + 1) -> Text]
        <5>1. \A i \in 1..(n + 1): i # n + 1 => i \in 1..n
          OBVIOUS
        <5>2. \A i \in 1..(n + 1): g[i] \in Text
          BY <4>3, <4>7, <4>8, <5>1
        <5> QED BY <4>2, <4>5, <5>2 DEF Behind
      <4>10. g = Append(f, v)
        BY <4>3, <4>7, <4>8, <4>9, OneLonger, SMTT(30)
      <4> QED BY <4>3, <4>4, <4>5, <4>10
    <3> QED BY <2>1, <3>1, <3>3, <3>4, <3>5, <3>6
  <2> QED BY <2>3, <2>4
<1>4. \A qs \in Seq(Free(s)): qs \in G
  <2> HIDE DEF G
  <2> QED BY <1>2, <1>3, Growing
<1> QED BY <1>1, <1>4

-----------------------------------------------------------------------------
(* The names of parameters, and the maps they come in. *)

Names == ToSet(NameOrder)

LEMMA NamesAre ==
  /\ NameOrder \in Text
  /\ \A k \in Names: k \in Letter /\ k \notin DOMAIN Codes
<1>1. NameOrder \in [1..Len(NameOrder) -> STRING] /\ Len(NameOrder) \in Nat
  BY OAuthAssumption, LenProperties
<1>2. STRING \subseteq Letter
  BY DEF Letter
<1>3. NameOrder \in [1..Len(NameOrder) -> Letter]
  BY <1>1, <1>2
<1>4. \A k \in Names: k \in STRING
  BY <1>1 DEF Names, ToSet
<1>5. NameOrder \in Text
  BY <1>1, <1>3 DEF Text
<1>6. Names \cap DOMAIN Codes = {}
  BY OAuthAssumption DEF Names
<1> QED BY <1>2, <1>4, <1>5, <1>6

LEMMA ToSetGrows ==
  ASSUME NEW S, NEW t \in Seq(S), NEW c \in S
  PROVE  ToSet(Append(t, c)) = ToSet(t) \cup {c}
<1>1. PICK u: u = Append(t, c)
  OBVIOUS
<1>2. PICK n \in Nat: n = Len(t) /\ DOMAIN t = 1..n
  BY LenProperties
<1>3. DOMAIN u = 1..(n + 1) /\ u[n + 1] = c /\ \A i \in 1..n: u[i] = t[i]
  BY <1>1, <1>2, AppendProperties, LenProperties
<1>4. \A i \in 1..(n + 1): i # n + 1 => i \in 1..n
  OBVIOUS
<1>5. n + 1 \in 1..(n + 1) /\ \A i \in 1..n: i \in 1..(n + 1)
  OBVIOUS
<1> QED BY <1>1, <1>2, <1>3, <1>4, <1>5 DEF ToSet

KeepOf(d) == [c \in Letter |-> IF c \in d THEN <<c>> ELSE <<>>]

LEMMA KeepLetters == \A d: KeepOf(d) \in [Letter -> Text]
BY OneLetter, NothingIsText DEF KeepOf

(* Keys() gives the names of a map, each where NameOrder has it. *)
LEMMA KeysAre ==
  ASSUME NEW params, DOMAIN params \subseteq Names
  PROVE  Keys(params) \in Text /\ ToSet(Keys(params)) = DOMAIN params
<1>1. PICK d: d = DOMAIN params
  OBVIOUS
<1>2. PICK h \in [Letter -> Text]: h = KeepOf(d)
  BY KeepLetters
<1>3. Keys(params) = Spell(h, NameOrder)
  <2>1. \A i \in DOMAIN NameOrder: h[NameOrder[i]]
                                    = IF NameOrder[i] \in DOMAIN params THEN <<NameOrder[i]>> ELSE <<>>
    BY <1>1, <1>2, NamesAre, LettersOfText DEF KeepOf
  <2> QED BY <2>1 DEF Keys, Spell
<1> DEFINE G == {u \in Text: ToSet(Spell(h, u)) = ToSet(u) \cap d}
<1>4. <<>> \in G
  <2>1. ToSet(<<>>) = {}
    BY DEF ToSet
  <2> QED BY <2>1, SpellNothing, NothingIsText
<1>5. ASSUME NEW u \in Text, u \in G, NEW c \in Letter PROVE Append(u, c) \in G
  <2>1. PICK w \in Text: w = Spell(h, u)
    BY SpellIsText
  <2>2. Append(u, c) \in Text
    BY AppendIsText
  <2>3. Spell(h, Append(u, c)) = w \o h[c]
    BY <2>1, SpellAppend
  <2>4. ToSet(w) = ToSet(u) \cap d /\ ToSet(Append(u, c)) = ToSet(u) \cup {c}
    BY <1>5, <2>1, ToSetGrows DEF Text
  <2>5. CASE c \in d
    <3>1. h[c] = <<c>>
      BY <1>2, <2>5 DEF KeepOf
    <3>2. w \o h[c] = Append(w, c) /\ ToSet(Append(w, c)) = ToSet(w) \cup {c}
      BY <3>1, AppendIsText, ToSetGrows DEF Text
    <3> QED BY <2>2, <2>3, <2>4, <2>5, <3>2
  <2>6. CASE c \notin d
    <3>1. h[c] = <<>>
      BY <1>2, <2>6 DEF KeepOf
    <3>2. w \o h[c] = w
      BY <3>1 DEF Text
    <3> QED BY <2>2, <2>3, <2>4, <2>6, <3>2
  <2> QED BY <2>5, <2>6
<1>6. \A u \in Text: u \in G
  <2> HIDE DEF G
  <2> QED BY <1>4, <1>5, GrowingText
<1>7. ToSet(NameOrder) \cap d = d
  BY <1>1 DEF Names
<1> QED BY <1>1, <1>3, <1>6, <1>7, SpellIsText, NamesAre

(* The names of two maps with the same domain are the same. *)
LEMMA SameKeys ==
  ASSUME NEW p, NEW q, DOMAIN p = DOMAIN q
  PROVE  Keys(p) = Keys(q)
BY DEF Keys

LEMMA AppendToOne ==
  ASSUME NEW S, NEW a \in S, NEW b \in S
  PROVE  Append(<<a>>, b) = <<a, b>>
<1>1. /\ <<a>> \in [1..1 -> S] /\ <<a, b>> \in [1..(1 + 1) -> S] /\ 1 \in Nat
      /\ <<a, b>>[1 + 1] = b /\ \A i \in 1..1: <<a, b>>[i] = <<a>>[i]
  OBVIOUS
<1>2. PICK f: f = <<a>>
  OBVIOUS
<1>3. PICK g: g = <<a, b>>
  OBVIOUS
<1>4. g = Append(f, b)
  BY <1>1, <1>2, <1>3, OneLonger
<1> QED BY <1>2, <1>3, <1>4

(* A name and a value, and what formParams makes of them. *)
LEMMA NamedPart ==
  ASSUME NEW k \in Letter, k # "=", NEW v \in Free("=")
  PROVE  Split(<<k, "=">> \o v, "=") = <<<<k>>, v>>
<1>1. PICK e \in Letter: e = "="
  BY DEF Letter
<1>2. PICK t \in Text: t = <<k>>
  BY OneLetter
<1>3. t \in Free(e)
  BY <1>1, <1>2 DEF Free
<1>4. Split(t, e) = <<t>> /\ Split(Append(t, e) \o v, e) = Append(Split(t, e), v)
  BY <1>1, <1>3, SplitOne, SplitBehind
<1>5. Append(t, e) = <<k, e>>
  <2>1. Append(<<k>>, e) = <<k, e>>
    BY AppendToOne
  <2> QED BY <1>2, <2>1
<1>6. Append(<<t>>, v) = <<t, v>>
  BY AppendToOne, FreeIsText
<1> QED BY <1>1, <1>2, <1>4, <1>5, <1>6

(* The parts of a query, one for every name. *)
Pair(enc, k) == <<k, "=">> \o enc[k]

LEMMA PairIsFree ==
  ASSUME NEW d \in SUBSET Names, NEW enc \in [d -> Free("&") \cap Free("=")], NEW k \in d
  PROVE  Pair(enc, k) \in Free("&") /\ Pair(enc, k) # <<>> /\ enc[k] \in Free("=")
<1>1. PICK v: v = enc[k]
  OBVIOUS
<1>2. v \in Free("&") /\ v \in Free("=")
  BY <1>1
<1>3. k \in Letter /\ k # "&" /\ k # "="
  BY NamesAre, CodesAre
<1>4. PICK e \in Letter: e = "=" /\ e # "&"
  BY DEF Letter
<1>5. PICK t: t = <<k, e>>
  OBVIOUS
<1>6. t \in Free("&") /\ Len(t) = 2
  BY <1>3, <1>4, <1>5 DEF Free
<1>7. t \o v \in Free("&") /\ Len(t \o v) = 2 + Len(v) /\ Len(v) \in Nat
  <2>1. t \o v \in Free("&")
    BY <1>2, <1>6, ConcatProperties DEF Free
  <2>2. t \in Seq(Letter) /\ v \in Seq(Letter)
    BY <1>2, <1>6, FreeIsText DEF Text
  <2>3. Len(v) \in Nat /\ Len(t \o v) = Len(t) + Len(v)
    BY <2>2, ConcatProperties, LenProperties
  <2> QED BY <1>6, <2>1, <2>3
<1>8. t \o v # <<>>
  BY <1>7, EmptySeq
<1> QED BY <1>1, <1>2, <1>4, <1>5, <1>7, <1>8 DEF Pair

LEMMA QueryParts ==
  ASSUME NEW d \in SUBSET Names, NEW enc \in [d -> Free("&") \cap Free("=")]
  PROVE  (IF Query(enc) = <<>> THEN {} ELSE ToSet(Split(Query(enc), "&"))) = {Pair(enc, k): k \in d}
<1>1. DOMAIN enc = d
  OBVIOUS
<1>2. PICK ks \in Text: ks = Keys(enc) /\ ToSet(ks) = d
  BY <1>1, KeysAre
<1>3. PICK n \in Nat: n = Len(ks) /\ DOMAIN ks = 1..n
  BY <1>2, LenProperties DEF Text
<1>4. \A i \in 1..n: ks[i] \in d
  BY <1>2, <1>3 DEF ToSet
<1>5. PICK ps: ps = [i \in DOMAIN ks |-> Pair(enc, ks[i])]
  OBVIOUS
<1>6. Query(enc) = Join(ps, <<"&">>)
  BY <1>2, <1>5 DEF Query, Pair
<1>7. ps \in [1..n -> Free("&")] /\ \A i \in 1..n: ps[i] # <<>>
  BY <1>3, <1>4, <1>5, PairIsFree
<1>8. ps \in Seq(Free("&")) /\ Len(ps) = n /\ DOMAIN ps = 1..n
  BY <1>7
<1>9. ToSet(ps) = {Pair(enc, k): k \in d}
  BY <1>2, <1>3, <1>5, <1>8 DEF ToSet
<1>10. CASE n = 0
  <2>1. ps = <<>> /\ d = {}
    BY <1>2, <1>3, <1>8, <1>10, EmptySeq DEF ToSet
  <2> QED BY <1>6, <2>1, JoinNothing
<1>11. CASE n # 0
  <2>1. ps # <<>> /\ 1 \in 1..n
    BY <1>8, <1>11, EmptySeq
  <2>2. PICK s \in Letter: s = "&"
    BY DEF Letter
  <2>3. Split(Join(ps, <<s>> \o <<>>), s) = Behind(<<>>, ps)
    BY <1>8, <2>1, <2>2, SplitJoin, FreeIsText
  <2>4. <<s>> \o <<>> = <<s>>
    OBVIOUS
  <2>5. Behind(<<>>, ps) = ps
    <3>1. \A i \in 1..n: ps[i] \in Free("&") /\ <<>> \o ps[i] = ps[i]
      BY <1>7, ConcatEmptySeq DEF Free
    <3>2. Behind(<<>>, ps) = [i \in 1..n |-> ps[i]]
      BY <1>8, <3>1 DEF Behind
    <3> QED BY <1>7, <3>2
  <2>6. Split(Query(enc), "&") = ps
    BY <1>6, <2>2, <2>3, <2>4, <2>5
  <2>7. Query(enc) # <<>>
    <3> SUFFICES ASSUME Query(enc) = <<>> PROVE FALSE
      OBVIOUS
    <3>1. ps = <<<<>>>>
      BY <2>6, SplitNothing
    <3>2. ps[1] = <<>>
      BY <3>1
    <3> QED BY <1>7, <2>1, <3>2
  <2> QED BY <1>9, <2>6, <2>7
<1> QED BY <1>10, <1>11

(* What the emulator reads of a body. *)
LEMMA FormParamsAre ==
  ASSUME NEW d \in SUBSET Names, NEW enc \in [d -> Free("&") \cap Free("=")]
  PROVE  formParams(Query(enc)) = [k \in d |-> decodeURIComponent(Replace(enc[k], "+", <<" ">>))]
<1>1. PICK body: body = Query(enc)
  OBVIOUS
<1> DEFINE pairs == IF body = <<>> THEN {} ELSE ToSet(Split(body, "&"))
           name(pair) == Split(pair, "=")[1][1]
           value(pair) == decodeURIComponent(Replace(Split(pair, "=")[2], "+", <<" ">>))
           read(k) == decodeURIComponent(Replace(enc[k], "+", <<" ">>))
<1>2. formParams(body) = [key \in {name(p): p \in pairs} |-> value(CHOOSE p \in pairs: name(p) = key)]
  BY DEF formParams
<1>3. pairs = {Pair(enc, k): k \in d}
  BY <1>1, QueryParts
<1>4. ASSUME NEW k \in d PROVE name(Pair(enc, k)) = k /\ value(Pair(enc, k)) = read(k)
  <2>1. k \in Letter /\ k # "="
    BY NamesAre, CodesAre
  <2>2. enc[k] \in Free("=")
    BY PairIsFree
  <2>3. Split(Pair(enc, k), "=") = <<<<k>>, enc[k]>>
    BY <2>1, <2>2, NamedPart DEF Pair
  <2>4. Split(Pair(enc, k), "=")[1] = <<k>> /\ Split(Pair(enc, k), "=")[2] = enc[k]
    BY <2>3
  <2>5. Split(Pair(enc, k), "=")[1][1] = k
    BY <2>4
  <2> QED BY <2>4, <2>5
<1> HIDE DEF pairs, name, value, read
<1>5. {name(p): p \in pairs} = d
  BY <1>3, <1>4
<1>6. ASSUME NEW k \in d PROVE value(CHOOSE p \in pairs: name(p) = k) = read(k)
  <2>1. PICK q: q = CHOOSE p \in pairs: name(p) = k
    OBVIOUS
  <2>2. \E p \in pairs: name(p) = k
    BY <1>3, <1>4
  <2>3. q \in pairs /\ name(q) = k
    BY <2>1, <2>2
  <2>4. PICK l \in d: q = Pair(enc, l)
    BY <1>3, <2>3
  <2>5. l = k
    BY <1>4, <2>3, <2>4
  <2> QED BY <1>4, <2>1, <2>4, <2>5
<1>7. formParams(body) = [k \in d |-> read(k)]
  BY <1>2, <1>5, <1>6
<1> QED BY <1>1, <1>7 DEF read

-----------------------------------------------------------------------------
(* The Authorization header. *)

LEMMA Middle ==
  ASSUME NEW a \in Text, NEW v \in Text, NEW z \in Text
  PROVE  /\ (a \o v) \o z \in Text
         /\ SubSeq((a \o v) \o z, Len(a) + 1, Len((a \o v) \o z) - Len(z)) = v
<1>1. PICK k \in Nat: k = Len(a)
  BY LenProperties DEF Text
<1>2. PICK n \in Nat: n = Len(v)
  BY LenProperties DEF Text
<1>3. PICK l \in Nat: l = Len(z)
  BY LenProperties DEF Text
<1>4. PICK x: x = a \o v
  OBVIOUS
<1>5. x \in Seq(Letter) /\ Len(x) = k + n /\ \A i \in 1..n: x[k + i] = v[i]
  <2>1. /\ x \in Seq(Letter) /\ Len(x) = Len(a) + Len(v)
        /\ \A i \in 1..(Len(a) + Len(v)): x[i] = IF i <= Len(a) THEN a[i] ELSE v[i - Len(a)]
    BY <1>4, ConcatProperties DEF Text
  <2>2. ASSUME NEW i \in 1..n PROVE x[k + i] = v[i]
    <3>1. k + i \in 1..(k + n) /\ ~(k + i <= k) /\ (k + i) - k = i
      OBVIOUS
    <3> QED BY <1>1, <1>2, <2>1, <3>1
  <2> QED BY <1>1, <1>2, <2>1, <2>2
<1>6. PICK y: y = x \o z
  OBVIOUS
<1>7. y \in Seq(Letter) /\ Len(y) = (k + n) + l /\ \A i \in 1..n: y[k + i] = v[i]
  <2>1. /\ y \in Seq(Letter) /\ Len(y) = Len(x) + Len(z)
        /\ \A i \in 1..(Len(x) + Len(z)): y[i] = IF i <= Len(x) THEN x[i] ELSE z[i - Len(x)]
    BY <1>5, <1>6, ConcatProperties DEF Text
  <2>2. ASSUME NEW i \in 1..n PROVE y[k + i] = v[i]
    <3>1. k + i \in 1..((k + n) + l) /\ k + i <= k + n
      OBVIOUS
    <3> QED BY <1>3, <1>5, <2>1, <3>1
  <2> QED BY <1>3, <1>5, <2>1, <2>2
<1>8. PICK w: w = SubSeq(y, k + 1, k + n)
  OBVIOUS
<1>9. w \in Seq(Letter) /\ Len(w) = n /\ \A i \in 1..n: w[i] = y[k + i]
  <2>1. \A i \in (k + 1)..(k + n): i \in 1..Len(y) /\ y[i] \in Letter
    BY <1>7, ElementOfSeq
  <2> QED BY <1>7, <1>8, <2>1
<1>10. w = v
  <2>1. v \in Seq(Letter)
    BY DEF Text
  <2> QED BY <1>2, <1>7, <1>9, <2>1, SeqEqual
<1>11. Len(y) - l = k + n
  BY <1>7
<1> QED BY <1>1, <1>3, <1>4, <1>6, <1>7, <1>8, <1>10, <1>11 DEF Text

LEMMA SomeLetters ==
  ASSUME NEW c, NEW x \in Letter \ {c}, NEW y \in Letter \ {c}, NEW z \in Letter \ {c}
  PROVE  /\ <<x>> \in Free(c) /\ Len(<<x>>) = 1
         /\ <<x, y, z>> \in Free(c) /\ Len(<<x, y, z>>) = 3 /\ <<x, y, z>>[1] = x
BY DEF Free

LEMMA StartOfConcat ==
  ASSUME NEW t \in Text, t # <<>>, NEW u \in Text
  PROVE  /\ t \o u \in Text /\ t \o u # <<>> /\ (t \o u)[1] = t[1]
         /\ Len(t \o u) = Len(t) + Len(u) /\ Len(t) \in Nat /\ Len(u) \in Nat
<1>1. /\ t \o u \in Seq(Letter) /\ Len(t \o u) = Len(t) + Len(u) /\ Len(u) \in Nat /\ Len(t) \in Nat
      /\ \A i \in 1..(Len(t) + Len(u)): (t \o u)[i] = IF i <= Len(t) THEN t[i] ELSE u[i - Len(t)]
  BY ConcatProperties, LenProperties DEF Text
<1>2. Len(t) # 0
  BY EmptySeq DEF Text
<1>3. 1 \in 1..(Len(t) + Len(u)) /\ 1 <= Len(t) /\ Len(t) + Len(u) # 0
  BY <1>1, <1>2
<1>4. t \o u # <<>>
  BY <1>1, <1>3, EmptySeq
<1> QED BY <1>1, <1>3, <1>4 DEF Text

Comma == ","
Space == " "
Opening(k) == <<k, "=", "\"">>
Closing == <<"\"">>
Blank == <<" ">>

LEMMA QuotesAre ==
  /\ Closing \in Free(Comma) /\ Len(Closing) = 1
  /\ Blank \in Free(Comma) /\ Blank \in Text /\ Len(Blank) = 1 /\ Blank[1] = Space
  /\ \A k \in Letter: k # Comma => /\ Opening(k) \in Free(Comma) /\ Opening(k) # <<>>
                                /\ Len(Opening(k)) = 3 /\ Opening(k)[1] = k
<1>1. PICK comma \in Letter: comma = ","
  BY DEF Letter
<1>2. PICK e \in Letter \ {comma}: e = "="
  BY <1>1 DEF Letter
<1>3. PICK q \in Letter \ {comma}: q = "\""
  BY <1>1 DEF Letter
<1>4. PICK b \in Letter \ {comma}: b = " "
  BY <1>1 DEF Letter
<1>5. <<q>> \in Free(comma) /\ Len(<<q>>) = 1 /\ <<b>> \in Free(comma) /\ Len(<<b>>) = 1 /\ <<b>>[1] = b
  BY SomeLetters
<1>6. ASSUME NEW k \in Letter, k # comma
      PROVE  /\ <<k, e, q>> \in Free(comma) /\ <<k, e, q>> # <<>>
             /\ Len(<<k, e, q>>) = 3 /\ <<k, e, q>>[1] = k
  <2>1. k \in Letter \ {comma}
    BY <1>6
  <2> QED BY <2>1, SomeLetters
<1>7. Closing \in Free(Comma) /\ Len(Closing) = 1
  BY <1>1, <1>3, <1>5 DEF Closing, Comma
<1>8. Blank \in Free(Comma) /\ Len(Blank) = 1 /\ Blank[1] = Space
  BY <1>1, <1>4, <1>5 DEF Blank, Comma, Space
<1>9. \A k \in Letter: k # Comma => /\ Opening(k) \in Free(Comma) /\ Opening(k) # <<>>
                                /\ Len(Opening(k)) = 3 /\ Opening(k)[1] = k
  BY <1>1, <1>2, <1>3, <1>6 DEF Opening, Comma
<1> QED BY <1>7, <1>8, <1>9, FreeIsText

HeaderPart(enc, k) == <<k, "=", "\"">> \o enc[k] \o <<"\"">>

IsPart(p, k, v) ==
  /\ p \in Free(Comma)
  /\ Head(p) = k /\ k # Space
  /\ Head(Blank \o p) = Space /\ Tail(Blank \o p) = p
  /\ SubSeq(p, 4, Len(p) - 1) = v

LEMMA HeaderPartIs ==
  ASSUME NEW d \in SUBSET Names, NEW enc \in [d -> Free(Comma)], NEW k \in d
  PROVE  IsPart(HeaderPart(enc, k), k, enc[k])
<1>1. k \in Letter /\ k # Comma /\ k # Space
  BY NamesAre, CodesAre DEF Comma, Space
<1>2. PICK a \in Free(Comma): a = Opening(k)
  BY <1>1, QuotesAre
<1>3. a \in Text /\ a # <<>> /\ Len(a) = 3 /\ a[1] = k
  BY <1>1, <1>2, QuotesAre, FreeIsText
<1>4. Closing \in Free(Comma) /\ Closing \in Text /\ Len(Closing) = 1
  BY QuotesAre, FreeIsText
<1>5. PICK v \in Free(Comma): v = enc[k]
  OBVIOUS
<1>6. v \in Text
  BY FreeIsText
<1>7. PICK p: p = (a \o v) \o Closing
  OBVIOUS
<1>8. HeaderPart(enc, k) = p
  BY <1>2, <1>5, <1>7 DEF HeaderPart, Opening, Closing
<1>9. p \in Free(Comma)
  <2>1. a \o v \in Free(Comma)
    BY ConcatProperties DEF Free
  <2> QED BY <1>4, <1>7, <2>1, ConcatProperties DEF Free
<1>10. p \in Seq(Letter) /\ p # <<>> /\ Len(p) \in Nat /\ Len(p) # 0 /\ p[1] = k
  <2>1. a \o v \in Text /\ a \o v # <<>> /\ (a \o v)[1] = k
    BY <1>3, <1>6, StartOfConcat
  <2>2. p \in Text /\ p # <<>> /\ p[1] = k
    BY <1>4, <1>7, <2>1, StartOfConcat
  <2> QED BY <2>2, LenProperties, EmptySeq DEF Text
<1>11. SubSeq(p, 4, Len(p) - 1) = v
  <2>1. SubSeq(p, Len(a) + 1, Len(p) - Len(Closing)) = v
    BY <1>3, <1>4, <1>6, <1>7, Middle
  <2>2. Len(a) + 1 = 4
    BY <1>3
  <2> QED BY <1>4, <2>1, <2>2
<1>12. Head(p) = k
  BY <1>10
<1>13. PICK y: y = Blank \o p
  OBVIOUS
<1>14. /\ y \in Seq(Letter) /\ Len(y) = 1 + Len(p) /\ y # <<>>
       /\ \A i \in 1..(1 + Len(p)): y[i] = IF i <= 1 THEN Blank[i] ELSE p[i - 1]
  <2>1. Blank \in Seq(Letter) /\ Len(Blank) = 1
    BY QuotesAre DEF Text
  <2>2. /\ y \in Seq(Letter) /\ Len(y) = 1 + Len(p)
        /\ \A i \in 1..(1 + Len(p)): y[i] = IF i <= 1 THEN Blank[i] ELSE p[i - 1]
    <3>1. /\ y \in Seq(Letter) /\ Len(y) = Len(Blank) + Len(p)
          /\ \A i \in 1..(Len(Blank) + Len(p)): y[i] = IF i <= Len(Blank) THEN Blank[i] ELSE p[i - Len(Blank)]
      BY <1>10, <1>13, <2>1, ConcatProperties
    <3> QED BY <2>1, <3>1
  <2>3. y # <<>>
    BY <1>10, <2>2, EmptySeq
  <2> QED BY <2>2, <2>3
<1>15. y[1] = Space /\ \A i \in 1..Len(p): y[i + 1] = p[i]
  <2>1. 1 \in 1..(1 + Len(p))
    BY <1>10
  <2>2. ASSUME NEW i \in 1..Len(p) PROVE i + 1 \in 1..(1 + Len(p)) /\ ~(i + 1 <= 1) /\ (i + 1) - 1 = i
    BY <1>10
  <2> QED BY <1>14, <2>1, <2>2, QuotesAre
<1>16. Head(y) = Space
  BY <1>14, <1>15
<1>17. Tail(y) = p
  <2>1. /\ Tail(y) \in Seq(Letter) /\ Len(Tail(y)) = Len(y) - 1
        /\ \A i \in 1..Len(Tail(y)): Tail(y)[i] = y[i + 1]
    BY <1>14, HeadTailProperties
  <2>2. Len(y) - 1 = Len(p)
    BY <1>10, <1>14
  <2> QED BY <1>10, <1>15, <2>1, <2>2, SeqEqual
<1>18. IsPart(p, k, v)
  BY <1>1, <1>9, <1>11, <1>12, <1>13, <1>16, <1>17 DEF IsPart
<1> QED BY <1>5, <1>8, <1>18

LEMMA TwoOf ==
  ASSUME NEW a \in Letter, NEW b \in Letter
  PROVE  /\ <<a, b>> \in Text /\ Len(<<a, b>>) = 2 /\ <<a, b>> # <<>>
         /\ <<a>> \o <<b>> = <<a, b>>
<1>1. <<a, b>> \in Text /\ Len(<<a, b>>) = 2 /\ <<a, b>> # <<>>
  BY DEF Text
<1>2. <<a>> \in Text /\ Append(<<a>>, b) = <<a, b>>
  BY OneLetter, AppendToOne
<1> QED BY <1>1, <1>2, AppendIsText

Start == <<"OAuth", " ">>

LEMMA StartIs == Start \in Text /\ Len(Start) = 2 /\ Start # <<>>
<1>1. PICK a \in Letter: a = "OAuth"
  BY DEF Letter
<1>2. PICK b \in Letter: b = " "
  BY DEF Letter
<1>3. <<a, b>> \in Text /\ Len(<<a, b>>) = 2 /\ <<a, b>> # <<>>
  BY TwoOf
<1> QED BY <1>1, <1>2, <1>3 DEF Start

LEMMA HeaderParts ==
  ASSUME NEW d \in SUBSET Names, NEW enc \in [d -> Free(Comma)],
         NEW names \in Text, names # <<>>, ToSet(names) = d
  PROVE  /\ Header(names, enc) # <<>>
         /\ {IF Head(p) = " " THEN Tail(p) ELSE p:
               p \in ToSet(Split(SubSeq(Header(names, enc), 3, Len(Header(names, enc))), ","))}
              = {HeaderPart(enc, k): k \in d}
<1>0. \A k \in d: IsPart(HeaderPart(enc, k), k, enc[k])
  BY HeaderPartIs
<1>1. PICK n \in Nat: n = Len(names) /\ n # 0 /\ DOMAIN names = 1..n
  BY LenProperties, EmptySeq DEF Text
<1>2. \A i \in 1..n: names[i] \in d
  BY <1>1 DEF ToSet
<1>3. PICK ps: ps = [i \in DOMAIN names |-> HeaderPart(enc, names[i])]
  OBVIOUS
<1>4. ps \in [1..n -> Free(Comma)]
  BY <1>0, <1>1, <1>2, <1>3 DEF IsPart
<1>5. ps \in Seq(Free(Comma)) /\ ps # <<>> /\ DOMAIN ps = 1..n
  BY <1>1, <1>4, EmptySeq
<1>6. PICK s \in Letter: s = ","
  BY DEF Letter
<1>7. Blank \in Free(s) /\ Blank \in Text /\ ps \in Seq(Free(s)) /\ ps \in Seq(Text)
  <2>1. ps \in [1..n -> Text]
    BY <1>4, FreeIsText
  <2>2. Blank \in Free(s) /\ ps \in Seq(Free(s))
    BY <1>5, <1>6, QuotesAre DEF Comma
  <2>3. ps \in Seq(Text)
    BY <2>1
  <2> QED BY <2>2, <2>3, QuotesAre
<1>8. PICK sep \in Text: sep = <<s>> \o Blank /\ sep = <<",", " ">>
  <2>1. <<s>> \in Text /\ <<s>> \o Blank \in Text
    BY <1>7, OneLetter, ConcatProperties DEF Text
  <2>2. PICK b \in Letter: b = " "
    BY DEF Letter
  <2>3. <<s>> \o <<b>> = <<s, b>>
    BY TwoOf
  <2> QED BY <1>6, <2>1, <2>2, <2>3 DEF Blank
<1>9. PICK j: j = Join(ps, sep)
  OBVIOUS
<1>10. j \in Text
  <2>1. PICK x \in Text: TRUE
    BY NothingIsText
  <2> QED BY <1>5, <1>7, <1>9, <2>1, JoinGrows
<1>11. Split(j, s) = Behind(Blank, ps)
  BY <1>5, <1>7, <1>8, <1>9, SplitJoin
<1>12. PICK h: h = Header(names, enc)
  OBVIOUS
<1>13. h = Start \o j
  BY <1>3, <1>8, <1>9, <1>12 DEF Header, HeaderPart, Start
<1>14. h # <<>> /\ SubSeq(h, 3, Len(h)) = j
  <2>1. h \in Text /\ h # <<>> /\ Len(h) \in Nat
    BY <1>10, <1>13, StartIs, StartOfConcat, LenProperties DEF Text
  <2>2. h \o <<>> = h
    BY <2>1, ConcatEmptySeq DEF Text
  <2>3. PICK none \in Text: none = <<>> /\ Len(none) = 0
    BY NothingIsText
  <2>4. SubSeq(h \o none, Len(Start) + 1, Len(h \o none) - Len(none)) = j
    BY <1>10, <1>13, StartIs, Middle
  <2>5. Len(Start) + 1 = 3 /\ Len(h) - 0 = Len(h)
    BY <2>1, StartIs
  <2> QED BY <2>1, <2>2, <2>3, <2>4, <2>5
<1> DEFINE trim(p) == IF Head(p) = " " THEN Tail(p) ELSE p
<1>15. ASSUME NEW i \in 1..n PROVE trim(Behind(Blank, ps)[i]) = HeaderPart(enc, names[i])
  <2>1. PICK p: p = HeaderPart(enc, names[i])
    OBVIOUS
  <2> HIDE DEF trim
  <2>2. Head(p) # Space /\ Head(Blank \o p) = Space /\ Tail(Blank \o p) = p
    <3>1. PICK k \in d: k = names[i]
      BY <1>2
    <3> QED BY <1>0, <2>1, <3>1 DEF IsPart
  <2>3. Behind(Blank, ps)[i] = IF i = 1 THEN p ELSE Blank \o p
    BY <1>1, <1>3, <1>5, <2>1 DEF Behind
  <2> QED BY <2>1, <2>2, <2>3 DEF Space, trim
<1>16. DOMAIN Behind(Blank, ps) = 1..n
  BY <1>5 DEF Behind
<1> HIDE DEF trim
<1>17. {trim(p): p \in ToSet(Behind(Blank, ps))} = {HeaderPart(enc, names[i]): i \in 1..n}
  BY <1>15, <1>16 DEF ToSet
<1>18. {HeaderPart(enc, names[i]): i \in 1..n} = {HeaderPart(enc, k): k \in d}
  BY <1>1, <1>2 DEF ToSet
<1> QED BY <1>6, <1>11, <1>12, <1>14, <1>17, <1>18 DEF trim

(* What the emulator reads of a header. *)
LEMMA ParsedHeader ==
  ASSUME NEW d \in SUBSET Names, NEW enc \in [d -> Free(Comma)],
         NEW names \in Text, names # <<>>, ToSet(names) = d
  PROVE  parseHeader(Header(names, enc)) = [k \in d |-> decodeURIComponent(enc[k])]
<1>0. \A k \in d: IsPart(HeaderPart(enc, k), k, enc[k])
  BY HeaderPartIs
<1>1. PICK h: h = Header(names, enc)
  OBVIOUS
<1> DEFINE trimmed == {IF Head(p) = " " THEN Tail(p) ELSE p:
                         p \in ToSet(Split(SubSeq(h, 3, Len(h)), ","))}
           value(part) == decodeURIComponent(SubSeq(part, 4, Len(part) - 1))
<1>2. parseHeader(h) = [key \in {Head(p): p \in trimmed} |-> value(CHOOSE p \in trimmed: Head(p) = key)]
  BY DEF parseHeader
<1>3. trimmed = {HeaderPart(enc, k): k \in d}
  BY <1>1, HeaderParts
<1>4. ASSUME NEW k \in d
      PROVE  Head(HeaderPart(enc, k)) = k /\ value(HeaderPart(enc, k)) = decodeURIComponent(enc[k])
  <2>1. PICK p: p = HeaderPart(enc, k)
    OBVIOUS
  <2> HIDE DEF trimmed, value
  <2>2. Head(p) = k /\ SubSeq(p, 4, Len(p) - 1) = enc[k]
    BY <1>0, <1>4, <2>1 DEF IsPart
  <2>3. value(p) = decodeURIComponent(SubSeq(p, 4, Len(p) - 1))
    BY DEF value
  <2> QED BY <2>1, <2>2, <2>3
<1> HIDE DEF trimmed, value
<1>5. {Head(p): p \in trimmed} = d
  BY <1>3, <1>4
<1>6. ASSUME NEW k \in d PROVE value(CHOOSE p \in trimmed: Head(p) = k) = decodeURIComponent(enc[k])
  <2>1. PICK q: q = CHOOSE p \in trimmed: Head(p) = k
    OBVIOUS
  <2>2. \E p \in trimmed: Head(p) = k
    BY <1>3, <1>4
  <2>3. q \in trimmed /\ Head(q) = k
    BY <2>1, <2>2
  <2>4. PICK l \in d: q = HeaderPart(enc, l)
    BY <1>3, <2>3
  <2>5. l = k
    BY <1>4, <2>3, <2>4
  <2> QED BY <1>4, <2>1, <2>4, <2>5
<1>7. parseHeader(h) = [k \in d |-> decodeURIComponent(enc[k])]
  BY <1>2, <1>5, <1>6
<1> QED BY <1>1, <1>7

-----------------------------------------------------------------------------
(* Signatures. *)

EncodeAll(p) == [k \in DOMAIN p |-> Encode(p[k])]

(* An encoded value has nothing in it that a body or a header is taken     *)
(* apart at, and is read back as it was.                                   *)
LEMMA EncodedIsFree ==
  ASSUME NEW t \in Text
  PROVE  /\ Encode(t) \in Text /\ decodeURIComponent(Encode(t)) = t
         /\ Encode(t) \in Free("&") /\ Encode(t) \in Free("=") /\ Encode(t) \in Free("+")
         /\ Encode(t) \in Free(Comma)
<1>1. DOMAIN Codes \in SUBSET DOMAIN Codes /\ "%" \in DOMAIN Codes
  BY CodesAre
<1>2. decodeURIComponent(Encode(t)) = t
  BY <1>1, DecodeEscape DEF Encode
<1>3. \A c \in DOMAIN Codes: c # "%" => Encode(t) \in Free(c)
  BY <1>1, EscapeIsFree DEF Encode
<1>4. {"&", "=", "+", Comma} \subseteq DOMAIN Codes
  BY CodesAre DEF Comma
<1>5. Encode(t) \in Free("&") /\ Encode(t) \in Free("=") /\ Encode(t) \in Free("+")
  BY <1>3, <1>4
<1>6. Encode(t) \in Free(Comma)
  BY <1>3, <1>4 DEF Comma
<1> QED BY <1>2, <1>5, <1>6, FreeIsText

LEMMA EncodedAre ==
  ASSUME NEW d \in SUBSET Names, NEW p \in [d -> Text]
  PROVE  /\ EncodeAll(p) \in [d -> Text]
         /\ EncodeAll(p) \in [d -> Free("&") \cap Free("=")]
         /\ EncodeAll(p) \in [d -> Free(Comma)]
         /\ \A k \in d: /\ decodeURIComponent(EncodeAll(p)[k]) = p[k]
                        /\ EncodeAll(p)[k] \in Free("+")
BY EncodedIsFree DEF EncodeAll

LEMMA QueryIsText ==
  ASSUME NEW d \in SUBSET Names, NEW enc \in [d -> Text]
  PROVE  Query(enc) \in Text
<1>1. PICK ks \in Text: ks = Keys(enc) /\ ToSet(ks) = d
  BY KeysAre
<1>2. PICK n \in Nat: n = Len(ks) /\ DOMAIN ks = 1..n
  BY LettersOfText
<1>3. PICK ps: ps = [i \in DOMAIN ks |-> <<ks[i], "=">> \o enc[ks[i]]]
  OBVIOUS
<1>4. PICK e \in Letter: e = "="
  BY DEF Letter
<1>5. ASSUME NEW i \in 1..n PROVE <<ks[i], "=">> \o enc[ks[i]] \in Text
  <2>1. ks[i] \in d /\ ks[i] \in Letter
    BY <1>1, <1>2, NamesAre DEF ToSet
  <2>2. <<ks[i], e>> \in Text
    BY <2>1, TwoOf
  <2> QED BY <1>4, <2>1, <2>2, ConcatProperties DEF Text
<1>6. ps \in [1..n -> Text]
  BY <1>2, <1>3, <1>5
<1>7. PICK sep \in Text: sep = <<"&">>
  BY OneLetter DEF Letter
<1>8. Query(enc) = Join(ps, sep)
  BY <1>1, <1>3, <1>7 DEF Query
<1>9. CASE ps = <<>>
  BY <1>8, <1>9, JoinNothing, NothingIsText
<1>10. CASE ps # <<>>
  <2>1. ps \in Seq(Text)
    BY <1>6
  <2> QED BY <1>7, <1>8, <1>10, <2>1, JoinGrows, NothingIsText
<1> QED BY <1>9, <1>10

(* The parameters can be read off a query of encoded values. *)
LEMMA QueryReadBack ==
  ASSUME NEW d \in SUBSET Names, NEW p \in [d -> Text]
  PROVE  formParams(Query(EncodeAll(p))) = p
<1>1. PICK enc: enc = EncodeAll(p)
  OBVIOUS
<1>2. /\ enc \in [d -> Free("&") \cap Free("=")]
      /\ \A k \in d: decodeURIComponent(enc[k]) = p[k] /\ enc[k] \in Free("+")
  BY <1>1, EncodedAre
<1>3. formParams(Query(enc)) = [k \in d |-> decodeURIComponent(Replace(enc[k], "+", <<" ">>))]
  BY <1>2, FormParamsAre
<1>4. <<" ">> \in Text
  BY OneLetter DEF Letter
<1>5. ASSUME NEW k \in d PROVE decodeURIComponent(Replace(enc[k], "+", <<" ">>)) = p[k]
  <2>1. Replace(enc[k], "+", <<" ">>) = enc[k]
    BY <1>2, <1>4, NothingToReplace
  <2> QED BY <1>2, <2>1
<1> QED BY <1>1, <1>3, <1>5

(* ... and off a body, where spaces are plus signs. *)
LEMMA BodyReadBack ==
  ASSUME NEW d \in SUBSET Names, NEW p \in [d -> Text]
  PROVE  formParams(FormBody(p)) = p
<1>1. PICK r \in SUBSET DOMAIN Codes: r = DOMAIN Codes \ {" "}
  OBVIOUS
<1>2. "%" \in r /\ "&" \in r /\ "=" \in r /\ "+" \in r
  BY <1>1, CodesAre
<1>3. PICK plus \in Letter: plus = "+"
  BY DEF Letter
<1>4. PICK enc: enc = [k \in d |-> Replace(Escape(p[k], r), " ", <<plus>>)]
  OBVIOUS
<1>5. ASSUME NEW k \in d
      PROVE  /\ Replace(Escape(p[k], r), " ", <<plus>>) \in Free("&")
             /\ Replace(Escape(p[k], r), " ", <<plus>>) \in Free("=")
             /\ decodeURIComponent(Replace(Replace(Escape(p[k], r), " ", <<plus>>), "+", <<" ">>)) = p[k]
  <2>1. PICK v \in Text: v = p[k]
    OBVIOUS
  <2>2. PICK x: x = Escape(v, r)
    OBVIOUS
  <2>3. x \in Free("&") /\ x \in Free("=") /\ x \in Free("+") /\ decodeURIComponent(x) = v
    BY <1>2, <2>2, EscapeIsFree, DecodeEscape
  <2>4. plus \in Letter \ {"&"} /\ plus \in Letter \ {"="}
    BY <1>3
  <2>5. Replace(x, " ", <<plus>>) \in Free("&") /\ Replace(x, " ", <<plus>>) \in Free("=")
    BY <2>3, <2>4, ReplaceIsFree
  <2>6. Replace(Replace(x, " ", <<plus>>), "+", <<" ">>) = x
    BY <1>3, <2>3, PlusAndBack
  <2> QED BY <2>1, <2>2, <2>3, <2>5, <2>6
<1>6. enc \in [d -> Free("&") \cap Free("=")]
  BY <1>4, <1>5
<1>7. formParams(Query(enc)) = [k \in d |-> decodeURIComponent(Replace(enc[k], "+", <<" ">>))]
  BY <1>6, FormParamsAre
<1>8. formParams(Query(enc)) = p
  BY <1>4, <1>5, <1>7
<1>9. FormBody(p) = Query(enc)
  BY <1>1, <1>3, <1>4 DEF FormBody, quote
<1> QED BY <1>8, <1>9

(* The base string that every port comes to. *)
BaseOf(url, p) == Base("POST", Encode(url), Encode(Query(EncodeAll(p))))

LEMMA BasesAgree ==
  ASSUME NEW url \in Text, NEW d \in SUBSET Names, NEW p \in [d -> Text]
  PROVE  /\ baseString("POST", url, p) = BaseOf(url, p)
         /\ tsBaseString("POST", url, p) = BaseOf(url, p)
         /\ nextBaseString("POST", url, p) = BaseOf(url, p)
         /\ goBaseString("POST", url, p) = BaseOf(url, p)
         /\ oauth_base_string("POST", url, p) = BaseOf(url, p)
         /\ base_string("POST", url, p) = BaseOf(url, p)
         /\ rubyBaseString("POST", url, p) = BaseOf(url, p)
         /\ javaBaseString("POST", url, p) = BaseOf(url, p)
         /\ kotlinBaseString("POST", url, p) = BaseOf(url, p)
         /\ rustBaseString("POST", url, p) = BaseOf(url, p)
         /\ dotnetBaseString("POST", url, p) = BaseOf(url, p)
         /\ verifierBase("POST", url, p) = BaseOf(url, p)
<1>1. PICK q \in Text: q = Query(EncodeAll(p))
  BY EncodedAre, QueryIsText
<1>2. \A k \in d:
        /\ encode(p[k]) = Encode(p[k]) /\ tsEncode(p[k]) = Encode(p[k]) /\ nextEncode(p[k]) = Encode(p[k])
        /\ goEncode(p[k]) = Encode(p[k]) /\ oauth_encode(p[k]) = Encode(p[k])
        /\ pyEncode(p[k]) = Encode(p[k]) /\ rubyEncode(p[k]) = Encode(p[k])
        /\ javaEncode(p[k]) = Encode(p[k]) /\ kotlinEncode(p[k]) = Encode(p[k])
        /\ rustEncode(p[k]) = Encode(p[k]) /\ dotnetEncode(p[k]) = Encode(p[k])
        /\ verifierEncode(p[k]) = Encode(p[k])
  BY EncodesAgree
<1>3. /\ [k \in DOMAIN p |-> encode(p[k])] = EncodeAll(p)
      /\ [k \in DOMAIN p |-> tsEncode(p[k])] = EncodeAll(p)
      /\ [k \in DOMAIN p |-> nextEncode(p[k])] = EncodeAll(p)
      /\ [k \in DOMAIN p |-> goEncode(p[k])] = EncodeAll(p)
      /\ [k \in DOMAIN p |-> oauth_encode(p[k])] = EncodeAll(p)
      /\ [k \in DOMAIN p |-> pyEncode(p[k])] = EncodeAll(p)
      /\ [k \in DOMAIN p |-> rubyEncode(p[k])] = EncodeAll(p)
      /\ [k \in DOMAIN p |-> javaEncode(p[k])] = EncodeAll(p)
      /\ [k \in DOMAIN p |-> kotlinEncode(p[k])] = EncodeAll(p)
      /\ [k \in DOMAIN p |-> rustEncode(p[k])] = EncodeAll(p)
      /\ [k \in DOMAIN p |-> dotnetEncode(p[k])] = EncodeAll(p)
      /\ [k \in DOMAIN p |-> verifierEncode(p[k])] = EncodeAll(p)
  BY <1>2 DEF EncodeAll
<1>4. /\ encode(q) = Encode(q) /\ tsEncode(q) = Encode(q) /\ nextEncode(q) = Encode(q)
      /\ goEncode(q) = Encode(q) /\ oauth_encode(q) = Encode(q) /\ pyEncode(q) = Encode(q)
      /\ rubyEncode(q) = Encode(q) /\ javaEncode(q) = Encode(q) /\ kotlinEncode(q) = Encode(q)
      /\ rustEncode(q) = Encode(q) /\ dotnetEncode(q) = Encode(q) /\ verifierEncode(q) = Encode(q)
  BY EncodesAgree
<1>5. /\ encode(url) = Encode(url) /\ tsEncode(url) = Encode(url) /\ nextEncode(url) = Encode(url)
      /\ goEncode(url) = Encode(url) /\ oauth_encode(url) = Encode(url) /\ pyEncode(url) = Encode(url)
      /\ rubyEncode(url) = Encode(url) /\ javaEncode(url) = Encode(url) /\ kotlinEncode(url) = Encode(url)
      /\ rustEncode(url) = Encode(url) /\ dotnetEncode(url) = Encode(url) /\ verifierEncode(url) = Encode(url)
  BY EncodesAgree
<1>6. BaseOf(url, p) = Base("POST", Encode(url), Encode(q))
  BY <1>1 DEF BaseOf
<1>7. baseString("POST", url, p) = BaseOf(url, p)
  BY <1>1, <1>3, <1>4, <1>5, <1>6 DEF baseString
<1>8. tsBaseString("POST", url, p) = BaseOf(url, p)
  BY <1>1, <1>3, <1>4, <1>5, <1>6 DEF tsBaseString
<1>9. nextBaseString("POST", url, p) = BaseOf(url, p)
  BY <1>1, <1>3, <1>4, <1>5, <1>6 DEF nextBaseString
<1>10. goBaseString("POST", url, p) = BaseOf(url, p)
  BY <1>1, <1>3, <1>4, <1>5, <1>6 DEF goBaseString
<1>11. oauth_base_string("POST", url, p) = BaseOf(url, p)
  BY <1>1, <1>3, <1>4, <1>5, <1>6 DEF oauth_base_string
<1>12. base_string("POST", url, p) = BaseOf(url, p)
  BY <1>1, <1>3, <1>4, <1>5, <1>6 DEF base_string
<1>13. rubyBaseString("POST", url, p) = BaseOf(url, p)
  BY <1>1, <1>3, <1>4, <1>5, <1>6 DEF rubyBaseString
<1>14. javaBaseString("POST", url, p) = BaseOf(url, p)
  BY <1>1, <1>3, <1>4, <1>5, <1>6 DEF javaBaseString
<1>15. kotlinBaseString("POST", url, p) = BaseOf(url, p)
  BY <1>1, <1>3, <1>4, <1>5, <1>6 DEF kotlinBaseString
<1>16. rustBaseString("POST", url, p) = BaseOf(url, p)
  BY <1>1, <1>3, <1>4, <1>5, <1>6 DEF rustBaseString
<1>17. dotnetBaseString("POST", url, p) = BaseOf(url, p)
  BY <1>1, <1>3, <1>4, <1>5, <1>6 DEF dotnetBaseString
<1>18. verifierBase("POST", url, p) = BaseOf(url, p)
  BY <1>1, <1>3, <1>4, <1>5, <1>6 DEF verifierBase
<1> QED BY <1>7, <1>8, <1>9, <1>10, <1>11, <1>12, <1>13, <1>14, <1>15, <1>16, <1>17, <1>18

(* Every part of a base string is encoded, so it can be taken apart again. *)
LEMMA BaseParts ==
  ASSUME NEW u \in Free("&"), NEW q \in Free("&")
  PROVE  /\ Base("POST", u, q) \in Text
         /\ Split(Base("POST", u, q), "&") = <<<<"POST">>, u, q>>
<1>1. PICK s \in Letter: s = "&"
  BY DEF Letter
<1>2. PICK m \in Letter \ {s}: m = "POST"
  BY <1>1 DEF Letter
<1>3. PICK w \in Free(s): w = <<>>
  BY FreeIsText
<1>4. PICK a \in Free(s): a = <<m>>
  BY SomeLetters
<1>5. u \in Free(s) /\ q \in Free(s)
  BY <1>1
<1>6. PICK ps: ps = <<a, u, q>>
  OBVIOUS
<1>7. ps \in Seq(Free(s)) /\ ps # <<>> /\ ps \in Seq(Text)
  BY <1>5, <1>6, FreeIsText
<1>8. PICK sep \in Text: sep = <<s>> /\ <<s>> \o w = sep
  BY <1>3, OneLetter, ConcatEmptySeq DEF Text
<1>9. Base("POST", u, q) = Join(ps, sep)
  BY <1>1, <1>2, <1>4, <1>6, <1>8 DEF Base
<1>10. Split(Join(ps, sep), s) = Behind(w, ps)
  BY <1>3, <1>7, <1>8, SplitJoin
<1>11. Behind(w, ps) = ps
  <2>1. \A t \in Text: <<>> \o t = t
    BY ConcatEmptySeq DEF Text
  <2>2. \A i \in DOMAIN ps: ps[i] \in Text
    BY <1>7
  <2>3. \A i \in DOMAIN ps: w \o ps[i] = ps[i]
    BY <1>3, <2>1, <2>2
  <2>4. ps = [i \in DOMAIN ps |-> ps[i]]
    BY <1>7
  <2> QED BY <2>3, <2>4 DEF Behind
<1>12. Join(ps, sep) \in Text
  BY <1>7, <1>8, JoinGrows, NothingIsText
<1> QED BY <1>1, <1>2, <1>4, <1>6, <1>9, <1>10, <1>11, <1>12

LEMMA BaseIsText ==
  ASSUME NEW url \in Text, NEW d \in SUBSET Names, NEW p \in [d -> Text]
  PROVE  BaseOf(url, p) \in Text
<1>1. Query(EncodeAll(p)) \in Text
  BY EncodedAre, QueryIsText
<1> QED BY <1>1, EncodedIsFree, BaseParts DEF BaseOf

(* No two maps of parameters have the same base string. *)
LEMMA BasesDiffer ==
  ASSUME NEW url \in Text, NEW d \in SUBSET Names, NEW p \in [d -> Text],
         NEW e \in SUBSET Names, NEW r \in [e -> Text], BaseOf(url, p) = BaseOf(url, r)
  PROVE  p = r
<1>1. PICK u \in Free("&"): u = Encode(url)
  BY EncodedIsFree
<1>2. PICK q1 \in Text: q1 = Query(EncodeAll(p))
  BY EncodedAre, QueryIsText
<1>3. PICK q2 \in Text: q2 = Query(EncodeAll(r))
  BY EncodedAre, QueryIsText
<1>4. Encode(q1) \in Free("&") /\ Encode(q2) \in Free("&")
  BY EncodedIsFree
<1>5. Base("POST", u, Encode(q1)) = Base("POST", u, Encode(q2))
  BY <1>1, <1>2, <1>3 DEF BaseOf
<1>6. PICK x: x = Encode(q1)
  OBVIOUS
<1>7. PICK y: y = Encode(q2)
  OBVIOUS
<1>8. PICK z: z = <<"POST">>
  OBVIOUS
<1>9. <<z, u, x>> = <<z, u, y>>
  BY <1>4, <1>5, <1>6, <1>7, <1>8, BaseParts
<1>10. x = y
  BY <1>9
<1>11. q1 = q2
  BY <1>6, <1>7, <1>10, EncodedIsFree
<1>12. formParams(q1) = p /\ formParams(q2) = r
  BY <1>2, <1>3, QueryReadBack
<1> QED BY <1>11, <1>12

(* A signature tells the key and the base string. *)
SignatureOf(key) == <<"signature of", key, "=">>

LEMMA SignatureStarts ==
  ASSUME NEW key \in Letter
  PROVE  SignatureOf(key) \in Text /\ Len(SignatureOf(key)) = 3 /\ SignatureOf(key)[2] = key
<1>1. \A x \in Letter: \A y \in Letter: \A z \in Letter:
        <<x, y, z>> \in Text /\ Len(<<x, y, z>>) = 3 /\ <<x, y, z>>[2] = y
  BY DEF Text
<1>2. PICK x \in Letter: x = "signature of"
  BY DEF Letter
<1>3. PICK z \in Letter: z = "="
  BY DEF Letter
<1> QED BY <1>1, <1>2, <1>3 DEF SignatureOf

LEMMA BehindThree ==
  ASSUME NEW x \in Text, Len(x) = 3, NEW b \in Text
  PROVE  /\ Len(x \o b) = 3 + Len(b)
         /\ \A i \in 1..(3 + Len(b)): (x \o b)[i] = IF i <= 3 THEN x[i] ELSE b[i - 3]
<1>1. /\ Len(x \o b) = Len(x) + Len(b)
      /\ \A i \in 1..(Len(x) + Len(b)): (x \o b)[i] = IF i <= Len(x) THEN x[i] ELSE b[i - Len(x)]
  BY ConcatProperties DEF Text
<1> QED BY <1>1

LEMMA SignaturesDiffer ==
  ASSUME NEW key \in Letter, NEW other \in Letter, NEW b \in Text, NEW c \in Text
  PROVE  /\ Sign(key, b) \in Text
         /\ Sign(key, b) = Sign(other, c) => key = other /\ b = c
<1>1. PICK x \in Text: x = SignatureOf(key) /\ Len(x) = 3 /\ x[2] = key
  BY SignatureStarts
<1>2. PICK y \in Text: y = SignatureOf(other) /\ Len(y) = 3 /\ y[2] = other
  BY SignatureStarts
<1>3. Sign(key, b) = x \o b /\ Sign(other, c) = y \o c
  BY <1>1, <1>2 DEF Sign, SignatureOf
<1>4. x \o b \in Text
  BY ConcatProperties DEF Text
<1>5. ASSUME x \o b = y \o c PROVE key = other /\ b = c
  <2>1. Len(b) \in Nat /\ Len(c) \in Nat
    BY LettersOfText
  <2>2. /\ Len(x \o b) = 3 + Len(b) /\ Len(y \o c) = 3 + Len(c)
        /\ \A i \in 1..(3 + Len(b)): (x \o b)[i] = IF i <= 3 THEN x[i] ELSE b[i - 3]
        /\ \A i \in 1..(3 + Len(c)): (y \o c)[i] = IF i <= 3 THEN y[i] ELSE c[i - 3]
    BY <1>1, <1>2, BehindThree
  <2>3. 2 \in 1..(3 + Len(b)) /\ 2 \in 1..(3 + Len(c)) /\ 2 <= 3
    BY <2>1
  <2>4. x[2] = y[2]
    BY <1>5, <2>2, <2>3
  <2>5. Len(b) = Len(c)
    BY <1>5, <2>1, <2>2
  <2>6. ASSUME NEW i \in 1..Len(b) PROVE b[i] = c[i]
    <3>1. i + 3 \in 1..(3 + Len(b)) /\ ~(i + 3 <= 3) /\ (i + 3) - 3 = i
      BY <2>1
    <3> QED BY <1>5, <2>2, <2>5, <3>1
  <2>7. b = c
    BY <2>5, <2>6, SeqEqual DEF Text
  <2> QED BY <1>1, <1>2, <2>4, <2>7
<1> QED BY <1>3, <1>4, <1>5

(* A header tells what it was made of. *)
LEMMA HeaderReadBack ==
  ASSUME NEW d \in SUBSET Names, NEW h \in [d -> Text],
         NEW names \in Text, names # <<>>, ToSet(names) = d
  PROVE  /\ Header(names, EncodeAll(h)) # <<>>
         /\ parseHeader(Header(names, EncodeAll(h))) = h
<1>1. PICK enc: enc = EncodeAll(h)
  OBVIOUS
<1>2. enc \in [d -> Free(Comma)] /\ \A k \in d: decodeURIComponent(enc[k]) = h[k]
  BY <1>1, EncodedAre
<1>3. parseHeader(Header(names, enc)) = [k \in d |-> decodeURIComponent(enc[k])]
  BY <1>2, ParsedHeader
<1>4. Header(names, enc) # <<>>
  BY <1>2, HeaderParts
<1> QED BY <1>1, <1>2, <1>3, <1>4

-----------------------------------------------------------------------------
(* What the servers send. *)

OAuth == OAuthParams("nonce")
Three == {"oauth_consumer_key", "oauth_nonce", "oauth_signature_method"}
Signature(url, p, key) == Sign(key, BaseOf(url, Over(p, OAuth)))
SignedHeader(url, p, key) == Over(OAuth, [oauth_signature |-> Signature(url, p, key)])

LEMMA NamesOfOAuth ==
  /\ Three \in SUBSET Names /\ OAuthNames \in SUBSET Names
  /\ OAuthNames = Three \cup {"oauth_signature"} /\ "oauth_signature" \notin Three
  /\ "oauth_signature" \in Letter /\ OAuthNames # {}
BY OAuthAssumption DEF Names, Three, OAuthNames, Letter

LEMMA OAuthIs ==
  /\ OAuth \in [Three -> Text] /\ DOMAIN OAuth = Three
  /\ OAuth["oauth_signature_method"] = <<"RSA-SHA256">>
<1>1. PICK x \in Text: x = <<"test-merchant">>
  BY OneLetter DEF Letter
<1>2. PICK y \in Text: y = <<"nonce">>
  BY OneLetter DEF Letter
<1>3. PICK z \in Text: z = <<"RSA-SHA256">>
  BY OneLetter DEF Letter
<1>4. OAuth = [oauth_consumer_key |-> x, oauth_nonce |-> y, oauth_signature_method |-> z]
  BY <1>1, <1>2, <1>3 DEF OAuth, OAuthParams
<1>5. OAuth \in [Three -> Text] /\ OAuth["oauth_signature_method"] = z
  BY <1>4 DEF Three
<1> QED BY <1>3, <1>5

LEMMA OverIs ==
  ASSUME NEW d, NEW p \in [d -> Text], NEW e, NEW q \in [e -> Text]
  PROVE  /\ Over(p, q) \in [d \cup e -> Text] /\ DOMAIN Over(p, q) = d \cup e
         /\ \A k \in e: Over(p, q)[k] = q[k]
         /\ \A k \in d: k \notin e => Over(p, q)[k] = p[k]
BY DEF Over

LEMMA OverLeaves ==
  ASSUME NEW p, NEW q, NEW k \in DOMAIN p, k \notin DOMAIN q
  PROVE  Over(p, q)[k] = p[k]
BY DEF Over

LEMMA SignatureIs ==
  ASSUME NEW url \in Text, NEW d \in SUBSET Names, NEW p \in [d -> Text], NEW key \in Letter
  PROVE  /\ d \cup Three \in SUBSET Names /\ Over(p, OAuth) \in [d \cup Three -> Text]
         /\ Signature(url, p, key) \in Text
<1>1. d \cup Three \in SUBSET Names
  BY NamesOfOAuth
<1>2. Over(p, OAuth) \in [d \cup Three -> Text]
  BY OAuthIs, OverIs
<1>3. BaseOf(url, Over(p, OAuth)) \in Text
  BY <1>1, <1>2, BaseIsText
<1> QED BY <1>1, <1>2, <1>3, SignaturesDiffer DEF Signature

LEMMA SignedHeaderIs ==
  ASSUME NEW url \in Text, NEW d \in SUBSET Names, NEW p \in [d -> Text], NEW key \in Letter
  PROVE  /\ SignedHeader(url, p, key) \in [OAuthNames -> Text]
         /\ DOMAIN SignedHeader(url, p, key) = OAuthNames
         /\ SignedHeader(url, p, key)["oauth_signature"] = Signature(url, p, key)
         /\ \A k \in Three: SignedHeader(url, p, key)[k] = OAuth[k]
<1>1. PICK s \in Text: s = Signature(url, p, key)
  BY SignatureIs
<1>2. /\ [oauth_signature |-> s] \in [{"oauth_signature"} -> Text]
      /\ [oauth_signature |-> s]["oauth_signature"] = s
  OBVIOUS
<1>3. PICK q: q = [oauth_signature |-> s]
  OBVIOUS
<1>4. SignedHeader(url, p, key) = Over(OAuth, q)
  BY <1>1, <1>3 DEF SignedHeader
<1>5. /\ Over(OAuth, q) \in [Three \cup {"oauth_signature"} -> Text]
      /\ DOMAIN Over(OAuth, q) = Three \cup {"oauth_signature"}
      /\ Over(OAuth, q)["oauth_signature"] = q["oauth_signature"]
      /\ \A k \in Three: k \notin {"oauth_signature"} => Over(OAuth, q)[k] = OAuth[k]
  BY <1>2, <1>3, OAuthIs, OverIs
<1> QED BY <1>1, <1>2, <1>3, <1>4, <1>5, NamesOfOAuth

(* A header of these entries, in whatever order. *)
IsHeaderOf(x, h) ==
  \E names \in Text: names # <<>> /\ ToSet(names) = OAuthNames /\ x = Header(names, EncodeAll(h))

LEMMA HeaderNames ==
  ASSUME NEW h, DOMAIN h = OAuthNames
  PROVE  /\ IsHeaderOf(Header(Keys(h), EncodeAll(h)), h)
         /\ IsHeaderOf(Header(Append(Keys(OAuth), "oauth_signature"), EncodeAll(h)), h)
<1>1. \A names \in Text: ToSet(names) = OAuthNames => names # <<>>
  BY NamesOfOAuth DEF ToSet
<1>2. Keys(h) \in Text /\ ToSet(Keys(h)) = OAuthNames
  BY NamesOfOAuth, KeysAre
<1>3. PICK ks \in Text: ks = Keys(OAuth) /\ ToSet(ks) = Three
  BY NamesOfOAuth, OAuthIs, KeysAre
<1>4. Append(ks, "oauth_signature") \in Text
  BY NamesOfOAuth, AppendIsText
<1>5. ToSet(Append(ks, "oauth_signature")) = OAuthNames
  BY <1>3, NamesOfOAuth, ToSetGrows DEF Text
<1> QED BY <1>1, <1>2, <1>3, <1>4, <1>5 DEF IsHeaderOf

(* What every port signs is the same, whatever order it puts it in. *)
LEMMA PortsAgree ==
  ASSUME NEW url \in Text, NEW d \in SUBSET Names, NEW p \in [d -> Text], NEW key \in Letter
  PROVE  /\ IsHeaderOf(buildAuthHeader("POST", url, p, key, "nonce"), SignedHeader(url, p, key))
         /\ IsHeaderOf(tsBuildAuthHeader("POST", url, p, key, "nonce"), SignedHeader(url, p, key))
         /\ IsHeaderOf(nextAuthHeader("POST", url, p, key, "nonce"), SignedHeader(url, p, key))
         /\ IsHeaderOf(goAuthHeader("POST", url, p, key, "nonce"), SignedHeader(url, p, key))
         /\ IsHeaderOf(oauth_auth_header("POST", url, p, key, "nonce"), SignedHeader(url, p, key))
         /\ IsHeaderOf(build_auth_header("POST", url, p, key, "nonce"), SignedHeader(url, p, key))
         /\ IsHeaderOf(auth_header("POST", url, p, key, "nonce"), SignedHeader(url, p, key))
         /\ IsHeaderOf(javaAuthHeader("POST", url, p, key, "nonce"), SignedHeader(url, p, key))
         /\ IsHeaderOf(kotlinAuthHeader("POST", url, p, key, "nonce"), SignedHeader(url, p, key))
         /\ IsHeaderOf(rustAuthHeader("POST", url, p, key, "nonce"), SignedHeader(url, p, key))
         /\ IsHeaderOf(dotnetHeader("POST", url, p, key, "nonce"), SignedHeader(url, p, key))
<1>1. PICK h: h = SignedHeader(url, p, key)
  OBVIOUS
<1>2. h \in [OAuthNames -> Text] /\ DOMAIN h = OAuthNames
  BY <1>1, SignedHeaderIs
<1>3. PICK all: all = Over(p, OAuth)
  OBVIOUS
<1>4. d \cup Three \in SUBSET Names /\ all \in [d \cup Three -> Text]
  BY <1>3, SignatureIs
<1>5. /\ IsHeaderOf(Header(Keys(h), EncodeAll(h)), h)
      /\ IsHeaderOf(Header(Append(Keys(OAuth), "oauth_signature"), EncodeAll(h)), h)
  BY <1>2, HeaderNames
<1>6. IsHeaderOf(buildAuthHeader("POST", url, p, key, "nonce"), h)
  <2>1. baseString("POST", url, all) = BaseOf(url, all)
    BY <1>4, BasesAgree
  <2>2. \A k \in OAuthNames: encode(h[k]) = Encode(h[k])
    BY <1>2, EncodesAgree
  <2>3. [k \in DOMAIN h |-> encode(h[k])] = EncodeAll(h)
    BY <1>2, <2>2 DEF EncodeAll
  <2>4. buildAuthHeader("POST", url, p, key, "nonce")
          = Header(Append(Keys(OAuth), "oauth_signature"), EncodeAll(h))
    BY <1>1, <1>3, <2>1, <2>3 DEF buildAuthHeader, SignedHeader, Signature, OAuth
  <2> QED BY <1>5, <2>4
<1>7. IsHeaderOf(tsBuildAuthHeader("POST", url, p, key, "nonce"), h)
  <2>1. tsBaseString("POST", url, all) = BaseOf(url, all)
    BY <1>4, BasesAgree
  <2>2. \A k \in OAuthNames: tsEncode(h[k]) = Encode(h[k])
    BY <1>2, EncodesAgree
  <2>3. [k \in DOMAIN h |-> tsEncode(h[k])] = EncodeAll(h)
    BY <1>2, <2>2 DEF EncodeAll
  <2>4. tsBuildAuthHeader("POST", url, p, key, "nonce")
          = Header(Append(Keys(OAuth), "oauth_signature"), EncodeAll(h))
    BY <1>1, <1>3, <2>1, <2>3 DEF tsBuildAuthHeader, SignedHeader, Signature, OAuth
  <2> QED BY <1>5, <2>4
<1>8. IsHeaderOf(nextAuthHeader("POST", url, p, key, "nonce"), h)
  <2>1. nextBaseString("POST", url, all) = BaseOf(url, all)
    BY <1>4, BasesAgree
  <2>2. \A k \in OAuthNames: nextEncode(h[k]) = Encode(h[k])
    BY <1>2, EncodesAgree
  <2>3. [k \in DOMAIN h |-> nextEncode(h[k])] = EncodeAll(h)
    BY <1>2, <2>2 DEF EncodeAll
  <2>4. nextAuthHeader("POST", url, p, key, "nonce") = Header(Keys(h), EncodeAll(h))
    BY <1>1, <1>3, <2>1, <2>3 DEF nextAuthHeader, SignedHeader, Signature, OAuth
  <2> QED BY <1>5, <2>4
<1>9. IsHeaderOf(goAuthHeader("POST", url, p, key, "nonce"), h)
  <2>1. goBaseString("POST", url, all) = BaseOf(url, all)
    BY <1>4, BasesAgree
  <2>2. \A k \in OAuthNames: goEncode(h[k]) = Encode(h[k])
    BY <1>2, EncodesAgree
  <2>3. [k \in DOMAIN h |-> goEncode(h[k])] = EncodeAll(h)
    BY <1>2, <2>2 DEF EncodeAll
  <2>4. goAuthHeader("POST", url, p, key, "nonce") = Header(Keys(h), EncodeAll(h))
    BY <1>1, <1>3, <2>1, <2>3 DEF goAuthHeader, SignedHeader, Signature, OAuth
  <2> QED BY <1>5, <2>4
<1>10. IsHeaderOf(oauth_auth_header("POST", url, p, key, "nonce"), h)
  <2>1. oauth_base_string("POST", url, all) = BaseOf(url, all)
    BY <1>4, BasesAgree
  <2>2. \A k \in OAuthNames: oauth_encode(h[k]) = Encode(h[k])
    BY <1>2, EncodesAgree
  <2>3. [k \in DOMAIN h |-> oauth_encode(h[k])] = EncodeAll(h)
    BY <1>2, <2>2 DEF EncodeAll
  <2>4. oauth_auth_header("POST", url, p, key, "nonce") = Header(Keys(h), EncodeAll(h))
    BY <1>1, <1>3, <2>1, <2>3 DEF oauth_auth_header, SignedHeader, Signature, OAuth
  <2> QED BY <1>5, <2>4
<1>11. IsHeaderOf(build_auth_header("POST", url, p, key, "nonce"), h)
  <2>1. base_string("POST", url, all) = BaseOf(url, all)
    BY <1>4, BasesAgree
  <2>2. \A k \in OAuthNames: pyEncode(h[k]) = Encode(h[k])
    BY <1>2, EncodesAgree
  <2>3. [k \in DOMAIN h |-> pyEncode(h[k])] = EncodeAll(h)
    BY <1>2, <2>2 DEF EncodeAll
  <2>4. build_auth_header("POST", url, p, key, "nonce")
          = Header(Append(Keys(OAuth), "oauth_signature"), EncodeAll(h))
    BY <1>1, <1>3, <2>1, <2>3 DEF build_auth_header, SignedHeader, Signature, OAuth
  <2> QED BY <1>5, <2>4
<1>12. IsHeaderOf(auth_header("POST", url, p, key, "nonce"), h)
  <2>1. rubyBaseString("POST", url, all) = BaseOf(url, all)
    BY <1>4, BasesAgree
  <2>2. \A k \in OAuthNames: rubyEncode(h[k]) = Encode(h[k])
    BY <1>2, EncodesAgree
  <2>3. [k \in DOMAIN h |-> rubyEncode(h[k])] = EncodeAll(h)
    BY <1>2, <2>2 DEF EncodeAll
  <2>4. auth_header("POST", url, p, key, "nonce")
          = Header(Append(Keys(OAuth), "oauth_signature"), EncodeAll(h))
    BY <1>1, <1>3, <2>1, <2>3 DEF auth_header, SignedHeader, Signature, OAuth
  <2> QED BY <1>5, <2>4
<1>13. IsHeaderOf(javaAuthHeader("POST", url, p, key, "nonce"), h)
  <2>1. javaBaseString("POST", url, all) = BaseOf(url, all)
    BY <1>4, BasesAgree
  <2>2. \A k \in OAuthNames: javaEncode(h[k]) = Encode(h[k])
    BY <1>2, EncodesAgree
  <2>3. [k \in DOMAIN h |-> javaEncode(h[k])] = EncodeAll(h)
    BY <1>2, <2>2 DEF EncodeAll
  <2>4. javaAuthHeader("POST", url, p, key, "nonce") = Header(Keys(h), EncodeAll(h))
    BY <1>1, <1>3, <2>1, <2>3 DEF javaAuthHeader, SignedHeader, Signature, OAuth
  <2> QED BY <1>5, <2>4
<1>14. IsHeaderOf(kotlinAuthHeader("POST", url, p, key, "nonce"), h)
  <2>1. kotlinBaseString("POST", url, all) = BaseOf(url, all)
    BY <1>4, BasesAgree
  <2>2. \A k \in OAuthNames: kotlinEncode(h[k]) = Encode(h[k])
    BY <1>2, EncodesAgree
  <2>3. [k \in DOMAIN h |-> kotlinEncode(h[k])] = EncodeAll(h)
    BY <1>2, <2>2 DEF EncodeAll
  <2>4. kotlinAuthHeader("POST", url, p, key, "nonce") = Header(Keys(h), EncodeAll(h))
    BY <1>1, <1>3, <2>1, <2>3 DEF kotlinAuthHeader, SignedHeader, Signature, OAuth
  <2> QED BY <1>5, <2>4
<1>15. IsHeaderOf(rustAuthHeader("POST", url, p, key, "nonce"), h)
  <2>1. rustBaseString("POST", url, all) = BaseOf(url, all)
    BY <1>4, BasesAgree
  <2>2. \A k \in OAuthNames: rustEncode(h[k]) = Encode(h[k])
    BY <1>2, EncodesAgree
  <2>3. [k \in DOMAIN h |-> rustEncode(h[k])] = EncodeAll(h)
    BY <1>2, <2>2 DEF EncodeAll
  <2>4. rustAuthHeader("POST", url, p, key, "nonce") = Header(Keys(h), EncodeAll(h))
    BY <1>1, <1>3, <2>1, <2>3 DEF rustAuthHeader, SignedHeader, Signature, OAuth
  <2> QED BY <1>5, <2>4
<1>16. IsHeaderOf(dotnetHeader("POST", url, p, key, "nonce"), h)
  <2>1. dotnetBaseString("POST", url, all) = BaseOf(url, all)
    BY <1>4, BasesAgree
  <2>2. \A k \in OAuthNames: dotnetEncode(h[k]) = Encode(h[k])
    BY <1>2, EncodesAgree
  <2>3. [k \in DOMAIN h |-> dotnetEncode(h[k])] = EncodeAll(h)
    BY <1>2, <2>2 DEF EncodeAll
  <2>4. dotnetHeader("POST", url, p, key, "nonce") = Header(Keys(h), EncodeAll(h))
    BY <1>1, <1>3, <2>1, <2>3 DEF dotnetHeader, SignedHeader, Signature, OAuth
  <2> QED BY <1>5, <2>4
<1> QED BY <1>1, <1>6, <1>7, <1>8, <1>9, <1>10, <1>11, <1>12, <1>13, <1>14, <1>15, <1>16

LEMMA SignersAgree ==
  ASSUME NEW a, NEW url \in Text, NEW d \in SUBSET Names, NEW p \in [d -> Text], NEW key \in Letter
  PROVE  IsHeaderOf(Signer(a, url, p, key), SignedHeader(url, p, key))
<1>1. \/ Signer(a, url, p, key) = buildAuthHeader("POST", url, p, key, "nonce")
      \/ Signer(a, url, p, key) = tsBuildAuthHeader("POST", url, p, key, "nonce")
      \/ Signer(a, url, p, key) = nextAuthHeader("POST", url, p, key, "nonce")
      \/ Signer(a, url, p, key) = goAuthHeader("POST", url, p, key, "nonce")
      \/ Signer(a, url, p, key) = oauth_auth_header("POST", url, p, key, "nonce")
      \/ Signer(a, url, p, key) = build_auth_header("POST", url, p, key, "nonce")
      \/ Signer(a, url, p, key) = auth_header("POST", url, p, key, "nonce")
      \/ Signer(a, url, p, key) = javaAuthHeader("POST", url, p, key, "nonce")
      \/ Signer(a, url, p, key) = kotlinAuthHeader("POST", url, p, key, "nonce")
      \/ Signer(a, url, p, key) = rustAuthHeader("POST", url, p, key, "nonce")
      \/ Signer(a, url, p, key) = dotnetHeader("POST", url, p, key, "nonce")
  BY DEF Signer
<1> QED BY <1>1, PortsAgree

-----------------------------------------------------------------------------
(* What the emulator says. *)

Says(verdict, key, pem) ==
  /\ ~VerifyOAuth => verdict = ""
  /\ VerifyOAuth /\ pem = NoKey => verdict = "throws"
  /\ VerifyOAuth /\ pem # NoKey /\ key = pem => verdict = ""
  /\ VerifyOAuth /\ pem # NoKey /\ key # pem => verdict = "signature does not verify"

(* The emulator comes to the base string that was signed, and accepts it   *)
(* with the public half of the key.                                        *)
LEMMA VerifierAgrees ==
  ASSUME NEW url \in Text, NEW d \in SUBSET Names, d \cap OAuthNames = {}, NEW p \in [d -> Text],
         NEW key \in Letter, NEW pem, pem \in Letter \/ pem = NoKey,
         NEW x, IsHeaderOf(x, SignedHeader(url, p, key))
  PROVE  Says(verifyOAuth("POST", url, p, x, pem), key, pem)
<1>1. PICK h: h = SignedHeader(url, p, key)
  OBVIOUS
<1>2. /\ h \in [OAuthNames -> Text] /\ DOMAIN h = OAuthNames
      /\ h["oauth_signature"] = Signature(url, p, key) /\ \A k \in Three: h[k] = OAuth[k]
  BY <1>1, SignedHeaderIs
<1>3. parseHeader(x) = h /\ x # <<>>
  BY <1>1, <1>2, HeaderReadBack, NamesOfOAuth DEF IsHeaderOf
<1>4. PICK signed: signed = [k \in DOMAIN h \ {"oauth_signature"} |-> h[k]]
  OBVIOUS
<1>5. signed = OAuth
  <2>1. DOMAIN h \ {"oauth_signature"} = Three
    BY <1>2, NamesOfOAuth
  <2>2. OAuth = [k \in Three |-> OAuth[k]]
    BY OAuthIs
  <2> QED BY <1>2, <1>4, <2>1, <2>2
<1>6. PICK b \in Text: b = verifierBase("POST", url, Over(p, signed)) /\ b = BaseOf(url, Over(p, OAuth))
  <2>1. PICK all: all = Over(p, OAuth)
    OBVIOUS
  <2>2. PICK e \in SUBSET Names: e = d \cup Three
    BY SignatureIs
  <2>3. all \in [e -> Text]
    BY <2>1, <2>2, SignatureIs
  <2>4. BaseOf(url, all) \in Text /\ verifierBase("POST", url, all) = BaseOf(url, all)
    BY <2>3, BasesAgree, BaseIsText
  <2> QED BY <1>5, <2>1, <2>4
<1>7. h["oauth_signature"] = Sign(key, b)
  BY <1>2, <1>6 DEF Signature
<1>8. pem \in Letter => (Sign(key, b) = Sign(pem, b) <=> key = pem)
  BY SignaturesDiffer
<1>9. "oauth_signature" \in DOMAIN h /\ h["oauth_signature_method"] = <<"RSA-SHA256">>
  BY <1>2, OAuthIs, NamesOfOAuth DEF Three
<1>10. PICK method: method = <<"RSA-SHA256">>
  OBVIOUS
<1>11. PICK sent: sent = h["oauth_signature"]
  OBVIOUS
<1>12. PICK made: made = Sign(pem, b)
  OBVIOUS
<1>13. verifyOAuth("POST", url, p, x, pem)
         = IF ~VerifyOAuth THEN "" ELSE IF pem = NoKey THEN "throws"
           ELSE IF sent = made THEN "" ELSE "signature does not verify"
  BY <1>3, <1>4, <1>6, <1>9, <1>11, <1>12 DEF verifyOAuth
<1>14. pem \in Letter => (sent = made <=> key = pem)
  BY <1>7, <1>8, <1>11, <1>12
<1> QED BY <1>13, <1>14, OAuthAssumption DEF Says

LEMMA CommandPathIs ==
  ASSUME NEW c \in Text, c # <<>>
  PROVE  /\ CommandPath(c) \in Text
         /\ gatewayCommand(CommandPath(c)) = c
         /\ CommandPath(c) # Tokenizer /\ \A y: CommandPath(c) # <<"__control", y>>
<1>1. PICK a \in Letter: a = "api"
  BY DEF Letter
<1>2. PICK v \in Letter: v = "v4"
  BY DEF Letter
<1>3. PICK id \in Letter: id = ENDPOINT_ID
  BY DEF Letter
<1>4. PICK front \in Text: front = <<a, v>> /\ Len(front) = 2 /\ front # <<>>
  BY TwoOf
<1>5. front[1] = a /\ front[2] = v
  BY <1>4
<1>6. PICK back \in Text: back = <<id>> /\ Len(back) = 1
  BY OneLetter
<1>7. PICK begun \in Text: begun = front \o c
  BY ConcatProperties DEF Text
<1>8. /\ Len(begun) = 2 + Len(c) /\ Len(c) \in Nat /\ Len(c) # 0
      /\ begun[1] = a /\ begun[2] = v
  <2>1. /\ Len(begun) = Len(front) + Len(c)
        /\ \A i \in 1..(Len(front) + Len(c)): begun[i]
              = IF i <= Len(front) THEN front[i] ELSE c[i - Len(front)]
    BY <1>7, ConcatProperties DEF Text
  <2>2. Len(c) \in Nat /\ Len(c) # 0
    BY LettersOfText, EmptySeq DEF Text
  <2>3. 1 \in 1..(Len(front) + Len(c)) /\ 1 <= Len(front) /\ 2 \in 1..(Len(front) + Len(c)) /\ 2 <= Len(front)
    BY <1>4, <2>2
  <2> QED BY <1>4, <1>5, <2>1, <2>2, <2>3
<1>9. PICK path: path = begun \o back
  OBVIOUS
<1>10. CommandPath(c) = path
  BY <1>1, <1>2, <1>3, <1>4, <1>6, <1>7, <1>9 DEF CommandPath
<1>11. path = Append(begun, id) /\ path \in Text
  BY <1>6, <1>9, AppendIsText
<1>12. /\ Len(path) = Len(begun) + 1 /\ path[Len(path)] = id
       /\ path[1] = a /\ path[2] = v
  <2>1. begun \in Seq(Letter) /\ Len(begun) \in Nat
    BY LettersOfText DEF Text
  <2>2. /\ Len(path) = Len(begun) + 1 /\ path[Len(begun) + 1] = id
        /\ \A i \in 1..Len(begun): path[i] = begun[i]
    BY <1>11, <2>1, AppendProperties
  <2>3. 1 \in 1..Len(begun) /\ 2 \in 1..Len(begun)
    BY <1>8
  <2> QED BY <1>8, <2>2, <2>3
<1>13. SubSeq(path, 3, Len(path) - 1) = c
  <2>1. SubSeq(path, Len(front) + 1, Len(path) - Len(back)) = c
    BY <1>7, <1>9, Middle
  <2>2. Len(front) + 1 = 3
    BY <1>4
  <2> QED BY <1>6, <2>1, <2>2
<1>14. Len(path) > 3
  BY <1>8, <1>12
<1>15. gatewayCommand(path) = c
  BY <1>1, <1>2, <1>3, <1>12, <1>13, <1>14 DEF gatewayCommand
<1>16. path # Tokenizer
  <2>1. Tokenizer[Len(Tokenizer)] # ENDPOINT_ID
    BY DEF Tokenizer, ENDPOINT_ID
  <2> QED BY <1>3, <1>12, <2>1
<1>17. \A y: path # <<"__control", y>>
  <2>1. \A y: <<"__control", y>>[1] # "api"
    OBVIOUS
  <2> QED BY <1>1, <1>12, <2>1
<1> QED BY <1>10, <1>11, <1>15, <1>16, <1>17

LEMMA CommandsAre ==
  ASSUME NEW step \in Signed
  PROVE  /\ CommandOf(step) \in Text /\ CommandOf(step) # <<>> /\ CommandOf(step) \in Commands
         /\ step \in Letter
<1>1. PICK t \in Letter: t = "tokenize"
  BY DEF Letter
<1>2. PICK e \in Letter: e = "create-ephemeral-ticket"
  BY DEF Letter
<1>3. <<t, e>> \in Text /\ <<t, e>> # <<>>
  BY TwoOf
<1>4. step \in Letter /\ <<step>> \in Text /\ <<step>> # <<>>
  <2>1. step = "ticket" \/ step = "sale" \/ step = "status"
    BY DEF Signed
  <2>2. step \in Letter
    BY <2>1 DEF Letter
  <2> QED BY <2>2, OneLetter
<1>5. CommandOf(step) = <<t, e>> \/ CommandOf(step) = <<step>>
  BY <1>1, <1>2 DEF CommandOf
<1>6. CommandOf(step) \in Commands
  BY DEF CommandOf, Commands, Signed
<1> QED BY <1>3, <1>4, <1>5, <1>6

LEMMA UrlIsText ==
  ASSUME NEW path \in Text
  PROVE  UrlOf(path) \in Text
<1>1. PICK o \in Text: o = <<Origin>>
  BY OneLetter DEF Letter
<1>2. PICK s \in Letter: s = "/"
  BY DEF Letter
<1>3. \A i \in DOMAIN path: <<s, path[i]>> \in Text
  BY LettersOfText, TwoOf
<1>4. PICK ps: ps = [i \in DOMAIN path |-> <<s, path[i]>>]
  OBVIOUS
<1>5. ps \in Seq(Seq(Letter))
  <2>1. PICK n \in Nat: DOMAIN path = 1..n
    BY LettersOfText
  <2>2. ps \in [1..n -> Text]
    BY <1>3, <1>4, <2>1
  <2> QED BY <2>2 DEF Text
<1>6. FlattenSeq(ps) \in Seq(Letter)
  <2>1. PICK e \in Seq(Letter): TRUE
    BY NothingIsText DEF Text
  <2> QED BY <1>5, <2>1, FlattenAppend
<1>7. UrlOf(path) = o \o FlattenSeq(ps)
  BY <1>1, <1>2, <1>4 DEF UrlOf
<1> QED BY <1>6, <1>7, ConcatProperties DEF Text

LEMMA KeysAreLetters ==
  /\ \A key \in ToSet(KeyNames): key \in Letter /\ key # NoKey
  /\ \A pem \in KeyFiles: pem \in Letter \/ pem = NoKey
<1>1. STRING \subseteq Letter
  BY DEF Letter
<1>2. KeyNames \in Seq(STRING) /\ NoKey \notin ToSet(KeyNames)
  BY E2EAssumption
<1>3. \A i \in DOMAIN KeyNames: KeyNames[i] \in STRING
  BY <1>2, ElementOfSeq
<1> QED BY <1>1, <1>2, <1>3 DEF KeyFiles, ToSet

LEMMA StringsAreText == Seq(STRING) \subseteq Text
<1> SUFFICES ASSUME NEW t \in Seq(STRING) PROVE t \in Text
  OBVIOUS
<1>1. STRING \subseteq Letter
  BY DEF Letter
<1>2. t \in [1..Len(t) -> STRING] /\ Len(t) \in Nat
  OBVIOUS
<1>3. t \in [1..Len(t) -> Letter]
  BY <1>1, <1>2
<1> QED BY <1>2, <1>3 DEF Text

(* Nothing a sale is made of has the name of an entry of the header. *)
LEMMA ParamsAre ==
  ASSUME NEW params \in AllParams
  PROVE  \E d \in SUBSET Names: d \cap OAuthNames = {} /\ params \in [d -> Text]
<1>1. params \in Payments \/ params = [client_orderid |-> <<"c">>]
  BY DEF AllParams, ParamsOf
<1>2. CASE params \in Payments
  <2>1. /\ params \in [DOMAIN params -> Seq(STRING)] /\ DOMAIN params \subseteq Names
        /\ DOMAIN params \cap Three = {} /\ "oauth_signature" \notin DOMAIN params
    BY <1>2, E2EAssumption, OAuthIs DEF Names, OAuth
  <2>2. Seq(STRING) \subseteq Text
    BY StringsAreText
  <2>3. params \in [DOMAIN params -> Text]
    BY <2>1, <2>2
  <2> QED BY <2>1, <2>3, NamesOfOAuth
<1>3. CASE params = [client_orderid |-> <<"c">>]
  <2>1. PICK t \in Text: t = <<"c">>
    BY OneLetter DEF Letter
  <2>2. params \in [{"client_orderid"} -> Text]
    BY <1>3, <2>1
  <2>3. {"client_orderid"} \subseteq Names /\ {"client_orderid"} \cap OAuthNames = {}
    BY E2EAssumption DEF Names, OAuthNames
  <2> QED BY <2>2, <2>3
<1> QED BY <1>1, <1>2, <1>3

(* What a server sends. *)
IsCall(r, path, params, key) ==
  /\ UrlOf(path) \in Text
  /\ r.method = "POST" /\ r.path = path /\ r.body = FormBody(params)
  /\ IsHeaderOf(r.authorization, SignedHeader(UrlOf(path), params, key))

LEMMA SignedCallIs ==
  ASSUME NEW a, NEW step \in Signed, NEW d \in SUBSET Names, NEW params \in [d -> Text],
         NEW key \in Letter
  PROVE  IsCall(SignedCall(a, step, params, key), CommandPath(CommandOf(step)), params, key)
<1>1. PICK path: path = CommandPath(CommandOf(step))
  OBVIOUS
<1>2. PICK url \in Text: url = UrlOf(path)
  BY <1>1, CommandsAre, CommandPathIs, UrlIsText
<1>3. PICK x: x = Signer(a, url, params, key) /\ IsHeaderOf(x, SignedHeader(url, params, key))
  BY SignersAgree
<1>4. SignedCall(a, step, params, key)
        = [Request("POST", path, <<"server">>) EXCEPT !.body = FormBody(params), !.authorization = x]
  BY <1>1, <1>2, <1>3 DEF SignedCall
<1>5. PICK body: body = FormBody(params)
  OBVIOUS
<1>6. SignedCall(a, step, params, key)
        = [method |-> "POST", path |-> path, from |-> <<"server">>, body |-> body, authorization |-> x]
  BY <1>4, <1>5 DEF Request
<1> QED BY <1>1, <1>2, <1>3, <1>5, <1>6 DEF IsCall

LEMMA ReplyIs ==
  \A status, by: Reply(status, by).status = status /\ Reply(status, by).by = by
BY DEF Reply

(* A signed call is accepted with the public half of its key, and with no  *)
(* other, unless E2E_VERIFY_OAUTH is "0".                                  *)
LEMMA CallIsAnswered ==
  ASSUME NEW a, NEW step \in Signed, NEW params \in AllParams,
         NEW key \in ToSet(KeyNames), NEW pem \in KeyFiles
  PROVE  /\ route(SignedCall(a, step, params, key), pem).status = 200 <=> ~VerifyOAuth \/ key = pem
         /\ ~VerifyOAuth \/ key = pem
              => route(SignedCall(a, step, params, key), pem) = Reply(200, Last(CommandOf(step)))
<1>1. PICK d \in SUBSET Names: d \cap OAuthNames = {} /\ params \in [d -> Text]
  BY ParamsAre
<1>2. key \in Letter /\ key # NoKey /\ (pem \in Letter \/ pem = NoKey)
  BY KeysAreLetters
<1>3. PICK c: c = CommandOf(step) /\ c # <<>> /\ c \in Commands
  BY CommandsAre
<1>4. PICK path: path = CommandPath(c)
  OBVIOUS
<1>5. gatewayCommand(path) = c /\ path # Tokenizer /\ \A y: path # <<"__control", y>>
  BY <1>3, <1>4, CommandsAre, CommandPathIs
<1>6. PICK url: url = UrlOf(path)
  OBVIOUS
<1>7. PICK r: r = SignedCall(a, step, params, key)
  OBVIOUS
<1>8. /\ url \in Text /\ r.method = "POST" /\ r.path = path /\ r.body = FormBody(params)
      /\ IsHeaderOf(r.authorization, SignedHeader(url, params, key))
  <2>1. IsCall(r, path, params, key)
    BY <1>1, <1>2, <1>3, <1>4, <1>7, SignedCallIs
  <2> QED BY <1>6, <2>1 DEF IsCall
<1>9. formParams(r.body) = params
  BY <1>1, <1>8, BodyReadBack
<1>10. PICK refusal: refusal = verifyOAuth("POST", url, params, r.authorization, pem)
  OBVIOUS
<1>11. Says(refusal, key, pem)
  BY <1>1, <1>2, <1>8, <1>10, VerifierAgrees
<1>12. signedCommand(r, pem)
         = IF refusal = "throws" THEN Reply(500, "emulator error")
           ELSE IF refusal # "" THEN Reply(401, "invalid signature")
           ELSE Reply(200, Last(c))
  BY <1>3, <1>5, <1>6, <1>8, <1>9, <1>10 DEF signedCommand
<1>15. PICK done: done = Reply(200, Last(c))
       /\ done.status = 200
  <2>1. PICK status: status = 200
    OBVIOUS
  <2>2. PICK reply: reply = Reply(status, Last(c))
    OBVIOUS
  <2>3. reply.status = status
    BY <2>2, ReplyIs
  <2>4. reply.status = 200
    BY <2>1, <2>3
  <2> QED BY <2>1, <2>2, <2>4
<1>16. /\ signedCommand(r, pem).status = 200 <=> refusal = ""
       /\ refusal = "" => signedCommand(r, pem) = done
  <2>1. refusal = "" => signedCommand(r, pem) = Reply(200, Last(c))
    BY <1>12
  <2>2. refusal = "throws" => signedCommand(r, pem) = Reply(500, "emulator error")
    BY <1>12
  <2>3. refusal # "" /\ refusal # "throws" => signedCommand(r, pem) = Reply(401, "invalid signature")
    BY <1>12
  <2>4. Reply(500, "emulator error").status # 200 /\ Reply(401, "invalid signature").status # 200
    BY DEF Reply
  <2>5. PICK status: status = 200
    OBVIOUS
  <2>6. PICK no: no = Reply(401, "invalid signature")
    OBVIOUS
  <2>7. PICK thrown: thrown = Reply(500, "emulator error")
    OBVIOUS
  <2>8. thrown.status # status /\ no.status # status /\ done.status = status
    BY <1>15, <2>4, <2>5, <2>6, <2>7
  <2>9. PICK said: said = signedCommand(r, pem)
    OBVIOUS
  <2>10. /\ refusal = "" => said = done
         /\ refusal = "throws" => said = thrown
         /\ refusal # "" /\ refusal # "throws" => said = no
    BY <1>15, <2>1, <2>2, <2>3, <2>6, <2>7, <2>9
  <2>11. (said.status = status <=> refusal = "") /\ (refusal = "" => said = done)
    BY <2>8, <2>10
  <2> QED BY <2>5, <2>9, <2>11
<1>17. route(r, pem) = signedCommand(r, pem)
  <2>1. PICK reply: reply = signedCommand(r, pem)
    OBVIOUS
  <2>2. r.method # "GET" /\ r.method # "OPTIONS"
    BY <1>8
  <2> QED BY <1>3, <1>5, <1>8, <2>2 DEF route
<1>18. refusal = "" <=> ~VerifyOAuth \/ key = pem
  BY <1>2, <1>11, OAuthAssumption DEF Says
<1> QED BY <1>3, <1>7, <1>15, <1>16, <1>17, <1>18

(* No two maps of parameters are sent under one signature. *)
LEMMA CallsDiffer ==
  ASSUME NEW a, NEW step \in Signed, NEW params \in AllParams, NEW other \in AllParams,
         NEW key \in ToSet(KeyNames),
         SignedCall(a, step, params, key).authorization = SignedCall(a, step, other, key).authorization
  PROVE  params = other
<1>1. PICK d \in SUBSET Names: d \cap OAuthNames = {} /\ params \in [d -> Text]
  BY ParamsAre
<1>2. PICK e \in SUBSET Names: e \cap OAuthNames = {} /\ other \in [e -> Text]
  BY ParamsAre
<1>3. key \in Letter
  BY KeysAreLetters
<1>4. PICK url: url = UrlOf(CommandPath(CommandOf(step)))
  OBVIOUS
<1>5. PICK x: x = SignedCall(a, step, params, key).authorization
  OBVIOUS
<1>6. /\ url \in Text
      /\ IsHeaderOf(x, SignedHeader(url, params, key)) /\ IsHeaderOf(x, SignedHeader(url, other, key))
  <2>1. PICK path: path = CommandPath(CommandOf(step))
    OBVIOUS
  <2>2. PICK r: r = SignedCall(a, step, params, key) /\ IsCall(r, path, params, key)
    BY <1>1, <1>3, <2>1, SignedCallIs
  <2>3. PICK s: s = SignedCall(a, step, other, key) /\ IsCall(s, path, other, key)
    BY <1>2, <1>3, <2>1, SignedCallIs
  <2> QED BY <1>4, <1>5, <2>1, <2>2, <2>3 DEF IsCall
<1>7. PICK g \in [OAuthNames -> Text]:
        g = SignedHeader(url, params, key) /\ g["oauth_signature"] = Signature(url, params, key)
  BY <1>1, <1>3, <1>6, SignedHeaderIs
<1>8. PICK h \in [OAuthNames -> Text]:
        h = SignedHeader(url, other, key) /\ h["oauth_signature"] = Signature(url, other, key)
  BY <1>2, <1>3, <1>6, SignedHeaderIs
<1>9. parseHeader(x) = g /\ parseHeader(x) = h
  <2>1. ASSUME NEW f \in [OAuthNames -> Text], IsHeaderOf(x, f) PROVE parseHeader(x) = f
    <3>1. PICK names \in Text: names # <<>> /\ ToSet(names) = OAuthNames /\ x = Header(names, EncodeAll(f))
      BY <2>1 DEF IsHeaderOf
    <3>2. parseHeader(Header(names, EncodeAll(f))) = f
      BY <3>1, HeaderReadBack, NamesOfOAuth
    <3> QED BY <3>1, <3>2
  <2> QED BY <1>6, <1>7, <1>8, <2>1
<1>10. Signature(url, params, key) = Signature(url, other, key)
  BY <1>7, <1>8, <1>9
<1>11. PICK p: p = Over(params, OAuth) /\ \A k \in d: k \notin Three => p[k] = params[k]
  <2>1. DOMAIN OAuth = Three /\ DOMAIN params = d
    BY <1>1, OAuthIs
  <2> QED BY <2>1, OverLeaves
<1>12. PICK r: r = Over(other, OAuth) /\ \A k \in e: k \notin Three => r[k] = other[k]
  <2>1. DOMAIN OAuth = Three /\ DOMAIN other = e
    BY <1>2, OAuthIs
  <2> QED BY <2>1, OverLeaves
<1>13. d \cup Three \in SUBSET Names /\ p \in [d \cup Three -> Text]
  BY <1>1, <1>3, <1>6, <1>11, SignatureIs
<1>14. e \cup Three \in SUBSET Names /\ r \in [e \cup Three -> Text]
  BY <1>2, <1>3, <1>6, <1>12, SignatureIs
<1>15. BaseOf(url, p) \in Text /\ BaseOf(url, r) \in Text
  BY <1>6, <1>13, <1>14, BaseIsText
<1>16. BaseOf(url, p) = BaseOf(url, r)
  BY <1>3, <1>10, <1>11, <1>12, <1>15, SignaturesDiffer DEF Signature
<1>17. p = r
  BY <1>6, <1>13, <1>14, <1>16, BasesDiffer
<1>18. \A k \in d: k \notin Three /\ p[k] = params[k]
  BY <1>1, <1>11, NamesOfOAuth
<1>19. \A k \in e: k \notin Three /\ r[k] = other[k]
  BY <1>2, <1>12, NamesOfOAuth
<1>20. d = e
  <2>1. d \cup Three = e \cup Three
    BY <1>13, <1>14, <1>17
  <2> QED BY <1>18, <1>19, <2>1
<1> QED BY <1>1, <1>2, <1>17, <1>18, <1>19, <1>20

-----------------------------------------------------------------------------
(* What a run may rely on. *)

(* No key was deleted, and no two processes wrote the pair at once. *)
Innocent == upset \cap {"raced", "removed"} = {}
BothThere == privateKey # NoKey /\ publicKey # NoKey

KeyTypes ==
  /\ privateKey \in KeyFiles /\ publicKey \in KeyFiles
  /\ \A m \in Makers: maker[m].key \in KeyFiles /\ (Writing(m) => maker[m].key # NoKey)

(* The config leaves a pair behind. *)
PairStays ==
  Innocent /\ (run.stage \in UnderWay \/ maker["config"].at = "have") => BothThere

(* A pair that is there is not touched again. *)
LEMMA PairIsKept ==
  ASSUME PairInv, PairStep, Innocent'
  PROVE  /\ Innocent
         /\ BothThere => BothThere' /\ privateKey' = privateKey /\ publicKey' = publicKey
<1>1. \A m \in Makers: m = "config" \/ m = "emulator"
  BY DEF Makers
<1>2. ASSUME upset \subseteq upset' PROVE Innocent /\ "raced" \notin upset
  BY <1>2 DEF Innocent
<1>3. ASSUME "raced" \notin upset, BothThere PROVE \A m \in Makers: ~Writing(m)
  BY <1>3 DEF PairInv, BothThere
<1>4. ASSUME NEW m \in Makers, Check(m)
      PROVE  upset \subseteq upset' /\ privateKey' = privateKey /\ publicKey' = publicKey
  BY <1>4 DEF Check
<1>5. ASSUME NEW m \in Makers, WritePrivate(m) \/ WritePublic(m)
      PROVE  upset \subseteq upset' /\ Writing(m)
  BY <1>5 DEF WritePrivate, WritePublic, Writing, devVars
<1>6. ~RemoveTmp
  BY DEF RemoveTmp, Innocent
<1> QED BY <1>2, <1>3, <1>4, <1>5, <1>6 DEF PairStep, BothThere

LEMMA NewKey ==
  ASSUME minted \in Nat, minted < Len(KeyNames)
  PROVE  KeyNames[minted + 1] \in KeyFiles /\ KeyNames[minted + 1] # NoKey
<1>1. KeyNames \in Seq(STRING) /\ NoKey \notin ToSet(KeyNames)
  BY E2EAssumption
<1>2. minted + 1 \in DOMAIN KeyNames
  BY <1>1
<1> QED BY <1>1, <1>2 DEF KeyFiles, ToSet

LEMMA KeyTypesStep ==
  ASSUME MakersTypeOK, KeyTypes, PairStep
  PROVE  KeyTypes'
<1>1. NoKey \in KeyFiles
  BY DEF KeyFiles
<1>2. ASSUME NEW m \in Makers, NEW place \in Places, NEW key \in KeyFiles,
             maker' = [maker EXCEPT ![m] = [at |-> place, key |-> key]], minted' \in Nat,
             place \in {"private", "public"} => key # NoKey,
             privateKey' \in KeyFiles, publicKey' \in KeyFiles
      PROVE  KeyTypes'
  <2>1. /\ maker'[m].at = place /\ maker'[m].key = key
        /\ \A other \in Makers \ {m}: maker'[other] = maker[other]
    BY <1>2, MakerMoves
  <2> QED BY <1>2, <2>1 DEF KeyTypes, Writing
<1>3. ASSUME NEW m \in Makers, NEW place \in {"check", "out", "have"},
             maker' = [maker EXCEPT ![m].at = place], minted' \in Nat,
             privateKey' \in KeyFiles, publicKey' \in KeyFiles
      PROVE  KeyTypes'
  <2>1. maker' = [maker EXCEPT ![m] = [at |-> place, key |-> maker[m].key]]
    BY <1>3, MakerGoes
  <2>2. place \in Places /\ place \notin {"private", "public"} /\ maker[m].key \in KeyFiles
    BY <1>3 DEF Places, KeyTypes
  <2> QED BY <1>2, <1>3, <2>1, <2>2
<1>4. ASSUME NEW m \in Makers, Check(m) PROVE KeyTypes'
  <2>1. privateKey' \in KeyFiles /\ publicKey' \in KeyFiles
    BY <1>4 DEF Check, KeyTypes
  <2>2. CASE privateKey # NoKey /\ publicKey # NoKey
    <3>1. maker' = [maker EXCEPT ![m].at = "have"] /\ minted' \in Nat
      BY <1>4, <2>2 DEF Check, MakersTypeOK
    <3> QED BY <1>3, <2>1, <3>1
  <2>3. CASE ~(privateKey # NoKey /\ publicKey # NoKey)
    <3>1. /\ minted < Len(KeyNames) /\ minted' \in Nat
          /\ maker' = [maker EXCEPT ![m] = [at |-> "private", key |-> KeyNames[minted + 1]]]
      BY <1>4, <2>3 DEF Check, MakersTypeOK
    <3>2. KeyNames[minted + 1] \in KeyFiles /\ KeyNames[minted + 1] # NoKey
      BY <3>1, NewKey DEF MakersTypeOK
    <3> QED BY <1>2, <2>1, <3>1, <3>2 DEF Places
  <2> QED BY <2>2, <2>3
<1>5. ASSUME NEW m \in Makers, WritePrivate(m) PROVE KeyTypes'
  <2>1. /\ maker[m].at = "private" /\ privateKey' = maker[m].key /\ minted' = minted
        /\ publicKey' = publicKey /\ maker' = [maker EXCEPT ![m].at = "public"]
    BY <1>5 DEF WritePrivate
  <2>2. maker' = [maker EXCEPT ![m] = [at |-> "public", key |-> maker[m].key]]
    BY <2>1, MakerGoes
  <2>3. maker[m].key \in KeyFiles /\ maker[m].key # NoKey /\ publicKey' \in KeyFiles
    BY <2>1 DEF KeyTypes, Writing
  <2> QED BY <1>2, <2>1, <2>2, <2>3 DEF Places, MakersTypeOK
<1>6. ASSUME NEW m \in Makers, WritePublic(m) PROVE KeyTypes'
  <2>1. /\ publicKey' = maker[m].key /\ minted' = minted /\ privateKey' = privateKey
        /\ maker' = [maker EXCEPT ![m] = [at |-> "have", key |-> NoKey]]
    BY <1>6 DEF WritePublic
  <2>2. publicKey' \in KeyFiles /\ privateKey' \in KeyFiles
    BY <2>1 DEF KeyTypes
  <2> QED BY <1>1, <1>2, <2>1, <2>2 DEF Places, MakersTypeOK
<1>7. CASE RemoveTmp
  BY <1>1, <1>7 DEF RemoveTmp, KeyTypes, Writing
<1>8. ASSUME UNCHANGED <<privateKey, publicKey, minted>>
      PROVE  minted' \in Nat /\ privateKey' \in KeyFiles /\ publicKey' \in KeyFiles
  BY <1>8 DEF MakersTypeOK, KeyTypes
<1>9. ASSUME NEW m \in Makers, UNCHANGED <<privateKey, publicKey, minted>>,
             \/ Ensure(m)
             \/ maker' = [maker EXCEPT ![m].at = "out"]
             \/ maker' = [maker EXCEPT ![m] = [at |-> "out", key |-> NoKey]]
             \/ UNCHANGED maker
      PROVE  KeyTypes'
  <2>1. CASE Ensure(m) \/ maker' = [maker EXCEPT ![m].at = "out"]
    <3>1. PICK place \in {"check", "out"}: maker' = [maker EXCEPT ![m].at = place]
      BY <2>1 DEF Ensure
    <3> QED BY <1>3, <1>8, <1>9, <3>1
  <2>2. CASE maker' = [maker EXCEPT ![m] = [at |-> "out", key |-> NoKey]]
    BY <1>1, <1>2, <1>8, <1>9, <2>2 DEF Places
  <2>3. CASE UNCHANGED maker
    BY <1>8, <1>9, <2>3 DEF KeyTypes, Writing
  <2> QED BY <1>9, <2>1, <2>2, <2>3
<1> QED BY <1>4, <1>5, <1>6, <1>7, <1>9 DEF PairStep

(* A run gets under way, and its config done, by these steps. *)
LEMMA PairStaysStep ==
  ASSUME MakersTypeOK, PairInv, GreenInv, KeyTypes, PairStays, [Next]_vars
  PROVE  PairStays'
<1> SUFFICES ASSUME Innocent', run'.stage \in UnderWay \/ maker'["config"].at = "have"
             PROVE  BothThere'
  BY DEF PairStays
<1> DEFINE Before == run.stage \in UnderWay \/ maker["config"].at = "have"
<1>1. PairStep /\ Innocent
  BY StepsOfThePair, PairIsKept
<1>2. BothThere => BothThere'
  BY <1>1, PairIsKept
<1>3. Before => BothThere'
  BY <1>1, <1>2 DEF PairStays
<1>4. \A m \in Makers: m = "config" \/ m = "emulator"
  BY DEF Makers
<1>5. "config" \in Makers /\ "emulator" \in Makers /\ DOMAIN maker = Makers
  BY DEF Makers, MakersTypeOK
<1>6. ASSUME UNCHANGED run, UNCHANGED maker PROVE Before
  BY <1>6
<1>7. ASSUME NEW m \in Makers, Check(m) PROVE BothThere'
  <2>1. CASE BothThere
    BY <1>2, <2>1
  <2>2. CASE ~BothThere
    <3>1. maker' = [maker EXCEPT ![m] = [at |-> "private", key |-> KeyNames[minted + 1]]] /\ UNCHANGED run
      BY <1>7, <2>2 DEF Check, BothThere
    <3>2. Before
      BY <1>4, <1>5, <3>1
    <3> QED BY <1>3, <3>2
  <2> QED BY <2>1, <2>2
<1>8. ASSUME NEW m \in Makers, WritePrivate(m) PROVE BothThere'
  <2>1. maker' = [maker EXCEPT ![m].at = "public"] /\ UNCHANGED run
    BY <1>8 DEF WritePrivate
  <2>2. Before
    <3>1. maker' = [maker EXCEPT ![m] = [at |-> "public", key |-> maker[m].key]]
      BY <2>1, MakerGoes
    <3> QED BY <1>4, <1>5, <2>1, <3>1
  <2> QED BY <1>3, <2>2
<1>9. ASSUME NEW m \in Makers, WritePublic(m) PROVE BothThere'
  <2>1. maker[m].at = "public" /\ publicKey' = maker[m].key /\ privateKey' = privateKey
    BY <1>9 DEF WritePublic
  <2>2. maker[m].key # NoKey /\ privateKey = maker[m].key
    BY <1>1, <2>1 DEF KeyTypes, Writing, PairInv, Innocent
  <2> QED BY <2>1, <2>2 DEF BothThere
<1>10. CASE Configured
  BY <1>3, <1>10 DEF Configured
<1>11. CASE StartEmulator \/ composeUp \/ AllStarted \/ globalSetup \/ Ask \/ Answer \/ Finish
  <2>1. Answer => run.stage = "tests"
    BY DEF Answer, GreenInv
  <2>2. StartEmulator => run.stage = "emulator"
    BY DEF StartEmulator
  <2>3. Ask \/ Finish => run.stage = "tests"
    BY DEF Ask, Finish
  <2>4. run.stage \in UnderWay
    BY <1>11, <2>1, <2>2, <2>3 DEF composeUp, AllStarted, globalSetup, UnderWay
  <2> QED BY <1>3, <2>4
<1>12. ASSUME NEW a \in Known, StartServer(a) \/ PickTest(a) PROVE BothThere'
  BY <1>3, <1>12 DEF StartServer, PickTest, UnderWay
<1>13. CASE EmulatorListens \/ EmulatorByHand
  <2>1. UNCHANGED run /\ \E place \in {"out", "check"}: maker' = [maker EXCEPT !["emulator"].at = place]
    BY <1>13 DEF EmulatorListens, EmulatorByHand, Ensure
  <2>2. Before
    BY <1>5, <2>1
  <2> QED BY <1>3, <2>2
<1>14. ASSUME NEW argv \in CommandLines, NEW target \in Targets, StartRun(argv, target)
       PROVE  BothThere'
  <2>1. run'.stage = "config" /\ maker' = [maker EXCEPT !["config"].at = "check"]
    BY <1>14 DEF StartRun, Ensure
  <2>2. maker' = [maker EXCEPT !["config"] = [at |-> "check", key |-> maker["config"].key]]
    BY <1>5, <2>1, MakerGoes
  <2>3. maker'["config"].at = "check"
    BY <1>5, <2>2
  <2> QED BY <2>1, <2>3 DEF UnderWay
<1>15. CASE Kill
  <2>1. /\ run' = [run EXCEPT !.stage = "killed"]
        /\ maker' = [maker EXCEPT !["config"] = [at |-> "out", key |-> NoKey]]
    BY <1>15 DEF Kill
  <2>2. run'.stage = "killed"
    BY <2>1 DEF GreenInv, RunRecords
  <2>3. maker'["config"].at = "out"
    BY <1>5, <2>1
  <2> QED BY <2>2, <2>3 DEF UnderWay
<1>16. CASE StopLeftovers \/ RemoveTmp \/ UNCHANGED vars
  BY <1>3, <1>6, <1>16 DEF StopLeftovers, RemoveTmp, vars, keyVars
<1> QED
  BY <1>7, <1>8, <1>9, <1>10, <1>11, <1>12, <1>13, <1>14, <1>15, <1>16 DEF Next, Programs, Developer

-----------------------------------------------------------------------------
(* The servers, those that were left behind included. *)

Everywhere == Targets \X Known

ServerTypes ==
  DOMAIN server = Everywhere /\ \A p \in Everywhere: server[p].key \in KeyFiles

(* One that is up has a key, and answers where it is looked for. *)
ServersAnswer ==
  \A p \in Everywhere: server[p].up =>
    server[p].key # NoKey /\ server[p].path = APPS[p[2]].basePath

(* The pair it was started with is still the one on the disk. *)
ServersHaveTheKey ==
  Innocent => \A p \in Everywhere: server[p].up => BothThere /\ server[p].key = privateKey

LaunchOf(p) ==
  /\ run.stage \in UnderWay /\ privateKey # NoKey
  /\ Launched(p[2], p[1]).path = APPS[p[2]].basePath

LEMMA LaunchedIs ==
  \A a, t: /\ Launched(a, t).up /\ Launched(a, t).key = privateKey /\ Launched(a, t).of = run.number
           /\ Launched(a, "docker").path = APPS[a].basePath
BY DEF Launched, BasePathOf

LEMMA EndRunServers ==
  ASSUME ServerTypes, NEW result, EndRun(result)
  PROVE  /\ DOMAIN server' = Everywhere
         /\ \A p \in Everywhere: server'[p] = IF server[p].of = run.number THEN NotUp ELSE server[p]
BY DEF EndRun, ServerTypes

(* Each server stays as it is, goes down, or is launched. *)
ServersMove ==
  /\ DOMAIN server' = Everywhere
  /\ \A p \in Everywhere:
       \/ server'[p] = server[p]
       \/ server'[p] = NotUp
       \/ server'[p] = Launched(p[2], p[1]) /\ LaunchOf(p)

LEMMA ServerSteps ==
  ASSUME ServerTypes, [Next]_vars
  PROVE  ServersMove
<1>1. ASSUME UNCHANGED server PROVE ServersMove
  BY <1>1 DEF ServerTypes, ServersMove
<1>2. ASSUME NEW result, EndRun(result) PROVE ServersMove
  BY <1>2, EndRunServers DEF ServersMove
<1>3. ASSUME NEW m \in Makers, Check(m) \/ WritePrivate(m) \/ WritePublic(m) PROVE ServersMove
  BY <1>1, <1>3 DEF Check, WritePrivate, WritePublic
<1>4. CASE Configured \/ EmulatorListens \/ AllStarted \/ Ask \/ Answer \/ EmulatorByHand \/ Kill \/ RemoveTmp
  BY <1>1, <1>4 DEF Configured, EmulatorListens, AllStarted, Ask, Answer, EmulatorByHand, Kill, RemoveTmp
<1>5. CASE StartEmulator
  BY <1>1, <1>2, <1>5 DEF StartEmulator
<1>6. CASE globalSetup
  BY <1>1, <1>2, <1>6 DEF globalSetup
<1>7. CASE Finish
  BY <1>2, <1>7 DEF Finish
<1>8. CASE composeUp
  <2>1. CASE emulator.at = "up" \/ NoKey \in {privateKey, publicKey}
    BY <1>2, <1>8, <2>1 DEF composeUp
  <2>2. CASE ~(emulator.at = "up" \/ NoKey \in {privateKey, publicKey})
    <3>1. /\ run.stage \in UnderWay /\ privateKey # NoKey
          /\ server' = [p \in DOMAIN server |->
                          IF p[1] = "docker" /\ p[2] \in run.started
                          THEN Launched(p[2], "docker") ELSE server[p]]
      BY <1>8, <2>2 DEF composeUp, UnderWay
    <3>2. ASSUME NEW p \in Everywhere
          PROVE  \/ server'[p] = server[p]
                 \/ server'[p] = Launched(p[2], p[1]) /\ LaunchOf(p)
      <4>1. CASE p[1] = "docker" /\ p[2] \in run.started
        <5>1. server'[p] = Launched(p[2], "docker")
          BY <3>1, <4>1 DEF ServerTypes
        <5>2. Launched(p[2], "docker").path = APPS[p[2]].basePath
          BY LaunchedIs
        <5> QED BY <3>1, <4>1, <5>1, <5>2 DEF LaunchOf
      <4>2. CASE ~(p[1] = "docker" /\ p[2] \in run.started)
        BY <3>1, <4>2 DEF ServerTypes
      <4> QED BY <4>1, <4>2
    <3>3. DOMAIN server' = Everywhere
      BY <3>1 DEF ServerTypes
    <3> QED BY <3>2, <3>3 DEF ServersMove
  <2> QED BY <2>1, <2>2
<1>9. ASSUME NEW a \in Known, StartServer(a) PROVE ServersMove
  <2>1. \/ UNCHANGED server
        \/ EndRun("failed")
        \/ /\ run.stage = "servers" /\ ~CannotServe(a)
           /\ server' = [server EXCEPT ![<<"native", a>>] = Launched(a, "native")]
    BY <1>9 DEF StartServer
  <2>2. ASSUME run.stage = "servers", ~CannotServe(a),
               server' = [server EXCEPT ![<<"native", a>>] = Launched(a, "native")]
        PROVE  ServersMove
    <3>1. <<"native", a>> \in Everywhere
      BY DEF Everywhere, Targets
    <3>2. privateKey # NoKey /\ Launched(a, "native").path = APPS[a].basePath
      BY <2>2 DEF CannotServe
    <3>3. LaunchOf(<<"native", a>>)
      BY <2>2, <3>2 DEF LaunchOf, UnderWay
    <3>4. server'[<<"native", a>>] = Launched(a, "native")
      BY <2>2, <3>1 DEF ServerTypes
    <3>5. \A p \in Everywhere: p # <<"native", a>> => server'[p] = server[p]
      BY <2>2 DEF ServerTypes
    <3>6. DOMAIN server' = Everywhere
      BY <2>2 DEF ServerTypes
    <3> QED BY <3>3, <3>4, <3>5, <3>6 DEF ServersMove
  <2> QED BY <1>1, <1>2, <2>1, <2>2
<1>10. ASSUME NEW a \in Known, PickTest(a) PROVE ServersMove
  BY <1>1, <1>10 DEF PickTest
<1>11. ASSUME NEW argv \in CommandLines, NEW target \in Targets, StartRun(argv, target) PROVE ServersMove
  BY <1>1, <1>11 DEF StartRun
<1>12. CASE StopLeftovers
  <2>1. server' = [p \in DOMAIN server |-> NotUp]
    BY <1>12 DEF StopLeftovers
  <2> QED BY <2>1 DEF ServersMove, ServerTypes
<1>13. CASE UNCHANGED vars
  BY <1>1, <1>13 DEF vars
<1> QED
  BY <1>3, <1>4, <1>5, <1>6, <1>7, <1>8, <1>9, <1>10, <1>11, <1>12, <1>13 DEF Next, Programs, Developer

LEMMA ServersStep ==
  ASSUME PairInv, KeyTypes, PairStays, ServerTypes, ServersAnswer, ServersHaveTheKey, [Next]_vars
  PROVE  ServerTypes' /\ ServersAnswer' /\ ServersHaveTheKey'
<1>1. ~NotUp.up /\ NotUp.key \in KeyFiles
  BY DEF NotUp, KeyFiles
<1>2. ServersMove
  BY ServerSteps
<1>3. \A p \in Everywhere: LaunchOf(p) =>
        /\ Launched(p[2], p[1]).key = privateKey /\ privateKey # NoKey /\ privateKey \in KeyFiles
        /\ Launched(p[2], p[1]).path = APPS[p[2]].basePath
        /\ Innocent => BothThere
  BY LaunchedIs DEF LaunchOf, KeyTypes, PairStays
<1>4. ServerTypes'
  BY <1>1, <1>2, <1>3 DEF ServerTypes, ServersMove
<1>5. ServersAnswer'
  BY <1>1, <1>2, <1>3 DEF ServersAnswer, ServersMove
<1>6. Innocent' => Innocent /\ (BothThere => BothThere' /\ privateKey' = privateKey)
  BY StepsOfThePair, PairIsKept
<1>7. ServersHaveTheKey'
  BY <1>1, <1>2, <1>3, <1>6 DEF ServersHaveTheKey, ServersMove
<1> QED BY <1>4, <1>5, <1>7

-----------------------------------------------------------------------------
(* The request on the wire. *)

WireInv ==
  wire.sent =>
    /\ wire.signed =>
         /\ Script[run.step] \in Signed /\ wire.params \in AllParams
         /\ wire.key \in ToSet(KeyNames)
         /\ Innocent => BothThere /\ wire.key = privateKey
    /\ ~wire.signed => Script[run.step] \notin Signed

(* It is sent by Ask, and stays what it is until it is answered. *)
LEMMA WireMoves ==
  ASSUME GreenInv, [Next]_vars, wire'.sent
  PROVE  Ask \/ (wire.sent /\ UNCHANGED <<run, wire>>)
<1>1. wire.sent => run.stage = "tests" /\ run.app # "none"
  BY DEF GreenInv
<1>2. ASSUME NEW m \in Makers, Check(m) \/ WritePrivate(m) \/ WritePublic(m)
      PROVE  UNCHANGED <<run, wire>>
  BY <1>2 DEF Check, WritePrivate, WritePublic
<1>3. CASE EmulatorListens \/ EmulatorByHand \/ RemoveTmp \/ UNCHANGED vars
  BY <1>3 DEF EmulatorListens, EmulatorByHand, RemoveTmp, vars
<1>4. CASE Configured \/ StartEmulator \/ composeUp
  BY <1>1, <1>4 DEF Configured, StartEmulator, composeUp, devVars
<1>5. CASE AllStarted \/ globalSetup \/ Finish \/ StopLeftovers
  BY <1>1, <1>5 DEF AllStarted, globalSetup, Finish, StopLeftovers, Ended
<1>6. ASSUME NEW a \in Known, StartServer(a) \/ PickTest(a) PROVE FALSE
  BY <1>1, <1>6 DEF StartServer, PickTest
<1>7. ASSUME NEW argv \in CommandLines, NEW target \in Targets, StartRun(argv, target) PROVE FALSE
  BY <1>1, <1>7 DEF StartRun, Ended
<1>8. CASE Answer \/ Kill
  <2>1. wire' = NoRequest
    BY <1>8 DEF Answer, Kill
  <2> QED BY <2>1 DEF NoRequest
<1> QED
  BY <1>2, <1>3, <1>4, <1>5, <1>6, <1>7, <1>8 DEF Next, Programs, Developer

(* Whose key it is signed with: a php server's is the one on the disk. *)
LEMMA KeyOfIs ==
  ASSUME GreenInv, KeyTypes, ServerTypes, ServersHaveTheKey, PairStays,
         run.stage = "tests", run.app # "none", Serving(run.app, run.target)
  PROVE  /\ KeyOf(run.app) \in KeyFiles
         /\ Innocent => BothThere /\ KeyOf(run.app) = privateKey
<1>1. run.app \in Known /\ run.target \in Targets
  BY DEF GreenInv, RunRecords
<1>2. <<run.target, run.app>> \in Everywhere
  BY <1>1 DEF Everywhere
<1>3. server[<<run.target, run.app>>].up
  BY DEF Serving
<1>4. server[<<run.target, run.app>>].key \in KeyFiles /\ privateKey \in KeyFiles
  BY <1>2 DEF ServerTypes, KeyTypes
<1>5. Innocent => BothThere /\ server[<<run.target, run.app>>].key = privateKey
  BY <1>2, <1>3 DEF ServersHaveTheKey
<1> QED BY <1>4, <1>5 DEF KeyOf

LEMMA WireStep ==
  ASSUME GreenInv, PairInv, KeyTypes, PairStays, ServerTypes, ServersHaveTheKey, WireInv, [Next]_vars
  PROVE  WireInv'
<1> SUFFICES ASSUME wire'.sent PROVE WireInv'
  BY DEF WireInv
<1>1. CASE wire.sent /\ UNCHANGED <<run, wire>>
  <2>1. Innocent' => Innocent /\ (BothThere => BothThere' /\ privateKey' = privateKey)
    BY StepsOfThePair, PairIsKept
  <2> QED BY <1>1, <2>1 DEF WireInv
<1>2. CASE Ask
  <2>1. run.stage = "tests" /\ run.app # "none" /\ ~wire.sent /\ UNCHANGED keyVars /\ UNCHANGED devVars
    BY <1>2 DEF Ask
  <2>2. UNCHANGED <<privateKey, publicKey, upset>>
    BY <2>1 DEF keyVars, devVars
  <2>3. CASE Script[run.step] \notin Signed
    <3>1. wire' = [sent |-> TRUE, signed |-> FALSE] /\ UNCHANGED run
      BY <1>2, <2>3 DEF Ask
    <3>2. ~wire'.signed
      BY <3>1
    <3> QED BY <2>3, <3>1, <3>2 DEF WireInv
  <2>4. CASE Script[run.step] \in Signed
    <3>1. Serving(run.app, run.target) /\ KeyOf(run.app) # NoKey
      BY <1>2, <2>1, <2>4 DEF Ask
    <3>2. PICK params \in ParamsOf(Script[run.step]):
            /\ wire' = [sent |-> TRUE, signed |-> TRUE, params |-> params, key |-> KeyOf(run.app)]
            /\ UNCHANGED run
      BY <1>2, <2>4, <3>1 DEF Ask
    <3>3. params \in AllParams
      BY <2>4, <3>2 DEF AllParams
    <3>4. KeyOf(run.app) \in KeyFiles /\ (Innocent => BothThere /\ KeyOf(run.app) = privateKey)
      BY <2>1, <3>1, KeyOfIs
    <3>5. KeyOf(run.app) \in ToSet(KeyNames)
      BY <3>1, <3>4 DEF KeyFiles
    <3>6. wire'.signed /\ wire'.params = params /\ wire'.key = KeyOf(run.app)
      BY <3>2
    <3>7. Innocent' => Innocent /\ BothThere' = BothThere /\ privateKey' = privateKey
      BY <2>2 DEF Innocent, BothThere
    <3> QED BY <2>4, <3>2, <3>3, <3>4, <3>5, <3>6, <3>7 DEF WireInv
  <2> QED BY <2>3, <2>4
<1> QED BY <1>1, <1>2, WireMoves

-----------------------------------------------------------------------------
(* What the runs rest on, and what it takes to begin. *)

KeysInv ==
  /\ MakersTypeOK /\ PairInv /\ GreenInv
  /\ KeyTypes /\ PairStays
  /\ ServerTypes /\ ServersAnswer /\ ServersHaveTheKey
  /\ WireInv

LEMMA KeysAtFirst == E2EInit => KeysInv
<1> SUFFICES ASSUME E2EInit PROVE KeysInv
  OBVIOUS
<1>1. MakersTypeOK /\ PairInv /\ GreenInv
  BY GreenAtFirst, PairAtFirst
<1>2. /\ privateKey = NoKey /\ publicKey = NoKey /\ run.stage = "idle" /\ ~wire.sent
      /\ maker = [m \in Makers |-> [at |-> "out", key |-> NoKey]]
      /\ server = [p \in Targets \X Known |-> NotUp]
  BY DEF E2EInit, NoRequest
<1>3. "config" \in Makers /\ \A m \in Makers: maker[m].at = "out" /\ maker[m].key = NoKey
  BY <1>2 DEF Makers
<1>4. KeyTypes /\ PairStays
  BY <1>2, <1>3 DEF KeyTypes, PairStays, KeyFiles, Writing, UnderWay
<1>5. DOMAIN server = Everywhere /\ \A p \in Everywhere: server[p] = NotUp
  BY <1>2 DEF Everywhere
<1>6. ~NotUp.up /\ NotUp.key = NoKey
  BY DEF NotUp
<1>7. ServerTypes /\ ServersAnswer /\ ServersHaveTheKey
  BY <1>5, <1>6 DEF ServerTypes, ServersAnswer, ServersHaveTheKey, KeyFiles
<1> QED BY <1>1, <1>2, <1>4, <1>7 DEF KeysInv, WireInv

LEMMA KeysStep == KeysInv /\ [Next]_vars => KeysInv'
<1> SUFFICES ASSUME KeysInv, [Next]_vars PROVE KeysInv'
  OBVIOUS
<1>1. MakersTypeOK' /\ PairInv' /\ GreenInv'
  BY StepsOfThePair, PairStepInv, GreenStepInv DEF KeysInv
<1>2. KeyTypes' /\ PairStays'
  BY StepsOfThePair, KeyTypesStep, PairStaysStep DEF KeysInv
<1>3. ServerTypes' /\ ServersAnswer' /\ ServersHaveTheKey'
  BY ServersStep DEF KeysInv
<1>4. WireInv'
  BY WireStep DEF KeysInv
<1> QED BY <1>1, <1>2, <1>3, <1>4 DEF KeysInv

(* What is signed for a request on the wire, and what is said of it. *)
LEMMA WireIsSigned ==
  ASSUME KeysInv, wire.sent, wire.signed
  PROVE  /\ run.app \in Known /\ Script[run.step] \in Signed /\ wire.params \in AllParams
         /\ wire.key \in ToSet(KeyNames)
         /\ VerifierKey \in KeyFiles
<1>1. run.app \in Known
  BY DEF KeysInv, GreenInv, RunRecords
<1>2. VerifierKey \in KeyFiles
  BY DEF KeysInv, KeyTypes, VerifierKey, KeyFiles
<1> QED BY <1>1, <1>2 DEF KeysInv, WireInv

(* A table is what it is made from. *)
LEMMA TableIsItself ==
  ASSUME NEW f
  PROVE  Tabulated(f) = f
<1>1. \E table \in {f}: table = f
  OBVIOUS
<1>2. Tabulated(f) \in {f}
  BY <1>1 DEF Tabulated
<1> QED BY <1>2

LEMMA TablesAre ==
  /\ Calls = [call \in Known \X Signed \X AllParams \X ToSet(KeyNames) |->
                SignedCall(call[1], call[2], call[3], call[4])]
  /\ Verdicts = [call \in DOMAIN Calls |-> [verifier \in KeyFiles |-> route(Calls[call], verifier)]]
BY TableIsItself DEF Calls, Verdicts

LEMMA CallIs ==
  ASSUME NEW a \in Known, NEW step \in Signed, NEW params \in AllParams, NEW key \in ToSet(KeyNames)
  PROVE  /\ <<a, step, params, key>> \in DOMAIN Calls
         /\ Calls[<<a, step, params, key>>] = SignedCall(a, step, params, key)
<1>1. PICK call \in Known \X Signed \X AllParams \X ToSet(KeyNames): call = <<a, step, params, key>>
  OBVIOUS
<1>2. call[1] = a /\ call[2] = step /\ call[3] = params /\ call[4] = key
  BY <1>1
<1>3. DOMAIN Calls = Known \X Signed \X AllParams \X ToSet(KeyNames)
  BY TablesAre
<1>4. Calls[call] = SignedCall(call[1], call[2], call[3], call[4])
  BY TablesAre
<1> QED BY <1>1, <1>2, <1>3, <1>4

LEMMA VerdictIs ==
  ASSUME NEW a \in Known, NEW step \in Signed, NEW params \in AllParams, NEW key \in ToSet(KeyNames),
         NEW pem \in KeyFiles
  PROVE  Verdicts[<<a, step, params, key>>][pem] = route(SignedCall(a, step, params, key), pem)
<1>1. PICK call \in DOMAIN Calls: call = <<a, step, params, key>>
                                /\ Calls[call] = SignedCall(a, step, params, key)
  BY CallIs
<1>2. Verdicts[call] = [verifier \in KeyFiles |-> route(Calls[call], verifier)]
  BY TablesAre
<1>3. Verdicts[call][pem] = route(Calls[call], pem)
  BY <1>2
<1> QED BY <1>1, <1>3

(* A signed call is accepted exactly when it was signed with the other     *)
(* half of the key on the disk, whichever of the twelve ports signed it.   *)
THEOREM SignedCallsVerify ==
  ASSUME VerifyOAuth = TRUE
  PROVE  E2ESpec => []CallsVerify
<1>1. KeysInv => CallsVerify
  <2> SUFFICES ASSUME KeysInv, wire.sent, wire.signed, emulator.at = "up"
               PROVE  ReplyToWire.status = 200 <=> wire.key = VerifierKey
    BY DEF CallsVerify
  <2>1. /\ run.app \in Known /\ Script[run.step] \in Signed /\ wire.params \in AllParams
        /\ wire.key \in ToSet(KeyNames) /\ VerifierKey \in KeyFiles
    BY WireIsSigned
  <2>2. ReplyToWire = Verdicts[<<run.app, Script[run.step], wire.params, wire.key>>][VerifierKey]
    BY DEF ReplyToWire
  <2>3. ReplyToWire = route(SignedCall(run.app, Script[run.step], wire.params, wire.key), VerifierKey)
    BY <2>1, <2>2, VerdictIs
  <2> QED BY <2>1, <2>3, CallIsAnswered
<1> QED BY <1>1, KeysAtFirst, KeysStep, PTL DEF E2ESpec

(* No two payloads share a signature: what was signed for one sale can be *)
(* sent with no other.                                                     *)
THEOREM SignaturesAreForOneSale == E2ESpec => []OneSignatureOneSale
<1>1. KeysInv => OneSignatureOneSale
  <2> SUFFICES ASSUME KeysInv, wire.sent, wire.signed, NEW other \in AllParams,
                      Calls[<<run.app, Script[run.step], other, wire.key>>].authorization
                        = Calls[<<run.app, Script[run.step], wire.params, wire.key>>].authorization
               PROVE  other = wire.params
    BY DEF OneSignatureOneSale
  <2>1. /\ run.app \in Known /\ Script[run.step] \in Signed /\ wire.params \in AllParams
        /\ wire.key \in ToSet(KeyNames)
    BY WireIsSigned
  <2>2. SignedCall(run.app, Script[run.step], other, wire.key).authorization
          = SignedCall(run.app, Script[run.step], wire.params, wire.key).authorization
    BY <2>1, CallIs
  <2> QED BY <2>1, <2>2, CallsDiffer
<1> QED BY <1>1, KeysAtFirst, KeysStep, PTL DEF E2ESpec

-----------------------------------------------------------------------------
(* The processes: what is up, and who left it behind. *)

Late == {"servers", "probe", "tests"}

EmulatorTypes ==
  /\ emulator \in [at: {"down", "preparing", "up"}, target: Targets, of: Nat, lost: BOOLEAN]
  /\ kills \in Nat

(* A server that is up belongs to the run that started it, or a run was    *)
(* killed; so does the emulator, unless it was started by hand.            *)
ServersLeft ==
  \A a \in Known: server[<<"native", a>>].up =>
    \/ kills > 0
    \/ server[<<"native", a>>].of = run.number /\ run.stage \in Late /\ a \in run.ready

EmulatorLeft ==
  /\ emulator.at # "down" =>
       \/ kills > 0
       \/ "by hand" \in upset
       \/ /\ emulator.of = run.number
          /\ run.stage \in Late \/ (run.stage = "emulator" /\ run.target = "native")
  /\ emulator.lost => "removed" \in upset

(* What a run waited for is up for as long as it lasts. *)
UpInv ==
  /\ run.stage \in {"config", "emulator"} => run.ready = {}
  /\ run.stage = "config" => run.started = {}
  /\ run.stage \in Late => emulator.at = "up"
  /\ run.stage = "servers" => run.target = "native" /\ \A a \in run.ready: server[<<"native", a>>].up
  /\ run.stage \in {"probe", "tests"} => \A a \in run.started: server[<<run.target, a>>].up

World ==
  /\ run \in RunRecords /\ ServerTypes
  /\ EmulatorTypes /\ ServersLeft /\ EmulatorLeft /\ UpInv

(* Where a run is, as far as its processes go. *)
RunStays ==
  /\ run'.number = run.number /\ run'.stage = run.stage /\ run'.target = run.target
  /\ run'.started = run.started /\ run'.ready = run.ready

LEMMA WorldStays ==
  ASSUME World, UNCHANGED <<emulator, server, kills>>, upset \subseteq upset', RunStays,
         run' \in RunRecords
  PROVE  World'
BY DEF World, RunStays, ServerTypes, EmulatorTypes, ServersLeft, EmulatorLeft, UpInv

(* A step that changes the stage and nothing else of the run. *)
LEMMA StageOnly ==
  ASSUME run \in RunRecords, NEW s, run' = [run EXCEPT !.stage = s]
  PROVE  /\ run'.number = run.number /\ run'.stage = s /\ run'.target = run.target
         /\ run'.started = run.started /\ run'.ready = run.ready /\ run'.argv = run.argv
         /\ run'.failing = run.failing
BY DEF RunRecords

LEMMA DownIs ==
  /\ Down \in [at: {"down", "preparing", "up"}, target: Targets, of: Nat, lost: BOOLEAN]
  /\ Down.at = "down" /\ ~Down.lost /\ ~NotUp.up /\ NotUp.key \in KeyFiles
BY DEF Down, NotUp, Targets, KeyFiles

LEMMA WorldAtTheEnd ==
  ASSUME World, NEW result \in {"passed", "failed"}, EndRun(result), UNCHANGED <<kills, upset>>,
         run' \in RunRecords
  PROVE  World'
<1>1. /\ run'.number = run.number /\ run'.stage = result
  BY StageOnly DEF EndRun, World
<1>2. /\ DOMAIN server' = Everywhere
      /\ \A p \in Everywhere: server'[p] = IF server[p].of = run.number THEN NotUp ELSE server[p]
  BY EndRunServers DEF World
<1>3. emulator' = IF emulator.of = run.number THEN Down ELSE emulator
  BY DEF EndRun
<1>4. EmulatorTypes'
  BY <1>3, DownIs DEF World, EmulatorTypes
<1>5. \A a \in Known: <<"native", a>> \in Everywhere
  BY DEF Everywhere, Targets
<1>6. ServersLeft'
  <2> SUFFICES ASSUME NEW a \in Known, server'[<<"native", a>>].up PROVE kills > 0
    BY DEF ServersLeft
  <2>1. server[<<"native", a>>].of # run.number /\ server[<<"native", a>>].up
    BY <1>2, <1>5, DownIs
  <2> QED BY <2>1 DEF World, ServersLeft
<1>7. EmulatorLeft'
  BY <1>3, DownIs DEF World, EmulatorLeft
<1>8. UpInv'
  BY <1>1 DEF UpInv, Late
<1>9. ServerTypes'
  BY <1>2, DownIs DEF World, ServerTypes
<1> QED BY <1>4, <1>6, <1>7, <1>8, <1>9 DEF World

(* The steps of a test leave all of that alone. *)
LEMMA TestStays ==
  ASSUME NEW r \in RunRecords, NEW failed, TestOver(r, failed)
  PROVE  /\ run'.number = r.number /\ run'.stage = r.stage /\ run'.target = r.target
         /\ run'.started = r.started /\ run'.ready = r.ready
         /\ run'.argv = r.argv
         /\ run'.failing = IF failed THEN r.failing \cup {r.app} ELSE r.failing
<1> DEFINE failing == IF failed THEN r.failing \cup {r.app} ELSE r.failing
<1>1. run' = [r EXCEPT !.app = "none", !.step = 0, !.tested = @ \cup {r.app}, !.failing = failing]
  BY DEF TestOver
<1> HIDE DEF failing
<1>2. /\ run'.number = r.number /\ run'.stage = r.stage /\ run'.target = r.target
      /\ run'.started = r.started /\ run'.ready = r.ready /\ run'.argv = r.argv /\ run'.failing = failing
  BY <1>1 DEF RunRecords
<1> QED BY <1>2 DEF failing

LEMMA AnswerStays ==
  ASSUME run \in RunRecords, Answer
  PROVE  /\ RunStays /\ run'.argv = run.argv
         /\ \/ run'.failing = run.failing
            \/ ~Usable(ReplyToWire, Script[run.step], appOrigin(run.app, run.target))
<1> DEFINE reply == ReplyToWire
           usable == Usable(reply, Script[run.step], appOrigin(run.app, run.target))
           paid == IF reply.by = "sale" THEN run.paid \cup {run.app} ELSE run.paid
           counted == [run EXCEPT !.paid = paid]
<1>1. \/ ~usable /\ TestOver(run, TRUE)
      \/ TestOver(counted, FALSE)
      \/ run' = [counted EXCEPT !.step = @ + 1]
  BY DEF Answer
<1>2. paid = run.paid \/ paid = run.paid \cup {run.app}
  OBVIOUS
<1> HIDE DEF reply, usable, paid
<1>3. /\ counted.number = run.number /\ counted.stage = run.stage /\ counted.target = run.target
      /\ counted.started = run.started /\ counted.ready = run.ready /\ counted.argv = run.argv
      /\ counted.failing = run.failing
  BY DEF RunRecords
<1>4. CASE ~usable /\ TestOver(run, TRUE)
  BY <1>4, TestStays DEF RunStays, usable, reply
<1>5. CASE TestOver(counted, FALSE)
  <2>1. run' = [counted EXCEPT !.app = "none", !.step = 0, !.tested = @ \cup {counted.app}]
    <3>1. run' = [counted EXCEPT !.app = "none", !.step = 0, !.tested = @ \cup {counted.app},
                                 !.failing = @]
      BY <1>5 DEF TestOver
    <3> QED BY <3>1 DEF RunRecords
  <2>2. /\ run'.number = counted.number /\ run'.stage = counted.stage /\ run'.target = counted.target
        /\ run'.started = counted.started /\ run'.ready = counted.ready /\ run'.argv = counted.argv
        /\ run'.failing = counted.failing
    BY <2>1 DEF RunRecords
  <2> QED BY <1>3, <2>2 DEF RunStays
<1>6. CASE run' = [counted EXCEPT !.step = @ + 1]
  <2>1. /\ run'.number = counted.number /\ run'.stage = counted.stage /\ run'.target = counted.target
        /\ run'.started = counted.started /\ run'.ready = counted.ready /\ run'.argv = counted.argv
        /\ run'.failing = counted.failing
    BY <1>6 DEF RunRecords
  <2> QED BY <1>3, <2>1 DEF RunStays
<1> QED BY <1>1, <1>4, <1>5, <1>6

LEMMA QuietSteps ==
  ASSUME World, run' \in RunRecords,
         \/ \E m \in Makers: Check(m) \/ WritePrivate(m) \/ WritePublic(m)
         \/ \E a \in Known: PickTest(a)
         \/ Ask \/ Answer \/ UNCHANGED vars
  PROVE  World'
<1>1. ASSUME UNCHANGED run PROVE RunStays
  BY <1>1 DEF RunStays
<1>2. ASSUME NEW m \in Makers, Check(m) \/ WritePrivate(m) \/ WritePublic(m) PROVE World'
  <2>1. UNCHANGED <<emulator, server, kills, run>> /\ upset \subseteq upset'
    BY <1>2 DEF Check, WritePrivate, WritePublic, devVars
  <2> QED BY <1>1, <2>1, WorldStays
<1>3. ASSUME NEW a \in Known, PickTest(a) PROVE World'
  <2>1. UNCHANGED <<emulator, server, kills, upset>> /\ run' = [run EXCEPT !.app = a, !.step = 1]
    BY <1>3 DEF PickTest, devVars
  <2>2. RunStays
    BY <2>1 DEF RunStays, World, RunRecords
  <2> QED BY <2>1, <2>2, WorldStays
<1>4. CASE Ask
  <2>1. UNCHANGED <<emulator, server, kills, upset>> /\ (UNCHANGED run \/ TestOver(run, TRUE))
    BY <1>4 DEF Ask, devVars
  <2>2. RunStays
    BY <1>1, <2>1, TestStays DEF RunStays, World
  <2> QED BY <2>1, <2>2, WorldStays
<1>5. CASE Answer
  <2>1. UNCHANGED <<emulator, server, kills, upset>>
    BY <1>5 DEF Answer, devVars
  <2> QED BY <1>5, <2>1, AnswerStays, WorldStays DEF World
<1>6. CASE UNCHANGED vars
  <2>1. UNCHANGED <<emulator, server, kills, upset, run>>
    BY <1>6 DEF vars, devVars
  <2> QED BY <1>1, <2>1, WorldStays
<1> QED BY <1>2, <1>3, <1>4, <1>5, <1>6

LEMMA ConfiguredWorld ==
  ASSUME World, Configured, run' \in RunRecords
  PROVE  World'
<1>1. /\ run.stage = "config" /\ UNCHANGED <<emulator, server, kills, upset>>
      /\ \/ run' = [run EXCEPT !.stage = "emulator",
                              !.started = startedApps(run.argv, run.target, Known)]
         \/ run' = [run EXCEPT !.stage = "failed"]
  BY DEF Configured, devVars
<1>2. /\ run'.number = run.number /\ run'.stage \in {"emulator", "failed"}
      /\ run'.target = run.target /\ run'.ready = run.ready
  BY <1>1 DEF World, RunRecords
<1>3. ServersLeft' /\ EmulatorLeft'
  BY <1>1, <1>2 DEF World, ServersLeft, EmulatorLeft, Late
<1>4. UpInv'
  BY <1>1, <1>2 DEF World, UpInv, Late
<1> QED BY <1>1, <1>3, <1>4 DEF World, ServerTypes, EmulatorTypes

LEMMA StartEmulatorWorld ==
  ASSUME World, StartEmulator, run' \in RunRecords
  PROVE  World'
<1>1. run.stage = "emulator" /\ run.target = "native" /\ UNCHANGED <<kills, upset>>
  BY DEF StartEmulator, devVars
<1>2. CASE EndRun("failed")
  BY <1>1, <1>2, WorldAtTheEnd
<1>3. CASE emulator' = [Down EXCEPT !.at = "preparing", !.of = run.number] /\ UNCHANGED <<run, server>>
  <2>1. /\ emulator' = [at |-> "preparing", target |-> "native", of |-> run.number, lost |-> FALSE]
    BY <1>3 DEF Down
  <2>2. EmulatorTypes'
    BY <1>1, <2>1 DEF World, EmulatorTypes, Targets, RunRecords
  <2>3. emulator'.of = run.number /\ ~emulator'.lost
    BY <2>1
  <2>4. EmulatorLeft'
    BY <1>1, <1>3, <2>3 DEF EmulatorLeft
  <2> QED BY <1>1, <1>3, <2>2, <2>4 DEF World, ServerTypes, ServersLeft, UpInv, Late
<1>4. CASE emulator.at = "up" /\ run' = [run EXCEPT !.stage = "servers"] /\ UNCHANGED <<emulator, server>>
  <2>1. /\ run'.number = run.number /\ run'.stage = "servers" /\ run'.target = run.target
        /\ run'.started = run.started /\ run'.ready = run.ready
    BY <1>4, StageOnly DEF World
  <2>2. ServersLeft' /\ EmulatorLeft'
    BY <1>1, <1>4, <2>1 DEF World, ServersLeft, EmulatorLeft, Late
  <2>3. UpInv'
    BY <1>1, <1>4, <2>1 DEF World, UpInv, Late
  <2> QED BY <1>1, <1>4, <2>2, <2>3 DEF World, ServerTypes, EmulatorTypes
<1> QED BY <1>2, <1>3, <1>4 DEF StartEmulator

LEMMA EmulatorWorld ==
  ASSUME World, EmulatorListens \/ EmulatorByHand \/ RemoveTmp
  PROVE  World'
<1>1. UNCHANGED <<run, server, kills>> /\ upset \subseteq upset'
  BY DEF EmulatorListens, EmulatorByHand, RemoveTmp, devVars
<1>2. ServersLeft' /\ ServerTypes'
  BY <1>1 DEF World, ServersLeft, ServerTypes
<1>3. CASE EmulatorListens
  <2>1. emulator.at = "preparing" /\ emulator' = [emulator EXCEPT !.at = "up"]
    BY <1>3 DEF EmulatorListens
  <2>2. EmulatorTypes' /\ emulator'.at = "up" /\ emulator'.of = emulator.of /\ emulator'.lost = emulator.lost
    BY <1>1, <2>1 DEF World, EmulatorTypes
  <2> QED BY <1>1, <1>2, <2>1, <2>2 DEF World, EmulatorLeft, UpInv
<1>4. CASE EmulatorByHand
  <2>1. /\ emulator.at = "down" /\ emulator' = [Down EXCEPT !.at = "preparing"]
        /\ "by hand" \in upset'
    BY <1>4 DEF EmulatorByHand
  <2>2. emulator' = [at |-> "preparing", target |-> "native", of |-> 0, lost |-> FALSE]
    BY <2>1 DEF Down
  <2>3. EmulatorTypes'
    BY <1>1, <2>2 DEF World, EmulatorTypes, Targets
  <2>4. ~emulator'.lost
    BY <2>2
  <2>5. EmulatorLeft'
    BY <2>1, <2>4 DEF EmulatorLeft
  <2> QED BY <1>1, <1>2, <2>1, <2>3, <2>5 DEF World, UpInv
<1>5. CASE RemoveTmp
  <2>1. /\ emulator' = [emulator EXCEPT !.lost = emulator.target = "docker" /\ emulator.at = "up"]
        /\ "removed" \in upset'
    BY <1>5 DEF RemoveTmp
  <2>2. PICK lost \in BOOLEAN: emulator' = [emulator EXCEPT !.lost = lost]
    BY <2>1
  <2>3. EmulatorTypes' /\ emulator'.at = emulator.at /\ emulator'.of = emulator.of
    BY <1>1, <2>2 DEF World, EmulatorTypes
  <2> QED BY <1>1, <1>2, <2>1, <2>3 DEF World, EmulatorLeft, UpInv
<1> QED BY <1>3, <1>4, <1>5

LEMMA StartServerWorld ==
  ASSUME World, KeyTypes, NEW a \in Known, StartServer(a), run' \in RunRecords
  PROVE  World'
<1>1. /\ run.stage = "servers" /\ run.target = "native" /\ UNCHANGED <<kills, upset>>
      /\ \A b \in run.ready: server[<<"native", b>>].up
  BY DEF StartServer, devVars, World, UpInv
<1>2. CASE EndRun("failed")
  BY <1>1, <1>2, WorldAtTheEnd
<1>3. ASSUME run' = [run EXCEPT !.ready = @ \cup {a}], UNCHANGED emulator, DOMAIN server' = Everywhere,
             ServerTypes', server'[<<"native", a>>].up,
             \/ server'[<<"native", a>>] = server[<<"native", a>>]
             \/ server'[<<"native", a>>].of = run.number,
             \A p \in Everywhere: p # <<"native", a>> => server'[p] = server[p]
      PROVE  World'
  <2>1. /\ run'.number = run.number /\ run'.stage = "servers" /\ run'.target = run.target
        /\ run'.started = run.started /\ run'.ready = run.ready \cup {a}
    BY <1>1, <1>3 DEF World, RunRecords
  <2>2. \A b \in Known: <<"native", b>> \in Everywhere /\ (b # a => <<"native", b>> # <<"native", a>>)
    BY DEF Everywhere, Targets
  <2>3. \A b \in Known: b # a => server'[<<"native", b>>] = server[<<"native", b>>]
    BY <1>3, <2>2
  <2>4. ServersLeft'
    BY <1>1, <1>3, <2>1, <2>3 DEF World, ServersLeft, Late
  <2>5. run.ready \subseteq Known
    BY DEF World, RunRecords
  <2>6. UpInv'
    BY <1>1, <1>3, <2>1, <2>3, <2>5 DEF World, UpInv, Late
  <2> QED BY <1>1, <1>3, <2>1, <2>4, <2>6 DEF World, EmulatorTypes, EmulatorLeft
<1>4. <<"native", a>> \in Everywhere
  BY DEF Everywhere, Targets
<1>5. CASE /\ Serving(a, "native") /\ run' = [run EXCEPT !.ready = @ \cup {a}]
           /\ UNCHANGED <<server, emulator>>
  BY <1>3, <1>4, <1>5 DEF Serving, World, ServerTypes
<1>6. CASE /\ run' = [run EXCEPT !.ready = @ \cup {a}] /\ UNCHANGED emulator
           /\ server' = [server EXCEPT ![<<"native", a>>] = Launched(a, "native")]
           /\ privateKey # NoKey
  <2>1. PICK new: new = Launched(a, "native") /\ new.up /\ new.of = run.number /\ new.key = privateKey
    BY LaunchedIs
  <2>2. server' = [server EXCEPT ![<<"native", a>>] = new]
    BY <1>6, <2>1
  <2>3. /\ DOMAIN server' = Everywhere /\ server'[<<"native", a>>] = new
        /\ \A p \in Everywhere: p # <<"native", a>> => server'[p] = server[p]
    BY <1>4, <2>2 DEF World, ServerTypes
  <2>4. \A p \in Everywhere: server'[p].key \in KeyFiles
    BY <2>1, <2>3 DEF World, ServerTypes, KeyTypes
  <2> QED BY <1>3, <1>6, <2>1, <2>3, <2>4 DEF ServerTypes
<1> QED BY <1>2, <1>5, <1>6 DEF StartServer, CannotServe

LEMMA ComposeWorld ==
  ASSUME World, KeyTypes, composeUp, run' \in RunRecords
  PROVE  World'
<1>1. run.stage = "emulator" /\ run.target = "docker" /\ UNCHANGED <<kills, upset, privateKey>>
  BY DEF composeUp, devVars, keyVars
<1>2. CASE EndRun("failed")
  BY <1>1, <1>2, WorldAtTheEnd
<1>3. CASE /\ emulator' = [at |-> "up", target |-> "docker", of |-> run.number, lost |-> FALSE]
           /\ server' = [p \in DOMAIN server |->
                           IF p[1] = "docker" /\ p[2] \in run.started
                           THEN Launched(p[2], "docker") ELSE server[p]]
           /\ run' = [run EXCEPT !.stage = "probe"]
  <2>1. /\ run'.number = run.number /\ run'.stage = "probe" /\ run'.target = "docker"
        /\ run'.started = run.started /\ run.started \subseteq Known
    BY <1>1, <1>3, StageOnly DEF World, RunRecords
  <2>2. DOMAIN server' = Everywhere
    BY <1>3 DEF World, ServerTypes
  <2>3. \A p \in Everywhere:
          /\ p[1] # "docker" => server'[p] = server[p]
          /\ p[1] = "docker" /\ p[2] \in run.started => server'[p] = Launched(p[2], "docker")
          /\ p[1] = "docker" /\ p[2] \notin run.started => server'[p] = server[p]
    BY <1>3 DEF World, ServerTypes
  <2>4. \A p \in Everywhere: server'[p].key \in KeyFiles
    BY <2>3, LaunchedIs DEF World, ServerTypes, KeyTypes
  <2>5. ASSUME NEW a \in Known
        PROVE  /\ server'[<<"native", a>>] = server[<<"native", a>>]
               /\ a \in run.started => server'[<<"docker", a>>].up
    <3>1. <<"native", a>> \in Everywhere /\ <<"docker", a>> \in Everywhere
      BY DEF Everywhere, Targets
    <3>2. <<"native", a>>[1] # "docker" /\ <<"docker", a>>[1] = "docker" /\ <<"docker", a>>[2] = a
      OBVIOUS
    <3> QED BY <2>3, <3>1, <3>2, LaunchedIs
  <2>6. ServersLeft'
    BY <1>1, <2>1, <2>5 DEF World, ServersLeft, Late
  <2>7. EmulatorTypes' /\ EmulatorLeft'
    BY <1>1, <1>3, <2>1 DEF World, EmulatorTypes, EmulatorLeft, Targets, RunRecords, Late
  <2>8. UpInv'
    BY <1>3, <2>1, <2>5 DEF UpInv, Late
  <2> QED BY <2>2, <2>4, <2>6, <2>7, <2>8 DEF World, ServerTypes
<1> QED BY <1>2, <1>3 DEF composeUp

LEMMA StageWorld ==
  ASSUME World, AllStarted \/ globalSetup \/ Finish \/ Kill, run' \in RunRecords
  PROVE  World'
<1>1. CASE \E result \in {"passed", "failed"}: EndRun(result) /\ UNCHANGED <<kills, upset>>
  BY <1>1, WorldAtTheEnd
<1>2. CASE /\ run' = [run EXCEPT !.stage = "probe"] /\ run.stage = "servers"
           /\ run.started \subseteq run.ready /\ UNCHANGED <<emulator, server, kills, upset>>
  <2>1. /\ run'.number = run.number /\ run'.stage = "probe" /\ run'.target = run.target
        /\ run'.started = run.started /\ run'.ready = run.ready
    BY <1>2, StageOnly DEF World
  <2> QED BY <1>2, <2>1 DEF World, ServerTypes, EmulatorTypes, ServersLeft, EmulatorLeft, UpInv, Late
<1>3. CASE /\ run' = [run EXCEPT !.stage = "tests"] /\ run.stage = "probe"
           /\ UNCHANGED <<emulator, server, kills, upset>>
  <2>1. /\ run'.number = run.number /\ run'.stage = "tests" /\ run'.target = run.target
        /\ run'.started = run.started /\ run'.ready = run.ready
    BY <1>3, StageOnly DEF World
  <2> QED BY <1>3, <2>1 DEF World, ServerTypes, EmulatorTypes, ServersLeft, EmulatorLeft, UpInv, Late
<1>4. CASE Kill
  <2>1. /\ run' = [run EXCEPT !.stage = "killed"] /\ kills' = kills + 1
        /\ UNCHANGED <<emulator, server, upset>>
    BY <1>4 DEF Kill
  <2>2. run'.stage = "killed" /\ kills' \in Nat /\ kills' > 0
    BY <2>1, StageOnly DEF World, EmulatorTypes
  <2> QED BY <2>1, <2>2 DEF World, ServerTypes, EmulatorTypes, ServersLeft, EmulatorLeft, UpInv, Late
<1>5. CASE AllStarted
  BY <1>2, <1>5 DEF AllStarted, devVars
<1>6. CASE globalSetup
  BY <1>1, <1>3, <1>6 DEF globalSetup, devVars
<1>7. CASE Finish
  BY <1>1, <1>7 DEF Finish, devVars
<1> QED BY <1>4, <1>5, <1>6, <1>7

LEMMA BetweenRuns ==
  ASSUME World, run' \in RunRecords,
         StopLeftovers \/ \E argv \in CommandLines, target \in Targets: StartRun(argv, target)
  PROVE  World'
<1>1. CASE StopLeftovers
  <2>1. /\ run.stage \in Ended /\ emulator' = Down /\ UNCHANGED <<run, kills, upset>>
        /\ server' = [p \in DOMAIN server |-> NotUp]
    BY <1>1 DEF StopLeftovers, devVars
  <2>2. \A p \in Everywhere: server'[p] = NotUp
    BY <2>1 DEF World, ServerTypes
  <2>3. DOMAIN server' = Everywhere /\ \A a \in Known: <<"native", a>> \in Everywhere
    BY <2>1 DEF World, ServerTypes, Everywhere, Targets
  <2>4. ServerTypes' /\ ServersLeft' /\ EmulatorTypes' /\ EmulatorLeft'
    BY <2>1, <2>2, <2>3, DownIs DEF World, ServerTypes, ServersLeft, EmulatorTypes, EmulatorLeft
  <2>5. UpInv'
    BY <2>1 DEF UpInv, Late, Ended
  <2> QED BY <2>1, <2>4, <2>5 DEF World
<1>2. ASSUME NEW argv \in CommandLines, NEW target \in Targets, StartRun(argv, target)
      PROVE  World'
  <2>1. /\ run.stage \in Ended /\ UNCHANGED <<emulator, server, kills, upset>>
        /\ run'.stage = "config" /\ run'.ready = {} /\ run'.started = {}
    BY <1>2 DEF StartRun, devVars
  <2>2. ServersLeft' /\ EmulatorLeft' /\ UpInv'
    BY <2>1 DEF World, ServersLeft, EmulatorLeft, UpInv, Late, Ended
  <2> QED BY <2>1, <2>2 DEF World, ServerTypes, EmulatorTypes
<1> QED BY <1>1, <1>2

LEMMA WorldStep ==
  ASSUME World, KeyTypes, GreenInv', [Next]_vars
  PROVE  World'
<1>1. run' \in RunRecords
  BY DEF GreenInv
<1> QED
  BY <1>1, ConfiguredWorld, StartEmulatorWorld, EmulatorWorld, StartServerWorld, ComposeWorld, StageWorld,
     BetweenRuns, QuietSteps DEF Next, Programs, Developer

-----------------------------------------------------------------------------
(* Where a run may fail. *)

(* What is looked for in some places first is on the PATH, or nowhere. *)
LEMMA FirstOfIsThere ==
  ASSUME NEW tool, NEW places, NEW n \in Nat, DOMAIN places = 1..n, NEW installed,
         <<tool, FirstOf(tool, places, installed)>> \notin installed
  PROVE  /\ <<tool, "PATH">> \notin installed
         /\ \A i \in 1..n: <<tool, places[i]>> \notin installed
<1> DEFINE there == {i \in 1..n: <<tool, places[i]>> \in installed}
<1>1. CASE there = {}
  <2>1. FirstOf(tool, places, installed) = "PATH"
    BY <1>1 DEF FirstOf
  <2> QED BY <1>1, <2>1
<1>2. CASE there # {}
  <2>1. PICK i \in there: \A j \in there: i <= j
    <3>1. there \in SUBSET Nat
      OBVIOUS
    <3> HIDE DEF there
    <3> QED BY <1>2, <3>1, LeastIsThere
  <2>2. i \in DOMAIN places /\ <<tool, places[i]>> \in installed
    BY <2>1
  <2>3. \A j \in 1..(i - 1): <<tool, places[j]>> \notin installed
    BY <2>1
  <2>4. \E k \in DOMAIN places: /\ <<tool, places[k]>> \in installed
                                /\ \A j \in 1..(k - 1): <<tool, places[j]>> \notin installed
    BY <2>2, <2>3
  <2> DEFINE first == CHOOSE k \in DOMAIN places:
                        /\ <<tool, places[k]>> \in installed
                        /\ \A j \in 1..(k - 1): <<tool, places[j]>> \notin installed
  <2>5. <<tool, places[first]>> \in installed
    BY <2>4
  <2>6. FirstOf(tool, places, installed) = places[first]
    BY <2>2 DEF FirstOf
  <2> QED BY <2>5, <2>6
<1> QED BY <1>1, <1>2

TriedFor(tool) ==
  IF tool = "go" THEN {"GO_BIN", "~/opt"}
  ELSE IF tool = "ruby" THEN {"RUBY_BIN", "~/opt"}
  ELSE IF tool = "java" THEN {"JAVA_HOME", "~/.sdkman"}
  ELSE IF tool = "cargo" THEN {"CARGO_BIN", "~/.cargo"}
  ELSE IF tool = "dotnet" THEN {"DOTNET_BIN", "DOTNET_ROOT", "/usr/local/share", "~/.dotnet"}
  ELSE {}

LEMMA TriedAre == \A place \in TriedFirst: \E dir \in TriedFor(place[1]): place = <<place[1], dir>>
<1> SUFFICES ASSUME NEW place \in TriedFirst PROVE \E dir \in TriedFor(place[1]): place = <<place[1], dir>>
  OBVIOUS
<1>1. PICK tool, dir: place = <<tool, dir>> /\ dir \in TriedFor(tool)
  BY DEF TriedFirst, TriedFor
<1>2. place[1] = tool
  BY <1>1
<1> QED BY <1>1, <1>2

LEMMA PlaceIsThere ==
  ASSUME NEW tool, NEW installed, <<tool, PlaceOf(tool, installed)>> \notin installed
  PROVE  /\ <<tool, "PATH">> \notin installed
         /\ \A dir \in TriedFor(tool): <<tool, dir>> \notin installed
<1>1. ASSUME NEW n \in Nat, NEW places, DOMAIN places = 1..n,
             PlaceOf(tool, installed) = FirstOf(tool, places, installed),
             \A dir \in TriedFor(tool): \E i \in 1..n: dir = places[i]
      PROVE  /\ <<tool, "PATH">> \notin installed
             /\ \A dir \in TriedFor(tool): <<tool, dir>> \notin installed
  <2>1. <<tool, FirstOf(tool, places, installed)>> \notin installed
    BY <1>1
  <2>2. <<tool, "PATH">> \notin installed /\ \A i \in 1..n: <<tool, places[i]>> \notin installed
    BY <1>1, <2>1, FirstOfIsThere
  <2> QED BY <1>1, <2>2
<1>2. CASE tool = "go"
  <2>1. PICK places: places = <<"GO_BIN", "~/opt">>
    OBVIOUS
  <2>2. DOMAIN places = 1..2 /\ places[1] = "GO_BIN" /\ places[2] = "~/opt"
    BY <2>1
  <2>3. PlaceOf(tool, installed) = goBinary(installed)
    BY <1>2, Zenon DEF PlaceOf
  <2>4. PlaceOf(tool, installed) = FirstOf(tool, places, installed)
    BY <1>2, <2>1, <2>3 DEF goBinary
  <2>5. \A dir \in TriedFor(tool): \E i \in 1..2: dir = places[i]
    BY <1>2, <2>2 DEF TriedFor
  <2>6. 2 \in Nat /\ 4 \in Nat
    OBVIOUS
  <2> QED BY <1>1, <2>2, <2>4, <2>5, <2>6
<1>3. CASE tool = "ruby"
  <2>1. PICK places: places = <<"RUBY_BIN", "~/opt">>
    OBVIOUS
  <2>2. DOMAIN places = 1..2 /\ places[1] = "RUBY_BIN" /\ places[2] = "~/opt"
    BY <2>1
  <2>3. PlaceOf(tool, installed) = rubyBinary(installed)
    BY <1>3, Zenon DEF PlaceOf
  <2>4. PlaceOf(tool, installed) = FirstOf(tool, places, installed)
    BY <1>3, <2>1, <2>3 DEF rubyBinary
  <2>5. \A dir \in TriedFor(tool): \E i \in 1..2: dir = places[i]
    BY <1>3, <2>2 DEF TriedFor
  <2>6. 2 \in Nat /\ 4 \in Nat
    OBVIOUS
  <2> QED BY <1>1, <2>2, <2>4, <2>5, <2>6
<1>4. CASE tool = "java"
  <2>1. PICK places: places = <<"JAVA_HOME", "~/.sdkman">>
    OBVIOUS
  <2>2. DOMAIN places = 1..2 /\ places[1] = "JAVA_HOME" /\ places[2] = "~/.sdkman"
    BY <2>1
  <2>3. PlaceOf(tool, installed) = javaEnv(installed)
    BY <1>4, Zenon DEF PlaceOf
  <2>4. PlaceOf(tool, installed) = FirstOf(tool, places, installed)
    BY <1>4, <2>1, <2>3 DEF javaEnv
  <2>5. \A dir \in TriedFor(tool): \E i \in 1..2: dir = places[i]
    BY <1>4, <2>2 DEF TriedFor
  <2>6. 2 \in Nat /\ 4 \in Nat
    OBVIOUS
  <2> QED BY <1>1, <2>2, <2>4, <2>5, <2>6
<1>5. CASE tool = "cargo"
  <2>1. PICK places: places = <<"CARGO_BIN", "~/.cargo">>
    OBVIOUS
  <2>2. DOMAIN places = 1..2 /\ places[1] = "CARGO_BIN" /\ places[2] = "~/.cargo"
    BY <2>1
  <2>3. PlaceOf(tool, installed) = cargoBinary(installed)
    BY <1>5, Zenon DEF PlaceOf
  <2>4. PlaceOf(tool, installed) = FirstOf(tool, places, installed)
    BY <1>5, <2>1, <2>3 DEF cargoBinary
  <2>5. \A dir \in TriedFor(tool): \E i \in 1..2: dir = places[i]
    BY <1>5, <2>2 DEF TriedFor
  <2>6. 2 \in Nat /\ 4 \in Nat
    OBVIOUS
  <2> QED BY <1>1, <2>2, <2>4, <2>5, <2>6
<1>6. CASE tool = "dotnet"
  <2>1. PICK places: places = <<"DOTNET_BIN", "DOTNET_ROOT", "/usr/local/share", "~/.dotnet">>
    OBVIOUS
  <2>2. /\ DOMAIN places = 1..4 /\ places[1] = "DOTNET_BIN" /\ places[2] = "DOTNET_ROOT"
        /\ places[3] = "/usr/local/share" /\ places[4] = "~/.dotnet"
    BY <2>1
  <2>3. PlaceOf(tool, installed) = dotnetBinary(installed)
    BY <1>6, Zenon DEF PlaceOf
  <2>4. PlaceOf(tool, installed) = FirstOf(tool, places, installed)
    BY <1>6, <2>1, <2>3 DEF dotnetBinary
  <2>5. \A dir \in TriedFor(tool): \E i \in 1..4: dir = places[i]
    BY <1>6, <2>2 DEF TriedFor
  <2>6. 2 \in Nat /\ 4 \in Nat
    OBVIOUS
  <2> QED BY <1>1, <2>2, <2>4, <2>5, <2>6
<1>7. CASE tool \notin {"go", "ruby", "java", "cargo", "dotnet"}
  <2>1. PlaceOf(tool, installed) = "PATH"
    BY <1>7, Zenon DEF PlaceOf
  <2> QED BY <1>7, <2>1 DEF TriedFor
<1> QED BY <1>2, <1>3, <1>4, <1>5, <1>6, <1>7

LEMMA NotStartable ==
  ASSUME NEW app, ~Startable(app, machine.tools)
  PROVE  \E tool \in app.tools: Nowhere(tool)
<1>1. PICK tool \in app.tools: <<tool, PlaceOf(tool, machine.tools)>> \notin machine.tools
  BY DEF Startable
<1>2. /\ <<tool, "PATH">> \notin machine.tools
      /\ \A dir \in TriedFor(tool): <<tool, dir>> \notin machine.tools
  BY <1>1, PlaceIsThere
<1>3. \A place \in TriedFirst: place[1] = tool => place \notin machine.tools
  BY <1>2, TriedAre
<1>4. Nowhere(tool)
  BY <1>2, <1>3 DEF Nowhere
<1> QED BY <1>1, <1>4

(* Only nextjs reads a .env of its own that may move it. *)
LEMMA OnlyNextMoves ==
  ASSUME NEW a \in AppNames, NEW inDotEnv, BasePathOf(APPS[a], inDotEnv) # APPS[a].basePath
  PROVE  a = "nextjs" /\ inDotEnv
<1>1. ~APPS[a].pinned /\ APPS[a].runsIn = "own" /\ APPS[a].readsDotEnv /\ inDotEnv
  BY DEF BasePathOf
<1>2. CASE a = "go-js"
  <2>1. APPS[a] = GoJs
    BY <1>2, Zenon DEF APPS
  <2> QED BY <1>1, <2>1 DEF GoJs, App
<1>3. CASE a = "go-react"
  <2>1. APPS[a] = GoReact
    BY <1>3, Zenon DEF APPS
  <2> QED BY <1>1, <2>1 DEF GoReact, App
<1>4. CASE a = "nodejs-express-js"
  <2>1. APPS[a] = ExpressJs
    BY <1>4, Zenon DEF APPS
  <2> QED BY <1>1, <2>1 DEF ExpressJs, App
<1>5. CASE a = "nodejs-express-ts-js"
  <2>1. APPS[a] = ExpressTs
    BY <1>5, Zenon DEF APPS
  <2> QED BY <1>1, <2>1 DEF ExpressTs, App
<1>6. CASE a = "php-js"
  <2>1. APPS[a] = PhpJs
    BY <1>6, Zenon DEF APPS
  <2> QED BY <1>1, <2>1 DEF PhpJs, App, Pinned
<1>7. CASE a = "python-flask-js"
  <2>1. APPS[a] = PythonJs
    BY <1>7, Zenon DEF APPS
  <2> QED BY <1>1, <2>1 DEF PythonJs, App, Pinned
<1>8. CASE a = "ruby-sinatra-js"
  <2>1. APPS[a] = RubyJs
    BY <1>8, Zenon DEF APPS
  <2> QED BY <1>1, <2>1 DEF RubyJs, App, Pinned
<1>9. CASE a = "java-springboot-js"
  <2>1. APPS[a] = JavaJs
    BY <1>9, Zenon DEF APPS
  <2> QED BY <1>1, <2>1 DEF JavaJs, App, Pinned
<1>10. CASE a = "kotlin-ktor-js"
  <2>1. APPS[a] = KotlinJs
    BY <1>10, Zenon DEF APPS
  <2> QED BY <1>1, <2>1 DEF KotlinJs, App, Pinned
<1>11. CASE a = "rust-axum-js"
  <2>1. APPS[a] = RustJs
    BY <1>11, Zenon DEF APPS
  <2> QED BY <1>1, <2>1 DEF RustJs, App
<1>12. CASE a = "dotnet-aspnetcore-js"
  <2>1. APPS[a] = DotnetJs
    BY <1>12, Zenon DEF APPS
  <2> QED BY <1>1, <2>1 DEF DotnetJs, App
<1> QED BY <1>1, <1>2, <1>3, <1>4, <1>5, <1>6, <1>7, <1>8, <1>9, <1>10, <1>11, <1>12 DEF AppNames

(* What the emulator says to a browser, and to the suite itself. *)
Own == {"scenario", "sdk.js", "field.html", "field.js", "field.css", "preflight", "tokenize", "acs"}

LEMMA ScriptSteps == \A i \in 1..11: Script[i] \in Own \cup Signed
BY DEF Script, Own, Signed

(* What of an answer a step looks at. *)
LEMMA ReadableIsUsable ==
  ASSUME NEW reply, NEW step \in {"preflight", "tokenize"},
         reply.status \in {200, 204}, reply.by = step
  PROVE  Usable(reply, step, reply.readableFrom)
<1>1. step # "sdk.js" /\ step # "acs" /\ step \notin Signed
  BY DEF Signed
<1>2. PICK from: from = reply.readableFrom
  OBVIOUS
<1>3. Usable(reply, step, from)
  BY <1>1, <1>2, Zenon DEF Usable
<1> QED BY <1>2, <1>3

LEMMA BodyIsUsable ==
  ASSUME NEW reply, NEW step, NEW from,
         \/ step = "sdk.js" /\ reply.by = "hosted-fields.js"
         \/ step = "acs" /\ reply.by = "challenge page"
  PROVE  Usable(reply, step, from)
<1>1. step \notin {"preflight", "tokenize"} /\ step \notin Signed /\ (step = "acs" => step # "sdk.js")
  BY DEF Signed
<1> QED BY <1>1, Zenon DEF Usable

LEMMA NameIsUsable ==
  ASSUME NEW reply, NEW step \in {"scenario", "field.html", "field.js", "field.css"}, NEW from,
         reply.status = 200, reply.by = step
  PROVE  Usable(reply, step, from)
<1>1. step \notin {"preflight", "tokenize"} /\ step # "sdk.js" /\ step # "acs" /\ step \notin Signed
  BY DEF Signed
<1> QED BY <1>1, Zenon DEF Usable

LEMMA StaticFile ==
  ASSUME NEW r, NEW pem, r.method = "GET", r.path \in DOMAIN STATIC_FILES
  PROVE  route(r, pem) = Reply(200, STATIC_FILES[r.path])
BY DEF route

LEMMA OwnCallIsAnswered ==
  ASSUME NEW step \in Own, NEW from, NEW pem
  PROVE  Usable(route(OwnCall(step, from), pem), step, from)
<1>1. CASE step = "scenario"
  <2>1. PICK r: r = Request("POST", <<"__control", "scenario">>, <<"spec">>)
    OBVIOUS
  <2>2. r.method = "POST" /\ r.path = <<"__control", "scenario">>
    BY <2>1 DEF Request
  <2>3. route(r, pem) = Reply(200, "scenario")
    BY <2>2 DEF route, Tokenizer
  <2>4. OwnCall(step, from) = r
    BY <1>1, <2>1, Zenon DEF OwnCall
  <2>5. PICK reply: reply = route(r, pem)
    OBVIOUS
  <2>6. reply.status = 200 /\ reply.by = "scenario"
    BY <2>3, <2>5 DEF Reply
  <2>7. Usable(reply, step, from)
    BY <1>1, <2>6, NameIsUsable
  <2> QED BY <1>1, <2>4, <2>5, <2>7
<1>2. CASE step = "sdk.js"
  <2>1. PICK r: r = Request("GET", <<"sdk.js">>, from)
    OBVIOUS
  <2>2. r.method = "GET" /\ r.path = <<"sdk.js">>
    BY <2>1 DEF Request
  <2>3. r.path \in DOMAIN STATIC_FILES /\ STATIC_FILES[r.path] = "hosted-fields.js"
    BY <2>2 DEF STATIC_FILES
  <2>4. OwnCall(step, from) = r
    BY <1>2, <2>1, Zenon DEF OwnCall
  <2>5. PICK reply: reply = route(r, pem)
    OBVIOUS
  <2>6. reply.by = "hosted-fields.js"
    BY <2>2, <2>3, StaticFile, <2>5 DEF Reply
  <2>7. Usable(reply, step, from)
    BY <1>2, <2>6, BodyIsUsable
  <2> QED BY <1>2, <2>4, <2>5, <2>7
<1>3. CASE step = "field.html"
  <2>1. PICK r: r = Request("GET", <<"hf", "cardNumber">>, from)
    OBVIOUS
  <2>2. r.method = "GET" /\ r.path = <<"hf", "cardNumber">> /\ Head(r.path) = "hf"
    BY <2>1 DEF Request
  <2>3. r.path \notin DOMAIN STATIC_FILES
    BY <2>2 DEF STATIC_FILES
  <2>4. OwnCall(step, from) = r
    BY <1>3, <2>1, Zenon DEF OwnCall
  <2>5. route(r, pem) = Reply(200, "field.html")
    BY <2>2, <2>3 DEF route
  <2>6. PICK reply: reply = route(r, pem)
    OBVIOUS
  <2>7. reply.status = 200 /\ reply.by = "field.html"
    BY <2>5, <2>6 DEF Reply
  <2>8. Usable(reply, step, from)
    BY <1>3, <2>7, NameIsUsable
  <2> QED BY <1>3, <2>4, <2>6, <2>8
<1>4. CASE step \in {"field.js", "field.css"}
  <2>1. PICK r: r = Request("GET", <<"hf", step>>, from)
    OBVIOUS
  <2>2. r.method = "GET" /\ r.path = <<"hf", step>>
    BY <2>1 DEF Request
  <2>3. Last(r.path) = step /\ r.path # <<"sdk.js">>
    BY <2>2 DEF Last
  <2>4. r.path \in DOMAIN STATIC_FILES /\ STATIC_FILES[r.path] = step
    BY <1>4, <2>2, <2>3 DEF STATIC_FILES
  <2>5. OwnCall(step, from) = r
    BY <1>4, <2>1, Zenon DEF OwnCall
  <2>6. PICK reply: reply = route(r, pem)
    OBVIOUS
  <2>7. reply.status = 200 /\ reply.by = step
    BY <2>2, <2>4, StaticFile, <2>6 DEF Reply
  <2>8. step \in {"scenario", "field.html", "field.js", "field.css"}
    BY <1>4
  <2>9. Usable(reply, step, from)
    BY <2>7, <2>8, NameIsUsable
  <2> QED BY <2>5, <2>6, <2>9
<1>5. CASE step = "preflight"
  <2>1. PICK r: r = Request("OPTIONS", Tokenizer, from)
    OBVIOUS
  <2>2. r.method = "OPTIONS" /\ r.path = Tokenizer /\ r.from = from
    BY <2>1 DEF Request
  <2>3. OwnCall(step, from) = r
    BY <1>5, <2>1, Zenon DEF OwnCall
  <2>4. route(r, pem) = allowCrossOrigin(Reply(204, "preflight"), r.from)
    BY <2>2 DEF route
  <2>5. PICK reply: reply = route(r, pem)
    OBVIOUS
  <2>6. reply.status = 204 /\ reply.by = "preflight" /\ reply.readableFrom = from
    BY <2>2, <2>4, <2>5 DEF allowCrossOrigin, Reply
  <2>7. step \in {"preflight", "tokenize"} /\ reply.status \in {200, 204} /\ reply.by = step
    BY <1>5, <2>6
  <2>8. reply.readableFrom = from
    BY <2>6
  <2>9. Usable(reply, step, from)
    BY <2>7, <2>8, ReadableIsUsable
  <2> QED BY <2>3, <2>5, <2>9
<1>6. CASE step = "tokenize"
  <2>1. PICK r: r = Request("POST", Tokenizer, from)
    OBVIOUS
  <2>2. r.method = "POST" /\ r.path = Tokenizer /\ r.from = from
    BY <2>1 DEF Request
  <2>3. OwnCall(step, from) = r
    BY <1>6, <2>1, Zenon DEF OwnCall
  <2>4. route(r, pem) = allowCrossOrigin(Reply(200, "tokenize"), r.from)
    BY <2>2 DEF route
  <2>5. PICK reply: reply = route(r, pem)
    OBVIOUS
  <2>6. reply.status = 200 /\ reply.by = "tokenize" /\ reply.readableFrom = from
    BY <2>2, <2>4, <2>5 DEF allowCrossOrigin, Reply
  <2>7. step \in {"preflight", "tokenize"} /\ reply.status \in {200, 204} /\ reply.by = step
    BY <1>6, <2>6
  <2>8. reply.readableFrom = from
    BY <2>6
  <2>9. Usable(reply, step, from)
    BY <2>7, <2>8, ReadableIsUsable
  <2> QED BY <2>3, <2>5, <2>9
<1>7. CASE step = "acs"
  <2>1. PICK r: r = Request("GET", <<"acs">>, from)
    OBVIOUS
  <2>2. r.method = "GET" /\ r.path = <<"acs">> /\ Head(r.path) = "acs"
    BY <2>1 DEF Request
  <2>3. r.path \notin DOMAIN STATIC_FILES
    BY <2>2 DEF STATIC_FILES
  <2>4. OwnCall(step, from) = r
    BY <1>7, <2>1, Zenon DEF OwnCall
  <2>5. route(r, pem) = Reply(200, "challenge page")
    BY <2>2, <2>3 DEF route
  <2>6. PICK reply: reply = route(r, pem)
    OBVIOUS
  <2>7. reply.by = "challenge page"
    <3>1. PICK by: by = "challenge page"
      OBVIOUS
    <3>2. reply = Reply(200, by)
      BY <2>5, <2>6, <3>1, Zenon
    <3>3. reply.by = by
      BY <3>2 DEF Reply
    <3> QED BY <3>1, <3>3
  <2>8. Usable(reply, step, from)
    BY <1>7, <2>7, BodyIsUsable
  <2> QED BY <1>7, <2>4, <2>6, <2>8
<1> QED BY <1>1, <1>2, <1>3, <1>4, <1>5, <1>6, <1>7 DEF Own

LEMMA SignedCallIsUsable ==
  ASSUME NEW step \in Signed, NEW reply, NEW from, reply = Reply(200, Last(CommandOf(step)))
  PROVE  Usable(reply, step, from)
<1>1. PICK status: status = 200
  OBVIOUS
<1>2. reply = Reply(status, Last(CommandOf(step)))
  BY <1>1
<1>3. reply.status = status /\ reply.by = Last(CommandOf(step))
  BY <1>2, ReplyIs
<1>4. step \notin {"preflight", "tokenize"} /\ step # "sdk.js" /\ step # "acs" /\ step \in Signed
  BY DEF Signed
<1> QED BY <1>1, <1>3, <1>4, Zenon DEF Usable

-----------------------------------------------------------------------------
(* Why a run is red. *)

Reason ==
  \/ upset \cap {"raced", "removed"} # {}
  \/ (machine.CI \/ run.target = "docker") /\ (kills > 0 \/ "by hand" \in upset)
  \/ run.target = "native" /\ \E a \in run.started: \E tool \in APPS[a].tools: Nowhere(tool)
  \/ run.target = "native" /\ machine.dotEnv /\ "nextjs" \in run.started
  \/ ~(Asked(run) \subseteq run.started)

RedInv ==
  /\ run.stage = "config" => run.failing = {}
  /\ run.stage = "failed" \/ run.failing # {} => Reason

(* A reason stays one for as long as it is the same run. *)
LEMMA ReasonStays ==
  ASSUME Reason, upset \subseteq upset', UNCHANGED machine,
         kills \in Nat, kills' = kills \/ kills' = kills + 1,
         run'.target = run.target, run'.started = run.started, run'.argv = run.argv
  PROVE  Reason'
<1>1. kills > 0 => kills' > 0
  OBVIOUS
<1>2. Asked(run') = Asked(run)
  BY DEF Asked
<1>3. ASSUME NEW tool, Nowhere(tool) PROVE Nowhere(tool)'
  BY <1>3 DEF Nowhere
<1> QED BY <1>1, <1>2, <1>3 DEF Reason

LEMMA NotInnocent == ~Innocent => Reason
BY DEF Innocent, Reason

(* A server that is up is found where it is looked for. *)
LEMMA UpIsServing ==
  ASSUME ServersAnswer, NEW a \in Known, NEW target \in Targets, server[<<target, a>>].up
  PROVE  Serving(a, target)
<1>1. <<target, a>> \in Everywhere /\ <<target, a>>[2] = a
  BY DEF Everywhere
<1>2. server[<<target, a>>].path = APPS[a].basePath
  BY <1>1 DEF ServersAnswer
<1>3. appUrl(a, target)[2] = APPS[a].basePath
  BY DEF appUrl
<1> QED BY <1>2, <1>3 DEF Serving

LEMMA NoneIsNoApp == Known \subseteq AppNames /\ "none" \notin Known
BY E2EAssumption DEF APPS, AppNames

LEMMA ConfiguredRed ==
  ASSUME World, RedInv, Configured
  PROVE  RedInv'
<1>1. /\ run.stage = "config" /\ run.started = {} /\ run.failing = {} /\ UNCHANGED devVars
  BY DEF Configured, World, UpInv, RedInv
<1>2. CASE ProjectsNamed(run.argv) \subseteq projects(run.argv, run.target, Known)
  <2>1. run' = [run EXCEPT !.stage = "emulator", !.started = startedApps(run.argv, run.target, Known)]
    BY <1>2 DEF Configured
  <2>2. run'.stage = "emulator" /\ run'.failing = run.failing
    BY <2>1 DEF World, RunRecords
  <2> QED BY <1>1, <2>2 DEF RedInv
<1>3. CASE ~(ProjectsNamed(run.argv) \subseteq projects(run.argv, run.target, Known))
  <2>1. run' = [run EXCEPT !.stage = "failed"]
    BY <1>3 DEF Configured
  <2>2. /\ run'.stage = "failed" /\ run'.target = run.target /\ run'.started = run.started
        /\ run'.argv = run.argv
    BY <2>1, StageOnly DEF World
  <2>3. ProjectsNamed(run.argv) # {}
    BY <1>3
  <2>4. Asked(run) = ProjectsNamed(run.argv)
    BY <2>3 DEF Asked
  <2>5. Reason
    BY <1>1, <2>3, <2>4 DEF Reason
  <2>6. Reason'
    BY <1>1, <2>2, <2>5, ReasonStays DEF World, EmulatorTypes, devVars
  <2> QED BY <2>2, <2>6 DEF RedInv
<1> QED BY <1>2, <1>3

(* A run that ends for a reason, or goes on as it was. *)
LEMMA EndsRed ==
  ASSUME World, RedInv, NEW s \in {"servers", "probe", "tests", "passed", "failed", "killed"},
         run' = [run EXCEPT !.stage = s], upset \subseteq upset', UNCHANGED machine,
         kills' = kills \/ kills' = kills + 1, s = "failed" => Reason
  PROVE  RedInv'
<1>1. /\ run'.stage = s /\ run'.target = run.target /\ run'.started = run.started
      /\ run'.argv = run.argv /\ run'.failing = run.failing
  BY StageOnly DEF World
<1>2. Reason => Reason'
  BY <1>1, ReasonStays DEF World, EmulatorTypes
<1> QED BY <1>1, <1>2 DEF RedInv

LEMMA GoesOnRed ==
  ASSUME World, RedInv, upset \subseteq upset', UNCHANGED machine, kills' = kills,
         run'.stage = run.stage, run'.target = run.target, run'.started = run.started,
         run'.argv = run.argv,
         run'.failing = run.failing \/ (Reason /\ run.stage # "config")
  PROVE  RedInv'
BY ReasonStays DEF RedInv, World, EmulatorTypes

LEMMA StartEmulatorRed ==
  ASSUME World, RedInv, StartEmulator
  PROVE  RedInv'
<1>1. run.stage = "emulator" /\ run.target = "native" /\ UNCHANGED <<kills, upset, machine>>
  BY DEF StartEmulator, devVars
<1>2. CASE UNCHANGED run
  BY <1>1, <1>2, GoesOnRed
<1>3. CASE run' = [run EXCEPT !.stage = "servers"]
  BY <1>1, <1>3, EndsRed
<1>4. CASE /\ emulator.at = "up" /\ ~(emulator.of = run.number \/ reuseExistingServer) /\ EndRun("failed")
  <2>1. machine.CI /\ (kills > 0 \/ "by hand" \in upset)
    BY <1>4 DEF World, EmulatorLeft, reuseExistingServer
  <2>2. Reason
    BY <2>1 DEF Reason
  <2> QED BY <1>1, <1>4, <2>2, EndsRed DEF EndRun
<1> QED BY <1>2, <1>3, <1>4 DEF StartEmulator

LEMMA ComposeRed ==
  ASSUME World, RedInv, PairStays, composeUp
  PROVE  RedInv'
<1>1. run.stage = "emulator" /\ run.target = "docker" /\ UNCHANGED <<kills, upset, machine>>
  BY DEF composeUp, devVars
<1>2. CASE run' = [run EXCEPT !.stage = "probe"]
  BY <1>1, <1>2, EndsRed
<1>3. CASE (emulator.at = "up" \/ NoKey \in {privateKey, publicKey}) /\ EndRun("failed")
  <2>1. CASE emulator.at = "up"
    <3>1. Reason
      BY <1>1, <2>1 DEF World, EmulatorLeft, Reason, Late
    <3> QED BY <1>1, <1>3, <3>1, EndsRed DEF EndRun
  <2>2. CASE NoKey \in {privateKey, publicKey}
    <3>1. ~Innocent
      BY <1>1, <2>2 DEF PairStays, BothThere, UnderWay
    <3> QED BY <1>1, <1>3, <3>1, NotInnocent, EndsRed DEF EndRun
  <2> QED BY <1>3, <2>1, <2>2
<1> QED BY <1>2, <1>3 DEF composeUp

LEMMA StartServerRed ==
  ASSUME World, RedInv, PairStays, ServersAnswer, NEW a \in Known, StartServer(a)
  PROVE  RedInv'
<1>1. /\ run.stage = "servers" /\ run.target = "native" /\ UNCHANGED <<kills, upset, machine>>
      /\ a = FirstOfApps(run.started \ run.ready)
  BY DEF StartServer, devVars, World, UpInv
<1>2. a \in run.started /\ a \notin run.ready
  <2>1. run.started \ run.ready \in SUBSET Known
    BY DEF World, RunRecords
  <2>2. run.started \ run.ready # {}
    BY <1>1, NoneIsNoApp DEF FirstOfApps
  <2> QED BY <1>1, <2>1, <2>2, FirstIsOne
<1>3. CASE run' = [run EXCEPT !.ready = @ \cup {a}]
  <2>1. /\ run'.stage = run.stage /\ run'.target = run.target /\ run'.started = run.started
        /\ run'.argv = run.argv /\ run'.failing = run.failing
    BY <1>3 DEF World, RunRecords
  <2> QED BY <1>1, <2>1, GoesOnRed
<1>4. CASE /\ ~(Serving(a, "native") /\ reuseExistingServer) /\ CannotServe(a) /\ EndRun("failed")
  <2>1. CASE server[<<"native", a>>].up
    <3>1. machine.CI
      BY <1>4, <2>1, UpIsServing DEF reuseExistingServer, Targets
    <3>2. kills > 0
      BY <1>2, <2>1 DEF World, ServersLeft
    <3> QED BY <1>1, <1>4, <3>1, <3>2, EndsRed DEF EndRun, Reason
  <2>2. CASE ~Startable(APPS[a], machine.tools)
    <3>1. \E tool \in APPS[a].tools: Nowhere(tool)
      BY <2>2, NotStartable
    <3>2. Reason
      BY <1>1, <1>2, <3>1 DEF Reason
    <3> QED BY <1>1, <1>4, <3>2, EndsRed DEF EndRun
  <2>3. CASE privateKey = NoKey
    <3>1. ~Innocent
      BY <1>1, <2>3 DEF PairStays, BothThere, UnderWay
    <3> QED BY <1>1, <1>4, <3>1, NotInnocent, EndsRed DEF EndRun
  <2>4. CASE Launched(a, "native").path # APPS[a].basePath
    <3>1. PICK moved: moved = ("native" = "native" /\ machine.dotEnv)
      OBVIOUS
    <3>2. BasePathOf(APPS[a], moved) # APPS[a].basePath
      BY <2>4, <3>1 DEF Launched
    <3>3. a = "nextjs" /\ moved
      BY <3>2, OnlyNextMoves, NoneIsNoApp
    <3>4. Reason
      BY <1>1, <1>2, <3>1, <3>3 DEF Reason
    <3> QED BY <1>1, <1>4, <3>4, EndsRed DEF EndRun
  <2> QED BY <1>4, <2>1, <2>2, <2>3, <2>4 DEF CannotServe
<1> QED BY <1>3, <1>4 DEF StartServer

LEMMA StageRed ==
  ASSUME World, RedInv, ServersAnswer, AllStarted \/ globalSetup \/ Finish \/ Kill
  PROVE  RedInv'
<1>1. UNCHANGED <<upset, machine>> /\ (kills' = kills \/ kills' = kills + 1)
  BY DEF AllStarted, globalSetup, Finish, Kill, devVars
<1>2. CASE AllStarted
  BY <1>1, <1>2, EndsRed DEF AllStarted
<1>3. CASE Kill
  BY <1>1, <1>3, EndsRed DEF Kill
<1>4. CASE globalSetup
  <2>1. run.stage = "probe"
    BY <1>4 DEF globalSetup
  <2>2. run.target \in Targets /\ run.started \subseteq Known
    BY DEF World, RunRecords
  <2>3. emulator.at = "up" /\ \A a \in run.started: server[<<run.target, a>>].up
    BY <2>1 DEF World, UpInv, Late
  <2>4. \A a \in run.started: Serving(a, run.target)
    BY <2>2, <2>3, UpIsServing
  <2>5. run' = [run EXCEPT !.stage = "tests"]
    BY <1>4, <2>3, <2>4 DEF globalSetup
  <2> QED BY <1>1, <2>5, EndsRed
<1>5. CASE Finish
  <2>1. run' = [run EXCEPT !.stage = IF run.failing = {} THEN "passed" ELSE "failed"]
    BY <1>5 DEF Finish, EndRun
  <2>2. CASE run.failing = {}
    BY <1>1, <2>1, <2>2, EndsRed
  <2>3. CASE run.failing # {}
    <3>1. Reason
      BY <2>3 DEF RedInv
    <3> QED BY <1>1, <2>1, <2>3, <3>1, EndsRed
  <2> QED BY <2>2, <2>3
<1> QED BY <1>2, <1>3, <1>4, <1>5

LEMMA AskRed ==
  ASSUME KeysInv, World, RedInv, Ask
  PROVE  RedInv'
<1>1. run.stage = "tests" /\ run.app # "none" /\ UNCHANGED <<kills, upset, machine>>
  BY DEF Ask, devVars
<1>2. CASE UNCHANGED run
  BY <1>1, <1>2, GoesOnRed
<1>3. CASE ~(Serving(run.app, run.target) /\ KeyOf(run.app) # NoKey) /\ TestOver(run, TRUE)
  <2>1. run \in RunRecords /\ run.app \in Known /\ run.target \in Targets /\ run.app \in Wanted(run)
    BY <1>1 DEF World, RunRecords, KeysInv, GreenInv, Accounts
  <2>2. Wanted(run) = Asked(run)
    BY <2>1, WantedIsAsked DEF RunRecords
  <2>3. CASE run.app \notin run.started
    BY <1>1, <1>3, <2>1, <2>2, <2>3, TestStays, GoesOnRed DEF Reason
  <2>4. CASE run.app \in run.started
    <3>1. server[<<run.target, run.app>>].up
      BY <1>1, <2>4 DEF World, UpInv
    <3>2. Serving(run.app, run.target)
      BY <2>1, <3>1, UpIsServing DEF KeysInv
    <3>3. Innocent => BothThere /\ KeyOf(run.app) = privateKey
      BY <1>1, <3>2, KeyOfIs DEF KeysInv
    <3>4. Reason
      BY <1>3, <3>2, <3>3, NotInnocent DEF BothThere
    <3> QED BY <1>1, <1>3, <2>1, <3>4, TestStays, GoesOnRed
  <2> QED BY <2>3, <2>4
<1> QED BY <1>2, <1>3 DEF Ask

(* As long as nothing befell the keys, every answer is one a test can use. *)
LEMMA AnswersAreUsable ==
  ASSUME KeysInv, World, Innocent, wire.sent
  PROVE  Usable(ReplyToWire, Script[run.step], appOrigin(run.app, run.target))
<1>1. PICK step: step = Script[run.step]
  OBVIOUS
<1>2. PICK from: from = appOrigin(run.app, run.target)
  OBVIOUS
<1>3. run.stage = "tests" /\ run.app # "none" /\ emulator.at = "up"
  BY DEF KeysInv, GreenInv, World, UpInv, Late
<1>4. run.step \in 1..11
  BY <1>3, ScriptIs DEF KeysInv, GreenInv, Accounts
<1>5. CASE wire.signed
  <2>1. /\ run.app \in Known /\ step \in Signed /\ wire.params \in AllParams
        /\ wire.key \in ToSet(KeyNames) /\ VerifierKey \in KeyFiles
    BY <1>1, <1>5, WireIsSigned
  <2>2. BothThere /\ wire.key = privateKey
    BY <1>5 DEF KeysInv, WireInv
  <2>3. privateKey = publicKey
    BY <2>2 DEF KeysInv, PairInv, BothThere, Innocent
  <2>4. ~emulator.lost
    BY DEF World, EmulatorLeft, Innocent
  <2>5. VerifierKey = wire.key
    BY <2>2, <2>3, <2>4 DEF VerifierKey
  <2>6. ReplyToWire = Verdicts[<<run.app, step, wire.params, wire.key>>][VerifierKey]
    BY <1>1, <1>3, <1>5 DEF ReplyToWire
  <2>7. ReplyToWire = route(SignedCall(run.app, step, wire.params, wire.key), VerifierKey)
    BY <2>1, <2>6, VerdictIs
  <2>8. ReplyToWire = Reply(200, Last(CommandOf(step)))
    BY <2>1, <2>5, <2>7, CallIsAnswered
  <2> QED BY <1>1, <1>2, <2>1, <2>8, SignedCallIsUsable
<1>6. CASE ~wire.signed
  <2>1. step \in Own
    BY <1>1, <1>4, <1>6, ScriptSteps DEF KeysInv, WireInv
  <2>2. ReplyToWire = route(OwnCall(step, from), VerifierKey)
    BY <1>1, <1>2, <1>3, <1>6 DEF ReplyToWire
  <2> QED BY <1>1, <1>2, <2>1, <2>2, OwnCallIsAnswered
<1> QED BY <1>5, <1>6

LEMMA AnswerRed ==
  ASSUME KeysInv, World, RedInv, Answer
  PROVE  RedInv'
<1>1. UNCHANGED <<kills, upset, machine>> /\ wire.sent
  BY DEF Answer, devVars
<1>2. /\ RunStays /\ run'.argv = run.argv
      /\ \/ run'.failing = run.failing
         \/ ~Usable(ReplyToWire, Script[run.step], appOrigin(run.app, run.target))
  BY AnswerStays DEF World
<1>3. run.stage = "tests"
  BY <1>1 DEF KeysInv, GreenInv
<1>4. run'.failing = run.failing \/ Reason
  BY <1>1, <1>2, AnswersAreUsable, NotInnocent
<1> QED BY <1>1, <1>2, <1>3, <1>4, GoesOnRed DEF RunStays

LEMMA OthersRed ==
  ASSUME World, RedInv,
         \/ \E m \in Makers: Check(m) \/ WritePrivate(m) \/ WritePublic(m)
         \/ \E a \in Known: PickTest(a)
         \/ EmulatorListens \/ EmulatorByHand \/ RemoveTmp \/ StopLeftovers
         \/ \E argv \in CommandLines, target \in Targets: StartRun(argv, target)
         \/ UNCHANGED vars
  PROVE  RedInv'
<1>1. ASSUME UNCHANGED <<run, machine, kills>>, upset \subseteq upset' PROVE RedInv'
  BY <1>1, GoesOnRed
<1>2. ASSUME NEW m \in Makers, Check(m) \/ WritePrivate(m) \/ WritePublic(m) PROVE RedInv'
  BY <1>1, <1>2 DEF Check, WritePrivate, WritePublic, devVars
<1>3. CASE EmulatorListens \/ EmulatorByHand \/ RemoveTmp \/ StopLeftovers \/ UNCHANGED vars
  BY <1>1, <1>3 DEF EmulatorListens, EmulatorByHand, RemoveTmp, StopLeftovers, vars, devVars
<1>4. ASSUME NEW a \in Known, PickTest(a) PROVE RedInv'
  <2>1. UNCHANGED <<machine, kills, upset>> /\ run' = [run EXCEPT !.app = a, !.step = 1]
    BY <1>4 DEF PickTest, devVars
  <2>2. /\ run'.stage = run.stage /\ run'.target = run.target /\ run'.started = run.started
        /\ run'.argv = run.argv /\ run'.failing = run.failing
    BY <2>1 DEF World, RunRecords
  <2> QED BY <2>1, <2>2, GoesOnRed
<1>5. ASSUME NEW argv \in CommandLines, NEW target \in Targets, StartRun(argv, target) PROVE RedInv'
  <2>1. run'.stage = "config" /\ run'.failing = {}
    BY <1>5 DEF StartRun
  <2> QED BY <2>1 DEF RedInv
<1> QED BY <1>2, <1>3, <1>4, <1>5

LEMMA RedStep ==
  ASSUME KeysInv, World, RedInv, [Next]_vars
  PROVE  RedInv'
<1>1. PairStays /\ ServersAnswer
  BY DEF KeysInv
<1> QED
  BY <1>1, ConfiguredRed, StartEmulatorRed, ComposeRed, StartServerRed, StageRed, AskRed, AnswerRed, OthersRed
     DEF Next, Programs, Developer

LEMMA WorldAtFirst == E2EInit => World /\ RedInv
<1> SUFFICES ASSUME E2EInit PROVE World /\ RedInv
  OBVIOUS
<1>1. run \in RunRecords /\ ServerTypes
  BY KeysAtFirst DEF KeysInv, GreenInv
<1>2. /\ emulator = Down /\ kills = 0 /\ run.stage = "idle" /\ run.failing = {}
      /\ server = [p \in Targets \X Known |-> NotUp]
  BY DEF E2EInit
<1>3. EmulatorTypes /\ EmulatorLeft
  BY <1>2, DownIs DEF EmulatorTypes, EmulatorLeft
<1>4. ServersLeft
  <2>1. \A a \in Known: <<"native", a>> \in Targets \X Known
    BY DEF Targets
  <2> QED BY <1>2, <2>1, DownIs DEF ServersLeft
<1> QED BY <1>1, <1>2, <1>3, <1>4 DEF World, UpInv, Late, RedInv

(* A red run has a cause outside the code under test: it is never an       *)
(* application, a port or the emulator that fails it.                      *)
THEOREM RedRunsHaveAReason == E2ESpec => []RedForAReason
<1>1. E2EInit => KeysInv /\ World /\ RedInv
  BY KeysAtFirst, WorldAtFirst
<1>2. KeysInv /\ World /\ RedInv /\ [Next]_vars => KeysInv' /\ World' /\ RedInv'
  BY KeysStep, WorldStep, RedStep DEF KeysInv
<1>3. RedInv => RedForAReason
  BY DEF RedInv, Reason, RedForAReason
<1> QED BY <1>1, <1>2, <1>3, PTL DEF E2ESpec
================================================================================
