------------------------------- MODULE ReactPage -------------------------------
(***************************************************************************)
(* One document of a React port that follows an order: useOrderStatus()    *)
(* under the effects of React, whose development build runs the effects of *)
(* a component that mounts twice (with a cleanup in between), against a    *)
(* gateway that may answer anything and a network that may lose any reply. *)
(* The payment page gets its order from a Sale, the 3DS return page has it *)
(* when it mounts.                                                         *)
(***************************************************************************)
EXTENDS PageTypes

CONSTANTS
  Ports,             \* "nextjs" and "go-react"
  BasePaths,         \* BASE_PATH of the server; only nextjs takes an empty one
  GatewayStatuses    \* words the gateway uses for a status

NP == INSTANCE NextPage
GP == INSTANCE GoReactPage

ASSUME ReactAssumption ==
  /\ Ports \subseteq {"nextjs", "go-react"}
  /\ GatewayStatuses \subseteq NP!STATUS_COPY

VARIABLES
  port, strict,    \* which page this is; effects run twice on mount
  document,        \* "form" or "result"
  basePath,        \* what the document was told
  order,           \* the order prop of the hook, <<>> before
  watch            \* the hook: status, redirected ref, and the runs of its effect

vars == <<port, strict, document, basePath, order, watch>>

ToIssuerReply(status) ==
  [key \in {"status", "redirect-to"} |-> IF key = "status" THEN status ELSE "https://issuer"]
StatusReplies ==
  {<<>>, [error |-> "no answer"]}
    \cup {[status |-> s]: s \in GatewayStatuses}
    \cup {ToIssuerReply(s): s \in GatewayStatuses}

Effect(w, o) == IF port = "nextjs" THEN NP!orderEffect(w, o) ELSE GP!orderEffect(w, o)
Cleanup(w, i) == IF port = "nextjs" THEN NP!orderCleanup(w, i) ELSE GP!orderCleanup(w, i)

Runs == DOMAIN watch.runs

ReactTypeOK ==
  /\ port \in Ports /\ strict \in BOOLEAN
  /\ document \in {"form", "result"}
  /\ basePath \in BasePaths \cup {""}
  /\ Len(order) <= 1
  /\ watch.redirected \in BOOLEAN /\ watch.left \in Nat
  /\ Len(watch.polled) <= 1 /\ Len(watch.runs) <= 2
  /\ \A i \in Runs:
       watch.runs[i] \in [active: BOOLEAN, attempts: 1..PollsMax, at: {"asking", "sleeping", "over"}]

(* Go's env() takes an empty BASE_PATH for one that is not set. *)
PathsOf(q) == IF q = "nextjs" THEN BasePaths ELSE BasePaths \ {""}

ReactInit ==
  /\ port \in Ports /\ strict \in BOOLEAN
  /\ document \in {"form", "result"}
  /\ basePath \in PathsOf(port)
  /\ order = <<>>
  /\ watch = NP!NoWatch

NewOrder(path, back) ==
  [basePath |-> path, orderId |-> "7", clientOrderId |-> "c", redirected |-> back]

(* setOrder() after a Sale: an update, whose effect runs once. *)
OrderAccepted ==
  /\ document = "form" /\ order = <<>>
  /\ order' = <<NewOrder(basePath, FALSE)>>
  /\ watch' = Effect(watch, order'[1])
  /\ UNCHANGED <<port, strict, document, basePath>>

(* The return page mounts.  A result-config.js that did not load leaves    *)
(* the page of go-react without a basePath (resultConfig()).               *)
ResultMounts(configLost) ==
  /\ document = "result" /\ order = <<>>
  /\ configLost => port = "go-react"
  /\ basePath' = IF configLost THEN "" ELSE basePath
  /\ order' = <<NewOrder(basePath', TRUE)>>
  /\ LET once == Effect(watch, order'[1])
     IN  watch' = IF strict /\ once.runs # <<>> THEN Effect(Cleanup(once, 1), order'[1]) ELSE once
  /\ UNCHANGED <<port, strict, document>>

HearStatus(i, data) ==
  /\ watch.runs[i].at = "asking"
  /\ watch' = IF port = "nextjs" THEN NP!statusReplied(watch, i, data)
                                 ELSE GP!statusReplied(watch, i, data)
  /\ UNCHANGED <<port, strict, document, basePath, order>>

LoseStatus(i) ==
  /\ watch.runs[i].at = "asking"
  /\ watch' = IF port = "nextjs" THEN NP!statusLost(watch, i) ELSE GP!statusLost(watch, i)
  /\ UNCHANGED <<port, strict, document, basePath, order>>

TimerFires(i) ==
  /\ watch.runs[i].at = "sleeping"
  /\ watch' = IF port = "nextjs" THEN NP!timerFired(watch, i) ELSE GP!timerFired(watch, i)
  /\ UNCHANGED <<port, strict, document, basePath, order>>

Answered(i) == LoseStatus(i) \/ \E data \in StatusReplies: HearStatus(i, data)

ReactNext ==
  \/ OrderAccepted
  \/ \E configLost \in BOOLEAN: ResultMounts(configLost)
  \/ \E i \in Runs: \/ \E data \in StatusReplies: HearStatus(i, data)
                    \/ LoseStatus(i)
                    \/ TimerFires(i)

(* A fetch settles, and a timer fires. *)
ReactFairness ==
  \A i \in 1..2: /\ WF_vars(i \in Runs /\ Answered(i))
                 /\ WF_vars(i \in Runs /\ TimerFires(i))

ReactSpec == ReactInit /\ [][ReactNext]_vars /\ ReactFairness

-----------------------------------------------------------------------------
(* Properties. *)

Following(w) == \E i \in DOMAIN w.runs: w.runs[i].active /\ w.runs[i].at # "over"
Over(w) == w.polled # <<>> /\ ~Following(w)

(* What the payer of a page `p` reads on the document `d`. *)
Panel(p, d, o, w) ==
  IF d = "result"
  THEN (IF p = "nextjs" THEN NP!ResultView(w, "7") ELSE GP!ResultView(w, "7"))
  ELSE LET page == [NP!CheckoutForm EXCEPT !.inFlight = TRUE, !.order = o, !.watch = w]
       IN  IF p = "nextjs" THEN NP!panel(page) ELSE GP!panel(page)

StageOf(w) ==
  CASE w.runs = <<>> -> "off"
    [] Following(w) -> "on"
    [] ~Following(w) /\ w.left > 0 -> "sent"
    [] Over(w) /\ w.left = 0 -> "told"
ShownOn(p, d, o, w) == IF Panel(p, d, o, w) = <<>> THEN "hidden" ELSE Panel(p, d, o, w)[1].copy
BackFromIssuer(d, w) == w.runs # <<>> /\ d = "result"

(* The hook implements the promise made to the payer, as pollStatus() does *)
(* on the plain page (StatusPoll).                                         *)
Watch == INSTANCE OrderWatch WITH
  Outcomes <- NP!FINAL_STATUSES,
  watch <- StageOf(watch),
  shown <- ShownOn(port, document, order, watch),
  fromIssuer <- BackFromIssuer(document, watch)

ImplementsOrderWatch == Watch!WatchSpec

(* use-order-status.ts:50: a run that was followed by another one was     *)
(* cleaned up, and says nothing more: whatever its request still brings,   *)
(* the payer reads what the new run has to say, and is sent nowhere twice. *)
CleanedUpRunIsSilent ==
  [][\A i \in Runs: i < Len(watch.runs) /\ watch'.runs[i] # watch.runs[i] =>
       watch' = [watch EXCEPT !.runs[i] = watch'.runs[i]]]_vars

(* An order the page is given ends in a verdict or at the issuer - if the  *)
(* page knows where its server is.                                         *)
OrderFollowed == (order # <<>> /\ basePath # "") ~> Over(watch)

-----------------------------------------------------------------------------
(* next.config.ts:6: the server can be put at the root, with BASE_PATH     *)
(* empty.  An order the page is given there is to be followed as well.     *)
OrderFollowedAtTheRoot == order # <<>> ~> Over(watch)
=============================================================================
