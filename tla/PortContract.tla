------------------------------ MODULE PortContract ------------------------------
(***************************************************************************)
(* What a merchant's server promises, in whatever language it is written:  *)
(* one answer to a request, behind at most one call to the gateway; a      *)
(* configuration, a sale or a status only after that call has come back, a *)
(* refusal only without one; and neither a redirect nor a page for signed  *)
(* parameters whose checksum is wrong in every reading of them.            *)
(***************************************************************************)
EXTENDS Naturals

VARIABLES
  stage,    \* at rest, asked (the gateway), answered
  route,    \* which of the five the request is for
  wrong,    \* its signed parameters are wrong
  calls,    \* gateway calls made for it
  code      \* the answer's; 0 for a connection that closed without one

vars == <<stage, route, wrong, calls, code>>

CallRoutes == {"config", "pay", "status"}
PageRoutes == {"callback", "result"}

(* A server that fails may do so on any route. *)
Failures == {0, 500, 502}

Refusals(r) ==
  CASE r = "pay" -> {400, 415}
    [] r = "status" -> {400}
    [] r = "callback" -> {400, 403, 413}
    [] r = "result" -> {403}
    [] r = "config" -> {}

Granted(r) == IF r = "callback" THEN 303 ELSE 200

Init == stage = "rest" /\ route = "none" /\ ~wrong /\ calls = 0 /\ code = 0

(* The next request, or the one a redirect leads to. *)
Arrives(r, w) ==
  /\ stage = "rest" \/ (stage = "answered" /\ code = 303 /\ r = "result")
  /\ route' = r /\ wrong' = w

Asks ==
  /\ \E r \in CallRoutes: Arrives(r, FALSE)
  /\ stage' = "asked" /\ calls' = 1 /\ code' = 0

Refuses ==
  /\ \E r \in CallRoutes \cup PageRoutes, w \in BOOLEAN:
       Arrives(r, w) /\ code' \in Refusals(r) \cup Failures
  /\ stage' = "answered" /\ calls' = 0

Grants ==
  /\ \E r \in PageRoutes: Arrives(r, FALSE) /\ code' = Granted(r)
  /\ stage' = "answered" /\ calls' = 0

CallReturns ==
  /\ stage = "asked"
  /\ stage' = "answered" /\ code' \in {200} \cup Failures
  /\ UNCHANGED <<route, wrong, calls>>

Forgets ==
  /\ stage = "answered"
  /\ stage' = "rest" /\ route' = "none" /\ wrong' = FALSE /\ calls' = 0 /\ code' = 0

Next == Asks \/ Refuses \/ Grants \/ CallReturns \/ Forgets

Spec == Init /\ [][Next]_vars
=============================================================================
