------------------------------- MODULE OrderWatch -------------------------------
(***************************************************************************)
(* What a page promises the payer once it follows an order: it says        *)
(* "processing" for as long as it has nothing to tell, it tells one        *)
(* outcome and never takes it back, or it sends the payer to the issuer -  *)
(* once, and never a payer who has just come back from there - and one of  *)
(* the two does happen.                                                    *)
(***************************************************************************)
CONSTANT Outcomes

VARIABLES watch,       \* "off", "on", "told" or "sent"
          shown,       \* what the payer reads
          fromIssuer   \* the payer has come back from the issuer

watchVars == <<watch, shown, fromIssuer>>

WatchInit ==
  /\ watch = "off"
  /\ shown \in {"hidden", "processing"}
  /\ fromIssuer = FALSE

Begin ==
  /\ watch = "off"
  /\ watch' = "on"
  /\ shown' \in {"hidden", "processing"}
  /\ fromIssuer' \in BOOLEAN

Wait ==
  /\ watch = "on"
  /\ shown' = "processing"
  /\ UNCHANGED <<watch, fromIssuer>>

Tell ==
  /\ watch = "on"
  /\ watch' = "told"
  /\ shown' \in Outcomes
  /\ UNCHANGED fromIssuer

Escalate ==
  /\ watch = "on"
  /\ ~fromIssuer
  /\ watch' = "sent"
  /\ shown' \in Outcomes \cup {"processing"}
  /\ UNCHANGED fromIssuer

WatchNext == Begin \/ Wait \/ Tell \/ Escalate

WatchSafety == WatchInit /\ [][WatchNext]_watchVars
WatchEnds   == (watch = "on") ~> (watch \in {"told", "sent"})

WatchSpec == WatchSafety /\ WatchEnds
=============================================================================
