--------------------------- MODULE PaperLifecycle ---------------------------
(***************************************************************************)
(* What the Binance paper service promises about each strategy.  A         *)
(* strategy is flat, entering, open or exiting.  It enters, and its entry  *)
(* fills, only while it is armed: the environment gate is on, the engine   *)
(* runs and the strategy is enabled.  A position is given up only through  *)
(* an exit.  An entry and an exit may be abandoned, an open position may   *)
(* not.  Several strategies may move in one step (a pause, a crash).       *)
(***************************************************************************)
CONSTANT Strategies

VARIABLES phase, armed

Phases == {"FLAT", "ENTERING", "OPEN", "EXITING"}

TypeOK ==
  /\ phase \in [Strategies -> Phases]
  /\ armed \in [Strategies -> BOOLEAN]

Init ==
  /\ phase = [s \in Strategies |-> "FLAT"]
  /\ armed = [s \in Strategies |-> FALSE]

\* The phases a strategy may be in after a step.
Successors(from, mayEnter) ==
  CASE from = "FLAT"     -> {"FLAT"} \cup (IF mayEnter THEN {"ENTERING"} ELSE {})
    [] from = "ENTERING" -> {"ENTERING", "FLAT"}
                              \cup (IF mayEnter THEN {"OPEN"} ELSE {})
    [] from = "OPEN"     -> {"OPEN", "EXITING"}
    [] from = "EXITING"  -> {"EXITING", "OPEN", "FLAT"}

Next ==
  /\ armed' \in [Strategies -> BOOLEAN]
  /\ phase' \in [Strategies -> Phases]
  /\ \A s \in Strategies : phase'[s] \in Successors(phase[s], armed[s])

Spec == Init /\ [][Next]_<<phase, armed>>
=============================================================================
