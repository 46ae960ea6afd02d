--------------------------- MODULE GovernorModes ---------------------------
(***************************************************************************)
(* The decision ladder of backend/binance_paper/governor.py: which mode    *)
(* follows from the facts `evaluate' has collected, and what each mode     *)
(* permits.  Facts are named as in the code; the arithmetic that produces  *)
(* them is in PaperGovernor.                                               *)
(***************************************************************************)

Modes == {"NORMAL", "REDUCED_SIZE", "NO_NEW_ENTRIES", "CLOSE_ONLY",
          "EMERGENCY_FLATTEN"}

\* loss_severity against its thresholds 0.5, 1.0 and 1.5
Severities == {"none", "half", "limit", "severe"}

Facts ==
  [severity : Severities,   \* loss_severity
   ruined : BOOLEAN,        \* some equity is not positive
   invalid : BOOLEAN,       \* invalid_account_state
   starved : BOOLEAN,       \* some equity is below the smallest order
   integrity : BOOLEAN,     \* integrity_error is set
   overdue : BOOLEAN,       \* a pending order is older than pending_unknown_ms
   healthy : BOOLEAN]       \* the snapshot is there and HEALTHY

\* An account without risk, used by callers that know only some of the facts.
SoundFacts ==
  [severity |-> "none", ruined |-> FALSE, invalid |-> FALSE, starved |-> FALSE,
   integrity |-> FALSE, overdue |-> FALSE, healthy |-> TRUE]

Emergency(f) == f.ruined \/ f.invalid \/ f.severity = "severe"

Mode(f) ==
  CASE Emergency(f)                              -> "EMERGENCY_FLATTEN"
    [] ~Emergency(f) /\ f.severity = "limit"     -> "CLOSE_ONLY"
    [] ~Emergency(f) /\ f.severity # "limit"
         /\ (f.integrity \/ f.overdue \/ ~f.healthy)
                                                 -> "NO_NEW_ENTRIES"
    [] ~Emergency(f) /\ f.severity # "limit"
         /\ ~(f.integrity \/ f.overdue \/ ~f.healthy) /\ f.starved
                                                 -> "CLOSE_ONLY"
    [] ~Emergency(f) /\ f.severity = "half"
         /\ ~(f.integrity \/ f.overdue \/ ~f.healthy) /\ ~f.starved
                                                 -> "REDUCED_SIZE"
    [] OTHER                                     -> "NORMAL"

CanOpen(mode) == mode \in {"NORMAL", "REDUCED_SIZE"}

MustFlatten(mode) == mode = "EMERGENCY_FLATTEN"
=============================================================================
