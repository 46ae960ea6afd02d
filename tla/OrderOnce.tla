----------------------------- MODULE OrderOnce ------------------------------
(***************************************************************************)
(* What the Binance paper engine promises about orders, whatever is sent   *)
(* again, fails or crashes: an order id is answered at most once with a    *)
(* signed quantity (zero when it is refused), that answer never changes,   *)
(* and the exposure moves by that quantity in the same step and never      *)
(* otherwise.                                                              *)
(***************************************************************************)
EXTENDS Integers

CONSTANTS OrderIds, NoAnswer

VARIABLES
  answer,     \* per order id, the signed quantity it was answered with
  exposure    \* the signed quantity the engine acts on

Init ==
  /\ answer = [o \in OrderIds |-> NoAnswer]
  /\ exposure = 0

Settle(o) ==
  /\ answer[o] = NoAnswer
  /\ exposure' \in Int
  /\ answer' = [answer EXCEPT ![o] = exposure' - exposure]

Next == \E o \in OrderIds : Settle(o)

Spec == Init /\ [][Next]_<<answer, exposure>>
=============================================================================
