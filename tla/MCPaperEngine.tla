--------------------------- MODULE MCPaperEngine ----------------------------
(* Small sets for TLC.  Three orders of up to two units build at most six: *)
(* 60 is a multiple of every size, and two of the fills can be averaged.   *)
EXTENDS PaperEngine

Request(side, quantity, reduceOnly, leverage, at) ==
  [side |-> side, quantity |-> quantity, reduceOnly |-> reduceOnly,
   leverage |-> leverage, at |-> at, model |-> TRUE]

Book(ts, price, depth) ==
  [ts |-> ts, price |-> price, depth |-> depth, healthy |-> TRUE, fit |-> TRUE]

MCRequests ==
  { Request(1, 1, FALSE, 2, 1), Request(-1, 2, FALSE, 1, 1),
    Request(-1, 2, TRUE, 1, 3) }

MCBooks ==
  { Book(1, 7200, 2), Book(2, 10800, 2), [Book(2, 3600, 1) EXCEPT !.healthy = FALSE] }

MCFundings == { [ts |-> 2, mark |-> 7200, rate |-> 1] }

MCLossLimits == { [window |-> 1, loss |-> 3000], [window |-> 2, loss |-> 4200] }

MCGrid == <<3600, 60, 1>>
=============================================================================
