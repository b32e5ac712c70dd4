------------------------------- MODULE MCOrders -------------------------------
(* Orders for TLC: a patrol, a hold and an order the machine does not know how
   to carry out. *)
EXTENDS Orders

CONSTANTS patrol, hold, odd

MCKind == [t \in Tasks |-> CASE t = patrol -> "move" [] t = hold -> "hold" [] t = odd -> "refused"]
OneLap == [t \in Tasks |-> 1]
TwoLaps == [t \in Tasks |-> IF t = patrol THEN 2 ELSE 1]

===============================================================================
