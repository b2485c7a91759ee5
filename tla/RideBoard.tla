----------------------------- MODULE RideBoard -----------------------------
(***************************************************************************)
(* What the dispatch promises, without its queues, lines, timers and       *)
(* messages: a board that says of every request whether it is open, shown  *)
(* to a driver, reserved by a driver for later, ridden, or over.  A driver *)
(* is shown a request when he has nothing else; he rides one request at a  *)
(* time, and reserves at most one, only during a ride.  The one thing it   *)
(* lets him do with a request on his screen is to start another ride.      *)
(***************************************************************************)
CONSTANTS Driver, Order, None

VARIABLE board

Phase == {"new", "open", "shown", "reserved", "riding", "over"}

Entry == [phase : Phase, driver : Driver \union {None}]

TypeOK == board \in [Order -> Entry]

Has(d, phase) == \E o \in Order : board[o] = [phase |-> phase, driver |-> d]

Becomes(o, phase, d) == board' = [board EXCEPT ![o] = [phase |-> phase, driver |-> d]]

Init == board = [o \in Order |-> [phase |-> "new", driver |-> None]]

Post(o) ==
  /\ board[o].phase = "new"
  /\ Becomes(o, "open", None)

\* One driver at a time is asked, and he has nothing else to do.
Show(o, d) ==
  /\ board[o].phase = "open"
  /\ ~Has(d, "shown") /\ ~Has(d, "reserved") /\ ~Has(d, "riding")
  /\ Becomes(o, "shown", d)

\* He says yes, or a driver claims a request that is on the board.
Ride(o, d) ==
  /\ board[o].phase \in {"open", "shown"}
  /\ ~Has(d, "riding")
  /\ Becomes(o, "riding", d)

Reserve(o, d) ==
  /\ board[o].phase = "open"
  /\ Has(d, "riding") /\ ~Has(d, "reserved")
  /\ Becomes(o, "reserved", d)

\* The reserved request becomes the ride once the ride before it is over.
Begin(o) ==
  /\ board[o].phase = "reserved"
  /\ ~Has(board[o].driver, "riding")
  /\ Becomes(o, "riding", board[o].driver)

\* The driver is no longer on it: the request is for everyone again.
Reopen(o) ==
  /\ board[o].phase \in {"shown", "reserved", "riding"}
  /\ Becomes(o, "open", None)

Finish(o) ==
  /\ board[o].phase \in {"open", "shown", "reserved", "riding"}
  /\ Becomes(o, "over", None)

Next ==
  \E o \in Order :
    \/ Post(o) \/ Begin(o) \/ Reopen(o) \/ Finish(o)
    \/ \E d \in Driver : Show(o, d) \/ Ride(o, d) \/ Reserve(o, d)

Spec == Init /\ [][Next]_board
============================================================================
