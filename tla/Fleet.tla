------------------------------- MODULE Fleet -------------------------------
(***************************************************************************)
(* The queue of free drivers (table drivers_queue) together with the three *)
(* fields of a driver that dispatch reads: the displayed status, the       *)
(* is_on_line flag and the chosen line.  Every operator is one function of *)
(* bot/queue_service.py, as a map from fleets to fleets, so that a handler *)
(* that calls several of them is their composition.                        *)
(*                                                                         *)
(* The integer column drivers_queue.position only serves to compare rows:  *)
(* `ahead' holds, for a driver with a row, the drivers in front of him.    *)
(*                                                                         *)
(* drivers_queue.city_id is not kept: _repair_visibly_free_drivers copies  *)
(* the driver's current_line over it before each query that reads it.      *)
(***************************************************************************)
CONSTANTS
  Driver,      \* users with the driver role
  Line,        \* the configured lines (active cities)
  None         \* SQL NULL

Status == {"offline", "online", "away", "busy"}
Row    == {"none", "waiting", "offered", "assigned", "away"}

DriverRecord == [status : Status, onLine : BOOLEAN, line : Line \union {None},
                 row : Row, ahead : SUBSET Driver]

Fleets == [Driver -> DriverRecord]

\* Nobody has opened the driver menu yet.
EmptyFleet ==
  [d \in Driver |-> [status |-> "offline", onLine |-> FALSE, line |-> None,
                     row |-> "none", ahead |-> {}]]

HasRow(f, d) == f[d].row # "none"

\* _move_to_tail: position = max + 1.
ToTail(f, d) ==
  [e \in Driver |->
     [f[e] EXCEPT !.ahead = IF e = d THEN {x \in Driver \ {d} : HasRow(f, x)}
                                     ELSE @ \ {d}]]

\* join_queue, and return_from_away: a free driver at the tail.
JoinQueue(f, d) ==
  ToTail([f EXCEPT ![d].row = "waiting", ![d].status = "online"], d)

LeaveQueue(f, d) ==
  [e \in Driver |->
     IF e = d THEN [f[d] EXCEPT !.row = "none", !.status = "offline", !.ahead = {}]
              ELSE [f[e] EXCEPT !.ahead = @ \ {d}]]

\* The status of a row that the function sets only if the row exists.
RowTo(f, d, s) == IF HasRow(f, d) THEN s ELSE "none"

SetAway(f, d) ==
  [f EXCEPT ![d].row = RowTo(f, d, "away"), ![d].status = "away"]

MarkAssigned(f, d) ==
  [f EXCEPT ![d].row = RowTo(f, d, "assigned"), ![d].status = "busy"]

\* Variants named Broken... are used by no specification: they show that the
\* properties notice the mistake they describe.
\* The reservation of the driver is lost.
BrokenMarkOffered(f, d) == f

\* mark_offered, on a row that the selection just found waiting.
MarkOffered(f, d) == [f EXCEPT ![d].row = "offered"]

ReleaseOffer(f, d) ==
  [f EXCEPT ![d].row    = IF @ = "offered" THEN "waiting" ELSE @,
            ![d].status = IF @ = "away" THEN @ ELSE "online"]

ReturnToQueue(f, d) ==
  IF HasRow(f, d) THEN JoinQueue(f, d) ELSE [f EXCEPT ![d].status = "offline"]

\* The displayed status is forgotten.
BrokenRestorePosition(f, d) == [f EXCEPT ![d].row = RowTo(f, d, "waiting")]

\* The driver gets the first place instead of his own.
BrokenRestoreFirst(f, d) ==
  [e \in Driver |->
     IF e = d THEN [f[d] EXCEPT !.row = RowTo(f, d, "waiting"), !.ahead = {},
                                !.status = IF HasRow(f, d) THEN "online" ELSE "offline"]
     ELSE [f[e] EXCEPT !.ahead = IF HasRow(f, e) THEN @ \union {d} ELSE @]]

RestorePosition(f, d) ==
  [f EXCEPT ![d].row    = RowTo(f, d, "waiting"),
            ![d].status = IF HasRow(f, d) THEN "online" ELSE "offline"]

OffLine(f, d) == [f EXCEPT ![d].onLine = FALSE]
OnLine(f, d)  == [f EXCEPT ![d].onLine = TRUE]

----------------------------------------------------------------------------
(* The selection of a driver.  `engaged' are the drivers with a trip, a     *)
(* reservation or a live offer, which the queries read from the orders.     *)

VisiblyFree(f, engaged) ==
  {d \in Driver \ engaged : f[d].onLine /\ f[d].status = "online"}

\* _repair_visibly_free_drivers: every visibly free driver has a waiting row.
\* New rows go behind the existing ones, in no particular order of their own
\* (the query that lists the candidates has no ORDER BY).
Repair(f, engaged) ==
  [d \in Driver |->
     IF d \in VisiblyFree(f, engaged)
     THEN [f[d] EXCEPT !.row = "waiting",
                       !.ahead = IF HasRow(f, d) THEN @
                                 ELSE {x \in Driver \ {d} : HasRow(f, x)}]
     ELSE f[d]]

\* The WHERE clause of next_waiting_driver for one line.
Free(f, engaged, line) ==
  {d \in VisiblyFree(f, engaged) : f[d].row = "waiting" /\ f[d].line = line}

\* ORDER BY position LIMIT 1
Front(f, S) == {d \in S : f[d].ahead \intersect S = {}}
============================================================================
