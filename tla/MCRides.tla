------------------------------ MODULE MCRides ------------------------------
(***************************************************************************)
(* Small instances of Rides: values for the constants that a configuration *)
(* file cannot write down, the symmetry of drivers, and a view.            *)
(***************************************************************************)
EXTENDS RideSafety, TLC

CONSTANTS o1, o2, gorno, village

\* Requests that start and end in Gorno.
Local == [o \in Order |-> None]

\* o1 goes to the village; o2 starts there.
FromVillage == [o \in Order |-> IF o = o2 THEN village ELSE None]
ToVillage   == [o \in Order |-> IF o = o1 THEN village ELSE None]

Drivers == Permutations(Driver)
DriversAndOrders == Permutations(Driver) \union Permutations(Order)

\* What still matters of a state: the fields of a closed request that no call
\* is about are not read again, nor the departure of a trip to no village; and a
\* trip that is no delivery goes on in the same ways before and after «arrived».
Forgotten(o) ==
  /\ orders[o].status \in Closed
  /\ ~orders[o].fixing
  /\ \A i \in DOMAIN agenda : agenda[i].order # o

Seen(o, r) ==
  IF Forgotten(o)
  THEN [FreshOrder EXCEPT !.status = "cancelled", !.jobs = r.jobs,
                          !.routeDriver = r.routeDriver, !.routeTrip = r.routeTrip]
  ELSE [r EXCEPT !.departed = @ /\ Dest[o] # None,
                 !.status = IF @ = "assigned" /\ o \notin Delivery THEN "arrived" ELSE @]

\* The row of a busy driver is overwritten before a selection reads it.
SeenDriver(r) == IF r.status = "busy" /\ r.row = "waiting" THEN [r EXCEPT !.row = "assigned"]
                                                         ELSE r

View == <<[d \in Driver |-> SeenDriver(fleet[d])],
          [o \in Order |-> Seen(o, orders[o])], pq, agenda>>
============================================================================
