------------------------------ MODULE Orders -------------------------------
(***************************************************************************)
(* The requests (table orders), as far as dispatch reads and writes them,  *)
(* the queue of waiting requests (table passengers_queue), and the         *)
(* questions dispatch asks of them: bot/passenger_queue.py and the         *)
(* predicates of bot/order_service.py and bot/parallel_orders.py.          *)
(***************************************************************************)
EXTENDS Fleet

CONSTANTS
  Order,        \* requests
  Gorno,        \* the universal line (Gornozavodsk)
  Pickup,       \* village a request starts from, None if it starts in Gorno
  Dest,         \* village a request goes to, None for any other destination
  Returns,      \* requests that include their own return trip
  Desk,         \* requests a dispatcher entered
  Delivery      \* deliveries: the driver names the price

Village == Line \ {Gorno}

ASSUME LineAssumption  == Gorno \in Line /\ None \notin Line
ASSUME RouteAssumption == /\ Pickup \in [Order -> Village \union {None}]
                          /\ Dest \in [Order -> Village \union {None}]
ASSUME KindAssumption  == /\ Returns \subseteq Order
                          /\ Desk \subseteq Order
                          /\ Delivery \subseteq Order
ASSUME NoneAssumption  == None \notin Driver /\ None \notin Order

OrderStatus ==
  {"new", "created", "searching", "queued", "no_drivers", "chat_search",
   "parallel_assigned", "assigned", "arrived", "in_progress",
   "completed", "cancelled"}

Active    == {"assigned", "arrived", "in_progress"}
Candidate == {"created", "queued", "no_drivers"}     \* PARALLEL_CANDIDATE_STATUSES
Pending   == Candidate \union {"searching", "chat_search"}
Closed    == {"completed", "cancelled"}

\* The kinds of timer that act on a request.
Timer == {"accept", "pqueue", "parallel_eta", "route_parallel_offer",
          "driver_chat", "dispatcher_unclaimed", "delivery"}

OrderRecord ==
  [status      : OrderStatus,
   driver      : Driver \union {None},   \* driver_id
   parallel    : Driver \union {None},   \* parallel_driver_id
   offered     : Driver \union {None},   \* offered_driver_id
   routeDriver : Driver \union {None},   \* parallel_offer_driver_id
   routeTrip   : Order \union {None},    \* parallel_offer_trip_id
   noAuto      : SUBSET Driver,          \* parallel_auto_excluded_driver_ids
   autoOff     : BOOLEAN,                \* parallel_auto_offers_disabled
   fallback    : BOOLEAN,                \* parallel_route_fallback
   etaSet      : BOOLEAN,                \* parallel_eta is not NULL
   departed    : BOOLEAN,                \* driver_departed_at is not NULL
   declined    : SUBSET Driver,          \* declined_driver_ids
   special     : BOOLEAN,                \* a refusal as far or as delivery
   confirmed   : BOOLEAN,                \* actuality_confirmed
   card        : BOOLEAN,                \* offer_outbox_id is not NULL
   posted      : BOOLEAN,                \* published in the requests chat
   chatOffline : BOOLEAN,                \* chat_driver_was_offline
   fixing      : BOOLEAN,                \* its author is in P_NEW_ADDRESS
   pricing     : BOOLEAN,                \* its driver is asked for the price
   proposed    : BOOLEAN,                \* its passenger has «agree» and «refuse»
   jobs        : SUBSET Timer]           \* pending timers

FreshOrder ==
  [status |-> "new", driver |-> None, parallel |-> None, offered |-> None,
   routeDriver |-> None, routeTrip |-> None, noAuto |-> {}, autoOff |-> FALSE,
   fallback |-> FALSE, etaSet |-> FALSE, departed |-> FALSE, declined |-> {},
   special |-> FALSE, confirmed |-> FALSE, card |-> FALSE, posted |-> FALSE,
   chatOffline |-> FALSE, fixing |-> FALSE, pricing |-> FALSE, proposed |-> FALSE,
   jobs |-> {}]

----------------------------------------------------------------------------
(* The queue of waiting requests; `ahead' as in Fleet.                      *)

QueueRecord == [row : {"none", "waiting", "polling"}, ahead : SUBSET Order]

Parked(q, o) == q[o].row # "none"

\* Nothing is parked.
BrokenEnqueue(q, o) == q

\* The row enqueue() adds at the tail; an existing row is left as it is.
Enqueue(q, o) ==
  IF Parked(q, o) THEN q
  ELSE [q EXCEPT ![o] = [row   |-> "waiting",
                         ahead |-> {p \in Order \ {o} : Parked(q, p)}]]

Unqueue(q, o) ==
  [p \in Order |-> IF p = o THEN [row |-> "none", ahead |-> {}]
                            ELSE [q[p] EXCEPT !.ahead = @ \ {o}]]

First(q, S) == {o \in S : q[o].ahead \intersect S = {}}

Polls(q) == {o \in Order : q[o].row = "polling"}

\* pause_actuality_prompts: the questions shown to P are withdrawn.
Pause(q, P) == [o \in Order |-> IF o \in P THEN [q[o] EXCEPT !.row = "waiting"]
                                           ELSE q[o]]

----------------------------------------------------------------------------
(* Changes of one request that several functions share.                     *)

\* The timer is cancelled, the card stays bound.
BrokenCloseRoute(r) == [r EXCEPT !.jobs = @ \ {"route_parallel_offer"}]

\* _clear_route_offer_state, after the timer of the card is cancelled.
CloseRoute(r) == [r EXCEPT !.routeDriver = None, !.routeTrip = None,
                           !.jobs = @ \ {"route_parallel_offer"}]

\* The part of passenger_queue.remove() that concerns the request itself.
Withdraw(r) == [(IF r.routeDriver # None THEN CloseRoute(r) ELSE r)
                  EXCEPT !.jobs = @ \ {"pqueue"}]

\* The end of a request, with cancel_all_for_order; its author leaves every
\* dialogue about it.
Cancel(r) == [r EXCEPT !.status = "cancelled", !.jobs = {}, !.fixing = FALSE]

WithoutPolls(os, P) ==
  [o \in Order |-> IF o \in P THEN [os[o] EXCEPT !.jobs = @ \ {"pqueue"}]
                              ELSE os[o]]

----------------------------------------------------------------------------
(* The questions the queries ask.                                           *)

LiveOffer(os, d) ==
  \E o \in Order : os[o].status = "searching" /\ os[o].offered = d

Trips(os, d) == {o \in Order : os[o].driver = d /\ os[o].status \in Active}

\* active_order_for(driver): a trip, or a request that kept its driver.
Busy(os, d) ==
  {o \in Order : os[o].driver = d
                 /\ os[o].status \in Active \union (Pending \ {"no_drivers"})}

Reservations(os, d) ==
  {o \in Order : os[o].parallel = d /\ os[o].status = "parallel_assigned"}

\* A driver who is looking at an offer counts as free.
BrokenEngaged(os) ==
  {d \in Driver :
     \/ Reservations(os, d) # {}
     \/ \E o \in Order : os[o].driver = d /\ os[o].status \in Active}

Engaged(os) ==
  {d \in Driver :
     \/ LiveOffer(os, d)
     \/ Reservations(os, d) # {}
     \/ \E o \in Order : /\ os[o].driver = d
                         /\ os[o].status \in Active \union {"parallel_assigned"}}

\* The line whose drivers may be offered the request now: the village it
\* starts from, and Gorno for the rest and for the fallback stage.
LineOf(os, o) ==
  IF Pickup[o] = None \/ os[o].fallback THEN Gorno ELSE Pickup[o]

\* has_waiting_driver(LineOf) without an exclusion list.
Waiting(f, os, o) == Free(f, Engaged(os), LineOf(os, o))

\* has_eligible_waiting_driver
Eligible(f, os, o) == Waiting(f, os, o) \ os[o].declined

\* _free_driver_has_priority: free drivers go before parallel ones.
FreeFirst(f, os, o) ==
  \/ os[o].offered # None
  \/ os[o].card
  \/ IF Pickup[o] # None THEN Waiting(f, os, o) # {} ELSE Eligible(f, os, o) # {}

\* _parallel_candidate_filter
Unclaimed(r) == r.status \in Candidate /\ r.driver = None /\ r.parallel = None

\* _eligible_departed_orders_to_city, for the village where o starts
TripsTo(os, o) ==
  {t \in Order : /\ os[t].status \in Active
                 /\ os[t].driver # None
                 /\ os[t].departed
                 /\ Pickup[t] = None
                 /\ Dest[t] = Pickup[o]
                 /\ t \notin Returns}

\* _auto_offer_trip_is_eligible
AutoTrips(os, o) ==
  {t \in TripsTo(os, o) :
     /\ ~os[t].autoOff
     /\ os[t].driver \notin os[o].noAuto
     /\ Reservations(os, os[t].driver) = {}
     /\ \A p \in Order \ {o} : os[p].routeDriver # os[t].driver}

\* has_eligible_busy_driver_for_order
BusyDriverFor(f, os, o) ==
  \/ os[o].routeDriver # None
  \/ /\ ~FreeFirst(f, os, o)
     /\ Pickup[o] # None
     /\ ~os[o].fallback
     /\ AutoTrips(os, o) # {}

\* _destination_restricted_orders: what the driver of trip t may reserve.
Allowed(t, o) ==
  \/ Dest[t] = None
  \/ t \notin Returns /\ Pickup[o] = Dest[t]
============================================================================
