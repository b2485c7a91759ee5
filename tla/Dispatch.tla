----------------------------- MODULE Dispatch ------------------------------
(***************************************************************************)
(* How a request finds a driver: offer_to_next_driver and _handle_no_driver*)
(* (bot/order_service.py), try_promote (bot/passenger_queue.py) and the    *)
(* parallel orders of drivers who are already on the road                  *)
(* (bot/parallel_orders.py).                                               *)
(*                                                                         *)
(* These functions call each other without end in sight: an offer that     *)
(* finds nobody handles "no driver", which may fall back to another line,  *)
(* which offers again.  A transaction is therefore modelled as a stack of  *)
(* calls: a handler, timer or worker starts when `agenda' is empty and     *)
(* pushes the calls it makes; each action of this module executes the call *)
(* on top.                                                                 *)
(*                                                                         *)
(* One transaction runs at a time.  SQLAlchemy's autoflush is off: a query *)
(* sees a write of its own transaction only after a flush().  Dispatch     *)
(* flushes what it takes and most of what it gives back; the handlers that *)
(* end with try_promote before they have flushed push "promoteUnflushed",  *)
(* which may miss what they have just set free.                            *)
(***************************************************************************)
EXTENDS Orders, Sequences

CONSTANT ChatOpen          \* driver_fallback_chat_peer_id is configured

ASSUME ChatAssumption == ChatOpen \in BOOLEAN

VARIABLES
  fleet,      \* drivers and their queue
  orders,     \* requests
  pq,         \* the queue of waiting requests
  agenda      \* calls the running transaction still has to make

vars == <<fleet, orders, pq, agenda>>

Function ==
  {"offer", "noDriver", "notify", "notifyOrFallback", "fallback", "recheck",
   "promote", "promoteUnflushed", "scan", "release", "startReserved", "postRide",
   "rideDone", "tripVoided", "carFailed", "tripLost", "passengerGone"}

AboutNoOrder == {"promote", "promoteUnflushed", "scan", "startReserved", "postRide"}
ForDriver == {"startReserved", "postRide", "rideDone", "tripVoided", "carFailed", "tripLost"}

Call == {c \in [fn : Function, order : Order \union {None},
                driver : Driver \union {None}, but : SUBSET Driver, todo : SUBSET Order] :
           /\ c.fn \in AboutNoOrder <=> c.order = None
           /\ c.fn \in ForDriver <=> c.driver # None}

Do(fn, o) == [fn |-> fn, order |-> o, driver |-> None, but |-> {}, todo |-> {}]

Offer(o, but) == [Do("offer", o) EXCEPT !.but = but]
Promote       == Do("promote", None)
PromoteUnflushed == Do("promoteUnflushed", None)
Scan(todo)    == [Do("scan", None) EXCEPT !.todo = todo]
For(fn, o, d) == [Do(fn, o) EXCEPT !.driver = d]

Idle        == agenda = <<>>
Calling(fn) == ~Idle /\ Head(agenda).fn = fn
Arg         == Head(agenda)

Return      == agenda' = Tail(agenda)
Then(calls) == agenda' = calls \o Tail(agenda)

Repaired == Repair(fleet, Engaged(orders))

----------------------------------------------------------------------------
(* offer_to_next_driver                                                     *)

Offerable(r) ==
  /\ r.driver = None
  /\ r.parallel = None
  /\ r.status \in Pending
  /\ ~(r.status = "searching" /\ r.offered # None)

\* Somebody owns the request already: the call returns False.
OfferRefused ==
  /\ Calling("offer")
  /\ ~Offerable(orders[Arg.order])
  /\ Return
  /\ UNCHANGED <<fleet, orders, pq>>

\* The first driver of the line who has not refused gets the card, every
\* question «is it still needed?» is withdrawn, and busy drivers lose theirs.
OfferMade ==
  /\ Calling("offer")
  /\ LET o == Arg.order
         f == Repaired
         P == Polls(pq) \ {o}
     IN /\ Offerable(orders[o])
        /\ \E d \in Front(f, Eligible(f, orders, o) \ Arg.but) :
             /\ fleet' = MarkOffered(f, d)
             /\ orders' = WithoutPolls(
                  [orders EXCEPT ![o] =
                     [CloseRoute(orders[o]) EXCEPT !.status = "searching", !.offered = d,
                                                   !.card = TRUE, !.jobs = @ \union {"accept"}]], P)
        /\ pq' = Pause(pq, P)
  /\ Return

OfferFindsNobody ==
  /\ Calling("offer")
  /\ Offerable(orders[Arg.order])
  /\ Eligible(Repaired, orders, Arg.order) \ Arg.but = {}
  /\ fleet' = Repaired
  /\ Then(<<Do("noDriver", Arg.order)>>)
  /\ UNCHANGED <<orders, pq>>

----------------------------------------------------------------------------
(* _handle_no_driver                                                        *)

\* A delivery, or a request somebody refused as far or as a delivery.
ForChat(o) == o \notin Desk /\ (o \in Delivery \/ orders[o].special)

\* The drivers who refused are looked at again.
BrokenFreeAfterAll(o) == Waiting(Repaired, orders, o) # {}

\* «A driver may become free between the initial lookup and this fallback».
FreeAfterAll(o) == Eligible(Repaired, orders, o) # {}

\* Otherwise everyone is busy: the request is parked and shown to the
\* drivers on the road; a village request without one falls back.
NoDriverParks ==
  /\ Calling("noDriver")
  /\ LET o == Arg.order IN
       /\ ~ForChat(o)
       /\ fleet' = Repaired
       /\ IF FreeAfterAll(o)
          THEN /\ Then(<<Offer(o, {})>>)
               /\ UNCHANGED <<orders, pq>>
          ELSE /\ orders' = [orders EXCEPT ![o].status =
                               IF Parked(pq, o) THEN "no_drivers" ELSE "queued"]
               /\ pq' = Enqueue(pq, o)
               /\ Then(<<Do("notifyOrFallback", o)>>)

\* It is published in the requests chat, if there is one, and otherwise
\* left without a driver.
NoDriverToChat ==
  /\ Calling("noDriver")
  /\ LET o == Arg.order IN
       /\ ForChat(o)
       /\ fleet' = Repaired
       /\ IF FreeAfterAll(o)
          THEN /\ Then(<<Offer(o, {})>>)
               /\ UNCHANGED orders
          ELSE /\ orders' =
                    [orders EXCEPT ![o] =
                       IF ChatOpen
                       THEN [orders[o] EXCEPT !.status = "chat_search", !.posted = TRUE,
                                              !.jobs = @ \union {"driver_chat"}]
                       ELSE [orders[o] EXCEPT !.status = "no_drivers"]]
               /\ Return
  /\ UNCHANGED pq

----------------------------------------------------------------------------
(* notify_busy_drivers: one card for one driver who is on his way to the    *)
(* village.  The code takes the trip that departed first; here it is any.   *)

HasRouteOffer(o) == orders[o].routeDriver # None /\ orders[o].status \in Candidate

CanNotify(f, o) ==
  /\ ~HasRouteOffer(o)
  /\ ~FreeFirst(f, orders, o)
  /\ Pickup[o] # None
  /\ ~orders[o].fallback
  /\ Unclaimed(orders[o])
  /\ AutoTrips(orders, o) # {}

\* The card has no timer.
BrokenRouteOffer(o) ==
  \E t \in AutoTrips(orders, o) :
    orders' = [orders EXCEPT ![o].routeDriver = orders[t].driver, ![o].routeTrip = t]

RouteOffer(o) ==
  \E t \in AutoTrips(orders, o) :
    orders' = [orders EXCEPT ![o].routeDriver = orders[t].driver,
                             ![o].routeTrip = t,
                             ![o].jobs = @ \union {"route_parallel_offer"}]

Notifying == Calling("notify") \/ Calling("notifyOrFallback")

NotifyMade ==
  /\ Notifying
  /\ CanNotify(Repaired, Arg.order)
  /\ fleet' = Repaired
  /\ RouteOffer(Arg.order)
  /\ Return
  /\ UNCHANGED pq

NotifyNobody ==
  /\ Notifying
  /\ ~CanNotify(Repaired, Arg.order)
  /\ fleet' = Repaired
  /\ IF Arg.fn = "notifyOrFallback" /\ Pickup[Arg.order] # None /\ ~HasRouteOffer(Arg.order)
     THEN Then(<<Do("recheck", Arg.order)>>)
     ELSE Return
  /\ UNCHANGED <<orders, pq>>

----------------------------------------------------------------------------
(* _fallback_to_free_drivers: a village request that no driver on the road  *)
(* takes goes to the Gorno line.  With recheck_village ("recheck") its own  *)
(* line gets a last chance first.  The request is unclaimed whenever this   *)
(* is called; otherwise the code returns at once, and TLC would deadlock.   *)

FallingBack == Calling("fallback") \/ Calling("recheck")

OwnLineAgain(f, o) ==
  Arg.fn = "recheck" /\ ~orders[o].fallback /\ Waiting(f, orders, o) # {}

\* has_waiting_driver() does not exclude the drivers who refused, the offer does.
FallbackOffers ==
  /\ FallingBack
  /\ LET o == Arg.order
         f == Repaired
     IN /\ Unclaimed(orders[o])
        /\ OwnLineAgain(f, o) \/ Free(f, Engaged(orders), Gorno) # {}
        /\ fleet' = f
        /\ orders' = [orders EXCEPT ![o] =
             [Withdraw(CloseRoute(orders[o])) EXCEPT
                !.status = "searching", !.etaSet = FALSE,
                !.fallback = @ \/ ~OwnLineAgain(f, o)]]
        /\ pq' = Unqueue(pq, o)
        /\ Then(<<Offer(o, {})>>)

FallbackWaits ==
  /\ FallingBack
  /\ LET o == Arg.order
         f == Repaired
     IN /\ Unclaimed(orders[o])
        /\ ~OwnLineAgain(f, o)
        /\ Free(f, Engaged(orders), Gorno) = {}
        /\ fleet' = f
        /\ orders' = [orders EXCEPT ![o] =
             [CloseRoute(orders[o]) EXCEPT !.status = "queued", !.etaSet = FALSE,
                                           !.fallback = TRUE]]
        /\ pq' = [Enqueue(pq, o) EXCEPT ![o].row = "waiting"]
        /\ Return

----------------------------------------------------------------------------
(* try_promote: the first waiting request that can move, moves.             *)

HasDriver(f, o) ==
  IF Pickup[o] = None THEN Eligible(f, orders, o) # {} ELSE Waiting(f, orders, o) # {}

Promoting == Calling("promote") \/ Calling("promoteUnflushed")

\* Nothing that is flushed can move; the recovery worker will look again.
PromoteMisses ==
  /\ Calling("promoteUnflushed")
  /\ Return
  /\ UNCHANGED <<fleet, orders, pq>>

\* A question is on screen and a driver is still free for it: wait.
PromoteWaitsForAnswer ==
  /\ Promoting
  /\ Polls(pq) # {}
  /\ \A o \in Polls(pq) : Eligible(Repaired, orders, o) # {}
  /\ fleet' = Repaired
  /\ Return
  /\ UNCHANGED <<orders, pq>>

\* The questions that lost their driver are withdrawn, which the query for
\* the waiting rows does not see yet.
PromoteStarts ==
  /\ Promoting
  /\ \/ Polls(pq) = {}
     \/ \E o \in Polls(pq) : Eligible(Repaired, orders, o) = {}
  /\ fleet' = Repaired
  /\ pq' = Pause(pq, Polls(pq))
  /\ orders' = WithoutPolls(orders, Polls(pq))
  /\ LET todo == {o \in Order : pq[o].row = "waiting"}
     IN IF todo = {} THEN Return ELSE Then(<<Scan(todo)>>)

\* The rows the loop does not skip.
Movable(f, o) ==
  \/ HasDriver(f, o)
  \/ BusyDriverFor(f, orders, o)
  \/ Pickup[o] # None /\ ~orders[o].fallback

Next_(f) == First(pq, {o \in Arg.todo : Movable(f, o)})

ScanEnds ==
  /\ Calling("scan")
  /\ \A o \in Arg.todo : ~Movable(Repaired, o)
  /\ fleet' = Repaired
  /\ Return
  /\ UNCHANGED <<orders, pq>>

\* Its own line and the road are empty: the Gorno stage begins.
ScanFallsBack ==
  /\ Calling("scan")
  /\ \E o \in Next_(Repaired) :
       /\ ~HasDriver(Repaired, o)
       /\ ~BusyDriverFor(Repaired, orders, o)
       /\ fleet' = Repaired
       /\ Then(<<Do("recheck", o)>>)
  /\ UNCHANGED <<orders, pq>>

\* The loop goes on after a question.
BrokenScanAsks ==
  /\ Calling("scan")
  /\ \E o \in Next_(Repaired) :
       /\ HasDriver(Repaired, o)
       /\ o \notin Desk
       /\ ~orders[o].confirmed
       /\ orders[o].status = "queued"
       /\ fleet' = Repaired
       /\ pq' = [pq EXCEPT ![o].row = "polling"]
       /\ orders' = [orders EXCEPT ![o].jobs = @ \union {"pqueue"},
                                   ![o].fixing = FALSE]
       /\ Then(<<Scan(Arg.todo \ {o})>>)

\* request_actuality_for_order and _poll: a request that waited for three
\* minutes (here: may have) is confirmed by its passenger first.
ScanAsks ==
  /\ Calling("scan")
  /\ \E o \in Next_(Repaired) :
       /\ HasDriver(Repaired, o)
       /\ o \notin Desk
       /\ ~orders[o].confirmed
       /\ orders[o].status = "queued"
       /\ fleet' = Repaired
       /\ pq' = [pq EXCEPT ![o].row = "polling"]
       /\ orders' = [orders EXCEPT ![o].jobs = @ \union {"pqueue"},
                                   ![o].fixing = FALSE]
  /\ Return

ScanOffers ==
  /\ Calling("scan")
  /\ \E o \in Next_(Repaired) :
       /\ HasDriver(Repaired, o)
       /\ fleet' = Repaired
       /\ IF Unclaimed(orders[o])
          THEN /\ orders' = [orders EXCEPT ![o] =
                    [Withdraw(orders[o]) EXCEPT !.status = "searching", !.fixing = FALSE]]
               /\ pq' = Unqueue(pq, o)
               /\ Then(<<Offer(o, {})>>)
          ELSE /\ Return
               /\ UNCHANGED <<orders, pq>>

\* Nobody is free but a driver on the road has, or now gets, a card.
ScanNotifies ==
  /\ Calling("scan")
  /\ \E o \in Next_(Repaired) :
       /\ ~HasDriver(Repaired, o)
       /\ BusyDriverFor(Repaired, orders, o)
       /\ fleet' = Repaired
       /\ IF CanNotify(Repaired, o) THEN RouteOffer(o) ELSE UNCHANGED orders
       /\ Then(<<Scan(Arg.todo \ {o})>>)
  /\ UNCHANGED pq

----------------------------------------------------------------------------
(* release_route_offers_for_trip: the cards that were shown to the driver   *)
(* of a trip that ends are closed, and their requests fall back.            *)

CardsOf(t) == {o \in Order : orders[o].routeTrip = t}

ReleaseNext ==
  /\ Calling("release")
  /\ \E o \in CardsOf(Arg.order) :
       /\ orders' = [orders EXCEPT ![o] = CloseRoute(@)]
       /\ agenda' = (IF orders[o].status \in Candidate THEN <<Do("fallback", o)>>
                                                       ELSE <<>>) \o agenda
  /\ UNCHANGED <<fleet, pq>>

ReleaseEnds ==
  /\ Calling("release")
  /\ CardsOf(Arg.order) = {}
  /\ Return
  /\ UNCHANGED <<fleet, orders, pq>>

\* promote_after_current: the reserved request becomes the current trip.
StartReserved ==
  /\ Calling("startReserved")
  /\ \E o \in Reservations(orders, Arg.driver) :
       orders' = [orders EXCEPT ![o].status = "assigned", ![o].driver = Arg.driver,
                                ![o].parallel = None, ![o].etaSet = FALSE,
                                ![o].departed = TRUE]
  /\ Return
  /\ UNCHANGED <<fleet, pq>>

\* ask_post_ride_line: away until he says whether he stays on the line.
PostRide ==
  /\ Calling("postRide")
  /\ fleet' = SetAway(fleet, Arg.driver)
  /\ Return
  /\ UNCHANGED <<orders, pq>>

DispatchStep ==
  \/ OfferRefused \/ OfferMade \/ OfferFindsNobody
  \/ NoDriverParks \/ NoDriverToChat
  \/ NotifyMade \/ NotifyNobody
  \/ FallbackOffers \/ FallbackWaits
  \/ PromoteMisses \/ PromoteWaitsForAnswer \/ PromoteStarts
  \/ ScanEnds \/ ScanFallsBack \/ ScanAsks \/ ScanOffers \/ ScanNotifies
  \/ ReleaseNext \/ ReleaseEnds \/ StartReserved \/ PostRide
============================================================================
