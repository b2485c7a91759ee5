------------------------------- MODULE Rides -------------------------------
(***************************************************************************)
(* The transactions of the dispatch: what passengers, dispatchers and      *)
(* drivers press (bot/handlers.py, bot/lines.py, bot/parallel_orders.py,   *)
(* bot/delivery_service.py), the callbacks of the timers and the recovery  *)
(* worker.  Each action is one handler; the calls it ends with are pushed  *)
(* on the agenda and executed by module Dispatch.                          *)
(*                                                                         *)
(* Elapsed times are not measured: a timer may fire as soon as it is set.  *)
(* Only messages, prices, ratings and the false-call records are left out. *)
(***************************************************************************)
EXTENDS Dispatch

CONSTANT Reason       \* the reasons drivers give when they refuse an offer

ASSUME ReasonAssumption ==
  Reason \subseteq {"booking", "spam", "need_address", "away", "dislike",
                    "far", "delivery"}

TypeOK ==
  /\ fleet \in Fleets
  /\ orders \in [Order -> OrderRecord]
  /\ pq \in [Order -> QueueRecord]
  /\ agenda \in Seq(Call)

Init ==
  /\ fleet = EmptyFleet
  /\ orders = [o \in Order |-> FreshOrder]
  /\ pq = [o \in Order |-> [row |-> "none", ahead |-> {}]]
  /\ agenda = <<>>

Start(calls) == Idle /\ agenda' = calls

----------------------------------------------------------------------------
(* Passengers and dispatchers.                                              *)

\* create_passenger_order (and repeat_order), then dispatch_new_order
NewRide(o) ==
  /\ orders[o].status = "new"
  /\ o \notin Desk
  /\ fleet' = Repaired
  /\ IF Pickup[o] = None \/ Waiting(Repaired, orders, o) # {}
     THEN /\ orders' = [orders EXCEPT ![o].status = "created"]
          /\ Start(<<Offer(o, {})>>)
          /\ UNCHANGED pq
     ELSE /\ orders' = [orders EXCEPT ![o].status = "queued"]
          /\ pq' = Enqueue(pq, o)
          /\ Start(<<Do("notifyOrFallback", o)>>)

\* disp_create_order_from_draft
NewDeskRide(o) ==
  /\ orders[o].status = "new"
  /\ o \in Desk
  /\ orders' = [orders EXCEPT ![o].status = "created",
                              ![o].jobs = {"dispatcher_unclaimed"}]
  /\ Start(<<Offer(o, {})>>)
  /\ UNCHANGED <<fleet, pq>>

\* passenger_cancel.  The new status is not flushed before the cards of the
\* trip are released, whose queries still see the old one: it is set below.
PassengerCancel(o) ==
  /\ o \notin Desk
  /\ orders[o].status \in {"created", "queued", "searching", "chat_search",
                           "parallel_assigned", "assigned", "arrived"}
  /\ Start(<<Do("release", o), Do("passengerGone", o)>>)
  /\ UNCHANGED <<fleet, orders, pq>>

PassengerGone ==
  /\ Calling("passengerGone")
  /\ LET o == Arg.order
         r == orders[o]
         d == r.driver
         shown == r.offered # None /\ d = None
         drove == d # None /\ r.parallel = None
         next == drove /\ Reservations(orders, d) # {}
     IN /\ orders' = [orders EXCEPT ![o] =
             [Cancel(Withdraw(orders[o])) EXCEPT
                !.offered  = IF shown THEN None ELSE @,
                !.driver   = IF drove THEN @ ELSE None,
                !.parallel = None]]
        /\ pq' = Unqueue(pq, o)
        /\ fleet' = IF shown THEN ReleaseOffer(fleet, r.offered)
                    ELSE IF drove /\ ~next THEN RestorePosition(fleet, d)
                    ELSE fleet
        /\ Then(IF next THEN <<For("startReserved", None, d), PromoteUnflushed>>
                        ELSE <<PromoteUnflushed>>)

\* confirm: «yes» to the question whether the request is still needed
ConfirmActual(o) ==
  /\ Parked(pq, o)
  /\ o \notin Desk
  /\ LET P == Polls(pq) \ {o} IN
       /\ pq' = [Pause(pq, P) EXCEPT ![o].row = "waiting"]
       /\ orders' = WithoutPolls([orders EXCEPT ![o].jobs = @ \ {"pqueue"},
                                                ![o].confirmed = TRUE,
                                                ![o].fixing = FALSE], P)
  /\ Start(<<PromoteUnflushed>>)
  /\ UNCHANGED fleet

\* confirm: «no»
ConfirmNot(o) ==
  /\ Parked(pq, o)
  /\ o \notin Desk
  /\ pq' = Unqueue(pq, o)
  /\ orders' = [orders EXCEPT ![o] =
                  [Withdraw(orders[o]) EXCEPT !.status = "cancelled", !.fixing = FALSE]]
  /\ Start(<<PromoteUnflushed>>)
  /\ UNCHANGED fleet

\* passenger_update_address: the corrected text replaces the request.  The
\* new text is taken to name the same villages as the old one.
NewAddress(o) ==
  /\ orders[o].fixing
  /\ orders' = [orders EXCEPT ![o] =
       [Withdraw(orders[o]) EXCEPT !.status = "searching", !.fallback = FALSE, !.noAuto = {},
                                   !.offered = None, !.fixing = FALSE]]
  /\ pq' = Unqueue(pq, o)
  /\ Start(<<Offer(o, {})>>)
  /\ UNCHANGED fleet

\* A price can be answered whatever has become of the request.
BrokenUnanswered(r) == ~r.confirmed

\* delivery_service: the buttons under a price stay in the passenger's chat,
\* also when the request has gone back to the queue in the meantime.
Unanswered(r) == r.status \in {"assigned", "searching"} /\ ~r.confirmed

\* passenger_response and _confirm
PriceAgreed(o) ==
  /\ orders[o].proposed
  /\ Unanswered(orders[o])
  /\ orders' = [orders EXCEPT ![o] =
       [orders[o] EXCEPT !.status = "assigned", !.confirmed = TRUE,
                         !.card = @ \/ orders[o].driver # None, !.jobs = @ \ {"delivery"}]]
  /\ Start(<<>>)
  /\ UNCHANGED <<fleet, pq>>

\* _decline: the delivery ends, and its driver goes back to the queue.
DeliveryOff(o) ==
  LET d == orders[o].driver IN
    /\ orders' = [orders EXCEPT ![o].status = "cancelled", ![o].fixing = FALSE,
                                ![o].jobs = @ \ {"delivery"}]
    /\ fleet' = IF d = None THEN fleet
                ELSE IF orders[o].chatOffline THEN OffLine(LeaveQueue(fleet, d), d)
                ELSE ReturnToQueue(fleet, d)
    /\ UNCHANGED pq

\* passenger_response and _decline
PriceRefused(o) ==
  /\ orders[o].proposed
  /\ Unanswered(orders[o])
  /\ DeliveryOff(o)
  /\ Start(<<>>)

----------------------------------------------------------------------------
(* Drivers: the line.  Menu commands are refused during an offer or a trip. *)

MenuOpen(d) == ~LiveOffer(orders, d) /\ Busy(orders, d) = {}

\* driver_go_online (from away: return_from_away, the same change)
GoOnline(d) ==
  /\ MenuOpen(d)
  /\ fleet[d].line # None
  /\ fleet' = OnLine(JoinQueue(fleet, d), d)
  /\ Start(<<Promote>>)
  /\ UNCHANGED <<orders, pq>>

\* lines.set_driver_line; lines.stay_line is the case l = the current line
SetLine(d, l) ==
  /\ MenuOpen(d)
  /\ fleet' = OnLine(JoinQueue([fleet EXCEPT ![d].line = l], d), d)
  /\ Start(<<Promote>>)
  /\ UNCHANGED <<orders, pq>>

\* driver_go_offline, lines.leave_line
LeaveLine(d) ==
  /\ MenuOpen(d)
  /\ fleet' = OffLine(LeaveQueue(fleet, d), d)
  /\ Start(<<>>)
  /\ UNCHANGED <<orders, pq>>

GoAway(d) ==
  /\ MenuOpen(d)
  /\ fleet' = SetAway(fleet, d)
  /\ Start(<<>>)
  /\ UNCHANGED <<orders, pq>>

----------------------------------------------------------------------------
(* Drivers: an ordinary offer.                                              *)

\* The prompt that follows an assignment: for the price of a delivery, or
\* for the arrival time (its card replaces the card of the offer).
Prompted(o, r) == IF o \in Delivery THEN [r EXCEPT !.pricing = TRUE, !.card = FALSE]
                                    ELSE [r EXCEPT !.card = TRUE]

Accept(d, o) ==
  /\ orders[o].status \in {"searching", "created"}
  /\ orders[o].offered = d
  /\ fleet[d].onLine
  /\ orders' = [orders EXCEPT ![o] =
       Prompted(o, [orders[o] EXCEPT !.offered = None, !.driver = d, !.status = "assigned",
                                     !.jobs = @ \ {"accept", "dispatcher_unclaimed"}])]
  /\ fleet' = MarkAssigned(fleet, d)
  /\ Start(<<>>)
  /\ UNCHANGED pq

\* What every branch of driver_decline does first.
Declined(r) == [r EXCEPT !.offered = None, !.card = FALSE, !.jobs = @ \ {"accept"}]

Offered(d, o) == orders[o].status = "searching" /\ orders[o].offered = d

\* "booking", "spam": the request is cancelled, the driver keeps his place.
DeclineEnds(d, o) ==
  /\ Reason \intersect {"booking", "spam"} # {}
  /\ Offered(d, o)
  /\ fleet' = ReleaseOffer(fleet, d)
  /\ orders' = [orders EXCEPT ![o] = Cancel(Withdraw(Declined(@)))]
  /\ pq' = Unqueue(pq, o)
  /\ Start(<<Promote>>)

\* "need_address": its author is asked for a better text.  A dispatcher is
\* asked too, but handle_dispatcher does not read the answer.
DeclineAsksAddress(d, o) ==
  /\ "need_address" \in Reason
  /\ Offered(d, o)
  /\ fleet' = ReleaseOffer(fleet, d)
  /\ orders' = [orders EXCEPT ![o] = [Declined(orders[o]) EXCEPT !.status = "created",
                                                                 !.fixing = o \notin Desk]]
  /\ Start(<<Promote>>)
  /\ UNCHANGED pq

\* "away": the driver steps out, the request goes on.
DeclineAway(d, o) ==
  /\ "away" \in Reason
  /\ Offered(d, o)
  /\ fleet' = SetAway(ReleaseOffer(fleet, d), d)
  /\ orders' = [orders EXCEPT ![o] = [Declined(orders[o]) EXCEPT !.declined = @ \union {d}]]
  /\ Start(<<Offer(o, {})>>)
  /\ UNCHANGED pq

\* "dislike", "far", "delivery": the driver keeps his place.
DeclinePasses(d, o, reason) ==
  /\ reason \in Reason \intersect {"dislike", "far", "delivery"}
  /\ Offered(d, o)
  /\ fleet' = ReleaseOffer(fleet, d)
  /\ orders' = [orders EXCEPT ![o] =
       [Declined(orders[o]) EXCEPT !.declined = @ \union {d},
                                   !.special = @ \/ reason # "dislike"]]
  /\ Start(<<Offer(o, {}), Promote>>)
  /\ UNCHANGED pq

----------------------------------------------------------------------------
(* Drivers: claiming a request that is not offered to them.                 *)

\* mark_assigned, after join_queue for a driver who is not available.  It
\* does not find a row that join_queue has just added, unless a notice to the
\* new front of the line flushed it: that row may stay "waiting".
Claimed(f, d, joins) ==
  LET g == MarkAssigned(IF joins THEN OnLine(JoinQueue(f, d), d) ELSE f, d)
  IN {g} \union (IF joins /\ ~HasRow(f, d) THEN {[g EXCEPT ![d].row = "waiting"]} ELSE {})

\* driver_take_pending: any request nobody has or is being offered
ClaimPending(d, o) ==
  /\ fleet[d].line # None
  /\ orders[o].status \in Pending
  /\ orders[o].driver = None /\ orders[o].parallel = None /\ orders[o].offered = None
  /\ orders' = [orders EXCEPT ![o] = Prompted(o,
       [Withdraw(orders[o]) EXCEPT !.driver = d, !.status = "assigned", !.chatOffline = FALSE,
                                   !.jobs = @ \ {"accept", "driver_chat", "dispatcher_unclaimed"}])]
  /\ pq' = Unqueue(pq, o)
  /\ fleet' \in Claimed(fleet, d, fleet[d].status \in {"offline", "away"} \/ ~fleet[d].onLine)
  /\ Start(<<>>)

TakePending(d, o) == MenuOpen(d) /\ ClaimPending(d, o)

\* The driver who has it is not looked at.
BrokenChatClaimable(d, r) == r.posted /\ r.status \notin Closed

ChatClaimable(d, r) == r.posted /\ r.status \in Pending /\ r.driver \in {None, d}

\* driver_take_from_chat, by the button of a card that was posted there.  A
\* driver with a live offer never gets that far: see the README.
TakeFromChat(d, o) ==
  /\ ~LiveOffer(orders, d)
  /\ Busy(orders, d) \subseteq {o}
  /\ ChatClaimable(d, orders[o])
  /\ orders' = [orders EXCEPT ![o] =
       [Withdraw(orders[o]) EXCEPT !.driver = d, !.status = "assigned", !.offered = None,
                                   !.card = TRUE, !.chatOffline = ~fleet[d].onLine,
                                   !.jobs = @ \ {"accept", "driver_chat", "dispatcher_unclaimed"}]]
  /\ pq' = Unqueue(pq, o)
  /\ fleet' \in Claimed(fleet, d, fleet[d].status = "away" \/ ~fleet[d].onLine)
  /\ Start(<<>>)

----------------------------------------------------------------------------
(* Drivers: the trip.                                                       *)

\* delivery_service.submit_price: a dispatcher's delivery is confirmed at once
SubmitPrice(d, o) ==
  /\ orders[o].pricing
  /\ orders[o].driver = d
  /\ orders[o].status = "assigned"
  /\ orders' = [orders EXCEPT ![o] =
       IF o \in Desk
       THEN [orders[o] EXCEPT !.pricing = FALSE, !.confirmed = TRUE, !.card = TRUE]
       ELSE [orders[o] EXCEPT !.pricing = FALSE, !.confirmed = FALSE, !.proposed = TRUE,
                              !.fixing = FALSE, !.jobs = @ \union {"delivery"}]]
  /\ Start(<<>>)
  /\ UNCHANGED <<fleet, pq>>

\* _apply_eta, while the card that asks for the time is on screen
ApplyEta(d, o) ==
  /\ o \in Busy(orders, d)
  /\ orders[o].card
  /\ orders' = [orders EXCEPT ![o].card = FALSE, ![o].departed = TRUE,
                              ![o].fixing = FALSE]
  /\ Start(<<>>)
  /\ UNCHANGED <<fleet, pq>>

\* driver_arrived, whatever the stage of the trip; notify_after_arrival then
\* looks at the parallel orders (the youngest one: here, any).
Arrived(d, o) ==
  /\ o \in Busy(orders, d)
  /\ orders' = [orders EXCEPT ![o].status = "arrived"]
  /\ fleet' = Repaired
  /\ LET S == {p \in Order : Unclaimed(orders[p]) /\ ~FreeFirst(Repaired, orders, p)}
     IN \/ S = {} /\ Start(<<>>)
        \/ \E p \in S : Start(<<Do("notify", p)>>)
  /\ UNCHANGED pq

\* driver_seated, driver_bought
Seated(d, o) ==
  /\ o \in Busy(orders, d)
  /\ orders' = [orders EXCEPT ![o].status = "in_progress"]
  /\ Start(<<>>)
  /\ UNCHANGED <<fleet, pq>>

\* driver_complete_ride, driver_complete_delivery
Complete(d, o) ==
  /\ o \in Busy(orders, d)
  /\ orders' = [orders EXCEPT ![o].status = "completed", ![o].jobs = {},
                              ![o].fixing = FALSE]
  /\ Start(<<Do("release", o), For("rideDone", o, d)>>)
  /\ UNCHANGED <<fleet, pq>>

\* _leave_temporary_chat_line
LeaveChatLine(f, o, d) ==
  IF orders[o].chatOffline THEN OffLine(LeaveQueue(f, d), d) ELSE f

RideDone ==
  /\ Calling("rideDone")
  /\ LET d == Arg.driver IN
       /\ fleet' = LeaveChatLine(fleet, Arg.order, d)
       /\ IF Reservations(orders, d) # {} THEN Then(<<For("startReserved", None, d)>>)
                                          ELSE Then(<<For("postRide", None, d)>>)
  /\ UNCHANGED <<orders, pq>>

\* driver_cancel_active: "customer_cancel" and "no_show" void the trip,
\* "car" hands the request to another driver.
CancelActive(d, o, outcome) ==
  /\ o \in Busy(orders, d)
  /\ orders[o].status \in Active \union {"searching"}
  /\ orders' = [orders EXCEPT ![o].jobs = {}]
  /\ Start(<<Do("release", o), For(outcome, o, d)>>)
  /\ UNCHANGED <<fleet, pq>>

\* With a reservation pending, the trip itself is not cancelled.
BrokenTripVoided ==
  /\ Calling("tripVoided")
  /\ LET d == Arg.driver
         next == Reservations(orders, d) # {}
     IN /\ orders' = IF next THEN orders ELSE [orders EXCEPT ![Arg.order] = Cancel(@)]
        /\ fleet' = IF next THEN fleet ELSE SetAway(fleet, d)
        /\ Then(IF next THEN <<For("startReserved", None, d)>>
                        ELSE <<Promote, For("postRide", None, d)>>)
  /\ UNCHANGED pq

TripVoided ==
  /\ Calling("tripVoided")
  /\ LET o == Arg.order
         d == Arg.driver
         next == Reservations(orders, d) # {}
     IN /\ orders' = [orders EXCEPT ![o] = Cancel(@)]
        /\ fleet' = LeaveChatLine(IF next THEN fleet ELSE SetAway(fleet, d), o, d)
        /\ Then(IF next THEN <<For("startReserved", None, d)>>
                        ELSE <<Promote, For("postRide", None, d)>>)
  /\ UNCHANGED pq

\* _release: a reserved request returns to the queue.
Released(r) == [r EXCEPT !.parallel = None, !.driver = None, !.etaSet = FALSE,
                         !.status = "queued", !.jobs = @ \ {"parallel_eta"}]

\* The reservation stays with the driver whose car failed.
BrokenCarFailed ==
  /\ Calling("carFailed")
  /\ Then(<<For("tripLost", Arg.order, Arg.driver)>>)
  /\ UNCHANGED <<fleet, orders, pq>>

\* release_reserved comes first, with its own try_promote.
CarFailed ==
  /\ Calling("carFailed")
  /\ LET d == Arg.driver
         rest == For("tripLost", Arg.order, d)
     IN \/ /\ Reservations(orders, d) = {}
           /\ Then(<<rest>>)
           /\ UNCHANGED <<orders, pq>>
        \/ \E p \in Reservations(orders, d) :
             /\ orders' = [orders EXCEPT ![p] = Released(@)]
             /\ pq' = [Enqueue(pq, p) EXCEPT ![p].row = "waiting"]
             /\ Then(<<Promote, rest>>)
  /\ UNCHANGED fleet

TripLost ==
  /\ Calling("tripLost")
  /\ LET o == Arg.order
         d == Arg.driver
     IN IF orders[o].chatOffline
        THEN /\ orders' = [orders EXCEPT ![o].status = "cancelled"]
             /\ fleet' = OffLine(LeaveQueue(fleet, d), d)
             /\ Then(<<For("postRide", None, d)>>)
        ELSE /\ orders' = [orders EXCEPT ![o].status = "searching", ![o].driver = None,
                                         ![o].pricing = FALSE]
             /\ fleet' = SetAway(fleet, d)
             /\ Then(<<Offer(o, {}), Promote, For("postRide", None, d)>>)
  /\ UNCHANGED pq

----------------------------------------------------------------------------
(* Drivers: parallel orders.                                                *)

\* parallel_orders.take, from the list
Take(d, o, t) ==
  /\ t \in Trips(orders, d)
  /\ Reservations(orders, d) = {}
  /\ Unclaimed(orders[o])
  /\ ~FreeFirst(Repaired, orders, o)
  /\ Allowed(t, o)
  /\ orders' = [orders EXCEPT ![o] =
       [CloseRoute(orders[o]) EXCEPT !.parallel = d, !.driver = d, !.status = "parallel_assigned",
                                     !.card = TRUE, !.jobs = @ \union {"parallel_eta"}]]
  /\ pq' = Unqueue(pq, o)
  /\ fleet' = MarkAssigned(Repaired, d)
  /\ Start(<<>>)

\* parallel_orders.take_route_offer: the card must still belong to this trip
TakeRouteOffer(d, o, t) ==
  /\ orders[o].routeDriver = d
  /\ orders[o].routeTrip = t
  /\ ~orders[t].autoOff
  /\ Take(d, o, t)

Reserved(d, o) == orders[o].parallel = d /\ orders[o].status = "parallel_assigned"

\* parallel_orders.save_eta
SaveEta(d, o) ==
  /\ Reserved(d, o)
  /\ orders' = [orders EXCEPT ![o].etaSet = TRUE, ![o].card = FALSE,
                              ![o].jobs = @ \ {"parallel_eta"}]
  /\ Start(<<>>)
  /\ UNCHANGED <<fleet, pq>>

\* parallel_orders.decline: a request from the village the driver is going
\* to falls back to the Gorno line, any other one returns to the queue.
DeclineReserved(d, o) ==
  /\ Reserved(d, o)
  /\ orders' = [orders EXCEPT ![o] = [Released(orders[o]) EXCEPT !.card = FALSE]]
  /\ IF Pickup[o] # None /\ \E t \in Trips(orders, d) : Dest[t] = Pickup[o]
     THEN /\ Start(<<Do("fallback", o)>>)
          /\ UNCHANGED pq
     ELSE /\ pq' = [Enqueue(pq, o) EXCEPT ![o].row = "waiting"]
          /\ Start(<<Promote>>)
  /\ UNCHANGED fleet

\* parallel_orders.decline_route_offer
DeclineRouteOffer(d, o) ==
  /\ Unclaimed(orders[o])
  /\ orders[o].routeDriver = d
  /\ orders[o].routeTrip \in Trips(orders, d)
  /\ orders' = [orders EXCEPT ![o] = [CloseRoute(orders[o]) EXCEPT !.noAuto = @ \union {d}]]
  /\ Start(<<Do("fallback", o)>>)
  /\ UNCHANGED <<fleet, pq>>

----------------------------------------------------------------------------
(* Timers and the recovery worker.                                          *)

\* Two kinds have no callback.
BrokenFires(kind, o) == kind \in orders[o].jobs \ {"parallel_eta", "pqueue"}

Fires(kind, o) == kind \in orders[o].jobs

\* order_service._accept_timeout
AcceptTimeout(o) ==
  /\ Fires("accept", o)
  /\ LET d == orders[o].offered IN
       IF orders[o].status = "searching" /\ d # None
       THEN /\ fleet' = OffLine(LeaveQueue(fleet, d), d)
            /\ orders' = [orders EXCEPT ![o] = Declined(@)]
            /\ Start(<<Offer(o, {d}), Promote>>)
       ELSE /\ orders' = [orders EXCEPT ![o].jobs = @ \ {"accept"}]
            /\ Start(<<>>)
            /\ UNCHANGED fleet
  /\ UNCHANGED pq

\* passenger_queue._poll_timeout
PollTimeout(o) ==
  /\ Fires("pqueue", o)
  /\ IF pq[o].row = "polling"
     THEN /\ orders' = [orders EXCEPT ![o] =
                 [Withdraw(orders[o]) EXCEPT !.status = "cancelled", !.fixing = FALSE]]
          /\ pq' = Unqueue(pq, o)
          /\ Start(<<PromoteUnflushed>>)
     ELSE /\ orders' = [orders EXCEPT ![o].jobs = @ \ {"pqueue"}]
          /\ Start(<<>>)
          /\ UNCHANGED pq
  /\ UNCHANGED fleet

\* parallel_orders._eta_timeout
EtaTimeout(o) ==
  /\ Fires("parallel_eta", o)
  /\ IF orders[o].status = "parallel_assigned" /\ ~orders[o].etaSet
     THEN /\ orders' = [orders EXCEPT ![o] = [Released(orders[o]) EXCEPT !.card = FALSE]]
          /\ pq' = [Enqueue(pq, o) EXCEPT ![o].row = "waiting"]
          /\ Start(<<Promote>>)
     ELSE /\ orders' = [orders EXCEPT ![o].jobs = @ \ {"parallel_eta"}]
          /\ Start(<<>>)
          /\ UNCHANGED pq
  /\ UNCHANGED fleet

\* parallel_orders._route_offer_timeout: the driver did not answer, and gets
\* no more cards during this trip.
RouteOfferTimeout(o) ==
  /\ Fires("route_parallel_offer", o)
  /\ LET r == orders[o]
         d == r.routeDriver
         closed == [orders EXCEPT ![o] = CloseRoute(@)]
     IN IF d # None /\ Unclaimed(r)
        THEN /\ orders' = [p \in Order |->
                  IF p = o THEN [closed[o] EXCEPT !.noAuto = @ \union {d}]
                  ELSE IF p = r.routeTrip /\ p \in Trips(orders, d)
                       THEN [closed[p] EXCEPT !.autoOff = TRUE]
                  ELSE closed[p]]
             /\ Start(<<Do("fallback", o), Promote>>)
        ELSE /\ orders' = closed
             /\ Start(<<>>)
  /\ UNCHANGED <<fleet, pq>>

\* order_service._driver_chat_timeout
ChatTimeout(o) ==
  /\ Fires("driver_chat", o)
  /\ orders' = [orders EXCEPT ![o] =
       IF orders[o].status = "chat_search"
       THEN [orders[o] EXCEPT !.status = "cancelled", !.fixing = FALSE,
                              !.jobs = @ \ {"driver_chat"}]
       ELSE [orders[o] EXCEPT !.jobs = @ \ {"driver_chat"}]]
  /\ Start(<<>>)
  /\ UNCHANGED <<fleet, pq>>

\* passenger_queue._dispatcher_unclaimed_timeout
UnclaimedTimeout(o) ==
  /\ Fires("dispatcher_unclaimed", o)
  /\ LET r == orders[o] IN
       IF r.driver = None /\ r.parallel = None /\ r.status \in Pending
       THEN /\ fleet' = IF r.offered = None THEN fleet ELSE ReleaseOffer(fleet, r.offered)
            /\ orders' = [orders EXCEPT ![o] =
                 [Withdraw(orders[o]) EXCEPT !.status = "cancelled", !.offered = None,
                                             !.jobs = @ \ {"accept", "dispatcher_unclaimed"}]]
            /\ pq' = Unqueue(pq, o)
       ELSE /\ orders' = [orders EXCEPT ![o].jobs = @ \ {"dispatcher_unclaimed"}]
            /\ UNCHANGED <<fleet, pq>>
  /\ Start(<<>>)

\* delivery_service._confirm_timeout
DeliveryTimeout(o) ==
  /\ Fires("delivery", o)
  /\ IF Unanswered(orders[o])
     THEN DeliveryOff(o)
     ELSE /\ orders' = [orders EXCEPT ![o].jobs = @ \ {"delivery"}]
          /\ UNCHANGED <<fleet, pq>>
  /\ Start(<<>>)

\* driver_away_timeout_service.expire: set_away starts this timer and every
\* other change of the status cancels it, so it is pending exactly while the
\* driver is away.
AwayTimeout(d) ==
  /\ fleet[d].status = "away"
  /\ fleet' = OffLine(LeaveQueue(fleet, d), d)
  /\ Start(<<>>)
  /\ UNCHANGED <<orders, pq>>

\* The worker does not promote.
BrokenRecovery ==
  /\ Start(<<>>)
  /\ UNCHANGED <<fleet, orders, pq>>

\* passenger_queue._recovery_worker, every three seconds
Recovery ==
  /\ Start(<<Promote>>)
  /\ UNCHANGED <<fleet, orders, pq>>

----------------------------------------------------------------------------

ResumedStep == PassengerGone \/ RideDone \/ TripVoided \/ CarFailed \/ TripLost

PassengerStep ==
  \E o \in Order :
    \/ NewRide(o) \/ NewDeskRide(o) \/ PassengerCancel(o)
    \/ ConfirmActual(o) \/ ConfirmNot(o) \/ NewAddress(o)
    \/ PriceAgreed(o) \/ PriceRefused(o)

LineStep ==
  \E d \in Driver :
    \/ GoOnline(d) \/ LeaveLine(d) \/ GoAway(d)
    \/ \E l \in Line : SetLine(d, l)

OfferStep ==
  \E d \in Driver, o \in Order :
    \/ Accept(d, o) \/ DeclineEnds(d, o) \/ DeclineAsksAddress(d, o)
    \/ DeclineAway(d, o) \/ \E reason \in Reason : DeclinePasses(d, o, reason)
    \/ TakePending(d, o) \/ TakeFromChat(d, o)

TripStep ==
  \E d \in Driver, o \in Order :
    \/ SubmitPrice(d, o) \/ ApplyEta(d, o) \/ Arrived(d, o) \/ Seated(d, o)
    \/ Complete(d, o)
    \/ \E outcome \in {"tripVoided", "carFailed"} : CancelActive(d, o, outcome)

ParallelStep ==
  \E d \in Driver, o \in Order :
    \/ \E t \in Order : Take(d, o, t) \/ TakeRouteOffer(d, o, t)
    \/ SaveEta(d, o) \/ DeclineReserved(d, o) \/ DeclineRouteOffer(d, o)

TimerStep ==
  \/ \E o \in Order :
       \/ AcceptTimeout(o) \/ PollTimeout(o) \/ EtaTimeout(o)
       \/ RouteOfferTimeout(o) \/ ChatTimeout(o) \/ UnclaimedTimeout(o)
       \/ DeliveryTimeout(o)
  \/ \E d \in Driver : AwayTimeout(d)

Next ==
  \/ DispatchStep \/ ResumedStep
  \/ PassengerStep \/ LineStep \/ OfferStep \/ TripStep \/ ParallelStep
  \/ TimerStep \/ Recovery

Spec == Init /\ [][Next]_vars
============================================================================
