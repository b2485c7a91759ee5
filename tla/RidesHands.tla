----------------------------- MODULE RidesHands -----------------------------
(***************************************************************************)
(* What is true of a request.                                              *)
(*                                                                         *)
(* Its type: the lemmas follow the modules, one for the functions of the   *)
(* driver queue, one for the changes of a request, one for the calls on    *)
(* the agenda, and one per group of actions.  Each action is split into    *)
(* the records it writes; a record that is written is shown to be of its   *)
(* type before it is put into the table (PutOrder).                        *)
(*                                                                         *)
(* One question at a time, as long as promotions take turns: ScanAsks puts *)
(* a question on screen in a state that must have none.  OneQuestion itself*)
(* does not say so; QuestionInv, which every step keeps that overlooks no  *)
(* question, adds that a promotion which is looking through the queue is   *)
(* the call on top and began by withdrawing every question.                *)
(*                                                                         *)
(* Where a request is, and who has still to act on it: HandsInv, the       *)
(* invariant behind WaitsHaveTimers, CardIsAlone and NoHandover.  A request*)
(* may reach a driver by five ways (an offer, the queue, a card for the    *)
(* road, the chat, a reservation), and every function that moves it along  *)
(* one of them takes it off the others; HandsInv says so of every state,   *)
(* the middle of a transaction included, and says what each call that is   *)
(* still to be made finds when its turn comes.                             *)
(***************************************************************************)
EXTENDS Overlaps, TLAPS, SequenceTheorems

\* Every function of bot/queue_service.py turns a fleet into a fleet: status
\* words, row words and places stay within their columns.
LEMMA TailIsFleet ==
  ASSUME NEW f \in Fleets, NEW d \in Driver
  PROVE  ToTail(f, d) \in Fleets
<1>1. ASSUME NEW e \in Driver
      PROVE  [f[e] EXCEPT !.ahead = IF e = d THEN {x \in Driver \ {d} : HasRow(f, x)}
                                             ELSE @ \ {d}] \in DriverRecord
  <2>1. f[e] \in DriverRecord
    BY DEF Fleets
  <2>2. f[e].ahead \in SUBSET Driver
    BY <2>1 DEF DriverRecord
  <2> DEFINE A == IF e = d THEN {x \in Driver \ {d} : HasRow(f, x)}
                           ELSE f[e].ahead \ {d}
  <2>3. A \in SUBSET Driver
    BY <2>2
  <2> HIDE DEF A
  <2>4. [f[e] EXCEPT !.ahead = A] \in DriverRecord
    BY <2>1, <2>3 DEF DriverRecord
  <2> QED
    BY <2>4 DEF A
<1> QED
  BY <1>1 DEF ToTail, Fleets

\* A function of queue_service that writes the status of a row and the status
\* of its driver writes words both columns have.
LEMMA RowAndStatus ==
  ASSUME NEW f \in Fleets, NEW d \in Driver, NEW s \in Row, NEW t \in Status
  PROVE  [f EXCEPT ![d].row = s, ![d].status = t] \in Fleets
<1>1. f[d] \in DriverRecord
  BY DEF Fleets
<1>2. [f[d] EXCEPT !.row = s, !.status = t] \in DriverRecord
  BY <1>1 DEF DriverRecord
<1>3. [f EXCEPT ![d].row = s, ![d].status = t]
        = [f EXCEPT ![d] = [f[d] EXCEPT !.row = s, !.status = t]]
  BY DEF Fleets
<1> QED
  BY <1>2, <1>3 DEF Fleets

\* join_queue, leave_queue, set_away, mark_assigned, mark_offered,
\* release_offer, return_to_queue and restore_position, and the switch of
\* is_on_line, turn a fleet into a fleet.
LEMMA FleetTypes ==
  ASSUME NEW f \in Fleets, NEW d \in Driver
  PROVE  /\ JoinQueue(f, d) \in Fleets
         /\ LeaveQueue(f, d) \in Fleets
         /\ SetAway(f, d) \in Fleets
         /\ MarkAssigned(f, d) \in Fleets
         /\ MarkOffered(f, d) \in Fleets
         /\ ReleaseOffer(f, d) \in Fleets
         /\ ReturnToQueue(f, d) \in Fleets
         /\ RestorePosition(f, d) \in Fleets
         /\ OffLine(f, d) \in Fleets
         /\ OnLine(f, d) \in Fleets
<1>1. \A e \in Driver : f[e] \in DriverRecord
  BY DEF Fleets
<1>2. \A r \in Row : RowTo(f, d, r) \in Row
  BY DEF RowTo, Row
<1>3. JoinQueue(f, d) \in Fleets
  <2>1. "waiting" \in Row /\ "online" \in Status
    BY DEF Row, Status
  <2>2. [f EXCEPT ![d].row = "waiting", ![d].status = "online"] \in Fleets
    BY <2>1, RowAndStatus
  <2> QED
    BY <2>2, TailIsFleet DEF JoinQueue
<1>4. LeaveQueue(f, d) \in Fleets
  <2>1. "none" \in Row /\ "offline" \in Status
    BY DEF Row, Status
  <2>2. ASSUME NEW r \in DriverRecord
        PROVE  [r EXCEPT !.row = "none", !.status = "offline", !.ahead = {}] \in DriverRecord
    BY <2>1 DEF DriverRecord
  <2>3. ASSUME NEW e \in Driver
        PROVE  [f[e] EXCEPT !.ahead = @ \ {d}] \in DriverRecord
    BY <1>1 DEF DriverRecord
  <2> QED
    BY <1>1, <2>2, <2>3 DEF LeaveQueue, Fleets
<1>5. SetAway(f, d) \in Fleets
  <2> DEFINE s == RowTo(f, d, "away")
             t == "away"
  <2>1. s \in Row /\ t \in Status
    BY <1>1, <1>2 DEF DriverRecord, Row, Status
  <2>2. SetAway(f, d) = [f EXCEPT ![d].row = s, ![d].status = t]
    BY DEF SetAway, Fleets
  <2> HIDE DEF s, t
  <2>3. [f EXCEPT ![d].row = s, ![d].status = t] \in Fleets
    BY <2>1, RowAndStatus
  <2> QED
    BY <2>2, <2>3
<1>6. MarkAssigned(f, d) \in Fleets
  <2> DEFINE s == RowTo(f, d, "assigned")
             t == "busy"
  <2>1. s \in Row /\ t \in Status
    BY <1>1, <1>2 DEF DriverRecord, Row, Status
  <2>2. MarkAssigned(f, d) = [f EXCEPT ![d].row = s, ![d].status = t]
    BY DEF MarkAssigned, Fleets
  <2> HIDE DEF s, t
  <2>3. [f EXCEPT ![d].row = s, ![d].status = t] \in Fleets
    BY <2>1, RowAndStatus
  <2> QED
    BY <2>2, <2>3
<1>7. MarkOffered(f, d) \in Fleets
  <2> DEFINE s == "offered"
             t == f[d].status
  <2>1. s \in Row /\ t \in Status
    BY <1>1, <1>2 DEF DriverRecord, Row, Status
  <2>2. MarkOffered(f, d) = [f EXCEPT ![d].row = s, ![d].status = t]
    BY DEF MarkOffered, Fleets
  <2> HIDE DEF s, t
  <2>3. [f EXCEPT ![d].row = s, ![d].status = t] \in Fleets
    BY <2>1, RowAndStatus
  <2> QED
    BY <2>2, <2>3
<1>8. ReleaseOffer(f, d) \in Fleets
  <2> DEFINE s == IF f[d].row = "offered" THEN "waiting" ELSE f[d].row
             t == IF f[d].status = "away" THEN f[d].status ELSE "online"
  <2>1. s \in Row /\ t \in Status
    BY <1>1, <1>2 DEF DriverRecord, Row, Status
  <2>2. ReleaseOffer(f, d) = [f EXCEPT ![d].row = s, ![d].status = t]
    BY DEF ReleaseOffer, Fleets
  <2> HIDE DEF s, t
  <2>3. [f EXCEPT ![d].row = s, ![d].status = t] \in Fleets
    BY <2>1, RowAndStatus
  <2> QED
    BY <2>2, <2>3
<1>9. RestorePosition(f, d) \in Fleets
  <2> DEFINE s == RowTo(f, d, "waiting")
             t == IF HasRow(f, d) THEN "online" ELSE "offline"
  <2>1. s \in Row /\ t \in Status
    BY <1>1, <1>2 DEF DriverRecord, Row, Status
  <2>2. RestorePosition(f, d) = [f EXCEPT ![d].row = s, ![d].status = t]
    BY DEF RestorePosition, Fleets
  <2> HIDE DEF s, t
  <2>3. [f EXCEPT ![d].row = s, ![d].status = t] \in Fleets
    BY <2>1, RowAndStatus
  <2> QED
    BY <2>2, <2>3
<1>10. ReturnToQueue(f, d) \in Fleets
  <2>1. f[d].row \in Row /\ "offline" \in Status
    BY <1>1 DEF DriverRecord, Status
  <2>2. [f EXCEPT ![d].row = f[d].row, ![d].status = "offline"] \in Fleets
    BY <2>1, RowAndStatus
  <2>3. [f EXCEPT ![d].status = "offline"]
          = [f EXCEPT ![d].row = f[d].row, ![d].status = "offline"]
    BY DEF Fleets
  <2> QED
    BY <1>3, <2>2, <2>3 DEF ReturnToQueue
<1>11. OffLine(f, d) \in Fleets
  <2>1. [f[d] EXCEPT !.onLine = FALSE] \in DriverRecord
    BY <1>1 DEF DriverRecord
  <2>2. OffLine(f, d) = [f EXCEPT ![d] = [f[d] EXCEPT !.onLine = FALSE]]
    BY DEF OffLine, Fleets
  <2> QED
    BY <2>1, <2>2 DEF Fleets
<1>12. OnLine(f, d) \in Fleets
  <2>1. [f[d] EXCEPT !.onLine = TRUE] \in DriverRecord
    BY <1>1 DEF DriverRecord
  <2>2. OnLine(f, d) = [f EXCEPT ![d] = [f[d] EXCEPT !.onLine = TRUE]]
    BY DEF OnLine, Fleets
  <2> QED
    BY <2>1, <2>2 DEF Fleets
<1> QED
  BY <1>3, <1>4, <1>5, <1>6, <1>7, <1>8, <1>9, <1>10, <1>11, <1>12

\* So does _repair_visibly_free_drivers, whoever it holds to be engaged.
LEMMA RepairIsFleet ==
  ASSUME NEW f \in Fleets, NEW engaged
  PROVE  Repair(f, engaged) \in Fleets
<1>1. ASSUME NEW d \in Driver
      PROVE  [f[d] EXCEPT !.row = "waiting",
                          !.ahead = IF HasRow(f, d) THEN @
                                    ELSE {x \in Driver \ {d} : HasRow(f, x)}] \in DriverRecord
  <2>1. f[d] \in DriverRecord
    BY DEF Fleets
  <2> DEFINE A == IF HasRow(f, d) THEN f[d].ahead
                                  ELSE {x \in Driver \ {d} : HasRow(f, x)}
  <2>2. A \in SUBSET Driver
    BY <2>1 DEF DriverRecord
  <2> HIDE DEF A
  <2>3. [f[d] EXCEPT !.row = "waiting", !.ahead = A] \in DriverRecord
    BY <2>1, <2>2 DEF DriverRecord, Row
  <2> QED
    BY <2>3 DEF A
<1>2. \A d \in Driver : f[d] \in DriverRecord
  BY DEF Fleets
<1> QED
  BY <1>1, <1>2 DEF Repair, Fleets

\* So does the claim of a request by a driver, with or without a new row.
LEMMA ClaimedAreFleets ==
  ASSUME NEW f \in Fleets, NEW d \in Driver, NEW joins, NEW g \in Claimed(f, d, joins)
  PROVE  g \in Fleets
<1> DEFINE h == MarkAssigned(IF joins THEN OnLine(JoinQueue(f, d), d) ELSE f, d)
<1>1. h \in Fleets
  BY FleetTypes
<1>2. h[d].status \in Status /\ "waiting" \in Row
  BY <1>1 DEF Fleets, DriverRecord, Row
<1>3. [h EXCEPT ![d].row = "waiting", ![d].status = h[d].status] \in Fleets
  BY <1>1, <1>2, RowAndStatus
<1>4. [h EXCEPT ![d].row = "waiting"]
        = [h EXCEPT ![d].row = "waiting", ![d].status = h[d].status]
  BY <1>1 DEF Fleets
<1> HIDE DEF h
<1>5. g = h \/ g = [h EXCEPT ![d].row = "waiting"]
  BY DEF Claimed, h
<1> QED
  BY <1>1, <1>3, <1>4, <1>5

\* The changes of one request that several functions share keep its fields
\* within their columns.
LEMMA OrderTypes ==
  ASSUME NEW r \in OrderRecord, NEW o \in Order
  PROVE  /\ CloseRoute(r) \in OrderRecord
         /\ Withdraw(r) \in OrderRecord
         /\ Cancel(r) \in OrderRecord
         /\ Declined(r) \in OrderRecord
         /\ Released(r) \in OrderRecord
         /\ Prompted(o, r) \in OrderRecord
<1>1. CloseRoute(r) \in OrderRecord
  BY DEF CloseRoute, OrderRecord
<1>2. Withdraw(r) \in OrderRecord
  BY <1>1 DEF Withdraw, OrderRecord
<1>3. Cancel(r) \in OrderRecord
  BY DEF Cancel, OrderRecord, OrderStatus
<1>4. Declined(r) \in OrderRecord
  BY DEF Declined, OrderRecord
<1>5. Released(r) \in OrderRecord
  BY DEF Released, OrderRecord, OrderStatus
<1>6. Prompted(o, r) \in OrderRecord
  BY DEF Prompted, OrderRecord
<1> QED
  BY <1>1, <1>2, <1>3, <1>4, <1>5, <1>6

\* passenger_queue.enqueue and the deletion of a row keep the queue of waiting
\* requests a queue.
LEMMA QueueTypes ==
  ASSUME NEW q \in [Order -> QueueRecord], NEW o \in Order
  PROVE  /\ Enqueue(q, o) \in [Order -> QueueRecord]
         /\ Unqueue(q, o) \in [Order -> QueueRecord]
<1>1. Enqueue(q, o) \in [Order -> QueueRecord]
  BY DEF Enqueue, QueueRecord
<1>2. Unqueue(q, o) \in [Order -> QueueRecord]
  BY DEF Unqueue, QueueRecord
<1> QED
  BY <1>1, <1>2

\* So does pause_actuality_prompts, whichever questions it withdraws.
LEMMA PauseTypes ==
  ASSUME NEW q \in [Order -> QueueRecord], NEW P
  PROVE  Pause(q, P) \in [Order -> QueueRecord]
BY DEF Pause, QueueRecord

\* An update of one request is an update of the table.
LEMMA PutOrder ==
  ASSUME NEW os \in [Order -> OrderRecord], NEW o \in Order, NEW r \in OrderRecord
  PROVE  [os EXCEPT ![o] = r] \in [Order -> OrderRecord]
OBVIOUS

\* Cancelling the timers of withdrawn questions keeps the requests' fields.
LEMMA PollsTypes ==
  ASSUME NEW os \in [Order -> OrderRecord], NEW P
  PROVE  WithoutPolls(os, P) \in [Order -> OrderRecord]
<1>1. ASSUME NEW r \in OrderRecord
      PROVE  [r EXCEPT !.jobs = @ \ {"pqueue"}] \in OrderRecord
  BY DEF OrderRecord
<1> QED
  BY <1>1 DEF WithoutPolls

\* Every call that dispatch or a handler pushes is a call.
LEMMA CallTypes ==
  /\ Promote \in Call /\ PromoteUnflushed \in Call
  /\ \A todo \in SUBSET Order : Scan(todo) \in Call
  /\ \A o \in Order, but \in SUBSET Driver : Offer(o, but) \in Call
  /\ \A o \in Order, fn \in Function \ (AboutNoOrder \union ForDriver) : Do(fn, o) \in Call
  /\ \A d \in Driver : /\ For("startReserved", None, d) \in Call
                       /\ For("postRide", None, d) \in Call
  /\ \A d \in Driver, o \in Order :
       \A fn \in ForDriver \ AboutNoOrder : For(fn, o, d) \in Call
<1> USE NoneAssumption DEF Do, Call, Function, AboutNoOrder, ForDriver
<1>1. Promote \in Call /\ PromoteUnflushed \in Call
  BY DEF Promote, PromoteUnflushed
<1>2. \A todo \in SUBSET Order : Scan(todo) \in Call
  BY DEF Scan
<1>3. \A o \in Order, but \in SUBSET Driver : Offer(o, but) \in Call
  BY DEF Offer
<1>4. \A o \in Order, fn \in Function \ (AboutNoOrder \union ForDriver) : Do(fn, o) \in Call
  OBVIOUS
<1>5. \A d \in Driver : /\ For("startReserved", None, d) \in Call
                        /\ For("postRide", None, d) \in Call
  BY DEF For
<1>6. \A d \in Driver, o \in Order :
        \A fn \in ForDriver \ AboutNoOrder : For(fn, o, d) \in Call
  BY DEF For
<1> QED
  BY <1>1, <1>2, <1>3, <1>4, <1>5, <1>6

\* What a call that is executed is about.
LEMMA ArgTypes ==
  ASSUME agenda \in Seq(Call), ~Idle
  PROVE  /\ Arg \in Call
         /\ Tail(agenda) \in Seq(Call)
         /\ Arg.but \in SUBSET Driver
         /\ Arg.todo \in SUBSET Order
         /\ Arg.fn \notin AboutNoOrder => Arg.order \in Order
         /\ Arg.fn \in ForDriver => Arg.driver \in Driver
<1>1. Arg \in Call /\ Tail(agenda) \in Seq(Call)
  BY DEF Arg, Idle
<1> QED
  BY <1>1 DEF Call

\* Up to three calls pushed on the calls that are left are calls.
LEMMA PushTypes ==
  ASSUME NEW s \in Seq(Call)
  PROVE  /\ <<>> \o s \in Seq(Call)
         /\ \A a \in Call : <<a>> \o s \in Seq(Call)
         /\ \A a, b \in Call : <<a, b>> \o s \in Seq(Call)
         /\ \A a, b, c \in Call : <<a, b, c>> \o s \in Seq(Call)
<1>1. \A t \in Seq(Call) : t \o s \in Seq(Call)
  BY ConcatProperties
<1>2. /\ <<>> \in Seq(Call)
      /\ \A a \in Call : <<a>> \in Seq(Call)
      /\ \A a, b \in Call : <<a, b>> \in Seq(Call)
      /\ \A a, b, c \in Call : <<a, b, c>> \in Seq(Call)
  OBVIOUS
<1> QED
  BY <1>1, <1>2

\* An update of the status of one row in the queue of waiting requests.
LEMMA QueueRow ==
  ASSUME NEW q \in [Order -> QueueRecord], NEW o \in Order, NEW w \in {"none", "waiting", "polling"}
  PROVE  [q EXCEPT ![o].row = w] \in [Order -> QueueRecord]
<1>1. [q[o] EXCEPT !.row = w] \in QueueRecord
  BY DEF QueueRecord
<1>2. [q EXCEPT ![o].row = w] = [q EXCEPT ![o] = [q[o] EXCEPT !.row = w]]
  OBVIOUS
<1> QED
  BY <1>1, <1>2

\* Every call of module Dispatch keeps the types: offer_to_next_driver,
\* _handle_no_driver, notify_busy_drivers, _fallback_to_free_drivers,
\* try_promote, release_route_offers_for_trip, promote_after_current and
\* ask_post_ride_line.
LEMMA DispatchTypes ==
  ASSUME TypeOK, DispatchStep
  PROVE  TypeOK'
<1> USE DEF Calling, Notifying, FallingBack, Promoting, Then, Return
<1>1. /\ fleet \in Fleets /\ orders \in [Order -> OrderRecord]
      /\ pq \in [Order -> QueueRecord] /\ agenda \in Seq(Call)
  BY DEF TypeOK
<1>2. Repaired \in Fleets
  BY <1>1, RepairIsFleet DEF Repaired
<1>3. ~Idle
  BY DEF DispatchStep, OfferRefused, OfferMade, OfferFindsNobody, NoDriverParks,
         NoDriverToChat, NotifyMade, NotifyNobody, FallbackOffers,
         FallbackWaits, PromoteMisses, PromoteWaitsForAnswer, PromoteStarts, ScanEnds,
         ScanFallsBack, ScanAsks, ScanOffers, ScanNotifies, ReleaseNext, ReleaseEnds,
         StartReserved, PostRide
<1>4. /\ Tail(agenda) \in Seq(Call)
      /\ Arg.todo \in SUBSET Order
      /\ Arg.fn \notin AboutNoOrder => Arg.order \in Order
      /\ Arg.fn \in ForDriver => Arg.driver \in Driver
  BY <1>1, <1>3, ArgTypes
<1>5. /\ \A c \in Call : <<c>> \o Tail(agenda) \in Seq(Call)
      /\ \A o \in Order : <<Offer(o, {})>> \o Tail(agenda) \in Seq(Call)
      /\ \A o \in Order : <<Do("noDriver", o)>> \o Tail(agenda) \in Seq(Call)
      /\ \A o \in Order : <<Do("notifyOrFallback", o)>> \o Tail(agenda) \in Seq(Call)
      /\ \A o \in Order : <<Do("recheck", o)>> \o Tail(agenda) \in Seq(Call)
      /\ \A todo \in SUBSET Order : <<Scan(todo)>> \o Tail(agenda) \in Seq(Call)
  BY <1>4, PushTypes, CallTypes DEF Function, AboutNoOrder, ForDriver
<1>6. CASE OfferRefused
  BY <1>1, <1>4, <1>6 DEF OfferRefused, TypeOK
<1>7. CASE OfferMade
  <2> DEFINE o == Arg.order
             P == Polls(pq) \ {o}
  <2>1. o \in Order
    BY <1>4, <1>7 DEF OfferMade, Arg, AboutNoOrder
  <2>2. PICK d \in Front(Repaired, Eligible(Repaired, orders, o) \ Arg.but) :
          /\ fleet' = MarkOffered(Repaired, d)
          /\ orders' = WithoutPolls(
               [orders EXCEPT ![o] =
                  [CloseRoute(orders[o]) EXCEPT
                     !.status = "searching", !.offered = d, !.card = TRUE,
                     !.jobs = CloseRoute(orders[o]).jobs \union {"accept"}]], P)
    BY <1>7 DEF OfferMade
  <2>3. d \in Driver
    BY DEF Front, Eligible, Waiting, Free, VisiblyFree
  <2>4. CloseRoute(orders[o]) \in OrderRecord
    BY <1>1, <2>1, OrderTypes
  <2>5. ASSUME NEW r \in OrderRecord
        PROVE  [r EXCEPT !.status = "searching", !.offered = d, !.card = TRUE,
                         !.jobs = r.jobs \union {"accept"}] \in OrderRecord
    BY <2>3 DEF OrderRecord, OrderStatus, Timer
  <2>6. orders' \in [Order -> OrderRecord]
    BY <1>1, <2>1, <2>2, <2>4, <2>5, PutOrder, PollsTypes
  <2>7. fleet' \in Fleets
    BY <1>2, <2>2, <2>3, FleetTypes
  <2>8. pq' \in [Order -> QueueRecord]
    BY <1>1, <1>7, PauseTypes DEF OfferMade
  <2> QED
    BY <1>4, <1>7, <2>6, <2>7, <2>8 DEF OfferMade, TypeOK
<1>8. CASE OfferFindsNobody
  <2>1. Arg.order \in Order
    BY <1>4, <1>8 DEF OfferFindsNobody, Arg, AboutNoOrder
  <2> QED
    BY <1>1, <1>2, <1>5, <1>8, <2>1 DEF OfferFindsNobody, TypeOK
<1>9. CASE NoDriverParks
  <2>1. Arg.order \in Order
    BY <1>4, <1>9 DEF NoDriverParks, Arg, AboutNoOrder
  <2>2. fleet' \in Fleets /\ agenda' \in Seq(Call)
    BY <1>2, <1>5, <1>9, <2>1 DEF NoDriverParks
  <2>3. CASE FreeAfterAll(Arg.order)
    BY <1>1, <1>9, <2>2, <2>3 DEF NoDriverParks, TypeOK
  <2>4. CASE ~FreeAfterAll(Arg.order)
    <3> DEFINE s == IF Parked(pq, Arg.order) THEN "no_drivers" ELSE "queued"
    <3>1. s \in OrderStatus
      BY DEF OrderStatus
    <3> HIDE DEF s
    <3>2. ASSUME NEW r \in OrderRecord PROVE [r EXCEPT !.status = s] \in OrderRecord
      BY <3>1 DEF OrderRecord
    <3>3. orders' = [orders EXCEPT ![Arg.order] = [orders[Arg.order] EXCEPT !.status = s]]
      BY <1>1, <1>9, <2>4 DEF NoDriverParks, s
    <3>4. pq' = Enqueue(pq, Arg.order)
      BY <1>9, <2>4 DEF NoDriverParks
    <3>5. pq' \in [Order -> QueueRecord]
      BY <1>1, <2>1, <3>4, QueueTypes
    <3> QED
      BY <1>1, <2>1, <2>2, <3>2, <3>3, <3>5, PutOrder DEF TypeOK
  <2> QED
    BY <2>3, <2>4
<1>10. CASE NoDriverToChat
  <2>1. Arg.order \in Order
    BY <1>4, <1>10 DEF NoDriverToChat, Arg, AboutNoOrder
  <2>2. fleet' \in Fleets /\ agenda' \in Seq(Call) /\ pq' = pq
    BY <1>2, <1>4, <1>5, <1>10, <2>1 DEF NoDriverToChat
  <2>3. ASSUME NEW r \in OrderRecord
        PROVE  [r EXCEPT !.status = "no_drivers"] \in OrderRecord
    BY DEF OrderRecord, OrderStatus
  <2>4. ASSUME NEW r \in OrderRecord
        PROVE  [r EXCEPT !.status = "chat_search", !.posted = TRUE,
                         !.jobs = r.jobs \union {"driver_chat"}] \in OrderRecord
    <3> DEFINE J == r.jobs \union {"driver_chat"}
    <3>1. J \in SUBSET Timer
      BY DEF OrderRecord, Timer
    <3> HIDE DEF J
    <3>2. [r EXCEPT !.status = "chat_search", !.posted = TRUE, !.jobs = J] \in OrderRecord
      BY <3>1 DEF OrderRecord, OrderStatus
    <3> QED
      BY <3>2 DEF J
  <2>5. orders' \in [Order -> OrderRecord]
    <3> DEFINE chat == [orders[Arg.order] EXCEPT !.status = "chat_search", !.posted = TRUE,
                                                 !.jobs = @ \union {"driver_chat"}]
               nobody == [orders[Arg.order] EXCEPT !.status = "no_drivers"]
    <3>1. chat \in OrderRecord /\ nobody \in OrderRecord
      BY <1>1, <2>1, <2>3, <2>4
    <3>2. \/ orders' = orders
          \/ orders' = [orders EXCEPT ![Arg.order] = chat]
          \/ orders' = [orders EXCEPT ![Arg.order] = nobody]
      BY <1>10, Zenon DEF NoDriverToChat
    <3> QED
      BY <1>1, <2>1, <3>1, <3>2, PutOrder
  <2> QED
    BY <1>1, <2>2, <2>5 DEF TypeOK
<1>11. ASSUME NEW o \in Order, RouteOffer(o)
       PROVE  orders' \in [Order -> OrderRecord]
  <2>1. PICK t \in AutoTrips(orders, o) :
          orders' = [orders EXCEPT ![o].routeDriver = orders[t].driver,
                                   ![o].routeTrip = t,
                                   ![o].jobs = @ \union {"route_parallel_offer"}]
    BY <1>11 DEF RouteOffer
  <2>2. t \in Order
    BY DEF AutoTrips, TripsTo
  <2>3. orders[t].driver \in Driver \union {None}
    BY <1>1, <2>2 DEF OrderRecord
  <2>4. ASSUME NEW r \in OrderRecord, NEW d \in Driver \union {None}
        PROVE  [r EXCEPT !.routeDriver = d, !.routeTrip = t,
                         !.jobs = r.jobs \union {"route_parallel_offer"}] \in OrderRecord
    BY <2>2 DEF OrderRecord, Timer
  <2>5. orders' = [orders EXCEPT ![o] =
                     [orders[o] EXCEPT !.routeDriver = orders[t].driver, !.routeTrip = t,
                                       !.jobs = @ \union {"route_parallel_offer"}]]
    BY <1>1, <2>1
  <2> QED
    BY <1>1, <2>3, <2>4, <2>5, PutOrder
<1>12. CASE NotifyMade
  <2>1. Arg.order \in Order
    BY <1>4, <1>12 DEF NotifyMade, Arg, AboutNoOrder
  <2> QED
    BY <1>1, <1>2, <1>4, <1>11, <1>12, <2>1 DEF NotifyMade, TypeOK
<1>13. CASE NotifyNobody
  <2>1. Arg.order \in Order
    BY <1>4, <1>13 DEF NotifyNobody, Arg, AboutNoOrder
  <2> QED
    BY <1>1, <1>2, <1>4, <1>5, <1>13, <2>1 DEF NotifyNobody, TypeOK
<1>15. CASE FallbackOffers
  <2>1. Arg.order \in Order
    BY <1>4, <1>15 DEF FallbackOffers, Arg, AboutNoOrder
  <2>2. ASSUME NEW r \in OrderRecord, NEW b \in BOOLEAN
        PROVE  [r EXCEPT !.status = "searching", !.etaSet = FALSE,
                         !.fallback = r.fallback \/ b] \in OrderRecord
    <3> DEFINE x == r.fallback \/ b
    <3>1. x \in BOOLEAN
      OBVIOUS
    <3> HIDE DEF x
    <3>2. [r EXCEPT !.status = "searching", !.etaSet = FALSE, !.fallback = x] \in OrderRecord
      BY <3>1 DEF OrderRecord, OrderStatus
    <3> QED
      BY <3>2 DEF x
  <2>3. Withdraw(CloseRoute(orders[Arg.order])) \in OrderRecord
    BY <1>1, <2>1, OrderTypes
  <2>4. PICK b \in BOOLEAN :
          orders' = [orders EXCEPT ![Arg.order] =
            [Withdraw(CloseRoute(orders[Arg.order])) EXCEPT
               !.status = "searching", !.etaSet = FALSE, !.fallback = @ \/ b]]
    BY <1>15, Zenon DEF FallbackOffers, OwnLineAgain
  <2>5. orders' \in [Order -> OrderRecord]
    BY <1>1, <2>1, <2>2, <2>3, <2>4, PutOrder
  <2> QED
    BY <1>1, <1>2, <1>5, <1>15, <2>1, <2>5, QueueTypes DEF FallbackOffers, TypeOK
<1>16. CASE FallbackWaits
  <2>1. Arg.order \in Order
    BY <1>4, <1>16 DEF FallbackWaits, Arg, AboutNoOrder
  <2>2. ASSUME NEW r \in OrderRecord
        PROVE  [r EXCEPT !.status = "queued", !.etaSet = FALSE,
                         !.fallback = TRUE] \in OrderRecord
    BY DEF OrderRecord, OrderStatus
  <2>3. orders' \in [Order -> OrderRecord]
    BY <1>1, <1>16, <2>1, <2>2, OrderTypes, PutOrder DEF FallbackWaits
  <2>4. pq' \in [Order -> QueueRecord]
    BY <1>1, <1>16, <2>1, QueueTypes, QueueRow DEF FallbackWaits
  <2> QED
    BY <1>2, <1>4, <1>16, <2>3, <2>4 DEF FallbackWaits, TypeOK
<1>17. CASE PromoteMisses \/ PromoteWaitsForAnswer \/ ScanEnds
  BY <1>1, <1>2, <1>4, <1>17 DEF PromoteMisses, PromoteWaitsForAnswer, ScanEnds, TypeOK
<1>18. CASE PromoteStarts
  <2>1. {o \in Order : pq[o].row = "waiting"} \in SUBSET Order
    OBVIOUS
  <2>2. agenda' \in Seq(Call)
    BY <1>4, <1>5, <1>18, <2>1 DEF PromoteStarts
  <2>3. orders' \in [Order -> OrderRecord]
    BY <1>1, <1>18, PollsTypes DEF PromoteStarts
  <2>4. pq' = Pause(pq, Polls(pq)) /\ fleet' = Repaired
    BY <1>18 DEF PromoteStarts
  <2> QED
    BY <1>1, <1>2, <2>2, <2>3, <2>4, PauseTypes DEF TypeOK
<1>19. \A f, o : o \in Next_(f) => o \in Order
  BY <1>4 DEF Next_, First
<1>20. CASE ScanFallsBack
  BY <1>1, <1>2, <1>5, <1>19, <1>20 DEF ScanFallsBack, TypeOK
<1>21. CASE ScanAsks
  <2>1. PICK o \in Order :
          /\ pq' = [pq EXCEPT ![o].row = "polling"]
          /\ orders' = [orders EXCEPT ![o].jobs = @ \union {"pqueue"}, ![o].fixing = FALSE]
    BY <1>19, <1>21 DEF ScanAsks
  <2>2. ASSUME NEW r \in OrderRecord
        PROVE  [r EXCEPT !.jobs = r.jobs \union {"pqueue"}, !.fixing = FALSE] \in OrderRecord
    BY DEF OrderRecord, Timer
  <2>3. orders' = [orders EXCEPT ![o] =
                     [orders[o] EXCEPT !.jobs = @ \union {"pqueue"}, !.fixing = FALSE]]
    BY <1>1, <2>1
  <2>4. orders' \in [Order -> OrderRecord]
    BY <1>1, <2>2, <2>3, PutOrder
  <2>5. pq' \in [Order -> QueueRecord]
    BY <1>1, <2>1, QueueRow
  <2> QED
    BY <1>2, <1>4, <1>21, <2>4, <2>5 DEF ScanAsks, TypeOK
<1>22. CASE ScanOffers
  <2>1. PICK o \in Order :
          \/ /\ orders' = [orders EXCEPT ![o] =
                  [Withdraw(orders[o]) EXCEPT !.status = "searching", !.fixing = FALSE]]
             /\ pq' = Unqueue(pq, o)
             /\ Then(<<Offer(o, {})>>)
          \/ Return /\ UNCHANGED <<orders, pq>>
    BY <1>19, <1>22 DEF ScanOffers
  <2>2. ASSUME NEW r \in OrderRecord
        PROVE  [r EXCEPT !.status = "searching", !.fixing = FALSE] \in OrderRecord
    BY DEF OrderRecord, OrderStatus
  <2>3. orders' \in [Order -> OrderRecord]
    <3> DEFINE x == [Withdraw(orders[o]) EXCEPT !.status = "searching", !.fixing = FALSE]
    <3>1. Withdraw(orders[o]) \in OrderRecord
      BY <1>1, OrderTypes
    <3>2. x \in OrderRecord
      BY <2>2, <3>1
    <3>3. orders' = orders \/ orders' = [orders EXCEPT ![o] = x]
      BY <2>1
    <3> QED
      BY <1>1, <3>2, <3>3, PutOrder
  <2>4. pq' \in [Order -> QueueRecord]
    <3>1. pq' = Unqueue(pq, o) \/ pq' = pq
      BY <2>1
    <3> QED
      BY <1>1, <3>1, QueueTypes
  <2>5. agenda' \in Seq(Call)
    <3>1. agenda' = <<Offer(o, {})>> \o Tail(agenda) \/ agenda' = Tail(agenda)
      BY <2>1
    <3> QED
      BY <1>4, <1>5, <3>1
  <2> QED
    BY <1>2, <1>22, <2>3, <2>4, <2>5 DEF ScanOffers, TypeOK
<1>23. CASE ScanNotifies
  <2>1. PICK o \in Order :
          /\ RouteOffer(o) \/ UNCHANGED orders
          /\ Then(<<Scan(Arg.todo \ {o})>>)
    BY <1>19, <1>23 DEF ScanNotifies
  <2>2. orders' \in [Order -> OrderRecord]
    BY <1>1, <1>11, <2>1
  <2>3. agenda' \in Seq(Call)
    BY <1>4, <1>5, <2>1
  <2> QED
    BY <1>1, <1>2, <1>23, <2>2, <2>3 DEF ScanNotifies, TypeOK
<1>24. CASE ReleaseNext
  <2>1. PICK o \in Order :
          /\ orders' = [orders EXCEPT ![o] = CloseRoute(orders[o])]
          /\ agenda' = (IF orders[o].status \in Candidate THEN <<Do("fallback", o)>>
                                                          ELSE <<>>) \o agenda
    BY <1>24 DEF ReleaseNext, CardsOf
  <2>2. Do("fallback", o) \in Call
    BY CallTypes DEF Function, AboutNoOrder, ForDriver
  <2>3. agenda' \in Seq(Call)
    BY <1>1, <2>1, <2>2, PushTypes
  <2>4. orders' \in [Order -> OrderRecord]
    BY <1>1, <2>1, OrderTypes, PutOrder
  <2> QED
    BY <1>1, <1>24, <2>3, <2>4 DEF ReleaseNext, TypeOK
<1>25. CASE ReleaseEnds
  BY <1>1, <1>4, <1>25 DEF ReleaseEnds, TypeOK
<1>26. CASE StartReserved
  <2>1. Arg.driver \in Driver
    BY <1>4, <1>26 DEF StartReserved, Arg, ForDriver
  <2>2. PICK o \in Order :
          orders' = [orders EXCEPT ![o].status = "assigned", ![o].driver = Arg.driver,
                                   ![o].parallel = None, ![o].etaSet = FALSE,
                                   ![o].departed = TRUE]
    BY <1>26 DEF StartReserved, Reservations
  <2>3. ASSUME NEW r \in OrderRecord, NEW d \in Driver
        PROVE  [r EXCEPT !.status = "assigned", !.driver = d, !.parallel = None,
                         !.etaSet = FALSE, !.departed = TRUE] \in OrderRecord
    BY DEF OrderRecord, OrderStatus
  <2>4. orders' = [orders EXCEPT ![o] =
          [orders[o] EXCEPT !.status = "assigned", !.driver = Arg.driver,
                            !.parallel = None, !.etaSet = FALSE, !.departed = TRUE]]
    BY <1>1, <2>2
  <2>5. orders' \in [Order -> OrderRecord]
    BY <1>1, <2>1, <2>3, <2>4, PutOrder
  <2> QED
    BY <1>1, <1>4, <1>26, <2>5 DEF StartReserved, TypeOK
<1>27. CASE PostRide
  <2>1. Arg.driver \in Driver
    BY <1>4, <1>27 DEF PostRide, Arg, ForDriver
  <2> QED
    BY <1>1, <1>4, <1>27, <2>1, FleetTypes DEF PostRide, TypeOK
<1> QED
  BY <1>6, <1>7, <1>8, <1>9, <1>10, <1>12, <1>13, <1>15, <1>16, <1>17, <1>18,
     <1>20, <1>21, <1>22, <1>23, <1>24, <1>25, <1>26, <1>27 DEF DispatchStep

\* A request that is parked again, as waiting.
LEMMA ParkTypes ==
  ASSUME NEW q \in [Order -> QueueRecord], NEW o \in Order
  PROVE  [Enqueue(q, o) EXCEPT ![o].row = "waiting"] \in [Order -> QueueRecord]
BY QueueTypes, QueueRow

\* The calls with which a transaction starts.
LEMMA StartTypes ==
  /\ <<>> \in Seq(Call)
  /\ \A a \in Call : <<a>> \in Seq(Call)
  /\ \A a, b \in Call : <<a, b>> \in Seq(Call)
OBVIOUS

\* delivery_service._decline keeps drivers and requests within their columns.
LEMMA DeliveryOffTypes ==
  ASSUME TypeOK, NEW o \in Order, DeliveryOff(o)
  PROVE  fleet' \in Fleets /\ orders' \in [Order -> OrderRecord]
<1>1. /\ fleet \in Fleets /\ orders \in [Order -> OrderRecord]
      /\ orders[o] \in OrderRecord
  BY DEF TypeOK
<1>2. ASSUME NEW r \in OrderRecord
      PROVE  [r EXCEPT !.status = "cancelled", !.fixing = FALSE,
                       !.jobs = r.jobs \ {"delivery"}] \in OrderRecord
  BY DEF OrderRecord, OrderStatus
<1>3. orders' = [orders EXCEPT ![o] =
        [orders[o] EXCEPT !.status = "cancelled", !.fixing = FALSE,
                          !.jobs = @ \ {"delivery"}]]
  BY <1>1 DEF DeliveryOff
<1>4. orders[o].driver \in Driver \union {None}
  BY <1>1 DEF OrderRecord
<1>5. fleet' \in Fleets
  BY <1>1, <1>4, FleetTypes DEF DeliveryOff
<1> QED
  BY <1>1, <1>2, <1>3, <1>5, PutOrder

\* Every handler of a passenger or a dispatcher keeps the types.
LEMMA PassengerTypes ==
  ASSUME TypeOK, PassengerStep
  PROVE  TypeOK'
<1> USE DEF Start
<1>1. /\ fleet \in Fleets /\ orders \in [Order -> OrderRecord]
      /\ pq \in [Order -> QueueRecord] /\ agenda \in Seq(Call)
      /\ \A p \in Order : orders[p] \in OrderRecord
  BY DEF TypeOK
<1>2. PICK o \in Order :
        \/ NewRide(o) \/ NewDeskRide(o) \/ PassengerCancel(o)
        \/ ConfirmActual(o) \/ ConfirmNot(o) \/ NewAddress(o)
        \/ PriceAgreed(o) \/ PriceRefused(o)
  BY DEF PassengerStep
<1>3. /\ <<>> \in Seq(Call)
      /\ <<Offer(o, {})>> \in Seq(Call)
      /\ <<Do("notifyOrFallback", o)>> \in Seq(Call)
      /\ <<Do("release", o), Do("passengerGone", o)>> \in Seq(Call)
      /\ <<PromoteUnflushed>> \in Seq(Call)
  BY StartTypes, CallTypes DEF Function, AboutNoOrder, ForDriver
<1>4. CASE NewRide(o)
  <2> DEFINE s == IF Pickup[o] = None \/ Waiting(Repaired, orders, o) # {}
                  THEN "created" ELSE "queued"
  <2>1. s \in OrderStatus
    BY DEF OrderStatus
  <2>2. orders' = [orders EXCEPT ![o] = [orders[o] EXCEPT !.status = s]]
    BY <1>1, <1>4 DEF NewRide
  <2> HIDE DEF s
  <2>3. ASSUME NEW r \in OrderRecord PROVE [r EXCEPT !.status = s] \in OrderRecord
    BY <2>1 DEF OrderRecord
  <2>4. orders' \in [Order -> OrderRecord]
    BY <1>1, <2>2, <2>3, PutOrder
  <2>5. pq' \in [Order -> QueueRecord]
    <3>1. pq' = pq \/ pq' = Enqueue(pq, o)
      BY <1>4 DEF NewRide
    <3> QED
      BY <1>1, <3>1, QueueTypes
  <2>6. agenda' \in Seq(Call)
    <3>1. agenda' = <<Offer(o, {})>> \/ agenda' = <<Do("notifyOrFallback", o)>>
      BY <1>4 DEF NewRide
    <3> QED
      BY <1>3, <3>1
  <2>7. fleet' \in Fleets
    BY <1>1, <1>4, RepairIsFleet DEF NewRide, Repaired
  <2> QED
    BY <2>4, <2>5, <2>6, <2>7 DEF TypeOK
<1>5. CASE NewDeskRide(o)
  <2>1. ASSUME NEW r \in OrderRecord
        PROVE  [r EXCEPT !.status = "created", !.jobs = {"dispatcher_unclaimed"}] \in OrderRecord
    BY DEF OrderRecord, OrderStatus, Timer
  <2>2. orders[o] \in OrderRecord
    BY <1>1, OrderTypes
  <2>3. orders' = [orders EXCEPT ![o] =
          [orders[o] EXCEPT !.status = "created", !.jobs = {"dispatcher_unclaimed"}]]
    BY <1>1, <1>5 DEF NewDeskRide
  <2>4. orders' \in [Order -> OrderRecord]
    BY <1>1, <2>1, <2>2, <2>3, PutOrder
  <2> QED
    BY <1>1, <1>3, <1>5, <2>4 DEF NewDeskRide, TypeOK
<1>6. CASE PassengerCancel(o)
  BY <1>1, <1>3, <1>6 DEF PassengerCancel, TypeOK
<1>7. CASE ConfirmActual(o)
  <2> DEFINE P == Polls(pq) \ {o}
             os == [orders EXCEPT ![o].jobs = @ \ {"pqueue"}, ![o].confirmed = TRUE,
                                  ![o].fixing = FALSE]
  <2>1. ASSUME NEW r \in OrderRecord
        PROVE  [r EXCEPT !.jobs = r.jobs \ {"pqueue"}, !.confirmed = TRUE,
                         !.fixing = FALSE] \in OrderRecord
    BY DEF OrderRecord
  <2>2. os = [orders EXCEPT ![o] = [orders[o] EXCEPT !.jobs = @ \ {"pqueue"},
                                                     !.confirmed = TRUE, !.fixing = FALSE]]
    BY <1>1
  <2>3. os \in [Order -> OrderRecord]
    BY <1>1, <2>1, <2>2, PutOrder
  <2>4. orders' = WithoutPolls(os, P) /\ pq' = [Pause(pq, P) EXCEPT ![o].row = "waiting"]
    BY <1>7 DEF ConfirmActual
  <2> HIDE DEF os, P
  <2>5. orders' \in [Order -> OrderRecord]
    BY <2>3, <2>4, PollsTypes
  <2>6. pq' \in [Order -> QueueRecord]
    BY <1>1, <2>4, PauseTypes, QueueRow
  <2> QED
    BY <1>1, <1>3, <1>7, <2>5, <2>6 DEF ConfirmActual, TypeOK
<1>8. CASE ConfirmNot(o)
  <2>1. ASSUME NEW r \in OrderRecord
        PROVE  [r EXCEPT !.status = "cancelled", !.fixing = FALSE] \in OrderRecord
    BY DEF OrderRecord, OrderStatus, Timer
  <2>2. Withdraw(orders[o]) \in OrderRecord
    BY <1>1, OrderTypes
  <2>3. orders' = [orders EXCEPT ![o] =
          [Withdraw(orders[o]) EXCEPT !.status = "cancelled", !.fixing = FALSE]]
    BY <1>1, <1>8 DEF ConfirmNot
  <2>4. orders' \in [Order -> OrderRecord]
    BY <1>1, <2>1, <2>2, <2>3, PutOrder
  <2>5. pq' \in [Order -> QueueRecord]
    BY <1>1, <1>8, QueueTypes DEF ConfirmNot
  <2> QED
    BY <1>1, <1>3, <1>8, <2>4, <2>5 DEF ConfirmNot, TypeOK
<1>9. CASE NewAddress(o)
  <2>1. ASSUME NEW r \in OrderRecord
        PROVE  [r EXCEPT !.status = "searching", !.fallback = FALSE,
             !.noAuto = {}, !.offered = None, !.fixing = FALSE] \in OrderRecord
    BY DEF OrderRecord, OrderStatus, Timer
  <2>2. Withdraw(orders[o]) \in OrderRecord
    BY <1>1, OrderTypes
  <2>3. orders' = [orders EXCEPT ![o] =
          [Withdraw(orders[o]) EXCEPT !.status = "searching", !.fallback = FALSE,
             !.noAuto = {}, !.offered = None, !.fixing = FALSE]]
    BY <1>1, <1>9 DEF NewAddress
  <2>4. orders' \in [Order -> OrderRecord]
    BY <1>1, <2>1, <2>2, <2>3, PutOrder
  <2>5. pq' \in [Order -> QueueRecord]
    BY <1>1, <1>9, QueueTypes DEF NewAddress
  <2> QED
    BY <1>1, <1>3, <1>9, <2>4, <2>5 DEF NewAddress, TypeOK
<1>10. CASE PriceAgreed(o)
  <2> DEFINE b == orders[o].card \/ orders[o].driver # None
  <2>1. b \in BOOLEAN
    OBVIOUS
  <2>2. orders' = [orders EXCEPT ![o] =
          [orders[o] EXCEPT !.status = "assigned", !.confirmed = TRUE, !.card = b,
                            !.jobs = @ \ {"delivery"}]]
    BY <1>10 DEF PriceAgreed
  <2> HIDE DEF b
  <2>3. ASSUME NEW r \in OrderRecord
        PROVE  [r EXCEPT !.status = "assigned", !.confirmed = TRUE, !.card = b,
                         !.jobs = r.jobs \ {"delivery"}] \in OrderRecord
    BY <2>1 DEF OrderRecord, OrderStatus
  <2>4. orders' \in [Order -> OrderRecord]
    BY <1>1, <2>2, <2>3, PutOrder
  <2> QED
    BY <1>1, <1>3, <1>10, <2>4 DEF PriceAgreed, TypeOK
<1>11. CASE PriceRefused(o)
  <2>1. DeliveryOff(o) /\ agenda' = <<>>
    BY <1>11 DEF PriceRefused
  <2> QED
    BY <1>1, <1>3, <2>1, DeliveryOffTypes DEF DeliveryOff, TypeOK
<1> QED
  BY <1>2, <1>4, <1>5, <1>6, <1>7, <1>8, <1>9, <1>10, <1>11

\* So does every command of the driver menu that concerns the line.
LEMMA LineTypes ==
  ASSUME TypeOK, LineStep
  PROVE  TypeOK'
<1> USE DEF Start
<1>1. /\ fleet \in Fleets /\ orders \in [Order -> OrderRecord]
      /\ pq \in [Order -> QueueRecord] /\ agenda \in Seq(Call)
      /\ \A p \in Order : orders[p] \in OrderRecord
  BY DEF TypeOK
<1>2. PICK d \in Driver :
        GoOnline(d) \/ LeaveLine(d) \/ GoAway(d) \/ \E l \in Line : SetLine(d, l)
  BY DEF LineStep
<1>3. <<>> \in Seq(Call) /\ <<Promote>> \in Seq(Call)
  BY StartTypes, CallTypes
<1>4. CASE GoOnline(d)
  BY <1>1, <1>3, <1>4, FleetTypes DEF GoOnline, TypeOK
<1>5. CASE LeaveLine(d)
  BY <1>1, <1>3, <1>5, FleetTypes DEF LeaveLine, TypeOK
<1>6. CASE GoAway(d)
  BY <1>1, <1>3, <1>6, FleetTypes DEF GoAway, TypeOK
<1>7. ASSUME NEW l \in Line, SetLine(d, l)
      PROVE  TypeOK'
  <2>1. ASSUME NEW r \in DriverRecord
        PROVE  [r EXCEPT !.line = l] \in DriverRecord
    BY DEF DriverRecord
  <2>2. [fleet EXCEPT ![d].line = l] = [fleet EXCEPT ![d] = [fleet[d] EXCEPT !.line = l]]
    BY <1>1 DEF Fleets
  <2>3. [fleet EXCEPT ![d].line = l] \in Fleets
    BY <1>1, <2>1, <2>2 DEF Fleets
  <2>4. fleet' \in Fleets
    BY <1>7, <2>3, FleetTypes DEF SetLine
  <2> QED
    BY <1>1, <1>3, <1>7, <2>4 DEF SetLine, TypeOK
<1> QED
  BY <1>2, <1>4, <1>5, <1>6, <1>7

\* The claim of a request that nobody has keeps the types.
LEMMA ClaimTypes ==
  ASSUME TypeOK, NEW d \in Driver, NEW o \in Order, ClaimPending(d, o)
  PROVE  TypeOK'
<1> USE DEF Start
<1>1. /\ fleet \in Fleets /\ orders \in [Order -> OrderRecord] /\ pq \in [Order -> QueueRecord]
      /\ orders[o] \in OrderRecord
  BY DEF TypeOK
<1>2. Withdraw(orders[o]) \in OrderRecord /\ <<>> \in Seq(Call)
  BY <1>1, OrderTypes, StartTypes
<1> DEFINE x == [Withdraw(orders[o]) EXCEPT
                   !.driver = d, !.status = "assigned", !.chatOffline = FALSE,
                   !.jobs = @ \ {"accept", "driver_chat", "dispatcher_unclaimed"}]
<1>3. ASSUME NEW r \in OrderRecord
      PROVE  [r EXCEPT !.driver = d, !.status = "assigned", !.chatOffline = FALSE,
                       !.jobs = r.jobs \ {"accept", "driver_chat", "dispatcher_unclaimed"}]
               \in OrderRecord
  BY DEF OrderRecord, OrderStatus
<1>4. x \in OrderRecord
  BY <1>2, <1>3
<1>5. orders' = [orders EXCEPT ![o] = Prompted(o, x)]
  BY DEF ClaimPending
<1> HIDE DEF x
<1>6. orders' \in [Order -> OrderRecord]
  BY <1>1, <1>4, <1>5, OrderTypes, PutOrder
<1>7. pq' \in [Order -> QueueRecord]
  BY <1>1, QueueTypes DEF ClaimPending
<1>8. fleet' \in Fleets
  BY <1>1, ClaimedAreFleets DEF ClaimPending
<1> QED
  BY <1>2, <1>6, <1>7, <1>8 DEF ClaimPending, TypeOK

\* So does every answer of a driver to an offer, and every claim.
LEMMA OfferTypes ==
  ASSUME TypeOK, OfferStep
  PROVE  TypeOK'
<1> USE DEF Start
<1>1. /\ fleet \in Fleets /\ orders \in [Order -> OrderRecord]
      /\ pq \in [Order -> QueueRecord] /\ agenda \in Seq(Call)
      /\ \A p \in Order : orders[p] \in OrderRecord
  BY DEF TypeOK
<1>2. PICK d \in Driver, o \in Order :
        \/ Accept(d, o) \/ DeclineEnds(d, o) \/ DeclineAsksAddress(d, o)
        \/ DeclineAway(d, o) \/ \E reason \in Reason : DeclinePasses(d, o, reason)
        \/ TakePending(d, o) \/ TakeFromChat(d, o)
  BY DEF OfferStep
<1>3. /\ <<>> \in Seq(Call)
      /\ <<Promote>> \in Seq(Call)
      /\ <<Offer(o, {})>> \in Seq(Call)
      /\ <<Offer(o, {}), Promote>> \in Seq(Call)
  BY StartTypes, CallTypes
<1>4. Declined(orders[o]) \in OrderRecord /\ Withdraw(orders[o]) \in OrderRecord
  BY <1>1, OrderTypes
<1>5. CASE Accept(d, o)
  <2> DEFINE x == [orders[o] EXCEPT !.offered = None, !.driver = d, !.status = "assigned",
                                    !.jobs = @ \ {"accept", "dispatcher_unclaimed"}]
  <2>1. ASSUME NEW r \in OrderRecord
        PROVE  [r EXCEPT !.offered = None, !.driver = d, !.status = "assigned",
                         !.jobs = r.jobs \ {"accept", "dispatcher_unclaimed"}] \in OrderRecord
    BY DEF OrderRecord, OrderStatus
  <2>2. x \in OrderRecord
    BY <1>1, <2>1
  <2>3. orders' = [orders EXCEPT ![o] = Prompted(o, x)]
    BY <1>5 DEF Accept
  <2> HIDE DEF x
  <2>4. orders' \in [Order -> OrderRecord]
    BY <1>1, <2>2, <2>3, OrderTypes, PutOrder
  <2> QED
    BY <1>1, <1>3, <1>5, <2>4, FleetTypes DEF Accept, TypeOK
<1>6. CASE DeclineEnds(d, o)
  <2>1. orders' \in [Order -> OrderRecord]
    BY <1>1, <1>4, <1>6, OrderTypes, PutOrder DEF DeclineEnds
  <2>2. pq' \in [Order -> QueueRecord]
    BY <1>1, <1>6, QueueTypes DEF DeclineEnds
  <2> QED
    BY <1>1, <1>3, <1>6, <2>1, <2>2, FleetTypes DEF DeclineEnds, TypeOK
<1>7. CASE DeclineAsksAddress(d, o)
  <2> DEFINE b == o \notin Desk
  <2>1. b \in BOOLEAN
    OBVIOUS
  <2>2. orders' = [orders EXCEPT ![o] =
          [Declined(orders[o]) EXCEPT !.status = "created", !.fixing = b]]
    BY <1>7 DEF DeclineAsksAddress
  <2> HIDE DEF b
  <2>3. ASSUME NEW r \in OrderRecord
        PROVE  [r EXCEPT !.status = "created", !.fixing = b] \in OrderRecord
    BY <2>1 DEF OrderRecord, OrderStatus
  <2>4. orders' \in [Order -> OrderRecord]
    BY <1>1, <1>4, <2>2, <2>3, PutOrder
  <2> QED
    BY <1>1, <1>3, <1>7, <2>4, FleetTypes DEF DeclineAsksAddress, TypeOK
<1>8. CASE DeclineAway(d, o)
  <2>1. ASSUME NEW r \in OrderRecord
        PROVE  [r EXCEPT !.declined = r.declined \union {d}] \in OrderRecord
    BY DEF OrderRecord, OrderStatus, Timer
  <2>2. Declined(orders[o]) \in OrderRecord
    BY <1>1, OrderTypes
  <2>3. orders' = [orders EXCEPT ![o] =
          [Declined(orders[o]) EXCEPT !.declined = Declined(orders[o]).declined \union {d}]]
    BY <1>1, <1>8 DEF DeclineAway
  <2>4. orders' \in [Order -> OrderRecord]
    BY <1>1, <2>1, <2>2, <2>3, PutOrder
  <2> QED
    BY <1>1, <1>3, <1>8, <2>4, FleetTypes DEF DeclineAway, TypeOK
<1>9. ASSUME NEW reason \in Reason, DeclinePasses(d, o, reason)
      PROVE  TypeOK'
  <2> DEFINE b == Declined(orders[o]).special \/ reason # "dislike"
  <2>1. b \in BOOLEAN
    OBVIOUS
  <2>2. orders' = [orders EXCEPT ![o] =
          [Declined(orders[o]) EXCEPT !.declined = @ \union {d}, !.special = b]]
    BY <1>9 DEF DeclinePasses
  <2> HIDE DEF b
  <2>3. ASSUME NEW r \in OrderRecord
        PROVE  [r EXCEPT !.declined = r.declined \union {d}, !.special = b] \in OrderRecord
    BY <2>1 DEF OrderRecord
  <2>4. orders' \in [Order -> OrderRecord]
    BY <1>1, <1>4, <2>2, <2>3, PutOrder
  <2> QED
    BY <1>1, <1>3, <1>9, <2>4, FleetTypes DEF DeclinePasses, TypeOK
<1>10. CASE TakePending(d, o)
  BY <1>10, ClaimTypes DEF TakePending
<1>11. CASE TakeFromChat(d, o)
  <2> DEFINE b == ~fleet[d].onLine
  <2>1. b \in BOOLEAN
    OBVIOUS
  <2>2. orders' = [orders EXCEPT ![o] =
          [Withdraw(orders[o]) EXCEPT
             !.driver = d, !.status = "assigned", !.offered = None, !.card = TRUE,
             !.chatOffline = b,
             !.jobs = @ \ {"accept", "driver_chat", "dispatcher_unclaimed"}]]
    BY <1>11 DEF TakeFromChat
  <2> HIDE DEF b
  <2>3. ASSUME NEW r \in OrderRecord
        PROVE  [r EXCEPT !.driver = d, !.status = "assigned", !.offered = None,
                         !.card = TRUE, !.chatOffline = b,
                         !.jobs = r.jobs \ {"accept", "driver_chat", "dispatcher_unclaimed"}]
                 \in OrderRecord
    BY <2>1 DEF OrderRecord, OrderStatus
  <2>4. orders' \in [Order -> OrderRecord]
    BY <1>1, <1>4, <2>2, <2>3, PutOrder
  <2>5. pq' \in [Order -> QueueRecord]
    BY <1>1, <1>11, QueueTypes DEF TakeFromChat
  <2>6. fleet' \in Fleets
    BY <1>1, <1>11, ClaimedAreFleets DEF TakeFromChat
  <2> QED
    BY <1>3, <1>11, <2>4, <2>5, <2>6 DEF TakeFromChat, TypeOK
<1> QED
  BY <1>2, <1>5, <1>6, <1>7, <1>8, <1>9, <1>10, <1>11

\* So does every stage of a trip.
LEMMA TripTypes ==
  ASSUME TypeOK, TripStep
  PROVE  TypeOK'
<1> USE DEF Start
<1>1. /\ fleet \in Fleets /\ orders \in [Order -> OrderRecord]
      /\ pq \in [Order -> QueueRecord] /\ agenda \in Seq(Call)
      /\ \A p \in Order : orders[p] \in OrderRecord
  BY DEF TypeOK
<1>2. PICK d \in Driver, o \in Order :
        \/ SubmitPrice(d, o) \/ ApplyEta(d, o) \/ Arrived(d, o) \/ Seated(d, o)
        \/ Complete(d, o)
        \/ \E outcome \in {"tripVoided", "carFailed"} : CancelActive(d, o, outcome)
  BY DEF TripStep
<1>3. /\ <<>> \in Seq(Call)
      /\ \A p \in Order : <<Do("notify", p)>> \in Seq(Call)
      /\ \A fn \in {"rideDone", "tripVoided", "carFailed"} :
           <<Do("release", o), For(fn, o, d)>> \in Seq(Call)
  BY StartTypes, CallTypes DEF Function, AboutNoOrder, ForDriver
<1>4. CASE SubmitPrice(d, o)
  <2> DEFINE desk == [orders[o] EXCEPT !.pricing = FALSE, !.confirmed = TRUE, !.card = TRUE]
             asked == [orders[o] EXCEPT !.pricing = FALSE, !.confirmed = FALSE,
                                        !.proposed = TRUE, !.fixing = FALSE,
                                        !.jobs = @ \union {"delivery"}]
  <2>1. ASSUME NEW r \in OrderRecord
        PROVE  [r EXCEPT !.pricing = FALSE, !.confirmed = TRUE, !.card = TRUE] \in OrderRecord
    BY DEF OrderRecord
  <2>2. ASSUME NEW r \in OrderRecord
        PROVE  [r EXCEPT !.pricing = FALSE, !.confirmed = FALSE, !.proposed = TRUE,
                         !.fixing = FALSE, !.jobs = r.jobs \union {"delivery"}] \in OrderRecord
    BY DEF OrderRecord, Timer
  <2>3. desk \in OrderRecord /\ asked \in OrderRecord
    BY <1>1, <2>1, <2>2
  <2>4. orders' = [orders EXCEPT ![o] = desk] \/ orders' = [orders EXCEPT ![o] = asked]
    BY <1>4 DEF SubmitPrice
  <2> HIDE DEF desk, asked
  <2>5. orders' \in [Order -> OrderRecord]
    BY <1>1, <2>3, <2>4, PutOrder
  <2> QED
    BY <1>1, <1>3, <1>4, <2>5 DEF SubmitPrice, TypeOK
<1>5. CASE ApplyEta(d, o)
  <2>1. ASSUME NEW r \in OrderRecord
        PROVE  [r EXCEPT !.card = FALSE, !.departed = TRUE, !.fixing = FALSE] \in OrderRecord
    BY DEF OrderRecord, OrderStatus, Timer
  <2>2. orders[o] \in OrderRecord
    BY <1>1, OrderTypes
  <2>3. orders' = [orders EXCEPT ![o] =
          [orders[o] EXCEPT !.card = FALSE, !.departed = TRUE, !.fixing = FALSE]]
    BY <1>1, <1>5 DEF ApplyEta
  <2>4. orders' \in [Order -> OrderRecord]
    BY <1>1, <2>1, <2>2, <2>3, PutOrder
  <2> QED
    BY <1>1, <1>3, <1>5, <2>4 DEF ApplyEta, TypeOK
<1>6. CASE Arrived(d, o)
  <2>1. ASSUME NEW r \in OrderRecord
        PROVE  [r EXCEPT !.status = "arrived"] \in OrderRecord
    BY DEF OrderRecord, OrderStatus, Timer
  <2>2. orders[o] \in OrderRecord
    BY <1>1, OrderTypes
  <2>3. orders' = [orders EXCEPT ![o] =
          [orders[o] EXCEPT !.status = "arrived"]]
    BY <1>1, <1>6 DEF Arrived
  <2>4. orders' \in [Order -> OrderRecord]
    BY <1>1, <2>1, <2>2, <2>3, PutOrder
  <2>5. fleet' \in Fleets
    BY <1>1, <1>6, RepairIsFleet DEF Arrived, Repaired
  <2>6. agenda' \in Seq(Call)
    BY <1>3, <1>6 DEF Arrived
  <2> QED
    BY <1>1, <1>6, <2>4, <2>5, <2>6 DEF Arrived, TypeOK
<1>7. CASE Seated(d, o)
  <2>1. ASSUME NEW r \in OrderRecord
        PROVE  [r EXCEPT !.status = "in_progress"] \in OrderRecord
    BY DEF OrderRecord, OrderStatus, Timer
  <2>2. orders[o] \in OrderRecord
    BY <1>1, OrderTypes
  <2>3. orders' = [orders EXCEPT ![o] =
          [orders[o] EXCEPT !.status = "in_progress"]]
    BY <1>1, <1>7 DEF Seated
  <2>4. orders' \in [Order -> OrderRecord]
    BY <1>1, <2>1, <2>2, <2>3, PutOrder
  <2> QED
    BY <1>1, <1>3, <1>7, <2>4 DEF Seated, TypeOK
<1>8. CASE Complete(d, o)
  <2>1. ASSUME NEW r \in OrderRecord
        PROVE  [r EXCEPT !.status = "completed", !.jobs = {}, !.fixing = FALSE] \in OrderRecord
    BY DEF OrderRecord, OrderStatus, Timer
  <2>2. orders[o] \in OrderRecord
    BY <1>1, OrderTypes
  <2>3. orders' = [orders EXCEPT ![o] =
          [orders[o] EXCEPT !.status = "completed", !.jobs = {}, !.fixing = FALSE]]
    BY <1>1, <1>8 DEF Complete
  <2>4. orders' \in [Order -> OrderRecord]
    BY <1>1, <2>1, <2>2, <2>3, PutOrder
  <2> QED
    BY <1>1, <1>3, <1>8, <2>4 DEF Complete, TypeOK
<1>9. ASSUME NEW outcome \in {"tripVoided", "carFailed"}, CancelActive(d, o, outcome)
      PROVE  TypeOK'
  <2>1. ASSUME NEW r \in OrderRecord
        PROVE  [r EXCEPT !.jobs = {}] \in OrderRecord
    BY DEF OrderRecord, OrderStatus, Timer
  <2>2. orders[o] \in OrderRecord
    BY <1>1, OrderTypes
  <2>3. orders' = [orders EXCEPT ![o] =
          [orders[o] EXCEPT !.jobs = {}]]
    BY <1>1, <1>9 DEF CancelActive
  <2>4. orders' \in [Order -> OrderRecord]
    BY <1>1, <2>1, <2>2, <2>3, PutOrder
  <2> QED
    BY <1>1, <1>3, <1>9, <2>4 DEF CancelActive, TypeOK
<1> QED
  BY <1>2, <1>4, <1>5, <1>6, <1>7, <1>8, <1>9

\* So does every handler of a parallel order.
LEMMA ParallelTypes ==
  ASSUME TypeOK, ParallelStep
  PROVE  TypeOK'
<1> USE DEF Start
<1>1. /\ fleet \in Fleets /\ orders \in [Order -> OrderRecord]
      /\ pq \in [Order -> QueueRecord] /\ agenda \in Seq(Call)
      /\ \A p \in Order : orders[p] \in OrderRecord
  BY DEF TypeOK
<1>2. PICK d \in Driver, o \in Order :
        \/ \E t \in Order : Take(d, o, t)
        \/ SaveEta(d, o) \/ DeclineReserved(d, o) \/ DeclineRouteOffer(d, o)
  BY DEF ParallelStep, TakeRouteOffer
<1>3. /\ <<>> \in Seq(Call)
      /\ <<Promote>> \in Seq(Call)
      /\ <<Do("fallback", o)>> \in Seq(Call)
  BY StartTypes, CallTypes DEF Function, AboutNoOrder, ForDriver
<1>4. CASE \E t \in Order : Take(d, o, t)
  <2>1. ASSUME NEW r \in OrderRecord
        PROVE  [r EXCEPT !.parallel = d, !.driver = d, !.status = "parallel_assigned",
             !.card = TRUE, !.jobs = r.jobs \union {"parallel_eta"}] \in OrderRecord
    BY DEF OrderRecord, OrderStatus, Timer
  <2>2. CloseRoute(orders[o]) \in OrderRecord
    BY <1>1, OrderTypes
  <2>3. orders' = [orders EXCEPT ![o] =
          [CloseRoute(orders[o]) EXCEPT !.parallel = d, !.driver = d,
                                         !.status = "parallel_assigned",
             !.card = TRUE, !.jobs = CloseRoute(orders[o]).jobs \union {"parallel_eta"}]]
    BY <1>1, <1>4 DEF Take
  <2>4. orders' \in [Order -> OrderRecord]
    BY <1>1, <2>1, <2>2, <2>3, PutOrder
  <2>5. pq' \in [Order -> QueueRecord]
    BY <1>1, <1>4, QueueTypes DEF Take
  <2>6. fleet' \in Fleets
    BY <1>1, <1>4, FleetTypes, RepairIsFleet DEF Take, Repaired
  <2>7. agenda' \in Seq(Call)
    BY <1>3, <1>4 DEF Take
  <2> QED
    BY <2>4, <2>5, <2>6, <2>7 DEF TypeOK
<1>5. CASE SaveEta(d, o)
  <2>1. ASSUME NEW r \in OrderRecord
        PROVE  [r EXCEPT !.etaSet = TRUE, !.card = FALSE,
                          !.jobs = r.jobs \ {"parallel_eta"}] \in OrderRecord
    BY DEF OrderRecord, OrderStatus, Timer
  <2>2. orders[o] \in OrderRecord
    BY <1>1, OrderTypes
  <2>3. orders' = [orders EXCEPT ![o] =
          [orders[o] EXCEPT !.etaSet = TRUE, !.card = FALSE,
                             !.jobs = orders[o].jobs \ {"parallel_eta"}]]
    BY <1>1, <1>5 DEF SaveEta
  <2>4. orders' \in [Order -> OrderRecord]
    BY <1>1, <2>1, <2>2, <2>3, PutOrder
  <2> QED
    BY <1>1, <1>3, <1>5, <2>4 DEF SaveEta, TypeOK
<1>6. CASE DeclineReserved(d, o)
  <2>1. ASSUME NEW r \in OrderRecord
        PROVE  [r EXCEPT !.card = FALSE] \in OrderRecord
    BY DEF OrderRecord, OrderStatus, Timer
  <2>2. Released(orders[o]) \in OrderRecord
    BY <1>1, OrderTypes
  <2>3. orders' = [orders EXCEPT ![o] =
          [Released(orders[o]) EXCEPT !.card = FALSE]]
    BY <1>1, <1>6 DEF DeclineReserved
  <2>4. orders' \in [Order -> OrderRecord]
    BY <1>1, <2>1, <2>2, <2>3, PutOrder
  <2>5. agenda' \in Seq(Call) /\ fleet' = fleet
    BY <1>3, <1>6 DEF DeclineReserved
  <2>6. pq' = pq \/ pq' = [Enqueue(pq, o) EXCEPT ![o].row = "waiting"]
    BY <1>6 DEF DeclineReserved
  <2>7. pq' \in [Order -> QueueRecord]
    <3>1. [Enqueue(pq, o) EXCEPT ![o].row = "waiting"] \in [Order -> QueueRecord]
      BY <1>1, ParkTypes
    <3> QED
      BY <1>1, <2>6, <3>1
  <2> QED
    BY <1>1, <2>4, <2>5, <2>7 DEF TypeOK
<1>7. CASE DeclineRouteOffer(d, o)
  <2>1. ASSUME NEW r \in OrderRecord
        PROVE  [r EXCEPT !.noAuto = r.noAuto \union {d}] \in OrderRecord
    BY DEF OrderRecord, OrderStatus, Timer
  <2>2. CloseRoute(orders[o]) \in OrderRecord
    BY <1>1, OrderTypes
  <2>3. orders' = [orders EXCEPT ![o] =
          [CloseRoute(orders[o]) EXCEPT !.noAuto = CloseRoute(orders[o]).noAuto \union {d}]]
    BY <1>1, <1>7 DEF DeclineRouteOffer
  <2>4. orders' \in [Order -> OrderRecord]
    BY <1>1, <2>1, <2>2, <2>3, PutOrder
  <2> QED
    BY <1>1, <1>3, <1>7, <2>4 DEF DeclineRouteOffer, TypeOK
<1> QED
  BY <1>2, <1>4, <1>5, <1>6, <1>7

\* So does the callback of every timer.
LEMMA TimerTypes ==
  ASSUME TypeOK, TimerStep
  PROVE  TypeOK'
<1> USE DEF Start
<1>1. /\ fleet \in Fleets /\ orders \in [Order -> OrderRecord]
      /\ pq \in [Order -> QueueRecord] /\ agenda \in Seq(Call)
      /\ \A p \in Order : orders[p] \in OrderRecord
  BY DEF TypeOK
<1>2. <<>> \in Seq(Call) /\ <<Promote>> \in Seq(Call) /\ <<PromoteUnflushed>> \in Seq(Call)
  BY StartTypes, CallTypes
<1>3. ASSUME NEW o \in Order, NEW kind,
             orders' = [orders EXCEPT ![o].jobs = @ \ {kind}]
      PROVE  orders' \in [Order -> OrderRecord]
  <2>1. ASSUME NEW r \in OrderRecord
        PROVE  [r EXCEPT !.jobs = r.jobs \ {kind}] \in OrderRecord
    BY DEF OrderRecord
  <2>2. orders' = [orders EXCEPT ![o] = [orders[o] EXCEPT !.jobs = @ \ {kind}]]
    BY <1>1, <1>3
  <2> QED
    BY <1>1, <2>1, <2>2, PutOrder
<1>4. ASSUME NEW o \in Order, AcceptTimeout(o)
      PROVE  TypeOK'
  <2>1. CASE orders[o].status = "searching" /\ orders[o].offered # None
    <3>1. orders[o].offered \in Driver
      BY <1>1, <2>1 DEF OrderRecord
    <3>2. orders' = [orders EXCEPT ![o] = Declined(orders[o])]
      BY <1>4, <2>1 DEF AcceptTimeout
    <3>3. orders' \in [Order -> OrderRecord]
      BY <1>1, <3>2, OrderTypes, PutOrder
    <3>4. fleet' \in Fleets
      BY <1>1, <1>4, <2>1, <3>1, FleetTypes DEF AcceptTimeout
    <3>5. <<Offer(o, {orders[o].offered}), Promote>> \in Seq(Call)
      BY <3>1, StartTypes, CallTypes
    <3>6. agenda' \in Seq(Call) /\ pq' = pq
      BY <1>4, <2>1, <3>5 DEF AcceptTimeout
    <3> QED
      BY <1>1, <3>3, <3>4, <3>6 DEF TypeOK
  <2>2. CASE ~(orders[o].status = "searching" /\ orders[o].offered # None)
    BY <1>1, <1>2, <1>3, <1>4, <2>2 DEF AcceptTimeout, TypeOK
  <2> QED
    BY <2>1, <2>2
<1>5. ASSUME NEW o \in Order, PollTimeout(o)
      PROVE  TypeOK'
  <2>1. CASE pq[o].row = "polling"
    <3>1. ASSUME NEW r \in OrderRecord
          PROVE  [r EXCEPT !.status = "cancelled", !.fixing = FALSE] \in OrderRecord
      BY DEF OrderRecord, OrderStatus, Timer
    <3>2. Withdraw(orders[o]) \in OrderRecord
      BY <1>1, OrderTypes
    <3>3. orders' = [orders EXCEPT ![o] =
            [Withdraw(orders[o]) EXCEPT !.status = "cancelled", !.fixing = FALSE]]
      BY <1>1, <1>5, <2>1 DEF PollTimeout
    <3>4. orders' \in [Order -> OrderRecord]
      BY <1>1, <3>1, <3>2, <3>3, PutOrder
    <3>5. pq' \in [Order -> QueueRecord]
      BY <1>1, <1>5, <2>1, QueueTypes DEF PollTimeout
    <3>6. agenda' \in Seq(Call) /\ fleet' = fleet
      BY <1>2, <1>5, <2>1 DEF PollTimeout
    <3> QED
      BY <1>1, <3>4, <3>5, <3>6 DEF TypeOK
  <2>2. CASE pq[o].row # "polling"
    BY <1>1, <1>2, <1>3, <1>5, <2>2 DEF PollTimeout, TypeOK
  <2> QED
    BY <2>1, <2>2
<1>6. ASSUME NEW o \in Order, EtaTimeout(o)
      PROVE  TypeOK'
  <2>1. CASE orders[o].status = "parallel_assigned" /\ ~orders[o].etaSet
    <3>1. ASSUME NEW r \in OrderRecord
          PROVE  [r EXCEPT !.card = FALSE] \in OrderRecord
      BY DEF OrderRecord
    <3>2. Released(orders[o]) \in OrderRecord
      BY <1>1, OrderTypes
    <3>3. orders' = [orders EXCEPT ![o] = [Released(orders[o]) EXCEPT !.card = FALSE]]
      BY <1>6, <2>1 DEF EtaTimeout
    <3>4. orders' \in [Order -> OrderRecord]
      BY <1>1, <3>1, <3>2, <3>3, PutOrder
    <3>5. pq' \in [Order -> QueueRecord]
      <4>1. [Enqueue(pq, o) EXCEPT ![o].row = "waiting"] \in [Order -> QueueRecord]
        BY <1>1, ParkTypes
      <4>2. pq' = [Enqueue(pq, o) EXCEPT ![o].row = "waiting"]
        BY <1>6, <2>1 DEF EtaTimeout
      <4> QED
        BY <4>1, <4>2
    <3>6. agenda' \in Seq(Call) /\ fleet' = fleet
      BY <1>2, <1>6, <2>1 DEF EtaTimeout
    <3> QED
      BY <1>1, <3>4, <3>5, <3>6 DEF TypeOK
  <2>2. CASE ~(orders[o].status = "parallel_assigned" /\ ~orders[o].etaSet)
    BY <1>1, <1>2, <1>3, <1>6, <2>2 DEF EtaTimeout, TypeOK
  <2> QED
    BY <2>1, <2>2
<1>7. ASSUME NEW o \in Order, RouteOfferTimeout(o)
      PROVE  TypeOK'
  <2> DEFINE d      == orders[o].routeDriver
             closed == [orders EXCEPT ![o] = CloseRoute(orders[o])]
  <2>1. closed \in [Order -> OrderRecord]
    BY <1>1, OrderTypes, PutOrder
  <2>2. UNCHANGED <<fleet, pq>>
    BY <1>7 DEF RouteOfferTimeout
  <2>3. CASE d # None /\ Unclaimed(orders[o])
    <3>1. d \in Driver
      BY <1>1, <2>3 DEF OrderRecord
    <3>2. ASSUME NEW r \in OrderRecord
          PROVE  /\ [r EXCEPT !.noAuto = r.noAuto \union {d}] \in OrderRecord
                 /\ [r EXCEPT !.autoOff = TRUE] \in OrderRecord
      <4>1. ASSUME NEW e \in Driver
            PROVE  [r EXCEPT !.noAuto = r.noAuto \union {e}] \in OrderRecord
        BY DEF OrderRecord
      <4>2. [r EXCEPT !.autoOff = TRUE] \in OrderRecord
        BY DEF OrderRecord
      <4> QED
        BY <3>1, <4>1, <4>2
    <3>3. /\ orders' = [p \in Order |->
                IF p = o THEN [closed[o] EXCEPT !.noAuto = @ \union {d}]
                ELSE IF p = orders[o].routeTrip /\ p \in Trips(orders, d)
                     THEN [closed[p] EXCEPT !.autoOff = TRUE]
                ELSE closed[p]]
          /\ agenda' = <<Do("fallback", o), Promote>>
      BY <1>7, <2>3 DEF RouteOfferTimeout
    <3>4. agenda' \in Seq(Call)
      BY <3>3, StartTypes, CallTypes DEF Function, AboutNoOrder, ForDriver
    <3> HIDE DEF closed, d
    <3>5. \A p \in Order : closed[p] \in OrderRecord
      BY <2>1
    <3>6. orders' \in [Order -> OrderRecord]
      BY <3>2, <3>3, <3>5
    <3> QED
      BY <1>1, <2>2, <3>4, <3>6 DEF TypeOK
  <2>4. CASE ~(d # None /\ Unclaimed(orders[o]))
    <3>1. orders' = closed /\ agenda' = <<>>
      BY <1>7, <2>4 DEF RouteOfferTimeout
    <3> QED
      BY <1>1, <1>2, <2>1, <2>2, <3>1 DEF TypeOK
  <2> QED
    BY <2>3, <2>4
<1>8. ASSUME NEW o \in Order, ChatTimeout(o)
      PROVE  TypeOK'
  <2> DEFINE over == [orders[o] EXCEPT !.status = "cancelled", !.fixing = FALSE,
                                       !.jobs = @ \ {"driver_chat"}]
             idle == [orders[o] EXCEPT !.jobs = @ \ {"driver_chat"}]
  <2>1. ASSUME NEW r \in OrderRecord
        PROVE  [r EXCEPT !.status = "cancelled", !.fixing = FALSE,
                         !.jobs = r.jobs \ {"driver_chat"}] \in OrderRecord
    BY DEF OrderRecord, OrderStatus
  <2>2. ASSUME NEW r \in OrderRecord
        PROVE  [r EXCEPT !.jobs = r.jobs \ {"driver_chat"}] \in OrderRecord
    BY DEF OrderRecord
  <2>3. over \in OrderRecord /\ idle \in OrderRecord
    BY <1>1, <2>1, <2>2
  <2>4. orders' = [orders EXCEPT ![o] = over] \/ orders' = [orders EXCEPT ![o] = idle]
    BY <1>8 DEF ChatTimeout
  <2> HIDE DEF over, idle
  <2>5. orders' \in [Order -> OrderRecord]
    BY <1>1, <2>3, <2>4, PutOrder
  <2> QED
    BY <1>1, <1>2, <1>8, <2>5 DEF ChatTimeout, TypeOK
<1>9. ASSUME NEW o \in Order, UnclaimedTimeout(o)
      PROVE  TypeOK'
  <2> DEFINE r0 == orders[o]
  <2>1. agenda' \in Seq(Call)
    BY <1>2, <1>9 DEF UnclaimedTimeout
  <2>2. CASE r0.driver = None /\ r0.parallel = None /\ r0.status \in Pending
    <3>1. ASSUME NEW r \in OrderRecord
          PROVE  [r EXCEPT !.status = "cancelled", !.offered = None,
                           !.jobs = r.jobs \ {"accept", "dispatcher_unclaimed"}] \in OrderRecord
      BY DEF OrderRecord, OrderStatus
    <3>2. Withdraw(orders[o]) \in OrderRecord
      BY <1>1, OrderTypes
    <3>3. orders' = [orders EXCEPT ![o] =
            [Withdraw(orders[o]) EXCEPT !.status = "cancelled", !.offered = None,
                                        !.jobs = @ \ {"accept", "dispatcher_unclaimed"}]]
      BY <1>9, <2>2 DEF UnclaimedTimeout
    <3>4. orders' \in [Order -> OrderRecord]
      BY <1>1, <3>1, <3>2, <3>3, PutOrder
    <3>5. orders[o].offered \in Driver \union {None}
      BY <1>1 DEF OrderRecord
    <3>6. fleet' \in Fleets
      <4>1. fleet' = IF r0.offered = None THEN fleet ELSE ReleaseOffer(fleet, r0.offered)
        BY <1>9, <2>2 DEF UnclaimedTimeout
      <4> QED
        BY <1>1, <3>5, <4>1, FleetTypes
    <3>7. pq' \in [Order -> QueueRecord]
      BY <1>1, <1>9, <2>2, QueueTypes DEF UnclaimedTimeout
    <3> QED
      BY <2>1, <3>4, <3>6, <3>7 DEF TypeOK
  <2>3. CASE ~(r0.driver = None /\ r0.parallel = None /\ r0.status \in Pending)
    <3>1. /\ orders' = [orders EXCEPT ![o].jobs = @ \ {"dispatcher_unclaimed"}]
          /\ UNCHANGED <<fleet, pq>>
      BY <1>9, <2>3 DEF UnclaimedTimeout
    <3> QED
      BY <1>1, <1>3, <2>1, <3>1 DEF TypeOK
  <2> QED
    BY <2>2, <2>3
<1>10. ASSUME NEW o \in Order, DeliveryTimeout(o)
       PROVE  TypeOK'
  <2>1. agenda' \in Seq(Call)
    BY <1>2, <1>10 DEF DeliveryTimeout
  <2>2. CASE Unanswered(orders[o])
    <3>1. DeliveryOff(o)
      BY <1>10, <2>2 DEF DeliveryTimeout
    <3> QED
      BY <1>1, <2>1, <3>1, DeliveryOffTypes DEF DeliveryOff, TypeOK
  <2>3. CASE ~Unanswered(orders[o])
    BY <1>1, <1>3, <1>10, <2>1, <2>3 DEF DeliveryTimeout, TypeOK
  <2> QED
    BY <2>2, <2>3
<1>11. ASSUME NEW d \in Driver, AwayTimeout(d)
       PROVE  TypeOK'
  BY <1>1, <1>2, <1>11, FleetTypes DEF AwayTimeout, TypeOK
<1> QED
  BY <1>4, <1>5, <1>6, <1>7, <1>8, <1>9, <1>10, <1>11 DEF TimerStep

\* So does the part of a handler that comes after the calls it makes: the end
\* of a cancellation, of a completed ride and of an abandoned trip.
LEMMA ResumedTypes ==
  ASSUME TypeOK, ResumedStep
  PROVE  TypeOK'
<1> USE DEF Calling, Then
<1>1. /\ fleet \in Fleets /\ orders \in [Order -> OrderRecord]
      /\ pq \in [Order -> QueueRecord] /\ agenda \in Seq(Call)
      /\ \A p \in Order : orders[p] \in OrderRecord
  BY DEF TypeOK
<1>2. ~Idle /\ Arg.fn \in {"passengerGone", "rideDone", "tripVoided", "carFailed", "tripLost"}
  BY DEF ResumedStep, PassengerGone, RideDone, TripVoided, CarFailed, TripLost, Arg
<1>3. /\ Tail(agenda) \in Seq(Call)
      /\ Arg.order \in Order
      /\ Arg.fn \in ForDriver => Arg.driver \in Driver
  BY <1>1, <1>2, ArgTypes DEF AboutNoOrder
<1> DEFINE o == Arg.order
           d == Arg.driver
<1>4. /\ \A a \in Call : <<a>> \o Tail(agenda) \in Seq(Call)
      /\ \A a, b \in Call : <<a, b>> \o Tail(agenda) \in Seq(Call)
      /\ \A a, b, c \in Call : <<a, b, c>> \o Tail(agenda) \in Seq(Call)
  BY <1>3, PushTypes
<1>5. /\ Promote \in Call /\ PromoteUnflushed \in Call /\ Offer(o, {}) \in Call
      /\ \A e \in Driver : For("startReserved", None, e) \in Call
      /\ \A e \in Driver : For("postRide", None, e) \in Call
      /\ \A e \in Driver : For("tripLost", o, e) \in Call
  BY <1>3, CallTypes DEF AboutNoOrder, ForDriver
<1>6. CASE PassengerGone
  <2> DEFINE r == orders[o]
             shown == r.offered # None /\ r.driver = None
             drove == r.driver # None /\ r.parallel = None
             next == drove /\ Reservations(orders, r.driver) # {}
             e1 == IF shown THEN None ELSE Cancel(Withdraw(r)).offered
             e2 == IF drove THEN Cancel(Withdraw(r)).driver ELSE None
  <2>1. Cancel(Withdraw(r)) \in OrderRecord
    BY <1>1, <1>3, OrderTypes
  <2>2. r.offered \in Driver \union {None} /\ r.driver \in Driver \union {None}
    BY <1>1, <1>3 DEF OrderRecord
  <2>3. e1 \in Driver \union {None} /\ e2 \in Driver \union {None}
    BY <2>1 DEF OrderRecord
  <2>4. orders' = [orders EXCEPT ![o] =
          [Cancel(Withdraw(r)) EXCEPT !.offered = e1, !.driver = e2, !.parallel = None]]
    BY <1>6 DEF PassengerGone
  <2>5. \/ fleet' = fleet
        \/ r.offered \in Driver /\ fleet' = ReleaseOffer(fleet, r.offered)
        \/ r.driver \in Driver /\ fleet' = RestorePosition(fleet, r.driver)
    BY <1>6, <2>2 DEF PassengerGone
  <2>6. pq' = Unqueue(pq, o)
    BY <1>6 DEF PassengerGone
  <2>7. agenda' \in Seq(Call)
    <3>1. agenda' = (IF next THEN <<For("startReserved", None, r.driver), PromoteUnflushed>>
                             ELSE <<PromoteUnflushed>>) \o Tail(agenda)
      BY <1>6 DEF PassengerGone
    <3>2. next => r.driver \in Driver
      BY <2>2
    <3> QED
      BY <1>4, <1>5, <3>1, <3>2
  <2> HIDE DEF e1, e2
  <2>8. ASSUME NEW x \in OrderRecord
        PROVE  [x EXCEPT !.offered = e1, !.driver = e2, !.parallel = None] \in OrderRecord
    BY <2>3 DEF OrderRecord
  <2>9. orders' \in [Order -> OrderRecord]
    BY <1>1, <1>3, <2>1, <2>4, <2>8, PutOrder
  <2>10. fleet' \in Fleets
    BY <1>1, <2>5, FleetTypes
  <2> QED
    BY <1>1, <1>3, <2>6, <2>7, <2>9, <2>10, QueueTypes DEF TypeOK
<1>7. CASE RideDone
  <2>1. d \in Driver
    BY <1>3, <1>7 DEF RideDone, Arg, ForDriver
  <2>2. fleet' = fleet \/ fleet' = OffLine(LeaveQueue(fleet, d), d)
    BY <1>7 DEF RideDone, LeaveChatLine
  <2>3. fleet' \in Fleets
    BY <1>1, <2>1, <2>2, FleetTypes
  <2>4. agenda' \in Seq(Call)
    BY <1>4, <1>5, <1>7, <2>1 DEF RideDone
  <2> QED
    BY <1>1, <1>7, <2>3, <2>4 DEF RideDone, TypeOK
<1>8. CASE TripVoided
  <2>1. d \in Driver
    BY <1>3, <1>8 DEF TripVoided, Arg, ForDriver
  <2>2. PICK f \in {fleet, SetAway(fleet, d)} : fleet' = f \/ fleet' = OffLine(LeaveQueue(f, d), d)
    BY <1>8 DEF TripVoided, LeaveChatLine
  <2>3. fleet' \in Fleets
    BY <1>1, <2>1, <2>2, FleetTypes
  <2>4. agenda' \in Seq(Call)
    BY <1>4, <1>5, <1>8, <2>1 DEF TripVoided
  <2>5. orders' = [orders EXCEPT ![o] = Cancel(orders[o])] /\ pq' = pq
    BY <1>8 DEF TripVoided
  <2> QED
    BY <1>1, <1>3, <2>3, <2>4, <2>5, OrderTypes, PutOrder DEF TypeOK
<1>9. CASE CarFailed
  <2>1. d \in Driver
    BY <1>3, <1>9 DEF CarFailed, Arg, ForDriver
  <2>2. fleet' = fleet
    BY <1>9 DEF CarFailed
  <2>3. CASE agenda' = <<For("tripLost", o, d)>> \o Tail(agenda) /\ UNCHANGED <<orders, pq>>
    BY <1>1, <1>4, <1>5, <2>1, <2>2, <2>3 DEF TypeOK
  <2>4. CASE \E p \in Reservations(orders, d) :
               /\ orders' = [orders EXCEPT ![p] = Released(orders[p])]
               /\ pq' = [Enqueue(pq, p) EXCEPT ![p].row = "waiting"]
               /\ agenda' = <<Promote, For("tripLost", o, d)>> \o Tail(agenda)
    <3>1. PICK p \in Order :
               /\ orders' = [orders EXCEPT ![p] = Released(orders[p])]
               /\ pq' = [Enqueue(pq, p) EXCEPT ![p].row = "waiting"]
               /\ agenda' = <<Promote, For("tripLost", o, d)>> \o Tail(agenda)
      BY <2>4 DEF Reservations
    <3>2. agenda' \in Seq(Call)
      BY <1>4, <1>5, <2>1, <3>1
    <3>3. orders' \in [Order -> OrderRecord]
      BY <1>1, <3>1, OrderTypes, PutOrder
    <3>4. pq' \in [Order -> QueueRecord]
      BY <1>1, <3>1, ParkTypes
    <3> QED
      BY <1>1, <2>2, <3>2, <3>3, <3>4 DEF TypeOK
  <2> QED
    BY <1>9, <2>3, <2>4 DEF CarFailed
<1>10. CASE TripLost
  <2>1. d \in Driver
    BY <1>3, <1>10 DEF TripLost, Arg, ForDriver
  <2>2. CASE orders[o].chatOffline
    <3>1. ASSUME NEW r \in OrderRecord
          PROVE  [r EXCEPT !.status = "cancelled"] \in OrderRecord
      BY DEF OrderRecord, OrderStatus, Timer
    <3>2. orders[o] \in OrderRecord
      BY <1>1, <1>3
    <3>3. orders' = [orders EXCEPT ![o] =
            [orders[o] EXCEPT !.status = "cancelled"]]
      BY <1>1, <1>10, <2>2 DEF TripLost
    <3>4. orders' \in [Order -> OrderRecord]
      BY <1>1, <1>3, <3>1, <3>2, <3>3, PutOrder
    <3>5. fleet' \in Fleets
      BY <1>1, <1>10, <2>1, <2>2, FleetTypes DEF TripLost
    <3>6. agenda' \in Seq(Call) /\ pq' = pq
      BY <1>4, <1>5, <1>10, <2>1, <2>2 DEF TripLost
    <3> QED
      BY <1>1, <3>4, <3>5, <3>6 DEF TypeOK
  <2>3. CASE ~orders[o].chatOffline
    <3>1. ASSUME NEW r \in OrderRecord
          PROVE  [r EXCEPT !.status = "searching", !.driver = None,
                            !.pricing = FALSE] \in OrderRecord
      BY DEF OrderRecord, OrderStatus, Timer
    <3>2. orders[o] \in OrderRecord
      BY <1>1, <1>3
    <3>3. orders' = [orders EXCEPT ![o] =
            [orders[o] EXCEPT !.status = "searching", !.driver = None, !.pricing = FALSE]]
      BY <1>1, <1>10, <2>3 DEF TripLost
    <3>4. orders' \in [Order -> OrderRecord]
      BY <1>1, <1>3, <3>1, <3>2, <3>3, PutOrder
    <3>5. fleet' \in Fleets
      <4>1. fleet' = SetAway(fleet, d)
        BY <1>10, <2>3 DEF TripLost
      <4> QED
        BY <1>1, <2>1, <4>1, FleetTypes
    <3>6. agenda' \in Seq(Call) /\ pq' = pq
      <4>1. agenda' = <<Offer(o, {}), Promote, For("postRide", None, d)>> \o Tail(agenda)
        BY <1>10, <2>3 DEF TripLost
      <4>2. pq' = pq
        BY <1>10 DEF TripLost
      <4> QED
        BY <1>4, <1>5, <2>1, <4>1, <4>2
    <3> QED
      BY <1>1, <3>4, <3>5, <3>6 DEF TypeOK
  <2> QED
    BY <2>2, <2>3
<1> QED
  BY <1>6, <1>7, <1>8, <1>9, <1>10 DEF ResumedStep

\* At the start every column is filled.
LEMMA FirstTypes == ASSUME Init PROVE TypeOK
<1>1. fleet \in Fleets
  BY DEF Init, EmptyFleet, Fleets, DriverRecord, Status, Row
<1>2. FreshOrder \in OrderRecord
  BY DEF FreshOrder, OrderRecord, OrderStatus
<1>3. pq \in [Order -> QueueRecord]
  BY DEF Init, QueueRecord
<1> QED
  BY <1>1, <1>2, <1>3, StartTypes DEF Init, TypeOK

\* Every transaction keeps the types.
LEMMA StepTypes == ASSUME TypeOK, [Next]_vars PROVE TypeOK'
<1>1. CASE Recovery
  <2>1. <<Promote>> \in Seq(Call)
    BY StartTypes, CallTypes
  <2> QED
    BY <1>1, <2>1 DEF Recovery, Start, TypeOK
<1>2. CASE UNCHANGED vars
  BY <1>2 DEF vars, TypeOK
<1> QED
  BY <1>1, <1>2, DispatchTypes, ResumedTypes, PassengerTypes, LineTypes, OfferTypes,
     TripTypes, ParallelTypes, TimerTypes DEF Next

\* Whatever the drivers, lines and requests: every status, row and reference a
\* handler or a timer writes is one its column has, and every call that is left
\* to make names what it is about.
THEOREM TypesHold == Spec => []TypeOK
<1>1. Init => TypeOK
  BY FirstTypes
<1>2. TypeOK /\ [Next]_vars => TypeOK'
  BY StepTypes
<1> QED
  BY <1>1, <1>2, PTL DEF Spec

\* A transaction that nothing disturbs is one of Rides.
LEMMA UndisturbedIsNext ==
  ASSUME Undisturbed
  PROVE  Next /\ UNCHANGED <<pressed, overtaken>>
<1>1. ASSUME NEW d \in Driver, DriverStep(d)
      PROVE  LineStep \/ OfferStep \/ TripStep \/ ParallelStep
  BY <1>1 DEF DriverStep, LineStep, OfferStep, TripStep, ParallelStep
<1> QED
  BY <1>1 DEF Undisturbed, Next

\* The calls that find a driver, a request or a question taken keep the types.
LEMMA OvertakenCallsTypes ==
  ASSUME TypeOK, FindsTaken \/ PromoteOverlooks \/ DriverSkipped \/ RequestSkipped
  PROVE  TypeOK'
<1>1. /\ fleet \in Fleets /\ orders \in [Order -> OrderRecord]
      /\ pq \in [Order -> QueueRecord] /\ agenda \in Seq(Call)
      /\ \A p \in Order : orders[p] \in OrderRecord
  BY DEF TypeOK
<1>2. Repaired \in Fleets
  BY <1>1, RepairIsFleet DEF Repaired
<1>3. ~Idle
  BY DEF FindsTaken, Looked, PromoteOverlooks, Promoting, DriverSkipped, RequestSkipped,
         RequestHeld, Notifying, FallingBack, Calling
<1>4. /\ Tail(agenda) \in Seq(Call)
      /\ Arg.todo \in SUBSET Order
      /\ Arg.but \in SUBSET Driver
      /\ Arg.fn \notin AboutNoOrder => Arg.order \in Order
  BY <1>1, <1>3, ArgTypes
<1>5. CASE FindsTaken
  <2>1. PICK o \in Looked :
          IF Calling("scan") /\ o \notin Desk /\ ~orders[o].confirmed
          THEN pq' = Unqueue(pq, o) /\ orders' = [orders EXCEPT ![o] = Withdraw(orders[o])]
          ELSE UNCHANGED <<orders, pq>>
    BY <1>1, <1>5 DEF FindsTaken
  <2>2. o \in Order
    <3>1. FallingBack => Arg.order \in Order
      BY <1>4 DEF FallingBack, Calling, Arg, AboutNoOrder
    <3>2. \A g : Next_(g) \subseteq Order
      BY <1>4 DEF Next_, First
    <3> QED
      BY <3>1, <3>2 DEF Looked
  <2>3. pq' \in [Order -> QueueRecord] /\ orders' \in [Order -> OrderRecord]
    <3>1. Withdraw(orders[o]) \in OrderRecord
      BY <1>1, <2>2, OrderTypes
    <3>2. [orders EXCEPT ![o] = Withdraw(orders[o])] \in [Order -> OrderRecord]
      BY <1>1, <2>2, <3>1, PutOrder
    <3>3. Unqueue(pq, o) \in [Order -> QueueRecord]
      BY <1>1, <2>2, QueueTypes
    <3> QED
      BY <1>1, <2>1, <3>2, <3>3
  <2>4. fleet' \in Fleets /\ agenda' \in Seq(Call)
    BY <1>1, <1>2, <1>4, <1>5 DEF FindsTaken, Return
  <2> QED
    BY <2>3, <2>4 DEF TypeOK
<1>6. CASE PromoteOverlooks
  <2> DEFINE todo == {o \in Order : pq[o].row = "waiting"}
  <2>1. Scan(todo) \in Call
    BY CallTypes
  <2>2. agenda' = <<Scan(todo)>> \o Tail(agenda)
    BY <1>6 DEF PromoteOverlooks, Then
  <2>3. agenda' \in Seq(Call)
    BY <1>4, <2>1, <2>2, PushTypes
  <2> QED
    BY <1>1, <1>2, <1>6, <2>3 DEF PromoteOverlooks, TypeOK
<1>7. CASE DriverSkipped
  <2>1. Arg.order \in Order
    BY <1>4, <1>7 DEF DriverSkipped, Calling, Arg, AboutNoOrder
  <2>2. PICK d \in Driver : agenda' = <<Offer(Arg.order, Arg.but \union {d})>> \o Tail(agenda)
    BY <1>7 DEF DriverSkipped, Then, Eligible, Waiting, Free, VisiblyFree
  <2>3. Offer(Arg.order, Arg.but \union {d}) \in Call
    BY <1>4, <2>1, CallTypes
  <2>4. agenda' \in Seq(Call)
    BY <1>4, <2>2, <2>3, PushTypes
  <2>5. orders' \in [Order -> OrderRecord]
    <3>1. ASSUME NEW r \in OrderRecord
          PROVE  [r EXCEPT !.status = "created", !.offered = None] \in OrderRecord
      BY DEF OrderRecord, OrderStatus
    <3>2. \/ orders' = orders
          \/ orders' = [orders EXCEPT ![Arg.order] =
                          [orders[Arg.order] EXCEPT !.status = "created", !.offered = None]]
      BY <1>1, <1>7, <2>1 DEF DriverSkipped
    <3>3. [orders[Arg.order] EXCEPT !.status = "created", !.offered = None] \in OrderRecord
      BY <1>1, <2>1, <3>1
    <3> QED
      BY <1>1, <2>1, <3>2, <3>3, PutOrder
  <2> QED
    BY <1>1, <1>2, <1>7, <2>4, <2>5 DEF DriverSkipped, TypeOK
<1>8. CASE RequestSkipped
  BY <1>1, <1>2, <1>4, <1>8 DEF RequestSkipped, Return, TypeOK
<1> QED
  BY <1>5, <1>6, <1>7, <1>8

\* So do the handlers that look at what has changed meanwhile.
LEMMA LateHandlersTypes ==
  ASSUME TypeOK, pressed \in [Driver -> Order \union {None}], NEW d \in Driver,
         \/ ReleaseStaleOffer(d) \/ AcceptLate(d) \/ MenuLate(d) \/ RepairLate(d)
         \/ \E o \in Order : ClaimLate(d, o)
  PROVE  TypeOK'
<1> USE DEF Start
<1>1. /\ fleet \in Fleets /\ orders \in [Order -> OrderRecord]
      /\ pq \in [Order -> QueueRecord] /\ agenda \in Seq(Call)
      /\ \A p \in Order : orders[p] \in OrderRecord
  BY DEF TypeOK
<1>2. <<>> \in Seq(Call) /\ <<Promote>> \in Seq(Call)
      /\ \A o \in Order : <<Offer(o, {d})>> \in Seq(Call)
  BY StartTypes, CallTypes
<1>3. CASE ReleaseStaleOffer(d)
  <2>1. PICK o \in Order :
          /\ orders' = [orders EXCEPT ![o] = [Declined(orders[o]) EXCEPT !.status = "created"]]
          /\ agenda' = <<Offer(o, {d})>>
    BY <1>1, <1>3 DEF ReleaseStaleOffer, StaleOffers
  <2>2. ASSUME NEW r \in OrderRecord
        PROVE  [r EXCEPT !.status = "created"] \in OrderRecord
    BY DEF OrderRecord, OrderStatus
  <2>3. orders' \in [Order -> OrderRecord]
    BY <1>1, <2>1, <2>2, OrderTypes, PutOrder
  <2> QED
    BY <1>1, <1>2, <1>3, <2>1, <2>3, FleetTypes DEF ReleaseStaleOffer, TypeOK
<1>4. CASE AcceptLate(d)
  <2> DEFINE o == pressed[d]
             x == [orders[o] EXCEPT !.offered = None, !.driver = d, !.status = "assigned",
                                    !.jobs = @ \ {"accept", "dispatcher_unclaimed"}]
  <2>1. o \in Order
    BY <1>4 DEF AcceptLate
  <2>2. ASSUME NEW r \in OrderRecord
        PROVE  [r EXCEPT !.offered = None, !.driver = d, !.status = "assigned",
                         !.jobs = r.jobs \ {"accept", "dispatcher_unclaimed"}] \in OrderRecord
    BY DEF OrderRecord, OrderStatus
  <2>3. x \in OrderRecord
    BY <1>1, <2>1, <2>2
  <2>4. orders' = [orders EXCEPT ![o] = Prompted(o, x)]
    BY <1>4 DEF AcceptLate
  <2> HIDE DEF x
  <2>5. orders' \in [Order -> OrderRecord]
    BY <1>1, <2>1, <2>3, <2>4, OrderTypes, PutOrder
  <2> QED
    BY <1>1, <1>2, <1>4, <2>5, FleetTypes DEF AcceptLate, TypeOK
<1>5. CASE MenuLate(d)
  <2>1. fleet' \in Fleets
    <3>1. ASSUME NEW l \in Line PROVE [fleet EXCEPT ![d].line = l] \in Fleets
      BY <1>1 DEF Fleets, DriverRecord
    <3> QED
      BY <1>1, <1>5, <3>1, FleetTypes DEF MenuLate
  <2> QED
    BY <1>1, <1>2, <1>5, <2>1 DEF MenuLate, TypeOK
<1>6. CASE RepairLate(d)
  <2>1. fleet[d].status \in Status /\ "waiting" \in Row
    BY <1>1 DEF Fleets, DriverRecord, Row
  <2>2. [fleet EXCEPT ![d].row = "waiting", ![d].status = fleet[d].status] \in Fleets
    BY <1>1, <2>1, RowAndStatus
  <2>3. [fleet EXCEPT ![d].row = "waiting"]
          = [fleet EXCEPT ![d].row = "waiting", ![d].status = fleet[d].status]
    BY <1>1 DEF Fleets
  <2> QED
    BY <1>1, <1>6, <2>2, <2>3 DEF RepairLate, TypeOK
<1>7. ASSUME NEW o \in Order, ClaimLate(d, o) PROVE TypeOK'
  BY <1>7, ClaimTypes DEF ClaimLate
<1> QED
  BY <1>3, <1>4, <1>5, <1>6, <1>7

\* Whatever overlaps, every column keeps its type.
LEMMA OverlapTypes == OverlapSpec => []OverlapTypeOK
<1>1. OverlapInit => OverlapTypeOK
  BY FirstTypes DEF OverlapInit, OverlapTypeOK, Kind
<1>2. OverlapTypeOK /\ [OverlapNext]_allVars => OverlapTypeOK'
  <2> SUFFICES ASSUME OverlapTypeOK, [OverlapNext]_allVars PROVE OverlapTypeOK'
    OBVIOUS
  <2> USE DEF OverlapTypeOK, Overtakes, Kind
  <2>1. CASE UNCHANGED allVars
    BY <2>1, StepTypes DEF allVars, vars
  <2>2. CASE Undisturbed
    BY <2>2, UndisturbedIsNext, StepTypes
  <2>3. CASE FindsTaken \/ PromoteOverlooks \/ DriverSkipped \/ RequestSkipped
    <3>1. TypeOK'
      BY <2>3, OvertakenCallsTypes
    <3> QED
      BY <2>3, <3>1 DEF FindsTaken, PromoteOverlooks, DriverSkipped, RequestSkipped
  <2>4. ASSUME NEW d \in Driver,
               \/ ReleaseStaleOffer(d) \/ AcceptLate(d) \/ MenuLate(d) \/ RepairLate(d)
               \/ \E o \in Order : ClaimLate(d, o)
        PROVE  OverlapTypeOK'
    <3>1. TypeOK'
      BY <2>4, LateHandlersTypes
    <3>2. pressed' \in [Driver -> Order \union {None}]
      BY <2>4 DEF ReleaseStaleOffer, AcceptLate, MenuLate, RepairLate, ClaimLate
    <3>3. overtaken' \subseteq Kind
      BY <2>4 DEF ReleaseStaleOffer, AcceptLate, MenuLate, RepairLate, ClaimLate
    <3> QED
      BY <3>1, <3>2, <3>3
  <2>5. ASSUME NEW d \in Driver, NEW o \in Order, PressAccept(d, o)
        PROVE  OverlapTypeOK'
    BY <2>5, StepTypes DEF PressAccept, vars
  <2> QED
    BY <2>1, <2>2, <2>3, <2>4, <2>5 DEF OverlapNext
<1> QED
  BY <1>1, <1>2, PTL DEF OverlapSpec

----------------------------------------------------------------------------
(* One question at a time.                                                  *)

\* No promotion is looking through the queue.
NoScan(s) == \A i \in DOMAIN s : s[i].fn # "scan"

\* A promotion looks through the queue only as the call on top, and only while
\* no question is on screen: it may ask one then.
QuestionInv ==
  /\ OneQuestion
  /\ ~Idle => NoScan(Tail(agenda))
  /\ Calling("scan") => Polls(pq) = {}

\* What the functions of the queue do to the questions on screen.
LEMMA PollsShrink ==
  ASSUME NEW q \in [Order -> QueueRecord], NEW o \in Order, NEW P
  PROVE  /\ Polls(Enqueue(q, o)) \subseteq Polls(q)
         /\ Polls(Unqueue(q, o)) \subseteq Polls(q)
         /\ Polls(Pause(q, P)) \subseteq Polls(q)
         /\ Polls([q EXCEPT ![o].row = "waiting"]) \subseteq Polls(q)
<1>1. Polls(Enqueue(q, o)) \subseteq Polls(q)
  BY DEF Polls, Enqueue, QueueRecord
<1>2. Polls(Unqueue(q, o)) \subseteq Polls(q)
  BY DEF Polls, Unqueue, QueueRecord
<1>3. Polls(Pause(q, P)) \subseteq Polls(q)
  <2> SUFFICES ASSUME NEW p \in Polls(Pause(q, P)) PROVE p \in Polls(q)
    OBVIOUS
  <2>1. p \in Order /\ Pause(q, P)[p].row = "polling"
    BY DEF Polls
  <2>2. p \notin P
    BY <2>1 DEF Pause, QueueRecord
  <2> QED
    BY <2>1, <2>2 DEF Polls, Pause
<1>4. Polls([q EXCEPT ![o].row = "waiting"]) \subseteq Polls(q)
  BY DEF Polls, QueueRecord
<1> QED
  BY <1>1, <1>2, <1>3, <1>4

\* What is below a call, and the call itself, if no call is a promotion that
\* looks through the queue.
LEMMA TailHasNoScan ==
  ASSUME NEW s \in Seq(Call), s # <<>>, NoScan(s)
  PROVE  NoScan(Tail(s)) /\ Head(s).fn # "scan"
<1>1. DOMAIN s = 1 .. Len(s) /\ Len(s) \in Nat /\ Len(s) >= 1
  OBVIOUS
<1>2. DOMAIN Tail(s) = 1 .. Len(s) - 1 /\ \A i \in 1 .. Len(s) - 1 : Tail(s)[i] = s[i + 1]
  BY <1>1
<1> QED
  BY <1>1, <1>2 DEF NoScan

\* Pushing calls that are no such promotion adds none.
LEMMA PushHasNoScan ==
  ASSUME NEW s \in Seq(Call), NoScan(s)
  PROVE  /\ NoScan(<<>>)
         /\ \A a \in Call : a.fn # "scan" => NoScan(<<a>> \o s)
         /\ \A a, b \in Call : a.fn # "scan" /\ b.fn # "scan" => NoScan(<<a, b>> \o s)
         /\ \A a, b, c \in Call :
              a.fn # "scan" /\ b.fn # "scan" /\ c.fn # "scan" => NoScan(<<a, b, c>> \o s)
<1>1. ASSUME NEW t \in Seq(Call), NoScan(t)
      PROVE  NoScan(t \o s)
  <2>1. /\ DOMAIN (t \o s) = 1 .. Len(t) + Len(s)
        /\ \A i \in 1 .. Len(t) + Len(s) :
             (t \o s)[i] = IF i <= Len(t) THEN t[i] ELSE s[i - Len(t)]
    BY ConcatProperties
  <2>2. Len(t) \in Nat /\ Len(s) \in Nat /\ DOMAIN t = 1 .. Len(t) /\ DOMAIN s = 1 .. Len(s)
    OBVIOUS
  <2> QED
    BY <1>1, <2>1, <2>2 DEF NoScan
<1>2. NoScan(<<>>)
  BY DEF NoScan
<1>3. \A a \in Call : a.fn # "scan" => <<a>> \in Seq(Call) /\ NoScan(<<a>>)
  BY DEF NoScan
<1>4. \A a, b \in Call : a.fn # "scan" /\ b.fn # "scan"
        => <<a, b>> \in Seq(Call) /\ NoScan(<<a, b>>)
  BY DEF NoScan
<1>5. \A a, b, c \in Call : a.fn # "scan" /\ b.fn # "scan" /\ c.fn # "scan"
        => <<a, b, c>> \in Seq(Call) /\ NoScan(<<a, b, c>>)
  BY DEF NoScan
<1> QED
  BY <1>1, <1>2, <1>3, <1>4, <1>5

\* None on top and none below: none at all.
LEMMA HeadAndTailHaveNoScan ==
  ASSUME NEW s \in Seq(Call), s # <<>>, NoScan(Tail(s)), Head(s).fn # "scan"
  PROVE  NoScan(s)
<1>1. DOMAIN s = 1 .. Len(s) /\ Len(s) \in Nat /\ Len(s) >= 1
  OBVIOUS
<1>2. DOMAIN Tail(s) = 1 .. Len(s) - 1 /\ \A i \in 1 .. Len(s) - 1 : Tail(s)[i] = s[i + 1]
  BY <1>1
<1>3. ASSUME NEW i \in 1 .. Len(s)
      PROVE  s[i].fn # "scan"
  <2>1. CASE i = 1
    BY <2>1
  <2>2. CASE i # 1
    <3>1. i - 1 \in 1 .. Len(s) - 1 /\ Tail(s)[i - 1] = s[i]
      BY <1>1, <1>2, <2>2
    <3> QED
      BY <1>2, <3>1 DEF NoScan
  <2> QED
    BY <2>1, <2>2
<1> QED
  BY <1>1, <1>3 DEF NoScan

\* A call that is pushed is on top of the calls that were left.
LEMMA HeadTailOfPush ==
  ASSUME NEW s \in Seq(Call), NEW a \in Call
  PROVE  <<a>> \o s # <<>> /\ Tail(<<a>> \o s) = s
BY HeadTailProperties, ConcatProperties

\* try_promote withdraws every question on screen before it looks through the
\* queue.
LEMMA PollsShrinkAll ==
  ASSUME NEW q \in [Order -> QueueRecord]
  PROVE  Polls(Pause(q, Polls(q))) = {}
BY DEF Polls, Pause, QueueRecord

\* The calls with which a handler starts.
LEMMA StartHasNoScan ==
  /\ NoScan(<<>>)
  /\ \A a : a.fn # "scan" => NoScan(<<a>>)
  /\ \A a, b : a.fn # "scan" /\ b.fn # "scan" => NoScan(<<a, b>>)
BY DEF NoScan

\* A step that starts no promotion and asks nothing keeps the invariant.
LEMMA QuietStep ==
  ASSUME QuestionInv, agenda' \in Seq(Call), NoScan(agenda'), Polls(pq)' \subseteq Polls(pq)
  PROVE  QuestionInv'
<1>1. OneQuestion'
  BY DEF QuestionInv, OneQuestion
<1>2. agenda' # <<>> => NoScan(Tail(agenda)') /\ Head(agenda)'.fn # "scan"
  BY TailHasNoScan
<1> QED
  BY <1>1, <1>2 DEF QuestionInv, Idle, Calling, NoScan

\* The function each call names, and the request and driver it is about.
LEMMA CallNames ==
  /\ Promote.fn = "promote" /\ PromoteUnflushed.fn = "promoteUnflushed"
  /\ \A todo : Scan(todo).fn = "scan"
  /\ \A o, but : Offer(o, but).fn = "offer" /\ Offer(o, but).order = o
  /\ \A fn, o : Do(fn, o).fn = fn /\ Do(fn, o).order = o
  /\ \A fn, o, d : For(fn, o, d).fn = fn /\ For(fn, o, d).order = o /\ For(fn, o, d).driver = d
BY DEF Promote, PromoteUnflushed, Scan, Offer, Do, For

\* Parking a request as waiting asks nothing.
LEMMA ParkShrinks ==
  ASSUME NEW q \in [Order -> QueueRecord], NEW o \in Order
  PROVE  Polls([Enqueue(q, o) EXCEPT ![o].row = "waiting"]) \subseteq Polls(q)
<1>1. Enqueue(q, o) \in [Order -> QueueRecord]
  BY QueueTypes
<1>2. Polls([Enqueue(q, o) EXCEPT ![o].row = "waiting"]) \subseteq Polls(Enqueue(q, o))
  BY <1>1, PollsShrink
<1> QED
  BY <1>2, PollsShrink

\* Nor does a step that leaves the queue alone, or takes a request out of it.
LEMMA UnqueuedPolls ==
  ASSUME pq \in [Order -> QueueRecord], pq' = pq \/ \E o \in Order : pq' = Unqueue(pq, o)
  PROVE  Polls(pq)' \subseteq Polls(pq)
<1>1. CASE pq' = pq
  BY <1>1
<1>2. ASSUME NEW o \in Order, pq' = Unqueue(pq, o)
      PROVE  Polls(pq)' \subseteq Polls(pq)
  BY <1>2, PollsShrink
<1> QED
  BY <1>1, <1>2

\* None of the handlers and timers starts to look through the queue itself, or
\* asks a question: first the handlers of passengers and dispatchers.
LEMMA PassengersAreQuiet ==
  ASSUME TypeOK, PassengerStep
  PROVE  NoScan(agenda') /\ Polls(pq)' \subseteq Polls(pq)
<1> USE StartHasNoScan, CallNames DEF Start
<1>1. pq \in [Order -> QueueRecord]
  BY DEF TypeOK
<1>2. PICK o \in Order :
        \/ NewRide(o) \/ NewDeskRide(o) \/ PassengerCancel(o)
        \/ ConfirmActual(o) \/ ConfirmNot(o) \/ NewAddress(o)
        \/ PriceAgreed(o) \/ PriceRefused(o)
  BY DEF PassengerStep
<1>3. CASE NewRide(o)
  <2>1. NoScan(agenda')
    BY <1>3 DEF NewRide
  <2>2. pq' = pq \/ pq' = Enqueue(pq, o)
    BY <1>3 DEF NewRide
  <2> QED
    BY <1>1, <2>1, <2>2, PollsShrink
<1>4. CASE NewDeskRide(o)
  BY <1>4 DEF NewDeskRide
<1>5. CASE PassengerCancel(o)
  BY <1>5 DEF PassengerCancel
<1>6. CASE ConfirmActual(o)
  <2> DEFINE P == Polls(pq) \ {o}
  <2>1. NoScan(agenda') /\ pq' = [Pause(pq, P) EXCEPT ![o].row = "waiting"]
    BY <1>6 DEF ConfirmActual
  <2> HIDE DEF P
  <2>2. Polls([Pause(pq, P) EXCEPT ![o].row = "waiting"]) \subseteq Polls(Pause(pq, P))
    BY <1>1, PauseTypes, PollsShrink
  <2>3. Polls(Pause(pq, P)) \subseteq Polls(pq)
    BY <1>1, PollsShrink
  <2> QED
    BY <2>1, <2>2, <2>3
<1>7. CASE ConfirmNot(o)
  <2>1. NoScan(agenda')
    BY <1>7 DEF ConfirmNot
  <2>2. pq' = pq \/ pq' = Unqueue(pq, o)
    BY <1>7 DEF ConfirmNot
  <2> QED
    BY <1>1, <2>1, <2>2, PollsShrink
<1>8. CASE NewAddress(o)
  <2>1. NoScan(agenda')
    BY <1>8 DEF NewAddress
  <2>2. pq' = pq \/ pq' = Unqueue(pq, o)
    BY <1>8 DEF NewAddress
  <2> QED
    BY <1>1, <2>1, <2>2, PollsShrink
<1>9. CASE PriceAgreed(o)
  BY <1>9 DEF PriceAgreed
<1>10. CASE PriceRefused(o)
  BY <1>10 DEF PriceRefused, DeliveryOff
<1> QED
  BY <1>2, <1>3, <1>4, <1>5, <1>6, <1>7, <1>8, <1>9, <1>10

\* The handlers of drivers.
LEMMA DriversAreQuiet ==
  ASSUME TypeOK, LineStep \/ OfferStep \/ TripStep \/ ParallelStep
  PROVE  NoScan(agenda') /\ Polls(pq)' \subseteq Polls(pq)
<1> USE StartHasNoScan, CallNames DEF Start
<1>1. pq \in [Order -> QueueRecord]
  BY DEF TypeOK
<1>2. \/ \E d \in Driver : \/ GoOnline(d) \/ LeaveLine(d) \/ GoAway(d)
                            \/ \E l \in Line : SetLine(d, l)
      \/ \E d \in Driver, o \in Order :
           \/ Accept(d, o) \/ DeclineEnds(d, o) \/ DeclineAsksAddress(d, o)
           \/ DeclineAway(d, o) \/ \E reason \in Reason : DeclinePasses(d, o, reason)
           \/ TakePending(d, o) \/ TakeFromChat(d, o)
           \/ SubmitPrice(d, o) \/ ApplyEta(d, o) \/ Arrived(d, o) \/ Seated(d, o)
           \/ Complete(d, o)
           \/ \E outcome \in {"tripVoided", "carFailed"} : CancelActive(d, o, outcome)
           \/ \E t \in Order : Take(d, o, t)
           \/ SaveEta(d, o) \/ DeclineReserved(d, o) \/ DeclineRouteOffer(d, o)
  BY DEF LineStep, OfferStep, TripStep, ParallelStep, TakeRouteOffer
<1>3. ASSUME NEW d \in Driver,
             \/ GoOnline(d) \/ LeaveLine(d) \/ GoAway(d)
             \/ \E l \in Line : SetLine(d, l)
      PROVE  NoScan(agenda') /\ Polls(pq)' \subseteq Polls(pq)
  BY <1>3 DEF GoOnline, LeaveLine, GoAway, SetLine
<1>4. ASSUME NEW d \in Driver, NEW o \in Order,
             \/ Accept(d, o) \/ DeclineAsksAddress(d, o) \/ DeclineAway(d, o)
             \/ \E reason \in Reason : DeclinePasses(d, o, reason)
      PROVE  NoScan(agenda') /\ Polls(pq)' \subseteq Polls(pq)
  <2>1. /\ \/ agenda' = <<>> \/ agenda' = <<Promote>>
           \/ agenda' = <<Offer(o, {})>> \/ agenda' = <<Offer(o, {}), Promote>>
        /\ pq' = pq
    BY <1>4 DEF Accept, DeclineAsksAddress, DeclineAway, DeclinePasses
  <2> QED
    BY <2>1
<1>5. ASSUME NEW d \in Driver, NEW o \in Order,
             \/ SubmitPrice(d, o) \/ ApplyEta(d, o) \/ Arrived(d, o) \/ Seated(d, o)
             \/ Complete(d, o) \/ SaveEta(d, o) \/ DeclineRouteOffer(d, o)
             \/ \E outcome \in {"tripVoided", "carFailed"} : CancelActive(d, o, outcome)
      PROVE  NoScan(agenda') /\ Polls(pq)' \subseteq Polls(pq)
  BY <1>5 DEF SubmitPrice, ApplyEta, Arrived, Seated, Complete, SaveEta,
           DeclineRouteOffer, CancelActive
<1>6. ASSUME NEW d \in Driver, NEW o \in Order,
             DeclineEnds(d, o) \/ TakePending(d, o) \/ TakeFromChat(d, o)
             \/ \E t \in Order : Take(d, o, t)
      PROVE  NoScan(agenda') /\ Polls(pq)' \subseteq Polls(pq)
  <2>1. NoScan(agenda')
    BY <1>6 DEF DeclineEnds, TakePending, ClaimPending, TakeFromChat, Take
  <2>2. pq' = pq \/ pq' = Unqueue(pq, o)
    BY <1>6 DEF DeclineEnds, TakePending, ClaimPending, TakeFromChat, Take
  <2> QED
    BY <1>1, <2>1, <2>2, PollsShrink
<1>7. ASSUME NEW d \in Driver, NEW o \in Order, DeclineReserved(d, o)
      PROVE  NoScan(agenda') /\ Polls(pq)' \subseteq Polls(pq)
  <2>1. NoScan(agenda')
    BY <1>7 DEF DeclineReserved
  <2>2. pq' = pq \/ pq' = [Enqueue(pq, o) EXCEPT ![o].row = "waiting"]
    BY <1>7 DEF DeclineReserved
  <2>3. Polls([Enqueue(pq, o) EXCEPT ![o].row = "waiting"]) \subseteq Polls(pq)
    BY <1>1, ParkShrinks
  <2> QED
    BY <2>1, <2>2, <2>3
<1> QED
  BY <1>2, <1>3, <1>4, <1>5, <1>6, <1>7

\* The callbacks of timers, and the recovery worker.
LEMMA TimersAreQuiet ==
  ASSUME TypeOK, TimerStep \/ Recovery
  PROVE  NoScan(agenda') /\ Polls(pq)' \subseteq Polls(pq)
<1> USE StartHasNoScan, CallNames DEF Start
<1>1. pq \in [Order -> QueueRecord]
  BY DEF TypeOK
<1>2. \/ \E o \in Order :
           \/ AcceptTimeout(o) \/ PollTimeout(o) \/ EtaTimeout(o)
           \/ RouteOfferTimeout(o) \/ ChatTimeout(o) \/ UnclaimedTimeout(o)
           \/ DeliveryTimeout(o)
      \/ Recovery \/ \E d \in Driver : AwayTimeout(d)
  BY DEF TimerStep
<1>3. ASSUME NEW o \in Order,
             AcceptTimeout(o) \/ RouteOfferTimeout(o) \/ ChatTimeout(o) \/ DeliveryTimeout(o)
      PROVE  NoScan(agenda') /\ Polls(pq)' \subseteq Polls(pq)
  BY <1>3 DEF AcceptTimeout, RouteOfferTimeout, ChatTimeout, DeliveryTimeout, DeliveryOff
<1>4. ASSUME NEW o \in Order, PollTimeout(o) \/ UnclaimedTimeout(o)
      PROVE  NoScan(agenda') /\ Polls(pq)' \subseteq Polls(pq)
  <2>1. NoScan(agenda')
    BY <1>4 DEF PollTimeout, UnclaimedTimeout
  <2>2. pq' = pq \/ pq' = Unqueue(pq, o)
    BY <1>4 DEF PollTimeout, UnclaimedTimeout
  <2> QED
    BY <1>1, <2>1, <2>2, PollsShrink
<1>5. ASSUME NEW o \in Order, EtaTimeout(o)
      PROVE  NoScan(agenda') /\ Polls(pq)' \subseteq Polls(pq)
  <2>1. NoScan(agenda')
    BY <1>5 DEF EtaTimeout
  <2>2. pq' = pq \/ pq' = [Enqueue(pq, o) EXCEPT ![o].row = "waiting"]
    BY <1>5 DEF EtaTimeout
  <2>3. Polls([Enqueue(pq, o) EXCEPT ![o].row = "waiting"]) \subseteq Polls(pq)
    BY <1>1, ParkShrinks
  <2> QED
    BY <2>1, <2>2, <2>3
<1>6. CASE Recovery \/ \E d \in Driver : AwayTimeout(d)
  BY <1>6 DEF Recovery, AwayTimeout
<1> QED
  BY <1>2, <1>3, <1>4, <1>5, <1>6

\* Nor do the calls, except those that start a promotion or belong to it.
LEMMA CallsKeepQuestionInv ==
  ASSUME TypeOK, QuestionInv, TypeOK', DispatchStep \/ ResumedStep
  PROVE  QuestionInv'
<1> USE CallNames DEF Calling, Notifying, FallingBack, Promoting, Then, Return
<1>1. /\ pq \in [Order -> QueueRecord] /\ agenda \in Seq(Call) /\ agenda' \in Seq(Call)
  BY DEF TypeOK
<1>2. ~Idle
  BY DEF DispatchStep, OfferRefused, OfferMade, OfferFindsNobody, NoDriverParks,
         NoDriverToChat, NotifyMade, NotifyNobody, FallbackOffers,
         FallbackWaits, PromoteMisses, PromoteWaitsForAnswer, PromoteStarts, ScanEnds,
         ScanFallsBack, ScanAsks, ScanOffers, ScanNotifies, ReleaseNext, ReleaseEnds,
         StartReserved, PostRide,
         ResumedStep, PassengerGone, RideDone, TripVoided, CarFailed, TripLost
<1>3. /\ Tail(agenda) \in Seq(Call)
      /\ NoScan(Tail(agenda))
      /\ Arg.todo \in SUBSET Order
      /\ Arg.fn \notin AboutNoOrder => Arg.order \in Order
      /\ Arg.fn \in ForDriver => Arg.driver \in Driver
  BY <1>1, <1>2, ArgTypes DEF QuestionInv
<1>4. /\ \A a \in Call : a.fn # "scan" => NoScan(<<a>> \o Tail(agenda))
      /\ \A a, b \in Call : a.fn # "scan" /\ b.fn # "scan" => NoScan(<<a, b>> \o Tail(agenda))
      /\ \A a, b, c \in Call :
           a.fn # "scan" /\ b.fn # "scan" /\ c.fn # "scan" => NoScan(<<a, b, c>> \o Tail(agenda))
  BY <1>3, PushHasNoScan
<1>5. /\ \A o \in Order : Offer(o, {}) \in Call
      /\ \A o \in Order : /\ Do("noDriver", o) \in Call
                          /\ Do("notifyOrFallback", o) \in Call
                          /\ Do("recheck", o) \in Call
                          /\ Do("fallback", o) \in Call
      /\ Promote \in Call /\ PromoteUnflushed \in Call
      /\ \A d \in Driver : /\ For("startReserved", None, d) \in Call
                           /\ For("postRide", None, d) \in Call
      /\ \A o \in Order, d \in Driver : For("tripLost", o, d) \in Call
      /\ \A todo \in SUBSET Order : Scan(todo) \in Call
  BY CallTypes DEF Function, AboutNoOrder, ForDriver
<1>6. /\ \A o \in Order : NoScan(<<Offer(o, {})>> \o Tail(agenda))
      /\ \A o \in Order : NoScan(<<Do("noDriver", o)>> \o Tail(agenda))
      /\ \A o \in Order : NoScan(<<Do("notifyOrFallback", o)>> \o Tail(agenda))
      /\ \A o \in Order : NoScan(<<Do("recheck", o)>> \o Tail(agenda))
  BY <1>4, <1>5
<1>7. NoScan(<<PromoteUnflushed>> \o Tail(agenda))
  BY <1>4, <1>5
<1>8. ASSUME NEW d \in Driver, NEW o \in Order
       PROVE  /\ NoScan(<<For("startReserved", None, d)>> \o Tail(agenda))
              /\ NoScan(<<For("postRide", None, d)>> \o Tail(agenda))
              /\ NoScan(<<For("tripLost", o, d)>> \o Tail(agenda))
              /\ NoScan(<<Promote, For("postRide", None, d)>> \o Tail(agenda))
              /\ NoScan(<<Promote, For("tripLost", o, d)>> \o Tail(agenda))
              /\ NoScan(<<For("startReserved", None, d), PromoteUnflushed>> \o Tail(agenda))
              /\ NoScan(<<Offer(o, {}), Promote, For("postRide", None, d)>> \o Tail(agenda))
  <2>1. /\ For("startReserved", None, d) \in Call /\ For("startReserved", None, d).fn # "scan"
        /\ For("postRide", None, d) \in Call /\ For("postRide", None, d).fn # "scan"
        /\ For("tripLost", o, d) \in Call /\ For("tripLost", o, d).fn # "scan"
        /\ Promote \in Call /\ Promote.fn # "scan"
        /\ PromoteUnflushed \in Call /\ PromoteUnflushed.fn # "scan"
        /\ Offer(o, {}) \in Call /\ Offer(o, {}).fn # "scan"
    BY <1>5
  <2> QED
    BY <1>4, <2>1, Zenon
<1>9. ASSUME NoScan(agenda'), pq' = pq
      PROVE  QuestionInv'
  BY <1>1, <1>9, QuietStep
<1>10. ASSUME NEW o \in Order, NoScan(agenda'),
             \/ pq' = Unqueue(pq, o) \/ pq' = Enqueue(pq, o)
             \/ pq' = [Enqueue(pq, o) EXCEPT ![o].row = "waiting"]
             \/ \E P : pq' = Pause(pq, P)
      PROVE  QuestionInv'
  <2>1. Polls(pq') \subseteq Polls(pq)
    BY <1>1, <1>10, PollsShrink, ParkShrinks
  <2> QED
    BY <1>1, <1>10, <2>1, QuietStep
<1>11. \A f, o : o \in Next_(f) => o \in Order
  BY <1>3 DEF Next_, First
<1>12. ASSUME Calling("scan")
       PROVE  Polls(pq) = {}
  BY <1>12 DEF QuestionInv
<1>13. CASE OfferRefused \/ PromoteMisses \/ PromoteWaitsForAnswer
            \/ ScanEnds \/ ReleaseEnds \/ StartReserved \/ PostRide \/ NotifyMade
  BY <1>3, <1>9, <1>13 DEF OfferRefused, PromoteMisses,
     PromoteWaitsForAnswer, ScanEnds, ReleaseEnds, StartReserved, PostRide, NotifyMade
<1>14. CASE OfferFindsNobody \/ NoDriverToChat \/ NotifyNobody
  <2>1. Arg.order \in Order
    BY <1>3, <1>14 DEF OfferFindsNobody, NoDriverToChat, NotifyNobody, Arg, AboutNoOrder
  <2>2. /\ pq' = pq
        /\ \/ agenda' = Tail(agenda)
           \/ agenda' = <<Do("noDriver", Arg.order)>> \o Tail(agenda)
           \/ agenda' = <<Offer(Arg.order, {})>> \o Tail(agenda)
           \/ agenda' = <<Do("recheck", Arg.order)>> \o Tail(agenda)
    BY <1>14 DEF OfferFindsNobody, NoDriverToChat, NotifyNobody
  <2> QED
    BY <1>3, <1>6, <1>9, <2>1, <2>2
<1>15. CASE OfferMade
  <2>1. Arg.order \in Order
    BY <1>3, <1>15 DEF OfferMade, Arg, AboutNoOrder
  <2>2. NoScan(agenda') /\ \E P : pq' = Pause(pq, P)
    BY <1>3, <1>15 DEF OfferMade
  <2> QED
    BY <1>10, <2>1, <2>2
<1>16. CASE NoDriverParks
  <2>1. Arg.order \in Order
    BY <1>3, <1>16 DEF NoDriverParks, Arg, AboutNoOrder
  <2>2. \/ agenda' = <<Offer(Arg.order, {})>> \o Tail(agenda) /\ pq' = pq
        \/ /\ agenda' = <<Do("notifyOrFallback", Arg.order)>> \o Tail(agenda)
           /\ pq' = Enqueue(pq, Arg.order)
    BY <1>16 DEF NoDriverParks
  <2> QED
    BY <1>6, <1>9, <1>10, <2>1, <2>2
<1>17. CASE FallbackOffers \/ FallbackWaits
  <2>1. Arg.order \in Order
    BY <1>3, <1>17 DEF FallbackOffers, FallbackWaits, Arg, AboutNoOrder
  <2>2. \/ /\ agenda' = <<Offer(Arg.order, {})>> \o Tail(agenda)
           /\ pq' = Unqueue(pq, Arg.order)
        \/ /\ agenda' = Tail(agenda)
           /\ pq' = [Enqueue(pq, Arg.order) EXCEPT ![Arg.order].row = "waiting"]
    BY <1>17 DEF FallbackOffers, FallbackWaits
  <2> QED
    BY <1>3, <1>6, <1>10, <2>1, <2>2
<1>18. ASSUME NEW todo \in SUBSET Order, agenda' = <<Scan(todo)>> \o Tail(agenda),
              Polls(pq') = {}
       PROVE  QuestionInv'
  <2>1. Scan(todo) \in Call
    BY <1>5
  <2>2. agenda' # <<>> /\ Tail(agenda') = Tail(agenda)
    BY <1>3, <1>18, <2>1, HeadTailOfPush
  <2> QED
    BY <1>3, <1>18, <2>2 DEF QuestionInv, OneQuestion, Idle
<1>19. CASE PromoteStarts
  <2> DEFINE todo == {o \in Order : pq[o].row = "waiting"}
  <2>1. Polls(pq') = {}
    BY <1>1, <1>19, PollsShrinkAll DEF PromoteStarts
  <2>2. agenda' = Tail(agenda) \/ agenda' = <<Scan(todo)>> \o Tail(agenda)
    BY <1>19 DEF PromoteStarts
  <2>3. CASE agenda' = Tail(agenda)
    BY <1>1, <1>3, <2>1, <2>3, QuietStep
  <2>4. CASE agenda' = <<Scan(todo)>> \o Tail(agenda)
    BY <1>18, <2>1, <2>4
  <2> QED
    BY <2>2, <2>3, <2>4
<1>20. CASE ScanFallsBack
  <2>1. PICK o \in Order : agenda' = <<Do("recheck", o)>> \o Tail(agenda)
    BY <1>11, <1>20 DEF ScanFallsBack
  <2> QED
    BY <1>6, <1>9, <1>20, <2>1 DEF ScanFallsBack
<1>21. CASE ScanAsks
  <2>1. PICK o \in Order : pq' = [pq EXCEPT ![o].row = "polling"]
    BY <1>11, <1>21 DEF ScanAsks
  <2>2. Polls(pq) = {} /\ agenda' = Tail(agenda)
    BY <1>12, <1>21 DEF ScanAsks
  <2>3. Polls(pq') \subseteq {o}
    BY <1>1, <2>1, <2>2 DEF Polls, QueueRecord
  <2>4. OneQuestion'
    BY <2>3 DEF OneQuestion
  <2>5. agenda' # <<>> => NoScan(Tail(agenda')) /\ Head(agenda').fn # "scan"
    BY <1>1, <1>3, <2>2, TailHasNoScan
  <2> QED
    BY <2>4, <2>5 DEF QuestionInv, Idle
<1>22. CASE ScanOffers
  <2>1. PICK o \in Order :
          \/ agenda' = <<Offer(o, {})>> \o Tail(agenda) /\ pq' = Unqueue(pq, o)
          \/ agenda' = Tail(agenda) /\ pq' = pq
    BY <1>11, <1>22 DEF ScanOffers
  <2> QED
    BY <1>3, <1>6, <1>9, <1>10, <2>1
<1>23. CASE ScanNotifies
  <2>1. PICK o \in Order : agenda' = <<Scan(Arg.todo \ {o})>> \o Tail(agenda) /\ pq' = pq
    BY <1>11, <1>23 DEF ScanNotifies
  <2>2. Polls(pq') = {}
    BY <1>12, <1>23, <2>1 DEF ScanNotifies
  <2> QED
    BY <1>3, <1>18, <2>1, <2>2
<1>24. CASE ReleaseNext
  <2>1. PICK o \in Order :
          /\ agenda' = <<Do("fallback", o)>> \o agenda \/ agenda' = <<>> \o agenda
          /\ pq' = pq
    BY <1>24 DEF ReleaseNext, CardsOf
  <2>2. Head(agenda).fn # "scan"
    BY <1>24 DEF ReleaseNext
  <2>3. NoScan(agenda)
    BY <1>1, <1>2, <1>3, <2>2, HeadAndTailHaveNoScan DEF Idle
  <2>4. NoScan(<<Do("fallback", o)>> \o agenda)
    BY <1>1, <1>5, <2>3, PushHasNoScan
  <2>5. <<>> \o agenda = agenda
    BY <1>1
  <2> QED
    BY <1>9, <2>1, <2>3, <2>4, <2>5
<1>25. CASE RideDone \/ TripVoided
  <2>1. Arg.driver \in Driver /\ Arg.order \in Order
    BY <1>3, <1>25 DEF RideDone, TripVoided, Arg, ForDriver, AboutNoOrder
  <2>2. /\ pq' = pq
        /\ \/ agenda' = <<For("startReserved", None, Arg.driver)>> \o Tail(agenda)
           \/ agenda' = <<For("postRide", None, Arg.driver)>> \o Tail(agenda)
           \/ agenda' = <<Promote, For("postRide", None, Arg.driver)>> \o Tail(agenda)
    BY <1>25 DEF RideDone, TripVoided
  <2> QED
    BY <1>3, <1>9, <1>8, <2>1, <2>2
<1>26. CASE PassengerGone
  <2> DEFINE r == orders[Arg.order]
  <2>1. Arg.order \in Order
    BY <1>3, <1>26 DEF PassengerGone, Arg, AboutNoOrder
  <2>2. pq' = Unqueue(pq, Arg.order)
    BY <1>26 DEF PassengerGone
  <2>3. \/ /\ r.driver # None
           /\ agenda' = <<For("startReserved", None, r.driver), PromoteUnflushed>> \o Tail(agenda)
        \/ agenda' = <<PromoteUnflushed>> \o Tail(agenda)
    BY <1>26 DEF PassengerGone
  <2>4. r.driver \in Driver \union {None}
    BY <2>1 DEF TypeOK, OrderRecord
  <2>5. NoScan(agenda')
    BY <1>8, <1>7, <2>1, <2>3, <2>4
  <2> QED
    BY <1>10, <2>1, <2>2, <2>5
<1>27. CASE CarFailed
  <2>1. Arg.driver \in Driver /\ Arg.order \in Order
    BY <1>3, <1>27 DEF CarFailed, Arg, ForDriver, AboutNoOrder
  <2>2. \/ /\ agenda' = <<For("tripLost", Arg.order, Arg.driver)>> \o Tail(agenda)
           /\ pq' = pq
        \/ \E p \in Order :
             /\ agenda' = <<Promote, For("tripLost", Arg.order, Arg.driver)>> \o Tail(agenda)
             /\ pq' = [Enqueue(pq, p) EXCEPT ![p].row = "waiting"]
    BY <1>27 DEF CarFailed, Reservations
  <2>3. NoScan(agenda')
    BY <1>8, <2>1, <2>2
  <2> QED
    BY <1>9, <1>10, <2>2, <2>3
<1>28. CASE TripLost
  <2>1. Arg.driver \in Driver /\ Arg.order \in Order
    BY <1>3, <1>28 DEF TripLost, Arg, ForDriver, AboutNoOrder
  <2>2. /\ pq' = pq
        /\ \/ agenda' = <<For("postRide", None, Arg.driver)>> \o Tail(agenda)
           \/ agenda' = <<Offer(Arg.order, {}), Promote, For("postRide", None, Arg.driver)>>
                          \o Tail(agenda)
    BY <1>28 DEF TripLost
  <2> QED
    BY <1>9, <1>8, <2>1, <2>2
<1> QED
  BY <1>13, <1>14, <1>15, <1>16, <1>17, <1>19, <1>20, <1>21, <1>22, <1>23, <1>24,
     <1>25, <1>26, <1>27, <1>28 DEF DispatchStep, ResumedStep

\* A promotion that finds the question on screen asks no second one, whatever else
\* overlaps: handlers, timers and calls that find a driver or a request taken.
THEOREM QuestionUntilOverlookedHolds == OverlapSpec => []QuestionUntilOverlooked
<1> DEFINE Inv == "promotion" \notin overtaken => QuestionInv
<1>1. OverlapInit => Inv
  BY DEF OverlapInit, Init, QuestionInv, OneQuestion, Polls, Idle, Calling
<1>2. OverlapTypeOK /\ OverlapTypeOK' /\ Inv /\ [OverlapNext]_allVars => Inv'
  <2> SUFFICES ASSUME OverlapTypeOK, OverlapTypeOK', Inv, [OverlapNext]_allVars,
                      "promotion" \notin overtaken'
               PROVE  QuestionInv'
    OBVIOUS
  <2>1. TypeOK /\ TypeOK' /\ pq \in [Order -> QueueRecord] /\ agenda \in Seq(Call) /\ agenda' \in Seq(Call)
    BY DEF OverlapTypeOK, TypeOK
  <2>2. overtaken \subseteq overtaken'
    BY UndisturbedIsNext
       DEF OverlapNext, allVars, Overtakes, FindsTaken, PromoteOverlooks, DriverSkipped,
           RequestSkipped, ReleaseStaleOffer, AcceptLate, MenuLate, RepairLate, PressAccept, ClaimLate
  <2>3. QuestionInv
    BY <2>2
  <2>4. CASE Undisturbed
    <3>1. CASE DispatchStep \/ ResumedStep
      BY <2>1, <2>3, <3>1, CallsKeepQuestionInv
    <3>2. CASE PassengerStep
      BY <2>1, <2>3, <3>2, PassengersAreQuiet, QuietStep
    <3>3. CASE LineStep \/ OfferStep \/ TripStep \/ ParallelStep
      BY <2>1, <2>3, <3>3, DriversAreQuiet, QuietStep
    <3>4. CASE TimerStep \/ Recovery
      BY <2>1, <2>3, <3>4, TimersAreQuiet, QuietStep
    <3> QED
      BY <2>4, <3>1, <3>2, <3>3, <3>4, UndisturbedIsNext DEF Next
  <2>5. CASE UNCHANGED <<pq, agenda>>
    BY <2>3, <2>5 DEF QuestionInv, OneQuestion, Idle, Calling, Polls
  <2>6. CASE FindsTaken \/ DriverSkipped \/ RequestSkipped
    <3>1. ~Idle
      BY <2>6 DEF FindsTaken, Looked, DriverSkipped, RequestSkipped, RequestHeld, Notifying,
                  FallingBack, Calling
    <3>2. /\ Tail(agenda) \in Seq(Call) /\ NoScan(Tail(agenda))
          /\ Arg.todo \in SUBSET Order /\ Arg.but \in SUBSET Driver
          /\ Arg.fn \notin AboutNoOrder => Arg.order \in Order
      BY <2>1, <2>3, <3>1, ArgTypes DEF QuestionInv
    <3>3. NoScan(agenda')
      <4>1. CASE DriverSkipped
        <5>1. PICK d \in Driver :
                agenda' = <<Offer(Arg.order, Arg.but \union {d})>> \o Tail(agenda)
          BY <4>1 DEF DriverSkipped, Then, Eligible, Waiting, Free, VisiblyFree
        <5>2. Arg.order \in Order
          BY <3>2, <4>1 DEF DriverSkipped, Calling, Arg, AboutNoOrder
        <5>3. Offer(Arg.order, Arg.but \union {d}) \in Call
              /\ Offer(Arg.order, Arg.but \union {d}).fn # "scan"
          BY <3>2, <5>2, CallTypes, CallNames
        <5> QED
          BY <3>2, <5>1, <5>3, PushHasNoScan
      <4>2. CASE FindsTaken \/ RequestSkipped
        BY <3>2, <4>2 DEF FindsTaken, RequestSkipped, Return
      <4> QED
        BY <2>6, <4>1, <4>2
    <3>4. \/ pq' = pq \/ \E o \in Order : pq' = Unqueue(pq, o)
      <4>1. \A g : Next_(g) \subseteq Order
        BY <3>2 DEF Next_, First
      <4>2. FallingBack => Arg.order \in Order
        BY <3>2 DEF FallingBack, Calling, Arg, AboutNoOrder
      <4>3. Looked \subseteq Order
        BY <4>1, <4>2 DEF Looked
      <4> QED
        BY <2>6, <4>3 DEF FindsTaken, DriverSkipped, RequestSkipped
    <3>5. Polls(pq)' \subseteq Polls(pq)
      BY <2>1, <3>4, UnqueuedPolls
    <3> QED
      BY <2>1, <2>3, <3>3, <3>5, QuietStep
  <2>7. ~PromoteOverlooks
    BY DEF PromoteOverlooks, Overtakes
  <2>8. ASSUME NEW d \in Driver,
               \/ ReleaseStaleOffer(d) \/ AcceptLate(d) \/ MenuLate(d)
               \/ \E o \in Order : ClaimLate(d, o)
        PROVE  QuestionInv'
    <3>1. \/ agenda' = <<>> \/ agenda' = <<Promote>>
          \/ \E o \in Order : agenda' = <<Offer(o, {d})>>
      BY <2>8 DEF ReleaseStaleOffer, AcceptLate, MenuLate, ClaimLate, ClaimPending, Start,
                  StaleOffers
    <3>2. NoScan(agenda')
      BY <3>1, StartHasNoScan, CallNames
    <3>3. pq' = pq \/ \E o \in Order : pq' = Unqueue(pq, o)
      BY <2>8 DEF ReleaseStaleOffer, AcceptLate, MenuLate, ClaimLate, ClaimPending
    <3>4. Polls(pq)' \subseteq Polls(pq)
      BY <2>1, <3>3, UnqueuedPolls
    <3> QED
      BY <2>1, <2>3, <3>2, <3>4, QuietStep
  <2> QED
    BY <2>4, <2>5, <2>6, <2>7, <2>8 DEF OverlapNext, allVars, RepairLate, PressAccept
<1>3. Inv => QuestionUntilOverlooked
  BY DEF QuestionInv, QuestionUntilOverlooked
<1> QED
  BY <1>1, <1>2, <1>3, OverlapTypes, PTL DEF OverlapSpec

----------------------------------------------------------------------------
(* Where a request is, and who has still to act on it.                      *)

\* The timers of WaitsHaveTimers, of one request whose row in the waiting queue
\* has this status.
Timed(r, row) ==
  /\ r.status = "searching" /\ r.offered # None => "accept" \in r.jobs
  /\ row = "polling" => "pqueue" \in r.jobs
  /\ r.status = "parallel_assigned" /\ ~r.etaSet => "parallel_eta" \in r.jobs
  /\ r.routeDriver # None => "route_parallel_offer" \in r.jobs
  /\ r.status = "chat_search" => "driver_chat" \in r.jobs

\* A request in somebody's hands: one that is offered, parked or shown on a card
\* for the road has no driver, a reserved one is its driver's.
Held(r, row) ==
  /\ r.offered # None => r.driver = None /\ r.parallel = None
  /\ r.status \in {"parallel_assigned", "chat_search"} => r.offered = None
  /\ r.status \in {"new"} \union Candidate
       => r.offered = None /\ r.driver = None /\ r.parallel = None
  /\ row # "none" => r.status \in Candidate
  /\ r.routeDriver # None => r.status \in Candidate /\ ~r.fallback
  /\ r.status = "parallel_assigned" => r.driver = r.parallel
  /\ Timed(r, row)

\* A driver on the road has one card.
Apart(os) ==
  \A o, p \in Order :
    o # p /\ os[o].routeDriver # None => os[p].routeDriver # os[o].routeDriver

\* Every request is in the hands its state says, and no two are on one card.
AllHeld(os, q) == (\A o \in Order : Held(os[o], q[o].row)) /\ Apart(os)

\* A trip keeps its driver as long as it lasts.
SameDriver(r, s) == r.status \in Active /\ s.status \in Active => s.driver = r.driver

\* The calls that look for a driver at once.
Direct == {"offer", "noDriver"}

\* The calls with which a driver's handler goes on after its other calls, while the
\* trip is still his.
OfTrip == {"tripVoided", "carFailed", "tripLost"}

\* All calls with which the handler of a driver or passenger goes on.
Ender == OfTrip \union {"passengerGone", "rideDone"}

\* A direct call is only ever the call on top, an ender the last call of all.
Stacked(s) ==
  \A i \in DOMAIN s : (i # 1 => s[i].fn \notin Direct) /\ (i # Len(s) => s[i].fn \notin Ender)

\* What a call finds when its turn comes: the request that is offered is in
\* nobody's hands, the trip that ends is still its driver's.
Ready(c, os, q) ==
  /\ c.fn \in Direct => ~Parked(q, c.order) /\ os[c.order].routeDriver = None
  /\ c.fn = "noDriver" => Offerable(os[c.order])
  /\ c.fn \in OfTrip => os[c.order].driver = c.driver /\ os[c.order].status # "parallel_assigned"

\* Every call of the list finds what it expects.
AllReady(s, os, q) == \A i \in DOMAIN s : Ready(s[i], os, q)

\* Every request is in the hands its state says, and the calls that are still to be
\* made find it as they expect it.
HandsInv ==
  /\ AllHeld(orders, pq)
  /\ Stacked(agenda)
  /\ AllReady(agenda, orders, pq)

\* What the calls of dispatch leave alone.
Stays(r, s) ==
  r.driver # None /\ r.status # "parallel_assigned"
    => s.driver = r.driver /\ s.status # "parallel_assigned"

\* No driver who has a request loses it to a call.
AllStay(os, os2) == \A p \in Order : Stays(os[p], os2[p])

\* Calls that may take the place of one that ends its transaction, or not.
Pushed(t, ends, os, q) ==
  \A i \in DOMAIN t : /\ i # 1 => t[i].fn \notin Direct
                      /\ t[i].fn \in Ender => i = Len(t) /\ ends
                      /\ Ready(t[i], os, q)

\* A change of one request.
LEMMA OneHeld ==
  ASSUME NEW os \in [Order -> OrderRecord], NEW q, NEW q2, NEW o \in Order, NEW r,
         AllHeld(os, q), Held(r, q2[o].row),
         \A p \in Order \ {o} : q2[p].row = q[p].row,
         r.routeDriver \in {None, os[o].routeDriver}
  PROVE  AllHeld([os EXCEPT ![o] = r], q2)
<1> DEFINE os2 == [os EXCEPT ![o] = r]
<1>1. os2[o] = r /\ \A p \in Order \ {o} : os2[p] = os[p]
  OBVIOUS
<1> HIDE DEF os2
<1>2. \A p \in Order : Held(os2[p], q2[p].row)
  BY <1>1 DEF AllHeld
<1>3. Apart(os2)
  BY <1>1 DEF AllHeld, Apart
<1> QED
  BY <1>2, <1>3 DEF AllHeld, os2

\* Withdrawing questions.
LEMMA UnpolledHeld ==
  ASSUME NEW os \in [Order -> OrderRecord], NEW q \in [Order -> QueueRecord],
         AllHeld(os, q), NEW P, P \subseteq Polls(q)
  PROVE  /\ AllHeld(WithoutPolls(os, P), Pause(q, P))
         /\ \A p \in Order : /\ SameDriver(os[p], WithoutPolls(os, P)[p])
                             /\ Stays(os[p], WithoutPolls(os, P)[p])
                             /\ WithoutPolls(os, P)[p].routeDriver = os[p].routeDriver
<1> DEFINE s == WithoutPolls(os, P)
<1>1. ASSUME NEW p \in Order
      PROVE  /\ Held(s[p], Pause(q, P)[p].row)
             /\ SameDriver(os[p], s[p]) /\ Stays(os[p], s[p])
             /\ s[p].routeDriver = os[p].routeDriver
  <2>1. os[p] \in OrderRecord /\ Held(os[p], q[p].row)
    BY DEF AllHeld
  <2>2. CASE p \notin P
    BY <2>1, <2>2 DEF WithoutPolls, Pause, SameDriver, Stays
  <2>3. CASE p \in P
    <3>1. /\ s[p] = [os[p] EXCEPT !.jobs = @ \ {"pqueue"}]
          /\ Pause(q, P)[p].row = "waiting" /\ q[p].row = "polling"
      BY <2>3 DEF WithoutPolls, Pause, Polls, QueueRecord
    <3> QED
      BY <2>1, <3>1 DEF Held, Timed, Unclaimed, SameDriver, Stays, OrderRecord
  <2> QED
    BY <2>2, <2>3
<1>2. Apart(s)
  BY <1>1 DEF AllHeld, Apart
<1> QED
  BY <1>1, <1>2 DEF AllHeld

\* A handler starts its calls.
LEMMA StartReady ==
  /\ \A c, os, q : c.fn \notin Direct \union OfTrip => Ready(c, os, q)
  /\ Stacked(<<>>) /\ \A os, q : AllReady(<<>>, os, q)
  /\ \A a, os, q : Ready(a, os, q) => Stacked(<<a>>) /\ AllReady(<<a>>, os, q)
  /\ \A a, b, os, q : Ready(a, os, q) /\ Ready(b, os, q) /\ b.fn \notin Direct /\ a.fn \notin Ender
       => Stacked(<<a, b>>) /\ AllReady(<<a, b>>, os, q)
BY DEF Ready, Stacked, AllReady, Direct

\* A call is replaced by those that it makes.
LEMMA CallReady ==
  ASSUME NEW s \in Seq(Call), s # <<>>, Stacked(s), NEW os, NEW q, NEW os2, NEW q2,
         AllReady(s, os, q), NEW t \in Seq(Call),
         Pushed(t, Head(s).fn \in Ender, os2, q2),
         Head(s).fn \in Ender \/ AllStay(os, os2)
  PROVE  Stacked(t \o Tail(s)) /\ AllReady(t \o Tail(s), os2, q2)
<1>1. /\ Len(t) \in Nat /\ DOMAIN t = 1 .. Len(t)
      /\ Len(s) \in Nat \ {0} /\ DOMAIN s = 1 .. Len(s) /\ Head(s) = s[1]
      /\ Tail(s) \in Seq(Call) /\ Len(Tail(s)) = Len(s) - 1 /\ DOMAIN Tail(s) = 1 .. Len(s) - 1
      /\ \A i \in 1 .. Len(s) - 1 : Tail(s)[i] = s[i + 1]
  OBVIOUS
<1>2. /\ t \o Tail(s) \in Seq(Call)
      /\ DOMAIN (t \o Tail(s)) = 1 .. Len(t) + Len(s) - 1
      /\ Len(t \o Tail(s)) = Len(t) + Len(s) - 1
      /\ \A i \in 1 .. Len(t) : (t \o Tail(s))[i] = t[i]
      /\ \A i \in Len(t) + 1 .. Len(t) + Len(s) - 1 : (t \o Tail(s))[i] = s[i - Len(t) + 1]
  BY <1>1, ConcatProperties
<1>3. Head(s).fn \in Ender => Len(s) = 1
  BY <1>1 DEF Stacked
<1>4. ASSUME NEW i \in 2 .. Len(s)
      PROVE  /\ s[i].fn \notin Direct
             /\ i # Len(s) => s[i].fn \notin Ender
             /\ Ready(s[i], os2, q2)
  <2>0. i \in DOMAIN s /\ i # 1 /\ Len(s) # 1
    BY <1>1
  <2>1. Head(s).fn \notin Ender
    BY <1>3, <2>0
  <2>2. s[i] \in Call /\ Ready(s[i], os, q)
    BY <2>0 DEF AllReady
  <2>3. s[i].fn \notin Direct /\ (i # Len(s) => s[i].fn \notin Ender)
    BY <2>0 DEF Stacked
  <2>4. ASSUME s[i].fn \in OfTrip
        PROVE  /\ s[i].order \in Order /\ s[i].driver # None
    BY <2>2, <2>4 DEF Call, OfTrip, AboutNoOrder, ForDriver
  <2>5. Ready(s[i], os2, q2)
    BY <2>1, <2>2, <2>3, <2>4 DEF Ready, AllStay, Stays, Direct
  <2> QED
    BY <2>3, <2>5
<1>5. ASSUME NEW i \in 1 .. Len(t) + Len(s) - 1
      PROVE  /\ i # 1 => (t \o Tail(s))[i].fn \notin Direct
             /\ i # Len(t) + Len(s) - 1 => (t \o Tail(s))[i].fn \notin Ender
             /\ Ready((t \o Tail(s))[i], os2, q2)
  <2>1. CASE i <= Len(t)
    <3>1. i \in DOMAIN t /\ (t \o Tail(s))[i] = t[i]
      BY <1>1, <1>2, <2>1
    <3>2. /\ i # 1 => t[i].fn \notin Direct
          /\ t[i].fn \in Ender => i = Len(t) /\ Head(s).fn \in Ender
          /\ Ready(t[i], os2, q2)
      BY <3>1 DEF Pushed
    <3>3. ASSUME t[i].fn \in Ender
          PROVE  i = Len(t) + Len(s) - 1
      <4>1. i = Len(t) /\ Len(s) = 1
        BY <1>3, <3>2, <3>3
      <4> QED
        BY <1>1, <4>1
    <3> QED
      BY <3>1, <3>2, <3>3
  <2>2. CASE i > Len(t)
    <3>1. /\ i - Len(t) + 1 \in 2 .. Len(s) /\ (t \o Tail(s))[i] = s[i - Len(t) + 1]
          /\ i # Len(t) + Len(s) - 1 => i - Len(t) + 1 # Len(s)
      BY <1>1, <1>2, <2>2
    <3> QED
      BY <1>4, <3>1
  <2> QED
    BY <1>1, <2>1, <2>2
<1> QED
  BY <1>2, <1>5 DEF Stacked, AllReady

\* The step keeps the invariant, and hands no trip over to another driver.
Handed == HandsInv' /\ \A p \in Order : SameDriver(orders[p], orders'[p])

\* A call of dispatch ends, or makes another one.
LEMMA CallsGoOn ==
  ASSUME TypeOK, HandsInv, ~Idle, Arg.fn \notin Ender,
         AllStay(orders, orders'),
         \/ agenda' = Tail(agenda)
         \/ \E a \in Call : /\ agenda' = <<a>> \o Tail(agenda)
                            /\ a.fn \notin Ender
                            /\ Ready(a, orders', pq')
  PROVE  Stacked(agenda') /\ AllReady(agenda', orders', pq')
<1>1. agenda \in Seq(Call) /\ agenda # <<>> /\ Tail(agenda) \in Seq(Call)
  BY DEF TypeOK, Idle
<1>2. Stacked(agenda) /\ AllReady(agenda, orders, pq)
  BY DEF HandsInv
<1>3. CASE agenda' = Tail(agenda)
  <2>1. <<>> \in Seq(Call) /\ <<>> \o Tail(agenda) = Tail(agenda) /\ DOMAIN <<>> = {}
    BY <1>1
  <2>2. Pushed(<<>>, Head(agenda).fn \in Ender, orders', pq')
    BY <2>1 DEF Pushed
  <2>3. Stacked(<<>> \o Tail(agenda)) /\ AllReady(<<>> \o Tail(agenda), orders', pq')
    BY <1>1, <1>2, <2>1, <2>2, CallReady
  <2> QED
    BY <1>3, <2>1, <2>3
<1>4. ASSUME NEW a \in Call, agenda' = <<a>> \o Tail(agenda), a.fn \notin Ender,
             Ready(a, orders', pq')
      PROVE  Stacked(agenda') /\ AllReady(agenda', orders', pq')
  <2> DEFINE t == <<a>>
  <2>1. t \in Seq(Call) /\ DOMAIN t = {1} /\ t[1] = a
    OBVIOUS
  <2>2. agenda' = t \o Tail(agenda)
    BY <1>4
  <2> HIDE DEF t
  <2>3. Pushed(t, Head(agenda).fn \in Ender, orders', pq')
    BY <1>4, <2>1 DEF Pushed
  <2>4. Stacked(t \o Tail(agenda)) /\ AllReady(t \o Tail(agenda), orders', pq')
    BY <1>1, <1>2, <2>1, <2>3, CallReady
  <2> QED
    BY <2>2, <2>4
<1> QED
  BY <1>3, <1>4

\* A call of dispatch that changes one request.
LEMMA OneHanded ==
  ASSUME TypeOK, HandsInv, ~Idle, Arg.fn \notin Ender, NEW o \in Order, NEW r,
         orders' = [orders EXCEPT ![o] = r],
         \A p \in Order \ {o} : pq'[p].row = pq[p].row,
         Held(r, pq'[o].row),
         r.routeDriver \in {None, orders[o].routeDriver},
         SameDriver(orders[o], r), Stays(orders[o], r),
         \/ agenda' = Tail(agenda)
         \/ \E a \in Call : /\ agenda' = <<a>> \o Tail(agenda)
                            /\ a.fn \notin Ender
                            /\ Ready(a, orders', pq')
  PROVE  Handed
<1>1. orders \in [Order -> OrderRecord]
  BY DEF TypeOK
<1>2. AllHeld(orders', pq')
  BY <1>1, OneHeld DEF HandsInv
<1>3. AllStay(orders, orders') /\ \A p \in Order : SameDriver(orders[p], orders'[p])
  BY <1>1 DEF SameDriver, AllStay, Stays
<1> QED
  BY <1>2, <1>3, CallsGoOn DEF Handed, HandsInv

\* A call of dispatch that changes no request.
LEMMA NoneHanded ==
  ASSUME TypeOK, HandsInv, ~Idle, Arg.fn \notin Ender, UNCHANGED <<orders, pq>>,
         \/ agenda' = Tail(agenda)
         \/ \E a \in Call : /\ agenda' = <<a>> \o Tail(agenda)
                            /\ a.fn \notin Ender
                            /\ Ready(a, orders, pq)
  PROVE  Handed
<1>1. AllStay(orders, orders') /\ \A p \in Order : SameDriver(orders[p], orders'[p])
  BY DEF SameDriver, AllStay, Stays
<1> QED
  BY <1>1, CallsGoOn DEF Handed, HandsInv

\* What closing a card for the road and withdrawing a request leave alone.
LEMMA ClosedFields ==
  ASSUME NEW r \in OrderRecord, NEW c, c = CloseRoute(r) \/ c = Withdraw(r)
  PROVE  /\ c \in OrderRecord
         /\ c.status = r.status /\ c.driver = r.driver /\ c.parallel = r.parallel
         /\ c.offered = r.offered /\ c.etaSet = r.etaSet /\ c.fallback = r.fallback
         /\ c.routeDriver = None
         /\ r.jobs \ {"pqueue", "route_parallel_offer"} \subseteq c.jobs
         /\ c = CloseRoute(r) => r.jobs \ {"route_parallel_offer"} \subseteq c.jobs
<1> DEFINE e == CloseRoute(r)
<1>1. /\ e \in OrderRecord
      /\ e.status = r.status /\ e.driver = r.driver /\ e.parallel = r.parallel
      /\ e.offered = r.offered /\ e.etaSet = r.etaSet /\ e.fallback = r.fallback
      /\ e.routeDriver = None
      /\ r.jobs \ {"route_parallel_offer"} \subseteq e.jobs
  BY DEF CloseRoute, OrderRecord
<1> HIDE DEF e
<1>2. CASE c = e
  BY <1>1, <1>2
<1>3. CASE c = Withdraw(r)
  <2>1. CASE r.routeDriver # None
    <3>1. c = [e EXCEPT !.jobs = @ \ {"pqueue"}]
      BY <1>3, <2>1 DEF Withdraw, e
    <3>2. c \in OrderRecord /\ c.jobs = e.jobs \ {"pqueue"}
      BY <1>1, <3>1 DEF OrderRecord
    <3>3. /\ c.status = r.status /\ c.driver = r.driver /\ c.parallel = r.parallel
          /\ c.offered = r.offered /\ c.etaSet = r.etaSet /\ c.fallback = r.fallback
          /\ c.routeDriver = None
      BY <1>1, <3>1 DEF OrderRecord
    <3> QED
      BY <1>1, <1>2, <3>2, <3>3 DEF e
  <2>2. CASE r.routeDriver = None
    <3>1. c = [r EXCEPT !.jobs = @ \ {"pqueue"}]
      BY <1>3, <2>2 DEF Withdraw
    <3>2. c \in OrderRecord /\ c.jobs = r.jobs \ {"pqueue"}
      BY <3>1 DEF OrderRecord
    <3>3. /\ c.status = r.status /\ c.driver = r.driver /\ c.parallel = r.parallel
          /\ c.offered = r.offered /\ c.etaSet = r.etaSet /\ c.fallback = r.fallback
          /\ c.routeDriver = None
      BY <2>2, <3>1 DEF OrderRecord
    <3> QED
      BY <1>1, <1>2, <3>2, <3>3 DEF e
  <2> QED
    BY <2>1, <2>2
<1> QED
  BY <1>2, <1>3 DEF e

\* The rows of the waiting queue after one request is parked or removed.
LEMMA RowsAfter ==
  ASSUME NEW q \in [Order -> QueueRecord], NEW o \in Order
  PROVE  /\ Unqueue(q, o)[o].row = "none"
         /\ Enqueue(q, o)[o].row = IF Parked(q, o) THEN q[o].row ELSE "waiting"
         /\ [Enqueue(q, o) EXCEPT ![o].row = "waiting"][o].row = "waiting"
         /\ \A w : [q EXCEPT ![o].row = w][o].row = w
         /\ \A p \in Order \ {o} :
              /\ Unqueue(q, o)[p].row = q[p].row
              /\ Enqueue(q, o)[p].row = q[p].row
              /\ [Enqueue(q, o) EXCEPT ![o].row = "waiting"][p].row = q[p].row
              /\ \A w : [q EXCEPT ![o].row = w][p].row = q[p].row
<1>1. Unqueue(q, o)[o].row = "none" /\ \A p \in Order \ {o} : Unqueue(q, o)[p].row = q[p].row
  BY DEF Unqueue, QueueRecord
<1>2. /\ Enqueue(q, o)[o].row = IF Parked(q, o) THEN q[o].row ELSE "waiting"
      /\ \A p \in Order \ {o} : Enqueue(q, o)[p].row = q[p].row
  BY DEF Enqueue, QueueRecord
<1>3. Enqueue(q, o) \in [Order -> QueueRecord]
  BY QueueTypes
<1>4. \A w : \A x \in [Order -> QueueRecord] :
        /\ [x EXCEPT ![o].row = w][o].row = w
        /\ \A p \in Order \ {o} : [x EXCEPT ![o].row = w][p].row = x[p].row
  BY DEF QueueRecord
<1> QED
  BY <1>1, <1>2, <1>3, <1>4

\* offer_to_next_driver and _handle_no_driver: nobody's request goes into the
\* hands of one driver, or is parked.
LEMMA OfferHands ==
  ASSUME TypeOK, HandsInv,
         OfferRefused \/ OfferMade \/ OfferFindsNobody \/ NoDriverParks \/ NoDriverToChat
  PROVE  Handed
<1> USE DEF Calling, Then, Return
<1>1. /\ orders \in [Order -> OrderRecord] /\ pq \in [Order -> QueueRecord]
      /\ agenda \in Seq(Call)
  BY DEF TypeOK
<1>2. ~Idle
  BY DEF OfferRefused, OfferMade, OfferFindsNobody, NoDriverParks, NoDriverToChat
<1>3. PICK o : o = Arg.order
  OBVIOUS
<1>4. Arg.fn \in Direct
  BY DEF Arg, Direct, OfferRefused, OfferMade, OfferFindsNobody, NoDriverParks, NoDriverToChat
<1>5. o \in Order /\ orders[o] \in OrderRecord /\ Arg.fn \notin Ender
  BY <1>1, <1>2, <1>3, <1>4, ArgTypes DEF Direct, AboutNoOrder, Ender, OfTrip
<1>6. ~Parked(pq, o) /\ orders[o].routeDriver = None /\ (Arg.fn = "noDriver" => Offerable(orders[o]))
  <2>1. 1 \in DOMAIN agenda /\ Arg = agenda[1]
    BY <1>1, <1>2 DEF Idle, Arg
  <2>2. Ready(Arg, orders, pq)
    BY <2>1 DEF HandsInv, AllReady
  <2> QED
    BY <1>3, <1>4, <2>2 DEF Ready
<1>7. AllHeld(orders, pq) /\ Held(orders[o], pq[o].row) /\ pq[o].row = "none"
  BY <1>5, <1>6 DEF HandsInv, AllHeld, Parked
<1>8. CASE OfferRefused
  BY <1>2, <1>5, <1>8, NoneHanded DEF OfferRefused
<1>9. CASE OfferFindsNobody
  <2>1. agenda' = <<Do("noDriver", o)>> \o Tail(agenda) /\ UNCHANGED <<orders, pq>> /\ Offerable(orders[o])
    BY <1>3, <1>9 DEF OfferFindsNobody
  <2>2. Do("noDriver", o) \in Call /\ Do("noDriver", o).fn \notin Ender
    BY <1>5, CallNames, CallTypes DEF Function, AboutNoOrder, ForDriver, Ender, OfTrip
  <2>3. Ready(Do("noDriver", o), orders, pq)
    BY <1>6, <2>1, CallNames DEF Ready, OfTrip
  <2> QED
    BY <1>2, <1>5, <2>1, <2>2, <2>3, NoneHanded
<1>10. ASSUME agenda' = <<Offer(o, {})>> \o Tail(agenda), UNCHANGED <<orders, pq>>
       PROVE  Handed
  <2>1. Offer(o, {}) \in Call /\ Offer(o, {}).fn \notin Ender
    BY <1>5, CallNames, CallTypes DEF Ender, OfTrip
  <2>2. Ready(Offer(o, {}), orders, pq)
    BY <1>6, CallNames DEF Ready, OfTrip
  <2> QED
    BY <1>2, <1>5, <1>10, <2>1, <2>2, NoneHanded
<1>11. CASE NoDriverParks
  <2>1. CASE FreeAfterAll(o)
    BY <1>3, <1>10, <1>11, <2>1 DEF NoDriverParks
  <2>2. CASE ~FreeAfterAll(o)
    <3> DEFINE r == [orders[o] EXCEPT !.status = IF Parked(pq, o) THEN "no_drivers" ELSE "queued"]
               c == Do("notifyOrFallback", o)
    <3>1. /\ orders' = [orders EXCEPT ![o] = r] /\ pq' = Enqueue(pq, o)
          /\ agenda' = <<c>> \o Tail(agenda) /\ Arg.fn = "noDriver"
      BY <1>1, <1>3, <1>5, <1>11, <2>2 DEF NoDriverParks, Arg
    <3>2. c \in Call /\ c.fn \notin Ender /\ Ready(c, orders', pq')
      BY <1>5, CallNames, CallTypes, StartReady
         DEF Function, AboutNoOrder, ForDriver, Ender, OfTrip, Direct
    <3>3. Offerable(orders[o])
      BY <1>6, <3>1
    <3>4. /\ r.status = "queued" /\ r.offered = orders[o].offered /\ r.driver = None
          /\ r.parallel = None /\ r.routeDriver = None /\ r.jobs = orders[o].jobs
      BY <1>5, <1>6, <3>3 DEF OrderRecord, Offerable
    <3>5. pq'[o].row = "waiting" /\ \A p \in Order \ {o} : pq'[p].row = pq[p].row
      BY <1>1, <1>5, <1>6, <3>1, RowsAfter
    <3> HIDE DEF r, c
    <3>6. orders[o].offered = None
      BY <1>7, <3>3 DEF Held, Offerable, Pending
    <3>7. Held(r, pq'[o].row)
      BY <3>4, <3>5, <3>6 DEF Held, Timed, Candidate
    <3>8. SameDriver(orders[o], r) /\ Stays(orders[o], r)
      BY <3>3, <3>4 DEF SameDriver, Stays, Offerable, Active
    <3> QED
      BY <1>2, <1>5, <3>1, <3>2, <3>4, <3>5, <3>7, <3>8, OneHanded
  <2> QED
    BY <2>1, <2>2
<1>12. CASE NoDriverToChat
  <2>1. CASE FreeAfterAll(o)
    BY <1>3, <1>10, <1>12, <2>1 DEF NoDriverToChat
  <2>2. CASE ~FreeAfterAll(o)
    <3> DEFINE x == [orders[o] EXCEPT !.status = "chat_search", !.posted = TRUE,
                                      !.jobs = @ \union {"driver_chat"}]
               y == [orders[o] EXCEPT !.status = "no_drivers"]
    <3>1. PICK r : r = IF ChatOpen THEN x ELSE y
      OBVIOUS
    <3>2. /\ orders' = [orders EXCEPT ![o] = r] /\ UNCHANGED pq
          /\ agenda' = Tail(agenda) /\ Arg.fn = "noDriver"
      BY <1>1, <1>3, <1>5, <1>12, <2>2, <3>1 DEF NoDriverToChat, Arg
    <3>3. Offerable(orders[o])
      BY <1>6, <3>2
    <3>4. /\ r.offered = orders[o].offered /\ r.driver = None
          /\ r.parallel = None /\ r.routeDriver = None
          /\ \/ r.status = "no_drivers"
             \/ r.status = "chat_search" /\ "driver_chat" \in r.jobs
      BY <1>5, <1>6, <3>1, <3>3 DEF OrderRecord, Offerable
    <3> HIDE DEF x, y
    <3>6. orders[o].offered = None
      BY <1>7, <3>3 DEF Held, Offerable, Pending
    <3>7. Held(r, pq'[o].row)
      BY <1>7, <3>2, <3>4, <3>6 DEF Held, Timed, Candidate
    <3>8. SameDriver(orders[o], r) /\ Stays(orders[o], r)
      BY <3>3, <3>4 DEF SameDriver, Stays, Offerable, Active
    <3> QED
      BY <1>2, <1>5, <3>2, <3>4, <3>7, <3>8, OneHanded
  <2> QED
    BY <2>1, <2>2
<1>13. CASE OfferMade
  <2>1. PICK P : P = Polls(pq) \ {o}
    OBVIOUS
  <2>2. PICK d \in Driver :
          /\ orders' = WithoutPolls(
                  [orders EXCEPT ![o] =
                     [CloseRoute(orders[o]) EXCEPT !.status = "searching", !.offered = d,
                                                   !.card = TRUE, !.jobs = @ \union {"accept"}]], P)
          /\ pq' = Pause(pq, P) /\ Offerable(orders[o])
          /\ agenda' = Tail(agenda)
    BY <1>3, <1>13, <2>1 DEF OfferMade, Front, Eligible, Waiting, Free, VisiblyFree
  <2> DEFINE c == CloseRoute(orders[o])
             r == [c EXCEPT !.status = "searching", !.offered = d, !.card = TRUE,
                            !.jobs = c.jobs \union {"accept"}]
             os == [orders EXCEPT ![o] = r]
  <2>3. /\ c \in OrderRecord /\ c.driver = orders[o].driver /\ c.parallel = orders[o].parallel
        /\ c.routeDriver = None
    BY <1>5, ClosedFields
  <2> HIDE DEF c
  <2>4. /\ r.status = "searching" /\ r.offered = d /\ "accept" \in r.jobs
        /\ r.driver = orders[o].driver /\ r.parallel = orders[o].parallel /\ r.routeDriver = None
    BY <2>3 DEF OrderRecord
  <2>5. r \in OrderRecord
    <3>1. ASSUME NEW x \in OrderRecord
          PROVE  [x EXCEPT !.status = "searching", !.offered = d, !.card = TRUE,
                           !.jobs = x.jobs \union {"accept"}] \in OrderRecord
      BY DEF OrderRecord, OrderStatus, Timer
    <3> QED
      BY <2>3, <3>1
  <2>6. orders' = WithoutPolls(os, P)
    BY <2>2 DEF c
  <2> HIDE DEF r
  <2>7. Held(r, pq[o].row) /\ SameDriver(orders[o], r) /\ Stays(orders[o], r)
    BY <1>7, <2>2, <2>4 DEF Held, Timed, Candidate, Offerable, SameDriver, Stays, Active
  <2>8. os \in [Order -> OrderRecord] /\ AllHeld(os, pq)
    BY <1>1, <1>5, <1>7, <2>4, <2>5, <2>7, OneHeld
  <2>9. \A p \in Order : SameDriver(orders[p], os[p]) /\ Stays(orders[p], os[p])
    BY <1>1, <1>5, <2>7 DEF SameDriver, Stays
  <2> HIDE DEF os
  <2>10. /\ AllHeld(orders', pq')
         /\ \A p \in Order : SameDriver(os[p], orders'[p]) /\ Stays(os[p], orders'[p])
    <3>1. P \subseteq Polls(pq)
      BY <2>1
    <3>2. /\ AllHeld(WithoutPolls(os, P), Pause(pq, P))
          /\ \A p \in Order : /\ SameDriver(os[p], WithoutPolls(os, P)[p])
                              /\ Stays(os[p], WithoutPolls(os, P)[p])
      BY <1>1, <2>8, <3>1, UnpolledHeld
    <3> QED
      BY <2>2, <2>6, <3>2
  <2>11. AllStay(orders, orders') /\ \A p \in Order : SameDriver(orders[p], orders'[p])
    <3>1. ASSUME NEW p \in Order
          PROVE  orders'[p].driver = os[p].driver /\ orders'[p].status = os[p].status
      BY <2>6, <2>8 DEF WithoutPolls, OrderRecord
    <3> QED
      BY <2>9, <3>1 DEF AllStay, SameDriver, Stays
  <2>12. Stacked(agenda') /\ AllReady(agenda', orders', pq')
    BY <1>2, <1>5, <2>2, <2>11, CallsGoOn
  <2> QED
    BY <2>10, <2>11, <2>12 DEF Handed, HandsInv
<1> QED
  BY <1>8, <1>9, <1>11, <1>12, <1>13

\* notify_busy_drivers shows the card to a driver who has no other.
LEMMA CardHeld ==
  ASSUME TypeOK, HandsInv, NEW o \in Order, NEW f, CanNotify(f, o), RouteOffer(o), UNCHANGED pq
  PROVE  /\ AllHeld(orders', pq') /\ AllStay(orders, orders')
         /\ \A p \in Order : SameDriver(orders[p], orders'[p])
<1>1. orders \in [Order -> OrderRecord] /\ orders[o] \in OrderRecord
  BY DEF TypeOK
<1>2. PICK t \in AutoTrips(orders, o) :
        orders' = [orders EXCEPT ![o].routeDriver = orders[t].driver, ![o].routeTrip = t,
                                 ![o].jobs = @ \union {"route_parallel_offer"}]
  BY DEF RouteOffer
<1>3. \A p \in Order \ {o} : orders[p].routeDriver # orders[t].driver
  BY DEF AutoTrips
<1> DEFINE r == [orders[o] EXCEPT !.routeDriver = orders[t].driver, !.routeTrip = t,
                                  !.jobs = @ \union {"route_parallel_offer"}]
<1>4. orders' = [orders EXCEPT ![o] = r]
  BY <1>1, <1>2
<1>5. /\ r.status = orders[o].status /\ r.offered = orders[o].offered
      /\ r.driver = orders[o].driver /\ r.parallel = orders[o].parallel
      /\ r.fallback = orders[o].fallback /\ r.etaSet = orders[o].etaSet
      /\ r.routeDriver = orders[t].driver
      /\ r.jobs = orders[o].jobs \union {"route_parallel_offer"}
  BY <1>1 DEF OrderRecord
<1> HIDE DEF r
<1>6. AllHeld(orders, pq) /\ Held(orders[o], pq[o].row) /\ Unclaimed(orders[o]) /\ ~orders[o].fallback
  BY DEF HandsInv, AllHeld, CanNotify
<1>7. Held(r, pq[o].row)
  BY <1>5, <1>6 DEF Held, Timed, Unclaimed
<1>8. orders'[o] = r /\ \A p \in Order \ {o} : orders'[p] = orders[p]
  BY <1>1, <1>4
<1>9. \A p \in Order : Held(orders'[p], pq'[p].row)
  BY <1>6, <1>7, <1>8 DEF AllHeld
<1>10. Apart(orders')
  BY <1>3, <1>5, <1>6, <1>8 DEF AllHeld, Apart
<1>11. AllStay(orders, orders') /\ \A p \in Order : SameDriver(orders[p], orders'[p])
  BY <1>5, <1>8 DEF AllStay, Stays, SameDriver
<1> QED
  BY <1>9, <1>10, <1>11 DEF AllHeld

\* A waiting request that is offered again leaves the queue.
LEMMA SearchHands ==
  ASSUME TypeOK, HandsInv, ~Idle, Arg.fn \notin Ender, NEW o \in Order, Unclaimed(orders[o]),
         NEW r, orders' = [orders EXCEPT ![o] = r], r.status = "searching",
         r.offered = orders[o].offered, r.driver = None, r.parallel = None, r.routeDriver = None,
         pq' = Unqueue(pq, o), agenda' = <<Offer(o, {})>> \o Tail(agenda)
  PROVE  Handed
<1>1. orders \in [Order -> OrderRecord] /\ pq \in [Order -> QueueRecord]
  BY DEF TypeOK
<1>2. Held(orders[o], pq[o].row)
  BY DEF HandsInv, AllHeld
<1>3. pq'[o].row = "none" /\ \A p \in Order \ {o} : pq'[p].row = pq[p].row
  BY <1>1, RowsAfter
<1>4. Held(r, pq'[o].row)
  BY <1>2, <1>3 DEF Held, Timed, Unclaimed, Candidate
<1>5. SameDriver(orders[o], r) /\ Stays(orders[o], r)
  BY DEF SameDriver, Stays, Unclaimed, Active, Candidate
<1>6. orders'[o] = r
  BY <1>1
<1>7. Offer(o, {}) \in Call /\ Offer(o, {}).fn \notin Ender /\ Ready(Offer(o, {}), orders', pq')
  BY <1>3, <1>6, CallNames, CallTypes DEF Ender, OfTrip, Ready, Parked
<1> QED
  BY <1>3, <1>4, <1>5, <1>7, OneHanded

\* notify_busy_drivers and _fallback_to_free_drivers.
LEMMA RoadHands ==
  ASSUME TypeOK, HandsInv, NotifyMade \/ NotifyNobody \/ FallbackOffers \/ FallbackWaits
  PROVE  Handed
<1> USE DEF Calling, Then, Return, Notifying, FallingBack
<1>1. /\ orders \in [Order -> OrderRecord] /\ pq \in [Order -> QueueRecord]
      /\ agenda \in Seq(Call)
  BY DEF TypeOK
<1>2. ~Idle /\ Arg.fn \in {"notify", "notifyOrFallback", "fallback", "recheck"}
  BY DEF Arg, NotifyMade, NotifyNobody, FallbackOffers, FallbackWaits
<1>3. PICK o : o = Arg.order
  OBVIOUS
<1>4. o \in Order /\ orders[o] \in OrderRecord /\ Arg.fn \notin Ender
  BY <1>1, <1>2, <1>3, ArgTypes DEF AboutNoOrder, Ender, OfTrip
<1>5. AllHeld(orders, pq) /\ Held(orders[o], pq[o].row)
  BY <1>4 DEF HandsInv, AllHeld
<1>6. CASE NotifyMade
  <2>1. /\ CanNotify(Repaired, o) /\ RouteOffer(o) /\ UNCHANGED pq /\ agenda' = Tail(agenda)
    BY <1>3, <1>6 DEF NotifyMade
  <2>2. /\ AllHeld(orders', pq') /\ AllStay(orders, orders')
        /\ \A p \in Order : SameDriver(orders[p], orders'[p])
    BY <1>4, <2>1, CardHeld
  <2>3. Stacked(agenda') /\ AllReady(agenda', orders', pq')
    BY <1>2, <1>4, <2>1, <2>2, CallsGoOn
  <2> QED
    BY <2>2, <2>3 DEF Handed, HandsInv
<1>7. CASE NotifyNobody
  <2>1. /\ agenda' = Tail(agenda) \/ agenda' = <<Do("recheck", o)>> \o Tail(agenda)
        /\ UNCHANGED <<orders, pq>>
    BY <1>3, <1>7 DEF NotifyNobody
  <2>2. /\ Do("recheck", o) \in Call /\ Do("recheck", o).fn \notin Ender
        /\ Ready(Do("recheck", o), orders, pq)
    BY <1>4, CallNames, CallTypes, StartReady
       DEF Function, AboutNoOrder, ForDriver, Ender, OfTrip, Direct
  <2> QED
    BY <1>2, <1>4, <2>1, <2>2, NoneHanded
<1>8. CASE FallbackOffers
  <2> DEFINE c == CloseRoute(orders[o])
             w == Withdraw(c)
             r == [w EXCEPT !.status = "searching", !.etaSet = FALSE,
                            !.fallback = @ \/ ~OwnLineAgain(Repaired, o)]
  <2>1. /\ Unclaimed(orders[o]) /\ orders' = [orders EXCEPT ![o] = r] /\ pq' = Unqueue(pq, o)
        /\ agenda' = <<Offer(o, {})>> \o Tail(agenda)
    BY <1>3, <1>8 DEF FallbackOffers
  <2>2. /\ c \in OrderRecord /\ c.offered = orders[o].offered
        /\ c.driver = orders[o].driver /\ c.parallel = orders[o].parallel
    BY <1>4, ClosedFields
  <2> HIDE DEF c
  <2>3. /\ w \in OrderRecord /\ w.offered = orders[o].offered /\ w.routeDriver = None
        /\ w.driver = orders[o].driver /\ w.parallel = orders[o].parallel
    BY <2>2, ClosedFields
  <2> HIDE DEF w
  <2>4. /\ r.status = "searching" /\ r.offered = orders[o].offered /\ r.routeDriver = None
        /\ r.driver = orders[o].driver /\ r.parallel = orders[o].parallel
    BY <2>3 DEF OrderRecord
  <2> HIDE DEF r
  <2> QED
    BY <1>2, <1>4, <2>1, <2>4, SearchHands DEF Unclaimed
<1>9. CASE FallbackWaits
  <2> DEFINE c == CloseRoute(orders[o])
             r == [c EXCEPT !.status = "queued", !.etaSet = FALSE, !.fallback = TRUE]
  <2>1. /\ Unclaimed(orders[o]) /\ orders' = [orders EXCEPT ![o] = r]
        /\ pq' = [Enqueue(pq, o) EXCEPT ![o].row = "waiting"] /\ agenda' = Tail(agenda)
    BY <1>3, <1>9 DEF FallbackWaits
  <2>2. /\ c \in OrderRecord /\ c.offered = orders[o].offered /\ c.routeDriver = None
        /\ c.driver = orders[o].driver /\ c.parallel = orders[o].parallel
    BY <1>4, ClosedFields
  <2> HIDE DEF c
  <2>3. /\ r.status = "queued" /\ r.offered = orders[o].offered /\ r.routeDriver = None
        /\ r.driver = orders[o].driver /\ r.parallel = orders[o].parallel
    BY <2>2 DEF OrderRecord
  <2> HIDE DEF r
  <2>4. pq'[o].row = "waiting" /\ \A p \in Order \ {o} : pq'[p].row = pq[p].row
    BY <1>1, <1>4, <2>1, RowsAfter
  <2>5. Held(r, pq'[o].row)
    BY <1>5, <2>1, <2>3, <2>4 DEF Held, Timed, Unclaimed, Candidate
  <2>6. SameDriver(orders[o], r) /\ Stays(orders[o], r)
    BY <2>1 DEF SameDriver, Stays, Unclaimed, Active, Candidate
  <2> QED
    BY <1>2, <1>4, <2>1, <2>3, <2>4, <2>5, <2>6, OneHanded
<1> QED
  BY <1>6, <1>7, <1>8, <1>9

\* try_promote.
LEMMA PromoteHands ==
  ASSUME TypeOK, HandsInv,
         \/ PromoteMisses \/ PromoteWaitsForAnswer \/ PromoteStarts
         \/ ScanEnds \/ ScanFallsBack \/ ScanAsks \/ ScanOffers \/ ScanNotifies
  PROVE  Handed
<1> USE DEF Calling, Then, Return, Promoting
<1>1. /\ orders \in [Order -> OrderRecord] /\ pq \in [Order -> QueueRecord]
      /\ agenda \in Seq(Call)
  BY DEF TypeOK
<1>2. ~Idle /\ Arg.fn \in {"promote", "promoteUnflushed", "scan"}
  BY DEF Arg, PromoteMisses, PromoteWaitsForAnswer, PromoteStarts,
         ScanEnds, ScanFallsBack, ScanAsks, ScanOffers, ScanNotifies
<1>3. Arg.fn \notin Ender
  BY <1>2 DEF Ender, OfTrip
<1>4. Next_(Repaired) \subseteq Order
  BY <1>1, <1>2, ArgTypes DEF Next_, First
<1>5. \A todo \in SUBSET Order :
        Scan(todo) \in Call /\ Scan(todo).fn \notin Ender /\ \A os, q : Ready(Scan(todo), os, q)
  BY CallNames, CallTypes, StartReady DEF Ender, OfTrip, Direct
<1>6. ASSUME UNCHANGED <<orders, pq>>, agenda' = Tail(agenda)
      PROVE  Handed
  BY <1>2, <1>3, <1>6, NoneHanded
<1>7. CASE PromoteMisses \/ PromoteWaitsForAnswer \/ ScanEnds
  BY <1>6, <1>7 DEF PromoteMisses, PromoteWaitsForAnswer, ScanEnds
<1>8. CASE PromoteStarts
  <2> DEFINE P == Polls(pq)
             todo == {o \in Order : pq[o].row = "waiting"}
  <2>1. /\ orders' = WithoutPolls(orders, P) /\ pq' = Pause(pq, P)
        /\ agenda' = Tail(agenda) \/ agenda' = <<Scan(todo)>> \o Tail(agenda)
    BY <1>8 DEF PromoteStarts
  <2>2. /\ AllHeld(orders', pq')
        /\ \A p \in Order : SameDriver(orders[p], orders'[p]) /\ Stays(orders[p], orders'[p])
    <3>1. AllHeld(orders, pq) /\ P \subseteq Polls(pq)
      BY DEF HandsInv
    <3> HIDE DEF P
    <3>2. /\ AllHeld(WithoutPolls(orders, P), Pause(pq, P))
          /\ \A p \in Order : /\ SameDriver(orders[p], WithoutPolls(orders, P)[p])
                              /\ Stays(orders[p], WithoutPolls(orders, P)[p])
      BY <1>1, <3>1, UnpolledHeld
    <3> QED
      BY <2>1, <3>2
  <2>3. AllStay(orders, orders')
    BY <2>2 DEF AllStay
  <2>4. Scan(todo) \in Call /\ Scan(todo).fn \notin Ender /\ Ready(Scan(todo), orders', pq')
    BY <1>5
  <2>5. Stacked(agenda') /\ AllReady(agenda', orders', pq')
    BY <1>2, <1>3, <2>1, <2>3, <2>4, CallsGoOn
  <2> QED
    BY <2>2, <2>5 DEF Handed, HandsInv
<1>9. CASE ScanFallsBack
  <2>1. PICK o \in Order : agenda' = <<Do("recheck", o)>> \o Tail(agenda) /\ UNCHANGED <<orders, pq>>
    BY <1>4, <1>9 DEF ScanFallsBack
  <2>2. /\ Do("recheck", o) \in Call /\ Do("recheck", o).fn \notin Ender
        /\ Ready(Do("recheck", o), orders, pq)
    BY CallNames, CallTypes, StartReady DEF Function, AboutNoOrder, ForDriver, Ender, OfTrip, Direct
  <2> QED
    BY <1>2, <1>3, <2>1, <2>2, NoneHanded
<1>10. CASE ScanAsks
  <2>1. PICK o \in Order :
          /\ orders[o].status = "queued" /\ pq' = [pq EXCEPT ![o].row = "polling"]
          /\ orders' = [orders EXCEPT ![o].jobs = @ \union {"pqueue"}, ![o].fixing = FALSE]
    BY <1>4, <1>10 DEF ScanAsks
  <2> DEFINE r == [orders[o] EXCEPT !.jobs = @ \union {"pqueue"}, !.fixing = FALSE]
  <2>2. orders' = [orders EXCEPT ![o] = r] /\ orders[o] \in OrderRecord
    BY <1>1, <2>1
  <2>3. /\ r.status = orders[o].status /\ r.offered = orders[o].offered
        /\ r.driver = orders[o].driver /\ r.parallel = orders[o].parallel
        /\ r.fallback = orders[o].fallback /\ r.etaSet = orders[o].etaSet
        /\ r.routeDriver = orders[o].routeDriver /\ r.jobs = orders[o].jobs \union {"pqueue"}
    BY <2>2 DEF OrderRecord
  <2> HIDE DEF r
  <2>4. pq'[o].row = "polling" /\ \A p \in Order \ {o} : pq'[p].row = pq[p].row
    BY <1>1, <2>1, RowsAfter
  <2>5. Held(orders[o], pq[o].row)
    BY DEF HandsInv, AllHeld
  <2>6. Held(r, pq'[o].row)
    BY <2>1, <2>3, <2>4, <2>5 DEF Held, Timed, Candidate
  <2>7. SameDriver(orders[o], r) /\ Stays(orders[o], r)
    BY <2>3 DEF SameDriver, Stays
  <2>8. agenda' = Tail(agenda)
    BY <1>10 DEF ScanAsks
  <2> QED
    BY <1>2, <1>3, <2>2, <2>3, <2>4, <2>6, <2>7, <2>8, OneHanded
<1>11. CASE ScanOffers
  <2>1. PICK o \in Next_(Repaired) :
          IF Unclaimed(orders[o])
          THEN /\ orders' = [orders EXCEPT ![o] =
                    [Withdraw(orders[o]) EXCEPT !.status = "searching", !.fixing = FALSE]]
               /\ pq' = Unqueue(pq, o)
               /\ agenda' = <<Offer(o, {})>> \o Tail(agenda)
          ELSE agenda' = Tail(agenda) /\ UNCHANGED <<orders, pq>>
    BY <1>11 DEF ScanOffers
  <2>2. CASE ~Unclaimed(orders[o])
    BY <1>6, <2>1, <2>2
  <2>3. CASE Unclaimed(orders[o])
    <3> DEFINE w == Withdraw(orders[o])
               r == [w EXCEPT !.status = "searching", !.fixing = FALSE]
    <3>1. o \in Order /\ orders[o] \in OrderRecord
      BY <1>1, <1>4
    <3>2. /\ w \in OrderRecord /\ w.offered = orders[o].offered /\ w.routeDriver = None
          /\ w.driver = orders[o].driver /\ w.parallel = orders[o].parallel
      BY <3>1, ClosedFields
    <3>3. /\ orders' = [orders EXCEPT ![o] = r] /\ pq' = Unqueue(pq, o)
          /\ agenda' = <<Offer(o, {})>> \o Tail(agenda)
      BY <2>1, <2>3
    <3> HIDE DEF w
    <3>4. /\ r.status = "searching" /\ r.offered = orders[o].offered /\ r.routeDriver = None
          /\ r.driver = orders[o].driver /\ r.parallel = orders[o].parallel
      BY <3>2 DEF OrderRecord
    <3> HIDE DEF r
    <3> QED
      BY <1>2, <1>3, <2>3, <3>1, <3>3, <3>4, SearchHands DEF Unclaimed
  <2> QED
    BY <2>2, <2>3
<1>12. CASE ScanNotifies
  <2>1. PICK o \in Order :
          /\ IF CanNotify(Repaired, o) THEN RouteOffer(o) ELSE UNCHANGED orders
          /\ agenda' = <<Scan(Arg.todo \ {o})>> \o Tail(agenda)
    BY <1>4, <1>12 DEF ScanNotifies
  <2>2. UNCHANGED pq
    BY <1>12 DEF ScanNotifies
  <2>3. PICK todo \in SUBSET Order : agenda' = <<Scan(todo)>> \o Tail(agenda)
    BY <1>1, <1>2, <2>1, ArgTypes
  <2>4. /\ AllHeld(orders', pq') /\ AllStay(orders, orders')
        /\ \A p \in Order : SameDriver(orders[p], orders'[p])
    <3>1. CASE CanNotify(Repaired, o)
      BY <2>1, <2>2, <3>1, CardHeld
    <3>2. CASE ~CanNotify(Repaired, o)
      BY <2>1, <2>2, <3>2 DEF HandsInv, AllStay, Stays, SameDriver
    <3> QED
      BY <3>1, <3>2
  <2>5. Scan(todo) \in Call /\ Scan(todo).fn \notin Ender /\ Ready(Scan(todo), orders', pq')
    BY <1>5
  <2>6. Stacked(agenda') /\ AllReady(agenda', orders', pq')
    BY <1>2, <1>3, <2>3, <2>4, <2>5, CallsGoOn
  <2> QED
    BY <2>4, <2>6 DEF Handed, HandsInv
<1> QED
  BY <1>7, <1>8, <1>9, <1>10, <1>11, <1>12

\* release_route_offers_for_trip, promote_after_current, ask_post_ride_line.
LEMMA ReleaseHands ==
  ASSUME TypeOK, HandsInv, ReleaseNext \/ ReleaseEnds \/ StartReserved \/ PostRide
  PROVE  Handed
<1> USE DEF Calling, Then, Return
<1>1. /\ orders \in [Order -> OrderRecord] /\ pq \in [Order -> QueueRecord]
      /\ agenda \in Seq(Call)
  BY DEF TypeOK
<1>2. ~Idle /\ Arg.fn \in {"release", "startReserved", "postRide"}
  BY DEF Arg, ReleaseNext, ReleaseEnds, StartReserved, PostRide
<1>3. Arg.fn \notin Ender
  BY <1>2 DEF Ender, OfTrip
<1>4. CASE ReleaseEnds \/ PostRide
  BY <1>2, <1>3, <1>4, NoneHanded DEF ReleaseEnds, PostRide
<1>5. CASE StartReserved
  <2>1. PICK d \in Driver : d = Arg.driver
    BY <1>1, <1>2, <1>5, ArgTypes DEF StartReserved, Arg, ForDriver
  <2>2. PICK o \in Reservations(orders, d) :
          orders' = [orders EXCEPT ![o].status = "assigned", ![o].driver = d,
                                   ![o].parallel = None, ![o].etaSet = FALSE,
                                   ![o].departed = TRUE]
    BY <1>5, <2>1 DEF StartReserved
  <2> DEFINE r == [orders[o] EXCEPT !.status = "assigned", !.driver = d, !.parallel = None,
                                    !.etaSet = FALSE, !.departed = TRUE]
  <2>3. /\ o \in Order /\ orders[o] \in OrderRecord /\ orders[o].status = "parallel_assigned"
        /\ orders' = [orders EXCEPT ![o] = r]
    BY <1>1, <2>2 DEF Reservations
  <2>4. /\ r.status = "assigned" /\ r.offered = orders[o].offered
        /\ r.routeDriver = orders[o].routeDriver
    BY <2>3 DEF OrderRecord
  <2> HIDE DEF r
  <2>5. Held(orders[o], pq[o].row) /\ UNCHANGED pq /\ agenda' = Tail(agenda)
    BY <1>5, <2>3 DEF HandsInv, AllHeld, StartReserved
  <2>6. /\ orders[o].offered = None /\ pq[o].row = "none" /\ orders[o].routeDriver = None
    BY <2>3, <2>5 DEF Held, Candidate
  <2>7. Held(r, pq'[o].row)
    BY <2>4, <2>5, <2>6 DEF Held, Timed, Candidate
  <2>8. SameDriver(orders[o], r) /\ Stays(orders[o], r)
    BY <2>3 DEF SameDriver, Stays, Active
  <2> QED
    BY <1>2, <1>3, <2>3, <2>4, <2>5, <2>7, <2>8, OneHanded
<1>6. CASE ReleaseNext
  <2>1. PICK o \in Order :
          /\ orders' = [orders EXCEPT ![o] = CloseRoute(orders[o])]
          /\ agenda' = (IF orders[o].status \in Candidate THEN <<Do("fallback", o)>>
                                                          ELSE <<>>) \o agenda
    BY <1>6 DEF ReleaseNext, CardsOf
  <2>2. UNCHANGED pq /\ Arg.fn = "release" /\ Arg \in Call
    BY <1>1, <1>2, <1>6, ArgTypes DEF ReleaseNext, Arg
  <2>3. PICK r : r = CloseRoute(orders[o])
    OBVIOUS
  <2>4. orders[o] \in OrderRecord /\ orders' = [orders EXCEPT ![o] = r]
    BY <1>1, <2>1, <2>3
  <2>5. /\ r.status = orders[o].status /\ r.driver = orders[o].driver /\ r.parallel = orders[o].parallel
        /\ r.offered = orders[o].offered /\ r.etaSet = orders[o].etaSet
        /\ r.routeDriver = None
        /\ orders[o].jobs \ {"route_parallel_offer"} \subseteq r.jobs
    BY <2>3, <2>4, ClosedFields
  <2>6. AllHeld(orders, pq) /\ Held(orders[o], pq[o].row)
    BY DEF HandsInv, AllHeld
  <2>7. Held(r, pq'[o].row)
    BY <2>2, <2>5, <2>6 DEF Held, Timed
  <2>8. AllHeld(orders', pq')
    BY <1>1, <2>2, <2>4, <2>5, <2>6, <2>7, OneHeld
  <2>9. AllStay(orders, orders') /\ \A p \in Order : SameDriver(orders[p], orders'[p])
    BY <1>1, <2>4, <2>5 DEF AllStay, Stays, SameDriver
  <2>10. PICK c \in Call : c = Do("fallback", o)
    BY CallTypes DEF Function, AboutNoOrder, ForDriver
  <2>11. PICK t \in Seq(Call) :
           /\ agenda' = t \o Tail(agenda)
           /\ Len(t) \in {1, 2} /\ t[Len(t)] = Arg /\ (Len(t) = 2 => t[1] = c)
    <3>1. /\ <<Arg>> \in Seq(Call) /\ <<c, Arg>> \in Seq(Call)
          /\ agenda # <<>> /\ Tail(agenda) \in Seq(Call)
      BY <1>1, <1>2, <2>2 DEF Idle
    <3>2. <<>> \o agenda = <<Arg>> \o Tail(agenda)
      BY <1>1, <3>1, ConcatProperties, HeadTailProperties, SeqEqual DEF Arg
    <3>3. <<c>> \o agenda = <<c, Arg>> \o Tail(agenda)
      BY <1>1, <3>1, ConcatProperties, HeadTailProperties, SeqEqual DEF Arg
    <3>4. CASE orders[o].status \in Candidate
      <4>1. agenda' = <<c, Arg>> \o Tail(agenda)
        BY <2>1, <2>10, <3>3, <3>4
      <4>2. PICK t \in Seq(Call) : t = <<c, Arg>>
        BY <3>1
      <4>3. Len(t) = 2 /\ t[1] = c /\ t[2] = Arg
        BY <4>2
      <4>4. agenda' = t \o Tail(agenda)
        BY <4>1, <4>2
      <4> QED
        BY <4>3, <4>4
    <3>5. CASE orders[o].status \notin Candidate
      <4>1. agenda' = <<Arg>> \o Tail(agenda)
        BY <2>1, <3>2, <3>5
      <4>2. PICK t \in Seq(Call) : t = <<Arg>>
        BY <3>1
      <4>3. Len(t) \in {1, 2} /\ t[Len(t)] = Arg /\ Len(t) # 2
        BY <4>2
      <4>4. agenda' = t \o Tail(agenda)
        BY <4>1, <4>2
      <4> QED
        BY <4>3, <4>4
    <3> QED
      BY <3>4, <3>5
  <2>12. /\ c.fn \notin Ender \union Direct /\ Ready(c, orders', pq')
         /\ Arg.fn \notin Direct /\ Ready(Arg, orders', pq')
    BY <2>2, <2>10, CallNames, StartReady DEF Ender, OfTrip, Direct
  <2>13. Pushed(t, Head(agenda).fn \in Ender, orders', pq')
    <3>1. \A i \in DOMAIN t : t[i] \in {c, Arg}
      BY <2>11
    <3> QED
      BY <1>3, <2>12, <3>1 DEF Pushed
  <2>14. Stacked(t \o Tail(agenda)) /\ AllReady(t \o Tail(agenda), orders', pq')
    <3>1. agenda # <<>> /\ Stacked(agenda) /\ AllReady(agenda, orders, pq)
      BY <1>2 DEF Idle, HandsInv
    <3> QED
      BY <1>1, <2>9, <2>13, <3>1, CallReady
  <2> QED
    BY <2>8, <2>9, <2>11, <2>14 DEF Handed, HandsInv
<1> QED
  BY <1>4, <1>5, <1>6

\* Up to three calls that may take the place of the last one.
LEMMA PushedCalls ==
  ASSUME NEW e \in BOOLEAN, NEW os, NEW q
  PROVE  /\ \A a : (a.fn \in Ender => e) /\ Ready(a, os, q) => Pushed(<<a>>, e, os, q)
         /\ \A a, b : /\ a.fn \notin Ender /\ Ready(a, os, q)
                      /\ b.fn \notin Direct /\ (b.fn \in Ender => e) /\ Ready(b, os, q)
                      => Pushed(<<a, b>>, e, os, q)
         /\ \A a, b, c : /\ a.fn \notin Ender /\ Ready(a, os, q)
                         /\ b.fn \notin Direct \union Ender /\ Ready(b, os, q)
                         /\ c.fn \notin Direct /\ (c.fn \in Ender => e) /\ Ready(c, os, q)
                         => Pushed(<<a, b, c>>, e, os, q)
BY DEF Pushed

\* The calls with which the last call goes on.
LEMMA LastCalls ==
  ASSUME TypeOK, HandsInv, ~Idle, Arg.fn \in Ender, NEW t \in Seq(Call),
         agenda' = t \o Tail(agenda), Pushed(t, TRUE, orders', pq')
  PROVE  Stacked(agenda') /\ AllReady(agenda', orders', pq')
<1>1. agenda \in Seq(Call) /\ agenda # <<>> /\ Stacked(agenda) /\ AllReady(agenda, orders, pq)
  BY DEF TypeOK, Idle, HandsInv
<1>2. Head(agenda).fn \in Ender
  BY DEF Arg
<1>3. Pushed(t, Head(agenda).fn \in Ender, orders', pq')
  BY <1>2 DEF Pushed
<1>4. Stacked(t \o Tail(agenda)) /\ AllReady(t \o Tail(agenda), orders', pq')
  BY <1>1, <1>2, <1>3, CallReady
<1> QED
  BY <1>4

\* The rest of passenger_cancel, driver_complete_ride and driver_cancel_active:
\* the trip that ends is still its driver's, and nobody else has it.
LEMMA ResumedHands ==
  ASSUME TypeOK, HandsInv, ResumedStep
  PROVE  Handed
<1> USE DEF Calling, Then
<1>1. /\ orders \in [Order -> OrderRecord] /\ pq \in [Order -> QueueRecord]
      /\ agenda \in Seq(Call)
  BY DEF TypeOK
<1>2. ~Idle /\ Arg.fn \in Ender
  BY DEF Arg, Ender, OfTrip, ResumedStep, PassengerGone, RideDone, TripVoided, CarFailed, TripLost
<1>3. PICK o, d : o = Arg.order /\ d = Arg.driver
  OBVIOUS
<1>4. /\ o \in Order /\ orders[o] \in OrderRecord
      /\ Arg.fn # "passengerGone" => d \in Driver /\ d # None
  BY <1>1, <1>2, <1>3, ArgTypes, NoneAssumption DEF AboutNoOrder, ForDriver, Ender, OfTrip
<1>5. AllHeld(orders, pq) /\ Held(orders[o], pq[o].row)
  BY <1>4 DEF HandsInv, AllHeld
<1>6. ASSUME Arg.fn \in OfTrip
      PROVE  /\ orders[o].driver = d /\ orders[o].status # "parallel_assigned"
             /\ orders[o].offered = None /\ orders[o].routeDriver = None
             /\ pq[o].row = "none"
  <2>1. 1 \in DOMAIN agenda /\ Arg = agenda[1]
    BY <1>1, <1>2 DEF Idle, Arg
  <2>2. Ready(Arg, orders, pq)
    BY <2>1 DEF HandsInv, AllReady
  <2>3. orders[o].driver = d /\ orders[o].status # "parallel_assigned" /\ d # None
    BY <1>3, <1>4, <1>6, <2>2 DEF Ready, OfTrip
  <2>4. orders[o].status \notin Candidate
    BY <1>5, <2>3 DEF Held
  <2> QED
    BY <1>5, <2>3, <2>4 DEF Held
<1>7. /\ \A e \in Driver, fn \in {"startReserved", "postRide"} :
           /\ For(fn, None, e) \in Call /\ For(fn, None, e).fn \notin Ender \union Direct
           /\ \A os, q : Ready(For(fn, None, e), os, q)
      /\ \A c \in {Promote, PromoteUnflushed} :
           c \in Call /\ c.fn \notin Ender \union Direct /\ \A os, q : Ready(c, os, q)
  BY CallNames, CallTypes, StartReady DEF Ender, OfTrip, Direct
<1>8. /\ \A a \in Call : <<a>> \in Seq(Call)
      /\ \A a, b \in Call : <<a, b>> \in Seq(Call)
      /\ \A a, b, c \in Call : <<a, b, c>> \in Seq(Call)
  OBVIOUS
<1>9. ASSUME AllHeld(orders', pq'), \A p \in Order : SameDriver(orders[p], orders'[p]),
             NEW t \in Seq(Call), agenda' = t \o Tail(agenda), Pushed(t, TRUE, orders', pq')
      PROVE  Handed
  BY <1>2, <1>9, LastCalls DEF Handed, HandsInv
<1>10. ASSUME NEW e \in Driver,
              \/ agenda' = <<For("startReserved", None, e)>> \o Tail(agenda)
              \/ agenda' = <<For("postRide", None, e)>> \o Tail(agenda)
              \/ agenda' = <<Promote, For("postRide", None, e)>> \o Tail(agenda)
              \/ agenda' = <<PromoteUnflushed>> \o Tail(agenda)
              \/ agenda' = <<For("startReserved", None, e), PromoteUnflushed>> \o Tail(agenda)
       PROVE  \E t \in Seq(Call) : agenda' = t \o Tail(agenda) /\ Pushed(t, TRUE, orders', pq')
  <2>1. /\ \A a \in {For("startReserved", None, e), For("postRide", None, e), PromoteUnflushed} :
             Pushed(<<a>>, TRUE, orders', pq')
        /\ Pushed(<<Promote, For("postRide", None, e)>>, TRUE, orders', pq')
        /\ Pushed(<<For("startReserved", None, e), PromoteUnflushed>>, TRUE, orders', pq')
    BY <1>7, PushedCalls
  <2> QED
    BY <1>7, <1>8, <1>10, <2>1
<1>11. CASE PassengerGone
  <2> DEFINE shown == orders[o].offered # None /\ orders[o].driver = None
             drove == orders[o].driver # None /\ orders[o].parallel = None
             w == Withdraw(orders[o])
             c == Cancel(w)
             x == IF shown THEN None ELSE c.offered
             y == IF drove THEN c.driver ELSE None
             r == [c EXCEPT !.offered = x, !.driver = y, !.parallel = None]
  <2>0. pq' = Unqueue(pq, o)
    BY <1>3, <1>11 DEF PassengerGone
  <2>1. orders' = [orders EXCEPT ![o] = r]
    BY <1>3, <1>11 DEF PassengerGone
  <2>2. /\ w \in OrderRecord /\ w.offered = orders[o].offered /\ w.routeDriver = None
    BY <1>4, ClosedFields
  <2> HIDE DEF w
  <2>3. /\ c \in OrderRecord /\ c.status = "cancelled" /\ c.offered = orders[o].offered
        /\ c.routeDriver = None
    <3>1. c \in OrderRecord
      BY <1>4, <2>2, OrderTypes
    <3>2. c.status = "cancelled" /\ c.offered = w.offered /\ c.routeDriver = w.routeDriver
      BY <2>2 DEF Cancel, OrderRecord
    <3> QED
      BY <2>2, <3>1, <3>2
  <2> HIDE DEF c
  <2>4. x = None
    BY <1>5, <2>3 DEF Held
  <2> HIDE DEF x, y, shown, drove
  <2>5. /\ r.status = "cancelled" /\ r.offered = None /\ r.routeDriver = None
    BY <2>3, <2>4 DEF OrderRecord
  <2> HIDE DEF r
  <2>6. pq'[o].row = "none" /\ \A p \in Order \ {o} : pq'[p].row = pq[p].row
    BY <1>1, <1>4, <2>0, RowsAfter
  <2>7. Held(r, pq'[o].row)
    BY <2>5, <2>6 DEF Held, Timed, Candidate
  <2>8. AllHeld(orders', pq')
    BY <1>1, <1>4, <1>5, <2>1, <2>5, <2>6, <2>7, OneHeld
  <2>9. \A p \in Order : SameDriver(orders[p], orders'[p])
    BY <1>1, <1>4, <2>1, <2>5 DEF SameDriver, Active
  <2>10. \/ agenda' = <<PromoteUnflushed>> \o Tail(agenda)
         \/ /\ agenda' = <<For("startReserved", None, orders[o].driver), PromoteUnflushed>>
                           \o Tail(agenda)
            /\ orders[o].driver # None
    BY <1>3, <1>11 DEF PassengerGone
  <2>11. \E t \in Seq(Call) : agenda' = t \o Tail(agenda) /\ Pushed(t, TRUE, orders', pq')
    <3>1. CASE agenda' = <<PromoteUnflushed>> \o Tail(agenda)
      <4>1. Pushed(<<PromoteUnflushed>>, TRUE, orders', pq') /\ <<PromoteUnflushed>> \in Seq(Call)
        BY <1>7, <1>8, PushedCalls
      <4> QED
        BY <3>1, <4>1
    <3>2. CASE agenda' # <<PromoteUnflushed>> \o Tail(agenda)
      <4>1. orders[o].driver \in Driver
        BY <1>4, <2>10, <3>2 DEF OrderRecord
      <4> QED
        BY <1>10, <2>10, <3>2, <4>1
    <3> QED
      BY <3>1, <3>2
  <2> QED
    BY <1>9, <2>8, <2>9, <2>11
<1>12. CASE RideDone
  <2>1. /\ UNCHANGED <<orders, pq>>
        /\ \/ agenda' = <<For("startReserved", None, d)>> \o Tail(agenda)
           \/ agenda' = <<For("postRide", None, d)>> \o Tail(agenda)
        /\ d \in Driver
    BY <1>3, <1>4, <1>12 DEF RideDone, Arg
  <2>2. AllHeld(orders', pq') /\ \A p \in Order : SameDriver(orders[p], orders'[p])
    BY <1>5, <2>1 DEF SameDriver
  <2>3. PICK t \in Seq(Call) : agenda' = t \o Tail(agenda) /\ Pushed(t, TRUE, orders', pq')
    BY <1>10, <2>1
  <2> QED
    BY <1>9, <2>2, <2>3
<1>13. CASE TripVoided
  <2>1. PICK r : r = Cancel(orders[o])
    OBVIOUS
  <2>2. /\ orders' = [orders EXCEPT ![o] = r] /\ UNCHANGED pq
        /\ Arg.fn \in OfTrip /\ d \in Driver
        /\ \/ agenda' = <<For("startReserved", None, d)>> \o Tail(agenda)
           \/ agenda' = <<Promote, For("postRide", None, d)>> \o Tail(agenda)
    BY <1>1, <1>3, <1>4, <1>13, <2>1 DEF TripVoided, Arg, OfTrip
  <2>3. r.status = "cancelled" /\ r.offered = None /\ r.routeDriver = None
    BY <1>4, <1>6, <2>1, <2>2 DEF Cancel, OrderRecord
  <2>4. Held(r, pq'[o].row)
    BY <1>6, <2>2, <2>3 DEF Held, Timed, Candidate
  <2>5. AllHeld(orders', pq')
    BY <1>1, <1>4, <1>5, <2>2, <2>3, <2>4, OneHeld
  <2>6. \A p \in Order : SameDriver(orders[p], orders'[p])
    BY <1>1, <1>4, <2>2, <2>3 DEF SameDriver, Active
  <2>7. PICK t \in Seq(Call) : agenda' = t \o Tail(agenda) /\ Pushed(t, TRUE, orders', pq')
    BY <1>10, <2>2
  <2> QED
    BY <1>9, <2>5, <2>6, <2>7
<1>14. CASE CarFailed
  <2>1. PICK rest \in Call : rest = For("tripLost", o, d)
    BY <1>2, <1>3, <1>4, <1>14, CallTypes DEF CarFailed, Arg, ForDriver, AboutNoOrder
  <2>2. Arg.fn \in OfTrip /\ rest.fn \in OfTrip /\ rest.fn \in Ender /\ rest.fn \notin Direct
    BY <1>14, <2>1, CallNames DEF CarFailed, Arg, OfTrip, Ender, Direct
  <2>3. orders'[o].driver = orders[o].driver /\ orders'[o].status = orders[o].status
          => Ready(rest, orders', pq')
    BY <1>6, <2>1, <2>2, CallNames DEF Ready, Direct, OfTrip
  <2>4. CASE agenda' = <<rest>> \o Tail(agenda) /\ UNCHANGED <<orders, pq>>
    <3>1. Pushed(<<rest>>, TRUE, orders', pq') /\ <<rest>> \in Seq(Call)
      BY <1>8, <2>3, <2>4, PushedCalls
    <3>2. AllHeld(orders', pq') /\ \A p \in Order : SameDriver(orders[p], orders'[p])
      BY <1>5, <2>4 DEF SameDriver
    <3> QED
      BY <1>9, <2>4, <3>1, <3>2
  <2>5. ASSUME NEW p \in Reservations(orders, d),
               orders' = [orders EXCEPT ![p] = Released(orders[p])],
               pq' = [Enqueue(pq, p) EXCEPT ![p].row = "waiting"],
               agenda' = <<Promote, rest>> \o Tail(agenda)
        PROVE  Handed
    <3>1. p \in Order /\ orders[p] \in OrderRecord /\ orders[p].status = "parallel_assigned"
      BY <1>1 DEF Reservations
    <3>2. PICK r : r = Released(orders[p])
      OBVIOUS
    <3>3. /\ r.status = "queued" /\ r.driver = None /\ r.parallel = None
          /\ r.offered = orders[p].offered /\ r.routeDriver = orders[p].routeDriver
      BY <3>1, <3>2 DEF Released, OrderRecord
    <3>4. pq'[p].row = "waiting" /\ \A x \in Order \ {p} : pq'[x].row = pq[x].row
      BY <1>1, <2>5, <3>1, RowsAfter
    <3>5. orders[p].offered = None /\ orders[p].routeDriver = None
      BY <1>5, <3>1 DEF AllHeld, Held, Candidate
    <3>6. Held(r, pq'[p].row)
      BY <3>3, <3>4, <3>5 DEF Held, Timed, Candidate
    <3>7. orders' = [orders EXCEPT ![p] = r]
      BY <2>5, <3>2
    <3>8. AllHeld(orders', pq')
      BY <1>1, <1>5, <3>1, <3>3, <3>4, <3>6, <3>7, OneHeld
    <3>9. \A x \in Order : SameDriver(orders[x], orders'[x])
      BY <1>1, <3>1, <3>3, <3>7 DEF SameDriver, Active
    <3>10. p # o
      BY <1>6, <2>2, <3>1
    <3>11. Ready(rest, orders', pq')
      BY <1>1, <1>4, <2>3, <3>1, <3>7, <3>10
    <3>12. Pushed(<<Promote, rest>>, TRUE, orders', pq') /\ <<Promote, rest>> \in Seq(Call)
      BY <1>7, <1>8, <2>2, <3>11, PushedCalls
    <3> QED
      BY <1>9, <2>5, <3>8, <3>9, <3>12
  <2> QED
    BY <1>3, <1>14, <2>1, <2>4, <2>5 DEF CarFailed
<1>15. CASE TripLost
  <2>1. Arg.fn \in OfTrip /\ d \in Driver /\ UNCHANGED pq
    BY <1>3, <1>4, <1>15 DEF TripLost, Arg, OfTrip
  <2>2. CASE orders[o].chatOffline
    <3> DEFINE r == [orders[o] EXCEPT !.status = "cancelled"]
    <3>1. orders' = [orders EXCEPT ![o] = r] /\ agenda' = <<For("postRide", None, d)>> \o Tail(agenda)
      BY <1>3, <1>15, <2>2 DEF TripLost
    <3>2. r.status = "cancelled" /\ r.offered = None /\ r.routeDriver = None
      BY <1>4, <1>6, <2>1 DEF OrderRecord
    <3> HIDE DEF r
    <3>3. Held(r, pq'[o].row)
      BY <1>6, <2>1, <3>2 DEF Held, Timed, Candidate
    <3>4. AllHeld(orders', pq')
      BY <1>1, <1>4, <1>5, <2>1, <3>1, <3>2, <3>3, OneHeld
    <3>5. \A p \in Order : SameDriver(orders[p], orders'[p])
      BY <1>1, <1>4, <3>1, <3>2 DEF SameDriver, Active
    <3>6. PICK t \in Seq(Call) : agenda' = t \o Tail(agenda) /\ Pushed(t, TRUE, orders', pq')
      BY <1>10, <2>1, <3>1
    <3> QED
      BY <1>9, <3>4, <3>5, <3>6
  <2>3. CASE ~orders[o].chatOffline
    <3> DEFINE r == [orders[o] EXCEPT !.status = "searching", !.driver = None, !.pricing = FALSE]
               t == <<Offer(o, {}), Promote, For("postRide", None, d)>>
    <3>1. orders' = [orders EXCEPT ![o] = r] /\ agenda' = t \o Tail(agenda)
      BY <1>3, <1>15, <2>3 DEF TripLost
    <3>2. r.status = "searching" /\ r.offered = None /\ r.routeDriver = None
      BY <1>4, <1>6, <2>1 DEF OrderRecord
    <3> HIDE DEF r
    <3>3. Held(r, pq'[o].row)
      BY <1>6, <2>1, <3>2 DEF Held, Timed, Candidate
    <3>4. AllHeld(orders', pq')
      BY <1>1, <1>4, <1>5, <2>1, <3>1, <3>2, <3>3, OneHeld
    <3>5. \A p \in Order : SameDriver(orders[p], orders'[p])
      BY <1>1, <1>4, <3>1, <3>2 DEF SameDriver, Active
    <3>6. orders'[o].routeDriver = None /\ ~Parked(pq', o)
      BY <1>1, <1>4, <1>6, <2>1, <3>1, <3>2 DEF Parked
    <3>7. /\ Offer(o, {}) \in Call /\ Offer(o, {}).fn \notin Ender
          /\ Ready(Offer(o, {}), orders', pq')
      BY <1>4, <3>6, CallNames, CallTypes DEF Ready, Ender, OfTrip
    <3>8. Pushed(t, TRUE, orders', pq') /\ t \in Seq(Call)
      BY <1>7, <1>8, <2>1, <3>7, PushedCalls
    <3> QED
      BY <1>9, <3>1, <3>4, <3>5, <3>8
  <2> QED
    BY <2>2, <2>3
<1> QED
  BY <1>11, <1>12, <1>13, <1>14, <1>15 DEF ResumedStep

\* A request that nobody is asked about, and one that waits.
LEMMA AtRest ==
  ASSUME NEW r, r.offered = None, r.routeDriver = None
  PROVE  /\ r.status \notin {"new", "parallel_assigned", "chat_search"} \union Candidate
              => Held(r, "none")
         /\ /\ r.status \in Candidate /\ r.driver = None /\ r.parallel = None
            => Held(r, "none") /\ Held(r, "waiting")
BY DEF Held, Timed, Candidate

\* The calls with which a handler starts.
Started(s, os, q) ==
  \/ s = <<>>
  \/ \E a \in Call : s = <<a>> /\ Ready(a, os, q)
  \/ \E a, b \in Call : /\ s = <<a, b>> /\ a.fn \notin Ender /\ b.fn \notin Direct
                        /\ Ready(a, os, q) /\ Ready(b, os, q)

\* The lists of calls with which the handlers and timers start are in order, and each
\* call finds what it expects.
LEMMA StartedCalls ==
  ASSUME NEW os, NEW q
  PROVE  /\ Started(<<>>, os, q) /\ Started(<<Promote>>, os, q) /\ Started(<<PromoteUnflushed>>, os, q)
         /\ \A o \in Order, fn \in {"notify", "notifyOrFallback", "fallback"} :
              Started(<<Do(fn, o)>>, os, q) /\ Started(<<Do(fn, o), Promote>>, os, q)
         /\ \A o \in Order : Started(<<Do("release", o), Do("passengerGone", o)>>, os, q)
         /\ \A o \in Order, d \in Driver :
              /\ Started(<<Do("release", o), For("rideDone", o, d)>>, os, q)
              /\ os[o].driver = d /\ os[o].status # "parallel_assigned"
                   => \A fn \in {"tripVoided", "carFailed"} :
                        Started(<<Do("release", o), For(fn, o, d)>>, os, q)
         /\ \A o \in Order, but \in SUBSET Driver :
              ~Parked(q, o) /\ os[o].routeDriver = None
                => Started(<<Offer(o, but)>>, os, q) /\ Started(<<Offer(o, but), Promote>>, os, q)
<1>1. \A c \in {Promote, PromoteUnflushed} :
        c \in Call /\ c.fn \notin Ender \union Direct /\ Ready(c, os, q)
  BY CallNames, CallTypes, StartReady DEF Ender, OfTrip, Direct
<1>2. \A o \in Order, fn \in {"notify", "notifyOrFallback", "fallback", "release", "passengerGone"} :
        /\ Do(fn, o) \in Call /\ Do(fn, o).fn \notin Direct /\ Ready(Do(fn, o), os, q)
        /\ fn # "passengerGone" => Do(fn, o).fn \notin Ender
  BY CallNames, CallTypes, StartReady DEF Function, AboutNoOrder, ForDriver, Ender, OfTrip, Direct
<1>3. ASSUME NEW o \in Order, NEW d \in Driver
      PROVE  /\ For("rideDone", o, d) \in Call /\ For("rideDone", o, d).fn \notin Direct
             /\ Ready(For("rideDone", o, d), os, q)
             /\ \A fn \in {"tripVoided", "carFailed"} :
                  /\ For(fn, o, d) \in Call /\ For(fn, o, d).fn \notin Direct
                  /\ os[o].driver = d /\ os[o].status # "parallel_assigned"
                       => Ready(For(fn, o, d), os, q)
  <2>1. ASSUME NEW fn \in {"rideDone", "tripVoided", "carFailed"}
        PROVE  /\ For(fn, o, d) \in Call /\ For(fn, o, d).fn = fn /\ For(fn, o, d).order = o
               /\ For(fn, o, d).driver = d /\ For(fn, o, d).fn \notin Direct
    BY CallNames, CallTypes DEF ForDriver, AboutNoOrder, Direct
  <2>2. Ready(For("rideDone", o, d), os, q)
    BY <2>1, StartReady DEF OfTrip, Direct
  <2>3. ASSUME NEW fn \in {"tripVoided", "carFailed"},
               os[o].driver = d /\ os[o].status # "parallel_assigned"
        PROVE  Ready(For(fn, o, d), os, q)
    BY <2>1, <2>3 DEF Ready, Direct
  <2> QED
    BY <2>1, <2>2, <2>3
<1>4. \A o \in Order, but \in SUBSET Driver :
        /\ Offer(o, but) \in Call /\ Offer(o, but).fn \notin Ender
        /\ ~Parked(q, o) /\ os[o].routeDriver = None => Ready(Offer(o, but), os, q)
  BY CallNames, CallTypes DEF Ender, OfTrip, Ready
<1>5. Started(<<>>, os, q) /\ Started(<<Promote>>, os, q) /\ Started(<<PromoteUnflushed>>, os, q)
  BY <1>1 DEF Started
<1>6. \A o \in Order, fn \in {"notify", "notifyOrFallback", "fallback"} :
        Started(<<Do(fn, o)>>, os, q) /\ Started(<<Do(fn, o), Promote>>, os, q)
  BY <1>1, <1>2 DEF Started
<1>9. \A o \in Order : Started(<<Do("release", o), Do("passengerGone", o)>>, os, q)
  BY <1>2 DEF Started
<1>7. \A o \in Order, d \in Driver :
        /\ Started(<<Do("release", o), For("rideDone", o, d)>>, os, q)
        /\ os[o].driver = d /\ os[o].status # "parallel_assigned"
             => \A fn \in {"tripVoided", "carFailed"} :
                  Started(<<Do("release", o), For(fn, o, d)>>, os, q)
  BY <1>2, <1>3 DEF Started
<1>8. \A o \in Order, but \in SUBSET Driver :
        ~Parked(q, o) /\ os[o].routeDriver = None
          => Started(<<Offer(o, but)>>, os, q) /\ Started(<<Offer(o, but), Promote>>, os, q)
  BY <1>1, <1>4 DEF Started
<1> QED
  BY <1>5, <1>6, <1>7, <1>8, <1>9

\* A handler that changes one request may start its calls.
LEMMA HandlerHands ==
  ASSUME TypeOK, HandsInv, NEW o \in Order, NEW r, orders' = [orders EXCEPT ![o] = r],
         \A p \in Order \ {o} : pq'[p].row = pq[p].row,
         Held(r, pq'[o].row),
         r.routeDriver \in {None, orders[o].routeDriver},
         SameDriver(orders[o], r),
         Started(agenda', orders', pq')
  PROVE  Handed
<1>1. orders \in [Order -> OrderRecord]
  BY DEF TypeOK
<1>2. AllHeld(orders', pq')
  BY <1>1, OneHeld DEF HandsInv
<1>3. \A p \in Order : SameDriver(orders[p], orders'[p])
  BY <1>1 DEF SameDriver
<1>4. Stacked(agenda') /\ AllReady(agenda', orders', pq')
  BY StartReady DEF Started
<1> QED
  BY <1>2, <1>3, <1>4 DEF Handed, HandsInv

\* A handler that changes no request may start its calls.
LEMMA QuietHands ==
  ASSUME HandsInv, UNCHANGED <<orders, pq>>, Started(agenda', orders, pq)
  PROVE  Handed
<1>1. AllHeld(orders', pq') /\ \A p \in Order : SameDriver(orders[p], orders'[p])
  BY DEF HandsInv, SameDriver
<1>2. Stacked(agenda') /\ AllReady(agenda', orders', pq')
  BY StartReady DEF Started
<1> QED
  BY <1>1, <1>2 DEF Handed, HandsInv

\* Passengers and dispatchers.
LEMMA PassengerHands ==
  ASSUME TypeOK, HandsInv, NEW o \in Order,
         \/ NewRide(o) \/ NewDeskRide(o) \/ PassengerCancel(o)
         \/ ConfirmActual(o) \/ ConfirmNot(o) \/ NewAddress(o)
         \/ PriceAgreed(o) \/ PriceRefused(o)
  PROVE  Handed
<1> USE DEF Start
<1>1. /\ orders \in [Order -> OrderRecord] /\ pq \in [Order -> QueueRecord]
      /\ orders[o] \in OrderRecord
  BY DEF TypeOK
<1>2. AllHeld(orders, pq) /\ Held(orders[o], pq[o].row)
  BY DEF HandsInv, AllHeld
<1>3. CASE NewRide(o) \/ NewDeskRide(o)
  <2>1. /\ orders[o].status = "new" /\ pq[o].row = "none" /\ orders[o].routeDriver = None
        /\ orders[o].offered = None /\ orders[o].driver = None /\ orders[o].parallel = None
    BY <1>2, <1>3 DEF NewRide, NewDeskRide, Held, Candidate
  <2> DEFINE x == [orders[o] EXCEPT !.status = "created"]
             y == [orders[o] EXCEPT !.status = "queued"]
             z == [orders[o] EXCEPT !.status = "created", !.jobs = {"dispatcher_unclaimed"}]
  <2>2. PICK r \in {x, y, z} :
          /\ orders' = [orders EXCEPT ![o] = r]
          /\ \/ pq' = pq /\ agenda' = <<Offer(o, {})>>
             \/ pq' = Enqueue(pq, o) /\ agenda' = <<Do("notifyOrFallback", o)>>
    BY <1>1, <1>3 DEF NewRide, NewDeskRide
  <2>3. /\ r.status \in Candidate /\ r.offered = None /\ r.routeDriver = None
        /\ r.driver = None /\ r.parallel = None
    BY <1>1, <2>1 DEF OrderRecord, Candidate
  <2> HIDE DEF x, y, z
  <2>4. pq'[o].row \in {"none", "waiting"} /\ \A p \in Order \ {o} : pq'[p].row = pq[p].row
    BY <1>1, <2>1, <2>2, RowsAfter
  <2>5. Held(r, pq'[o].row)
    BY <2>3, <2>4, AtRest
  <2>6. orders'[o].routeDriver = None
    BY <1>1, <2>2, <2>3
  <2>7. Started(agenda', orders', pq')
    <3>1. CASE pq' = pq /\ agenda' = <<Offer(o, {})>>
      <4>1. Started(<<Offer(o, {})>>, orders', pq')
        BY <2>1, <2>6, <3>1, StartedCalls DEF Parked
      <4> QED
        BY <3>1, <4>1
    <3>2. CASE agenda' = <<Do("notifyOrFallback", o)>>
      <4>1. Started(<<Do("notifyOrFallback", o)>>, orders', pq')
        BY StartedCalls
      <4> QED
        BY <3>2, <4>1
    <3> QED
      BY <2>2, <3>1, <3>2
  <2>8. SameDriver(orders[o], r)
    BY <2>1 DEF SameDriver, Active
  <2> QED
    BY <2>2, <2>3, <2>4, <2>5, <2>7, <2>8, HandlerHands
<1>4. CASE PassengerCancel(o)
  <2>1. /\ UNCHANGED <<orders, pq>> /\ agenda' = <<Do("release", o), Do("passengerGone", o)>>
    BY <1>4 DEF PassengerCancel
  <2>2. Started(<<Do("release", o), Do("passengerGone", o)>>, orders, pq)
    BY StartedCalls
  <2> QED
    BY <2>1, <2>2, QuietHands
<1>5. CASE ConfirmActual(o)
  <2>1. PICK P : P = Polls(pq) \ {o}
    OBVIOUS
  <2> DEFINE r == [orders[o] EXCEPT !.jobs = @ \ {"pqueue"}, !.confirmed = TRUE, !.fixing = FALSE]
             os == [orders EXCEPT ![o] = r]
             q1 == [pq EXCEPT ![o].row = "waiting"]
  <2>2. /\ Parked(pq, o) /\ pq' = [Pause(pq, P) EXCEPT ![o].row = "waiting"]
        /\ orders' = WithoutPolls(os, P) /\ agenda' = <<PromoteUnflushed>>
    BY <1>1, <1>5, <2>1 DEF ConfirmActual
  <2>3. r \in OrderRecord
    <3>1. ASSUME NEW v \in OrderRecord
          PROVE  [v EXCEPT !.jobs = v.jobs \ {"pqueue"}, !.confirmed = TRUE, !.fixing = FALSE]
                   \in OrderRecord
      BY DEF OrderRecord
    <3> QED
      BY <1>1, <3>1
  <2>4. /\ r.status = orders[o].status /\ r.offered = orders[o].offered
        /\ r.driver = orders[o].driver /\ r.parallel = orders[o].parallel
        /\ r.fallback = orders[o].fallback /\ r.etaSet = orders[o].etaSet
        /\ r.routeDriver = orders[o].routeDriver /\ r.jobs = orders[o].jobs \ {"pqueue"}
    BY <1>1 DEF OrderRecord
  <2> HIDE DEF r
  <2>5. /\ q1 \in [Order -> QueueRecord] /\ q1[o].row = "waiting"
        /\ \A p \in Order \ {o} : q1[p].row = pq[p].row
    <3>1. q1 \in [Order -> QueueRecord]
      BY <1>1, QueueRow
    <3>2. q1[o].row = "waiting" /\ \A p \in Order \ {o} : q1[p] = pq[p]
      BY <1>1 DEF QueueRecord
    <3> QED
      BY <3>1, <3>2
  <2>6. pq[o].row # "none"
    BY <2>2 DEF Parked
  <2>7. Held(r, q1[o].row)
    BY <1>2, <2>4, <2>5, <2>6 DEF Held, Timed, Candidate
  <2>8. os \in [Order -> OrderRecord] /\ AllHeld(os, q1)
    <3> HIDE DEF q1
    <3>1. os \in [Order -> OrderRecord]
      BY <1>1, <2>3, PutOrder
    <3>2. AllHeld(os, q1)
      BY <1>1, <1>2, <2>4, <2>5, <2>7, OneHeld
    <3> QED
      BY <3>1, <3>2
  <2>9. P \subseteq Polls(q1)
    BY <2>1, <2>5 DEF Polls
  <2>10. \A p \in Order : pq'[p].row = Pause(q1, P)[p].row
    <3> HIDE DEF q1
    <3>1. Pause(pq, P) \in [Order -> QueueRecord]
      BY <1>1, PauseTypes
    <3>2. pq'[o].row = "waiting" /\ \A p \in Order \ {o} : pq'[p].row = Pause(pq, P)[p].row
      BY <2>2, <3>1, RowsAfter
    <3>3. \A p \in Order : Pause(pq, P)[p].row = IF p \in P THEN "waiting" ELSE pq[p].row
      BY <1>1 DEF Pause, QueueRecord
    <3>4. \A p \in Order : Pause(q1, P)[p].row = IF p \in P THEN "waiting" ELSE q1[p].row
      BY <2>5 DEF Pause, QueueRecord
    <3> QED
      BY <2>1, <2>5, <3>2, <3>3, <3>4
  <2>11. /\ AllHeld(WithoutPolls(os, P), Pause(q1, P))
         /\ \A p \in Order : SameDriver(os[p], WithoutPolls(os, P)[p])
    <3> HIDE DEF os, q1
    <3> QED
      BY <2>5, <2>8, <2>9, UnpolledHeld
  <2>12. AllHeld(orders', pq')
    BY <2>2, <2>10, <2>11 DEF AllHeld
  <2>13. \A p \in Order : SameDriver(orders[p], os[p])
    BY <1>1, <2>4 DEF SameDriver
  <2>14. \A p \in Order : orders'[p].status = os[p].status /\ orders'[p].driver = os[p].driver
    <3> HIDE DEF os
    <3> QED
      BY <2>2, <2>8 DEF WithoutPolls, OrderRecord
  <2>15. \A p \in Order : SameDriver(orders[p], orders'[p])
    BY <2>13, <2>14 DEF SameDriver
  <2>16. Started(<<PromoteUnflushed>>, orders', pq')
    BY StartedCalls
  <2>17. Stacked(agenda') /\ AllReady(agenda', orders', pq')
    BY <2>2, <2>16, StartReady DEF Started
  <2> QED
    BY <2>12, <2>15, <2>17 DEF Handed, HandsInv
<1>6. CASE ConfirmNot(o) \/ NewAddress(o)
  <2> DEFINE w == Withdraw(orders[o])
             x == [w EXCEPT !.status = "cancelled", !.fixing = FALSE]
             y == [w EXCEPT !.status = "searching", !.fallback = FALSE, !.noAuto = {},
                            !.offered = None, !.fixing = FALSE]
  <2>1. /\ w \in OrderRecord /\ w.offered = orders[o].offered /\ w.routeDriver = None
    BY <1>1, ClosedFields
  <2>2. PICK r :
          /\ orders' = [orders EXCEPT ![o] = r]
          /\ \/ r = x /\ Parked(pq, o) /\ agenda' = <<PromoteUnflushed>>
             \/ r = y /\ agenda' = <<Offer(o, {})>>
    BY <1>6 DEF ConfirmNot, NewAddress
  <2>3. pq' = Unqueue(pq, o)
    BY <1>6 DEF ConfirmNot, NewAddress
  <2> HIDE DEF w
  <2>4. /\ r.status \in {"cancelled", "searching"} /\ r.routeDriver = None
        /\ r.offered = None \/ (r.offered = w.offered /\ Parked(pq, o))
    BY <2>1, <2>2 DEF OrderRecord
  <2> HIDE DEF x, y
  <2>5. r.offered = None
    BY <1>2, <2>1, <2>4 DEF Held, Parked
  <2>6. pq'[o].row = "none" /\ \A p \in Order \ {o} : pq'[p].row = pq[p].row
    BY <1>1, <2>3, RowsAfter
  <2>7. Held(r, pq'[o].row)
    BY <2>4, <2>5, <2>6, AtRest DEF Candidate
  <2>8. SameDriver(orders[o], r)
    BY <2>4 DEF SameDriver, Active
  <2>9. orders'[o].routeDriver = None
    BY <1>1, <2>2, <2>4
  <2>10. Started(agenda', orders', pq')
    <3>1. Started(<<PromoteUnflushed>>, orders', pq') /\ Started(<<Offer(o, {})>>, orders', pq')
      BY <2>6, <2>9, StartedCalls DEF Parked
    <3> QED
      BY <2>2, <3>1
  <2> QED
    BY <2>2, <2>4, <2>6, <2>7, <2>8, <2>10, HandlerHands
<1>7. CASE PriceAgreed(o) \/ PriceRefused(o)
  <2>1. orders[o].status \in {"assigned", "searching"} /\ UNCHANGED pq /\ agenda' = <<>>
    BY <1>7 DEF PriceAgreed, PriceRefused, DeliveryOff, Unanswered
  <2> DEFINE x == [orders[o] EXCEPT !.status = "assigned", !.confirmed = TRUE,
                         !.card = @ \/ orders[o].driver # None, !.jobs = @ \ {"delivery"}]
             y == [orders[o] EXCEPT !.status = "cancelled", !.fixing = FALSE,
                                    !.jobs = @ \ {"delivery"}]
  <2>2. PICK r \in {x, y} : orders' = [orders EXCEPT ![o] = r]
    BY <1>1, <1>7 DEF PriceAgreed, PriceRefused, DeliveryOff
  <2>3. /\ r.status \in {"assigned", "cancelled"} /\ r.routeDriver = orders[o].routeDriver
        /\ r.offered = orders[o].offered /\ r.driver = orders[o].driver
        /\ r.parallel = orders[o].parallel
    BY <1>1, <2>2 DEF OrderRecord
  <2> HIDE DEF x, y
  <2>4. Held(r, pq'[o].row)
    BY <1>2, <2>1, <2>3 DEF Held, Timed, Candidate
  <2>5. SameDriver(orders[o], r) /\ Started(agenda', orders', pq')
    BY <2>1, <2>3 DEF SameDriver, Started
  <2> QED
    BY <2>1, <2>2, <2>3, <2>4, <2>5, HandlerHands
<1> QED
  BY <1>3, <1>4, <1>5, <1>6, <1>7

\* Menu commands, the recovery worker and the timer of an absent driver change
\* no request.
LEMMA LineHands ==
  ASSUME TypeOK, HandsInv, LineStep \/ Recovery \/ (\E d \in Driver : AwayTimeout(d))
  PROVE  Handed
<1>1. /\ UNCHANGED <<orders, pq>> /\ agenda' \in {<<>>, <<Promote>>}
  BY DEF LineStep, GoOnline, SetLine, LeaveLine, GoAway, Recovery, AwayTimeout, Start
<1>2. Started(agenda', orders, pq)
  BY <1>1, StartedCalls
<1> QED
  BY <1>1, <1>2, QuietHands

\* What the driver of a request, or the one it is offered to, is sure of.
LEMMA OwnHeld ==
  ASSUME NEW r \in OrderRecord, NEW row, Held(r, row), NEW d \in Driver
  PROVE  /\ r.offered = d /\ r.status \in {"searching", "created"}
              => /\ r.status = "searching" /\ r.driver = None /\ r.parallel = None
                 /\ r.routeDriver = None /\ row = "none"
         /\ r.driver = d
              => r.offered = None /\ r.status \notin Candidate /\ r.routeDriver = None /\ row = "none"
         /\ r.status = "parallel_assigned"
              => r.offered = None /\ r.routeDriver = None /\ row = "none"
BY NoneAssumption DEF Held, Candidate

\* The answers to an offer.
LEMMA AnswerHands ==
  ASSUME TypeOK, HandsInv, NEW d \in Driver, NEW o \in Order,
         \/ Accept(d, o) \/ DeclineEnds(d, o) \/ DeclineAsksAddress(d, o)
         \/ DeclineAway(d, o) \/ \E reason \in Reason : DeclinePasses(d, o, reason)
  PROVE  Handed
<1> USE DEF Start
<1>1. /\ orders \in [Order -> OrderRecord] /\ pq \in [Order -> QueueRecord]
      /\ orders[o] \in OrderRecord
  BY DEF TypeOK
<1>2. AllHeld(orders, pq) /\ Held(orders[o], pq[o].row)
  BY DEF HandsInv, AllHeld
<1>3. /\ orders[o].offered = d /\ orders[o].status = "searching" /\ orders[o].driver = None
      /\ orders[o].parallel = None /\ orders[o].routeDriver = None /\ pq[o].row = "none"
  <2>1. orders[o].offered = d /\ orders[o].status \in {"searching", "created"}
    BY DEF Accept, DeclineEnds, DeclineAsksAddress, DeclineAway, DeclinePasses, Offered
  <2> QED
    BY <1>1, <1>2, <2>1, OwnHeld
<1> DEFINE c == Declined(orders[o])
<1>4. /\ c \in OrderRecord /\ c.status = "searching" /\ c.offered = None /\ c.driver = None
      /\ c.parallel = None /\ c.routeDriver = None
  <2>1. c \in OrderRecord
    BY <1>1, OrderTypes
  <2>2. /\ c.status = orders[o].status /\ c.offered = None /\ c.driver = orders[o].driver
        /\ c.parallel = orders[o].parallel /\ c.routeDriver = orders[o].routeDriver
    BY <1>1 DEF Declined, OrderRecord
  <2> QED
    BY <1>3, <2>1, <2>2
<1> HIDE DEF c
<1>5. \A r : SameDriver(orders[o], r)
  BY <1>3 DEF SameDriver, Active
<1>6. CASE Accept(d, o)
  <2> DEFINE a == [orders[o] EXCEPT !.offered = None, !.driver = d, !.status = "assigned",
                                     !.jobs = @ \ {"accept", "dispatcher_unclaimed"}]
             r == Prompted(o, a)
  <2>1. orders' = [orders EXCEPT ![o] = r] /\ agenda' = <<>> /\ UNCHANGED pq
    BY <1>6 DEF Accept
  <2>2. /\ a.offered = None /\ a.status = "assigned" /\ a.routeDriver = orders[o].routeDriver
    BY <1>1 DEF OrderRecord
  <2>3. a \in OrderRecord
    <3>1. ASSUME NEW v \in OrderRecord
          PROVE  [v EXCEPT !.offered = None, !.driver = d, !.status = "assigned",
                           !.jobs = v.jobs \ {"accept", "dispatcher_unclaimed"}] \in OrderRecord
      BY DEF OrderRecord, OrderStatus
    <3> QED
      BY <1>1, <3>1
  <2> HIDE DEF a
  <2>4. r.offered = None /\ r.status = "assigned" /\ r.routeDriver = None
    BY <1>3, <2>2, <2>3 DEF Prompted, OrderRecord
  <2> HIDE DEF r
  <2>5. Held(r, pq'[o].row)
    BY <1>3, <2>1, <2>4, AtRest DEF Candidate
  <2>6. Started(agenda', orders', pq')
    BY <2>1 DEF Started
  <2> QED
    BY <1>5, <2>1, <2>4, <2>5, <2>6, HandlerHands
<1>7. CASE DeclineEnds(d, o)
  <2> DEFINE w == Withdraw(c)
             r == Cancel(w)
  <2>1. orders' = [orders EXCEPT ![o] = r] /\ agenda' = <<Promote>>
    BY <1>1, <1>7 DEF DeclineEnds, c
  <2>2. pq' = Unqueue(pq, o)
    BY <1>7 DEF DeclineEnds
  <2>3. /\ w \in OrderRecord /\ w.offered = None /\ w.routeDriver = None
    BY <1>4, ClosedFields
  <2> HIDE DEF w
  <2>4. r.offered = None /\ r.status = "cancelled" /\ r.routeDriver = None
    BY <2>3 DEF Cancel, OrderRecord
  <2> HIDE DEF r
  <2>5. pq'[o].row = "none" /\ \A p \in Order \ {o} : pq'[p].row = pq[p].row
    BY <1>1, <2>2, RowsAfter
  <2>6. Held(r, pq'[o].row)
    BY <2>4, <2>5, AtRest DEF Candidate
  <2>7. Started(<<Promote>>, orders', pq')
    BY StartedCalls
  <2> QED
    BY <1>5, <2>1, <2>4, <2>5, <2>6, <2>7, HandlerHands
<1>8. CASE DeclineAsksAddress(d, o)
  <2> DEFINE r == [c EXCEPT !.status = "created", !.fixing = o \notin Desk]
  <2>1. orders' = [orders EXCEPT ![o] = r] /\ agenda' = <<Promote>> /\ UNCHANGED pq
    BY <1>8 DEF DeclineAsksAddress, c
  <2>2. /\ r.offered = None /\ r.status = "created" /\ r.routeDriver = None
        /\ r.driver = None /\ r.parallel = None
    BY <1>4 DEF OrderRecord
  <2> HIDE DEF r
  <2>3. Held(r, pq'[o].row)
    BY <1>3, <2>1, <2>2, AtRest DEF Candidate
  <2>4. Started(<<Promote>>, orders', pq')
    BY StartedCalls
  <2> QED
    BY <1>5, <2>1, <2>2, <2>3, <2>4, HandlerHands
<1>9. CASE DeclineAway(d, o) \/ \E reason \in Reason : DeclinePasses(d, o, reason)
  <2> DEFINE x == [c EXCEPT !.declined = @ \union {d}]
  <2>1. PICK r :
          /\ orders' = [orders EXCEPT ![o] = r]
          /\ r = x \/ \E b \in BOOLEAN : r = [c EXCEPT !.declined = @ \union {d}, !.special = @ \/ b]
    <3>1. CASE DeclineAway(d, o)
      BY <3>1 DEF DeclineAway, c
    <3>2. ASSUME NEW reason \in Reason, DeclinePasses(d, o, reason)
          PROVE  \E b \in BOOLEAN : orders' = [orders EXCEPT ![o] =
                                      [c EXCEPT !.declined = @ \union {d}, !.special = @ \/ b]]
      BY <3>2 DEF DeclinePasses, c
    <3> QED
      BY <1>9, <3>1, <3>2
  <2>2. agenda' \in {<<Offer(o, {})>>, <<Offer(o, {}), Promote>>} /\ UNCHANGED pq
    BY <1>9 DEF DeclineAway, DeclinePasses
  <2>3. r.offered = None /\ r.status = "searching" /\ r.routeDriver = None
    BY <1>4, <2>1 DEF OrderRecord
  <2>4. Held(r, pq'[o].row)
    BY <1>3, <2>2, <2>3, AtRest DEF Candidate
  <2>5. orders'[o].routeDriver = None
    BY <1>1, <2>1, <2>3
  <2>6. Started(agenda', orders', pq')
    BY <1>3, <2>2, <2>5, StartedCalls DEF Parked
  <2> QED
    BY <1>5, <2>1, <2>2, <2>3, <2>4, <2>6, HandlerHands
<1> QED
  BY <1>6, <1>7, <1>8, <1>9

\* The claims of a request that is not offered to the driver.
LEMMA ClaimHands ==
  ASSUME TypeOK, HandsInv, NEW d \in Driver, NEW o \in Order, TakePending(d, o) \/ TakeFromChat(d, o)
  PROVE  Handed
<1> USE DEF Start
<1>1. /\ orders \in [Order -> OrderRecord] /\ pq \in [Order -> QueueRecord]
      /\ orders[o] \in OrderRecord
  BY DEF TypeOK
<1> DEFINE w == Withdraw(orders[o])
           j == w.jobs \ {"accept", "driver_chat", "dispatcher_unclaimed"}
           a == [w EXCEPT !.driver = d, !.status = "assigned", !.chatOffline = FALSE, !.jobs = j]
           b == [w EXCEPT !.driver = d, !.status = "assigned", !.offered = None, !.card = TRUE,
                          !.chatOffline = ~fleet[d].onLine, !.jobs = j]
<1>2. /\ w \in OrderRecord /\ w.offered = orders[o].offered /\ w.routeDriver = None
  BY <1>1, ClosedFields
<1>3. orders[o].status \in Pending
  BY DEF TakePending, ClaimPending, TakeFromChat, ChatClaimable
<1>4. PICK r :
        /\ orders' = [orders EXCEPT ![o] = r]
        /\ r = b \/ (r = Prompted(o, a) /\ orders[o].offered = None)
  BY DEF TakePending, ClaimPending, TakeFromChat
<1>5. pq' = Unqueue(pq, o) /\ agenda' = <<>>
  BY DEF TakePending, ClaimPending, TakeFromChat
<1>6. j \subseteq w.jobs
  OBVIOUS
<1> HIDE DEF w, j
<1>7. a \in OrderRecord
  <2>1. j \in SUBSET Timer
    BY <1>2, <1>6 DEF OrderRecord
  <2>2. ASSUME NEW v \in OrderRecord, NEW k \in SUBSET Timer
        PROVE  [v EXCEPT !.driver = d, !.status = "assigned", !.chatOffline = FALSE, !.jobs = k]
                 \in OrderRecord
    BY DEF OrderRecord, OrderStatus
  <2> QED
    BY <1>2, <2>1, <2>2
<1>8. a.status = "assigned" /\ a.offered = orders[o].offered /\ a.routeDriver = None
  BY <1>2 DEF OrderRecord
<1>9. b.status = "assigned" /\ b.offered = None /\ b.routeDriver = None
  BY <1>2 DEF OrderRecord
<1> HIDE DEF a, b
<1>10. r.status = "assigned" /\ r.offered = None /\ r.routeDriver = None
  <2>1. /\ Prompted(o, a).status = a.status /\ Prompted(o, a).offered = a.offered
        /\ Prompted(o, a).routeDriver = a.routeDriver
    BY <1>7 DEF Prompted, OrderRecord
  <2> QED
    BY <1>4, <1>8, <1>9, <2>1
<1>11. pq'[o].row = "none" /\ \A p \in Order \ {o} : pq'[p].row = pq[p].row
  BY <1>1, <1>5, RowsAfter
<1>12. Held(r, pq'[o].row)
  BY <1>10, <1>11, AtRest DEF Candidate
<1>13. SameDriver(orders[o], r)
  BY <1>3 DEF SameDriver, Pending, Active, Candidate
<1>14. Started(agenda', orders', pq')
  BY <1>5 DEF Started
<1> QED
  BY <1>4, <1>10, <1>11, <1>12, <1>13, <1>14, HandlerHands

\* The trip.
LEMMA TripHands ==
  ASSUME TypeOK, HandsInv, NEW d \in Driver, NEW o \in Order,
         \/ SubmitPrice(d, o) \/ ApplyEta(d, o) \/ Arrived(d, o) \/ Seated(d, o)
         \/ Complete(d, o)
         \/ \E outcome \in {"tripVoided", "carFailed"} : CancelActive(d, o, outcome)
  PROVE  Handed
<1> USE DEF Start
<1>1. /\ orders \in [Order -> OrderRecord] /\ pq \in [Order -> QueueRecord]
      /\ orders[o] \in OrderRecord
  BY DEF TypeOK
<1>2. AllHeld(orders, pq) /\ Held(orders[o], pq[o].row)
  BY DEF HandsInv, AllHeld
<1>3. orders[o].driver = d /\ UNCHANGED pq
  BY DEF SubmitPrice, ApplyEta, Arrived, Seated, Complete, CancelActive, Busy
<1>4. /\ orders[o].offered = None /\ orders[o].status \notin Candidate
      /\ orders[o].routeDriver = None /\ pq[o].row = "none"
  BY <1>1, <1>2, <1>3, OwnHeld
<1>5. ASSUME NEW r, orders' = [orders EXCEPT ![o] = r], r.driver = d, r.offered = None,
             r.routeDriver = None,
             \/ r.status \in Active \union {"searching", "completed"}
             \/ r.status = orders[o].status /\ r.parallel = orders[o].parallel
                /\ r.jobs = orders[o].jobs /\ r.etaSet = orders[o].etaSet,
             Started(agenda', orders', pq')
      PROVE  Handed
  <2>1. Held(r, pq'[o].row)
    <3>1. CASE r.status \in Active \union {"searching", "completed"}
      BY <1>3, <1>4, <1>5, <3>1, AtRest DEF Active, Candidate
    <3>2. CASE r.status = orders[o].status /\ r.parallel = orders[o].parallel
               /\ r.jobs = orders[o].jobs /\ r.etaSet = orders[o].etaSet
      BY <1>2, <1>3, <1>4, <1>5, <3>2 DEF Held, Timed
    <3> QED
      BY <1>5, <3>1, <3>2
  <2>2. SameDriver(orders[o], r)
    BY <1>3, <1>5 DEF SameDriver
  <2>3. \A p \in Order \ {o} : pq'[p].row = pq[p].row
    BY <1>3
  <2> QED
    BY <1>4, <1>5, <2>1, <2>2, <2>3, HandlerHands
<1>6. CASE SubmitPrice(d, o)
  <2> DEFINE x == [orders[o] EXCEPT !.pricing = FALSE, !.confirmed = TRUE, !.card = TRUE]
             y == [orders[o] EXCEPT !.pricing = FALSE, !.confirmed = FALSE, !.proposed = TRUE,
                              !.fixing = FALSE, !.jobs = @ \union {"delivery"}]
  <2>1. PICK r \in {x, y} : orders' = [orders EXCEPT ![o] = r]
    BY <1>6 DEF SubmitPrice
  <2>2. /\ r.status = orders[o].status /\ r.driver = orders[o].driver
        /\ r.offered = orders[o].offered /\ r.routeDriver = orders[o].routeDriver
    BY <1>1, <2>1 DEF OrderRecord
  <2> HIDE DEF x, y
  <2>3. r.status \in Active /\ Started(agenda', orders', pq')
    BY <1>6, <2>2, StartedCalls DEF SubmitPrice, Active
  <2> QED
    BY <1>3, <1>4, <1>5, <2>1, <2>2, <2>3
<1>7. CASE ApplyEta(d, o)
  <2> DEFINE r == [orders[o] EXCEPT !.card = FALSE, !.departed = TRUE, !.fixing = FALSE]
  <2>1. orders' = [orders EXCEPT ![o] = r] /\ agenda' = <<>>
    BY <1>1, <1>7 DEF ApplyEta
  <2>2. /\ r.status = orders[o].status /\ r.driver = orders[o].driver
        /\ r.offered = orders[o].offered /\ r.routeDriver = orders[o].routeDriver
        /\ r.parallel = orders[o].parallel /\ r.jobs = orders[o].jobs /\ r.etaSet = orders[o].etaSet
    BY <1>1 DEF OrderRecord
  <2> HIDE DEF r
  <2>3. Started(agenda', orders', pq')
    BY <2>1 DEF Started
  <2> QED
    BY <1>3, <1>4, <1>5, <2>1, <2>2, <2>3
<1>8. CASE Arrived(d, o) \/ Seated(d, o)
  <2> DEFINE x == [orders[o] EXCEPT !.status = "arrived"]
             y == [orders[o] EXCEPT !.status = "in_progress"]
  <2>1. PICK r \in {x, y} : orders' = [orders EXCEPT ![o] = r]
    BY <1>1, <1>8 DEF Arrived, Seated
  <2>2. /\ r.status \in Active /\ r.driver = orders[o].driver
        /\ r.offered = orders[o].offered /\ r.routeDriver = orders[o].routeDriver
    <3>1. CASE r = x
      BY <1>1, <3>1 DEF OrderRecord, Active
    <3>2. CASE r = y
      BY <1>1, <3>2 DEF OrderRecord, Active
    <3> QED
      BY <2>1, <3>1, <3>2
  <2> HIDE DEF x, y
  <2>3. Started(agenda', orders', pq')
    <3>1. agenda' = <<>> \/ \E p \in Order : agenda' = <<Do("notify", p)>>
      BY <1>8 DEF Arrived, Seated
    <3> QED
      BY <3>1, StartedCalls
  <2> QED
    BY <1>3, <1>4, <1>5, <2>1, <2>2, <2>3
<1>9. CASE Complete(d, o)
  <2> DEFINE r == [orders[o] EXCEPT !.status = "completed", !.jobs = {}, !.fixing = FALSE]
  <2>1. orders' = [orders EXCEPT ![o] = r] /\ agenda' = <<Do("release", o), For("rideDone", o, d)>>
    BY <1>1, <1>9 DEF Complete
  <2>2. /\ r.status = "completed" /\ r.driver = orders[o].driver
        /\ r.offered = orders[o].offered /\ r.routeDriver = orders[o].routeDriver
    BY <1>1 DEF OrderRecord
  <2> HIDE DEF r
  <2>3. Started(agenda', orders', pq')
    BY <2>1, StartedCalls
  <2> QED
    BY <1>3, <1>4, <1>5, <2>1, <2>2, <2>3
<1>10. ASSUME NEW outcome \in {"tripVoided", "carFailed"}, CancelActive(d, o, outcome)
       PROVE  Handed
  <2> DEFINE r == [orders[o] EXCEPT !.jobs = {}]
  <2>1. /\ orders' = [orders EXCEPT ![o] = r] /\ orders[o].status \in Active \union {"searching"}
        /\ agenda' = <<Do("release", o), For(outcome, o, d)>>
    BY <1>1, <1>10 DEF CancelActive
  <2>2. /\ r.status = orders[o].status /\ r.driver = orders[o].driver
        /\ r.offered = orders[o].offered /\ r.routeDriver = orders[o].routeDriver
    BY <1>1 DEF OrderRecord
  <2> HIDE DEF r
  <2>3. orders'[o].driver = d /\ orders'[o].status # "parallel_assigned"
    BY <1>1, <1>3, <2>1, <2>2 DEF Active
  <2>4. Started(agenda', orders', pq')
    BY <2>1, <2>3, StartedCalls
  <2> QED
    BY <1>3, <1>4, <1>5, <2>1, <2>2, <2>4
<1> QED
  BY <1>6, <1>7, <1>8, <1>9, <1>10

\* A reserved request goes back.
LEMMA ReleasedFields ==
  ASSUME NEW r \in OrderRecord
  PROVE  LET s == [Released(r) EXCEPT !.card = FALSE] IN
           /\ s.status = "queued" /\ s.driver = None /\ s.parallel = None
           /\ s.offered = r.offered /\ s.routeDriver = r.routeDriver
BY DEF Released, OrderRecord

\* Parallel orders.
LEMMA ParallelHands ==
  ASSUME TypeOK, HandsInv, NEW d \in Driver, NEW o \in Order,
         \/ \E t \in Order : Take(d, o, t) \/ TakeRouteOffer(d, o, t)
         \/ SaveEta(d, o) \/ DeclineReserved(d, o) \/ DeclineRouteOffer(d, o)
  PROVE  Handed
<1> USE DEF Start
<1>1. /\ orders \in [Order -> OrderRecord] /\ pq \in [Order -> QueueRecord]
      /\ orders[o] \in OrderRecord
  BY DEF TypeOK
<1>2. AllHeld(orders, pq) /\ Held(orders[o], pq[o].row)
  BY DEF HandsInv, AllHeld
<1> DEFINE c == CloseRoute(orders[o])
<1>3. /\ c \in OrderRecord /\ c.status = orders[o].status /\ c.offered = orders[o].offered
      /\ c.driver = orders[o].driver /\ c.parallel = orders[o].parallel /\ c.routeDriver = None
      /\ orders[o].jobs \ {"route_parallel_offer"} \subseteq c.jobs
  BY <1>1, ClosedFields
<1>4. ASSUME NEW t \in Order, Take(d, o, t)
      PROVE  Handed
  <2> DEFINE r == [c EXCEPT !.parallel = d, !.driver = d, !.status = "parallel_assigned",
                            !.card = TRUE, !.jobs = c.jobs \union {"parallel_eta"}]
  <2>1. Unclaimed(orders[o]) /\ orders' = [orders EXCEPT ![o] = r] /\ agenda' = <<>>
    BY <1>4 DEF Take
  <2>2. pq' = Unqueue(pq, o)
    BY <1>4 DEF Take
  <2> HIDE DEF c
  <2>3. /\ r.status = "parallel_assigned" /\ r.driver = d /\ r.parallel = d
        /\ r.offered = orders[o].offered /\ r.routeDriver = None /\ "parallel_eta" \in r.jobs
    BY <1>3 DEF OrderRecord
  <2> HIDE DEF r
  <2>4. orders[o].offered = None
    BY <1>2, <2>1 DEF Held, Unclaimed
  <2>5. pq'[o].row = "none" /\ \A p \in Order \ {o} : pq'[p].row = pq[p].row
    BY <1>1, <2>2, RowsAfter
  <2>6. Held(r, pq'[o].row)
    BY <2>3, <2>4, <2>5 DEF Held, Timed, Candidate
  <2>7. SameDriver(orders[o], r) /\ Started(agenda', orders', pq')
    BY <2>1, <2>3 DEF SameDriver, Started, Active
  <2> QED
    BY <2>1, <2>3, <2>5, <2>6, <2>7, HandlerHands
<1>5. ASSUME NEW t \in Order, TakeRouteOffer(d, o, t)
      PROVE  Handed
  BY <1>4, <1>5 DEF TakeRouteOffer
<1>6. CASE SaveEta(d, o)
  <2> DEFINE r == [orders[o] EXCEPT !.etaSet = TRUE, !.card = FALSE, !.jobs = @ \ {"parallel_eta"}]
  <2>1. /\ orders[o].status = "parallel_assigned" /\ orders' = [orders EXCEPT ![o] = r]
        /\ agenda' = <<>> /\ UNCHANGED pq
    BY <1>1, <1>6 DEF SaveEta, Reserved
  <2>2. /\ r.status = orders[o].status /\ r.driver = orders[o].driver
        /\ r.parallel = orders[o].parallel /\ r.offered = orders[o].offered
        /\ r.routeDriver = orders[o].routeDriver /\ r.etaSet
    BY <1>1 DEF OrderRecord
  <2> HIDE DEF r
  <2>3. Held(r, pq'[o].row)
    BY <1>2, <2>1, <2>2 DEF Held, Timed, Candidate
  <2>4. SameDriver(orders[o], r) /\ Started(agenda', orders', pq')
    BY <2>1, <2>2 DEF SameDriver, Started
  <2> QED
    BY <2>1, <2>2, <2>3, <2>4, HandlerHands
<1>7. CASE DeclineReserved(d, o)
  <2> DEFINE r == [Released(orders[o]) EXCEPT !.card = FALSE]
  <2>1. /\ orders[o].status = "parallel_assigned" /\ orders' = [orders EXCEPT ![o] = r]
        /\ \/ pq' = pq /\ agenda' = <<Do("fallback", o)>>
           \/ pq' = [Enqueue(pq, o) EXCEPT ![o].row = "waiting"] /\ agenda' = <<Promote>>
    BY <1>7 DEF DeclineReserved, Reserved
  <2>2. /\ r.status = "queued" /\ r.driver = None /\ r.parallel = None
        /\ r.offered = orders[o].offered /\ r.routeDriver = orders[o].routeDriver
    BY <1>1, ReleasedFields
  <2> HIDE DEF r
  <2>3. orders[o].offered = None /\ orders[o].routeDriver = None /\ pq[o].row = "none"
    BY <1>1, <1>2, <2>1, OwnHeld
  <2>4. pq'[o].row \in {"none", "waiting"} /\ \A p \in Order \ {o} : pq'[p].row = pq[p].row
    <3>1. CASE pq' = pq
      BY <2>3, <3>1
    <3>2. CASE pq' = [Enqueue(pq, o) EXCEPT ![o].row = "waiting"]
      BY <1>1, <3>2, RowsAfter
    <3> QED
      BY <2>1, <3>1, <3>2
  <2>5. Held(r, pq'[o].row)
    BY <2>2, <2>3, <2>4, AtRest DEF Candidate
  <2>6. SameDriver(orders[o], r)
    BY <2>2 DEF SameDriver, Active
  <2>7. Started(agenda', orders', pq')
    BY <2>1, StartedCalls
  <2> QED
    BY <2>1, <2>2, <2>3, <2>4, <2>5, <2>6, <2>7, HandlerHands
<1>8. CASE DeclineRouteOffer(d, o)
  <2> DEFINE r == [c EXCEPT !.noAuto = @ \union {d}]
  <2>1. /\ Unclaimed(orders[o]) /\ orders' = [orders EXCEPT ![o] = r]
        /\ agenda' = <<Do("fallback", o)>> /\ UNCHANGED pq
    BY <1>8 DEF DeclineRouteOffer
  <2> HIDE DEF c
  <2>2. /\ r.status = c.status /\ r.driver = c.driver /\ r.parallel = c.parallel
        /\ r.offered = c.offered /\ r.routeDriver = None /\ r.jobs = c.jobs
    BY <1>3 DEF OrderRecord
  <2> HIDE DEF r
  <2>3. Held(r, pq'[o].row)
    BY <1>2, <1>3, <2>1, <2>2 DEF Held, Timed, Unclaimed, Candidate
  <2>4. SameDriver(orders[o], r)
    BY <1>3, <2>2 DEF SameDriver
  <2>5. Started(agenda', orders', pq')
    BY <2>1, StartedCalls
  <2> QED
    BY <2>1, <2>2, <2>3, <2>4, <2>5, HandlerHands
<1> QED
  BY <1>4, <1>5, <1>6, <1>7, <1>8

\* The timer has fired and is removed; nothing waited for it.
Expired(r, kind) == [r EXCEPT !.jobs = @ \ {kind}]

\* A timer that finds nothing to do keeps the invariant: nothing waited for it.
LEMMA ExpiredHands ==
  ASSUME TypeOK, HandsInv, NEW o \in Order, NEW kind,
         orders' = [orders EXCEPT ![o] = Expired(orders[o], kind)], UNCHANGED pq, agenda' = <<>>,
         kind = "accept" => orders[o].status # "searching" \/ orders[o].offered = None,
         kind = "pqueue" => pq[o].row # "polling",
         kind = "parallel_eta" => orders[o].status # "parallel_assigned" \/ orders[o].etaSet,
         kind = "driver_chat" => orders[o].status # "chat_search",
         kind # "route_parallel_offer"
  PROVE  Handed
<1> DEFINE r == Expired(orders[o], kind)
<1>1. orders[o] \in OrderRecord
  BY DEF TypeOK
<1>2. /\ r.status = orders[o].status /\ r.driver = orders[o].driver
      /\ r.parallel = orders[o].parallel /\ r.offered = orders[o].offered
      /\ r.routeDriver = orders[o].routeDriver /\ r.etaSet = orders[o].etaSet
      /\ r.fallback = orders[o].fallback /\ r.jobs = orders[o].jobs \ {kind}
  BY <1>1 DEF Expired, OrderRecord
<1> HIDE DEF r
<1>3. Held(orders[o], pq[o].row)
  BY DEF HandsInv, AllHeld
<1>4. Held(r, pq'[o].row)
  BY <1>2, <1>3 DEF Held, Timed
<1>5. SameDriver(orders[o], r) /\ Started(agenda', orders', pq')
  BY <1>2 DEF SameDriver, Started
<1>6. orders' = [orders EXCEPT ![o] = r] /\ \A p \in Order \ {o} : pq'[p].row = pq[p].row
  BY DEF r
<1> QED
  BY <1>2, <1>4, <1>5, <1>6, HandlerHands

\* The timers of one request.
LEMMA TimerHands ==
  ASSUME TypeOK, HandsInv, NEW o \in Order,
         \/ AcceptTimeout(o) \/ PollTimeout(o) \/ EtaTimeout(o)
         \/ ChatTimeout(o) \/ UnclaimedTimeout(o) \/ DeliveryTimeout(o)
  PROVE  Handed
<1> USE DEF Start
<1>1. /\ orders \in [Order -> OrderRecord] /\ pq \in [Order -> QueueRecord]
      /\ orders[o] \in OrderRecord
  BY DEF TypeOK
<1>2. AllHeld(orders, pq) /\ Held(orders[o], pq[o].row)
  BY DEF HandsInv, AllHeld
<1>4. CASE AcceptTimeout(o)
  <2>1. PICK d : d = orders[o].offered
    OBVIOUS
  <2>2. CASE ~(orders[o].status = "searching" /\ d # None)
    <3>1. /\ orders' = [orders EXCEPT ![o] = Expired(orders[o], "accept")]
          /\ agenda' = <<>> /\ UNCHANGED pq
      BY <1>1, <1>4, <2>1, <2>2 DEF AcceptTimeout, Expired
    <3> QED
      BY <2>1, <2>2, <3>1, ExpiredHands
  <2>3. CASE orders[o].status = "searching" /\ d # None
    <3>1. PICK r : r = Declined(orders[o])
      OBVIOUS
    <3>2. /\ orders' = [orders EXCEPT ![o] = r] /\ UNCHANGED pq
          /\ agenda' = <<Offer(o, {d}), Promote>>
      BY <1>4, <2>1, <2>3, <3>1 DEF AcceptTimeout
    <3>3. d \in Driver
      BY <1>1, <2>1, <2>3 DEF OrderRecord
    <3>4. orders[o].routeDriver = None /\ pq[o].row = "none"
      BY <1>1, <1>2, <2>1, <2>3, <3>3, OwnHeld
    <3>5. r.status = "searching" /\ r.offered = None /\ r.routeDriver = None
      BY <1>1, <2>3, <3>1, <3>4 DEF Declined, OrderRecord
    <3>6. Held(r, pq'[o].row)
      BY <3>2, <3>4, <3>5, AtRest DEF Candidate
    <3>7. orders'[o].routeDriver = None
      BY <1>1, <3>2, <3>5
    <3>8. Started(agenda', orders', pq')
      <4>1. {d} \in SUBSET Driver
        BY <3>3
      <4> QED
        BY <3>2, <3>4, <3>7, <4>1, StartedCalls DEF Parked
    <3>9. SameDriver(orders[o], r)
      BY <2>3 DEF SameDriver, Active
    <3> QED
      BY <3>2, <3>5, <3>6, <3>8, <3>9, HandlerHands
  <2> QED
    BY <2>2, <2>3
<1>5. CASE PollTimeout(o)
  <2>1. CASE pq[o].row # "polling"
    <3>1. /\ orders' = [orders EXCEPT ![o] = Expired(orders[o], "pqueue")]
          /\ agenda' = <<>> /\ UNCHANGED pq
      BY <1>1, <1>5, <2>1 DEF PollTimeout, Expired
    <3> QED
      BY <2>1, <3>1, ExpiredHands
  <2>2. CASE pq[o].row = "polling"
    <3> DEFINE w == Withdraw(orders[o])
               r == [w EXCEPT !.status = "cancelled", !.fixing = FALSE]
    <3>1. orders' = [orders EXCEPT ![o] = r] /\ agenda' = <<PromoteUnflushed>>
      BY <1>5, <2>2 DEF PollTimeout
    <3>2. pq' = Unqueue(pq, o)
      BY <1>5, <2>2 DEF PollTimeout
    <3>3. w \in OrderRecord /\ w.offered = orders[o].offered /\ w.routeDriver = None
      BY <1>1, ClosedFields
    <3> HIDE DEF w
    <3>4. orders[o].offered = None /\ orders[o].status \in Candidate
      BY <1>2, <2>2 DEF Held
    <3>5. r.status = "cancelled" /\ r.offered = None /\ r.routeDriver = None
      BY <3>3, <3>4 DEF OrderRecord
    <3> HIDE DEF r
    <3>6. pq'[o].row = "none" /\ \A p \in Order \ {o} : pq'[p].row = pq[p].row
      BY <1>1, <3>2, RowsAfter
    <3>7. Held(r, pq'[o].row) /\ SameDriver(orders[o], r)
      BY <3>5, <3>6, AtRest DEF Candidate, SameDriver, Active
    <3>8. Started(agenda', orders', pq')
      BY <3>1, StartedCalls
    <3> QED
      BY <3>1, <3>5, <3>6, <3>7, <3>8, HandlerHands
  <2> QED
    BY <2>1, <2>2
<1>6. CASE EtaTimeout(o)
  <2>1. CASE ~(orders[o].status = "parallel_assigned" /\ ~orders[o].etaSet)
    <3>1. /\ orders' = [orders EXCEPT ![o] = Expired(orders[o], "parallel_eta")]
          /\ agenda' = <<>> /\ UNCHANGED pq
      BY <1>1, <1>6, <2>1 DEF EtaTimeout, Expired
    <3> QED
      BY <2>1, <3>1, ExpiredHands
  <2>2. CASE orders[o].status = "parallel_assigned" /\ ~orders[o].etaSet
    <3> DEFINE r == [Released(orders[o]) EXCEPT !.card = FALSE]
    <3>1. orders' = [orders EXCEPT ![o] = r] /\ agenda' = <<Promote>>
      BY <1>6, <2>2 DEF EtaTimeout
    <3>2. pq' = [Enqueue(pq, o) EXCEPT ![o].row = "waiting"]
      BY <1>6, <2>2 DEF EtaTimeout
    <3>3. /\ r.status = "queued" /\ r.driver = None /\ r.parallel = None
          /\ r.offered = orders[o].offered /\ r.routeDriver = orders[o].routeDriver
      BY <1>1, ReleasedFields
    <3> HIDE DEF r
    <3>4. orders[o].offered = None /\ orders[o].routeDriver = None
      BY <1>2, <2>2 DEF Held, Candidate
    <3>5. pq'[o].row = "waiting" /\ \A p \in Order \ {o} : pq'[p].row = pq[p].row
      BY <1>1, <3>2, RowsAfter
    <3>6. Held(r, pq'[o].row)
      BY <3>3, <3>4, <3>5, AtRest DEF Candidate
    <3>7. SameDriver(orders[o], r)
      BY <3>3 DEF SameDriver, Active
    <3>8. Started(agenda', orders', pq')
      BY <3>1, StartedCalls
    <3> QED
      BY <3>1, <3>3, <3>4, <3>5, <3>6, <3>7, <3>8, HandlerHands
  <2> QED
    BY <2>1, <2>2
<1>7. CASE ChatTimeout(o)
  <2>1. CASE orders[o].status # "chat_search"
    <3>1. /\ orders' = [orders EXCEPT ![o] = Expired(orders[o], "driver_chat")]
          /\ agenda' = <<>> /\ UNCHANGED pq
      BY <1>1, <1>7, <2>1 DEF ChatTimeout, Expired
    <3> QED
      BY <2>1, <3>1, ExpiredHands
  <2>2. CASE orders[o].status = "chat_search"
    <3> DEFINE r == [orders[o] EXCEPT !.status = "cancelled", !.fixing = FALSE,
                                      !.jobs = @ \ {"driver_chat"}]
    <3>1. orders' = [orders EXCEPT ![o] = r] /\ agenda' = <<>> /\ UNCHANGED pq
      BY <1>7, <2>2 DEF ChatTimeout
    <3>2. orders[o].offered = None /\ orders[o].routeDriver = None /\ pq[o].row = "none"
      BY <1>2, <2>2 DEF Held, Candidate
    <3>3. r.status = "cancelled" /\ r.offered = None /\ r.routeDriver = None
      BY <1>1, <3>2 DEF OrderRecord
    <3> HIDE DEF r
    <3>4. Held(r, pq'[o].row) /\ SameDriver(orders[o], r)
      BY <3>1, <3>2, <3>3, AtRest DEF Candidate, SameDriver, Active
    <3>5. Started(agenda', orders', pq')
      BY <3>1 DEF Started
    <3> QED
      BY <3>1, <3>3, <3>4, <3>5, HandlerHands
  <2> QED
    BY <2>1, <2>2
<1>8. CASE UnclaimedTimeout(o)
  <2>1. PICK b \in BOOLEAN : b = (/\ orders[o].driver = None /\ orders[o].parallel = None
                                  /\ orders[o].status \in Pending)
    OBVIOUS
  <2>2. CASE ~b
    <3>1. /\ orders' = [orders EXCEPT ![o] = Expired(orders[o], "dispatcher_unclaimed")]
          /\ agenda' = <<>> /\ UNCHANGED pq
      BY <1>1, <1>8, <2>1, <2>2 DEF UnclaimedTimeout, Expired
    <3> QED
      BY <3>1, ExpiredHands
  <2>3. CASE b
    <3> DEFINE w == Withdraw(orders[o])
               r == [w EXCEPT !.status = "cancelled", !.offered = None,
                              !.jobs = @ \ {"accept", "dispatcher_unclaimed"}]
    <3>1. orders' = [orders EXCEPT ![o] = r] /\ agenda' = <<>>
      BY <1>8, <2>1, <2>3 DEF UnclaimedTimeout
    <3>2. pq' = Unqueue(pq, o)
      BY <1>8, <2>1, <2>3 DEF UnclaimedTimeout
    <3>3. w \in OrderRecord /\ w.routeDriver = None
      BY <1>1, ClosedFields
    <3> HIDE DEF w
    <3>4. r.status = "cancelled" /\ r.offered = None /\ r.routeDriver = None
      BY <3>3 DEF OrderRecord
    <3> HIDE DEF r
    <3>5. pq'[o].row = "none" /\ \A p \in Order \ {o} : pq'[p].row = pq[p].row
      BY <1>1, <3>2, RowsAfter
    <3>6. Held(r, pq'[o].row) /\ SameDriver(orders[o], r)
      BY <3>4, <3>5, AtRest DEF Candidate, SameDriver, Active
    <3>7. Started(agenda', orders', pq')
      BY <3>1 DEF Started
    <3> QED
      BY <3>1, <3>4, <3>5, <3>6, <3>7, HandlerHands
  <2> QED
    BY <2>2, <2>3
<1>9. CASE DeliveryTimeout(o)
  <2>1. CASE ~Unanswered(orders[o])
    <3>1. /\ orders' = [orders EXCEPT ![o] = Expired(orders[o], "delivery")]
          /\ agenda' = <<>> /\ UNCHANGED pq
      BY <1>1, <1>9, <2>1 DEF DeliveryTimeout, Expired
    <3> QED
      BY <3>1, ExpiredHands
  <2>2. CASE Unanswered(orders[o])
    <3> DEFINE r == [orders[o] EXCEPT !.status = "cancelled", !.fixing = FALSE,
                                      !.jobs = @ \ {"delivery"}]
    <3>1. orders' = [orders EXCEPT ![o] = r] /\ UNCHANGED pq /\ agenda' = <<>>
      BY <1>1, <1>9, <2>2 DEF DeliveryTimeout, DeliveryOff
    <3>2. /\ r.status = "cancelled" /\ r.offered = orders[o].offered
          /\ r.routeDriver = orders[o].routeDriver
          /\ r.driver = orders[o].driver /\ r.parallel = orders[o].parallel
      BY <1>1 DEF OrderRecord
    <3> HIDE DEF r
    <3>3. Held(r, pq'[o].row)
      BY <1>2, <2>2, <3>1, <3>2 DEF Held, Timed, Candidate, Unanswered
    <3>4. SameDriver(orders[o], r) /\ Started(agenda', orders', pq')
      BY <3>1, <3>2 DEF SameDriver, Started, Active
    <3> QED
      BY <3>1, <3>2, <3>3, <3>4, HandlerHands
  <2> QED
    BY <2>1, <2>2
<1> QED
  BY <1>4, <1>5, <1>6, <1>7, <1>8, <1>9

\* The card for the road whose driver did not answer.
LEMMA RouteTimeoutHands ==
  ASSUME TypeOK, HandsInv, NEW o \in Order, RouteOfferTimeout(o)
  PROVE  Handed
<1>1. /\ orders \in [Order -> OrderRecord] /\ orders[o] \in OrderRecord
  BY DEF TypeOK
<1>2. AllHeld(orders, pq) /\ UNCHANGED pq
  BY DEF HandsInv, RouteOfferTimeout
<1> DEFINE r == orders[o]
           d == r.routeDriver
           c == CloseRoute(r)
           closed == [orders EXCEPT ![o] = c]
           os == [p \in Order |->
                    IF p = o THEN [closed[o] EXCEPT !.noAuto = @ \union {d}]
                    ELSE IF p = r.routeTrip /\ p \in Trips(orders, d)
                         THEN [closed[p] EXCEPT !.autoOff = TRUE]
                    ELSE closed[p]]
<1>3. \/ orders' = os /\ agenda' = <<Do("fallback", o), Promote>>
      \/ orders' = closed /\ agenda' = <<>>
  BY DEF RouteOfferTimeout, Start
<1>4. /\ c \in OrderRecord /\ c.status = r.status /\ c.driver = r.driver /\ c.parallel = r.parallel
      /\ c.offered = r.offered /\ c.etaSet = r.etaSet /\ c.fallback = r.fallback
      /\ c.routeDriver = None /\ r.jobs \ {"route_parallel_offer"} \subseteq c.jobs
  BY <1>1, ClosedFields
<1>5. closed[o] = c /\ \A p \in Order \ {o} : closed[p] = orders[p]
  BY <1>1
<1> HIDE DEF c, closed
<1>6. ASSUME NEW s, s.status = c.status, s.driver = c.driver, s.parallel = c.parallel,
             s.offered = c.offered, s.etaSet = c.etaSet, s.fallback = c.fallback,
             s.routeDriver = None, s.jobs = c.jobs
      PROVE  Held(s, pq[o].row) /\ SameDriver(orders[o], s)
  <2>1. Held(orders[o], pq[o].row)
    BY <1>2 DEF AllHeld
  <2> QED
    BY <1>4, <1>6, <2>1 DEF Held, Timed, SameDriver
<1>7. ASSUME NEW p \in Order \ {o}
      PROVE  /\ Held(orders[p], pq[p].row) /\ SameDriver(orders[p], orders[p])
             /\ \A s : s = [orders[p] EXCEPT !.autoOff = TRUE]
                  => /\ Held(s, pq[p].row) /\ SameDriver(orders[p], s)
                     /\ s.routeDriver = orders[p].routeDriver
  <2>1. Held(orders[p], pq[p].row) /\ orders[p] \in OrderRecord
    BY <1>1, <1>2 DEF AllHeld
  <2>2. ASSUME NEW s, s = [orders[p] EXCEPT !.autoOff = TRUE]
        PROVE  /\ s.status = orders[p].status /\ s.driver = orders[p].driver
               /\ s.parallel = orders[p].parallel /\ s.offered = orders[p].offered
               /\ s.etaSet = orders[p].etaSet /\ s.fallback = orders[p].fallback
               /\ s.routeDriver = orders[p].routeDriver /\ s.jobs = orders[p].jobs
    BY <2>1, <2>2 DEF OrderRecord
  <2> QED
    BY <2>1, <2>2 DEF Held, Timed, SameDriver
<1>8. /\ \A p \in Order : Held(orders'[p], pq[p].row) /\ SameDriver(orders[p], orders'[p])
      /\ orders'[o].routeDriver = None
      /\ \A p \in Order \ {o} : orders'[p].routeDriver = orders[p].routeDriver
  <2>1. CASE orders' = closed
    BY <1>4, <1>5, <1>6, <1>7, <2>1
  <2>2. CASE orders' = os
    <3>1. /\ orders'[o] = [c EXCEPT !.noAuto = @ \union {d}]
          /\ \A p \in Order \ {o} :
               orders'[p] = orders[p] \/ orders'[p] = [orders[p] EXCEPT !.autoOff = TRUE]
      BY <1>5, <2>2
    <3>2. ASSUME NEW s, s = [c EXCEPT !.noAuto = @ \union {d}]
          PROVE  /\ s.status = c.status /\ s.driver = c.driver /\ s.parallel = c.parallel
                 /\ s.offered = c.offered /\ s.etaSet = c.etaSet /\ s.fallback = c.fallback
                 /\ s.routeDriver = None /\ s.jobs = c.jobs
      BY <1>4, <3>2 DEF OrderRecord
    <3> HIDE DEF os
    <3>3. Held(orders'[o], pq[o].row) /\ SameDriver(orders[o], orders'[o]) /\ orders'[o].routeDriver = None
      BY <1>6, <3>1, <3>2
    <3> QED
      BY <1>7, <3>1, <3>3
  <2> QED
    BY <1>3, <2>1, <2>2
<1>9. AllHeld(orders', pq')
  <2>1. Apart(orders')
    BY <1>2, <1>8 DEF AllHeld, Apart
  <2> QED
    BY <1>2, <1>8, <2>1 DEF AllHeld
<1>10. Started(agenda', orders', pq')
  <2>1. agenda' = <<Do("fallback", o), Promote>> \/ agenda' = <<>>
    BY <1>3
  <2> HIDE DEF os, d, r
  <2>2. Started(<<Do("fallback", o), Promote>>, orders', pq') /\ Started(<<>>, orders', pq')
    BY StartedCalls
  <2> QED
    BY <2>1, <2>2
<1>11. Stacked(agenda') /\ AllReady(agenda', orders', pq')
  BY <1>10, StartReady DEF Started
<1> QED
  BY <1>8, <1>9, <1>11 DEF Handed, HandsInv

\* At the start no request is in anybody's hands and no call is to be made.
LEMMA HandsStart == ASSUME Init PROVE HandsInv
<1>1. \A o \in Order : Held(orders[o], pq[o].row) /\ orders[o].routeDriver = None
  BY DEF Init, FreshOrder, Held, Timed, Candidate
<1>2. AllHeld(orders, pq)
  BY <1>1 DEF AllHeld, Apart
<1>3. Stacked(agenda) /\ AllReady(agenda, orders, pq)
  BY StartReady DEF Init
<1> QED
  BY <1>2, <1>3 DEF HandsInv

\* Every step hands a request over as it should.
LEMMA StepHands ==
  ASSUME TypeOK, HandsInv, [Next]_vars
  PROVE  Handed
<1>1. CASE UNCHANGED vars
  <2>1. UNCHANGED <<orders, pq, agenda>>
    BY <1>1 DEF vars
  <2> QED
    BY <2>1 DEF Handed, HandsInv, SameDriver
<1>2. CASE DispatchStep
  BY <1>2, OfferHands, RoadHands, PromoteHands, ReleaseHands DEF DispatchStep
<1>3. CASE ResumedStep
  BY <1>3, ResumedHands
<1>4. CASE PassengerStep
  BY <1>4, PassengerHands DEF PassengerStep
<1>5. CASE LineStep \/ Recovery
  BY <1>5, LineHands
<1>6. CASE OfferStep
  BY <1>6, AnswerHands, ClaimHands DEF OfferStep
<1>7. CASE TripStep
  BY <1>7, TripHands DEF TripStep
<1>8. CASE ParallelStep
  BY <1>8, ParallelHands DEF ParallelStep
<1>9. CASE TimerStep
  BY <1>9, TimerHands, RouteTimeoutHands, LineHands DEF TimerStep
<1> QED
  BY <1>1, <1>2, <1>3, <1>4, <1>5, <1>6, <1>7, <1>8, <1>9 DEF Next

\* At every moment a request is in the hands its state says, and the calls that are
\* still to be made find it so: the transactions of order_service, queue_service and
\* parallel_orders, in whatever order they come.
THEOREM HandsHold == Spec => []HandsInv
<1>1. Init => HandsInv
  BY HandsStart
<1>2. TypeOK /\ HandsInv /\ [Next]_vars => HandsInv'
  BY StepHands DEF Handed
<1> QED
  BY <1>1, <1>2, TypesHold, PTL DEF Spec

\* No wait for a person's answer is without the timer that ends it, whatever
\* handlers and timers come before it: nothing cancels or loses it too early.
THEOREM WaitsHaveTimersHolds == Spec => []WaitsHaveTimers
<1>1. HandsInv => WaitsHaveTimers
  BY DEF HandsInv, AllHeld, Held, Timed, WaitsHaveTimers, Fires
<1> QED
  BY <1>1, HandsHold, PTL

\* A driver on the road looks at one card, and nobody else has or is shown its
\* request: notify_busy_drivers and the functions that offer or park a request
\* agree about it.
THEOREM CardIsAloneHolds == Spec => []CardIsAlone
<1>1. HandsInv => CardIsAlone
  <2> SUFFICES ASSUME HandsInv, NEW o \in Order, orders[o].routeDriver # None
               PROVE  /\ ~orders[o].fallback /\ orders[o].status # "searching"
                      /\ Unclaimed(orders[o])
                      /\ \A p \in Order \ {o} : orders[p].routeDriver # orders[o].routeDriver
    BY DEF CardIsAlone
  <2>1. Held(orders[o], pq[o].row) /\ Apart(orders)
    BY DEF HandsInv, AllHeld
  <2> QED
    BY <2>1 DEF Held, Apart, Unclaimed, Candidate
<1> QED
  BY <1>1, HandsHold, PTL

\* As long as a trip lasts it is the same driver's: no claim, reservation or late
\* call takes it from him.
THEOREM NoHandoverHolds == Spec => NoHandover
<1>1. TypeOK /\ HandsInv /\ [Next]_vars
        => [\A o \in Order :
              orders[o].status \in Active /\ orders'[o].status \in Active
                => orders'[o].driver = orders[o].driver]_vars
  <2>1. ASSUME TypeOK, HandsInv, [Next]_vars
        PROVE  \A o \in Order :
                 orders[o].status \in Active /\ orders'[o].status \in Active
                   => orders'[o].driver = orders[o].driver
    BY <2>1, StepHands DEF Handed, SameDriver
  <2> QED
    BY <2>1
<1> QED
  BY <1>1, HandsHold, TypesHold, PTL DEF Spec, NoHandover
=============================================================================
