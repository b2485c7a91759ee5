------------------------------ MODULE Bookings ------------------------------
(***************************************************************************)
(* Long trips that are booked ahead: bot/booking_service.py and the        *)
(* booking handlers of bot/handlers.py.  A booking is posted to the chat   *)
(* of requests, taken there by a driver, given back, called off, reminded  *)
(* of half an hour before its time, and becomes a trip when its driver     *)
(* departs.                                                                *)
(*                                                                         *)
(* Every handler locks the booking's row before it looks at it, so that it *)
(* is one step.  Only the dispatch of ordinary requests, see Rides and      *)
(* Overlaps, chooses a driver without a lock on what he does: it is two    *)
(* steps, between which he may depart.                                     *)
(*                                                                         *)
(* The timer that is to expire a booking nobody takes is     *)
(* never set: _broadcast_booking_to_driver_chat raises an AttributeError   *)
(* when it reads CHAT_UNCLAIMED_TIMEOUT_SECONDS, which booking_service     *)
(* does not define, after all else is done.                                *)
(***************************************************************************)
EXTENDS Fleet, Naturals

CONSTANTS
  Booking,     \* bookings
  Desk         \* those that a dispatcher made

ASSUME DeskAssumption == Desk \subseteq Booking
ASSUME NoneAssumption == None \notin Driver

\* "none" before it is made; "gone" when its row is deleted.
BookingRecord ==
  [status        : {"none", "pending", "assigned", "driver_en_route", "gone"},
   driver        : Driver \union {None},
   reminder_sent : BOOLEAN,
   trip          : {"none", "open", "over"},   \* the order of order_id
   rider         : Driver \union {None},       \* and its driver_id
   cards         : Nat]                        \* posts with a «take» button

VARIABLES
  fleet,
  booking,
  riding,    \* drivers on a trip that was not booked
  offer,     \* per driver: is an ordinary request shown to him, or is he chosen
             \* for one by a transaction that has yet to write it
  near,      \* bookings whose time is at most half an hour away
  told,      \* bookings whose present driver has been reminded, kept by no code
  debts      \* bookings that made a false call

vars == <<fleet, booking, riding, offer, near, told, debts>>

NoBooking == [status |-> "none", driver |-> None, reminder_sent |-> FALSE,
          trip |-> "none", rider |-> None, cards |-> 0]

Init ==
  /\ fleet = [d \in Driver |-> [status |-> "offline", onLine |-> TRUE, line |-> None,
                                row |-> "none", ahead |-> {}]]
  /\ booking = [b \in Booking |-> NoBooking]
  /\ riding = {}
  /\ offer = [d \in Driver |-> "none"]
  /\ near = {}
  /\ told = {}
  /\ debts = {}

TripsOf(d) == {b \in Booking : booking[b].trip = "open" /\ booking[b].rider = d}

\* active_order_for(as_driver=True)
OnTrip(d) == d \in riding \/ TripsOf(d) # {}

\* The router: with a card on his screen a driver may only answer it.
Hears(d) == offer[d] # "shown"

Gone(b) == [booking EXCEPT ![b].status = "gone", ![b].cards = 0,
                          ![b].trip = IF @ = "open" THEN "over" ELSE @]

----------------------------------------------------------------------------
(* Those who book.                                                          *)

\* passenger_booking_confirm: the booking is posted.
Book(b) ==
  /\ booking[b].status = "none"
  /\ booking' = [booking EXCEPT ![b].status = "pending", ![b].cards = @ + 1]
  /\ UNCHANGED <<fleet, riding, offer, near, told, debts>>

\* passenger_cancel_booking of a booking whose driver has not departed.
CancelBooking(b) ==
  /\ booking[b].status \in {"pending", "assigned"}
  /\ booking' = Gone(b)
  /\ UNCHANGED <<fleet, riding, offer, near, told, debts>>

\* After the departure it costs the passenger a false call, and the driver who
\* took the booking is put back into the queue, whatever he has been doing
\* since, and whoever has the trip now.
CancelDeparted(b) ==
  /\ booking[b].status = "driver_en_route"
  /\ b \notin Desk
  /\ booking' = Gone(b)
  /\ fleet' = RestorePosition(fleet, booking[b].driver)
  /\ debts' = debts \union {b}
  /\ UNCHANGED <<riding, offer, near, told>>

\* disp_cancel_booking: no false call.
DeskCancelsDeparted(b) ==
  /\ booking[b].status = "driver_en_route"
  /\ b \in Desk
  /\ booking' = Gone(b)
  /\ fleet' = RestorePosition(fleet, booking[b].driver)
  /\ UNCHANGED <<riding, offer, near, told, debts>>

----------------------------------------------------------------------------
(* Drivers.                                                                 *)

\* The claim forgets that another driver was reminded of the booking.
BrokenClaim(b, d) ==
  [booking EXCEPT ![b].driver = d, ![b].status = "assigned", ![b].cards = 0]

\* take_booking, and the post's button goes.
Claim(b, d) ==
  [booking EXCEPT ![b].driver = d, ![b].status = "assigned",
                  ![b].reminder_sent = FALSE, ![b].cards = 0]

\* driver_take_booking: any driver may, also on a trip.
TakeBooking(d, b) ==
  /\ Hears(d)
  /\ booking[b].status = "pending"
  /\ booking' = Claim(b, d)
  /\ told' = told \ {b}
  /\ UNCHANGED <<fleet, riding, offer, near, debts>>

\* The trip that he is on is not asked for.
BrokenMayDepart(d, b) ==
  Hears(d) /\ booking[b].driver = d /\ booking[b].status = "assigned"

MayDepart(d, b) ==
  Hears(d) /\ ~OnTrip(d) /\ booking[b].driver = d /\ booking[b].status = "assigned"

\* driver_depart_booking: the trip begins; no other request of the passenger's
\* is looked at.
Depart(d, b) ==
  /\ MayDepart(d, b)
  /\ booking' = [booking EXCEPT ![b].status = "driver_en_route", ![b].trip = "open",
                             ![b].rider = d]
  /\ fleet' = MarkAssigned(fleet, d)
  /\ UNCHANGED <<riding, offer, near, told, debts>>

\* The booking is open again and nobody is told.
BrokenReopened(b) == [booking EXCEPT ![b].status = "pending", ![b].driver = None]

Reopened(b) ==
  [booking EXCEPT ![b].status = "pending", ![b].driver = None, ![b].cards = @ + 1]

\* driver_cancel_booking: it is posted again, and he joins the free drivers, on
\* a trip or not.
GiveBack(d, b) ==
  /\ Hears(d)
  /\ booking[b].driver = d /\ booking[b].status = "assigned"
  /\ booking' = Reopened(b)
  /\ fleet' = ReturnToQueue(fleet, d)
  /\ UNCHANGED <<riding, offer, near, told, debts>>

----------------------------------------------------------------------------
(* Ordinary requests: see Rides, of which only what concerns the driver is    *)
(* kept.  The trip of a booking becomes one when its car breaks down.       *)

\* next_waiting_driver: on the line, without a trip or a card
Choose(d) ==
  /\ offer[d] = "none"
  /\ d \in VisiblyFree(fleet, {e \in Driver : OnTrip(e)})
  /\ offer' = [offer EXCEPT ![d] = "chosen"]
  /\ UNCHANGED <<fleet, booking, riding, near, told, debts>>

\* mark_offered: he may have departed meanwhile.
Show(d) ==
  /\ offer[d] = "chosen"
  /\ offer' = [offer EXCEPT ![d] = "shown"]
  /\ fleet' = MarkOffered(fleet, d)
  /\ UNCHANGED <<booking, riding, near, told, debts>>

\* What he is given: a request, or a trip whose car broke down.
Begins(d) ==
  /\ fleet' = MarkAssigned(fleet, d)
  /\ offer' = [offer EXCEPT ![d] = IF @ = "shown" THEN "none" ELSE @]
  /\ \/ riding' = riding \union {d} /\ UNCHANGED booking
     \/ \E b \in Booking :
          /\ booking[b].trip = "open" /\ booking[b].rider = None
          /\ booking' = [booking EXCEPT ![b].rider = d]
          /\ UNCHANGED riding
  /\ UNCHANGED <<near, told, debts>>

\* driver_accept, driver_take_pending, and driver_take_from_chat, which passes
\* his card on to the next driver.
Ride(d) == ~OnTrip(d) /\ Begins(d)

\* _release_stale_offer_for_active_ride: the router takes the card from a driver
\* who is on a trip before it looks at what he has sent.
ReleaseStaleOffer(d) ==
  /\ offer[d] = "shown" /\ OnTrip(d)
  /\ offer' = [offer EXCEPT ![d] = "none"]
  /\ fleet' = MarkAssigned(fleet, d)
  /\ UNCHANGED <<booking, riding, near, told, debts>>

\* He refuses, its time is over, it is cancelled; or nothing comes of the choice.
OfferEnds(d) ==
  /\ \/ /\ offer[d] = "shown"
        /\ fleet' \in {ReleaseOffer(fleet, d), SetAway(fleet, d), LeaveQueue(fleet, d)}
     \/ /\ offer[d] = "chosen"
        /\ UNCHANGED fleet
  /\ offer' = [offer EXCEPT ![d] = "none"]
  /\ UNCHANGED <<booking, riding, near, told, debts>>

----------------------------------------------------------------------------
(* Trips.                                                                   *)

\* A request that he has reserved on the road begins when his trip ends.
Ended(d, back) ==
  \/ riding' = riding \ {d} /\ fleet' = back
  \/ riding' = riding \union {d} /\ fleet' = MarkAssigned(fleet, d)

\* driver_complete_ride and mark_completed_for_order.
Complete(b) ==
  LET d == booking[b].rider IN
  /\ booking[b].trip = "open" /\ d # None /\ Hears(d)
  /\ booking' = Gone(b)
  /\ Ended(d, SetAway(fleet, d))
  /\ UNCHANGED <<offer, near, told, debts>>

\* driver_cancel_active, reason "car": the trip is for another driver, the
\* booking remains with the first.
CarFails(b) ==
  LET d == booking[b].rider IN
  /\ booking[b].trip = "open" /\ d # None /\ Hears(d)
  /\ booking' = [booking EXCEPT ![b].rider = None]
  /\ fleet' = SetAway(fleet, d)
  /\ UNCHANGED <<riding, offer, near, told, debts>>

\* The trip ends otherwise; nothing looks for its booking, which stays as if
\* the driver were still on his way.
CalledOff(b) ==
  LET d == booking[b].rider IN
  /\ booking[b].trip = "open"
  /\ booking' = [booking EXCEPT ![b].trip = "over"]
  /\ IF d = None THEN UNCHANGED <<fleet, riding>>
     ELSE \E back \in {SetAway(fleet, d), RestorePosition(fleet, d)} : Ended(d, back)
  /\ UNCHANGED <<offer, near, told, debts>>

\* A trip that was not booked.
RideOver(d) ==
  /\ d \in riding
  /\ Ended(d, SetAway(fleet, d))
  /\ UNCHANGED <<booking, offer, near, told, debts>>

\* He takes his place in the queue.
ComeBack(d) ==
  /\ Hears(d) /\ ~OnTrip(d)
  /\ fleet' = JoinQueue(fleet, d)
  /\ UNCHANGED <<booking, riding, offer, near, told, debts>>

----------------------------------------------------------------------------
(* Time.                                                                    *)

TimeComes(b) ==
  /\ b \notin near
  /\ near' = near \union {b}
  /\ UNCHANGED <<fleet, booking, riding, offer, told, debts>>

\* One row of _send_due_reminders; those that are locked are left to the next
\* round, half a minute later.
Remind(b) ==
  /\ booking[b].status = "assigned"
  /\ b \in near
  /\ ~booking[b].reminder_sent
  /\ booking' = [booking EXCEPT ![b].reminder_sent = TRUE]
  /\ told' = told \union {b}
  /\ UNCHANGED <<fleet, riding, offer, near, debts>>

Next ==
  \/ \E b \in Booking :
       \/ Book(b) \/ CancelBooking(b) \/ CancelDeparted(b) \/ DeskCancelsDeparted(b)
       \/ Complete(b) \/ CarFails(b) \/ CalledOff(b) \/ TimeComes(b) \/ Remind(b)
       \/ \E d \in Driver : TakeBooking(d, b) \/ Depart(d, b) \/ GiveBack(d, b)
  \/ \E d \in Driver :
       \/ Choose(d) \/ Show(d) \/ OfferEnds(d) \/ ReleaseStaleOffer(d)
       \/ Ride(d) \/ RideOver(d) \/ ComeBack(d)

Spec == Init /\ [][Next]_vars

\* The reminder thread comes round every half a minute.
FairSpec == Spec /\ \A b \in Booking : WF_vars(Remind(b))

----------------------------------------------------------------------------
TypeOK ==
  /\ fleet \in Fleets
  /\ booking \in [Booking -> BookingRecord]
  /\ riding \subseteq Driver
  /\ offer \in [Driver -> {"none", "chosen", "shown"}]
  /\ near \subseteq Booking /\ told \subseteq Booking /\ debts \subseteq Booking

(* The chat shows one post with a «take» button for a booking that has no    *)
(* driver, and none for any other: through a claim, a driver who gives the   *)
(* booking back, another who takes it, and its end by either side.           *)
NoticeFollowsBooking ==
  \A b \in Booking : booking[b].cards = IF booking[b].status = "pending" THEN 1 ELSE 0

(* A driver with bookings is never on two trips, though he may take any      *)
(* number of bookings ahead and departs on them when he likes.               *)
OneTrip ==
  \A d \in Driver :
    /\ d \in riding => TripsOf(d) = {}
    /\ \A b, c \in TripsOf(d) : b = c

(* Whoever has the booking half an hour before its time is reminded of it,   *)
(* also if another driver was reminded and gave it back.                     *)
RemindersReach ==
  \A b \in Booking :
    (booking[b].status = "assigned" /\ b \in near)
      ~> (b \in told \/ booking[b].status # "assigned")
=============================================================================
