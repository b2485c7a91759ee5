-------------------------- MODULE BookingsProofs --------------------------
(***************************************************************************)
(* For any drivers and bookings: the post in the chat follows the booking, *)
(* and a driver is on one trip at a time.  Neither is inductive alone: a   *)
(* booking that is taken or reminded of must be known to have no trip, or  *)
(* the step would say something of the trip.                               *)
(***************************************************************************)
EXTENDS Bookings, TLAPS

\* What one row of bookings must satisfy.
Sound(r) ==
  /\ r \in BookingRecord
  /\ r.cards = IF r.status = "pending" THEN 1 ELSE 0
  /\ r.trip = "open" => r.status = "driver_en_route"

BookInv ==
  /\ DOMAIN booking = Booking
  /\ booking = [b \in Booking |-> booking[b]]
  /\ \A b \in Booking : Sound(booking[b])
  /\ riding \subseteq Driver
  /\ OneTrip

\* A row whose trip is on nobody's way can be written by any step, also one
\* that gives its driver another.
LEMMA Written ==
  ASSUME BookInv, NEW b \in Booking, NEW r,
         booking' = [booking EXCEPT ![b] = r], Sound(r),
         r.trip = "open" => r.rider = None,
         riding' \subseteq Driver,
         \A d \in riding' : d \in riding \/ TripsOf(d) \subseteq {b}
  PROVE  BookInv'
<1>1. /\ DOMAIN booking' = Booking
      /\ booking' = [c \in Booking |-> booking'[c]]
      /\ \A c \in Booking : booking'[c] = IF c = b THEN r ELSE booking[c]
  BY DEF BookInv
<1>2. \A c \in Booking : Sound(booking'[c])
  BY <1>1 DEF BookInv
<1>3. \A d \in Driver : TripsOf(d)' \subseteq TripsOf(d) \ {b}
  BY <1>1, NoneAssumption DEF TripsOf
<1>4. OneTrip'
  <2>1. ASSUME NEW d \in Driver, d \in riding' PROVE TripsOf(d)' = {}
    BY <1>3, <2>1 DEF BookInv, OneTrip
  <2>2. ASSUME NEW d \in Driver PROVE \A c, e \in TripsOf(d)' : c = e
    BY <1>3 DEF BookInv, OneTrip
  <2> QED BY <2>1, <2>2 DEF OneTrip
<1> QED BY <1>1, <1>2, <1>4 DEF BookInv

\* A driver without a trip may be given one.
LEMMA Mounted ==
  ASSUME BookInv, NEW d \in Driver, ~OnTrip(d), NEW b \in Booking, NEW r,
         booking' = [booking EXCEPT ![b] = r], Sound(r), r.rider = d,
         riding' = riding
  PROVE  BookInv'
<1>0. d \notin riding /\ TripsOf(d) = {}
  BY DEF OnTrip
<1>1. /\ DOMAIN booking' = Booking
      /\ booking' = [c \in Booking |-> booking'[c]]
      /\ \A c \in Booking : booking'[c] = IF c = b THEN r ELSE booking[c]
  BY DEF BookInv
<1>2. \A c \in Booking : Sound(booking'[c])
  BY <1>1 DEF BookInv
<1>3. \A e \in Driver : IF e = d THEN TripsOf(e)' \subseteq {b}
                        ELSE TripsOf(e)' \subseteq TripsOf(e)
  BY <1>0, <1>1 DEF TripsOf
<1>4. OneTrip'
  BY <1>0, <1>3 DEF BookInv, OneTrip
<1> QED BY <1>1, <1>2, <1>4 DEF BookInv

\* Whoever has the trip of a booking has no other.
LEMMA OnlyTrip ==
  ASSUME BookInv, NEW b \in Booking, booking[b].trip = "open", booking[b].rider # None
  PROVE  /\ booking[b].rider \in Driver
         /\ TripsOf(booking[b].rider) \subseteq {b}
<1>1. booking[b].rider \in Driver
  BY DEF BookInv, Sound, BookingRecord
<1>2. b \in TripsOf(booking[b].rider)
  BY DEF TripsOf
<1> QED BY <1>1, <1>2 DEF BookInv, OneTrip

\* Rows that handlers write.
LEMMA SoundRows ==
  ASSUME NEW r \in BookingRecord, Sound(r)
  PROVE  /\ \A t \in {"none", "over"} :
              Sound([r EXCEPT !.status = "gone", !.cards = 0, !.trip = t])
         /\ r.status = "none" => Sound([r EXCEPT !.status = "pending", !.cards = 1])
         /\ r.status = "pending" =>
              \A d \in Driver : Sound([r EXCEPT !.driver = d, !.status = "assigned",
                                                !.reminder_sent = FALSE, !.cards = 0])
         /\ r.status = "assigned" =>
              \A d \in Driver : Sound([r EXCEPT !.status = "driver_en_route",
                                                !.trip = "open", !.rider = d])
         /\ r.status = "assigned" =>
              Sound([r EXCEPT !.status = "pending", !.driver = None, !.cards = 1])
         /\ Sound([r EXCEPT !.trip = "over"])
         /\ Sound([r EXCEPT !.reminder_sent = TRUE])
         /\ \A d \in Driver \union {None} : Sound([r EXCEPT !.rider = d])
<1>1. \A t \in {"none", "over"} :
        Sound([r EXCEPT !.status = "gone", !.cards = 0, !.trip = t])
  BY DEF Sound, BookingRecord
<1>2. r.status = "none" => Sound([r EXCEPT !.status = "pending", !.cards = 1])
  BY DEF Sound, BookingRecord
<1>3. r.status = "pending" =>
        \A d \in Driver : Sound([r EXCEPT !.driver = d, !.status = "assigned",
                                          !.reminder_sent = FALSE, !.cards = 0])
  BY DEF Sound, BookingRecord
<1>4. r.status = "assigned" =>
        \A d \in Driver : Sound([r EXCEPT !.status = "driver_en_route",
                                          !.trip = "open", !.rider = d])
  BY DEF Sound, BookingRecord
<1>5. r.status = "assigned" =>
        Sound([r EXCEPT !.status = "pending", !.driver = None, !.cards = 1])
  BY DEF Sound, BookingRecord
<1>6. Sound([r EXCEPT !.trip = "over"])
  BY DEF Sound, BookingRecord
<1>7. Sound([r EXCEPT !.reminder_sent = TRUE])
  BY DEF Sound, BookingRecord
<1>8. \A d \in Driver \union {None} : Sound([r EXCEPT !.rider = d])
  BY DEF Sound, BookingRecord
<1> QED BY <1>1, <1>2, <1>3, <1>4, <1>5, <1>6, <1>7, <1>8

\* The first bookings.
LEMMA InitBooked == Init => BookInv
<1> SUFFICES ASSUME Init PROVE BookInv
  OBVIOUS
<1>1. Sound(NoBooking)
  BY DEF Sound, NoBooking, BookingRecord
<1>2. booking = [b \in Booking |-> NoBooking] /\ riding = {}
  BY DEF Init
<1>3. NoBooking.trip # "open"
  BY DEF NoBooking
<1>4. OneTrip
  BY <1>2, <1>3 DEF OneTrip, TripsOf
<1> QED BY <1>1, <1>2, <1>4 DEF BookInv

\* The end of a booking.
LEMMA GoneBooked ==
  ASSUME BookInv, NEW b \in Booking, booking' = Gone(b), riding' \subseteq Driver,
         \A d \in riding' : d \in riding \/ TripsOf(d) \subseteq {b}
  PROVE  BookInv'
<1> DEFINE t == IF booking[b].trip = "open" THEN "over" ELSE booking[b].trip
           r == [booking[b] EXCEPT !.status = "gone", !.cards = 0, !.trip = t]
<1>1. Sound(booking[b]) /\ booking[b] \in BookingRecord
  BY DEF BookInv, Sound
<1>2. t \in {"none", "over"}
  BY <1>1 DEF BookingRecord
<1>3. booking' = [booking EXCEPT ![b] = r]
  BY DEF Gone
<1> HIDE DEF t
<1>4. Sound(r) /\ r.trip = t
  BY <1>1, <1>2, SoundRows DEF BookingRecord
<1> HIDE DEF r
<1> QED BY <1>2, <1>3, <1>4, Written

\* Every step keeps the bookings.
LEMMA StepBooked == BookInv /\ [Next]_vars => BookInv'
<1> SUFFICES ASSUME BookInv, [Next]_vars PROVE BookInv'
  OBVIOUS
<1>0. \A b \in Booking :
        /\ Sound(booking[b]) /\ booking[b] \in BookingRecord
        /\ booking[b].status # "driver_en_route" => booking[b].trip # "open"
        /\ booking[b].status = "pending" => booking[b].cards = 1
        /\ booking[b].status # "pending" => booking[b].cards = 0
  BY DEF BookInv, Sound
<1>1. ASSUME NEW b \in Booking, Book(b) PROVE BookInv'
  <2> DEFINE r == [booking[b] EXCEPT !.status = "pending", !.cards = 1]
  <2>1. booking[b].status = "none" /\ riding' = riding
    BY <1>1 DEF Book
  <2>2. booking' = [booking EXCEPT ![b] = r]
    <3>1. booking[b].cards + 1 = 1
      BY <1>0, <2>1
    <3>2. booking' = [booking EXCEPT ![b] = [booking[b] EXCEPT
                        !.status = "pending", !.cards = booking[b].cards + 1]]
      BY <1>1 DEF Book
    <3> QED BY <3>1, <3>2
  <2>3. Sound(r) /\ r.trip # "open"
    BY <1>0, <2>1, SoundRows DEF BookingRecord
  <2> HIDE DEF r
  <2> QED BY <2>1, <2>2, <2>3, Written DEF BookInv
<1>2. ASSUME NEW b \in Booking,
             CancelBooking(b) \/ CancelDeparted(b) \/ DeskCancelsDeparted(b)
      PROVE  BookInv'
  <2>1. booking' = Gone(b) /\ riding' = riding
    BY <1>2 DEF CancelBooking, CancelDeparted, DeskCancelsDeparted
  <2> QED BY <2>1, GoneBooked DEF BookInv
<1>3. ASSUME NEW b \in Booking, Complete(b) \/ CarFails(b) \/ CalledOff(b) PROVE BookInv'
  <2> DEFINE d == booking[b].rider
             r == [booking[b] EXCEPT !.trip = "over"]
             q == [booking[b] EXCEPT !.rider = None]
  <2>1. /\ riding' \subseteq Driver
        /\ \A e \in riding' : e \in riding \/ TripsOf(e) \subseteq {b}
    <3>1. \/ riding' = riding
          \/ /\ d # None /\ booking[b].trip = "open"
             /\ riding' \subseteq riding \union {d}
      BY <1>3 DEF Complete, CarFails, CalledOff, Ended
    <3> QED BY <3>1, OnlyTrip DEF BookInv
  <2>2. CASE Complete(b)
    <3>1. booking' = Gone(b)
      BY <2>2 DEF Complete
    <3> QED BY <2>1, <3>1, GoneBooked
  <2>3. CASE CarFails(b)
    <3>1. booking' = [booking EXCEPT ![b] = q]
      BY <2>3 DEF CarFails
    <3>2. Sound(q) /\ q.rider = None
      BY <1>0, SoundRows DEF BookingRecord
    <3> HIDE DEF q
    <3> QED BY <2>1, <3>1, <3>2, Written
  <2>4. CASE CalledOff(b)
    <3>1. booking' = [booking EXCEPT ![b] = r]
      BY <2>4 DEF CalledOff
    <3>2. Sound(r) /\ r.trip # "open"
      BY <1>0, SoundRows DEF BookingRecord
    <3> HIDE DEF r
    <3> QED BY <2>1, <3>1, <3>2, Written
  <2> QED BY <1>3, <2>2, <2>3, <2>4
<1>4. ASSUME NEW b \in Booking, Remind(b) PROVE BookInv'
  <2> DEFINE r == [booking[b] EXCEPT !.reminder_sent = TRUE]
  <2>1. booking' = [booking EXCEPT ![b] = r] /\ riding' = riding
    BY <1>4 DEF Remind
  <2>2. Sound(r) /\ r.trip # "open"
    BY <1>0, <1>4, SoundRows DEF BookingRecord, Remind
  <2> HIDE DEF r
  <2> QED BY <2>1, <2>2, Written DEF BookInv
<1>5. ASSUME NEW b \in Booking, NEW d \in Driver, TakeBooking(d, b) PROVE BookInv'
  <2> DEFINE r == [booking[b] EXCEPT !.driver = d, !.status = "assigned",
                                     !.reminder_sent = FALSE, !.cards = 0]
  <2>1. booking' = [booking EXCEPT ![b] = r] /\ riding' = riding
    BY <1>5 DEF TakeBooking, Claim
  <2>2. Sound(r) /\ r.trip # "open"
    BY <1>0, <1>5, SoundRows DEF BookingRecord, TakeBooking
  <2> HIDE DEF r
  <2> QED BY <2>1, <2>2, Written DEF BookInv
<1>6. ASSUME NEW b \in Booking, NEW d \in Driver, GiveBack(d, b) PROVE BookInv'
  <2> DEFINE r == [booking[b] EXCEPT !.status = "pending", !.driver = None, !.cards = 1]
  <2>1. booking' = [booking EXCEPT ![b] = r] /\ riding' = riding
    <3>1. booking[b].cards + 1 = 1
      BY <1>0, <1>6 DEF GiveBack
    <3>2. /\ booking' = [booking EXCEPT ![b] = [booking[b] EXCEPT
                           !.status = "pending", !.driver = None,
                           !.cards = booking[b].cards + 1]]
          /\ riding' = riding
      BY <1>6 DEF GiveBack, Reopened
    <3> QED BY <3>1, <3>2
  <2>2. Sound(r) /\ r.trip # "open"
    BY <1>0, <1>6, SoundRows DEF BookingRecord, GiveBack
  <2> HIDE DEF r
  <2> QED BY <2>1, <2>2, Written DEF BookInv
<1>7. ASSUME NEW b \in Booking, NEW d \in Driver, Depart(d, b) PROVE BookInv'
  <2> DEFINE r == [booking[b] EXCEPT !.status = "driver_en_route", !.trip = "open",
                                     !.rider = d]
  <2>1. /\ booking' = [booking EXCEPT ![b] = r] /\ riding' = riding
        /\ booking[b].status = "assigned" /\ ~OnTrip(d)
    BY <1>7 DEF Depart, MayDepart
  <2>2. Sound(r) /\ r.rider = d
    BY <1>0, <2>1, SoundRows DEF BookingRecord
  <2> HIDE DEF r
  <2> QED BY <2>1, <2>2, Mounted
<1>8. ASSUME NEW d \in Driver, Ride(d) PROVE BookInv'
  <2>1. ~OnTrip(d)
    BY <1>8 DEF Ride
  <2>2. CASE riding' = riding \union {d} /\ booking' = booking
    <3>1. \A e \in Driver : TripsOf(e)' = TripsOf(e)
      BY <2>2 DEF TripsOf
    <3>2. OneTrip'
      BY <2>1, <2>2, <3>1 DEF BookInv, OneTrip, OnTrip
    <3> QED BY <2>2, <3>2 DEF BookInv
  <2>3. ASSUME NEW b \in Booking, booking' = [booking EXCEPT ![b].rider = d],
               riding' = riding
        PROVE  BookInv'
    <3> DEFINE r == [booking[b] EXCEPT !.rider = d]
    <3>1. booking' = [booking EXCEPT ![b] = r]
      BY <2>3
    <3>2. Sound(r) /\ r.rider = d
      BY <1>0, SoundRows DEF BookingRecord
    <3> HIDE DEF r
    <3> QED BY <2>1, <2>3, <3>1, <3>2, Mounted
  <2> QED BY <1>8, <2>2, <2>3 DEF Ride, Begins
<1>9. ASSUME booking' = booking, riding' \subseteq riding PROVE BookInv'
  <2>1. \A e \in Driver : TripsOf(e)' = TripsOf(e)
    BY <1>9 DEF TripsOf
  <2>2. OneTrip'
    BY <1>9, <2>1 DEF BookInv, OneTrip
  <2> QED BY <1>9, <2>2 DEF BookInv
<1>10. ASSUME NEW d \in Driver,
              \/ Choose(d) \/ Show(d) \/ OfferEnds(d) \/ ReleaseStaleOffer(d)
              \/ RideOver(d) \/ ComeBack(d)
       PROVE  BookInv'
  BY <1>9, <1>10
  DEF Choose, Show, OfferEnds, ReleaseStaleOffer, RideOver, ComeBack, Ended
<1>11. ASSUME NEW b \in Booking, TimeComes(b) PROVE BookInv'
  BY <1>9, <1>11 DEF TimeComes
<1>12. CASE UNCHANGED vars
  BY <1>9, <1>12 DEF vars
<1> QED
  BY <1>1, <1>2, <1>3, <1>4, <1>5, <1>6, <1>7, <1>8, <1>10, <1>11, <1>12 DEF Next

\* A booking without a driver has one post in the chat, and no other has any,
\* whoever takes it, gives it back or calls it off.
THEOREM NoticeFollowsBookingHolds == Spec => []NoticeFollowsBooking
<1>1. BookInv => NoticeFollowsBooking
  BY DEF BookInv, Sound, NoticeFollowsBooking
<1> QED BY <1>1, InitBooked, StepBooked, PTL DEF Spec

\* A driver is never on two trips, though a request may be shown to him that was
\* chosen for him before he departed, and though the trip of a booking passes to
\* another driver when the car breaks down.
THEOREM OneTripHolds == Spec => []OneTrip
<1>1. BookInv => OneTrip
  BY DEF BookInv
<1> QED BY <1>1, InitBooked, StepBooked, PTL DEF Spec
=============================================================================
