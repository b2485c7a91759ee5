----------------------------- MODULE MCBookings -----------------------------
(***************************************************************************)
(* Two drivers, a passenger's booking and a dispatcher's.                  *)
(***************************************************************************)
EXTENDS Bookings

(* What tells states apart: of a driver the displayed status and whether he *)
(* has a row, which is all that the actions ask of the queue, and nothing of*)
(* a booking that is gone.                                                  *)
Seen ==
  << [d \in Driver |-> <<fleet[d].status, HasRow(fleet, d), offer[d], d \in riding>>],
     [b \in Booking |->
        IF booking[b].status = "gone" THEN <<>>
        ELSE <<booking[b], b \in near, b \in told>>] >>
=============================================================================
