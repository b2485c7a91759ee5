---------------------------- MODULE MCPassenger -----------------------------
(***************************************************************************)
(* Small instances of Passenger.                                           *)
(***************************************************************************)
EXTENDS Passenger

\* One keyboard of each dialogue that only old keyboards still open.
OldScreens == {"old_main", "subscription", "cities", "order_type", "chat_old", "booking_old"}

\* He was shown one of the cards that can be answered late.
MaxCards == 1

\* Histories end with the first write to a closed request by a handler that is
\* late.
BoundedSteps ==
  /\ Cardinality(cards') <= MaxCards
  /\ \A o \in Order : stage[o] \in Closed => stage'[o] = stage[o]
=============================================================================
