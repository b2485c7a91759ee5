----------------------------- MODULE MCOverlaps -----------------------------
(***************************************************************************)
(* The instance of Overlaps: the values and the view of MCRides.           *)
(***************************************************************************)
EXTENDS Overlaps, MCRides

\* A late answer changes some fields of a request, and brings back the others.
Pressed(o) ==
  IF \E d \in Driver : pressed[d] = o
  THEN <<orders[o].confirmed, orders[o].etaSet, orders[o].parallel>>
  ELSE <<>>

OverlapView == <<View, [o \in Order |-> Pressed(o)], pressed, overtaken>>

\* After its first late answer, a history has no other.
AllButAnswers == Kind \ {"answer"}
============================================================================
