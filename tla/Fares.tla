------------------------------- MODULE Fares -------------------------------
(***************************************************************************)
(* The waiting meter of one ride and its bill: bot/waiting_service.py, and *)
(* the buttons of bot/handlers.py that start, stop and freeze it.  A ride  *)
(* may outlive its driver: a broken car hands the order to the next one.   *)
(*                                                                         *)
(* The clock ticks Second times a second; the meter keeps whole seconds and*)
(* drops the rest of every window.  It lives in the order's row, so that a *)
(* restart between two presses changes nothing.  A button of a keyboard that was sent      *)
(* stays within reach: a reply that is retried late shows it again.        *)
(* Deliveries have no meter and are not here.                              *)
(***************************************************************************)
EXTENDS Integers

CONSTANTS
  Second,    \* ticks in a second
  Minute,    \* seconds in a minute
  Free,      \* free_waiting_minutes
  Rate,      \* price_per_waiting_minute
  MaxTime,   \* bound: the last tick
  MaxCars    \* bound: drivers whose car breaks down

ASSUME TimeAssumption ==
  Second \in Nat \ {0} /\ Minute \in Nat \ {0} /\ MaxTime \in Nat /\ MaxCars \in Nat
ASSUME TariffAssumption == Free \in Nat /\ Rate \in Nat

NULL == -1

\* The columns of the order that the meter reads and writes.
Order ==
  [status               : {"searching", "assigned", "arrived", "in_progress",
                           "completed", "cancelled"},
   waiting_started_at   : Nat \union {NULL},
   waiting_seconds      : Nat,
   ride_waiting_seconds : Nat,
   waiting_minutes      : Nat,
   waiting_cost         : Nat]

Active == {"assigned", "arrived", "in_progress"}

\* The keyboards of a ride and the buttons on them.
Board == {"assigned", "arrived", "driving", "waiting"}
ButtonsOf ==
  [board \in Board |->
     CASE board = "assigned" -> {"arrived"}
       [] board = "arrived"  -> {"seated"}
       [] board = "driving"  -> {"finish", "waiting_start"}
       [] board = "waiting"  -> {"finish", "waiting_stop"}]

VARIABLES
  now,     \* the clock
  order,   \* the row
  boards,  \* keyboards the driver of the ride has been sent
  asked,   \* his dialogue is in D_FINISH_PRICE
  cars,    \* cars that broke down
  really   \* what happens in the street, kept by no code: where the driver
           \* waits and since when, the whole seconds of the earlier windows
           \* at the door and of those on the ride, and who is in the car

vars == <<now, order, boards, asked, cars, really>>

----------------------------------------------------------------------------
(* The meter. *)

is_running(o) == o.waiting_started_at # NULL

\* int(total_seconds()), and never less than nothing.
Elapsed(o) ==
  IF now > o.waiting_started_at THEN (now - o.waiting_started_at) \div Second ELSE 0

BrokenStartWaiting(o) == [o EXCEPT !.waiting_started_at = now]

start_waiting(o) ==
  IF is_running(o) THEN o ELSE [o EXCEPT !.waiting_started_at = now]

stop_waiting(o) ==
  IF ~is_running(o) THEN o
  ELSE [o EXCEPT !.waiting_seconds = @ + Elapsed(o),
                 !.ride_waiting_seconds =
                   IF o.status = "in_progress" THEN @ + Elapsed(o) ELSE @,
                 !.waiting_started_at = NULL]

current_seconds(o) ==
  o.waiting_seconds + (IF is_running(o) THEN Elapsed(o) ELSE 0)

current_ride_seconds(o) ==
  o.ride_waiting_seconds
    + (IF o.status = "in_progress" /\ is_running(o) THEN Elapsed(o) ELSE 0)

\* Python's round(): to the nearest, and of two to the even one.
Rounded(seconds) ==
  LET whole == seconds \div Minute
      half  == 2 * (seconds % Minute)
  IN  IF half > Minute \/ (half = Minute /\ whole % 2 = 1) THEN whole + 1 ELSE whole

Over(minutes) == IF minutes > Free THEN minutes - Free ELSE 0

\* _cost_for: the minutes and their price.
CostFor(total, ridden) ==
  LET ride   == IF ridden < total THEN ridden ELSE total
      before == Rounded(total - ride)
  IN  [minutes |-> before + Rounded(ride),
       cost    |-> Rate * (Over(before) + Over(Rounded(ride)))]

snapshot(o) == CostFor(current_seconds(o), current_ride_seconds(o))

\* finalize and the end of the trip, as driver_complete_ride orders them.
BrokenFreeze(o) ==
  LET stopped == stop_waiting([o EXCEPT !.status = "completed"])
      bill    == CostFor(stopped.waiting_seconds, stopped.ride_waiting_seconds)
  IN  [stopped EXCEPT !.waiting_minutes = bill.minutes, !.waiting_cost = bill.cost]

Freeze(o) ==
  LET stopped == stop_waiting(o)
      bill    == CostFor(stopped.waiting_seconds, stopped.ride_waiting_seconds)
  IN  [stopped EXCEPT !.waiting_minutes = bill.minutes, !.waiting_cost = bill.cost,
                      !.status = "completed"]

\* driver_seated closes the window of the arrival before the ride begins.
BrokenBoard(o) == stop_waiting([o EXCEPT !.status = "in_progress"])

BoardPassenger(o) == [stop_waiting(o) EXCEPT !.status = "in_progress"]

----------------------------------------------------------------------------
(* The driver's buttons. *)

Init ==
  /\ now = 0
  /\ order = [status |-> "assigned", waiting_started_at |-> NULL, waiting_seconds |-> 0,
              ride_waiting_seconds |-> 0, waiting_minutes |-> 0, waiting_cost |-> 0]
  /\ boards = {"assigned"}
  /\ asked = FALSE
  /\ cars = 0
  /\ really = [waits |-> "no", since |-> 0, door |-> 0, ride |-> 0,
               aboard |-> FALSE, plain |-> TRUE]

\* Whole seconds that he has waited in a place, and the street once he begins to
\* wait there, or no longer waits.
Lasts(place) == IF really.waits = place THEN (now - really.since) \div Second ELSE 0
AtDoor == really.door + Lasts("door")
OnRide == really.ride + Lasts("ride")

Waits(place) ==
  IF really.waits = place THEN really ELSE [really EXCEPT !.waits = place, !.since = now]

Rests == [really EXCEPT !.waits = "no", !.door = AtDoor, !.ride = OnRide]

\* _driver_ride_kb
RideBoard(o) ==
  IF o.status # "in_progress" THEN o.status
  ELSE IF is_running(o) THEN "waiting" ELSE "driving"

Pressed(button) ==
  /\ order.status \in Active
  /\ \E board \in boards : button \in ButtonsOf[board]

Becomes(o) == order' = o /\ boards' = boards \union {RideBoard(o)}

\* «Подъехал».  Nothing in the handler asks what stage the trip is at.
DriverArrived ==
  /\ Pressed("arrived")
  /\ Becomes(start_waiting([order EXCEPT !.status = "arrived"]))
  /\ asked' = FALSE
  /\ really' = IF really.aboard THEN [really EXCEPT !.plain = FALSE]
               ELSE Waits("door")
  /\ UNCHANGED <<now, cars>>

\* «Пассажир сел».
DriverSeated ==
  /\ Pressed("seated")
  /\ Becomes(BoardPassenger(order))
  /\ asked' = FALSE
  /\ really' = [Rests EXCEPT !.aboard = TRUE]
  /\ UNCHANGED <<now, cars>>

\* «Ожидание»: refused unless the ride has begun.
WaitingStart ==
  /\ Pressed("waiting_start")
  /\ order.status = "in_progress"
  /\ Becomes(start_waiting(order))
  /\ really' = Waits("ride")
  /\ UNCHANGED <<now, asked, cars>>

\* «Продолжить поездку».
WaitingStop ==
  /\ Pressed("waiting_stop")
  /\ Becomes(stop_waiting(order))
  /\ really' = Rests
  /\ UNCHANGED <<now, asked, cars>>

\* «Завершить»: the price is asked for; the meter runs on.
FinishPrompt ==
  /\ Pressed("finish")
  /\ asked' = TRUE
  /\ UNCHANGED <<now, order, boards, cars, really>>

\* A price within the limits ends the ride; any other text is refused.
CompleteRide ==
  /\ order.status \in Active
  /\ asked
  /\ order' = Freeze(order)
  /\ asked' = FALSE
  /\ really' = Rests
  /\ UNCHANGED <<now, boards, cars>>

\* The car breaks down: the order goes to the next driver with the row of its
\* meter as it is, a window that is running included.
CarFails ==
  /\ order.status \in Active
  /\ cars < MaxCars
  /\ cars' = cars + 1
  /\ order' = [order EXCEPT !.status = "searching"]
  /\ boards' = {}
  /\ asked' = FALSE
  /\ really' = [Rests EXCEPT !.aboard = FALSE, !.plain = @ /\ ~is_running(order)]
  /\ UNCHANGED now

\* The next driver takes the order.
Taken ==
  /\ order.status = "searching"
  /\ order' = [order EXCEPT !.status = "assigned"]
  /\ boards' = {"assigned"}
  /\ UNCHANGED <<now, asked, cars, really>>

\* Any of the ways in which a trip or a search is called off.
CalledOff ==
  /\ order.status \in Active \union {"searching"}
  /\ order' = [order EXCEPT !.status = "cancelled"]
  /\ asked' = FALSE
  /\ really' = Rests
  /\ UNCHANGED <<now, boards, cars>>

Tick ==
  /\ now < MaxTime
  /\ now' = now + 1
  /\ UNCHANGED <<order, boards, asked, cars, really>>

Next ==
  \/ DriverArrived \/ DriverSeated \/ WaitingStart \/ WaitingStop
  \/ FinishPrompt \/ CompleteRide \/ CarFails \/ Taken \/ CalledOff \/ Tick

Spec == Init /\ [][Next]_vars

----------------------------------------------------------------------------
TypeOK ==
  /\ now \in Nat
  /\ order \in Order
  /\ boards \subseteq Board
  /\ asked \in BOOLEAN
  /\ cars \in Nat
  /\ really \in [waits : {"no", "door", "ride"}, since : Nat, door : Nat, ride : Nat,
                 aboard : BOOLEAN, plain : BOOLEAN]

(* No whole second of a stretch of waiting is lost to the meter, in whatever *)
(* order the driver presses his buttons and through a change of driver: what *)
(* the row holds, the window that runs included, is at least what he waited. *)
NoWaitIsLost ==
  order.status # "cancelled" => current_seconds(order) >= AtDoor + OnRide

(* What a stretch of waiting costs, said without the formula of the code:    *)
(* the whole minutes nearest to it, the even number if two are equally near, *)
(* less the free ones.                                                       *)
Price(seconds) ==
  LET Far(m) == IF Minute * m > seconds THEN Minute * m - seconds ELSE seconds - Minute * m
      Near   == {m \in 0..(seconds + 1) : \A k \in 0..(seconds + 1) : Far(m) <= Far(k)}
      whole  == CHOOSE m \in Near : m % 2 = 0 \/ Near = {m}
  IN  Rate * (IF whole <= Free THEN 0 ELSE whole - Free)

(* The bill is that of the waiting that took place, a whole number of        *)
(* seconds each time: the one before the passenger got in and the one during *)
(* the ride each with its own free minutes, however many windows they were   *)
(* made of, both while the meter runs and once it is frozen.  This leaves    *)
(* out what the code gets wrong: «Подъехал» pressed again with the passenger *)
(* aboard, and a car that breaks down while a window runs.                   *)
BillIsFair ==
  really.plain /\ order.status # "cancelled" =>
    LET fair == Price(AtDoor) + Price(OnRide)
    IN  IF order.status = "completed" THEN order.waiting_cost = fair
        ELSE snapshot(order).cost = fair

(* What the ride is closed with is what the driver would have been shown at  *)
(* that moment, whatever happened before: finish_prompt reads the meter on   *)
(* the fly, completion stops it and works from the columns.                  *)
FrozenIsShown ==
  [][order.status \in Active /\ order'.status = "completed" =>
       /\ order'.waiting_cost = snapshot(order).cost
       /\ order'.waiting_minutes = snapshot(order).minutes]_vars
=============================================================================
