---------------------------- MODULE FaresProofs ----------------------------
(***************************************************************************)
(* For every length of a minute, every grain of the clock, every tariff,   *)
(* any number of drivers and rides of any length: the meter loses no whole *)
(* second of a stretch of waiting, and the bill is the one the driver was  *)
(* shown, and a fair one.  A window that runs holds     *)
(* what has not been added to the columns yet; so the invariants say of    *)
(* the columns and the window together what they are worth: as much as the *)
(* waiting that took place (MeterInv), and, on a plain ride, that waiting, *)
(* each stretch in its own column (BillInv).                               *)
(***************************************************************************)
EXTENDS Fares, TLAPS

Street == [waits : {"no", "door", "ride"}, since : Nat, door : Nat, ride : Nat,
           aboard : BOOLEAN, plain : BOOLEAN]

\* Whoever waits has the meter running, at least since he began to wait, and what
\* it had by then is worth all that he had waited before.
Metered ==
  /\ is_running(order) => order.waiting_started_at <= now
  /\ really.waits # "no" =>
       /\ is_running(order)
       /\ order.waiting_started_at <= really.since /\ really.since <= now
  /\ order.status # "cancelled" =>
       IF really.waits = "no" THEN current_seconds(order) >= really.door + really.ride
       ELSE order.waiting_seconds + ((really.since - order.waiting_started_at) \div Second)
              >= really.door + really.ride

MeterInv == TypeOK /\ Metered

\* Whole parts of a number, and what is left.
LEMMA Division ==
  ASSUME NEW m \in Nat \ {0}, NEW s \in Nat
  PROVE  /\ s \div m \in Nat /\ s % m \in 0 .. (m - 1)
         /\ s = m * (s \div m) + (s % m)
  OBVIOUS

\* Whoever measures in two parts has no more whole seconds than who does it at once.
LEMMA Floors ==
  ASSUME NEW x \in Nat, NEW y \in Nat
  PROVE  /\ x \div Second \in Nat /\ y \div Second \in Nat
         /\ (x + y) \div Second >= (x \div Second) + (y \div Second)
<1>0. Second \in Nat \ {0}
  BY TimeAssumption
<1>2. PICK z \in Nat : z = x + y
  OBVIOUS
<1> DEFINE a == x \div Second
           b == y \div Second
           c == z \div Second
           q == z % Second
<1>1. /\ a \in Nat /\ x % Second \in Nat /\ x = Second * a + (x % Second)
      /\ b \in Nat /\ y % Second \in Nat /\ y = Second * b + (y % Second)
  BY <1>0, Division
<1>3. c \in Nat /\ q \in Nat /\ q < Second /\ x + y = Second * c + q
  <2>1. c \in Nat /\ q \in 0 .. (Second - 1) /\ z = Second * c + q
    BY <1>0, Division
  <2> HIDE DEF c, q
  <2> QED BY <1>0, <1>2, <2>1
<1> HIDE DEF a, b, c, q
<1>4. c >= a + b
  <2> SUFFICES ASSUME c < a + b PROVE FALSE
    BY <1>1, <1>3
  <2>1. PICK k \in Nat : a + b = c + 1 + k
    <3>1. a + b - c - 1 \in Nat /\ a + b = c + 1 + (a + b - c - 1)
      BY <1>1, <1>3
    <3> QED BY <3>1
  <2>2. /\ Second * (a + b) = Second * c + Second + Second * k
        /\ Second * (a + b) = Second * a + Second * b
        /\ {Second * k, Second * a, Second * b, Second * c} \subseteq Nat
    BY <1>0, <1>1, <1>3, <2>1
  <2> QED BY <1>0, <1>1, <1>3, <2>2
<1> QED BY <1>1, <1>2, <1>4 DEF a, b, c

\* What the street shows when the driver stops waiting.
LEMMA Resting ==
  ASSUME now \in Nat, really \in Street, really.waits # "no" => really.since <= now
  PROVE  /\ AtDoor \in Nat /\ OnRide \in Nat /\ AtDoor + OnRide >= really.door + really.ride
         /\ Rests \in Street /\ Rests.waits = "no"
         /\ Rests.door = AtDoor /\ Rests.ride = OnRide
         /\ Rests.aboard = really.aboard /\ Rests.plain = really.plain
<1> DEFINE w == (now - really.since) \div Second
<1>1. really.waits # "no" => w \in Nat
  <2> SUFFICES ASSUME really.waits # "no" PROVE w \in Nat
    OBVIOUS
  <2>1. now - really.since \in Nat
    BY DEF Street
  <2> QED BY <2>1, Floors
<1>2. /\ AtDoor = really.door + (IF really.waits = "door" THEN w ELSE 0)
      /\ OnRide = really.ride + (IF really.waits = "ride" THEN w ELSE 0)
  BY DEF AtDoor, OnRide, Lasts
<1> HIDE DEF w
<1>3. AtDoor \in Nat /\ OnRide \in Nat /\ AtDoor + OnRide >= really.door + really.ride
  BY <1>1, <1>2 DEF Street
<1>4. Rests = [really EXCEPT !.waits = "no", !.door = AtDoor, !.ride = OnRide]
  BY DEF Rests
<1> QED BY <1>3, <1>4 DEF Street

\* What it shows when he waits.
LEMMA Waiting ==
  ASSUME now \in Nat, really \in Street, NEW place \in {"door", "ride"}
  PROVE  /\ Waits(place) \in Street /\ Waits(place).waits = place
         /\ Waits(place).door = really.door /\ Waits(place).ride = really.ride
         /\ Waits(place).aboard = really.aboard /\ Waits(place).plain = really.plain
         /\ IF really.waits = place THEN Waits(place) = really
            ELSE Waits(place).since = now
BY DEF Waits, Street

\* Starting the meter changes nothing that has been counted, and leaves a window
\* that runs alone.
LEMMA StartMeter ==
  ASSUME now \in Nat, NEW o \in Order
  PROVE  LET s == start_waiting(o) IN
           /\ s \in Order
           /\ s.status = o.status
           /\ is_running(s)
           /\ s = o \/ (~is_running(o) /\ s.waiting_started_at = now)
           /\ (is_running(o) => o.waiting_started_at <= now) => s.waiting_started_at <= now
           /\ current_seconds(s) = current_seconds(o)
           /\ current_ride_seconds(s) = current_ride_seconds(o)
<1>1. CASE is_running(o)
  BY <1>1 DEF start_waiting
<1>2. CASE ~is_running(o)
  BY <1>2 DEF start_waiting, is_running, current_seconds, current_ride_seconds, Elapsed, Order, NULL
<1> QED BY <1>1, <1>2

\* The columns that a stop writes, and those that the end of a ride writes.
Stopped(o, total, ridden) ==
  [o EXCEPT !.waiting_seconds = total, !.ride_waiting_seconds = ridden,
            !.waiting_started_at = NULL]

Billed(o, minutes, cost) ==
  [o EXCEPT !.waiting_minutes = minutes, !.waiting_cost = cost, !.status = "completed"]

\* Each writes its own columns and no others.
LEMMA Columns ==
  ASSUME NEW o \in Order, NEW a, NEW b
  PROVE  /\ {a, b} \subseteq Nat => Stopped(o, a, b) \in Order
         /\ Stopped(o, a, b).status = o.status
         /\ Stopped(o, a, b).waiting_started_at = NULL
         /\ Stopped(o, a, b).waiting_seconds = a
         /\ Stopped(o, a, b).ride_waiting_seconds = b
         /\ {a, b} \subseteq Nat => Billed(o, a, b) \in Order
         /\ Billed(o, a, b).status = "completed"
         /\ Billed(o, a, b).waiting_started_at = o.waiting_started_at
         /\ Billed(o, a, b).waiting_seconds = o.waiting_seconds
         /\ Billed(o, a, b).waiting_minutes = a
         /\ Billed(o, a, b).waiting_cost = b
BY DEF Order, Stopped, Billed

\* A window that runs has a length.
LEMMA Elapses ==
  ASSUME now \in Nat, NEW o \in Order, is_running(o)
  PROVE  /\ Elapsed(o) \in Nat
         /\ o.waiting_started_at <= now =>
              Elapsed(o) = (now - o.waiting_started_at) \div Second
<1>1. o.waiting_started_at \in Nat
  BY DEF Order, is_running, NULL
<1>2. CASE now > o.waiting_started_at
  <2>1. now - o.waiting_started_at \in Nat
    BY <1>1, <1>2
  <2>2. (now - o.waiting_started_at) \div Second \in Nat
    BY <2>1, Floors
  <2> QED BY <1>1, <1>2, <2>2 DEF Elapsed
<1>3. CASE ~(now > o.waiting_started_at)
  <2>1. Elapsed(o) = 0
    BY <1>3 DEF Elapsed
  <2>2. o.waiting_started_at <= now => now - o.waiting_started_at = 0
    BY <1>1, <1>3
  <2>3. 0 \div Second = 0
    BY TimeAssumption
  <2> QED BY <2>1, <2>2, <2>3
<1> QED BY <1>2, <1>3

\* Stopping it moves the window into the columns.
LEMMA StopMeter ==
  ASSUME now \in Nat, NEW o \in Order
  PROVE  LET s == stop_waiting(o) IN
           /\ s \in Order
           /\ s.status = o.status
           /\ ~is_running(s)
           /\ s.waiting_seconds = current_seconds(o)
           /\ s.ride_waiting_seconds = current_ride_seconds(o)
<1>1. CASE is_running(o)
  <2> DEFINE total == o.waiting_seconds + Elapsed(o)
             ridden == IF o.status = "in_progress" THEN o.ride_waiting_seconds + Elapsed(o)
                       ELSE o.ride_waiting_seconds
  <2>1. Elapsed(o) \in Nat
    BY <1>1, Elapses
  <2>2. o.waiting_seconds \in Nat /\ o.ride_waiting_seconds \in Nat
    BY DEF Order
  <2>3. {total, ridden} \subseteq Nat
    BY <2>1, <2>2
  <2>4. total = current_seconds(o)
    BY <1>1 DEF current_seconds
  <2>5. ridden = current_ride_seconds(o)
    <3>1. CASE o.status = "in_progress"
      BY <1>1, <3>1 DEF current_ride_seconds
    <3>2. CASE o.status # "in_progress"
      BY <1>1, <2>2, <3>2 DEF current_ride_seconds
    <3> QED BY <3>1, <3>2
  <2>6. stop_waiting(o) = Stopped(o, total, ridden)
    BY <1>1 DEF stop_waiting, Stopped
  <2> HIDE DEF total, ridden
  <2> QED BY <2>3, <2>4, <2>5, <2>6, Columns DEF is_running
<1>2. CASE ~is_running(o)
  BY <1>2 DEF stop_waiting, is_running, current_seconds, current_ride_seconds, Order, NULL
<1> QED BY <1>1, <1>2

\* A change of status does not touch the meter.
LEMMA OtherStatus ==
  ASSUME NEW o \in Order,
         NEW status \in {"searching", "assigned", "arrived", "in_progress",
                         "completed", "cancelled"}
  PROVE  LET s == [o EXCEPT !.status = status] IN
           /\ s \in Order
           /\ s.status = status
           /\ is_running(s) <=> is_running(o)
           /\ s.waiting_started_at = o.waiting_started_at
           /\ s.waiting_seconds = o.waiting_seconds
           /\ current_seconds(s) = current_seconds(o)
BY DEF Order, is_running, current_seconds, Elapsed

\* What is counted is a number of seconds.
LEMMA Counted ==
  ASSUME now \in Nat, NEW o \in Order
  PROVE  current_seconds(o) \in Nat /\ current_ride_seconds(o) \in Nat
<1>1. is_running(o) => Elapsed(o) \in Nat
  BY Elapses
<1>2. o.waiting_seconds \in Nat /\ o.ride_waiting_seconds \in Nat
  BY DEF Order
<1> QED BY <1>1, <1>2 DEF current_seconds, current_ride_seconds

\* A bill has whole minutes, and costs nothing less than nothing.
LEMMA BillTypes ==
  ASSUME NEW t \in Nat, NEW r \in Nat
  PROVE  CostFor(t, r).minutes \in Nat /\ CostFor(t, r).cost \in Nat
<1>1. \A s \in Nat : Rounded(s) \in Nat
  BY TimeAssumption DEF Rounded
<1>2. \A n \in Nat : Over(n) \in Nat
  BY TariffAssumption DEF Over
<1> DEFINE ride == IF r < t THEN r ELSE t
<1>3. ride \in Nat /\ t - ride \in Nat
  OBVIOUS
<1> HIDE DEF ride
<1>4. Rounded(ride) \in Nat /\ Rounded(t - ride) \in Nat
  BY <1>1, <1>3
<1>5. Over(Rounded(ride)) \in Nat /\ Over(Rounded(t - ride)) \in Nat
  BY <1>2, <1>4
<1>6. \A a, b \in Nat : a + b \in Nat /\ a * b \in Nat
  OBVIOUS
<1>7. Rate * (Over(Rounded(t - ride)) + Over(Rounded(ride))) \in Nat
  BY <1>5, <1>6, TariffAssumption
<1>8. CostFor(t, r) = [minutes |-> Rounded(t - ride) + Rounded(ride),
                       cost |-> Rate * (Over(Rounded(t - ride)) + Over(Rounded(ride)))]
  BY DEF CostFor, ride
<1> QED BY <1>4, <1>6, <1>7, <1>8

\* Completion freezes the meter.
LEMMA Frozen ==
  ASSUME now \in Nat, NEW o \in Order
  PROVE  LET f == Freeze(o) IN
           /\ f \in Order
           /\ f.status = "completed"
           /\ ~is_running(f)
           /\ current_seconds(f) = current_seconds(o)
           /\ f.waiting_cost = snapshot(o).cost
           /\ f.waiting_minutes = snapshot(o).minutes
<1> DEFINE s == stop_waiting(o)
           bill == CostFor(s.waiting_seconds, s.ride_waiting_seconds)
<1>1. /\ s \in Order
      /\ ~is_running(s)
      /\ s.waiting_seconds = current_seconds(o)
      /\ s.ride_waiting_seconds = current_ride_seconds(o)
  BY StopMeter
<1>2. bill = snapshot(o)
  BY <1>1 DEF snapshot
<1>3. {bill.minutes, bill.cost} \subseteq Nat
  BY <1>1, BillTypes DEF Order
<1>4. Freeze(o) = Billed(s, bill.minutes, bill.cost)
  BY DEF Freeze, Billed
<1> HIDE DEF s, bill
<1>5. /\ Freeze(o) \in Order
      /\ Freeze(o).status = "completed"
      /\ Freeze(o).waiting_started_at = s.waiting_started_at
      /\ Freeze(o).waiting_seconds = s.waiting_seconds
      /\ Freeze(o).waiting_minutes = bill.minutes
      /\ Freeze(o).waiting_cost = bill.cost
  BY <1>1, <1>3, <1>4, Columns
<1>6. ~is_running(Freeze(o))
  BY <1>1, <1>5 DEF is_running
<1>7. Freeze(o).waiting_seconds \in Nat
  BY <1>5 DEF Order
<1>8. current_seconds(Freeze(o)) = current_seconds(o)
  BY <1>1, <1>5, <1>6, <1>7 DEF current_seconds
<1> QED BY <1>2, <1>5, <1>6, <1>8

----------------------------------------------------------------------------

\* A ride begins with nothing counted and nobody waiting.
LEMMA InitMetered == Init => MeterInv
<1> SUFFICES ASSUME Init PROVE MeterInv
  OBVIOUS
<1>1. TypeOK
  BY DEF Init, TypeOK, Order, NULL, Board
<1>2. ~is_running(order) /\ really.waits = "no"
  BY DEF Init, is_running
<1>3. order.waiting_seconds = 0 /\ really.door = 0 /\ really.ride = 0
  BY DEF Init
<1> QED BY <1>1, <1>2, <1>3 DEF MeterInv, Metered, current_seconds

\* With the window that runs, the meter has all whole seconds that were waited.
LEMMA AllIsCounted == MeterInv => NoWaitIsLost
<1> SUFFICES ASSUME MeterInv, order.status # "cancelled"
             PROVE  current_seconds(order) >= AtDoor + OnRide
  BY DEF NoWaitIsLost
<1>1. /\ now \in Nat /\ order \in Order /\ really \in Street /\ Metered
      /\ really.door \in Nat /\ really.ride \in Nat /\ really.since \in Nat
      /\ order.waiting_seconds \in Nat
  BY DEF MeterInv, TypeOK, Street, Order
<1>2. CASE really.waits = "no"
  <2>1. AtDoor = really.door /\ OnRide = really.ride
    BY <1>1, <1>2 DEF AtDoor, OnRide, Lasts
  <2> QED BY <1>1, <1>2, <2>1 DEF Metered
<1>3. CASE really.waits # "no"
  <2> DEFINE x == really.since - order.waiting_started_at
             y == now - really.since
  <2>1. /\ is_running(order) /\ order.waiting_started_at <= now
        /\ order.waiting_started_at \in Nat
        /\ x \in Nat /\ y \in Nat /\ x + y = now - order.waiting_started_at
        /\ order.waiting_seconds + (x \div Second) >= really.door + really.ride
    BY <1>1, <1>3 DEF Metered, Order, is_running, NULL
  <2>2. current_seconds(order) = order.waiting_seconds + ((x + y) \div Second)
    BY <1>1, <2>1, Elapses DEF current_seconds
  <2>3. really.waits \in {"door", "ride"}
    BY <1>1, <1>3 DEF Street
  <2>4. AtDoor + OnRide = really.door + really.ride + (y \div Second)
    <3>1. y \div Second \in Nat
      BY <2>1, Floors
    <3> HIDE DEF y
    <3>2. Lasts("door") = IF really.waits = "door" THEN y \div Second ELSE 0
      BY DEF Lasts, y
    <3>3. Lasts("ride") = IF really.waits = "ride" THEN y \div Second ELSE 0
      BY DEF Lasts, y
    <3> QED BY <1>1, <2>3, <3>1, <3>2, <3>3 DEF AtDoor, OnRide
  <2> HIDE DEF x, y
  <2>5. /\ x \div Second \in Nat /\ y \div Second \in Nat
        /\ (x + y) \div Second >= (x \div Second) + (y \div Second)
    BY <2>1, Floors
  <2>6. (x + y) \div Second \in Nat
    <3>1. PICK z \in Nat : z = x + y
      BY <2>1
    <3>2. z \div Second \in Nat
      BY Floors
    <3> QED BY <3>1, <3>2
  <2> QED BY <1>1, <2>1, <2>2, <2>4, <2>5, <2>6
<1> QED BY <1>2, <1>3

\* Keyboards that are sent are keyboards.
LEMMA BoardTypes == ASSUME NEW o \in Order, o.status \in Active PROVE RideBoard(o) \in Board
BY DEF RideBoard, Active, Board

\* What a press does to a ride, once the new row is known to be one: the driver
\* stops waiting, begins to wait, or goes on as before.
LEMMA Kept ==
  ASSUME MeterInv,
         order' \in Order, now' = now,
         order'.status # "cancelled" =>
           order.status # "cancelled" /\ current_seconds(order') = current_seconds(order),
         is_running(order') => order'.waiting_started_at <= now,
         boards' \subseteq Board, asked' \in BOOLEAN, cars' \in Nat, really' \in Street,
         \/ really'.waits = "no" /\ really'.door = AtDoor /\ really'.ride = OnRide
         \/ /\ really'.waits # "no" /\ is_running(order') /\ really'.since = now
            /\ really'.door = really.door /\ really'.ride = really.ride
         \/ /\ really'.waits = really.waits /\ really'.since = really.since
            /\ really'.door = really.door /\ really'.ride = really.ride
            /\ is_running(order) => /\ is_running(order')
                                    /\ order'.waiting_started_at = order.waiting_started_at
                                    /\ order'.waiting_seconds = order.waiting_seconds
  PROVE  MeterInv'
<1>0. TypeOK'
  BY DEF MeterInv, TypeOK, Street
<1>1. /\ now \in Nat /\ order \in Order /\ really \in Street /\ Metered /\ NoWaitIsLost
      /\ really.waits # "no" => really.since <= now
      /\ really.since \in Nat
  BY AllIsCounted DEF MeterInv, TypeOK, Street, Metered
<1>2. AtDoor \in Nat /\ OnRide \in Nat /\ AtDoor + OnRide >= really.door + really.ride
  BY <1>1, Resting
<1>3. /\ current_seconds(order)' = current_seconds(order')
      /\ is_running(order)' <=> is_running(order')
  BY DEF current_seconds, Elapsed, is_running
<1>4. order'.status # "cancelled" => current_seconds(order') >= AtDoor + OnRide
  BY <1>1 DEF NoWaitIsLost
<1>5. CASE really'.waits = "no" /\ really'.door = AtDoor /\ really'.ride = OnRide
  BY <1>0, <1>3, <1>4, <1>5 DEF MeterInv, Metered
<1>6. CASE /\ really'.waits # "no" /\ is_running(order') /\ really'.since = now
           /\ really'.door = really.door /\ really'.ride = really.ride
  <2>1. current_seconds(order')
          = order'.waiting_seconds + ((now - order'.waiting_started_at) \div Second)
    BY <1>1, <1>6, Elapses DEF current_seconds
  <2>2. current_seconds(order') \in Nat /\ really.door \in Nat /\ really.ride \in Nat
    BY <1>1, Counted DEF Street
  <2>3. order'.status # "cancelled" => current_seconds(order') >= really.door + really.ride
    BY <1>2, <1>4, <2>2
  <2> QED BY <1>0, <1>1, <1>3, <1>6, <2>1, <2>3 DEF MeterInv, Metered
<1>7. CASE /\ really'.waits = really.waits /\ really'.since = really.since
           /\ really'.door = really.door /\ really'.ride = really.ride
           /\ is_running(order) => /\ is_running(order')
                                   /\ order'.waiting_started_at = order.waiting_started_at
                                   /\ order'.waiting_seconds = order.waiting_seconds
  <2>1. CASE really.waits = "no"
    BY <1>0, <1>1, <1>3, <1>7, <2>1 DEF MeterInv, Metered
  <2>2. CASE really.waits # "no"
    BY <1>0, <1>1, <1>3, <1>7, <2>2 DEF MeterInv, Metered
  <2> QED BY <2>1, <2>2
<1> QED BY <1>5, <1>6, <1>7

\* Every button, and every tick of the clock, keeps the meter.
LEMMA StepMetered == MeterInv /\ [Next]_vars => MeterInv'
<1> SUFFICES ASSUME MeterInv, [Next]_vars PROVE MeterInv'
  OBVIOUS
<1>0. /\ now \in Nat /\ order \in Order /\ boards \subseteq Board /\ asked \in BOOLEAN
      /\ cars \in Nat /\ really \in Street /\ Metered
      /\ really.waits # "no" => really.since <= now
  BY DEF MeterInv, TypeOK, Street, Metered
<1>1. CASE DriverArrived
  <2> DEFINE o == [order EXCEPT !.status = "arrived"]
  <2>1. /\ o \in Order /\ o.status = "arrived"
        /\ is_running(o) <=> is_running(order)
        /\ o.waiting_started_at = order.waiting_started_at
        /\ o.waiting_seconds = order.waiting_seconds
        /\ current_seconds(o) = current_seconds(order)
    BY <1>0, OtherStatus
  <2>2. order' = start_waiting(o) /\ boards' = boards \union {RideBoard(start_waiting(o))}
    BY <1>1 DEF DriverArrived, Becomes
  <2> HIDE DEF o
  <2>3. /\ order' \in Order /\ order'.status = "arrived" /\ is_running(order')
        /\ order'.waiting_started_at <= now
        /\ current_seconds(start_waiting(o)) = current_seconds(order)
    BY <1>0, <2>1, <2>2, StartMeter DEF Metered
  <2>4. boards' \subseteq Board
    BY <1>0, <2>2, <2>3, BoardTypes DEF Active
  <2>5. now' = now
    BY <1>1 DEF DriverArrived
  <2>6. current_seconds(order') = current_seconds(order)
    BY <2>2, <2>3
  <2>7. /\ really' \in Street /\ really'.door = really.door /\ really'.ride = really.ride
        /\ \/ really'.waits # "no" /\ really'.since = now
           \/ really'.waits = really.waits /\ really'.since = really.since
    <3>1. \/ really' = [really EXCEPT !.plain = FALSE]
          \/ really' = Waits("door")
      BY <1>1 DEF DriverArrived
    <3> QED BY <1>0, <3>1, Waiting DEF Street
  <2>8. order.status # "cancelled"
    BY <1>1 DEF DriverArrived, Pressed, Active
  <2>9. asked' \in BOOLEAN /\ cars' \in Nat
    BY <1>0, <1>1 DEF DriverArrived
  <2>10. is_running(order) =>
           /\ order'.waiting_started_at = order.waiting_started_at
           /\ order'.waiting_seconds = order.waiting_seconds
    BY <1>0, <2>1, <2>2, StartMeter
  <2> QED BY <1>0, <2>3, <2>4, <2>5, <2>6, <2>7, <2>8, <2>9, <2>10, Kept
<1>2. CASE DriverSeated
  <2> DEFINE o == stop_waiting(order)
  <2>1. o \in Order /\ ~is_running(o) /\ o.waiting_seconds = current_seconds(order)
    BY <1>0, StopMeter
  <2>2. order' = [o EXCEPT !.status = "in_progress"] /\ boards' = boards \union {RideBoard(order')}
    BY <1>2 DEF DriverSeated, Becomes, BoardPassenger
  <2> HIDE DEF o
  <2>3. /\ order' \in Order /\ order'.status = "in_progress" /\ ~is_running(order')
        /\ current_seconds(order') = current_seconds(order)
    <3>1. /\ order' \in Order /\ order'.status = "in_progress"
          /\ is_running(order') <=> is_running(o)
          /\ current_seconds(order') = current_seconds(o)
      BY <2>1, <2>2, OtherStatus
    <3>2. current_seconds(o) = o.waiting_seconds
      BY <2>1 DEF current_seconds, Order
    <3> QED BY <2>1, <3>1, <3>2
  <2>4. boards' \subseteq Board
    BY <1>0, <2>2, <2>3, BoardTypes DEF Active
  <2>5. really' \in Street /\ really'.door = AtDoor /\ really'.ride = OnRide
        /\ really'.waits = "no"
    BY <1>0, <1>2, Resting DEF DriverSeated, Street
  <2>6. order.status # "cancelled"
    BY <1>2 DEF DriverSeated, Pressed, Active
  <2>7. asked' \in BOOLEAN /\ cars' \in Nat /\ now' = now
    BY <1>0, <1>2 DEF DriverSeated
  <2> QED BY <1>0, <2>3, <2>4, <2>5, <2>6, <2>7, Kept
<1>3. CASE WaitingStart
  <2>1. order' = start_waiting(order) /\ boards' = boards \union {RideBoard(order')}
    BY <1>3 DEF WaitingStart, Becomes
  <2>2. order.status = "in_progress"
    BY <1>3 DEF WaitingStart
  <2>3. /\ order' \in Order /\ order'.status = "in_progress" /\ is_running(order')
        /\ order'.waiting_started_at <= now
        /\ current_seconds(order') = current_seconds(order)
    BY <1>0, <2>1, <2>2, StartMeter DEF Metered
  <2>4. boards' \subseteq Board
    BY <1>0, <2>1, <2>3, BoardTypes DEF Active
  <2>5. /\ really' \in Street /\ really'.door = really.door /\ really'.ride = really.ride
        /\ \/ really'.waits # "no" /\ really'.since = now
           \/ really'.waits = really.waits /\ really'.since = really.since
    <3>1. really' = Waits("ride")
      BY <1>3 DEF WaitingStart
    <3> QED BY <1>0, <3>1, Waiting
  <2>6. asked' \in BOOLEAN /\ cars' \in Nat /\ now' = now
    BY <1>0, <1>3 DEF WaitingStart
  <2>7. is_running(order) => order' = order
    BY <2>1 DEF start_waiting
  <2> QED BY <1>0, <2>2, <2>3, <2>4, <2>5, <2>6, <2>7, Kept
<1>4. CASE WaitingStop
  <2>1. order' = stop_waiting(order) /\ boards' = boards \union {RideBoard(order')}
    BY <1>4 DEF WaitingStop, Becomes
  <2>2. order.status \in Active /\ order.status # "cancelled"
    BY <1>4 DEF WaitingStop, Pressed, Active
  <2>3. /\ order' \in Order /\ order'.status \in Active /\ ~is_running(order')
        /\ order'.waiting_seconds = current_seconds(order)
    BY <1>0, <2>1, <2>2, StopMeter
  <2>4. current_seconds(order') = current_seconds(order)
    BY <2>3 DEF current_seconds, Order
  <2>5. boards' \subseteq Board
    BY <1>0, <2>1, <2>3, BoardTypes
  <2>6. really' \in Street /\ really'.door = AtDoor /\ really'.ride = OnRide
        /\ really'.waits = "no"
    BY <1>0, <1>4, Resting DEF WaitingStop
  <2>7. asked' \in BOOLEAN /\ cars' \in Nat /\ now' = now
    BY <1>0, <1>4 DEF WaitingStop
  <2> QED BY <1>0, <2>2, <2>3, <2>4, <2>5, <2>6, <2>7, Kept
<1>5. CASE FinishPrompt
  BY <1>0, <1>5, Kept DEF FinishPrompt, Metered
<1>6. CASE CompleteRide
  <2>1. /\ order' \in Order /\ order'.status = "completed" /\ ~is_running(order')
        /\ current_seconds(order') = current_seconds(order)
    BY <1>0, <1>6, Frozen DEF CompleteRide
  <2>2. order.status # "cancelled"
    BY <1>6 DEF CompleteRide, Active
  <2>3. really' \in Street /\ really'.door = AtDoor /\ really'.ride = OnRide
        /\ really'.waits = "no"
    BY <1>0, <1>6, Resting DEF CompleteRide
  <2>4. boards' \subseteq Board /\ asked' \in BOOLEAN /\ cars' \in Nat /\ now' = now
    BY <1>0, <1>6 DEF CompleteRide
  <2> QED BY <1>0, <2>1, <2>2, <2>3, <2>4, Kept
<1>7. CASE CarFails
  <2>1. /\ order' \in Order
        /\ is_running(order') <=> is_running(order)
        /\ order'.waiting_started_at = order.waiting_started_at
        /\ current_seconds(order') = current_seconds(order)
    BY <1>0, <1>7, OtherStatus DEF CarFails
  <2>2. order.status # "cancelled"
    BY <1>7 DEF CarFails, Active
  <2>3. really' \in Street /\ really'.door = AtDoor /\ really'.ride = OnRide
        /\ really'.waits = "no"
    <3> DEFINE p == really.plain /\ ~is_running(order)
    <3>1. p \in BOOLEAN
      OBVIOUS
    <3>2. really' = [Rests EXCEPT !.aboard = FALSE, !.plain = p]
      BY <1>0, <1>7, Resting DEF CarFails
    <3> HIDE DEF p
    <3> QED BY <1>0, <3>1, <3>2, Resting DEF Street
  <2>4. boards' \subseteq Board /\ asked' \in BOOLEAN /\ cars' \in Nat /\ now' = now
    <3>1. boards' = {} /\ asked' = FALSE /\ cars' = cars + 1 /\ now' = now
      BY <1>7 DEF CarFails
    <3>2. cars' \in Nat
      BY <1>0, <3>1
    <3> QED BY <3>1, <3>2
  <2> QED BY <1>0, <2>1, <2>2, <2>3, <2>4, Kept DEF Metered
<1>8. CASE Taken
  <2>1. /\ order' \in Order
        /\ is_running(order') <=> is_running(order)
        /\ order'.waiting_started_at = order.waiting_started_at
        /\ order'.waiting_seconds = order.waiting_seconds
        /\ current_seconds(order') = current_seconds(order)
    BY <1>0, <1>8, OtherStatus DEF Taken
  <2>2. order.status # "cancelled"
    BY <1>8 DEF Taken
  <2>3. boards' \subseteq Board /\ asked' \in BOOLEAN /\ cars' \in Nat /\ now' = now
    BY <1>0, <1>8 DEF Taken, Board
  <2>4. really' = really
    BY <1>8 DEF Taken
  <2> QED BY <1>0, <2>1, <2>2, <2>3, <2>4, Kept DEF Metered
<1>9. CASE CalledOff
  <2>1. /\ order' \in Order
        /\ order'.status = "cancelled"
        /\ is_running(order') <=> is_running(order)
        /\ order'.waiting_started_at = order.waiting_started_at
    BY <1>0, <1>9, OtherStatus DEF CalledOff
  <2>2. really' \in Street /\ really'.door = AtDoor /\ really'.ride = OnRide
        /\ really'.waits = "no"
    BY <1>0, <1>9, Resting DEF CalledOff
  <2>3. boards' \subseteq Board /\ asked' \in BOOLEAN /\ cars' \in Nat /\ now' = now
    BY <1>0, <1>9 DEF CalledOff
  <2> QED BY <1>0, <2>1, <2>2, <2>3, Kept DEF Metered
<1>10. CASE Tick
  <2>1. /\ now' = now + 1 /\ order' = order /\ boards' = boards /\ asked' = asked
        /\ cars' = cars /\ really' = really
    BY <1>10 DEF Tick
  <2>2. is_running(order) => order.waiting_started_at \in Nat
    BY <1>0 DEF is_running, Order, NULL
  <2>3. current_seconds(order)' >= current_seconds(order)
    <3>1. CASE is_running(order)
      <4> DEFINE x == now - order.waiting_started_at
      <4>1. x \in Nat /\ x + 1 = now + 1 - order.waiting_started_at
        BY <1>0, <2>2, <3>1 DEF Metered
      <4>2. Elapsed(order) = x \div Second
        BY <1>0, <3>1, Elapses DEF Metered
      <4>3. Elapsed(order)' = (x + 1) \div Second
        BY <1>0, <2>1, <2>2, <3>1, <4>1 DEF Elapsed, Metered
      <4> HIDE DEF x
      <4>4. (x + 1) \div Second >= (x \div Second) + (1 \div Second)
            /\ x \div Second \in Nat /\ 1 \div Second \in Nat
        BY <4>1, Floors
      <4>5. (x + 1) \div Second \in Nat /\ order.waiting_seconds \in Nat
        BY <1>0, <4>1, Floors DEF Order
      <4>6. /\ current_seconds(order) = order.waiting_seconds + Elapsed(order)
            /\ current_seconds(order)' = order.waiting_seconds + Elapsed(order)'
        BY <2>1, <3>1 DEF current_seconds, is_running
      <4> QED BY <4>2, <4>3, <4>4, <4>5, <4>6
    <3>2. CASE ~is_running(order)
      <4>1. order.waiting_seconds \in Nat
        BY <1>0 DEF Order
      <4> QED BY <2>1, <3>2, <4>1 DEF current_seconds, is_running
    <3> QED BY <3>1, <3>2
  <2>4. /\ current_seconds(order) \in Nat
        /\ really.door \in Nat /\ really.ride \in Nat /\ really.since \in Nat
    BY <1>0, Counted DEF Street
  <2>5. current_seconds(order)' \in Nat
    <3>1. is_running(order) => Elapsed(order)' \in Nat
      <4> SUFFICES ASSUME is_running(order) PROVE Elapsed(order)' \in Nat
        OBVIOUS
      <4>1. now + 1 - order.waiting_started_at \in Nat /\ now + 1 > order.waiting_started_at
        BY <1>0, <2>2 DEF Metered
      <4>2. Elapsed(order)' = (now + 1 - order.waiting_started_at) \div Second
        BY <1>0, <2>1, <2>2, <4>1 DEF Elapsed, Metered
      <4>3. (now + 1 - order.waiting_started_at) \div Second \in Nat
        BY <4>1, Floors
      <4> QED BY <4>2, <4>3
    <3>2. order.waiting_seconds \in Nat
      BY <1>0 DEF Order
    <3>3. current_seconds(order)'
            = order.waiting_seconds + (IF is_running(order) THEN Elapsed(order)' ELSE 0)
      BY <2>1 DEF current_seconds, is_running
    <3> QED BY <3>1, <3>2, <3>3
  <2>6. Metered'
    <3>1. is_running(order)' <=> is_running(order)
      BY <2>1 DEF is_running
    <3>2. is_running(order) => order.waiting_started_at <= now + 1
      BY <1>0, <2>2 DEF Metered
    <3>3. really.waits # "no" => really.since <= now + 1
      BY <1>0, <2>4
    <3>4. order.status # "cancelled" /\ really.waits = "no"
            => current_seconds(order)' >= really.door + really.ride
      BY <1>0, <2>3, <2>4, <2>5 DEF Metered
    <3> QED BY <1>0, <2>1, <3>1, <3>2, <3>3, <3>4 DEF Metered
  <2> QED BY <1>0, <2>1, <2>6 DEF MeterInv, TypeOK, Street
<1>11. CASE UNCHANGED vars
  BY <1>0, <1>11, Kept DEF vars, Metered
<1> QED
  BY <1>1, <1>2, <1>3, <1>4, <1>5, <1>6, <1>7, <1>8, <1>9, <1>10, <1>11 DEF Next

\* The columns keep their types, whichever buttons are pressed: the meter only
\* adds, and a window that runs has a beginning.
THEOREM TypesHold == Spec => []TypeOK
<1>1. MeterInv => TypeOK
  BY DEF MeterInv
<1> QED BY <1>1, InitMetered, StepMetered, PTL DEF Spec

\* No whole second of a stretch of waiting is lost, in whatever order the buttons
\* of handle_driver are pressed, also of keyboards that are out of date, and
\* through any number of drivers.
THEOREM NoWaitIsLostHolds == Spec => []NoWaitIsLost
BY AllIsCounted, InitMetered, StepMetered, PTL DEF Spec

\* What driver_complete_ride writes down is what driver_finish_prompt would have
\* shown at that moment.
THEOREM FrozenIsShownHolds == Spec => FrozenIsShown
<1> DEFINE Shown ==
      order.status \in Active /\ order'.status = "completed" =>
        /\ order'.waiting_cost = snapshot(order).cost
        /\ order'.waiting_minutes = snapshot(order).minutes
<1>1. MeterInv /\ [Next]_vars => [Shown]_vars
  <2> SUFFICES ASSUME MeterInv, Next, order.status \in Active, order'.status = "completed"
               PROVE  /\ order'.waiting_cost = snapshot(order).cost
                      /\ order'.waiting_minutes = snapshot(order).minutes
    OBVIOUS
  <2>0. now \in Nat /\ order \in Order /\ order.status # "completed"
    BY DEF MeterInv, TypeOK, Active
  <2>1. CASE CompleteRide
    BY <2>0, <2>1, Frozen DEF CompleteRide
  <2>2. CASE ~CompleteRide
    <3>1. order'.status # "completed"
      <4>1. CASE DriverArrived
        <5> DEFINE o == [order EXCEPT !.status = "arrived"]
        <5>1. o \in Order /\ o.status = "arrived"
          BY <2>0, OtherStatus
        <5>2. order' = start_waiting(o)
          BY <4>1 DEF DriverArrived, Becomes
        <5> HIDE DEF o
        <5> QED BY <2>0, <5>1, <5>2, StartMeter
      <4>2. CASE DriverSeated
        <5> DEFINE o == stop_waiting(order)
        <5>1. o \in Order
          BY <2>0, StopMeter
        <5>2. order' = [o EXCEPT !.status = "in_progress"]
          BY <4>2 DEF DriverSeated, Becomes, BoardPassenger
        <5> HIDE DEF o
        <5> QED BY <5>1, <5>2 DEF Order
      <4>3. CASE WaitingStart
        BY <2>0, <4>3, StartMeter DEF WaitingStart, Becomes
      <4>4. CASE WaitingStop
        BY <2>0, <4>4, StopMeter DEF WaitingStop, Becomes
      <4>5. CASE FinishPrompt \/ Tick
        BY <2>0, <4>5 DEF FinishPrompt, Tick
      <4>6. CASE CarFails \/ Taken \/ CalledOff
        BY <2>0, <4>6 DEF CarFails, Taken, CalledOff, Order
      <4> QED BY <2>2, <4>1, <4>2, <4>3, <4>4, <4>5, <4>6 DEF Next
    <3> QED BY <3>1
  <2> QED BY <2>1, <2>2
<1> QED BY <1>1, InitMetered, StepMetered, PTL DEF Spec, FrozenIsShown

----------------------------------------------------------------------------
(* Rounding.                                                                *)

\* Whole minutes, and what is left of the next.
LEMMA Parts ==
  ASSUME NEW s \in Nat
  PROVE  /\ s \div Minute \in Nat /\ s % Minute \in 0 .. (Minute - 1)
         /\ s = Minute * (s \div Minute) + (s % Minute)
         /\ s \div Minute <= s
<1>1. Minute \in Nat /\ Minute > 0
  BY TimeAssumption
<1> DEFINE w == s \div Minute
<1>2. w \in Nat /\ s % Minute \in 0 .. (Minute - 1)
  BY <1>1
<1>3. s = Minute * w + (s % Minute)
  BY <1>1
<1>4. w <= s
  <2>1. Minute * w >= w /\ Minute * w \in Nat
    BY <1>1, <1>2
  <2> HIDE DEF w
  <2> QED BY <1>1, <1>2, <1>3, <2>1
<1> QED BY <1>2, <1>3, <1>4

\* Two numbers of minutes are at least a minute apart.
LEMMA Multiples ==
  ASSUME NEW a \in Nat, NEW b \in Nat, a < b
  PROVE  Minute * a \in Nat /\ Minute * b \in Nat /\ Minute * a + Minute <= Minute * b
<1>1. Minute \in Nat /\ Minute > 0
  BY TimeAssumption
<1>2. PICK k \in Nat : b = a + 1 + k
  <2>1. b - a - 1 \in Nat /\ b = a + 1 + (b - a - 1)
    OBVIOUS
  <2> QED BY <2>1
<1>3. Minute * b = Minute * a + Minute + Minute * k
  BY <1>1, <1>2
<1>4. Minute * k \in Nat /\ Minute * a \in Nat
  BY <1>1, <1>2
<1> QED BY <1>1, <1>3, <1>4

\* How far a number of minutes is from a time, as Price says it.
Far(s, m) == IF Minute * m > s THEN Minute * m - s ELSE s - Minute * m

\* The numbers of minutes nearest to it.
Near(s) == {m \in 0 .. (s + 1) : \A k \in 0 .. (s + 1) : Far(s, m) <= Far(s, k)}

\* Nothing is nearer than the minutes before and after.
LEMMA Nearest ==
  ASSUME NEW s \in Nat, NEW m \in Nat, m # s \div Minute, m # (s \div Minute) + 1
  PROVE  /\ Far(s, s \div Minute) = s % Minute
         /\ Far(s, (s \div Minute) + 1) = Minute - (s % Minute)
         /\ Far(s, m) > s % Minute \/ Far(s, m) > Minute - (s % Minute)
         /\ Far(s, m) \in Nat
<1> DEFINE w == s \div Minute
           r == s % Minute
<1>1. w \in Nat /\ r \in Nat /\ r < Minute /\ s = Minute * w + r /\ Minute \in Nat
  BY Parts, TimeAssumption
<1> HIDE DEF w, r
<1>2. Minute * w \in Nat /\ Minute * (w + 1) = Minute * w + Minute
  BY <1>1
<1>3. Far(s, w) = r /\ Far(s, w + 1) = Minute - r
  BY <1>1, <1>2 DEF Far
<1>4. CASE m < w
  <2>1. Minute * m \in Nat /\ Minute * m + Minute <= Minute * w
    BY <1>1, <1>4, Multiples
  <2>2. Far(s, m) \in Nat /\ Far(s, m) > r
    BY <1>1, <1>2, <2>1 DEF Far
  <2> QED BY <1>3, <2>2 DEF w, r
<1>5. CASE m > w + 1
  <2>1. Minute * m \in Nat /\ Minute * (w + 1) + Minute <= Minute * m
    BY <1>1, <1>5, Multiples
  <2>2. Far(s, m) \in Nat /\ Far(s, m) > Minute - r
    BY <1>1, <1>2, <2>1 DEF Far
  <2> QED BY <1>3, <2>2 DEF w, r
<1> QED BY <1>1, <1>4, <1>5 DEF w

\* Price charges what Rounded rounds to.
LEMMA PriceIsRounded == ASSUME NEW s \in Nat PROVE Price(s) = Rate * Over(Rounded(s))
<1> DEFINE w == s \div Minute
           r == s % Minute
           P(m) == m % 2 = 0 \/ Near(s) = {m}
           whole == CHOOSE m \in Near(s) : P(m)
<1>1. w \in Nat /\ r \in Nat /\ r < Minute /\ w <= s /\ Minute \in Nat
  BY Parts, TimeAssumption
<1>2. /\ \A m \in Nat : m # w /\ m # w + 1 => Far(s, m) \in Nat /\ (Far(s, m) > r \/ Far(s, m) > Minute - r)
      /\ Far(s, w) = r /\ Far(s, w + 1) = Minute - r
  <2>1. w + 2 \in Nat /\ w + 2 # w /\ w + 2 # w + 1
    BY <1>1
  <2> QED BY <2>1, Nearest
<1>3. w \in 0 .. (s + 1) /\ w + 1 \in 0 .. (s + 1)
  BY <1>1
<1>4. Rounded(s) = IF 2 * r > Minute \/ (2 * r = Minute /\ w % 2 = 1) THEN w + 1 ELSE w
  BY DEF Rounded
<1>5. Price(s) = Rate * (IF whole <= Free THEN 0 ELSE whole - Free)
  BY DEF Price, Near, Far
<1> HIDE DEF w, r
<1>6. whole = Rounded(s)
  <2>1. CASE 2 * r < Minute
    <3>1. Near(s) = {w}
      BY <1>1, <1>2, <1>3, <2>1 DEF Near
    <3>2. Rounded(s) = w
      BY <1>1, <1>4, <2>1
    <3> QED BY <3>1, <3>2
  <2>2. CASE 2 * r > Minute
    <3>1. Near(s) = {w + 1}
      BY <1>1, <1>2, <1>3, <2>2 DEF Near
    <3>2. Rounded(s) = w + 1
      BY <1>4, <2>2
    <3> QED BY <3>1, <3>2
  <2>3. CASE 2 * r = Minute
    <3>1. Near(s) = {w, w + 1}
      BY <1>1, <1>2, <1>3, <2>3 DEF Near
    <3>2. Rounded(s) = IF w % 2 = 1 THEN w + 1 ELSE w
      BY <1>1, <1>4, <2>3
    <3>3. w # w + 1
      BY <1>1
    <3>4. CASE w % 2 = 1
      <4>1. (w + 1) % 2 = 0 /\ w % 2 # 0
        BY <1>1, <3>4
      <4>2. \A m \in Near(s) : P(m) <=> m = w + 1
        BY <3>1, <3>3, <4>1
      <4> QED BY <3>1, <3>2, <3>4, <4>2
    <3>5. CASE w % 2 # 1
      <4>1. (w + 1) % 2 # 0 /\ w % 2 = 0
        BY <1>1, <3>5
      <4>2. \A m \in Near(s) : P(m) <=> m = w
        BY <3>1, <3>3, <4>1
      <4> QED BY <3>1, <3>2, <3>5, <4>2
    <3> QED BY <3>4, <3>5
  <2> QED BY <1>1, <2>1, <2>2, <2>3
<1>7. Rounded(s) \in Nat
  BY <1>1, <1>4
<1> HIDE DEF whole
<1> QED BY <1>5, <1>6, <1>7, TariffAssumption DEF Over
----------------------------------------------------------------------------
(* What the meter and the street have in common on a plain ride: one window *)
(* runs just while somebody waits, and goes to the column of his stretch.   *)

Told(o, t) ==
  IF o.status = "completed"
  THEN t.waits = "no" /\ o.waiting_cost = Price(t.door) + Price(t.ride)
  ELSE /\ o.waiting_seconds = t.door + t.ride
       /\ o.ride_waiting_seconds = t.ride
       /\ is_running(o) <=> t.waits # "no"
       /\ t.waits # "no" => o.waiting_started_at = t.since
       /\ t.waits = "door" => o.status = "arrived"
       /\ t.waits = "ride" => o.status = "in_progress"
       /\ t.aboard <=> o.status = "in_progress"

BillInv == really.plain /\ order.status # "cancelled" => Told(order, really)

\* The two stretches as the meter has them.
LEMMA Stretches ==
  ASSUME MeterInv, order.status # "completed", Told(order, really)
  PROVE  /\ AtDoor \in Nat /\ OnRide \in Nat
         /\ current_seconds(order) = AtDoor + OnRide
         /\ current_ride_seconds(order) = OnRide
<1>1. /\ now \in Nat /\ order \in Order /\ really \in Street /\ Metered
      /\ really.door \in Nat /\ really.ride \in Nat
      /\ really.waits \in {"no", "door", "ride"}
  BY DEF MeterInv, TypeOK, Street
<1>2. AtDoor \in Nat /\ OnRide \in Nat
  BY <1>1, Resting DEF Metered
<1>3. CASE really.waits = "no"
  BY <1>1, <1>2, <1>3
  DEF Told, AtDoor, OnRide, Lasts, current_seconds, current_ride_seconds
<1>4. CASE really.waits # "no"
  <2> DEFINE e == (now - really.since) \div Second
  <2>1. /\ is_running(order) /\ order.waiting_started_at = really.since
        /\ order.waiting_started_at <= now
        /\ order.waiting_seconds = really.door + really.ride
        /\ order.ride_waiting_seconds = really.ride
        /\ really.waits = "door" => order.status = "arrived"
        /\ really.waits = "ride" => order.status = "in_progress"
    BY <1>1, <1>4 DEF Told, Metered
  <2>2. Elapsed(order) = e /\ e \in Nat
    BY <1>1, <2>1, Elapses
  <2>3. /\ AtDoor = really.door + (IF really.waits = "door" THEN e ELSE 0)
        /\ OnRide = really.ride + (IF really.waits = "ride" THEN e ELSE 0)
    BY DEF AtDoor, OnRide, Lasts
  <2> HIDE DEF e
  <2> QED BY <1>1, <1>2, <1>4, <2>1, <2>2, <2>3 DEF current_seconds, current_ride_seconds
<1> QED BY <1>2, <1>3, <1>4

\* What the meter shows of a ride is what its stretches cost.
LEMMA SnapshotTold ==
  ASSUME MeterInv, order.status # "completed", Told(order, really)
  PROVE  snapshot(order).cost = Price(AtDoor) + Price(OnRide)
<1> DEFINE total == AtDoor + OnRide
           ride == IF OnRide < total THEN OnRide ELSE total
<1>1. /\ AtDoor \in Nat /\ OnRide \in Nat
      /\ current_seconds(order) = total /\ current_ride_seconds(order) = OnRide
  BY Stretches
<1>3. ride = OnRide /\ total - ride = AtDoor
  BY <1>1
<1>4. CostFor(total, OnRide).cost = Rate * (Over(Rounded(total - ride)) + Over(Rounded(ride)))
  BY DEF CostFor
<1>5. snapshot(order).cost = Rate * (Over(Rounded(AtDoor)) + Over(Rounded(OnRide)))
  BY <1>1, <1>3, <1>4 DEF snapshot
<1>6. Over(Rounded(AtDoor)) \in Nat /\ Over(Rounded(OnRide)) \in Nat
  <2>1. \A s \in Nat : Rounded(s) \in Nat
    BY Parts DEF Rounded
  <2> QED BY <1>1, <2>1, TariffAssumption DEF Over
<1>7. \A a, b \in Nat : Rate * (a + b) = Rate * a + Rate * b
  BY TariffAssumption
<1> QED BY <1>1, <1>5, <1>6, <1>7, PriceIsRounded

\* A ride begins with an empty meter and nobody aboard.
LEMMA InitTold == Init => BillInv
BY DEF Init, BillInv, Told, is_running, current_seconds, current_ride_seconds, NULL

\* Every button and every tick keeps meter and street together, as long as the ride
\* is plain.
LEMMA StepTold == MeterInv /\ BillInv /\ [Next]_vars => BillInv'
<1> SUFFICES ASSUME MeterInv, BillInv, [Next]_vars, really'.plain, order'.status # "cancelled"
             PROVE  Told(order, really)'
  BY DEF BillInv
<1>1. now \in Nat /\ order \in Order /\ really \in Street
  BY DEF MeterInv, TypeOK, Street
<1>2. /\ order.waiting_started_at \in Nat \union {NULL}
      /\ order.waiting_seconds \in Nat /\ order.ride_waiting_seconds \in Nat
      /\ really.door \in Nat /\ really.ride \in Nat
      /\ really.plain \in BOOLEAN /\ really.aboard \in BOOLEAN
      /\ really.waits \in {"no", "door", "ride"}
  BY <1>1 DEF Order, Street
<1>3. order.status # "cancelled" /\ really.plain => Told(order, really)
  BY DEF BillInv
<1>0. really.waits # "no" => really.since <= now
  BY DEF MeterInv, Metered
<1>4. CASE DriverArrived
  <2> DEFINE o == [order EXCEPT !.status = "arrived"]
  <2>1. order.status \in Active /\ ~really.aboard /\ really' = Waits("door")
    BY <1>1, <1>4 DEF DriverArrived, Pressed, Street
  <2>2. /\ really'.plain = really.plain /\ really'.waits = "door" /\ ~really'.aboard
        /\ really'.door = really.door /\ really'.ride = really.ride
        /\ IF really.waits = "door" THEN really' = really ELSE really'.since = now
    BY <1>1, <2>1, Waiting
  <2>3. Told(order, really) /\ order.status # "completed" /\ order.status # "in_progress"
    BY <1>1, <1>3, <2>1, <2>2 DEF Active, Told, Street
  <2>4. /\ o \in Order /\ o.status = "arrived" /\ o.waiting_seconds = order.waiting_seconds
        /\ o.ride_waiting_seconds = order.ride_waiting_seconds
        /\ o.waiting_started_at = order.waiting_started_at
        /\ is_running(o) <=> is_running(order)
    BY <1>1 DEF Order, is_running
  <2>5. order' = start_waiting(o)
    BY <1>4 DEF DriverArrived, Becomes
  <2> HIDE DEF o
  <2>6. CASE is_running(order)
    <3>1. order' = o /\ really' = really
      BY <1>1, <2>1, <2>2, <2>3, <2>4, <2>5, <2>6 DEF start_waiting, Told, Street
    <3> QED BY <1>2, <2>2, <2>3, <2>4, <2>6, <3>1 DEF Told, is_running
  <2>7. CASE ~is_running(order)
    <3>1. /\ order'.status = "arrived" /\ order'.waiting_started_at = now
          /\ order'.waiting_seconds = order.waiting_seconds
          /\ order'.ride_waiting_seconds = order.ride_waiting_seconds
      BY <2>4, <2>5, <2>7 DEF start_waiting, Order
    <3>2. is_running(order')
      BY <1>1, <3>1 DEF is_running, NULL
    <3>3. really'.since = now
      BY <2>2, <2>3, <2>7 DEF Told
    <3> QED BY <1>2, <2>2, <2>3, <3>1, <3>2, <3>3 DEF Told, is_running
  <2> QED BY <2>6, <2>7
<1>5. CASE DriverSeated
  <2> DEFINE o == stop_waiting(order)
  <2>1. /\ order.status \in Active /\ really' = [Rests EXCEPT !.aboard = TRUE]
        /\ order' = [o EXCEPT !.status = "in_progress"]
    BY <1>5 DEF DriverSeated, Pressed, Becomes, BoardPassenger
  <2>2. /\ really'.door = AtDoor /\ really'.ride = OnRide
        /\ really'.waits = "no" /\ really'.aboard /\ really'.plain = really.plain
    BY <1>0, <1>1, <2>1, Resting DEF Street
  <2>3. Told(order, really) /\ order.status # "completed"
    BY <1>3, <2>1, <2>2 DEF Active
  <2>4. /\ o \in Order /\ ~is_running(o) /\ o.waiting_seconds = AtDoor + OnRide
        /\ o.ride_waiting_seconds = OnRide
    BY <1>1, <2>3, StopMeter, Stretches
  <2> HIDE DEF o
  <2>5. /\ order'.status = "in_progress" /\ ~is_running(order')
        /\ order'.waiting_seconds = AtDoor + OnRide
        /\ order'.ride_waiting_seconds = OnRide
    BY <2>1, <2>4 DEF is_running, Order
  <2> QED BY <2>2, <2>5 DEF Told, is_running
<1>6. CASE WaitingStart
  <2>1. order.status = "in_progress" /\ really' = Waits("ride") /\ order' = start_waiting(order)
    BY <1>6 DEF WaitingStart, Becomes
  <2>2. /\ really'.plain = really.plain /\ really'.waits = "ride"
        /\ really'.aboard = really.aboard
        /\ really'.door = really.door /\ really'.ride = really.ride
        /\ IF really.waits = "ride" THEN really' = really ELSE really'.since = now
    BY <1>1, <2>1, Waiting
  <2>3. Told(order, really)
    BY <1>3, <2>1, <2>2
  <2>4. CASE is_running(order)
    <3>1. order' = order /\ really' = really
      BY <1>2, <2>1, <2>2, <2>3, <2>4 DEF start_waiting, Told
    <3> QED BY <2>3, <3>1
  <2>5. CASE ~is_running(order)
    <3>1. /\ order'.status = "in_progress" /\ order'.waiting_started_at = now
          /\ order'.waiting_seconds = order.waiting_seconds
          /\ order'.ride_waiting_seconds = order.ride_waiting_seconds
      BY <1>1, <2>1, <2>5 DEF start_waiting, Order
    <3>2. is_running(order')
      BY <1>1, <3>1 DEF is_running, NULL
    <3>3. really'.since = now
      BY <2>2, <2>3, <2>5 DEF Told
    <3> QED BY <1>2, <2>1, <2>2, <2>3, <3>1, <3>2, <3>3 DEF Told, is_running
  <2> QED BY <2>4, <2>5
<1>7. CASE WaitingStop
  <2>1. order.status \in Active /\ really' = Rests /\ order' = stop_waiting(order)
    BY <1>7 DEF WaitingStop, Pressed, Becomes
  <2>2. /\ really'.door = AtDoor /\ really'.ride = OnRide
        /\ really'.waits = "no" /\ really'.aboard = really.aboard
        /\ really'.plain = really.plain
    BY <1>0, <1>1, <2>1, Resting
  <2>3. Told(order, really) /\ order.status # "completed"
    BY <1>3, <2>1, <2>2 DEF Active
  <2>4. /\ order'.status = order.status /\ ~is_running(order')
        /\ order'.waiting_seconds = AtDoor + OnRide
        /\ order'.ride_waiting_seconds = OnRide
    BY <1>1, <2>1, <2>3, StopMeter, Stretches
  <2> QED BY <2>2, <2>3, <2>4 DEF Told, is_running
<1>8. CASE CompleteRide
  <2>1. order.status \in Active /\ really' = Rests /\ order' = Freeze(order)
    BY <1>8 DEF CompleteRide
  <2>2. /\ really'.door = AtDoor /\ really'.ride = OnRide
        /\ really'.waits = "no" /\ really'.plain = really.plain
    BY <1>0, <1>1, <2>1, Resting
  <2>3. Told(order, really) /\ order.status # "completed"
    BY <1>3, <2>1, <2>2 DEF Active
  <2>4. order'.status = "completed" /\ order'.waiting_cost = snapshot(order).cost
    BY <1>1, <2>1, Frozen
  <2>5. snapshot(order).cost = Price(AtDoor) + Price(OnRide)
    BY <2>3, SnapshotTold
  <2> QED BY <2>2, <2>4, <2>5 DEF Told
<1>9. CASE CarFails
  <2> DEFINE p == really.plain /\ ~is_running(order)
  <2>1. /\ order.status \in Active
        /\ order' = [order EXCEPT !.status = "searching"]
        /\ really' = [Rests EXCEPT !.aboard = FALSE, !.plain = p]
    BY <1>0, <1>1, <1>9, Resting DEF CarFails
  <2> HIDE DEF p
  <2>2. /\ p /\ really'.door = AtDoor /\ really'.ride = OnRide
        /\ really'.waits = "no" /\ ~really'.aboard
    BY <1>0, <1>1, <2>1, Resting DEF Street
  <2>3. really.plain /\ ~is_running(order)
    BY <2>2 DEF p
  <2>4. Told(order, really) /\ order.status # "completed"
    BY <1>3, <2>1, <2>3 DEF Active
  <2>5. really.waits = "no"
    BY <2>3, <2>4 DEF Told
  <2>6. AtDoor = really.door /\ OnRide = really.ride
    BY <1>2, <2>5 DEF AtDoor, OnRide, Lasts
  <2>7. /\ order'.status = "searching" /\ ~is_running(order')
        /\ order'.waiting_seconds = order.waiting_seconds
        /\ order'.ride_waiting_seconds = order.ride_waiting_seconds
    BY <1>1, <2>1, <2>3 DEF Order, is_running
  <2> QED BY <2>2, <2>4, <2>6, <2>7 DEF Told, is_running
<1>10. CASE Taken
  <2>1. /\ order.status = "searching" /\ really' = really
        /\ order' = [order EXCEPT !.status = "assigned"]
    BY <1>10 DEF Taken
  <2>2. Told(order, really)
    BY <1>3, <2>1
  <2>3. ~is_running(order) /\ really.waits = "no" /\ ~really.aboard
    BY <1>2, <2>1, <2>2 DEF Told
  <2>4. /\ order'.status = "assigned" /\ ~is_running(order')
        /\ order'.waiting_seconds = order.waiting_seconds
        /\ order'.ride_waiting_seconds = order.ride_waiting_seconds
    BY <1>1, <2>1, <2>3 DEF Order, is_running
  <2> QED BY <2>1, <2>2, <2>3, <2>4 DEF Told, is_running
<1>11. CASE CalledOff
  BY <1>1, <1>11 DEF CalledOff, Order
<1>12. CASE Tick \/ FinishPrompt \/ UNCHANGED vars
  <2>1. order' = order /\ really' = really
    BY <1>12 DEF Tick, FinishPrompt, vars
  <2> QED BY <1>3, <2>1 DEF Told, is_running
<1> QED
  BY <1>4, <1>5, <1>6, <1>7, <1>8, <1>9, <1>10, <1>11, <1>12 DEF Next

\* Whatever the buttons, the windows and the drivers, a plain ride is billed for the
\* waiting that took place: what snapshot shows while the meter runs, and what
\* finalize writes down, are the prices of the two stretches.
THEOREM BillIsFairHolds == Spec => []BillIsFair
<1>1. MeterInv /\ BillInv => BillIsFair
  <2> SUFFICES ASSUME MeterInv, BillInv, really.plain, order.status # "cancelled"
               PROVE  IF order.status = "completed"
                      THEN order.waiting_cost = Price(AtDoor) + Price(OnRide)
                      ELSE snapshot(order).cost = Price(AtDoor) + Price(OnRide)
    BY DEF BillIsFair
  <2>1. really \in Street /\ Told(order, really)
    BY DEF MeterInv, TypeOK, Street, BillInv
  <2>2. CASE order.status = "completed"
    <3>1. really.waits = "no" /\ order.waiting_cost = Price(really.door) + Price(really.ride)
      BY <2>1, <2>2 DEF Told
    <3>2. AtDoor = really.door /\ OnRide = really.ride
      BY <2>1, <3>1 DEF AtDoor, OnRide, Lasts, Street
    <3> QED BY <2>2, <3>1, <3>2
  <2>3. CASE order.status # "completed"
    BY <2>1, <2>3, SnapshotTold
  <2> QED BY <2>2, <2>3
<1> QED BY <1>1, InitMetered, StepMetered, InitTold, StepTold, PTL DEF Spec
=============================================================================
