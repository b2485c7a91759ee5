--------------------------- MODULE PassengerProofs ---------------------------
(***************************************************************************)
(* For any number of requests of a passenger, and whatever his old         *)
(* keyboards and cards still offer: what he types is heard by somebody, no *)
(* closed request comes back, the ratings are those of his reviews, and a  *)
(* booking is saved whole.                                                 *)
(***************************************************************************)
EXTENDS Passenger, FiniteSetTheorems, TLAPS

----------------------------------------------------------------------------
(* Numbers: the smallest of a set, and with it induction over the requests. *)

\* A set of numbers up to K has a smallest one.  The strict subsets of 0..K are
\* well-founded, and the smallest number has the smallest interval below it.
LEMMA Least ==
  ASSUME NEW K \in Nat, NEW T, T \subseteq 0..K, T # {}
  PROVE  \E x \in T : \A y \in T : x <= y
<1> DEFINE U == {0..x : x \in T}
<1>1. IsFiniteSet(0..K)
  BY FS_Interval
<1>2. FiniteSubsetsOf(0..K) = SUBSET (0..K)
  BY <1>1, FS_FiniteSubsetsOfFinite
<1>3. IsWellFoundedOn(StrictSubsetOrdering(0..K), SUBSET (0..K))
  BY <1>2, FS_StrictSubsetOrderingWellFounded
<1>4. U \subseteq SUBSET (0..K) /\ U # {}
  <2>1. ASSUME NEW x \in T PROVE 0..x \subseteq 0..K
    <3>1. x \in 0..K
      OBVIOUS
    <3> QED BY <3>1
  <2> QED BY <2>1
<1> HIDE DEF U
<1>5. PICK u \in U : \A v \in U : <<v, u>> \notin StrictSubsetOrdering(0..K)
  BY <1>3, <1>4, WFMin
<1>6. PICK x \in T : u = 0..x
  BY <1>5 DEF U
<1>7. ASSUME NEW y \in T PROVE x <= y
  <2>1. 0..y \in U
    BY DEF U
  <2>2. <<0..y, u>> \notin StrictSubsetOrdering(0..K)
    BY <1>5, <2>1
  <2>3. ~ (0..y \subseteq u /\ 0..y # u)
    BY <1>4, <1>5, <2>1, <2>2 DEF StrictSubsetOrdering
  <2>4. x \in Nat /\ y \in Nat
    OBVIOUS
  <2>5. ASSUME y < x PROVE FALSE
    <3>1. x \in 0..x /\ x \notin 0..y
      BY <2>4, <2>5
    <3>2. 0..y \subseteq 0..x
      BY <2>4, <2>5
    <3> QED BY <1>6, <2>3, <3>1, <3>2
  <2> QED BY <2>4, <2>5
<1> QED BY <1>7

\* What holds of zero, and of a number when it holds of the one before, holds of
\* every number up to K.
LEMMA UpTo ==
  ASSUME NEW K \in Nat, NEW P, 0 \in P,
         \A n \in 1..K : n - 1 \in P => n \in P
  PROVE  \A n \in 0..K : n \in P
<1>1. SUFFICES ASSUME (0..K) \ P # {} PROVE FALSE
  OBVIOUS
<1>2. PICK n \in (0..K) \ P : \A m \in (0..K) \ P : n <= m
  BY <1>1, Least
<1>3. n \in 1..K /\ n - 1 \in 0..K /\ ~(n <= n - 1)
  BY <1>2
<1> QED BY <1>2, <1>3

\* The requests are numbered from one.
LEMMA Numbers ==
  /\ Booked \in Nat /\ Booked >= 2
  /\ Order = 1..Booked
  /\ OrderLimit \in Order /\ 0 \notin Order /\ IsFiniteSet(Order)
<1>1. OrderLimit \in Nat /\ OrderLimit >= 1
  BY LimitAssumption
<1>2. IsFiniteSet(1..(OrderLimit + 1))
  BY <1>1, FS_Interval
<1> QED BY <1>1, <1>2 DEF Booked, Order

\* active_order_for finds an open request whenever there is one.
LEMMA ActiveIsOpen ==
  /\ Idle => \A o \in Order : stage[o] \notin Open
  /\ ~Idle => Active \in Order /\ stage[Active] \in Open
  /\ Active \in Order \union {0}
<1>1. CASE Actives = {}
  BY <1>1, Numbers DEF Active, Idle, Actives
<1>2. CASE Actives # {}
  <2> DEFINE T == {Booked - o : o \in Actives}
  <2>1. T \subseteq 0..Booked /\ T # {}
    BY <1>2, Numbers DEF Actives
  <2>2. PICK x \in T : \A y \in T : x <= y
    <3> HIDE DEF T
    <3> QED BY <2>1, Numbers, Least
  <2>3. PICK o \in Actives : x = Booked - o
    BY <2>2
  <2>4. \A p \in Actives : p <= o
    <3>1. ASSUME NEW p \in Actives PROVE p <= o
      <4>1. Booked - p \in T
        OBVIOUS
      <4>2. Booked - o <= Booked - p
        BY <2>2, <2>3, <4>1
      <4> QED BY <4>2, Numbers DEF Actives
    <3> QED BY <3>1
  <2>5. Active \in Actives
    BY <1>2, <2>4 DEF Active
  <2> QED BY <2>5, Numbers DEF Actives, Idle
<1> QED BY <1>1, <1>2

\* The next request has a number that no request had.
LEMMA NextIsNew ==
  ASSUME ~LimitReached
  PROVE  NextOrder \in Order /\ stage[NextOrder] = "unborn"
<1> DEFINE T == {o \in Order : stage[o] = "unborn"}
<1>1. OrderLimit \in T /\ T \subseteq 0..Booked
  BY Numbers DEF LimitReached
<1>2. PICK o \in T : \A p \in T : o <= p
  <2> HIDE DEF T
  <2> QED BY <1>1, Numbers, Least
<1>3. \A p \in 1..(o - 1) : stage[p] # "unborn"
  <2>1. ASSUME NEW p \in 1..(o - 1), stage[p] = "unborn" PROVE FALSE
    <3>1. p \in Order /\ p < o
      BY <1>2, Numbers
    <3> QED BY <1>2, <2>1, <3>1, Numbers
  <2> QED BY <2>1
<1> QED BY <1>2, <1>3 DEF NextOrder

----------------------------------------------------------------------------
(* The total of the stars.                                                  *)

\* The function that Total sums with.
Sums(f) == CHOOSE s : s = [o \in 0..Booked |-> IF o = 0 THEN 0 ELSE f[o] + s[o - 1]]

\* It exists, and its values are numbers.
LEMMA SumsAre ==
  ASSUME NEW f \in [Order -> Nat]
  PROVE  /\ Sums(f) \in [0..Booked -> Nat]
         /\ Sums(f)[0] = 0
         /\ \A o \in Order : Sums(f)[o] = f[o] + Sums(f)[o - 1]
<1> DEFINE Adds(g, n) == \A o \in 0..n : g[o] = IF o = 0 THEN 0 ELSE f[o] + g[o - 1]
           Reached == {n \in 0..Booked : \E g \in [0..n -> Nat] : Adds(g, n)}
<1>1. 0 \in Reached
  <2>1. [o \in 0..0 |-> 0] \in [0..0 -> Nat] /\ Adds([o \in 0..0 |-> 0], 0)
    OBVIOUS
  <2>2. 0 \in 0..Booked
    BY Numbers
  <2> HIDE DEF Adds
  <2> QED BY <2>1, <2>2
<1>2. ASSUME NEW n \in 1..Booked, n - 1 \in Reached PROVE n \in Reached
  <2>1. n - 1 \in 0..Booked /\ n \in 0..Booked /\ n \in Nat /\ n # 0 /\ n \in Order
    BY Numbers
  <2>2. PICK g \in [0..(n - 1) -> Nat] : Adds(g, n - 1)
    BY <1>2
  <2> DEFINE h == [o \in 0..n |-> IF o = n THEN f[n] + g[n - 1] ELSE g[o]]
  <2>3. h \in [0..n -> Nat]
    <3>1. \A o \in 0..n : o = n \/ o \in 0..(n - 1)
      BY <2>1
    <3>2. f[n] \in Nat /\ n - 1 \in 0..(n - 1)
      BY <2>1
    <3>3. g[n - 1] \in Nat
      BY <2>2, <3>2
    <3>4. f[n] + g[n - 1] \in Nat
      BY <3>2, <3>3
    <3> QED BY <2>2, <3>1, <3>4
  <2>4. ASSUME NEW o \in 0..n PROVE h[o] = IF o = 0 THEN 0 ELSE f[o] + h[o - 1]
    <3>1. CASE o = n
      <4>1. h[n - 1] = g[n - 1] /\ h[n] = f[n] + g[n - 1]
        BY <2>1
      <4> QED BY <2>1, <3>1, <4>1
    <3>2. CASE o # n
      <4>1. o \in 0..(n - 1) /\ h[o] = g[o]
        BY <2>1, <3>2
      <4>2. CASE o = 0
        BY <2>2, <4>1, <4>2
      <4>3. CASE o # 0
        <5>1. o - 1 \in 0..n /\ o - 1 # n
          BY <2>1, <4>1, <4>3
        <5>2. h[o - 1] = g[o - 1]
          BY <5>1
        <5> QED BY <2>2, <4>1, <4>3, <5>2
      <4> QED BY <4>2, <4>3
    <3> QED BY <3>1, <3>2
  <2>5. Adds(h, n)
    <3> HIDE DEF h
    <3> QED BY <2>4
  <2> HIDE DEF h
  <2> QED BY <2>1, <2>3, <2>5
<1>3. Booked \in Reached
  <2> HIDE DEF Reached
  <2>1. \A n \in 0..Booked : n \in Reached
    BY <1>1, <1>2, Numbers, UpTo
  <2> QED BY <2>1, Numbers
<1>4. PICK g \in [0..Booked -> Nat] : Adds(g, Booked)
  BY <1>3
<1>5. g = [o \in 0..Booked |-> IF o = 0 THEN 0 ELSE f[o] + g[o - 1]]
  BY <1>4
<1>6. Sums(f) = [o \in 0..Booked |-> IF o = 0 THEN 0 ELSE f[o] + Sums(f)[o - 1]]
  BY <1>5 DEF Sums
<1>7. Sums(f)[0] = 0 /\ \A o \in Order : Sums(f)[o] = f[o] + Sums(f)[o - 1]
  <2>1. 0 \in 0..Booked /\ \A o \in Order : o \in 0..Booked /\ o # 0
    BY Numbers
  <2> QED BY <1>6, <2>1
<1> DEFINE Good == {o \in 0..Booked : Sums(f)[o] \in Nat}
<1>8. ASSUME NEW n \in 1..Booked, n - 1 \in Good PROVE n \in Good
  <2>1. n \in Order /\ n \in 0..Booked /\ f[n] \in Nat /\ Sums(f)[n - 1] \in Nat
    BY <1>8, Numbers
  <2> QED BY <1>7, <2>1
<1>9. \A n \in 0..Booked : n \in Good
  <2>1. 0 \in Good
    BY <1>7, Numbers
  <2> HIDE DEF Good
  <2> QED BY <1>8, <2>1, Numbers, UpTo
<1> QED BY <1>6, <1>7, <1>9

\* Total is the last of the sums.
LEMMA TotalIs == \A f : Total(f) = Sums(f)[Booked]
BY DEF Total, Sums

\* Nothing adds up to nothing.
LEMMA NoTotal == Total([o \in Order |-> 0]) = 0
<1> DEFINE f == [o \in Order |-> 0]
           Zero == {n \in 0..Booked : Sums(f)[n] = 0}
<1>1. f \in [Order -> Nat] /\ \A o \in Order : f[o] = 0
  OBVIOUS
<1> HIDE DEF f
<1>2. /\ Sums(f)[0] = 0
      /\ \A o \in Order : Sums(f)[o] = f[o] + Sums(f)[o - 1]
  BY <1>1, SumsAre
<1>3. 0 \in Zero /\ \A n \in 1..Booked : n - 1 \in Zero => n \in Zero
  BY <1>1, <1>2, Numbers
<1>4. \A n \in 0..Booked : n \in Zero
  <2> HIDE DEF Zero
  <2> QED BY <1>3, Numbers, UpTo
<1>5. Sums(f)[Booked] = 0
  BY <1>4, Numbers
<1> QED BY <1>5, TotalIs DEF f

\* A total changes by what one of its parts changes.
LEMMA TotalChanges ==
  ASSUME NEW f \in [Order -> Nat], NEW o \in Order, NEW n \in Nat
  PROVE  /\ Total(f) \in Nat
         /\ Total([f EXCEPT ![o] = n]) = Total(f) - f[o] + n
<1> DEFINE h == [f EXCEPT ![o] = n]
           Moved(k) == IF k < o THEN 0 ELSE n - f[o]
           Good == {k \in 0..Booked : Sums(h)[k] = Sums(f)[k] + Moved(k)}
<1>1. h \in [Order -> Nat] /\ h[o] = n /\ \A p \in Order \ {o} : h[p] = f[p]
  OBVIOUS
<1> HIDE DEF h
<1>2. /\ Sums(f) \in [0..Booked -> Nat] /\ Sums(f)[0] = 0
      /\ \A k \in Order : Sums(f)[k] = f[k] + Sums(f)[k - 1]
  BY SumsAre
<1>3. /\ Sums(h) \in [0..Booked -> Nat] /\ Sums(h)[0] = 0
      /\ \A k \in Order : Sums(h)[k] = h[k] + Sums(h)[k - 1]
  BY <1>1, SumsAre
<1>4. ASSUME NEW k \in 1..Booked, k - 1 \in Good PROVE k \in Good
  <2>1. k - 1 \in 0..Booked /\ k \in 0..Booked /\ k \in Order /\ k \in Nat /\ o \in Nat
    BY Numbers
  <2>2. Sums(h)[k - 1] = Sums(f)[k - 1] + Moved(k - 1)
    BY <1>4
  <2>3. /\ Sums(f)[k] = f[k] + Sums(f)[k - 1]
        /\ Sums(h)[k] = h[k] + Sums(h)[k - 1]
    BY <1>2, <1>3, <2>1
  <2>4. /\ Sums(f)[k - 1] \in Nat /\ Sums(h)[k - 1] \in Nat
        /\ f[k] \in Nat /\ h[k] \in Nat /\ f[o] \in Nat
    BY <1>1, <1>2, <1>3, <2>1
  <2>5. CASE k = o
    <3>1. k - 1 < o /\ ~(k < o)
      BY <2>1, <2>5
    <3> QED BY <1>1, <2>1, <2>2, <2>3, <2>4, <2>5, <3>1
  <2>6. CASE k # o
    <3>1. (k - 1 < o) = (k < o) /\ h[k] = f[k]
      BY <1>1, <2>1, <2>6
    <3> QED BY <2>1, <2>2, <2>3, <2>4, <3>1
  <2> QED BY <2>5, <2>6
<1>5. 0 \in Good
  BY <1>2, <1>3, Numbers
<1>6. \A k \in 0..Booked : k \in Good
  <2> HIDE DEF Good
  <2> QED BY <1>4, <1>5, Numbers, UpTo
<1>7. Booked \in 0..Booked /\ ~(Booked < o)
  BY Numbers
<1>8. Sums(h)[Booked] = Sums(f)[Booked] + (n - f[o])
  BY <1>6, <1>7
<1>9. Sums(f)[Booked] \in Nat /\ f[o] \in Nat
  BY <1>2, <1>7
<1>10. Total(h) = Sums(h)[Booked] /\ Total(f) = Sums(f)[Booked]
  BY TotalIs
<1> QED BY <1>8, <1>9, <1>10 DEF h

----------------------------------------------------------------------------
(* The dialogue.                                                            *)

\* Every keyboard that a handler names is one.
LEMMA Keyboards ==
  {"main", "main_booked", "price", "price_back", "extras", "confirmation", "comment",
   "cancel", "entry", "after_cancel", "waiting", "assigned", "ride", "in_ride", "arrived",
   "pay", "none", "date", "booking_back", "booking_comment", "booking_confirm"}
    \subseteq Keyboard
<1>1. DOMAIN MainMenus = {"main", "main_booked", "price", "price_back"}
  BY DEF MainMenus
<1>2. DOMAIN OrderMenus = {"extras", "confirmation", "comment", "cancel", "entry", "after_cancel"}
  BY DEF OrderMenus
<1>3. DOMAIN RideMenus =
        {"waiting", "assigned", "ride", "in_ride", "arrived", "pay", "none"}
  BY DEF RideMenus
<1>4. DOMAIN BookingMenus = {"date", "booking_back", "booking_comment", "booking_confirm"}
  BY DEF BookingMenus
<1> QED BY <1>1, <1>2, <1>3, <1>4 DEF Keyboard

LEMMA MainMenuIsOne == MainMenu \in Keyboard
BY Keyboards DEF MainMenu

\* What the operators that answer him leave of the dialogue: Show changes the
\* keyboard, Goes the state and the number, Clean the data, About the number.
LEMMA ShowTalk ==
  \A t, k : t \in TalkRecord /\ k \in Keyboard =>
    /\ Show(t, k) \in TalkRecord
    /\ Show(t, k).state = t.state /\ Show(t, k).order = t.order
    /\ Show(t, k).draft = t.draft /\ Show(t, k).booking = t.booking
BY DEF Show, TalkRecord

LEMMA GoesTalk ==
  \A t, s : t \in TalkRecord /\ s \in State =>
    /\ Goes(t, s) \in TalkRecord
    /\ Goes(t, s).state = s /\ Goes(t, s).order = 0
    /\ Goes(t, s).draft = t.draft /\ Goes(t, s).booking = t.booking
BY DEF Goes, TalkRecord

LEMMA CleanTalk ==
  \A t : t \in TalkRecord =>
    /\ Clean(t) \in TalkRecord
    /\ Clean(t).state = t.state /\ Clean(t).order = 0
BY DEF Clean, TalkRecord

LEMMA AboutTalk ==
  \A t, o : t \in TalkRecord /\ o \in Order \union {0} =>
    /\ About(t, o) \in TalkRecord
    /\ About(t, o).state = t.state
    /\ About(t, o).order = IF t.state = "new_address" THEN o ELSE t.order
BY DEF About, TalkRecord

LEMMA ResetTalk ==
  \A t, k : t \in TalkRecord /\ k \in Keyboard =>
    /\ ResetTo(t, k) \in TalkRecord
    /\ ResetTo(t, k).state = "main"
BY ShowTalk, GoesTalk, CleanTalk DEF ResetTo, State

LEMMA HomeTalk ==
  \A t : t \in TalkRecord => Home(t) \in TalkRecord /\ Home(t).state = "main"
BY ShowTalk, GoesTalk, MainMenuIsOne DEF Home, State

LEMMA ToldTalk ==
  ASSUME talk \in TalkRecord, NEW t \in TalkRecord, Told(t)
  PROVE  talk' \in TalkRecord /\ talk'.state = t.state /\ talk'.order = t.order
<1>1. PICK k \in Keyboard : talk' = [t EXCEPT !.before = k]
  BY DEF Told, TalkRecord
<1> QED BY <1>1 DEF TalkRecord

LEMMA MenuTalk ==
  \A t, k : t \in TalkRecord /\ k \in Keyboard =>
    /\ [t EXCEPT !.menu = k] \in TalkRecord
    /\ [t EXCEPT !.menu = k].state = t.state /\ [t EXCEPT !.menu = k].order = t.order
BY DEF TalkRecord

----------------------------------------------------------------------------
(* The inductive invariant.                                                 *)

\* The types, but for the sum of the ratings, which only its parts keep above zero.
Shape ==
  /\ talk \in TalkRecord
  /\ stage \in [Order -> Stage]
  /\ stars \in [Order -> Stars \union {0}]
  /\ rating \in [sum : Int, count : Nat]
  /\ booking \in {"none", "pending", "assigned", "en_route"}
  /\ ride \in Order \union {0}
  /\ cards \subseteq Card
  /\ debt \in BOOLEAN

\* The request whose better address is awaited is not closed.
Addressed ==
  talk.state = "new_address" => debt \/ (talk.order \in Order /\ stage[talk.order] \in Live)

\* The ride of a booking that is en route is its own, and is not completed.
BookedRuns == booking = "en_route" => ride = Booked /\ stage[Booked] # "completed"

PInv ==
  /\ Shape
  /\ Addressed
  /\ BookedRuns
  /\ RatingAddsUp
  /\ BookingIsComplete

\* A step that leaves the closed requests alone.
StaysClosed == \A o \in Order : stage[o] \in Closed => stage'[o] = stage[o]

\* A step that is not late ends nothing twice, and leaves him heard.
Steady == StaysClosed /\ (Heard => Heard')

\* A handler that only answers ends the listening, or leaves it as it was, or has
\* found an open request.
Answered ==
  \/ talk'.state \notin Attentive
  \/ talk'.state = talk.state /\ talk'.order = talk.order
  \/ talk'.state # "new_address" /\ ~Idle

Answers ==
  /\ talk' \in TalkRecord
  /\ Answered
  /\ cards' \subseteq Card
  /\ UNCHANGED <<stage, stars, rating, booking, ride, created, debt>>

LEMMA AnswersKeep ==
  ASSUME PInv, Answers
  PROVE  PInv' /\ Steady
<1> USE DEF PInv, Answers
<1>1. Shape' /\ StaysClosed
  BY DEF Shape, StaysClosed
<1>2. (Heard => Heard') /\ Addressed'
  <2>1. CASE talk'.state \notin Attentive
    BY <2>1 DEF Heard, Addressed, Attentive
  <2>2. CASE talk'.state = talk.state /\ talk'.order = talk.order
    BY <2>2 DEF Heard, Addressed
  <2>3. CASE talk'.state # "new_address" /\ ~Idle
    <3>1. Active \in Order /\ stage[Active] \in Live
      BY <2>3, ActiveIsOpen DEF Live
    <3> QED BY <2>3, <3>1 DEF Heard, Addressed
  <2> QED BY <2>1, <2>2, <2>3 DEF Answered
<1>3. BookedRuns' /\ RatingAddsUp' /\ BookingIsComplete'
  BY DEF BookedRuns, RatingAddsUp, BookingIsComplete
<1> QED BY <1>1, <1>2, <1>3 DEF Steady

\* A request gets another stage; one that moves was not closed.
Changes(o, s) ==
  /\ Become(o, s)
  /\ talk' \in TalkRecord
  /\ \/ talk'.state \notin Attentive
     \/ debt'
     \/ s \in Live /\ talk'.state # "new_address"
     \/ s \in Live /\ talk'.order = o
     \/ s \in Live /\ talk'.state = talk.state /\ talk'.order = talk.order /\ (debt => debt')
  /\ cards' \subseteq Card
  /\ debt' \in BOOLEAN
  /\ UNCHANGED <<stars, rating, created>>

Moves(o, s) == Changes(o, s) /\ stage[o] \notin Closed

LEMMA ChangesKeep ==
  ASSUME PInv, NEW o \in Order, NEW s \in Stage, Changes(o, s),
         booking' \in {"none", "pending", "assigned", "en_route"},
         ride' \in Order \union {0}, BookedRuns'
  PROVE  /\ PInv' /\ (Heard => Heard')
         /\ \A p \in Order : p # o => stage'[p] = stage[p]
<1> USE DEF PInv
<1>1. /\ stage' \in [Order -> Stage]
      /\ stage'[o] = s
      /\ \A p \in Order : p # o => stage'[p] = stage[p]
  BY DEF Shape, Changes, Become
<1>2. Shape'
  BY <1>1 DEF Shape, Changes
<1>3. Heard => Heard'
  <2>1. CASE s \in Live
    BY <1>1, <2>1 DEF Heard
  <2>2. CASE s \notin Live
    BY <2>2 DEF Heard, Changes
  <2> QED BY <2>1, <2>2
<1>4. Addressed'
  <2>1. CASE s \in Live /\ talk'.state = talk.state /\ talk'.order = talk.order /\ (debt => debt')
    BY <1>1, <2>1 DEF Addressed
  <2>2. CASE ~(s \in Live /\ talk'.state = talk.state /\ talk'.order = talk.order /\ (debt => debt'))
    BY <1>1, <2>2 DEF Addressed, Changes, Attentive
  <2> QED BY <2>1, <2>2
<1>5. RatingAddsUp' /\ BookingIsComplete'
  BY DEF RatingAddsUp, BookingIsComplete, Changes
<1> QED BY <1>1, <1>2, <1>3, <1>4, <1>5

LEMMA MovesKeep ==
  ASSUME PInv, NEW o \in Order, NEW s \in Stage, Moves(o, s),
         booking' \in {"none", "pending", "assigned", "en_route"},
         ride' \in Order \union {0}, BookedRuns'
  PROVE  PInv' /\ Steady
BY ChangesKeep DEF Moves, Steady, StaysClosed

\* Usually the booking is left alone.
LEMMA BookingIsLeft ==
  ASSUME PInv, NEW o \in Order, NEW s \in Stage, Changes(o, s),
         s # "completed", KeepBooking
  PROVE  /\ booking' \in {"none", "pending", "assigned", "en_route"}
         /\ ride' \in Order \union {0}
         /\ BookedRuns'
<1>1. /\ booking' \in {"none", "pending", "assigned", "en_route"}
      /\ ride' \in Order \union {0}
  BY DEF PInv, Shape, KeepBooking
<1>2. BookedRuns'
  <2>1. Booked \in Order
    BY Numbers
  <2>2. stage'[Booked] = s \/ stage'[Booked] = stage[Booked]
    BY <2>1 DEF PInv, Shape, Changes, Become
  <2> QED BY <2>2 DEF PInv, BookedRuns, KeepBooking
<1> QED BY <1>1, <1>2

LEMMA MovesAloneKeep ==
  ASSUME PInv, NEW o \in Order, NEW s \in Stage, Moves(o, s),
         s # "completed", KeepBooking
  PROVE  PInv' /\ Steady
<1>1. Changes(o, s)
  BY DEF Moves
<1> QED BY <1>1, BookingIsLeft, MovesKeep

----------------------------------------------------------------------------
(* His messages that only bring answers.                                    *)

LEMMA NavigateAnswers ==
  ASSUME PInv, Navigate
  PROVE  Answers
<1> USE Keyboards, MainMenuIsOne, ShowTalk, GoesTalk, CleanTalk, HomeTalk, ResetTalk
<1>1. talk \in TalkRecord /\ cards \subseteq Card
  BY DEF PInv, Shape
<1> USE DEF OnlyTalk, Answers, Answered, Attentive, State
<1>2. CASE MenuWord
  BY <1>1, <1>2 DEF MenuWord
<1>3. CASE CancelFlow
  BY <1>1, <1>3 DEF CancelFlow
<1>4. CASE ShowRules
  BY <1>1, <1>4 DEF ShowRules
<1>5. CASE ShowFreeDrivers
  BY <1>1, <1>5 DEF ShowFreeDrivers
<1>6. CASE ShowPrice
  BY <1>1, <1>6 DEF ShowPrice
<1>7. CASE PriceBack
  BY <1>1, <1>7 DEF PriceBack
<1>8. CASE PriceCalculateStart
  BY <1>1, <1>8 DEF PriceCalculateStart
<1>9. CASE PriceCalculateRoute
  BY <1>1, <1>9 DEF PriceCalculateRoute
<1>10. CASE ShowOldSections
  BY <1>1, <1>10 DEF ShowOldSections
<1>11. CASE CheckSubscription
  BY <1>1, <1>11 DEF CheckSubscription
<1>12. CASE OrderStatus
  BY <1>1, <1>12 DEF OrderStatus
<1>13. CASE WaitRemaining
  BY <1>1, <1>13 DEF WaitRemaining
<1> QED
  BY <1>2, <1>3, <1>4, <1>5, <1>6, <1>7, <1>8, <1>9, <1>10, <1>11, <1>12, <1>13 DEF Navigate

----------------------------------------------------------------------------
(* Making a request.                                                        *)

\* start_new_order asks for the addresses, or leaves the dialogue as it is.
LEMMA StartTalk ==
  \A t : t \in TalkRecord =>
    /\ StartOrder(t) \in TalkRecord
    /\ \/ StartOrder(t).state = "addr"
       \/ StartOrder(t).state = t.state /\ StartOrder(t).order = t.order
BY Keyboards, ShowTalk, GoesTalk, CleanTalk DEF StartOrder, State

\* A request is made of a complete draft only, under a new number.
LEMMA CreateKeeps ==
  ASSUME PInv, NEW t \in TalkRecord, CreateOrder(t),
         t.draft = {"from", "to"} \/ (t.state = talk.state /\ t.order = talk.order)
  PROVE  PInv' /\ Steady
<1>1. UNCHANGED <<stars, rating, booking, ride, created, cards, debt>>
  BY DEF CreateOrder
<1>2. CASE LimitReached /\ talk' = ResetTo(t, "main") /\ UNCHANGED stage
  <2>1. talk' \in TalkRecord /\ talk'.state = "main"
    BY <1>2, Keyboards, ResetTalk
  <2>2. Answers
    BY <1>1, <1>2, <2>1 DEF Answers, Answered, Attentive, PInv, Shape
  <2> QED BY <2>2, AnswersKeep
<1>3. CASE t.draft # {"from", "to"} /\ talk' = StartOrder(t) /\ UNCHANGED stage
  <2>1. /\ talk' \in TalkRecord
        /\ talk'.state = "addr" \/ (talk'.state = talk.state /\ talk'.order = talk.order)
    BY <1>3, StartTalk
  <2>2. Answers
    BY <1>1, <1>3, <2>1 DEF Answers, Answered, Attentive, PInv, Shape
  <2> QED BY <2>2, AnswersKeep
<1>4. CASE /\ ~LimitReached
           /\ talk' = Goes(Show(Clean(t), "waiting"), "waiting")
           /\ Become(NextOrder, "searching")
  <2>1. talk' \in TalkRecord /\ talk'.state = "waiting"
    BY <1>4, Keyboards, ShowTalk, GoesTalk, CleanTalk DEF State
  <2>2. NextOrder \in Order /\ stage[NextOrder] = "unborn"
    BY <1>4, NextIsNew
  <2>3. Moves(NextOrder, "searching")
    BY <1>1, <1>4, <2>1, <2>2 DEF Moves, Changes, Closed, Attentive, PInv, Shape
  <2>4. "searching" \in Stage
    BY DEF Stage
  <2> QED BY <1>1, <2>2, <2>3, <2>4, MovesAloneKeep DEF KeepBooking
<1> QED BY <1>2, <1>3, <1>4 DEF CreateOrder

LEMMA OrdersKeep ==
  ASSUME PInv, Orders
  PROVE  PInv' /\ Steady
<1> USE Keyboards, MainMenuIsOne, ShowTalk, GoesTalk, CleanTalk, HomeTalk, ResetTalk
<1>1. talk \in TalkRecord /\ cards \subseteq Card
  BY DEF PInv, Shape
<1>2. /\ [Clean(talk) EXCEPT !.draft = {"from", "to"}] \in TalkRecord
      /\ [Clean(talk) EXCEPT !.draft = {"from", "to"}].draft = {"from", "to"}
      /\ [talk EXCEPT !.draft = {"from", "to"}] \in TalkRecord
      /\ [talk EXCEPT !.draft = {"from", "to"}].draft = {"from", "to"}
  <2> DEFINE c == Clean(talk)
  <2>1. c \in TalkRecord
    BY <1>1
  <2> HIDE DEF c
  <2>2. /\ [c EXCEPT !.draft = {"from", "to"}] \in TalkRecord
        /\ [c EXCEPT !.draft = {"from", "to"}].draft = {"from", "to"}
    BY <2>1 DEF TalkRecord
  <2>3. /\ [talk EXCEPT !.draft = {"from", "to"}] \in TalkRecord
        /\ [talk EXCEPT !.draft = {"from", "to"}].draft = {"from", "to"}
    BY <1>1 DEF TalkRecord
  <2> QED BY <2>2, <2>3 DEF c
<1>3. CASE NewOrder
  <2>1. Answers
    BY <1>1, <1>3, StartTalk DEF NewOrder, OnlyTalk, Answers, Answered, Attentive
  <2> QED BY <2>1, AnswersKeep
<1>4. CASE SetAddresses
  BY <1>2, <1>4, CreateKeeps DEF SetAddresses
<1>5. CASE FreightText \/ TextWaits
  <2>1. Answers
    BY <1>1, <1>5 DEF FreightText, TextWaits, OnlyTalk, Answers, Answered, Attentive
  <2> QED BY <2>1, AnswersKeep
<1>6. CASE TextOrder
  <2>1. CASE CreateOrder([Clean(talk) EXCEPT !.draft = {"from", "to"}])
    BY <1>2, <2>1, CreateKeeps
  <2>2. CASE (talk' = Home(talk) \/ talk' = Show(talk, "main")) /\ OnlyTalk
    <3>1. Answers
      BY <1>1, <2>2 DEF OnlyTalk, Answers, Answered, Attentive
    <3> QED BY <3>1, AnswersKeep
  <2> QED BY <1>6, <2>1, <2>2 DEF TextOrder
<1>7. CASE EditOrder
  <2> DEFINE t == Goes(Show(Clean(talk), "entry"), "addr")
  <2>1. t \in TalkRecord /\ t.state = "addr" /\ talk.draft \in SUBSET {"from", "to"}
    BY <1>1 DEF State, TalkRecord
  <2>2. talk' = [t EXCEPT !.draft = talk.draft] /\ OnlyTalk
    BY <1>7 DEF EditOrder
  <2> HIDE DEF t
  <2>3. talk' \in TalkRecord /\ talk'.state = "addr"
    BY <2>1, <2>2 DEF TalkRecord
  <2>4. Answers
    BY <1>1, <2>2, <2>3 DEF OnlyTalk, Answers, Answered, Attentive
  <2> QED BY <2>4, AnswersKeep
<1>8. CASE ConfirmOrder
  BY <1>1, <1>8, CreateKeeps DEF ConfirmOrder
<1>9. CASE RepeatOrder
  <2>1. CASE CreateOrder([talk EXCEPT !.draft = {"from", "to"}])
    BY <1>2, <2>1, CreateKeeps
  <2>2. CASE /\ talk' = Home(talk) \/ talk' = Show(talk, "waiting") \/ talk' = Show(talk, "main")
             /\ OnlyTalk
    <3>1. Answers
      BY <1>1, <2>2 DEF OnlyTalk, Answers, Answered, Attentive
    <3> QED BY <3>1, AnswersKeep
  <2> QED BY <1>9, <2>1, <2>2 DEF RepeatOrder
<1>10. CASE ToggleService \/ FinishExtras
  <2>1. Answers
    BY <1>1, <1>10 DEF ToggleService, FinishExtras, OnlyTalk, Answers, Answered, Attentive, State
  <2> QED BY <2>1, AnswersKeep
<1> QED
  BY <1>3, <1>4, <1>5, <1>6, <1>7, <1>8, <1>9, <1>10 DEF Orders

\* A step of the draft.
LEMMA DraftStepAnswers ==
  ASSUME PInv, NEW s, NEW part \in SUBSET {"from", "to"},
         NEW next \in State \ Attentive, NEW k \in Keyboard, DraftStep(s, part, next, k)
  PROVE  Answers
<1> DEFINE t == Goes(Show(talk, k), next)
<1>1. talk \in TalkRecord /\ cards \subseteq Card
  BY DEF PInv, Shape
<1>2. t \in TalkRecord /\ t.state = next
  BY <1>1, ShowTalk, GoesTalk
<1>3. talk' = [t EXCEPT !.draft = t.draft \union part] /\ OnlyTalk
  BY DEF DraftStep
<1> HIDE DEF t
<1>4. talk' \in TalkRecord /\ talk'.state = next
  BY <1>2, <1>3 DEF TalkRecord
<1> QED BY <1>1, <1>3, <1>4 DEF OnlyTalk, Answers, Answered

LEMMA OldStepsKeep ==
  ASSUME PInv, OldSteps
  PROVE  PInv' /\ Steady
<1> USE Keyboards, ShowTalk, GoesTalk, CleanTalk, ResetTalk
<1>1. talk \in TalkRecord /\ cards \subseteq Card
  BY DEF PInv, Shape
<1>2. talk.draft \in SUBSET {"from", "to"} /\ talk.menu \in Keyboard
  BY <1>1 DEF TalkRecord
<1>3. CASE ChooseOrderType
  <2> DEFINE t == Goes(Show(Clean(talk), "entry"), "addr")
             u == Goes(Show(Clean(talk), "cancel"), "delivery_from")
  <2>1. t \in TalkRecord /\ t.state = "addr" /\ u \in TalkRecord /\ u.state = "delivery_from"
    BY <1>1 DEF State
  <2>2. /\ talk' = [t EXCEPT !.draft = talk.draft] \/ talk' = [u EXCEPT !.draft = talk.draft]
        /\ OnlyTalk
    BY <1>3 DEF ChooseOrderType
  <2> HIDE DEF t, u
  <2>3. talk' \in TalkRecord /\ talk'.state \in {"addr", "delivery_from"}
    BY <1>2, <2>1, <2>2 DEF TalkRecord
  <2>4. Answers
    BY <1>1, <2>2, <2>3 DEF OnlyTalk, Answers, Answered, Attentive
  <2> QED BY <2>4, AnswersKeep
<1>4. CASE SetOrderCity
  <2>1. Answers
    BY <1>1, <1>4 DEF SetOrderCity, OnlyTalk, Answers, Answered, Attentive, State
  <2> QED BY <2>1, AnswersKeep
<1>5. CASE OrderSetTo
  <2> DEFINE t == Goes(Show(Clean(talk), "extras"), "extras")
  <2>1. t \in TalkRecord /\ t.state = "extras"
    BY <1>1 DEF State
  <2>2. talk' = [t EXCEPT !.draft = talk.draft \union {"to"}] /\ OnlyTalk
    BY <1>5 DEF OrderSetTo
  <2> HIDE DEF t
  <2>3. talk' \in TalkRecord /\ talk'.state = "extras"
    BY <1>2, <2>1, <2>2 DEF TalkRecord
  <2>4. Answers
    BY <1>1, <2>2, <2>3 DEF OnlyTalk, Answers, Answered, Attentive
  <2> QED BY <2>4, AnswersKeep
<1>6. CASE OrderSetFrom \/ DeliverySetFrom \/ DeliverySetTo \/ DeliverySetWhat
  <2>1. {"to", "delivery_to", "delivery_what", "delivery_comment"} \subseteq State \ Attentive
    BY DEF State, Attentive
  <2>2. Answers
    BY <1>2, <1>6, <2>1, DraftStepAnswers
       DEF OrderSetFrom, DeliverySetFrom, DeliverySetTo, DeliverySetWhat
  <2> QED BY <2>2, AnswersKeep
<1>7. CASE DeliverySetComment
  BY <1>1, <1>7, CreateKeeps DEF DeliverySetComment
<1> QED BY <1>3, <1>4, <1>5, <1>6, <1>7 DEF OldSteps

----------------------------------------------------------------------------
(* Cancelling, and answers during a trip.                                   *)

\* A handler that reads first answers at once, or finds an open request, which is
\* not closed, or the one it was asked about.
Reads ==
  /\ PInv' /\ Steady
  /\ \/ UNCHANGED found
     \/ \E by \in Handler, o \in Order : Finds(by, o) /\ stage[o] \notin Closed

LEMMA AnswersRead ==
  ASSUME PInv, Answers, UNCHANGED found
  PROVE  Reads
BY AnswersKeep DEF Reads

\* It has found one, and written nothing.
LEMMA FindsReads ==
  ASSUME PInv, NEW by \in Handler, NEW o \in Order, stage[o] \notin Closed, Finds(by, o),
         UNCHANGED <<talk, stage, stars, rating, booking, ride, created, cards, debt>>
  PROVE  Reads
<1>1. Answers
  BY DEF Answers, Answered, PInv, Shape
<1> QED BY <1>1, AnswersKeep DEF Reads

LEMMA ActiveReads ==
  ASSUME PInv, ~Idle, NEW by \in Handler, Finds(by, Active),
         UNCHANGED <<talk, stage, stars, rating, booking, ride, created, cards, debt>>
  PROVE  Reads
<1>1. Active \in Order /\ stage[Active] \notin Closed
  BY ActiveIsOpen DEF Open, Closed
<1> QED BY <1>1, FindsReads

LEMMA CancelActiveReads ==
  ASSUME PInv, CancelActive
  PROVE  Reads
<1> USE Keyboards, MainMenuIsOne, ShowTalk, GoesTalk, CleanTalk, HomeTalk
<1>1. talk \in TalkRecord /\ cards \subseteq Card /\ debt \in BOOLEAN
  BY DEF PInv, Shape
<1>2. UNCHANGED <<stage, stars, rating, booking, ride, created, cards, debt>>
  BY DEF CancelActive
<1>3. CASE (talk' = Home(talk) \/ talk' = Show(talk, "in_ride")) /\ UNCHANGED found
  <2>1. Answers
    BY <1>1, <1>2, <1>3 DEF Answers, Answered, Attentive
  <2> QED BY <1>3, <2>1, AnswersRead
<1>4. CASE ~Idle /\ (Finds("cancel", Active) \/ Finds("falseCall", Active)) /\ UNCHANGED talk
  <2>1. {"cancel", "falseCall"} \subseteq Handler
    BY DEF Handler
  <2> QED BY <1>2, <1>4, <2>1, ActiveReads
<1> QED BY <1>3, <1>4 DEF CancelActive

LEMMA CancelRequestReads ==
  ASSUME PInv, CancelRequest
  PROVE  Reads
<1>1. CASE CancelActive
  BY <1>1, CancelActiveReads
<1>2. CASE /\ cards' = cards \union {<<"confirm", 0>>}
           /\ KeepOrders /\ KeepBooking /\ UNCHANGED <<talk, debt, found>>
  <2>1. cards' \subseteq Card
    BY <1>2 DEF PInv, Shape, Card
  <2>2. Answers
    BY <1>2, <2>1 DEF PInv, Shape, KeepOrders, KeepBooking, Answers, Answered
  <2> QED BY <1>2, <2>2, AnswersRead
<1> QED BY <1>1, <1>2 DEF CancelRequest

LEMMA DepartureResponseReads ==
  ASSUME PInv, DepartureResponse
  PROVE  Reads
<1> USE Keyboards, ShowTalk, GoesTalk, CleanTalk, HomeTalk, AboutTalk
<1>1. talk \in TalkRecord /\ cards \subseteq Card
  BY DEF PInv, Shape
<1>2. CASE CancelRequest
  BY <1>2, CancelRequestReads
<1>3. CASE /\ \/ talk' = Home(talk)
              \/ talk' = About(Goes(Show(talk, "ride"), "in_ride"), Active)
           /\ OnlyTalk /\ UNCHANGED found
  <2>1. Answers
    BY <1>1, <1>3, ActiveIsOpen DEF OnlyTalk, Answers, Answered, Attentive, State
  <2> QED BY <1>3, <2>1, AnswersRead
<1> QED BY <1>2, <1>3 DEF DepartureResponse

LEMMA ArrivedReplyReads ==
  ASSUME PInv, ArrivedReply
  PROVE  Reads
<1> USE Keyboards, ShowTalk, GoesTalk, HomeTalk
<1>1. talk \in TalkRecord /\ cards \subseteq Card
  BY DEF PInv, Shape
<1>2. OnlyTalk
  BY DEF ArrivedReply
<1>3. CASE (talk' = Home(talk) \/ talk' = Show(talk, "in_ride")) /\ UNCHANGED found
  <2>1. Answers
    BY <1>1, <1>2, <1>3 DEF OnlyTalk, Answers, Answered, Attentive
  <2> QED BY <1>3, <2>1, AnswersRead
<1>4. CASE ~Idle /\ Finds("reply", Active) /\ UNCHANGED talk
  <2>1. "reply" \in Handler
    BY DEF Handler
  <2> QED BY <1>2, <1>4, <2>1, ActiveReads DEF OnlyTalk
<1> QED BY <1>3, <1>4 DEF ArrivedReply

LEMMA EnterChatReads ==
  ASSUME PInv, EnterChat
  PROVE  Reads
<1>1. talk \in TalkRecord /\ cards \subseteq Card
  BY DEF PInv, Shape
<1>2. OnlyTalk
  BY DEF EnterChat
<1>3. CASE talk' = Home(talk) /\ UNCHANGED found
  <2>1. Answers
    BY <1>1, <1>2, <1>3, HomeTalk DEF OnlyTalk, Answers, Answered, Attentive
  <2> QED BY <1>3, <2>1, AnswersRead
<1>4. CASE ~Idle /\ Finds("chat", Active) /\ UNCHANGED talk
  <2>1. "chat" \in Handler
    BY DEF Handler
  <2> QED BY <1>2, <1>4, <2>1, ActiveReads DEF OnlyTalk
<1> QED BY <1>3, <1>4 DEF EnterChat

\* The better address belongs to a request that is not closed yet.
LEMMA UpdateAddressReads ==
  ASSUME PInv, UpdateAddress
  PROVE  Reads
<1> DEFINE o == IF talk.order # 0 THEN talk.order ELSE Active
<1>1. talk \in TalkRecord /\ talk.state = "new_address" /\ ~debt
  BY DEF PInv, Shape, UpdateAddress, TypesIn
<1>2. o \in Order /\ stage[o] \in Live
  BY <1>1, Numbers DEF PInv, Addressed
<1>3. Finds("address", o) /\ UNCHANGED talk /\ OnlyTalk
  BY <1>2, Numbers DEF UpdateAddress
<1> HIDE DEF o
<1>4. stage[o] \notin Closed /\ "address" \in Handler
  BY <1>2 DEF Live, Open, Closed, Handler
<1> QED BY <1>2, <1>3, <1>4, FindsReads DEF OnlyTalk

----------------------------------------------------------------------------
(* The late steps.                                                          *)

\* A handler acts upon the request it has found, whatever became of it: others are
\* left alone, and only a chat, or an answer, opens a dialogue that listens.
Late ==
  /\ PInv' /\ found' = Nothing
  /\ \A o \in Order : o # found.order => stage'[o] = stage[o]
  /\ found.by \in {"chat", "reply"} \/ (Heard => Heard')

LEMMA CancelActsLate ==
  ASSUME PInv, found.order \in Order, CancelActs
  PROVE  Late
<1> USE Keyboards, MainMenuIsOne, ShowTalk, GoesTalk, CleanTalk
<1>1. talk \in TalkRecord /\ cards \subseteq Card /\ debt \in BOOLEAN
  BY DEF PInv, Shape
<1>2. /\ Become(found.order, "cancelled") /\ found' = Nothing
      /\ UNCHANGED <<stars, rating, booking, ride, created, cards>>
      /\ \/ talk' = Goes(Show(Clean(talk), MainMenu), "main") /\ UNCHANGED debt
         \/ talk' = Show(talk, "pay") /\ debt' = TRUE
  BY DEF CancelActs, Acts
<1>3. talk' \in TalkRecord /\ (talk'.state = "main" \/ debt' = TRUE)
  BY <1>1, <1>2 DEF State
<1>4. debt' \in BOOLEAN
  BY <1>1, <1>2
<1>5. Changes(found.order, "cancelled") /\ KeepBooking
  BY <1>1, <1>2, <1>3, <1>4 DEF Changes, Attentive, KeepBooking
<1>6. "cancelled" \in Stage
  BY DEF Stage
<1> QED BY <1>2, <1>5, <1>6, BookingIsLeft, ChangesKeep DEF Late

LEMMA UpdateAddressActsLate ==
  ASSUME PInv, found.order \in Order, UpdateAddressActs
  PROVE  Late
<1>1. talk \in TalkRecord /\ cards \subseteq Card /\ debt \in BOOLEAN
  BY DEF PInv, Shape
<1>2. /\ Become(found.order, "searching") /\ found' = Nothing
      /\ talk' = Goes(Show(Clean(talk), "waiting"), "waiting")
      /\ UNCHANGED <<stars, rating, booking, ride, created, cards, debt>>
  BY DEF UpdateAddressActs, Acts
<1>3. talk' \in TalkRecord /\ talk'.state = "waiting"
  BY <1>1, <1>2, Keyboards, ShowTalk, GoesTalk, CleanTalk DEF State
<1>4. Changes(found.order, "searching") /\ KeepBooking
  BY <1>1, <1>2, <1>3 DEF Changes, Attentive, KeepBooking
<1>5. "searching" \in Stage
  BY DEF Stage
<1> QED BY <1>2, <1>4, <1>5, BookingIsLeft, ChangesKeep DEF Late

LEMMA ListeningLate ==
  ASSUME PInv, ArrivedReplyActs \/ EnterChatActs
  PROVE  Late
<1> USE Keyboards, ShowTalk, GoesTalk
<1>1. talk \in TalkRecord
  BY DEF PInv, Shape
<1>2. /\ found' = Nothing /\ found.by \in {"chat", "reply"}
      /\ UNCHANGED <<stage, stars, rating, booking, ride, created, cards, debt>>
      /\ \/ talk' = Goes(Show(talk, "in_ride"), "arrived")
         \/ talk' = Goes(talk, "chat")
  BY DEF ArrivedReplyActs, EnterChatActs, Acts, OnlyTalk
<1>3. talk' \in TalkRecord /\ talk'.state \in {"arrived", "chat"}
  BY <1>1, <1>2 DEF State
<1>4. Shape' /\ Addressed'
  BY <1>2, <1>3 DEF PInv, Shape, Addressed
<1>5. BookedRuns' /\ RatingAddsUp' /\ BookingIsComplete'
  BY <1>2 DEF PInv, BookedRuns, RatingAddsUp, BookingIsComplete
<1> QED BY <1>2, <1>4, <1>5 DEF Late, PInv

LEMMA RestsAreLate ==
  ASSUME PInv, found \in Found, Rests
  PROVE  Late
<1>1. found.order \in Order
  <2>1. found # Nothing
    BY DEF Rests, CancelActs, UpdateAddressActs, ArrivedReplyActs, EnterChatActs, Acts, Nothing
  <2> QED BY <2>1 DEF Found
<1> QED BY <1>1, CancelActsLate, UpdateAddressActsLate, ListeningLate DEF Rests

----------------------------------------------------------------------------
(* The answers to two cards, and the other messages of a trip.              *)

LEMMA QueueAnswerKeeps ==
  ASSUME PInv, NEW o \in Order, NEW actual \in BOOLEAN, QueueAnswer(o, actual)
  PROVE  PInv' /\ Steady
<1> USE Keyboards, ShowTalk, GoesTalk, CleanTalk, ResetTalk, AboutTalk
<1>1. talk \in TalkRecord /\ cards \subseteq Card /\ debt \in BOOLEAN
  BY DEF PInv, Shape
<1>2. CASE /\ \/ talk' = ResetTo(talk, "main")
              \/ talk' = About(Goes(Show(Clean(talk), "waiting"), "waiting"), o)
           /\ OnlyTalk
  <2>1. Answers
    BY <1>1, <1>2 DEF OnlyTalk, Answers, Answered, Attentive, State
  <2> QED BY <2>1, AnswersKeep
<1>3. CASE /\ stage[o] = "searching"
           /\ Become(o, "cancelled")
           /\ talk' = ResetTo(talk, "after_cancel")
           /\ UNCHANGED <<stars, rating, booking, ride, created, cards, debt>>
  <2>1. Moves(o, "cancelled") /\ "cancelled" \in Stage
    BY <1>1, <1>3 DEF Moves, Changes, Closed, Attentive, Stage
  <2> QED BY <1>3, <2>1, MovesAloneKeep DEF KeepBooking
<1> QED BY <1>2, <1>3 DEF QueueAnswer

LEMMA PriceAnswerKeeps ==
  ASSUME PInv, NEW o \in Order, NEW agree \in BOOLEAN, PriceAnswer(o, agree)
  PROVE  PInv' /\ Steady
<1> USE Keyboards, ShowTalk, GoesTalk, ResetTalk, AboutTalk
<1>1. talk \in TalkRecord /\ cards \subseteq Card /\ debt \in BOOLEAN
  BY DEF PInv, Shape
<1>2. stage[o] \notin Closed /\ UNCHANGED <<stars, rating, booking, ride, created, cards, debt>>
  BY DEF PriceAnswer, Closed
<1>3. CASE /\ Become(o, "assigned")
           /\ talk' = About(Goes(Show(talk, "ride"), "in_ride"), o)
  <2>1. Moves(o, "assigned") /\ "assigned" \in Stage
    BY <1>1, <1>2, <1>3 DEF Moves, Changes, Attentive, Stage, State
  <2> QED BY <1>2, <2>1, MovesAloneKeep DEF KeepBooking
<1>4. CASE Become(o, "cancelled") /\ talk' = ResetTo(talk, "main")
  <2>1. Moves(o, "cancelled") /\ "cancelled" \in Stage
    BY <1>1, <1>2, <1>4 DEF Moves, Changes, Attentive, Stage
  <2> QED BY <1>2, <2>1, MovesAloneKeep DEF KeepBooking
<1> QED BY <1>3, <1>4 DEF PriceAnswer

LEMMA RidesKeep ==
  ASSUME PInv, Rides
  PROVE  PInv' /\ Steady
<1> USE Keyboards, ShowTalk, GoesTalk, CleanTalk, HomeTalk, AboutTalk
<1>1. talk \in TalkRecord /\ cards \subseteq Card
  BY DEF PInv, Shape
<1>2. CASE CancelWithdrawn \/ ChatForward \/ ExitChat
  <2>1. Answers
    BY <1>1, <1>2, ActiveIsOpen
       DEF CancelWithdrawn, ChatForward, ExitChat, OnlyTalk, Answers, Answered, Attentive, State
  <2> QED BY <2>1, AnswersKeep
<1>3. ASSUME NEW o \in Order, NEW a \in BOOLEAN, QueueAnswer(o, a) \/ PriceAnswer(o, a)
      PROVE  PInv' /\ Steady
  BY <1>3, QueueAnswerKeeps, PriceAnswerKeeps
<1> QED BY <1>2, <1>3 DEF Rides

----------------------------------------------------------------------------
(* Reviews.                                                                 *)

\* A review, as the dialogue goes on after it.
LEMMA ReviewedTalk ==
  ASSUME talk \in TalkRecord, NEW o \in Order, NEW n \in Stars
  PROVE  Reviewed(o, n) \in TalkRecord /\ Reviewed(o, n).state \notin Attentive
<1>1. CASE n < 5
  <2> DEFINE t == Goes(Clean(talk), "review_text")
             u == [t EXCEPT !.review = o]
  <2>1. t \in TalkRecord /\ t.state = "review_text"
    BY GoesTalk, CleanTalk DEF State
  <2>2. u \in TalkRecord /\ u.state = "review_text"
    <3> HIDE DEF t
    <3> QED BY <2>1 DEF TalkRecord
  <2>3. Reviewed(o, n) = About(u, o)
    BY <1>1 DEF Reviewed
  <2> HIDE DEF u
  <2> QED BY <2>2, <2>3, AboutTalk DEF Attentive
<1>2. CASE ~(n < 5)
  BY <1>2, Keyboards, ResetTalk DEF Reviewed, Attentive
<1> QED BY <1>1, <1>2

\* New stars: the total moves with them, and the number of reviews with the first.
LEMMA StarsAddUp ==
  ASSUME PInv, NEW o \in Order, NEW n \in Stars,
         stars' = [stars EXCEPT ![o] = n],
         rating'.sum = rating.sum + n - stars[o],
         rating'.count = IF stars[o] = 0 THEN rating.count + 1 ELSE rating.count
  PROVE  RatingAddsUp'
<1> DEFINE Rated == {p \in Order : stars[p] # 0}
           RatedThen == {p \in Order : stars'[p] # 0}
<1>1. stars \in [Order -> Stars \union {0}] /\ rating \in [sum : Int, count : Nat]
  BY DEF PInv, Shape
<1>2. stars \in [Order -> Nat] /\ n \in Nat /\ n # 0
  BY <1>1 DEF Stars
<1>3. Total(stars) \in Nat /\ Total(stars') = Total(stars) - stars[o] + n
  BY <1>2, TotalChanges
<1>4. rating.sum = Total(stars) /\ rating.count = Cardinality(Rated)
  BY DEF PInv, RatingAddsUp
<1>5. rating'.sum = Total(stars')
  BY <1>2, <1>3, <1>4
<1>6. RatedThen = Rated \union {o}
  BY <1>2
<1>7. IsFiniteSet(Rated)
  BY Numbers, FS_Subset
<1>8. Cardinality(RatedThen) = IF o \in Rated THEN Cardinality(Rated) ELSE Cardinality(Rated) + 1
  <2> HIDE DEF Rated, RatedThen
  <2> QED BY <1>6, <1>7, FS_AddElement
<1>9. rating'.count = Cardinality(RatedThen)
  BY <1>4, <1>8
<1> QED BY <1>5, <1>9, TotalIs DEF RatingAddsUp

LEMMA RatesKeep ==
  ASSUME PInv, NEW o \in Order, NEW n \in Stars,
         stars' = [stars EXCEPT ![o] = n],
         rating' \in [sum : Int, count : Nat],
         rating'.sum = rating.sum + n - stars[o],
         rating'.count = IF stars[o] = 0 THEN rating.count + 1 ELSE rating.count,
         talk' = Reviewed(o, n),
         KeepBooking, UNCHANGED <<stage, cards, debt>>
  PROVE  PInv' /\ Steady
<1>1. RatingAddsUp'
  BY StarsAddUp
<1>2. talk' \in TalkRecord /\ talk'.state \notin Attentive
  BY ReviewedTalk DEF PInv, Shape
<1>3. stars' \in [Order -> Stars \union {0}]
  BY DEF PInv, Shape
<1>4. Shape'
  BY <1>2, <1>3 DEF PInv, Shape, KeepBooking
<1>5. (Heard => Heard') /\ Addressed'
  BY <1>2 DEF Heard, Addressed, Attentive
<1>6. BookedRuns' /\ BookingIsComplete' /\ StaysClosed
  BY DEF PInv, BookedRuns, BookingIsComplete, KeepBooking, StaysClosed
<1> QED BY <1>1, <1>4, <1>5, <1>6 DEF PInv, Steady

LEMMA ReviewsKeep ==
  ASSUME PInv, Reviews
  PROVE  PInv' /\ Steady
<1> USE Keyboards, GoesTalk, HomeTalk, ResetTalk
<1>1. /\ talk \in TalkRecord /\ cards \subseteq Card
      /\ rating \in [sum : Int, count : Nat]
      /\ stars \in [Order -> {0, 4, 5}]
  BY DEF PInv, Shape, Stars
<1>2. ASSUME NEW o \in Order, NEW n \in Stars, SaveRating(o, n)
      PROVE  PInv' /\ Steady
  <2>1. rating' = [sum |-> rating.sum + n, count |-> rating.count + 1] /\ stars[o] = 0
    BY <1>2 DEF SaveRating
  <2>2. /\ rating' \in [sum : Int, count : Nat]
        /\ rating'.sum = rating.sum + n - stars[o] /\ rating'.count = rating.count + 1
    BY <1>1, <2>1 DEF Stars
  <2> QED BY <1>2, <2>1, <2>2, RatesKeep DEF SaveRating
<1>3. ASSUME NEW o \in Order, NEW n \in Stars, ReviewRatingSet(o, n)
      PROVE  PInv' /\ Steady
  <2>1. CASE talk' = Home(talk) /\ OnlyTalk
    <3>1. Answers
      BY <1>1, <2>1 DEF OnlyTalk, Answers, Answered, Attentive
    <3> QED BY <3>1, AnswersKeep
  <2>2. CASE /\ stars' = [stars EXCEPT ![o] = n]
             /\ rating' = [rating EXCEPT !.sum = @ + n - stars[o]]
             /\ talk' = Reviewed(o, n) /\ KeepBooking /\ UNCHANGED <<stage, cards, debt>>
    <3>1. /\ rating' \in [sum : Int, count : Nat]
          /\ rating'.sum = rating.sum + n - stars[o] /\ rating'.count = rating.count
      BY <1>1, <2>2 DEF Stars
    <3>2. stars[o] # 0
      BY <1>3 DEF ReviewRatingSet
    <3> QED BY <2>2, <3>1, <3>2, RatesKeep
  <2> QED BY <1>3, <2>1, <2>2 DEF ReviewRatingSet
<1>4. ASSUME NEW o \in Order, SkipRating(o)
      PROVE  PInv' /\ Steady
  <2>1. Answers
    BY <1>1, <1>4 DEF SkipRating, OnlyTalk, Answers, Answered, Attentive
  <2> QED BY <2>1, AnswersKeep
<1>5. CASE ReviewCommentPrompt \/ SaveReviewText
  <2>1. Answers
    BY <1>1, <1>5
       DEF ReviewCommentPrompt, SaveReviewText, OnlyTalk, Answers, Answered, Attentive, State
  <2> QED BY <2>1, AnswersKeep
<1> QED BY <1>2, <1>3, <1>4, <1>5 DEF Reviews

----------------------------------------------------------------------------
(* The booking, and the debt.                                               *)

\* A step of the form of a booking.
LEMMA AsksAnswers ==
  ASSUME PInv, NEW s \in State \ Attentive, NEW parts \in SUBSET BookingPart,
         NEW k \in Keyboard, BookingAsks(s, parts, k), OnlyTalk
  PROVE  Answers
<1> DEFINE t == Goes(Show(Clean(talk), k), s)
<1>1. talk \in TalkRecord /\ cards \subseteq Card
  BY DEF PInv, Shape
<1>2. t \in TalkRecord /\ t.state = s
  BY <1>1, ShowTalk, GoesTalk, CleanTalk
<1>3. talk' = [t EXCEPT !.booking = parts]
  BY DEF BookingAsks
<1> HIDE DEF t
<1>4. talk' \in TalkRecord /\ talk'.state = s
  BY <1>2, <1>3 DEF TalkRecord
<1> QED BY <1>1, <1>4 DEF OnlyTalk, Answers, Answered

LEMMA CancelBookingKeeps ==
  ASSUME PInv, CancelBooking
  PROVE  PInv' /\ Steady
<1>1. talk \in TalkRecord /\ booking' = "none" /\ ride' = 0 /\ BookedRuns'
  BY DEF PInv, Shape, CancelBooking, BookedRuns
<1>2. UNCHANGED <<created, cards, stars, rating>>
  BY DEF CancelBooking
<1>3. CASE /\ talk' = Goes(Show(Clean(talk), "main"), "main") /\ UNCHANGED <<stage, debt>>
  <2>1. talk' \in TalkRecord /\ talk'.state = "main"
    BY <1>1, <1>3, Keyboards, ShowTalk, GoesTalk, CleanTalk DEF State
  <2>2. Shape' /\ StaysClosed
    BY <1>1, <1>2, <1>3, <2>1 DEF PInv, Shape, StaysClosed
  <2>3. (Heard => Heard') /\ Addressed'
    BY <2>1 DEF Heard, Addressed, Attentive
  <2>4. RatingAddsUp' /\ BookingIsComplete'
    BY <1>2 DEF PInv, RatingAddsUp, BookingIsComplete
  <2> QED BY <1>1, <2>2, <2>3, <2>4 DEF PInv, Steady
<1>4. CASE /\ booking = "en_route" /\ Become(ride, "cancelled") /\ debt' = TRUE
           /\ talk' = Goes(Show(Clean(talk), "pay"), "fake_call_lock")
  <2>1. talk' \in TalkRecord /\ talk'.state = "fake_call_lock" /\ debt' \in BOOLEAN
    BY <1>1, <1>4, Keyboards, ShowTalk, GoesTalk, CleanTalk DEF State
  <2>2. ride = Booked /\ ride \in Order /\ stage[ride] # "completed"
    BY <1>4, Numbers DEF PInv, BookedRuns
  <2>3. /\ stage' \in [Order -> Stage] /\ stage'[ride] = "cancelled"
        /\ \A p \in Order : p # ride => stage'[p] = stage[p]
    BY <1>4, <2>2 DEF PInv, Shape, Become, Stage
  <2>4. Shape' /\ StaysClosed
    BY <1>1, <1>2, <2>1, <2>2, <2>3 DEF PInv, Shape, StaysClosed, Closed
  <2>5. (Heard => Heard') /\ Addressed'
    BY <2>1 DEF Heard, Addressed, Attentive
  <2>6. RatingAddsUp' /\ BookingIsComplete'
    BY <1>2 DEF PInv, RatingAddsUp, BookingIsComplete
  <2> QED BY <1>1, <2>4, <2>5, <2>6 DEF PInv, Steady
<1> QED BY <1>3, <1>4 DEF CancelBooking

LEMMA BookingsKeep ==
  ASSUME PInv, Bookings
  PROVE  PInv' /\ Steady
<1> USE Keyboards, ShowTalk, GoesTalk, CleanTalk, HomeTalk
<1>1. talk \in TalkRecord /\ cards \subseteq Card
  BY DEF PInv, Shape
<1>2. talk.booking \in SUBSET BookingPart
  BY <1>1 DEF TalkRecord
<1>3. {"booking_date", "booking_time", "booking_address", "booking_extras",
       "booking_comment", "booking_confirm"} \subseteq State \ Attentive
  BY DEF State, Attentive
<1>4. BookingFill /\ OnlyTalk => Answers
  <2>1. {"type"} \in SUBSET BookingPart
    BY DEF BookingPart
  <2> QED BY <1>3, <2>1, AsksAnswers DEF BookingFill
<1>5. CASE BookingStart \/ BookingOldButtons
  BY <1>4, <1>5, AnswersKeep DEF BookingStart, BookingOldButtons
<1>6. CASE ShowBooking \/ BookingToggleExtra
  <2>1. Answers
    BY <1>1, <1>6
       DEF ShowBooking, BookingToggleExtra, OnlyTalk, Answers, Answered, Attentive
  <2> QED BY <2>1, AnswersKeep
<1>7. CASE BookingDateCustom \/ BookingDate \/ BookingTime \/ BookingAddress \/ BookingExtrasDone
  <2>1. /\ talk.booking \union {"date"} \in SUBSET BookingPart
        /\ talk.booking \union {"time"} \in SUBSET BookingPart
        /\ talk.booking \union {"route"} \in SUBSET BookingPart
    BY <1>2 DEF BookingPart
  <2>2. Answers
    BY <1>2, <1>3, <1>7, <2>1, AsksAnswers
       DEF BookingDateCustom, BookingDate, BookingTime, BookingAddress, BookingExtrasDone
  <2> QED BY <2>2, AnswersKeep
<1>8. CASE BookingComment
  <2>1. talk.booking \union {"comment"} \in SUBSET BookingPart
    BY <1>2 DEF BookingPart
  <2>2. Answers
    BY <1>3, <1>4, <1>8, <2>1, AsksAnswers DEF BookingComment
  <2> QED BY <2>2, AnswersKeep
<1>9. CASE BookingConfirm
  <2>1. CASE BookingFill /\ OnlyTalk
    BY <1>4, <2>1, AnswersKeep
  <2>2. CASE /\ talk.booking = BookingPart
             /\ booking' = "pending" /\ created' = talk.booking
             /\ talk' = Goes(Show(Clean(talk), "main_booked"), "main")
             /\ KeepOrders /\ UNCHANGED <<ride, cards, debt>>
    <3>1. talk' \in TalkRecord /\ talk'.state = "main"
      BY <1>1, <2>2 DEF State
    <3>2. Shape' /\ StaysClosed
      BY <2>2, <3>1 DEF PInv, Shape, KeepOrders, StaysClosed
    <3>3. (Heard => Heard') /\ Addressed'
      BY <3>1 DEF Heard, Addressed, Attentive
    <3>4. BookedRuns' /\ RatingAddsUp' /\ BookingIsComplete'
      BY <2>2 DEF PInv, BookedRuns, RatingAddsUp, BookingIsComplete, KeepOrders
    <3> QED BY <3>2, <3>3, <3>4 DEF PInv, Steady
  <2> QED BY <1>9, <2>1, <2>2 DEF BookingConfirm
<1>10. CASE CancelBooking
  BY <1>10, CancelBookingKeeps
<1> QED BY <1>5, <1>6, <1>7, <1>8, <1>9, <1>10 DEF Bookings

LEMMA ReadyToPayAnswers ==
  ASSUME PInv, ReadyToPay
  PROVE  Answers
BY Keyboards, ShowTalk, GoesTalk, CleanTalk
   DEF ReadyToPay, OnlyTalk, Answers, Answered, Attentive, State, PInv, Shape

----------------------------------------------------------------------------
(* What others do.                                                          *)

\* A request that is open afterwards is not taken from a dialogue that listens:
\* its state and number stay, or it listens no more.
LEMMA OthersMove ==
  ASSUME PInv, NEW o \in Order, NEW s \in Stage, NEW t \in TalkRecord,
         Told(t), Become(o, s), OthersKeep,
         cards' \subseteq Card,
         stage[o] \notin Closed, s # "completed",
         \/ t.state \notin Attentive
         \/ s \in Live /\ t.state = talk.state /\ t.order = talk.order
         \/ s \in Live /\ t.state # "new_address"
         \/ s \in Live /\ t.order = o
  PROVE  PInv' /\ Steady
<1>1. talk \in TalkRecord /\ debt \in BOOLEAN
  BY DEF PInv, Shape
<1>2. talk' \in TalkRecord /\ talk'.state = t.state /\ talk'.order = t.order
  BY <1>1, ToldTalk
<1>3. KeepBooking /\ UNCHANGED <<stars, rating, debt>>
  BY DEF OthersKeep
<1>4. Moves(o, s)
  BY <1>1, <1>2, <1>3 DEF Moves, Changes, KeepBooking
<1> QED BY <1>3, <1>4, MovesAloneKeep

\* A request about which he is only told something.
LEMMA OthersTell ==
  ASSUME PInv, NEW t \in TalkRecord, Told(t), OthersKeep, UNCHANGED stage,
         cards' \subseteq Card,
         \/ t.state \notin Attentive
         \/ t.state = talk.state /\ t.order = talk.order
         \/ t.state # "new_address" /\ ~Idle
  PROVE  PInv' /\ Steady
<1>1. talk' \in TalkRecord /\ talk'.state = t.state /\ talk'.order = t.order
  BY ToldTalk DEF PInv, Shape
<1>2. Answers
  BY <1>1 DEF Answers, Answered, OthersKeep, KeepBooking
<1> QED BY <1>2, AnswersKeep

\* The end of a ride also ends its booking.
LEMMA CompletedKeeps ==
  ASSUME PInv, NEW o \in Order, Completed(o)
  PROVE  PInv' /\ Steady
<1> USE Keyboards, ShowTalk, GoesTalk, CleanTalk, AboutTalk
<1>1. talk \in TalkRecord /\ debt \in BOOLEAN
  BY DEF PInv, Shape
<1>2. talk' \in TalkRecord /\ talk'.state \notin Attentive
  <2> DEFINE k == IF booking' = "none" THEN "main" ELSE "main_booked"
  <2>1. k \in Keyboard
    OBVIOUS
  <2>2. CASE Told(Goes(Show(Clean(talk), k), "main"))
    <3> DEFINE t == Goes(Show(Clean(talk), k), "main")
    <3>1. t \in TalkRecord /\ t.state = "main"
      <4> HIDE DEF k
      <4> QED BY <1>1, <2>1 DEF State
    <3> HIDE DEF t
    <3> QED BY <1>1, <2>2, <3>1, ToldTalk DEF t, Attentive
  <2>3. CASE Told(About(Goes(talk, "rate"), o))
    <3> DEFINE t == About(Goes(talk, "rate"), o)
    <3>1. t \in TalkRecord /\ t.state = "rate"
      BY <1>1 DEF State
    <3> HIDE DEF t
    <3> QED BY <1>1, <2>3, <3>1, ToldTalk DEF t, Attentive
  <2> QED BY <2>2, <2>3 DEF Completed
<1>3. /\ stage[o] \in OnTrip /\ Become(o, "completed")
      /\ booking' = BookingEnds(o)
      /\ ride' = IF booking' = "none" THEN 0 ELSE ride
      /\ UNCHANGED <<stars, rating, created, cards, debt>>
  BY DEF Completed
<1>4. /\ booking' \in {"none", "pending", "assigned", "en_route"}
      /\ ride' \in Order \union {0}
  BY <1>3 DEF PInv, Shape, BookingEnds
<1>5. BookedRuns'
  <2>1. SUFFICES ASSUME booking' = "en_route"
                 PROVE  ride' = Booked /\ stage'[Booked] # "completed"
    BY DEF BookedRuns
  <2>2. booking = "en_route" /\ ride # o /\ ride' = ride
    BY <1>3, <2>1 DEF BookingEnds
  <2>3. ride = Booked /\ stage[Booked] # "completed" /\ Booked \in Order
    BY <2>2, Numbers DEF PInv, BookedRuns
  <2>4. stage'[Booked] = stage[Booked]
    BY <1>3, <2>2, <2>3 DEF PInv, Shape, Become
  <2> QED BY <2>2, <2>3, <2>4
<1>6. Moves(o, "completed") /\ "completed" \in Stage
  BY <1>1, <1>2, <1>3 DEF Moves, Changes, OnTrip, Closed, Stage, PInv, Shape
<1> QED BY <1>4, <1>5, <1>6, MovesKeep

\* A booking whose driver departs becomes a request.
LEMMA BookingDepartsKeeps ==
  ASSUME PInv, BookingDeparts
  PROVE  PInv' /\ Steady
<1> DEFINE t == About(Goes(Show(Clean(talk), "ride"), "in_ride"), Booked)
<1>1. talk \in TalkRecord /\ debt \in BOOLEAN /\ Booked \in Order
  BY Numbers DEF PInv, Shape
<1>2. t \in TalkRecord /\ t.state = "in_ride"
  BY <1>1, Keyboards, ShowTalk, GoesTalk, CleanTalk, AboutTalk DEF State
<1>3. Told(t)
  BY DEF BookingDeparts
<1> HIDE DEF t
<1>4. talk' \in TalkRecord /\ talk'.state = "in_ride"
  BY <1>1, <1>2, <1>3, ToldTalk
<1>5. /\ stage[Booked] = "unborn" /\ booking' = "en_route" /\ ride' = Booked
      /\ Become(Booked, "assigned") /\ UNCHANGED <<stars, rating, created, cards, debt>>
  BY DEF BookingDeparts
<1>6. Moves(Booked, "assigned") /\ "assigned" \in Stage
  BY <1>1, <1>4, <1>5 DEF Moves, Changes, Closed, Attentive, Stage, PInv, Shape
<1>7. BookedRuns'
  BY <1>1, <1>5 DEF BookedRuns, Become, PInv, Shape
<1> QED BY <1>1, <1>5, <1>6, <1>7, MovesKeep

\* What is done to one request.
OneRequest(o) ==
  \/ Searched(o) \/ Polled(o) \/ AddressAsked(o) \/ Accepted(o)
  \/ ReservedByDriver(o) \/ ReservedStarts(o) \/ Departed(o) \/ PriceOffered(o)
  \/ DriverWrites(o) \/ ArrivedNow(o) \/ Seated(o) \/ Completed(o) \/ CancelledByOthers(o)
  \/ NoShow(o) \/ CarFailed(o) \/ CarFailedOffLine(o)

LEMMA OneRequestKeeps ==
  ASSUME PInv, NEW o \in Order, OneRequest(o)
  PROVE  PInv' /\ Steady
<1> USE Keyboards, MainMenuIsOne, ShowTalk, GoesTalk, CleanTalk, ResetTalk, AboutTalk
<1>1. talk \in TalkRecord /\ cards \subseteq Card /\ debt \in BOOLEAN
  BY DEF PInv, Shape
<1>2. Stage \ {"unborn", "completed", "cancelled"} = Live /\ "cancelled" \in Stage
  BY DEF Stage, Live, Open
<1>3. Open \subseteq Live /\ OnTrip \subseteq Open /\ Closed \intersect Live = {}
  BY DEF Live, Open, OnTrip, Closed
<1>4. Trip(o) \in TalkRecord /\ Trip(o).state = "in_ride"
  BY <1>1 DEF Trip, State
<1>5. /\ [Trip(o) EXCEPT !.menu = "ride"] \in TalkRecord
      /\ [Trip(o) EXCEPT !.menu = "ride"].state = "in_ride"
      /\ [Trip(o) EXCEPT !.menu = "in_ride"] \in TalkRecord
      /\ [Trip(o) EXCEPT !.menu = "in_ride"].state = "in_ride"
  BY <1>4, MenuTalk
<1>6. \A k \in Keyboard :
        /\ Show(talk, k) \in TalkRecord
        /\ Show(talk, k).state = talk.state /\ Show(talk, k).order = talk.order
  BY <1>1
<1>7. CASE Searched(o)
  <2> DEFINE t == About(Goes(Clean(talk), "waiting"), o)
             u == About(Goes(Show(Clean(talk), "waiting"), "waiting"), o)
  <2>1. t \in TalkRecord /\ t.state = "waiting" /\ u \in TalkRecord /\ u.state = "waiting"
    BY <1>1 DEF State
  <2>2. OthersKeep /\ UNCHANGED stage /\ cards' \subseteq Card
    BY <1>1, <1>7 DEF Searched, OnlyTalk, OthersKeep, KeepBooking
  <2>3. Told(Show(talk, "waiting")) \/ Told(t) \/ Told(u)
    BY <1>7 DEF Searched
  <2> HIDE DEF t, u
  <2> QED BY <1>6, <2>1, <2>2, <2>3, OthersTell DEF Attentive
<1>8. CASE Polled(o)
  <2> DEFINE t == About(Goes(talk, "queue_confirm"), o)
  <2>1. t \in TalkRecord /\ t.state = "queue_confirm"
    BY <1>1 DEF State
  <2>2. cards' \subseteq Card
    BY <1>1, <1>8 DEF Polled, Card
  <2>3. Told(t) /\ OthersKeep /\ UNCHANGED stage
    BY <1>8 DEF Polled
  <2> HIDE DEF t
  <2> QED BY <2>1, <2>2, <2>3, OthersTell DEF Attentive
<1>9. CASE AddressAsked(o)
  <2> DEFINE t == About(Goes(Show(talk, "waiting"), "new_address"), o)
  <2>1. t \in TalkRecord /\ t.order = o
    BY <1>1 DEF State
  <2>2. /\ Told(t) /\ OthersKeep /\ cards' \subseteq Card
        /\ stage[o] \notin Closed /\ Become(o, "asked")
    BY <1>1, <1>9 DEF AddressAsked, Closed
  <2>3. "asked" \in Live /\ "asked" \in Stage
    BY DEF Live, Open, Stage
  <2> HIDE DEF t
  <2> QED BY <2>1, <2>2, <2>3, OthersMove
<1>10. CASE Accepted(o)
  <2>1. /\ Told(Show(talk, "waiting")) /\ OthersKeep /\ cards' \subseteq Card
        /\ stage[o] \notin Closed /\ Become(o, "assigned")
    BY <1>1, <1>10 DEF Accepted, Closed
  <2>2. "assigned" \in Live /\ "assigned" \in Stage
    BY DEF Live, Open, Stage
  <2> QED BY <1>6, <2>1, <2>2, OthersMove
<1>11. CASE ReservedByDriver(o)
  <2>1. {"reserved", "searching"} \subseteq Live \intersect Stage
    BY DEF Live, Open, Stage
  <2>2. stage[o] \notin Closed /\ OthersKeep /\ cards' \subseteq Card
    BY <1>1, <1>11 DEF ReservedByDriver, Closed
  <2>3. CASE Become(o, "reserved") /\ UNCHANGED talk
    <3>1. Moves(o, "reserved") /\ KeepBooking
      BY <1>1, <2>1, <2>2, <2>3 DEF Moves, Changes, OthersKeep, KeepBooking
    <3> QED BY <2>1, <3>1, MovesAloneKeep
  <2>4. CASE Become(o, "searching") /\ Told(Show(talk, "waiting"))
    BY <1>6, <2>1, <2>2, <2>4, OthersMove
  <2> QED BY <1>11, <2>3, <2>4 DEF ReservedByDriver
<1>12. CASE ReservedStarts(o) \/ CarFailed(o)
  <2>1. {"departed", "searching"} \subseteq Live \intersect Stage
    BY DEF Live, Open, Stage
  <2>2. /\ stage[o] \notin Closed /\ OthersKeep /\ cards' \subseteq Card
        /\ \/ Become(o, "departed") /\ Told(Show(talk, "ride"))
           \/ Become(o, "searching") /\ Told(Show(talk, "waiting"))
    BY <1>1, <1>12 DEF ReservedStarts, CarFailed, OnTrip, Closed
  <2> QED BY <1>6, <2>1, <2>2, OthersMove
<1>13. CASE Departed(o) \/ Seated(o)
  <2>1. {"departed", "in_progress"} \subseteq Live \intersect Stage
    BY DEF Live, Open, Stage
  <2>2. /\ stage[o] \notin Closed /\ OthersKeep /\ cards' \subseteq Card
        /\ Become(o, "departed") \/ Become(o, "in_progress")
        /\ \/ Told(Trip(o))
           \/ Told([Trip(o) EXCEPT !.menu = "ride"])
           \/ Told([Trip(o) EXCEPT !.menu = "in_ride"])
    BY <1>1, <1>13 DEF Departed, Seated, OnTrip, Closed
  <2> QED BY <1>4, <1>5, <2>1, <2>2, OthersMove DEF Attentive
<1>14. CASE PriceOffered(o)
  <2> DEFINE t == About(Goes(talk, "delivery_confirm"), o)
  <2>1. t \in TalkRecord /\ t.state = "delivery_confirm"
    BY <1>1 DEF State
  <2>2. cards' \subseteq Card
    BY <1>1, <1>14 DEF PriceOffered, Card
  <2>3. Told(t) /\ OthersKeep /\ UNCHANGED stage
    BY <1>14 DEF PriceOffered
  <2> HIDE DEF t
  <2> QED BY <2>1, <2>2, <2>3, OthersTell DEF Attentive
<1>15. CASE ArrivedNow(o)
  <2> DEFINE t == About(Goes(Show(talk, "arrived"), "arrived"), o)
  <2>1. t \in TalkRecord /\ t.state = "arrived"
    BY <1>1 DEF State
  <2>2. /\ Told(t) /\ OthersKeep /\ cards' \subseteq Card
        /\ stage[o] \notin Closed /\ Become(o, "arrived")
    BY <1>1, <1>15 DEF ArrivedNow, OnTrip, Closed
  <2>3. "arrived" \in Live /\ "arrived" \in Stage
    BY DEF Live, Open, Stage
  <2> HIDE DEF t
  <2> QED BY <2>1, <2>2, <2>3, OthersMove
<1>16. CASE Completed(o)
  BY <1>16, CompletedKeeps
<1>17. CASE CancelledByOthers(o)
  <2> DEFINE t == ResetTo(talk, "main")
             u == Goes(Show(Clean(talk), MainMenu), "main")
  <2>1. t \in TalkRecord /\ t.state = "main" /\ u \in TalkRecord /\ u.state = "main"
    BY <1>1 DEF State
  <2>2. /\ Told(t) \/ Told(u)
        /\ OthersKeep /\ cards' \subseteq Card
        /\ stage[o] \notin Closed /\ Become(o, "cancelled")
    BY <1>1, <1>17 DEF CancelledByOthers, Open, Closed
  <2> HIDE DEF t, u
  <2> QED BY <1>2, <2>1, <2>2, OthersMove DEF Attentive
<1>18. CASE NoShow(o)
  <2>1. talk' \in TalkRecord
    BY <1>1, <1>6, <1>18, ToldTalk DEF NoShow
  <2>2. debt' = TRUE /\ stage[o] \notin Closed /\ Become(o, "cancelled") /\ KeepBooking
        /\ UNCHANGED <<stars, rating, cards>>
    BY <1>18 DEF NoShow, OnTrip, Closed
  <2>3. Moves(o, "cancelled")
    BY <1>1, <2>1, <2>2 DEF Moves, Changes, KeepBooking
  <2> QED BY <1>2, <2>2, <2>3, MovesAloneKeep
<1>19. CASE CarFailedOffLine(o)
  <2>1. /\ stage[o] \notin Closed /\ Become(o, "dropped")
        /\ OthersKeep /\ UNCHANGED <<talk, cards>>
    BY <1>19 DEF CarFailedOffLine, OnTrip, Closed
  <2>2. "dropped" \in Live /\ "dropped" \in Stage
    BY DEF Live, Stage
  <2>3. Moves(o, "dropped") /\ KeepBooking
    BY <1>1, <2>1, <2>2 DEF Moves, Changes, OthersKeep, KeepBooking
  <2> QED BY <2>2, <2>3, MovesAloneKeep
<1>20. CASE DriverWrites(o)
  <2> DEFINE t == Goes(talk, "chat")
  <2>1. t \in TalkRecord /\ t.state = "chat"
    BY <1>1 DEF State
  <2>2. ~Idle
    BY <1>3, <1>20, ActiveIsOpen DEF DriverWrites
  <2>3. Told(t) /\ OthersKeep /\ UNCHANGED stage /\ cards' \subseteq Card
    BY <1>1, <1>20 DEF DriverWrites
  <2> HIDE DEF t
  <2> QED BY <2>1, <2>2, <2>3, OthersTell
<1> QED
  BY <1>7, <1>8, <1>9, <1>10, <1>11, <1>12, <1>13, <1>14, <1>15, <1>16, <1>17, <1>18, <1>19,
     <1>20
  DEF OneRequest

LEMMA OthersKeepAll ==
  ASSUME PInv, Others
  PROVE  PInv' /\ Steady
<1>1. CASE \E o \in Order : OneRequest(o)
  BY <1>1, OneRequestKeeps
<1>2. CASE BookingTaken
  <2>1. /\ booking' \in {"pending", "assigned"}
        /\ UNCHANGED <<talk, stage, stars, rating, ride, created, cards, debt>>
    BY <1>2 DEF BookingTaken, KeepOrders
  <2>2. Shape' /\ StaysClosed
    BY <2>1 DEF PInv, Shape, StaysClosed
  <2>3. (Heard => Heard') /\ Addressed' /\ BookedRuns' /\ RatingAddsUp' /\ BookingIsComplete'
    BY <2>1 DEF PInv, Heard, Addressed, BookedRuns, RatingAddsUp, BookingIsComplete
  <2> QED BY <2>2, <2>3 DEF PInv, Steady
<1>3. CASE BookingDeparts
  BY <1>3, BookingDepartsKeeps
<1>4. CASE Paid
  <2>1. talk' \in TalkRecord /\ talk'.state = "main"
    BY <1>4, Keyboards, ResetTalk DEF PInv, Shape, Paid
  <2>2. debt' \in BOOLEAN /\ KeepOrders /\ KeepBooking /\ UNCHANGED cards
    BY <1>4 DEF Paid
  <2>3. Shape' /\ StaysClosed
    BY <2>1, <2>2 DEF PInv, Shape, KeepOrders, KeepBooking, StaysClosed
  <2>4. (Heard => Heard') /\ Addressed'
    BY <2>1 DEF Heard, Addressed, Attentive
  <2>5. BookedRuns' /\ RatingAddsUp' /\ BookingIsComplete'
    BY <2>2 DEF PInv, BookedRuns, RatingAddsUp, BookingIsComplete, KeepOrders, KeepBooking
  <2> QED BY <2>3, <2>4, <2>5 DEF PInv, Steady
<1> QED BY <1>1, <1>2, <1>3, <1>4 DEF Others, OneRequest

----------------------------------------------------------------------------
(* The theorems.                                                            *)

LEMMA InitKeeps == Init => PInv /\ found \in Found /\ Heard
<1> SUFFICES ASSUME Init PROVE PInv /\ found \in Found /\ Heard
  OBVIOUS
<1>1. PICK k \in Legacy \union {"main"} :
        talk = [state |-> "main", draft |-> {}, booking |-> {}, review |-> 0,
                order |-> 0, menu |-> k, before |-> k]
  BY DEF Init
<1>2. k \in Keyboard
  BY <1>1, LegacyAssumption, Keyboards
<1>3. talk \in TalkRecord /\ talk.state = "main"
  BY <1>1, <1>2 DEF TalkRecord, State
<1>4. /\ stage = [o \in Order |-> "unborn"] /\ stars = [o \in Order |-> 0]
      /\ rating = [sum |-> 0, count |-> 0] /\ booking = "none" /\ ride = 0
      /\ created = BookingPart /\ cards = {} /\ debt = FALSE
  BY DEF Init
<1>5. Shape
  <2>1. debt \in BOOLEAN
    BY <1>4
  <2>2. rating \in [sum : Int, count : Nat] /\ stars \in [Order -> Stars \union {0}]
    BY <1>4
  <2>3. stage \in [Order -> Stage] /\ cards \subseteq Card
    BY <1>4 DEF Stage
  <2> QED BY <1>3, <1>4, <2>1, <2>2, <2>3 DEF Shape
<1>6. Heard /\ Addressed /\ found = Nothing
  BY <1>3 DEF Heard, Addressed, Attentive, Init
<1>7. BookedRuns /\ BookingIsComplete
  BY <1>4 DEF BookedRuns, BookingIsComplete
<1>8. RatingAddsUp
  <2>1. {o \in Order : stars[o] # 0} = {}
    BY <1>4
  <2>2. Cardinality({o \in Order : stars[o] # 0}) = 0
    BY <2>1, FS_EmptySet
  <2>3. Total(stars) = 0
    BY <1>4, NoTotal
  <2> QED BY <1>4, <2>2, <2>3 DEF RatingAddsUp
<1> QED BY <1>5, <1>6, <1>7, <1>8 DEF PInv, Found

\* What the properties say of one step.
ClosedStep ==
  \A o \in Order : stage[o] \in Closed =>
    /\ found'.order = o => found.order = o
    /\ stage'[o] = stage[o] \/ (found.order = o /\ found' = Nothing)

HeardStep == Heard => Heard' \/ (found.by \in {"chat", "reply"} /\ found' = Nothing)

LEMMA SteadyStep ==
  ASSUME Steady, UNCHANGED found
  PROVE  ClosedStep /\ HeardStep
BY DEF Steady, StaysClosed, ClosedStep, HeardStep

\* A request is found before it is closed.
LEMMA ReadsStep ==
  ASSUME PInv, found \in Found, Reads
  PROVE  PInv' /\ found' \in Found /\ ClosedStep /\ HeardStep
<1>1. PInv' /\ Steady
  BY DEF Reads
<1>2. CASE UNCHANGED found
  BY <1>1, <1>2, SteadyStep
<1>3. CASE \E by \in Handler, o \in Order : Finds(by, o) /\ stage[o] \notin Closed
  <2>1. PICK by \in Handler, o \in Order : Finds(by, o) /\ stage[o] \notin Closed
    BY <1>3
  <2>2. found'.order = o /\ found' \in Found
    BY <2>1 DEF Finds, Found
  <2> QED BY <1>1, <2>1, <2>2 DEF Steady, StaysClosed, ClosedStep, HeardStep
<1> QED BY <1>2, <1>3 DEF Reads

\* The step of a handler that was late, on the request that it had found.
LEMMA LateStep ==
  ASSUME Late
  PROVE  PInv' /\ found' \in Found /\ ClosedStep /\ HeardStep
<1>1. found' = Nothing /\ Nothing.order \notin Order
  BY Numbers DEF Late, Nothing
<1>2. ClosedStep
  BY <1>1 DEF Late, ClosedStep
<1> QED BY <1>1, <1>2 DEF Late, HeardStep, Found

LEMMA NextKeeps ==
  ASSUME PInv, found \in Found, Next
  PROVE  PInv' /\ found' \in Found /\ ClosedStep /\ HeardStep
<1>1. CASE Rests
  BY <1>1, RestsAreLate, LateStep
<1>2. CASE PInv' /\ Steady /\ UNCHANGED found
  BY <1>2, SteadyStep
<1>3. CASE Others /\ UNCHANGED found
  BY <1>2, <1>3, OthersKeepAll
<1>4. CASE \/ CancelOrder \/ CancelConfirmed \/ DepartureResponse
           \/ ArrivedReply \/ EnterChat \/ UpdateAddress
  <2>1. Reads
    BY <1>4, CancelRequestReads, CancelActiveReads, DepartureResponseReads,
       ArrivedReplyReads, EnterChatReads, UpdateAddressReads DEF CancelOrder, CancelConfirmed
  <2> QED BY <2>1, ReadsStep
<1>5. CASE /\ \/ Navigate \/ Orders \/ OldSteps \/ Rides \/ Reviews \/ Bookings
              \/ ReadyToPay
           /\ UNCHANGED found
  <2>1. CASE Navigate \/ ReadyToPay
    BY <2>1, NavigateAnswers, ReadyToPayAnswers, AnswersKeep, <1>2, <1>5
  <2>2. CASE Orders \/ OldSteps \/ Rides \/ Reviews \/ Bookings
    BY <2>2, OrdersKeep, OldStepsKeep, RidesKeep, ReviewsKeep, BookingsKeep, <1>2, <1>5
  <2> QED BY <1>5, <2>1, <2>2
<1> QED BY <1>1, <1>3, <1>4, <1>5 DEF Next, His

\* The invariant, and what holds of every step.
LEMMA StepsKeep ==
  PInv /\ found \in Found /\ [Next]_vars =>
    PInv' /\ found' \in Found /\ [ClosedStep]_vars /\ [HeardStep]_vars
<1> SUFFICES ASSUME PInv, found \in Found, [Next]_vars
             PROVE  PInv' /\ found' \in Found /\ [ClosedStep]_vars /\ [HeardStep]_vars
  OBVIOUS
<1>1. CASE Next
  BY <1>1, NextKeeps
<1>2. CASE UNCHANGED vars
  <2>1. Shape' /\ found' \in Found
    BY <1>2 DEF vars, PInv, Shape
  <2>2. Addressed' /\ BookedRuns' /\ RatingAddsUp' /\ BookingIsComplete'
    BY <1>2 DEF vars, PInv, Addressed, BookedRuns, RatingAddsUp, BookingIsComplete
  <2> QED BY <1>2, <2>1, <2>2 DEF PInv
<1> QED BY <1>1, <1>2

LEMMA PInvHolds == Spec => [](PInv /\ found \in Found)
<1>1. PInv /\ found \in Found /\ [Next]_vars => (PInv /\ found \in Found)'
  BY StepsKeep
<1> QED BY <1>1, InitKeeps, PTL DEF Spec

\* The state keeps its types.  That a driver's sum of stars never gets below zero
\* follows from its being the total of the reviews.
THEOREM TypesHold == Spec => []TypeOK
<1>1. PInv /\ found \in Found => TypeOK
  <2> SUFFICES ASSUME PInv, found \in Found PROVE TypeOK
    OBVIOUS
  <2>1. stars \in [Order -> Nat] /\ OrderLimit \in Order
    BY Numbers DEF PInv, Shape, Stars
  <2>2. Total(stars) \in Nat
    BY <2>1, TotalChanges
  <2>3. rating \in [sum : Nat, count : Nat]
    BY <2>2 DEF PInv, Shape, RatingAddsUp
  <2> QED BY <2>3 DEF PInv, Shape, TypeOK, BookingIsComplete
<1> QED BY <1>1, PInvHolds, PTL

\* Whatever drivers, timers and the site do, between the steps of his handlers too,
\* he goes on to be heard; only chat_forward and passenger_arrived_reply, when they
\* write after the end of the request that they have read, open a dialogue in which
\* nobody listens.
THEOREM TextIsHeardHolds == Spec => TextIsHeard
<1>1. PInv /\ found \in Found /\ [Next]_vars =>
        [Heard => Heard' \/ (found.by \in {"chat", "reply"} /\ found' = Nothing)]_vars
  BY StepsKeep DEF HeardStep
<1> QED BY <1>1, InitKeeps, PInvHolds, PTL DEF Spec, TextIsHeard

\* Sum and number of a driver's stars are those of the reviews that are stored
\* (save_rating, passenger_review_rating_set).
THEOREM RatingAddsUpHolds == Spec => []RatingAddsUp
<1>1. PInv => RatingAddsUp
  BY DEF PInv
<1> QED BY <1>1, PInvHolds, PTL

\* No interruption of its seven steps makes a booking that lacks a part
\* (passenger_booking_confirm).
THEOREM BookingIsCompleteHolds == Spec => []BookingIsComplete
<1>1. PInv => BookingIsComplete
  BY DEF PInv
<1> QED BY <1>1, PInvHolds, PTL

\* A closed request is taken up by no handler, by no card and by no event of a driver
\* or a timer; only a handler that has read it before it was closed, and writes after,
\* changes it (passenger_cancel, passenger_update_address).
THEOREM ClosedStaysClosedHolds == Spec => ClosedStaysClosed
<1>1. PInv /\ found \in Found /\ [Next]_vars =>
        [\A o \in Order : stage[o] \in Closed =>
           /\ found'.order = o => found.order = o
           /\ stage'[o] = stage[o] \/ (found.order = o /\ found' = Nothing)]_vars
  BY StepsKeep DEF ClosedStep
<1> QED BY <1>1, PInvHolds, PTL DEF Spec, ClosedStaysClosed
=============================================================================
