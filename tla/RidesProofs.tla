---------------------------- MODULE RidesProofs ----------------------------
(***************************************************************************)
(* What is true of a driver: the requests, the drivers' rows and the calls *)
(* that are still to be made agree about him (Duty), at every moment of    *)
(* every transaction.  Duty says who has which request on the board, what  *)
(* his displayed status then is, what each call about him finds when its   *)
(* turn comes, and that whoever has reserved a request is on a trip or at  *)
(* its end.  Each step turns one request and concerns one driver, or none  *)
(* (OthersGoOn): so one lemma per group of actions shows what it makes of  *)
(* the request, of the driver's row and of the calls about him.            *)
(*                                                                         *)
(* The properties of drivers follow, where nobody is asked for a better    *)
(* address and nobody bargains (Plain): the README describes what goes     *)
(* wrong otherwise.  They are about transactions one at a time; the last   *)
(* part shows what of them is left when transactions overlap.              *)
(*                                                                         *)
(* Two properties stand by themselves.  A request that nobody drives has a *)
(* place, or a call that is still to be made finds it one (PlaceInv); this *)
(* needs only that addresses stay.  And whatever is done to the queue of   *)
(* drivers, nobody is put before one who waits (KeepsTurns); this needs    *)
(* only that prices stay.                                                  *)
(***************************************************************************)
EXTENDS RidesHands

----------------------------------------------------------------------------
(* The board, and who is on it.                                             *)

\* No request is sent back for a better address.  (The address that a passenger
\* corrects may reach a request that a driver has claimed since.)
AddressesStay == "need_address" \notin Reason

\* Nobody bargains: the price of a delivery is asked of dispatchers only.  (The
\* answer to a price may reach a request whose driver's car has failed since.)
PricesStay == Delivery \subseteq Desk

Plain == AddressesStay /\ PricesStay

Place(phase, d) == [phase |-> phase, driver |-> d]

Entry(r) == Place(BoardPhase(r), BoardDriver(r))

\* The board of RideBoard.
board == [o \in Order |-> Entry(orders[o])]

\* What people can still be asked about a request.
Asked(o, r) ==
  /\ AddressesStay => ~r.fixing
  /\ PricesStay => ~r.proposed /\ "delivery" \notin r.jobs
  /\ r.pricing => o \in Delivery
  /\ ~ChatOpen => ~r.posted /\ ~r.chatOffline

\* Who has a request is what its status says.
Lone(r) ==
  /\ r.status \in {"new"} \union Pending => r.driver = None
  /\ r.status \in Active => r.driver # None
  /\ r.parallel # None <=> r.status = "parallel_assigned"
  /\ r.offered # None => r.status = "searching"

Sound(o, r) == Asked(o, r) /\ (Plain => Lone(r))

AllSound(os) == \A o \in Order : Sound(o, os[o])

\* The calls of a list.
Calls(s) == {s[i] : i \in DOMAIN s}

\* The rest of a handler that ends a trip or a request finds it as it was.
Live(c, os) ==
  c.fn \in OfTrip \union {"passengerGone"} =>
    /\ os[c.order].status \notin {"new"} \union Closed
    /\ Plain /\ c.fn \in OfTrip => os[c.order].status \in Active

SoundInv ==
  /\ AllSound(orders)
  /\ \A c \in Calls(agenda) : Live(c, orders)

\* What a step makes of the requests: they stay sound, what is over stays over.
Kept ==
  /\ AllSound(orders')
  /\ AddressesStay => \A p \in Order : orders[p].status \in Closed
                                         => orders'[p].status = orders[p].status

\* The step moves request o on the board, and no other.
Turn(o, e) == Kept /\ board' = [board EXCEPT ![o] = e]

\* The step moves nothing on the board.
Still == Kept /\ board' = board

\* The place of a request on the board.
LEMMA EntryIs ==
  ASSUME NEW r
  PROVE  /\ r.status = "new" => Entry(r) = Place("new", None)
         /\ r.status \in Pending /\ ~(r.status = "searching" /\ r.offered # None)
              => Entry(r) = Place("open", None)
         /\ r.status = "searching" /\ r.offered # None => Entry(r) = Place("shown", r.offered)
         /\ r.status = "parallel_assigned" => Entry(r) = Place("reserved", r.driver)
         /\ r.status \in Active => Entry(r) = Place("riding", r.driver)
         /\ r.status \in Closed => Entry(r) = Place("over", None)
BY DEF Entry, BoardPhase, BoardDriver, Pending, Candidate, Active, Closed

\* Two records of a request that differ in nothing that matters here.
Same(r, s) ==
  /\ s.status = r.status /\ s.driver = r.driver /\ s.parallel = r.parallel
  /\ s.offered = r.offered
  /\ s.fixing => r.fixing
  /\ s.proposed => r.proposed
  /\ s.pricing => r.pricing
  /\ s.posted => r.posted
  /\ s.chatOffline => r.chatOffline
  /\ "delivery" \in s.jobs => "delivery" \in r.jobs

LEMMA SameSound ==
  ASSUME NEW o, NEW r, NEW s, Same(r, s)
  PROVE  /\ Sound(o, r) => Sound(o, s)
         /\ Entry(s) = Entry(r)
BY DEF Same, Sound, Asked, Lone, Entry, BoardPhase, BoardDriver

\* A step that changes one request, and nothing that matters of the others.
LEMMA OneTurns ==
  ASSUME TypeOK, AllSound(orders), orders' \in [Order -> OrderRecord], NEW o \in Order,
         Sound(o, orders'[o]), \A p \in Order \ {o} : Same(orders[p], orders'[p]),
         AddressesStay /\ orders[o].status \in Closed => orders'[o].status = orders[o].status
  PROVE  Turn(o, Entry(orders'[o]))
<1>1. AllSound(orders')
  BY SameSound DEF AllSound
<1>2. AddressesStay => \A p \in Order : orders[p].status \in Closed
                                         => orders'[p].status = orders[p].status
  BY DEF Same
<1>3. board' = [board EXCEPT ![o] = Entry(orders'[o])]
  <2>1. board' = [p \in Order |-> Entry(orders'[p])] /\ board = [p \in Order |-> Entry(orders[p])]
    BY DEF board, Entry, BoardPhase, BoardDriver
  <2>2. \A p \in Order \ {o} : Entry(orders'[p]) = Entry(orders[p])
    BY SameSound
  <2> QED
    BY <2>1, <2>2
<1> QED
  BY <1>1, <1>2, <1>3 DEF Turn, Kept

\* A step that changes nothing that matters.
LEMMA NoneTurns ==
  ASSUME AllSound(orders), \A p \in Order : Same(orders[p], orders'[p])
  PROVE  Still
<1>1. AllSound(orders')
  BY SameSound DEF AllSound
<1>2. \A p \in Order : orders'[p].status = orders[p].status
  BY DEF Same
<1>3. board' = board
  <2>1. board' = [p \in Order |-> Entry(orders'[p])] /\ board = [p \in Order |-> Entry(orders[p])]
    BY DEF board, Entry, BoardPhase, BoardDriver
  <2>2. \A p \in Order : Entry(orders'[p]) = Entry(orders[p])
    BY SameSound
  <2> QED
    BY <2>1, <2>2
<1> QED
  BY <1>1, <1>2, <1>3 DEF Still, Kept

\* The calls that are left, and those that a step puts before them.
LEMMA CallsOf ==
  /\ Calls(<<>>) = {}
  /\ \A a : Calls(<<a>>) = {a}
  /\ \A a, b : Calls(<<a, b>>) = {a, b}
  /\ \A a, b, c : Calls(<<a, b, c>>) = {a, b, c}
BY DEF Calls

LEMMA CallsJoin ==
  ASSUME NEW s \in Seq(Call), NEW t \in Seq(Call)
  PROVE  /\ Calls(t \o s) = Calls(t) \union Calls(s)
         /\ s # <<>> => Calls(s) = {Head(s)} \union Calls(Tail(s))
         /\ <<>> \o s = s
         /\ t # <<>> => Head(t \o s) = Head(t) /\ Tail(t \o s) = Tail(t) \o s
<1>1. /\ Len(t) \in Nat /\ DOMAIN t = 1 .. Len(t)
      /\ Len(s) \in Nat /\ DOMAIN s = 1 .. Len(s)
  OBVIOUS
<1>2. /\ DOMAIN (t \o s) = 1 .. (Len(t) + Len(s))
      /\ \A i \in 1 .. Len(t) : (t \o s)[i] = t[i]
      /\ \A i \in 1 .. Len(s) : (t \o s)[i + Len(t)] = s[i]
  OBVIOUS
<1>3. Calls(t \o s) \subseteq Calls(t) \union Calls(s)
  <2> SUFFICES ASSUME NEW i \in DOMAIN (t \o s) PROVE (t \o s)[i] \in Calls(t) \union Calls(s)
    BY DEF Calls
  <2>1. CASE i \in 1 .. Len(t)
    BY <1>1, <1>2, <2>1 DEF Calls
  <2>2. CASE i \notin 1 .. Len(t)
    <3>1. i - Len(t) \in 1 .. Len(s) /\ i = (i - Len(t)) + Len(t)
      BY <1>1, <1>2, <2>2
    <3>2. (t \o s)[i] = s[i - Len(t)]
      BY <1>2, <3>1
    <3> QED
      BY <1>1, <3>1, <3>2 DEF Calls
  <2> QED
    BY <2>1, <2>2
<1>4. Calls(t) \union Calls(s) \subseteq Calls(t \o s)
  <2>1. ASSUME NEW i \in DOMAIN t PROVE t[i] \in Calls(t \o s)
    BY <1>1, <1>2 DEF Calls
  <2>2. ASSUME NEW i \in DOMAIN s PROVE s[i] \in Calls(t \o s)
    <3>1. i + Len(t) \in DOMAIN (t \o s)
      BY <1>1, <1>2
    <3> QED
      BY <1>1, <1>2, <3>1 DEF Calls
  <2> QED
    BY <2>1, <2>2 DEF Calls
<1>5. ASSUME s # <<>> PROVE Calls(s) = {Head(s)} \union Calls(Tail(s))
  <2>1. /\ Len(s) >= 1 /\ Head(s) = s[1] /\ DOMAIN Tail(s) = 1 .. (Len(s) - 1)
        /\ \A i \in 1 .. (Len(s) - 1) : Tail(s)[i] = s[i + 1]
    BY <1>5
  <2>2. ASSUME NEW i \in DOMAIN s PROVE s[i] \in {Head(s)} \union Calls(Tail(s))
    <3>1. CASE i = 1
      BY <2>1, <3>1
    <3>2. CASE i # 1
      <4>1. i - 1 \in 1 .. (Len(s) - 1) /\ (i - 1) + 1 = i
        BY <1>1, <3>2
      <4>2. Tail(s)[i - 1] = s[i]
        BY <2>1, <4>1
      <4> QED
        BY <2>1, <4>1, <4>2 DEF Calls
    <3> QED
      BY <3>1, <3>2
  <2>3. ASSUME NEW i \in DOMAIN Tail(s) PROVE Tail(s)[i] \in Calls(s)
    BY <1>1, <2>1 DEF Calls
  <2>4. Head(s) \in Calls(s)
    BY <1>1, <2>1 DEF Calls
  <2> QED
    BY <2>2, <2>3, <2>4 DEF Calls
<1>6. <<>> \o s = s
  OBVIOUS
<1>7. t # <<>> => Head(t \o s) = Head(t) /\ Tail(t \o s) = Tail(t) \o s
  OBVIOUS
<1> QED
  BY <1>3, <1>4, <1>5, <1>6, <1>7

\* What a call of dispatch makes of the calls: it ends, makes another one that is no
\* rest of a handler, or is a release that makes one and goes on.
LEMMA DispatchCalls ==
  ASSUME TypeOK, DispatchStep
  PROVE  /\ agenda # <<>>
         /\ \A c \in Calls(agenda') :
              \/ c \in Calls(agenda)
              \/ c.driver = None /\ c.fn \in {"offer", "noDriver", "notifyOrFallback", "fallback",
                                              "recheck", "scan"}
         /\ Calls(Tail(agenda)) \subseteq Calls(agenda')
         /\ agenda' # <<>> =>
              \A c \in Calls(Tail(agenda')) : c \in Calls(Tail(agenda)) \/ c.fn = "release"
<1> USE DEF Calling, Notifying, FallingBack, Promoting, Then, Return
<1> DEFINE new == {"offer", "noDriver", "notifyOrFallback", "fallback", "recheck", "scan"}
           fresh == {c \in Call : c.driver = None /\ c.fn \in new}
<1>1. agenda \in Seq(Call) /\ agenda # <<>>
  BY DEF TypeOK, DispatchStep, Idle, OfferRefused, OfferMade, OfferFindsNobody, NoDriverParks,
     NoDriverToChat, NotifyMade, NotifyNobody, FallbackOffers, FallbackWaits, PromoteMisses,
     PromoteWaitsForAnswer, PromoteStarts, ScanEnds, ScanFallsBack, ScanAsks, ScanOffers,
     ScanNotifies, ReleaseNext, ReleaseEnds, StartReserved, PostRide
<1>2. /\ Arg.fn \notin AboutNoOrder => Arg.order \in Order
      /\ Tail(agenda) \in Seq(Call) /\ Arg = Head(agenda) /\ Arg.todo \in SUBSET Order
  BY <1>1, ArgTypes DEF Idle, Arg
<1>3. /\ \A o \in Order, but \in SUBSET Driver : Offer(o, but) \in fresh
      /\ \A o \in Order, fn \in new \ {"scan"} : Do(fn, o) \in fresh
      /\ \A todo \in SUBSET Order : Scan(todo) \in fresh
  <2>1. \A c : c \in {d \in Call : d.fn \in new} => c \in fresh
    BY DEF Call, ForDriver
  <2> QED
    BY <2>1, CallNames, CallTypes DEF Function, AboutNoOrder, ForDriver
<1> HIDE DEF fresh
<1>4. \/ agenda' = Tail(agenda)
      \/ \E a \in fresh : agenda' = <<a>> \o Tail(agenda)
      \/ Arg.fn = "release" /\ agenda' = <<>> \o agenda
      \/ Arg.fn = "release" /\ \E a \in fresh : agenda' = <<a>> \o agenda
  <2>1. CASE OfferRefused \/ OfferMade \/ OfferFindsNobody
    <3>1. Arg.order \in Order
      BY <1>2, <2>1 DEF OfferRefused, OfferMade, OfferFindsNobody, Arg, AboutNoOrder
    <3> QED
      BY <1>3, <2>1, <3>1 DEF OfferRefused, OfferMade, OfferFindsNobody
  <2>2. CASE NoDriverParks \/ NoDriverToChat
    <3>1. Arg.order \in Order
      BY <1>2, <2>2 DEF NoDriverParks, NoDriverToChat, Arg, AboutNoOrder
    <3> QED
      BY <1>3, <2>2, <3>1 DEF NoDriverParks, NoDriverToChat
  <2>3. CASE NotifyMade \/ NotifyNobody
    <3>1. Arg.order \in Order
      BY <1>2, <2>3 DEF NotifyMade, NotifyNobody, Arg, AboutNoOrder
    <3> QED
      BY <1>3, <2>3, <3>1 DEF NotifyMade, NotifyNobody
  <2>4. CASE FallbackOffers \/ FallbackWaits
    <3>1. Arg.order \in Order
      BY <1>2, <2>4 DEF FallbackOffers, FallbackWaits, Arg, AboutNoOrder
    <3> QED
      BY <1>3, <2>4, <3>1 DEF FallbackOffers, FallbackWaits
  <2>5. CASE PromoteMisses \/ PromoteWaitsForAnswer \/ PromoteStarts
    BY <1>3, <2>5 DEF PromoteMisses, PromoteWaitsForAnswer, PromoteStarts
  <2>6. CASE ScanEnds \/ ScanFallsBack \/ ScanAsks \/ ScanOffers \/ ScanNotifies
    <3>1. Next_(Repaired) \subseteq Order
      BY <1>2 DEF Next_, First
    <3> QED
      BY <1>2, <1>3, <2>6, <3>1 DEF ScanEnds, ScanFallsBack, ScanAsks, ScanOffers, ScanNotifies
  <2>7. CASE ReleaseNext
    <3>1. CardsOf(Arg.order) \subseteq Order
      BY DEF CardsOf
    <3> QED
      BY <1>3, <2>7, <3>1 DEF ReleaseNext, Arg
  <2>8. CASE ReleaseEnds \/ StartReserved \/ PostRide
    BY <2>8 DEF ReleaseEnds, StartReserved, PostRide
  <2> QED
    BY <2>1, <2>2, <2>3, <2>4, <2>5, <2>6, <2>7, <2>8 DEF DispatchStep
<1>5. /\ Calls(agenda) = {Arg} \union Calls(Tail(agenda)) /\ <<>> \o agenda = agenda
      /\ \A a \in fresh, s \in Seq(Call) :
           Calls(<<a>> \o s) = {a} \union Calls(s) /\ Tail(<<a>> \o s) = s
  <2>1. fresh \subseteq Call
    BY DEF fresh
  <2>2. ASSUME NEW a \in fresh, NEW s \in Seq(Call)
        PROVE  Calls(<<a>> \o s) = {a} \union Calls(s) /\ Tail(<<a>> \o s) = s
    <3>1. <<a>> \in Seq(Call) /\ <<a>> # <<>> /\ Tail(<<a>>) = <<>>
      BY <2>1
    <3>2. Calls(<<a>> \o s) = Calls(<<a>>) \union Calls(s) /\ Tail(<<a>> \o s) = Tail(<<a>>) \o s
      BY <3>1, CallsJoin
    <3>3. Calls(<<a>>) = {a}
      BY CallsOf
    <3>4. <<>> \o s = s
      OBVIOUS
    <3> QED
      BY <3>1, <3>2, <3>3, <3>4
  <2> QED
    BY <1>1, <1>2, <2>2, CallsJoin
<1>6. Tail(agenda) # <<>> => Calls(Tail(Tail(agenda))) \subseteq Calls(Tail(agenda))
  BY <1>2, CallsJoin
<1>7. \A a \in fresh : a.driver = None /\ a.fn \in new
  BY DEF fresh
<1>8. CASE agenda' = Tail(agenda)
  BY <1>1, <1>5, <1>6, <1>8
<1>9. ASSUME NEW a \in fresh, agenda' = <<a>> \o Tail(agenda)
      PROVE  /\ \A c \in Calls(agenda') : c \in Calls(agenda) \/ (c.driver = None /\ c.fn \in new)
             /\ Calls(Tail(agenda)) \subseteq Calls(agenda')
             /\ \A c \in Calls(Tail(agenda')) : c \in Calls(Tail(agenda)) \/ c.fn = "release"
  BY <1>2, <1>5, <1>7, <1>9
<1>10. CASE Arg.fn = "release" /\ agenda' = <<>> \o agenda
  BY <1>1, <1>5, <1>10
<1>11. ASSUME NEW a \in fresh, Arg.fn = "release", agenda' = <<a>> \o agenda
       PROVE  /\ \A c \in Calls(agenda') : c \in Calls(agenda) \/ (c.driver = None /\ c.fn \in new)
              /\ Calls(Tail(agenda)) \subseteq Calls(agenda')
              /\ \A c \in Calls(Tail(agenda')) : c \in Calls(Tail(agenda)) \/ c.fn = "release"
  <2>1. Calls(agenda') = {a} \union Calls(agenda) /\ Tail(agenda') = agenda
    BY <1>1, <1>5, <1>11
  <2> QED
    BY <1>5, <1>7, <1>11, <2>1
<1> QED
  BY <1>1, <1>4, <1>8, <1>9, <1>10, <1>11

\* Closing a card for the road and withdrawing a request change nothing that matters.
LEMMA ShutSame ==
  ASSUME NEW r \in OrderRecord
  PROVE  /\ CloseRoute(r) \in OrderRecord /\ Same(r, CloseRoute(r))
         /\ Withdraw(r) \in OrderRecord /\ Same(r, Withdraw(r))
<1>1. CloseRoute(r) \in OrderRecord /\ Same(r, CloseRoute(r))
  <2> DEFINE c == CloseRoute(r)
  <2>1. /\ c.status = r.status /\ c.driver = r.driver /\ c.parallel = r.parallel
        /\ c.offered = r.offered /\ c.fixing = r.fixing /\ c.proposed = r.proposed
        /\ c.pricing = r.pricing /\ c.posted = r.posted /\ c.chatOffline = r.chatOffline
        /\ c.jobs = r.jobs \ {"route_parallel_offer"}
    BY DEF CloseRoute, OrderRecord
  <2>2. c \in OrderRecord
    BY DEF CloseRoute, OrderRecord
  <2> HIDE DEF c
  <2>3. Same(r, c)
    BY <2>1 DEF Same
  <2> QED
    BY <2>2, <2>3 DEF c
<1>2. \A c \in OrderRecord : Same(c, [c EXCEPT !.jobs = @ \ {"pqueue"}])
  BY DEF OrderRecord, Same
<1>3. Withdraw(r) \in OrderRecord /\ Same(r, Withdraw(r))
  <2>1. Withdraw(r) \in OrderRecord
    BY <1>1 DEF Withdraw, OrderRecord
  <2>2. CASE r.routeDriver # None
    <3>1. Withdraw(r) = [CloseRoute(r) EXCEPT !.jobs = @ \ {"pqueue"}]
      BY <2>2 DEF Withdraw
    <3>2. Same(CloseRoute(r), Withdraw(r))
      BY <1>1, <1>2, <3>1
    <3> QED
      BY <1>1, <2>1, <3>2 DEF Same
  <2>3. CASE r.routeDriver = None
    <3>1. Withdraw(r) = [r EXCEPT !.jobs = @ \ {"pqueue"}]
      BY <2>3 DEF Withdraw
    <3> QED
      BY <1>2, <2>1, <3>1
  <2> QED
    BY <2>2, <2>3
<1> QED
  BY <1>1, <1>3

\* Withdrawing questions changes nothing that matters.
LEMMA PollsSame ==
  ASSUME NEW os \in [Order -> OrderRecord], NEW P, NEW o \in Order
  PROVE  Same(os[o], WithoutPolls(os, P)[o])
<1>1. CASE o \in P
  BY <1>1 DEF WithoutPolls, Same, OrderRecord
<1>2. CASE o \notin P
  BY <1>2 DEF WithoutPolls, Same, OrderRecord
<1> QED
  BY <1>1, <1>2

\* A request that stays where it is.
LEMMA TurnInPlace ==
  ASSUME NEW o \in Order, Turn(o, Entry(orders[o]))
  PROVE  Still
<1>1. board[o] = Entry(orders[o]) /\ board = [board EXCEPT ![o] = board[o]]
  BY DEF board
<1> QED
  BY <1>1 DEF Turn, Still

\* A request that changes alone.
LEMMA AloneTurns ==
  ASSUME TypeOK, TypeOK', AllSound(orders), NEW o \in Order, NEW r,
         orders' = [orders EXCEPT ![o] = r], Sound(o, r),
         AddressesStay /\ orders[o].status \in Closed => r.status = orders[o].status
  PROVE  /\ Turn(o, Entry(r))
         /\ Entry(r) = Entry(orders[o]) => Still
<1>1. /\ orders'[o] = r /\ \A p \in Order \ {o} : orders'[p] = orders[p]
      /\ orders' \in [Order -> OrderRecord]
  BY DEF TypeOK
<1>2. \A p \in Order \ {o} : Same(orders[p], orders'[p])
  BY <1>1 DEF Same
<1>3. Turn(o, Entry(orders'[o]))
  BY <1>1, <1>2, OneTurns
<1> QED
  BY <1>1, <1>3, TurnInPlace

\* A request that changes in nothing that matters.
LEMMA AloneSame ==
  ASSUME TypeOK, AllSound(orders), NEW o \in Order, NEW r,
         orders' = [orders EXCEPT ![o] = r], Same(orders[o], r)
  PROVE  Still
<1>1. orders'[o] = r /\ \A p \in Order \ {o} : orders'[p] = orders[p]
  BY DEF TypeOK
<1>2. \A p \in Order : Same(orders[p], orders'[p])
  BY <1>1 DEF Same
<1> QED
  BY <1>2, NoneTurns

\* No request changes.
LEMMA UnchangedTurns ==
  ASSUME AllSound(orders), UNCHANGED orders
  PROVE  Still
BY NoneTurns DEF Same

\* offer_to_next_driver and _handle_no_driver show an open request to a driver, or
\* leave it open.
LEMMA OfferTurns ==
  ASSUME TypeOK, TypeOK', HandsInv, SoundInv,
         OfferRefused \/ OfferMade \/ OfferFindsNobody \/ NoDriverParks \/ NoDriverToChat
  PROVE  /\ ~OfferMade => Still
         /\ OfferMade => /\ Arg.order \in Order /\ board[Arg.order] = Place("open", None)
                         /\ \E d \in Front(Repaired, Eligible(Repaired, orders, Arg.order)
                                                       \ Arg.but) :
                              /\ fleet' = MarkOffered(Repaired, d)
                              /\ Turn(Arg.order, Place("shown", d))
<1> USE DEF Calling
<1>1. /\ orders \in [Order -> OrderRecord] /\ agenda \in Seq(Call) /\ AllSound(orders)
  BY DEF TypeOK, SoundInv
<1>2. ~Idle
  BY DEF OfferRefused, OfferMade, OfferFindsNobody, NoDriverParks, NoDriverToChat
<1>3. PICK o : o = Arg.order
  OBVIOUS
<1>4. o \in Order /\ orders[o] \in OrderRecord /\ Sound(o, orders[o]) /\ Held(orders[o], pq[o].row)
  <2>1. Arg.fn \in Direct
    BY DEF Arg, Direct, OfferRefused, OfferMade, OfferFindsNobody, NoDriverParks, NoDriverToChat
  <2> QED
    BY <1>1, <1>2, <1>3, <2>1, ArgTypes DEF Direct, AboutNoOrder, AllSound, HandsInv, AllHeld
<1>5. Arg.fn = "noDriver" => Offerable(orders[o])
  <2>1. 1 \in DOMAIN agenda /\ Arg = agenda[1]
    BY <1>1, <1>2 DEF Idle, Arg
  <2>2. Ready(Arg, orders, pq)
    BY <2>1 DEF HandsInv, AllReady
  <2> QED
    BY <1>3, <2>2 DEF Ready
<1>6. ASSUME Offerable(orders[o])
      PROVE  Entry(orders[o]) = Place("open", None) /\ orders[o].offered = None
             /\ orders[o].driver = None /\ orders[o].parallel = None /\ orders[o].status \in Pending
  BY <1>4, <1>6, EntryIs DEF Offerable, Held, Pending, Candidate
<1>7. ASSUME OfferRefused \/ OfferFindsNobody PROVE Still
  BY <1>1, <1>7, UnchangedTurns DEF OfferRefused, OfferFindsNobody, OfferMade, Return, Then
<1>8. ASSUME NoDriverParks PROVE Still
  <2>1. CASE FreeAfterAll(o)
    BY <1>1, <1>3, <1>8, <2>1, UnchangedTurns DEF NoDriverParks
  <2>2. CASE ~FreeAfterAll(o)
    <3> DEFINE r == [orders[o] EXCEPT !.status = IF Parked(pq, o) THEN "no_drivers" ELSE "queued"]
    <3>1. orders' = [orders EXCEPT ![o] = r] /\ Offerable(orders[o])
      BY <1>1, <1>3, <1>4, <1>5, <1>8, <2>2 DEF NoDriverParks, Arg
    <3>2. /\ r.status \in {"no_drivers", "queued"} /\ r.driver = None /\ r.parallel = None
          /\ r.offered = None
          /\ r.fixing = orders[o].fixing /\ r.proposed = orders[o].proposed
          /\ r.pricing = orders[o].pricing /\ r.posted = orders[o].posted
          /\ r.chatOffline = orders[o].chatOffline /\ r.jobs = orders[o].jobs
      BY <1>4, <1>6, <3>1 DEF OrderRecord
    <3> HIDE DEF r
    <3>3. Sound(o, r)
      BY <1>4, <3>2 DEF Sound, Asked, Lone, Pending, Candidate, Active
    <3>4. Entry(r) = Entry(orders[o])
      BY <1>6, <3>1, <3>2, EntryIs DEF Pending, Candidate
    <3>5. orders[o].status \notin Closed
      BY <1>6, <3>1 DEF Pending, Candidate, Closed
    <3> QED
      BY <1>1, <1>4, <3>1, <3>3, <3>4, <3>5, AloneTurns
  <2> QED
    BY <2>1, <2>2
<1>9. ASSUME NoDriverToChat PROVE Still
  <2>1. CASE FreeAfterAll(o)
    BY <1>1, <1>3, <1>9, <2>1, UnchangedTurns DEF NoDriverToChat
  <2>2. CASE ~FreeAfterAll(o)
    <3> DEFINE x == [orders[o] EXCEPT !.status = "chat_search", !.posted = TRUE,
                                      !.jobs = @ \union {"driver_chat"}]
               y == [orders[o] EXCEPT !.status = "no_drivers"]
    <3>1. PICK r : r = IF ChatOpen THEN x ELSE y
      OBVIOUS
    <3>2. orders' = [orders EXCEPT ![o] = r] /\ Offerable(orders[o])
      BY <1>1, <1>3, <1>4, <1>5, <1>9, <2>2, <3>1 DEF NoDriverToChat, Arg
    <3>3. /\ r.status \in {"no_drivers", "chat_search"} /\ r.driver = None /\ r.parallel = None
          /\ r.offered = None
          /\ r.fixing = orders[o].fixing /\ r.proposed = orders[o].proposed
          /\ r.pricing = orders[o].pricing /\ (r.posted => orders[o].posted \/ ChatOpen)
          /\ r.chatOffline = orders[o].chatOffline
          /\ ("delivery" \in r.jobs => "delivery" \in orders[o].jobs)
      BY <1>4, <1>6, <3>1, <3>2 DEF OrderRecord
    <3> HIDE DEF x, y
    <3>4. Sound(o, r)
      BY <1>4, <3>3 DEF Sound, Asked, Lone, Pending, Candidate, Active
    <3>5. Entry(r) = Entry(orders[o])
      BY <1>6, <3>2, <3>3, EntryIs DEF Pending, Candidate
    <3>6. orders[o].status \notin Closed
      BY <1>6, <3>2 DEF Pending, Candidate, Closed
    <3> QED
      BY <1>1, <1>4, <3>2, <3>4, <3>5, <3>6, AloneTurns
  <2> QED
    BY <2>1, <2>2
<1>10. ASSUME OfferMade
       PROVE  /\ Arg.order \in Order /\ board[Arg.order] = Place("open", None)
              /\ \E d \in Front(Repaired, Eligible(Repaired, orders, Arg.order) \ Arg.but) :
                   fleet' = MarkOffered(Repaired, d) /\ Turn(Arg.order, Place("shown", d))
  <2>1. PICK P : P = Polls(pq) \ {o}
    OBVIOUS
  <2> DEFINE c == CloseRoute(orders[o])
  <2>2. PICK d \in Front(Repaired, Eligible(Repaired, orders, o) \ Arg.but) :
          /\ orders' = WithoutPolls([orders EXCEPT ![o] =
                     [c EXCEPT !.status = "searching", !.offered = d,
                               !.card = TRUE, !.jobs = @ \union {"accept"}]], P)
          /\ fleet' = MarkOffered(Repaired, d) /\ Offerable(orders[o])
    BY <1>3, <1>10, <2>1 DEF OfferMade
  <2>3. d \in Driver /\ d # None
    BY NoneAssumption DEF Front, Eligible, Waiting, Free, VisiblyFree
  <2> DEFINE r == [c EXCEPT !.status = "searching", !.offered = d,
                            !.card = TRUE, !.jobs = @ \union {"accept"}]
             os == [orders EXCEPT ![o] = r]
  <2>4. c \in OrderRecord /\ Same(orders[o], c)
    BY <1>4, ShutSame
  <2> HIDE DEF c
  <2>5. /\ r \in OrderRecord /\ r.status = "searching" /\ r.offered = d /\ r.driver = c.driver
        /\ r.parallel = c.parallel /\ r.fixing = c.fixing /\ r.proposed = c.proposed
        /\ r.pricing = c.pricing /\ r.posted = c.posted /\ r.chatOffline = c.chatOffline
        /\ ("delivery" \in r.jobs => "delivery" \in c.jobs)
    <3>1. ASSUME NEW v \in OrderRecord, NEW e \in Driver
          PROVE  [v EXCEPT !.status = "searching", !.offered = e, !.card = TRUE,
                           !.jobs = v.jobs \union {"accept"}] \in OrderRecord
      BY DEF OrderRecord, OrderStatus, Timer
    <3> QED
      BY <2>3, <2>4, <3>1 DEF OrderRecord
  <2> HIDE DEF r
  <2>6. os \in [Order -> OrderRecord] /\ os[o] = r /\ \A p \in Order \ {o} : os[p] = orders[p]
    BY <1>1, <1>4, <2>5
  <2>7. orders' = WithoutPolls(os, P)
    BY <2>2 DEF r
  <2> HIDE DEF os
  <2>8. Sound(o, r)
    BY <1>4, <1>6, <2>2, <2>4, <2>5 DEF Sound, Asked, Lone, Same, Pending, Candidate, Active
  <2>9. Entry(r) = Place("shown", d)
    BY <2>3, <2>5, EntryIs
  <2>10. /\ \A p \in Order : Same(os[p], orders'[p])
         /\ \A p \in Order \ {o} : Same(orders[p], orders'[p])
    BY <2>6, <2>7, PollsSame
  <2>11. Sound(o, orders'[o]) /\ Entry(orders'[o]) = Place("shown", d)
    BY <1>4, <2>6, <2>8, <2>9, <2>10, SameSound
  <2>12. orders[o].status \notin Closed
    BY <1>6, <2>2 DEF Pending, Candidate, Closed
  <2>13. Turn(o, Place("shown", d))
    <3>1. orders' \in [Order -> OrderRecord]
      BY DEF TypeOK
    <3>2. Turn(o, Entry(orders'[o]))
      BY <1>1, <1>4, <2>10, <2>11, <2>12, <3>1, OneTurns
    <3> QED
      BY <2>11, <3>2
  <2>14. board[o] = Place("open", None)
    BY <1>4, <1>6, <2>2 DEF board
  <2> QED
    BY <1>3, <1>4, <1>10, <2>2, <2>13, <2>14
<1> QED
  BY <1>7, <1>8, <1>9, <1>10

\* The other calls of dispatch move nothing on the board, but that a reserved request
\* becomes the trip.
LEMMA RestTurns ==
  ASSUME TypeOK, TypeOK', HandsInv, SoundInv, DispatchStep,
         ~(OfferRefused \/ OfferMade \/ OfferFindsNobody \/ NoDriverParks \/ NoDriverToChat)
  PROVE  /\ ~StartReserved => Still
         /\ StartReserved =>
              /\ Arg.driver \in Driver
              /\ \E o \in Reservations(orders, Arg.driver) :
                   Turn(o, Place("riding", Arg.driver)) /\ orders[o].status = "parallel_assigned"
<1> USE DEF Calling, Notifying, FallingBack, Promoting
<1>1. /\ orders \in [Order -> OrderRecord] /\ agenda \in Seq(Call) /\ AllSound(orders)
      /\ pq \in [Order -> QueueRecord]
  BY DEF TypeOK, SoundInv
<1>2. ~Idle => /\ Arg.fn \notin AboutNoOrder => Arg.order \in Order
               /\ Arg.fn \in ForDriver => Arg.driver \in Driver
               /\ Arg.todo \in SUBSET Order /\ Arg = Head(agenda)
  BY <1>1, ArgTypes DEF Arg
<1>3. \A o \in Order : Sound(o, orders[o]) /\ Held(orders[o], pq[o].row) /\ orders[o] \in OrderRecord
  BY <1>1 DEF AllSound, HandsInv, AllHeld
<1>4. ASSUME UNCHANGED orders PROVE Still
  BY <1>1, <1>4, UnchangedTurns
<1>5. ASSUME NEW o \in Order, RouteOffer(o) PROVE Still
  <2>1. PICK t \in Order : orders' = [orders EXCEPT ![o].routeDriver = orders[t].driver,
                                                   ![o].routeTrip = t,
                                                   ![o].jobs = @ \union {"route_parallel_offer"}]
    BY <1>5 DEF RouteOffer, AutoTrips, TripsTo
  <2> DEFINE r == [orders[o] EXCEPT !.routeDriver = orders[t].driver, !.routeTrip = t,
                                    !.jobs = @ \union {"route_parallel_offer"}]
  <2>2. orders' = [orders EXCEPT ![o] = r]
    BY <1>1, <2>1
  <2>3. Same(orders[o], r)
    BY <1>3 DEF OrderRecord, Same
  <2> HIDE DEF r
  <2> QED
    BY <1>1, <2>2, <2>3, AloneSame
<1>6. ASSUME NEW o \in Order, NEW c \in OrderRecord, NEW r, Unclaimed(orders[o]), Same(orders[o], c),
             orders' = [orders EXCEPT ![o] = r],
             r.status \in {"searching", "queued"}, r.offered = c.offered,
             r.driver = c.driver, r.parallel = c.parallel, r.fixing => c.fixing,
             r.proposed = c.proposed, r.pricing = c.pricing, r.posted = c.posted,
             r.chatOffline = c.chatOffline, r.jobs = c.jobs
      PROVE  Still
  <2>1. /\ orders[o].status \in Candidate /\ orders[o].driver = None /\ orders[o].parallel = None
        /\ orders[o].offered = None
    BY <1>3, <1>6 DEF Unclaimed, Held
  <2>2. r.driver = None /\ r.parallel = None /\ r.offered = None
    BY <1>6, <2>1 DEF Same
  <2>3. Sound(o, r)
    BY <1>3, <1>6, <2>2 DEF Sound, Asked, Lone, Same, Pending, Candidate, Active
  <2>4. Entry(r) = Place("open", None) /\ Entry(orders[o]) = Place("open", None)
    BY <1>6, <2>1, <2>2, EntryIs DEF Pending, Candidate
  <2>5. orders[o].status \notin Closed
    BY <2>1 DEF Candidate, Closed
  <2> QED
    BY <1>1, <1>6, <2>3, <2>4, <2>5, AloneTurns
<1>7. CASE NotifyMade \/ NotifyNobody
  <2>1. Arg.order \in Order
    BY <1>2, <1>7 DEF NotifyMade, NotifyNobody, AboutNoOrder
  <2> QED
    BY <1>4, <1>5, <1>7, <2>1 DEF NotifyMade, NotifyNobody, StartReserved
<1>8. CASE FallbackOffers
  <2>1. PICK o : o = Arg.order
    OBVIOUS
  <2>2. o \in Order
    BY <1>2, <1>8, <2>1 DEF FallbackOffers, AboutNoOrder
  <2> DEFINE c == Withdraw(CloseRoute(orders[o]))
  <2>3. PICK b : orders' = [orders EXCEPT ![o] = [c EXCEPT !.status = "searching", !.etaSet = FALSE,
                                                           !.fallback = b]]
    BY <1>8, <2>1 DEF FallbackOffers
  <2>4. c \in OrderRecord /\ Same(orders[o], c)
    <3>1. CloseRoute(orders[o]) \in OrderRecord /\ Same(orders[o], CloseRoute(orders[o]))
      BY <1>3, <2>2, ShutSame
    <3>2. c \in OrderRecord /\ Same(CloseRoute(orders[o]), c)
      BY <3>1, ShutSame
    <3> QED
      BY <3>1, <3>2 DEF Same
  <2> HIDE DEF c
  <2> DEFINE r == [c EXCEPT !.status = "searching", !.etaSet = FALSE, !.fallback = b]
  <2>5. /\ r.status = "searching" /\ r.offered = c.offered
        /\ r.driver = c.driver /\ r.parallel = c.parallel /\ r.fixing = c.fixing
        /\ r.proposed = c.proposed /\ r.pricing = c.pricing /\ r.posted = c.posted
        /\ r.chatOffline = c.chatOffline /\ r.jobs = c.jobs
    BY <2>4 DEF OrderRecord
  <2>6. Unclaimed(orders[o]) /\ orders' = [orders EXCEPT ![o] = r]
    BY <1>8, <2>1, <2>3 DEF FallbackOffers
  <2> HIDE DEF r
  <2> QED
    BY <1>6, <1>8, <2>2, <2>4, <2>5, <2>6 DEF FallbackOffers, StartReserved
<1>9. ASSUME FallbackWaits PROVE Still
  <2>1. PICK o : o = Arg.order
    OBVIOUS
  <2>2. o \in Order
    BY <1>2, <1>9, <2>1 DEF FallbackWaits, AboutNoOrder
  <2> DEFINE c == CloseRoute(orders[o])
             r == [c EXCEPT !.status = "queued", !.etaSet = FALSE, !.fallback = TRUE]
  <2>3. c \in OrderRecord /\ Same(orders[o], c)
    BY <1>3, <2>2, ShutSame
  <2>4. orders' = [orders EXCEPT ![o] = r] /\ Unclaimed(orders[o])
    BY <1>9, <2>1 DEF FallbackWaits
  <2> HIDE DEF c
  <2>5. /\ r.status = "queued" /\ r.offered = c.offered
        /\ r.driver = c.driver /\ r.parallel = c.parallel /\ r.fixing = c.fixing
        /\ r.proposed = c.proposed /\ r.pricing = c.pricing /\ r.posted = c.posted
        /\ r.chatOffline = c.chatOffline /\ r.jobs = c.jobs
    BY <2>3 DEF OrderRecord
  <2> HIDE DEF r
  <2> QED
    BY <1>6, <2>2, <2>3, <2>4, <2>5
<1>10. CASE PromoteMisses \/ PromoteWaitsForAnswer
  BY <1>4, <1>10 DEF PromoteMisses, PromoteWaitsForAnswer, StartReserved
<1>11. CASE PromoteStarts
  <2>1. orders' = WithoutPolls(orders, Polls(pq))
    BY <1>11 DEF PromoteStarts
  <2>2. \A o \in Order : Same(orders[o], orders'[o])
    BY <1>1, <2>1, PollsSame
  <2> QED
    BY <1>1, <1>11, <2>2, NoneTurns DEF PromoteStarts, StartReserved
<1>12. Calling("scan") => Next_(Repaired) \subseteq Order
  BY <1>2 DEF Next_, First
<1>13. CASE ScanEnds \/ ScanFallsBack
  BY <1>4, <1>13 DEF ScanEnds, ScanFallsBack, StartReserved
<1>14. CASE ScanAsks
  <2>1. PICK o \in Order : orders' = [orders EXCEPT ![o].jobs = @ \union {"pqueue"}, ![o].fixing = FALSE]
    BY <1>12, <1>14 DEF ScanAsks
  <2> DEFINE r == [orders[o] EXCEPT !.jobs = @ \union {"pqueue"}, !.fixing = FALSE]
  <2>2. orders' = [orders EXCEPT ![o] = r]
    BY <1>1, <2>1
  <2>3. Same(orders[o], r)
    BY <1>3 DEF OrderRecord, Same
  <2> HIDE DEF r
  <2> QED
    BY <1>1, <1>14, <2>2, <2>3, AloneSame DEF ScanAsks, StartReserved
<1>15. CASE ScanOffers
  <2>1. PICK o \in Order :
          \/ UNCHANGED orders
          \/ /\ Unclaimed(orders[o])
             /\ orders' = [orders EXCEPT ![o] =
                    [Withdraw(orders[o]) EXCEPT !.status = "searching", !.fixing = FALSE]]
    BY <1>12, <1>15 DEF ScanOffers
  <2> DEFINE c == Withdraw(orders[o])
             r == [c EXCEPT !.status = "searching", !.fixing = FALSE]
  <2>2. c \in OrderRecord /\ Same(orders[o], c)
    BY <1>3, ShutSame
  <2> HIDE DEF c
  <2>3. /\ r.status = "searching" /\ r.offered = c.offered
        /\ r.driver = c.driver /\ r.parallel = c.parallel /\ (r.fixing => c.fixing)
        /\ r.proposed = c.proposed /\ r.pricing = c.pricing /\ r.posted = c.posted
        /\ r.chatOffline = c.chatOffline /\ r.jobs = c.jobs
    BY <2>2 DEF OrderRecord
  <2>4. UNCHANGED orders \/ (Unclaimed(orders[o]) /\ orders' = [orders EXCEPT ![o] = r])
    BY <2>1 DEF c
  <2> HIDE DEF r
  <2> QED
    BY <1>4, <1>6, <1>15, <2>2, <2>3, <2>4 DEF ScanOffers, StartReserved
<1>16. CASE ScanNotifies
  BY <1>4, <1>5, <1>12, <1>16 DEF ScanNotifies, StartReserved
<1>17. CASE ReleaseNext
  <2>1. PICK o \in Order : orders' = [orders EXCEPT ![o] = CloseRoute(@)]
    BY <1>17 DEF ReleaseNext, CardsOf
  <2>2. orders' = [orders EXCEPT ![o] = CloseRoute(orders[o])] /\ Same(orders[o], CloseRoute(orders[o]))
    BY <1>3, <2>1, ShutSame
  <2> QED
    BY <1>1, <1>17, <2>2, AloneSame DEF ReleaseNext, StartReserved
<1>18. CASE ReleaseEnds \/ PostRide
  BY <1>4, <1>18 DEF ReleaseEnds, PostRide, StartReserved
<1>19. CASE StartReserved
  <2>1. PICK d : d = Arg.driver
    OBVIOUS
  <2>2. d \in Driver
    BY <1>2, <1>19, <2>1 DEF StartReserved, ForDriver
  <2>3. PICK o \in Reservations(orders, d) :
          orders' = [orders EXCEPT ![o].status = "assigned", ![o].driver = d,
                                   ![o].parallel = None, ![o].etaSet = FALSE,
                                   ![o].departed = TRUE]
    BY <1>19, <2>1 DEF StartReserved
  <2>4. o \in Order /\ orders[o].status = "parallel_assigned" /\ orders[o].offered = None
    BY <1>3, <2>3 DEF Reservations, Held
  <2> DEFINE r == [orders[o] EXCEPT !.status = "assigned", !.driver = d, !.parallel = None,
                                    !.etaSet = FALSE, !.departed = TRUE]
  <2>5. orders' = [orders EXCEPT ![o] = r]
    BY <1>1, <2>3, <2>4
  <2>6. /\ r.status = "assigned" /\ r.driver = d /\ r.parallel = None /\ r.offered = None
        /\ r.fixing = orders[o].fixing /\ r.proposed = orders[o].proposed
        /\ r.pricing = orders[o].pricing /\ r.posted = orders[o].posted
        /\ r.chatOffline = orders[o].chatOffline /\ r.jobs = orders[o].jobs
    BY <1>3, <2>4 DEF OrderRecord
  <2> HIDE DEF r
  <2>7. Sound(o, r)
    BY <1>3, <2>2, <2>4, <2>6, NoneAssumption DEF Sound, Asked, Lone, Pending, Candidate, Active
  <2>8. Entry(r) = Place("riding", d)
    BY <2>6, EntryIs DEF Active
  <2>9. Turn(o, Place("riding", d))
    BY <1>1, <2>4, <2>5, <2>7, <2>8, AloneTurns DEF Closed
  <2> QED
    BY <1>19, <2>1, <2>2, <2>3, <2>4, <2>9
<1>20. FallbackWaits => ~StartReserved
  BY DEF FallbackWaits, StartReserved
<1> QED
  BY <1>7, <1>8, <1>9, <1>10, <1>11, <1>13, <1>14, <1>15, <1>16, <1>17, <1>18, <1>19, <1>20
     DEF DispatchStep

----------------------------------------------------------------------------
(* Who has what, and which calls are still to be made about him.            *)

\* Driver d has a request in this phase.
Has(b, d, phase) == \E o \in Order : b[o] = Place(phase, d)

\* A driver has one request, or reserves one while he rides another.
Single(b) ==
  \A o, p \in Order :
    o # p /\ b[o].driver # None /\ b[p].driver = b[o].driver
      => {b[o].phase, b[p].phase} = {"reserved", "riding"}

\* The phases in which a request is a driver's.
Taken == {"shown", "reserved", "riding"}

\* The displayed status of the driver of a request fits it.
Fits(e, f) ==
  /\ e = Place(e.phase, e.driver)
  /\ e.driver \in Driver \union {None} /\ (e.phase \in Taken <=> e.driver # None)
  /\ e.phase = "shown" => /\ f[e.driver].row = "offered" /\ f[e.driver].status = "online"
                          /\ f[e.driver].onLine
  /\ e.phase \in {"reserved", "riding"} => f[e.driver].status # "online"
  /\ e.phase \in {"reserved", "riding"} /\ ~ChatOpen => f[e.driver].status = "busy"

\* What a call about a driver finds.
Due(c, b, f) ==
  c.driver # None =>
    /\ f[c.driver].status # "online"
    /\ c.fn \in {"rideDone", "startReserved", "postRide"} => ~Has(b, c.driver, "riding")
    /\ c.fn \in {"tripLost", "postRide"} => ~Has(b, c.driver, "reserved")
    /\ c.fn \in OfTrip => b[c.order] = Place("riding", c.driver)

\* A reserved request starts before anything else happens.
Ahead(s) ==
  s # <<>> =>
    /\ \A c \in Calls(Tail(s)) : c.fn # "startReserved"
    /\ Head(s).fn = "startReserved" => \A c \in Calls(Tail(s)) : c.driver = None

\* One of these calls about driver d is still to be made.
Owed(s, d, fns) == \E c \in Calls(s) : c.driver = d /\ c.fn \in fns

\* Whoever has reserved a request, or is displayed as busy, is on a trip or at its end.
Follows(b, f, s, d) ==
  /\ Has(b, d, "reserved") => Has(b, d, "riding") \/ Owed(s, d, {"rideDone", "startReserved"})
  /\ ~ChatOpen /\ f[d].status = "busy"
       => Has(b, d, "riding") \/ Owed(s, d, {"rideDone", "startReserved", "postRide"})

\* Requests, drivers and the calls to be made agree about every driver.
Duty(b, f, s) ==
  /\ Single(b)
  /\ \A o \in Order : Fits(b[o], f)
  /\ \A c \in Calls(s) : Due(c, b, f)
  /\ Ahead(s)
  /\ \A d \in Driver : Follows(b, f, s, d)

\* The steps of RideBoard: what may replace the entry of request o.
Moved(b, o, e) ==
  \/ b[o].phase = "new" /\ e = Place("open", None)
  \/ /\ b[o].phase = "open"
     /\ \E d \in Driver : e = Place("shown", d) /\ \A p \in Order : b[p].driver # d
  \/ /\ b[o].phase \in {"open", "shown"}
     /\ \E d \in Driver : /\ e = Place("riding", d)
                          /\ \A p \in Order \ {o} : b[p].driver # d
  \/ /\ b[o].phase = "open"
     /\ \E d \in Driver : /\ e = Place("reserved", d)
                          /\ Has(b, d, "riding") /\ ~Has(b, d, "reserved")
  \/ /\ b[o].phase = "reserved" /\ b[o].driver \in Driver
     /\ e = Place("riding", b[o].driver) /\ ~Has(b, b[o].driver, "riding")
  \/ b[o].phase \in Taken /\ e = Place("open", None)
  \/ b[o].phase \in Taken \union {"open"} /\ e = Place("over", None)

\* A driver keeps his status and his place in line.
Alike(x, y) == y.status = x.status /\ y.onLine = x.onLine /\ y.row = x.row

\* A step of the board leaves everybody with one duty.
LEMMA MovedSingle ==
  ASSUME NEW b, DOMAIN b = Order, NEW f, NEW o \in Order, NEW e, Moved(b, o, e), Single(b),
         \A p \in Order : Fits(b[p], f)
  PROVE  Single([b EXCEPT ![o] = e])
<1> DEFINE b2 == [b EXCEPT ![o] = e]
<1>1. b2[o] = e /\ \A p \in Order \ {o} : b2[p] = b[p]
  OBVIOUS
<1>2. \A p \in Order \ {o} : e.driver # None /\ b[p].driver = e.driver
                               => {b[p].phase, e.phase} = {"reserved", "riding"}
  <2> SUFFICES ASSUME NEW p \in Order \ {o}, e.driver # None, b[p].driver = e.driver
               PROVE  {b[p].phase, e.phase} = {"reserved", "riding"}
    OBVIOUS
  <2>1. CASE \E d \in Driver : e = Place("reserved", d) /\ Has(b, d, "riding") /\ ~Has(b, d, "reserved")
    <3>1. PICK d \in Driver : e = Place("reserved", d) /\ Has(b, d, "riding")
      BY <2>1
    <3>2. PICK t \in Order : b[t] = Place("riding", d)
      BY <3>1 DEF Has
    <3>3. e.driver = d /\ e.phase = "reserved" /\ b[t].driver = d /\ b[t].phase = "riding"
      BY <3>1, <3>2 DEF Place
    <3>4. CASE p = t
      BY <3>3, <3>4
    <3>5. CASE p # t
      <4>1. {b[p].phase, b[t].phase} = {"reserved", "riding"}
        BY <3>3, <3>5, NoneAssumption DEF Single
      <4>2. b[p].phase = "reserved" /\ b[p].driver = d
        BY <3>3, <4>1
      <4>3. FALSE
        <5>1. b[p] = Place("reserved", d)
          BY <4>2 DEF Fits
        <5>2. e = Place("reserved", d) /\ \A x \in Driver : e = Place("reserved", x) => x = d
          BY <3>1, <3>3 DEF Place
        <5> QED
          BY <2>1, <5>1, <5>2 DEF Has
      <4> QED
        BY <4>3
    <3> QED
      BY <3>4, <3>5
  <2>2. CASE /\ b[o].phase = "reserved" /\ b[o].driver \in Driver
             /\ e = Place("riding", b[o].driver) /\ ~Has(b, b[o].driver, "riding")
    <3>1. e.driver = b[o].driver /\ e.phase = "riding"
      BY <2>2 DEF Place
    <3>2. {b[p].phase, b[o].phase} = {"reserved", "riding"}
      BY <3>1 DEF Single
    <3>3. b[p].phase = "riding"
      BY <2>2, <3>2
    <3>4. b[p] = Place("riding", b[o].driver)
      BY <3>1, <3>3 DEF Fits
    <3> QED
      BY <2>2, <3>4 DEF Has
  <2> QED
    BY <2>1, <2>2 DEF Moved, Place
<1> QED
  BY <1>1, <1>2 DEF Single

\* A step of the board that concerns driver D, or none.
Replaces(b, o, e, D) ==
  \/ e = b[o]
  \/ /\ o \in Order /\ Moved(b, o, e) /\ e.driver \in {None, D}
     /\ b[o].phase = "shown" \/ b[o].driver \in {None, D}

\* Nothing happens to the other drivers, and no call about them comes or goes.
Beside(f, s, f2, s2, D) ==
  /\ \A x \in Driver \ {D} : Alike(f[x], f2[x])
  /\ \A c \in Calls(s) : c.driver \in Driver \ {D} => c \in Calls(s2)
  /\ \A c \in Calls(s2) : c.driver \in {None, D} \/ c \in Calls(s)

\* The duties of driver D.
Own(b, f, s, D) ==
  D # None => /\ \A p \in Order : b[p].driver = D => Fits(b[p], f)
              /\ \A c \in Calls(s) : c.driver = D => Due(c, b, f)
              /\ Follows(b, f, s, D)

\* A step that concerns one driver, or none, and one request: the others go on.
LEMMA OthersGoOn ==
  ASSUME NEW b, b = [p \in Order |-> b[p]], NEW f, NEW s, Duty(b, f, s),
         NEW o, NEW e, NEW b2, b2 = [b EXCEPT ![o] = e], NEW f2, NEW s2,
         NEW D \in Driver \union {None},
         Replaces(b, o, e, D), Beside(f, s, f2, s2, D), Ahead(s2), Own(b2, f2, s2, D),
         \A c \in Calls(s2) : c.driver \in Driver \union {None}
  PROVE  Duty(b2, f2, s2)
<1> USE DEF Replaces, Beside, Own
<1>1. (o \in Order => b2[o] = e) /\ (\A p \in Order \ {o} : b2[p] = b[p]) /\ DOMAIN b2 = Order
  OBVIOUS
<1>2. e = b[o] => b2 = b
  OBVIOUS
<1>3. /\ Single(b) /\ (\A p \in Order : Fits(b[p], f)) /\ (\A c \in Calls(s) : Due(c, b, f))
      /\ \A x \in Driver : Follows(b, f, s, x)
  BY DEF Duty
<1>4. Single(b2)
  BY <1>2, <1>3, MovedSingle
<1>5. e = b[o] \/ (e.driver = None => e \in {Place("open", None), Place("over", None)})
  BY NoneAssumption DEF Moved, Place
<1>6. \A p \in Order : Fits(b2[p], f2)
  <2> SUFFICES ASSUME NEW p \in Order PROVE Fits(b2[p], f2)
    OBVIOUS
  <2>1. CASE D # None /\ b2[p].driver = D
    BY <2>1
  <2>2. CASE (D = None \/ b2[p].driver # D) /\ b2[p] = b[p]
    <3>1. Fits(b[p], f)
      BY <1>3
    <3>2. CASE b[p].driver = None
      BY <2>2, <3>1, <3>2 DEF Fits, Taken
    <3>3. CASE b[p].driver # None
      <4>1. b[p].driver \in Driver \ {D}
        BY <2>2, <3>1, <3>3 DEF Fits
      <4>2. Alike(f[b[p].driver], f2[b[p].driver])
        BY <4>1
      <4> QED
        BY <2>2, <3>1, <4>2 DEF Fits, Alike
    <3> QED
      BY <3>2, <3>3
  <2>3. CASE (D = None \/ b2[p].driver # D) /\ b2[p] # b[p]
    <3>1. p = o /\ e # b[o] /\ b2[p] = e
      BY <1>1, <2>3
    <3>2. e.driver = None
      BY <2>3, <3>1
    <3>3. b2[p] \in {Place("open", None), Place("over", None)}
      BY <1>5, <3>1, <3>2
    <3> QED
      BY <3>3 DEF Fits, Place, Taken
  <2> QED
    BY <2>1, <2>2, <2>3
<1>7. \A x \in Driver \ {D}, phase \in {"reserved", "riding"} :
        Has(b2, x, phase) <=> Has(b, x, phase)
  <2> SUFFICES ASSUME NEW x \in Driver \ {D}, NEW phase \in {"reserved", "riding"}
               PROVE  Has(b2, x, phase) <=> Has(b, x, phase)
    OBVIOUS
  <2>1. e = b[o] \/ (e # Place(phase, x) /\ b[o] # Place(phase, x))
    BY NoneAssumption DEF Place
  <2> QED
    BY <1>1, <2>1 DEF Has
<1>8. \A c \in Calls(s2) : Due(c, b2, f2)
  <2> SUFFICES ASSUME NEW c \in Calls(s2), c.driver # None PROVE Due(c, b2, f2)
    BY DEF Due
  <2>1. CASE c.driver = D
    BY <2>1
  <2>2. CASE c.driver # D
    <3>1. PICK x \in Driver \ {D} : c.driver = x
      BY <2>2
    <3>2. c \in Calls(s) /\ Alike(f[x], f2[x])
      BY <3>1
    <3>3. Due(c, b, f)
      BY <1>3, <3>2
    <3>4. c.fn \in OfTrip => b2[c.order] = b[c.order]
      <4>1. ASSUME c.fn \in OfTrip PROVE b[c.order] = Place("riding", x)
        BY <3>1, <3>3, <4>1 DEF Due
      <4>2. e = b[o] \/ b[o] # Place("riding", x)
        BY NoneAssumption DEF Place
      <4> QED
        BY <1>2, <4>1, <4>2
    <3>5. /\ Has(b2, x, "riding") <=> Has(b, x, "riding")
          /\ Has(b2, x, "reserved") <=> Has(b, x, "reserved")
      BY <1>7
    <3> QED
      BY <3>1, <3>2, <3>3, <3>4, <3>5 DEF Due, Alike
  <2> QED
    BY <2>1, <2>2
<1>9. \A x \in Driver : Follows(b2, f2, s2, x)
  <2> SUFFICES ASSUME NEW x \in Driver \ {D} PROVE Follows(b2, f2, s2, x)
    BY NoneAssumption
  <2>1. Follows(b, f, s, x) /\ Alike(f[x], f2[x])
    BY <1>3
  <2>2. \A fns : Owed(s, x, fns) => Owed(s2, x, fns)
    BY DEF Owed
  <2>3. /\ Has(b2, x, "riding") <=> Has(b, x, "riding")
        /\ Has(b2, x, "reserved") <=> Has(b, x, "reserved")
    BY <1>7
  <2> QED
    BY <2>1, <2>2, <2>3 DEF Follows, Alike
<1> QED
  BY <1>4, <1>6, <1>8, <1>9 DEF Duty

\* The selection of a driver leaves everybody's duty as it was.
LEMMA RepairKeepsDuty ==
  ASSUME TypeOK, NEW s, Duty(board, fleet, s), \A c \in Calls(s) : c.driver \in Driver \union {None}
  PROVE  Duty(board, Repaired, s) /\ \A x \in Driver : Repaired[x].status = fleet[x].status
<1>1. \A x \in Driver : Repaired[x].status = fleet[x].status /\ Repaired[x].onLine = fleet[x].onLine
  BY DEF TypeOK, Fleets, DriverRecord, Repaired, Repair
<1>2. \A x \in Driver : x \in Engaged(orders) => Repaired[x] = fleet[x]
  BY DEF Repaired, Repair, VisiblyFree
<1>3. \A p \in Order : Fits(board[p], Repaired)
  <2> SUFFICES ASSUME NEW p \in Order PROVE Fits(board[p], Repaired)
    OBVIOUS
  <2>1. Fits(board[p], fleet)
    BY DEF Duty
  <2>2. CASE board[p].driver = None
    BY <2>1, <2>2 DEF Fits, Taken
  <2>3. CASE board[p].driver # None
    <3>1. board[p].driver \in Driver
      BY <2>1, <2>3 DEF Fits
    <3>2. CASE board[p].phase = "shown"
      <4>1. orders[p].status = "searching" /\ orders[p].offered = board[p].driver
        BY <3>2 DEF board, Entry, Place, BoardPhase, BoardDriver
      <4>2. board[p].driver \in Engaged(orders)
        BY <3>1, <4>1 DEF Engaged, LiveOffer
      <4> QED
        BY <1>2, <2>1, <3>1, <4>2 DEF Fits
    <3>3. CASE board[p].phase # "shown"
      BY <1>1, <2>1, <3>1, <3>3 DEF Fits
    <3> QED
      BY <3>2, <3>3
  <2> QED
    BY <2>2, <2>3
<1>4. \A c \in Calls(s) : Due(c, board, Repaired)
  BY <1>1 DEF Duty, Due
<1>5. \A x \in Driver : Follows(board, Repaired, s, x)
  BY <1>1 DEF Duty, Follows
<1> QED
  BY <1>1, <1>3, <1>4, <1>5 DEF Duty

\* A handler that starts no call about a driver starts none that is out of turn.
LEMMA StartAhead ==
  ASSUME NEW s \in Seq(Call), \A c \in Calls(s) : c.driver = None
  PROVE  Ahead(s)
<1>1. s # <<>> => Calls(s) = {Head(s)} \union Calls(Tail(s))
  BY CallsJoin
<1>2. Calls(s) \subseteq Call
  BY DEF Calls
<1> QED
  BY <1>1, <1>2 DEF Ahead, Call, ForDriver

----------------------------------------------------------------------------
(* Every step keeps the duties.                                             *)

\* A step of the board, or none.
Moves ==
  \/ board' = board
  \/ \E o \in Order : Moved(board, o, board'[o]) /\ board' = [board EXCEPT ![o] = board'[o]]

\* What every step does.
Goes ==
  /\ Kept
  /\ \A c \in Calls(agenda') : Live(c, orders')
  /\ Plain /\ Duty(board, fleet, agenda) => Duty(board', fleet', agenda') /\ Moves

\* What the functions of the queue change of other drivers, and of their own.
LEMMA FleetAlike ==
  ASSUME NEW f \in Fleets, NEW d \in Driver
  PROVE  /\ \A g \in {JoinQueue(f, d), LeaveQueue(f, d), SetAway(f, d), MarkAssigned(f, d),
                      ReleaseOffer(f, d), RestorePosition(f, d), OffLine(f, d), OnLine(f, d)} :
              g \in Fleets /\ \A x \in Driver \ {d} : Alike(f[x], g[x])
         /\ JoinQueue(f, d)[d].status = "online"
         /\ LeaveQueue(f, d)[d].status = "offline"
         /\ SetAway(f, d)[d].status = "away"
         /\ MarkAssigned(f, d)[d].status = "busy"
         /\ ReleaseOffer(f, d)[d].status \in {"online", "away"}
         /\ RestorePosition(f, d)[d].status \in {"online", "offline"}
         /\ OffLine(f, d)[d].status = f[d].status /\ OnLine(f, d)[d].status = f[d].status
<1>1. \A x \in Driver : f[x] \in DriverRecord
  BY DEF Fleets
<1>2. \A g \in {JoinQueue(f, d), LeaveQueue(f, d), SetAway(f, d), MarkAssigned(f, d),
                ReleaseOffer(f, d), RestorePosition(f, d), OffLine(f, d), OnLine(f, d)} :
        g \in Fleets
  BY FleetTypes
<1>3. ASSUME NEW h \in Fleets
      PROVE  \A x \in Driver : /\ ToTail(h, d)[x].status = h[x].status
                               /\ ToTail(h, d)[x].onLine = h[x].onLine
                               /\ ToTail(h, d)[x].row = h[x].row
  BY <1>3 DEF ToTail, Fleets, DriverRecord
<1>4. (\A x \in Driver \ {d} : Alike(f[x], JoinQueue(f, d)[x])) /\ JoinQueue(f, d)[d].status = "online"
  <2> DEFINE h == [f EXCEPT ![d].row = "waiting", ![d].status = "online"]
  <2>1. h \in Fleets /\ h[d].status = "online" /\ \A x \in Driver \ {d} : h[x] = f[x]
    <3>1. "waiting" \in Row /\ "online" \in Status
      BY DEF Row, Status
    <3>2. h \in Fleets
      BY <3>1, RowAndStatus
    <3> QED
      BY <1>1, <3>2 DEF Fleets, DriverRecord
  <2>2. JoinQueue(f, d) = ToTail(h, d)
    BY DEF JoinQueue
  <2> HIDE DEF h
  <2> QED
    BY <1>3, <2>1, <2>2 DEF Alike
<1>5. (\A x \in Driver \ {d} : Alike(f[x], LeaveQueue(f, d)[x])) /\ LeaveQueue(f, d)[d].status = "offline"
  BY <1>1 DEF LeaveQueue, Alike, DriverRecord
<1>6. \A x \in Driver \ {d} : SetAway(f, d)[x] = f[x] /\ MarkAssigned(f, d)[x] = f[x]
        /\ ReleaseOffer(f, d)[x] = f[x] /\ RestorePosition(f, d)[x] = f[x]
        /\ OffLine(f, d)[x] = f[x] /\ OnLine(f, d)[x] = f[x]
  BY DEF SetAway, MarkAssigned, ReleaseOffer, RestorePosition, OffLine, OnLine, Fleets
<1>7. SetAway(f, d)[d].status = "away" /\ MarkAssigned(f, d)[d].status = "busy"
  BY <1>1 DEF SetAway, MarkAssigned, Fleets, DriverRecord
<1>8. ReleaseOffer(f, d)[d].status \in {"online", "away"}
  BY <1>1 DEF ReleaseOffer, Fleets, DriverRecord
<1>9. RestorePosition(f, d)[d].status \in {"online", "offline"}
  BY <1>1 DEF RestorePosition, Fleets, DriverRecord
<1>10. OffLine(f, d)[d].status = f[d].status /\ OnLine(f, d)[d].status = f[d].status
  BY <1>1 DEF OffLine, OnLine, Fleets, DriverRecord
<1> QED
  BY <1>2, <1>4, <1>5, <1>6, <1>7, <1>8, <1>9, <1>10 DEF Alike

\* A driver who may press the buttons of his menu has no request.
LEMMA FreeDriver ==
  ASSUME AllSound(orders), Plain, Idle, Duty(board, fleet, agenda), NEW d \in Driver,
         ~LiveOffer(orders, d), Trips(orders, d) = {}
  PROVE  \A p \in Order : board[p].driver # d
<1> SUFFICES ASSUME NEW p \in Order, board[p].driver = d PROVE FALSE
  OBVIOUS
<1>1. Fits(board[p], fleet) /\ board[p].phase \in Taken
  BY NoneAssumption DEF Duty, Fits
<1>2. \A o \in Order : board[o] # Place("riding", d)
  <2> SUFFICES ASSUME NEW o \in Order, board[o] = Place("riding", d) PROVE FALSE
    OBVIOUS
  <2>1. BoardPhase(orders[o]) = "riding" /\ BoardDriver(orders[o]) = d
    BY DEF board, Entry, Place
  <2>2. orders[o].status \in Active /\ orders[o].driver = d
    BY <2>1 DEF BoardPhase, BoardDriver
  <2> QED
    BY <2>2 DEF Trips
<1>3. ~Has(board, d, "riding")
  BY <1>2 DEF Has
<1>4. CASE board[p].phase = "shown"
  <2>1. orders[p].status = "searching" /\ orders[p].offered = d
    BY <1>4 DEF board, Entry, Place, BoardPhase, BoardDriver
  <2> QED
    BY <2>1 DEF LiveOffer
<1>5. CASE board[p].phase = "reserved"
  <2>1. Has(board, d, "reserved")
    BY <1>1, <1>5 DEF Has, Fits
  <2>2. Calls(agenda) = {}
    BY CallsOf DEF Idle
  <2> QED
    BY <1>3, <2>1, <2>2 DEF Duty, Follows, Owed
<1>6. CASE board[p].phase = "riding"
  BY <1>1, <1>3, <1>6 DEF Has, Fits
<1> QED
  BY <1>1, <1>4, <1>5, <1>6 DEF Taken

\* A handler that changes one request, or none, and one driver, or none.
LEMMA HandlerGoes ==
  ASSUME TypeOK, TypeOK', Idle, NEW o, NEW e,
         (Still /\ e = board[o]) \/ (o \in Order /\ Turn(o, e)),
         \A c \in Calls(agenda') : c.driver = None /\ c.fn # "passengerGone",
         NEW D \in Driver \union {None},
         Plain /\ Duty(board, fleet, agenda) =>
           /\ Replaces(board, o, e, D)
           /\ \E f \in {fleet, Repaired} : \A x \in Driver \ {D} : Alike(f[x], fleet'[x])
           /\ D # None => /\ \A p \in Order : board'[p].driver = D => Fits(board'[p], fleet')
                          /\ Follows(board', fleet', agenda', D)
  PROVE  Goes
<1>1. Calls(agenda) = {} /\ agenda' \in Seq(Call)
  BY CallsOf DEF Idle, TypeOK
<1>2. Kept /\ board' = [board EXCEPT ![o] = e] /\ board = [p \in Order |-> board[p]]
  BY DEF Still, Turn, board
<1>3. \A c \in Calls(agenda') : Live(c, orders')
  <2>1. \A c \in Calls(agenda') : c \in Call
    BY <1>1 DEF Calls
  <2> QED
    BY <2>1 DEF Live, OfTrip, Call, ForDriver
<1>4. ASSUME Plain, Duty(board, fleet, agenda)
      PROVE  Duty(board', fleet', agenda') /\ Moves
  <2>1. PICK f \in {fleet, Repaired} : \A x \in Driver \ {D} : Alike(f[x], fleet'[x])
    BY <1>4
  <2>2. Duty(board, f, agenda)
    BY <1>1, <1>4, RepairKeepsDuty
  <2>3. Ahead(agenda')
    BY <1>1, StartAhead
  <2>4. Beside(f, agenda, fleet', agenda', D)
    BY <1>1, <2>1 DEF Beside
  <2>5. \A c \in Calls(agenda') : c.driver \in Driver \union {None}
    OBVIOUS
  <2>6. Replaces(board, o, e, D)
    BY <1>4
  <2>7. Own(board', fleet', agenda', D)
    BY <1>4 DEF Own
  <2>8. Duty(board', fleet', agenda')
    BY <1>2, <2>2, <2>3, <2>4, <2>5, <2>6, <2>7, OthersGoOn
  <2>9. Moves
    <3>1. CASE e = board[o]
      <4>1. board' = board
        BY <1>2, <3>1
      <4> QED
        BY <4>1 DEF Moves
    <3>2. CASE o \in Order /\ Moved(board, o, e)
      <4>1. board'[o] = e
        BY <1>2, <3>2 DEF board
      <4> QED
        BY <1>2, <3>2, <4>1 DEF Moves
    <3> QED
      BY <2>6, <3>1, <3>2 DEF Replaces
  <2> QED
    BY <1>2, <2>8, <2>9
<1> QED
  BY <1>2, <1>3, <1>4 DEF Goes

\* Nobody is asked anything new about a request, but for the price of a delivery and
\* in the requests chat.
Calm(o, r, s) ==
  /\ s.fixing => r.fixing
  /\ s.proposed => r.proposed
  /\ "delivery" \in s.jobs => "delivery" \in r.jobs
  /\ s.pricing => r.pricing \/ o \in Delivery
  /\ s.posted => r.posted \/ ChatOpen
  /\ s.chatOffline => r.chatOffline \/ ChatOpen

\* A request that changes alone, and of which nobody is asked anything new.
LEMMA Lands ==
  ASSUME TypeOK, TypeOK', AllSound(orders), NEW o \in Order, NEW r,
         orders' = [orders EXCEPT ![o] = r], Calm(o, orders[o], r), Plain => Lone(r),
         AddressesStay /\ orders[o].status \in Closed => r.status = orders[o].status
  PROVE  Turn(o, Entry(r)) /\ (Entry(r) = Entry(orders[o]) => Still)
<1>1. Sound(o, r)
  BY DEF AllSound, Sound, Asked, Calm
<1> QED
  BY <1>1, AloneTurns

\* A request at rest is where its status says.
LEMMA AtRestIs ==
  ASSUME NEW r, r.offered = None
  PROVE  /\ r.status \in Pending /\ r.driver = None /\ r.parallel = None
              => Lone(r) /\ Entry(r) = Place("open", None)
         /\ r.status \in Closed /\ r.parallel = None
              => Lone(r) /\ Entry(r) = Place("over", None)
         /\ r.status \in Active /\ r.driver # None /\ r.parallel = None
              => Lone(r) /\ Entry(r) = Place("riding", r.driver)
         /\ r.status = "parallel_assigned" /\ r.parallel # None
              => Lone(r) /\ Entry(r) = Place("reserved", r.driver)
BY EntryIs DEF Lone, Pending, Candidate, Active, Closed

\* Calls about no driver.
Quiet(s) == \A c \in Calls(s) : c.driver = None /\ c.fn # "passengerGone"

\* The calls with which most handlers start.
LEMMA QuietCalls ==
  /\ Quiet(<<>>) /\ Quiet(<<Promote>>) /\ Quiet(<<PromoteUnflushed>>)
  /\ \A o \in Order, fn \in {"notify", "notifyOrFallback", "fallback"} :
       Quiet(<<Do(fn, o)>>) /\ Quiet(<<Do(fn, o), Promote>>)
  /\ \A o \in Order, but \in SUBSET Driver :
       Quiet(<<Offer(o, but)>>) /\ Quiet(<<Offer(o, but), Promote>>)
<1>1. \A o \in Order, but \in SUBSET Driver :
        Offer(o, but).driver = None /\ Offer(o, but).fn = "offer"
  BY DEF Offer, Do
<1>2. \A o, fn : Do(fn, o).driver = None /\ Do(fn, o).fn = fn
  BY DEF Do
<1>3. /\ Promote.driver = None /\ Promote.fn = "promote"
      /\ PromoteUnflushed.driver = None /\ PromoteUnflushed.fn = "promoteUnflushed"
  BY <1>2 DEF Promote, PromoteUnflushed
<1> QED
  BY <1>1, <1>2, <1>3, CallsOf DEF Quiet

\* Passengers and dispatchers.
LEMMA PassengerGoes ==
  ASSUME TypeOK, TypeOK', HandsInv, SoundInv, NEW o \in Order,
         \/ NewRide(o) \/ NewDeskRide(o) \/ PassengerCancel(o)
         \/ ConfirmActual(o) \/ ConfirmNot(o) \/ NewAddress(o)
         \/ PriceAgreed(o) \/ PriceRefused(o)
  PROVE  Goes
<1> USE DEF Start
<1>1. /\ orders \in [Order -> OrderRecord] /\ pq \in [Order -> QueueRecord]
      /\ orders[o] \in OrderRecord /\ AllSound(orders) /\ agenda' \in Seq(Call)
  BY DEF TypeOK, SoundInv
<1>2. Held(orders[o], pq[o].row) /\ Sound(o, orders[o]) /\ board[o] = Entry(orders[o])
  BY <1>1 DEF HandsInv, AllHeld, AllSound, board
<1>3. ASSUME Idle, Quiet(agenda'), NEW e, Turn(o, e),
             Plain => Moved(board, o, e) /\ board[o].driver = None /\ e.driver = None,
             Plain => fleet' \in {fleet, Repaired}
      PROVE  Goes
  <2>1. Plain => \E f \in {fleet, Repaired} : \A x \in Driver \ {None} : Alike(f[x], fleet'[x])
    BY <1>3 DEF Alike
  <2>2. Plain => Replaces(board, o, e, None)
    BY <1>3 DEF Replaces
  <2> QED
    BY <1>3, <2>1, <2>2, HandlerGoes DEF Quiet
<1>4. ASSUME Idle, Quiet(agenda'), Still, UNCHANGED fleet
      PROVE  Goes
  <2>1. \E f \in {fleet, Repaired} : \A x \in Driver \ {None} : Alike(f[x], fleet'[x])
    BY <1>4 DEF Alike
  <2>2. Replaces(board, o, board[o], None)
    BY DEF Replaces
  <2> QED
    BY <1>4, <2>1, <2>2, HandlerGoes DEF Quiet
<1>5. CASE NewRide(o) \/ NewDeskRide(o)
  <2>1. /\ orders[o].status = "new" /\ orders[o].offered = None /\ orders[o].driver = None
        /\ orders[o].parallel = None
    BY <1>2, <1>5 DEF NewRide, NewDeskRide, Held, Candidate
  <2> DEFINE x == [orders[o] EXCEPT !.status = "created"]
             y == [orders[o] EXCEPT !.status = "queued"]
             z == [orders[o] EXCEPT !.status = "created", !.jobs = {"dispatcher_unclaimed"}]
  <2>2. PICK r \in {x, y, z} :
          /\ orders' = [orders EXCEPT ![o] = r] /\ fleet' \in {fleet, Repaired} /\ Idle
          /\ agenda' \in {<<Offer(o, {})>>, <<Do("notifyOrFallback", o)>>}
    BY <1>1, <1>5 DEF NewRide, NewDeskRide
  <2>3. /\ r.status \in Pending /\ r.offered = None /\ r.driver = None /\ r.parallel = None
        /\ Calm(o, orders[o], r)
    <3>1. /\ r.status \in {"created", "queued"} /\ r.offered = None /\ r.driver = None
          /\ r.parallel = None /\ r.jobs \in {orders[o].jobs, {"dispatcher_unclaimed"}}
          /\ r.fixing = orders[o].fixing /\ r.proposed = orders[o].proposed
          /\ r.pricing = orders[o].pricing /\ r.posted = orders[o].posted
          /\ r.chatOffline = orders[o].chatOffline
      BY <1>1, <2>1 DEF OrderRecord
    <3> QED
      BY <3>1 DEF Pending, Candidate, Calm
  <2> HIDE DEF x, y, z
  <2>4. Turn(o, Place("open", None))
    BY <1>1, <2>1, <2>2, <2>3, AtRestIs, Lands DEF Closed
  <2>5. board[o] = Place("new", None)
    BY <1>2, <2>1, EntryIs
  <2>6. Moved(board, o, Place("open", None)) /\ board[o].driver = None
        /\ Place("open", None).driver = None
    BY <2>5 DEF Moved, Place
  <2>7. Quiet(agenda')
    BY <2>2, QuietCalls
  <2> QED
    BY <1>3, <2>2, <2>4, <2>6, <2>7
<1>6. CASE PassengerCancel(o)
  <2>1. /\ Idle /\ UNCHANGED <<orders, fleet>> /\ agenda' = <<Do("release", o), Do("passengerGone", o)>>
        /\ orders[o].status \notin {"new"} \union Closed
    BY <1>6 DEF PassengerCancel, Closed
  <2>2. Calls(agenda') = {Do("release", o), Do("passengerGone", o)}
    BY <2>1, CallsOf
  <2>3. \A c \in Calls(agenda') : c.driver = None /\ c.order = o /\ c.fn \in {"release", "passengerGone"}
    BY <2>2 DEF Do
  <2>4. Still
    BY <1>1, <2>1, UnchangedTurns
  <2>5. \A c \in Calls(agenda') : Live(c, orders')
    BY <2>1, <2>3 DEF Live, OfTrip
  <2>6. ASSUME Duty(board, fleet, agenda) PROVE Duty(board', fleet', agenda')
    <3>1. Beside(fleet, agenda, fleet', agenda', None) /\ Own(board', fleet', agenda', None)
      <4>1. Calls(agenda) = {}
        BY <2>1, CallsOf DEF Idle
      <4> QED
        BY <2>1, <2>3, <4>1 DEF Beside, Own, Alike
    <3>2. Replaces(board, o, board[o], None) /\ board = [p \in Order |-> board[p]]
          /\ board' = [board EXCEPT ![o] = board[o]]
      BY <2>4 DEF Replaces, board, Still
    <3>3. Ahead(agenda')
      BY <1>1, <2>3, StartAhead
    <3>4. \A c \in Calls(agenda') : c.driver \in Driver \union {None}
      BY <2>3
    <3> QED
      BY <2>6, <3>1, <3>2, <3>3, <3>4, OthersGoOn
  <2> QED
    BY <2>4, <2>5, <2>6 DEF Goes, Still, Moves
<1>7. CASE ConfirmActual(o)
  <2>1. PICK P : P = Polls(pq) \ {o}
    OBVIOUS
  <2> DEFINE r == [orders[o] EXCEPT !.jobs = @ \ {"pqueue"}, !.confirmed = TRUE, !.fixing = FALSE]
             os == [orders EXCEPT ![o] = r]
  <2>2. orders' = WithoutPolls(os, P) /\ Idle /\ agenda' = <<PromoteUnflushed>> /\ UNCHANGED fleet
    BY <1>1, <1>7, <2>1 DEF ConfirmActual
  <2>3. r \in OrderRecord /\ Same(orders[o], r)
    <3>1. ASSUME NEW v \in OrderRecord
          PROVE  [v EXCEPT !.jobs = v.jobs \ {"pqueue"}, !.confirmed = TRUE, !.fixing = FALSE]
                   \in OrderRecord
      BY DEF OrderRecord
    <3>2. r \in OrderRecord
      BY <1>1, <3>1
    <3>3. Same(orders[o], r)
      BY <1>1 DEF OrderRecord, Same
    <3> QED
      BY <3>2, <3>3
  <2> HIDE DEF r
  <2>4. os \in [Order -> OrderRecord] /\ os[o] = r /\ \A p \in Order \ {o} : os[p] = orders[p]
    BY <1>1, <2>3
  <2> HIDE DEF os
  <2>5. \A p \in Order : Same(orders[p], os[p])
    BY <2>3, <2>4 DEF Same
  <2>6. \A p \in Order : Same(os[p], orders'[p])
    BY <2>2, <2>4, PollsSame
  <2>7. \A p \in Order : Same(orders[p], orders'[p])
    BY <2>5, <2>6 DEF Same
  <2>8. Still
    BY <1>1, <2>7, NoneTurns
  <2> QED
    BY <1>4, <2>2, <2>8, QuietCalls
<1>8. CASE ConfirmNot(o)
  <2> DEFINE w == Withdraw(orders[o])
             r == [w EXCEPT !.status = "cancelled", !.fixing = FALSE]
  <2>1. orders' = [orders EXCEPT ![o] = r] /\ Idle /\ agenda' = <<PromoteUnflushed>>
        /\ UNCHANGED fleet /\ Parked(pq, o)
    BY <1>8 DEF ConfirmNot
  <2>2. /\ orders[o].status \in Candidate /\ orders[o].driver = None /\ orders[o].parallel = None
        /\ orders[o].offered = None
    BY <1>2, <2>1 DEF Held, Parked
  <2>3. w \in OrderRecord /\ Same(orders[o], w)
    BY <1>1, ShutSame
  <2> HIDE DEF w
  <2>4. /\ r.status = "cancelled" /\ r.offered = w.offered /\ r.driver = w.driver
        /\ r.parallel = w.parallel /\ Calm(o, w, r)
    BY <2>3 DEF OrderRecord, Calm
  <2> HIDE DEF r
  <2>5. Calm(o, orders[o], r) /\ r.offered = None /\ r.parallel = None /\ r.status \in Closed
    BY <2>2, <2>3, <2>4 DEF Same, Calm, Closed
  <2>6. Turn(o, Place("over", None))
    BY <1>1, <2>1, <2>2, <2>5, AtRestIs, Lands DEF Candidate, Closed
  <2>7. board[o] = Place("open", None)
    BY <1>2, <2>2, EntryIs DEF Pending, Candidate
  <2>8. Moved(board, o, Place("over", None)) /\ board[o].driver = None
        /\ Place("over", None).driver = None
    BY <2>7 DEF Moved, Place
  <2> QED
    BY <1>3, <2>1, <2>6, <2>8, QuietCalls
<1>9. CASE NewAddress(o)
  <2> DEFINE w == Withdraw(orders[o])
             r == [w EXCEPT !.status = "searching", !.fallback = FALSE, !.noAuto = {},
                            !.offered = None, !.fixing = FALSE]
  <2>1. orders' = [orders EXCEPT ![o] = r] /\ Idle /\ agenda' = <<Offer(o, {})>> /\ orders[o].fixing
    BY <1>9 DEF NewAddress
  <2>2. ~AddressesStay
    BY <1>2, <2>1 DEF Sound, Asked
  <2>3. w \in OrderRecord /\ Same(orders[o], w)
    BY <1>1, ShutSame
  <2> HIDE DEF w
  <2>4. Calm(o, w, r)
    BY <2>3 DEF OrderRecord, Calm
  <2> HIDE DEF r
  <2>5. Calm(o, orders[o], r)
    BY <2>3, <2>4 DEF Same, Calm
  <2>6. Turn(o, Entry(r))
    BY <1>1, <2>1, <2>2, <2>5, Lands DEF Plain
  <2>7. Quiet(agenda')
    BY <2>1, QuietCalls
  <2> QED
    BY <1>3, <2>1, <2>2, <2>6, <2>7 DEF Plain
<1>10. CASE PriceAgreed(o) \/ PriceRefused(o)
  <2> DEFINE x == [orders[o] EXCEPT !.status = "assigned", !.confirmed = TRUE,
                         !.card = orders[o].card \/ orders[o].driver # None,
                         !.jobs = orders[o].jobs \ {"delivery"}]
             y == [orders[o] EXCEPT !.status = "cancelled", !.fixing = FALSE,
                         !.jobs = orders[o].jobs \ {"delivery"}]
  <2>1. PICK r \in {x, y} : orders' = [orders EXCEPT ![o] = r]
    BY <1>1, <1>10 DEF PriceAgreed, PriceRefused, DeliveryOff
  <2>2. Idle /\ agenda' = <<>> /\ orders[o].proposed /\ orders[o].status \in {"assigned", "searching"}
    BY <1>10 DEF PriceAgreed, PriceRefused, Unanswered
  <2>3. ~PricesStay
    BY <1>2, <2>2 DEF Sound, Asked
  <2>4. Calm(o, orders[o], r)
    BY <1>1 DEF OrderRecord, Calm
  <2> HIDE DEF x, y
  <2>5. Turn(o, Entry(r))
    BY <1>1, <2>1, <2>2, <2>3, <2>4, Lands DEF Plain, Closed
  <2> QED
    BY <1>3, <2>2, <2>3, <2>5, QuietCalls DEF Plain
<1> QED
  BY <1>5, <1>6, <1>7, <1>8, <1>9, <1>10

\* A driver without a request has no duty.
LEMMA NoDuty ==
  ASSUME NEW b, NEW f, NEW s, NEW d \in Driver, \A p \in Order : b[p].driver # d,
         f[d].status # "busy"
  PROVE  (\A p \in Order : b[p].driver = d => Fits(b[p], f)) /\ Follows(b, f, s, d)
BY DEF Follows, Has, Place

\* Whoever is shown a request has no other.
LEMMA ShownAlone ==
  ASSUME NEW b, Single(b), NEW o \in Order, NEW d \in Driver, b[o] = Place("shown", d)
  PROVE  \A p \in Order \ {o} : b[p].driver # d
<1>1. b[o].phase = "shown" /\ b[o].driver = d /\ d # None
  BY NoneAssumption DEF Place
<1> QED
  BY <1>1 DEF Single

\* What claiming a request changes of other drivers, and of the one who claims it.
LEMMA ClaimedAlike ==
  ASSUME NEW f \in Fleets, NEW d \in Driver, NEW joins \in BOOLEAN, NEW g \in Claimed(f, d, joins)
  PROVE  g[d].status = "busy" /\ \A x \in Driver \ {d} : Alike(f[x], g[x])
<1> DEFINE h == IF joins THEN OnLine(JoinQueue(f, d), d) ELSE f
           m == MarkAssigned(h, d)
<1>1. h \in Fleets /\ \A x \in Driver \ {d} : Alike(f[x], h[x])
  <2>1. JoinQueue(f, d) \in Fleets /\ \A x \in Driver \ {d} : Alike(f[x], JoinQueue(f, d)[x])
    BY FleetAlike
  <2>2. LET j == JoinQueue(f, d)
        IN  OnLine(j, d) \in Fleets /\ \A x \in Driver \ {d} : Alike(j[x], OnLine(j, d)[x])
    BY <2>1, FleetAlike
  <2> QED
    BY <2>1, <2>2 DEF Alike
<1> HIDE DEF h
<1>2. m \in Fleets /\ m[d].status = "busy" /\ \A x \in Driver \ {d} : Alike(h[x], m[x])
  BY <1>1, FleetAlike
<1>3. g \in {m, [m EXCEPT ![d].row = "waiting"]}
  BY DEF Claimed, h
<1> HIDE DEF m
<1>4. g[d].status = "busy" /\ \A x \in Driver \ {d} : g[x] = m[x]
  BY <1>2, <1>3 DEF Fleets, DriverRecord
<1> QED
  BY <1>1, <1>2, <1>4 DEF Alike

\* Drivers who press a button of their menu.
LEMMA LineGoes ==
  ASSUME TypeOK, TypeOK', SoundInv, NEW d \in Driver,
         \/ GoOnline(d) \/ LeaveLine(d) \/ GoAway(d)
         \/ \E l \in Line : SetLine(d, l)
  PROVE  Goes
<1>1. /\ Idle /\ Quiet(agenda') /\ UNCHANGED orders /\ MenuOpen(d) /\ AllSound(orders)
  BY QuietCalls DEF GoOnline, LeaveLine, GoAway, SetLine, Start, SoundInv
<1>2. Still
  BY <1>1, UnchangedTurns
<1>3. fleet'[d].status # "busy" /\ \A x \in Driver \ {d} : Alike(fleet[x], fleet'[x])
  <2>1. ASSUME NEW f \in Fleets, fleet' = OnLine(JoinQueue(f, d), d)
        PROVE  fleet'[d].status # "busy" /\ \A x \in Driver \ {d} : Alike(f[x], fleet'[x])
    <3>1. PICK j \in Fleets : j = JoinQueue(f, d)
      BY FleetAlike
    <3>2. j[d].status = "online" /\ \A x \in Driver \ {d} : Alike(f[x], j[x])
      BY <3>1, FleetAlike
    <3>3. fleet'[d].status = j[d].status /\ \A x \in Driver \ {d} : Alike(j[x], fleet'[x])
      BY <2>1, <3>1, FleetAlike
    <3> QED
      BY <3>2, <3>3 DEF Alike
  <2>2. fleet \in Fleets
    BY DEF TypeOK
  <2>3. CASE GoOnline(d)
    BY <2>1, <2>2, <2>3 DEF GoOnline
  <2>4. ASSUME NEW l \in Line, SetLine(d, l)
        PROVE  fleet'[d].status # "busy" /\ \A x \in Driver \ {d} : Alike(fleet[x], fleet'[x])
    <3>1. PICK f : f = [fleet EXCEPT ![d].line = l]
      OBVIOUS
    <3>2. f \in Fleets /\ \A x \in Driver \ {d} : f[x] = fleet[x]
      BY <2>2, <3>1 DEF Fleets, DriverRecord
    <3>3. fleet' = OnLine(JoinQueue(f, d), d)
      BY <2>4, <3>1 DEF SetLine
    <3> QED
      BY <2>1, <3>2, <3>3 DEF Alike
  <2>5. CASE LeaveLine(d)
    <3>1. PICK j \in Fleets : j = LeaveQueue(fleet, d)
      BY <2>2, FleetAlike
    <3>2. j[d].status = "offline" /\ \A x \in Driver \ {d} : Alike(fleet[x], j[x])
      BY <2>2, <3>1, FleetAlike
    <3>3. fleet'[d].status = j[d].status /\ \A x \in Driver \ {d} : Alike(j[x], fleet'[x])
      BY <2>5, <3>1, FleetAlike DEF LeaveLine
    <3> QED
      BY <3>2, <3>3 DEF Alike
  <2>6. CASE GoAway(d)
    BY <2>2, <2>6, FleetAlike DEF GoAway
  <2> QED
    BY <2>3, <2>4, <2>5, <2>6
<1>4. Plain /\ Duty(board, fleet, agenda) => \A p \in Order : board'[p].driver # d
  <2>1. ~LiveOffer(orders, d) /\ Trips(orders, d) = {}
    BY <1>1 DEF MenuOpen, Busy, Trips
  <2> QED
    BY <1>1, <1>2, <2>1, FreeDriver DEF Still
<1>5. PICK o : o = None
  OBVIOUS
<1>6. Plain /\ Duty(board, fleet, agenda) =>
        (\A p \in Order : board'[p].driver = d => Fits(board'[p], fleet'))
        /\ Follows(board', fleet', agenda', d)
  BY <1>3, <1>4, NoDuty
<1>7. Replaces(board, o, board[o], d)
  BY DEF Replaces
<1> QED
  BY <1>1, <1>2, <1>3, <1>6, <1>7, HandlerGoes DEF Quiet

\* Drivers who answer an offer.
LEMMA AnswerGoes ==
  ASSUME TypeOK, TypeOK', HandsInv, SoundInv, NEW d \in Driver, NEW o \in Order,
         \/ Accept(d, o) \/ DeclineEnds(d, o) \/ DeclineAsksAddress(d, o)
         \/ DeclineAway(d, o) \/ \E reason \in Reason : DeclinePasses(d, o, reason)
  PROVE  Goes
<1> USE DEF Start
<1>1. /\ orders \in [Order -> OrderRecord] /\ orders[o] \in OrderRecord /\ AllSound(orders)
      /\ fleet \in Fleets /\ d # None
  BY NoneAssumption DEF TypeOK, SoundInv
<1>2. Held(orders[o], pq[o].row) /\ Sound(o, orders[o]) /\ board[o] = Entry(orders[o])
  BY <1>1 DEF HandsInv, AllHeld, AllSound, board
<1>3. /\ orders[o].status = "searching" /\ orders[o].offered = d /\ orders[o].driver = None
      /\ orders[o].parallel = None /\ board[o] = Place("shown", d)
  <2>1. orders[o].status \in {"searching", "created"} /\ orders[o].offered = d
    BY DEF Accept, DeclineEnds, DeclineAsksAddress, DeclineAway, DeclinePasses, Offered
  <2> QED
    BY <1>1, <1>2, <2>1, EntryIs DEF Held, Candidate
<1>4. Duty(board, fleet, agenda) => \A p \in Order \ {o} : board[p].driver # d
  BY <1>3, ShownAlone DEF Duty
<1>5. ASSUME Idle, Quiet(agenda'), NEW e \in {Place("open", None), Place("over", None)},
             Plain => Turn(o, e), NEW r, Turn(o, Entry(r)), Plain => Entry(r) = e,
             fleet' \in {ReleaseOffer(fleet, d), SetAway(ReleaseOffer(fleet, d), d)}
      PROVE  Goes
  <2>1. fleet'[d].status # "busy" /\ \A x \in Driver \ {d} : Alike(fleet[x], fleet'[x])
    <3>1. PICK f \in Fleets : f = ReleaseOffer(fleet, d)
      BY <1>1, FleetAlike
    <3>2. f[d].status # "busy" /\ \A x \in Driver \ {d} : Alike(fleet[x], f[x])
      BY <1>1, <3>1, FleetAlike
    <3>3. SetAway(f, d)[d].status = "away" /\ \A x \in Driver \ {d} : Alike(f[x], SetAway(f, d)[x])
      BY <3>1, FleetAlike
    <3> QED
      BY <1>5, <3>1, <3>2, <3>3 DEF Alike
  <2>2. ASSUME Plain, Duty(board, fleet, agenda)
        PROVE  /\ Replaces(board, o, Entry(r), d)
               /\ \A p \in Order : board'[p].driver = d => Fits(board'[p], fleet')
               /\ Follows(board', fleet', agenda', d)
    <3>1. Moved(board, o, e) /\ e.driver = None /\ board[o].driver = d
      BY <1>3, <1>5 DEF Moved, Place, Taken
    <3>2. \A p \in Order : board'[p].driver # d
      BY <1>1, <1>4, <1>5, <2>2, <3>1 DEF Turn, board
    <3> QED
      BY <1>5, <2>1, <2>2, <3>1, <3>2, NoDuty DEF Replaces
  <2> QED
    BY <1>5, <2>1, <2>2, HandlerGoes DEF Quiet
<1>6. CASE Accept(d, o)
  <2> DEFINE c == [orders[o] EXCEPT !.offered = None, !.driver = d, !.status = "assigned",
                                    !.jobs = @ \ {"accept", "dispatcher_unclaimed"}]
             r == Prompted(o, c)
  <2>1. orders' = [orders EXCEPT ![o] = r] /\ fleet' = MarkAssigned(fleet, d) /\ Idle /\ agenda' = <<>>
    BY <1>6 DEF Accept
  <2>2. /\ r.status = "assigned" /\ r.offered = None /\ r.driver = d /\ r.parallel = None
        /\ Calm(o, orders[o], r)
    <3>1. ASSUME NEW v \in OrderRecord, NEW js \in SUBSET Timer
          PROVE  [v EXCEPT !.offered = None, !.driver = d, !.status = "assigned", !.jobs = js]
                   \in OrderRecord
      BY DEF OrderRecord, OrderStatus
    <3>2. c \in OrderRecord
      BY <1>1, <3>1 DEF OrderRecord
    <3>3. /\ c.status = "assigned" /\ c.offered = None /\ c.driver = d
          /\ c.parallel = None /\ Calm(o, orders[o], c)
      BY <1>1, <1>3 DEF OrderRecord, Calm
    <3> HIDE DEF c
    <3>4. /\ r.status = c.status /\ r.offered = c.offered /\ r.driver = c.driver
          /\ r.parallel = c.parallel /\ r.fixing = c.fixing /\ r.proposed = c.proposed
          /\ r.jobs = c.jobs /\ (r.pricing => c.pricing \/ o \in Delivery)
          /\ r.posted = c.posted /\ r.chatOffline = c.chatOffline
      BY <3>2 DEF OrderRecord, Prompted
    <3> QED
      BY <3>3, <3>4 DEF Calm
  <2> HIDE DEF c, r
  <2>3. Lone(r) /\ Entry(r) = Place("riding", d)
    BY <1>1, <2>2, AtRestIs DEF Active
  <2>4. Turn(o, Place("riding", d))
    BY <1>1, <1>3, <2>1, <2>2, <2>3, Lands DEF Closed
  <2>5. fleet'[d].status = "busy" /\ \A x \in Driver \ {d} : Alike(fleet[x], fleet'[x])
    BY <1>1, <2>1, FleetAlike
  <2>6. ASSUME Plain, Duty(board, fleet, agenda)
        PROVE  /\ Replaces(board, o, Place("riding", d), d)
               /\ \A p \in Order : board'[p].driver = d => Fits(board'[p], fleet')
               /\ Follows(board', fleet', agenda', d)
    <3>1. Moved(board, o, Place("riding", d)) /\ Place("riding", d).driver = d /\ board[o].driver = d
      BY <1>3, <1>4, <2>6 DEF Moved, Place
    <3>2. board'[o] = Place("riding", d) /\ \A p \in Order \ {o} : board'[p].driver # d
      BY <1>4, <2>4, <2>6 DEF Turn, board
    <3>3. Fits(Place("riding", d), fleet')
      BY <1>1, <2>5 DEF Fits, Place, Taken
    <3>4. Has(board', d, "riding")
      BY <3>2 DEF Has
    <3> QED
      BY <3>1, <3>2, <3>3, <3>4 DEF Replaces, Follows
  <2> QED
    BY <2>1, <2>4, <2>5, <2>6, QuietCalls, HandlerGoes DEF Quiet
<1> DEFINE c == Declined(orders[o])
<1>7. /\ c \in OrderRecord /\ c.status = "searching" /\ c.offered = None /\ c.driver = None
      /\ c.parallel = None /\ Calm(o, orders[o], c)
  <2>1. c \in OrderRecord
    BY <1>1, OrderTypes
  <2>2. /\ c.status = "searching" /\ c.offered = None /\ c.driver = None
        /\ c.parallel = None /\ Calm(o, orders[o], c)
    BY <1>1, <1>3 DEF Declined, OrderRecord, Calm
  <2> QED
    BY <2>1, <2>2
<1>8. ASSUME NEW r, orders' = [orders EXCEPT ![o] = r], Calm(o, orders[o], r), r.offered = None,
             r.driver = None, r.parallel = None, NEW e, Idle, Quiet(agenda'),
             fleet' \in {ReleaseOffer(fleet, d), SetAway(ReleaseOffer(fleet, d), d)},
             \/ r.status \in Pending /\ e = Place("open", None)
             \/ r.status \in Closed /\ e = Place("over", None)
      PROVE  Goes
  <2>1. Lone(r) /\ Entry(r) = e /\ e \in {Place("open", None), Place("over", None)}
    BY <1>8, AtRestIs
  <2>2. Turn(o, Entry(r))
    BY <1>1, <1>3, <1>8, <2>1, Lands DEF Closed
  <2> QED
    BY <1>5, <1>8, <2>1, <2>2
<1>9. CASE DeclineEnds(d, o)
  <2> DEFINE w == Withdraw(c)
             r == Cancel(w)
  <2>1. /\ orders' = [orders EXCEPT ![o] = r] /\ fleet' = ReleaseOffer(fleet, d)
        /\ Idle /\ agenda' = <<Promote>>
    BY <1>1, <1>9 DEF DeclineEnds
  <2> HIDE DEF c
  <2>2. w \in OrderRecord /\ Same(c, w)
    BY <1>7, ShutSame
  <2> HIDE DEF w
  <2>3. /\ r.status = "cancelled" /\ r.offered = w.offered /\ r.driver = w.driver
        /\ r.parallel = w.parallel /\ Calm(o, w, r)
    BY <2>2 DEF Cancel, OrderRecord, Calm
  <2> HIDE DEF r
  <2>4. /\ Calm(o, orders[o], r) /\ r.offered = None /\ r.driver = None /\ r.parallel = None
        /\ r.status \in Closed
    BY <1>7, <2>2, <2>3 DEF Same, Calm, Closed
  <2> QED
    BY <1>8, <2>1, <2>4, QuietCalls
<1>10. CASE DeclineAsksAddress(d, o)
  <2> DEFINE r == [c EXCEPT !.status = "created", !.fixing = o \notin Desk]
  <2>1. /\ orders' = [orders EXCEPT ![o] = r] /\ fleet' = ReleaseOffer(fleet, d)
        /\ Idle /\ agenda' = <<Promote>> /\ ~AddressesStay
    BY <1>10 DEF DeclineAsksAddress, AddressesStay
  <2> HIDE DEF c
  <2>2. /\ r.proposed = c.proposed /\ r.pricing = c.pricing /\ r.posted = c.posted
        /\ r.chatOffline = c.chatOffline /\ r.jobs = c.jobs
    BY <1>7 DEF OrderRecord
  <2> HIDE DEF r
  <2>3. Sound(o, r)
    BY <1>2, <1>7, <2>1, <2>2 DEF Sound, Asked, Calm, Plain
  <2>4. Turn(o, Entry(r))
    BY <1>1, <2>1, <2>3, AloneTurns
  <2>5. ~Plain
    BY <2>1 DEF Plain
  <2> QED
    BY <1>5, <2>1, <2>4, <2>5, QuietCalls
<1>11. CASE DeclineAway(d, o) \/ \E reason \in Reason : DeclinePasses(d, o, reason)
  <2>1. PICK x \in SUBSET Driver, y \in BOOLEAN :
          orders' = [orders EXCEPT ![o] = [c EXCEPT !.declined = x, !.special = y]]
    <3>1. c.declined \in SUBSET Driver /\ c.special \in BOOLEAN
      BY <1>7 DEF OrderRecord
    <3>2. CASE DeclineAway(d, o)
      <4>1. [c EXCEPT !.declined = c.declined \union {d}]
              = [c EXCEPT !.declined = c.declined \union {d}, !.special = c.special]
        BY <1>7 DEF OrderRecord
      <4>2. orders' = [orders EXCEPT ![o] = [c EXCEPT !.declined = c.declined \union {d}]]
        BY <3>2 DEF DeclineAway
      <4> HIDE DEF c
      <4> QED
        BY <3>1, <4>1, <4>2
    <3>3. ASSUME NEW reason \in Reason, DeclinePasses(d, o, reason)
          PROVE  orders' = [orders EXCEPT ![o] = [c EXCEPT !.declined = c.declined \union {d},
                                                  !.special = c.special \/ reason # "dislike"]]
      BY <3>3 DEF DeclinePasses
    <3> HIDE DEF c
    <3> QED
      BY <1>11, <3>1, <3>2, <3>3
  <2> DEFINE r == [c EXCEPT !.declined = x, !.special = y]
  <2>2. /\ fleet' \in {ReleaseOffer(fleet, d), SetAway(ReleaseOffer(fleet, d), d)}
        /\ Idle /\ agenda' \in {<<Offer(o, {})>>, <<Offer(o, {}), Promote>>}
    BY <1>11 DEF DeclineAway, DeclinePasses
  <2>3. orders' = [orders EXCEPT ![o] = r]
    BY <2>1
  <2> HIDE DEF c
  <2>4. /\ r.status = c.status /\ r.offered = c.offered /\ r.driver = c.driver
        /\ r.parallel = c.parallel /\ Calm(o, c, r)
    BY <1>7 DEF OrderRecord, Calm
  <2> HIDE DEF r
  <2>5. Calm(o, orders[o], r) /\ r.status \in Pending
    BY <1>7, <2>4 DEF Calm, Pending
  <2>6. Quiet(agenda')
    BY <2>2, QuietCalls
  <2> QED
    BY <1>7, <1>8, <2>2, <2>3, <2>4, <2>5, <2>6
<1> QED
  BY <1>6, <1>9, <1>10, <1>11

\* Drivers who claim a request that is not offered to them.
LEMMA ClaimGoes ==
  ASSUME TypeOK, TypeOK', HandsInv, SoundInv, NEW d \in Driver, NEW o \in Order,
         TakePending(d, o) \/ TakeFromChat(d, o)
  PROVE  Goes
<1> USE DEF Start
<1>1. /\ orders \in [Order -> OrderRecord] /\ orders[o] \in OrderRecord /\ AllSound(orders)
      /\ fleet \in Fleets /\ d # None
  BY NoneAssumption DEF TypeOK, SoundInv
<1>2. Held(orders[o], pq[o].row) /\ Sound(o, orders[o]) /\ board[o] = Entry(orders[o])
  BY <1>1 DEF HandsInv, AllHeld, AllSound, board
<1>3. /\ orders[o].status \in Pending /\ Idle /\ agenda' = <<>> /\ ~LiveOffer(orders, d)
      /\ Plain => orders[o].driver = None /\ orders[o].parallel = None /\ Trips(orders, d) = {}
  <2>1. /\ orders[o].status \in Pending /\ Idle /\ agenda' = <<>> /\ ~LiveOffer(orders, d)
        /\ Busy(orders, d) \subseteq {o}
    BY DEF TakePending, ClaimPending, TakeFromChat, MenuOpen, ChatClaimable
  <2>2. ASSUME Plain PROVE orders[o].driver = None /\ orders[o].parallel = None
    BY <1>2, <2>1, <2>2 DEF Sound, Lone, Pending, Candidate
  <2>3. Trips(orders, d) \subseteq Busy(orders, d) /\ (Plain => o \notin Trips(orders, d))
    BY <1>1, <2>2 DEF Trips, Busy
  <2> QED
    BY <2>1, <2>2, <2>3
<1>4. Plain => board[o] = Place("open", None) \/ (board[o].phase = "shown" /\ board[o].driver # d)
  <2>1. CASE orders[o].status = "searching" /\ orders[o].offered # None
    <3>1. board[o] = Place("shown", orders[o].offered)
      BY <1>2, <2>1, EntryIs
    <3>2. orders[o].offered # d
      BY <1>3, <2>1 DEF LiveOffer
    <3> QED
      BY <3>1, <3>2 DEF Place
  <2>2. CASE ~(orders[o].status = "searching" /\ orders[o].offered # None)
    BY <1>2, <1>3, <2>2, EntryIs
  <2> QED
    BY <2>1, <2>2
<1>5. fleet'[d].status = "busy" /\ \A x \in Driver \ {d} : Alike(fleet[x], fleet'[x])
  <2>1. fleet' \in Claimed(fleet, d, TRUE) \union Claimed(fleet, d, FALSE)
    <3>1. PICK a \in BOOLEAN, b \in BOOLEAN :
            /\ a = (fleet[d].status \in {"offline", "away"} \/ ~fleet[d].onLine)
            /\ b = (fleet[d].status = "away" \/ ~fleet[d].onLine)
      OBVIOUS
    <3>2. fleet' \in Claimed(fleet, d, a) \union Claimed(fleet, d, b)
      BY <3>1 DEF TakePending, ClaimPending, TakeFromChat
    <3> QED
      BY <3>2
  <2> QED
    BY <1>1, <2>1, ClaimedAlike
<1>6. ASSUME NEW r, orders' = [orders EXCEPT ![o] = r], Calm(o, orders[o], r),
             r.status = "assigned", r.offered = None, r.driver = d, r.parallel = orders[o].parallel
      PROVE  Goes
  <2>1. Plain => Lone(r) /\ Entry(r) = Place("riding", d)
    BY <1>1, <1>3, <1>6, AtRestIs DEF Active
  <2>2. Turn(o, Entry(r))
    BY <1>1, <1>3, <1>6, <2>1, Lands DEF Pending, Candidate, Closed
  <2>3. ASSUME Plain, Duty(board, fleet, agenda)
        PROVE  /\ Replaces(board, o, Entry(r), d)
               /\ \A p \in Order : board'[p].driver = d => Fits(board'[p], fleet')
               /\ Follows(board', fleet', agenda', d)
    <3>1. \A p \in Order : board[p].driver # d
      BY <1>1, <1>3, <2>3, FreeDriver
    <3>2. board[o].phase \in {"open", "shown"} /\ (board[o].phase = "shown" \/ board[o].driver = None)
      BY <1>4, <2>3 DEF Place
    <3>3. Moved(board, o, Place("riding", d)) /\ Place("riding", d).driver = d
      BY <3>1, <3>2 DEF Moved, Place
    <3>4. board'[o] = Place("riding", d) /\ \A p \in Order \ {o} : board'[p].driver # d
      BY <2>1, <2>2, <2>3, <3>1 DEF Turn, board
    <3>5. Fits(Place("riding", d), fleet')
      BY <1>1, <1>5 DEF Fits, Place, Taken
    <3>6. Has(board', d, "riding")
      BY <3>4 DEF Has
    <3> QED
      BY <2>1, <2>3, <3>2, <3>3, <3>4, <3>5, <3>6 DEF Replaces, Follows
  <2> QED
    BY <1>3, <1>5, <2>2, <2>3, QuietCalls, HandlerGoes DEF Quiet
<1> DEFINE w == Withdraw(orders[o])
<1>7. w \in OrderRecord /\ Same(orders[o], w)
  BY <1>1, ShutSame
<1>8. CASE TakePending(d, o)
  <2> DEFINE c == [w EXCEPT !.driver = d, !.status = "assigned", !.chatOffline = FALSE,
                            !.jobs = @ \ {"accept", "driver_chat", "dispatcher_unclaimed"}]
             r == Prompted(o, c)
  <2>1. orders' = [orders EXCEPT ![o] = r] /\ orders[o].offered = None
    BY <1>8 DEF TakePending, ClaimPending
  <2> HIDE DEF w
  <2>2. c \in OrderRecord
    <3>1. ASSUME NEW v \in OrderRecord, NEW js \in SUBSET Timer
          PROVE  [v EXCEPT !.driver = d, !.status = "assigned", !.chatOffline = FALSE, !.jobs = js]
                   \in OrderRecord
      BY DEF OrderRecord, OrderStatus
    <3> QED
      BY <1>7, <3>1 DEF OrderRecord
  <2>3. /\ c.status = "assigned" /\ c.offered = w.offered /\ c.driver = d
        /\ c.parallel = w.parallel /\ Calm(o, w, c)
    BY <1>7 DEF OrderRecord, Calm
  <2> HIDE DEF c
  <2>4. /\ r.status = c.status /\ r.offered = c.offered /\ r.driver = c.driver
        /\ r.parallel = c.parallel /\ r.fixing = c.fixing /\ r.proposed = c.proposed
        /\ r.jobs = c.jobs /\ (r.pricing => c.pricing \/ o \in Delivery)
        /\ r.posted = c.posted /\ r.chatOffline = c.chatOffline
    BY <2>2 DEF OrderRecord, Prompted
  <2> HIDE DEF r
  <2>5. /\ Calm(o, orders[o], r) /\ r.status = "assigned" /\ r.offered = None /\ r.driver = d
        /\ r.parallel = orders[o].parallel
    BY <1>7, <2>1, <2>3, <2>4 DEF Same, Calm
  <2> QED
    BY <1>6, <2>1, <2>5
<1>9. CASE TakeFromChat(d, o)
  <2>1. PICK b \in BOOLEAN : b = ~fleet[d].onLine
    OBVIOUS
  <2> DEFINE r == [w EXCEPT !.driver = d, !.status = "assigned", !.offered = None,
                            !.card = TRUE, !.chatOffline = b,
                            !.jobs = @ \ {"accept", "driver_chat", "dispatcher_unclaimed"}]
  <2>2. orders' = [orders EXCEPT ![o] = r] /\ orders[o].posted
    BY <1>9, <2>1 DEF TakeFromChat, ChatClaimable
  <2>3. ChatOpen
    BY <1>2, <2>2 DEF Sound, Asked
  <2> HIDE DEF w
  <2>4. /\ r.status = "assigned" /\ r.offered = None /\ r.driver = d
        /\ r.parallel = w.parallel /\ Calm(o, w, r)
    BY <1>7, <2>3 DEF OrderRecord, Calm
  <2> HIDE DEF r
  <2>5. Calm(o, orders[o], r) /\ r.parallel = orders[o].parallel
    BY <1>7, <2>4 DEF Same, Calm
  <2> QED
    BY <1>6, <2>2, <2>4, <2>5
<1> QED
  BY <1>8, <1>9

\* Drivers on a trip.
LEMMA TripGoes ==
  ASSUME TypeOK, TypeOK', HandsInv, SoundInv, NEW d \in Driver, NEW o \in Order,
         \/ SubmitPrice(d, o) \/ ApplyEta(d, o) \/ Arrived(d, o) \/ Seated(d, o) \/ Complete(d, o)
         \/ \E outcome \in {"tripVoided", "carFailed"} : CancelActive(d, o, outcome)
  PROVE  Goes
<1> USE DEF Start
<1>1. /\ orders \in [Order -> OrderRecord] /\ orders[o] \in OrderRecord /\ AllSound(orders)
      /\ fleet \in Fleets /\ d # None /\ agenda' \in Seq(Call)
  BY NoneAssumption DEF TypeOK, SoundInv
<1>2. Held(orders[o], pq[o].row) /\ Sound(o, orders[o]) /\ board[o] = Entry(orders[o])
  BY <1>1 DEF HandsInv, AllHeld, AllSound, board
<1>3. /\ orders[o].driver = d /\ orders[o].offered = None
      /\ orders[o].status \in Active \union Pending
      /\ Plain => /\ orders[o].status \in Active /\ orders[o].parallel = None
                  /\ board[o] = Place("riding", d)
  <2>1. orders[o].driver = d /\ orders[o].status \in Active \union Pending
    BY DEF SubmitPrice, ApplyEta, Arrived, Seated, Complete, CancelActive, Busy, Active
  <2>2. orders[o].offered = None
    BY <1>1, <1>2, <2>1 DEF Held
  <2>3. ASSUME Plain PROVE orders[o].status \in Active /\ orders[o].parallel = None
    BY <1>1, <1>2, <2>1, <2>3 DEF Sound, Lone, Active
  <2> QED
    BY <1>2, <2>1, <2>2, <2>3, EntryIs
<1>4. ASSUME Idle, Quiet(agenda'), Still \/ (~Plain /\ \E r : Turn(o, Entry(r))),
             fleet' \in {fleet, Repaired}
      PROVE  Goes
  <2>1. \E f \in {fleet, Repaired} : \A x \in Driver \ {None} : Alike(f[x], fleet'[x])
    BY <1>4 DEF Alike
  <2>2. Replaces(board, o, board[o], None)
    BY DEF Replaces
  <2>3. CASE Still
    BY <1>4, <2>1, <2>2, <2>3, HandlerGoes DEF Quiet
  <2>4. ASSUME ~Plain, NEW r, Turn(o, Entry(r)) PROVE Goes
    BY <1>4, <2>4, HandlerGoes DEF Quiet
  <2> QED
    BY <1>4, <2>3, <2>4
<1>5. CASE SubmitPrice(d, o)
  <2> DEFINE x == [orders[o] EXCEPT !.pricing = FALSE, !.confirmed = TRUE, !.card = TRUE]
             y == [orders[o] EXCEPT !.pricing = FALSE, !.confirmed = FALSE, !.proposed = TRUE,
                                    !.fixing = FALSE, !.jobs = orders[o].jobs \union {"delivery"}]
  <2>1. /\ orders' = [orders EXCEPT ![o] = IF o \in Desk THEN x ELSE y]
        /\ Idle /\ agenda' = <<>> /\ fleet' = fleet /\ orders[o].pricing
        /\ orders[o].status = "assigned"
    BY <1>5 DEF SubmitPrice
  <2>2. CASE o \in Desk
    <3>1. Same(orders[o], x)
      BY <1>1 DEF OrderRecord, Same
    <3> HIDE DEF x, y
    <3>2. Still
      BY <1>1, <2>1, <2>2, <3>1, AloneSame
    <3> QED
      BY <1>4, <2>1, <3>2, QuietCalls
  <2>3. CASE o \notin Desk
    <3>1. ~PricesStay /\ ~Plain
      BY <1>2, <2>1, <2>3 DEF Sound, Asked, PricesStay, Plain
    <3>2. /\ y.fixing = FALSE /\ y.pricing = FALSE /\ y.posted = orders[o].posted
          /\ y.chatOffline = orders[o].chatOffline
      BY <1>1 DEF OrderRecord
    <3> HIDE DEF x, y
    <3>3. Sound(o, y)
      BY <1>2, <3>1, <3>2 DEF Sound, Asked
    <3>4. Turn(o, Entry(y))
      BY <1>1, <2>1, <2>3, <3>3, AloneTurns DEF Closed
    <3> QED
      BY <1>4, <2>1, <3>1, <3>4, QuietCalls
  <2> QED
    BY <2>2, <2>3
<1>6. CASE ApplyEta(d, o)
  <2> DEFINE r == [orders[o] EXCEPT !.card = FALSE, !.departed = TRUE, !.fixing = FALSE]
  <2>1. orders' = [orders EXCEPT ![o] = r] /\ Idle /\ agenda' = <<>> /\ fleet' = fleet
    BY <1>1, <1>6 DEF ApplyEta
  <2>2. Same(orders[o], r)
    BY <1>1 DEF OrderRecord, Same
  <2> HIDE DEF r
  <2>3. Still
    BY <1>1, <2>1, <2>2, AloneSame
  <2> QED
    BY <1>4, <2>1, <2>3, QuietCalls
<1>7. CASE Arrived(d, o) \/ Seated(d, o)
  <2>1. PICK st \in {"arrived", "in_progress"} : orders' = [orders EXCEPT ![o].status = st]
    BY <1>7 DEF Arrived, Seated
  <2> DEFINE r == [orders[o] EXCEPT !.status = st]
  <2>2. orders' = [orders EXCEPT ![o] = r] /\ Idle /\ fleet' \in {fleet, Repaired}
        /\ (agenda' = <<>> \/ \E p \in Order : agenda' = <<Do("notify", p)>>)
    BY <1>1, <1>7, <2>1 DEF Arrived, Seated
  <2>3. /\ r.status = st /\ r.driver = d /\ r.offered = None /\ r.parallel = orders[o].parallel
        /\ Calm(o, orders[o], r)
    BY <1>1, <1>3 DEF OrderRecord, Calm
  <2> HIDE DEF r
  <2>4. Plain => Lone(r) /\ Entry(r) = Entry(orders[o])
    BY <1>1, <1>2, <1>3, <2>3, AtRestIs DEF Active
  <2>5. orders[o].status \notin Closed
    BY <1>3 DEF Active, Pending, Candidate, Closed
  <2>6. Turn(o, Entry(r)) /\ (Plain => Still)
    BY <1>1, <2>2, <2>3, <2>4, <2>5, Lands
  <2>7. Quiet(agenda')
    BY <2>2, QuietCalls
  <2> QED
    BY <1>4, <2>2, <2>6, <2>7
<1>8. ASSUME NEW fn \in {"rideDone", "tripVoided", "carFailed"}, Idle,
             agenda' = <<Do("release", o), For(fn, o, d)>>
      PROVE  /\ Calls(agenda) = {}
             /\ \A c \in Calls(agenda') : \/ c.fn = "release" /\ c.driver = None
                                          \/ c.fn = fn /\ c.driver = d /\ c.order = o
             /\ \E c \in Calls(agenda') : c.fn = fn /\ c.driver = d /\ c.order = o
             /\ Ahead(agenda')
  <2>1. /\ Calls(agenda) = {} /\ Calls(agenda') = {Do("release", o), For(fn, o, d)}
        /\ Head(agenda') = Do("release", o) /\ Tail(agenda') = <<For(fn, o, d)>>
        /\ Calls(<<For(fn, o, d)>>) = {For(fn, o, d)}
    BY <1>8, CallsOf DEF Idle
  <2>2. /\ Do("release", o).fn = "release" /\ Do("release", o).driver = None
        /\ For(fn, o, d).fn = fn /\ For(fn, o, d).driver = d /\ For(fn, o, d).order = o
    BY DEF Do, For
  <2> QED
    BY <2>1, <2>2 DEF Ahead
<1>9. CASE Complete(d, o)
  <2> DEFINE r == [orders[o] EXCEPT !.status = "completed", !.jobs = {}, !.fixing = FALSE]
  <2>1. /\ orders' = [orders EXCEPT ![o] = r] /\ Idle /\ fleet' = fleet
        /\ agenda' = <<Do("release", o), For("rideDone", o, d)>>
    BY <1>1, <1>9 DEF Complete
  <2>2. /\ r.status = "completed" /\ r.driver = d /\ r.offered = None
        /\ r.parallel = orders[o].parallel /\ Calm(o, orders[o], r)
    BY <1>1, <1>3 DEF OrderRecord, Calm
  <2> HIDE DEF r
  <2>3. Plain => Lone(r) /\ Entry(r) = Place("over", None)
    BY <1>3, <2>2, AtRestIs DEF Closed
  <2>4. orders[o].status \notin Closed
    BY <1>3 DEF Active, Pending, Candidate, Closed
  <2>5. Turn(o, Entry(r))
    BY <1>1, <2>1, <2>2, <2>3, <2>4, Lands
  <2>6. \A c \in Calls(agenda') : Live(c, orders')
    BY <1>8, <2>1 DEF Live, OfTrip
  <2>7. ASSUME Plain, Duty(board, fleet, agenda) PROVE Duty(board', fleet', agenda') /\ Moves
    <3>1. /\ board = [p \in Order |-> board[p]] /\ board' = [board EXCEPT ![o] = Place("over", None)]
          /\ board'[o] = Place("over", None) /\ \A p \in Order \ {o} : board'[p] = board[p]
      BY <2>3, <2>5, <2>7 DEF Turn, board
    <3>2. Moved(board, o, Place("over", None)) /\ Place("over", None).driver = None
          /\ board[o].driver = d /\ board[o].phase = "riding"
      BY <1>3, <2>7 DEF Moved, Place, Taken
    <3>3. Replaces(board, o, Place("over", None), d)
      BY <3>2 DEF Replaces
    <3>4. \A p \in Order \ {o} : board[p] # Place("riding", d)
      <4> SUFFICES ASSUME NEW p \in Order \ {o}, board[p] = Place("riding", d) PROVE FALSE
        OBVIOUS
      <4>1. board[p].driver = d /\ board[p].phase = "riding"
        BY DEF Place
      <4>2. {board[p].phase, board[o].phase} = {"reserved", "riding"}
        BY <1>1, <2>7, <3>2, <4>1 DEF Duty, Single
      <4> QED
        BY <3>2, <4>1, <4>2
    <3>5. ~Has(board', d, "riding")
      BY <3>1, <3>4 DEF Has, Place
    <3>6. fleet[d].status # "online"
      BY <2>7, <3>2 DEF Duty, Fits
    <3>7. \A c \in Calls(agenda') : c.driver = d => Due(c, board', fleet')
      BY <1>1, <1>8, <2>1, <3>5, <3>6 DEF Due, OfTrip
    <3>8. Follows(board', fleet', agenda', d)
      BY <1>8, <2>1 DEF Follows, Owed
    <3>9. \A p \in Order : board'[p].driver = d => Fits(board'[p], fleet')
      BY <1>1, <2>1, <2>7, <3>1, <3>2 DEF Duty
    <3>10. Own(board', fleet', agenda', d)
      BY <3>7, <3>8, <3>9 DEF Own
    <3>11. Beside(fleet, agenda, fleet', agenda', d)
      BY <1>8, <2>1 DEF Beside, Alike
    <3>12. \A c \in Calls(agenda') : c.driver \in Driver \union {None}
      BY <1>8, <2>1
    <3>13. Ahead(agenda')
      BY <1>8, <2>1
    <3>14. Duty(board', fleet', agenda')
      BY <2>7, <3>1, <3>3, <3>10, <3>11, <3>12, <3>13, OthersGoOn
    <3> QED
      BY <3>1, <3>2, <3>14 DEF Moves
  <2> QED
    BY <2>5, <2>6, <2>7 DEF Goes, Turn
<1>10. ASSUME NEW fn \in {"tripVoided", "carFailed"}, CancelActive(d, o, fn) PROVE Goes
  <2> DEFINE r == [orders[o] EXCEPT !.jobs = {}]
  <2>1. /\ orders' = [orders EXCEPT ![o] = r] /\ Idle /\ fleet' = fleet
        /\ agenda' = <<Do("release", o), For(fn, o, d)>>
    BY <1>1, <1>10 DEF CancelActive
  <2>2. Same(orders[o], r)
    BY <1>1 DEF OrderRecord, Same
  <2>3. r.status = orders[o].status
    BY <1>1 DEF OrderRecord
  <2> HIDE DEF r
  <2>4. Still
    BY <1>1, <2>1, <2>2, AloneSame
  <2>5. \A c \in Calls(agenda') : Live(c, orders')
    <3>1. orders'[o].status = orders[o].status
      BY <1>1, <2>1, <2>3
    <3>2. orders[o].status \notin {"new"} \union Closed
      BY <1>3 DEF Active, Pending, Candidate, Closed
    <3> QED
      BY <1>3, <1>8, <2>1, <3>1, <3>2 DEF Live, OfTrip
  <2>6. ASSUME Plain, Duty(board, fleet, agenda) PROVE Duty(board', fleet', agenda')
    <3>1. /\ board = [p \in Order |-> board[p]] /\ board' = [board EXCEPT ![o] = board[o]]
          /\ board' = board
      BY <2>4 DEF Still, board
    <3>2. Replaces(board, o, board[o], d)
      BY DEF Replaces
    <3>3. board[o] = Place("riding", d) /\ board[o].phase = "riding" /\ board[o].driver = d
      BY <1>3, <2>6 DEF Place
    <3>4. fleet[d].status # "online"
      BY <2>6, <3>3 DEF Duty, Fits
    <3>5. \A c \in Calls(agenda') : c.driver = d => Due(c, board', fleet')
      BY <1>1, <1>8, <2>1, <3>1, <3>3, <3>4 DEF Due
    <3>6. Follows(board', fleet', agenda', d)
      <4>1. Has(board, d, "riding")
        BY <3>3 DEF Has
      <4> QED
        BY <3>1, <4>1 DEF Follows
    <3>7. \A p \in Order : board'[p].driver = d => Fits(board'[p], fleet')
      BY <2>1, <2>6, <3>1 DEF Duty
    <3>8. Own(board', fleet', agenda', d)
      BY <3>5, <3>6, <3>7 DEF Own
    <3>9. Beside(fleet, agenda, fleet', agenda', d)
      BY <1>8, <2>1 DEF Beside, Alike
    <3>10. \A c \in Calls(agenda') : c.driver \in Driver \union {None}
      BY <1>8, <2>1
    <3>11. Ahead(agenda')
      BY <1>8, <2>1
    <3> QED
      BY <2>6, <3>1, <3>2, <3>8, <3>9, <3>10, <3>11, OthersGoOn
  <2> QED
    BY <2>4, <2>5, <2>6 DEF Goes, Still, Moves
<1> QED
  BY <1>5, <1>6, <1>7, <1>9, <1>10

\* A driver who gives up a reservation keeps his trip.
LEMMA GivesUp ==
  ASSUME NEW b, b = [p \in Order |-> b[p]], NEW f, NEW s, Duty(b, f, s), NEW o \in Order,
         NEW d \in Driver, b[o] = Place("reserved", d), NEW phase,
         phase \notin Taken, NEW b2, b2 = [b EXCEPT ![o] = Place(phase, None)],
         NEW s2, \A fns : Owed(s, d, fns) => Owed(s2, d, fns)
  PROVE  (\A p \in Order : b2[p].driver = d => Fits(b2[p], f)) /\ Follows(b2, f, s2, d)
<1>1. d # None /\ b[o].driver = d /\ b[o].phase = "reserved"
  BY NoneAssumption DEF Place
<1>2. b2[o] = Place(phase, None) /\ \A p \in Order \ {o} : b2[p] = b[p]
  OBVIOUS
<1>3. \A p \in Order : b2[p].driver = d => Fits(b2[p], f)
  BY <1>1, <1>2 DEF Duty, Place
<1>4. \A p \in Order \ {o} : b[p] # Place("reserved", d)
  <2> SUFFICES ASSUME NEW p \in Order \ {o}, b[p] = Place("reserved", d) PROVE FALSE
    OBVIOUS
  <2>1. b[p].driver = d /\ b[p].phase = "reserved"
    BY DEF Place
  <2>2. {b[p].phase, b[o].phase} = {"reserved", "riding"}
    BY <1>1, <2>1 DEF Duty, Single
  <2> QED
    BY <1>1, <2>1, <2>2
<1>5. ~Has(b2, d, "reserved")
  BY <1>1, <1>2, <1>4 DEF Has, Place
<1>6. Has(b, d, "riding") => Has(b2, d, "riding")
  BY <1>1, <1>2 DEF Has, Place
<1>7. Follows(b, f, s, d)
  BY DEF Duty
<1> QED
  BY <1>3, <1>5, <1>6, <1>7 DEF Follows

\* A handler with which driver d gives up the reservation of request o.
LEMMA GivenUp ==
  ASSUME TypeOK, TypeOK', HandsInv, SoundInv, NEW d \in Driver, NEW o \in Order, Idle, Quiet(agenda'),
         NEW r, orders' = [orders EXCEPT ![o] = r], UNCHANGED fleet,
         orders[o].status = "parallel_assigned", orders[o].driver = d,
         Calm(o, orders[o], r), r.offered = orders[o].offered, r.driver = None, r.parallel = None,
         r.status \in Candidate
  PROVE  Goes
<1>1. /\ orders[o] \in OrderRecord /\ AllSound(orders) /\ board[o] = Entry(orders[o])
      /\ Held(orders[o], pq[o].row)
  BY DEF TypeOK, SoundInv, HandsInv, AllHeld, board
<1>2. orders[o].offered = None /\ board[o] = Place("reserved", d)
  BY <1>1, EntryIs DEF Held
<1>3. Lone(r) /\ Entry(r) = Place("open", None)
  BY <1>2, AtRestIs DEF Pending
<1>4. Turn(o, Place("open", None))
  BY <1>1, <1>3, Lands DEF Closed
<1>5. Calls(agenda) = {}
  BY CallsOf DEF Idle
<1>6. ASSUME Plain, Duty(board, fleet, agenda)
      PROVE  /\ Replaces(board, o, Place("open", None), d)
             /\ \A p \in Order : board'[p].driver = d => Fits(board'[p], fleet')
             /\ Follows(board', fleet', agenda', d)
  <2>1. Replaces(board, o, Place("open", None), d)
    BY <1>2 DEF Replaces, Moved, Taken, Place
  <2>2. /\ \A fns : Owed(agenda, d, fns) => Owed(agenda', d, fns)
        /\ board' = [board EXCEPT ![o] = Place("open", None)] /\ board = [p \in Order |-> board[p]]
    BY <1>4, <1>5 DEF Owed, Turn, board
  <2>3. (\A p \in Order : board'[p].driver = d => Fits(board'[p], fleet)) /\ Follows(board', fleet, agenda', d)
    BY <1>2, <1>6, <2>2, GivesUp DEF Taken
  <2> QED
    BY <2>1, <2>3
<1>7. \E f \in {fleet, Repaired} : \A x \in Driver \ {d} : Alike(f[x], fleet'[x])
  BY DEF Alike
<1> QED
  BY <1>4, <1>6, <1>7, HandlerGoes DEF Quiet

\* A request that returns to the queue is asked about no more than before.
LEMMA ReleasedCalm ==
  ASSUME NEW o, NEW r \in OrderRecord
  PROVE  LET s == [Released(r) EXCEPT !.card = FALSE]
         IN  /\ Calm(o, r, Released(r)) /\ Calm(o, r, s)
             /\ \A x \in {Released(r), s} : /\ x.driver = None /\ x.parallel = None
                                            /\ x.status = "queued" /\ x.offered = r.offered
<1> DEFINE s == [Released(r) EXCEPT !.card = FALSE]
<1>1. /\ \A x \in {Released(r), s} :
           /\ x.driver = None /\ x.parallel = None /\ x.status = "queued" /\ x.offered = r.offered
           /\ x.fixing = r.fixing /\ x.proposed = r.proposed /\ x.pricing = r.pricing
           /\ x.posted = r.posted /\ x.chatOffline = r.chatOffline /\ x.jobs = r.jobs \ {"parallel_eta"}
  BY DEF Released, OrderRecord
<1> HIDE DEF s
<1>2. Calm(o, r, Released(r)) /\ Calm(o, r, s)
  BY <1>1 DEF Calm
<1> QED
  BY <1>1, <1>2 DEF s

\* Drivers with parallel orders.
LEMMA ParallelGoes ==
  ASSUME TypeOK, TypeOK', HandsInv, SoundInv, NEW d \in Driver, NEW o \in Order,
         \/ \E t \in Order : Take(d, o, t) \/ TakeRouteOffer(d, o, t)
         \/ SaveEta(d, o) \/ DeclineReserved(d, o) \/ DeclineRouteOffer(d, o)
  PROVE  Goes
<1> USE DEF Start
<1>1. /\ orders \in [Order -> OrderRecord] /\ orders[o] \in OrderRecord /\ AllSound(orders)
      /\ fleet \in Fleets /\ d # None
  BY NoneAssumption DEF TypeOK, SoundInv
<1>2. /\ \A p \in Order : Held(orders[p], pq[p].row) /\ board[p] = Entry(orders[p])
      /\ Sound(o, orders[o])
  BY <1>1 DEF HandsInv, AllHeld, AllSound, board
<1>3. ASSUME Idle, Quiet(agenda'), NEW r, orders' = [orders EXCEPT ![o] = r],
             Same(orders[o], r), UNCHANGED fleet
      PROVE  Goes
  <2>1. Still
    BY <1>1, <1>3, AloneSame
  <2>2. \E f \in {fleet, Repaired} : \A x \in Driver \ {None} : Alike(f[x], fleet'[x])
    BY <1>3 DEF Alike
  <2>3. Replaces(board, o, board[o], None)
    BY DEF Replaces
  <2> QED
    BY <1>3, <2>1, <2>2, <2>3, HandlerGoes DEF Quiet
<1>4. CASE \E t \in Order : Take(d, o, t) \/ TakeRouteOffer(d, o, t)
  <2>1. PICK t \in Order : Take(d, o, t)
    BY <1>4 DEF TakeRouteOffer
  <2> DEFINE c == CloseRoute(orders[o])
             r == [c EXCEPT !.parallel = d, !.driver = d, !.status = "parallel_assigned",
                            !.card = TRUE, !.jobs = @ \union {"parallel_eta"}]
  <2>2. /\ orders' = [orders EXCEPT ![o] = r] /\ fleet' = MarkAssigned(Repaired, d)
        /\ Idle /\ agenda' = <<>> /\ t \in Trips(orders, d) /\ Reservations(orders, d) = {}
        /\ Unclaimed(orders[o])
    BY <2>1 DEF Take
  <2>3. c \in OrderRecord /\ Same(orders[o], c)
    BY <1>1, ShutSame
  <2> HIDE DEF c
  <2>4. /\ r.status = "parallel_assigned" /\ r.offered = c.offered /\ r.driver = d /\ r.parallel = d
        /\ Calm(o, c, r)
    BY <2>3 DEF OrderRecord, Calm
  <2> HIDE DEF r
  <2>5. /\ orders[o].status \in Candidate /\ orders[o].offered = None
        /\ board[o] = Place("open", None)
    BY <1>2, <2>2, EntryIs DEF Unclaimed, Held, Pending, Candidate
  <2>6. r.offered = None /\ Calm(o, orders[o], r)
    BY <2>3, <2>4, <2>5 DEF Same, Calm
  <2>7. Lone(r) /\ Entry(r) = Place("reserved", d)
    BY <1>1, <2>4, <2>6, AtRestIs
  <2>8. Turn(o, Place("reserved", d))
    BY <1>1, <2>2, <2>5, <2>6, <2>7, Lands DEF Candidate, Closed
  <2>9. Repaired \in Fleets
    BY <1>1, RepairIsFleet DEF Repaired
  <2>10. fleet'[d].status = "busy" /\ \A x \in Driver \ {d} : Alike(Repaired[x], fleet'[x])
    BY <2>2, <2>9, FleetAlike
  <2>11. board[t] = Place("riding", d) /\ t # o
    BY <1>2, <2>2, <2>5, EntryIs DEF Trips, Active, Candidate
  <2>12. ~Has(board, d, "reserved")
    <3> SUFFICES ASSUME NEW p \in Order, board[p] = Place("reserved", d) PROVE FALSE
      BY DEF Has
    <3>1. BoardPhase(orders[p]) = "reserved" /\ BoardDriver(orders[p]) = d
      BY DEF board, Entry, Place
    <3>2. orders[p].status = "parallel_assigned" /\ orders[p].driver = d
      BY <3>1 DEF BoardPhase, BoardDriver
    <3>3. orders[p].parallel = d
      BY <1>2, <3>2 DEF Held
    <3> QED
      BY <2>2, <3>2, <3>3 DEF Reservations
  <2>13. ASSUME Plain, Duty(board, fleet, agenda)
         PROVE  /\ Replaces(board, o, Place("reserved", d), d)
                /\ \A p \in Order : board'[p].driver = d => Fits(board'[p], fleet')
                /\ Follows(board', fleet', agenda', d)
    <3>1. Replaces(board, o, Place("reserved", d), d)
      <4>1. Has(board, d, "riding")
        BY <2>11 DEF Has
      <4>2. Moved(board, o, Place("reserved", d))
        BY <2>5, <2>12, <4>1 DEF Moved, Place
      <4> QED
        BY <2>5, <4>2 DEF Replaces, Place
    <3>2. board'[o] = Place("reserved", d) /\ \A p \in Order \ {o} : board'[p] = board[p]
      BY <2>8 DEF Turn, board
    <3>3. \A p \in Order \ {o} : board[p].driver = d => board[p].phase # "shown" /\ Fits(board[p], fleet)
      <4>1. board[t].driver = d /\ board[t].phase = "riding"
        BY <2>11 DEF Place
      <4> QED
        BY <1>1, <2>13, <4>1 DEF Duty, Single
    <3>4. \A p \in Order : board'[p].driver = d => Fits(board'[p], fleet')
      <4>1. Fits(Place("reserved", d), fleet')
        BY <1>1, <2>10 DEF Fits, Place, Taken
      <4>2. \A p \in Order \ {o} : board[p].driver = d => Fits(board[p], fleet')
        BY <2>10, <3>3 DEF Fits
      <4> QED
        BY <3>2, <4>1, <4>2
    <3>5. Has(board', d, "riding")
      BY <2>11, <3>2 DEF Has
    <3> QED
      BY <3>1, <3>4, <3>5 DEF Follows
  <2>14. \E f \in {fleet, Repaired} : \A x \in Driver \ {d} : Alike(f[x], fleet'[x])
    BY <2>10
  <2> QED
    BY <2>2, <2>8, <2>13, <2>14, QuietCalls, HandlerGoes DEF Quiet
<1>5. CASE SaveEta(d, o)
  <2> DEFINE r == [orders[o] EXCEPT !.etaSet = TRUE, !.card = FALSE, !.jobs = @ \ {"parallel_eta"}]
  <2>1. orders' = [orders EXCEPT ![o] = r] /\ Idle /\ agenda' = <<>> /\ fleet' = fleet
    BY <1>1, <1>5 DEF SaveEta
  <2>2. Same(orders[o], r)
    BY <1>1 DEF OrderRecord, Same
  <2> HIDE DEF r
  <2> QED
    BY <1>3, <2>1, <2>2, QuietCalls
<1>6. CASE DeclineReserved(d, o)
  <2> DEFINE r == [Released(orders[o]) EXCEPT !.card = FALSE]
  <2>1. /\ orders' = [orders EXCEPT ![o] = r] /\ Idle /\ UNCHANGED fleet
        /\ agenda' \in {<<Promote>>, <<Do("fallback", o)>>}
        /\ orders[o].parallel = d /\ orders[o].status = "parallel_assigned"
    BY <1>6 DEF DeclineReserved, Reserved
  <2>2. orders[o].driver = d
    BY <1>2, <2>1 DEF Held
  <2>3. /\ Calm(o, orders[o], r) /\ r.driver = None /\ r.parallel = None
        /\ r.status \in Candidate /\ r.offered = orders[o].offered
    BY <1>1, ReleasedCalm DEF Candidate
  <2> HIDE DEF r
  <2>4. Quiet(agenda')
    BY <2>1, QuietCalls
  <2> QED
    BY <2>1, <2>2, <2>3, <2>4, GivenUp
<1>7. CASE DeclineRouteOffer(d, o)
  <2> DEFINE c == CloseRoute(orders[o])
             r == [c EXCEPT !.noAuto = @ \union {d}]
  <2>1. orders' = [orders EXCEPT ![o] = r] /\ Idle /\ agenda' = <<Do("fallback", o)>> /\ UNCHANGED fleet
    BY <1>7 DEF DeclineRouteOffer
  <2>2. c \in OrderRecord /\ Same(orders[o], c)
    BY <1>1, ShutSame
  <2> HIDE DEF c
  <2>3. Same(c, r)
    BY <2>2 DEF OrderRecord, Same
  <2> HIDE DEF r
  <2>4. Same(orders[o], r)
    BY <2>2, <2>3 DEF Same
  <2>5. Quiet(agenda')
    BY <2>1, QuietCalls
  <2> QED
    BY <1>3, <2>1, <2>4, <2>5
<1> QED
  BY <1>4, <1>5, <1>6, <1>7

\* Timers, and the recovery worker.
LEMMA TimerGoes ==
  ASSUME TypeOK, TypeOK', HandsInv, SoundInv, NEW o \in Order,
         \/ AcceptTimeout(o) \/ PollTimeout(o) \/ EtaTimeout(o) \/ ChatTimeout(o)
         \/ UnclaimedTimeout(o) \/ DeliveryTimeout(o)
  PROVE  Goes
<1> USE DEF Start, Fires
<1>1. /\ orders \in [Order -> OrderRecord] /\ orders[o] \in OrderRecord /\ AllSound(orders)
      /\ fleet \in Fleets
  BY DEF TypeOK, SoundInv
<1>2. Held(orders[o], pq[o].row) /\ Sound(o, orders[o]) /\ board[o] = Entry(orders[o])
  BY <1>1 DEF HandsInv, AllHeld, AllSound, board
<1>3. Idle
  BY DEF AcceptTimeout, PollTimeout, EtaTimeout, ChatTimeout, UnclaimedTimeout, DeliveryTimeout
\* A timer that comes too late.
<1>4. ASSUME NEW kind, orders' = [orders EXCEPT ![o].jobs = @ \ {kind}], UNCHANGED fleet,
             Quiet(agenda')
      PROVE  Goes
  <2> DEFINE r == [orders[o] EXCEPT !.jobs = @ \ {kind}]
  <2>1. orders' = [orders EXCEPT ![o] = r]
    BY <1>1, <1>4
  <2>2. Same(orders[o], r)
    BY <1>1 DEF OrderRecord, Same
  <2> HIDE DEF r
  <2>3. Still
    BY <1>1, <2>1, <2>2, AloneSame
  <2>4. \E f \in {fleet, Repaired} : \A x \in Driver \ {None} : Alike(f[x], fleet'[x])
    BY <1>4 DEF Alike
  <2>5. Replaces(board, o, board[o], None)
    BY DEF Replaces
  <2> QED
    BY <1>3, <1>4, <2>3, <2>4, <2>5, HandlerGoes DEF Quiet
\* A request that nobody has ends.
<1>5. ASSUME NEW r, orders' = [orders EXCEPT ![o] = r], UNCHANGED fleet, Quiet(agenda'),
             orders[o].status \in Pending, orders[o].offered = None, r.status = "cancelled",
             Calm(o, orders[o], r), r.offered = None, r.parallel = orders[o].parallel
      PROVE  Goes
  <2>1. ASSUME Plain
        PROVE  /\ board[o] = Place("open", None) /\ r.parallel = None
    BY <1>2, <1>5, <2>1, EntryIs DEF Sound, Lone, Pending, Candidate
  <2>2. Plain => Lone(r) /\ Entry(r) = Place("over", None)
    BY <1>5, <2>1, AtRestIs DEF Closed
  <2>3. Turn(o, Entry(r))
    BY <1>1, <1>5, <2>2, Lands DEF Pending, Candidate, Closed
  <2>4. Plain => Replaces(board, o, Entry(r), None)
    BY <2>1, <2>2 DEF Replaces, Moved, Place
  <2>5. \E f \in {fleet, Repaired} : \A x \in Driver \ {None} : Alike(f[x], fleet'[x])
    BY <1>5 DEF Alike
  <2> QED
    BY <1>3, <1>5, <2>3, <2>4, <2>5, HandlerGoes DEF Quiet
\* A request that is shown to a driver is taken from him.
<1>6. ASSUME NEW d \in Driver, orders[o].status = "searching", orders[o].offered = d,
             NEW r, orders' = [orders EXCEPT ![o] = r], Quiet(agenda'),
             Calm(o, orders[o], r), r.offered = None, r.driver = None, r.parallel = None,
             r.status \in {"searching", "cancelled"},
             fleet' \in {OffLine(LeaveQueue(fleet, d), d), ReleaseOffer(fleet, d)}
      PROVE  Goes
  <2>1. board[o] = Place("shown", d) /\ d # None
    BY <1>2, <1>6, NoneAssumption, EntryIs
  <2>2. Lone(r) /\ Entry(r) \in {Place("open", None), Place("over", None)}
    BY <1>6, AtRestIs DEF Pending, Closed
  <2>3. Turn(o, Entry(r))
    BY <1>1, <1>6, <2>2, Lands DEF Closed
  <2>4. fleet'[d].status # "busy" /\ \A x \in Driver \ {d} : Alike(fleet[x], fleet'[x])
    <3>1. PICK f \in Fleets : f = LeaveQueue(fleet, d)
      BY <1>1, FleetAlike
    <3>2. f[d].status = "offline" /\ \A x \in Driver \ {d} : Alike(fleet[x], f[x])
      BY <1>1, <3>1, FleetAlike
    <3>3. OffLine(f, d)[d].status = f[d].status /\ \A x \in Driver \ {d} : Alike(f[x], OffLine(f, d)[x])
      BY <3>1, FleetAlike
    <3>4. ReleaseOffer(fleet, d)[d].status # "busy"
          /\ \A x \in Driver \ {d} : Alike(fleet[x], ReleaseOffer(fleet, d)[x])
      BY <1>1, FleetAlike
    <3> QED
      BY <1>6, <3>1, <3>2, <3>3, <3>4 DEF Alike
  <2>5. ASSUME Plain, Duty(board, fleet, agenda)
        PROVE  /\ Replaces(board, o, Entry(r), d)
               /\ \A p \in Order : board'[p].driver = d => Fits(board'[p], fleet')
               /\ Follows(board', fleet', agenda', d)
    <3>1. Moved(board, o, Entry(r)) /\ Entry(r).driver = None /\ board[o].driver = d
      BY <2>1, <2>2 DEF Moved, Place, Taken
    <3>2. \A p \in Order \ {o} : board[p].driver # d
      BY <2>1, <2>5, ShownAlone DEF Duty
    <3>3. \A p \in Order : board'[p].driver # d
      BY <2>1, <2>3, <3>1, <3>2 DEF Turn, board
    <3> QED
      BY <2>4, <3>1, <3>3, NoDuty DEF Replaces
  <2>6. \E f \in {fleet, Repaired} : \A x \in Driver \ {d} : Alike(f[x], fleet'[x])
    BY <2>4
  <2> QED
    BY <1>3, <1>6, <2>3, <2>5, <2>6, HandlerGoes DEF Quiet
<1>7. CASE AcceptTimeout(o)
  <2>1. CASE orders[o].status = "searching" /\ orders[o].offered # None
    <3>1. PICK d \in Driver : d = orders[o].offered
      BY <1>1, <2>1 DEF OrderRecord
    <3> DEFINE r == Declined(orders[o])
    <3>2. /\ orders' = [orders EXCEPT ![o] = r] /\ fleet' = OffLine(LeaveQueue(fleet, d), d)
          /\ agenda' = <<Offer(o, {d}), Promote>>
      BY <1>1, <1>7, <2>1, <3>1 DEF AcceptTimeout
    <3>3. orders[o].driver = None /\ orders[o].parallel = None
      BY <1>2, <2>1 DEF Held
    <3>4. /\ r.offered = None /\ r.driver = None /\ r.parallel = None /\ r.status = "searching"
          /\ Calm(o, orders[o], r)
      BY <1>1, <2>1, <3>3 DEF Declined, OrderRecord, Calm
    <3> HIDE DEF r
    <3>5. Quiet(agenda')
      BY <3>2, QuietCalls
    <3> QED
      BY <1>6, <2>1, <3>1, <3>2, <3>4, <3>5
  <2>2. CASE ~(orders[o].status = "searching" /\ orders[o].offered # None)
    BY <1>4, <1>7, <2>2, QuietCalls DEF AcceptTimeout
  <2> QED
    BY <2>1, <2>2
<1>8. CASE PollTimeout(o)
  <2>1. CASE pq[o].row = "polling"
    <3> DEFINE w == Withdraw(orders[o])
               r == [w EXCEPT !.status = "cancelled", !.fixing = FALSE]
    <3>1. orders' = [orders EXCEPT ![o] = r] /\ agenda' = <<PromoteUnflushed>> /\ UNCHANGED fleet
      BY <1>8, <2>1 DEF PollTimeout
    <3>2. w \in OrderRecord /\ Same(orders[o], w)
      BY <1>1, ShutSame
    <3> HIDE DEF w
    <3>3. /\ r.status = "cancelled" /\ r.offered = w.offered
          /\ r.parallel = w.parallel /\ Calm(o, w, r)
      BY <3>2 DEF OrderRecord, Calm
    <3> HIDE DEF r
    <3>4. orders[o].status \in Pending /\ orders[o].offered = None
      BY <1>2, <2>1 DEF Held, Pending
    <3>5. Calm(o, orders[o], r) /\ r.offered = None /\ r.parallel = orders[o].parallel
      BY <3>2, <3>3, <3>4 DEF Same, Calm
    <3> QED
      BY <1>5, <3>1, <3>3, <3>4, <3>5, QuietCalls
  <2>2. CASE pq[o].row # "polling"
    BY <1>4, <1>8, <2>2, QuietCalls DEF PollTimeout
  <2> QED
    BY <2>1, <2>2
<1>9. CASE EtaTimeout(o)
  <2>1. CASE orders[o].status = "parallel_assigned" /\ ~orders[o].etaSet
    <3> DEFINE r == [Released(orders[o]) EXCEPT !.card = FALSE]
    <3>1. orders' = [orders EXCEPT ![o] = r] /\ UNCHANGED fleet /\ agenda' = <<Promote>>
      BY <1>9, <2>1 DEF EtaTimeout
    <3>2. /\ Calm(o, orders[o], r) /\ r.driver = None /\ r.parallel = None
          /\ r.status \in Candidate /\ r.offered = orders[o].offered
      BY <1>1, ReleasedCalm DEF Candidate
    <3> HIDE DEF r
    <3>3. Quiet(agenda')
      BY <3>1, QuietCalls
    <3>4. CASE orders[o].driver \in Driver
      BY <1>3, <2>1, <3>1, <3>2, <3>3, <3>4, GivenUp
    <3>5. CASE orders[o].driver = None
      <4>1. ~Plain /\ orders[o].status \notin Closed
        BY <1>2, <2>1, <3>5 DEF Sound, Lone, Held, Closed
      <4>2. Turn(o, Entry(r))
        BY <1>1, <3>1, <3>2, <4>1, Lands
      <4> QED
        BY <1>3, <3>3, <4>1, <4>2, HandlerGoes DEF Quiet
    <3> QED
      BY <1>1, <3>4, <3>5 DEF OrderRecord
  <2>2. CASE ~(orders[o].status = "parallel_assigned" /\ ~orders[o].etaSet)
    BY <1>4, <1>9, <2>2, QuietCalls DEF EtaTimeout
  <2> QED
    BY <2>1, <2>2
<1>10. CASE ChatTimeout(o)
  <2>1. CASE orders[o].status = "chat_search"
    <3> DEFINE r == [orders[o] EXCEPT !.status = "cancelled", !.fixing = FALSE,
                                      !.jobs = orders[o].jobs \ {"driver_chat"}]
    <3>1. orders' = [orders EXCEPT ![o] = r] /\ UNCHANGED fleet /\ agenda' = <<>>
      BY <1>10, <2>1 DEF ChatTimeout
    <3>2. orders[o].offered = None
      BY <1>2, <2>1 DEF Held
    <3>3. /\ r.status = "cancelled" /\ r.offered = None
          /\ r.parallel = orders[o].parallel /\ Calm(o, orders[o], r)
      BY <1>1, <3>2 DEF OrderRecord, Calm
    <3> HIDE DEF r
    <3> QED
      BY <1>5, <2>1, <3>1, <3>2, <3>3, QuietCalls DEF Pending
  <2>2. CASE orders[o].status # "chat_search"
    <3>1. orders' = [orders EXCEPT ![o].jobs = @ \ {"driver_chat"}]
      BY <1>1, <1>10, <2>2 DEF ChatTimeout
    <3> QED
      BY <1>4, <1>10, <3>1, QuietCalls DEF ChatTimeout
  <2> QED
    BY <2>1, <2>2
<1>11. CASE UnclaimedTimeout(o)
  <2>1. CASE /\ orders[o].driver = None /\ orders[o].parallel = None
             /\ orders[o].status \in Pending
    <3> DEFINE w == Withdraw(orders[o])
               r == [w EXCEPT !.status = "cancelled", !.offered = None,
                              !.jobs = @ \ {"accept", "dispatcher_unclaimed"}]
    <3>1. /\ orders' = [orders EXCEPT ![o] = r] /\ agenda' = <<>>
          /\ fleet' = IF orders[o].offered = None THEN fleet
                      ELSE ReleaseOffer(fleet, orders[o].offered)
      BY <1>11, <2>1 DEF UnclaimedTimeout
    <3>2. w \in OrderRecord /\ Same(orders[o], w)
      BY <1>1, ShutSame
    <3> HIDE DEF w
    <3>3. /\ r.status = "cancelled" /\ r.offered = None /\ r.driver = w.driver
          /\ r.parallel = w.parallel /\ Calm(o, w, r)
      BY <3>2 DEF OrderRecord, Calm
    <3> HIDE DEF r
    <3>4. Calm(o, orders[o], r) /\ r.driver = None /\ r.parallel = None
      BY <2>1, <3>2, <3>3 DEF Same, Calm
    <3>5. CASE orders[o].offered = None
      BY <1>5, <2>1, <3>1, <3>3, <3>4, <3>5, QuietCalls
    <3>6. CASE orders[o].offered # None
      <4>1. PICK d \in Driver : d = orders[o].offered
        BY <1>1, <3>6 DEF OrderRecord
      <4>2. orders[o].status = "searching"
        BY <1>2, <2>1, <3>6 DEF Held, Pending
      <4> QED
        BY <1>6, <3>1, <3>3, <3>4, <3>6, <4>1, <4>2, QuietCalls
    <3> QED
      BY <3>5, <3>6
  <2>2. CASE ~(/\ orders[o].driver = None /\ orders[o].parallel = None
               /\ orders[o].status \in Pending)
    BY <1>4, <1>11, <2>2, QuietCalls DEF UnclaimedTimeout
  <2> QED
    BY <2>1, <2>2
<1>12. CASE DeliveryTimeout(o)
  <2> DEFINE x == [orders[o] EXCEPT !.status = "cancelled", !.fixing = FALSE,
                         !.jobs = orders[o].jobs \ {"delivery"}]
  <2>1. ~PricesStay /\ ~Plain /\ agenda' = <<>>
    BY <1>2, <1>12 DEF DeliveryTimeout, Sound, Asked, Plain
  <2>2. CASE Unanswered(orders[o])
    <3>1. orders' = [orders EXCEPT ![o] = x] /\ orders[o].status \in {"assigned", "searching"}
      BY <1>1, <1>12, <2>2 DEF DeliveryTimeout, DeliveryOff, Unanswered
    <3>2. Calm(o, orders[o], x)
      BY <1>1 DEF OrderRecord, Calm
    <3> HIDE DEF x
    <3>3. Turn(o, Entry(x))
      BY <1>1, <2>1, <3>1, <3>2, Lands DEF Closed
    <3> QED
      BY <1>3, <2>1, <3>3, QuietCalls, HandlerGoes DEF Quiet
  <2>3. CASE ~Unanswered(orders[o])
    BY <1>4, <1>12, <2>1, <2>3, QuietCalls DEF DeliveryTimeout
  <2> QED
    BY <2>2, <2>3
<1> QED
  BY <1>7, <1>8, <1>9, <1>10, <1>11, <1>12

\* The timer of a card for the road, the one of a driver who is away, and the worker.
LEMMA WorkerGoes ==
  ASSUME TypeOK, TypeOK', SoundInv,
         (\E o \in Order : RouteOfferTimeout(o)) \/ (\E d \in Driver : AwayTimeout(d)) \/ Recovery
  PROVE  Goes
<1> USE DEF Start
<1>1. /\ orders \in [Order -> OrderRecord] /\ AllSound(orders) /\ fleet \in Fleets
  BY DEF TypeOK, SoundInv
<1>2. Idle
  BY DEF RouteOfferTimeout, AwayTimeout, Recovery
<1>3. ASSUME Quiet(agenda'), Still, UNCHANGED fleet
      PROVE  Goes
  <2>1. \E f \in {fleet, Repaired} : \A x \in Driver \ {None} : Alike(f[x], fleet'[x])
    BY <1>3 DEF Alike
  <2>2. \A o : Replaces(board, o, board[o], None)
    BY DEF Replaces
  <2> QED
    BY <1>2, <1>3, <2>1, <2>2, HandlerGoes DEF Quiet
<1>4. ASSUME NEW o \in Order, RouteOfferTimeout(o) PROVE Goes
  <2> DEFINE r == orders[o]
             d == r.routeDriver
             c == CloseRoute(r)
             closed == [orders EXCEPT ![o] = c]
             os == [p \in Order |->
                      IF p = o THEN [closed[o] EXCEPT !.noAuto = @ \union {d}]
                      ELSE IF p = r.routeTrip /\ p \in Trips(orders, d)
                           THEN [closed[p] EXCEPT !.autoOff = TRUE]
                      ELSE closed[p]]
  <2>1. /\ \/ orders' = os /\ agenda' = <<Do("fallback", o), Promote>>
           \/ orders' = closed /\ agenda' = <<>>
        /\ UNCHANGED fleet
    BY <1>4 DEF RouteOfferTimeout
  <2>2. c \in OrderRecord /\ Same(orders[o], c)
    BY <1>1, ShutSame
  <2>3. closed[o] = c /\ \A p \in Order \ {o} : closed[p] = orders[p]
    BY <1>1
  <2> HIDE DEF c, closed
  <2>4. \A s, x : s = [c EXCEPT !.noAuto = x] => Same(c, s)
    BY <2>2 DEF OrderRecord, Same
  <2>5. \A p \in Order : \A s : s = [orders[p] EXCEPT !.autoOff = TRUE] => Same(orders[p], s)
    BY <1>1 DEF OrderRecord, Same
  <2>6. \A p \in Order : Same(orders[p], orders[p])
    BY DEF Same
  <2>7. \A p \in Order : Same(orders[p], orders'[p])
    <3>1. CASE orders' = closed
      BY <2>2, <2>3, <2>6, <3>1
    <3>2. CASE orders' = os
      <4>1. /\ \E x : orders'[o] = [c EXCEPT !.noAuto = x]
            /\ \A p \in Order \ {o} :
                 orders'[p] = orders[p] \/ orders'[p] = [orders[p] EXCEPT !.autoOff = TRUE]
        BY <2>3, <3>2
      <4> HIDE DEF os, r
      <4>2. Same(c, orders'[o])
        BY <2>4, <4>1
      <4>3. Same(orders[o], orders'[o])
        BY <2>2, <4>2 DEF Same
      <4> QED
        BY <2>5, <2>6, <4>1, <4>3
    <3> QED
      BY <2>1, <3>1, <3>2
  <2>8. Still
    BY <1>1, <2>7, NoneTurns
  <2>9. Quiet(agenda')
    <3>1. agenda' = <<Do("fallback", o), Promote>> \/ agenda' = <<>>
      BY <2>1
    <3> QED
      BY <3>1, QuietCalls
  <2> QED
    BY <1>3, <2>1, <2>8, <2>9
<1>5. ASSUME NEW d \in Driver, AwayTimeout(d) PROVE Goes
  <2>1. /\ fleet[d].status = "away" /\ agenda' = <<>> /\ UNCHANGED orders
        /\ fleet' = OffLine(LeaveQueue(fleet, d), d)
    BY <1>5 DEF AwayTimeout
  <2>2. fleet'[d].status = "offline" /\ \A x \in Driver \ {d} : Alike(fleet[x], fleet'[x])
    <3>1. PICK f \in Fleets : f = LeaveQueue(fleet, d)
      BY <1>1, FleetAlike
    <3>2. f[d].status = "offline" /\ \A x \in Driver \ {d} : Alike(fleet[x], f[x])
      BY <1>1, <3>1, FleetAlike
    <3>3. OffLine(f, d)[d].status = f[d].status /\ \A x \in Driver \ {d} : Alike(f[x], OffLine(f, d)[x])
      BY <3>1, FleetAlike
    <3> QED
      BY <2>1, <3>1, <3>2, <3>3 DEF Alike
  <2>3. Still /\ board' = board
    BY <1>1, <2>1, UnchangedTurns DEF Still
  <2>4. ASSUME Plain, Duty(board, fleet, agenda)
        PROVE  /\ \A p \in Order : board'[p].driver = d => Fits(board'[p], fleet')
               /\ Follows(board', fleet', agenda', d)
    <3>1. ASSUME NEW p \in Order, board[p].driver = d PROVE Fits(board[p], fleet')
      <4>1. Fits(board[p], fleet)
        BY <2>4 DEF Duty
      <4>2. board[p].phase # "shown" /\ ~(board[p].phase \in {"reserved", "riding"} /\ ~ChatOpen)
        BY <2>1, <3>1, <4>1 DEF Fits
      <4> QED
        BY <2>2, <3>1, <4>1, <4>2 DEF Fits
    <3>2. Follows(board, fleet, agenda, d)
      BY <2>4 DEF Duty
    <3>3. Follows(board, fleet', agenda', d)
      <4>1. agenda' = agenda
        BY <1>2, <2>1 DEF Idle
      <4> QED
        BY <2>2, <3>2, <4>1 DEF Follows
    <3> QED
      BY <2>3, <3>1, <3>3
  <2>5. \E f \in {fleet, Repaired} : \A x \in Driver \ {d} : Alike(f[x], fleet'[x])
    BY <2>2
  <2>6. Replaces(board, d, board[d], d)
    BY DEF Replaces
  <2> QED
    BY <1>2, <2>1, <2>3, <2>4, <2>5, <2>6, QuietCalls, HandlerGoes DEF Quiet
<1>6. CASE Recovery
  <2>1. Still
    BY <1>1, <1>6, UnchangedTurns DEF Recovery
  <2> QED
    BY <1>3, <1>6, <2>1, QuietCalls DEF Recovery
<1> QED
  BY <1>4, <1>5, <1>6

\* Where the trips and the reservations of a driver are on the board.
LEMMA OnBoard ==
  ASSUME HandsInv
  PROVE  \A d \in Driver :
           /\ \A o \in Trips(orders, d) : o \in Order /\ board[o] = Place("riding", d)
           /\ \A o \in Reservations(orders, d) : o \in Order /\ board[o] = Place("reserved", d)
           /\ Has(board, d, "riding") <=> Trips(orders, d) # {}
           /\ Has(board, d, "reserved") <=> Reservations(orders, d) # {}
<1> SUFFICES ASSUME NEW d \in Driver
             PROVE  /\ \A o \in Trips(orders, d) : o \in Order /\ board[o] = Place("riding", d)
                    /\ \A o \in Reservations(orders, d) : o \in Order /\ board[o] = Place("reserved", d)
                    /\ Has(board, d, "riding") <=> Trips(orders, d) # {}
                    /\ Has(board, d, "reserved") <=> Reservations(orders, d) # {}
  OBVIOUS
<1>1. \A o \in Order : Held(orders[o], pq[o].row) /\ board[o] = Entry(orders[o])
  BY DEF HandsInv, AllHeld, board
<1>2. \A o \in Trips(orders, d) : o \in Order /\ board[o] = Place("riding", d)
  BY <1>1, EntryIs DEF Trips
<1>3. \A o \in Reservations(orders, d) : o \in Order /\ board[o] = Place("reserved", d)
  BY <1>1, EntryIs DEF Reservations, Held
<1>4. ASSUME NEW o \in Order, board[o] = Place("riding", d) PROVE o \in Trips(orders, d)
  <2>1. BoardPhase(orders[o]) = "riding" /\ BoardDriver(orders[o]) = d
    BY <1>4 DEF board, Entry, Place
  <2>2. orders[o].status \in Active /\ orders[o].driver = d
    BY <2>1 DEF BoardPhase, BoardDriver
  <2> QED
    BY <2>2 DEF Trips
<1>5. ASSUME NEW o \in Order, board[o] = Place("reserved", d) PROVE o \in Reservations(orders, d)
  <2>1. BoardPhase(orders[o]) = "reserved" /\ BoardDriver(orders[o]) = d
    BY <1>5 DEF board, Entry, Place
  <2>2. orders[o].status = "parallel_assigned" /\ orders[o].driver = d
    BY <2>1 DEF BoardPhase, BoardDriver
  <2> QED
    BY <1>1, <2>2 DEF Reservations, Held
<1> QED
  BY <1>2, <1>3, <1>4, <1>5 DEF Has

\* A driver whose trip ends has at most a reservation left.
LEMMA TripEnds ==
  ASSUME NEW b, b = [p \in Order |-> b[p]], NEW f, NEW s, Duty(b, f, s), NEW o \in Order,
         NEW d \in Driver, b[o] = Place("riding", d), NEW phase, phase \notin Taken,
         NEW b2, b2 = [b EXCEPT ![o] = Place(phase, None)]
  PROVE  /\ \A p \in Order : b2[p].driver = d => b2[p] = Place("reserved", d)
         /\ Has(b2, d, "reserved") <=> Has(b, d, "reserved")
         /\ f[d].status # "online" /\ (~ChatOpen => f[d].status = "busy")
<1>1. b[o].driver = d /\ b[o].phase = "riding" /\ d # None
  BY NoneAssumption DEF Place
<1>2. b2[o] = Place(phase, None) /\ \A p \in Order \ {o} : b2[p] = b[p]
  OBVIOUS
<1>3. ASSUME NEW p \in Order, b2[p].driver = d PROVE b2[p] = Place("reserved", d)
  <2>1. p # o /\ b[p].driver = d
    BY <1>1, <1>2, <1>3 DEF Place
  <2>2. {b[p].phase, b[o].phase} = {"reserved", "riding"}
    BY <1>1, <2>1 DEF Duty, Single
  <2>3. b[p].phase = "reserved" /\ b[p] = Place(b[p].phase, b[p].driver)
    BY <1>1, <2>2 DEF Duty, Fits
  <2> QED
    BY <1>2, <2>1, <2>3
<1>4. Has(b2, d, "reserved") <=> Has(b, d, "reserved")
  <2>1. b[o] # Place("reserved", d) /\ b2[o] # Place("reserved", d)
    BY <1>1, <1>2 DEF Place
  <2> QED
    BY <1>2, <2>1 DEF Has
<1>5. f[d].status # "online" /\ (~ChatOpen => f[d].status = "busy")
  BY <1>1 DEF Duty, Fits
<1> QED
  BY <1>3, <1>4, <1>5

\* Calls with which the handler of driver d ends: one about him, and others about nobody.
Ends(t, d, fn) ==
  /\ t \in Seq(Call) /\ Ahead(t)
  /\ \A c \in Calls(t) : /\ c.driver \in {None, d} /\ c.fn \notin OfTrip \union {"passengerGone"}
                         /\ c.driver = d => c.fn = fn
  /\ \E c \in Calls(t) : c.driver = d /\ c.fn = fn

\* The calls that follow a trip.
LEMMA EndCalls ==
  ASSUME NEW d \in Driver, NEW o \in Order
  PROVE  /\ Ends(<<For("startReserved", None, d)>>, d, "startReserved")
         /\ Ends(<<For("startReserved", None, d), PromoteUnflushed>>, d, "startReserved")
         /\ Ends(<<For("postRide", None, d)>>, d, "postRide")
         /\ Ends(<<Promote, For("postRide", None, d)>>, d, "postRide")
         /\ Ends(<<Offer(o, {}), Promote, For("postRide", None, d)>>, d, "postRide")
<1> DEFINE a == For("startReserved", None, d)
           b == For("postRide", None, d)
           x == Offer(o, {})
<1>1. /\ a \in Call /\ b \in Call /\ x \in Call /\ Promote \in Call /\ PromoteUnflushed \in Call
  BY CallTypes
<1>2. /\ a.fn = "startReserved" /\ a.driver = d /\ b.fn = "postRide" /\ b.driver = d
      /\ x.fn = "offer" /\ x.driver = None
      /\ Promote.fn = "promote" /\ Promote.driver = None
      /\ PromoteUnflushed.fn = "promoteUnflushed" /\ PromoteUnflushed.driver = None
  BY DEF For, Offer, Promote, PromoteUnflushed, Do
<1>3. d # None
  BY NoneAssumption
<1> HIDE DEF a, b, x
<1>4. ASSUME NEW u \in Call
      PROVE  <<u>> \in Seq(Call) /\ Head(<<u>>) = u /\ Tail(<<u>>) = <<>>
  OBVIOUS
<1>5. ASSUME NEW u \in Call, NEW v \in Call
      PROVE  <<u, v>> \in Seq(Call) /\ Head(<<u, v>>) = u /\ Tail(<<u, v>>) = <<v>>
  OBVIOUS
<1>6. ASSUME NEW u \in Call, NEW v \in Call, NEW w \in Call
      PROVE  <<u, v, w>> \in Seq(Call) /\ Head(<<u, v, w>>) = u /\ Tail(<<u, v, w>>) = <<v, w>>
  OBVIOUS
<1>7. ASSUME NEW u \in {a, b} PROVE Ends(<<u>>, d, u.fn)
  <2>1. /\ Calls(<<u>>) = {u} /\ Calls(<<>>) = {} /\ <<u>> \in Seq(Call) /\ Tail(<<u>>) = <<>>
        /\ u.driver = d /\ u.fn \in {"startReserved", "postRide"}
    BY <1>1, <1>2, <1>4, CallsOf
  <2>2. Ahead(<<u>>)
    BY <2>1 DEF Ahead
  <2> QED
    BY <2>1, <2>2 DEF Ends, OfTrip
<1>8. Ends(<<a, PromoteUnflushed>>, d, "startReserved")
  BY <1>1, <1>2, <1>3, <1>5, CallsOf DEF Ends, Ahead, OfTrip
<1>9. Ends(<<Promote, b>>, d, "postRide")
  BY <1>1, <1>2, <1>3, <1>5, CallsOf DEF Ends, Ahead, OfTrip
<1>10. Ends(<<x, Promote, b>>, d, "postRide")
  BY <1>1, <1>2, <1>3, <1>6, CallsOf DEF Ends, Ahead, OfTrip
<1> QED
  BY <1>2, <1>7, <1>8, <1>9, <1>10 DEF a, b, x

\* The duties of a driver whose trip has ended.
LEMMA AfterTrip ==
  ASSUME NEW d \in Driver, NEW b, NEW f, NEW s,
         \A p \in Order : b[p].driver = d => b[p] = Place("reserved", d),
         f[d].status # "online", Has(b, d, "reserved") /\ ~ChatOpen => f[d].status = "busy",
         NEW fn \in {"startReserved", "postRide"}, Ends(s, d, fn),
         fn = "postRide" => ~Has(b, d, "reserved")
  PROVE  Own(b, f, s, d)
<1>1. d # None
  BY NoneAssumption
<1>2. ~Has(b, d, "riding")
  BY DEF Has, Place
<1>3. \A p \in Order : b[p].driver = d => Fits(b[p], f)
  <2> SUFFICES ASSUME NEW p \in Order, b[p].driver = d PROVE Fits(b[p], f)
    OBVIOUS
  <2>1. b[p] = Place("reserved", d) /\ Has(b, d, "reserved")
    BY DEF Has
  <2>2. b[p].phase = "reserved"
    BY <2>1 DEF Place
  <2> QED
    BY <1>1, <2>1, <2>2 DEF Fits, Taken
<1>4. \A c \in Calls(s) : c.driver = d => Due(c, b, f)
  BY <1>2 DEF Ends, Due, OfTrip
<1>5. Follows(b, f, s, d)
  BY DEF Follows, Owed, Ends
<1> QED
  BY <1>3, <1>4, <1>5 DEF Own

\* A list without calls.
LEMMA NoCalls == ASSUME NEW s \in Seq(Call), Len(s) = 0 PROVE s = <<>>
BY EmptySeq

\* The rest of a handler is the last call of its transaction.
LEMMA OnlyCall ==
  ASSUME TypeOK, HandsInv, ~Idle, Arg.fn \in Ender
  PROVE  Len(agenda) = 1 /\ agenda[1] = Arg /\ Calls(agenda) = {Arg}
<1>1. agenda \in Seq(Call) /\ Len(agenda) = 1 /\ agenda[1] = Arg
  <2>1. agenda \in Seq(Call) /\ agenda # <<>> /\ Stacked(agenda)
    BY DEF TypeOK, Idle, HandsInv
  <2>2. Len(agenda) \in Nat /\ 1 \in DOMAIN agenda /\ Arg = agenda[1]
    BY <2>1 DEF Arg
  <2> QED
    BY <2>1, <2>2 DEF Stacked
<1>2. Calls(agenda) = {Arg}
  <2>1. DOMAIN agenda = {1}
    BY <1>1
  <2> QED
    BY <1>1, <2>1 DEF Calls
<1> QED
  BY <1>1, <1>2

\* The last call of a transaction, which concerns one driver, or none, and one request.
LEMMA LastGoes ==
  ASSUME TypeOK, TypeOK', HandsInv, ~Idle, Arg.fn \in Ender, NEW o, NEW e,
         (Still /\ e = board[o]) \/ (o \in Order /\ Turn(o, e)),
         NEW D \in Driver \union {None}, Arg.driver \in {None, D},
         NEW t \in Seq(Call), Then(t), Ahead(t),
         \A c \in Calls(t) : c.driver \in {None, D} /\ Live(c, orders'),
         Plain /\ Duty(board, fleet, agenda) =>
           /\ Replaces(board, o, e, D)
           /\ \A x \in Driver \ {D} : Alike(fleet[x], fleet'[x])
           /\ Own(board', fleet', t, D)
  PROVE  Goes
<1>1. agenda \in Seq(Call) /\ Len(agenda) = 1 /\ agenda[1] = Arg
  BY OnlyCall DEF TypeOK
<1>2. Calls(agenda) = {Arg}
  BY OnlyCall
<1>3. agenda' = t
  <2>1. Tail(agenda) \in Seq(Call) /\ Len(Tail(agenda)) = 0
    BY <1>1
  <2>2. Tail(agenda) = <<>>
    BY <2>1, NoCalls
  <2>3. t \o <<>> = t
    OBVIOUS
  <2> QED
    BY <2>2, <2>3 DEF Then
<1>4. Kept /\ board' = [board EXCEPT ![o] = e] /\ board = [p \in Order |-> board[p]]
  BY DEF Still, Turn, board
<1>5. ASSUME Plain, Duty(board, fleet, agenda)
      PROVE  Duty(board', fleet', agenda') /\ Moves
  <2>1. Beside(fleet, agenda, fleet', agenda', D)
    BY <1>2, <1>3, <1>5, NoneAssumption DEF Beside
  <2>2. \A c \in Calls(agenda') : c.driver \in Driver \union {None}
    BY <1>3
  <2>3. Replaces(board, o, e, D) /\ Own(board', fleet', agenda', D) /\ Ahead(agenda')
    BY <1>3, <1>5
  <2>4. Duty(board', fleet', agenda')
    BY <1>4, <1>5, <2>1, <2>2, <2>3, OthersGoOn
  <2>5. Moves
    <3>1. CASE e = board[o]
      <4>1. board' = board
        BY <1>4, <3>1
      <4> QED
        BY <4>1 DEF Moves
    <3>2. CASE o \in Order /\ Moved(board, o, e)
      <4>1. board'[o] = e
        BY <1>4, <3>2 DEF board
      <4> QED
        BY <1>4, <3>2, <4>1 DEF Moves
    <3> QED
      BY <2>3, <3>1, <3>2 DEF Replaces
  <2> QED
    BY <2>4, <2>5
<1> QED
  BY <1>3, <1>4, <1>5 DEF Goes

\* The rests of handlers that end a trip or a request.
LEMMA ResumedGoes ==
  ASSUME TypeOK, TypeOK', HandsInv, SoundInv, ResumedStep
  PROVE  Goes
<1> USE DEF Calling
<1>1. /\ orders \in [Order -> OrderRecord] /\ agenda \in Seq(Call) /\ AllSound(orders)
      /\ fleet \in Fleets
  BY DEF TypeOK, SoundInv
<1>2. ~Idle /\ Arg.fn \in Ender
  BY DEF Arg, Ender, OfTrip, ResumedStep, PassengerGone, RideDone, TripVoided, CarFailed, TripLost
<1>3. PICK o, d : o = Arg.order /\ d = Arg.driver
  OBVIOUS
<1>4. /\ o \in Order /\ orders[o] \in OrderRecord
      /\ Arg.fn # "passengerGone" => d \in Driver /\ d # None
      /\ Arg.fn = "passengerGone" => d = None
  <2>1. /\ Arg \in Call /\ Arg.fn \in Ender /\ (Arg.fn \notin AboutNoOrder => Arg.order \in Order)
        /\ Arg.fn \in ForDriver => Arg.driver \in Driver
    BY <1>1, <1>2, ArgTypes
  <2>2. Arg.fn \in ForDriver <=> Arg.driver # None
    BY <2>1 DEF Call
  <2> QED
    BY <1>1, <1>3, <2>1, <2>2 DEF AboutNoOrder, ForDriver, Ender, OfTrip
<1>5. /\ Held(orders[o], pq[o].row) /\ Sound(o, orders[o]) /\ board[o] = Entry(orders[o])
      /\ board = [p \in Order |-> board[p]]
  BY <1>1, <1>4 DEF HandsInv, AllHeld, AllSound, board
<1>6. /\ 1 \in DOMAIN agenda /\ Arg = agenda[1] /\ Arg \in Calls(agenda)
      /\ Live(Arg, orders) /\ Ready(Arg, orders, pq)
  <2>1. 1 \in DOMAIN agenda /\ Arg = agenda[1]
    BY <1>1, <1>2 DEF Idle, Arg
  <2> QED
    BY <2>1 DEF Calls, SoundInv, HandsInv, AllReady
<1>7. ASSUME Arg.fn \in OfTrip
      PROVE  /\ orders[o].driver = d /\ orders[o].offered = None /\ orders[o].status \notin Closed
             /\ orders[o].status \notin {"new"} \union Closed \union Candidate
             /\ Plain => /\ orders[o].status \in Active /\ orders[o].parallel = None
                         /\ board[o] = Place("riding", d)
  <2>1. /\ orders[o].driver = d /\ orders[o].status \notin {"new"} \union Closed
        /\ Plain => orders[o].status \in Active
    BY <1>3, <1>6, <1>7 DEF Ready, Live
  <2>2. orders[o].offered = None /\ orders[o].status \notin Candidate
    BY <1>4, <1>5, <1>7, <2>1 DEF Held, OfTrip
  <2>3. Plain => orders[o].parallel = None
    BY <1>5, <2>1 DEF Sound, Lone, Active
  <2> QED
    BY <1>5, <2>1, <2>2, <2>3, EntryIs
<1>8. Plain /\ Duty(board, fleet, agenda) => Due(Arg, board, fleet)
  BY <1>6 DEF Duty
\* A trip ends.
<1>9. ASSUME NEW x \in Driver, d \in {None, x}, Plain => board[o] = Place("riding", x),
             NEW phase \in {"open", "over"}, NEW e, Turn(o, e), Plain => e = Place(phase, None),
             NEW t, NEW fn \in {"startReserved", "postRide"}, Ends(t, x, fn), Then(t),
             \A y \in Driver \ {x} : Alike(fleet[y], fleet'[y]),
             Plain /\ Duty(board, fleet, agenda) =>
               /\ fn = "postRide" => ~Has(board, x, "reserved")
               /\ fleet'[x].status # "online"
               /\ Has(board, x, "reserved") /\ ~ChatOpen => fleet'[x].status = "busy"
      PROVE  Goes
  <2>1. t \in Seq(Call) /\ Ahead(t) /\ \A c \in Calls(t) : c.driver \in {None, x} /\ Live(c, orders')
    BY <1>9 DEF Ends, Live
  <2>2. ASSUME Plain, Duty(board, fleet, agenda)
        PROVE  Replaces(board, o, e, x) /\ Own(board', fleet', t, x)
    <3>1. board[o].driver = x /\ board[o].phase = "riding" /\ e = Place(phase, None) /\ e.driver = None
      BY <1>9, <2>2 DEF Place
    <3>2. Replaces(board, o, e, x)
      BY <1>4, <3>1 DEF Replaces, Moved, Taken
    <3>3. board' = [board EXCEPT ![o] = Place(phase, None)] /\ phase \notin Taken
      BY <1>9, <3>1 DEF Turn, Taken
    <3>4. /\ \A p \in Order : board'[p].driver = x => board'[p] = Place("reserved", x)
          /\ Has(board', x, "reserved") <=> Has(board, x, "reserved")
      BY <1>4, <1>5, <1>9, <2>2, <3>3, TripEnds
    <3>5. Own(board', fleet', t, x)
      BY <1>9, <2>2, <3>4, AfterTrip
    <3> QED
      BY <3>2, <3>5
  <2>3. Arg.driver \in {None, x}
    BY <1>3, <1>9
  <2> QED
    BY <1>2, <1>4, <1>9, <2>1, <2>2, <2>3, LastGoes
<1>10. CASE PassengerGone
  <2> DEFINE shown == orders[o].offered # None /\ orders[o].driver = None
             drove == orders[o].driver # None /\ orders[o].parallel = None
             w == Withdraw(orders[o])
             c == Cancel(w)
             x1 == IF shown THEN None ELSE c.offered
             x2 == IF drove THEN c.driver ELSE None
             r == [c EXCEPT !.offered = x1, !.driver = x2, !.parallel = None]
             next == drove /\ Reservations(orders, orders[o].driver) # {}
  <2>1. /\ Arg.fn = "passengerGone" /\ d = None
        /\ orders' = [orders EXCEPT ![o] = r]
        /\ fleet' = (IF shown THEN ReleaseOffer(fleet, orders[o].offered)
                     ELSE IF drove /\ ~next THEN RestorePosition(fleet, orders[o].driver)
                     ELSE fleet)
        /\ Then(IF next THEN <<For("startReserved", None, orders[o].driver), PromoteUnflushed>>
                        ELSE <<PromoteUnflushed>>)
    <3>1. Arg.fn = "passengerGone"
      BY <1>10 DEF PassengerGone, Arg
    <3>2. orders' = [orders EXCEPT ![o] = r]
      BY <1>3, <1>10 DEF PassengerGone
    <3>3. fleet' = (IF shown THEN ReleaseOffer(fleet, orders[o].offered)
                   ELSE IF drove /\ ~next THEN RestorePosition(fleet, orders[o].driver)
                   ELSE fleet)
      BY <1>3, <1>10 DEF PassengerGone
    <3>4. Then(IF next THEN <<For("startReserved", None, orders[o].driver), PromoteUnflushed>>
                       ELSE <<PromoteUnflushed>>)
      BY <1>3, <1>10 DEF PassengerGone
    <3> QED
      BY <1>4, <3>1, <3>2, <3>3, <3>4
  <2>2. orders[o].status \notin {"new"} \union Closed
    BY <1>3, <1>6, <2>1 DEF Live
  <2>3. Turn(o, Place("over", None))
    <3>1. w \in OrderRecord /\ Same(orders[o], w)
      BY <1>4, ShutSame
    <3> HIDE DEF w
    <3>2. c \in OrderRecord
      BY <3>1 DEF Cancel, OrderRecord, OrderStatus
    <3>3. c.status = "cancelled" /\ c.offered = w.offered /\ c.driver = w.driver /\ Calm(o, w, c)
      BY <3>1 DEF Cancel, OrderRecord, Calm
    <3> HIDE DEF c
    <3>4. /\ r.status = "cancelled" /\ r.offered = x1 /\ r.parallel = None
          /\ Calm(o, c, r)
      BY <3>2, <3>3 DEF OrderRecord, Calm
    <3> HIDE DEF r
    <3>5. r.offered = None
      BY <1>5, <3>1, <3>3, <3>4 DEF Held, Same
    <3>6. Calm(o, orders[o], r)
      BY <3>1, <3>3, <3>4 DEF Same, Calm
    <3>7. Lone(r) /\ Entry(r) = Place("over", None)
      BY <3>4, <3>5, AtRestIs DEF Closed
    <3> QED
      BY <1>1, <1>4, <2>1, <2>2, <3>6, <3>7, Lands
  <2> HIDE DEF r
  <2>4. /\ <<PromoteUnflushed>> \in Seq(Call) /\ Ahead(<<PromoteUnflushed>>)
        /\ \A a \in Calls(<<PromoteUnflushed>>) : a.driver = None /\ Live(a, orders')
    <3>1. <<PromoteUnflushed>> \in Seq(Call)
      BY CallTypes
    <3>2. \A a \in Calls(<<PromoteUnflushed>>) : a.driver = None /\ a.fn = "promoteUnflushed"
      BY CallsOf DEF PromoteUnflushed, Do
    <3> QED
      BY <3>1, <3>2, StartAhead DEF Live, OfTrip
  <2>5. ASSUME NEW D \in Driver \union {None}, Then(<<PromoteUnflushed>>),
               Plain /\ Duty(board, fleet, agenda) =>
                 /\ Replaces(board, o, Place("over", None), D)
                 /\ \A x \in Driver \ {D} : Alike(fleet[x], fleet'[x])
                 /\ Own(board', fleet', <<PromoteUnflushed>>, D)
        PROVE  Goes
    <3>1. Arg.driver \in {None, D}
      BY <1>3, <2>1
    <3> QED
      BY <1>2, <1>4, <2>3, <2>4, <2>5, <3>1, LastGoes
  \* He was shown it.
  <2>6. CASE shown
    <3>1. PICK x \in Driver : x = orders[o].offered
      BY <1>4, <2>6 DEF OrderRecord
    <3>2. fleet' = ReleaseOffer(fleet, x) /\ Then(<<PromoteUnflushed>>)
      BY <2>1, <2>6, <3>1
    <3>3. fleet'[x].status # "busy" /\ \A y \in Driver \ {x} : Alike(fleet[y], fleet'[y])
      BY <1>1, <3>2, FleetAlike
    <3>4. ASSUME Plain, Duty(board, fleet, agenda)
          PROVE  Replaces(board, o, Place("over", None), x) /\ Own(board', fleet', <<PromoteUnflushed>>, x)
      <4>1. board[o] = Place("shown", x) /\ board[o].driver = x /\ board[o].phase = "shown"
        BY <1>5, <2>6, <3>1, <3>4, EntryIs DEF Sound, Lone, Place
      <4>2. Replaces(board, o, Place("over", None), x)
        BY <1>4, <4>1 DEF Replaces, Moved, Taken, Place
      <4>3. \A p \in Order \ {o} : board[p].driver # x
        BY <1>4, <3>4, <4>1, ShownAlone DEF Duty
      <4>4. \A p \in Order : board'[p].driver # x
        <5>1. x # None /\ Place("over", None).driver = None
          BY NoneAssumption DEF Place
        <5> QED
          BY <1>4, <1>5, <2>3, <4>3, <5>1 DEF Turn
      <4>5. Own(board', fleet', <<PromoteUnflushed>>, x)
        BY <2>4, <3>3, <4>4, NoDuty, NoneAssumption DEF Own
      <4> QED
        BY <4>2, <4>5
    <3> QED
      BY <2>5, <3>2, <3>3, <3>4
  \* He was driving it, and has another one reserved.
  <2>7. CASE next
    <3>1. PICK x \in Driver : x = orders[o].driver
      BY <1>4, <2>7 DEF OrderRecord
    <3>2. ~shown /\ Reservations(orders, x) # {}
      BY <2>7, <3>1
    <3>3. fleet' = fleet /\ Then(<<For("startReserved", None, x), PromoteUnflushed>>)
      BY <2>1, <2>7, <3>1
    <3>4. ASSUME Plain PROVE board[o] = Place("riding", x)
      <4>1. orders[o].status \in Active
        BY <1>4, <1>5, <2>2, <2>7, <3>4 DEF Sound, Lone, OrderRecord, OrderStatus, Pending, Candidate,
                                            Active, Closed
      <4> QED
        BY <1>5, <3>1, <4>1, EntryIs
    <3>5. Ends(<<For("startReserved", None, x), PromoteUnflushed>>, x, "startReserved")
      BY <1>4, EndCalls
    <3>6. \A y \in Driver \ {x} : Alike(fleet[y], fleet'[y])
      BY <3>3 DEF Alike
    <3>7. ASSUME Plain, Duty(board, fleet, agenda)
          PROVE  fleet[x].status # "online" /\ (~ChatOpen => fleet[x].status = "busy")
      <4>1. board[o].phase = "riding" /\ board[o].driver = x /\ Fits(board[o], fleet)
        BY <1>4, <3>4, <3>7 DEF Duty, Place
      <4> QED
        BY <4>1 DEF Fits
    <3> QED
      BY <1>9, <2>1, <2>3, <3>3, <3>4, <3>5, <3>6, <3>7
  \* He was driving it.
  <2>8. CASE drove /\ ~next
    <3>1. PICK x \in Driver : x = orders[o].driver
      BY <1>4, <2>8 DEF OrderRecord
    <3>2. ~shown /\ Reservations(orders, x) = {}
      BY <2>8, <3>1
    <3>3. fleet' = RestorePosition(fleet, x) /\ Then(<<PromoteUnflushed>>)
      BY <2>1, <2>8, <3>1
    <3>4. fleet'[x].status # "busy" /\ \A y \in Driver \ {x} : Alike(fleet[y], fleet'[y])
      BY <1>1, <3>3, FleetAlike
    <3>5. ASSUME Plain, Duty(board, fleet, agenda)
          PROVE  Replaces(board, o, Place("over", None), x) /\ Own(board', fleet', <<PromoteUnflushed>>, x)
      <4>1. orders[o].status \in Active
        BY <1>4, <1>5, <2>2, <2>8, <3>5 DEF Sound, Lone, OrderRecord, OrderStatus, Pending, Candidate,
                                            Active, Closed
      <4>2. board[o] = Place("riding", x) /\ board[o].driver = x /\ board[o].phase = "riding"
        BY <1>5, <3>1, <4>1, EntryIs DEF Place
      <4>3. Replaces(board, o, Place("over", None), x)
        BY <1>4, <4>2 DEF Replaces, Moved, Taken, Place
      <4>4. board' = [board EXCEPT ![o] = Place("over", None)] /\ "over" \notin Taken
        BY <2>3 DEF Turn, Taken
      <4>5. /\ \A p \in Order : board'[p].driver = x => board'[p] = Place("reserved", x)
            /\ Has(board', x, "reserved") <=> Has(board, x, "reserved")
        BY <1>4, <1>5, <3>5, <4>2, <4>4, TripEnds
      <4>6. ~Has(board', x, "reserved")
        BY <3>2, <4>5, OnBoard
      <4>7. \A p \in Order : board'[p].driver # x
        BY <4>5, <4>6 DEF Has
      <4>8. Own(board', fleet', <<PromoteUnflushed>>, x)
        BY <2>4, <3>4, <4>7, NoDuty, NoneAssumption DEF Own
      <4> QED
        BY <4>3, <4>8
    <3> QED
      BY <2>5, <3>3, <3>4, <3>5
  \* Nobody had it, or somebody for later.
  <2>9. CASE ~shown /\ ~drove
    <3>1. fleet' = fleet /\ Then(<<PromoteUnflushed>>)
      BY <2>1, <2>9
    <3>2. \A x \in Driver : Alike(fleet[x], fleet'[x])
      BY <3>1 DEF Alike
    <3>3. CASE orders[o].driver = None
      <4>1. ASSUME Plain PROVE Replaces(board, o, Place("over", None), None)
        <5>1. orders[o].offered = None /\ orders[o].status \in Pending
          <6>1. orders[o].status # "parallel_assigned"
            BY <1>5, <3>3, <4>1 DEF Sound, Lone, Held
          <6> QED
            BY <1>4, <1>5, <2>2, <2>9, <3>3, <4>1, <6>1 DEF Sound, Lone, OrderRecord, OrderStatus,
                                                     Pending, Candidate, Active, Closed
        <5>2. board[o] = Place("open", None)
          BY <1>5, <5>1, EntryIs
        <5> QED
          BY <1>4, <5>2 DEF Replaces, Moved, Taken, Place
      <4>2. Own(board', fleet', <<PromoteUnflushed>>, None)
        BY DEF Own
      <4> QED
        BY <2>5, <3>1, <3>2, <4>1, <4>2
    <3>4. CASE orders[o].driver # None
      <4>1. PICK x \in Driver : x = orders[o].driver
        BY <1>4, <3>4 DEF OrderRecord
      <4>2. ASSUME Plain, Duty(board, fleet, agenda)
            PROVE  Replaces(board, o, Place("over", None), x) /\ Own(board', fleet', <<PromoteUnflushed>>, x)
        <5>1. orders[o].status = "parallel_assigned"
          BY <1>5, <2>9, <3>4, <4>2 DEF Sound, Lone
        <5>2. board[o] = Place("reserved", x) /\ board[o].driver = x /\ board[o].phase = "reserved"
          BY <1>5, <4>1, <5>1, EntryIs DEF Place
        <5>3. Replaces(board, o, Place("over", None), x)
          BY <1>4, <5>2 DEF Replaces, Moved, Taken, Place
        <5>4. board' = [board EXCEPT ![o] = Place("over", None)] /\ "over" \notin Taken
          BY <2>3 DEF Turn, Taken
        <5>5. \A fns : Owed(agenda, x, fns) => Owed(<<PromoteUnflushed>>, x, fns)
          <6>1. Calls(agenda) = {Arg}
            BY <1>1, <1>2, OnlyCall
          <6> QED
            BY <1>3, <2>1, <6>1, NoneAssumption DEF Owed
        <5>6. /\ \A p \in Order : board'[p].driver = x => Fits(board'[p], fleet)
              /\ Follows(board', fleet, <<PromoteUnflushed>>, x)
          BY <1>4, <1>5, <4>2, <5>2, <5>4, <5>5, GivesUp
        <5>7. Own(board', fleet', <<PromoteUnflushed>>, x)
          BY <2>4, <3>1, <5>6, NoneAssumption DEF Own
        <5> QED
          BY <5>3, <5>7
      <4> QED
        BY <2>5, <3>1, <3>2, <4>2
    <3> QED
      BY <3>3, <3>4
  <2> QED
    BY <2>6, <2>7, <2>8, <2>9
\* The driver of a request from the chat leaves the line.
<1>11. ASSUME NEW f \in Fleets, NEW g, g = LeaveChatLine(f, o, d), d \in Driver
       PROVE  /\ \A y \in Driver \ {d} : Alike(f[y], g[y])
              /\ g[d].status \in {f[d].status, "offline"} /\ (~ChatOpen => g = f)
  <2>1. CASE orders[o].chatOffline
    <3>1. ChatOpen
      BY <1>5, <2>1 DEF Sound, Asked
    <3>2. PICK h \in Fleets : h = LeaveQueue(f, d)
      BY <1>11, FleetAlike
    <3>3. h[d].status = "offline" /\ \A y \in Driver \ {d} : Alike(f[y], h[y])
      BY <1>11, <3>2, FleetAlike
    <3>4. OffLine(h, d)[d].status = h[d].status /\ \A y \in Driver \ {d} : Alike(h[y], OffLine(h, d)[y])
      BY <1>11, <3>2, FleetAlike
    <3>5. g = OffLine(h, d)
      BY <1>11, <2>1, <3>2 DEF LeaveChatLine
    <3> QED
      BY <3>1, <3>3, <3>4, <3>5 DEF Alike
  <2>2. CASE ~orders[o].chatOffline
    BY <1>11, <2>2 DEF LeaveChatLine, Alike
  <2> QED
    BY <2>1, <2>2
\* The driver of the trip of a call is displayed as the board says.
<1>12. ASSUME Plain, Duty(board, fleet, agenda), Arg.fn \in OfTrip
       PROVE  fleet[d].status # "online" /\ (~ChatOpen => fleet[d].status = "busy")
  <2>1. board[o].phase = "riding" /\ board[o].driver = d /\ Fits(board[o], fleet)
    BY <1>4, <1>7, <1>12 DEF Duty, Place
  <2> QED
    BY <2>1 DEF Fits
<1>13. CASE RideDone
  <2>1. PICK next \in BOOLEAN : next = (Reservations(orders, d) # {})
    OBVIOUS
  <2>2. /\ Arg.fn = "rideDone" /\ fleet' = LeaveChatLine(fleet, o, d) /\ UNCHANGED orders
        /\ Then(IF next THEN <<For("startReserved", None, d)>> ELSE <<For("postRide", None, d)>>)
    BY <1>3, <1>13, <2>1 DEF RideDone, Arg
  <2>3. Still
    BY <1>1, <2>2, UnchangedTurns
  <2>4. d \in Driver
    BY <1>4, <2>2
  <2>5. /\ \A y \in Driver \ {d} : Alike(fleet[y], fleet'[y])
        /\ fleet'[d].status \in {fleet[d].status, "offline"} /\ (~ChatOpen => fleet' = fleet)
    BY <1>1, <1>11, <2>2, <2>4
  <2>6. Has(board, d, "reserved") <=> next
    BY <2>1, <2>4, OnBoard
  <2>7. PICK t, fn :
          fn \in {"startReserved", "postRide"} /\ Then(t) /\ Ends(t, d, fn) /\ (fn = "postRide" => ~next)
    <3>1. CASE next
      <4>1. /\ Then(<<For("startReserved", None, d)>>)
            /\ Ends(<<For("startReserved", None, d)>>, d, "startReserved")
        BY <1>4, <2>2, <2>4, <3>1, EndCalls
      <4>2. "startReserved" # "postRide"
        OBVIOUS
      <4> QED
        BY <4>1, <4>2
    <3>2. CASE ~next
      <4>1. /\ Then(<<For("postRide", None, d)>>)
            /\ Ends(<<For("postRide", None, d)>>, d, "postRide")
        BY <1>4, <2>2, <2>4, <3>2, EndCalls
      <4> QED
        BY <3>2, <4>1
    <3> QED
      BY <3>1, <3>2
  <2>8. ASSUME Plain, Duty(board, fleet, agenda) PROVE Own(board', fleet', t, d)
    <3>1. fleet[d].status # "online" /\ ~Has(board, d, "riding")
      BY <1>3, <1>8, <2>2, <2>4, <2>8, NoneAssumption DEF Due
    <3>2. ASSUME NEW p \in Order, board[p].driver = d PROVE board[p] = Place("reserved", d)
      <4>1. Fits(board[p], fleet) /\ d # None
        BY <2>4, <2>8, NoneAssumption DEF Duty
      <4>2. board[p].phase = "reserved"
        BY <3>1, <3>2, <4>1 DEF Fits, Taken, Has
      <4> QED
        BY <3>2, <4>1, <4>2 DEF Fits
    <3>3. Has(board, d, "reserved") /\ ~ChatOpen => fleet'[d].status = "busy"
      <4> SUFFICES ASSUME NEW p \in Order, board[p] = Place("reserved", d), ~ChatOpen
                   PROVE  fleet'[d].status = "busy"
        BY DEF Has
      <4>1. Fits(board[p], fleet) /\ board[p].phase = "reserved" /\ board[p].driver = d
        BY <2>8 DEF Duty, Place
      <4> QED
        BY <2>5, <4>1 DEF Fits
    <3>4. board' = board
      BY <2>3 DEF Still
    <3> QED
      BY <2>4, <2>5, <2>6, <2>7, <3>1, <3>2, <3>3, <3>4, AfterTrip
  <2>9. Arg.driver \in {None, d} /\ Replaces(board, o, board[o], d)
    BY <1>3 DEF Replaces
  <2>10. t \in Seq(Call) /\ Ahead(t) /\ \A c \in Calls(t) : c.driver \in {None, d} /\ Live(c, orders')
    BY <2>7 DEF Ends, Live
  <2> QED
    BY <1>2, <2>3, <2>4, <2>5, <2>7, <2>8, <2>9, <2>10, LastGoes
<1>14. CASE TripVoided
  <2>1. PICK next \in BOOLEAN : next = (Reservations(orders, d) # {})
    OBVIOUS
  <2> DEFINE r == Cancel(orders[o])
  <2>2. /\ Arg.fn = "tripVoided" /\ orders' = [orders EXCEPT ![o] = r]
        /\ fleet' = LeaveChatLine(IF next THEN fleet ELSE SetAway(fleet, d), o, d)
        /\ Then(IF next THEN <<For("startReserved", None, d)>>
                        ELSE <<Promote, For("postRide", None, d)>>)
    BY <1>3, <1>14, <2>1 DEF TripVoided, Arg
  <2>3. d \in Driver /\ Arg.fn \in OfTrip
    BY <1>4, <2>2 DEF OfTrip
  <2>4. r.status = "cancelled" /\ r.offered = orders[o].offered /\ r.parallel = orders[o].parallel
        /\ Calm(o, orders[o], r)
    BY <1>4 DEF Cancel, OrderRecord, Calm
  <2> HIDE DEF r
  <2>5. Plain => Lone(r) /\ Entry(r) = Place("over", None)
    BY <1>7, <2>3, <2>4, AtRestIs DEF Closed
  <2>6. Turn(o, Entry(r))
    BY <1>1, <1>4, <1>7, <2>2, <2>3, <2>4, <2>5, Lands
  <2>7. PICK f : f = (IF next THEN fleet ELSE SetAway(fleet, d))
    OBVIOUS
  <2>8. /\ f \in Fleets /\ \A y \in Driver \ {d} : Alike(fleet[y], f[y])
        /\ f[d].status \in {fleet[d].status, "away"} /\ (next => f = fleet)
    <3>1. CASE next
      BY <1>1, <2>7, <3>1 DEF Alike
    <3>2. CASE ~next
      <4>1. f = SetAway(fleet, d)
        BY <2>7, <3>2
      <4> QED
        BY <1>1, <2>3, <3>2, <4>1, FleetAlike
    <3> QED
      BY <3>1, <3>2
  <2>9. /\ \A y \in Driver \ {d} : Alike(f[y], fleet'[y])
        /\ fleet'[d].status \in {f[d].status, "offline"} /\ (~ChatOpen => fleet' = f)
    BY <1>11, <2>2, <2>3, <2>7, <2>8
  <2>10. \A y \in Driver \ {d} : Alike(fleet[y], fleet'[y])
    BY <2>8, <2>9 DEF Alike
  <2>11. Has(board, d, "reserved") <=> next
    BY <2>1, <2>3, OnBoard
  <2>12. PICK t, fn :
           fn \in {"startReserved", "postRide"} /\ Then(t) /\ Ends(t, d, fn) /\ (fn = "postRide" => ~next)
    <3>1. CASE next
      <4>1. /\ Then(<<For("startReserved", None, d)>>)
            /\ Ends(<<For("startReserved", None, d)>>, d, "startReserved")
        BY <1>4, <2>2, <2>3, <3>1, EndCalls
      <4>2. "startReserved" # "postRide"
        OBVIOUS
      <4> QED
        BY <4>1, <4>2
    <3>2. CASE ~next
      <4>1. /\ Then(<<Promote, For("postRide", None, d)>>)
            /\ Ends(<<Promote, For("postRide", None, d)>>, d, "postRide")
        BY <1>4, <2>2, <2>3, <3>2, EndCalls
      <4> QED
        BY <3>2, <4>1
    <3> QED
      BY <3>1, <3>2
  <2>13. Plain => board[o] = Place("riding", d)
    BY <1>7, <2>3
  <2>14. ASSUME Plain, Duty(board, fleet, agenda)
         PROVE  /\ fn = "postRide" => ~Has(board, d, "reserved")
                /\ fleet'[d].status # "online"
                /\ Has(board, d, "reserved") /\ ~ChatOpen => fleet'[d].status = "busy"
    BY <1>12, <2>3, <2>8, <2>9, <2>11, <2>12, <2>14
  <2> QED
    BY <1>9, <2>3, <2>5, <2>6, <2>10, <2>12, <2>13, <2>14
<1>15. CASE CarFailed
  <2>1. /\ Arg.fn = "carFailed" /\ UNCHANGED fleet
        /\ \/ /\ Reservations(orders, d) = {} /\ UNCHANGED orders
              /\ Then(<<For("tripLost", o, d)>>)
           \/ \E p \in Reservations(orders, d) :
                /\ orders' = [orders EXCEPT ![p] = Released(orders[p])]
                /\ Then(<<Promote, For("tripLost", o, d)>>)
    BY <1>3, <1>15 DEF CarFailed, Arg
  <2>2. d \in Driver /\ d # None /\ Arg.fn \in OfTrip
    BY <1>4, <2>1 DEF OfTrip
  <2>3. ASSUME orders'[o].status = orders[o].status,
               NEW t \in {<<For("tripLost", o, d)>>, <<Promote, For("tripLost", o, d)>>}
        PROVE  /\ t \in Seq(Call) /\ Ahead(t)
               /\ \A c \in Calls(t) : c.driver \in {None, d} /\ Live(c, orders')
               /\ \A c \in Calls(t) : c.driver = d => c.fn = "tripLost" /\ c.order = o
    <3> DEFINE a == For("tripLost", o, d)
    <3>1. /\ a \in Call /\ Promote \in Call /\ a.fn = "tripLost" /\ a.driver = d /\ a.order = o
          /\ Promote.fn = "promote" /\ Promote.driver = None
      <4>1. a \in Call /\ Promote \in Call
        BY <1>4, <2>2, CallTypes DEF ForDriver, AboutNoOrder
      <4> QED
        BY <4>1 DEF For, Promote, Do
    <3> HIDE DEF a
    <3>2. /\ Calls(<<a>>) = {a} /\ Calls(<<Promote, a>>) = {Promote, a} /\ Calls(<<>>) = {}
      BY CallsOf
    <3>3. \A u \in Call : <<u>> \in Seq(Call) /\ Head(<<u>>) = u /\ Tail(<<u>>) = <<>>
      OBVIOUS
    <3>4. \A u, v \in Call : <<u, v>> \in Seq(Call) /\ Head(<<u, v>>) = u /\ Tail(<<u, v>>) = <<v>>
      OBVIOUS
    <3>5. Live(a, orders') /\ Live(Promote, orders')
      BY <1>7, <2>2, <2>3, <3>1 DEF Live, OfTrip
    <3>6. CASE t = <<a>>
      <4>1. Ahead(t)
        BY <3>1, <3>2, <3>3, <3>6 DEF Ahead
      <4> QED
        BY <3>1, <3>2, <3>3, <3>5, <3>6, <4>1
    <3>7. CASE t = <<Promote, a>>
      <4>1. Ahead(t)
        BY <3>1, <3>2, <3>4, <3>7 DEF Ahead
      <4> QED
        BY <2>2, <3>1, <3>2, <3>4, <3>5, <3>7, <4>1
    <3> QED
      BY <2>3, <3>6, <3>7 DEF a
  <2>4. \A y \in Driver \ {d} : Alike(fleet[y], fleet'[y])
    BY <2>1 DEF Alike
  <2>5. ASSUME Plain, Duty(board, fleet, agenda), board'[o] = board[o], ~Has(board', d, "reserved"),
               \A p \in Order : board'[p].driver = d => Fits(board'[p], fleet'),
               NEW t, \A c \in Calls(t) : c.driver = d => c.fn = "tripLost" /\ c.order = o
        PROVE  Own(board', fleet', t, d)
    <3>1. board[o] = Place("riding", d) /\ fleet'[d].status # "online"
      BY <1>7, <1>12, <2>1, <2>2, <2>5
    <3>2. Has(board', d, "riding")
      BY <1>4, <2>5, <3>1 DEF Has
    <3>3. Follows(board', fleet', t, d)
      BY <2>5, <3>2 DEF Follows
    <3>4. \A c \in Calls(t) : c.driver = d => Due(c, board', fleet')
      BY <2>5, <3>1 DEF Due, OfTrip
    <3> QED
      BY <2>5, <3>3, <3>4 DEF Own
  <2>6. CASE UNCHANGED orders /\ Reservations(orders, d) = {} /\ Then(<<For("tripLost", o, d)>>)
    <3>1. Still /\ Replaces(board, o, board[o], d) /\ Arg.driver \in {None, d}
      BY <1>1, <1>3, <2>6, UnchangedTurns DEF Replaces
    <3>2. PICK t : t = <<For("tripLost", o, d)>>
      OBVIOUS
    <3>3. /\ t \in Seq(Call) /\ Ahead(t) /\ Then(t)
          /\ \A c \in Calls(t) : c.driver \in {None, d} /\ Live(c, orders')
          /\ \A c \in Calls(t) : c.driver = d => c.fn = "tripLost" /\ c.order = o
      BY <2>3, <2>6, <3>2
    <3>4. ASSUME Plain, Duty(board, fleet, agenda) PROVE Own(board', fleet', t, d)
      <4>1. board' = board /\ ~Has(board, d, "reserved")
        BY <2>2, <2>6, <3>1, OnBoard DEF Still
      <4>2. \A p \in Order : Fits(board[p], fleet)
        BY <3>4 DEF Duty
      <4> QED
        BY <2>1, <2>5, <3>3, <3>4, <4>1, <4>2
    <3> QED
      BY <1>2, <2>2, <2>4, <3>1, <3>3, <3>4, LastGoes
  <2>7. ASSUME NEW p \in Reservations(orders, d), orders' = [orders EXCEPT ![p] = Released(orders[p])],
               Then(<<Promote, For("tripLost", o, d)>>)
        PROVE  Goes
    <3>1. p \in Order /\ orders[p].status = "parallel_assigned" /\ board[p] = Place("reserved", d)
          /\ orders[p] \in OrderRecord /\ Held(orders[p], pq[p].row)
      BY <1>1, <2>2, <2>7, OnBoard DEF Reservations, HandsInv, AllHeld
    <3>2. p # o
      BY <1>6, <2>2, <1>3, <3>1 DEF Ready
    <3> DEFINE r == Released(orders[p])
    <3>3. /\ Calm(p, orders[p], r) /\ r.driver = None /\ r.parallel = None
          /\ r.status = "queued" /\ r.offered = None
      BY <3>1, ReleasedCalm DEF Held
    <3> HIDE DEF r
    <3>4. Lone(r) /\ Entry(r) = Place("open", None)
      BY <3>3, AtRestIs DEF Pending, Candidate
    <3>5. Turn(p, Place("open", None))
      BY <1>1, <2>7, <3>1, <3>3, <3>4, Lands DEF r, Closed
    <3>6. /\ board' = [board EXCEPT ![p] = Place("open", None)] /\ board'[o] = board[o]
          /\ orders'[o] = orders[o]
      BY <1>1, <1>4, <1>5, <2>7, <3>2, <3>5 DEF Turn
    <3>7. PICK t : t = <<Promote, For("tripLost", o, d)>>
      OBVIOUS
    <3>8. /\ t \in Seq(Call) /\ Ahead(t) /\ Then(t)
          /\ \A c \in Calls(t) : c.driver \in {None, d} /\ Live(c, orders')
          /\ \A c \in Calls(t) : c.driver = d => c.fn = "tripLost" /\ c.order = o
      BY <2>3, <2>7, <3>6, <3>7
    <3>9. ASSUME Plain, Duty(board, fleet, agenda)
          PROVE  Replaces(board, p, Place("open", None), d) /\ Own(board', fleet', t, d)
      <4>1. Replaces(board, p, Place("open", None), d)
        BY <3>1 DEF Replaces, Moved, Taken, Place
      <4>2. ~Has(board', d, "reserved")
        <5> SUFFICES ASSUME NEW q \in Order, board'[q] = Place("reserved", d) PROVE FALSE
          BY DEF Has
        <5>1. board[q].driver = d /\ board[q].phase = "reserved" /\ q # p
          BY <1>5, <3>1, <3>6 DEF Place
        <5>2. board[p].driver = d /\ board[p].phase = "reserved"
          BY <3>1 DEF Place
        <5>3. {board[q].phase, board[p].phase} = {"reserved", "riding"}
          BY <2>2, <3>1, <3>9, <5>1, <5>2 DEF Duty, Single
        <5> QED
          BY <5>1, <5>2, <5>3
      <4>3. \A q \in Order : board'[q].driver = d => Fits(board'[q], fleet')
        <5>1. \A q \in Order : Fits(board[q], fleet)
          BY <3>9 DEF Duty
        <5>2. board'[p].driver # d /\ \A q \in Order \ {p} : board'[q] = board[q]
          BY <1>5, <2>2, <3>1, <3>6 DEF Place
        <5> QED
          BY <2>1, <5>1, <5>2
      <4> QED
        BY <2>5, <3>6, <3>8, <3>9, <4>1, <4>2, <4>3
    <3>10. Arg.driver \in {None, d}
      BY <1>3
    <3> QED
      BY <1>2, <2>2, <2>4, <3>1, <3>5, <3>8, <3>9, <3>10, LastGoes
  <2> QED
    BY <2>1, <2>6, <2>7
<1>16. CASE TripLost
  <2> DEFINE x == [orders[o] EXCEPT !.status = "cancelled"]
             y == [orders[o] EXCEPT !.status = "searching", !.driver = None, !.pricing = FALSE]
  <2>1. /\ Arg.fn = "tripLost"
        /\ \/ /\ orders[o].chatOffline /\ orders' = [orders EXCEPT ![o] = x]
              /\ fleet' = OffLine(LeaveQueue(fleet, d), d)
              /\ Then(<<For("postRide", None, d)>>)
           \/ /\ orders' = [orders EXCEPT ![o] = y] /\ fleet' = SetAway(fleet, d)
              /\ Then(<<Offer(o, {}), Promote, For("postRide", None, d)>>)
    BY <1>1, <1>3, <1>16 DEF TripLost, Arg
  <2>2. d \in Driver /\ Arg.fn \in OfTrip
    BY <1>4, <2>1 DEF OfTrip
  <2>3. /\ x.status = "cancelled" /\ x.offered = orders[o].offered
        /\ x.parallel = orders[o].parallel /\ Calm(o, orders[o], x)
        /\ y.status = "searching" /\ y.offered = orders[o].offered /\ y.driver = None
        /\ y.parallel = orders[o].parallel /\ Calm(o, orders[o], y)
    BY <1>4 DEF OrderRecord, Calm
  <2>4. PICK r, phase :
          /\ phase \in {"open", "over"}
          /\ orders' = [orders EXCEPT ![o] = r] /\ Calm(o, orders[o], r) /\ r.offered = None
          /\ r.parallel = orders[o].parallel
          /\ \/ r.status = "cancelled" /\ phase = "over"
             \/ r.status = "searching" /\ r.driver = None /\ phase = "open"
    <3> HIDE DEF x, y
    <3>1. orders[o].offered = None
      BY <1>7, <2>2
    <3>2. CASE orders' = [orders EXCEPT ![o] = x]
      BY <2>3, <3>1, <3>2
    <3>3. CASE orders' = [orders EXCEPT ![o] = y]
      BY <2>3, <3>1, <3>3
    <3> QED
      BY <2>1, <3>2, <3>3
  <2> HIDE DEF x, y
  <2>5. Plain => Lone(r) /\ Entry(r) = Place(phase, None)
    BY <1>7, <2>2, <2>4, AtRestIs DEF Closed, Pending
  <2>6. Turn(o, Entry(r))
    BY <1>1, <1>4, <1>7, <2>2, <2>4, <2>5, Lands
  <2>7. fleet'[d].status # "online" /\ \A z \in Driver \ {d} : Alike(fleet[z], fleet'[z])
    <3>1. PICK h \in Fleets : h = LeaveQueue(fleet, d)
      BY <1>1, <2>2, FleetAlike
    <3>2. h[d].status = "offline" /\ \A z \in Driver \ {d} : Alike(fleet[z], h[z])
      BY <1>1, <2>2, <3>1, FleetAlike
    <3>3. OffLine(h, d)[d].status = h[d].status /\ \A z \in Driver \ {d} : Alike(h[z], OffLine(h, d)[z])
      BY <2>2, <3>1, FleetAlike
    <3>4. SetAway(fleet, d)[d].status = "away"
          /\ \A z \in Driver \ {d} : Alike(fleet[z], SetAway(fleet, d)[z])
      BY <1>1, <2>2, FleetAlike
    <3> QED
      BY <2>1, <3>1, <3>2, <3>3, <3>4 DEF Alike
  <2>8. PICK t : Then(t) /\ Ends(t, d, "postRide")
    BY <1>4, <2>1, <2>2, EndCalls
  <2>9. ASSUME Plain, Duty(board, fleet, agenda) PROVE ~Has(board, d, "reserved")
    BY <1>3, <1>8, <2>1, <2>2, <2>9, NoneAssumption DEF Due
  <2>10. Plain => board[o] = Place("riding", d)
    BY <1>7, <2>2
  <2> QED
    BY <1>9, <2>2, <2>4, <2>5, <2>6, <2>7, <2>8, <2>9, <2>10
<1> QED
  BY <1>10, <1>13, <1>14, <1>15, <1>16 DEF ResumedStep

\* The calls of dispatch.
LEMMA DispatchGoes ==
  ASSUME TypeOK, TypeOK', HandsInv, SoundInv, DispatchStep
  PROVE  Goes
<1> DEFINE fresh == {"offer", "noDriver", "notifyOrFallback", "fallback", "recheck", "scan"}
           quiet == ~OfferMade /\ ~StartReserved /\ ~PostRide
<1>1. /\ orders \in [Order -> OrderRecord] /\ agenda \in Seq(Call) /\ agenda' \in Seq(Call)
      /\ fleet \in Fleets /\ AllSound(orders) /\ board = [p \in Order |-> board[p]]
  BY DEF TypeOK, SoundInv, board
<1>2. /\ agenda # <<>>
      /\ \A c \in Calls(agenda') : c \in Calls(agenda) \/ (c.driver = None /\ c.fn \in fresh)
      /\ Calls(Tail(agenda)) \subseteq Calls(agenda')
      /\ agenda' # <<>> =>
           \A c \in Calls(Tail(agenda')) : c \in Calls(Tail(agenda)) \/ c.fn = "release"
  BY DispatchCalls
<1>3. /\ Arg = Head(agenda) /\ Calls(agenda) = {Arg} \union Calls(Tail(agenda))
      /\ agenda' # <<>> => Calls(agenda') = {Head(agenda')} \union Calls(Tail(agenda'))
  BY <1>1, <1>2, CallsJoin DEF Arg
<1>4. /\ \A c \in Calls(agenda) \union Calls(agenda') : c \in Call
      /\ \A c \in Call : /\ c.driver \in Driver \union {None}
                         /\ c.fn \in ForDriver <=> c.driver # None
                         /\ c.fn \notin AboutNoOrder => c.order \in Order
  <2>1. \A c \in Calls(agenda) \union Calls(agenda') : c \in Call
    BY <1>1 DEF Calls
  <2>2. \A c \in Call : /\ c.driver \in Driver \union {None}
                        /\ c.fn \in ForDriver <=> c.driver # None
                        /\ c.fn \notin AboutNoOrder => c.order \in Order
    BY DEF Call
  <2> QED
    BY <2>1, <2>2
<1>5. Ahead(agenda) => Ahead(agenda')
  <2> SUFFICES ASSUME Ahead(agenda), agenda' # <<>>
               PROVE  /\ \A c \in Calls(Tail(agenda')) : c.fn # "startReserved"
                      /\ Head(agenda').fn = "startReserved"
                           => \A c \in Calls(Tail(agenda')) : c.driver = None
    BY DEF Ahead
  <2>1. /\ \A c \in Calls(Tail(agenda)) : c.fn # "startReserved"
        /\ Arg.fn = "startReserved" => \A c \in Calls(Tail(agenda)) : c.driver = None
    BY <1>2, <1>3 DEF Ahead
  <2>2. ASSUME NEW c \in Calls(Tail(agenda')), c \notin Calls(Tail(agenda))
        PROVE  c.driver = None
    <3>1. c.fn = "release" /\ c \in Call
      BY <1>2, <1>3, <1>4, <2>2
    <3> QED
      BY <1>4, <3>1 DEF ForDriver
  <2>3. ASSUME Head(agenda').fn = "startReserved" PROVE Head(agenda') = Arg
    <3>1. Head(agenda') \in Calls(agenda)
      BY <1>2, <1>3, <2>3
    <3> QED
      BY <1>3, <2>1, <2>3, <3>1
  <2> QED
    BY <1>2, <2>1, <2>2, <2>3
\* What is left of a handler finds its request as it was.
<1>6. ASSUME \A p \in Order : \/ board'[p] = board[p]
                              \/ /\ board'[p].phase \in {"shown", "riding"}
                                 /\ board[p].phase # "riding"
      PROVE  \A c \in Calls(agenda') : Live(c, orders')
  <2> SUFFICES ASSUME NEW c \in Calls(agenda'), c.fn \in OfTrip \union {"passengerGone"}
               PROVE  /\ orders'[c.order].status \notin {"new"} \union Closed
                      /\ Plain /\ c.fn \in OfTrip => orders'[c.order].status \in Active
    BY DEF Live
  <2>1. c \in Calls(agenda) /\ c.order \in Order
    BY <1>2, <1>4 DEF OfTrip, AboutNoOrder
  <2>2. /\ orders[c.order].status \notin {"new"} \union Closed
        /\ Plain /\ c.fn \in OfTrip => orders[c.order].status \in Active
    BY <2>1 DEF SoundInv, Live
  <2>3. /\ \A r : BoardPhase(r) = "new" <=> r.status = "new"
        /\ \A r : BoardPhase(r) = "over" <=> r.status \in Closed
        /\ \A r : BoardPhase(r) = "riding" <=> r.status \in Active
    BY DEF BoardPhase, Closed, Active
  <2>4. /\ board[c.order].phase = BoardPhase(orders[c.order])
        /\ board'[c.order].phase = BoardPhase(orders'[c.order])
    BY <2>1 DEF board, Entry, Place, BoardPhase
  <2>5. /\ board[c.order].phase \notin {"new", "over"}
        /\ Plain /\ c.fn \in OfTrip => board[c.order].phase = "riding"
    BY <2>2, <2>3, <2>4
  <2>6. /\ board'[c.order].phase \notin {"new", "over"}
        /\ Plain /\ c.fn \in OfTrip => board'[c.order].phase = "riding"
    BY <1>6, <2>1, <2>5
  <2> QED
    BY <2>3, <2>4, <2>6
<1>7. ASSUME NEW o, NEW e, (Still /\ e = board[o]) \/ (o \in Order /\ Turn(o, e)),
             NEW D \in Driver \union {None},
             \A p \in Order : \/ board'[p] = board[p]
                              \/ /\ board'[p].phase \in {"shown", "riding"}
                                 /\ board[p].phase # "riding",
             Plain /\ Duty(board, fleet, agenda) =>
               \E f \in {fleet, Repaired} :
                 Replaces(board, o, e, D) /\ Beside(f, agenda, fleet', agenda', D)
                 /\ Own(board', fleet', agenda', D)
      PROVE  Goes
  <2>1. Kept /\ board' = [board EXCEPT ![o] = e]
    BY <1>1, <1>7 DEF Still, Turn
  <2>2. \A c \in Calls(agenda') : Live(c, orders')
    BY <1>6, <1>7
  <2>3. ASSUME Plain, Duty(board, fleet, agenda)
        PROVE  Duty(board', fleet', agenda') /\ Moves
    <3>1. PICK f \in {fleet, Repaired} :
            Replaces(board, o, e, D) /\ Beside(f, agenda, fleet', agenda', D)
            /\ Own(board', fleet', agenda', D)
      BY <1>7, <2>3
    <3>2. \A c \in Calls(agenda) \union Calls(agenda') : c.driver \in Driver \union {None}
      BY <1>4
    <3>3. Duty(board, f, agenda)
      BY <2>3, <3>1, <3>2, RepairKeepsDuty
    <3>4. Ahead(agenda')
      BY <1>5, <2>3 DEF Duty
    <3>5. Duty(board', fleet', agenda')
      BY <1>1, <2>1, <3>1, <3>2, <3>3, <3>4, OthersGoOn
    <3>6. Moves
      <4>1. CASE e = board[o]
        <5>1. board' = board
          BY <1>1, <2>1, <4>1
        <5> QED
          BY <5>1 DEF Moves
      <4>2. CASE o \in Order /\ Moved(board, o, e)
        <5>1. board'[o] = e
          BY <1>1, <2>1, <4>2
        <5> QED
          BY <2>1, <4>2, <5>1 DEF Moves
      <4> QED
        BY <3>1, <4>1, <4>2 DEF Replaces
    <3> QED
      BY <3>5, <3>6
  <2> QED
    BY <2>1, <2>2, <2>3 DEF Goes
\* Calls that move nothing.
<1>8. ASSUME ~OfferMade, ~StartReserved, ~PostRide PROVE Goes
  <2>1. Still
    BY <1>8, OfferTurns, RestTurns
  <2>2. fleet' \in {fleet, Repaired} /\ Arg.fn \notin ForDriver
    BY <1>8 DEF DispatchStep, OfferRefused, OfferFindsNobody, NoDriverParks, NoDriverToChat,
                NotifyMade, NotifyNobody, FallbackOffers, FallbackWaits, PromoteMisses,
                PromoteWaitsForAnswer, PromoteStarts, ScanEnds, ScanFallsBack, ScanAsks,
                ScanOffers, ScanNotifies, ReleaseNext, ReleaseEnds, Calling, Notifying,
                FallingBack, Promoting, Arg, ForDriver
  <2>3. Arg.driver = None
    BY <1>3, <1>4, <2>2
  <2>4. Beside(fleet', agenda, fleet', agenda', None)
    BY <1>2, <1>3, <2>3, NoneAssumption DEF Beside, Alike
  <2>5. Replaces(board, None, board[None], None) /\ Own(board', fleet', agenda', None)
    BY DEF Replaces, Own
  <2>6. \A p \in Order : board'[p] = board[p]
    BY <2>1 DEF Still
  <2>7. \E f \in {fleet, Repaired} :
          Replaces(board, None, board[None], None) /\ Beside(f, agenda, fleet', agenda', None)
          /\ Own(board', fleet', agenda', None)
    BY <2>2, <2>4, <2>5
  <2> QED
    BY <1>7, <2>1, <2>6, <2>7
\* A driver is shown a request.
<1>9. ASSUME OfferMade PROVE Goes
  <2>1. PICK o : o = Arg.order
    OBVIOUS
  <2>2. /\ o \in Order /\ board[o] = Place("open", None)
        /\ \E d \in Front(Repaired, Eligible(Repaired, orders, o) \ Arg.but) :
             fleet' = MarkOffered(Repaired, d) /\ Turn(o, Place("shown", d))
    BY <1>9, <2>1, OfferTurns
  <2>3. PICK d \in Front(Repaired, Eligible(Repaired, orders, o) \ Arg.but) :
          fleet' = MarkOffered(Repaired, d) /\ Turn(o, Place("shown", d))
    BY <2>2
  <2>4. /\ d \in Driver /\ d # None /\ d \notin Engaged(orders)
        /\ Repaired[d].onLine /\ Repaired[d].status = "online"
    BY <2>3, NoneAssumption DEF Front, Eligible, Waiting, Free, VisiblyFree
  <2>5. Arg.driver = None
    <3>1. Arg.fn \notin ForDriver
      BY <1>9 DEF OfferMade, Calling, Arg, ForDriver
    <3> QED
      BY <1>3, <1>4, <3>1
  <2>6. /\ fleet'[d].row = "offered" /\ fleet'[d].status = "online" /\ fleet'[d].onLine
        /\ \A x \in Driver \ {d} : fleet'[x] = Repaired[x]
    <3>1. Repaired \in [Driver -> DriverRecord]
      BY <1>1 DEF Repaired, Repair, Fleets, DriverRecord, Row, HasRow
    <3> QED
      BY <2>3, <2>4, <3>1 DEF MarkOffered, DriverRecord
  <2>7. board'[o] = Place("shown", d) /\ \A p \in Order \ {o} : board'[p] = board[p]
    BY <1>1, <2>2, <2>3 DEF Turn
  <2>8. /\ board[o].phase = "open" /\ board[o].driver = None
        /\ board'[o].phase = "shown" /\ board'[o].driver = d
    BY <2>2, <2>7 DEF Place
  <2>9. Beside(Repaired, agenda, fleet', agenda', d)
    BY <1>2, <1>3, <2>5, <2>6, NoneAssumption DEF Beside, Alike
  <2>10. ASSUME Plain, Duty(board, fleet, agenda)
         PROVE  Replaces(board, o, Place("shown", d), d) /\ Own(board', fleet', agenda', d)
    <3>1. Duty(board, Repaired, agenda)
      BY <1>4, <2>10, RepairKeepsDuty
    <3>2. ASSUME NEW p \in Order, board[p].driver = d PROVE FALSE
      <4>1. Fits(board[p], Repaired) /\ board[p].phase \in Taken
        BY <2>4, <3>1, <3>2 DEF Duty, Fits
      <4>2. board[p].phase = "shown"
        BY <2>4, <3>2, <4>1 DEF Fits, Taken
      <4>3. orders[p].status = "searching" /\ orders[p].offered = d
        BY <3>2, <4>2 DEF board, Entry, Place, BoardPhase, BoardDriver
      <4> QED
        BY <2>4, <4>3 DEF Engaged, LiveOffer
    <3>3. Moved(board, o, Place("shown", d)) /\ Place("shown", d).driver = d
      BY <2>4, <2>8, <3>2 DEF Moved, Place
    <3>4. Replaces(board, o, Place("shown", d), d)
      BY <2>2, <2>8, <3>3 DEF Replaces
    <3>5. \A c \in Calls(agenda') : c.driver # d
      <4> SUFFICES ASSUME NEW c \in Calls(agenda'), c.driver = d PROVE FALSE
        OBVIOUS
      <4>1. c \in Calls(agenda)
        BY <1>2, <2>4
      <4> QED
        BY <2>4, <3>1, <4>1 DEF Duty, Due
    <3>6. \A p \in Order : board'[p].driver = d => Fits(board'[p], fleet')
      <4> SUFFICES ASSUME NEW p \in Order, board'[p].driver = d PROVE Fits(board'[p], fleet')
        OBVIOUS
      <4>1. p = o
        BY <2>7, <3>2
      <4> QED
        BY <2>4, <2>6, <2>7, <2>8, <4>1 DEF Fits, Taken
    <3>7. Follows(board', fleet', agenda', d)
      <4>1. ~Has(board', d, "reserved")
        BY <2>7, <2>8, <3>2 DEF Has, Place
      <4> QED
        BY <2>6, <4>1 DEF Follows
    <3> QED
      BY <3>4, <3>5, <3>6, <3>7 DEF Own
  <2> QED
    BY <1>7, <2>2, <2>3, <2>4, <2>7, <2>8, <2>9, <2>10
\* The reserved request becomes the trip.
<1>10. ASSUME StartReserved PROVE Goes
  <2>1. /\ Arg.fn = "startReserved" /\ fleet' = fleet /\ agenda' = Tail(agenda) /\ ~OfferMade
        /\ ~OfferRefused /\ ~OfferFindsNobody /\ ~NoDriverParks /\ ~NoDriverToChat
    BY <1>10 DEF StartReserved, OfferMade, OfferRefused, OfferFindsNobody, NoDriverParks,
                 NoDriverToChat, Calling, Arg, Return
  <2>2. PICK d : d = Arg.driver
    OBVIOUS
  <2>3. /\ d \in Driver
        /\ \E o \in Reservations(orders, d) : Turn(o, Place("riding", d))
    BY <1>10, <2>1, <2>2, RestTurns
  <2>4. PICK o \in Reservations(orders, d) : Turn(o, Place("riding", d))
    BY <2>3
  <2>5. o \in Order /\ board[o] = Place("reserved", d) /\ d # None
    BY <2>3, <2>4, OnBoard, NoneAssumption
  <2>6. board'[o] = Place("riding", d) /\ \A p \in Order \ {o} : board'[p] = board[p]
    BY <1>1, <2>4, <2>5 DEF Turn
  <2>7. /\ board[o].phase = "reserved" /\ board[o].driver = d
        /\ board'[o].phase = "riding" /\ board'[o].driver = d
    BY <2>5, <2>6 DEF Place
  <2>8. Beside(fleet, agenda, fleet', agenda', d)
    BY <1>2, <1>3, <2>1, <2>2, NoneAssumption DEF Beside, Alike
  <2>9. ASSUME Plain, Duty(board, fleet, agenda)
        PROVE  Replaces(board, o, Place("riding", d), d) /\ Own(board', fleet', agenda', d)
    <3>1. ~Has(board, d, "riding") /\ \A c \in Calls(agenda') : c.driver = None
      <4>1. Due(Arg, board, fleet) /\ Ahead(agenda)
        BY <1>3, <2>9 DEF Duty
      <4>2. ~Has(board, d, "riding")
        BY <2>1, <2>2, <2>5, <4>1 DEF Due
      <4>3. \A c \in Calls(Tail(agenda)) : c.driver = None
        BY <1>2, <1>3, <2>1, <4>1 DEF Ahead
      <4> QED
        BY <2>1, <4>2, <4>3
    <3>2. Moved(board, o, Place("riding", d)) /\ Place("riding", d).driver = d
      BY <2>3, <2>7, <3>1 DEF Moved, Place
    <3>3. Replaces(board, o, Place("riding", d), d)
      BY <2>5, <2>7, <3>2 DEF Replaces
    <3>4. ASSUME NEW p \in Order, board'[p].driver = d PROVE p = o
      <4> SUFFICES ASSUME p # o PROVE FALSE
        OBVIOUS
      <4>1. board[p].driver = d
        BY <2>6, <3>4
      <4>2. {board[o].phase, board[p].phase} = {"reserved", "riding"}
        BY <2>5, <2>7, <2>9, <4>1 DEF Duty, Single
      <4>3. board[p].phase = "riding" /\ Fits(board[p], fleet)
        BY <2>7, <2>9, <4>2 DEF Duty
      <4> QED
        BY <3>1, <4>1, <4>3 DEF Fits, Has
    <3>5. Fits(board[o], fleet)
      BY <2>5, <2>9 DEF Duty
    <3>6. \A p \in Order : board'[p].driver = d => Fits(board'[p], fleet')
      <4>1. Fits(board'[o], fleet')
        BY <2>1, <2>3, <2>5, <2>6, <2>7, <3>5 DEF Fits, Taken
      <4> QED
        BY <3>4, <4>1
    <3>7. Follows(board', fleet', agenda', d)
      <4>1. Has(board', d, "riding")
        BY <2>5, <2>6 DEF Has
      <4> QED
        BY <4>1 DEF Follows
    <3> QED
      BY <2>5, <3>1, <3>3, <3>6, <3>7 DEF Own
  <2> QED
    BY <1>7, <2>3, <2>4, <2>5, <2>6, <2>7, <2>8, <2>9
\* A driver goes away from his place.
<1>11. ASSUME PostRide PROVE Goes
  <2>1. /\ Arg.fn = "postRide" /\ fleet' = SetAway(fleet, Arg.driver) /\ agenda' = Tail(agenda)
        /\ UNCHANGED orders
    BY <1>11 DEF PostRide, Calling, Arg, Return
  <2>2. PICK d \in Driver : d = Arg.driver
    BY <1>3, <1>4, <2>1 DEF ForDriver
  <2>3. Still
    BY <1>1, <2>1, UnchangedTurns
  <2>4. fleet'[d].status = "away" /\ \A x \in Driver \ {d} : Alike(fleet[x], fleet'[x])
    BY <1>1, <2>1, <2>2, FleetAlike
  <2>5. Beside(fleet, agenda, fleet', agenda', d) /\ Replaces(board, None, board[None], d)
    BY <1>2, <1>3, <2>1, <2>2, <2>4, NoneAssumption DEF Beside, Replaces
  <2>6. ASSUME Plain, Duty(board, fleet, agenda) PROVE Own(board', fleet', agenda', d)
    <3>1. fleet[d].status # "online" /\ ~Has(board, d, "riding") /\ ~Has(board, d, "reserved")
      BY <1>3, <2>1, <2>2, <2>6, NoneAssumption DEF Duty, Due
    <3>2. ASSUME NEW p \in Order, board[p].driver = d PROVE FALSE
      <4>1. Fits(board[p], fleet) /\ board[p].phase \in Taken
        BY <2>6, <3>2, NoneAssumption DEF Duty, Fits
      <4> QED
        BY <3>1, <3>2, <4>1 DEF Fits, Has, Taken
    <3>3. board' = board
      BY <2>3 DEF Still
    <3>4. \A c \in Calls(agenda') : c.driver = d => Due(c, board', fleet')
      <4>1. \A c \in Calls(agenda') : Due(c, board, fleet)
        BY <1>3, <2>1, <2>6 DEF Duty
      <4> QED
        BY <2>4, <3>3, <4>1 DEF Due
    <3>5. (\A p \in Order : board'[p].driver = d => Fits(board'[p], fleet'))
          /\ Follows(board', fleet', agenda', d)
      BY <2>4, <3>2, <3>3, NoDuty
    <3> QED
      BY <3>4, <3>5 DEF Own
  <2>7. \A p \in Order : board'[p] = board[p]
    BY <2>3 DEF Still
  <2> QED
    BY <1>7, <2>3, <2>5, <2>6, <2>7
<1> QED
  BY <1>8, <1>9, <1>10, <1>11

\* What requests, calls and drivers agree about at every moment.
DutyInv == SoundInv /\ (Plain => Duty(board, fleet, agenda))

\* At the start nobody has a request.
LEMMA DutyStart == ASSUME Init PROVE DutyInv
<1>1. Calls(agenda) = {} /\ agenda = <<>>
  BY CallsOf DEF Init
<1>2. \A o \in Order : Sound(o, orders[o]) /\ board[o] = Place("new", None)
  <2> SUFFICES ASSUME NEW o \in Order
               PROVE  Sound(o, orders[o]) /\ board[o] = Place("new", None)
    OBVIOUS
  <2> DEFINE r == orders[o]
  <2>1. /\ r.status = "new" /\ r.driver = None /\ r.parallel = None /\ r.offered = None
        /\ ~r.fixing /\ ~r.proposed /\ ~r.pricing /\ ~r.posted /\ ~r.chatOffline /\ r.jobs = {}
    BY DEF Init, FreshOrder
  <2>2. board[o] = Entry(r)
    BY DEF board
  <2> HIDE DEF r
  <2> QED
    BY <2>1, <2>2, EntryIs DEF Sound, Asked, Lone, Active, r
<1>3. \A o \in Order : board[o].phase = "new" /\ board[o].driver = None
  BY <1>2 DEF Place
<1>4. \A d \in Driver : fleet[d].status # "busy"
  BY DEF Init, EmptyFleet
<1>5. Duty(board, fleet, agenda)
  <2>1. Single(board)
    BY <1>3 DEF Single
  <2>2. \A o \in Order : Fits(board[o], fleet)
    BY <1>2, <1>3 DEF Fits, Taken
  <2>3. \A d \in Driver : Follows(board, fleet, agenda, d)
    BY <1>3, <1>4, NoneAssumption, NoDuty
  <2> QED
    BY <1>1, <2>1, <2>2, <2>3 DEF Duty, Ahead
<1> QED
  BY <1>1, <1>2, <1>5 DEF DutyInv, SoundInv, AllSound

\* Every step keeps the duties, whoever takes it.
LEMMA StepGoes ==
  ASSUME TypeOK, TypeOK', HandsInv, SoundInv, [Next]_vars
  PROVE  Goes
<1>1. CASE UNCHANGED vars
  <2>1. UNCHANGED <<orders, fleet, agenda>>
    BY <1>1 DEF vars
  <2>2. Still
    BY <2>1, UnchangedTurns DEF SoundInv
  <2> QED
    BY <2>1, <2>2 DEF Goes, Still, SoundInv, Moves
<1>2. CASE DispatchStep
  BY <1>2, DispatchGoes
<1>3. CASE ResumedStep
  BY <1>3, ResumedGoes
<1>4. CASE PassengerStep
  BY <1>4, PassengerGoes DEF PassengerStep
<1>5. CASE LineStep
  BY <1>5, LineGoes DEF LineStep
<1>6. CASE OfferStep
  <2>1. PICK d \in Driver, o \in Order :
          \/ Accept(d, o) \/ DeclineEnds(d, o) \/ DeclineAsksAddress(d, o)
          \/ DeclineAway(d, o) \/ \E reason \in Reason : DeclinePasses(d, o, reason)
          \/ TakePending(d, o) \/ TakeFromChat(d, o)
    BY <1>6 DEF OfferStep
  <2>2. CASE TakePending(d, o) \/ TakeFromChat(d, o)
    BY <2>2, ClaimGoes
  <2>3. CASE ~(TakePending(d, o) \/ TakeFromChat(d, o))
    BY <2>1, <2>3, AnswerGoes
  <2> QED
    BY <2>2, <2>3
<1>7. CASE TripStep
  BY <1>7, TripGoes DEF TripStep
<1>8. CASE ParallelStep
  BY <1>8, ParallelGoes DEF ParallelStep
<1>9. CASE TimerStep \/ Recovery
  BY <1>9, TimerGoes, WorkerGoes DEF TimerStep
<1> QED
  BY <1>1, <1>2, <1>3, <1>4, <1>5, <1>6, <1>7, <1>8, <1>9 DEF Next

\* The requests, the drivers' rows and the calls that are still to be made agree
\* about every driver, whatever people and timers do: the guards of handlers.py,
\* order_service.py, queue_service.py and parallel_orders.py together.
LEMMA DutiesHold == Spec => []DutyInv
<1>1. Init => DutyInv
  BY DutyStart
<1>2. TypeOK /\ TypeOK' /\ HandsInv /\ DutyInv /\ [Next]_vars => DutyInv'
  BY StepGoes DEF Goes, DutyInv, SoundInv, Kept, Plain, AddressesStay, PricesStay
<1> QED
  BY <1>1, <1>2, HandsHold, TypesHold, PTL DEF Spec

\* What is completed or cancelled stays so, in transactions that run one at a time: no
\* late answer, timer or rest of a handler brings it back.
THEOREM ClosedIsFinalHolds == ASSUME AddressesStay PROVE Spec => ClosedIsFinal
<1>1. TypeOK /\ TypeOK' /\ HandsInv /\ DutyInv /\ [Next]_vars
        => [\A o \in Order : orders[o].status \in Closed /\ ~orders[o].fixing
                               => orders'[o].status = orders[o].status]_vars
  BY StepGoes DEF DutyInv, Goes, Kept
<1> QED
  BY <1>1, DutiesHold, HandsHold, TypesHold, PTL DEF Spec, ClosedIsFinal

\* Nobody keeps a reservation without the trip whose end starts or releases it.
THEOREM ReservationFollowsTripHolds == ASSUME Plain PROVE Spec => []ReservationFollowsTrip
<1>1. HandsInv /\ DutyInv => ReservationFollowsTrip
  <2> SUFFICES ASSUME HandsInv, DutyInv, Idle, NEW d \in Driver, Reservations(orders, d) # {}
               PROVE  Trips(orders, d) # {}
    BY DEF ReservationFollowsTrip
  <2>1. Calls(agenda) = {}
    BY CallsOf DEF Idle
  <2>2. Has(board, d, "reserved") /\ Follows(board, fleet, agenda, d)
    BY OnBoard DEF DutyInv, Duty
  <2>3. Has(board, d, "riding")
    BY <2>1, <2>2 DEF Follows, Owed
  <2> QED
    BY <2>3, OnBoard
<1> QED
  BY <1>1, DutiesHold, HandsHold, PTL

\* Between transactions a driver is displayed as busy just while he has a trip.  (With
\* a requests chat, one who is off the line may take requests there.)
THEOREM BusyIsOnTripHolds == ASSUME Plain, ~ChatOpen PROVE Spec => []BusyIsOnTrip
<1>1. HandsInv /\ DutyInv => BusyIsOnTrip
  <2> SUFFICES ASSUME HandsInv, DutyInv, Idle, NEW d \in Driver
               PROVE  fleet[d].status = "busy" <=> Trips(orders, d) # {}
    BY DEF BusyIsOnTrip
  <2>1. Calls(agenda) = {}
    BY CallsOf DEF Idle
  <2>2. Has(board, d, "riding") <=> Trips(orders, d) # {}
    BY OnBoard
  <2>3. fleet[d].status = "busy" => Has(board, d, "riding")
    <3>1. Follows(board, fleet, agenda, d)
      BY DEF DutyInv, Duty
    <3> QED
      BY <2>1, <3>1 DEF Follows, Owed
  <2>4. Has(board, d, "riding") => fleet[d].status = "busy"
    <3> SUFFICES ASSUME NEW o \in Order, board[o] = Place("riding", d)
                 PROVE  fleet[d].status = "busy"
      BY DEF Has
    <3>1. Fits(board[o], fleet) /\ board[o].phase = "riding" /\ board[o].driver = d
      BY DEF DutyInv, Duty, Place
    <3> QED
      BY <3>1 DEF Fits
  <2> QED
    BY <2>2, <2>3, <2>4
<1> QED
  BY <1>1, DutiesHold, HandsHold, PTL

----------------------------------------------------------------------------
(* Where a request is that nobody drives.                                   *)

\* The calls that find a place for a request.
Sought == {"offer", "noDriver", "fallback", "recheck"}

SoughtFor(o, s) == \E c \in Calls(s) : c.fn \in Sought /\ c.order = o

\* A request has been reserved just while it waits for its driver's trip to end.
Clear(r) == r.parallel # None => r.status = "parallel_assigned"

\* A live request that nobody drives is parked, shown to a driver, or in the chat.
\* What would go to a chat that there is not stays where it is.
HasPlace(o, r, row) ==
  r.status \in Pending =>
    \/ row # "none"
    \/ r.status = "searching" /\ r.offered # None
    \/ r.status = "chat_search"
    \/ o \notin Desk /\ (o \in Delivery \/ r.special) /\ ~ChatOpen /\ r.status # "searching"

\* Every request has a place, or a call that is still to be made will find one.
PlaceInv ==
  /\ \A o \in Order : Clear(orders[o])
  /\ \A o \in Order : HasPlace(o, orders[o], pq[o].row) \/ SoughtFor(o, agenda)
  /\ \A c \in Calls(agenda) : c.fn = "offer" => orders[c.order].driver = None

\* A list without offers.
Mild(s) == \A c \in Calls(s) : c.fn # "offer"

\* Two records of a request that has not moved.
Rests(r, s) ==
  /\ s.status = r.status /\ s.parallel = r.parallel
  /\ r.offered # None => s.offered # None
  /\ r.special => s.special

\* A request that has not moved, neither in its own table nor in the waiting queue.
Remains(p) ==
  /\ Rests(orders[p], orders'[p])
  /\ pq[p].row # "none" => pq'[p].row # "none"

\* A step that moves some requests, and forgets none.
LEMMA SomePlaced ==
  ASSUME PlaceInv, NEW S \in SUBSET Order, \A p \in Order \ S : Remains(p),
         \A p \in S : /\ Clear(orders'[p])
                      /\ HasPlace(p, orders'[p], pq'[p].row) \/ SoughtFor(p, agenda'),
         \A c \in Calls(agenda) : c.fn \in Sought /\ c.order \notin S => c \in Calls(agenda'),
         \A c \in Calls(agenda') : c.fn = "offer" => orders'[c.order].driver = None
  PROVE  PlaceInv'
<1>1. ASSUME NEW p \in Order \ S
      PROVE  /\ Clear(orders'[p])
             /\ HasPlace(p, orders'[p], pq'[p].row) \/ SoughtFor(p, agenda')
  <2>1. Clear(orders'[p])
    BY DEF PlaceInv, Remains, Rests, Clear
  <2>2. HasPlace(p, orders[p], pq[p].row) => HasPlace(p, orders'[p], pq'[p].row)
    BY DEF Remains, Rests, HasPlace
  <2>3. SoughtFor(p, agenda) => SoughtFor(p, agenda')
    BY DEF SoughtFor
  <2> QED
    BY <2>1, <2>2, <2>3 DEF PlaceInv
<1> QED
  BY <1>1 DEF PlaceInv

\* What is left of the calls when the one on top ends.
LEMMA CallsLeft ==
  ASSUME TypeOK, HandsInv, ~Idle
  PROVE  /\ Calls(agenda) = {Arg} \union Calls(Tail(agenda)) /\ Mild(Tail(agenda))
         /\ \A a \in Call : /\ Calls(<<a>> \o Tail(agenda)) = {a} \union Calls(Tail(agenda))
                            /\ Calls(<<a>> \o agenda) = {a} \union Calls(agenda)
<1>1. agenda \in Seq(Call) /\ agenda # <<>> /\ Tail(agenda) \in Seq(Call) /\ Arg = Head(agenda)
  BY DEF TypeOK, Idle, Arg
<1>2. Calls(agenda) = {Arg} \union Calls(Tail(agenda))
  BY <1>1, CallsJoin
<1>3. ASSUME NEW a \in Call, NEW s \in Seq(Call)
      PROVE  Calls(<<a>> \o s) = {a} \union Calls(s)
  <2> DEFINE t == <<a>>
  <2>1. t \in Seq(Call) /\ Calls(t) = {a}
    BY CallsOf
  <2> HIDE DEF t
  <2>2. Calls(t \o s) = Calls(t) \union Calls(s)
    BY <2>1, CallsJoin
  <2> QED
    BY <2>1, <2>2 DEF t
<1>4. Mild(Tail(agenda))
  <2>1. /\ DOMAIN Tail(agenda) = 1 .. (Len(agenda) - 1) /\ DOMAIN agenda = 1 .. Len(agenda)
        /\ Len(agenda) \in Nat
        /\ \A i \in 1 .. (Len(agenda) - 1) : Tail(agenda)[i] = agenda[i + 1]
    BY <1>1
  <2>2. \A i \in 1 .. (Len(agenda) - 1) : i + 1 \in DOMAIN agenda /\ i + 1 # 1
    BY <2>1
  <2>3. \A i \in 1 .. (Len(agenda) - 1) : Tail(agenda)[i].fn # "offer"
    BY <2>1, <2>2 DEF HandsInv, Stacked, Direct
  <2> QED
    BY <2>1, <2>3 DEF Mild, Calls
<1> QED
  BY <1>1, <1>2, <1>3, <1>4

\* A call of dispatch that ends or makes another one.
LEMMA CallPlaced ==
  ASSUME TypeOK, HandsInv, PlaceInv, ~Idle, NEW S \in SUBSET Order,
         \A p \in Order \ S : Remains(p),
         \A p \in S : /\ Clear(orders'[p])
                      /\ HasPlace(p, orders'[p], pq'[p].row) \/ SoughtFor(p, agenda'),
         Arg.fn \in Sought => Arg.order \in S,
         \/ agenda' = Tail(agenda)
         \/ Arg.fn = "release" /\ agenda' = agenda
         \/ \E a \in Call : /\ \/ agenda' = <<a>> \o Tail(agenda)
                               \/ Arg.fn = "release" /\ agenda' = <<a>> \o agenda
                            /\ a.fn = "offer" => orders'[a.order].driver = None
  PROVE  PlaceInv'
<1>1. /\ Calls(Tail(agenda)) \subseteq Calls(agenda')
      /\ \A c \in Calls(agenda') : c.fn = "offer" => orders'[c.order].driver = None
  <2>1. CASE agenda' = Tail(agenda)
    BY <2>1, CallsLeft DEF Mild
  <2>2. CASE Arg.fn = "release" /\ agenda' = agenda
    BY <2>2, CallsLeft DEF Mild
  <2>3. ASSUME NEW a \in Call, a.fn = "offer" => orders'[a.order].driver = None,
               \/ agenda' = <<a>> \o Tail(agenda)
               \/ Arg.fn = "release" /\ agenda' = <<a>> \o agenda
        PROVE  /\ Calls(Tail(agenda)) \subseteq Calls(agenda')
               /\ \A c \in Calls(agenda') : c.fn = "offer" => orders'[c.order].driver = None
    BY <2>3, CallsLeft DEF Mild
  <2> QED
    BY <2>1, <2>2, <2>3
<1>2. \A c \in Calls(agenda) : c.fn \in Sought /\ c.order \notin S => c \in Calls(agenda')
  BY <1>1, CallsLeft
<1> QED
  BY <1>1, <1>2, SomePlaced

\* Withdrawing questions moves nothing.
LEMMA PausedRests ==
  ASSUME NEW os \in [Order -> OrderRecord], NEW q \in [Order -> QueueRecord], NEW P, NEW p \in Order
  PROVE  /\ Rests(os[p], WithoutPolls(os, P)[p])
         /\ WithoutPolls(os, P)[p].driver = os[p].driver
         /\ q[p].row # "none" => Pause(q, P)[p].row # "none"
<1>1. WithoutPolls(os, P)[p] = IF p \in P THEN [os[p] EXCEPT !.jobs = @ \ {"pqueue"}] ELSE os[p]
  BY DEF WithoutPolls
<1>2. Rests(os[p], WithoutPolls(os, P)[p]) /\ WithoutPolls(os, P)[p].driver = os[p].driver
  BY <1>1 DEF Rests, OrderRecord
<1>3. q[p].row # "none" => Pause(q, P)[p].row # "none"
  BY DEF Pause, QueueRecord
<1> QED
  BY <1>2, <1>3

\* Closing a card for the road and withdrawing a request leave it where it is.
LEMMA ShutRests ==
  ASSUME NEW r \in OrderRecord
  PROVE  /\ CloseRoute(r) \in OrderRecord /\ Rests(r, CloseRoute(r))
         /\ Withdraw(r) \in OrderRecord /\ Rests(r, Withdraw(r))
<1>1. \A c \in OrderRecord : CloseRoute(c).special = c.special
  BY DEF CloseRoute, OrderRecord
<1>2. \A c \in OrderRecord : [c EXCEPT !.jobs = @ \ {"pqueue"}].special = c.special
  BY DEF OrderRecord
<1>3. CloseRoute(r) \in OrderRecord
  BY ClosedFields
<1>4. Withdraw(r).special = r.special
  BY <1>1, <1>2, <1>3 DEF Withdraw
<1>5. /\ CloseRoute(r).status = r.status /\ CloseRoute(r).parallel = r.parallel
      /\ CloseRoute(r).offered = r.offered
  BY ClosedFields
<1>6. /\ Withdraw(r) \in OrderRecord /\ Withdraw(r).status = r.status
      /\ Withdraw(r).parallel = r.parallel /\ Withdraw(r).offered = r.offered
  BY ClosedFields
<1> QED
  BY <1>1, <1>3, <1>4, <1>5, <1>6 DEF Rests

\* A call of dispatch finds a place for its request, or makes the call that will.
LEMMA DispatchPlaced ==
  ASSUME TypeOK, HandsInv, PlaceInv, DispatchStep
  PROVE  PlaceInv'
<1> USE DEF Calling, Notifying, FallingBack, Promoting, Then, Return
<1>1. /\ orders \in [Order -> OrderRecord] /\ pq \in [Order -> QueueRecord]
      /\ agenda \in Seq(Call) /\ ~Idle
  BY DEF TypeOK, DispatchStep, OfferRefused, OfferMade, OfferFindsNobody, NoDriverParks,
     NoDriverToChat, NotifyMade, NotifyNobody, FallbackOffers, FallbackWaits, PromoteMisses,
     PromoteWaitsForAnswer, PromoteStarts, ScanEnds, ScanFallsBack, ScanAsks, ScanOffers,
     ScanNotifies, ReleaseNext, ReleaseEnds, StartReserved, PostRide
<1>2. /\ Arg.fn \notin AboutNoOrder => Arg.order \in Order
      /\ Arg \in Call /\ Arg.todo \in SUBSET Order /\ Arg = Head(agenda)
  BY <1>1, ArgTypes DEF Arg
<1>3. \A p \in Order : /\ orders[p] \in OrderRecord /\ Held(orders[p], pq[p].row)
                       /\ Clear(orders[p])
  BY <1>1 DEF HandsInv, AllHeld, PlaceInv
<1>4. Ready(Arg, orders, pq)
  <2>1. 1 \in DOMAIN agenda /\ Arg = agenda[1]
    BY <1>1 DEF Idle, Arg
  <2> QED
    BY <2>1 DEF HandsInv, AllReady
<1>5. ASSUME Arg.fn \notin Sought, \A p \in Order : Remains(p),
             \/ agenda' = Tail(agenda)
             \/ Arg.fn = "release" /\ agenda' = agenda
             \/ \E a \in Call : /\ \/ agenda' = <<a>> \o Tail(agenda)
                                   \/ Arg.fn = "release" /\ agenda' = <<a>> \o agenda
                                /\ a.fn # "offer"
      PROVE  PlaceInv'
  <2>1. PICK S \in SUBSET Order : \A p : p \notin S
    <3>1. {} \in SUBSET Order /\ \A p : p \notin {}
      OBVIOUS
    <3> QED
      BY <3>1
  <2>2. Order \ S = Order
    BY <2>1
  <2> QED
    BY <1>1, <1>5, <2>1, <2>2, CallPlaced
<1>6. ASSUME NEW o \in Order, Arg.fn \in Sought => Arg.order = o,
             \A p \in Order \ {o} : Remains(p),
             Clear(orders'[o]),
             \/ HasPlace(o, orders'[o], pq'[o].row) /\ agenda' = Tail(agenda)
             \/ \E a \in Call : /\ agenda' = <<a>> \o Tail(agenda)
                                /\ \/ HasPlace(o, orders'[o], pq'[o].row) /\ a.fn # "offer"
                                   \/ a.fn \in Sought /\ a.order = o
                                /\ a.fn = "offer" => a.order = o /\ orders'[o].driver = None
      PROVE  PlaceInv'
  <2>1. HasPlace(o, orders'[o], pq'[o].row) \/ SoughtFor(o, agenda')
    BY <1>1, <1>6, CallsLeft DEF SoughtFor
  <2>2. {o} \in SUBSET Order
    OBVIOUS
  <2> QED
    BY <1>1, <1>6, <2>1, <2>2, CallPlaced
<1>7. UNCHANGED <<orders, pq>> => \A p \in Order : Remains(p)
  BY DEF Remains, Rests
<1>8. CASE OfferRefused \/ OfferMade \/ OfferFindsNobody
  <2>1. PICK o : o = Arg.order
    OBVIOUS
  <2>2. o \in Order /\ orders[o].driver = None
    <3>1. Arg.fn = "offer" /\ Arg \in Calls(agenda)
      BY <1>1, <1>8, CallsLeft DEF OfferRefused, OfferMade, OfferFindsNobody, Arg
    <3> QED
      BY <1>2, <2>1, <3>1 DEF AboutNoOrder, PlaceInv
  <2>3. CASE OfferRefused
    <3>1. /\ UNCHANGED <<orders, pq>> /\ ~Offerable(orders[o]) /\ agenda' = Tail(agenda)
      BY <2>1, <2>3 DEF OfferRefused
    <3>2. HasPlace(o, orders[o], pq[o].row)
      BY <1>3, <2>2, <3>1 DEF Offerable, HasPlace, Clear, Pending, Candidate
    <3> QED
      BY <1>3, <1>6, <1>7, <2>1, <2>2, <3>1, <3>2
  <2>4. CASE OfferMade
    <3> DEFINE P == Polls(pq) \ {o}
               c == CloseRoute(orders[o])
    <3>1. PICK d \in Driver :
            LET r == [c EXCEPT !.status = "searching", !.offered = d, !.card = TRUE,
                               !.jobs = @ \union {"accept"}] IN
            orders' = WithoutPolls([orders EXCEPT ![o] = r], P)
      BY <2>1, <2>4 DEF OfferMade, Front, Eligible, Waiting, Free, VisiblyFree
    <3> DEFINE r == [c EXCEPT !.status = "searching", !.offered = d, !.card = TRUE,
                              !.jobs = @ \union {"accept"}]
               os == [orders EXCEPT ![o] = r]
    <3>2. pq' = Pause(pq, P) /\ agenda' = Tail(agenda) /\ Offerable(orders[o])
      BY <2>1, <2>4 DEF OfferMade
    <3>3. c \in OrderRecord /\ c.parallel = orders[o].parallel
      BY <1>3, <2>2, ClosedFields
    <3> HIDE DEF c
    <3>4. r \in OrderRecord /\ r.status = "searching" /\ r.offered = d /\ r.parallel = None
      <4>1. ASSUME NEW v \in OrderRecord
            PROVE  [v EXCEPT !.status = "searching", !.offered = d, !.card = TRUE,
                             !.jobs = v.jobs \union {"accept"}] \in OrderRecord
        BY DEF OrderRecord, OrderStatus, Timer
      <4>2. r.status = "searching" /\ r.offered = d /\ r.parallel = c.parallel
        BY <3>3 DEF OrderRecord
      <4> QED
        BY <3>2, <3>3, <4>1, <4>2 DEF Offerable
    <3> HIDE DEF r
    <3>5. /\ os \in [Order -> OrderRecord] /\ os[o] = r
          /\ \A p \in Order \ {o} : os[p] = orders[p]
      BY <1>1, <2>2, <3>4
    <3> HIDE DEF os, P
    <3>6. orders' = WithoutPolls(os, P)
      BY <3>1 DEF os, r
    <3>7. \A p \in Order : Rests(os[p], orders'[p]) /\ (pq[p].row # "none" => pq'[p].row # "none")
      BY <1>1, <3>2, <3>5, <3>6, PausedRests
    <3>8. \A p \in Order \ {o} : Remains(p)
      BY <3>5, <3>7 DEF Remains
    <3>9. /\ orders'[o].status = "searching" /\ orders'[o].offered # None
          /\ orders'[o].parallel = None
      BY <2>2, <3>4, <3>5, <3>7, NoneAssumption DEF Rests
    <3>10. Clear(orders'[o]) /\ HasPlace(o, orders'[o], pq'[o].row)
      BY <3>9 DEF Clear, HasPlace
    <3> QED
      BY <1>6, <2>1, <2>2, <3>2, <3>8, <3>10
  <2>5. CASE OfferFindsNobody
    <3>1. UNCHANGED <<orders, pq>> /\ agenda' = <<Do("noDriver", o)>> \o Tail(agenda)
      BY <2>1, <2>5 DEF OfferFindsNobody
    <3>2. /\ Do("noDriver", o) \in Call /\ Do("noDriver", o).fn = "noDriver"
          /\ Do("noDriver", o).order = o
      BY <2>2, CallTypes, CallNames DEF Function, AboutNoOrder, ForDriver
    <3> QED
      BY <1>3, <1>6, <1>7, <2>1, <2>2, <3>1, <3>2 DEF Sought
  <2> QED
    BY <1>8, <2>3, <2>4, <2>5
<1>9. CASE NoDriverParks \/ NoDriverToChat
  <2>1. PICK o : o = Arg.order
    OBVIOUS
  <2>2. o \in Order /\ Offerable(orders[o])
    <3>1. Arg.fn = "noDriver"
      BY <1>9 DEF NoDriverParks, NoDriverToChat, Arg
    <3> QED
      BY <1>2, <1>4, <2>1, <3>1 DEF AboutNoOrder, Ready
  <2>3. /\ \A but \in SUBSET Driver : /\ Offer(o, but) \in Call /\ Offer(o, but).fn = "offer"
                                      /\ Offer(o, but).order = o
        /\ Do("notifyOrFallback", o) \in Call /\ Do("notifyOrFallback", o).fn = "notifyOrFallback"
    BY <2>2, CallTypes, CallNames DEF Function, AboutNoOrder, ForDriver
  <2>4. ASSUME agenda' = <<Offer(o, {})>> \o Tail(agenda), UNCHANGED <<orders, pq>>
        PROVE  PlaceInv'
    <3>1. orders'[o].driver = None
      BY <2>2, <2>4 DEF Offerable
    <3> QED
      BY <1>3, <1>6, <1>7, <2>1, <2>2, <2>3, <2>4, <3>1 DEF Sought
  <2>5. CASE NoDriverParks /\ ~FreeAfterAll(o)
    <3> DEFINE r == [orders[o] EXCEPT !.status = IF Parked(pq, o) THEN "no_drivers" ELSE "queued"]
    <3>1. /\ orders' = [orders EXCEPT ![o] = r] /\ pq' = Enqueue(pq, o)
          /\ agenda' = <<Do("notifyOrFallback", o)>> \o Tail(agenda)
      BY <1>1, <2>1, <2>5 DEF NoDriverParks
    <3>2. r.parallel = None
      BY <1>3, <2>2 DEF Offerable, OrderRecord
    <3>3. orders'[o].parallel = None /\ \A p \in Order \ {o} : orders'[p] = orders[p]
      BY <1>1, <2>2, <3>1, <3>2
    <3> HIDE DEF r
    <3>4. pq'[o].row # "none" /\ \A p \in Order \ {o} : pq'[p].row = pq[p].row
      BY <1>1, <2>2, <3>1, RowsAfter DEF Parked
    <3>5. Clear(orders'[o]) /\ HasPlace(o, orders'[o], pq'[o].row)
      BY <3>3, <3>4 DEF Clear, HasPlace
    <3>6. \A p \in Order \ {o} : Remains(p)
      BY <3>3, <3>4 DEF Remains, Rests
    <3> QED
      BY <1>6, <2>1, <2>2, <2>3, <3>1, <3>5, <3>6
  <2>6. CASE NoDriverToChat /\ ~FreeAfterAll(o)
    <3> DEFINE x == [orders[o] EXCEPT !.status = "chat_search", !.posted = TRUE,
                                      !.jobs = @ \union {"driver_chat"}]
               y == [orders[o] EXCEPT !.status = "no_drivers"]
               r == IF ChatOpen THEN x ELSE y
    <3>1. /\ orders' = [orders EXCEPT ![o] = r] /\ pq' = pq /\ ForChat(o)
          /\ agenda' = Tail(agenda)
      BY <1>1, <2>1, <2>6 DEF NoDriverToChat
    <3>2. /\ r.parallel = None /\ r.special = orders[o].special
          /\ r.status = IF ChatOpen THEN "chat_search" ELSE "no_drivers"
      BY <1>3, <2>2 DEF Offerable, OrderRecord
    <3>3. orders'[o] = r /\ \A p \in Order \ {o} : orders'[p] = orders[p]
      BY <1>1, <2>2, <3>1
    <3> HIDE DEF r
    <3>4. Clear(orders'[o]) /\ HasPlace(o, orders'[o], pq'[o].row)
      BY <3>1, <3>2, <3>3, ChatAssumption DEF Clear, HasPlace, ForChat
    <3>5. \A p \in Order \ {o} : Remains(p)
      BY <3>1, <3>3 DEF Remains, Rests
    <3> QED
      BY <1>6, <2>1, <2>2, <3>1, <3>4, <3>5
  <2> QED
    BY <1>9, <2>1, <2>4, <2>5, <2>6 DEF NoDriverParks, NoDriverToChat
<1>10. ASSUME NEW o \in Order, RouteOffer(o), UNCHANGED pq PROVE \A p \in Order : Remains(p)
  <2>1. PICK t \in Order : orders' = [orders EXCEPT ![o].routeDriver = orders[t].driver,
                                                    ![o].routeTrip = t,
                                                    ![o].jobs = @ \union {"route_parallel_offer"}]
    BY <1>10 DEF RouteOffer, AutoTrips, TripsTo
  <2> DEFINE r == [orders[o] EXCEPT !.routeDriver = orders[t].driver, !.routeTrip = t,
                                    !.jobs = @ \union {"route_parallel_offer"}]
  <2>2. orders' = [orders EXCEPT ![o] = r]
    BY <1>1, <2>1
  <2>3. Rests(orders[o], r)
    BY <1>3 DEF OrderRecord, Rests
  <2> HIDE DEF r
  <2>4. orders'[o] = r /\ \A p \in Order \ {o} : orders'[p] = orders[p]
    BY <1>1, <2>2
  <2> QED
    BY <1>10, <2>3, <2>4 DEF Remains, Rests
<1>11. CASE NotifyMade \/ NotifyNobody
  <2>1. PICK o : o = Arg.order
    OBVIOUS
  <2>2. o \in Order /\ Arg.fn \notin Sought
    BY <1>2, <1>11, <2>1 DEF NotifyMade, NotifyNobody, AboutNoOrder, Sought
  <2>3. Do("recheck", o) \in Call /\ Do("recheck", o).fn = "recheck"
    BY <2>2, CallTypes, CallNames DEF Function, AboutNoOrder, ForDriver
  <2>4. CASE NotifyMade
    BY <1>5, <1>10, <2>1, <2>2, <2>4 DEF NotifyMade
  <2>5. CASE NotifyNobody
    BY <1>5, <1>7, <2>1, <2>2, <2>3, <2>5 DEF NotifyNobody
  <2> QED
    BY <1>11, <2>4, <2>5
<1>12. CASE FallbackOffers \/ FallbackWaits
  <2>1. PICK o : o = Arg.order
    OBVIOUS
  <2>2. o \in Order /\ Unclaimed(orders[o])
    BY <1>2, <1>12, <2>1 DEF FallbackOffers, FallbackWaits, AboutNoOrder
  <2> DEFINE c == CloseRoute(orders[o])
             w == Withdraw(c)
  <2>3. /\ c \in OrderRecord /\ c.driver = None /\ c.parallel = None
        /\ w \in OrderRecord /\ w.driver = None /\ w.parallel = None
    <3>1. c \in OrderRecord /\ c.driver = None /\ c.parallel = None
      BY <1>3, <2>2, ClosedFields DEF Unclaimed
    <3> HIDE DEF c
    <3>2. w \in OrderRecord /\ w.driver = None /\ w.parallel = None
      BY <3>1, ClosedFields
    <3> QED
      BY <3>1, <3>2
  <2> HIDE DEF w
  <2>4. CASE FallbackOffers
    <3>1. PICK b : orders' = [orders EXCEPT ![o] =
                     [w EXCEPT !.status = "searching", !.etaSet = FALSE, !.fallback = b]]
      BY <2>1, <2>4 DEF FallbackOffers, w
    <3> DEFINE r == [w EXCEPT !.status = "searching", !.etaSet = FALSE, !.fallback = b]
    <3>2. r.parallel = None /\ r.driver = None
      BY <2>3 DEF OrderRecord
    <3> HIDE DEF r
    <3>3. orders'[o] = r /\ \A p \in Order \ {o} : orders'[p] = orders[p]
      BY <1>1, <2>2, <3>1 DEF r
    <3>4. pq' = Unqueue(pq, o) /\ agenda' = <<Offer(o, {})>> \o Tail(agenda)
      BY <2>1, <2>4 DEF FallbackOffers
    <3>5. \A p \in Order \ {o} : Remains(p)
      BY <1>1, <2>2, <3>3, <3>4, RowsAfter DEF Remains, Rests
    <3>6. Offer(o, {}) \in Call /\ Offer(o, {}).fn = "offer" /\ Offer(o, {}).order = o
      BY <2>2, CallTypes, CallNames
    <3> QED
      BY <1>6, <2>1, <2>2, <3>2, <3>3, <3>4, <3>5, <3>6 DEF Clear, Sought
  <2>5. CASE FallbackWaits
    <3> DEFINE r == [c EXCEPT !.status = "queued", !.etaSet = FALSE, !.fallback = TRUE]
    <3>1. /\ orders' = [orders EXCEPT ![o] = r] /\ agenda' = Tail(agenda)
          /\ pq' = [Enqueue(pq, o) EXCEPT ![o].row = "waiting"]
      BY <2>1, <2>5 DEF FallbackWaits
    <3> HIDE DEF c
    <3>2. r.parallel = None
      BY <2>3 DEF OrderRecord
    <3> HIDE DEF r
    <3>3. orders'[o] = r /\ \A p \in Order \ {o} : orders'[p] = orders[p]
      BY <1>1, <2>2, <3>1
    <3>4. pq'[o].row = "waiting" /\ \A p \in Order \ {o} : pq'[p].row = pq[p].row
      BY <1>1, <2>2, <3>1, RowsAfter
    <3>5. \A p \in Order \ {o} : Remains(p)
      BY <3>3, <3>4 DEF Remains, Rests
    <3>6. Clear(orders'[o]) /\ HasPlace(o, orders'[o], pq'[o].row)
      BY <3>2, <3>3, <3>4 DEF Clear, HasPlace
    <3> QED
      BY <1>6, <2>1, <2>2, <3>1, <3>5, <3>6
  <2> QED
    BY <1>12, <2>4, <2>5
<1>13. CASE PromoteMisses \/ PromoteWaitsForAnswer
  <2>1. Arg.fn \notin Sought /\ UNCHANGED <<orders, pq>> /\ agenda' = Tail(agenda)
    BY <1>13 DEF PromoteMisses, PromoteWaitsForAnswer, Arg, Sought
  <2> QED
    BY <1>5, <1>7, <2>1
<1>14. CASE PromoteStarts
  <2>1. /\ Arg.fn \notin Sought
        /\ orders' = WithoutPolls(orders, Polls(pq)) /\ pq' = Pause(pq, Polls(pq))
    BY <1>14 DEF PromoteStarts, Arg, Sought
  <2>2. \A p \in Order : Remains(p)
    BY <1>1, <2>1, PausedRests DEF Remains
  <2>3. PICK todo \in SUBSET Order :
          agenda' = Tail(agenda) \/ agenda' = <<Scan(todo)>> \o Tail(agenda)
    BY <1>14 DEF PromoteStarts
  <2>4. Scan(todo) \in Call /\ Scan(todo).fn = "scan"
    BY CallTypes, CallNames
  <2> QED
    BY <1>5, <2>1, <2>2, <2>3, <2>4
<1>15. Calling("scan") => Arg.fn \notin Sought /\ Next_(Repaired) \subseteq Order
  BY <1>2 DEF Next_, First, Arg, Sought
<1>16. CASE ScanEnds \/ ScanFallsBack
  <2>1. Arg.fn \notin Sought /\ UNCHANGED <<orders, pq>>
    BY <1>15, <1>16 DEF ScanEnds, ScanFallsBack
  <2>2. agenda' = Tail(agenda) \/ \E o \in Order : agenda' = <<Do("recheck", o)>> \o Tail(agenda)
    BY <1>15, <1>16 DEF ScanEnds, ScanFallsBack
  <2>3. \A o \in Order : Do("recheck", o) \in Call /\ Do("recheck", o).fn = "recheck"
    BY CallTypes, CallNames DEF Function, AboutNoOrder, ForDriver
  <2> QED
    BY <1>5, <1>7, <2>1, <2>2, <2>3
<1>17. CASE ScanAsks
  <2>1. PICK o \in Order :
          /\ orders' = [orders EXCEPT ![o].jobs = @ \union {"pqueue"}, ![o].fixing = FALSE]
          /\ pq' = [pq EXCEPT ![o].row = "polling"]
    BY <1>15, <1>17 DEF ScanAsks
  <2>2. Arg.fn \notin Sought /\ agenda' = Tail(agenda)
    BY <1>15, <1>17 DEF ScanAsks
  <2> DEFINE r == [orders[o] EXCEPT !.jobs = @ \union {"pqueue"}, !.fixing = FALSE]
  <2>3. orders' = [orders EXCEPT ![o] = r]
    BY <1>1, <2>1
  <2>4. Rests(orders[o], r)
    BY <1>3 DEF OrderRecord, Rests
  <2> HIDE DEF r
  <2>5. orders'[o] = r /\ \A p \in Order \ {o} : orders'[p] = orders[p]
    BY <1>1, <2>3
  <2>6. pq'[o].row = "polling" /\ \A p \in Order \ {o} : pq'[p].row = pq[p].row
    BY <1>1, <2>1, RowsAfter
  <2>7. \A p \in Order : Remains(p)
    BY <2>4, <2>5, <2>6 DEF Remains, Rests
  <2> QED
    BY <1>5, <2>2, <2>7
<1>18. CASE ScanOffers
  <2>1. PICK o \in Order :
          \/ /\ Unclaimed(orders[o])
             /\ orders' = [orders EXCEPT ![o] =
                    [Withdraw(orders[o]) EXCEPT !.status = "searching", !.fixing = FALSE]]
             /\ pq' = Unqueue(pq, o)
             /\ agenda' = <<Offer(o, {})>> \o Tail(agenda)
          \/ agenda' = Tail(agenda) /\ UNCHANGED <<orders, pq>>
    BY <1>15, <1>18 DEF ScanOffers
  <2>2. Arg.fn \notin Sought
    BY <1>15, <1>18 DEF ScanOffers
  <2>3. ASSUME Unclaimed(orders[o]),
               orders' = [orders EXCEPT ![o] =
                    [Withdraw(orders[o]) EXCEPT !.status = "searching", !.fixing = FALSE]],
               pq' = Unqueue(pq, o), agenda' = <<Offer(o, {})>> \o Tail(agenda)
        PROVE  PlaceInv'
    <3> DEFINE w == Withdraw(orders[o])
               r == [w EXCEPT !.status = "searching", !.fixing = FALSE]
    <3>1. w \in OrderRecord /\ w.driver = None /\ w.parallel = None
      BY <1>3, <2>3, ClosedFields DEF Unclaimed
    <3> HIDE DEF w
    <3>2. r.driver = None /\ r.parallel = None
      BY <3>1 DEF OrderRecord
    <3>3. orders' = [orders EXCEPT ![o] = r]
      BY <2>3 DEF w
    <3> HIDE DEF r
    <3>4. orders'[o] = r /\ \A p \in Order \ {o} : orders'[p] = orders[p]
      BY <1>1, <3>3
    <3>5. \A p \in Order \ {o} : Remains(p)
      BY <1>1, <2>3, <3>4, RowsAfter DEF Remains, Rests
    <3>6. Offer(o, {}) \in Call /\ Offer(o, {}).fn = "offer" /\ Offer(o, {}).order = o
      BY CallTypes, CallNames
    <3> QED
      BY <1>6, <2>2, <2>3, <3>2, <3>4, <3>5, <3>6 DEF Clear, Sought
  <2> QED
    BY <1>5, <1>7, <2>1, <2>2, <2>3
<1>19. CASE ScanNotifies
  <2>1. PICK o \in Order : /\ RouteOffer(o) \/ UNCHANGED orders
                           /\ agenda' = <<Scan(Arg.todo \ {o})>> \o Tail(agenda)
    BY <1>15, <1>19 DEF ScanNotifies
  <2>2. Arg.fn \notin Sought /\ UNCHANGED pq
    BY <1>15, <1>19 DEF ScanNotifies
  <2>3. Scan(Arg.todo \ {o}) \in Call /\ Scan(Arg.todo \ {o}).fn = "scan"
    BY <1>2, CallTypes, CallNames
  <2> QED
    BY <1>5, <1>7, <1>10, <2>1, <2>2, <2>3
<1>20. CASE ReleaseNext
  <2>1. PICK o \in Order : /\ orders' = [orders EXCEPT ![o] = CloseRoute(@)]
                           /\ \/ agenda' = <<Do("fallback", o)>> \o agenda
                              \/ agenda' = <<>> \o agenda
    BY <1>20 DEF ReleaseNext, CardsOf
  <2>2. Arg.fn = "release" /\ Arg.fn \notin Sought /\ UNCHANGED pq
    BY <1>20 DEF ReleaseNext, Arg, Sought
  <2>3. /\ Do("fallback", o) \in Call /\ Do("fallback", o).fn = "fallback"
        /\ <<>> \o agenda = agenda
    BY <1>1, CallTypes, CallNames, CallsJoin DEF Function, AboutNoOrder, ForDriver
  <2>4. /\ orders'[o] = CloseRoute(orders[o])
        /\ \A p \in Order \ {o} : orders'[p] = orders[p]
    BY <1>1, <2>1
  <2>5. \A p \in Order : Remains(p)
    <3>1. Rests(orders[o], CloseRoute(orders[o]))
      BY <1>3, ShutRests
    <3> QED
      BY <2>2, <2>4, <3>1 DEF Remains, Rests
  <2> QED
    BY <1>5, <2>1, <2>2, <2>3, <2>5
<1>21. CASE ReleaseEnds \/ PostRide
  <2>1. Arg.fn \notin Sought /\ UNCHANGED <<orders, pq>> /\ agenda' = Tail(agenda)
    BY <1>21 DEF ReleaseEnds, PostRide, Arg, Sought
  <2> QED
    BY <1>5, <1>7, <2>1
<1>22. CASE StartReserved
  <2>1. PICK o \in Order :
          orders' = [orders EXCEPT ![o].status = "assigned", ![o].driver = Arg.driver,
                                   ![o].parallel = None, ![o].etaSet = FALSE,
                                   ![o].departed = TRUE]
    BY <1>22 DEF StartReserved, Reservations
  <2>2. Arg.fn \notin Sought /\ UNCHANGED pq /\ agenda' = Tail(agenda)
    BY <1>22 DEF StartReserved, Arg, Sought
  <2> DEFINE r == [orders[o] EXCEPT !.status = "assigned", !.driver = Arg.driver,
                                    !.parallel = None, !.etaSet = FALSE, !.departed = TRUE]
  <2>3. orders' = [orders EXCEPT ![o] = r]
    BY <1>1, <2>1
  <2>4. r.status = "assigned" /\ r.parallel = None
    BY <1>3 DEF OrderRecord
  <2> HIDE DEF r
  <2>5. orders'[o] = r /\ \A p \in Order \ {o} : orders'[p] = orders[p]
    BY <1>1, <2>3
  <2>6. \A p \in Order \ {o} : Remains(p)
    BY <2>2, <2>5 DEF Remains, Rests
  <2>7. Clear(orders'[o]) /\ HasPlace(o, orders'[o], pq'[o].row)
    BY <2>4, <2>5 DEF Clear, HasPlace, Pending, Candidate
  <2> QED
    BY <1>6, <2>2, <2>6, <2>7
<1> QED
  BY <1>8, <1>9, <1>11, <1>12, <1>13, <1>14, <1>16, <1>17, <1>18, <1>19, <1>20, <1>21, <1>22
     DEF DispatchStep

\* At rest there are no calls: a handler that moves one request puts it somewhere, or
\* makes the call that will.
LEMMA HandlerPlaced ==
  ASSUME TypeOK, PlaceInv, Idle, NEW o \in Order, NEW r, orders' = [orders EXCEPT ![o] = r],
         \A p \in Order \ {o} : pq'[p].row = pq[p].row,
         Clear(r),
         \/ HasPlace(o, r, pq'[o].row) /\ Mild(agenda')
         \/ r.driver = None /\ SoughtFor(o, agenda')
            /\ \A c \in Calls(agenda') : c.fn = "offer" => c.order = o
  PROVE  PlaceInv'
<1>1. orders'[o] = r /\ \A p \in Order \ {o} : orders'[p] = orders[p]
  BY DEF TypeOK
<1>2. \A p \in Order \ {o} : Remains(p)
  BY <1>1 DEF Remains, Rests
<1>3. Calls(agenda) = {} /\ {o} \in SUBSET Order
  BY CallsOf DEF Idle
<1>4. /\ Clear(orders'[o])
      /\ HasPlace(o, orders'[o], pq'[o].row) \/ SoughtFor(o, agenda')
      /\ \A c \in Calls(agenda') : c.fn = "offer" => orders'[c.order].driver = None
  BY <1>1 DEF Mild
<1> QED
  BY <1>2, <1>3, <1>4, SomePlaced

\* A handler that moves nothing.
LEMMA QuietPlaced ==
  ASSUME PlaceInv, Idle, \A p \in Order : Remains(p), Mild(agenda')
  PROVE  PlaceInv'
<1>1. Calls(agenda) = {} /\ {} \in SUBSET Order /\ Order \ {} = Order
  BY CallsOf DEF Idle
<1>2. PICK S \in SUBSET Order : S = {}
  BY <1>1
<1> QED
  BY <1>1, <1>2, SomePlaced DEF Mild

\* A handler that changes one request and moves none.
LEMMA OneRemains ==
  ASSUME TypeOK, NEW o \in Order, NEW r, orders' = [orders EXCEPT ![o] = r], Rests(orders[o], r),
         \A p \in Order : pq[p].row # "none" => pq'[p].row # "none"
  PROVE  \A p \in Order : Remains(p)
<1>1. orders'[o] = r /\ \A p \in Order \ {o} : orders'[p] = orders[p]
  BY DEF TypeOK
<1> QED
  BY <1>1 DEF Remains, Rests

\* Which of the calls that handlers start with are offers, and find a place.
LEMMA StartedFind ==
  /\ Mild(<<>>) /\ Mild(<<Promote>>) /\ Mild(<<PromoteUnflushed>>)
  /\ \A fn, o : fn # "offer" => Mild(<<Do(fn, o)>>) /\ Mild(<<Do(fn, o), Promote>>)
  /\ \A o : Mild(<<Do("release", o), Do("passengerGone", o)>>)
  /\ \A fn, o, d : fn # "offer" => /\ Mild(<<For(fn, o, d)>>) /\ Mild(<<For(fn, o, d), PromoteUnflushed>>)
                                   /\ Mild(<<Promote, For(fn, o, d)>>)
                                   /\ Mild(<<Do("release", o), For(fn, o, d)>>)
  /\ \A o : SoughtFor(o, <<Do("fallback", o)>>)
  /\ \A o, but : \A s \in {<<Offer(o, but)>>, <<Offer(o, but), Promote>>} :
       SoughtFor(o, s) /\ \A c \in Calls(s) : c.fn = "offer" => c.order = o
BY CallNames, CallsOf DEF Mild, SoughtFor, Sought

\* A closed request needs no place.
LEMMA ClosedPlace == ASSUME NEW o, NEW r, NEW row, r.status \notin Pending PROVE HasPlace(o, r, row)
BY DEF HasPlace

\* Passengers and dispatchers.
LEMMA PassengerPlaced ==
  ASSUME TypeOK, HandsInv, SoundInv, PlaceInv, AddressesStay, NEW o \in Order,
         \/ NewRide(o) \/ NewDeskRide(o) \/ PassengerCancel(o)
         \/ ConfirmActual(o) \/ ConfirmNot(o) \/ NewAddress(o)
         \/ PriceAgreed(o) \/ PriceRefused(o)
  PROVE  PlaceInv'
<1> USE DEF Start
<1>1. /\ orders \in [Order -> OrderRecord] /\ pq \in [Order -> QueueRecord]
      /\ orders[o] \in OrderRecord /\ Idle
  BY DEF TypeOK, NewRide, NewDeskRide, PassengerCancel, ConfirmActual, ConfirmNot, NewAddress,
         PriceAgreed, PriceRefused
<1>2. Held(orders[o], pq[o].row) /\ Clear(orders[o])
  BY DEF HandsInv, AllHeld, PlaceInv
<1>3. CASE NewRide(o) \/ NewDeskRide(o)
  <2>1. orders[o].driver = None /\ orders[o].parallel = None
    BY <1>2, <1>3 DEF NewRide, NewDeskRide, Held
  <2> DEFINE x == [orders[o] EXCEPT !.status = "created"]
             y == [orders[o] EXCEPT !.status = "queued"]
             z == [orders[o] EXCEPT !.status = "created", !.jobs = {"dispatcher_unclaimed"}]
  <2>2. PICK r \in {x, y, z} :
          /\ orders' = [orders EXCEPT ![o] = r]
          /\ \/ pq' = pq /\ agenda' = <<Offer(o, {})>>
             \/ pq' = Enqueue(pq, o) /\ agenda' = <<Do("notifyOrFallback", o)>>
    BY <1>1, <1>3 DEF NewRide, NewDeskRide
  <2>3. r.driver = None /\ r.parallel = None
    BY <1>1, <2>1 DEF OrderRecord
  <2> HIDE DEF x, y, z
  <2>4. CASE pq' = pq /\ agenda' = <<Offer(o, {})>>
    BY <1>1, <2>2, <2>3, <2>4, HandlerPlaced, StartedFind DEF Clear
  <2>5. CASE pq' = Enqueue(pq, o) /\ agenda' = <<Do("notifyOrFallback", o)>>
    <3>1. pq'[o].row # "none" /\ \A p \in Order \ {o} : pq'[p].row = pq[p].row
      BY <1>1, <2>5, RowsAfter DEF Parked
    <3> QED
      BY <1>1, <2>2, <2>3, <2>5, <3>1, HandlerPlaced, StartedFind DEF Clear, HasPlace
  <2> QED
    BY <2>2, <2>4, <2>5
<1>4. CASE PassengerCancel(o)
  <2>1. /\ UNCHANGED <<orders, pq>> /\ agenda' = <<Do("release", o), Do("passengerGone", o)>>
    BY <1>4 DEF PassengerCancel
  <2> QED
    BY <1>1, <2>1, QuietPlaced, StartedFind DEF Remains, Rests
<1>5. CASE ConfirmActual(o)
  <2>1. PICK P : P = Polls(pq) \ {o}
    OBVIOUS
  <2> DEFINE r == [orders[o] EXCEPT !.jobs = @ \ {"pqueue"}, !.confirmed = TRUE, !.fixing = FALSE]
             os == [orders EXCEPT ![o] = r]
             q1 == Pause(pq, P)
  <2>2. /\ pq' = [q1 EXCEPT ![o].row = "waiting"]
        /\ orders' = WithoutPolls(os, P) /\ agenda' = <<PromoteUnflushed>>
    BY <1>1, <1>5, <2>1 DEF ConfirmActual
  <2>3. r \in OrderRecord
    <3>1. ASSUME NEW v \in OrderRecord
          PROVE  [v EXCEPT !.jobs = v.jobs \ {"pqueue"}, !.confirmed = TRUE, !.fixing = FALSE]
                   \in OrderRecord
      BY DEF OrderRecord
    <3> QED
      BY <1>1, <3>1
  <2>4. Rests(orders[o], r)
    BY <1>1 DEF OrderRecord, Rests
  <2> HIDE DEF r
  <2>5. /\ os \in [Order -> OrderRecord]
        /\ \A p \in Order : Rests(orders[p], os[p])
    BY <1>1, <2>3, <2>4 DEF Rests
  <2> HIDE DEF os
  <2>6. q1 \in [Order -> QueueRecord] /\ \A p \in Order : pq[p].row # "none" => q1[p].row # "none"
    BY <1>1, PauseTypes, PausedRests
  <2> HIDE DEF q1
  <2>7. \A p \in Order : pq[p].row # "none" => pq'[p].row # "none"
    BY <2>2, <2>6, RowsAfter
  <2>8. \A p \in Order : Rests(os[p], orders'[p])
    BY <1>1, <2>2, <2>5, PausedRests
  <2>9. \A p \in Order : Remains(p)
    BY <2>5, <2>7, <2>8 DEF Remains, Rests
  <2> QED
    BY <1>1, <2>2, <2>9, QuietPlaced, StartedFind
<1>6. CASE ConfirmNot(o)
  <2> DEFINE w == Withdraw(orders[o])
             r == [w EXCEPT !.status = "cancelled", !.fixing = FALSE]
  <2>1. w \in OrderRecord /\ w.parallel = orders[o].parallel
    BY <1>1, ClosedFields
  <2>2. orders[o].parallel = None
    BY <1>2, <1>6 DEF ConfirmNot, Held, Parked
  <2>3. orders' = [orders EXCEPT ![o] = r] /\ pq' = Unqueue(pq, o) /\ agenda' = <<PromoteUnflushed>>
    BY <1>6 DEF ConfirmNot
  <2> HIDE DEF w
  <2>4. r.parallel = None /\ r.status = "cancelled"
    BY <2>1, <2>2 DEF OrderRecord
  <2> HIDE DEF r
  <2>5. \A p \in Order \ {o} : pq'[p].row = pq[p].row
    BY <1>1, <2>3, RowsAfter
  <2> QED
    BY <1>1, <2>3, <2>4, <2>5, HandlerPlaced, StartedFind, ClosedPlace
       DEF Clear, Pending, Candidate
<1>7. ~NewAddress(o)
  BY DEF NewAddress, SoundInv, AllSound, Sound, Asked
<1>8. CASE PriceAgreed(o) \/ PriceRefused(o)
  <2>1. orders[o].parallel = None
    BY <1>2, <1>8 DEF PriceAgreed, PriceRefused, Unanswered, Clear
  <2> DEFINE x == [orders[o] EXCEPT !.status = "assigned", !.confirmed = TRUE,
                                    !.card = @ \/ orders[o].driver # None, !.jobs = @ \ {"delivery"}]
             y == [orders[o] EXCEPT !.status = "cancelled", !.fixing = FALSE,
                                    !.jobs = @ \ {"delivery"}]
  <2>2. PICK r \in {x, y} : orders' = [orders EXCEPT ![o] = r]
    BY <1>1, <1>8 DEF PriceAgreed, PriceRefused, DeliveryOff
  <2>3. r.parallel = None /\ r.status \in {"assigned", "cancelled"}
    BY <1>1, <2>1 DEF OrderRecord
  <2>4. pq' = pq /\ agenda' = <<>>
    BY <1>8 DEF PriceAgreed, PriceRefused, DeliveryOff
  <2> HIDE DEF x, y
  <2> QED
    BY <1>1, <2>2, <2>3, <2>4, HandlerPlaced, StartedFind, ClosedPlace
       DEF Clear, Pending, Candidate
<1> QED
  BY <1>3, <1>4, <1>5, <1>6, <1>7, <1>8

\* Drivers who answer an offer, or claim a request.
LEMMA OfferPlaced ==
  ASSUME TypeOK, HandsInv, PlaceInv, AddressesStay, OfferStep
  PROVE  PlaceInv'
<1> USE DEF Start
<1>1. PICK d \in Driver, o \in Order :
        \/ Accept(d, o) \/ DeclineEnds(d, o) \/ DeclineAsksAddress(d, o)
        \/ DeclineAway(d, o) \/ \E reason \in Reason : DeclinePasses(d, o, reason)
        \/ TakePending(d, o) \/ TakeFromChat(d, o)
  BY DEF OfferStep
<1>2. /\ orders \in [Order -> OrderRecord] /\ pq \in [Order -> QueueRecord]
      /\ orders[o] \in OrderRecord /\ Idle
  BY <1>1 DEF TypeOK, Accept, DeclineEnds, DeclineAsksAddress, DeclineAway, DeclinePasses,
              TakePending, ClaimPending, TakeFromChat
<1>3. Held(orders[o], pq[o].row) /\ Clear(orders[o])
  BY DEF HandsInv, AllHeld, PlaceInv
<1>4. ~DeclineAsksAddress(d, o)
  BY DEF DeclineAsksAddress, AddressesStay
<1>5. orders[o].parallel = None
  <2>1. CASE TakePending(d, o)
    BY <2>1 DEF TakePending, ClaimPending
  <2>2. CASE TakeFromChat(d, o)
    BY <1>3, <2>2 DEF TakeFromChat, ChatClaimable, Clear, Pending, Candidate
  <2>3. CASE orders[o].offered = d
    BY <1>3, <2>3, NoneAssumption DEF Held
  <2> QED
    BY <1>1, <2>1, <2>2, <2>3 DEF Accept, DeclineEnds, DeclineAsksAddress, DeclineAway,
                                  DeclinePasses, Offered
<1> DEFINE c == Declined(orders[o])
           w == Withdraw(orders[o])
           wc == Withdraw(c)
           j == orders[o].jobs \ {"accept", "dispatcher_unclaimed"}
           k == w.jobs \ {"accept", "driver_chat", "dispatcher_unclaimed"}
<1>6. c \in OrderRecord /\ c.parallel = None /\ c.driver = orders[o].driver
  <2>1. c \in OrderRecord
    BY <1>2, OrderTypes
  <2>2. c.parallel = orders[o].parallel /\ c.driver = orders[o].driver
    BY <1>2 DEF Declined, OrderRecord
  <2> QED
    BY <1>5, <2>1, <2>2
<1>7. w \in OrderRecord /\ w.parallel = None /\ wc \in OrderRecord /\ wc.parallel = None
  <2>1. w \in OrderRecord /\ w.parallel = None
    BY <1>2, <1>5, ClosedFields
  <2> HIDE DEF c
  <2>2. wc \in OrderRecord /\ wc.parallel = None
    BY <1>6, ClosedFields
  <2> QED
    BY <2>1, <2>2
<1>8. \A r : /\ Prompted(o, r) \in {[r EXCEPT !.pricing = TRUE, !.card = FALSE],
                                    [r EXCEPT !.card = TRUE]}
  BY DEF Prompted
<1>9. ASSUME NEW r \in OrderRecord
      PROVE  Prompted(o, r).parallel = r.parallel /\ Prompted(o, r).status = r.status
  BY DEF Prompted, OrderRecord
<1> HIDE DEF c, w, wc
<1>10. ASSUME NEW r, orders' = [orders EXCEPT ![o] = r], r.status \notin Pending, r.parallel = None,
              pq' = pq \/ pq' = Unqueue(pq, o), agenda' = <<>> \/ agenda' = <<Promote>>
       PROVE  PlaceInv'
  <2>1. \A p \in Order \ {o} : pq'[p].row = pq[p].row
    BY <1>2, <1>10, RowsAfter
  <2> QED
    BY <1>2, <1>10, <2>1, HandlerPlaced, StartedFind, ClosedPlace DEF Clear
<1>11. CASE Accept(d, o)
  <2> DEFINE a == [orders[o] EXCEPT !.offered = None, !.driver = d, !.status = "assigned",
                                    !.jobs = j]
  <2>1. a \in OrderRecord
    <3>1. j \in SUBSET Timer
      BY <1>2 DEF OrderRecord
    <3>2. ASSUME NEW v \in OrderRecord, NEW l \in SUBSET Timer
          PROVE  [v EXCEPT !.offered = None, !.driver = d, !.status = "assigned", !.jobs = l]
                   \in OrderRecord
      BY DEF OrderRecord, OrderStatus
    <3> QED
      BY <1>2, <3>1, <3>2
  <2>2. a.status = "assigned" /\ a.parallel = None
    BY <1>2, <1>5 DEF OrderRecord
  <2>3. orders' = [orders EXCEPT ![o] = Prompted(o, a)] /\ pq' = pq /\ agenda' = <<>>
    BY <1>2, <1>11 DEF Accept
  <2> HIDE DEF a
  <2> QED
    BY <1>9, <1>10, <2>1, <2>2, <2>3 DEF Pending, Candidate
<1>12. CASE DeclineEnds(d, o)
  <2>1. /\ orders' = [orders EXCEPT ![o] = Cancel(wc)] /\ pq' = Unqueue(pq, o)
        /\ agenda' = <<Promote>>
    BY <1>2, <1>12 DEF DeclineEnds, wc, c
  <2>2. Cancel(wc).status = "cancelled" /\ Cancel(wc).parallel = None
    BY <1>7 DEF Cancel, OrderRecord
  <2> QED
    BY <1>10, <2>1, <2>2 DEF Pending, Candidate
<1>13. CASE DeclineAway(d, o) \/ \E reason \in Reason : DeclinePasses(d, o, reason)
  <2> DEFINE x == [c EXCEPT !.declined = @ \union {d}]
  <2>1. PICK r :
          /\ orders' = [orders EXCEPT ![o] = r]
          /\ r = x \/ \E b \in BOOLEAN : r = [c EXCEPT !.declined = @ \union {d}, !.special = @ \/ b]
    <3>1. CASE DeclineAway(d, o)
      BY <3>1 DEF DeclineAway, c
    <3>2. ASSUME NEW reason \in Reason, DeclinePasses(d, o, reason)
          PROVE  \E b \in BOOLEAN : orders' = [orders EXCEPT ![o] =
                                      [c EXCEPT !.declined = @ \union {d}, !.special = @ \/ b]]
      BY <3>2 DEF DeclinePasses, c
    <3> QED
      BY <1>13, <3>1, <3>2
  <2>2. agenda' \in {<<Offer(o, {})>>, <<Offer(o, {}), Promote>>} /\ UNCHANGED pq
    BY <1>13 DEF DeclineAway, DeclinePasses
  <2>3. orders[o].driver = None
    BY <1>3, <1>13, NoneAssumption DEF DeclineAway, DeclinePasses, Offered, Held
  <2>4. r.driver = None /\ r.parallel = None
    BY <1>6, <2>1, <2>3 DEF OrderRecord
  <2>5. /\ \A p \in Order \ {o} : pq'[p].row = pq[p].row
        /\ SoughtFor(o, agenda') /\ \A v \in Calls(agenda') : v.fn = "offer" => v.order = o
    <3>1. \A t \in {<<Offer(o, {})>>, <<Offer(o, {}), Promote>>} :
            SoughtFor(o, t) /\ \A v \in Calls(t) : v.fn = "offer" => v.order = o
      BY StartedFind
    <3> QED
      BY <2>2, <3>1
  <2>6. Clear(r)
    BY <2>4 DEF Clear
  <2> HIDE DEF x
  <2> QED
    BY <1>2, <2>1, <2>4, <2>5, <2>6, HandlerPlaced
<1>14. CASE TakePending(d, o) \/ TakeFromChat(d, o)
  <2> DEFINE a == [w EXCEPT !.driver = d, !.status = "assigned", !.chatOffline = FALSE, !.jobs = k]
             b == [w EXCEPT !.driver = d, !.status = "assigned", !.offered = None, !.card = TRUE,
                            !.chatOffline = ~fleet[d].onLine, !.jobs = k]
  <2>1. PICK r : orders' = [orders EXCEPT ![o] = r] /\ r \in {b, Prompted(o, a)}
    BY <1>14 DEF TakePending, ClaimPending, TakeFromChat, w
  <2>2. pq' = Unqueue(pq, o) /\ agenda' = <<>>
    BY <1>14 DEF TakePending, ClaimPending, TakeFromChat
  <2> HIDE DEF k
  <2>3. /\ a.status = "assigned" /\ a.parallel = None
        /\ b.status = "assigned" /\ b.parallel = None
    BY <1>7 DEF OrderRecord
  <2>4. a \in OrderRecord
    <3>1. k \in SUBSET Timer
      BY <1>7 DEF OrderRecord, k
    <3>2. ASSUME NEW v \in OrderRecord, NEW l \in SUBSET Timer
          PROVE  [v EXCEPT !.driver = d, !.status = "assigned", !.chatOffline = FALSE, !.jobs = l]
                   \in OrderRecord
      BY DEF OrderRecord, OrderStatus
    <3> QED
      BY <1>7, <3>1, <3>2
  <2> HIDE DEF a, b
  <2>5. r.status = "assigned" /\ r.parallel = None
    BY <1>9, <2>1, <2>3, <2>4
  <2> QED
    BY <1>10, <2>1, <2>2, <2>5 DEF Pending, Candidate
<1> QED
  BY <1>1, <1>4, <1>11, <1>12, <1>13, <1>14

\* The driver of a trip.
LEMMA TripPlaced ==
  ASSUME TypeOK, HandsInv, PlaceInv, NEW d \in Driver, NEW o \in Order,
         \/ SubmitPrice(d, o) \/ ApplyEta(d, o) \/ Arrived(d, o) \/ Seated(d, o)
         \/ Complete(d, o)
         \/ \E outcome \in {"tripVoided", "carFailed"} : CancelActive(d, o, outcome)
  PROVE  PlaceInv'
<1> USE DEF Start
<1>1. /\ orders \in [Order -> OrderRecord] /\ orders[o] \in OrderRecord /\ Idle /\ pq' = pq
  BY DEF TypeOK, SubmitPrice, ApplyEta, Arrived, Seated, Complete, CancelActive
<1>2. Clear(orders[o])
  BY DEF PlaceInv
<1>3. ASSUME NEW r, orders' = [orders EXCEPT ![o] = r], Rests(orders[o], r), Mild(agenda')
      PROVE  PlaceInv'
  <2>1. \A p \in Order : Remains(p)
    BY <1>1, <1>3, OneRemains
  <2> QED
    BY <1>1, <1>3, <2>1, QuietPlaced
<1>4. ASSUME NEW r, orders' = [orders EXCEPT ![o] = r], o \in Busy(orders, d),
             r.status \notin Pending, r.parallel = orders[o].parallel, Mild(agenda')
      PROVE  PlaceInv'
  <2>1. Clear(r)
    BY <1>2, <1>4 DEF Clear, Busy, Active, Pending, Candidate
  <2> QED
    BY <1>1, <1>4, <2>1, HandlerPlaced, ClosedPlace
<1>5. CASE SubmitPrice(d, o)
  <2> DEFINE x == [orders[o] EXCEPT !.pricing = FALSE, !.confirmed = TRUE, !.card = TRUE]
             y == [orders[o] EXCEPT !.pricing = FALSE, !.confirmed = FALSE, !.proposed = TRUE,
                              !.fixing = FALSE, !.jobs = @ \union {"delivery"}]
  <2>1. PICK r \in {x, y} : orders' = [orders EXCEPT ![o] = r]
    BY <1>5 DEF SubmitPrice
  <2>2. Rests(orders[o], r)
    <3>1. Rests(orders[o], x)
      BY <1>1 DEF Rests, OrderRecord
    <3>2. Rests(orders[o], y)
      BY <1>1 DEF Rests, OrderRecord
    <3> QED
      BY <2>1, <3>1, <3>2
  <2>3. agenda' = <<>>
    BY <1>5 DEF SubmitPrice
  <2> HIDE DEF x, y
  <2> QED
    BY <1>3, <2>1, <2>2, <2>3, StartedFind
<1>6. CASE ApplyEta(d, o)
  <2> DEFINE r == [orders[o] EXCEPT !.card = FALSE, !.departed = TRUE, !.fixing = FALSE]
  <2>1. orders' = [orders EXCEPT ![o] = r] /\ agenda' = <<>>
    BY <1>1, <1>6 DEF ApplyEta
  <2>2. Rests(orders[o], r)
    BY <1>1 DEF Rests, OrderRecord
  <2> HIDE DEF r
  <2> QED
    BY <1>3, <2>1, <2>2, StartedFind
<1>7. CASE Arrived(d, o) \/ Seated(d, o)
  <2> DEFINE x == [orders[o] EXCEPT !.status = "arrived"]
             y == [orders[o] EXCEPT !.status = "in_progress"]
  <2>1. PICK r \in {x, y} : orders' = [orders EXCEPT ![o] = r]
    BY <1>1, <1>7 DEF Arrived, Seated
  <2>2. r.status \in {"arrived", "in_progress"} /\ r.parallel = orders[o].parallel
    BY <1>1, <2>1 DEF OrderRecord
  <2>3. /\ o \in Busy(orders, d)
        /\ agenda' = <<>> \/ \E p \in Order : agenda' = <<Do("notify", p)>>
    BY <1>7 DEF Arrived, Seated
  <2>4. Mild(agenda')
    <3>1. Mild(<<>>) /\ \A p \in Order : Mild(<<Do("notify", p)>>)
      BY StartedFind
    <3> QED
      BY <2>3, <3>1
  <2> HIDE DEF x, y
  <2> QED
    BY <1>4, <2>1, <2>2, <2>3, <2>4 DEF Pending, Candidate
<1>8. CASE Complete(d, o)
  <2> DEFINE r == [orders[o] EXCEPT !.status = "completed", !.jobs = {}, !.fixing = FALSE]
  <2>1. /\ orders' = [orders EXCEPT ![o] = r] /\ o \in Busy(orders, d)
        /\ agenda' = <<Do("release", o), For("rideDone", o, d)>>
    BY <1>1, <1>8 DEF Complete
  <2>2. r.status = "completed" /\ r.parallel = orders[o].parallel
    BY <1>1 DEF OrderRecord
  <2>3. Mild(agenda')
    BY <2>1, StartedFind
  <2> HIDE DEF r
  <2> QED
    BY <1>4, <2>1, <2>2, <2>3 DEF Pending, Candidate
<1>9. ASSUME NEW outcome \in {"tripVoided", "carFailed"}, CancelActive(d, o, outcome)
      PROVE  PlaceInv'
  <2> DEFINE r == [orders[o] EXCEPT !.jobs = {}]
  <2>1. /\ orders' = [orders EXCEPT ![o] = r]
        /\ agenda' = <<Do("release", o), For(outcome, o, d)>>
    BY <1>1, <1>9 DEF CancelActive
  <2>2. Rests(orders[o], r)
    BY <1>1 DEF Rests, OrderRecord
  <2>3. Mild(agenda')
    BY <2>1, StartedFind
  <2> HIDE DEF r
  <2> QED
    BY <1>3, <2>1, <2>2, <2>3
<1> QED
  BY <1>5, <1>6, <1>7, <1>8, <1>9

\* Parallel orders: a request that its driver gives back waits again, or is about to.
LEMMA ParallelPlaced ==
  ASSUME TypeOK, HandsInv, PlaceInv, NEW d \in Driver, NEW o \in Order,
         \/ \E t \in Order : Take(d, o, t) \/ TakeRouteOffer(d, o, t)
         \/ SaveEta(d, o) \/ DeclineReserved(d, o) \/ DeclineRouteOffer(d, o)
  PROVE  PlaceInv'
<1> USE DEF Start
<1>1. /\ orders \in [Order -> OrderRecord] /\ pq \in [Order -> QueueRecord]
      /\ orders[o] \in OrderRecord /\ Idle
  BY DEF TypeOK, Take, TakeRouteOffer, SaveEta, DeclineReserved, DeclineRouteOffer
<1> DEFINE c == CloseRoute(orders[o])
<1>2. c \in OrderRecord /\ Rests(orders[o], c)
  BY <1>1, ShutRests
<1>3. ASSUME NEW t \in Order, Take(d, o, t)
      PROVE  PlaceInv'
  <2> DEFINE r == [c EXCEPT !.parallel = d, !.driver = d, !.status = "parallel_assigned",
                            !.card = TRUE, !.jobs = c.jobs \union {"parallel_eta"}]
  <2>1. orders' = [orders EXCEPT ![o] = r] /\ agenda' = <<>> /\ pq' = Unqueue(pq, o)
    BY <1>3 DEF Take
  <2> HIDE DEF c
  <2>2. r.status = "parallel_assigned"
    BY <1>2 DEF OrderRecord
  <2> HIDE DEF r
  <2>3. \A p \in Order \ {o} : pq'[p].row = pq[p].row
    BY <1>1, <2>1, RowsAfter
  <2>4. Clear(r) /\ HasPlace(o, r, pq'[o].row) /\ Mild(agenda')
    BY <2>1, <2>2, StartedFind DEF Clear, HasPlace, Pending, Candidate
  <2> QED
    BY <1>1, <2>1, <2>3, <2>4, HandlerPlaced
<1>4. ASSUME NEW t \in Order, TakeRouteOffer(d, o, t)
      PROVE  PlaceInv'
  BY <1>3, <1>4 DEF TakeRouteOffer
<1>5. ASSUME NEW r, orders' = [orders EXCEPT ![o] = r], Rests(orders[o], r), Mild(agenda'), pq' = pq
      PROVE  PlaceInv'
  <2>1. \A p \in Order : Remains(p)
    BY <1>5, OneRemains
  <2> QED
    BY <1>1, <1>5, <2>1, QuietPlaced
<1>6. CASE SaveEta(d, o)
  <2> DEFINE r == [orders[o] EXCEPT !.etaSet = TRUE, !.card = FALSE, !.jobs = @ \ {"parallel_eta"}]
  <2>1. orders' = [orders EXCEPT ![o] = r] /\ agenda' = <<>> /\ pq' = pq
    BY <1>1, <1>6 DEF SaveEta
  <2>2. Rests(orders[o], r)
    BY <1>1 DEF Rests, OrderRecord
  <2> HIDE DEF r
  <2> QED
    BY <1>5, <2>1, <2>2, StartedFind
<1>7. CASE DeclineReserved(d, o)
  <2> DEFINE r == [Released(orders[o]) EXCEPT !.card = FALSE]
  <2>1. /\ orders' = [orders EXCEPT ![o] = r]
        /\ \/ pq' = pq /\ agenda' = <<Do("fallback", o)>>
           \/ pq' = [Enqueue(pq, o) EXCEPT ![o].row = "waiting"] /\ agenda' = <<Promote>>
    BY <1>7 DEF DeclineReserved, Reserved
  <2>2. r.status = "queued" /\ r.driver = None /\ r.parallel = None
    BY <1>1, ReleasedFields
  <2> HIDE DEF r
  <2>3. Clear(r)
    BY <2>2 DEF Clear
  <2>4. CASE pq' = pq /\ agenda' = <<Do("fallback", o)>>
    <3>1. SoughtFor(o, agenda') /\ Mild(agenda')
      BY <2>4, StartedFind
    <3> QED
      BY <1>1, <2>1, <2>2, <2>3, <2>4, <3>1, HandlerPlaced DEF Mild
  <2>5. CASE pq' = [Enqueue(pq, o) EXCEPT ![o].row = "waiting"] /\ agenda' = <<Promote>>
    <3>1. pq'[o].row = "waiting" /\ \A p \in Order \ {o} : pq'[p].row = pq[p].row
      BY <1>1, <2>5, RowsAfter
    <3>2. HasPlace(o, r, pq'[o].row) /\ Mild(agenda')
      BY <2>5, <3>1, StartedFind DEF HasPlace
    <3> QED
      BY <1>1, <2>1, <2>3, <3>1, <3>2, HandlerPlaced
  <2> QED
    BY <2>1, <2>4, <2>5
<1>8. CASE DeclineRouteOffer(d, o)
  <2> DEFINE r == [c EXCEPT !.noAuto = @ \union {d}]
  <2>1. /\ orders' = [orders EXCEPT ![o] = r] /\ agenda' = <<Do("fallback", o)>> /\ pq' = pq
    BY <1>8 DEF DeclineRouteOffer
  <2> HIDE DEF c
  <2>2. Rests(c, r)
    BY <1>2 DEF OrderRecord, Rests
  <2> HIDE DEF r
  <2>3. Rests(orders[o], r)
    BY <1>2, <2>2 DEF Rests
  <2> QED
    BY <1>5, <2>1, <2>3, StartedFind
<1> QED
  BY <1>3, <1>4, <1>6, <1>7, <1>8

\* Menu commands, the recovery worker and the timer of an absent driver.
LEMMA LinePlaced ==
  ASSUME PlaceInv, LineStep \/ Recovery \/ (\E d \in Driver : AwayTimeout(d))
  PROVE  PlaceInv'
<1>1. /\ UNCHANGED <<orders, pq>> /\ agenda' \in {<<>>, <<Promote>>} /\ Idle
  BY DEF LineStep, GoOnline, SetLine, LeaveLine, GoAway, Recovery, AwayTimeout, Start
<1>2. \A p \in Order : Remains(p)
  BY <1>1 DEF Remains, Rests
<1> QED
  BY <1>1, <1>2, QuietPlaced, StartedFind

\* The timers of one request.
LEMMA TimerPlaced ==
  ASSUME TypeOK, HandsInv, PlaceInv, NEW o \in Order,
         \/ AcceptTimeout(o) \/ PollTimeout(o) \/ EtaTimeout(o) \/ ChatTimeout(o)
         \/ UnclaimedTimeout(o) \/ DeliveryTimeout(o)
  PROVE  PlaceInv'
<1> USE DEF Start
<1>1. /\ orders \in [Order -> OrderRecord] /\ pq \in [Order -> QueueRecord]
      /\ orders[o] \in OrderRecord /\ Idle
  BY DEF TypeOK, AcceptTimeout, PollTimeout, EtaTimeout, ChatTimeout, UnclaimedTimeout,
         DeliveryTimeout
<1>2. Held(orders[o], pq[o].row) /\ Clear(orders[o])
  BY DEF HandsInv, AllHeld, PlaceInv
<1>3. ASSUME NEW kind, orders' = [orders EXCEPT ![o] = Expired(orders[o], kind)],
             agenda' = <<>>, pq' = pq
      PROVE  PlaceInv'
  <2>1. Rests(orders[o], Expired(orders[o], kind))
    BY <1>1 DEF Rests, OrderRecord, Expired
  <2>2. \A p \in Order : Remains(p)
    BY <1>3, <2>1, OneRemains
  <2> QED
    BY <1>1, <1>3, <2>2, QuietPlaced, StartedFind
<1>4. ASSUME NEW r, orders' = [orders EXCEPT ![o] = r], r.status = "cancelled", r.parallel = None,
             pq' = pq \/ pq' = Unqueue(pq, o), agenda' = <<>> \/ agenda' = <<PromoteUnflushed>>
      PROVE  PlaceInv'
  <2>1. \A p \in Order \ {o} : pq'[p].row = pq[p].row
    BY <1>1, <1>4, RowsAfter
  <2>2. Clear(r) /\ Mild(agenda') /\ HasPlace(o, r, pq'[o].row)
    BY <1>4, StartedFind, ClosedPlace DEF Clear, Pending, Candidate
  <2> QED
    BY <1>1, <1>4, <2>1, <2>2, HandlerPlaced
<1>5. CASE AcceptTimeout(o)
  <2>1. CASE ~(orders[o].status = "searching" /\ orders[o].offered # None)
    <3>1. /\ orders' = [orders EXCEPT ![o] = Expired(orders[o], "accept")]
          /\ agenda' = <<>> /\ pq' = pq
      BY <1>1, <1>5, <2>1 DEF AcceptTimeout, Expired
    <3> QED
      BY <1>3, <3>1
  <2>2. CASE orders[o].status = "searching" /\ orders[o].offered # None
    <3>1. PICK r, d : r = Declined(orders[o]) /\ d = orders[o].offered
      OBVIOUS
    <3>2. orders' = [orders EXCEPT ![o] = r] /\ agenda' = <<Offer(o, {d}), Promote>> /\ pq' = pq
      BY <1>5, <2>2, <3>1 DEF AcceptTimeout
    <3>3. r.parallel = orders[o].parallel /\ r.driver = orders[o].driver
      BY <1>1, <3>1 DEF Declined, OrderRecord
    <3>4. r.parallel = None /\ r.driver = None
      BY <1>2, <2>2, <3>3 DEF Held
    <3>5. SoughtFor(o, agenda') /\ \A v \in Calls(agenda') : v.fn = "offer" => v.order = o
      <4>1. \A t \in {<<Offer(o, {d})>>, <<Offer(o, {d}), Promote>>} :
              SoughtFor(o, t) /\ \A v \in Calls(t) : v.fn = "offer" => v.order = o
        BY StartedFind
      <4> QED
        BY <3>2, <4>1
    <3> QED
      BY <1>1, <3>2, <3>4, <3>5, HandlerPlaced DEF Clear
  <2> QED
    BY <2>1, <2>2
<1>6. CASE PollTimeout(o)
  <2>1. CASE pq[o].row # "polling"
    <3>1. /\ orders' = [orders EXCEPT ![o] = Expired(orders[o], "pqueue")]
          /\ agenda' = <<>> /\ pq' = pq
      BY <1>1, <1>6, <2>1 DEF PollTimeout, Expired
    <3> QED
      BY <1>3, <3>1
  <2>2. CASE pq[o].row = "polling"
    <3> DEFINE w == Withdraw(orders[o])
               r == [w EXCEPT !.status = "cancelled", !.fixing = FALSE]
    <3>1. /\ orders' = [orders EXCEPT ![o] = r] /\ pq' = Unqueue(pq, o)
          /\ agenda' = <<PromoteUnflushed>>
      BY <1>6, <2>2 DEF PollTimeout
    <3>2. w \in OrderRecord /\ w.parallel = None
      <4>1. orders[o].parallel = None
        BY <1>2, <2>2 DEF Held
      <4> QED
        BY <1>1, <4>1, ClosedFields
    <3> HIDE DEF w
    <3>3. r.status = "cancelled" /\ r.parallel = None
      BY <3>2 DEF OrderRecord
    <3> HIDE DEF r
    <3> QED
      BY <1>4, <3>1, <3>3
  <2> QED
    BY <2>1, <2>2
<1>7. CASE EtaTimeout(o)
  <2>1. CASE ~(orders[o].status = "parallel_assigned" /\ ~orders[o].etaSet)
    <3>1. /\ orders' = [orders EXCEPT ![o] = Expired(orders[o], "parallel_eta")]
          /\ agenda' = <<>> /\ pq' = pq
      BY <1>1, <1>7, <2>1 DEF EtaTimeout, Expired
    <3> QED
      BY <1>3, <3>1
  <2>2. CASE orders[o].status = "parallel_assigned" /\ ~orders[o].etaSet
    <3> DEFINE r == [Released(orders[o]) EXCEPT !.card = FALSE]
    <3>1. /\ orders' = [orders EXCEPT ![o] = r] /\ agenda' = <<Promote>>
          /\ pq' = [Enqueue(pq, o) EXCEPT ![o].row = "waiting"]
      BY <1>7, <2>2 DEF EtaTimeout
    <3>2. r.status = "queued" /\ r.driver = None /\ r.parallel = None
      BY <1>1, ReleasedFields
    <3> HIDE DEF r
    <3>3. pq'[o].row = "waiting" /\ \A p \in Order \ {o} : pq'[p].row = pq[p].row
      BY <1>1, <3>1, RowsAfter
    <3>4. Clear(r) /\ HasPlace(o, r, pq'[o].row) /\ Mild(agenda')
      BY <3>1, <3>2, <3>3, StartedFind DEF Clear, HasPlace
    <3> QED
      BY <1>1, <3>1, <3>3, <3>4, HandlerPlaced
  <2> QED
    BY <2>1, <2>2
<1>8. CASE ChatTimeout(o)
  <2>1. CASE orders[o].status # "chat_search"
    <3>1. /\ orders' = [orders EXCEPT ![o] = Expired(orders[o], "driver_chat")]
          /\ agenda' = <<>> /\ pq' = pq
      BY <1>1, <1>8, <2>1 DEF ChatTimeout, Expired
    <3> QED
      BY <1>3, <3>1
  <2>2. CASE orders[o].status = "chat_search"
    <3> DEFINE r == [orders[o] EXCEPT !.status = "cancelled", !.fixing = FALSE,
                                      !.jobs = @ \ {"driver_chat"}]
    <3>1. orders' = [orders EXCEPT ![o] = r] /\ agenda' = <<>> /\ pq' = pq
      BY <1>8, <2>2 DEF ChatTimeout
    <3>2. r.status = "cancelled" /\ r.parallel = None
      <4>1. orders[o].parallel = None
        BY <1>2, <2>2 DEF Clear
      <4> QED
        BY <1>1, <4>1 DEF OrderRecord
    <3> HIDE DEF r
    <3> QED
      BY <1>4, <3>1, <3>2
  <2> QED
    BY <2>1, <2>2
<1>9. CASE UnclaimedTimeout(o)
  <2>1. PICK b \in BOOLEAN : b = (/\ orders[o].driver = None /\ orders[o].parallel = None
                                  /\ orders[o].status \in Pending)
    OBVIOUS
  <2>2. CASE ~b
    <3>1. /\ orders' = [orders EXCEPT ![o] = Expired(orders[o], "dispatcher_unclaimed")]
          /\ agenda' = <<>> /\ pq' = pq
      BY <1>1, <1>9, <2>1, <2>2 DEF UnclaimedTimeout, Expired
    <3> QED
      BY <1>3, <3>1
  <2>3. CASE b
    <3> DEFINE w == Withdraw(orders[o])
               r == [w EXCEPT !.status = "cancelled", !.offered = None,
                              !.jobs = @ \ {"accept", "dispatcher_unclaimed"}]
    <3>1. orders' = [orders EXCEPT ![o] = r] /\ agenda' = <<>> /\ pq' = Unqueue(pq, o)
      BY <1>9, <2>1, <2>3 DEF UnclaimedTimeout
    <3>2. w \in OrderRecord /\ w.parallel = None
      BY <1>1, <2>1, <2>3, ClosedFields
    <3> HIDE DEF w
    <3>3. r.status = "cancelled" /\ r.parallel = None
      BY <3>2 DEF OrderRecord
    <3> HIDE DEF r
    <3> QED
      BY <1>4, <3>1, <3>3
  <2> QED
    BY <2>2, <2>3
<1>10. CASE DeliveryTimeout(o)
  <2>1. CASE ~Unanswered(orders[o])
    <3>1. /\ orders' = [orders EXCEPT ![o] = Expired(orders[o], "delivery")]
          /\ agenda' = <<>> /\ pq' = pq
      BY <1>1, <1>10, <2>1 DEF DeliveryTimeout, Expired
    <3> QED
      BY <1>3, <3>1
  <2>2. CASE Unanswered(orders[o])
    <3> DEFINE r == [orders[o] EXCEPT !.status = "cancelled", !.fixing = FALSE,
                                      !.jobs = @ \ {"delivery"}]
    <3>1. orders' = [orders EXCEPT ![o] = r] /\ pq' = pq /\ agenda' = <<>>
      BY <1>1, <1>10, <2>2 DEF DeliveryTimeout, DeliveryOff
    <3>2. r.status = "cancelled" /\ r.parallel = None
      <4>1. orders[o].parallel = None
        BY <1>2, <2>2 DEF Clear, Unanswered
      <4> QED
        BY <1>1, <4>1 DEF OrderRecord
    <3> HIDE DEF r
    <3> QED
      BY <1>4, <3>1, <3>2
  <2> QED
    BY <2>1, <2>2
<1> QED
  BY <1>5, <1>6, <1>7, <1>8, <1>9, <1>10

\* The card for the road whose driver did not answer.
LEMMA RouteTimeoutPlaced ==
  ASSUME TypeOK, PlaceInv, NEW o \in Order, RouteOfferTimeout(o)
  PROVE  PlaceInv'
<1>1. /\ orders \in [Order -> OrderRecord] /\ orders[o] \in OrderRecord /\ Idle /\ pq' = pq
  BY DEF TypeOK, RouteOfferTimeout, Start
<1> DEFINE r == orders[o]
           d == r.routeDriver
           c == CloseRoute(r)
           closed == [orders EXCEPT ![o] = c]
           os == [p \in Order |->
                    IF p = o THEN [closed[o] EXCEPT !.noAuto = @ \union {d}]
                    ELSE IF p = r.routeTrip /\ p \in Trips(orders, d)
                         THEN [closed[p] EXCEPT !.autoOff = TRUE]
                    ELSE closed[p]]
<1>2. \/ orders' = os /\ agenda' = <<Do("fallback", o), Promote>>
      \/ orders' = closed /\ agenda' = <<>>
  BY DEF RouteOfferTimeout, Start
<1>3. c \in OrderRecord /\ Rests(orders[o], c)
  BY <1>1, ShutRests
<1>4. closed[o] = c /\ \A p \in Order \ {o} : closed[p] = orders[p]
  BY <1>1
<1> HIDE DEF c, closed
<1>5. \A p \in Order : Rests(orders[p], orders'[p])
  <2>1. CASE orders' = closed
    BY <1>3, <1>4, <2>1 DEF Rests
  <2>2. CASE orders' = os
    <3>1. /\ orders'[o] = [c EXCEPT !.noAuto = @ \union {d}]
          /\ \A p \in Order \ {o} :
               orders'[p] = orders[p] \/ orders'[p] = [orders[p] EXCEPT !.autoOff = TRUE]
      BY <1>4, <2>2
    <3>2. Rests(c, [c EXCEPT !.noAuto = @ \union {d}])
      BY <1>3 DEF OrderRecord, Rests
    <3>3. \A v \in OrderRecord : Rests(v, v) /\ Rests(v, [v EXCEPT !.autoOff = TRUE])
      BY DEF OrderRecord, Rests
    <3> HIDE DEF os, d
    <3>4. Rests(orders[o], orders'[o])
      BY <1>3, <3>1, <3>2 DEF Rests
    <3>5. ASSUME NEW p \in Order \ {o} PROVE Rests(orders[p], orders'[p])
      <4>1. orders[p] \in OrderRecord
        BY <1>1
      <4>2. CASE orders'[p] = orders[p]
        BY <4>2 DEF Rests
      <4>3. CASE orders'[p] = [orders[p] EXCEPT !.autoOff = TRUE]
        BY <3>3, <4>1, <4>3
      <4> QED
        BY <3>1, <4>2, <4>3
    <3> QED
      BY <3>4, <3>5
  <2> QED
    BY <1>2, <2>1, <2>2
<1>6. Mild(agenda')
  <2>1. agenda' = <<Do("fallback", o), Promote>> \/ agenda' = <<>>
    BY <1>2
  <2>2. Mild(<<Do("fallback", o), Promote>>) /\ Mild(<<>>)
    BY StartedFind
  <2> HIDE DEF os, d, r
  <2> QED
    BY <2>1, <2>2
<1>7. \A p \in Order : Remains(p)
  BY <1>1, <1>5 DEF Remains
<1> QED
  BY <1>1, <1>6, <1>7, QuietPlaced

\* The rest of a handler is the only call: it moves one request, or none.
LEMMA EndPlaced ==
  ASSUME TypeOK, HandsInv, PlaceInv, ~Idle, Arg.fn \in Ender, NEW t \in Seq(Call), Then(t),
         NEW o \in Order, NEW r, orders' = [orders EXCEPT ![o] = r],
         \A p \in Order \ {o} : pq'[p].row = pq[p].row,
         Clear(r),
         \/ HasPlace(o, r, pq'[o].row) /\ Mild(t)
         \/ r.driver = None /\ SoughtFor(o, t)
            /\ \A c \in Calls(t) : c.fn = "offer" => c.order = o
  PROVE  PlaceInv'
<1>1. orders'[o] = r /\ \A p \in Order \ {o} : orders'[p] = orders[p]
  BY DEF TypeOK
<1>2. \A p \in Order \ {o} : Remains(p)
  BY <1>1 DEF Remains, Rests
<1>3. Calls(agenda) = {Arg} /\ Arg.fn \notin Sought /\ {o} \in SUBSET Order
  BY OnlyCall DEF Ender, OfTrip, Sought
<1>4. agenda' = t
  <2>1. agenda \in Seq(Call) /\ Len(agenda) = 1 /\ agenda # <<>>
    BY OnlyCall DEF TypeOK, Idle
  <2>2. Tail(agenda) = <<>>
    <3>1. Tail(agenda) \in Seq(Call) /\ Len(Tail(agenda)) = 0
      BY <2>1, HeadTailProperties
    <3> QED
      BY <3>1, NoCalls
  <2>3. t \o <<>> = t
    OBVIOUS
  <2> QED
    BY <2>2, <2>3 DEF Then
<1>5. /\ Clear(orders'[o])
      /\ HasPlace(o, orders'[o], pq'[o].row) \/ SoughtFor(o, agenda')
      /\ \A c \in Calls(agenda') : c.fn = "offer" => orders'[c.order].driver = None
  BY <1>1, <1>4 DEF Mild
<1> QED
  BY <1>2, <1>3, <1>5, SomePlaced

\* What a handler does after its other calls.
LEMMA ResumedPlaced ==
  ASSUME TypeOK, HandsInv, PlaceInv, ResumedStep
  PROVE  PlaceInv'
<1> USE DEF Calling
<1>1. /\ orders \in [Order -> OrderRecord] /\ pq \in [Order -> QueueRecord]
      /\ agenda \in Seq(Call)
  BY DEF TypeOK
<1>2. ~Idle /\ Arg.fn \in Ender
  BY DEF Arg, Ender, OfTrip, ResumedStep, PassengerGone, RideDone, TripVoided, CarFailed, TripLost
<1>3. PICK o, d : o = Arg.order /\ d = Arg.driver
  OBVIOUS
<1>4. /\ o \in Order /\ orders[o] \in OrderRecord
      /\ Arg.fn # "passengerGone" => d \in Driver
  BY <1>1, <1>2, <1>3, ArgTypes DEF AboutNoOrder, ForDriver, Ender, OfTrip
<1>5. Clear(orders[o]) /\ HasPlace(o, orders[o], pq[o].row)
  <2>1. ~SoughtFor(o, agenda)
    BY <1>2, OnlyCall DEF SoughtFor, Sought, Ender, OfTrip
  <2> QED
    BY <1>4, <2>1 DEF PlaceInv
<1>6. ASSUME Arg.fn \in OfTrip PROVE orders[o].parallel = None
  <2>1. 1 \in DOMAIN agenda /\ Arg = agenda[1]
    BY <1>1, <1>2 DEF Idle, Arg
  <2>2. Ready(Arg, orders, pq)
    BY <2>1 DEF HandsInv, AllReady
  <2> QED
    BY <1>3, <1>5, <1>6, <2>2 DEF Ready, Clear
<1>7. ASSUME NEW e \in Driver
      PROVE  \A t \in {<<For("startReserved", None, e)>>, <<For("postRide", None, e)>>,
                       <<Promote, For("postRide", None, e)>>,
                       <<For("startReserved", None, e), PromoteUnflushed>>} :
               t \in Seq(Call) /\ Mild(t)
  <2>1. /\ Promote \in Call /\ PromoteUnflushed \in Call
        /\ For("startReserved", None, e) \in Call /\ For("postRide", None, e) \in Call
    BY CallTypes
  <2>2. /\ Mild(<<For("startReserved", None, e)>>) /\ Mild(<<For("postRide", None, e)>>)
        /\ Mild(<<Promote, For("postRide", None, e)>>)
        /\ Mild(<<For("startReserved", None, e), PromoteUnflushed>>)
    BY StartedFind
  <2>3. /\ \A a \in Call : <<a>> \in Seq(Call)
        /\ \A a, b \in Call : <<a, b>> \in Seq(Call)
    OBVIOUS
  <2> QED
    BY <2>1, <2>2, <2>3
<1>8. ASSUME NEW t \in Seq(Call), Mild(t), Then(t), UNCHANGED <<orders, pq>>
      PROVE  PlaceInv'
  <2>1. orders' = [orders EXCEPT ![o] = orders[o]]
    BY <1>1, <1>8
  <2> QED
    BY <1>2, <1>4, <1>5, <1>8, <2>1, EndPlaced
<1>9. ASSUME NEW r, orders' = [orders EXCEPT ![o] = r], r.status = "cancelled", r.parallel = None,
             pq' = pq \/ pq' = Unqueue(pq, o), NEW t \in Seq(Call), Mild(t), Then(t)
      PROVE  PlaceInv'
  <2>1. \A p \in Order \ {o} : pq'[p].row = pq[p].row
    BY <1>1, <1>4, <1>9, RowsAfter
  <2>2. Clear(r) /\ HasPlace(o, r, pq'[o].row)
    BY <1>9, ClosedPlace DEF Clear, Pending, Candidate
  <2> QED
    BY <1>2, <1>4, <1>9, <2>1, <2>2, EndPlaced
<1>10. CASE PassengerGone
  <2> DEFINE shown == orders[o].offered # None /\ orders[o].driver = None
             drove == orders[o].driver # None /\ orders[o].parallel = None
             w == Withdraw(orders[o])
             c == Cancel(w)
             x == IF shown THEN None ELSE c.offered
             y == IF drove THEN c.driver ELSE None
             r == [c EXCEPT !.offered = x, !.driver = y, !.parallel = None]
  <2>1. orders' = [orders EXCEPT ![o] = r] /\ pq' = Unqueue(pq, o)
    BY <1>3, <1>10 DEF PassengerGone
  <2>2. w \in OrderRecord
    BY <1>4, ClosedFields
  <2> HIDE DEF w
  <2>3. c \in OrderRecord /\ c.status = "cancelled"
    <3>1. c \in OrderRecord
      BY <1>4, <2>2, OrderTypes
    <3>2. c.status = "cancelled"
      BY <2>2 DEF Cancel, OrderRecord
    <3> QED
      BY <3>1, <3>2
  <2> HIDE DEF c, x, y
  <2>4. r.status = "cancelled" /\ r.parallel = None
    BY <2>3 DEF OrderRecord
  <2> HIDE DEF r
  <2>5. \/ Then(<<PromoteUnflushed>>)
        \/ /\ Then(<<For("startReserved", None, orders[o].driver), PromoteUnflushed>>)
           /\ orders[o].driver # None
    BY <1>3, <1>10 DEF PassengerGone
  <2>6. <<PromoteUnflushed>> \in Seq(Call) /\ Mild(<<PromoteUnflushed>>)
    <3>1. PromoteUnflushed \in Call /\ \A a \in Call : <<a>> \in Seq(Call)
      BY CallTypes
    <3> QED
      BY <3>1, StartedFind
  <2>7. orders[o].driver # None => orders[o].driver \in Driver
    BY <1>4 DEF OrderRecord
  <2>8. \E t \in Seq(Call) : Mild(t) /\ Then(t)
    BY <1>7, <2>5, <2>6, <2>7
  <2> QED
    BY <1>9, <2>1, <2>4, <2>8
<1>11. CASE RideDone
  <2>1. /\ UNCHANGED <<orders, pq>> /\ d \in Driver
        /\ Then(<<For("startReserved", None, d)>>) \/ Then(<<For("postRide", None, d)>>)
    BY <1>3, <1>4, <1>11 DEF RideDone, Arg
  <2> QED
    BY <1>7, <1>8, <2>1
<1>12. CASE TripVoided
  <2>1. PICK r : r = Cancel(orders[o])
    OBVIOUS
  <2>2. /\ orders' = [orders EXCEPT ![o] = r] /\ pq' = pq
        /\ Arg.fn \in OfTrip /\ d \in Driver
        /\ Then(<<For("startReserved", None, d)>>) \/ Then(<<Promote, For("postRide", None, d)>>)
    BY <1>1, <1>3, <1>4, <1>12, <2>1 DEF TripVoided, Arg, OfTrip
  <2>3. r.status = "cancelled" /\ r.parallel = None
    BY <1>4, <1>6, <2>1, <2>2 DEF Cancel, OrderRecord
  <2> QED
    BY <1>7, <1>9, <2>2, <2>3
<1>13. CASE CarFailed
  <2>1. PICK rest \in Call : rest = For("tripLost", o, d)
    BY <1>2, <1>3, <1>4, <1>13, CallTypes DEF CarFailed, Arg, ForDriver, AboutNoOrder
  <2>2. /\ <<rest>> \in Seq(Call) /\ Mild(<<rest>>)
        /\ <<Promote, rest>> \in Seq(Call) /\ Mild(<<Promote, rest>>)
    <3>1. /\ \A a \in Call : <<a>> \in Seq(Call)
          /\ \A a, b \in Call : <<a, b>> \in Seq(Call)
          /\ Promote \in Call
      BY CallTypes
    <3>2. Mild(<<rest>>) /\ Mild(<<Promote, rest>>)
      BY <2>1, StartedFind
    <3> QED
      BY <3>1, <3>2
  <2>3. CASE Then(<<rest>>) /\ UNCHANGED <<orders, pq>>
    BY <1>8, <2>2, <2>3
  <2>4. ASSUME NEW p \in Reservations(orders, d),
               orders' = [orders EXCEPT ![p] = Released(orders[p])],
               pq' = [Enqueue(pq, p) EXCEPT ![p].row = "waiting"],
               Then(<<Promote, rest>>)
        PROVE  PlaceInv'
    <3>1. p \in Order /\ orders[p] \in OrderRecord
      BY <1>1 DEF Reservations
    <3>2. PICK r : r = Released(orders[p])
      OBVIOUS
    <3>3. r.parallel = None
      BY <3>1, <3>2 DEF Released, OrderRecord
    <3>4. pq'[p].row = "waiting" /\ \A x \in Order \ {p} : pq'[x].row = pq[x].row
      BY <1>1, <2>4, <3>1, RowsAfter
    <3>5. Clear(r) /\ HasPlace(p, r, pq'[p].row)
      BY <3>3, <3>4 DEF Clear, HasPlace
    <3> QED
      BY <1>2, <2>2, <2>4, <3>1, <3>2, <3>4, <3>5, EndPlaced
  <2> QED
    BY <1>3, <1>13, <2>1, <2>3, <2>4 DEF CarFailed
<1>14. CASE TripLost
  <2>1. Arg.fn \in OfTrip /\ d \in Driver /\ pq' = pq
    BY <1>3, <1>4, <1>14 DEF TripLost, Arg, OfTrip
  <2>2. CASE orders[o].chatOffline
    <3> DEFINE r == [orders[o] EXCEPT !.status = "cancelled"]
    <3>1. orders' = [orders EXCEPT ![o] = r] /\ Then(<<For("postRide", None, d)>>)
      BY <1>3, <1>14, <2>2 DEF TripLost
    <3>2. r.status = "cancelled" /\ r.parallel = None
      BY <1>4, <1>6, <2>1 DEF OrderRecord
    <3> HIDE DEF r
    <3> QED
      BY <1>7, <1>9, <2>1, <3>1, <3>2
  <2>3. CASE ~orders[o].chatOffline
    <3> DEFINE r == [orders[o] EXCEPT !.status = "searching", !.driver = None, !.pricing = FALSE]
               a == Offer(o, {})
               b == For("postRide", None, d)
               t == <<a, Promote, b>>
    <3>1. orders' = [orders EXCEPT ![o] = r] /\ Then(t)
      BY <1>3, <1>14, <2>3 DEF TripLost
    <3>2. r.driver = None /\ r.parallel = None
      BY <1>4, <1>6, <2>1 DEF OrderRecord
    <3> HIDE DEF r
    <3>3. a \in Call /\ Promote \in Call /\ b \in Call
      BY <1>4, <2>1, CallTypes
    <3>4. a.fn = "offer" /\ a.order = o /\ Promote.fn # "offer" /\ b.fn # "offer"
      BY CallNames
    <3> HIDE DEF a, b
    <3>5. t \in Seq(Call) /\ Calls(t) = {a, Promote, b}
      BY <3>3, CallsOf
    <3>6. SoughtFor(o, t) /\ \A c \in Calls(t) : c.fn = "offer" => c.order = o
      BY <3>4, <3>5 DEF SoughtFor, Sought
    <3>7. Clear(r)
      BY <3>2 DEF Clear
    <3> HIDE DEF t
    <3> QED
      BY <1>2, <1>4, <2>1, <3>1, <3>2, <3>5, <3>6, <3>7, EndPlaced
  <2> QED
    BY <2>2, <2>3
<1> QED
  BY <1>10, <1>11, <1>12, <1>13, <1>14 DEF ResumedStep

\* At the start there is no live request, and every step keeps a place for each.
LEMMA StepPlaced ==
  ASSUME AddressesStay, TypeOK, HandsInv, SoundInv, PlaceInv, [Next]_vars
  PROVE  PlaceInv'
<1>1. CASE UNCHANGED vars
  <2>1. UNCHANGED <<orders, pq, agenda>>
    BY <1>1 DEF vars
  <2> QED
    BY <2>1 DEF PlaceInv, Clear, HasPlace, SoughtFor
<1>2. CASE DispatchStep
  BY <1>2, DispatchPlaced
<1>3. CASE ResumedStep
  BY <1>3, ResumedPlaced
<1>4. CASE PassengerStep
  BY <1>4, PassengerPlaced DEF PassengerStep
<1>5. CASE LineStep \/ Recovery
  BY <1>5, LinePlaced
<1>6. CASE OfferStep
  BY <1>6, OfferPlaced
<1>7. CASE TripStep
  BY <1>7, TripPlaced DEF TripStep
<1>8. CASE ParallelStep
  BY <1>8, ParallelPlaced DEF ParallelStep
<1>9. CASE TimerStep
  BY <1>9, TimerPlaced, RouteTimeoutPlaced, LinePlaced DEF TimerStep
<1> QED
  BY <1>1, <1>2, <1>3, <1>4, <1>5, <1>6, <1>7, <1>8, <1>9 DEF Next

\* At every moment of every transaction a live request has its place, or one of the
\* calls that are still to be made will find it: whatever order_service, passenger_queue
\* and parallel_orders take it from.
THEOREM PlacesHold == ASSUME AddressesStay PROVE Spec => []PlaceInv
<1>1. Init => PlaceInv
  BY CallsOf DEF Init, PlaceInv, FreshOrder, Clear, HasPlace, Pending, Candidate
<1>2. TypeOK /\ HandsInv /\ SoundInv /\ PlaceInv /\ [Next]_vars => PlaceInv'
  BY StepPlaced
<1> QED
  BY <1>1, <1>2, TypesHold, HandsHold, DutiesHold, PTL DEF Spec, DutyInv

\* Between transactions a live request that nobody drives is in one place: a row of
\* passengers_queue, a driver's screen, or the chat.
THEOREM InOnePlaceHolds == ASSUME AddressesStay PROVE Spec => []InOnePlace
<1>1. HandsInv /\ PlaceInv => InOnePlace
  <2> SUFFICES ASSUME HandsInv, PlaceInv, Idle, NEW o \in Order
               PROVE  LET r == orders[o] IN
                        /\ Parked(pq, o) => Unclaimed(r) /\ r.offered = None
                        /\ r.status = "searching" => r.offered # None
                        /\ r.status \in Pending =>
                             \/ Parked(pq, o)
                             \/ r.status \in {"searching", "chat_search"}
                             \/ r.fixing
                             \/ ForChat(o) /\ ~ChatOpen
    BY DEF InOnePlace
  <2>1. Held(orders[o], pq[o].row)
    BY DEF HandsInv, AllHeld
  <2>2. HasPlace(o, orders[o], pq[o].row)
    <3>1. ~SoughtFor(o, agenda)
      BY CallsOf DEF SoughtFor, Idle
    <3> QED
      BY <3>1 DEF PlaceInv
  <2> QED
    BY <2>1, <2>2 DEF Held, HasPlace, Parked, Unclaimed, ForChat, Pending, Candidate
<1> QED
  BY <1>1, HandsHold, PlacesHold, PTL

----------------------------------------------------------------------------
(* Who waits, and behind whom.                                              *)

\* Nobody is put before anybody.
Shrinks(f, g) == \A d \in Driver : g[d].ahead \subseteq f[d].ahead

\* Nobody is put before a driver who has a row.
KeepsTurns(f, g) == \A d \in Driver : HasRow(f, d) => g[d].ahead \subseteq f[d].ahead

\* The functions of queue_service that do not put a driver at the tail.
LEMMA FleetShrinks ==
  ASSUME NEW f \in Fleets, NEW d \in Driver
  PROVE  \A g \in {LeaveQueue(f, d), SetAway(f, d), MarkAssigned(f, d), MarkOffered(f, d),
                   ReleaseOffer(f, d), RestorePosition(f, d), OffLine(f, d), OnLine(f, d)} :
           g \in Fleets /\ Shrinks(f, g)
<1>1. \A g \in {LeaveQueue(f, d), SetAway(f, d), MarkAssigned(f, d), MarkOffered(f, d),
                ReleaseOffer(f, d), RestorePosition(f, d), OffLine(f, d), OnLine(f, d)} :
        g \in Fleets
  BY FleetTypes
<1>2. Shrinks(f, LeaveQueue(f, d))
  BY DEF Shrinks, LeaveQueue, Fleets, DriverRecord
<1>3. Shrinks(f, SetAway(f, d)) /\ Shrinks(f, MarkAssigned(f, d)) /\ Shrinks(f, RestorePosition(f, d))
  BY DEF Shrinks, SetAway, MarkAssigned, RestorePosition, Fleets, DriverRecord
<1>4. Shrinks(f, MarkOffered(f, d)) /\ Shrinks(f, ReleaseOffer(f, d))
  BY DEF Shrinks, MarkOffered, ReleaseOffer, Fleets, DriverRecord
<1>5. Shrinks(f, OffLine(f, d)) /\ Shrinks(f, OnLine(f, d))
  BY DEF Shrinks, OffLine, OnLine, Fleets, DriverRecord
<1> QED
  BY <1>1, <1>2, <1>3, <1>4, <1>5

\* _repair_visibly_free_drivers adds rows behind the others.
LEMMA RepairKeepsTurns ==
  ASSUME TypeOK
  PROVE  Repaired \in Fleets /\ KeepsTurns(fleet, Repaired)
<1>1. Repaired \in Fleets
  BY RepairIsFleet DEF TypeOK, Repaired
<1>2. KeepsTurns(fleet, Repaired)
  BY DEF TypeOK, KeepsTurns, Repaired, Repair, Fleets, DriverRecord
<1> QED
  BY <1>1, <1>2

\* Whatever the step does to the queue of drivers after it has repaired it, or not.
LEMMA TurnsKept ==
  ASSUME TypeOK,
         \/ Shrinks(fleet, fleet')
         \/ fleet' = Repaired
         \/ Shrinks(Repaired, fleet')
  PROVE  KeepsTurns(fleet, fleet')
<1>1. KeepsTurns(fleet, Repaired)
  BY RepairKeepsTurns
<1> QED
  BY <1>1 DEF KeepsTurns, Shrinks

\* Whoever joins the line to claim a request does not wait in it.
LEMMA ClaimedTurns ==
  ASSUME NEW f \in Fleets, NEW d \in Driver, NEW joins \in BOOLEAN, NEW g \in Claimed(f, d, joins),
         NEW x \in Driver, f[x].row = "waiting", g[x].row \in {"waiting", "offered"}
  PROVE  g[x].ahead \subseteq f[x].ahead
<1> DEFINE h == IF joins THEN OnLine(JoinQueue(f, d), d) ELSE f
           m == MarkAssigned(h, d)
           n == [m EXCEPT ![d].row = "waiting"]
<1>1. h \in Fleets
  BY FleetTypes
<1>2. \A y \in Driver \ {d} : h[y].ahead \subseteq f[y].ahead
  <2> DEFINE k == [f EXCEPT ![d].row = "waiting", ![d].status = "online"]
  <2>1. k \in Fleets /\ \A y \in Driver \ {d} : k[y] = f[y]
    BY RowAndStatus DEF Fleets, Row, Status
  <2>2. JoinQueue(f, d) = ToTail(k, d) /\ JoinQueue(f, d) \in Fleets
    BY FleetTypes DEF JoinQueue
  <2> HIDE DEF k
  <2>3. ASSUME NEW y \in Driver \ {d}
        PROVE  JoinQueue(f, d)[y].ahead = f[y].ahead \ {d}
    <3>1. ToTail(k, d)[y] = [f[y] EXCEPT !.ahead = f[y].ahead \ {d}]
      BY <2>1 DEF ToTail
    <3>2. [f[y] EXCEPT !.ahead = f[y].ahead \ {d}].ahead = f[y].ahead \ {d}
      BY DEF Fleets, DriverRecord
    <3> QED
      BY <2>2, <3>1, <3>2
  <2>4. Shrinks(JoinQueue(f, d), OnLine(JoinQueue(f, d), d))
    BY <2>2, FleetShrinks
  <2> QED
    BY <2>3, <2>4 DEF Shrinks
<1>3. HasRow(f, d) => HasRow(h, d)
  BY DEF OnLine, JoinQueue, ToTail, Fleets, DriverRecord, HasRow
<1>4. g = m \/ (g = n /\ ~HasRow(f, d))
  BY DEF Claimed
<1> HIDE DEF h
<1>5. m \in Fleets /\ (\A y \in Driver : m[y].ahead = h[y].ahead)
      /\ (HasRow(h, d) => m[d].row = "assigned")
  <2>1. m \in Fleets
    BY <1>1, FleetTypes
  <2>2. \A y \in Driver : m[y].ahead = h[y].ahead
    BY <1>1 DEF MarkAssigned, Fleets, DriverRecord
  <2>3. HasRow(h, d) => m[d].row = "assigned"
    BY <1>1 DEF MarkAssigned, RowTo, Fleets, DriverRecord
  <2> QED
    BY <2>1, <2>2, <2>3
<1> HIDE DEF m
<1>6. \A y \in Driver \ {d} : n[y] = m[y]
  BY <1>5 DEF Fleets
<1> HIDE DEF n
<1>7. HasRow(f, x)
  BY DEF HasRow
<1>8. x # d
  BY <1>3, <1>4, <1>5, <1>7
<1> QED
  BY <1>2, <1>4, <1>5, <1>6, <1>8

\* A call of dispatch.
LEMMA DispatchTurns ==
  ASSUME TypeOK, DispatchStep
  PROVE  KeepsTurns(fleet, fleet')
<1>1. \/ UNCHANGED fleet
      \/ fleet' = Repaired
      \/ \E d \in Driver : fleet' = MarkOffered(Repaired, d)
      \/ PostRide
  BY DEF DispatchStep, OfferRefused, OfferMade, OfferFindsNobody, NoDriverParks, NoDriverToChat,
         NotifyMade, NotifyNobody, FallbackOffers, FallbackWaits, PromoteMisses,
         PromoteWaitsForAnswer, PromoteStarts, ScanEnds, ScanFallsBack, ScanAsks, ScanOffers,
         ScanNotifies, ReleaseNext, ReleaseEnds, StartReserved,
         Front, Eligible, Waiting, Free, VisiblyFree
<1>2. fleet \in Fleets /\ Repaired \in Fleets
  BY RepairKeepsTurns DEF TypeOK
<1>3. PostRide => \E d \in Driver : fleet' = SetAway(fleet, d)
  BY ArgTypes DEF TypeOK, PostRide, Calling, Arg, ForDriver
<1>4. Shrinks(fleet, fleet') \/ fleet' = Repaired \/ Shrinks(Repaired, fleet')
  <2>1. UNCHANGED fleet => Shrinks(fleet, fleet')
    BY DEF Shrinks
  <2> QED
    BY <1>1, <1>2, <1>3, <2>1, FleetShrinks
<1> QED
  BY <1>4, TurnsKept

\* The rest of a handler.
LEMMA ResumedTurns ==
  ASSUME TypeOK, ResumedStep
  PROVE  KeepsTurns(fleet, fleet')
<1>1. PICK d : d = Arg.driver
  OBVIOUS
<1>2. /\ fleet \in Fleets /\ ~Idle /\ orders \in [Order -> OrderRecord]
      /\ ~PassengerGone => d \in Driver
  BY <1>1, ArgTypes DEF TypeOK, ResumedStep, PassengerGone, RideDone, TripVoided, CarFailed,
                        TripLost, Calling, Arg, ForDriver
<1>3. Shrinks(fleet, fleet)
  BY DEF Shrinks
<1>4. ASSUME NEW f \in Fleets, NEW o, NEW e \in Driver, Shrinks(fleet, f)
      PROVE  Shrinks(fleet, LeaveChatLine(f, o, e)) /\ Shrinks(fleet, OffLine(LeaveQueue(f, e), e))
  <2>1. LeaveQueue(f, e) \in Fleets /\ Shrinks(f, LeaveQueue(f, e))
    BY FleetShrinks
  <2>2. Shrinks(LeaveQueue(f, e), OffLine(LeaveQueue(f, e), e))
    BY <2>1, FleetShrinks
  <2>3. Shrinks(fleet, OffLine(LeaveQueue(f, e), e))
    BY <1>4, <2>1, <2>2 DEF Shrinks
  <2> QED
    BY <1>4, <2>3 DEF LeaveChatLine
<1>5. CASE PassengerGone
  <2>1. PICK r : r = orders[Arg.order]
    OBVIOUS
  <2>2. r \in OrderRecord
    BY <1>2, <1>5, <2>1, ArgTypes DEF TypeOK, PassengerGone, Calling, Arg, AboutNoOrder
  <2>3. \/ fleet' = fleet
        \/ r.offered # None /\ fleet' = ReleaseOffer(fleet, r.offered)
        \/ r.driver # None /\ fleet' = RestorePosition(fleet, r.driver)
    BY <1>5, <2>1 DEF PassengerGone
  <2>4. \/ fleet' = fleet
        \/ \E e \in Driver : fleet' = ReleaseOffer(fleet, e) \/ fleet' = RestorePosition(fleet, e)
    BY <2>2, <2>3 DEF OrderRecord
  <2>5. Shrinks(fleet, fleet')
    BY <1>2, <1>3, <2>4, FleetShrinks
  <2> QED
    BY <2>5, TurnsKept
<1>6. CASE RideDone
  <2>1. d \in Driver /\ fleet' = LeaveChatLine(fleet, Arg.order, d)
    BY <1>1, <1>2, <1>6, ArgTypes DEF TypeOK, RideDone, Calling, Arg, ForDriver
  <2> QED
    BY <1>2, <1>3, <1>4, <2>1, TurnsKept
<1>7. CASE TripVoided
  <2>1. PICK f \in {fleet, SetAway(fleet, d)} : fleet' = LeaveChatLine(f, Arg.order, d)
    BY <1>1, <1>7 DEF TripVoided
  <2>2. d \in Driver
    BY <1>1, <1>2, <1>7, ArgTypes DEF TypeOK, TripVoided, Calling, Arg, ForDriver
  <2>3. f \in Fleets /\ Shrinks(fleet, f)
    BY <1>2, <1>3, <2>1, <2>2, FleetShrinks
  <2> QED
    BY <1>4, <2>1, <2>2, <2>3, TurnsKept
<1>8. CASE CarFailed
  BY <1>3, <1>8, TurnsKept DEF CarFailed
<1>9. CASE TripLost
  <2>1. fleet' = SetAway(fleet, d) \/ fleet' = OffLine(LeaveQueue(fleet, d), d)
    BY <1>1, <1>9 DEF TripLost
  <2>2. d \in Driver
    BY <1>1, <1>2, <1>9, ArgTypes DEF TypeOK, TripLost, Calling, Arg, ForDriver
  <2>3. Shrinks(fleet, fleet')
    BY <1>2, <1>3, <1>4, <2>1, <2>2, FleetShrinks
  <2> QED
    BY <2>3, TurnsKept
<1> QED
  BY <1>5, <1>6, <1>7, <1>8, <1>9 DEF ResumedStep

\* Where nobody bargains, no delivery is called off.
LEMMA NoneCalledOff ==
  ASSUME PricesStay, SoundInv, NEW o \in Order
  PROVE  ~PriceRefused(o) /\ (DeliveryTimeout(o) => FALSE)
BY DEF SoundInv, AllSound, Sound, Asked, PriceRefused, DeliveryTimeout, Fires

\* Handlers and timers, but for the menu of the line.
LEMMA HandlerTurns ==
  ASSUME TypeOK, SoundInv, PricesStay,
         PassengerStep \/ OfferStep \/ TripStep \/ ParallelStep \/ TimerStep \/ Recovery
  PROVE  \A x \in Driver : fleet[x].row = "waiting" /\ fleet'[x].row \in {"waiting", "offered"}
                             => fleet'[x].ahead \subseteq fleet[x].ahead
<1>1. fleet \in Fleets /\ Repaired \in Fleets /\ Shrinks(fleet, fleet)
  BY RepairKeepsTurns DEF TypeOK, Shrinks
<1>2. KeepsTurns(fleet, fleet') =>
        \A x \in Driver : fleet[x].row = "waiting" /\ fleet'[x].row \in {"waiting", "offered"}
                            => fleet'[x].ahead \subseteq fleet[x].ahead
  BY DEF KeepsTurns, HasRow
<1>3. ASSUME NEW d \in Driver
      PROVE  Shrinks(fleet, OffLine(LeaveQueue(fleet, d), d))
             /\ Shrinks(fleet, SetAway(ReleaseOffer(fleet, d), d))
  <2>1. /\ LeaveQueue(fleet, d) \in Fleets /\ Shrinks(fleet, LeaveQueue(fleet, d))
        /\ ReleaseOffer(fleet, d) \in Fleets /\ Shrinks(fleet, ReleaseOffer(fleet, d))
    BY <1>1, FleetShrinks
  <2>2. /\ Shrinks(LeaveQueue(fleet, d), OffLine(LeaveQueue(fleet, d), d))
        /\ Shrinks(ReleaseOffer(fleet, d), SetAway(ReleaseOffer(fleet, d), d))
    BY <2>1, FleetShrinks
  <2> QED
    BY <2>1, <2>2 DEF Shrinks
<1>4. CASE PassengerStep
  <2>1. fleet' = fleet \/ fleet' = Repaired
    BY <1>4, NoneCalledOff DEF PassengerStep, NewRide, NewDeskRide, PassengerCancel, ConfirmActual,
                               ConfirmNot, NewAddress, PriceAgreed
  <2> QED
    BY <1>1, <1>2, <2>1, TurnsKept
<1>5. CASE OfferStep
  <2>1. PICK d \in Driver, o \in Order :
          \/ Accept(d, o) \/ DeclineEnds(d, o) \/ DeclineAsksAddress(d, o)
          \/ DeclineAway(d, o) \/ \E reason \in Reason : DeclinePasses(d, o, reason)
          \/ TakePending(d, o) \/ TakeFromChat(d, o)
    BY <1>5 DEF OfferStep
  <2>2. CASE ~(TakePending(d, o) \/ TakeFromChat(d, o))
    <3>1. fleet' \in {MarkAssigned(fleet, d), ReleaseOffer(fleet, d),
                      SetAway(ReleaseOffer(fleet, d), d)}
      BY <2>1, <2>2 DEF Accept, DeclineEnds, DeclineAsksAddress, DeclineAway, DeclinePasses
    <3>2. Shrinks(fleet, fleet')
      BY <1>1, <1>3, <3>1, FleetShrinks
    <3> QED
      BY <1>2, <3>2, TurnsKept
  <2>3. CASE TakePending(d, o) \/ TakeFromChat(d, o)
    <3>1. PICK joins \in BOOLEAN : fleet' \in Claimed(fleet, d, joins)
      BY <2>3 DEF TakePending, ClaimPending, TakeFromChat
    <3> QED
      BY <1>1, <3>1, ClaimedTurns
  <2> QED
    BY <2>2, <2>3
<1>6. CASE TripStep
  <2>1. fleet' = fleet \/ fleet' = Repaired
    BY <1>6 DEF TripStep, SubmitPrice, ApplyEta, Arrived, Seated, Complete, CancelActive
  <2> QED
    BY <1>1, <1>2, <2>1, TurnsKept
<1>7. CASE ParallelStep
  <2>1. fleet' = fleet \/ \E d \in Driver : fleet' = MarkAssigned(Repaired, d)
    BY <1>7 DEF ParallelStep, Take, TakeRouteOffer, SaveEta, DeclineReserved, DeclineRouteOffer
  <2>2. Shrinks(fleet, fleet') \/ Shrinks(Repaired, fleet')
    BY <1>1, <2>1, FleetShrinks
  <2> QED
    BY <1>2, <2>2, TurnsKept
<1>8. CASE TimerStep \/ Recovery
  <2>1. \/ fleet' = fleet
        \/ \E o \in Order : AcceptTimeout(o) \/ UnclaimedTimeout(o)
        \/ \E d \in Driver : fleet' = OffLine(LeaveQueue(fleet, d), d)
    BY <1>8, NoneCalledOff DEF TimerStep, PollTimeout, EtaTimeout, RouteOfferTimeout, ChatTimeout,
                               AwayTimeout, Recovery
  <2>2. ASSUME NEW o \in Order, AcceptTimeout(o) \/ UnclaimedTimeout(o)
        PROVE  \/ fleet' = fleet
               \/ \E d \in Driver : fleet' \in {OffLine(LeaveQueue(fleet, d), d),
                                                ReleaseOffer(fleet, d)}
    <3>1. orders[o] \in OrderRecord
      BY DEF TypeOK
    <3>2. orders[o].offered # None => orders[o].offered \in Driver
      BY <3>1 DEF OrderRecord
    <3> QED
      BY <2>2, <3>2 DEF AcceptTimeout, UnclaimedTimeout
  <2>3. Shrinks(fleet, fleet')
    BY <1>1, <1>3, <2>1, <2>2, FleetShrinks
  <2> QED
    BY <1>2, <2>3, TurnsKept
<1> QED
  BY <1>4, <1>5, <1>6, <1>7, <1>8

\* Only a driver's own menu sends him behind others: what is accepted, refused, claimed
\* or ended by someone else puts nobody before a free driver who waits.  (Where a price
\* is refused, return_to_queue puts the driver himself at the tail.)
THEOREM NobodyOvertakesHolds == ASSUME PricesStay PROVE Spec => NobodyOvertakes
<1>1. TypeOK /\ SoundInv /\ [Next]_vars =>
        [\A d \in Driver :
           fleet[d].row = "waiting" /\ fleet[d].status = "online"
           /\ fleet'[d].row \in {"waiting", "offered"}
             => \/ fleet'[d].ahead \subseteq fleet[d].ahead
                \/ Idle /\ LineStep]_vars
  <2> SUFFICES ASSUME TypeOK, SoundInv, Next, NEW d \in Driver, fleet[d].row = "waiting",
                      fleet'[d].row \in {"waiting", "offered"}
               PROVE  fleet'[d].ahead \subseteq fleet[d].ahead \/ (Idle /\ LineStep)
    OBVIOUS
  <2>1. CASE DispatchStep \/ ResumedStep
    BY <2>1, DispatchTurns, ResumedTurns DEF KeepsTurns, HasRow
  <2>2. CASE LineStep
    BY <2>2 DEF LineStep, GoOnline, LeaveLine, GoAway, SetLine, Start
  <2>3. CASE PassengerStep \/ OfferStep \/ TripStep \/ ParallelStep \/ TimerStep \/ Recovery
    BY <2>3, HandlerTurns
  <2> QED
    BY <2>1, <2>2, <2>3 DEF Next
<1> QED
  BY <1>1, TypesHold, DutiesHold, PTL DEF Spec, DutyInv, NobodyOvertakes

----------------------------------------------------------------------------
(* Transactions that overlap.                                               *)

\* A call that ends, or makes another one, and moves nothing on the board.
LEMMA StillGoes ==
  ASSUME TypeOK, TypeOK', SoundInv, ~Idle, Arg.driver = None, Still,
         fleet' \in {fleet, Repaired},
         \/ agenda' = Tail(agenda)
         \/ \E a \in Call : /\ agenda' = <<a>> \o Tail(agenda)
                            /\ a.fn \notin ForDriver \union {"passengerGone"}
  PROVE  Goes
<1>1. /\ agenda \in Seq(Call) /\ agenda # <<>> /\ Tail(agenda) \in Seq(Call)
      /\ Calls(agenda) = {Arg} \union Calls(Tail(agenda)) /\ agenda' \in Seq(Call)
  BY CallsJoin DEF TypeOK, Idle, Arg
<1>2. PICK t \in Seq(Call) : /\ agenda' = t \o Tail(agenda)
                             /\ \A c \in Calls(t) : c.driver = None /\ c.fn \notin ForDriver
                                                    /\ c.fn # "passengerGone"
                             /\ Calls(Tail(t)) = {}
  <2>1. CASE agenda' = Tail(agenda)
    <3>1. <<>> \o Tail(agenda) = Tail(agenda) /\ <<>> \in Seq(Call)
      BY <1>1, CallsJoin
    <3>2. Calls(Tail(<<>>)) = {}
      BY DEF Calls
    <3> QED
      BY <2>1, <3>1, <3>2, CallsOf
  <2>2. ASSUME NEW a \in Call, agenda' = <<a>> \o Tail(agenda),
               a.fn \notin ForDriver \union {"passengerGone"}
        PROVE  \E t \in Seq(Call) : /\ agenda' = t \o Tail(agenda)
                                    /\ \A c \in Calls(t) : c.driver = None /\ c.fn \notin ForDriver
                                                           /\ c.fn # "passengerGone"
                                    /\ Calls(Tail(t)) = {}
    <3>1. <<a>> \in Seq(Call) /\ Tail(<<a>>) = <<>> /\ a.driver = None
      BY <2>2 DEF Call
    <3>2. Calls(<<a>>) = {a} /\ Calls(Tail(<<a>>)) = {}
      BY <3>1, CallsOf
    <3>3. PICK u : u = <<a>>
      OBVIOUS
    <3>4. /\ u \in Seq(Call) /\ agenda' = u \o Tail(agenda)
          /\ Calls(u) = {a} /\ Calls(Tail(u)) = {}
      BY <2>2, <3>1, <3>2, <3>3
    <3> QED
      BY <2>2, <3>1, <3>4
  <2> QED
    BY <2>1, <2>2
<1>3. Calls(agenda') = Calls(t) \union Calls(Tail(agenda))
  BY <1>1, <1>2, CallsJoin
<1>4. \A c \in Calls(agenda) : c \in Call
  BY <1>1 DEF Calls
<1>5. \A c \in Calls(agenda') : Live(c, orders')
  <2> SUFFICES ASSUME NEW c \in Calls(agenda'), c.fn \in OfTrip \union {"passengerGone"}
               PROVE  /\ orders'[c.order].status \notin {"new"} \union Closed
                      /\ Plain /\ c.fn \in OfTrip => orders'[c.order].status \in Active
    BY DEF Live
  <2>1. c \in Calls(agenda) /\ c.order \in Order
    BY <1>1, <1>2, <1>3, <1>4 DEF OfTrip, ForDriver, AboutNoOrder, Call
  <2>2. /\ orders[c.order].status \notin {"new"} \union Closed
        /\ Plain /\ c.fn \in OfTrip => orders[c.order].status \in Active
    BY <2>1 DEF SoundInv, Live
  <2>3. /\ \A r : BoardPhase(r) = "new" <=> r.status = "new"
        /\ \A r : BoardPhase(r) = "over" <=> r.status \in Closed
        /\ \A r : BoardPhase(r) = "riding" <=> r.status \in Active
    BY DEF BoardPhase, Closed, Active
  <2>4. BoardPhase(orders[c.order]) = BoardPhase(orders'[c.order])
    <3>1. /\ board[c.order].phase = BoardPhase(orders[c.order])
          /\ board'[c.order].phase = BoardPhase(orders'[c.order])
      BY <2>1 DEF board, Entry, Place, BoardPhase
    <3> QED
      BY <3>1 DEF Still
  <2> QED
    BY <2>2, <2>3, <2>4
<1>6. ASSUME Duty(board, fleet, agenda) PROVE Duty(board', fleet', agenda')
  <2>1. \A c \in Calls(agenda) : c.driver \in Driver \union {None}
    BY <1>4 DEF Call
  <2>2. Duty(board, fleet', agenda)
    BY <1>6, <2>1, RepairKeepsDuty
  <2>3. \A c \in Calls(agenda') : Due(c, board, fleet')
    BY <1>1, <1>2, <1>3, <2>2 DEF Due, Duty
  <2>4. Ahead(agenda')
    <3> SUFFICES ASSUME agenda' # <<>>
                 PROVE  /\ \A c \in Calls(Tail(agenda')) : c.fn # "startReserved"
                        /\ Head(agenda').fn # "startReserved"
      BY DEF Ahead
    <3>1. \A c \in Calls(Tail(agenda)) : c.fn # "startReserved"
      BY <1>1, <2>2 DEF Duty, Ahead
    <3>2. Calls(agenda') = {Head(agenda')} \union Calls(Tail(agenda'))
      BY <1>1, CallsJoin
    <3>3. \A c \in Calls(agenda') : c.fn # "startReserved"
      BY <1>2, <1>3, <3>1 DEF ForDriver
    <3> QED
      BY <3>2, <3>3
  <2>5. \A fns : \A d \in Driver : Owed(agenda, d, fns) => Owed(agenda', d, fns)
    BY <1>1, <1>3, NoneAssumption DEF Owed
  <2>6. \A d \in Driver : Follows(board, fleet', agenda', d)
    BY <2>2, <2>5 DEF Duty, Follows
  <2>7. board' = board
    BY DEF Still
  <2> QED
    BY <2>2, <2>3, <2>4, <2>6, <2>7 DEF Duty
<1> QED
  BY <1>5, <1>6 DEF Goes, Still, Moves

\* A call that finds a driver, a request or a question taken hands everything over as
\* it should, and keeps the duties.
LEMMA TakenGoes ==
  ASSUME TypeOK, TypeOK', HandsInv, SoundInv,
         FindsTaken \/ PromoteOverlooks \/ DriverSkipped \/ RequestSkipped
  PROVE  Handed /\ Goes
<1> USE DEF Calling, Promoting, Notifying, FallingBack
<1>1. /\ orders \in [Order -> OrderRecord] /\ pq \in [Order -> QueueRecord]
      /\ agenda \in Seq(Call) /\ AllSound(orders)
  BY DEF TypeOK, SoundInv
<1>2. ~Idle
  BY DEF FindsTaken, Looked, PromoteOverlooks, DriverSkipped, RequestSkipped, RequestHeld
<1>3. /\ Arg \in Call /\ Arg.todo \in SUBSET Order /\ Arg.but \in SUBSET Driver
      /\ Arg.fn \notin AboutNoOrder => Arg.order \in Order
  BY <1>1, <1>2, ArgTypes
<1>4. Arg.fn \in {"offer", "scan", "promote", "promoteUnflushed", "fallback", "recheck",
                  "notify", "notifyOrFallback"}
  BY DEF FindsTaken, Looked, PromoteOverlooks, DriverSkipped, RequestSkipped, RequestHeld, Arg
<1>5. Arg.driver = None /\ Arg.fn \notin Ender
  BY <1>3, <1>4 DEF Call, ForDriver, Ender, OfTrip
<1>6. fleet' \in {fleet, Repaired}
  BY DEF FindsTaken, PromoteOverlooks, DriverSkipped, RequestSkipped
<1>7. ASSUME NEW a \in Call, agenda' = <<a>> \o Tail(agenda), a.fn \in {"scan", "offer"}
      PROVE  \E c \in Call : agenda' = <<c>> \o Tail(agenda)
                             /\ c.fn \notin ForDriver \union {"passengerGone"}
  BY <1>7 DEF ForDriver
<1>8. CASE RequestSkipped
  <2>1. Still
    BY <1>1, <1>8, UnchangedTurns DEF RequestSkipped
  <2> QED
    BY <1>2, <1>5, <1>6, <1>8, <2>1, NoneHanded, StillGoes DEF RequestSkipped, Return
<1>9. CASE PromoteOverlooks
  <2>1. PICK a \in Call : a.fn = "scan" /\ agenda' = <<a>> \o Tail(agenda)
    <3>1. \A todo \in SUBSET Order : Scan(todo) \in Call /\ Scan(todo).fn = "scan"
      BY CallTypes, CallNames
    <3>2. {o \in Order : pq[o].row = "waiting"} \in SUBSET Order
      OBVIOUS
    <3> QED
      BY <1>9, <3>1, <3>2 DEF PromoteOverlooks, Then
  <2>2. Still
    BY <1>1, <1>9, UnchangedTurns DEF PromoteOverlooks
  <2>3. Goes
    BY <1>2, <1>5, <1>6, <1>7, <2>1, <2>2, StillGoes
  <2>4. Ready(a, orders, pq) /\ a.fn \notin Ender
    BY <2>1 DEF Ready, Direct, OfTrip, Ender
  <2> QED
    BY <1>2, <1>5, <1>9, <2>1, <2>3, <2>4, NoneHanded DEF PromoteOverlooks
<1>10. CASE DriverSkipped
  <2>1. PICK o : o = Arg.order
    OBVIOUS
  <2>2. o \in Order /\ orders[o] \in OrderRecord /\ Held(orders[o], pq[o].row)
        /\ Sound(o, orders[o])
    BY <1>1, <1>3, <1>10, <2>1 DEF DriverSkipped, AboutNoOrder, HandsInv, AllHeld, AllSound, Arg
  <2>3. Offerable(orders[o]) /\ ~Parked(pq, o) /\ orders[o].routeDriver = None
    <3>1. 1 \in DOMAIN agenda /\ Arg = agenda[1] /\ Arg.fn = "offer"
      BY <1>1, <1>2, <1>10 DEF Idle, Arg, DriverSkipped
    <3>2. Ready(Arg, orders, pq)
      BY <3>1 DEF HandsInv, AllReady
    <3> QED
      BY <1>10, <2>1, <3>1, <3>2 DEF DriverSkipped, Ready, Direct
  <2>4. PICK a \in Call : /\ a.fn = "offer" /\ a.order = o
                          /\ agenda' = <<a>> \o Tail(agenda)
    <3>1. PICK d \in Driver : agenda' = <<Offer(o, Arg.but \union {d})>> \o Tail(agenda)
      BY <1>10, <2>1 DEF DriverSkipped, Then, Eligible, Waiting, Free, VisiblyFree
    <3>2. PICK a : a = Offer(o, Arg.but \union {d})
      OBVIOUS
    <3>3. Arg.but \union {d} \in SUBSET Driver
      BY <1>3
    <3>4. a \in Call /\ a.fn = "offer" /\ a.order = o
      BY <2>2, <3>2, <3>3, CallTypes, CallNames
    <3> QED
      BY <3>1, <3>2, <3>4
  <2> DEFINE s == [orders[o] EXCEPT !.status = "created", !.offered = None]
  <2>5. PICK r : /\ r \in {orders[o], s} /\ orders' = [orders EXCEPT ![o] = r] /\ pq' = pq
    <3>1. CASE UNCHANGED orders
      <4>1. orders' = [orders EXCEPT ![o] = orders[o]]
        BY <1>1, <2>2, <3>1
      <4> QED
        BY <1>10, <4>1 DEF DriverSkipped
    <3>2. CASE orders' = [orders EXCEPT ![o].status = "created", ![o].offered = None]
      <4>1. orders' = [orders EXCEPT ![o] = s]
        BY <1>1, <2>2, <3>2
      <4> QED
        BY <1>10, <4>1 DEF DriverSkipped
    <3> QED
      BY <1>10, <2>1, <3>1, <3>2 DEF DriverSkipped
  <2>6. /\ r.status \in {orders[o].status, "created"} /\ r.offered = None
        /\ r.driver = None /\ r.parallel = None /\ r.routeDriver = None
        /\ r.fixing = orders[o].fixing /\ r.proposed = orders[o].proposed
        /\ r.pricing = orders[o].pricing /\ r.posted = orders[o].posted
        /\ r.chatOffline = orders[o].chatOffline /\ r.jobs = orders[o].jobs
        /\ r.etaSet = orders[o].etaSet
    BY <2>2, <2>3, <2>5 DEF OrderRecord, Offerable, Held, Pending, Candidate
  <2>7. /\ orders[o].status \in Pending /\ r.status \in Pending /\ pq[o].row = "none"
        /\ orders[o].driver = None
    BY <2>2, <2>3, <2>6 DEF Offerable, Parked, Pending, Candidate
  <2> HIDE DEF s
  <2>8. Held(r, pq'[o].row)
    BY <2>2, <2>5, <2>6, <2>7 DEF Held, Timed, Candidate, Pending
  <2>9. SameDriver(orders[o], r) /\ Stays(orders[o], r)
    BY <2>7 DEF SameDriver, Stays, Pending, Candidate, Active
  <2>10. Ready(a, orders', pq') /\ a.fn \notin Ender
    <3>1. orders'[o] = r
      BY <1>1, <2>2, <2>5
    <3> QED
      BY <2>3, <2>4, <2>5, <2>6, <3>1 DEF Ready, Parked, OfTrip, Ender
  <2>11. Handed
    BY <1>2, <1>5, <2>2, <2>4, <2>5, <2>6, <2>8, <2>9, <2>10, OneHanded
  <2>12. Sound(o, r)
    BY <2>2, <2>6, <2>7 DEF Sound, Asked, Lone, Pending, Candidate, Active
  <2>13. Entry(r) = Place("open", None) /\ Entry(orders[o]) = Place("open", None)
    BY <2>3, <2>6, <2>7, EntryIs DEF Offerable
  <2>14. Still
    BY <1>1, <2>2, <2>5, <2>7, <2>12, <2>13, AloneTurns DEF Pending, Candidate, Closed
  <2> QED
    BY <1>2, <1>5, <1>6, <1>7, <2>4, <2>11, <2>14, StillGoes
<1>11. CASE FindsTaken
  <2>1. agenda' = Tail(agenda)
    BY <1>11 DEF FindsTaken, Return
  <2>2. CASE UNCHANGED <<orders, pq>>
    <3>1. Still
      BY <1>1, <2>2, UnchangedTurns
    <3> QED
      BY <1>2, <1>5, <1>6, <2>1, <2>2, <3>1, NoneHanded, StillGoes
  <2>3. CASE ~UNCHANGED <<orders, pq>>
    <3>1. Next_(Repaired) \subseteq Order
      BY <1>3 DEF Next_, First
    <3>2. PICK o \in Order : pq' = Unqueue(pq, o) /\ orders' = [orders EXCEPT ![o] = Withdraw(@)]
      BY <1>11, <2>3, <3>1 DEF FindsTaken, Looked
    <3>3. PICK r : r = Withdraw(orders[o])
      OBVIOUS
    <3>4. orders' = [orders EXCEPT ![o] = r] /\ orders[o] \in OrderRecord
          /\ Held(orders[o], pq[o].row)
      BY <1>1, <3>2, <3>3 DEF HandsInv, AllHeld
    <3>5. /\ r.status = orders[o].status /\ r.driver = orders[o].driver
          /\ r.parallel = orders[o].parallel /\ r.offered = orders[o].offered
          /\ r.etaSet = orders[o].etaSet /\ r.routeDriver = None
          /\ orders[o].jobs \ {"pqueue", "route_parallel_offer"} \subseteq r.jobs
      BY <3>3, <3>4, ClosedFields
    <3>6. pq'[o].row = "none" /\ \A p \in Order \ {o} : pq'[p].row = pq[p].row
      BY <1>1, <3>2, RowsAfter
    <3>7. Held(r, pq'[o].row)
      BY <3>4, <3>5, <3>6 DEF Held, Timed
    <3>8. SameDriver(orders[o], r) /\ Stays(orders[o], r)
      BY <3>5 DEF SameDriver, Stays
    <3>9. Handed
      BY <1>2, <1>5, <2>1, <3>4, <3>5, <3>6, <3>7, <3>8, OneHanded
    <3>10. Same(orders[o], r)
      BY <3>3, <3>4, ShutSame
    <3>11. Still
      BY <1>1, <3>4, <3>10, AloneSame
    <3> QED
      BY <1>2, <1>5, <1>6, <2>1, <3>9, <3>11, StillGoes
  <2> QED
    BY <2>2, <2>3
<1> QED
  BY <1>8, <1>9, <1>10, <1>11

\* The duties, as long as transactions have only lost races for a driver or a request,
\* or overlooked a question.
RaceInv == overtaken \subseteq {"promotion", "lock"} => HandsInv /\ DutyInv

\* Lost races keep the duties.
LEMMA RacesKeepDuties == ASSUME Plain PROVE OverlapSpec => []RaceInv
<1>1. OverlapInit => RaceInv
  BY HandsStart, DutyStart DEF OverlapInit, RaceInv
<1>2. OverlapTypeOK /\ OverlapTypeOK' /\ RaceInv /\ [OverlapNext]_allVars => RaceInv'
  <2> SUFFICES ASSUME OverlapTypeOK, OverlapTypeOK', RaceInv, [OverlapNext]_allVars,
                      overtaken' \subseteq {"promotion", "lock"}
               PROVE  HandsInv' /\ DutyInv'
    BY DEF RaceInv
  <2>1. TypeOK /\ TypeOK' /\ overtaken \subseteq overtaken'
    BY UndisturbedIsNext
       DEF OverlapTypeOK, OverlapNext, allVars, Overtakes, FindsTaken, PromoteOverlooks,
           DriverSkipped, RequestSkipped, ReleaseStaleOffer, AcceptLate, MenuLate, RepairLate,
           PressAccept, ClaimLate
  <2>2. HandsInv /\ DutyInv /\ SoundInv /\ Duty(board, fleet, agenda)
    BY <2>1 DEF RaceInv, DutyInv
  <2>3. Handed /\ Goes => HandsInv' /\ DutyInv'
    BY <2>2 DEF Handed, Goes, Kept, DutyInv, SoundInv, Plain, AddressesStay, PricesStay
  <2>4. CASE Undisturbed
    BY <2>1, <2>2, <2>3, <2>4, UndisturbedIsNext, StepHands, StepGoes
  <2>5. CASE UNCHANGED vars
    BY <2>1, <2>2, <2>3, <2>5, StepHands, StepGoes
  <2>6. CASE FindsTaken \/ PromoteOverlooks \/ DriverSkipped \/ RequestSkipped
    BY <2>1, <2>2, <2>3, <2>6, TakenGoes
  <2>7. ASSUME NEW d \in Driver PROVE StaleOffers(orders, d) = {}
    <3> SUFFICES ASSUME NEW o \in StaleOffers(orders, d) PROVE FALSE
      OBVIOUS
    <3>1. PICK p \in Busy(orders, d) \ {o} : TRUE
      BY DEF StaleOffers
    <3>2. /\ orders[o].status = "searching" /\ orders[o].offered = d /\ o \in Order
          /\ orders[p].driver = d /\ p \in Order /\ p # o
          /\ orders[p].status \in Active \union (Pending \ {"no_drivers"})
      BY DEF StaleOffers, Busy
    <3>3. Lone(orders[p])
      BY <2>2, <3>2 DEF SoundInv, AllSound, Sound
    <3>4. orders[p].status \in Active
      BY <3>2, <3>3, NoneAssumption DEF Lone
    <3>5. board[o] = Place("shown", d) /\ board[p] = Place("riding", d)
      BY <3>2, <3>4, EntryIs, NoneAssumption DEF board
    <3>6. {board[o].phase, board[p].phase} = {"reserved", "riding"}
      BY <2>2, <3>2, <3>5, NoneAssumption DEF Duty, Single, Place
    <3> QED
      BY <3>5, <3>6 DEF Place
  <2>8. ASSUME NEW d \in Driver
        PROVE  ~(ReleaseStaleOffer(d) \/ AcceptLate(d) \/ MenuLate(d) \/ RepairLate(d)
                 \/ \E o \in Order : ClaimLate(d, o))
    <3>1. ~ReleaseStaleOffer(d)
      BY <2>7 DEF ReleaseStaleOffer
    <3>2. \A kind \in {"answer", "menu", "repair", "claim"} : ~Overtakes(kind)
      BY DEF Overtakes
    <3> QED
      BY <3>1, <3>2 DEF AcceptLate, MenuLate, RepairLate, ClaimLate
  <2> QED
    BY <2>4, <2>5, <2>6, <2>8 DEF OverlapNext, allVars, vars, PressAccept
<1> QED
  BY <1>1, <1>2, OverlapTypes, PTL DEF OverlapSpec

\* A driver who is shown a request has no other, and the queue holds his place for the
\* answer, also when others win the race for a driver or a request, or ask twice:
\* mark_offered and everything that takes a card away keep in step.
THEOREM StandsByUntilOvertakenHolds == ASSUME Plain PROVE OverlapSpec => []StandsByUntilOvertaken
<1>1. RaceInv => StandsByUntilOvertaken
  <2> SUFFICES ASSUME DutyInv, NEW d \in Driver, NEW o \in Order, Offered(d, o)
               PROVE  /\ fleet[d].row = "offered" /\ fleet[d].status = "online"
                      /\ fleet[d].onLine /\ \A p \in Order \ {o} : ~Offered(d, p)
    BY DEF RaceInv, StandsByUntilOvertaken, OfferedDriverStandsBy
  <2>1. \A p \in Order : Offered(d, p) => board[p] = Place("shown", d)
    BY EntryIs, NoneAssumption DEF Offered, board
  <2>2. board[o] = Place("shown", d) /\ board[o].phase = "shown" /\ board[o].driver = d
    BY <2>1 DEF Place
  <2>3. Fits(board[o], fleet) /\ Single(board)
    BY DEF DutyInv, Duty
  <2>4. \A p \in Order \ {o} : board[p].driver # d
    BY <2>2, <2>3, ShownAlone
  <2>5. \A p \in Order \ {o} : ~Offered(d, p)
    BY <2>1, <2>4 DEF Place
  <2> QED
    BY <2>2, <2>3, <2>5 DEF Fits
<1> QED
  BY <1>1, RacesKeepDuties, PTL
=============================================================================
