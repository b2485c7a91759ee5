------------------------------ MODULE Overlaps ------------------------------
(***************************************************************************)
(* What overlapping transactions do to the dispatch.  Rides runs one       *)
(* transaction at a time; the code runs an executor per group of users, the*)
(* timers, the workers and the site side by side on PostgreSQL at READ     *)
(* COMMITTED, and checks much of what it changes without a lock:           *)
(*                                                                         *)
(*   claim      driver_take_pending looks for the driver's trip and offer, *)
(*              and then locks the request he claims, not his row of the   *)
(*              queue: an offer to him may commit in between;              *)
(*   menu       so do the commands of the line menu;                       *)
(*   answer     driver_accept locks the request, but keeps the columns that*)
(*              the router has read before (no populate_existing);         *)
(*   promotion  try_promote looks for a question on screen without a lock; *)
(*   lock       a selection leaves out rows that others have locked (SKIP  *)
(*              LOCKED), or finds that the driver it has chosen is taken;  *)
(*   repair     _repair_visibly_free_drivers reads the offers before it    *)
(*              reads the rows.                                            *)
(*                                                                         *)
(* The events of one driver are handled one after the other, and of two    *)
(* transactions that overlap one is described as it runs alone, the other  *)
(* by what it reads too early.  `overtaken', kept by no code, collects the *)
(* kinds of overlap that have occurred.  In a run, MaxKinds bounds them, and*)
(* Again are the kinds that may occur more than once.                      *)
(***************************************************************************)
EXTENDS RideSafety, Naturals, FiniteSets

CONSTANTS MaxKinds, Again

ASSUME MaxKindsAssumption == MaxKinds \in Nat

VARIABLES
  pressed,    \* the offer whose «accept» a driver's handler has begun with
  overtaken   \* the kinds of overlap so far

allVars == <<fleet, orders, pq, agenda, pressed, overtaken>>

Kind == {"claim", "menu", "answer", "promotion", "lock", "repair"}

MayOvertake(kind) ==
  IF kind \in overtaken THEN kind \in Again ELSE Cardinality(overtaken) < MaxKinds

Overtakes(kind) ==
  /\ MayOvertake(kind)
  /\ overtaken' = overtaken \union {kind}

----------------------------------------------------------------------------
(* The router repairs what such an overlap leaves behind.                   *)

\* Nothing is found to repair.
BrokenStaleOffers(os, d) == {}

\* A card whose driver is on a trip: pending_offer and current_driver_order
StaleOffers(os, d) ==
  {o \in Order : /\ os[o].status = "searching" /\ os[o].offered = d
                 /\ os[o].driver = None
                 /\ Busy(os, d) \ {o} # {}}

\* _release_stale_offer_for_active_ride comes before anything else the driver
\* has sent is looked at.
ReleaseStaleOffer(d) ==
  /\ Idle /\ pressed[d] = None
  /\ \E o \in StaleOffers(orders, d) :
       /\ orders' = [orders EXCEPT ![o] = [Declined(@) EXCEPT !.status = "created"]]
       /\ fleet' = MarkAssigned(fleet, d)
       /\ Start(<<Offer(o, {d})>>)
  /\ UNCHANGED <<pq, pressed, overtaken>>

----------------------------------------------------------------------------
(* Transactions that are not disturbed.                                     *)

DriverStep(d) ==
  \/ GoOnline(d) \/ LeaveLine(d) \/ GoAway(d)
  \/ \E l \in Line : SetLine(d, l)
  \/ \E o \in Order :
       \/ Accept(d, o) \/ DeclineEnds(d, o) \/ DeclineAsksAddress(d, o) \/ DeclineAway(d, o)
       \/ \E reason \in Reason : DeclinePasses(d, o, reason)
       \/ TakePending(d, o) \/ TakeFromChat(d, o)
       \/ SubmitPrice(d, o) \/ ApplyEta(d, o) \/ Arrived(d, o) \/ Seated(d, o)
       \/ Complete(d, o)
       \/ \E outcome \in {"tripVoided", "carFailed"} : CancelActive(d, o, outcome)
       \/ \E t \in Order : Take(d, o, t) \/ TakeRouteOffer(d, o, t)
       \/ SaveEta(d, o) \/ DeclineReserved(d, o) \/ DeclineRouteOffer(d, o)

Undisturbed ==
  /\ \/ DispatchStep \/ ResumedStep
     \/ /\ Idle
        /\ \/ PassengerStep \/ TimerStep \/ Recovery
           \/ \E d \in Driver : /\ pressed[d] = None
                                /\ StaleOffers(orders, d) = {}
                                /\ DriverStep(d)
  /\ UNCHANGED <<pressed, overtaken>>

----------------------------------------------------------------------------
(* Accepting an offer that ends between the router and the lock.            *)

\* The router reads the offer, without a lock.
PressAccept(d, o) ==
  /\ Idle
  /\ pressed[d] = None
  /\ Offered(d, o)
  /\ fleet[d].onLine
  /\ StaleOffers(orders, d) = {}
  /\ MayOvertake("answer")
  /\ pressed' = [pressed EXCEPT ![d] = o]
  /\ UNCHANGED <<fleet, orders, pq, agenda, overtaken>>

\* driver_accept: the offer has ended meanwhile, and is looked at as it was
AcceptLate(d) ==
  /\ Idle /\ pressed[d] # None
  /\ ~Offered(d, pressed[d])
  /\ LET o == pressed[d] IN
       orders' = [orders EXCEPT ![o] =
         Prompted(o, [orders[o] EXCEPT !.offered = None, !.driver = d, !.status = "assigned",
                                       !.jobs = @ \ {"accept", "dispatcher_unclaimed"}])]
  /\ fleet' = MarkAssigned(fleet, d)
  /\ Start(<<>>)
  /\ pressed' = [pressed EXCEPT ![d] = None]
  /\ Overtakes("answer")
  /\ UNCHANGED pq

\* The request that a call looks at.
Looked == IF FallingBack THEN {Arg.order}
          ELSE IF Calling("scan") THEN {o \in Next_(Repaired) : HasDriver(Repaired, o)}
          ELSE {}

\* A late «accept» leaves the row of its request where it is: calls that come to
\* it return, and _poll, whose turn comes after three minutes, removes it.
FindsTaken ==
  /\ \E o \in Looked :
       /\ ~Unclaimed(orders[o])
       /\ IF Calling("scan") /\ o \notin Desk /\ ~orders[o].confirmed
          THEN /\ pq' = Unqueue(pq, o)
               /\ orders' = [orders EXCEPT ![o] = Withdraw(@)]
          ELSE UNCHANGED <<orders, pq>>
  /\ fleet' = IF FallingBack THEN fleet ELSE Repaired
  /\ Return
  /\ UNCHANGED <<pressed, overtaken>>

----------------------------------------------------------------------------
(* A driver's menu, opened before he was offered a request.                 *)

OfferedMeanwhile(d) ==
  /\ Idle /\ pressed[d] = None
  /\ LiveOffer(orders, d)
  /\ Busy(orders, d) = {}

ClaimLate(d, o) ==
  /\ OfferedMeanwhile(d)
  /\ ClaimPending(d, o)
  /\ Overtakes("claim")
  /\ UNCHANGED pressed

MenuLate(d) ==
  /\ OfferedMeanwhile(d)
  /\ \/ /\ fleet' \in {OffLine(LeaveQueue(fleet, d), d), SetAway(fleet, d)}
        /\ Start(<<>>)
     \/ /\ \E l \in Line : fleet' = OnLine(JoinQueue([fleet EXCEPT ![d].line = l], d), d)
        /\ Start(<<Promote>>)
  /\ Overtakes("menu")
  /\ UNCHANGED <<orders, pq, pressed>>

----------------------------------------------------------------------------
(* Calls of dispatch.                                                       *)

\* The question that another promotion asks is not seen yet.
PromoteOverlooks ==
  /\ Promoting
  /\ Polls(pq) # {}
  /\ fleet' = Repaired
  /\ LET todo == {o \in Order : pq[o].row = "waiting"}
     IN todo # {} /\ Then(<<Scan(todo)>>)
  /\ Overtakes("promotion")
  /\ UNCHANGED <<orders, pq, pressed>>

\* offer_to_next_driver: a driver's row is locked, and left out, or he is chosen
\* and mark_offered finds him taken; then the request is offered to the others.
DriverSkipped ==
  /\ Calling("offer")
  /\ Offerable(orders[Arg.order])
  /\ \E d \in Eligible(Repaired, orders, Arg.order) \ Arg.but :
       Then(<<Offer(Arg.order, Arg.but \union {d})>>)
  /\ \/ UNCHANGED orders
     \/ orders' = [orders EXCEPT ![Arg.order].status = "created", ![Arg.order].offered = None]
  /\ fleet' = Repaired
  /\ Overtakes("lock")
  /\ UNCHANGED <<pq, pressed>>

\* Somebody else holds the request: try_promote ends, and notify_busy_drivers
\* leaves it to him.
RequestHeld ==
  \/ Calling("scan") /\ \E o \in Next_(Repaired) : HasDriver(Repaired, o)
  \/ Notifying /\ CanNotify(Repaired, Arg.order)

RequestSkipped ==
  /\ RequestHeld
  /\ fleet' = Repaired
  /\ Return
  /\ Overtakes("lock")
  /\ UNCHANGED <<orders, pq, pressed>>

\* The offer is not seen, but the row that it has reserved.
RepairLate(d) ==
  /\ Idle
  /\ LiveOffer(orders, d)
  /\ fleet[d].row = "offered" /\ fleet[d].onLine /\ fleet[d].status = "online"
  /\ fleet' = [fleet EXCEPT ![d].row = "waiting"]
  /\ Overtakes("repair")
  /\ UNCHANGED <<orders, pq, agenda, pressed>>

----------------------------------------------------------------------------

OverlapTypeOK ==
  /\ TypeOK
  /\ pressed \in [Driver -> Order \union {None}]
  /\ overtaken \subseteq Kind

OverlapInit ==
  /\ Init
  /\ pressed = [d \in Driver |-> None]
  /\ overtaken = {}

OverlapNext ==
  \/ Undisturbed
  \/ FindsTaken \/ PromoteOverlooks \/ DriverSkipped \/ RequestSkipped
  \/ \E d \in Driver :
       \/ ReleaseStaleOffer(d) \/ AcceptLate(d)
       \/ MenuLate(d) \/ RepairLate(d)
       \/ \E o \in Order : PressAccept(d, o) \/ ClaimLate(d, o)

OverlapSpec == OverlapInit /\ [][OverlapNext]_allVars

----------------------------------------------------------------------------
(* What must be true in spite of overlaps.                                  *)

\* A driver is on one trip at a time, whatever has overlapped.  After a late
\* claim he has a trip and a card; it is the router that keeps him from
\* accepting the card too: «A driver may never have both an active trip and an
\* unanswered ordinary offer», says its comment of what it repairs.
OneTripStill ==
  \A d \in Driver : \A o, p \in Trips(orders, d) : o = p

\* Only a late claim or a late «accept» gives a driver a second duty: no
\* other overlap makes dispatch offer him a request while he has another.
DutyUntilOvertaken ==
  overtaken \intersect {"claim", "answer"} = {} => OneDuty

\* A lost race for a driver and a question asked twice leave the three records
\* of an offered driver in step.
StandsByUntilOvertaken ==
  overtaken \subseteq {"promotion", "lock"} => OfferedDriverStandsBy

\* «Ask one passenger at a time»: only a promotion that overlaps another can
\* ask a second one.
QuestionUntilOverlooked ==
  "promotion" \notin overtaken => OneQuestion

\* As long as no «accept» was late, the dispatch implements the board, with all
\* other overlaps.
BoardUntilOvertaken ==
  /\ Board!Init
  /\ []["answer" \notin overtaken' => UNCHANGED Posted \/ Board!Next]_allVars
============================================================================
