----------------------------- MODULE RideSafety -----------------------------
(***************************************************************************)
(* What must be true of the dispatch.  The invariants that start with Idle *)
(* speak of committed states; the others also hold inside a transaction.   *)
(***************************************************************************)
EXTENDS Rides

----------------------------------------------------------------------------
(* Drivers.                                                                 *)

\* A driver has one card with an offer at a time, and while it is shown he is
\* on the line, displayed as free, and out of the queue's reach: mark_offered
\* and every function that takes the card away keep orders and queue in step.
OfferedDriverStandsBy ==
  \A d \in Driver, o \in Order :
    Offered(d, o) =>
      /\ fleet[d].row = "offered"
      /\ fleet[d].status = "online"
      /\ fleet[d].onLine
      /\ \A p \in Order \ {o} : ~Offered(d, p)

\* A driver is on one trip at a time, reserves one request at a time, and
\* nobody is offered anything while he has either.
OneDuty ==
  \A d \in Driver, o, p \in Order :
    o # p =>
      /\ ~(o \in Trips(orders, d) /\ p \in Trips(orders, d))
      /\ ~(Reserved(d, o) /\ Reserved(d, p))
      /\ ~(Offered(d, o) /\ p \in Trips(orders, d) \union Reservations(orders, d))

\* Between transactions the displayed status and the trips agree: a driver on a
\* trip is displayed as busy, so that no selection and no repair of the queue
\* finds him, and a driver displayed as busy has a trip whose end frees him, for
\* his menu offers him no other way out.
BusyIsOnTrip ==
  Idle => \A d \in Driver : fleet[d].status = "busy" <=> Trips(orders, d) # {}

\* A reservation belongs to a driver who is on a trip, whose end starts or
\* releases it.
ReservationFollowsTrip ==
  Idle => \A d \in Driver : Reservations(orders, d) # {} => Trips(orders, d) # {}

----------------------------------------------------------------------------
(* Requests.                                                                *)

\* A live request that nobody drives is in one pair of hands: it waits in the
\* queue and nobody has it, or a driver looks at it, or it is posted in the
\* chat, or its author is asked for something.  No path between these loses it,
\* and none leaves it in two.  (Without a requests chat, what would go there
\* stays put.)
InOnePlace ==
  Idle => \A o \in Order :
    LET r == orders[o] IN
      /\ Parked(pq, o) => Unclaimed(r) /\ r.offered = None
      /\ r.status = "searching" => r.offered # None
      /\ r.status \in Pending =>
           \/ Parked(pq, o)
           \/ r.status \in {"searching", "chat_search"}
           \/ r.fixing
           \/ ForChat(o) /\ ~ChatOpen

\* Every wait has its timer: an offer, a question, a reservation without a
\* time, a card for a driver on the road and a post in the chat all end even
\* if the person never answers.
WaitsHaveTimers ==
  \A o \in Order :
    LET r == orders[o] IN
      /\ r.status = "searching" /\ r.offered # None => Fires("accept", o)
      /\ pq[o].row = "polling" => Fires("pqueue", o)
      /\ r.status = "parallel_assigned" /\ ~r.etaSet => Fires("parallel_eta", o)
      /\ r.routeDriver # None => Fires("route_parallel_offer", o)
      /\ r.status = "chat_search" => Fires("driver_chat", o)

\* One question «is it still needed?» is on screen at a time.
OneQuestion ==
  \A o, p \in Polls(pq) : o = p

\* A driver on the road looks at one card at a time, the card is for a request
\* that nobody has, and as long as he looks nobody on the Gorno line is offered
\* it.
CardIsAlone ==
  \A o \in Order :
    LET d == orders[o].routeDriver IN
      d # None =>
        /\ ~orders[o].fallback /\ orders[o].status # "searching"
        /\ Unclaimed(orders[o])
        /\ \A p \in Order \ {o} : orders[p].routeDriver # d

----------------------------------------------------------------------------
(* Steps.                                                                   *)

\* A request never passes from one driver to another: it is first nobody's.
NoHandover ==
  [][\A o \in Order :
       orders[o].status \in Active /\ orders'[o].status \in Active
         => orders'[o].driver = orders[o].driver]_vars

\* A request that is completed or cancelled stays so, whatever late answer, timer
\* or rest of a handler still comes for it: only a dialogue about its text that
\* its driver has left open brings it back (see the findings of the README).
ClosedIsFinal ==
  [][\A o \in Order : orders[o].status \in Closed /\ ~orders[o].fixing
                        => orders'[o].status = orders[o].status]_vars

\* Nobody is put before a free driver who keeps waiting.
NobodyOvertakes ==
  [][\A d \in Driver :
       fleet[d].row = "waiting" /\ fleet[d].status = "online"
       /\ fleet'[d].row \in {"waiting", "offered"}
         => \/ fleet'[d].ahead \subseteq fleet[d].ahead
            \/ Idle /\ LineStep]_vars

----------------------------------------------------------------------------
(* What must happen.                                                        *)

\* A transaction that has begun goes on; a timer that is due fires, and the
\* recovery worker comes round, though other transactions keep getting in
\* first.  Nothing is assumed of what people press.
Fairness ==
  /\ WF_vars(DispatchStep \/ ResumedStep)
  /\ SF_vars(Recovery)
  /\ SF_vars(\E o \in Order : AcceptTimeout(o))
  /\ SF_vars(\E o \in Order : PollTimeout(o))
  /\ SF_vars(\E o \in Order : EtaTimeout(o))

FairSpec == Spec /\ Fairness

\* Only this much is assumed where no timer is needed.
CallsSpec == Spec /\ WF_vars(DispatchStep \/ ResumedStep)

\* The calls are about a village request that every free driver of its line has
\* refused.
Refused(o) ==
  /\ ~Idle /\ Arg.order = o /\ Pickup[o] # None
  /\ Waiting(Repaired, orders, o) # {}
  /\ Eligible(Repaired, orders, o) = {}

\* A transaction can run for ever in one way only: an offer of a village request
\* that every free driver has refused finds nobody, and falls back to a line
\* where has_waiting_driver, which does not know of refusals, sees them again.
\* Every other transaction ends, whatever it calls.
SettlesUnlessRefused == []<>Idle \/ <>[](\E o \in Order : Refused(o))

\* «A visibly free driver and old waiting orders could remain idle forever»:
\* the recovery worker sees to it that they do not.
FreeDriversAreUsed ==
  \A o \in Order : []<>~(Parked(pq, o) /\ Eligible(Repaired, orders, o) # {})

\* Nobody waits for one person without end: an offer, a question «is it still
\* needed?» and a reservation without a time are left again.
WaitsEnd ==
  \A o \in Order :
    /\ []<>~(orders[o].status = "searching" /\ orders[o].offered # None)
    /\ []<>~(pq[o].row = "polling")
    /\ []<>~(orders[o].status = "parallel_assigned" /\ ~orders[o].etaSet)

----------------------------------------------------------------------------
(* The board a reader of the table sees.                                    *)

BoardPhase(r) ==
  CASE r.status = "new"                               -> "new"
    [] r.status = "searching" /\ r.offered # None     -> "shown"
    [] r.status = "parallel_assigned"                 -> "reserved"
    [] r.status \in Active                            -> "riding"
    [] r.status \in Closed                            -> "over"
    [] OTHER                                          -> "open"

BoardDriver(r) ==
  CASE BoardPhase(r) = "shown"                  -> r.offered
    [] BoardPhase(r) \in {"reserved", "riding"} -> r.driver
    [] OTHER                                    -> None

Posted == [o \in Order |-> [phase |-> BoardPhase(orders[o]),
                           driver |-> BoardDriver(orders[o])]]

Board == INSTANCE RideBoard WITH board <- Posted
============================================================================
