-------------------------------- MODULE Gate --------------------------------
(***************************************************************************)
(* What happens to an event before a handler sees it: the Long Poll loop   *)
(* and the executors of bot/main.py, the claim of an event, the block list *)
(* of bot/handlers.py, and the false-call debt of bot/fake_calls_service   *)
(* that locks a passenger out.  One passenger, some drivers, the admin     *)
(* site (a process of its own) and the reminder timers.                    *)
(*                                                                         *)
(* A transaction reads the committed rows when it begins and writes when   *)
(* it commits.  SQLAlchemy writes a column only if its value differs from  *)
(* the one that was read.  Timers follow the transaction that sets them;   *)
(* Timers says what really happens between the two.                        *)
(***************************************************************************)
EXTENDS Naturals, Sequences, FiniteSets

CONSTANTS
  Actor,        \* users who send events
  Passenger,    \* the one that false calls are about
  Shard,        \* single-thread executors (BOT_WORKERS)
  ShardOf(_),   \* the executor of a user: his id modulo their number
  Event,        \* numbers; a user's events are sent in the order of theirs
  By(_),        \* who sends an event
  Does(_),      \* what it asks for: "noshow", "paid", "pay" or "text"
  On(_),        \* the false call that "noshow" and "paid" are about
  Call,         \* false calls
  Slots,        \* BOT_MAX_PENDING_EVENTS
  ReminderMax,  \* fake_call_reminder_max
  MaxTrouble    \* bound: events delivered again, transactions that fail,
                \* restarts and transactions of the site, together

ASSUME EventAssumption == Event \subseteq Nat /\ Slots \in Nat \ {0}
ASSUME ShardAssumption == "site" \notin Shard /\ \A e \in Event : ShardOf(By(e)) \in Shard
ASSUME BoundAssumption == ReminderMax \in Nat /\ MaxTrouble \in Nat

Thread == Shard \union {"site"}

\* The rows: false calls by status, the order they were made in, the ones whose
\* contact was shown, reminders sent; the passenger's two flags.
Rows ==
  [status   : [Call -> {"none", "pending", "paid"}],
   born     : Seq(Call),
   asked    : SUBSET Call,
   reminded : [Call -> 0..ReminderMax],
   owes     : BOOLEAN,      \* users.passenger_fake_call_blocked
   blocked  : BOOLEAN]      \* users.is_blocked and its row in blocked_users

\* A transaction: the event or the call it is for, and the rows it has read.
Job == {"idle", "event", "forgive", "toggle"}

VARIABLES
  delivered,  \* events that Long Poll has delivered
  queue,      \* the queues of the executors
  slots,      \* free slots of _pending_events
  work,       \* the transaction of every thread
  claimed,    \* processed_events
  times,      \* how often an event took effect, kept by no code
  passed,     \* events of the passenger that reached his handlers
  lost,       \* events that a fault threw away
  db,         \* committed rows
  cached,     \* _blocked_vk_ids: "in", "out", or "none" when invalidated
  armed,      \* false calls with a reminder timer
  crossed,    \* a new debt and the lifting of a lock overlapped
  trouble     \* what of MaxTrouble has happened

intake == <<delivered, queue, slots, claimed, times, passed, lost>>
vars == <<delivered, queue, slots, work, claimed, times, passed, lost, db, cached,
          armed, crossed, trouble>>

TypeOK ==
  /\ delivered \subseteq Event /\ claimed \subseteq Event
  /\ passed \subseteq Event /\ lost \subseteq Event
  /\ queue \in [Shard -> Seq(Event)]
  /\ slots \in 0..Slots
  /\ work \in [Thread -> [job : Job, about : Event \union Call \union {0}, seen : Rows,
                       listed : BOOLEAN]]
  /\ times \in [Event -> Nat]
  /\ db \in Rows
  /\ cached \in {"in", "out", "none"}
  /\ armed \subseteq Call
  /\ crossed \in BOOLEAN

NoRows == [status |-> [c \in Call |-> "none"], born |-> <<>>, asked |-> {},
           reminded |-> [c \in Call |-> 0], owes |-> FALSE, blocked |-> FALSE]

Idle == [job |-> "idle", about |-> 0, seen |-> NoRows, listed |-> FALSE]

Init ==
  /\ delivered = {} /\ claimed = {} /\ passed = {} /\ lost = {}
  /\ queue = [s \in Shard |-> <<>>]
  /\ slots = Slots
  /\ work = [t \in Thread |-> Idle]
  /\ times = [e \in Event |-> 0]
  /\ db = NoRows
  /\ cached = "none"
  /\ armed = {}
  /\ crossed = FALSE
  /\ trouble = 0

----------------------------------------------------------------------------
(* Long Poll and the executors.                                             *)

Executor(e) == ShardOf(By(e))

BrokenSubmit(e) ==
  \E s \in Shard :
    /\ slots > 0
    /\ slots' = slots - 1
    /\ queue' = [queue EXCEPT ![s] = Append(@, e)]

\* submit_event waits for a slot.
Submit(e) ==
  /\ slots > 0
  /\ slots' = slots - 1
  /\ queue' = [queue EXCEPT ![Executor(e)] = Append(@, e)]

Deliver(e) ==
  /\ e \notin delivered
  /\ \A f \in Event : f < e /\ By(f) = By(e) => f \in delivered
  /\ delivered' = delivered \union {e}
  /\ Submit(e)
  /\ UNCHANGED <<work, claimed, times, passed, lost, db, cached, armed, crossed,
                 trouble>>

Repeat(e) ==
  /\ e \in delivered /\ trouble < MaxTrouble
  /\ trouble' = trouble + 1
  /\ Submit(e)
  /\ UNCHANGED <<delivered, work, claimed, times, passed, lost, db, cached, armed,
                 crossed>>

BrokenClaimEvent(e) == TRUE

\* _claim_event: the insert finds no row of the same event.
ClaimEvent(e) == e \notin claimed

\* process_event begins; _cached_blocked_vk_ids reads the block list again unless
\* an event did so less than five seconds ago.
Begin(s) ==
  /\ work[s].job = "idle" /\ queue[s] # <<>>
  /\ LET e == Head(queue[s]) IN
       /\ ClaimEvent(e)
       /\ \/ cached' = IF db.blocked THEN "in" ELSE "out"
          \/ cached # "none" /\ UNCHANGED cached
       /\ work' = [work EXCEPT ![s] =
            [job |-> "event", about |-> e, seen |-> db, listed |-> cached' = "in"]]
  /\ queue' = [queue EXCEPT ![s] = Tail(@)]
  /\ UNCHANGED <<delivered, slots, claimed, times, passed, lost, db, armed, crossed,
                 trouble>>

\* process_event finds its event claimed.
Skip(s) ==
  /\ work[s].job = "idle" /\ queue[s] # <<>>
  /\ ~ClaimEvent(Head(queue[s]))
  /\ queue' = [queue EXCEPT ![s] = Tail(@)]
  /\ slots' = slots + 1
  /\ UNCHANGED <<delivered, work, claimed, times, passed, lost, db, cached, armed,
                 crossed, trouble>>

\* _event_done.
Release(s) ==
  /\ slots' = slots + 1
  /\ work' = [work EXCEPT ![s] = Idle]

----------------------------------------------------------------------------
(* False calls.                                                             *)

PendingIn(rows) == {c \in Call : rows.status[c] = "pending"}

\* _latest_pending_for_passenger.
Latest(rows) ==
  LET open == {i \in DOMAIN rows.born : rows.born[i] \in PendingIn(rows)}
  IN  rows.born[CHOOSE i \in open : \A j \in open : j <= i]

\* Writes of a column that was read as old: only another value is written.
Flag(old, new) == IF old = new THEN db.owes ELSE new

\* The rows after a report.
Created(c, seen) ==
  [db EXCEPT !.status[c] = "pending", !.born = Append(@, c), !.owes = Flag(seen.owes, TRUE)]

\* create, at the end of a handler of the driver.
Create(c, seen) ==
  IF seen.status[c] # "none" THEN db' = db /\ armed' = armed
  ELSE db' = Created(c, seen) /\ armed' = armed \union {c}

\* One debt is paid, and with it the lock is lifted whatever else he owes.
BrokenSettled(c, seen) ==
  [db EXCEPT !.status[c] = "paid", !.owes = Flag(seen.owes, FALSE)]

\* The rows after a payment: the lock is lifted with the last debt.
Settled(c, seen) ==
  [db EXCEPT !.status[c] = "paid",
             !.owes = IF PendingIn(seen) \subseteq {c} THEN Flag(seen.owes, FALSE) ELSE @]

\* mark_paid.
MarkPaid(c, seen) ==
  IF seen.status[c] # "pending" THEN db' = db /\ armed' = armed
  ELSE db' = Settled(c, seen) /\ armed' = armed \ {c}

\* passenger_ready_to_pay: the contact is shown once, and ends the reminders.
ShowContact(seen) ==
  IF PendingIn(seen) = {} \/ Latest(seen) \in seen.asked
  THEN db' = db /\ armed' = armed
  ELSE /\ db' = [db EXCEPT !.asked = @ \union {Latest(seen)}]
       /\ armed' = armed \ {Latest(seen)}

\* The stale cache of the block list is all that is asked.
BrokenBlocked(listed, seen) == listed

\* He is on the block list, by the cache or by his own row.
Blocked(listed, seen) == listed \/ seen.blocked

\* handle_message of the passenger: block list, debt, handlers.  A flag that
\* outlived the debts is cleared by the next message.
HandlePassenger(e, listed, seen) ==
  \/ /\ Blocked(listed, seen)
     /\ cached' = IF listed THEN cached ELSE "none"
     /\ UNCHANGED <<db, armed, passed>>
  \/ /\ ~Blocked(listed, seen) /\ seen.owes /\ PendingIn(seen) # {}
     /\ IF Does(e) = "pay" THEN ShowContact(seen) ELSE UNCHANGED <<db, armed>>
     /\ UNCHANGED <<cached, passed>>
  \/ /\ ~Blocked(listed, seen) /\ seen.owes /\ PendingIn(seen) = {}
     /\ db' = [db EXCEPT !.owes = FALSE]
     /\ passed' = passed \union {e}
     /\ UNCHANGED <<cached, armed>>
  \/ /\ ~Blocked(listed, seen) /\ ~seen.owes
     /\ IF Does(e) = "pay" THEN ShowContact(seen) ELSE UNCHANGED <<db, armed>>
     /\ passed' = passed \union {e}
     /\ UNCHANGED cached

\* A debt is being made while another transaction may lift the lock.
Makes(t) == work[t].job = "event" /\ Does(work[t].about) = "noshow"
Lifts(t) ==
  \/ work[t].job = "forgive"
  \/ work[t].job = "event" /\ Does(work[t].about) # "noshow"
Crosses(t) ==
  crossed' = (crossed \/ \E u \in Thread \ {t} :
                           (Makes(t) /\ Lifts(u)) \/ (Lifts(t) /\ Makes(u)))

\* The handler ends and its transaction commits, with the claim of the event.
Commit(s) ==
  /\ work[s].job = "event"
  /\ LET e == work[s].about  seen == work[s].seen IN
       /\ claimed' = claimed \union {e}
       /\ times' = [times EXCEPT ![e] = @ + 1]
       /\ CASE Does(e) = "noshow" -> Create(On(e), seen) /\ UNCHANGED <<cached, passed>>
            [] Does(e) = "paid"   -> MarkPaid(On(e), seen) /\ UNCHANGED <<cached, passed>>
            [] OTHER              -> HandlePassenger(e, work[s].listed, seen)
  /\ Crosses(s)
  /\ Release(s)
  /\ UNCHANGED <<delivered, queue, lost, trouble>>

BrokenFail(s) ==
  /\ work[s].job = "event" /\ trouble < MaxTrouble
  /\ trouble' = trouble + 1
  /\ lost' = lost \union {work[s].about}
  /\ work' = [work EXCEPT ![s] = Idle]
  /\ UNCHANGED <<delivered, queue, slots, claimed, times, passed, db, cached, armed,
                 crossed>>

\* The transaction is rolled back, its claim too; nothing tries it again.
Fail(s) ==
  /\ work[s].job = "event" /\ trouble < MaxTrouble
  /\ trouble' = trouble + 1
  /\ lost' = lost \union {work[s].about}
  /\ Release(s)
  /\ UNCHANGED <<delivered, queue, claimed, times, passed, db, cached, armed,
                 crossed>>

InHand(e, s) ==
  \/ \E i \in DOMAIN queue[s] : queue[s][i] = e
  \/ work[s].job = "event" /\ work[s].about = e

\* The process ends and starts again: what is in memory is lost.
Restart ==
  /\ trouble < MaxTrouble
  /\ trouble' = trouble + 1
  /\ lost' = lost \union {e \in Event : \E s \in Shard : InHand(e, s)}
  /\ queue' = [s \in Shard |-> <<>>]
  /\ slots' = Slots
  /\ work' = [t \in Thread |-> IF t = "site" THEN work[t] ELSE Idle]
  /\ cached' = "none"
  /\ UNCHANGED <<delivered, claimed, times, passed, db, armed, crossed>>

----------------------------------------------------------------------------
(* The reminder timers and the admin site.                                  *)

\* _remind without a limit.
BrokenDueAgain(c) == db.status[c] = "pending" /\ c \notin db.asked

DueAgain(c) ==
  /\ db.status[c] = "pending" /\ c \notin db.asked
  /\ db.reminded[c] < ReminderMax

\* The timer of a reminder fires.  What overlaps with it writes none of its
\* columns and is read again by the next reminder: one step.
Remind(c) ==
  /\ c \in armed
  /\ IF DueAgain(c)
     THEN /\ db' = [db EXCEPT !.reminded[c] = IF @ < ReminderMax THEN @ + 1 ELSE @]
          /\ UNCHANGED armed
     ELSE armed' = armed \ {c} /\ UNCHANGED db
  /\ UNCHANGED <<intake, work, cached, crossed, trouble>>

SiteBegins(job, c) ==
  /\ work["site"].job = "idle" /\ trouble < MaxTrouble
  /\ job = "forgive" => db.status[c] # "none"
  /\ trouble' = trouble + 1
  /\ work' = [work EXCEPT !["site"] = [job |-> job, about |-> c, seen |-> db,
                                        listed |-> FALSE]]
  /\ UNCHANGED <<intake, db, cached, armed, crossed>>

\* fake_call_mark_paid: the timer of the bot stays, and finds the call paid.
SiteForgives ==
  /\ work["site"].job = "forgive"
  /\ LET c == work["site"].about  seen == work["site"].seen IN
       db' = IF seen.status[c] = "paid" THEN db ELSE Settled(c, seen)
  /\ Crosses("site")
  /\ work' = [work EXCEPT !["site"] = Idle]
  /\ UNCHANGED <<intake, cached, armed, trouble>>

\* toggle_block.
SiteToggles ==
  /\ work["site"].job = "toggle"
  /\ db' = [db EXCEPT !.blocked = ~work["site"].seen.blocked]
  /\ work' = [work EXCEPT !["site"] = Idle]
  /\ UNCHANGED <<intake, cached, armed, crossed, trouble>>

----------------------------------------------------------------------------

WorkerStep(s) == Begin(s) \/ Skip(s) \/ Commit(s)
TimerStep == \E c \in Call : Remind(c)
SiteStep ==
  \/ SiteForgives \/ SiteToggles
  \/ \E c \in Call : SiteBegins("forgive", c)
  \/ SiteBegins("toggle", CHOOSE c \in Call : TRUE)

Next ==
  \/ \E e \in Event : Deliver(e) \/ Repeat(e)
  \/ \E s \in Shard : WorkerStep(s) \/ Fail(s)
  \/ TimerStep \/ SiteStep \/ Restart

Spec == Init /\ [][Next]_vars

\* Executors and timers never rest while they have something to do, and Long
\* Poll delivers what users send as soon as there is a slot.
Fairness ==
  /\ \A e \in Event : WF_vars(Deliver(e))
  /\ \A s \in Shard : WF_vars(WorkerStep(s))
  /\ WF_vars(TimerStep)

FairSpec == Spec /\ Fairness

----------------------------------------------------------------------------
(* What must be true of it.                                                 *)

\* However often Long Poll repeats an event, and whatever fails in between, it
\* takes effect once at most.
EffectOnce == \A e \in Event : times[e] <= 1

\* The events of one user take effect in the order he sent them, as far as no
\* fault threw an earlier one away.
EventsInOrder ==
  [][\A e \in claimed' \ claimed, f \in Event :
       f < e /\ By(f) = By(e) => f \in claimed \union lost]_vars

\* A passenger who owes for a false call is locked out, also when he owes for
\* two, one of them is paid by the driver or on the site, and Long Poll repeats
\* a payment; unless the making of a debt overlapped the lifting of the lock.
DebtLocks == crossed \/ (PendingIn(db) # {} => db.owes)

\* A message that was read after the block of its author was committed reaches
\* no handler, however old the cached block list is.
BlockedIsSilent ==
  [][\A e \in passed' \ passed : ~work[Executor(e)].seen.blocked]_vars

\* Every event that is sent takes effect or is thrown away by a fault: the slots
\* that bound the queues come back whatever happens to their events.
EventsEnd == <>(Event = claimed \union lost)

\* Reminders end, though their debts may never be paid.
RemindersEnd == <>[](armed = {})
=============================================================================
