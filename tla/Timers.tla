------------------------------- MODULE Timers -------------------------------
(***************************************************************************)
(* The persistent timers of bot/timers.py.  A timer lives twice: in memory *)
(* (_entries and the heap of deadlines) and as a row of scheduled_jobs.    *)
(* schedule() and cancel() change the memory at once, under _condition,    *)
(* and the row inside the transaction of the handler that calls them.  A   *)
(* thread of the pool runs the callback of a timer that is due, and then   *)
(* _safe_run clears its row or arms it again.                              *)
(*                                                                         *)
(* Every call is two steps, its part in memory and its part in the         *)
(* database: the second may have to wait for the row lock of another       *)
(* transaction.  A row that a transaction changed stays locked until its   *)
(* end (PostgreSQL, READ COMMITTED, no lock timeout is configured).        *)
(*                                                                         *)
(* Time is not measured.  A timer is taken to come due only after the      *)
(* transaction that set it has ended: delays are seconds and minutes.      *)
(***************************************************************************)
EXTENDS Naturals, Sequences, FiniteSets

CONSTANTS
  Key,          \* timers, "kind:object_id"
  Handler,      \* threads that handle events, one transaction at a time
  Worker,       \* threads of the callback pool (TIMER_WORKERS)
  None,
  Token,        \* numbers of heap records; a bound on records per timer
  MaxEvents,    \* bound: transactions that handlers begin
  MaxCalls,     \* bound: calls of schedule and cancel in one transaction
  MaxFaults     \* bound: rollbacks, failing deletes, restarts, cancellations
                \* from the site

ASSUME ThreadAssumption == Handler \intersect Worker = {}
ASSUME NoneAssumption   == None \notin Key \union Token \union Handler \union Worker
ASSUME BoundAssumption  == /\ MaxEvents \in Nat
                           /\ MaxCalls \in Nat
                           /\ MaxFaults \in Nat

Thread == Handler \union Worker

(***************************************************************************)
(* What a thread is doing:                                                 *)
(*   "idle"      nothing                                                   *)
(*   "open"      inside a transaction, between two calls                   *)
(*   "schedule"  the timer `key' is armed in memory, its row is not written*)
(*   "cancel"    the timer `key' is off in memory, its row still there     *)
(*   "done"      a callback succeeded; _safe_run wants _condition          *)
(*   "clear"     _safe_run holds _condition and deletes the row            *)
(*   "failed"    a callback raised; _safe_run arms the timer again         *)
(*   "retry"     it is armed; _persist_retry writes the row                *)
(***************************************************************************)
Activity == {"idle", "open", "schedule", "cancel", "done", "clear", "failed", "retry"}

\* What a transaction has done to the row of a timer, uncommitted.  An ORM
\* change ("change") is sent, and locks the row, only with a flush ("update").
Write == {"none", "change", "update", "insert", "delete"}
Locking == {"update", "insert", "delete"}

ThreadRecord == [at     : Activity,
                 timer  : Key \union {None},    \* whose callback it runs
                 key    : Key \union {None},    \* of the call in progress
                 writes : [Key -> Write],
                 calls  : 0..MaxCalls]         \* it will still make

Nothing == [k \in Key |-> "none"]
Resting == [at |-> "idle", timer |-> None, key |-> None, writes |-> Nothing, calls |-> 0]

VARIABLES
  entries,   \* _entries: the number of the heap record that counts, or None
  heap,      \* _heap: records that were not popped yet, also outdated ones
  pool,      \* callbacks submitted to the pool, in order
  row,       \* scheduled_jobs: the timers with a committed pending row
  thread,    \* what every thread does
  condition, \* the thread that holds _condition while it waits, or None
  torn,      \* timers whose memory and row were set apart by a fault, or by
             \* two transactions that changed them at once; kept by no code
  events, faults

memory == <<entries, heap, pool>>
vars == <<entries, heap, pool, row, thread, condition, torn, events, faults>>

TypeOK ==
  /\ entries \in [Key -> Token \union {None}]
  /\ heap \subseteq Key \X Token
  /\ pool \in Seq(Key)
  /\ row \subseteq Key
  /\ thread \in [Thread -> ThreadRecord]
  /\ condition \in Worker \union {None}
  /\ torn \subseteq Key
  /\ events \in 0..MaxEvents
  /\ faults \in 0..MaxFaults

Init ==
  /\ entries = [k \in Key |-> None]
  /\ heap = {}
  /\ pool = <<>>
  /\ row = {}
  /\ thread = [t \in Thread |-> Resting]
  /\ condition = None
  /\ torn = {}
  /\ events = 0
  /\ faults = 0

Becomes(t, r) == thread' = [thread EXCEPT ![t] = r]

\* The row of k cannot be changed by t before another transaction ends.
Locked(k, t) == \E u \in Thread \ {t} : thread[u].writes[k] \in Locking

\* A transaction that has not ended yet has changed the timer k, or a retry of
\* k is armed and not yet written.
Touched(k, t) ==
  \/ thread[t].writes[k] # "none"
  \/ thread[t].key = k
  \/ thread[t].timer = k /\ thread[t].at = "retry"
Contested(k, t) == \E u \in Thread \ {t} : Touched(k, u)

\* What a transaction sees: its own uncommitted changes over the table.
Sees(t, k) ==
  \/ thread[t].writes[k] = "insert"
  \/ k \in row /\ thread[t].writes[k] # "delete"

----------------------------------------------------------------------------
(* schedule() and cancel(), called by handlers and by callbacks.            *)

\* A timer that is replaced gets no record of its own in the heap.
BrokenArm(k) ==
  \E n \in Token :
    /\ <<k, n>> \notin heap
    /\ entries' = [entries EXCEPT ![k] = n]
    /\ heap' = IF entries[k] = None THEN heap \union {<<k, n>>} ELSE heap

Arm(k) ==
  \E n \in Token :
    /\ <<k, n>> \notin heap
    /\ entries' = [entries EXCEPT ![k] = n]
    /\ heap' = heap \union {<<k, n>>}

CanCall(t) == thread[t].at = "open" /\ thread[t].calls > 0

Schedule(t, k) ==
  /\ CanCall(t)
  /\ condition = None
  /\ Arm(k)
  /\ Becomes(t, [thread[t] EXCEPT !.at = "schedule", !.key = k, !.calls = @ - 1])
  /\ torn' = IF Contested(k, t) THEN torn \union {k} ELSE torn
  /\ UNCHANGED <<pool, row, condition, events, faults>>

\* The row it sees is changed by the ORM; without one it upserts, which waits
\* for anybody else who is writing the same key.
Persist(t) ==
  LET k == thread[t].key IN
    /\ thread[t].at = "schedule"
    /\ Sees(t, k) \/ ~Locked(k, t)
    /\ Becomes(t, [thread[t] EXCEPT !.at = "open", !.key = None,
         !.writes[k] = IF ~Sees(t, k) THEN "insert"
                       ELSE IF @ = "none" THEN "change" ELSE @])
    /\ UNCHANGED <<entries, heap, pool, row, condition, torn, events, faults>>

Cancel(t, k) ==
  /\ CanCall(t)
  /\ condition = None
  /\ entries' = [entries EXCEPT ![k] = None]
  /\ Becomes(t, [thread[t] EXCEPT !.at = "cancel", !.key = k, !.calls = @ - 1])
  /\ torn' = IF Contested(k, t) THEN torn \union {k} ELSE torn
  /\ UNCHANGED <<heap, pool, row, condition, events, faults>>

\* The DELETE waits for the lock of a row it sees; a row it does not see it
\* leaves alone.
Unpersist(t) ==
  LET k == thread[t].key IN
    /\ thread[t].at = "cancel"
    /\ k \in row => ~Locked(k, t)
    /\ Becomes(t, [thread[t] EXCEPT !.at = "open", !.key = None,
         !.writes[k] = IF Sees(t, k) THEN "delete" ELSE @])
    /\ UNCHANGED <<entries, heap, pool, row, condition, torn, events, faults>>

----------------------------------------------------------------------------
(* Transactions.                                                            *)

Begin(h) ==
  /\ h \in Handler
  /\ thread[h].at = "idle"
  /\ events < MaxEvents
  /\ \E n \in 1..MaxCalls : Becomes(h, [Resting EXCEPT !.at = "open", !.calls = n])
  /\ events' = events + 1
  /\ UNCHANGED <<entries, heap, pool, row, condition, torn, faults>>

Changed(t) == {k \in Key : thread[t].writes[k] = "change"}

\* An UPDATE that is sent waits for the lock of its row.
Flush(t) ==
  /\ thread[t].at = "open"
  /\ Changed(t) # {}
  /\ \A k \in Changed(t) : k \in row /\ ~Locked(k, t)
  /\ Becomes(t, [thread[t] EXCEPT !.writes =
       [k \in Key |-> IF @[k] = "change" THEN "update" ELSE @[k]]])
  /\ UNCHANGED <<entries, heap, pool, row, condition, torn, events, faults>>

Deleted(t)  == {k \in Key : thread[t].writes[k] = "delete"}
Inserted(t) == {k \in Key : thread[t].writes[k] = "insert"}

\* The end of a transaction: a handler is through, a callback goes on in
\* _safe_run.
Ended(t, at) == [Resting EXCEPT !.at = IF thread[t].timer = None THEN "idle" ELSE at,
                                !.timer = thread[t].timer]

Commit(t) ==
  /\ thread[t].at = "open"
  /\ thread[t].calls = 0
  /\ \A k \in Changed(t) : k \in row /\ ~Locked(k, t)
  /\ row' = (row \ Deleted(t)) \union Inserted(t)
  /\ Becomes(t, Ended(t, "done"))
  /\ UNCHANGED <<entries, heap, pool, condition, torn, events, faults>>

\* What the transaction did in memory stays.
RolledBack(t) ==
  /\ torn' = torn \union {k \in Key : Touched(k, t)}
  /\ Becomes(t, Ended(t, "failed"))

\* An UPDATE that matches no row: somebody deleted it since it was read.
Stale(t) ==
  /\ thread[t].at = "open"
  /\ thread[t].calls = 0
  /\ Changed(t) \ row # {}
  /\ RolledBack(t)
  /\ UNCHANGED <<entries, heap, pool, row, condition, events, faults>>

\* Any other error that reaches session_scope.
Rollback(t) ==
  /\ thread[t].at = "open"
  /\ faults < MaxFaults
  /\ RolledBack(t)
  /\ faults' = faults + 1
  /\ UNCHANGED <<entries, heap, pool, row, condition, events>>

----------------------------------------------------------------------------
(* Who waits for whom.  PostgreSQL notices a circle of its own row locks and*)
(* ends one of the transactions; it knows nothing of _condition.            *)

WaitsForRow(t, u) ==
  \E k \in Key :
    /\ thread[u].writes[k] \in Locking
    /\ \/ thread[t].at = "cancel" /\ thread[t].key = k /\ k \in row
       \/ thread[t].at = "schedule" /\ thread[t].key = k /\ ~Sees(t, k)
       \/ thread[t].at = "open" /\ thread[t].calls = 0 /\ k \in Changed(t)
       \/ thread[t].at = "clear" /\ thread[t].timer = k /\ k \in row

WaitsForCondition(t) ==
  \/ thread[t].at = "open" /\ thread[t].calls > 0
  \/ thread[t].at \in {"done", "failed"}

WaitsFor(t, u) ==
  t # u /\ (WaitsForRow(t, u) \/ (condition = u /\ WaitsForCondition(t)))

Victim(t) ==
  /\ \E u \in Thread \ {t} : WaitsForRow(t, u) /\ WaitsForRow(u, t)
  /\ thread[t].at # "clear"
  /\ RolledBack(t)
  /\ UNCHANGED <<entries, heap, pool, row, condition, events, faults>>

----------------------------------------------------------------------------
(* The scheduler thread, and _safe_run in the threads of the pool.          *)

\* A record that was cancelled or replaced since is dropped.
Outdated(k, n) ==
  /\ <<k, n>> \in heap
  /\ entries[k] # n
  /\ condition = None
  /\ heap' = heap \ {<<k, n>>}
  /\ UNCHANGED <<entries, pool, row, thread, condition, torn, events, faults>>

Due(k, n) ==
  /\ <<k, n>> \in heap
  /\ entries[k] = n
  /\ condition = None
  /\ \A t \in Thread : ~Touched(k, t)
  /\ heap' = heap \ {<<k, n>>}
  /\ entries' = [entries EXCEPT ![k] = None]
  /\ pool' = Append(pool, k)
  /\ UNCHANGED <<row, thread, condition, torn, events, faults>>

\* A free thread of the pool begins the callback, which is a transaction and
\* may itself set timers, also the one that is running.
Run(w) ==
  /\ w \in Worker
  /\ thread[w].at = "idle"
  /\ pool # <<>>
  /\ pool' = Tail(pool)
  /\ \E n \in 0..(IF events < MaxEvents THEN MaxCalls ELSE 0) :
       /\ Becomes(w, [Resting EXCEPT !.at = "open", !.timer = Head(pool), !.calls = n])
       /\ events' = IF n = 0 THEN events ELSE events + 1
  /\ UNCHANGED <<entries, heap, row, condition, torn, faults>>

\* The callback succeeded, and its timer was set again while it ran: the row
\* belongs to the new one.
Kept(w) ==
  /\ thread[w].at = "done"
  /\ condition = None
  /\ entries[thread[w].timer] # None
  /\ Becomes(w, Resting)
  /\ UNCHANGED <<entries, heap, pool, row, condition, torn, events, faults>>

\* The row is deleted whatever became of the timer meanwhile.
BrokenClearStarts(w) ==
  /\ thread[w].at = "done"
  /\ condition = None
  /\ condition' = w
  /\ Becomes(w, [thread[w] EXCEPT !.at = "clear"])
  /\ UNCHANGED <<entries, heap, pool, row, torn, events, faults>>

ClearStarts(w) ==
  /\ thread[w].at = "done"
  /\ condition = None
  /\ entries[thread[w].timer] = None
  /\ condition' = w
  /\ Becomes(w, [thread[w] EXCEPT !.at = "clear"])
  /\ UNCHANGED <<entries, heap, pool, row, torn, events, faults>>

\* _delete_persistent, in a transaction of its own.
ClearEnds(w) ==
  /\ thread[w].at = "clear"
  /\ thread[w].timer \in row => ~Locked(thread[w].timer, w)
  /\ row' = row \ {thread[w].timer}
  /\ condition' = None
  /\ Becomes(w, Resting)
  /\ UNCHANGED <<entries, heap, pool, torn, events, faults>>

\* Its error is logged.
ClearFails(w) ==
  /\ thread[w].at = "clear"
  /\ faults < MaxFaults
  /\ faults' = faults + 1
  /\ torn' = torn \union {thread[w].timer}
  /\ condition' = None
  /\ Becomes(w, Resting)
  /\ UNCHANGED <<entries, heap, pool, row, events>>

\* The callback raised: it will run again after retry_delay.
ArmAgain(w) ==
  /\ thread[w].at = "failed"
  /\ condition = None
  /\ Arm(thread[w].timer)
  /\ torn' = IF Contested(thread[w].timer, w) THEN torn \union {thread[w].timer} ELSE torn
  /\ Becomes(w, [thread[w] EXCEPT !.at = "retry"])
  /\ UNCHANGED <<pool, row, condition, events, faults>>

\* _persist_retry, in a transaction of its own.  When the row it has read is
\* deleted while it waits for it, the update fails and is logged.
PersistRetry(w) ==
  LET k == thread[w].timer IN
    /\ thread[w].at = "retry"
    /\ \/ /\ ~Locked(k, w)
          /\ row' = row \union {k}
          /\ torn' = IF Contested(k, w) THEN torn \union {k} ELSE torn
       \/ /\ Locked(k, w)
          /\ k \in row
          /\ torn' = torn \union {k}
          /\ UNCHANGED row
    /\ Becomes(w, Resting)
    /\ UNCHANGED <<entries, heap, pool, condition, events, faults>>

----------------------------------------------------------------------------
(* The process dies and is started again: restore_persistent arms every     *)
(* pending row before the first event is read.                              *)

Restart ==
  /\ faults < MaxFaults
  /\ faults' = faults + 1
  /\ \E number \in [row -> Token] :
       /\ entries' = [k \in Key |-> IF k \in row THEN number[k] ELSE None]
       /\ heap' = {<<k, number[k]>> : k \in row}
  /\ pool' = <<>>
  /\ thread' = [t \in Thread |-> Resting]
  /\ condition' = None
  /\ torn' = {}
  /\ UNCHANGED <<row, events>>

\* cancel_from_admin, in the process of the site: it deletes every row with the
\* number of the request, whatever its kind, and cannot reach the memory.
SiteCancels ==
  /\ faults < MaxFaults
  /\ faults' = faults + 1
  /\ row # {}
  /\ \A k \in row, t \in Thread : thread[t].writes[k] \notin Locking
  /\ row' = {}
  /\ torn' = torn \union row
  /\ UNCHANGED <<entries, heap, pool, thread, condition, events>>

----------------------------------------------------------------------------

CallStep(t) ==
  \/ \E k \in Key : Schedule(t, k) \/ Cancel(t, k)
  \/ Persist(t) \/ Unpersist(t)

EndStep(t) == Commit(t) \/ Stale(t) \/ Victim(t)

WorkerStep(w) ==
  \/ Run(w) \/ Kept(w) \/ ClearStarts(w) \/ ClearEnds(w)
  \/ ArmAgain(w) \/ PersistRetry(w)

SchedulerStep == \E k \in Key, n \in Token : Outdated(k, n) \/ Due(k, n)

Fault ==
  \/ \E t \in Thread : Rollback(t)
  \/ \E w \in Worker : ClearFails(w)
  \/ Restart \/ SiteCancels

Next ==
  \/ \E h \in Handler : Begin(h)
  \/ \E t \in Thread : CallStep(t) \/ Flush(t) \/ EndStep(t)
  \/ \E w \in Worker : WorkerStep(w)
  \/ SchedulerStep
  \/ Fault

Spec == Init /\ [][Next]_vars

\* Transactions and callbacks that have begun go on, the pool takes up what was
\* submitted, and the scheduler fires what is due.
Fairness ==
  /\ \A t \in Thread : WF_vars(CallStep(t)) /\ WF_vars(EndStep(t))
  /\ \A w \in Worker : WF_vars(WorkerStep(w))
  /\ WF_vars(SchedulerStep)

FairSpec == Spec /\ Fairness

----------------------------------------------------------------------------
(* What must be true of them.                                               *)

AtRest(k) == \A t \in Thread : ~Touched(k, t)

Running(k) ==
  \/ \E i \in DOMAIN pool : pool[i] = k
  \/ \E w \in Worker : thread[w].timer = k

\* «Keep a same-key timer scheduled while this callback was running»: between
\* transactions a timer that is armed has a row, so that it survives a restart,
\* and in particular the end of the callback before it does not take the row
\* away; and a row means that somebody will act on it without a restart, since
\* its timer is armed or its callback is under way.  (A fault may tear the two
\* apart: see torn.)
RowsMatchTimers ==
  \A k \in Key : AtRest(k) /\ k \notin torn =>
    /\ entries[k] # None => k \in row
    /\ k \in row => entries[k] # None \/ Running(k)

\* Threads that wait for one another, the owner of _condition among them: the
\* scheduler, schedule() and cancel() stand still for good.
Stuck ==
  \E S \in SUBSET Thread :
    /\ condition \in S
    /\ \A t \in S : \E u \in S : WaitsFor(t, u)

\* «Scalable non-blocking timer scheduler»: the scheduler can always go on.
NeverStuck == ~Stuck

\* «The durable row is kept pending until its callback succeeds»: once people
\* stop setting timers, every row comes to its end, unless the threads are
\* stuck or a fault has set the timer apart from its row.
TimersEnd ==
  \A k \in Key : k \in row ~> (k \notin row \/ Stuck \/ k \in torn)
============================================================================
