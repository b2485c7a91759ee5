---------------------------- MODULE TimersProofs ----------------------------
(***************************************************************************)
(* For any timers, handlers and threads of the pool, over any rollbacks,   *)
(* failing callbacks and restarts: between transactions a timer that is    *)
(* armed has its row, and a row has its timer or a callback that is under  *)
(* way.                                                                    *)
(***************************************************************************)
EXTENDS Timers, TLAPS

----------------------------------------------------------------------------
(* What every thread is doing makes sense by itself: a call has its timer,  *)
(* and _safe_run the timer of its callback, whose transaction has ended.    *)

Sound(r) ==
  /\ r \in ThreadRecord
  /\ r.key # None <=> r.at \in {"schedule", "cancel"}
  /\ r.at \in {"done", "clear", "failed", "retry"} => r.timer # None /\ r.writes = Nothing
  /\ r.at = "idle" => r.timer = None /\ r.writes = Nothing

Typed ==
  /\ TypeOK
  /\ \A t \in Thread : Sound(thread[t])

\* A thread at rest, and one whose transaction has ended, are sound.
LEMMA RestingSound == Sound(Resting)
BY NoneAssumption, BoundAssumption
   DEF Sound, Resting, Nothing, ThreadRecord, Activity, Write

LEMMA EndedSound ==
  ASSUME Typed, NEW t \in Thread, NEW at \in {"done", "failed"}
  PROVE  Sound(Ended(t, at))
<1>1. thread[t] \in ThreadRecord
  BY DEF Typed, TypeOK
<1>2. Resting \in ThreadRecord
  BY RestingSound DEF Sound
<1> QED
  BY <1>1, <1>2, NoneAssumption DEF Ended, Resting, Sound, ThreadRecord, Activity

\* A step that gives one thread a new record is judged by that record.
LEMMA OneSound ==
  ASSUME Typed, NEW t \in Thread, NEW r, Sound(r), Becomes(t, r)
  PROVE  /\ thread' \in [Thread -> ThreadRecord]
         /\ \A u \in Thread : Sound(thread'[u])
<1>1. r \in ThreadRecord
  BY DEF Sound
<1>2. \A u \in Thread : thread'[u] = IF u = t THEN r ELSE thread[u]
  BY DEF Becomes, Typed, TypeOK
<1> QED
  BY <1>1, <1>2 DEF Becomes, Typed, TypeOK

\* The number that is armed is one of the numbers.
LEMMA ArmTyped ==
  ASSUME TypeOK, NEW k \in Key, Arm(k)
  PROVE  /\ entries' \in [Key -> Token \union {None}]
         /\ heap' \subseteq Key \X Token
         /\ entries'[k] # None
         /\ \A l \in Key : l # k => entries'[l] = entries[l]
BY NoneAssumption DEF TypeOK, Arm

----------------------------------------------------------------------------
(* Every step keeps this up.                                                *)

\* The record of a thread that schedules or cancels a timer.
LEMMA CallSound ==
  ASSUME Typed, NEW t \in Thread, NEW k \in Key, NEW at \in {"schedule", "cancel"},
         CanCall(t)
  PROVE  Sound([thread[t] EXCEPT !.at = at, !.key = k, !.calls = @ - 1])
<1>1. /\ thread[t] \in ThreadRecord
      /\ thread[t].calls \in Nat
      /\ thread[t].calls - 1 \in 0..MaxCalls
  BY BoundAssumption DEF Typed, TypeOK, ThreadRecord, CanCall
<1> QED
  BY <1>1, NoneAssumption DEF Typed, Sound, ThreadRecord, Activity, CanCall

\* The record of a thread whose call is through.
LEMMA WroteSound ==
  ASSUME Typed, NEW t \in Thread, NEW k \in Key, NEW w \in Write,
         thread[t].at \in {"schedule", "cancel"}
  PROVE  Sound([thread[t] EXCEPT !.at = "open", !.key = None, !.writes[k] = w])
<1>1. /\ thread[t] \in ThreadRecord
      /\ Sound(thread[t])
  BY DEF Typed, TypeOK
<1> QED
  BY <1>1, NoneAssumption DEF Sound, ThreadRecord, Activity

\* What schedule() makes of the row, and cancel() of it.
Scheduled(t, k) == IF ~Sees(t, k) THEN "insert"
                   ELSE IF thread[t].writes[k] = "none" THEN "change" ELSE thread[t].writes[k]
Cancelled(t, k) == IF Sees(t, k) THEN "delete" ELSE thread[t].writes[k]

Wrote(t, k, w) == [thread[t] EXCEPT !.at = "open", !.key = None, !.writes[k] = w]

LEMMA PersistWrites ==
  ASSUME Typed, NEW t \in Thread, Persist(t)
  PROVE  /\ thread[t].key \in Key
         /\ Scheduled(t, thread[t].key) \in Write
         /\ Becomes(t, Wrote(t, thread[t].key, Scheduled(t, thread[t].key)))
<1>1. thread[t].key \in Key /\ thread[t].writes \in [Key -> Write]
  BY DEF Typed, TypeOK, ThreadRecord, Sound, Persist
<1> QED
  BY <1>1 DEF Persist, Scheduled, Wrote, Write

LEMMA UnpersistWrites ==
  ASSUME Typed, NEW t \in Thread, Unpersist(t)
  PROVE  /\ thread[t].key \in Key
         /\ Cancelled(t, thread[t].key) \in Write
         /\ Becomes(t, Wrote(t, thread[t].key, Cancelled(t, thread[t].key)))
<1>1. thread[t].key \in Key /\ thread[t].writes \in [Key -> Write]
  BY DEF Typed, TypeOK, ThreadRecord, Sound, Unpersist
<1> QED
  BY <1>1 DEF Unpersist, Cancelled, Wrote, Write

\* Calls of schedule and cancel.
LEMMA CallTyped ==
  ASSUME Typed, NEW t \in Thread, CallStep(t)
  PROVE  Typed'
<1>1. ASSUME NEW k \in Key, Schedule(t, k)
      PROVE  Typed'
  BY <1>1, ArmTyped, CallSound, OneSound DEF Schedule, Typed, TypeOK
<1>2. ASSUME NEW k \in Key, Cancel(t, k)
      PROVE  Typed'
  BY <1>2, CallSound, OneSound DEF Cancel, Typed, TypeOK
<1>3. CASE Persist(t)
  <2>1. Sound(Wrote(t, thread[t].key, Scheduled(t, thread[t].key)))
    BY <1>3, PersistWrites, WroteSound DEF Wrote, Persist
  <2>2. /\ thread' \in [Thread -> ThreadRecord]
        /\ \A u \in Thread : Sound(thread'[u])
    BY <1>3, <2>1, PersistWrites, OneSound
  <2> QED
    BY <1>3, <2>2 DEF Persist, Typed, TypeOK
<1>4. CASE Unpersist(t)
  <2>1. Sound(Wrote(t, thread[t].key, Cancelled(t, thread[t].key)))
    BY <1>4, UnpersistWrites, WroteSound DEF Wrote, Unpersist
  <2>2. /\ thread' \in [Thread -> ThreadRecord]
        /\ \A u \in Thread : Sound(thread'[u])
    BY <1>4, <2>1, UnpersistWrites, OneSound
  <2> QED
    BY <1>4, <2>2 DEF Unpersist, Typed, TypeOK
<1> QED
  BY <1>1, <1>2, <1>3, <1>4 DEF CallStep

\* The record of a thread that begins a transaction, of a callback or not.
Opened(k, n) == [Resting EXCEPT !.at = "open", !.timer = k, !.calls = n]

LEMMA OpenedSound ==
  ASSUME NEW k \in Key \union {None}, NEW n \in 0..MaxCalls
  PROVE  Sound(Opened(k, n))
BY RestingSound, NoneAssumption DEF Opened, Resting, Sound, ThreadRecord, Activity

\* A transaction begins.
LEMMA BeginTyped ==
  ASSUME Typed, NEW h \in Handler, Begin(h)
  PROVE  Typed'
<1>1. h \in Thread
  BY DEF Thread
<1>2. PICK n \in 1..MaxCalls : Becomes(h, [Resting EXCEPT !.at = "open", !.calls = n])
  BY DEF Begin
<1>3. Sound([Resting EXCEPT !.at = "open", !.calls = n])
  <2>1. n \in 0..MaxCalls
    BY <1>2, BoundAssumption
  <2> QED
    BY <2>1, RestingSound DEF Resting, Sound, ThreadRecord, Activity
<1>4. events + 1 \in 0..MaxEvents
  BY BoundAssumption DEF Begin, Typed, TypeOK
<1> QED
  BY <1>1, <1>2, <1>3, <1>4, OneSound DEF Begin, Typed, TypeOK

\* Flush sends the changes.
Sent(t) == [thread[t] EXCEPT !.writes =
              [k \in Key |-> IF @[k] = "change" THEN "update" ELSE @[k]]]

LEMMA SentSound ==
  ASSUME Typed, NEW t \in Thread, thread[t].at = "open"
  PROVE  Sound(Sent(t))
<1>1. /\ thread[t] \in ThreadRecord
      /\ Sound(thread[t])
  BY DEF Typed, TypeOK
<1> QED
  BY <1>1 DEF Sent, Sound, ThreadRecord, Write

\* Transactions that flush and end.
LEMMA EndTyped ==
  ASSUME Typed, NEW t \in Thread, Flush(t) \/ EndStep(t)
  PROVE  Typed'
<1>1. CASE Flush(t)
  <2>1. Becomes(t, Sent(t)) /\ thread[t].at = "open"
    BY <1>1 DEF Flush, Sent
  <2> QED
    BY <1>1, <2>1, SentSound, OneSound DEF Flush, Typed, TypeOK
<1>2. CASE Commit(t)
  BY <1>2, EndedSound, OneSound DEF Commit, Typed, TypeOK, Inserted
<1>3. CASE Stale(t)
  BY <1>3, EndedSound, OneSound DEF Stale, RolledBack, Typed, TypeOK
<1>4. CASE Victim(t)
  BY <1>4, EndedSound, OneSound DEF Victim, RolledBack, Typed, TypeOK
<1> QED
  BY <1>1, <1>2, <1>3, <1>4 DEF EndStep

\* The threads of the pool.
LEMMA WorkerTyped ==
  ASSUME Typed, NEW w \in Worker, WorkerStep(w)
  PROVE  Typed'
<1>1. w \in Thread /\ thread[w] \in ThreadRecord /\ Sound(thread[w])
  BY DEF Thread, Typed, TypeOK
<1>2. CASE Run(w)
  <2>1. PICK n \in 0..(IF events < MaxEvents THEN MaxCalls ELSE 0) :
          /\ Becomes(w, Opened(Head(pool), n))
          /\ events' = IF n = 0 THEN events ELSE events + 1
    BY <1>2 DEF Run, Opened
  <2>2. /\ Head(pool) \in Key
        /\ pool' \in Seq(Key)
    BY <1>2 DEF Run, Typed, TypeOK
  <2>3. Sound(Opened(Head(pool), n))
    BY <2>2, OpenedSound, BoundAssumption
  <2>4. events' \in 0..MaxEvents
    BY <2>1, BoundAssumption DEF Typed, TypeOK
  <2> QED
    BY <1>1, <1>2, <2>1, <2>2, <2>3, <2>4, OneSound DEF Run, Typed, TypeOK
<1>3. CASE Kept(w)
  BY <1>1, <1>3, RestingSound, OneSound DEF Kept, Typed, TypeOK
<1>4. CASE ClearStarts(w)
  <2>1. Sound([thread[w] EXCEPT !.at = "clear"])
    BY <1>1, <1>4 DEF ClearStarts, Sound, ThreadRecord, Activity
  <2> QED
    BY <1>1, <1>4, <2>1, OneSound DEF ClearStarts, Typed, TypeOK
<1>5. CASE ClearEnds(w)
  BY <1>1, <1>5, RestingSound, OneSound DEF ClearEnds, Typed, TypeOK
<1>6. CASE ArmAgain(w)
  <2>1. thread[w].timer \in Key
    BY <1>1, <1>6 DEF ArmAgain, Sound, ThreadRecord
  <2>2. Sound([thread[w] EXCEPT !.at = "retry"])
    BY <1>1, <1>6 DEF ArmAgain, Sound, ThreadRecord, Activity
  <2> QED
    BY <1>1, <1>6, <2>1, <2>2, ArmTyped, OneSound DEF ArmAgain, Typed, TypeOK
<1>7. CASE PersistRetry(w)
  <2>1. thread[w].timer \in Key
    BY <1>1, <1>7 DEF PersistRetry, Sound, ThreadRecord
  <2> QED
    BY <1>1, <1>7, <2>1, RestingSound, OneSound DEF PersistRetry, Typed, TypeOK
<1> QED
  BY <1>2, <1>3, <1>4, <1>5, <1>6, <1>7 DEF WorkerStep

\* The scheduler.
LEMMA SchedulerTyped ==
  ASSUME Typed, SchedulerStep
  PROVE  Typed'
<1>1. PICK k \in Key, n \in Token : Outdated(k, n) \/ Due(k, n)
  BY DEF SchedulerStep
<1>2. CASE Outdated(k, n)
  BY <1>2 DEF Outdated, Typed, TypeOK
<1>3. CASE Due(k, n)
  <2>1. pool' \in Seq(Key)
    BY <1>3 DEF Due, Typed, TypeOK
  <2> QED
    BY <1>3, <2>1 DEF Due, Typed, TypeOK
<1> QED
  BY <1>1, <1>2, <1>3

\* Faults.
LEMMA FaultTyped ==
  ASSUME Typed, Fault
  PROVE  Typed'
<1>1. faults < MaxFaults => faults + 1 \in 0..MaxFaults
  BY BoundAssumption DEF Typed, TypeOK
<1>2. ASSUME NEW t \in Thread, Rollback(t)
      PROVE  Typed'
  BY <1>1, <1>2, EndedSound, OneSound DEF Rollback, RolledBack, Typed, TypeOK
<1>3. ASSUME NEW w \in Worker, ClearFails(w)
      PROVE  Typed'
  <2>1. /\ w \in Thread
        /\ thread[w].timer \in Key
    BY <1>3 DEF ClearFails, Thread, Typed, TypeOK, Sound, ThreadRecord
  <2> QED
    BY <1>1, <1>3, <2>1, RestingSound, OneSound DEF ClearFails, Typed, TypeOK
<1>4. CASE Restart
  <2>1. PICK number \in [row -> Token] :
          /\ entries' = [k \in Key |-> IF k \in row THEN number[k] ELSE None]
          /\ heap' = {<<k, number[k]>> : k \in row}
    BY <1>4 DEF Restart
  <2>2. /\ entries' \in [Key -> Token \union {None}]
        /\ heap' \subseteq Key \X Token
    BY <2>1 DEF Typed, TypeOK
  <2>3. /\ thread' \in [Thread -> ThreadRecord]
        /\ \A t \in Thread : Sound(thread'[t])
    BY <1>4, RestingSound DEF Restart, Sound
  <2> QED
    BY <1>1, <1>4, <2>2, <2>3 DEF Restart, Typed, TypeOK
<1>5. CASE SiteCancels
  BY <1>1, <1>5 DEF SiteCancels, Typed, TypeOK
<1> QED
  BY <1>2, <1>3, <1>4, <1>5 DEF Fault

\* At the start nothing is armed, and no thread does anything.
LEMMA InitTyped == Init => Typed
BY RestingSound, BoundAssumption DEF Init, Typed, TypeOK, Sound

LEMMA NextTyped ==
  ASSUME Typed, [Next]_vars
  PROVE  Typed'
<1>1. CASE UNCHANGED vars
  BY <1>1 DEF vars, Typed, TypeOK
<1> QED
  BY <1>1, BeginTyped, CallTyped, EndTyped, WorkerTyped, SchedulerTyped, FaultTyped
     DEF Next

\* For any timers, threads and faults, memory, table and threads hold what
\* bot/timers.py writes into them: in particular no call and no end of a
\* callback is ever without the timer that it is about.
THEOREM TypesHold == Spec => []TypeOK
<1>1. Spec => []Typed
  BY InitTyped, NextTyped, PTL DEF Spec
<1>2. Typed => TypeOK
  BY DEF Typed
<1> QED
  BY <1>1, <1>2, PTL

----------------------------------------------------------------------------
(* Memory and table.                                                        *)

\* A thread has to do with the timer k: see Touched.
Touches(r, k) == r.writes[k] # "none" \/ r.key = k \/ (r.timer = k /\ r.at = "retry")

\* What the thread that has changed a timer knows of its place in memory and
\* of its row.
Agrees(r, k, armed, stored) ==
  /\ r.key = k => (r.at = "schedule" <=> armed)
  /\ r.at = "retry" /\ r.timer = k => armed
  /\ r.writes[k] = "update" => stored
  /\ r.key # k => /\ r.writes[k] \in {"insert", "update"} => armed
                  /\ r.writes[k] = "change" /\ stored => armed
                  /\ r.writes[k] = "delete" => ~armed

\* What RowsMatchTimers promises of the timer k.
Coherent(k) ==
  /\ entries[k] # None => k \in row
  /\ k \in row => entries[k] # None \/ Running(k)

\* Of a timer that was not torn: one thread at most has changed it, that thread
\* finds it as it left it, and without such a thread memory and row agree.
KeyInv(k) ==
  /\ \A t, u \in Thread : Touches(thread[t], k) /\ Touches(thread[u], k) => t = u
  /\ \A t \in Thread : Agrees(thread[t], k, entries[k] # None, k \in row)
  /\ (\A t \in Thread : ~Touches(thread[t], k)) => Coherent(k)

\* While _safe_run deletes a row it holds _condition, and nobody can arm the
\* timer again.
Clearing ==
  \A t \in Thread :
    thread[t].at = "clear" => condition = t /\ entries[thread[t].timer] = None

\* The inductive invariant.
TimerInv ==
  /\ Typed
  /\ Clearing
  /\ \A k \in Key \ torn : KeyInv(k)

\* Touched and Contested in terms of the records.
LEMMA ContestedTouches ==
  ASSUME NEW k \in Key, NEW t \in Thread
  PROVE  /\ Touched(k, t) <=> Touches(thread[t], k)
         /\ Contested(k, t) <=> \E u \in Thread \ {t} : Touches(thread[u], k)
BY DEF Touched, Touches, Contested

\* A step of one thread is judged by its record before and after.
LEMMA OneThread ==
  ASSUME TimerInv, NEW t \in Thread, NEW r, Sound(r), Becomes(t, r),
         NEW k \in Key, k \notin torn,
         Touches(r, k) => Touches(thread[t], k) \/ ~Contested(k, t),
         Agrees(r, k, entries'[k] # None, k \in row'),
         \A u \in Thread \ {t} :
           Touches(thread[u], k) => Agrees(thread[u], k, entries'[k] # None, k \in row'),
         ~Touches(r, k) /\ ~Contested(k, t) => Coherent(k)'
  PROVE  KeyInv(k)'
<1>1. \A u \in Thread : thread'[u] = IF u = t THEN r ELSE thread[u]
  BY DEF Becomes, TimerInv, Typed, TypeOK
<1>2. KeyInv(k)
  BY DEF TimerInv
<1>3. ASSUME NEW u \in Thread, NEW v \in Thread,
             Touches(thread'[u], k), Touches(thread'[v], k)
      PROVE  u = v
  BY <1>1, <1>2, <1>3, ContestedTouches DEF KeyInv
<1>4. ASSUME NEW u \in Thread
      PROVE  Agrees(thread'[u], k, entries'[k] # None, k \in row')
  <2>1. CASE u = t
    BY <1>1, <2>1
  <2>2. CASE u # t /\ Touches(thread[u], k)
    BY <1>1, <2>2
  <2>3. CASE u # t /\ ~Touches(thread[u], k)
    <3>1. thread[u].writes \in [Key -> Write]
      BY DEF TimerInv, Typed, TypeOK, ThreadRecord
    <3>2. Agrees(thread[u], k, entries'[k] # None, k \in row')
      BY <2>3, <3>1 DEF Touches, Agrees
    <3> QED
      BY <1>1, <2>3, <3>2
  <2> QED
    BY <2>1, <2>2, <2>3
<1>5. ASSUME \A u \in Thread : ~Touches(thread'[u], k)
      PROVE  Coherent(k)'
  BY <1>1, <1>5, ContestedTouches
<1> QED
  BY <1>3, <1>4, <1>5 DEF KeyInv

\* Nobody deletes a row while _condition is free.
LEMMA NobodyClears ==
  ASSUME TimerInv, condition = None
  PROVE  \A t \in Thread : thread[t].at # "clear"
BY NoneAssumption DEF TimerInv, Clearing, Thread

\* What is left of the invariant when one thread goes on and _condition stays
\* where it is.
LEMMA OneClearing ==
  ASSUME TimerInv, NEW t \in Thread, NEW r, Sound(r), Becomes(t, r), r.at # "clear",
         UNCHANGED condition,
         condition = None \/ UNCHANGED entries
  PROVE  Clearing'
<1>1. \A u \in Thread : thread'[u] = IF u = t THEN r ELSE thread[u]
  BY DEF Becomes, TimerInv, Typed, TypeOK
<1> QED
  BY <1>1, NobodyClears DEF TimerInv, Clearing

\* A timer that nobody has changed is left as it was by a thread that does not
\* change it either, and its callback goes on.
LEMMA RestStays ==
  ASSUME TimerInv, NEW t \in Thread, NEW r, Becomes(t, r), NEW k \in Key, k \notin torn,
         ~Touches(thread[t], k), ~Contested(k, t),
         entries'[k] = entries[k], k \in row' <=> k \in row, UNCHANGED pool,
         thread[t].timer = k => r.timer = k
  PROVE  Coherent(k)'
<1>1. \A u \in Thread : thread'[u] = IF u = t THEN r ELSE thread[u]
  BY DEF Becomes, TimerInv, Typed, TypeOK
<1>2. Coherent(k)
  BY ContestedTouches DEF TimerInv, KeyInv
<1>3. Running(k) => Running(k)'
  BY <1>1 DEF Running, Thread
<1> QED
  BY <1>2, <1>3 DEF Coherent

----------------------------------------------------------------------------
(* Every step keeps the invariant.                                          *)

\* Who is not changed by a step agrees with it.
LEMMA OthersAgree ==
  ASSUME TimerInv, NEW k \in Key, k \notin torn, NEW t \in Thread,
         \/ entries'[k] = entries[k] /\ (k \in row' <=> k \in row)
         \/ ~Contested(k, t)
  PROVE  \A u \in Thread \ {t} :
           Touches(thread[u], k) => Agrees(thread[u], k, entries'[k] # None, k \in row')
BY ContestedTouches DEF TimerInv, KeyInv

\* Between two calls a thread has no call in progress.
LEMMA OpenHasNoKey ==
  ASSUME Typed, NEW t \in Thread, thread[t].at = "open"
  PROVE  /\ thread[t].key = None
         /\ \A k \in Key : Touches(thread[t], k) <=> thread[t].writes[k] # "none"
BY NoneAssumption DEF Typed, Sound, Touches

\* schedule(): the timer is armed, its row not yet written.
LEMMA ScheduleMatches ==
  ASSUME TimerInv, NEW t \in Thread, NEW k \in Key, Schedule(t, k)
  PROVE  TimerInv'
<1> DEFINE r == [thread[t] EXCEPT !.at = "schedule", !.key = k, !.calls = @ - 1]
<1>1. Typed /\ Typed'
  BY CallTyped DEF TimerInv, CallStep
<1>2. /\ r.at = "schedule" /\ r.key = k /\ r.writes = thread[t].writes
      /\ r.timer = thread[t].timer
      /\ thread[t].at = "open"
  BY <1>1 DEF Typed, TypeOK, ThreadRecord, Schedule, CanCall
<1>3. Sound(r) /\ Becomes(t, r)
  BY <1>1, CallSound DEF Schedule
<1> HIDE DEF r
<1>4. Clearing'
  BY <1>2, <1>3, OneClearing DEF Schedule
<1>5. /\ entries'[k] # None
      /\ \A l \in Key : l # k => entries'[l] = entries[l]
      /\ UNCHANGED <<row, pool>>
  BY <1>1, ArmTyped DEF Schedule, Typed
<1>6. ASSUME NEW l \in Key, l \notin torn'
      PROVE  KeyInv(l)'
  <2>1. /\ l \notin torn
        /\ l = k => ~Contested(k, t)
    BY <1>6 DEF Schedule
  <2>2. Agrees(thread[t], l, entries[l] # None, l \in row)
    BY <2>1 DEF TimerInv, KeyInv
  <2>3. /\ thread[t].key = None
        /\ Touches(thread[t], l) <=> thread[t].writes[l] # "none"
        /\ l # None
    BY <1>1, <1>2, OpenHasNoKey, NoneAssumption
  <2>4. /\ Touches(r, l) => Touches(thread[t], l) \/ ~Contested(l, t)
        /\ ~Touches(r, l) => l # k /\ ~Touches(thread[t], l)
    BY <1>2, <2>1, <2>3 DEF Touches
  <2>5. Agrees(r, l, entries'[l] # None, l \in row')
    BY <1>2, <1>5, <2>2, <2>3 DEF Agrees
  <2>6. ~Touches(r, l) /\ ~Contested(l, t) => Coherent(l)'
    BY <1>2, <1>3, <1>5, <2>1, <2>4, RestStays
  <2>7. \A u \in Thread \ {t} :
          Touches(thread[u], l) => Agrees(thread[u], l, entries'[l] # None, l \in row')
    BY <1>5, <2>1, OthersAgree
  <2> QED
    BY <1>3, <2>1, <2>4, <2>5, <2>6, <2>7, OneThread
<1> QED
  BY <1>1, <1>4, <1>6 DEF TimerInv

\* What schedule() makes of the row is what its thread knows of it.
LEMMA PersistMatches ==
  ASSUME TimerInv, NEW t \in Thread, Persist(t)
  PROVE  TimerInv'
<1> DEFINE k == thread[t].key
           r == Wrote(t, k, Scheduled(t, k))
<1>1. Typed /\ Typed'
  BY CallTyped DEF TimerInv, CallStep
<1>2. k \in Key /\ Scheduled(t, k) \in Write /\ Becomes(t, r)
  BY <1>1, PersistWrites
<1>3. /\ r.at = "open" /\ r.key = None /\ r.timer = thread[t].timer
      /\ r.writes[k] = Scheduled(t, k)
      /\ \A l \in Key : l # k => r.writes[l] = thread[t].writes[l]
      /\ thread[t].at = "schedule"
  BY <1>1, <1>2 DEF Typed, TypeOK, ThreadRecord, Persist, Wrote
<1>4. Sound(r)
  BY <1>1, <1>2, <1>3, WroteSound DEF Wrote
<1> HIDE DEF r
<1>5. UNCHANGED <<entries, row, pool, torn, condition>>
  BY DEF Persist
<1>6. Clearing'
  BY <1>2, <1>3, <1>4, <1>5, OneClearing
<1>7. ASSUME NEW l \in Key, l \notin torn'
      PROVE  KeyInv(l)'
  <2>1. l \notin torn /\ l # None
    BY <1>5, <1>7, NoneAssumption
  <2>2. Agrees(thread[t], l, entries[l] # None, l \in row)
    BY <2>1 DEF TimerInv, KeyInv
  <2>3. CASE l = k
    <3>1. Touches(thread[t], l) /\ entries[l] # None
      BY <1>3, <2>2, <2>3 DEF Agrees, Touches
    <3>2. /\ Scheduled(t, l) \notin {"none", "delete"}
          /\ Scheduled(t, l) = "update" => l \in row
      BY <2>2 DEF Scheduled, Sees, Agrees
    <3>3. Touches(r, l) /\ Agrees(r, l, entries[l] # None, l \in row)
      BY <1>3, <2>1, <2>3, <3>1, <3>2 DEF Touches, Agrees
    <3>4. \A u \in Thread \ {t} :
            Touches(thread[u], l) => Agrees(thread[u], l, entries'[l] # None, l \in row')
      BY <1>5, <2>1, OthersAgree
    <3> QED
      BY <1>2, <1>4, <1>5, <2>1, <3>1, <3>3, <3>4, OneThread
  <2>4. CASE l # k
    <3>1. /\ Touches(r, l) <=> Touches(thread[t], l)
          /\ Agrees(r, l, entries[l] # None, l \in row)
      BY <1>3, <2>1, <2>2, <2>4 DEF Touches, Agrees
    <3>2. ~Touches(r, l) /\ ~Contested(l, t) => Coherent(l)'
      BY <1>2, <1>3, <1>5, <2>1, <3>1, RestStays
    <3>3. \A u \in Thread \ {t} :
            Touches(thread[u], l) => Agrees(thread[u], l, entries'[l] # None, l \in row')
      BY <1>5, <2>1, OthersAgree
    <3> QED
      BY <1>2, <1>4, <1>5, <2>1, <3>1, <3>2, <3>3, OneThread
  <2> QED
    BY <2>3, <2>4
<1> QED
  BY <1>1, <1>6, <1>7 DEF TimerInv

\* cancel(): the timer is off, its row still there.
LEMMA CancelMatches ==
  ASSUME TimerInv, NEW t \in Thread, NEW k \in Key, Cancel(t, k)
  PROVE  TimerInv'
<1> DEFINE r == [thread[t] EXCEPT !.at = "cancel", !.key = k, !.calls = @ - 1]
<1>1. Typed /\ Typed'
  BY CallTyped DEF TimerInv, CallStep
<1>2. /\ r.at = "cancel" /\ r.key = k /\ r.writes = thread[t].writes
      /\ r.timer = thread[t].timer
      /\ thread[t].at = "open"
  BY <1>1 DEF Typed, TypeOK, ThreadRecord, Cancel, CanCall
<1>3. Sound(r) /\ Becomes(t, r)
  BY <1>1, CallSound DEF Cancel
<1> HIDE DEF r
<1>4. Clearing'
  BY <1>2, <1>3, OneClearing DEF Cancel
<1>5. /\ entries'[k] = None
      /\ \A l \in Key : l # k => entries'[l] = entries[l]
      /\ UNCHANGED <<row, pool>>
  BY <1>1 DEF Cancel, Typed, TypeOK
<1>6. ASSUME NEW l \in Key, l \notin torn'
      PROVE  KeyInv(l)'
  <2>1. /\ l \notin torn
        /\ l = k => ~Contested(k, t)
    BY <1>6 DEF Cancel
  <2>2. Agrees(thread[t], l, entries[l] # None, l \in row)
    BY <2>1 DEF TimerInv, KeyInv
  <2>3. /\ thread[t].key = None
        /\ Touches(thread[t], l) <=> thread[t].writes[l] # "none"
        /\ l # None
    BY <1>1, <1>2, OpenHasNoKey, NoneAssumption
  <2>4. /\ Touches(r, l) => Touches(thread[t], l) \/ ~Contested(l, t)
        /\ ~Touches(r, l) => l # k /\ ~Touches(thread[t], l)
    BY <1>2, <2>1, <2>3 DEF Touches
  <2>5. Agrees(r, l, entries'[l] # None, l \in row')
    BY <1>2, <1>5, <2>2, <2>3 DEF Agrees
  <2>6. ~Touches(r, l) /\ ~Contested(l, t) => Coherent(l)'
    BY <1>2, <1>3, <1>5, <2>1, <2>4, RestStays
  <2>7. \A u \in Thread \ {t} :
          Touches(thread[u], l) => Agrees(thread[u], l, entries'[l] # None, l \in row')
    BY <1>5, <2>1, OthersAgree
  <2> QED
    BY <1>3, <2>1, <2>4, <2>5, <2>6, <2>7, OneThread
<1> QED
  BY <1>1, <1>4, <1>6 DEF TimerInv

\* A DELETE that sees no row leaves none behind: the timer is off and has none.
LEMMA UnpersistMatches ==
  ASSUME TimerInv, NEW t \in Thread, Unpersist(t)
  PROVE  TimerInv'
<1> DEFINE k == thread[t].key
           r == Wrote(t, k, Cancelled(t, k))
<1>1. Typed /\ Typed'
  BY CallTyped DEF TimerInv, CallStep
<1>2. k \in Key /\ Cancelled(t, k) \in Write /\ Becomes(t, r)
  BY <1>1, UnpersistWrites
<1>3. /\ r.at = "open" /\ r.key = None /\ r.timer = thread[t].timer
      /\ r.writes[k] = Cancelled(t, k)
      /\ \A l \in Key : l # k => r.writes[l] = thread[t].writes[l]
      /\ thread[t].at = "cancel"
      /\ thread[t].writes[k] \in Write
  BY <1>1, <1>2 DEF Typed, TypeOK, ThreadRecord, Unpersist, Wrote
<1>4. Sound(r)
  BY <1>1, <1>2, <1>3, WroteSound DEF Wrote
<1> HIDE DEF r
<1>5. UNCHANGED <<entries, row, pool, torn, condition>>
  BY DEF Unpersist
<1>6. Clearing'
  BY <1>2, <1>3, <1>4, <1>5, OneClearing
<1>7. ASSUME NEW l \in Key, l \notin torn'
      PROVE  KeyInv(l)'
  <2>1. l \notin torn /\ l # None
    BY <1>5, <1>7, NoneAssumption
  <2>2. Agrees(thread[t], l, entries[l] # None, l \in row)
    BY <2>1 DEF TimerInv, KeyInv
  <2>5. \A u \in Thread \ {t} :
          Touches(thread[u], l) => Agrees(thread[u], l, entries'[l] # None, l \in row')
    BY <1>5, <2>1, OthersAgree
  <2>3. CASE l = k
    <3>1. Touches(thread[t], l) /\ entries[l] = None
      BY <1>3, <2>2, <2>3 DEF Agrees, Touches
    <3>2. /\ Cancelled(t, l) \notin {"insert", "update"}
          /\ Cancelled(t, l) = "change" => l \notin row
          /\ Cancelled(t, l) = "none" => l \notin row
      BY <1>3, <2>2, <2>3 DEF Cancelled, Sees, Agrees, Write
    <3>3. Agrees(r, l, entries[l] # None, l \in row)
      BY <1>3, <2>1, <2>3, <3>1, <3>2 DEF Agrees
    <3>4. ~Touches(r, l) => l \notin row
      BY <1>3, <2>3, <3>2 DEF Touches
    <3>5. ~Touches(r, l) => Coherent(l)'
      BY <1>5, <3>1, <3>4 DEF Coherent
    <3> QED
      BY <1>2, <1>4, <1>5, <2>1, <2>5, <3>1, <3>3, <3>5, OneThread
  <2>4. CASE l # k
    <3>1. /\ Touches(r, l) <=> Touches(thread[t], l)
          /\ Agrees(r, l, entries[l] # None, l \in row)
      BY <1>3, <2>1, <2>2, <2>4 DEF Touches, Agrees
    <3>2. ~Touches(r, l) /\ ~Contested(l, t) => Coherent(l)'
      BY <1>2, <1>3, <1>5, <2>1, <3>1, RestStays
    <3> QED
      BY <1>2, <1>4, <1>5, <2>1, <2>5, <3>1, <3>2, OneThread
  <2> QED
    BY <2>3, <2>4
<1> QED
  BY <1>1, <1>6, <1>7 DEF TimerInv

\* A transaction or a callback begins with nothing changed.
LEMMA BeginMatches ==
  ASSUME TimerInv, NEW h \in Handler, Begin(h)
  PROVE  TimerInv'
<1>1. h \in Thread /\ Typed /\ Typed'
  BY BeginTyped DEF TimerInv, Thread
<1>2. PICK n \in 1..MaxCalls : Becomes(h, [Resting EXCEPT !.at = "open", !.calls = n])
  BY DEF Begin
<1> DEFINE r == [Resting EXCEPT !.at = "open", !.calls = n]
<1>3. /\ r.at = "open" /\ r.key = None /\ r.writes = Nothing /\ r.timer = None
      /\ thread[h].at = "idle" /\ thread[h].timer = None /\ thread[h].writes = Nothing
      /\ thread[h].key = None
  BY <1>1 DEF Resting, Begin, Typed, Sound
<1>4. Sound(r) /\ Becomes(h, r)
  <2>1. thread'[h] = r
    BY <1>1, <1>2 DEF Becomes, Typed, TypeOK
  <2> QED
    BY <1>1, <1>2, <2>1 DEF Typed
<1> HIDE DEF r
<1>5. UNCHANGED <<entries, row, pool, torn, condition>>
  BY DEF Begin
<1>6. Clearing'
  BY <1>1, <1>3, <1>4, <1>5, OneClearing
<1>7. ASSUME NEW l \in Key, l \notin torn'
      PROVE  KeyInv(l)'
  <2>1. l \notin torn /\ l # None
    BY <1>5, <1>7, NoneAssumption
  <2>2. ~Touches(r, l) /\ ~Touches(thread[h], l)
    BY <1>3, <2>1 DEF Touches, Nothing
  <2>3. Agrees(r, l, entries'[l] # None, l \in row')
    BY <1>3, <2>1 DEF Agrees, Nothing
  <2>4. ~Contested(l, h) => Coherent(l)'
    BY <1>1, <1>3, <1>4, <1>5, <2>1, <2>2, RestStays
  <2>5. \A u \in Thread \ {h} :
          Touches(thread[u], l) => Agrees(thread[u], l, entries'[l] # None, l \in row')
    BY <1>1, <1>5, <2>1, OthersAgree
  <2> QED
    BY <1>1, <1>4, <2>1, <2>2, <2>3, <2>4, <2>5, OneThread
<1> QED
  BY <1>1, <1>6, <1>7 DEF TimerInv

\* A step after which the thread has not changed the timer l, and which leaves
\* memory and row of l alone: l must be left coherent if nobody else changed it.
LEMMA LetsGo ==
  ASSUME TimerInv, NEW t \in Thread, NEW r, Sound(r), Becomes(t, r),
         NEW l \in Key, l \notin torn,
         ~Touches(r, l),
         entries'[l] = entries[l], l \in row' <=> l \in row,
         ~Contested(l, t) => Coherent(l)'
  PROVE  KeyInv(l)'
<1>1. Agrees(r, l, entries'[l] # None, l \in row')
  <2>1. r.key # l /\ r.writes[l] = "none" /\ ~(r.at = "retry" /\ r.timer = l)
    BY DEF Touches
  <2> QED
    BY <2>1 DEF Agrees
<1>2. \A u \in Thread \ {t} :
        Touches(thread[u], l) => Agrees(thread[u], l, entries'[l] # None, l \in row')
  BY OthersAgree
<1> QED
  BY <1>1, <1>2, OneThread

\* A thread whose transaction is over has changed nothing.
LEMMA BareTouchesNothing ==
  ASSUME NEW r, r.writes = Nothing, r.key = None, r.at # "retry", NEW l \in Key
  PROVE  ~Touches(r, l)
BY NoneAssumption DEF Touches, Nothing

\* The record that ends a transaction.
LEMMA EndedIsBare ==
  ASSUME Typed, NEW t \in Thread, NEW at \in {"done", "failed"}
  PROVE  /\ Ended(t, at).writes = Nothing
         /\ Ended(t, at).key = None
         /\ Ended(t, at).at \notin {"retry", "clear"}
         /\ Ended(t, at).timer = thread[t].timer
BY DEF Ended, Resting

\* A flush writes what the ORM has changed, for timers that have a row.
LEMMA FlushMatches ==
  ASSUME TimerInv, NEW t \in Thread, Flush(t)
  PROVE  TimerInv'
<1>1. Typed /\ Typed'
  BY EndTyped DEF TimerInv
<1>2. /\ thread[t].at = "open"
      /\ Becomes(t, Sent(t))
      /\ UNCHANGED <<entries, row, pool, torn, condition>>
  BY DEF Flush, Sent
<1>3. /\ Sound(Sent(t))
      /\ Sent(t).at = "open"
      /\ Sent(t).timer = thread[t].timer
      /\ Sent(t).key = None
      /\ thread[t].key = None
      /\ \A l \in Key : Sent(t).writes[l] =
           IF thread[t].writes[l] = "change" THEN "update" ELSE thread[t].writes[l]
  BY <1>1, <1>2, SentSound, OpenHasNoKey DEF Sent, Typed, TypeOK, ThreadRecord
<1>4. Clearing'
  BY <1>2, <1>3, OneClearing
<1>5. ASSUME NEW l \in Key, l \notin torn'
      PROVE  KeyInv(l)'
  <2>1. l \notin torn /\ l # None
    BY <1>2, <1>5, NoneAssumption
  <2>2. Agrees(thread[t], l, entries[l] # None, l \in row)
    BY <2>1 DEF TimerInv, KeyInv
  <2>3. thread[t].writes[l] = "change" => l \in row
    BY DEF Flush, Changed
  <2>4. Touches(Sent(t), l) <=> Touches(thread[t], l)
    BY <1>2, <1>3, <2>1 DEF Touches
  <2>5. Agrees(Sent(t), l, entries'[l] # None, l \in row')
    BY <1>2, <1>3, <2>1, <2>2, <2>3 DEF Agrees
  <2>6. ~Touches(Sent(t), l) /\ ~Contested(l, t) => Coherent(l)'
    BY <1>2, <1>3, <2>1, <2>4, RestStays
  <2>7. \A u \in Thread \ {t} :
          Touches(thread[u], l) => Agrees(thread[u], l, entries'[l] # None, l \in row')
    BY <1>2, <2>1, OthersAgree
  <2> QED
    BY <1>2, <1>3, <2>1, <2>4, <2>5, <2>6, <2>7, OneThread
<1> QED
  BY <1>1, <1>4, <1>5 DEF TimerInv

\* A commit writes the rows that memory asks for.
LEMMA CommitMatches ==
  ASSUME TimerInv, NEW t \in Thread, Commit(t)
  PROVE  TimerInv'
<1>1. Typed /\ Typed'
  BY EndTyped DEF TimerInv, EndStep
<1>2. /\ thread[t].at = "open"
      /\ Becomes(t, Ended(t, "done"))
      /\ UNCHANGED <<entries, pool, torn, condition>>
  BY DEF Commit
<1> DEFINE r == Ended(t, "done")
<1>3. /\ Sound(r)
      /\ r.writes = Nothing /\ r.key = None /\ r.at \notin {"retry", "clear"}
      /\ r.timer = thread[t].timer
  BY <1>1, EndedSound, EndedIsBare
<1> HIDE DEF r
<1>4. Clearing'
  BY <1>2, <1>3, OneClearing DEF r
<1>5. ASSUME NEW l \in Key, l \notin torn'
      PROVE  KeyInv(l)'
  <2>1. l \notin torn /\ l # None
    BY <1>2, <1>5, NoneAssumption
  <2>2. ~Touches(r, l)
    BY <1>3, BareTouchesNothing
  <2>3. Agrees(thread[t], l, entries[l] # None, l \in row)
    BY <2>1 DEF TimerInv, KeyInv
  <2>4. /\ thread[t].key = None
        /\ Touches(thread[t], l) <=> thread[t].writes[l] # "none"
        /\ thread[t].writes[l] \in Write
    BY <1>1, <1>2, OpenHasNoKey DEF Typed, TypeOK, ThreadRecord
  <2>5. l \in row' <=> \/ l \in row /\ thread[t].writes[l] # "delete"
                       \/ thread[t].writes[l] = "insert"
    BY DEF Commit, Deleted, Inserted
  <2>6. CASE Touches(thread[t], l)
    <3>1. ~Contested(l, t)
      BY <2>1, <2>6, ContestedTouches DEF TimerInv, KeyInv
    <3>2. entries[l] # None <=> l \in row'
      <4>1. thread[t].writes[l] = "change" => l \in row
        BY DEF Commit, Changed
      <4> QED
        BY <2>1, <2>3, <2>4, <2>5, <2>6, <4>1 DEF Agrees, Write
    <3>3. Coherent(l)'
      BY <1>2, <3>2 DEF Coherent
    <3>4. \A u \in Thread \ {t} :
            Touches(thread[u], l) => Agrees(thread[u], l, entries'[l] # None, l \in row')
      BY <2>1, <3>1, OthersAgree
    <3>5. Agrees(r, l, entries'[l] # None, l \in row')
      BY <1>3, <2>1 DEF Agrees, Nothing
    <3> QED
      BY <1>2, <1>3, <2>1, <2>2, <3>3, <3>4, <3>5, OneThread DEF r
  <2>7. CASE ~Touches(thread[t], l)
    <3>1. l \in row' <=> l \in row
      BY <2>4, <2>5, <2>7
    <3>2. ~Contested(l, t) => Coherent(l)'
      BY <1>2, <1>3, <2>1, <2>7, <3>1, RestStays DEF r
    <3> QED
      BY <1>2, <1>3, <2>1, <2>2, <3>1, <3>2, LetsGo DEF r
  <2> QED
    BY <2>6, <2>7
<1> QED
  BY <1>1, <1>4, <1>5 DEF TimerInv

\* What a transaction that is rolled back has changed is torn; the rest it has
\* never touched.
LEMMA RolledBackMatches ==
  ASSUME TimerInv, NEW t \in Thread, RolledBack(t), Typed',
         UNCHANGED <<entries, row, pool, condition>>
  PROVE  TimerInv'
<1> DEFINE r == Ended(t, "failed")
<1>1. /\ Sound(r)
      /\ r.writes = Nothing /\ r.key = None /\ r.at \notin {"retry", "clear"}
      /\ r.timer = thread[t].timer
      /\ Becomes(t, r)
  BY EndedSound, EndedIsBare DEF TimerInv, RolledBack
<1> HIDE DEF r
<1>2. Clearing'
  BY <1>1, OneClearing
<1>3. ASSUME NEW l \in Key, l \notin torn'
      PROVE  KeyInv(l)'
  <2>1. l \notin torn /\ ~Touches(thread[t], l)
    BY <1>3, ContestedTouches DEF RolledBack
  <2>2. ~Touches(r, l)
    BY <1>1, BareTouchesNothing
  <2>3. ~Contested(l, t) => Coherent(l)'
    BY <1>1, <2>1, RestStays
  <2> QED
    BY <1>1, <2>1, <2>2, <2>3, LetsGo
<1> QED
  BY <1>2, <1>3 DEF TimerInv

\* A callback is taken from the pool: it goes on being under way.
LEMMA RunMatches ==
  ASSUME TimerInv, NEW w \in Worker, Run(w)
  PROVE  TimerInv'
<1>1. w \in Thread /\ Typed /\ Typed'
  BY WorkerTyped DEF TimerInv, Thread, WorkerStep
<1>2. PICK n \in 0..(IF events < MaxEvents THEN MaxCalls ELSE 0) :
        Becomes(w, Opened(Head(pool), n))
  BY DEF Run, Opened
<1> DEFINE r == Opened(Head(pool), n)
<1>3. /\ r.at = "open" /\ r.key = None /\ r.writes = Nothing /\ r.timer = Head(pool)
      /\ thread[w].timer = None
      /\ thread[w].at = "idle" /\ thread[w].writes = Nothing /\ thread[w].key = None
  BY <1>1 DEF Opened, Resting, Run, Typed, Sound
<1>4. /\ thread'[w] = r
      /\ \A u \in Thread \ {w} : thread'[u] = thread[u]
  BY <1>1, <1>2 DEF Becomes, Typed, TypeOK
<1>5. Sound(r) /\ Becomes(w, r)
  BY <1>1, <1>2, <1>4 DEF Typed
<1> HIDE DEF r
<1>6. UNCHANGED <<entries, row, torn, condition>>
  BY DEF Run
<1>7. Clearing'
  BY <1>1, <1>3, <1>5, <1>6, OneClearing
<1>8. ASSUME NEW l \in Key, Running(l)
      PROVE  Running(l)'
  <2>1. ASSUME NEW i \in DOMAIN pool, pool[i] = l
        PROVE  Running(l)'
    <3>1. /\ pool \in Seq(Key) /\ pool # <<>>
          /\ pool' = Tail(pool)
      BY <1>1 DEF Run, Typed, TypeOK
    <3>2. CASE i = 1
      BY <1>3, <1>4, <2>1, <3>1, <3>2 DEF Running
    <3>3. CASE i # 1
      <4>1. i - 1 \in DOMAIN pool' /\ pool'[i - 1] = l
        BY <2>1, <3>1, <3>3
      <4> QED
        BY <4>1 DEF Running
    <3> QED
      BY <3>2, <3>3
  <2>2. ASSUME NEW v \in Worker, thread[v].timer = l
        PROVE  Running(l)'
    <3>1. v # w
      BY <1>3, <2>2, NoneAssumption
    <3>2. thread'[v].timer = l
      BY <1>4, <2>2, <3>1 DEF Thread
    <3> QED
      BY <3>2 DEF Running
  <2> QED
    BY <1>8, <2>1, <2>2 DEF Running
<1>9. ASSUME NEW l \in Key, l \notin torn'
      PROVE  KeyInv(l)'
  <2>1. l \notin torn /\ ~Touches(r, l) /\ ~Touches(thread[w], l)
    BY <1>3, <1>6, <1>9, BareTouchesNothing
  <2>2. ~Contested(l, w) => Coherent(l)'
    BY <1>1, <1>6, <1>8, <2>1, ContestedTouches DEF TimerInv, KeyInv, Coherent
  <2> QED
    BY <1>1, <1>5, <1>6, <2>1, <2>2, LetsGo
<1> QED
  BY <1>1, <1>7, <1>9 DEF TimerInv

\* The end of a callback whose timer was set again.
LEMMA KeptMatches ==
  ASSUME TimerInv, NEW w \in Worker, Kept(w)
  PROVE  TimerInv'
<1>1. w \in Thread /\ Typed /\ Typed'
  BY WorkerTyped DEF TimerInv, Thread, WorkerStep
<1>2. /\ thread[w].at = "done" /\ thread[w].writes = Nothing /\ thread[w].key = None
      /\ entries[thread[w].timer] # None
      /\ UNCHANGED <<entries, row, pool, torn, condition>>
      /\ Becomes(w, Resting)
  BY <1>1 DEF Kept, Typed, Sound
<1>3. /\ Sound(Resting)
      /\ Resting.at = "idle" /\ Resting.writes = Nothing /\ Resting.key = None
  BY RestingSound DEF Resting
<1>4. Clearing'
  BY <1>1, <1>2, <1>3, OneClearing
<1>5. ASSUME NEW l \in Key, l \notin torn'
      PROVE  KeyInv(l)'
  <2>1. l \notin torn /\ ~Touches(Resting, l) /\ ~Touches(thread[w], l)
    BY <1>2, <1>3, <1>5, BareTouchesNothing
  <2>2. ~Contested(l, w) => Coherent(l)'
    <3>1. CASE thread[w].timer = l
      <4>1. ~Contested(l, w) => Coherent(l)
        BY <1>1, <2>1, ContestedTouches DEF TimerInv, KeyInv
      <4> QED
        BY <1>2, <3>1, <4>1 DEF Coherent
    <3>2. CASE thread[w].timer # l
      BY <1>1, <1>2, <2>1, <3>2, RestStays
    <3> QED
      BY <3>1, <3>2
  <2> QED
    BY <1>1, <1>2, <1>3, <2>1, <2>2, LetsGo
<1> QED
  BY <1>1, <1>4, <1>5 DEF TimerInv

\* _safe_run takes _condition when the timer is not armed.
LEMMA ClearStartsMatches ==
  ASSUME TimerInv, NEW w \in Worker, ClearStarts(w)
  PROVE  TimerInv'
<1> DEFINE r == [thread[w] EXCEPT !.at = "clear"]
<1>1. w \in Thread /\ Typed /\ Typed'
  BY WorkerTyped DEF TimerInv, Thread, WorkerStep
<1>2. /\ thread[w] \in ThreadRecord /\ Sound(thread[w]) /\ thread[w].at = "done"
  BY <1>1 DEF ClearStarts, Typed, TypeOK
<1>3. /\ thread[w].writes = Nothing /\ thread[w].key = None
  BY <1>2 DEF Sound
<1>4. /\ r.at = "clear" /\ r.writes = Nothing /\ r.key = None /\ r.timer = thread[w].timer
      /\ entries[thread[w].timer] = None
      /\ condition = None /\ condition' = w
      /\ UNCHANGED <<entries, row, pool, torn>>
  BY <1>2, <1>3 DEF ClearStarts, ThreadRecord
<1>5. /\ thread'[w] = r
      /\ \A u \in Thread \ {w} : thread'[u] = thread[u]
  BY <1>1 DEF ClearStarts, Becomes, Typed, TypeOK
<1>6. Sound(r) /\ Becomes(w, r)
  BY <1>1, <1>5 DEF ClearStarts, Typed
<1> HIDE DEF r
<1>7. Clearing'
  BY <1>4, <1>5, NobodyClears DEF Clearing
<1>8. ASSUME NEW l \in Key, l \notin torn'
      PROVE  KeyInv(l)'
  <2>1. l \notin torn /\ ~Touches(r, l) /\ ~Touches(thread[w], l)
    BY <1>2, <1>3, <1>4, <1>8, BareTouchesNothing
  <2>2. ~Contested(l, w) => Coherent(l)'
    BY <1>1, <1>4, <1>6, <2>1, RestStays
  <2> QED
    BY <1>1, <1>4, <1>6, <2>1, <2>2, LetsGo
<1> QED
  BY <1>1, <1>7, <1>8 DEF TimerInv

\* The row of a timer that is not armed goes away with its callback.
LEMMA ClearEndsMatches ==
  ASSUME TimerInv, NEW w \in Worker, ClearEnds(w)
  PROVE  TimerInv'
<1>1. w \in Thread /\ Typed /\ Typed'
  BY WorkerTyped DEF TimerInv, Thread, WorkerStep
<1>2. /\ thread[w].at = "clear" /\ thread[w].writes = Nothing /\ thread[w].key = None
      /\ condition = w /\ condition' = None
      /\ entries[thread[w].timer] = None
      /\ row' = row \ {thread[w].timer}
      /\ thread[w].timer \in row => ~Locked(thread[w].timer, w)
      /\ UNCHANGED <<entries, pool, torn>>
      /\ Becomes(w, Resting)
  BY <1>1 DEF ClearEnds, Typed, Sound, TimerInv, Clearing
<1>3. /\ Sound(Resting)
      /\ Resting.at = "idle" /\ Resting.writes = Nothing /\ Resting.key = None
  BY RestingSound DEF Resting
<1>4. /\ thread'[w] = Resting
      /\ \A u \in Thread \ {w} : thread'[u] = thread[u]
  BY <1>1, <1>2 DEF Becomes, Typed, TypeOK
<1>5. Clearing'
  BY <1>2, <1>3, <1>4 DEF TimerInv, Clearing
<1>6. ASSUME NEW l \in Key, l \notin torn'
      PROVE  KeyInv(l)'
  <2>1. l \notin torn /\ ~Touches(Resting, l) /\ ~Touches(thread[w], l)
    BY <1>2, <1>3, <1>6, BareTouchesNothing
  <2>2. CASE thread[w].timer # l \/ l \notin row
    <3>1. l \in row' <=> l \in row
      BY <1>2, <2>2
    <3>2. ~Contested(l, w) => Coherent(l)'
      <4>1. CASE thread[w].timer # l
        BY <1>1, <1>2, <2>1, <3>1, <4>1, RestStays
      <4>2. CASE thread[w].timer = l
        BY <1>2, <4>2 DEF Coherent
      <4> QED
        BY <4>1, <4>2
    <3> QED
      BY <1>1, <1>2, <1>3, <2>1, <3>1, <3>2, LetsGo
  <2>3. CASE thread[w].timer = l /\ l \in row
    <3>1. Coherent(l)'
      BY <1>2, <2>3 DEF Coherent
    <3>2. ASSUME NEW u \in Thread \ {w}
          PROVE  Agrees(thread[u], l, entries'[l] # None, l \in row')
      <4>1. thread[u].writes[l] \notin Locking
        BY <1>2, <2>3 DEF Locked
      <4>2. Agrees(thread[u], l, entries[l] # None, l \in row)
        BY <2>1 DEF TimerInv, KeyInv
      <4> QED
        BY <1>2, <2>3, <4>1, <4>2 DEF Agrees, Locking
    <3>3. Agrees(Resting, l, entries'[l] # None, l \in row')
      BY <1>3, <2>1, NoneAssumption DEF Agrees, Touches
    <3> QED
      BY <1>1, <1>2, <1>3, <2>1, <3>1, <3>2, <3>3, OneThread
  <2> QED
    BY <2>2, <2>3
<1> QED
  BY <1>1, <1>5, <1>6 DEF TimerInv

\* A row that could not be deleted is torn from its timer.
LEMMA ClearFailsMatches ==
  ASSUME TimerInv, NEW w \in Worker, ClearFails(w)
  PROVE  TimerInv'
<1>1. w \in Thread /\ Typed /\ Typed'
  BY FaultTyped DEF TimerInv, Thread, Fault
<1>2. /\ thread[w].at = "clear" /\ thread[w].writes = Nothing /\ thread[w].key = None
      /\ condition = w /\ condition' = None
      /\ UNCHANGED <<entries, row, pool>>
      /\ Becomes(w, Resting)
  BY <1>1 DEF ClearFails, Typed, Sound, TimerInv, Clearing
<1>3. /\ Sound(Resting)
      /\ Resting.at = "idle" /\ Resting.writes = Nothing /\ Resting.key = None
  BY RestingSound DEF Resting
<1>4. /\ thread'[w] = Resting
      /\ \A u \in Thread \ {w} : thread'[u] = thread[u]
  BY <1>1, <1>2 DEF Becomes, Typed, TypeOK
<1>5. Clearing'
  BY <1>2, <1>3, <1>4 DEF TimerInv, Clearing
<1>6. ASSUME NEW l \in Key, l \notin torn'
      PROVE  KeyInv(l)'
  <2>1. l \notin torn /\ thread[w].timer # l
    BY <1>6 DEF ClearFails
  <2>2. ~Touches(Resting, l) /\ ~Touches(thread[w], l)
    BY <1>2, <1>3, BareTouchesNothing
  <2>3. ~Contested(l, w) => Coherent(l)'
    BY <1>1, <1>2, <2>1, <2>2, RestStays
  <2> QED
    BY <1>1, <1>2, <1>3, <2>1, <2>2, <2>3, LetsGo
<1> QED
  BY <1>1, <1>5, <1>6 DEF TimerInv

\* The timer of a callback that raised is armed again; its row is still there,
\* or will be written.
LEMMA ArmAgainMatches ==
  ASSUME TimerInv, NEW w \in Worker, ArmAgain(w)
  PROVE  TimerInv'
<1> DEFINE k == thread[w].timer
           r == [thread[w] EXCEPT !.at = "retry"]
<1>1. w \in Thread /\ Typed /\ Typed'
  BY WorkerTyped DEF TimerInv, Thread, WorkerStep
<1>2. /\ thread[w] \in ThreadRecord /\ Sound(thread[w]) /\ thread[w].at = "failed"
  BY <1>1 DEF ArmAgain, Typed, TypeOK
<1>3. /\ thread[w].writes = Nothing /\ thread[w].key = None
      /\ k \in Key
  BY <1>2 DEF Sound, ThreadRecord
<1>4. /\ r.at = "retry" /\ r.writes = Nothing /\ r.key = None /\ r.timer = k
      /\ condition = None
      /\ UNCHANGED <<row, pool, condition>>
  BY <1>2, <1>3 DEF ArmAgain, ThreadRecord
<1>5. thread'[w] = r
  BY <1>1 DEF ArmAgain, Becomes, Typed, TypeOK
<1>6. Sound(r) /\ Becomes(w, r)
  BY <1>1, <1>5 DEF ArmAgain, Typed
<1> HIDE DEF r
<1>7. Clearing'
  BY <1>1, <1>4, <1>6, OneClearing
<1>8. /\ entries'[k] # None
      /\ \A l \in Key : l # k => entries'[l] = entries[l]
  BY <1>1, <1>3, ArmTyped DEF ArmAgain, Typed
<1>9. ASSUME NEW l \in Key, l \notin torn'
      PROVE  KeyInv(l)'
  <2>1. /\ l \notin torn /\ l # None
        /\ l = k => ~Contested(k, w)
    BY <1>9, NoneAssumption DEF ArmAgain
  <2>2. ~Touches(thread[w], l)
    BY <1>2, <1>3, BareTouchesNothing
  <2>3. /\ Touches(r, l) <=> l = k
        /\ Agrees(r, l, entries'[l] # None, l \in row')
    BY <1>4, <1>8, <2>1 DEF Touches, Agrees, Nothing
  <2>4. ~Touches(r, l) /\ ~Contested(l, w) => Coherent(l)'
    BY <1>1, <1>4, <1>6, <1>8, <2>1, <2>2, <2>3, RestStays
  <2>5. \A u \in Thread \ {w} :
          Touches(thread[u], l) => Agrees(thread[u], l, entries'[l] # None, l \in row')
    BY <1>1, <1>4, <1>8, <2>1, OthersAgree
  <2> QED
    BY <1>1, <1>6, <2>1, <2>3, <2>4, <2>5, OneThread
<1> QED
  BY <1>1, <1>7, <1>9 DEF TimerInv

\* _persist_retry writes the row of the timer that is armed.
LEMMA PersistRetryMatches ==
  ASSUME TimerInv, NEW w \in Worker, PersistRetry(w)
  PROVE  TimerInv'
<1> DEFINE k == thread[w].timer
<1>1. w \in Thread /\ Typed /\ Typed'
  BY WorkerTyped DEF TimerInv, Thread, WorkerStep
<1>2. /\ thread[w].at = "retry" /\ thread[w].writes = Nothing /\ thread[w].key = None
      /\ k \in Key
      /\ UNCHANGED <<entries, pool, condition>>
      /\ Becomes(w, Resting)
  BY <1>1 DEF PersistRetry, Typed, TypeOK, ThreadRecord, Sound
<1>3. /\ Sound(Resting)
      /\ Resting.at = "idle" /\ Resting.writes = Nothing /\ Resting.key = None
  BY RestingSound DEF Resting
<1>4. Clearing'
  BY <1>1, <1>2, <1>3, OneClearing
<1>5. ASSUME NEW l \in Key, l \notin torn'
      PROVE  KeyInv(l)'
  <2>1. /\ l \notin torn /\ l # None
        /\ l = k => ~Contested(k, w) /\ l \in row'
        /\ l # k => (l \in row' <=> l \in row)
    BY <1>2, <1>5, NoneAssumption DEF PersistRetry
  <2>2. ~Touches(Resting, l)
    BY <1>3, BareTouchesNothing
  <2>3. CASE l = k
    <3>1. entries[l] # None
      <4>1. Agrees(thread[w], l, entries[l] # None, l \in row)
        BY <1>1, <2>1 DEF TimerInv, KeyInv
      <4> QED
        BY <1>2, <2>3, <4>1 DEF Agrees
    <3>2. Coherent(l)'
      BY <1>2, <2>1, <2>3, <3>1 DEF Coherent
    <3>3. Agrees(Resting, l, entries'[l] # None, l \in row')
      BY <1>3, <2>1 DEF Agrees, Nothing
    <3>4. \A u \in Thread \ {w} :
            Touches(thread[u], l) => Agrees(thread[u], l, entries'[l] # None, l \in row')
      BY <1>1, <2>1, <2>3, OthersAgree
    <3> QED
      BY <1>1, <1>2, <1>3, <2>1, <2>2, <3>2, <3>3, <3>4, OneThread
  <2>4. CASE l # k
    <3>1. ~Touches(thread[w], l)
      BY <1>2, <2>1, <2>4 DEF Touches, Nothing
    <3>2. ~Contested(l, w) => Coherent(l)'
      BY <1>1, <1>2, <2>1, <2>4, <3>1, RestStays
    <3> QED
      BY <1>1, <1>2, <1>3, <2>1, <2>2, <2>4, <3>2, LetsGo
  <2> QED
    BY <2>3, <2>4
<1> QED
  BY <1>1, <1>4, <1>5 DEF TimerInv

\* A timer comes due only when nobody has changed it: it leaves memory, and its
\* callback is under way.
LEMMA SchedulerMatches ==
  ASSUME TimerInv, SchedulerStep
  PROVE  TimerInv'
<1>1. Typed /\ Typed'
  BY SchedulerTyped DEF TimerInv
<1>2. PICK k \in Key, n \in Token : Outdated(k, n) \/ Due(k, n)
  BY DEF SchedulerStep
<1>3. condition = None /\ UNCHANGED <<row, thread, condition, torn>>
  BY <1>2 DEF Outdated, Due
<1>4. Clearing'
  BY <1>3, NobodyClears DEF Clearing
<1>5. ASSUME NEW l \in Key, l \notin torn'
      PROVE  KeyInv(l)'
  <2>1. KeyInv(l)
    BY <1>3, <1>5 DEF TimerInv
  <2>2. CASE Outdated(k, n)
    BY <1>3, <2>1, <2>2 DEF Outdated, KeyInv, Coherent, Running
  <2>3. CASE Due(k, n)
    <3>1. /\ pool \in Seq(Key)
          /\ pool' = Append(pool, k)
          /\ \A t \in Thread : ~Touches(thread[t], k)
          /\ entries' = [entries EXCEPT ![k] = None]
      BY <1>1, <2>3, ContestedTouches DEF Due, Typed, TypeOK
    <3>2. /\ Len(pool') \in DOMAIN pool' /\ pool'[Len(pool')] = k
          /\ \A i \in DOMAIN pool : i \in DOMAIN pool' /\ pool'[i] = pool[i]
      BY <3>1
    <3>3. /\ Running(k)'
          /\ Running(l) => Running(l)'
      BY <1>3, <3>2 DEF Running
    <3>4. CASE l = k
      <4>1. entries'[l] = None
        BY <1>1, <3>1, <3>4 DEF Typed, TypeOK
      <4>2. Coherent(l)'
        BY <3>3, <3>4, <4>1 DEF Coherent
      <4>3. ASSUME NEW t \in Thread
            PROVE  Agrees(thread[t], l, entries'[l] # None, l \in row')
        <5>1. ~Touches(thread[t], l) /\ thread[t].writes \in [Key -> Write]
          BY <1>1, <3>1, <3>4 DEF Typed, TypeOK, ThreadRecord
        <5> QED
          BY <5>1 DEF Touches, Agrees
      <4> QED
        BY <1>3, <2>1, <4>2, <4>3 DEF KeyInv
    <3>5. CASE l # k
      <4>1. entries'[l] = entries[l]
        BY <1>1, <3>1, <3>5 DEF Typed, TypeOK
      <4>2. Coherent(l) => Coherent(l)'
        BY <1>3, <3>3, <4>1 DEF Coherent
      <4> QED
        BY <1>3, <2>1, <4>1, <4>2 DEF KeyInv
    <3> QED
      BY <3>4, <3>5
  <2> QED
    BY <1>2, <2>2, <2>3
<1> QED
  BY <1>1, <1>4, <1>5 DEF TimerInv

\* A restart arms every row, and nothing else.
LEMMA RestartMatches ==
  ASSUME TimerInv, Restart
  PROVE  TimerInv'
<1>1. Typed /\ Typed'
  BY FaultTyped DEF TimerInv, Fault
<1>2. PICK number \in [row -> Token] :
        entries' = [k \in Key |-> IF k \in row THEN number[k] ELSE None]
  BY DEF Restart
<1>3. /\ \A t \in Thread : thread'[t] = Resting
      /\ Resting.at = "idle" /\ Resting.writes = Nothing /\ Resting.key = None
      /\ UNCHANGED row
  BY DEF Restart, Resting
<1>4. Clearing'
  BY <1>3 DEF Clearing
<1>5. ASSUME NEW l \in Key
      PROVE  KeyInv(l)'
  <2>1. entries'[l] # None <=> l \in row
    BY <1>2, NoneAssumption
  <2>2. ~Touches(Resting, l) /\ l # None
    BY <1>3, BareTouchesNothing, NoneAssumption
  <2>3. Agrees(Resting, l, entries'[l] # None, l \in row')
    BY <1>3, <2>2 DEF Agrees, Nothing
  <2>4. Coherent(l)'
    BY <1>3, <2>1 DEF Coherent
  <2> QED
    BY <1>3, <2>2, <2>3, <2>4 DEF KeyInv
<1> QED
  BY <1>1, <1>4, <1>5 DEF TimerInv

\* Faults.
LEMMA FaultMatches ==
  ASSUME TimerInv, Fault
  PROVE  TimerInv'
<1>1. Typed /\ Typed'
  BY FaultTyped DEF TimerInv
<1>2. ASSUME NEW t \in Thread, Rollback(t)
      PROVE  TimerInv'
  BY <1>1, <1>2, RolledBackMatches DEF Rollback
<1>3. CASE SiteCancels
  <2>1. UNCHANGED <<entries, pool, thread, condition>> /\ row' = {} /\ torn' = torn \union row
    BY <1>3 DEF SiteCancels
  <2>2. Clearing'
    BY <2>1 DEF TimerInv, Clearing
  <2>3. ASSUME NEW l \in Key, l \notin torn'
        PROVE  KeyInv(l)'
    <3>1. KeyInv(l) /\ l \notin row /\ l \notin row'
      BY <2>1, <2>3 DEF TimerInv
    <3>2. Coherent(l) => Coherent(l)'
      BY <2>1, <3>1 DEF Coherent
    <3> QED
      BY <2>1, <3>1, <3>2 DEF KeyInv
  <2> QED
    BY <1>1, <2>2, <2>3 DEF TimerInv
<1> QED
  BY <1>2, <1>3, ClearFailsMatches, RestartMatches DEF Fault

\* Nothing is armed at the start, and there is no row.
LEMMA InitMatches == Init => TimerInv
<1> SUFFICES ASSUME Init
             PROVE  TimerInv
  OBVIOUS
<1>1. /\ \A t \in Thread : thread[t] = Resting
      /\ Resting.at = "idle" /\ Resting.writes = Nothing /\ Resting.key = None
      /\ \A k \in Key : entries[k] = None /\ k \notin row
  BY DEF Init, Resting
<1>2. ASSUME NEW l \in Key
      PROVE  KeyInv(l)
  <2>1. ~Touches(Resting, l) /\ l # None
    BY <1>1, BareTouchesNothing, NoneAssumption
  <2>2. Agrees(Resting, l, entries[l] # None, l \in row)
    BY <1>1, <2>1 DEF Agrees, Nothing
  <2> QED
    BY <1>1, <2>1, <2>2 DEF KeyInv, Coherent
<1> QED
  BY <1>1, <1>2, InitTyped DEF TimerInv, Clearing

LEMMA NextMatches ==
  ASSUME TimerInv, [Next]_vars
  PROVE  TimerInv'
<1>1. Typed'
  BY NextTyped DEF TimerInv
<1>2. CASE UNCHANGED vars
  BY <1>1, <1>2 DEF vars, TimerInv, Clearing, KeyInv, Coherent, Running
<1>3. ASSUME NEW t \in Thread, CallStep(t) \/ Flush(t) \/ EndStep(t)
      PROVE  TimerInv'
  <2>1. CASE CallStep(t)
    BY <2>1, ScheduleMatches, CancelMatches, PersistMatches, UnpersistMatches DEF CallStep
  <2>2. CASE Flush(t)
    BY <2>2, FlushMatches
  <2>3. CASE Commit(t)
    BY <2>3, CommitMatches
  <2>4. CASE Stale(t) \/ Victim(t)
    BY <1>1, <2>4, RolledBackMatches DEF Stale, Victim
  <2> QED
    BY <1>3, <2>1, <2>2, <2>3, <2>4 DEF EndStep
<1>4. ASSUME NEW w \in Worker, WorkerStep(w)
      PROVE  TimerInv'
  BY <1>4, RunMatches, KeptMatches, ClearStartsMatches, ClearEndsMatches,
     ArmAgainMatches, PersistRetryMatches DEF WorkerStep
<1> QED
  BY <1>2, <1>3, <1>4, BeginMatches, SchedulerMatches, FaultMatches DEF Next

\* For any timers, handlers and threads of the pool, and over any faults: what
\* is armed survives a restart, and what is stored is acted on without one
\* (schedule, cancel, _safe_run and _persist_retry of bot/timers.py).
THEOREM RowsMatchTimersHolds == Spec => []RowsMatchTimers
<1>1. Spec => []TimerInv
  BY InitMatches, NextMatches, PTL DEF Spec
<1>2. TimerInv => RowsMatchTimers
  BY ContestedTouches
     DEF TimerInv, KeyInv, Coherent, RowsMatchTimers, AtRest
<1> QED
  BY <1>1, <1>2, PTL
=============================================================================
