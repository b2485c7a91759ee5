---------------------------- MODULE GateProofs ----------------------------
(***************************************************************************)
(* For any users, events, executors and false calls, over any number of    *)
(* repetitions, failures and restarts: an event takes effect once and in   *)
(* its author's order, the debtor is locked out, and the block list holds. *)
(*                                                                         *)
(* The order rests on one fact: what is before an event of its author has  *)
(* had its effect, has been thrown away, or is in front of it in the same  *)
(* executor.  The lock rests on another: while no debt and payment overlap,*)
(* whoever may lift the lock has read every debt there is.                 *)
(***************************************************************************)
EXTENDS Gate, TLAPS

Working(s, e) == work[s].job = "event" /\ work[s].about = e

Finished == claimed \union lost

\* e has to wait for f.
Follows(e, f) == f \in Event /\ f < e /\ By(f) = By(e)

\* The events in the hands of executor s: its own, and in order.
InTurn(s) ==
  /\ queue[s] \in Seq(Event)
  /\ \A i \in 1..Len(queue[s]) :
       /\ Executor(queue[s][i]) = s
       /\ queue[s][i] \in delivered
       /\ \A f : Follows(queue[s][i], f) =>
            \/ f \in Finished \/ Working(s, f)
            \/ \E j \in 1..(i - 1) : queue[s][j] = f
  /\ \A e : Working(s, e) =>
       /\ e \in delivered /\ Executor(e) = s /\ e \notin claimed
       /\ \A f : Follows(e, f) => f \in Finished

IntakeInv ==
  /\ delivered \subseteq Event /\ claimed \subseteq Event
  /\ times \in [Event -> Nat]
  /\ \A e \in Event : times[e] <= IF e \in claimed THEN 1 ELSE 0
  /\ DOMAIN work = Thread
  /\ DOMAIN queue = Shard
  /\ \A s \in Shard : InTurn(s)
  /\ \A e \in delivered :
       /\ e \in Finished \/ Working(Executor(e), e)
            \/ \E i \in 1..Len(queue[Executor(e)]) : queue[Executor(e)][i] = e
       /\ \A f : Follows(e, f) => f \in delivered

\* Nothing has been sent.
LEMMA InitIntake == Init => IntakeInv
BY DEF Init, IntakeInv, InTurn, Working, Idle, Finished, Thread

\* A step that only finishes events, and starts none, keeps the order.
LEMMA Same ==
  ASSUME IntakeInv, queue' = queue, delivered' = delivered, claimed' = claimed, lost' = lost,
         times' = times, DOMAIN work' = Thread,
         \A s \in Shard : work'[s] = work[s]
  PROVE  IntakeInv'
<1>1. \A s \in Shard : \A e : Working(s, e)' <=> Working(s, e)
  BY DEF Working
<1>2. Finished' = Finished
  BY DEF Finished
<1>3. \A s \in Shard : InTurn(s)'
  BY <1>1, <1>2 DEF InTurn, IntakeInv
<1>4. \A e \in delivered : Executor(e) \in Shard
  BY ShardAssumption DEF IntakeInv, Executor
<1> QED BY <1>1, <1>2, <1>3, <1>4 DEF IntakeInv

\* submit_event puts an event behind all that its executor has in hand.
LEMMA SubmitIntake ==
  ASSUME IntakeInv, NEW e \in Event, Submit(e), delivered' = delivered \union {e},
         \A f : Follows(e, f) => f \in delivered,
         work' = work, claimed' = claimed, lost' = lost, times' = times
  PROVE  IntakeInv'
<1> DEFINE t == Executor(e)
<1>1. t \in Shard
  BY ShardAssumption DEF Executor
<1>2. queue' = [queue EXCEPT ![t] = Append(queue[t], e)]
  BY DEF Submit
<1>3. /\ DOMAIN queue' = Shard
      /\ \A s \in Shard : queue'[s] = IF s = t THEN Append(queue[t], e) ELSE queue[s]
  BY <1>2 DEF IntakeInv
<1>4. \A s : \A f : Working(s, f)' <=> Working(s, f)
  BY DEF Working
<1>5. Finished' = Finished
  BY DEF Finished
<1>6. /\ queue[t] \in Seq(Event)
      /\ Append(queue[t], e) \in Seq(Event)
      /\ Len(Append(queue[t], e)) = Len(queue[t]) + 1
      /\ \A i \in 1..Len(queue[t]) : Append(queue[t], e)[i] = queue[t][i]
      /\ Append(queue[t], e)[Len(queue[t]) + 1] = e
      /\ Len(queue[t]) \in Nat
  BY <1>1 DEF IntakeInv, InTurn
<1>7. \A f \in delivered : Executor(f) \in Shard
  BY ShardAssumption DEF IntakeInv, Executor
<1>8. \A f : Follows(e, f) => Executor(f) = t
  BY DEF Follows, Executor
<1> HIDE DEF t
<1>9. \A s \in Shard : InTurn(s)'
  <2>1. ASSUME NEW s \in Shard, s # t PROVE InTurn(s)'
    BY <1>3, <1>4, <1>5, <2>1 DEF IntakeInv, InTurn
  <2>2. InTurn(t)'
    <3>1. queue'[t] = Append(queue[t], e)
      BY <1>1, <1>3
    <3>2. ASSUME NEW i \in 1..(Len(queue[t]) + 1)
          PROVE  /\ Executor(queue'[t][i]) = t
                 /\ queue'[t][i] \in delivered'
                 /\ \A f : Follows(queue'[t][i], f) =>
                      \/ f \in Finished \/ Working(t, f)
                      \/ \E j \in 1..(i - 1) : queue'[t][j] = f
      <4>1. CASE i \in 1..Len(queue[t])
        <5>1. queue'[t][i] = queue[t][i] /\ \A j \in 1..(i - 1) : queue'[t][j] = queue[t][j]
          BY <1>6, <3>1, <4>1
        <5> QED BY <1>1, <4>1, <5>1 DEF IntakeInv, InTurn
      <4>2. CASE i = Len(queue[t]) + 1
        <5>1. queue'[t][i] = e /\ i - 1 = Len(queue[t])
          BY <1>6, <3>1, <4>2
        <5>2. \A j \in 1..Len(queue[t]) : queue'[t][j] = queue[t][j]
          BY <1>6, <3>1
        <5>3. ASSUME NEW f, Follows(e, f)
              PROVE  \/ f \in Finished \/ Working(t, f)
                     \/ \E j \in 1..Len(queue[t]) : queue[t][j] = f
          BY <1>8, <5>3 DEF IntakeInv
        <5>4. Executor(e) = t
          BY DEF t
        <5> QED BY <5>1, <5>2, <5>3, <5>4
      <4> QED BY <1>6, <4>1, <4>2
    <3>3. \A f : Working(t, f) =>
            /\ f \in delivered' /\ Executor(f) = t /\ f \notin claimed'
            /\ \A g : Follows(f, g) => g \in Finished
      BY <1>1 DEF IntakeInv, InTurn
    <3> QED BY <1>4, <1>5, <1>6, <3>1, <3>2, <3>3 DEF InTurn
  <2> QED BY <2>1, <2>2
<1>10. ASSUME NEW f \in delivered'
       PROVE  /\ f \in Finished \/ Working(Executor(f), f)
                   \/ \E i \in 1..Len(queue'[Executor(f)]) : queue'[Executor(f)][i] = f
              /\ \A g : Follows(f, g) => g \in delivered'
  <2>1. CASE f = e
    BY <1>1, <1>3, <1>6, <2>1 DEF t
  <2>2. CASE f \in delivered /\ Executor(f) # t
    BY <1>3, <1>7, <2>2 DEF IntakeInv
  <2>3. CASE f \in delivered /\ Executor(f) = t
    <3>1. queue'[t] = Append(queue[t], e)
      BY <1>1, <1>3
    <3>2. \A i \in 1..Len(queue[t]) : i \in 1..Len(queue'[t]) /\ queue'[t][i] = queue[t][i]
      BY <1>6, <3>1
    <3> QED BY <2>3, <3>2 DEF IntakeInv
  <2> QED BY <2>1, <2>2, <2>3
<1>11. delivered' \subseteq Event
  BY DEF IntakeInv
<1> QED BY <1>3, <1>4, <1>5, <1>9, <1>10, <1>11 DEF IntakeInv

\* What InTurn says of a queue r with w on the executor s.
Lined(r, s, w, known, done) ==
  /\ r \in Seq(Event)
  /\ \A i \in 1..Len(r) :
       /\ Executor(r[i]) = s
       /\ r[i] \in known
       /\ \A f : Follows(r[i], f) =>
            \/ f \in done \/ (w.job = "event" /\ w.about = f)
            \/ \E j \in 1..(i - 1) : r[j] = f

LEMMA LinedInTurn ==
  ASSUME NEW s
  PROVE  InTurn(s) <=>
           /\ Lined(queue[s], s, work[s], delivered, Finished)
           /\ \A e : Working(s, e) =>
                /\ e \in delivered /\ Executor(e) = s /\ e \notin claimed
                /\ \A f : Follows(e, f) => f \in Finished
BY DEF InTurn, Lined, Working

\* An executor takes the head of its queue: it works on it, unless it has been
\* claimed before.
LEMMA TakeIntake ==
  ASSUME IntakeInv, NEW s \in Shard, queue[s] # <<>>, work[s].job = "idle",
         queue' = [queue EXCEPT ![s] = Tail(queue[s])],
         DOMAIN work' = Thread,
         \A t \in Shard \ {s} : work'[t] = work[t],
         \/ /\ Head(queue[s]) \in claimed
            /\ work'[s] = work[s]
         \/ /\ Head(queue[s]) \notin claimed
            /\ work'[s].job = "event" /\ work'[s].about = Head(queue[s]),
         delivered' = delivered, claimed' = claimed, lost' = lost, times' = times
  PROVE  IntakeInv'
<1> SUFFICES ASSUME NEW CONSTANT q, q = queue[s], NEW CONSTANT e, e = Head(queue[s])
             PROVE  IntakeInv'
  OBVIOUS
<1>1. /\ q \in Seq(Event) /\ Len(q) \in Nat /\ Len(q) >= 1 /\ 1 \in 1..Len(q)
      /\ Tail(q) \in Seq(Event) /\ Len(Tail(q)) = Len(q) - 1
      /\ \A i \in 1..(Len(q) - 1) : Tail(q)[i] = q[i + 1]
      /\ e = q[1]
  BY DEF IntakeInv, InTurn
<1>2. /\ DOMAIN queue' = Shard
      /\ \A t \in Shard : queue'[t] = IF t = s THEN Tail(q) ELSE queue[t]
  BY DEF IntakeInv
<1>3. Finished' = Finished
  BY DEF Finished
<1>4. \A t \in Shard \ {s} : \A f : Working(t, f)' <=> Working(t, f)
  BY DEF Working
<1>5. /\ e \in Finished \/ Working(s, e)'
      /\ \A f : ~Working(s, f)
      /\ \A f : Working(s, f)' => f = e /\ e \notin claimed
  <2>1. \A f : ~Working(s, f)
    BY DEF Working
  <2>2. CASE e \in claimed /\ work'[s] = work[s]
    <3>1. e \in Finished
      BY <2>2 DEF Finished
    <3>2. \A f : ~Working(s, f)'
      BY <2>1, <2>2 DEF Working
    <3> QED BY <2>1, <3>1, <3>2
  <2>3. CASE e \notin claimed /\ work'[s].job = "event" /\ work'[s].about = e
    <3>1. Working(s, e)'
      BY <2>3 DEF Working
    <3>2. \A f : Working(s, f)' => f = e
      BY <2>3 DEF Working
    <3> QED BY <2>1, <2>3, <3>1, <3>2
  <2> QED BY <2>1, <2>2, <2>3
<1>6. \A i \in 1..Len(q) :
        /\ Executor(q[i]) = s
        /\ q[i] \in delivered
        /\ \A f : Follows(q[i], f) =>
             \/ f \in Finished
             \/ \E j \in 1..(i - 1) : q[j] = f
  <2>1. \A f : ~(work[s].job = "event" /\ work[s].about = f)
    BY <1>5 DEF Working
  <2>2. Lined(queue[s], s, work[s], delivered, Finished)
    BY LinedInTurn DEF IntakeInv
  <2>3. Lined(q, s, work[s], delivered, Finished)
    BY <2>2
  <2> QED BY <2>1, <2>3 DEF Lined
<1>7. \A f \in delivered : Executor(f) \in Shard
  BY ShardAssumption DEF IntakeInv, Executor
<1>8. \A t \in Shard : InTurn(t)'
  <2>1. ASSUME NEW t \in Shard, t # s PROVE InTurn(t)'
    <3>1. queue'[t] = queue[t] /\ work'[t] = work[t]
      BY <1>2, <2>1
    <3>2. InTurn(t)
      BY DEF IntakeInv
    <3>3. Lined(queue[t], t, work[t], delivered, Finished)
      BY <3>2, LinedInTurn
    <3>4. Lined(queue'[t], t, work'[t], delivered', Finished')
      BY <1>3, <3>1, <3>3
    <3>5. \A f : Working(t, f)' =>
            /\ f \in delivered' /\ Executor(f) = t /\ f \notin claimed'
            /\ \A g : Follows(f, g) => g \in Finished'
      BY <1>3, <1>4, <2>1, <3>2 DEF InTurn
    <3> QED BY <3>4, <3>5 DEF InTurn, Lined, Working
  <2>2. InTurn(s)'
    <3>1. queue'[s] = Tail(q)
      BY <1>2
    <3>2. ASSUME NEW i \in 1..(Len(q) - 1)
          PROVE  /\ Executor(Tail(q)[i]) = s
                 /\ Tail(q)[i] \in delivered
                 /\ \A f : Follows(Tail(q)[i], f) =>
                      \/ f \in Finished \/ Working(s, f)'
                      \/ \E j \in 1..(i - 1) : Tail(q)[j] = f
      <4>1. Tail(q)[i] = q[i + 1] /\ i + 1 \in 1..Len(q) /\ (i + 1) - 1 = i
        BY <1>1
      <4>2. ASSUME NEW f, Follows(q[i + 1], f), f \notin Finished
            PROVE  Working(s, f)' \/ \E j \in 1..(i - 1) : Tail(q)[j] = f
        <5>1. PICK j \in 1..i : q[j] = f
          BY <1>6, <4>1, <4>2
        <5>2. CASE j = 1
          BY <1>1, <1>5, <4>2, <5>1, <5>2
        <5>3. CASE j # 1
          <6>1. j - 1 \in 1..(i - 1) /\ j - 1 \in 1..(Len(q) - 1) /\ (j - 1) + 1 = j
            BY <1>1, <5>1, <5>3
          <6>2. Tail(q)[j - 1] = f
            BY <1>1, <5>1, <6>1
          <6> QED BY <6>1, <6>2
        <5> QED BY <5>2, <5>3
      <4> QED BY <1>6, <4>1, <4>2
    <3>3. \A f : Working(s, f)' =>
            /\ f \in delivered /\ Executor(f) = s /\ f \notin claimed
            /\ \A g : Follows(f, g) => g \in Finished
      BY <1>1, <1>5, <1>6
    <3>4. Tail(q) \in Seq(Event) /\ 1..Len(Tail(q)) = 1..(Len(q) - 1)
      BY <1>1
    <3>5. \A i \in 1..Len(Tail(q)) :
            /\ Executor(Tail(q)[i]) = s
            /\ Tail(q)[i] \in delivered
            /\ \A f : Follows(Tail(q)[i], f) =>
                 \/ f \in Finished \/ Working(s, f)'
                 \/ \E j \in 1..(i - 1) : Tail(q)[j] = f
      BY <3>2, <3>4
    <3>6. Lined(Tail(q), s, work'[s], delivered, Finished)
      BY <3>4, <3>5 DEF Lined, Working
    <3>7. Lined(queue'[s], s, work'[s], delivered', Finished')
      BY <1>3, <3>1, <3>6
    <3> QED BY <1>3, <3>3, <3>7 DEF InTurn, Lined, Working
  <2> QED BY <2>1, <2>2
<1>9. ASSUME NEW f \in delivered
      PROVE  f \in Finished \/ Working(Executor(f), f)'
               \/ \E i \in 1..Len(queue'[Executor(f)]) : queue'[Executor(f)][i] = f
  <2>1. CASE Executor(f) # s
    BY <1>2, <1>4, <1>7, <2>1 DEF IntakeInv
  <2>2. CASE Executor(f) = s
    <3>1. f \in Finished \/ \E i \in 1..Len(q) : q[i] = f
      BY <1>5, <2>2 DEF IntakeInv
    <3>2. ASSUME NEW i \in 1..Len(q), q[i] = f, f \notin Finished
          PROVE  Working(s, f)' \/ \E j \in 1..Len(Tail(q)) : Tail(q)[j] = f
      <4>1. CASE i = 1
        BY <1>1, <1>5, <3>2, <4>1
      <4>2. CASE i # 1
        <5>1. i - 1 \in 1..(Len(q) - 1) /\ (i - 1) + 1 = i
          BY <1>1, <4>2
        <5>2. i - 1 \in 1..Len(Tail(q)) /\ Tail(q)[i - 1] = f
          BY <1>1, <3>2, <5>1
        <5> QED BY <5>2
      <4> QED BY <4>1, <4>2
    <3> QED BY <1>2, <2>2, <3>1, <3>2
  <2> QED BY <2>1, <2>2
<1> QED BY <1>2, <1>3, <1>8, <1>9 DEF IntakeInv

\* The transaction of an event ends, with its effect or without one.
LEMMA FinishIntake ==
  ASSUME IntakeInv, NEW s \in Shard, NEW e, Working(s, e), work'[s].job = "idle",
         DOMAIN work' = Thread,
         \A t \in Shard \ {s} : work'[t] = work[t],
         queue' = queue, delivered' = delivered,
         \/ /\ claimed' = claimed \union {e} /\ lost' = lost
            /\ times' = [times EXCEPT ![e] = times[e] + 1]
         \/ claimed' = claimed /\ lost' = lost \union {e} /\ times' = times
  PROVE  IntakeInv'
<1>1. e \in delivered /\ e \in Event /\ Executor(e) = s /\ e \notin claimed
  BY DEF IntakeInv, InTurn
<1>2. Finished' = Finished \union {e}
  BY DEF Finished
<1>3. /\ \A t \in Shard \ {s} : \A f : Working(t, f)' <=> Working(t, f)
      /\ \A f : ~Working(s, f)'
      /\ \A f : Working(s, f) => f = e
  BY DEF Working
<1>4. \A t \in Shard \ {s} : \A f : Working(t, f) => f # e
  BY <1>1 DEF IntakeInv, InTurn
<1>5. \A t \in Shard : InTurn(t)'
  <2>1. ASSUME NEW t \in Shard, t # s PROVE InTurn(t)'
    <3>1. \A f : Working(t, f)' => f \notin claimed'
      BY <1>3, <1>4, <2>1 DEF IntakeInv, InTurn
    <3> QED BY <1>2, <1>3, <2>1, <3>1 DEF IntakeInv, InTurn
  <2>2. InTurn(s)'
    BY <1>2, <1>3 DEF IntakeInv, InTurn
  <2> QED BY <2>1, <2>2
<1>6. \A f \in delivered : Executor(f) \in Shard
  BY ShardAssumption DEF IntakeInv, Executor
<1>7. ASSUME NEW f \in delivered
      PROVE  f \in Finished' \/ Working(Executor(f), f)'
               \/ \E i \in 1..Len(queue[Executor(f)]) : queue[Executor(f)][i] = f
  BY <1>2, <1>3, <1>6 DEF IntakeInv
<1>8. /\ times' \in [Event -> Nat]
      /\ \A f \in Event : times'[f] <= IF f \in claimed' THEN 1 ELSE 0
  <2>1. CASE claimed' = claimed /\ times' = times
    BY <2>1 DEF IntakeInv
  <2>2. CASE /\ claimed' = claimed \union {e}
             /\ times' = [times EXCEPT ![e] = times[e] + 1]
    <3>1. times \in [Event -> Nat] /\ times[e] = 0
      BY <1>1 DEF IntakeInv
    <3>2. times' = [times EXCEPT ![e] = 1]
      BY <2>2, <3>1
    <3>3. /\ times' \in [Event -> Nat]
          /\ \A f \in Event : times'[f] = IF f = e THEN 1 ELSE times[f]
      BY <1>1, <3>1, <3>2
    <3> QED BY <2>2, <3>3 DEF IntakeInv
  <2> QED BY <2>1, <2>2
<1> QED BY <1>1, <1>5, <1>7, <1>8 DEF IntakeInv

\* A restart throws away whatever is in hand.
LEMMA RestartIntake == ASSUME IntakeInv, Restart PROVE IntakeInv'
<1>1. /\ queue' = [s \in Shard |-> <<>>]
      /\ work' = [t \in Thread |-> IF t = "site" THEN work[t] ELSE Idle]
      /\ lost' = lost \union {e \in Event : \E s \in Shard : InHand(e, s)}
      /\ delivered' = delivered /\ claimed' = claimed /\ times' = times
  BY DEF Restart
<1>2. \A s \in Shard : \A e : ~Working(s, e)'
  BY <1>1, ShardAssumption DEF Working, Idle, Thread
<1>3. \A s \in Shard : InTurn(s)'
  BY <1>1, <1>2 DEF InTurn
<1>4. ASSUME NEW e \in delivered PROVE e \in Finished'
  <2>1. e \in Event /\ Executor(e) \in Shard
    BY ShardAssumption DEF IntakeInv, Executor
  <2>2. DOMAIN queue[Executor(e)] = 1..Len(queue[Executor(e)])
    BY <2>1 DEF IntakeInv, InTurn
  <2>3. e \in Finished \/ InHand(e, Executor(e))
    BY <2>1, <2>2 DEF IntakeInv, InHand, Working
  <2> QED BY <1>1, <2>1, <2>3 DEF Finished
<1> QED BY <1>1, <1>3, <1>4 DEF IntakeInv

\* Every step of the loop, the executors, the timers and the site keeps the order.
LEMMA StepIntake == IntakeInv /\ [Next]_vars => IntakeInv'
<1> SUFFICES ASSUME IntakeInv, [Next]_vars PROVE IntakeInv'
  OBVIOUS
<1>0. /\ \A s \in Shard : s \in Thread /\ s # "site"
      /\ DOMAIN work = Thread
  BY ShardAssumption DEF Thread, IntakeInv
<1>1. ASSUME NEW e \in Event, Deliver(e) PROVE IntakeInv'
  <2>1. \A f : Follows(e, f) => f \in delivered
    BY <1>1 DEF Deliver, Follows
  <2>2. /\ Submit(e) /\ delivered' = delivered \union {e}
        /\ work' = work /\ claimed' = claimed /\ lost' = lost /\ times' = times
    BY <1>1 DEF Deliver
  <2> QED BY <2>1, <2>2, SubmitIntake
<1>2. ASSUME NEW e \in Event, Repeat(e) PROVE IntakeInv'
  <2>1. e \in delivered /\ delivered' = delivered
    BY <1>2 DEF Repeat
  <2>2. \A f : Follows(e, f) => f \in delivered
    BY <2>1 DEF IntakeInv
  <2>3. delivered' = delivered \union {e}
    BY <2>1
  <2>4. /\ Submit(e)
        /\ work' = work /\ claimed' = claimed /\ lost' = lost /\ times' = times
    BY <1>2 DEF Repeat
  <2> QED BY <2>2, <2>3, <2>4, SubmitIntake
<1>3. ASSUME NEW s \in Shard, Begin(s) PROVE IntakeInv'
  <2>1. /\ queue[s] # <<>> /\ work[s].job = "idle" /\ Head(queue[s]) \notin claimed
        /\ queue' = [queue EXCEPT ![s] = Tail(queue[s])]
        /\ delivered' = delivered /\ claimed' = claimed /\ lost' = lost /\ times' = times
        /\ work' = [work EXCEPT ![s] = [job |-> "event", about |-> Head(queue[s]),
                                        seen |-> db, listed |-> cached' = "in"]]
    BY <1>3 DEF Begin, ClaimEvent
  <2>2. /\ DOMAIN work' = Thread /\ \A t \in Shard \ {s} : work'[t] = work[t]
        /\ work'[s].job = "event" /\ work'[s].about = Head(queue[s])
    BY <1>0, <2>1
  <2> QED BY <2>1, <2>2, TakeIntake
<1>4. ASSUME NEW s \in Shard, Skip(s) PROVE IntakeInv'
  <2>1. /\ queue[s] # <<>> /\ work[s].job = "idle" /\ Head(queue[s]) \in claimed
        /\ queue' = [queue EXCEPT ![s] = Tail(queue[s])]
        /\ delivered' = delivered /\ claimed' = claimed /\ lost' = lost /\ times' = times
        /\ work' = work
    BY <1>4 DEF Skip, ClaimEvent
  <2> QED BY <1>0, <2>1, TakeIntake
<1>5. ASSUME NEW s \in Shard, Commit(s) PROVE IntakeInv'
  <2>1. PICK e : e = work[s].about
    OBVIOUS
  <2>2. /\ Working(s, e) /\ claimed' = claimed \union {e}
        /\ times' = [times EXCEPT ![e] = times[e] + 1] /\ work' = [work EXCEPT ![s] = Idle]
        /\ delivered' = delivered /\ queue' = queue /\ lost' = lost
    BY <1>5, <2>1 DEF Commit, Release, Working
  <2>3. /\ DOMAIN work' = Thread /\ \A t \in Shard \ {s} : work'[t] = work[t]
        /\ work'[s].job = "idle"
    BY <1>0, <2>2 DEF Idle
  <2> QED BY <2>2, <2>3, FinishIntake
<1>6. ASSUME NEW s \in Shard, Fail(s) PROVE IntakeInv'
  <2>1. PICK e : e = work[s].about
    OBVIOUS
  <2>2. /\ Working(s, e) /\ lost' = lost \union {e} /\ work' = [work EXCEPT ![s] = Idle]
        /\ delivered' = delivered /\ queue' = queue /\ claimed' = claimed /\ times' = times
    BY <1>6, <2>1 DEF Fail, Release, Working
  <2>3. /\ DOMAIN work' = Thread /\ \A t \in Shard \ {s} : work'[t] = work[t]
        /\ work'[s].job = "idle"
    BY <1>0, <2>2 DEF Idle
  <2> QED BY <2>2, <2>3, FinishIntake
<1>7. ASSUME NEW c \in Call, Remind(c) PROVE IntakeInv'
  BY <1>0, <1>7, Same DEF Remind, intake
<1>8. ASSUME NEW j, NEW c, SiteBegins(j, c) PROVE IntakeInv'
  BY <1>0, <1>8, Same DEF SiteBegins, intake
<1>9. CASE SiteForgives
  BY <1>0, <1>9, Same DEF SiteForgives, intake
<1>10. CASE SiteToggles
  BY <1>0, <1>10, Same DEF SiteToggles, intake
<1>11. CASE Restart
  BY <1>11, RestartIntake
<1>12. CASE UNCHANGED vars
  BY <1>0, <1>12, Same DEF vars
<1> QED
  BY <1>1, <1>2, <1>3, <1>4, <1>5, <1>6, <1>7, <1>8, <1>9, <1>10, <1>11, <1>12
     DEF Next, WorkerStep, TimerStep, SiteStep

\* However often an event is delivered and whatever fails, it takes effect once.
THEOREM EffectOnceHolds == Spec => []EffectOnce
<1>1. IntakeInv => EffectOnce
  BY DEF IntakeInv, EffectOnce
<1> QED BY <1>1, InitIntake, StepIntake, PTL DEF Spec

\* Only the end of a transaction claims an event, and only its own.
LEMMA ClaimsAreCommits ==
  ASSUME [Next]_vars, NEW e \in claimed' \ claimed
  PROVE  \E s \in Shard : Working(s, e)
<1>1. ASSUME NEW s \in Shard, Commit(s) PROVE Working(s, e)
  BY <1>1 DEF Commit, Working
<1>2. ASSUME NEW f \in Event, Deliver(f) \/ Repeat(f) PROVE FALSE
  BY <1>2 DEF Deliver, Repeat
<1>3. ASSUME NEW s \in Shard, Begin(s) \/ Skip(s) \/ Fail(s) PROVE FALSE
  BY <1>3 DEF Begin, Skip, Fail
<1>4. CASE TimerStep \/ SiteStep \/ Restart \/ UNCHANGED vars
  BY <1>4 DEF TimerStep, Remind, SiteStep, SiteBegins, SiteForgives, SiteToggles, Restart,
              intake, vars
<1> QED BY <1>1, <1>2, <1>3, <1>4 DEF Next, WorkerStep

\* The events of one user take effect in the order he sent them, except what a
\* fault threw away: a repeated event may not overtake, nor one of a restart.
THEOREM EventsInOrderHolds == Spec => EventsInOrder
<1>1. IntakeInv /\ [Next]_vars =>
        [\A e \in claimed' \ claimed, f \in Event :
           f < e /\ By(f) = By(e) => f \in claimed \union lost]_vars
  <2> SUFFICES ASSUME IntakeInv, [Next]_vars, NEW e \in claimed' \ claimed, NEW f \in Event,
                      f < e, By(f) = By(e)
               PROVE  f \in claimed \union lost
    OBVIOUS
  <2>1. PICK s \in Shard : Working(s, e)
    BY ClaimsAreCommits
  <2> QED BY <2>1 DEF IntakeInv, InTurn, Follows, Finished
<1> QED BY <1>1, InitIntake, StepIntake, PTL DEF Spec, EventsInOrder

\* No message reaches a handler in a transaction that has read the block of its
\* author, whatever the cached block list says.
THEOREM BlockedIsSilentHolds == Spec => BlockedIsSilent
<1>1. IntakeInv /\ [Next]_vars =>
        [\A e \in passed' \ passed : ~work[Executor(e)].seen.blocked]_vars
  <2> SUFFICES ASSUME IntakeInv, [Next]_vars, NEW e \in passed' \ passed
               PROVE  ~work[Executor(e)].seen.blocked
    OBVIOUS
  <2>1. ASSUME NEW s \in Shard, Commit(s) PROVE ~work[Executor(e)].seen.blocked
    <3>1. HandlePassenger(work[s].about, work[s].listed, work[s].seen)
      BY <2>1 DEF Commit
    <3>2. e = work[s].about /\ ~work[s].seen.blocked
      BY <3>1 DEF HandlePassenger, Blocked
    <3>3. Working(s, e)
      BY <2>1, <3>2 DEF Commit, Working
    <3>4. Executor(e) = s
      BY <3>3 DEF IntakeInv, InTurn
    <3> QED BY <3>2, <3>4
  <2>2. ASSUME NEW f \in Event, Deliver(f) \/ Repeat(f) PROVE FALSE
    BY <2>2 DEF Deliver, Repeat
  <2>3. ASSUME NEW s \in Shard, Begin(s) \/ Skip(s) \/ Fail(s) PROVE FALSE
    BY <2>3 DEF Begin, Skip, Fail
  <2>4. CASE TimerStep \/ SiteStep \/ Restart \/ UNCHANGED vars
    BY <2>4 DEF TimerStep, Remind, SiteStep, SiteBegins, SiteForgives, SiteToggles, Restart,
                intake, vars
  <2> QED BY <2>1, <2>2, <2>3, <2>4 DEF Next, WorkerStep
<1> QED BY <1>1, InitIntake, StepIntake, PTL DEF Spec, BlockedIsSilent

----------------------------------------------------------------------------
(* The debt.                                                                *)

Shape(rows) ==
  /\ DOMAIN rows = {"status", "born", "asked", "reminded", "owes", "blocked"}
  /\ DOMAIN rows.status = Call
  /\ rows.owes \in BOOLEAN

\* As long as no debt and payment have overlapped, who may lift the lock has
\* read every debt, and who makes a debt finds the lock as he has read it, or shut.
DebtInv ==
  /\ Shape(db)
  /\ DOMAIN work = Thread
  /\ \A t \in Thread : work[t].seen.owes \in BOOLEAN
  /\ ~crossed =>
       /\ PendingIn(db) # {} => db.owes = TRUE
       /\ \A t \in Thread :
            /\ Lifts(t) => PendingIn(db) \subseteq PendingIn(work[t].seen)
            /\ Makes(t) /\ work[t].seen.owes = TRUE => db.owes = TRUE

LEMMA InitDebt == Init => DebtInv
<1> SUFFICES ASSUME Init PROVE DebtInv
  OBVIOUS
<1>1. Shape(NoRows) /\ PendingIn(NoRows) = {} /\ NoRows.owes = FALSE
  BY DEF Shape, NoRows, PendingIn
<1>2. db = NoRows /\ work = [t \in Thread |-> Idle] /\ Idle.seen = NoRows /\ Idle.job = "idle"
  BY DEF Init, Idle
<1> QED BY <1>1, <1>2 DEF DebtInv, Makes, Lifts

\* What a payment leaves.
LEMMA SettledRows ==
  ASSUME Shape(db), NEW c, NEW seen, seen.owes \in BOOLEAN
  PROVE  /\ Shape(Settled(c, seen))
         /\ PendingIn(Settled(c, seen)) \subseteq PendingIn(db)
         /\ c \in Call => c \notin PendingIn(Settled(c, seen))
         /\ ~(PendingIn(seen) \subseteq {c}) => Settled(c, seen).owes = db.owes
<1> DEFINE owes == IF PendingIn(seen) \subseteq {c} THEN Flag(seen.owes, FALSE) ELSE db.owes
<1>1. owes \in BOOLEAN /\ (~(PendingIn(seen) \subseteq {c}) => owes = db.owes)
  BY DEF Shape, Flag
<1>2. Settled(c, seen) = [db EXCEPT !.status = [db.status EXCEPT ![c] = "paid"], !.owes = owes]
  BY DEF Settled
<1> HIDE DEF owes
<1> DEFINE r == [db EXCEPT !.status = [db.status EXCEPT ![c] = "paid"], !.owes = owes]
<1>3. /\ DOMAIN r = DOMAIN db /\ r.owes = owes
      /\ r.status = [db.status EXCEPT ![c] = "paid"]
  BY DEF Shape
<1> HIDE DEF r
<1>4. /\ DOMAIN r.status = Call
      /\ \A k \in Call : r.status[k] = IF k = c THEN "paid" ELSE db.status[k]
  BY <1>3 DEF Shape
<1> QED BY <1>1, <1>2, <1>3, <1>4 DEF Shape, PendingIn, r

\* A payment by who has read every debt lifts the lock only with the last one.
LEMMA PaidInFull ==
  ASSUME Shape(db), NEW c, NEW seen, seen.owes \in BOOLEAN, NEW r, r = Settled(c, seen),
         PendingIn(db) \subseteq PendingIn(seen)
  PROVE  PendingIn(r) \subseteq PendingIn(db) /\ (PendingIn(r) # {} => r.owes = db.owes)
<1>1. /\ PendingIn(r) \subseteq PendingIn(db)
      /\ c \in Call => c \notin PendingIn(r)
      /\ ~(PendingIn(seen) \subseteq {c}) => r.owes = db.owes
  BY SettledRows
<1>2. PendingIn(r) \subseteq Call
  BY DEF PendingIn
<1> QED BY <1>1, <1>2

\* A step that touches neither debts nor lock, and starts transactions only on
\* the rows as they are.
LEMMA SameDebt ==
  ASSUME DebtInv, Shape(db'), db'.owes = db.owes, db'.status = db.status,
         crossed' = crossed, DOMAIN work' = Thread,
         \A t \in Thread : \/ work'[t] = work[t] \/ work'[t].seen = db
                          \/ work'[t] = Idle
  PROVE  DebtInv'
<1>1. PendingIn(db') = PendingIn(db)
  BY DEF PendingIn
<1>2. Idle.job = "idle" /\ Idle.seen.owes = FALSE
  BY DEF Idle, NoRows
<1>3. ASSUME NEW t \in Thread
      PROVE  /\ work'[t].seen.owes \in BOOLEAN
             /\ ~crossed =>
                  /\ Lifts(t)' => PendingIn(db) \subseteq PendingIn(work'[t].seen)
                  /\ Makes(t)' /\ work'[t].seen.owes = TRUE => db.owes = TRUE
  <2>1. CASE work'[t] = work[t]
    <3>1. (Lifts(t)' <=> Lifts(t)) /\ (Makes(t)' <=> Makes(t))
      BY <2>1 DEF Lifts, Makes
    <3> QED BY <2>1, <3>1 DEF DebtInv
  <2>2. CASE work'[t].seen = db
    BY <2>2 DEF DebtInv, Shape
  <2>3. CASE work'[t] = Idle
    BY <1>2, <2>3 DEF Lifts, Makes
  <2> QED BY <2>1, <2>2, <2>3
<1> QED BY <1>1, <1>3 DEF DebtInv

\* Who is at work while a transaction ends, and what he has read.
LEMMA OthersStay ==
  ASSUME DebtInv, NEW s \in Thread, work' = [work EXCEPT ![s] = Idle]
  PROVE  /\ DOMAIN work' = Thread
         /\ ~Lifts(s)' /\ ~Makes(s)'
         /\ \A t \in Thread : work'[t].seen.owes \in BOOLEAN
         /\ \A t \in Thread \ {s} :
              work'[t] = work[t] /\ (Lifts(t)' <=> Lifts(t)) /\ (Makes(t)' <=> Makes(t))
<1>1. Idle.job = "idle" /\ Idle.seen.owes = FALSE
  BY DEF Idle, NoRows
<1>2. /\ DOMAIN work' = Thread
      /\ \A t \in Thread : work'[t] = IF t = s THEN Idle ELSE work[t]
  BY DEF DebtInv
<1> QED BY <1>1, <1>2 DEF Lifts, Makes, DebtInv

\* A payment, or a message of the passenger, ends.
LEMMA LiftEnds ==
  ASSUME DebtInv, NEW s \in Thread, work' = [work EXCEPT ![s] = Idle], Lifts(s), Crosses(s),
         Shape(db'),
         PendingIn(db) \subseteq PendingIn(work[s].seen) =>
           /\ PendingIn(db') \subseteq PendingIn(db)
           /\ PendingIn(db') # {} => db'.owes = db.owes
  PROVE  DebtInv'
<1>1. ~crossed' => ~crossed /\ \A u \in Thread \ {s} : ~Makes(u)
  BY DEF Crosses
<1> DEFINE Left == ~crossed' => /\ PendingIn(db') \subseteq PendingIn(db)
                                /\ PendingIn(db') # {} => db'.owes = TRUE
<1>2. Left
  BY <1>1 DEF DebtInv
<1> QED BY <1>1, <1>2, OthersStay DEF DebtInv

\* The report of a false call ends.
LEMMA MakeEnds ==
  ASSUME DebtInv, NEW s \in Thread, work' = [work EXCEPT ![s] = Idle], Makes(s), Crosses(s),
         Shape(db'),
         \/ db' = db
         \/ db'.owes = TRUE
         \/ work[s].seen.owes = TRUE /\ db'.owes = db.owes
  PROVE  DebtInv'
<1>1. ~crossed' => ~crossed /\ \A u \in Thread \ {s} : ~Lifts(u)
  BY DEF Crosses
<1>2. ~crossed' => db' = db \/ db'.owes = TRUE
  BY <1>1 DEF DebtInv
<1> QED BY <1>1, <1>2, OthersStay DEF DebtInv

LEMMA StepDebt == DebtInv /\ [Next]_vars => DebtInv'
<1> SUFFICES ASSUME DebtInv, [Next]_vars PROVE DebtInv'
  OBVIOUS
<1>0. /\ \A s \in Shard : s \in Thread /\ s # "site"
      /\ "site" \in Thread
      /\ DOMAIN work = Thread /\ Shape(db)
      /\ \A t \in Thread : work[t].seen.owes \in BOOLEAN
  BY ShardAssumption DEF Thread, DebtInv
<1>1. ASSUME NEW e \in Event, Deliver(e) \/ Repeat(e) PROVE DebtInv'
  <2>1. work' = work /\ db' = db /\ crossed' = crossed
    BY <1>1 DEF Deliver, Repeat
  <2> QED BY <1>0, <2>1, SameDebt
<1>2. ASSUME NEW s \in Shard, Begin(s) PROVE DebtInv'
  <2> DEFINE j == [job |-> "event", about |-> Head(queue[s]),
                   seen |-> db, listed |-> cached' = "in"]
  <2>1. work' = [work EXCEPT ![s] = j] /\ db' = db /\ crossed' = crossed
    BY <1>2 DEF Begin
  <2>2. j.seen = db
    OBVIOUS
  <2> HIDE DEF j
  <2> QED BY <1>0, <2>1, <2>2, SameDebt
<1>3. ASSUME NEW s \in Shard, Skip(s) \/ Fail(s) PROVE DebtInv'
  <2>1. /\ work' = work \/ work' = [work EXCEPT ![s] = Idle]
        /\ db' = db /\ crossed' = crossed
    BY <1>3 DEF Skip, Fail, Release
  <2> QED BY <1>0, <2>1, SameDebt
<1>4. ASSUME NEW s \in Shard, Commit(s) PROVE DebtInv'
  <2> SUFFICES ASSUME NEW CONSTANT e, e = work[s].about,
                      NEW CONSTANT seen, seen = work[s].seen
               PROVE  DebtInv'
    OBVIOUS
  <2>1. /\ work[s].job = "event" /\ work' = [work EXCEPT ![s] = Idle] /\ Crosses(s)
        /\ s \in Thread /\ seen.owes \in BOOLEAN
    BY <1>0, <1>4 DEF Commit, Release
  <2>2. CASE Does(e) = "noshow"
    <3>1. Create(On(e), seen) /\ Makes(s)
      BY <1>4, <2>1, <2>2 DEF Commit, Makes
    <3>2. /\ Shape(db')
          /\ \/ db' = db
             \/ db'.owes = TRUE
             \/ seen.owes = TRUE /\ db'.owes = db.owes
      <4>1. CASE db' = db
        BY <1>0, <4>1
      <4>2. CASE db' = Created(On(e), seen)
        <5> DEFINE owes == Flag(seen.owes, TRUE)
        <5>1. /\ owes \in BOOLEAN
              /\ owes = TRUE \/ (seen.owes = TRUE /\ owes = db.owes)
          BY <1>0, <2>1 DEF Shape, Flag
        <5>2. db' = [db EXCEPT !.status = [db.status EXCEPT ![On(e)] = "pending"],
                               !.born = Append(db.born, On(e)), !.owes = owes]
          BY <4>2 DEF Created
        <5> HIDE DEF owes
        <5>3. /\ DOMAIN db' = DOMAIN db /\ db'.owes = owes
              /\ db'.status = [db.status EXCEPT ![On(e)] = "pending"]
          BY <1>0, <5>2 DEF Shape
        <5> QED BY <1>0, <5>1, <5>3 DEF Shape
      <4> QED BY <3>1, <4>1, <4>2 DEF Create
    <3> QED BY <2>1, <3>1, <3>2, MakeEnds
  <2>3. CASE Does(e) = "paid"
    <3>1. MarkPaid(On(e), seen) /\ Lifts(s)
      BY <1>4, <2>1, <2>3 DEF Commit, Lifts
    <3>2. CASE db' = db
      BY <1>0, <2>1, <3>1, <3>2, LiftEnds DEF DebtInv, Shape
    <3>3. CASE db' = Settled(On(e), seen)
      <4>1. Shape(db')
        BY <1>0, <2>1, <3>3, SettledRows
      <4>2. PendingIn(db) \subseteq PendingIn(seen) =>
              /\ PendingIn(db') \subseteq PendingIn(db)
              /\ PendingIn(db') # {} => db'.owes = db.owes
        BY <1>0, <2>1, <3>3, PaidInFull
      <4> QED BY <2>1, <3>1, <4>1, <4>2, LiftEnds
    <3> QED BY <3>1, <3>2, <3>3 DEF MarkPaid
  <2>4. CASE Does(e) # "noshow" /\ Does(e) # "paid"
    <3>1. HandlePassenger(e, work[s].listed, seen) /\ Lifts(s)
      BY <1>4, <2>1, <2>4 DEF Commit, Lifts
    <3>2. /\ Shape(db') /\ db'.status = db.status
          /\ db'.owes = db.owes \/ PendingIn(seen) = {}
      BY <1>0, <3>1 DEF HandlePassenger, ShowContact, Shape
    <3>3. PendingIn(db') = PendingIn(db)
      BY <3>2 DEF PendingIn
    <3> QED BY <2>1, <3>1, <3>2, <3>3, LiftEnds
  <2> QED BY <2>2, <2>3, <2>4
<1>5. ASSUME NEW c \in Call, Remind(c) PROVE DebtInv'
  <2>1. work' = work /\ crossed' = crossed
    BY <1>5 DEF Remind
  <2>2. Shape(db') /\ db'.owes = db.owes /\ db'.status = db.status
    BY <1>0, <1>5 DEF Remind, Shape
  <2> QED BY <1>0, <2>1, <2>2, SameDebt
<1>6. ASSUME NEW j, NEW c, SiteBegins(j, c) PROVE DebtInv'
  <2> DEFINE w == [job |-> j, about |-> c, seen |-> db, listed |-> FALSE]
  <2>1. work' = [work EXCEPT !["site"] = w] /\ db' = db /\ crossed' = crossed
    BY <1>6 DEF SiteBegins
  <2>2. w.seen = db
    OBVIOUS
  <2> HIDE DEF w
  <2> QED BY <1>0, <2>1, <2>2, SameDebt
<1>7. CASE SiteForgives
  <2> SUFFICES ASSUME NEW CONSTANT c, c = work["site"].about,
                      NEW CONSTANT seen, seen = work["site"].seen
               PROVE  DebtInv'
    OBVIOUS
  <2>1. /\ work' = [work EXCEPT !["site"] = Idle] /\ Crosses("site") /\ Lifts("site")
        /\ seen.owes \in BOOLEAN /\ (db' = db \/ db' = Settled(c, seen))
    BY <1>0, <1>7 DEF SiteForgives, Lifts
  <2>2. CASE db' = db
    BY <1>0, <2>1, <2>2, LiftEnds
  <2>3. CASE db' = Settled(c, seen)
    <3>1. Shape(db')
      BY <1>0, <2>1, <2>3, SettledRows
    <3>2. PendingIn(db) \subseteq PendingIn(seen) =>
            /\ PendingIn(db') \subseteq PendingIn(db)
            /\ PendingIn(db') # {} => db'.owes = db.owes
      BY <1>0, <2>1, <2>3, PaidInFull
    <3> QED BY <1>0, <2>1, <3>1, <3>2, LiftEnds
  <2> QED BY <2>1, <2>2, <2>3
<1>8. CASE SiteToggles
  <2>1. work' = [work EXCEPT !["site"] = Idle] /\ crossed' = crossed
    BY <1>8 DEF SiteToggles
  <2>2. Shape(db') /\ db'.owes = db.owes /\ db'.status = db.status
    BY <1>0, <1>8 DEF SiteToggles, Shape
  <2> QED BY <1>0, <2>1, <2>2, SameDebt
<1>9. CASE Restart
  <2>1. /\ work' = [t \in Thread |-> IF t = "site" THEN work[t] ELSE Idle]
        /\ db' = db /\ crossed' = crossed
    BY <1>9 DEF Restart
  <2> QED BY <1>0, <2>1, SameDebt
<1>10. CASE UNCHANGED vars
  BY <1>0, <1>10, SameDebt DEF vars
<1> QED
  BY <1>1, <1>2, <1>3, <1>4, <1>5, <1>6, <1>7, <1>8, <1>9, <1>10
     DEF Next, WorkerStep, TimerStep, SiteStep

\* Who owes for a false call is locked out, over any debts, payments, messages
\* and repetitions, unless the making of one debt overlapped a payment.
THEOREM DebtLocksHold == Spec => []DebtLocks
<1>1. DebtInv => DebtLocks
  BY DEF DebtInv, DebtLocks
<1> QED BY <1>1, InitDebt, StepDebt, PTL DEF Spec
=============================================================================
