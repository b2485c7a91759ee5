---------------------------- MODULE OutboxProofs ----------------------------
(***************************************************************************)
(* For any messages, however VK answers, over any overlapping transactions *)
(* and restarts: a row that VK is being called for is left alone by every  *)
(* other job; a card that the outbox recognises is not sent with buttons   *)
(* once its request is over; and until something fails, what a handler was *)
(* told is taken care of is taken care of.                                 *)
(***************************************************************************)
EXTENDS Outbox, TLAPS

\* What a row's status must be while the worker holds it: a claim gives all
\* rows of a batch one of these statuses, and no handler takes it away.
HeldStatus(step) ==
  CASE step \in {"toSend", "loaded", "answered", "read"} ->
         {"sending", "cancel_requested", "finalize_requested"}
    [] step \in {"toDelete", "byId", "withoutId"} -> {"deleting"}
    [] step = "toFinalize"                        -> {"finalizing"}
    [] OTHER                                      -> RowStatus

\* The inductive invariant.
HeldInv ==
  /\ TypeOK
  /\ \A m \in Message : row[m].status \in HeldStatus(job[m].step)

\* The part of TypeOK that is about neither rows nor jobs.
OthersTyped ==
  /\ copy \in [Message -> {"none", "card", "final", "gone"}]
  /\ echo \in [Message -> BOOLEAN]
  /\ over \in [Message -> BOOLEAN]
  /\ asked \in [Message -> {"nothing", "gone", "final"}]
  /\ faults \in 0 .. MaxFaults

\* A handler that overlaps a delivery is one more fault.
LEMMA OverlapTyped ==
  ASSUME faults \in 0 .. MaxFaults, NEW m \in Message, Overlaps(m)
  PROVE  faults' \in 0 .. MaxFaults
BY FaultAssumption DEF Overlaps

\* A withdrawal writes a row of the table, and takes a row away from no job.
LEMMA WithdrawnTypes ==
  ASSUME NEW r \in RowRecord
  PROVE  /\ Withdrawn(r) \in RowRecord
         /\ r.status = "deleting" => Withdrawn(r).status = "deleting"
         /\ r.status \in {"sending", "cancel_requested"} =>
              Withdrawn(r).status = "cancel_requested"
<1>1. CASE r.status \in {"pending", "failed"}
  BY <1>1 DEF Withdrawn, RowRecord, RowStatus, Mark
<1>2. CASE r.status \in {"sending", "cancel_requested"}
  BY <1>2 DEF Withdrawn, RowRecord, RowStatus, Mark
<1>3. CASE r.status \in {"deleting", "delete_requested"}
  BY <1>3 DEF Withdrawn, RowRecord, RowStatus, Mark
<1>4. CASE r.status \in {"sent", "cancelled"} /\ r.mark = "id"
  BY <1>4 DEF Withdrawn, RowRecord, RowStatus, Mark
<1>5. CASE /\ r.status \notin {"pending", "failed", "sending", "cancel_requested",
                               "deleting", "delete_requested"}
           /\ ~(r.status \in {"sent", "cancelled"} /\ r.mark = "id")
  BY <1>5 DEF Withdrawn, RowRecord, RowStatus, Mark
<1> QED
  BY <1>1, <1>2, <1>3, <1>4, <1>5

\* A restart leaves rows of the table.
LEMMA RecoveredTypes ==
  ASSUME NEW r \in RowRecord
  PROVE  Recovered(r) \in RowRecord
BY DEF Recovered, RowRecord, RowStatus, Mark

\* The table starts empty, with no job.
LEMMA InitHeld == Init => HeldInv
<1> SUFFICES ASSUME Init
             PROVE  HeldInv
  OBVIOUS
<1>1. [status : {"new"}, card : Card, final : {FALSE}, mark : {"none"}]
        \subseteq [status : {"new"}, card : Card, final : BOOLEAN, mark : Mark]
  BY DEF Mark
<1>2. [status : {"new"}, card : Card, final : BOOLEAN, mark : Mark] \subseteq RowRecord
  BY DEF RowRecord, RowStatus
<1>3. row \in [Message -> RowRecord]
  BY <1>1, <1>2 DEF Init
<1>4. job \in [Message -> JobRecord] /\ \A m \in Message : job[m].step = "none"
  BY DEF Init, NoJob, JobRecord, RowStatus
<1>5. \A m \in Message : row[m].status \in HeldStatus(job[m].step)
  BY <1>3, <1>4 DEF HeldStatus, RowRecord
<1> QED
  BY <1>3, <1>4, <1>5, FaultAssumption DEF Init, HeldInv, TypeOK

\* A claim marks every row of the batch with the status that its jobs expect.
LEMMA ClaimHeld ==
  ASSUME HeldInv, NEW S \in SUBSET Message, NEW from, NEW status, NEW step,
         Claim(S, from, status, step),
         <<status, step>> \in {<<"sending", "toSend">>, <<"deleting", "toDelete">>,
                               <<"finalizing", "toFinalize">>}
  PROVE  HeldInv'
<1>1. /\ status \in RowStatus
      /\ step \in {"toSend", "toDelete", "toFinalize"}
      /\ status \in HeldStatus(step)
  BY DEF RowStatus, HeldStatus
<1>2. ASSUME NEW m \in Message
      PROVE  /\ row'[m] \in RowRecord
             /\ job'[m] \in JobRecord
             /\ row'[m].status \in HeldStatus(job'[m].step)
  <2>1. /\ row[m] \in RowRecord
        /\ job[m] \in JobRecord
        /\ row[m].status \in HeldStatus(job[m].step)
    BY DEF HeldInv, TypeOK
  <2>2. CASE m \in S
    <3>1. /\ row'[m] = [row[m] EXCEPT !.status = status]
          /\ job'[m] = [NoJob EXCEPT !.step = step]
      BY <2>2 DEF Claim
    <3> QED
      BY <1>1, <2>1, <3>1 DEF RowRecord, JobRecord, NoJob, RowStatus
  <2>3. CASE m \notin S
    BY <2>1, <2>3 DEF Claim
  <2> QED
    BY <2>2, <2>3
<1>3. /\ row' \in [Message -> RowRecord]
      /\ job' \in [Message -> JobRecord]
  BY <1>2 DEF Claim
<1> QED
  BY <1>2, <1>3 DEF Claim, HeldInv, TypeOK

\* A step that writes one row and one job is judged by that row and job.
LEMMA OneRow ==
  ASSUME HeldInv, NEW m \in Message,
         NEW r \in RowRecord, NEW j \in JobRecord,
         row' = [row EXCEPT ![m] = r],
         job' = [job EXCEPT ![m] = j],
         r.status \in HeldStatus(j.step),
         OthersTyped'
  PROVE  HeldInv'
<1>1. /\ row' \in [Message -> RowRecord]
      /\ job' \in [Message -> JobRecord]
  BY DEF HeldInv, TypeOK
<1>2. \A n \in Message : row'[n].status \in HeldStatus(job'[n].step)
  BY DEF HeldInv, TypeOK
<1> QED
  BY <1>1, <1>2 DEF HeldInv, TypeOK, OthersTyped

\* A step that leaves rows and jobs alone.
LEMMA NoRow ==
  ASSUME HeldInv, UNCHANGED <<row, job>>,
         OthersTyped'
  PROVE  HeldInv'
BY DEF HeldInv, TypeOK, OthersTyped

\* Handlers write a row, never a job: a row that is held stays in one of the
\* statuses its job expects.
LEMMA HandlersHeld ==
  ASSUME HeldInv, NEW m \in Message,
         \/ Enqueue(m) \/ RequestEnds(m) \/ CancelOrDelete(m) \/ FinalizeTracked(m)
         \/ RecordOutgoing(m)
  PROVE  HeldInv'
<1> DEFINE r == row[m]
           s == job[m].step
<1>1. /\ r \in RowRecord
      /\ job[m] \in JobRecord
      /\ r.status \in HeldStatus(s)
      /\ row = [row EXCEPT ![m] = r]
      /\ job = [job EXCEPT ![m] = job[m]]
  BY DEF HeldInv, TypeOK
<1>2. /\ TypeOK
      /\ OthersTyped
  BY DEF HeldInv, TypeOK, OthersTyped
<1>3. s \in {"none", "toSend", "loaded", "answered", "read", "toDelete", "byId",
            "withoutId", "toFinalize"}
  BY <1>1 DEF JobRecord
<1>4. /\ HeldStatus("none") = RowStatus
      /\ s \in {"toSend", "loaded", "answered", "read"} =>
           HeldStatus(s) = {"sending", "cancel_requested", "finalize_requested"}
      /\ s \in {"toDelete", "byId", "withoutId"} => HeldStatus(s) = {"deleting"}
      /\ s = "toFinalize" => HeldStatus(s) = {"finalizing"}
  BY DEF HeldStatus
<1>5. CASE Enqueue(m)
  <2> DEFINE x == [r EXCEPT !.status = "pending"]
  <2>1. x \in RowRecord /\ x.status = "pending"
    BY <1>1 DEF RowRecord, RowStatus
  <2>2. s = "none"
    BY <1>1, <1>3, <1>4, <1>5 DEF Enqueue
  <2>3. row' = [row EXCEPT ![m] = x] /\ job' = [job EXCEPT ![m] = job[m]]
    BY <1>1, <1>5 DEF Enqueue
  <2>4. x.status \in HeldStatus(s)
    BY <1>4, <2>1, <2>2 DEF RowStatus
  <2>5. OthersTyped'
    BY <1>2, <1>5 DEF Enqueue, OthersTyped
  <2> HIDE DEF x
  <2> QED
    BY <1>1, <2>1, <2>3, <2>4, <2>5, OneRow
<1>6. CASE RequestEnds(m)
  <2>1. OthersTyped' /\ UNCHANGED <<row, job>>
    BY <1>2, <1>6 DEF RequestEnds, OthersTyped
  <2> QED
    BY <2>1, NoRow
<1>7. CASE CancelOrDelete(m)
  <2> DEFINE x == Withdrawn(r)
  <2>1. /\ x \in RowRecord
        /\ r.status = "deleting" => x.status = "deleting"
        /\ r.status \in {"sending", "cancel_requested"} => x.status = "cancel_requested"
    BY <1>1, WithdrawnTypes
  <2>2. row' = [row EXCEPT ![m] = x] /\ job' = [job EXCEPT ![m] = job[m]]
    BY <1>1, <1>7 DEF CancelOrDelete
  <2>3. r.status \notin {"finalize_requested", "finalizing"}
    BY <1>7 DEF CancelOrDelete
  <2> HIDE DEF x
  <2>4. x.status \in RowStatus
    BY <2>1 DEF RowRecord
  <2>5. x.status \in HeldStatus(s)
    BY <1>1, <1>3, <1>4, <2>1, <2>3, <2>4
  <2>6. OthersTyped'
    BY <1>2, <1>7, OverlapTyped DEF CancelOrDelete, OthersTyped
  <2> QED
    BY <1>1, <2>1, <2>2, <2>5, <2>6, OneRow
<1>8. CASE FinalizeTracked(m)
  <2>1. PICK st \in RowStatus :
          /\ row' = [row EXCEPT ![m] = [r EXCEPT !.final = TRUE, !.status = st]]
          /\ \/ r.status \in {"pending", "failed", "sent"}
             \/ r.status = "sending" /\ st = "finalize_requested"
    <3>1. CASE r.status \in {"pending", "failed"} /\ row' = [row EXCEPT ![m].final = TRUE, ![m].status = "pending"]
      <4>1. row' = [row EXCEPT ![m] = [r EXCEPT !.final = TRUE, !.status = "pending"]]
        BY <1>1, <1>2, <3>1 DEF TypeOK
      <4> QED
        BY <3>1, <4>1 DEF RowStatus
    <3>2. CASE /\ r.status \in {"sending", "sent"}
               /\ row' = [row EXCEPT ![m].final = TRUE, ![m].status = "finalize_requested"]
      <4>1. row' = [row EXCEPT ![m] = [r EXCEPT !.final = TRUE, !.status = "finalize_requested"]]
        BY <1>1, <1>2, <3>2 DEF TypeOK
      <4> QED
        BY <3>2, <4>1 DEF RowStatus
    <3>3. CASE r.status = "sent" /\ row' = [row EXCEPT ![m].final = TRUE]
      <4>1. row' = [row EXCEPT ![m] = [r EXCEPT !.final = TRUE, !.status = r.status]]
        BY <1>1, <1>2, <3>3 DEF TypeOK, RowRecord
      <4> QED
        BY <1>1, <3>3, <4>1 DEF RowRecord
    <3> QED
      BY <1>8, <3>1, <3>2, <3>3 DEF FinalizeTracked
  <2> DEFINE x == [r EXCEPT !.final = TRUE, !.status = st]
  <2>2. x \in RowRecord /\ x.status = st
    BY <1>1, <2>1 DEF RowRecord
  <2>3. row' = [row EXCEPT ![m] = x] /\ job' = [job EXCEPT ![m] = job[m]]
    BY <1>1, <1>8, <2>1 DEF FinalizeTracked
  <2>4. st \in HeldStatus(s)
    BY <1>1, <1>3, <1>4, <2>1
  <2> HIDE DEF x
  <2>5. OthersTyped'
    BY <1>2, <1>8, OverlapTyped DEF FinalizeTracked, OthersTyped
  <2> QED
    BY <1>1, <2>2, <2>3, <2>4, <2>5, OneRow
<1>9. CASE RecordOutgoing(m)
  <2> DEFINE y == IF r.status = "cancelled" /\ r.mark = "undeletable"
                  THEN "delete_requested" ELSE r.status
  <2>1. y \in RowStatus /\ (r.status # "cancelled" => y = r.status)
    BY <1>1 DEF RowRecord, RowStatus
  <2>2. row' = [row EXCEPT ![m] = [r EXCEPT !.mark = "id", !.status = y]]
    BY <1>1, <1>2, <1>9 DEF RecordOutgoing, TypeOK
  <2> HIDE DEF y
  <2> DEFINE x == [r EXCEPT !.mark = "id", !.status = y]
  <2>3. x \in RowRecord /\ x.status = y
    BY <1>1, <2>1 DEF RowRecord, Mark
  <2>4. y \in HeldStatus(s)
    BY <1>1, <1>3, <1>4, <2>1
  <2>5. /\ job' = [job EXCEPT ![m] = job[m]]
        /\ row' = [row EXCEPT ![m] = x]
        /\ OthersTyped'
    BY <1>1, <1>2, <1>9, <2>2, OverlapTyped DEF RecordOutgoing, OthersTyped
  <2> HIDE DEF x
  <2> QED
    BY <1>1, <2>3, <2>4, <2>5, OneRow
<1> QED
  BY <1>5, <1>6, <1>7, <1>8, <1>9

\* The steps of a delivery, a deletion and an edit: a job goes on to a step
\* that expects the same statuses, or ends.
LEMMA JobsHeld ==
  ASSUME HeldInv, NEW m \in Message, JobStep(m)
  PROVE  HeldInv'
<1> DEFINE r == row[m]
           j == job[m]
<1>1. /\ r \in RowRecord
      /\ j \in JobRecord
      /\ r.status \in HeldStatus(j.step)
      /\ row = [row EXCEPT ![m] = r]
      /\ TypeOK
      /\ OthersTyped
  BY DEF HeldInv, TypeOK, OthersTyped
<1>2. NoJob \in JobRecord /\ NoJob.step = "none"
  BY DEF NoJob, JobRecord, RowStatus
<1>3. /\ HeldStatus("none") = RowStatus
      /\ HeldStatus("toSend") = {"sending", "cancel_requested", "finalize_requested"}
      /\ HeldStatus("loaded") = HeldStatus("toSend")
      /\ HeldStatus("answered") = HeldStatus("toSend")
      /\ HeldStatus("read") = HeldStatus("toSend")
      /\ HeldStatus("toDelete") = {"deleting"}
      /\ HeldStatus("byId") = {"deleting"}
      /\ HeldStatus("withoutId") = {"deleting"}
  BY DEF HeldStatus
\* A job that ends may leave any status and mark.
<1>4. ASSUME NEW st \in RowStatus, NEW mk \in Mark,
             row' = [row EXCEPT ![m].status = st, ![m].mark = mk],
             Done(m), OthersTyped'
      PROVE  HeldInv'
  <2> DEFINE x == [r EXCEPT !.status = st, !.mark = mk]
  <2>1. x \in RowRecord /\ x.status = st
    BY <1>1 DEF RowRecord
  <2>2. row' = [row EXCEPT ![m] = x] /\ job' = [job EXCEPT ![m] = NoJob]
    BY <1>1, <1>4 DEF Done, TypeOK
  <2>3. x.status \in HeldStatus(NoJob.step)
    BY <1>2, <1>3, <2>1
  <2> HIDE DEF x
  <2> QED
    BY <1>2, <1>4, <2>1, <2>2, <2>3, OneRow
<1>5. ASSUME NEW st \in RowStatus, row' = [row EXCEPT ![m].status = st],
             Done(m), OthersTyped'
      PROVE  HeldInv'
  <2>1. r.mark \in Mark
    BY <1>1 DEF RowRecord
  <2>2. row' = [row EXCEPT ![m].status = st, ![m].mark = r.mark]
    BY <1>1, <1>5 DEF TypeOK, RowRecord
  <2> QED
    BY <1>4, <1>5, <2>1, <2>2
\* A job that goes on without writing its row.
<1>6. ASSUME NEW k \in JobRecord, job' = [job EXCEPT ![m] = k], row' = row,
             HeldStatus(k.step) = HeldStatus(j.step), OthersTyped'
      PROVE  HeldInv'
  BY <1>1, <1>6, OneRow
<1>7. ASSUME Done(m), row' = row, OthersTyped'
      PROVE  HeldInv'
  <2>1. r.status \in HeldStatus(NoJob.step)
    BY <1>1, <1>2, <1>3 DEF RowRecord
  <2> QED
    BY <1>1, <1>2, <1>7, <2>1, OneRow DEF Done
<1>8. CASE DeliverLoad(m)
  <2>1. OthersTyped'
    BY <1>1, <1>8 DEF DeliverLoad, OthersTyped
  <2>2. CASE Done(m) /\ UNCHANGED row
    BY <1>7, <2>1, <2>2
  <2>3. CASE Done(m) /\ row' = [row EXCEPT ![m].status = "cancelled", ![m].mark = "none"]
    BY <1>4, <2>1, <2>3 DEF RowStatus, Mark
  <2>4. CASE /\ row' = row
             /\ At(m, "toSend")
             /\ job' = [job EXCEPT ![m].step = "loaded", ![m].final = row[m].final]
    <3> DEFINE k == [j EXCEPT !.step = "loaded", !.final = r.final]
    <3>1. k \in JobRecord /\ k.step = "loaded"
      BY <1>1 DEF JobRecord, RowRecord
    <3>2. job' = [job EXCEPT ![m] = k]
      BY <1>1, <2>4 DEF TypeOK
    <3> HIDE DEF k
    <3> QED
      BY <1>3, <1>6, <2>1, <2>4, <3>1, <3>2 DEF At
  <2> QED
    BY <1>8, <2>2, <2>3, <2>4 DEF DeliverLoad
<1>9. ASSUME NEW a \in Answer, DeliverCall(m, a)
      PROVE  HeldInv'
  <2>1. OthersTyped'
    <3>1. Shown(m) \in {"none", "card", "final", "gone"}
      BY <1>1 DEF Shown, TypeOK
    <3>2. /\ copy' \in [Message -> {"none", "card", "final", "gone"}]
          /\ echo' \in [Message -> BOOLEAN]
      <4>1. CASE a \in {"id", "echo", "lost"}
        <5> DEFINE e == echo[m] \/ copy[m] = "none"
        <5>1. e \in BOOLEAN
          OBVIOUS
        <5>2. copy' = [copy EXCEPT ![m] = Shown(m)] /\ echo' = [echo EXCEPT ![m] = e]
          BY <1>9, <4>1 DEF DeliverCall
        <5> HIDE DEF e
        <5> QED
          BY <1>1, <3>1, <5>1, <5>2 DEF OthersTyped
      <4>2. CASE a \notin {"id", "echo", "lost"}
        BY <1>1, <1>9, <4>2 DEF DeliverCall, OthersTyped
      <4> QED
        BY <4>1, <4>2
    <3>3. faults' \in 0 .. MaxFaults
      BY <1>1, <1>9, FaultAssumption DEF DeliverCall, OthersTyped
    <3> QED
      BY <1>1, <1>9, <3>2, <3>3 DEF DeliverCall, OthersTyped
  <2> DEFINE k == [j EXCEPT !.step = "answered", !.answer = a]
  <2>2. k \in JobRecord /\ k.step = "answered"
    BY <1>1 DEF JobRecord
  <2>3. job' = [job EXCEPT ![m] = k] /\ row' = row /\ j.step = "loaded"
    BY <1>1, <1>9 DEF DeliverCall, At, TypeOK
  <2> HIDE DEF k
  <2> QED
    BY <1>3, <1>6, <2>1, <2>2, <2>3
<1>10. CASE DeliverRead(m)
  <2> DEFINE h == HasId(m)
             k == [j EXCEPT !.step = "read", !.seen = r.status, !.known = h]
  <2>1. h \in BOOLEAN
    BY DEF HasId
  <2>2. job' = [job EXCEPT ![m] = k] /\ row' = row /\ j.step = "answered"
    BY <1>1, <1>10 DEF DeliverRead, At, TypeOK
  <2> HIDE DEF h
  <2>3. k \in JobRecord /\ k.step = "read"
    BY <1>1, <2>1 DEF JobRecord, RowRecord
  <2>4. OthersTyped'
    BY <1>1, <1>10 DEF DeliverRead, OthersTyped
  <2> HIDE DEF k
  <2> QED
    BY <1>3, <1>6, <2>2, <2>3, <2>4
<1>11. CASE StoreWithdrawn(m)
  <2>1. OthersTyped'
    BY <1>1, <1>11 DEF StoreWithdrawn, OthersTyped
  <2>2. PICK st \in RowStatus, mk \in Mark :
          row' = [row EXCEPT ![m].status = st, ![m].mark = mk]
    <3> DEFINE mk == IF DeliveredId(m) THEN "id" ELSE "none"
    <3>1. mk \in Mark
      BY DEF Mark
    <3>2. \/ row' = [row EXCEPT ![m].status = "cancelled", ![m].mark = "none"]
          \/ row' = [row EXCEPT ![m].status = "delete_requested", ![m].mark = mk]
      BY <1>11 DEF StoreWithdrawn
    <3> HIDE DEF mk
    <3> QED
      BY <3>1, <3>2 DEF RowStatus, Mark
  <2> QED
    BY <1>4, <1>11, <2>1, <2>2 DEF StoreWithdrawn
<1>12. CASE StoreSent(m)
  <2> DEFINE st == IF job[m].seen = "finalize_requested" THEN r.status ELSE "sent"
             mk == IF DeliveredId(m) THEN "id" ELSE "none"
  <2>1. st \in RowStatus /\ mk \in Mark
    BY <1>1 DEF RowRecord, RowStatus, Mark
  <2>2. row' = [row EXCEPT ![m].status = st, ![m].mark = mk]
    BY <1>12 DEF StoreSent
  <2>3. OthersTyped' /\ Done(m)
    BY <1>1, <1>12 DEF StoreSent, OthersTyped
  <2> HIDE DEF st, mk
  <2> QED
    BY <1>4, <2>1, <2>2, <2>3
<1>13. CASE StoreFailed(m)
  <2> DEFINE st == IF job[m].answer = "refused" THEN "cancelled" ELSE "failed"
  <2>1. st \in RowStatus /\ "none" \in Mark
    BY DEF RowStatus, Mark
  <2>2. row' = [row EXCEPT ![m].status = st, ![m].mark = "none"]
    BY <1>1, <1>13 DEF StoreFailed, TypeOK
  <2>3. OthersTyped' /\ Done(m)
    BY <1>1, <1>13 DEF StoreFailed, OthersTyped
  <2> HIDE DEF st
  <2> QED
    BY <1>4, <2>1, <2>2, <2>3
<1>14. CASE DeliverFails(m)
  <2>1. OthersTyped'
    BY <1>1, <1>14, FaultAssumption DEF DeliverFails, OthersTyped
  <2> QED
    BY <1>4, <1>7, <1>14, <2>1 DEF DeliverFails, RowStatus, Mark
<1>15. CASE DeleteLoad(m)
  <2> DEFINE st == IF HasId(m) THEN "byId" ELSE "withoutId"
             k == [j EXCEPT !.step = st]
  <2>1. st \in {"byId", "withoutId"}
    OBVIOUS
  <2>2. job' = [job EXCEPT ![m] = k] /\ row' = row /\ j.step = "toDelete"
    BY <1>1, <1>15 DEF DeleteLoad, At, TypeOK
  <2> HIDE DEF st
  <2>3. k \in JobRecord /\ k.step = st
    BY <1>1, <2>1 DEF JobRecord
  <2>4. OthersTyped'
    BY <1>1, <1>15 DEF DeleteLoad, OthersTyped
  <2> HIDE DEF k
  <2> QED
    BY <1>3, <1>6, <2>1, <2>2, <2>3, <2>4
<1>16. CASE DeleteWithoutId(m)
  <2>1. OthersTyped'
    BY <1>1, <1>16 DEF DeleteWithoutId, OthersTyped
  <2> QED
    BY <1>4, <1>5, <1>16, <2>1 DEF DeleteWithoutId, RowStatus, Mark
<1>17. CASE DeleteSucceeds(m)
  <2>1. OthersTyped'
    BY <1>1, <1>17 DEF DeleteSucceeds, OthersTyped
  <2> QED
    BY <1>4, <1>17, <2>1 DEF DeleteSucceeds, RowStatus, Mark
<1>18. CASE DeleteFails(m) \/ FinalizeFails(m)
  <2>1. OthersTyped'
    BY <1>1, <1>18 DEF DeleteFails, FinalizeFails, OthersTyped
  <2> QED
    BY <1>5, <1>18, <2>1 DEF DeleteFails, FinalizeFails, RowStatus
<1>19. CASE FinalizeSucceeds(m)
  <2>1. OthersTyped'
    BY <1>1, <1>19 DEF FinalizeSucceeds, OthersTyped
  <2> QED
    BY <1>5, <1>19, <2>1 DEF FinalizeSucceeds, RowStatus
<1> QED
  BY <1>8, <1>9, <1>10, <1>11, <1>12, <1>13, <1>14, <1>15, <1>16, <1>17, <1>18, <1>19
     DEF JobStep

\* A restart ends all jobs.
LEMMA RestartHeld ==
  ASSUME HeldInv, Restart
  PROVE  HeldInv'
<1>1. \A m \in Message : Recovered(row[m]) \in RowRecord
  BY RecoveredTypes DEF HeldInv, TypeOK
<1>2. row' \in [Message -> RowRecord]
  BY <1>1 DEF Restart
<1>3. NoJob \in JobRecord
  BY DEF NoJob, JobRecord, RowStatus
<1>4. job' \in [Message -> JobRecord]
  BY <1>3 DEF Restart
<1>5. OthersTyped'
  BY FaultAssumption DEF Restart, OthersTyped, HeldInv, TypeOK
<1>6. \A m \in Message : row'[m].status \in HeldStatus(job'[m].step)
  <2>1. ASSUME NEW m \in Message
        PROVE  row'[m].status \in HeldStatus(job'[m].step)
    <3>1. row'[m].status \in RowStatus
      BY <1>2 DEF RowRecord
    <3>2. job'[m].step = "none"
      BY DEF Restart, NoJob
    <3>3. HeldStatus("none") = RowStatus
      BY DEF HeldStatus
    <3> QED
      BY <3>1, <3>2, <3>3
  <2> QED
    BY <2>1
<1> QED
  BY <1>2, <1>4, <1>5, <1>6 DEF HeldInv, TypeOK, OthersTyped

\* Every step keeps the invariant.
LEMMA NextHeld == HeldInv /\ [Next]_vars => HeldInv'
<1> SUFFICES ASSUME HeldInv, [Next]_vars
             PROVE  HeldInv'
  OBVIOUS
<1>1. CASE HandlerStep
  BY <1>1, HandlersHeld DEF HandlerStep
<1>2. CASE ClaimStep
  BY <1>2, ClaimHeld DEF ClaimStep, ClaimBatch, ClaimDeleteBatch, ClaimFinalizeBatch
<1>3. CASE \E m \in Message : JobStep(m)
  BY <1>3, JobsHeld
<1>4. CASE Restart
  BY <1>4, RestartHeld
<1>5. CASE UNCHANGED vars
  BY <1>5 DEF vars, HeldInv, TypeOK
<1> QED
  BY <1>1, <1>2, <1>3, <1>4, <1>5 DEF Next

\* The invariant holds.
THEOREM HeldHolds == Spec => []HeldInv
  BY InitHeld, NextHeld, PTL DEF Spec

\* The table, the jobs and what VK shows keep their types: every word that a
\* handler or a job writes is one of the statuses.
THEOREM OutboxTypes == Spec => []TypeOK
<1>1. HeldInv => TypeOK
  BY DEF HeldInv
<1> QED
  BY <1>1, HeldHolds, PTL

\* While VK is being called for a message, no other job has its row.
THEOREM SendingIsExclusiveHolds == Spec => []SendingIsExclusive
<1>1. HeldInv => SendingIsExclusive
  BY DEF HeldInv, SendingIsExclusive, HeldStatus
<1> QED
  BY <1>1, HeldHolds, PTL

----------------------------------------------------------------------------
(* What becomes of what a handler was told.                                 *)

\* A message that VK has not shown: there is no id of it, no event about it is
\* on its way, and no delivery thinks that it was sent.
Unsent(r, j, c, e) ==
  c = "none" => /\ r.mark # "id"
                /\ ~e
                /\ j.step \in {"answered", "read"} => j.answer \in {"error", "refused"}
                /\ j.step = "read" => ~j.known
                /\ j.step # "byId"

\* A message as long as nothing has failed.  A withdrawal is in hand, or is
\* done with a message that is unseen or undeletable; what waits to be sent is
\* unseen; a delivery knows the status of its row, and its text unless the
\* final one was asked for meanwhile; a row that was sent with the final text
\* shows it.
Undisturbed(r, j, c, a) ==
  /\ a = "gone" => r.status \in {"cancelled", "cancel_requested", "delete_requested",
                                "deleting"}
  /\ r.status = "cancelled" => c \in {"none", "gone"} \/ r.mark = "undeletable"
  /\ r.status \in {"new", "pending", "failed"} => c = "none"
  /\ r.status = "sending" => j.step \in {"toSend", "loaded", "answered", "read"}
  /\ j.step \in {"toSend", "loaded"} => c = "none"
  /\ j.step \in {"answered", "read"} /\ j.answer \notin {"id", "echo"} => c = "none"
  /\ j.step = "read" => j.seen = r.status
  /\ j.step \in {"loaded", "answered", "read"} /\ r.status = "sending" =>
       j.final = r.final
  /\ (/\ j.step \in {"answered", "read"} /\ j.answer \in {"id", "echo"}
      /\ r.status = "sending" /\ r.final) => c \in {"final", "gone"}
  /\ r.status = "sent" /\ r.final => c \in {"final", "gone"}

\* The inductive invariant.
KeptInv ==
  /\ HeldInv
  /\ \A m \in Message : Unsent(row[m], job[m], copy[m], echo[m])
  /\ faults = 0 => \A m \in Message : Undisturbed(row[m], job[m], copy[m], asked[m])

\* The message m, after a step, is as the invariant has it.
KeptOne(m) ==
  /\ Unsent(row[m], job[m], copy[m], echo[m])
  /\ faults = 0 => Undisturbed(row[m], job[m], copy[m], asked[m])

\* Faults are only ever added.
LEMMA FaultsGrow ==
  ASSUME KeptInv, [Next]_vars, faults' = 0
  PROVE  faults = 0
<1>1. faults \in Nat
  BY FaultAssumption DEF KeptInv, HeldInv, TypeOK
<1>2. faults' \in {faults, faults + 1}
  <2>1. CASE HandlerStep
    BY <2>1 DEF HandlerStep, Enqueue, RequestEnds, CancelOrDelete, FinalizeTracked,
       RecordOutgoing, Overlaps
  <2>2. CASE ClaimStep
    BY <2>2 DEF ClaimStep, ClaimBatch, ClaimDeleteBatch, ClaimFinalizeBatch, Claim
  <2>3. ASSUME NEW m \in Message, JobStep(m)
        PROVE  faults' \in {faults, faults + 1}
    <3>1. CASE \/ DeliverLoad(m) \/ \E a \in Answer : DeliverCall(m, a)
               \/ DeliverRead(m) \/ DeliverFails(m)
      BY <3>1 DEF DeliverLoad, DeliverCall, DeliverRead, DeliverFails
    <3>2. CASE StoreWithdrawn(m) \/ StoreSent(m) \/ StoreFailed(m)
      BY <3>2 DEF StoreWithdrawn, StoreSent, StoreFailed
    <3>3. CASE \/ DeleteLoad(m) \/ DeleteWithoutId(m) \/ DeleteSucceeds(m)
               \/ DeleteFails(m) \/ FinalizeSucceeds(m) \/ FinalizeFails(m)
      BY <3>3 DEF DeleteLoad, DeleteWithoutId, DeleteSucceeds, DeleteFails,
         FinalizeSucceeds, FinalizeFails
    <3> QED
      BY <2>3, <3>1, <3>2, <3>3 DEF JobStep
  <2>4. CASE Restart \/ UNCHANGED vars
    BY <2>4 DEF Restart, vars
  <2> QED
    BY <2>1, <2>2, <2>3, <2>4 DEF Next
<1> QED
  BY <1>1, <1>2

\* Nothing is in the table at the start.
LEMMA InitKept == Init => KeptInv
<1> SUFFICES ASSUME Init
             PROVE  KeptInv
  OBVIOUS
<1>1. ASSUME NEW m \in Message
      PROVE  /\ row[m].status = "new" /\ row[m].mark = "none"
             /\ job[m] = NoJob /\ copy[m] = "none" /\ ~echo[m]
             /\ asked[m] = "nothing"
  BY DEF Init
<1>2. ASSUME NEW m \in Message
      PROVE  KeptOne(m)
  <2>1. row[m].status = "new" /\ row[m].mark = "none" /\ job[m].step = "none"
    BY <1>1 DEF NoJob
  <2>2. copy[m] = "none" /\ ~echo[m] /\ asked[m] = "nothing"
    BY <1>1
  <2> QED
    BY <2>1, <2>2 DEF KeptOne, Unsent, Undisturbed
<1> QED
  BY <1>2, InitHeld DEF KeptInv, KeptOne

\* A step that concerns the message m alone.
LEMMA OneKept ==
  ASSUME KeptInv, [Next]_vars, NEW m \in Message, KeptOne(m)',
         \A n \in Message \ {m} : /\ row'[n] = row[n] /\ job'[n] = job[n]
                                 /\ copy'[n] = copy[n] /\ echo'[n] = echo[n]
                                 /\ asked'[n] = asked[n]
  PROVE  KeptInv'
<1>1. HeldInv'
  BY NextHeld DEF KeptInv
<1>2. \A n \in Message : Unsent(row'[n], job'[n], copy'[n], echo'[n])
  BY DEF KeptInv, KeptOne
<1>3. faults' = 0 => \A n \in Message : Undisturbed(row'[n], job'[n], copy'[n], asked'[n])
  BY FaultsGrow DEF KeptInv, KeptOne
<1> QED
  BY <1>1, <1>2, <1>3 DEF KeptInv

\* A claim takes rows that wait, and gives them jobs.
LEMMA ClaimKept ==
  ASSUME KeptInv, ClaimStep
  PROVE  KeptInv'
<1>1. PICK S \in SUBSET Message :
        ClaimBatch(S) \/ ClaimDeleteBatch(S) \/ ClaimFinalizeBatch(S)
  BY DEF ClaimStep
<1>2. /\ HeldInv'
      /\ UNCHANGED <<copy, echo, asked, faults>>
  BY <1>1, NextHeld DEF KeptInv, Next, ClaimStep, ClaimBatch, ClaimDeleteBatch,
     ClaimFinalizeBatch, Claim
<1>3. ASSUME NEW m \in Message
      PROVE  KeptOne(m)'
  <2>1. /\ row[m] \in RowRecord /\ job[m].step = "none"
        /\ KeptOne(m)
    BY <1>1 DEF KeptInv, KeptOne, HeldInv, TypeOK, ClaimBatch, ClaimDeleteBatch,
       ClaimFinalizeBatch, Claim, Quiet, At
  <2>2. CASE row'[m] = row[m] /\ job'[m] = job[m]
    BY <1>2, <2>1, <2>2 DEF KeptOne
  <2>3. CASE /\ row'[m] = [row[m] EXCEPT !.status = "sending"]
             /\ job'[m] = [NoJob EXCEPT !.step = "toSend"]
             /\ row[m].status \in {"pending", "failed", "sending"}
    BY <1>2, <2>1, <2>3 DEF KeptOne, Unsent, Undisturbed, NoJob, RowRecord
  <2>4. CASE /\ row'[m] = [row[m] EXCEPT !.status = "deleting"]
             /\ job'[m] = [NoJob EXCEPT !.step = "toDelete"]
             /\ row[m].status \in {"delete_requested"}
    BY <1>2, <2>1, <2>4 DEF KeptOne, Unsent, Undisturbed, NoJob, RowRecord
  <2>5. CASE /\ row'[m] = [row[m] EXCEPT !.status = "finalizing"]
             /\ job'[m] = [NoJob EXCEPT !.step = "toFinalize"]
             /\ row[m].status \in {"finalize_requested"}
    BY <1>2, <2>1, <2>5 DEF KeptOne, Unsent, Undisturbed, NoJob, RowRecord
  <2> QED
    BY <1>1, <2>2, <2>3, <2>4, <2>5
       DEF ClaimBatch, ClaimDeleteBatch, ClaimFinalizeBatch, Claim
<1> QED
  BY <1>2, <1>3 DEF KeptInv, KeptOne

\* A restart is a fault, and ends every job.
LEMMA RestartKept ==
  ASSUME KeptInv, Restart
  PROVE  KeptInv'
<1>1. HeldInv' /\ UNCHANGED <<copy, echo, asked>> /\ faults' # 0
  BY NextHeld, FaultAssumption DEF Next, KeptInv, HeldInv, TypeOK, Restart
<1>2. ASSUME NEW m \in Message
      PROVE  Unsent(row'[m], job'[m], copy'[m], echo'[m])
  <2>1. /\ row'[m] = Recovered(row[m]) /\ job'[m] = NoJob
        /\ row[m] \in RowRecord
        /\ Unsent(row[m], job[m], copy[m], echo[m])
    BY DEF Restart, KeptInv, HeldInv, TypeOK
  <2>2. Recovered(row[m]).mark = row[m].mark
    BY <2>1 DEF Recovered, RowRecord
  <2> QED
    BY <1>1, <2>1, <2>2 DEF Unsent, NoJob
<1> QED
  BY <1>1, <1>2 DEF KeptInv

\* What a withdrawal makes of a row.
LEMMA WithdrawnKept ==
  ASSUME NEW r \in RowRecord, r.status \notin {"new", "finalize_requested", "finalizing"}
  PROVE  /\ Withdrawn(r).status \in {"cancelled", "cancel_requested", "delete_requested",
                                     "deleting"}
         /\ Withdrawn(r).status = "cancelled" =>
              r.status \in {"pending", "failed"} \/ Withdrawn(r).mark = "undeletable"
         /\ Withdrawn(r).mark = "id" => r.mark = "id"
<1>1. CASE r.status \in {"pending", "failed"}
  BY <1>1 DEF Withdrawn, RowRecord
<1>2. CASE r.status \in {"sending", "cancel_requested"}
  BY <1>2 DEF Withdrawn, RowRecord
<1>3. CASE r.status \in {"deleting", "delete_requested"}
  BY <1>3 DEF Withdrawn
<1>4. CASE r.status \in {"sent", "cancelled"} /\ r.mark = "id"
  BY <1>4 DEF Withdrawn, RowRecord
<1>5. CASE r.status \in {"sent", "cancelled"} /\ r.mark # "id"
  BY <1>5 DEF Withdrawn, RowRecord
<1> QED
  BY <1>1, <1>2, <1>3, <1>4, <1>5 DEF RowRecord, RowStatus

\* Handlers and events.
LEMMA HandlersKept ==
  ASSUME KeptInv, NEW m \in Message,
         \/ Enqueue(m) \/ RequestEnds(m) \/ CancelOrDelete(m) \/ FinalizeTracked(m)
         \/ RecordOutgoing(m)
  PROVE  KeptInv'
<1> DEFINE r == row[m]
           j == job[m]
           c == copy[m]
<1>1. /\ [Next]_vars
      /\ r \in RowRecord /\ j \in JobRecord /\ r.status \in HeldStatus(j.step)
      /\ KeptOne(m)
      /\ TypeOK
  BY DEF Next, HandlerStep, KeptInv, KeptOne, HeldInv, TypeOK
<1>2. CASE Enqueue(m)
  <2>1. /\ r.status = "new"
        /\ row' = [row EXCEPT ![m] = [r EXCEPT !.status = "pending"]]
        /\ UNCHANGED <<job, copy, echo, asked, faults>>
    BY <1>1, <1>2 DEF Enqueue, TypeOK
  <2>2. /\ row'[m].status = "pending" /\ row'[m].mark = r.mark
        /\ copy'[m] = c /\ job'[m] = j /\ echo'[m] = echo[m] /\ asked'[m] = asked[m]
    BY <1>1, <2>1 DEF TypeOK, RowRecord
  <2>3. KeptOne(m)'
    BY <1>1, <2>1, <2>2 DEF KeptOne, Unsent, Undisturbed, HeldStatus
  <2> QED
    BY <1>1, <2>1, <2>3, OneKept DEF TypeOK
<1>3. CASE RequestEnds(m)
  BY <1>1, <1>3, OneKept DEF RequestEnds, KeptOne
<1>4. CASE CancelOrDelete(m)
  <2> DEFINE x == Withdrawn(r)
  <2>1. /\ r.status \notin {"new", "finalize_requested", "finalizing"}
        /\ row' = [row EXCEPT ![m] = x]
        /\ asked' = [asked EXCEPT ![m] = "gone"]
        /\ UNCHANGED <<job, copy, echo>>
        /\ faults' = 0 => j.step # "read" /\ faults = 0
    BY <1>1, <1>4, FaultsGrow DEF CancelOrDelete, Overlaps, At
  <2>2. /\ x.status \in {"cancelled", "cancel_requested", "delete_requested", "deleting"}
        /\ x.status = "cancelled" =>
             r.status \in {"pending", "failed"} \/ x.mark = "undeletable"
        /\ x.mark = "id" => r.mark = "id"
    BY <1>1, <2>1, WithdrawnKept
  <2> HIDE DEF x
  <2>3. /\ row'[m] = x /\ job'[m] = j /\ copy'[m] = c /\ echo'[m] = echo[m]
        /\ asked'[m] = "gone"
    BY <1>1, <2>1 DEF TypeOK
  <2>4. Unsent(x, j, c, echo[m])
    BY <1>1, <2>2 DEF KeptOne, Unsent
  <2>5. faults' = 0 => Undisturbed(x, j, c, "gone")
    BY <1>1, <2>1, <2>2 DEF KeptOne, Undisturbed
  <2>6. KeptOne(m)'
    BY <2>3, <2>4, <2>5 DEF KeptOne
  <2> QED
    BY <1>1, <2>1, <2>6, OneKept DEF TypeOK
<1>5. CASE FinalizeTracked(m)
  <2>1. /\ asked[m] = "nothing"
        /\ asked' = [asked EXCEPT ![m] = "final"]
        /\ UNCHANGED <<job, echo>>
        /\ faults' = 0 => j.step # "read" /\ faults = 0
    BY <1>1, <1>5, FaultsGrow DEF FinalizeTracked, Overlaps, At
  <2>2. CASE /\ r.status \in {"pending", "failed"}
             /\ row' = [row EXCEPT ![m].final = TRUE, ![m].status = "pending"]
             /\ UNCHANGED copy
    <3>1. /\ row'[m].status = "pending" /\ row'[m].mark = r.mark
          /\ copy'[m] = c /\ job'[m] = j /\ echo'[m] = echo[m] /\ asked'[m] = "final"
      BY <1>1, <2>1, <2>2 DEF TypeOK, RowRecord
    <3>2. KeptOne(m)'
      BY <1>1, <2>1, <2>2, <3>1 DEF KeptOne, Unsent, Undisturbed, HeldStatus
    <3> QED
      BY <1>1, <2>1, <2>2, <3>2, OneKept DEF TypeOK
  <2>3. CASE /\ r.status \in {"sending", "sent"}
             /\ row' = [row EXCEPT ![m].final = TRUE, ![m].status = "finalize_requested"]
             /\ UNCHANGED copy
    <3>1. /\ row'[m].status = "finalize_requested" /\ row'[m].mark = r.mark
          /\ copy'[m] = c /\ job'[m] = j /\ echo'[m] = echo[m] /\ asked'[m] = "final"
      BY <1>1, <2>1, <2>3 DEF TypeOK, RowRecord
    <3>2. KeptOne(m)'
      BY <1>1, <2>1, <3>1 DEF KeptOne, Unsent, Undisturbed
    <3> QED
      BY <1>1, <2>1, <2>3, <3>2, OneKept DEF TypeOK
  <2>4. CASE /\ r.status = "sent" /\ Visible(m)
             /\ row' = [row EXCEPT ![m].final = TRUE]
             /\ copy' = [copy EXCEPT ![m] = "final"]
    <3>1. /\ row'[m].status = "sent" /\ row'[m].mark = r.mark
          /\ copy'[m] = "final" /\ job'[m] = j /\ echo'[m] = echo[m]
          /\ asked'[m] = "final"
      BY <1>1, <2>1, <2>4 DEF TypeOK, RowRecord
    <3>2. KeptOne(m)'
      BY <1>1, <2>1, <2>4, <3>1 DEF KeptOne, Unsent, Undisturbed, HeldStatus
    <3> QED
      BY <1>1, <2>1, <2>4, <3>2, OneKept DEF TypeOK
  <2> QED
    BY <1>5, <2>2, <2>3, <2>4 DEF FinalizeTracked
<1>6. CASE RecordOutgoing(m)
  <2>1. /\ echo[m]
        /\ echo' = [echo EXCEPT ![m] = FALSE]
        /\ UNCHANGED <<job, copy, asked>>
        /\ faults' = 0 => j.step # "read" /\ faults = 0
    BY <1>1, <1>6, FaultsGrow DEF RecordOutgoing, Overlaps, At
  <2>2. /\ row'[m].mark = "id" /\ row'[m].final = r.final
        /\ row'[m].status = IF r.status = "cancelled" /\ r.mark = "undeletable"
                            THEN "delete_requested" ELSE r.status
        /\ copy'[m] = c /\ job'[m] = j /\ asked'[m] = asked[m]
        /\ \A n \in Message \ {m} : row'[n] = row[n]
    BY <1>1, <1>6, <2>1 DEF RecordOutgoing, TypeOK, RowRecord
  <2>3. c # "none"
    BY <1>1, <2>1 DEF KeptOne, Unsent
  <2>4. Unsent(row'[m], job'[m], copy'[m], echo'[m])
    BY <2>2, <2>3 DEF Unsent
  <2>5. faults' = 0 => Undisturbed(row'[m], job'[m], copy'[m], asked'[m])
    BY <1>1, <2>1, <2>2, <2>3 DEF KeptOne, Undisturbed, HeldStatus
  <2> QED
    BY <1>1, <2>1, <2>2, <2>4, <2>5, OneKept DEF TypeOK, KeptOne
<1> QED
  BY <1>2, <1>3, <1>4, <1>5, <1>6

\* The jobs of a delivery.
LEMMA DeliveryKept ==
  ASSUME KeptInv, NEW m \in Message,
         \/ DeliverLoad(m) \/ \E a \in Answer : DeliverCall(m, a)
         \/ DeliverRead(m)
         \/ StoreWithdrawn(m) \/ StoreSent(m) \/ StoreFailed(m) \/ DeliverFails(m)
  PROVE  KeptInv'
<1> DEFINE r == row[m]
           j == job[m]
           c == copy[m]
<1>1. /\ [Next]_vars
      /\ r \in RowRecord /\ j \in JobRecord /\ r.status \in HeldStatus(j.step)
      /\ KeptOne(m)
      /\ TypeOK
      /\ faults \in Nat
  BY FaultAssumption DEF Next, JobStep, KeptInv, KeptOne, HeldInv, TypeOK
<1>2. CASE DeliverLoad(m)
  <2>1. /\ j.step = "toSend"
        /\ UNCHANGED <<copy, echo, asked, faults>>
        /\ \A n \in Message \ {m} : row'[n] = row[n] /\ job'[n] = job[n]
    BY <1>1, <1>2 DEF DeliverLoad, At, Done, TypeOK
  <2>2. CASE /\ r.status # "sending"
             /\ Done(m)
             /\ UNCHANGED row
    <3>1. job'[m].step = "none" /\ row'[m] = r
      BY <1>1, <2>2 DEF Done, NoJob, TypeOK
    <3>2. KeptOne(m)'
      BY <1>1, <2>1, <2>2, <3>1 DEF KeptOne, Unsent, Undisturbed
    <3> QED
      BY <1>1, <2>1, <3>2, OneKept
  <2>3. CASE /\ row' = [row EXCEPT ![m].status = "cancelled", ![m].mark = "none"]
             /\ Done(m)
    <3>1. /\ job'[m].step = "none" /\ row'[m].status = "cancelled" /\ row'[m].mark = "none"
      BY <1>1, <2>3 DEF Done, NoJob, TypeOK, RowRecord
    <3>2. KeptOne(m)'
      BY <1>1, <2>1, <3>1 DEF KeptOne, Unsent, Undisturbed
    <3> QED
      BY <1>1, <2>1, <3>2, OneKept
  <2>4. CASE /\ job' = [job EXCEPT ![m].step = "loaded", ![m].final = row[m].final]
             /\ UNCHANGED row
    <3>1. job'[m].step = "loaded" /\ job'[m].final = r.final /\ row'[m] = r
      BY <1>1, <2>4 DEF TypeOK, JobRecord
    <3>2. KeptOne(m)'
      BY <1>1, <2>1, <3>1 DEF KeptOne, Unsent, Undisturbed
    <3> QED
      BY <1>1, <2>1, <3>2, OneKept
  <2> QED
    BY <1>2, <2>2, <2>3, <2>4 DEF DeliverLoad
<1>3. ASSUME NEW a \in Answer, DeliverCall(m, a)
      PROVE  KeptInv'
  <2>1. /\ j.step = "loaded"
        /\ UNCHANGED <<row, asked>>
        /\ \A n \in Message \ {m} : /\ job'[n] = job[n] /\ copy'[n] = copy[n]
                                    /\ echo'[n] = echo[n]
        /\ job'[m].step = "answered" /\ job'[m].answer = a /\ job'[m].final = j.final
    BY <1>1, <1>3 DEF DeliverCall, At, TypeOK, JobRecord
  <2>2. CASE a \in {"id", "echo", "lost"}
    <3>1. /\ copy'[m] = Shown(m)
          /\ a = "lost" => faults' # 0
      <4>1. copy' = [copy EXCEPT ![m] = Shown(m)]
        BY <1>3, <2>2 DEF DeliverCall
      <4>2. a = "lost" => faults' = faults + 1
        BY <1>3 DEF DeliverCall
      <4> QED
        BY <1>1, <4>1, <4>2 DEF TypeOK
    <3>2. /\ Shown(m) # "none"
          /\ c = "none" /\ j.final => Shown(m) = "final"
      BY DEF Shown
    <3>3. Unsent(row'[m], job'[m], copy'[m], echo'[m])
      BY <3>1, <3>2 DEF Unsent
    <3>4. ASSUME faults' = 0
          PROVE  Undisturbed(row'[m], job'[m], copy'[m], asked'[m])
      <4>1. Undisturbed(r, j, c, asked[m]) /\ a \in {"id", "echo"}
        BY <1>1, <2>2, <3>1, <3>4, FaultsGrow DEF KeptOne
      <4>2. r.status \in {"sending", "cancel_requested", "finalize_requested"}
        BY <1>1, <2>1 DEF HeldStatus
      <4> QED
        BY <2>1, <3>1, <3>2, <4>1, <4>2 DEF Undisturbed
    <3> QED
      BY <1>1, <2>1, <3>3, <3>4, OneKept DEF KeptOne
  <2>3. CASE a \in {"error", "refused"}
    <3>1. copy'[m] = c /\ echo'[m] = echo[m]
      BY <1>3, <2>3 DEF DeliverCall
    <3>2. KeptOne(m)'
      BY <1>1, <2>1, <2>3, <3>1, FaultsGrow DEF KeptOne, Unsent, Undisturbed
    <3> QED
      BY <1>1, <2>1, <3>2, OneKept
  <2> QED
    BY <2>2, <2>3, AnswerAssumption
<1>4. CASE DeliverRead(m)
  <2>1. /\ j.step = "answered"
        /\ UNCHANGED <<row, copy, echo, asked, faults>>
        /\ \A n \in Message \ {m} : job'[n] = job[n]
        /\ job'[m].step = "read" /\ job'[m].answer = j.answer /\ job'[m].final = j.final
        /\ job'[m].seen = r.status
        /\ job'[m].known <=> HasId(m)
    BY <1>1, <1>4 DEF DeliverRead, At, TypeOK, JobRecord
  <2>2. KeptOne(m)'
    BY <1>1, <2>1 DEF KeptOne, Unsent, Undisturbed, HasId
  <2> QED
    BY <1>1, <2>1, <2>2, OneKept
<1>5. ASSUME At(m, "read")
      PROVE  c = "none" => ~DeliveredId(m)
  BY <1>1, <1>5 DEF KeptOne, Unsent, DeliveredId, At
<1>6. CASE StoreWithdrawn(m)
  <2>1. /\ j.step = "read"
        /\ UNCHANGED <<echo, asked, faults>>
        /\ \A n \in Message \ {m} : /\ row'[n] = row[n] /\ job'[n] = job[n]
                                    /\ copy'[n] = copy[n]
        /\ job'[m].step = "none"
    BY <1>1, <1>6 DEF StoreWithdrawn, At, Done, NoJob, TypeOK
  <2>2. CASE /\ row' = [row EXCEPT ![m].status = "cancelled", ![m].mark = "none"]
             /\ copy' = [copy EXCEPT ![m] = "gone"]
    <3>1. row'[m].status = "cancelled" /\ row'[m].mark = "none" /\ copy'[m] = "gone"
      BY <1>1, <2>2 DEF TypeOK, RowRecord
    <3>2. KeptOne(m)'
      BY <2>1, <3>1 DEF KeptOne, Unsent, Undisturbed
    <3> QED
      BY <1>1, <2>1, <3>2, OneKept
  <2>3. CASE /\ row' = [row EXCEPT ![m].status = "delete_requested",
                                   ![m].mark = IF DeliveredId(m) THEN "id" ELSE "none"]
             /\ UNCHANGED copy
    <3>1. /\ row'[m].status = "delete_requested" /\ copy'[m] = c
          /\ row'[m].mark = IF DeliveredId(m) THEN "id" ELSE "none"
      BY <1>1, <2>3 DEF TypeOK, RowRecord
    <3>2. KeptOne(m)'
      BY <1>1, <1>5, <2>1, <3>1 DEF KeptOne, Unsent, Undisturbed, At
    <3> QED
      BY <1>1, <2>1, <3>2, OneKept
  <2> QED
    BY <1>6, <2>2, <2>3 DEF StoreWithdrawn
<1>7. CASE StoreSent(m)
  <2>1. /\ j.step = "read" /\ j.seen # "cancel_requested" /\ j.answer \in {"id", "echo"}
        /\ UNCHANGED <<copy, echo, asked, faults>>
        /\ \A n \in Message \ {m} : row'[n] = row[n] /\ job'[n] = job[n]
        /\ job'[m].step = "none"
        /\ row'[m].status = IF j.seen = "finalize_requested" THEN r.status ELSE "sent"
        /\ row'[m].final = r.final
        /\ row'[m].mark = IF DeliveredId(m) THEN "id" ELSE "none"
    BY <1>1, <1>7 DEF StoreSent, At, Done, NoJob, TypeOK, RowRecord
  <2>2. Unsent(row'[m], job'[m], copy'[m], echo'[m])
    BY <1>1, <1>5, <2>1 DEF KeptOne, Unsent, At
  <2>3. ASSUME faults' = 0
        PROVE  Undisturbed(row'[m], job'[m], copy'[m], asked'[m])
    <3>1. Undisturbed(r, j, c, asked[m])
      BY <1>1, <2>1, <2>3 DEF KeptOne
    <3>2. j.seen = r.status /\ r.status \in {"sending", "finalize_requested"}
      BY <1>1, <2>1, <3>1 DEF Undisturbed, HeldStatus
    <3> QED
      BY <2>1, <3>1, <3>2 DEF Undisturbed
  <2> QED
    BY <1>1, <2>1, <2>2, <2>3, OneKept DEF KeptOne
<1>8. CASE StoreFailed(m)
  <2>1. /\ j.step = "read" /\ j.seen # "cancel_requested"
        /\ j.answer \in {"lost", "error", "refused"}
        /\ UNCHANGED <<copy, echo, asked, faults>>
        /\ \A n \in Message \ {m} : row'[n] = row[n] /\ job'[n] = job[n]
        /\ job'[m].step = "none"
        /\ row'[m].status \in {"cancelled", "failed"} /\ row'[m].mark = "none"
    BY <1>1, <1>8 DEF StoreFailed, At, Done, NoJob, TypeOK, RowRecord
  <2>2. Unsent(row'[m], job'[m], copy'[m], echo'[m])
    BY <1>1, <2>1 DEF KeptOne, Unsent
  <2>3. ASSUME faults' = 0
        PROVE  Undisturbed(row'[m], job'[m], copy'[m], asked'[m])
    <3>1. Undisturbed(r, j, c, asked[m])
      BY <1>1, <2>1, <2>3 DEF KeptOne
    <3>2. r.status \in {"sending", "finalize_requested"} /\ c = "none"
      BY <1>1, <2>1, <3>1 DEF Undisturbed, HeldStatus
    <3> QED
      BY <2>1, <3>1, <3>2 DEF Undisturbed
  <2> QED
    BY <1>1, <2>1, <2>2, <2>3, OneKept DEF KeptOne
<1>9. CASE DeliverFails(m)
  <2>1. /\ faults' # 0
        /\ UNCHANGED <<copy, echo, asked>>
        /\ \A n \in Message \ {m} : row'[n] = row[n] /\ job'[n] = job[n]
        /\ job'[m].step = "none"
        /\ row'[m].mark \in {r.mark, "none"}
    BY <1>1, <1>9 DEF DeliverFails, Done, NoJob, TypeOK, RowRecord
  <2>2. KeptOne(m)'
    BY <1>1, <2>1 DEF KeptOne, Unsent
  <2> QED
    BY <1>1, <2>1, <2>2, OneKept
<1> QED
  BY <1>2, <1>3, <1>4, <1>6, <1>7, <1>8, <1>9

\* The jobs of deletions and edits.
LEMMA EditsKept ==
  ASSUME KeptInv, NEW m \in Message,
         \/ DeleteLoad(m) \/ DeleteWithoutId(m) \/ DeleteSucceeds(m) \/ DeleteFails(m)
         \/ FinalizeSucceeds(m) \/ FinalizeFails(m)
  PROVE  KeptInv'
<1> DEFINE r == row[m]
           j == job[m]
           c == copy[m]
<1>1. /\ [Next]_vars
      /\ r \in RowRecord /\ j \in JobRecord /\ r.status \in HeldStatus(j.step)
      /\ KeptOne(m)
      /\ TypeOK
      /\ UNCHANGED <<echo, asked, faults>>
  BY DEF Next, JobStep, KeptInv, KeptOne, HeldInv, TypeOK, DeleteLoad, DeleteWithoutId,
     DeleteSucceeds, DeleteFails, FinalizeSucceeds, FinalizeFails
<1>2. CASE DeleteLoad(m)
  <2>1. /\ j.step = "toDelete"
        /\ UNCHANGED <<row, copy>>
        /\ \A n \in Message \ {m} : job'[n] = job[n]
        /\ job'[m].step = IF HasId(m) THEN "byId" ELSE "withoutId"
    BY <1>1, <1>2 DEF DeleteLoad, At, TypeOK, JobRecord
  <2>2. r.status = "deleting"
    BY <1>1, <2>1 DEF HeldStatus
  <2>3. KeptOne(m)'
    BY <1>1, <2>1, <2>2 DEF KeptOne, Unsent, Undisturbed, HasId
  <2> QED
    BY <1>1, <2>1, <2>3, OneKept
<1>3. CASE DeleteWithoutId(m)
  <2>1. /\ UNCHANGED copy
        /\ \A n \in Message \ {m} : row'[n] = row[n] /\ job'[n] = job[n]
        /\ job'[m].step = "none"
        /\ \/ row'[m].status = "delete_requested" /\ row'[m].mark = r.mark
           \/ row'[m].status = "cancelled" /\ row'[m].mark = "undeletable"
    BY <1>1, <1>3 DEF DeleteWithoutId, Done, NoJob, TypeOK, RowRecord
  <2>2. KeptOne(m)'
    BY <1>1, <2>1 DEF KeptOne, Unsent, Undisturbed
  <2> QED
    BY <1>1, <2>1, <2>2, OneKept
<1>4. CASE DeleteSucceeds(m)
  <2>1. /\ copy'[m] = "gone"
        /\ \A n \in Message \ {m} : /\ row'[n] = row[n] /\ job'[n] = job[n]
                                    /\ copy'[n] = copy[n]
        /\ job'[m].step = "none"
        /\ row'[m].status = "cancelled"
    BY <1>1, <1>4 DEF DeleteSucceeds, Done, NoJob, TypeOK, RowRecord
  <2>2. KeptOne(m)'
    BY <2>1 DEF KeptOne, Unsent, Undisturbed
  <2> QED
    BY <1>1, <2>1, <2>2, OneKept
<1>5. CASE DeleteFails(m)
  <2>1. /\ UNCHANGED copy
        /\ \A n \in Message \ {m} : row'[n] = row[n] /\ job'[n] = job[n]
        /\ job'[m].step = "none"
        /\ row'[m].status = "delete_requested" /\ row'[m].mark = r.mark
    BY <1>1, <1>5 DEF DeleteFails, Done, NoJob, TypeOK, RowRecord
  <2>2. KeptOne(m)'
    BY <1>1, <2>1 DEF KeptOne, Unsent, Undisturbed
  <2> QED
    BY <1>1, <2>1, <2>2, OneKept
<1>6. (r.status = "finalizing" /\ asked[m] # "gone") \/ j.step # "toFinalize" \/ faults # 0
  BY <1>1 DEF HeldStatus, KeptOne, Undisturbed
<1>7. CASE FinalizeSucceeds(m)
  <2>1. /\ j.step = "toFinalize"
        /\ copy'[m] = "final"
        /\ \A n \in Message \ {m} : /\ row'[n] = row[n] /\ job'[n] = job[n]
                                    /\ copy'[n] = copy[n]
        /\ job'[m].step = "none"
        /\ row'[m].status = "sent"
    BY <1>1, <1>7 DEF FinalizeSucceeds, At, Done, NoJob, TypeOK, RowRecord
  <2>2. KeptOne(m)'
    BY <1>1, <1>6, <2>1 DEF KeptOne, Unsent, Undisturbed
  <2> QED
    BY <1>1, <2>1, <2>2, OneKept
<1>8. CASE FinalizeFails(m)
  <2>1. /\ j.step = "toFinalize"
        /\ UNCHANGED copy
        /\ \A n \in Message \ {m} : row'[n] = row[n] /\ job'[n] = job[n]
        /\ job'[m].step = "none"
        /\ row'[m].status = "finalize_requested" /\ row'[m].mark = r.mark
    BY <1>1, <1>8 DEF FinalizeFails, At, Done, NoJob, TypeOK, RowRecord
  <2>2. KeptOne(m)'
    BY <1>1, <1>6, <2>1 DEF KeptOne, Unsent, Undisturbed
  <2> QED
    BY <1>1, <2>1, <2>2, OneKept
<1> QED
  BY <1>2, <1>3, <1>4, <1>5, <1>7, <1>8

LEMMA NextKept ==
  ASSUME KeptInv, [Next]_vars
  PROVE  KeptInv'
<1>1. CASE HandlerStep
  BY <1>1, HandlersKept DEF HandlerStep
<1>2. ASSUME NEW m \in Message, JobStep(m)
      PROVE  KeptInv'
  BY <1>2, DeliveryKept, EditsKept DEF JobStep
<1>3. CASE UNCHANGED vars
  BY <1>3 DEF vars, KeptInv, HeldInv, TypeOK
<1> QED
  BY <1>1, <1>2, <1>3, ClaimKept, RestartKept DEF Next

\* The invariant holds.
THEOREM KeptHolds == Spec => []KeptInv
  BY InitKept, NextKept, PTL DEF Spec

\* For any messages and any order of handlers, jobs and events: until something
\* fails, a message whose owner was told that it is taken care of is unseen, or
\* still in hand, or known to be undeletable (cancel_or_delete).
THEOREM WithdrawalIsKeptHolds == Spec => []WithdrawalIsKept
<1>1. KeptInv => WithdrawalIsKept
  BY DEF KeptInv, Undisturbed, WithdrawalIsKept, Visible
<1> QED
  BY <1>1, KeptHolds, PTL

\* Until something fails, a message recorded as sent with its final text has no
\* buttons (finalize_tracked_message and _deliver_one).
THEOREM FinalHasNoButtonsHolds == Spec => []FinalHasNoButtons
<1>1. KeptInv => FinalHasNoButtons
  BY DEF KeptInv, Undisturbed, FinalHasNoButtons
<1> QED
  BY <1>1, KeptHolds, PTL

\* No step makes another card of a row.
LEMMA CardsStay ==
  ASSUME TypeOK, [Next]_vars, NEW m \in Message
  PROVE  row'[m].card = row[m].card
<1>1. row[m] \in RowRecord
  BY DEF TypeOK
<1>2. CASE HandlerStep
  <2>1. Withdrawn(row[m]).card = row[m].card
    BY <1>1 DEF Withdrawn, RowRecord
  <2> QED
    BY <1>1, <1>2, <2>1 DEF HandlerStep, Enqueue, RequestEnds, CancelOrDelete,
       FinalizeTracked, RecordOutgoing, TypeOK, RowRecord
<1>3. CASE ClaimStep
  BY <1>1, <1>3 DEF ClaimStep, ClaimBatch, ClaimDeleteBatch, ClaimFinalizeBatch, Claim,
     RowRecord
<1>4. ASSUME NEW n \in Message, JobStep(n)
      PROVE  row'[m].card = row[m].card
  <2>1. CASE DeliverLoad(n)
    <3>1. \/ UNCHANGED row
          \/ row' = [row EXCEPT ![n].status = "cancelled", ![n].mark = "none"]
      BY <2>1 DEF DeliverLoad
    <3> QED
      BY <1>1, <3>1 DEF TypeOK, RowRecord
  <2>2. CASE (\E a \in Answer : DeliverCall(n, a)) \/ DeliverRead(n)
    BY <2>2 DEF DeliverCall, DeliverRead
  <2>3. CASE StoreWithdrawn(n)
    BY <1>1, <2>3 DEF StoreWithdrawn, TypeOK, RowRecord
  <2>4. CASE StoreSent(n)
    BY <1>1, <2>4 DEF StoreSent, TypeOK, RowRecord
  <2>5. CASE StoreFailed(n)
    BY <1>1, <2>5 DEF StoreFailed, TypeOK, RowRecord
  <2>6. CASE DeliverFails(n)
    BY <1>1, <2>6 DEF DeliverFails, TypeOK, RowRecord
  <2>7. CASE \/ DeleteLoad(n) \/ DeleteWithoutId(n) \/ DeleteSucceeds(n)
             \/ DeleteFails(n) \/ FinalizeSucceeds(n) \/ FinalizeFails(n)
    BY <1>1, <2>7 DEF DeleteLoad, DeleteWithoutId, DeleteSucceeds, DeleteFails,
       FinalizeSucceeds, FinalizeFails, TypeOK, RowRecord
  <2> QED
    BY <1>4, <2>1, <2>2, <2>3, <2>4, <2>5, <2>6, <2>7 DEF JobStep
<1>5. CASE Restart
  BY <1>1, <1>5 DEF Restart, Recovered, RowRecord
<1> QED
  BY <1>2, <1>3, <1>4, <1>5 DEF Next, vars

\* The buttons of a request that is over: they are not shown, and no delivery that
\* VK may still show holds them, for one that has not come to its call is
\* cancelled when the card is recognised, and a card of the list that is no longer
\* recognised has lost its buttons.
Withheld(m) ==
  /\ over[m] /\ row[m].card # "unlisted"
  /\ copy[m] # "card"
  /\ copy[m] = "none" /\ At(m, "loaded") => job[m].final

LEMMA WithheldStays ==
  ASSUME TypeOK, [Next]_vars, NEW m \in Message, Withheld(m)
  PROVE  Withheld(m)'
<1>1. /\ over[m] /\ copy[m] # "card"
      /\ copy[m] = "none" /\ job[m].step = "loaded" => job[m].final
      /\ row[m] \in RowRecord /\ row[m].card # "unlisted"
      /\ job[m] \in JobRecord
      /\ copy[m] \in {"none", "card", "final", "gone"}
  BY DEF Withheld, At, TypeOK
<1>2. row'[m].card # "unlisted"
  BY <1>1, CardsStay
<1>3. SUFFICES /\ over'[m]
               /\ copy'[m] # "card"
               /\ copy'[m] = "none" /\ job'[m].step = "loaded" => job'[m].final
  BY <1>2 DEF Withheld, At
<1>4. CASE HandlerStep
  <2>1. over'[m] /\ job' = job
    BY <1>1, <1>4 DEF HandlerStep, Enqueue, RequestEnds, CancelOrDelete, FinalizeTracked,
       RecordOutgoing, TypeOK
  <2>2. copy'[m] \in {copy[m], "final"}
    BY <1>1, <1>4 DEF HandlerStep, Enqueue, RequestEnds, CancelOrDelete, FinalizeTracked,
       RecordOutgoing, TypeOK
  <2> QED
    BY <1>1, <2>1, <2>2
<1>5. CASE ClaimStep
  <2>1. UNCHANGED <<over, copy>>
    BY <1>5 DEF ClaimStep, ClaimBatch, ClaimDeleteBatch, ClaimFinalizeBatch, Claim
  <2>2. job'[m] = job[m] \/ job'[m].step # "loaded"
    BY <1>1, <1>5 DEF ClaimStep, ClaimBatch, ClaimDeleteBatch, ClaimFinalizeBatch, Claim,
       NoJob, TypeOK
  <2> QED
    BY <1>1, <2>1, <2>2
<1>6. ASSUME NEW n \in Message, JobStep(n), n # m
      PROVE  over'[m] = over[m] /\ job'[m] = job[m] /\ copy'[m] = copy[m]
  <2>1. CASE \/ DeliverLoad(n) \/ \E a \in Answer : DeliverCall(n, a)
             \/ DeliverRead(n) \/ DeliverFails(n)
    BY <1>1, <1>6, <2>1 DEF DeliverLoad, DeliverCall, DeliverRead, DeliverFails, Done,
       TypeOK
  <2>2. CASE StoreWithdrawn(n) \/ StoreSent(n) \/ StoreFailed(n)
    BY <1>1, <1>6, <2>2 DEF StoreWithdrawn, StoreSent, StoreFailed, Done, TypeOK
  <2>3. CASE \/ DeleteLoad(n) \/ DeleteWithoutId(n) \/ DeleteSucceeds(n)
             \/ DeleteFails(n) \/ FinalizeSucceeds(n) \/ FinalizeFails(n)
    BY <1>1, <1>6, <2>3 DEF DeleteLoad, DeleteWithoutId, DeleteSucceeds, DeleteFails,
       FinalizeSucceeds, FinalizeFails, Done, TypeOK
  <2> QED
    BY <1>6, <2>1, <2>2, <2>3 DEF JobStep
<1>7. CASE JobStep(m)
  <2>1. CASE DeliverLoad(m)
    <3>1. UNCHANGED <<over, copy>>
      BY <2>1 DEF DeliverLoad
    <3>2. CASE Done(m)
      BY <1>1, <3>1, <3>2 DEF Done, NoJob, TypeOK
    <3>3. CASE /\ ~Suppressed(m)
               /\ job' = [job EXCEPT ![m].step = "loaded", ![m].final = row[m].final]
      <4>1. row[m].final
        BY <1>1, <3>3 DEF Suppressed, Recognised, RowRecord, Card
      <4> QED
        BY <1>1, <3>1, <3>3, <4>1 DEF TypeOK, JobRecord
    <3> QED
      BY <2>1, <3>2, <3>3 DEF DeliverLoad
  <2>2. ASSUME NEW a \in Answer, DeliverCall(m, a)
        PROVE  over'[m] /\ copy'[m] # "card" /\ job'[m].step # "loaded"
    <3>1. over'[m] /\ job'[m].step # "loaded"
      BY <1>1, <2>2 DEF DeliverCall, TypeOK, JobRecord
    <3>2. Shown(m) # "card"
      BY <1>1, <2>2 DEF DeliverCall, Shown, At
    <3> QED
      BY <1>1, <2>2, <3>1, <3>2 DEF DeliverCall, TypeOK
  <2>3. CASE DeliverRead(m) \/ DeleteLoad(m)
    BY <1>1, <2>3 DEF DeliverRead, DeleteLoad, TypeOK, JobRecord
  <2>4. CASE \/ StoreWithdrawn(m) \/ StoreSent(m) \/ StoreFailed(m) \/ DeliverFails(m)
             \/ DeleteWithoutId(m) \/ DeleteSucceeds(m) \/ DeleteFails(m)
             \/ FinalizeSucceeds(m) \/ FinalizeFails(m)
    <3>1. UNCHANGED over /\ Done(m)
      BY <2>4 DEF StoreWithdrawn, StoreSent, StoreFailed, DeliverFails, DeleteWithoutId,
         DeleteSucceeds, DeleteFails, FinalizeSucceeds, FinalizeFails
    <3>2. copy'[m] \in {copy[m], "gone", "final"}
      BY <1>1, <2>4 DEF StoreWithdrawn, StoreSent, StoreFailed, DeliverFails,
         DeleteWithoutId, DeleteSucceeds, DeleteFails, FinalizeSucceeds, FinalizeFails,
         TypeOK
    <3> QED
      BY <1>1, <3>1, <3>2 DEF Done, NoJob, TypeOK
  <2> QED
    BY <1>7, <2>1, <2>2, <2>3, <2>4 DEF JobStep
<1>8. CASE Restart \/ UNCHANGED vars
  BY <1>1, <1>8 DEF Restart, vars, NoJob
<1> QED
  BY <1>1, <1>4, <1>5, <1>6, <1>7, <1>8 DEF Next

\* Once a request is over, an offer of it or a card whose command the outbox
\* recognises is never shown with its buttons unless it was under way by then, over
\* any final texts, retries, faults and restarts (_cancel_if_order_is_stale).
THEOREM NoStaleCardHolds == Spec => NoStaleCard
<1>1. ASSUME NEW m \in Message
      PROVE  Spec => (row[m].card # "unlisted" =>
               [](over[m] /\ copy[m] = "none" /\ At(m, "none") => [](copy[m] # "card")))
  <2>1. TypeOK /\ row[m].card # "unlisted" /\ [Next]_vars => (row[m].card # "unlisted")'
    BY CardsStay
  <2>2. TypeOK /\ Withheld(m) /\ [Next]_vars => Withheld(m)'
    BY WithheldStays
  <2>3. row[m].card # "unlisted" /\ over[m] /\ copy[m] = "none" /\ At(m, "none")
          => Withheld(m)
    BY DEF Withheld, At
  <2>4. Withheld(m) => copy[m] # "card"
    BY DEF Withheld
  <2> QED
    BY <2>1, <2>2, <2>3, <2>4, OutboxTypes, PTL DEF Spec
<1> QED
  BY <1>1 DEF NoStaleCard
=============================================================================
