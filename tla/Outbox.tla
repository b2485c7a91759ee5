------------------------------- MODULE Outbox -------------------------------
(***************************************************************************)
(* The outbox of VK messages (bot/outbox_service.py): rows that handlers   *)
(* write in their own transactions, and one worker that sends them, edits  *)
(* them when their request is taken, and deletes them when it is withdrawn.*)
(*                                                                         *)
(* A job of the worker is not one transaction.  A delivery reads its row,  *)
(* calls VK with no transaction open, reads the row again without locking  *)
(* it, and writes it: handlers, other rows' jobs and VK's own events come  *)
(* in between, and the process may die there.                              *)
(*                                                                         *)
(* Every message of the model is a card with buttons about one request: an *)
(* offer («🔔 Новая заявка #»), another card with a command that the outbox *)
(* knows to be about a request, or a card that it does not recognise, such *)
(* as the price of a delivery or the driver's choice of his arrival time.  *)
(* The order of priorities, the delays between attempts and the age of a   *)
(* row are left out: a row that may be tried is tried at any time.         *)
(***************************************************************************)
EXTENDS Naturals

CONSTANTS
  Message,     \* rows of outbox_messages
  Answer,      \* how VK may answer messages.send
  MaxFaults    \* a bound on faults: see below

\* "id": sent, with a usable id.  "echo": sent, but the id (cmid) only comes
\* with the event VK emits for it.  "lost": sent, the answer got lost.
\* "error": not sent, to be tried again.  "refused": never to be sent.
ASSUME AnswerAssumption == Answer \subseteq {"id", "echo", "lost", "error", "refused"}
ASSUME FaultAssumption  == MaxFaults \in Nat

VARIABLES
  row,         \* the table
  job,         \* what the worker's threads hold in memory
  copy,        \* what the reader of the chat sees of a message
  echo,        \* VK's event about it is on its way
  over,        \* its request is completed or cancelled
  asked,       \* what its owner was promised when he dropped its id
  faults       \* deaths of the process, failures of the database, answers of
               \* VK that got lost, and handlers whose write overlapped the
               \* end of a delivery, so far

vars == <<row, job, copy, echo, over, asked, faults>>

RowStatus == {"new", "pending", "sending", "failed", "sent", "cancelled",
              "cancel_requested", "delete_requested", "deleting",
              "finalize_requested", "finalizing"}

\* last_error: a usable id, "undeletable_missing_vk_id", or anything else.
Mark == {"none", "id", "undeletable"}

\* What the text and the keyboard of a row say to _order_action_ids.
Card == {"offer", "listed", "unlisted"}

RowRecord == [status : RowStatus,
              card   : Card,
              final  : BOOLEAN,       \* the final text, without buttons
              mark   : Mark]

JobRecord == [step   : {"none", "toSend", "loaded", "answered", "read",
                        "toDelete", "byId", "withoutId", "toFinalize"},
              final  : BOOLEAN,       \* the text that was loaded
              answer : Answer \union {"none"},
              seen   : RowStatus,     \* the status that was read again
              known  : BOOLEAN]       \* ... and whether an id was stored

NoJob == [step |-> "none", final |-> FALSE, answer |-> "none", seen |-> "new",
          known |-> FALSE]

Visible(m) == copy[m] \in {"card", "final"}

TypeOK ==
  /\ row \in [Message -> RowRecord]
  /\ job \in [Message -> JobRecord]
  /\ copy \in [Message -> {"none", "card", "final", "gone"}]
  /\ echo \in [Message -> BOOLEAN]
  /\ over \in [Message -> BOOLEAN]
  /\ asked \in [Message -> {"nothing", "gone", "final"}]
  /\ faults \in 0 .. MaxFaults

Init ==
  /\ row \in [Message -> [status : {"new"}, card : Card, final : {FALSE}, mark : {"none"}]]
  /\ job = [m \in Message |-> NoJob]
  /\ copy = [m \in Message |-> "none"]
  /\ echo = [m \in Message |-> FALSE]
  /\ over = [m \in Message |-> FALSE]
  /\ asked = [m \in Message |-> "nothing"]
  /\ faults = 0

At(m, step) == job[m].step = step

\* A handler writes the row.  Between the second read of a delivery and its
\* write nothing keeps him from it (READ COMMITTED, no row lock), and the
\* delivery overwrites what he wrote: a fault.
Overlaps(m) ==
  IF At(m, "read") THEN faults < MaxFaults /\ faults' = faults + 1
                   ELSE UNCHANGED faults

Done(m) == job' = [job EXCEPT ![m] = NoJob]

HasId(m) == row[m].mark = "id"      \* has_usable_vk_id

\* An offer whose buttons are not on the list is not recognised.
BrokenRecognised(m) == row[m].card = "listed" /\ ~row[m].final

\* _order_action_ids: an offer is recognised by its text, the cards of the list
\* by the commands of their buttons, which a final text no longer has.
Recognised(m) ==
  \/ row[m].card = "offer"
  \/ row[m].card = "listed" /\ ~row[m].final

\* _cancel_if_order_is_stale
Suppressed(m) == over[m] /\ Recognised(m)

----------------------------------------------------------------------------
(* Handlers, in the bot and on the site.                                    *)

\* send_tracked_message
Enqueue(m) ==
  /\ row[m].status = "new"
  /\ row' = [row EXCEPT ![m].status = "pending"]
  /\ UNCHANGED <<job, copy, echo, over, asked, faults>>

\* The request is over; whoever ends it asks for its cards separately.
RequestEnds(m) ==
  /\ ~over[m]
  /\ over' = [over EXCEPT ![m] = TRUE]
  /\ UNCHANGED <<row, job, copy, echo, asked, faults>>

\* A delivery under way is not told.
BrokenWithdrawn(r) ==
  CASE r.status \in {"pending", "failed", "sending", "cancel_requested"}
                                                -> [r EXCEPT !.status = "cancelled"]
    [] r.status \in {"deleting", "delete_requested"} -> r
    [] r.status \in {"sent", "cancelled"} /\ r.mark = "id" ->
         [r EXCEPT !.status = "delete_requested"]
    [] OTHER -> [r EXCEPT !.status = "cancelled", !.mark = "undeletable"]

\* cancel_or_delete, for the statuses in which it returns True
Withdrawn(r) ==
  CASE r.status \in {"pending", "failed"}           -> [r EXCEPT !.status = "cancelled"]
    [] r.status \in {"sending", "cancel_requested"} -> [r EXCEPT !.status = "cancel_requested"]
    [] r.status \in {"deleting", "delete_requested"} -> r
    [] r.status \in {"sent", "cancelled"} /\ r.mark = "id" ->
         [r EXCEPT !.status = "delete_requested"]
    [] OTHER -> [r EXCEPT !.status = "cancelled", !.mark = "undeletable"]

CancelOrDelete(m) ==
  /\ Overlaps(m)
  /\ asked[m] # "gone"
  /\ row[m].status \notin {"new", "finalize_requested", "finalizing"}
  /\ row' = [row EXCEPT ![m] = Withdrawn(@)]
  /\ asked' = [asked EXCEPT ![m] = "gone"]
  /\ UNCHANGED <<job, copy, echo, over>>

\* finalize_tracked_message returns True: the text is final before it is
\* sent, or as soon as the id of the message is known, or at once.
FinalizeTracked(m) ==
  /\ Overlaps(m)
  /\ asked[m] = "nothing"
  /\ \/ /\ row[m].status \in {"pending", "failed"}
        /\ row' = [row EXCEPT ![m].final = TRUE, ![m].status = "pending"]
        /\ UNCHANGED copy
     \/ /\ row[m].status \in {"sending", "sent"}
        /\ ~HasId(m)
        /\ row' = [row EXCEPT ![m].final = TRUE, ![m].status = "finalize_requested"]
        /\ UNCHANGED copy
     \/ /\ row[m].status = "sent"
        /\ HasId(m)
        /\ Visible(m)
        /\ row' = [row EXCEPT ![m].final = TRUE]
        /\ copy' = [copy EXCEPT ![m] = "final"]
  /\ asked' = [asked EXCEPT ![m] = "final"]
  /\ UNCHANGED <<job, echo, over>>

\* record_outgoing_message_event, for an event that carries the random_id:
\* a message that was given up as undeletable can be deleted after all.
RecordOutgoing(m) ==
  /\ echo[m]
  /\ Overlaps(m)
  /\ echo' = [echo EXCEPT ![m] = FALSE]
  /\ row' = [row EXCEPT ![m].mark = "id",
                        ![m].status = IF @ = "cancelled" /\ row[m].mark = "undeletable"
                                      THEN "delete_requested" ELSE @]
  /\ UNCHANGED <<job, copy, over, asked>>

----------------------------------------------------------------------------
(* The worker: one batch at a time, whose rows are handled by a pool.       *)

Quiet == \A m \in Message : At(m, "none")

\* The batch S of rows in these statuses goes over to the pool.
Claim(S, from, status, step) ==
  /\ Quiet
  /\ S # {}
  /\ \A m \in S : row[m].status \in from
  /\ row' = [m \in Message |-> IF m \in S THEN [row[m] EXCEPT !.status = status]
                                          ELSE row[m]]
  /\ job' = [m \in Message |-> IF m \in S THEN [NoJob EXCEPT !.step = step] ELSE job[m]]
  /\ UNCHANGED <<copy, echo, over, asked, faults>>

\* A row whose sending failed is not looked at again.
BrokenClaimBatch(S) == Claim(S, {"pending", "sending"}, "sending", "toSend")

\* A row that an earlier failure left behind as "sending" is taken again.
ClaimBatch(S)         == Claim(S, {"pending", "failed", "sending"}, "sending", "toSend")
ClaimDeleteBatch(S)   == Claim(S, {"delete_requested"}, "deleting", "toDelete")
ClaimFinalizeBatch(S) == Claim(S, {"finalize_requested"}, "finalizing", "toFinalize")

----------------------------------------------------------------------------
(* _deliver_one                                                             *)

\* First transaction.
DeliverLoad(m) ==
  /\ At(m, "toSend")
  /\ \/ /\ row[m].status # "sending"
        /\ Done(m)
        /\ UNCHANGED row
     \/ /\ row[m].status = "sending"
        /\ Suppressed(m)
        /\ row' = [row EXCEPT ![m].status = "cancelled", ![m].mark = "none"]
        /\ Done(m)
     \/ /\ row[m].status = "sending"
        /\ ~Suppressed(m)
        /\ job' = [job EXCEPT ![m].step = "loaded", ![m].final = row[m].final]
        /\ UNCHANGED row
  /\ UNCHANGED <<copy, echo, over, asked, faults>>

\* VK shows a message with the same random_id only once.
Shown(m) == IF copy[m] # "none" THEN copy[m]
            ELSE IF job[m].final THEN "final" ELSE "card"

\* _send_now_result, with its own retries
DeliverCall(m, a) ==
  /\ At(m, "loaded")
  /\ job' = [job EXCEPT ![m].step = "answered", ![m].answer = a]
  /\ IF a \in {"id", "echo", "lost"}
     THEN /\ copy' = [copy EXCEPT ![m] = Shown(m)]
          /\ echo' = [echo EXCEPT ![m] = @ \/ copy[m] = "none"]
     ELSE UNCHANGED <<copy, echo>>
  /\ IF a = "lost" THEN faults < MaxFaults /\ faults' = faults + 1
                   ELSE UNCHANGED faults
  /\ UNCHANGED <<row, over, asked>>

\* Second transaction: the row is read ...
DeliverRead(m) ==
  /\ At(m, "answered")
  /\ job' = [job EXCEPT ![m].step = "read", ![m].seen = row[m].status,
                        ![m].known = HasId(m)]
  /\ UNCHANGED <<row, copy, echo, over, asked, faults>>

DeliveredId(m) == job[m].answer = "id" \/ job[m].known

\* ... and written: it was withdrawn meanwhile and is deleted at once, or it
\* is left to the deletions.
StoreWithdrawn(m) ==
  /\ At(m, "read")
  /\ job[m].seen = "cancel_requested"
  /\ \/ /\ DeliveredId(m)
        /\ row' = [row EXCEPT ![m].status = "cancelled", ![m].mark = "none"]
        /\ copy' = [copy EXCEPT ![m] = "gone"]
     \/ /\ row' = [row EXCEPT ![m].status = "delete_requested",
                              ![m].mark = IF DeliveredId(m) THEN "id" ELSE "none"]
        /\ UNCHANGED copy
  /\ Done(m)
  /\ UNCHANGED <<echo, over, asked, faults>>

\* A request for the final text that came during the call is forgotten.
BrokenStoreSent(m) ==
  /\ At(m, "read")
  /\ job[m].seen # "cancel_requested"
  /\ job[m].answer \in {"id", "echo"}
  /\ row' = [row EXCEPT ![m].status = "sent",
                        ![m].mark = IF DeliveredId(m) THEN "id" ELSE "none"]
  /\ Done(m)
  /\ UNCHANGED <<copy, echo, over, asked, faults>>

\* The column is not written when the final text was asked for meanwhile.
StoreSent(m) ==
  /\ At(m, "read")
  /\ job[m].seen # "cancel_requested"
  /\ job[m].answer \in {"id", "echo"}
  /\ row' = [row EXCEPT ![m].status = IF job[m].seen = "finalize_requested" THEN @ ELSE "sent",
                        ![m].mark = IF DeliveredId(m) THEN "id" ELSE "none"]
  /\ Done(m)
  /\ UNCHANGED <<copy, echo, over, asked, faults>>

StoreFailed(m) ==
  /\ At(m, "read")
  /\ job[m].seen # "cancel_requested"
  /\ job[m].answer \in {"lost", "error", "refused"}
  /\ row' = [row EXCEPT ![m].mark = "none",
                        ![m].status = IF job[m].answer = "refused" THEN "cancelled" ELSE "failed"]
  /\ Done(m)
  /\ UNCHANGED <<copy, echo, over, asked, faults>>

\* An exception in the second transaction: the row is released, unless the
\* database fails again.
DeliverFails(m) ==
  /\ job[m].step \in {"answered", "read"}
  /\ faults < MaxFaults
  /\ faults' = faults + 1
  /\ \/ UNCHANGED row
     \/ /\ row[m].status = "sending"
        /\ row' = [row EXCEPT ![m].status = "failed", ![m].mark = "none"]
  /\ Done(m)
  /\ UNCHANGED <<copy, echo, over, asked>>

----------------------------------------------------------------------------
(* _delete_one: each of its steps is a transaction.                         *)

DeleteLoad(m) ==
  /\ At(m, "toDelete")
  /\ job' = [job EXCEPT ![m].step = IF HasId(m) THEN "byId" ELSE "withoutId"]
  /\ UNCHANGED <<row, copy, echo, over, asked, faults>>

\* A young message is tried again, an old one given up.
DeleteWithoutId(m) ==
  /\ At(m, "withoutId")
  /\ \/ row' = [row EXCEPT ![m].status = "delete_requested"]
     \/ row' = [row EXCEPT ![m].status = "cancelled", ![m].mark = "undeletable"]
  /\ Done(m)
  /\ UNCHANGED <<copy, echo, over, asked, faults>>

\* VK deletes it for everyone, ...
DeleteSucceeds(m) ==
  /\ At(m, "byId")
  /\ copy' = [copy EXCEPT ![m] = "gone"]
  /\ row' = [row EXCEPT ![m].status = "cancelled", ![m].mark = "none"]
  /\ Done(m)
  /\ UNCHANGED <<echo, over, asked, faults>>

\* A deletion that fails is not tried again.
BrokenDeleteFails(m) ==
  /\ At(m, "byId")
  /\ row' = [row EXCEPT ![m].status = "cancelled"]
  /\ Done(m)
  /\ UNCHANGED <<copy, echo, over, asked, faults>>

\* ... or it does not.
DeleteFails(m) ==
  /\ At(m, "byId")
  /\ row' = [row EXCEPT ![m].status = "delete_requested"]
  /\ Done(m)
  /\ UNCHANGED <<copy, echo, over, asked, faults>>

----------------------------------------------------------------------------
(* _finalize_one                                                            *)

FinalizeSucceeds(m) ==
  /\ At(m, "toFinalize")
  /\ HasId(m)
  /\ copy' = [copy EXCEPT ![m] = "final"]
  /\ row' = [row EXCEPT ![m].status = "sent"]
  /\ Done(m)
  /\ UNCHANGED <<echo, over, asked, faults>>

\* The id is not known yet, or VK does not edit the message.
FinalizeFails(m) ==
  /\ At(m, "toFinalize")
  /\ row' = [row EXCEPT ![m].status = "finalize_requested"]
  /\ Done(m)
  /\ UNCHANGED <<copy, echo, over, asked, faults>>

----------------------------------------------------------------------------

\* A "finalizing" row is left to a worker that no longer exists.
BrokenRecovered(r) ==
  CASE r.status = "sending"          -> [r EXCEPT !.status = "pending"]
    [] r.status = "cancel_requested" ->
         [r EXCEPT !.status = IF r.mark = "id" THEN "delete_requested" ELSE "cancelled"]
    [] OTHER                         -> r

\* start_worker: rows that the last process held are released.  "deleting"
\* is not among them.
Recovered(r) ==
  CASE r.status = "sending"          -> [r EXCEPT !.status = "pending"]
    [] r.status = "cancel_requested" ->
         [r EXCEPT !.status = IF r.mark = "id" THEN "delete_requested" ELSE "cancelled"]
    [] r.status = "finalizing"       -> [r EXCEPT !.status = "finalize_requested"]
    [] OTHER                         -> r

Restart ==
  /\ faults < MaxFaults
  /\ faults' = faults + 1
  /\ job' = [m \in Message |-> NoJob]
  /\ row' = [m \in Message |-> Recovered(row[m])]
  /\ UNCHANGED <<copy, echo, over, asked>>

HandlerStep ==
  \E m \in Message :
    \/ Enqueue(m) \/ RequestEnds(m) \/ CancelOrDelete(m) \/ FinalizeTracked(m)
    \/ RecordOutgoing(m)

JobStep(m) ==
  \/ DeliverLoad(m) \/ \E a \in Answer : DeliverCall(m, a)
  \/ DeliverRead(m)
  \/ StoreWithdrawn(m) \/ StoreSent(m) \/ StoreFailed(m) \/ DeliverFails(m)
  \/ DeleteLoad(m) \/ DeleteWithoutId(m) \/ DeleteSucceeds(m) \/ DeleteFails(m)
  \/ FinalizeSucceeds(m) \/ FinalizeFails(m)

ClaimStep ==
  \E S \in SUBSET Message :
    ClaimBatch(S) \/ ClaimDeleteBatch(S) \/ ClaimFinalizeBatch(S)

Next ==
  \/ HandlerStep
  \/ ClaimStep
  \/ \E m \in Message : JobStep(m)
  \/ Restart

Spec == Init /\ [][Next]_vars

\* The worker goes on and comes back to every row whose time has come, and VK
\* does what it is asked if it is asked again and again.  Nothing is assumed of
\* handlers and events.
Fairness ==
  \A m \in Message :
    /\ WF_vars(JobStep(m))
    /\ SF_vars(\E S \in SUBSET Message : m \in S /\ ClaimBatch(S))
    /\ SF_vars(\E S \in SUBSET Message : m \in S /\ ClaimDeleteBatch(S))
    /\ SF_vars(\E S \in SUBSET Message : m \in S /\ ClaimFinalizeBatch(S))
    /\ SF_vars(\E a \in Answer \ {"error", "lost"} : DeliverCall(m, a))
    /\ SF_vars(DeleteSucceeds(m))
    /\ SF_vars(FinalizeSucceeds(m))

FairSpec == Spec /\ Fairness

----------------------------------------------------------------------------
(* Properties.                                                              *)

\* While VK is being called for a row, its status is one that leaves the row
\* to the delivery: no other job claims it, no edit or deletion overtakes it.
SendingIsExclusive ==
  \A m \in Message :
    job[m].step \in {"loaded", "answered", "read"} =>
      row[m].status \in {"sending", "cancel_requested", "finalize_requested"}

\* «Never deliver action cards for an order already cancelled»: once a request is
\* over, an offer of it, or a card whose command the outbox recognises, is never
\* shown with its buttons unless it was under way by then, however often it
\* failed before, whatever its owner writes into it, and whatever restarts.
NoStaleCard ==
  \A m \in Message :
    row[m].card # "unlisted" =>
      [](over[m] /\ copy[m] = "none" /\ At(m, "none") => [](copy[m] # "card"))

\* «Persistently cancel/delete a message»: as long as nothing fails, a
\* message whose owner was told that it is taken care of is unseen, or still
\* to be deleted, or known to be undeletable.
WithdrawalIsKept ==
  faults = 0 =>
    \A m \in Message :
      asked[m] = "gone" /\ Visible(m) =>
        \/ row[m].status \in {"cancel_requested", "delete_requested", "deleting"}
        \/ row[m].mark = "undeletable"

\* «Append assignment and remove action buttons»: as long as nothing
\* fails, a message recorded as sent with its final text has no buttons.
FinalHasNoButtons ==
  faults = 0 =>
    \A m \in Message :
      row[m].status = "sent" /\ row[m].final => copy[m] \in {"final", "gone"}

\* What a handler was told is taken care of is done: a message that can be
\* deleted is deleted, unless something fails first, and one that can be edited
\* loses its buttons once its delivery has ended, also over a restart.
WhatIsAskedIsDone ==
  \A m \in Message :
    /\ row[m].status = "delete_requested" /\ HasId(m)
         ~> copy[m] = "gone" \/ faults > 0
    /\ row[m].status = "finalize_requested" /\ HasId(m) /\ At(m, "none")
         ~> copy[m] \in {"final", "gone"}

\* «Transactional, retrying delivery»: a message that is queued is shown in the
\* end, also over a restart, unless it is withdrawn, cancelled, or somebody asks
\* for its final text before it is sent.
UnclaimedMessagesArrive ==
  \A m \in Message :
    row[m].status = "pending" ~>
      copy[m] # "none" \/ row[m].status = "cancelled" \/ asked[m] # "nothing"
============================================================================
