--------------------------- MODULE ConfirmedDelivery --------------------------
(***************************************************************************)
(* The per-message send ledger of Bale PV and Eitaa PV                     *)
(* (application/messaging/confirmed_outbound_delivery.py) together with    *)
(* the branches of ChatwootBridgeService.handle_chatwoot_webhook that      *)
(* drive it and the outcome its durable delivery job is left in.           *)
(*                                                                         *)
(* One Chatwoot message with NumParts parts is followed from its webhook   *)
(* to the customer.  The actors are the delivery task that runs the job    *)
(* (at most one at a time: a job identifier is scheduled once per          *)
(* process), the poller that applies native confirmations coming back      *)
(* from the platform, the platform itself, and Chatwoot.                   *)
(*                                                                         *)
(* A step of the task is the code between two awaits.  The request         *)
(* identity of a part is a hash of its idempotency key, the same on every  *)
(* attempt, so a request and the receipt that answers it are named by the  *)
(* part alone.                                                             *)
(***************************************************************************)
EXTENDS Naturals, FiniteSets

CONSTANTS
    NumParts,      \* length of the send plan
    Platform,      \* "bale" or "eitaa"
    MaxAttempts,   \* _WEBHOOK_DELIVERY_MAX_ATTEMPTS, 10 in the code
    Failures,      \* kinds of failure the environment may produce
    MaxFaults,     \* bound: how many of them in one behaviour
    MaxWebhooks    \* bound: message_created callbacks and Retry clicks

FailureKinds == {"chatwoot", "network", "database", "flood", "timeout",
                 "crash", "offline", "conflict"}

ASSUME ConstantsAssumption ==
    /\ NumParts \in Nat \ {0}
    /\ Platform \in {"bale", "eitaa"}
    /\ MaxAttempts \in Nat \ {0}
    /\ Failures \subseteq FailureKinds
    /\ MaxFaults \in Nat
    /\ MaxWebhooks \in Nat

Parts == 1..NumParts
NoPart == 0

VARIABLES
    \* The durable job row (chatwoot_webhook_deliveries).
    jobStatus,   \* none, pending, failed; cancelled: failed by a deletion
    attempts,    \* attempts charged to it
    terminal,    \* its failure is final: run it only to report that
    noted,       \* a failure note was posted for it, or attempted
    \* The durable ledger (message_mappings.platform_payload_json).
    saved,       \* the ledger has been written
    inflight,    \* parts dispatched, outcome not known
    receipts,    \* parts the platform confirmed
    cancelled,   \* the message was deleted in Chatwoot
    \* The delivery task.
    pc,          \* the await it is suspended at
    part,        \* the part it is sending
    err,         \* class of the error it reports, then the run's outcome
    reply,       \* answer to the request it waits for
    late,        \* the 300 second guard has expired in this run
    \* The poller and the per-message asyncio lock.
    confirming,  \* part whose confirmation the poller is finalizing
    lock,        \* holder of message_lock
    \* The platform.
    net,         \* requests that may still reach the platform
    copies,      \* copies of each part the customer received
    echoes,      \* native updates not yet handled (kept until handled)
    \* Chatwoot.
    bubble,      \* delivery status of the message
    note,        \* a tagged failure note is posted
    \* Bounds.
    webhooks, faults

jobVars      == <<jobStatus, attempts, terminal, noted>>
ledgerVars   == <<saved, inflight, receipts, cancelled>>
taskVars     == <<pc, part, err, reply, late>>
pollerVars   == <<confirming, lock>>
platformVars == <<net, copies, echoes>>
chatwootVars == <<bubble, note>>
boundVars    == <<webhooks, faults>>

vars == <<jobVars, ledgerVars, taskVars, pollerVars, platformVars, chatwootVars,
          boundVars>>

-------------------------------------------------------------------------------
(* The job row, the send plan and the ledger.                              *)

\* Mutant: the first confirmed part completes the message.
CompleteAny == saved /\ receipts /= {}

Complete == saved /\ receipts = Parts

\* Mutant: the parts are sent in any order.
IsNextAny(p, done) == p \notin done

\* p is the part the loop over the plan takes when `done` have receipts.
IsNext(p, done) == p \notin done /\ \A q \in Parts : q < p => q \in done

NoRow ==
    /\ jobStatus' = "none" /\ attempts' = 0
    /\ terminal' = FALSE /\ noted' = FALSE

\* A pending job with its whole budget.
FreshRow(keepsNote) ==
    /\ jobStatus' = "pending" /\ attempts' = 0
    /\ terminal' = FALSE /\ noted' = keepsNote

\* The metadata of a job whose row exists.
Mark(final, note_) ==
    /\ terminal' = (terminal \/ (final /\ jobStatus /= "none"))
    /\ noted' = (noted \/ (note_ /\ jobStatus /= "none"))
    /\ UNCHANGED <<jobStatus, attempts>>

\* _fail_chatwoot_delivery: one attempt is charged; a terminal failure or an
\* exhausted budget ends the job.  A row deleted meanwhile stays deleted.
Charge(final) ==
    /\ IF jobStatus = "none"
       THEN UNCHANGED <<jobStatus, attempts>>
       ELSE /\ attempts' = attempts + 1
            /\ jobStatus' = IF final \/ attempts + 1 >= MaxAttempts
                            THEN "failed" ELSE "pending"
    /\ UNCHANGED <<terminal, noted>>

\* A failure of the given kind, charged to the bound.
Fault(kind) ==
    /\ kind \in Failures
    /\ faults < MaxFaults
    /\ faults' = faults + 1

Init ==
    /\ jobStatus = "none" /\ attempts = 0 /\ terminal = FALSE /\ noted = FALSE
    /\ saved = FALSE /\ inflight = {} /\ receipts = {} /\ cancelled = FALSE
    /\ pc = "idle" /\ part = NoPart /\ err = "none" /\ reply = "none"
    /\ late = FALSE
    /\ confirming = NoPart /\ lock = "free"
    /\ net = {} /\ copies = [p \in Parts |-> 0] /\ echoes = {}
    /\ bubble = "unset" /\ note = FALSE
    /\ webhooks = 0 /\ faults = 0

-------------------------------------------------------------------------------
(* The webhook: the job row is committed before Chatwoot is answered.      *)
(* A repeated callback, and one for a cancelled job, change nothing.       *)

Arrives ==
    /\ webhooks < MaxWebhooks
    /\ webhooks' = webhooks + 1
    /\ UNCHANGED <<ledgerVars, taskVars, pollerVars, platformVars,
                   chatwootVars, faults>>

MessageCreated ==
    /\ Arrives
    /\ jobStatus = "none"
    /\ FreshRow(FALSE)

\* An explicit Retry rearms a failed job, keeping only its note metadata.
RetryClicked ==
    /\ Arrives
    /\ jobStatus = "failed"
    /\ FreshRow(noted)

-------------------------------------------------------------------------------
(* The start of a run, up to its first await.                              *)

\* Suspends the task at an await of the run.
At(label, error) == pc' = label /\ err' = error

Report(error) ==
    /\ At("wantLock", error)
    /\ part' = NoPart /\ reply' = "none"
    /\ UNCHANGED late

CanStart == pc = "idle" /\ jobStatus = "pending"

Starts(label, error) ==
    /\ CanStart
    /\ At(label, error)
    /\ UNCHANGED <<jobVars, ledgerVars, part, reply, late, pollerVars,
                   platformVars, chatwootVars, webhooks>>

StartCancelled ==
    /\ cancelled
    /\ Starts("settle", "ok")
    /\ UNCHANGED faults

\* A job whose failure is final is run again only to report it.
StartReport ==
    /\ ~cancelled /\ terminal
    /\ Starts("wantLock", "terminal")
    /\ UNCHANGED faults

\* Mutant: a complete message is taken for one that Chatwoot shows as sent.
StartSyncDone ==
    /\ ~cancelled /\ ~terminal /\ Complete
    /\ Starts("settle", "ok")
    /\ UNCHANGED faults

StartSync ==
    /\ ~cancelled /\ ~terminal /\ Complete
    /\ Starts("sync", "none")
    /\ UNCHANGED faults

\* The connector is closed: the failure is reported without the message lock.
StartOffline ==
    /\ ~cancelled /\ ~terminal /\ ~Complete
    /\ Fault("offline")
    /\ Starts("notify", "retry")

StartResolve ==
    /\ ~cancelled /\ ~terminal /\ ~Complete
    /\ Starts("resolve", "none")
    /\ UNCHANGED faults

-------------------------------------------------------------------------------
(* Resolution of the recipient.                                            *)

\* A contact mapping conflict or an unknown recipient is final, and reported
\* without the message lock.
ResolveConflict ==
    /\ pc = "resolve"
    /\ Fault("conflict")
    /\ Mark(TRUE, FALSE)
    /\ At("notify", "dead")
    /\ UNCHANGED <<ledgerVars, part, reply, late, pollerVars, platformVars,
                   chatwootVars, webhooks>>

\* A failure of the resolving call itself may be retried only before the
\* first send: once it succeeded the resolved recipient is stored.
ResolveFails ==
    /\ pc = "resolve"
    /\ Fault("network")
    /\ \E error \in {"notSent", "unknown"} :
          /\ error = "notSent" => ~saved
          /\ Report(error)
    /\ UNCHANGED <<jobVars, ledgerVars, pollerVars, platformVars, chatwootVars,
                   webhooks>>

-------------------------------------------------------------------------------
(* ConfirmedOutboundDelivery.deliver                                       *)

\* Mutant: a part of unknown outcome is sent again.
EnterDeliverBlindly ==
    /\ pc = "resolve" /\ ~Complete
    /\ saved' = TRUE
    /\ At("mark", "none")
    /\ UNCHANGED <<jobVars, inflight, receipts, cancelled, part, reply, late,
                   pollerVars, platformVars, chatwootVars, boundVars>>

\* The checks before the plan runs.  A part of unknown outcome is never
\* sent again: its original confirmation is awaited.
EnterDeliver ==
    /\ pc = "resolve"
    /\ \/ /\ Complete
          /\ At("finalize", "none")
          /\ UNCHANGED <<saved, part, reply, late>>
       \/ /\ ~Complete /\ inflight /= {}
          /\ Report("unknown")
          /\ UNCHANGED saved
       \/ /\ ~Complete /\ inflight = {}
          /\ saved' = TRUE
          /\ At("mark", "none")
          /\ UNCHANGED <<part, reply, late>>
    /\ UNCHANGED <<jobVars, inflight, receipts, cancelled, pollerVars,
                   platformVars, chatwootVars, boundVars>>

\* The loop over the plan goes on with the next part without a receipt.
TakeNext(done) ==
    /\ \/ /\ done = Parts
          /\ pc' = "finalize" /\ part' = NoPart
       \/ \E p \in Parts :
             /\ IsNext(p, done)
             /\ pc' = "prepare" /\ part' = p
    /\ reply' = "none"
    /\ UNCHANGED <<err, late>>

\* Until its parts are confirmed the message is shown as not delivered.
MarkUnconfirmed ==
    /\ pc = "mark"
    /\ bubble' = "failed"
    /\ TakeNext(receipts)
    /\ UNCHANGED <<jobVars, ledgerVars, pollerVars, platformVars, note,
                   boundVars>>

MarkFails ==
    /\ pc = "mark"
    /\ Fault("chatwoot")
    /\ bubble' \in {bubble, "failed"}
    /\ Report("notSent")
    /\ UNCHANGED <<jobVars, ledgerVars, pollerVars, platformVars, note, webhooks>>

\* Upload, serialization or the dispatch checkpoint failed: nothing was sent.
PrepareFails ==
    /\ pc = "prepare"
    /\ Fault("network")
    /\ \E error \in {"notSent", "unknown"} : Report(error)
    /\ UNCHANGED <<jobVars, ledgerVars, pollerVars, platformVars, chatwootVars,
                   webhooks>>

\* before_dispatch commits the request identity, then the request leaves.
Dispatch ==
    /\ pc = "prepare"
    /\ inflight' = inflight \union {part}
    /\ net' = net \union {part}
    /\ pc' = "await" /\ reply' = "none"
    /\ UNCHANGED <<jobVars, saved, receipts, cancelled, part, err, late,
                   pollerVars, copies, echoes, chatwootVars, boundVars>>

\* The checkpoint is committed and the connection fails before the send.
DispatchFails ==
    /\ pc = "prepare"
    /\ Fault("network")
    /\ inflight' = inflight \union {part}
    /\ Report("notSent")
    /\ UNCHANGED <<jobVars, saved, receipts, cancelled, pollerVars, platformVars,
                   chatwootVars, webhooks>>

\* The ACK is checkpointed by accept_receipt, which changes nothing if the
\* native confirmation of the same request came first.
AckArrives ==
    /\ pc = "await" /\ reply = "ack"
    /\ receipts' = receipts \union {part}
    /\ inflight' = inflight \ {part}
    /\ TakeNext(receipts \union {part})
    /\ UNCHANGED <<jobVars, saved, cancelled, pollerVars, platformVars,
                   chatwootVars, boundVars>>

AckCommitFails ==
    /\ pc = "await" /\ reply = "ack" /\ part \notin receipts
    /\ Fault("database")
    /\ Report("unknown")
    /\ UNCHANGED <<jobVars, ledgerVars, pollerVars, platformVars, chatwootVars,
                   webhooks>>

\* The platform refused the request for good ...
Refused ==
    /\ pc = "await" /\ reply = "nack"
    /\ Report("refused")
    /\ UNCHANGED <<jobVars, ledgerVars, pollerVars, platformVars, chatwootVars,
                   boundVars>>

\* ... or asks to wait before it is sent again.
FloodWait ==
    /\ pc = "await" /\ reply = "nack"
    /\ Fault("flood")
    /\ Report("notSent")
    /\ UNCHANGED <<jobVars, ledgerVars, pollerVars, platformVars, chatwootVars,
                   webhooks>>

\* Mutant: a request without an answer counts as not sent.
AckLostAsUnsent ==
    /\ pc = "await"
    /\ Report("notSent")
    /\ UNCHANGED <<jobVars, ledgerVars, pollerVars, platformVars, chatwootVars,
                   boundVars>>

\* No answer came.  A native confirmation handled meanwhile counts.
AckLost ==
    /\ pc = "await"
    /\ \/ part \in receipts /\ ~cancelled /\ TakeNext(receipts)
       \/ (part \notin receipts \/ cancelled) /\ Report("unknown")
    /\ UNCHANGED <<jobVars, ledgerVars, pollerVars, platformVars, chatwootVars,
                   boundVars>>

-------------------------------------------------------------------------------
(* finalize: the stored failure notes are deleted, the message is shown as *)
(* sent, and a failed job row of a message that was not deleted goes away. *)

\* Mutant: the failure notes are forgotten, not deleted.
FinalizedKeepingNotes ==
    /\ bubble' = "sent" /\ UNCHANGED note
    /\ IF jobStatus = "failed" THEN NoRow
       ELSE noted' = FALSE /\ UNCHANGED <<jobStatus, attempts, terminal>>

Finalized ==
    /\ bubble' = "sent"
    /\ note' = (note /\ ~noted)
    /\ IF jobStatus = "failed" THEN NoRow
       ELSE noted' = FALSE /\ UNCHANGED <<jobStatus, attempts, terminal>>

\* Chatwoot failed in between: the notes may be gone, and forgotten, and the
\* status may be set.
HalfFinalized ==
    /\ \/ UNCHANGED <<bubble, note, noted>>
       \/ /\ note' = (note /\ ~noted)
          /\ \/ UNCHANGED <<bubble, noted>>
             \/ noted' = FALSE /\ bubble' \in {bubble, "sent"}
    /\ UNCHANGED <<jobStatus, attempts, terminal>>

Unlocked == lock' = IF lock = "task" THEN "free" ELSE lock

\* After the last part (without the message lock), at the start of a run for
\* a complete ledger (without it), or in place of a late report (holding it).
Finalize ==
    /\ pc \in {"finalize", "sync", "confirm"}
    /\ IF cancelled THEN UNCHANGED <<jobVars, bubble, note>> ELSE Finalized
    /\ At("settle", "ok")
    /\ Unlocked
    /\ UNCHANGED <<ledgerVars, part, reply, late, confirming, platformVars,
                   boundVars>>

\* Only inside deliver does a failure lead to the failure report.
FinalizeFails ==
    /\ pc \in {"finalize", "sync", "confirm"}
    /\ ~cancelled
    /\ Fault("chatwoot")
    /\ HalfFinalized
    /\ IF pc = "finalize" THEN At("wantLock", "notSent")
                          ELSE At("settle", "retry")
    /\ Unlocked
    /\ UNCHANGED <<ledgerVars, part, reply, late, confirming, platformVars,
                   webhooks>>

-------------------------------------------------------------------------------
(* report_failure_or_confirm and _notify_delivery_failure                  *)

\* Only an attempt that ended before dispatch, or on a refusal that asks to
\* wait, is repeated; a timeout is, when nothing is in flight.
Retryable(error) == error = "notSent" \/ (error = "timeout" /\ inflight = {})

\* Mutant: the failure is reported without another look at the ledger.
LockReportUnchecked ==
    /\ pc = "wantLock" /\ lock = "free"
    /\ lock' = "task"
    /\ At("notify", IF Retryable(err) THEN "retry" ELSE "dead")
    /\ Mark(~Retryable(err), FALSE)
    /\ UNCHANGED <<ledgerVars, part, reply, late, confirming, platformVars,
                   chatwootVars, boundVars>>

LockReport ==
    /\ pc = "wantLock" /\ lock = "free"
    /\ lock' = "task"
    /\ \/ /\ Complete
          /\ At("confirm", "none")
          /\ UNCHANGED <<jobVars, inflight>>
       \/ /\ ~Complete
          /\ At("notify", IF Retryable(err) THEN "retry" ELSE "dead")
          /\ inflight' = IF err \in {"notSent", "refused"} THEN {}
                                                           ELSE inflight
          /\ Mark(~Retryable(err), FALSE)
    /\ UNCHANGED <<saved, receipts, cancelled, part, reply, late, confirming,
                   platformVars, chatwootVars, boundVars>>

\* The status first.  Its failure is remembered; the note is posted anyway.
NotifyStatus ==
    /\ pc = "notify"
    /\ bubble' = "failed"
    /\ pc' = "note"
    /\ UNCHANGED <<jobVars, ledgerVars, part, err, reply, late, pollerVars,
                   platformVars, note, boundVars>>

NotifyStatusFails ==
    /\ pc = "notify"
    /\ Fault("chatwoot")
    /\ bubble' \in {bubble, "failed"}
    /\ At("note", "retry")
    /\ UNCHANGED <<jobVars, ledgerVars, part, reply, late, pollerVars,
                   platformVars, note, webhooks>>

\* The row remembers the note, or at least that one is attempted, so that a
\* confirmation finds it.  A note already posted is found and kept.
NotePosted == note' = TRUE /\ Mark(FALSE, TRUE)

\* Nothing is posted for a note that the row remembers and that is gone, nor
\* when the same text was posted a short while ago.
PostNote ==
    /\ pc = "note"
    /\ NotePosted \/ (~note /\ UNCHANGED <<note, jobVars>>)
    /\ pc' = "settle"
    /\ Unlocked
    /\ UNCHANGED <<ledgerVars, part, err, reply, late, confirming,
                   platformVars, bubble, boundVars>>

\* The search for a note fails, or the post, which may have been accepted.
HalfPosted ==
    \/ UNCHANGED <<note, jobVars>>
    \/ note' \in {note, TRUE} /\ Mark(FALSE, TRUE)

PostNoteFails ==
    /\ pc = "note"
    /\ Fault("chatwoot")
    /\ HalfPosted
    /\ At("settle", "retry")
    /\ Unlocked
    /\ UNCHANGED <<ledgerVars, part, reply, late, confirming,
                   platformVars, bubble, webhooks>>

-------------------------------------------------------------------------------
(* The end of a run: the job row is deleted or charged with an attempt.    *)

Settled == IF err = "ok" THEN NoRow ELSE Charge(err = "dead")

Settle ==
    /\ pc = "settle"
    /\ Settled
    /\ At("idle", "none")
    /\ part' = NoPart /\ reply' = "none" /\ late' = FALSE
    /\ UNCHANGED <<ledgerVars, pollerVars, platformVars, chatwootVars,
                   boundVars>>

\* What the call to Chatwoot that is interrupted may have done already.
Interrupted ==
    \/ UNCHANGED <<jobVars, chatwootVars>>
    \/ pc \in {"mark", "notify"} /\ bubble' = "failed" /\ UNCHANGED <<note, jobVars>>
    \/ pc = "note" /\ HalfPosted /\ UNCHANGED bubble
    \/ pc \in {"finalize", "sync", "confirm"} /\ ~cancelled /\ HalfFinalized

\* The guard of 300 seconds cancels the run at any await; the same task then
\* reports under the message lock.
Timeout ==
    /\ pc \notin {"idle", "settle"} /\ ~late
    /\ Fault("timeout")
    /\ Interrupted
    /\ At("wantLock", "timeout")
    /\ part' = NoPart /\ reply' = "none" /\ late' = TRUE
    /\ Unlocked
    /\ UNCHANGED <<ledgerVars, confirming, platformVars, webhooks>>

\* The worker thread that settles the row is not cancelled with the task.
SettleThenTimeout ==
    /\ pc = "settle" /\ ~late
    /\ Fault("timeout")
    /\ Settled
    /\ At("wantLock", "timeout")
    /\ late' = TRUE
    /\ UNCHANGED <<ledgerVars, part, reply, pollerVars, platformVars,
                   chatwootVars, webhooks>>

-------------------------------------------------------------------------------
(* The platform.                                                           *)

Answered(p, answer) ==
    reply' = IF pc = "await" /\ part = p THEN answer ELSE reply

\* A request may be accepted long after the task gave up on it.  The native
\* update that confirms it is pushed, or is not.
Accept(p) ==
    /\ p \in net
    /\ net' = net \ {p}
    /\ copies' = [copies EXCEPT ![p] = @ + 1]
    /\ echoes' \in {echoes, echoes \union {p}}
    /\ Answered(p, "ack")
    /\ UNCHANGED <<jobVars, ledgerVars, pc, part, err, late, pollerVars,
                   chatwootVars, boundVars>>

Refuse(p) ==
    /\ p \in net
    /\ net' = net \ {p}
    /\ Answered(p, "nack")
    /\ UNCHANGED <<jobVars, ledgerVars, pc, part, err, late, pollerVars, copies,
                   echoes, chatwootVars, boundVars>>

Lose(p) ==
    /\ p \in net
    /\ net' = net \ {p}
    /\ UNCHANGED <<jobVars, ledgerVars, taskVars, pollerVars, copies, echoes,
                   chatwootVars, boundVars>>

-------------------------------------------------------------------------------
(* reconcile_echo (Bale) and reconcile_eitaa_confirmation                  *)

\* Eitaa resumes a failed job when no part is uncertain any more.
Resumed(left) ==
    /\ IF /\ Platform = "eitaa" /\ left = {}
          /\ jobStatus = "failed" /\ attempts < MaxAttempts
       THEN jobStatus' = "pending" /\ terminal' = FALSE
       ELSE UNCHANGED <<jobStatus, terminal>>
    /\ UNCHANGED <<attempts, noted>>

\* A confirmation that completes the message is finalized under the message
\* lock; any other is applied at once.  Eitaa ignores those of a deleted
\* message, Bale stops short of finalizing.
EchoArrives(p) ==
    /\ p \in echoes /\ lock = "free"
    /\ LET matched == p \in inflight \union receipts
                      /\ ~(Platform = "eitaa" /\ cancelled)
           left == inflight \ {p}
           got  == receipts \union {p}
       IN \/ /\ ~matched
             /\ echoes' = echoes \ {p}
             /\ UNCHANGED <<jobVars, inflight, receipts, pollerVars>>
          \/ /\ matched
             /\ inflight' = left /\ receipts' = got
             /\ \/ /\ got = Parts /\ ~cancelled
                   /\ confirming' = p /\ lock' = "poller"
                   /\ UNCHANGED <<jobVars, echoes>>
                \/ /\ ~(got = Parts /\ ~cancelled)
                   /\ echoes' = echoes \ {p}
                   /\ IF got = Parts THEN UNCHANGED jobVars ELSE Resumed(left)
                   /\ UNCHANGED pollerVars
    /\ UNCHANGED <<saved, cancelled, taskVars, net, copies, chatwootVars,
                   boundVars>>

EchoFinalized ==
    /\ confirming /= NoPart
    /\ Finalized
    /\ echoes' = echoes \ {confirming}
    /\ confirming' = NoPart /\ lock' = "free"
    /\ UNCHANGED <<ledgerVars, taskVars, net, copies, boundVars>>

\* The event stays queued and is handled again.
EchoFinalizeFails ==
    /\ confirming /= NoPart
    /\ Fault("chatwoot")
    /\ HalfFinalized
    /\ confirming' = NoPart /\ lock' = "free"
    /\ UNCHANGED <<ledgerVars, taskVars, platformVars, webhooks>>

-------------------------------------------------------------------------------
(* Deletion of the message in Chatwoot, a job of the same conversation and *)
(* so never concurrent with a run of this one; and a crash of the process, *)
(* which leaves the rows, the requests already sent and Chatwoot.          *)

\* Mutant: a deletion does not wait for the run of the message.
DeleteAnytime ==
    /\ jobStatus' = IF jobStatus = "none" THEN "none" ELSE "cancelled"
    /\ cancelled' = (cancelled \/ saved)
    /\ UNCHANGED <<attempts, terminal, noted, saved, inflight, receipts,
                   taskVars, pollerVars, platformVars, chatwootVars,
                   boundVars>>

Delete ==
    /\ pc = "idle"
    /\ jobStatus' = IF jobStatus = "none" THEN "none" ELSE "cancelled"
    /\ cancelled' = (cancelled \/ saved)
    /\ UNCHANGED <<attempts, terminal, noted, saved, inflight, receipts,
                   taskVars, pollerVars, platformVars, chatwootVars,
                   boundVars>>

Crash ==
    /\ Fault("crash")
    /\ Interrupted \/ (confirming /= NoPart /\ HalfFinalized)
    /\ At("idle", "none")
    /\ part' = NoPart /\ reply' = "none" /\ late' = FALSE
    /\ confirming' = NoPart /\ lock' = "free"
    /\ UNCHANGED <<ledgerVars, platformVars, webhooks>>

-------------------------------------------------------------------------------
TaskStep ==
    \/ StartCancelled \/ StartReport \/ StartSync \/ StartResolve
    \/ EnterDeliver \/ MarkUnconfirmed \/ Dispatch
    \/ AckArrives \/ Refused \/ AckLost
    \/ Finalize \/ LockReport \/ NotifyStatus \/ PostNote \/ Settle

PollerStep == (\E p \in Parts : EchoArrives(p)) \/ EchoFinalized

PlatformStep == \E p \in Parts : Accept(p) \/ Refuse(p) \/ Lose(p)

Mishap ==
    \/ StartOffline \/ ResolveConflict \/ ResolveFails \/ MarkFails
    \/ PrepareFails \/ DispatchFails \/ AckCommitFails \/ FloodWait
    \/ FinalizeFails \/ NotifyStatusFails \/ PostNoteFails
    \/ Timeout \/ SettleThenTimeout \/ EchoFinalizeFails \/ Crash

Next ==
    \/ MessageCreated \/ RetryClicked \/ Delete
    \/ TaskStep \/ PollerStep \/ PlatformStep \/ Mishap

Spec == Init /\ [][Next]_vars

\* The event loop runs every ready task, the recovery scan schedules every
\* pending job, every request has a timeout, and a queued event is handled
\* again until it succeeds.
FairSpec == Spec /\ WF_vars(TaskStep) /\ WF_vars(PollerStep)

-------------------------------------------------------------------------------
(* Properties.                                                             *)

PcType == {"idle", "resolve", "mark", "prepare", "await", "finalize", "sync",
           "wantLock", "confirm", "notify", "note", "settle"}

ErrType == {"none", "notSent", "refused", "unknown", "timeout", "terminal",
            "ok", "retry", "dead"}

FlagsOK ==
    /\ terminal \in BOOLEAN /\ noted \in BOOLEAN
    /\ saved \in BOOLEAN /\ cancelled \in BOOLEAN
    /\ late \in BOOLEAN /\ note \in BOOLEAN

CountersOK == attempts \in Nat /\ webhooks \in Nat /\ faults \in Nat

\* The type invariant of the rows, the task, the poller and the platform.
TypeOK ==
    /\ jobStatus \in {"none", "pending", "failed", "cancelled"}
    /\ inflight \in SUBSET Parts /\ receipts \in SUBSET Parts
    /\ pc \in PcType /\ part \in Parts \union {NoPart} /\ err \in ErrType
    /\ reply \in {"none", "ack", "nack"}
    /\ confirming \in Parts \union {NoPart}
    /\ lock \in {"free", "task", "poller"}
    /\ net \in SUBSET Parts /\ copies \in [Parts -> Nat]
    /\ echoes \in SUBSET Parts
    /\ bubble \in {"unset", "failed", "sent"}
    /\ FlagsOK /\ CountersOK

-------------------------------------------------------------------------------
(* The inductive invariant behind the safety properties.                   *)

\* What the ledger knows of each part, against what the platform did.
LedgerInv ==
    /\ ~saved => inflight = {} /\ receipts = {}
    /\ inflight \intersect receipts = {}
    /\ net \subseteq inflight
    /\ \A p \in Parts :
          /\ copies[p] \in {0, 1}
          /\ p \in net => copies[p] = 0
          /\ copies[p] = 1 => p \in inflight \union receipts
          /\ p \in receipts \union echoes => copies[p] = 1
    /\ \A p, q \in Parts :
          (q < p /\ p \in inflight \union receipts) => q \in receipts

\* Where the task is, against the ledger it works on.
TaskInv ==
    /\ pc \in {"mark", "prepare"} => saved /\ inflight = {}
    /\ pc \in {"prepare", "await"} => part \in Parts
    /\ pc = "prepare" => IsNext(part, receipts)
    /\ pc = "await" => /\ saved
                       /\ inflight \subseteq {part}
                       /\ part \in inflight \union receipts
                       /\ reply = "ack" => copies[part] = 1
                       /\ reply = "nack" => part \notin net /\ copies[part] = 0
    /\ (pc = "wantLock" /\ err \in {"notSent", "refused"} /\ ~Complete) =>
          \A p \in inflight : p \notin net /\ copies[p] = 0

\* Nobody shows, or is about to show, an incomplete message as sent.
ShownInv ==
    (\/ bubble = "sent" \/ confirming /= NoPart
     \/ pc \in {"finalize", "sync", "confirm"}) => Complete

\* A deleted message has no job that runs.
CancelInv ==
    /\ pc /= "idle" => jobStatus /= "cancelled"
    /\ pc \in {"resolve", "mark", "prepare", "await"} => ~cancelled

\* The failure note, against the row that remembers it.  The note of a message
\* that was not deleted is remembered; the note of a deleted one is posted by a
\* report that holds the message lock, so never beside a confirmation.
NoteInv ==
    /\ confirming /= NoPart <=> lock = "poller"
    /\ jobStatus = "none" => ~noted
    /\ note /\ ~cancelled => noted
    /\ note /\ cancelled /\ jobStatus /= "cancelled" =>
          confirming = NoPart /\ bubble /= "sent"
    /\ pc \in {"notify", "note"} /\ cancelled => lock = "task" /\ ~Complete
    /\ pc \in {"notify", "note"} => err /= "ok"

\* The row of a run, while its message is not deleted: only a run that reports
\* late may find it failed, and only that of a complete message may be gone.
RowInv == ~cancelled =>
    /\ pc \in {"resolve", "mark", "prepare", "await", "finalize", "sync"} =>
          jobStatus = "pending"
    /\ pc \in {"notify", "note"} => \/ jobStatus = "pending"
                                    \/ jobStatus = "failed" /\ lock = "task"
    /\ pc \in {"wantLock", "settle"} /\ jobStatus = "none" => Complete
    /\ pc = "settle" /\ err = "ok" => Complete /\ ~note

\* The strengthening the proofs carry: all of the above together.
IInv == TypeOK /\ LedgerInv /\ TaskInv /\ ShownInv /\ CancelInv

\* The customer never receives a part twice, whatever is lost, repeated,
\* refused, timed out or interrupted on the way.
AtMostOnce == \A p \in Parts : copies[p] <= 1

\* The bubble says "sent" only when the customer has every part.
SentIsTruthful == bubble = "sent" => \A p \in Parts : copies[p] = 1

\* Nothing overtakes: a part that may reach the customer, or has, follows
\* parts that all reached the customer.
DeliveredInOrder ==
    \A p, q \in Parts :
        (q < p /\ (p \in net \/ copies[p] > 0)) => copies[q] > 0

\* Once the job is gone and the message is shown as sent, no private note
\* still tells the agent that the delivery failed.
NoStaleNote ==
    (bubble = "sent" /\ jobStatus = "none" /\ pc = "idle") => ~note

\* After the deletion of the message is recorded nothing more is sent.
NoSendAfterCancel ==
    [][cancelled \/ jobStatus = "cancelled" => net' \subseteq net]_vars

\* "A late error cannot overwrite a confirmed send."
SentStays == [][bubble = "sent" => bubble' = "sent"]_vars

\* An uncertain part leaves the ledger's in-flight set only by a receipt or
\* when the platform cannot hold the request any more.
UncertaintyKept ==
    [][\A p \in inflight \ inflight' :
          p \in receipts' \/ (p \notin net /\ copies[p] = 0)]_vars

\* A message whose every part is confirmed ends up shown as sent, or deleted.
ConfirmedIsShown == Complete ~> (bubble = "sent" \/ cancelled)

\* The abstract specification: offers are the requests under way.
Abstract == INSTANCE TruthfulDelivery WITH offered <- net
TruthfulSpec == Abstract!Spec
===============================================================================
