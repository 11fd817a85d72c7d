----------------------------- MODULE DeliveryQueue ----------------------------
(***************************************************************************)
(* The durable queue of Chatwoot webhooks of the confirmed platforms       *)
(* (presentation/http/routers/_handler_controller.py): the job rows, the   *)
(* tasks that run them behind a semaphore and a lock per conversation, the *)
(* recovery scan, the retry identifiers of the agents and restarts.        *)
(*                                                                         *)
(* A job is one webhook: a message to send, or the deletion of the message *)
(* of another job.  What a run does to the platform is ConfirmedDelivery's *)
(* subject; here it ends in one of three outcomes.                         *)
(***************************************************************************)
EXTENDS Naturals, FiniteSets, Sequences, SequencesExt

CONSTANTS
    Jobs,          \* the webhooks of the run
    Conversation,  \* the conversation of each job
    Target,        \* the job whose message a job deletes, or NoJob
    NoJob,
    RetryIds,      \* identifiers of Retry clicks
    Slots,         \* permits of _webhook_delivery_semaphore, 20 in the code
    MaxLocks,      \* _WEBHOOK_DELIVERY_LOCKS_MAX, 1000 in the code
    MaxAttempts,   \* _WEBHOOK_DELIVERY_MAX_ATTEMPTS, 10 in the code
    MaxClicks,     \* bound: deliveries of Retry webhooks
    MaxFaults      \* bound: timeouts of runs and restarts of the process

ASSUME QueueAssumption ==
    /\ NoJob \notin Jobs
    /\ IsFiniteSet(Jobs) /\ DOMAIN Conversation = Jobs
    \* A deletion targets a message of its own conversation, not a deletion.
    /\ Target \in [Jobs -> Jobs \union {NoJob}]
    /\ \A j \in Jobs : Target[j] /= NoJob =>
          /\ Conversation[Target[j]] = Conversation[j]
          /\ Target[Target[j]] = NoJob
    /\ Slots \in Nat \ {0} /\ MaxLocks \in Nat \ {0}
    /\ MaxAttempts \in Nat \ {0}
    /\ MaxClicks \in Nat /\ MaxFaults \in Nat

Conversations == {Conversation[j] : j \in Jobs}

\* Lock objects: one for each dictionary entry and one for each task.
LockIds == 1..(Cardinality(Jobs) + MaxLocks)
NoLock == 0

VARIABLES
    \* The rows of chatwoot_webhook_deliveries.
    row,        \* none, pending, failed, done (deleted)
    attempts,   \* attempts charged
    due,        \* next_attempt_at has passed
    cancelled,  \* _wootify_cancelled
    consumed,   \* _wootify_consumed_retry_ids
    arrived,    \* the rows in the order of created_at
    \* The recovery loop.
    scan,       \* rows it has loaded and not scheduled yet
    \* The tasks.
    active,     \* _webhook_delivery_active_ids
    task,       \* where each task is
    late,       \* the run's timeout has expired
    snapshot,   \* retry ids in the copy of the row its report works on
    \* The semaphore and the locks.
    semq,       \* tasks waiting for a permit, in order
    lockq,      \* tasks waiting for a lock, in order
    ref,        \* the lock object a task holds or waits for
    dict,       \* _webhook_delivery_locks, in insertion order
    \* Bounds.
    clicks, faults

rowVars   == <<row, attempts, due, cancelled, consumed, arrived>>
taskVars  == <<task, late, snapshot>>
lockVars  == <<semq, lockq, ref, dict>>
boundVars == <<clicks, faults>>
vars == <<rowVars, scan, active, taskVars, lockVars, boundVars>>

-------------------------------------------------------------------------------
Running == {"run", "report", "settle"}

Holds(j, l) == ref[j] = l /\ task[j] \in Running \union {"locked"}
InUse == {ref[j] : j \in Jobs} \union {dict[i].lock : i \in DOMAIN dict}
Permits == {j \in Jobs : task[j] \in Running \union {"lock", "locked"}}

Known(c) == \E i \in DOMAIN dict : dict[i].conv = c

Init ==
    /\ row = [j \in Jobs |-> "none"]
    /\ attempts = [j \in Jobs |-> 0]
    /\ due = [j \in Jobs |-> FALSE]
    /\ cancelled = [j \in Jobs |-> FALSE]
    /\ consumed = [j \in Jobs |-> {}]
    /\ arrived = <<>> /\ scan = <<>> /\ active = {}
    /\ task = [j \in Jobs |-> "none"]
    /\ late = [j \in Jobs |-> FALSE]
    /\ snapshot = [j \in Jobs |-> {}]
    /\ semq = <<>> /\ lockq = <<>> /\ dict = <<>>
    /\ ref = [j \in Jobs |-> NoLock]
    /\ clicks = 0 /\ faults = 0

-------------------------------------------------------------------------------
(* Scheduling: once per process and job.                                   *)

\* The tasks of the given jobs are created in order, except those that have
\* one already.
Schedule(js) ==
    /\ active' = active \union Range(js)
    /\ task' = [j \in Jobs |-> IF j \in Range(js) \ active THEN "slot" ELSE task[j]]
    /\ semq' = semq \o SelectSeq(js, LAMBDA j : j \notin active)

\* _handle_chatwoot_webhook: the row is committed, then the job scheduled.
Receive(j) ==
    /\ row[j] = "none"
    /\ row' = [row EXCEPT ![j] = "pending"]
    /\ due' = [due EXCEPT ![j] = TRUE]
    /\ arrived' = Append(arrived, j)
    /\ Schedule(<<j>>)
    /\ UNCHANGED <<attempts, cancelled, consumed, scan, late, snapshot, lockq, ref, dict, boundVars>>

\* Mutant: the click revives a deleted message.
IgnoredRepeat(j, r) == r \in consumed[j]

Ignored(j, r) == cancelled[j] \/ r \in consumed[j]

\* A Retry click on a message whose row exists.  A fresh identifier rearms a
\* failed job with a new budget, and is only consumed by a pending one; a
\* repeated one, and one for a deleted message, change nothing.
Click(j, r) ==
    /\ clicks < MaxClicks /\ clicks' = clicks + 1
    /\ Target[j] = NoJob /\ row[j] \in {"pending", "failed"}
    /\ IF Ignored(j, r)
       THEN UNCHANGED <<row, attempts, due, consumed>>
       ELSE /\ consumed' = [consumed EXCEPT ![j] = @ \union {r}]
            /\ row' = [row EXCEPT ![j] = "pending"]
            /\ IF row[j] = "failed"
               THEN /\ attempts' = [attempts EXCEPT ![j] = 0]
                    /\ due' = [due EXCEPT ![j] = TRUE]
               ELSE UNCHANGED <<attempts, due>>
    /\ Schedule(<<j>>)
    /\ UNCHANGED <<cancelled, arrived, scan, late, snapshot, lockq,
                   ref, dict, faults>>

\* The recovery loop loads the due rows in a worker thread ...
Load ==
    /\ scan = <<>>
    /\ scan' = SelectSeq(arrived, LAMBDA j : row[j] = "pending" /\ due[j])
    /\ UNCHANGED <<rowVars, active, taskVars, lockVars, boundVars>>

\* ... and schedules what it found then.
ScheduleScan ==
    /\ scan /= <<>>
    /\ Schedule(scan)
    /\ scan' = <<>>
    /\ UNCHANGED <<rowVars, late, snapshot, lockq, ref, dict,
                   boundVars>>

\* The backoff of a pending row ends.
Tick(j) ==
    /\ row[j] = "pending" /\ ~due[j]
    /\ due' = [due EXCEPT ![j] = TRUE]
    /\ UNCHANGED <<row, attempts, cancelled, consumed, arrived, scan, active,
                   taskVars, lockVars, boundVars>>

-------------------------------------------------------------------------------
(* The semaphore and the lock of the conversation.                         *)

\* Mutant: every task brings a lock of its own.
EntryAfresh(c) ==
    Append(SelectSeq(dict, LAMBDA d : d.conv /= c),
           [conv |-> c, lock |-> CHOOSE l \in LockIds : l \notin InUse])

\* _get_webhook_delivery_lock: a missing entry is created; the oldest one
\* makes room for it, whether or not somebody holds its lock.
Entry(c) ==
    IF Known(c) THEN dict
    ELSE LET kept == IF Len(dict) >= MaxLocks THEN Tail(dict) ELSE dict
             fresh == CHOOSE l \in LockIds : l \notin InUse
         IN Append(kept, [conv |-> c, lock |-> fresh])

\* The first task in line gets a permit, looks its lock up, and takes it or
\* queues behind its holder.
TakeSlot(j) ==
    /\ task[j] = "slot" /\ semq /= <<>> /\ j = Head(semq)
    /\ Cardinality(Permits) < Slots
    /\ semq' = Tail(semq)
    /\ dict' = Entry(Conversation[j])
    /\ LET l == dict'[CHOOSE i \in DOMAIN dict' :
                        dict'[i].conv = Conversation[j]].lock
           busy == \E k \in Jobs : ref[k] = l
       IN /\ ref' = [ref EXCEPT ![j] = l]
          /\ task' = [task EXCEPT ![j] = IF busy THEN "lock" ELSE "locked"]
          /\ lockq' = IF busy THEN Append(lockq, j) ELSE lockq
    /\ UNCHANGED <<rowVars, scan, active, late, snapshot, boundVars>>

\* A free lock goes to the first of its waiters.
Acquire(j) ==
    /\ task[j] = "lock"
    /\ \A k \in Jobs : ~Holds(k, ref[j])
    /\ j = SelectSeq(lockq, LAMBDA k : ref[k] = ref[j])[1]
    /\ lockq' = SelectSeq(lockq, LAMBDA k : k /= j)
    /\ task' = [task EXCEPT ![j] = "locked"]
    /\ UNCHANGED <<rowVars, scan, active, late, snapshot, semq, ref,
                   dict, boundVars>>

-------------------------------------------------------------------------------
(* A run.                                                                  *)

\* The task lets the lock and the permit go.  Its dictionary entry stays:
\* _release_webhook_delivery_lock is called while the lock is still held.
Leave(j) ==
    /\ task' = [task EXCEPT ![j] = "exit"]
    /\ ref' = [ref EXCEPT ![j] = NoLock]
    /\ late' = [late EXCEPT ![j] = FALSE]
    /\ snapshot' = [snapshot EXCEPT ![j] = {}]

\* A task scheduled from a stale view of the row does nothing.
Skip(j) ==
    /\ task[j] = "locked" /\ row[j] /= "pending"
    /\ Leave(j)
    /\ UNCHANGED <<rowVars, scan, active, semq, lockq, dict, boundVars>>

\* The run begins.  A deletion first cancels the job of its message.
Begin(j) ==
    /\ task[j] = "locked" /\ row[j] = "pending"
    /\ task' = [task EXCEPT ![j] = "run"]
    /\ LET t == Target[j] IN
       IF t /= NoJob /\ row[t] \in {"pending", "failed"}
       THEN /\ row' = [row EXCEPT ![t] = "failed"]
            /\ due' = [due EXCEPT ![t] = FALSE]
            /\ cancelled' = [cancelled EXCEPT ![t] = TRUE]
       ELSE UNCHANGED <<row, due, cancelled>>
    /\ UNCHANGED <<attempts, consumed, arrived, scan, active, late, snapshot, lockVars, boundVars>>

\* The handler returns, or raises; its job row is settled by a worker thread.
Return(j) ==
    /\ task[j] = "run"
    /\ task' = [task EXCEPT ![j] = "settle"]
    /\ UNCHANGED <<rowVars, scan, active, late, snapshot, lockVars, boundVars>>

\* The handler reports a failure to Chatwoot.  The session that reports
\* loads the row's metadata, and keeps that copy over its requests ...
Report(j) ==
    /\ task[j] = "run" /\ Target[j] = NoJob
    /\ task' = [task EXCEPT ![j] = "report"]
    /\ snapshot' = [snapshot EXCEPT ![j] = consumed[j]]
    /\ UNCHANGED <<rowVars, scan, active, late, lockVars, boundVars>>

\* ... before it writes the metadata back, the note's among it.
Reported(j) ==
    /\ task[j] = "report"
    /\ consumed' = IF row[j] \in {"pending", "failed"}
                   THEN [consumed EXCEPT ![j] = snapshot[j]] ELSE consumed
    /\ task' = [task EXCEPT ![j] = "settle"]
    /\ UNCHANGED <<row, attempts, due, cancelled, arrived, scan, active, late,
                   snapshot, lockVars, boundVars>>

\* _complete_chatwoot_delivery: a delivery is forgotten.
Completed(j) ==
    /\ row' = [row EXCEPT ![j] = "done"]
    /\ due' = [due EXCEPT ![j] = FALSE]
    /\ UNCHANGED attempts

\* _fail_chatwoot_delivery: the attempt is charged, the last one is final.
Failed(j, terminal) ==
    /\ attempts' = [attempts EXCEPT ![j] = @ + 1]
    /\ row' = [row EXCEPT ![j] = IF terminal \/ attempts'[j] >= MaxAttempts
                                 THEN "failed" ELSE "pending"]
    /\ due' = [due EXCEPT ![j] = FALSE]

\* Mutant: the row is written whether or not it still exists.
SettledBlindly(j) == Completed(j) \/ \E terminal \in BOOLEAN : Failed(j, terminal)

\* A row deleted meanwhile is left alone.
Settled(j) ==
    \/ row[j] = "done" /\ UNCHANGED <<row, attempts, due>>
    \/ row[j] /= "done" /\ Completed(j)
    \/ row[j] /= "done" /\ \E terminal \in BOOLEAN : Failed(j, terminal)

Settle(j) ==
    /\ task[j] = "settle"
    /\ Settled(j)
    /\ Leave(j)
    /\ UNCHANGED <<cancelled, consumed, arrived, scan, active, semq, lockq,
                   dict, boundVars>>

\* Mutant: the job stays among the scheduled ones.
CleanupLeaving(j) ==
    /\ task[j] = "exit"
    /\ task' = [task EXCEPT ![j] = "none"]
    /\ UNCHANGED <<active, rowVars, scan, late, snapshot, lockVars, boundVars>>

\* The done callback of the task, in a later turn of the event loop.
Cleanup(j) ==
    /\ task[j] = "exit"
    /\ task' = [task EXCEPT ![j] = "none"]
    /\ active' = active \ {j}
    /\ UNCHANGED <<rowVars, scan, late, snapshot, lockVars, boundVars>>

-------------------------------------------------------------------------------
(* Timeouts and restarts.                                                  *)

\* The run is cancelled after 300 seconds, still holding the lock; a message
\* is then reported as failed by a new session.
Timeout(j) ==
    /\ task[j] \in Running /\ ~late[j]
    /\ faults < MaxFaults /\ faults' = faults + 1
    /\ late' = [late EXCEPT ![j] = TRUE]
    \* The worker thread that settles the row is not cancelled.
    /\ \/ task[j] = "settle" /\ Settled(j)
       \/ task[j] /= "settle" /\ UNCHANGED <<row, attempts, due>>
    /\ task' = [task EXCEPT ![j] = "report"]
    /\ snapshot' = [snapshot EXCEPT ![j] = consumed[j]]
    /\ UNCHANGED <<cancelled, consumed, arrived, scan, active, lockVars,
                   clicks>>

\* The process stops and starts again: the rows are all that is left.
Restart ==
    /\ faults < MaxFaults /\ faults' = faults + 1
    /\ scan' = <<>> /\ active' = {}
    /\ task' = [j \in Jobs |-> "none"]
    /\ late' = [j \in Jobs |-> FALSE]
    /\ snapshot' = [j \in Jobs |-> {}]
    /\ semq' = <<>> /\ lockq' = <<>> /\ dict' = <<>>
    /\ ref' = [j \in Jobs |-> NoLock]
    /\ UNCHANGED <<rowVars, clicks>>

-------------------------------------------------------------------------------
TaskStep(j) ==
    \/ TakeSlot(j) \/ Acquire(j) \/ Skip(j) \/ Begin(j) \/ Return(j)
    \/ Reported(j) \/ Settle(j) \/ Cleanup(j)

Recovery == Load \/ ScheduleScan

Next ==
    \/ \E j \in Jobs :
          \/ Receive(j) \/ Tick(j) \/ TaskStep(j) \/ Report(j) \/ Timeout(j)
          \/ \E r \in RetryIds : Click(j, r)
    \/ Recovery \/ Restart

Spec == Init /\ [][Next]_vars

\* The event loop runs every ready task, the recovery loop runs every ten
\* seconds, and time passes.
FairSpec ==
    /\ Spec
    /\ WF_vars(Recovery)
    /\ \A j \in Jobs : WF_vars(TaskStep(j)) /\ WF_vars(Tick(j))

-------------------------------------------------------------------------------
(* Properties.                                                             *)

\* The type invariant, with what the queues and the locks are made of.
TypeOK ==
    /\ row \in [Jobs -> {"none", "pending", "failed", "done"}]
    /\ attempts \in [Jobs -> Nat]
    /\ due \in [Jobs -> BOOLEAN] /\ cancelled \in [Jobs -> BOOLEAN]
    /\ consumed \in [Jobs -> SUBSET RetryIds]
    /\ arrived \in Seq(Jobs) /\ scan \in Seq(Jobs)
    /\ task \in [Jobs -> {"none", "slot", "lock", "locked", "run", "report",
                          "settle", "exit"}]
    /\ active = {j \in Jobs : task[j] /= "none"}
    /\ late \in [Jobs -> BOOLEAN]
    /\ snapshot \in [Jobs -> SUBSET RetryIds]
    /\ Range(semq) = {j \in Jobs : task[j] = "slot"}
    /\ Range(lockq) = {j \in Jobs : task[j] = "lock"}
    /\ ref \in [Jobs -> LockIds \union {NoLock}]
    /\ dict \in Seq([conv : Conversations, lock : LockIds])
    /\ Len(dict) <= MaxLocks

\* Two runs of one conversation never overlap: the check for a message that
\* was delivered already and the send are not raced by another run.
ConversationMutex ==
    \A j, k \in Jobs :
        /\ j /= k /\ Conversation[j] = Conversation[k]
        /\ task[j] \in Running
        => task[k] \notin Running

\* No run works on a message whose deletion has been recorded, and no click,
\* scan or late failure revives its job.
CancelledStaysOut ==
    \A j \in Jobs : cancelled[j] => row[j] /= "pending" /\ task[j] \notin Running

\* A job that was completed is over: no stale scan runs it, and no late
\* failure brings its row back.
DoneIsFinal ==
    [][\A j \in Jobs : row[j] = "done" =>
          /\ row'[j] = "done"
          /\ task[j] = "locked" => task'[j] /= "run"]_vars

\* A webhook that was accepted is settled: its job is done or has failed.
Settles == \A j \in Jobs : row[j] = "pending" ~> row[j] \in {"done", "failed"}

\* "Consume clicks received while a job is already pending too; delayed
\* redelivery of that webhook cannot refill its budget": an identifier that a
\* pending job consumed stays consumed.
ClickConsumed == [][\A j \in Jobs : row[j] = "pending" =>
                       consumed[j] \subseteq consumed'[j]]_vars
===============================================================================
