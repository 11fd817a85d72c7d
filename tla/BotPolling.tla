------------------------------ MODULE BotPolling ------------------------------
(***************************************************************************)
(* The poll loop of the bot platforms (BalePollingService._run_instance in *)
(* application/messaging/polling.py): updates are fetched from an offset,  *)
(* handled one by one, refetched a few times when handling fails and then  *)
(* left to the retry queue.  The offset is the higher of a mark in memory  *)
(* and one in the database.  One instance is modelled.                     *)
(***************************************************************************)
EXTENDS Naturals, FiniteSetsExt

CONSTANTS
    NumUpdates,         \* updates 1..NumUpdates will arrive
    MaxUpdateAttempts,  \* _MAX_UPDATE_ATTEMPTS, 3 in the code
    MaxFaults           \* bound: failures of the database, restarts

\* What the constants have to be; the module that gives them values assumes it.
PollingAssumption ==
    NumUpdates \in Nat /\ MaxUpdateAttempts \in Nat \ {0} /\ MaxFaults \in Nat

Updates == 1..NumUpdates

VARIABLES
    produced,  \* updates the platform has
    lastId,    \* _last_update_ids, the mark in memory
    stored,    \* last_platform_update_id, the mark in the database
    counts,    \* _update_fail_counts
    polling,   \* a batch is being worked on
    next,      \* the update of the batch whose turn it is
    upTo,      \* the last update of the batch
    maxDone,   \* max_processed_update
    handled,   \* updates handled to the end
    queued,    \* updates in the retry queue
    dropped,   \* updates the queue could not take
    faults

memoryVars == <<lastId, counts, polling, next, upTo, maxDone>>
vars == <<produced, stored, memoryVars, handled, queued, dropped, faults>>

-------------------------------------------------------------------------------
\* The next update asked for.
Offset == Max({lastId, stored}) + 1

Higher(a, b) == Max({a, b})

Fault == faults < MaxFaults /\ faults' = faults + 1

Init ==
    /\ produced = 0 /\ lastId = 0 /\ stored = 0
    /\ counts = [u \in Updates |-> 0]
    /\ polling = FALSE /\ next = 1 /\ upTo = 0 /\ maxDone = 0
    /\ handled = {} /\ queued = {} /\ dropped = {} /\ faults = 0

Produce ==
    /\ produced < NumUpdates
    /\ produced' = produced + 1
    /\ UNCHANGED <<stored, memoryVars, handled, queued, dropped, faults>>

\* get_updates returns the updates from the offset on, if there are any.
Fetch ==
    /\ ~polling
    /\ polling' = TRUE /\ next' = Offset /\ upTo' = produced
    /\ maxDone' = Offset - 1
    /\ UNCHANGED <<produced, stored, lastId, counts, handled, queued, dropped,
                   faults>>

\* The runtime state is written; or it is not, because SQLite stayed locked
\* over five attempts, or because of an error that ends the batch.
Store(mark) ==
    \/ stored' = mark /\ UNCHANGED <<polling, faults>>
    \/ Fault /\ UNCHANGED stored /\ polling' \in BOOLEAN

\* A processed update moves every mark up to itself.
Processed ==
    /\ maxDone' = Higher(maxDone, next)
    /\ lastId' = Higher(lastId, next)
    /\ Store(next)

Working == polling /\ next <= upTo

Handle ==
    /\ Working
    /\ handled' = handled \union {next}
    /\ counts' = [counts EXCEPT ![next] = 0]
    /\ Processed
    /\ next' = next + 1
    /\ UNCHANGED <<produced, upTo, queued, dropped>>

\* _handle_update_failure: the update is left to a later poll ...
HandleFails ==
    /\ Working
    /\ counts[next] + 1 < MaxUpdateAttempts
    /\ counts' = [counts EXCEPT ![next] = @ + 1]
    /\ next' = next + 1
    /\ UNCHANGED <<produced, stored, lastId, polling, upTo, maxDone, handled,
                   queued, dropped, faults>>

\* ... until its attempts are used up; then it is queued, and counts as done.
GivesUp ==
    /\ Working
    /\ counts[next] + 1 >= MaxUpdateAttempts
    /\ counts' = [counts EXCEPT ![next] = 0]
    /\ queued' = queued \union {next}
    /\ Processed
    /\ next' = next + 1
    /\ UNCHANGED <<produced, upTo, handled, dropped>>

\* Best effort: an update the queue cannot take is dropped.
GivesUpUnqueued ==
    /\ Working
    /\ counts[next] + 1 >= MaxUpdateAttempts
    /\ Fault
    /\ counts' = [counts EXCEPT ![next] = 0]
    /\ dropped' = dropped \union {next}
    /\ maxDone' = Higher(maxDone, next) /\ lastId' = Higher(lastId, next)
    /\ stored' = next
    /\ next' = next + 1
    /\ UNCHANGED <<produced, polling, upTo, handled, queued>>

\* Mutant: the whole batch counts as processed.
EndBatchAll ==
    /\ polling /\ next > upTo
    /\ lastId' = Higher(lastId, upTo) /\ stored' = upTo
    /\ polling' = FALSE
    /\ UNCHANGED <<produced, counts, next, upTo, maxDone, handled, queued,
                   dropped, faults>>

EndBatch ==
    /\ polling /\ next > upTo
    /\ lastId' = IF maxDone > 0 THEN Higher(lastId, maxDone) ELSE lastId
    /\ polling' = FALSE
    /\ \/ maxDone > 0 /\ stored' = maxDone /\ UNCHANGED faults
       \/ maxDone > 0 /\ Fault /\ UNCHANGED stored
       \/ maxDone = 0 /\ UNCHANGED <<stored, faults>>
    /\ UNCHANGED <<produced, counts, next, upTo, maxDone, handled, queued,
                   dropped>>

\* _retry_queued_event succeeds for a queued update.
Redeliver(u) ==
    /\ u \in queued
    /\ queued' = queued \ {u} /\ handled' = handled \union {u}
    /\ UNCHANGED <<produced, stored, memoryVars, dropped, faults>>

\* The process stops and starts again.
Restart ==
    /\ Fault
    /\ lastId' = 0 /\ counts' = [u \in Updates |-> 0] /\ polling' = FALSE
    /\ UNCHANGED <<produced, stored, next, upTo, maxDone, handled, queued,
                   dropped>>

-------------------------------------------------------------------------------
Poll == Fetch \/ Handle \/ HandleFails \/ GivesUp \/ EndBatch

Next ==
    \/ Produce \/ Poll \/ GivesUpUnqueued
    \/ (\E u \in Updates : Redeliver(u)) \/ Restart

Spec == Init /\ [][Next]_vars

\* The poll loop goes on for ever, whatever its handlers do.
FairSpec == Spec /\ WF_vars(Poll)

-------------------------------------------------------------------------------
(* Properties.                                                             *)

\* The type invariant, with how the marks and the batch are related.
TypeOK ==
    /\ produced \in 0..NumUpdates
    /\ lastId \in 0..produced /\ stored \in 0..produced
    /\ counts \in [Updates -> 0..MaxUpdateAttempts - 1]
    /\ polling \in BOOLEAN /\ maxDone \in 0..produced
    /\ polling => next \in Offset - 1..upTo + 1 /\ upTo \in 0..produced
    /\ handled \subseteq Updates /\ queued \subseteq Updates
    /\ dropped \subseteq Updates

Settled == handled \union queued \union dropped

\* An update behind the offset was settled, or a later one was: the loop
\* passes nothing over by itself, not after a restart and not when its marks
\* could not be written.
OnlyOvertaken ==
    \A u \in 1..Offset - 1 : \E v \in Settled : u <= v /\ v < Offset

\* "failed updates are refetched by the next poll instead of being skipped
\* silently": what is behind the offset was handled, queued or dropped.
NoneSkipped == 1..Offset - 1 \subseteq Settled
===============================================================================
