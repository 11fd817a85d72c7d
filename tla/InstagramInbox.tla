--------------------------- MODULE InstagramInbox ---------------------------
(***************************************************************************)
(* What an Instagram account receives, on its way to Chatwoot:             *)
(*                                                                         *)
(*   plugins/instagram/polling_service.py   the poll task of the instance  *)
(*                                          and the queue it retries from  *)
(*   plugins/instagram/connector.py         the sessions, and how far each *)
(*                                          thread of the inbox was read   *)
(*                                                                         *)
(* Instagram keeps every message.  A fetch returns those ahead of a mark   *)
(* per thread; the marks it moves are staged, and a commit, after the      *)
(* batch was delivered, makes them the session's marks and writes them to  *)
(* a file, which the next session reads.  A thread without a mark is read  *)
(* from "since", the time the first session was made, also in the file; the *)
(* account was connected before, so there is a file.                       *)
(*                                                                         *)
(* A session object (InstagramPvInstanceRuntime) is an element of rts, and *)
(* cur is the one the connector knows; a request that began with another   *)
(* goes on with it.  The messages are 1, 2, ... in the order of their time *)
(* and their identifiers, and a time is the number of them produced.       *)
(* Names in brackets are lines of connector.py, "P" of polling_service.py. *)
(***************************************************************************)
EXTENDS Naturals, Sequences, SequencesExt

CONSTANTS
    ThreadOf,     \* the thread of each message
    Silent,       \* the messages that are not bridged (_SKIP_ITEM_TYPES, self)
    Faults,       \* what may fail
    MaxRuntimes,  \* bound: session objects
    MaxCalls,     \* bound: calls of the panel
    MaxFaults     \* bound: failures

Messages == DOMAIN ThreadOf
Threads == {ThreadOf[m] : m \in Messages}
FaultKinds == {"login", "session", "delivery", "report", "file", "restart"}

\* What the constants have to be; the module that gives them values assumes it.
InboxAssumption ==
    /\ Messages = 1..Len(ThreadOf)
    /\ Silent \subseteq Messages /\ Faults \subseteq FaultKinds
    /\ {MaxRuntimes, MaxCalls, MaxFaults} \subseteq Nat

VARIABLES
    produced,    \* the messages 1..produced were sent to the account
    file,        \* the watermark file
    rts, cur,    \* the session objects; the connector's, 0 without one
    enabled,     \* the instance is enabled
    registered,  \* the adapter is registered with the runtime registry
    running,     \* the poll task runs
    pc, rt, why, \* of the poll task and of the panel: where it is, the
                 \* session object it holds, what it connects for
    batch,       \* fetched and not yet delivered
    queue,       \* _pending_events: to be delivered again
    got,         \* history: the messages in Chatwoot, in order
    dropped,     \* history: what the failures named below lost
    calls, faults

clientVars == <<file, rts, cur>>
taskVars == <<batch, queue>>
switches == <<enabled, registered, running>>
spending == <<calls, faults>>
vars == <<produced, clientVars, switches, pc, rt, why, taskVars, got, dropped, spending>>

Unread == [th \in Threads |-> 0]
Fails(kind) == kind \in Faults /\ faults < MaxFaults /\ faults' = faults + 1
Works == UNCHANGED faults

InboxInit ==
    /\ produced = 0
    /\ file = [since |-> 0, wm |-> Unread]
    /\ rts = <<>> /\ cur = 0
    /\ enabled = TRUE /\ registered = FALSE /\ running = FALSE
    /\ pc = [poll |-> "top", panel |-> "idle"]
    /\ rt = [poll |-> 0, panel |-> 0]
    /\ why = [poll |-> "poll", panel |-> "check"]
    /\ batch = <<>> /\ queue = <<>> /\ got = <<>>
    /\ dropped = {}
    /\ calls = 0 /\ faults = 0

Goes(a, to) == pc' = [pc EXCEPT ![a] = to]
Calls == calls < MaxCalls /\ calls' = calls + 1

-----------------------------------------------------------------------------
(* The marks. *)

SessionObject == [since |-> produced, wm |-> Unread, staged |-> Unread, auth |-> FALSE]
Live(i) == i # 0 /\ rts[i].auth

\* The mark of a thread, 0 without one, and what is ahead of it.
Mark(i, th) == IF rts[i].staged[th] # 0 THEN rts[i].staged[th] ELSE rts[i].wm[th]
Ahead(m, mark, since) == IF mark # 0 THEN m > mark ELSE m > since

Undelivered == (1..produced) \ (Range(got) \union Silent)
Passed(m) == ~Ahead(m, file.wm[ThreadOf[m]], file.since)

\* Mutant of Writes: what is staged is written before it is committed.
WritesStaged(s) ==
    /\ file' = [since |-> s.since, wm |-> [th \in Threads |-> IF s.staged[th] # 0 THEN s.staged[th] ELSE s.wm[th]]]
    /\ Works

\* A session that did not read the file, because its login failed or is under
\* way, or because the file could not be read, goes by its own start: what was
\* not delivered before that is history to it.
Skipped(s) == IF s.since > file.since THEN Undelivered ELSE {}

\* _persist_watermarks, whose failures are only logged (497-516).
Writes(s) == file' = [since |-> s.since, wm |-> s.wm] /\ Works
Persists(s) ==
    \/ Writes(s) /\ dropped' = dropped \union Skipped(s)
    \/ Fails("file") /\ UNCHANGED <<file, dropped>>

\* commit_updates (518-532), of whatever session the connector has.
Merged(s) ==
    [s EXCEPT !.wm = [th \in Threads |-> IF s.staged[th] # 0 THEN s.staged[th] ELSE @[th]],
              !.staged = Unread]
Commits ==
    IF cur = 0 THEN UNCHANGED <<file, rts, dropped, faults>>
    ELSE rts' = [rts EXCEPT ![cur] = Merged(@)] /\ Persists(Merged(rts[cur]))

-----------------------------------------------------------------------------
(* connect, called by the task, by its adapter and by the panel. *)

Returned(a, ok) ==
    /\ Goes(a, CASE why[a] = "poll" -> IF ok THEN "registers" ELSE "top"
                 [] why[a] = "adapter" -> "drains"
                 [] why[a] = "check" -> IF ok THEN "probes" ELSE "idle"
                 [] why[a] = "reconnect" -> "idle")
    /\ registered' = (registered \/ (why[a] = "adapter" /\ ok))

\* A session that is authenticated is used as it is, unless the credentials
\* or the proxy were changed; otherwise the caller waits for the lock.
Connect(a) ==
    LET i == IF cur = 0 THEN Len(rts) + 1 ELSE cur
        old == IF cur = 0 THEN Append(rts, SessionObject) ELSE rts
    IN  /\ pc[a] = "ask" /\ i <= MaxRuntimes
        /\ cur' = i
        /\ \/ /\ old[i].auth /\ Returned(a, TRUE)
              /\ UNCHANGED <<rts, rt, calls>>
           \/ /\ IF old[i].auth THEN Calls ELSE UNCHANGED calls
              /\ rts' = [old EXCEPT ![i].auth = FALSE]
              /\ Goes(a, "login") /\ rt' = [rt EXCEPT ![a] = i]
              /\ UNCHANGED registered
        /\ UNCHANGED <<produced, file, enabled, running, why, taskVars, got, dropped, faults>>

\* The rest of connect runs under the lock of the session (265-385).  A login
\* makes the session one to be used and drops what is staged; then the account
\* is asked for, and the file read (_load_watermarks, 473-495: without it the
\* session goes on with the marks it has).
Unlocked(i) == \A b \in {"poll", "panel"} : ~(pc[b] = "verifies" /\ rt[b] = i)
Other == <<produced, file, cur, enabled, running, rt, why, taskVars, got, dropped, calls>>
LoginSucceeds(a) ==
    /\ pc[a] = "login" /\ Unlocked(rt[a]) /\ Works
    /\ rts' = [rts EXCEPT ![rt[a]] = [@ EXCEPT !.staged = Unread, !.auth = TRUE]]
    /\ Goes(a, "verifies")
    /\ UNCHANGED registered /\ UNCHANGED Other
LoginFails(a) ==
    /\ pc[a] = "login" /\ Unlocked(rt[a]) /\ Fails("login")
    /\ rts' = [rts EXCEPT ![rt[a]].auth = FALSE]
    /\ Returned(a, FALSE)
    /\ UNCHANGED Other
Verified(a) ==
    /\ pc[a] = "verifies"
    /\ \/ Works /\ rts' = [rts EXCEPT ![rt[a]] = [@ EXCEPT !.since = file.since, !.wm = file.wm]]
       \/ Fails("file") /\ UNCHANGED rts
    /\ Returned(a, TRUE)
    /\ UNCHANGED Other
VerificationFails(a) ==
    /\ pc[a] = "verifies" /\ Fails("login")
    /\ rts' = [rts EXCEPT ![rt[a]].auth = FALSE]
    /\ Returned(a, FALSE)
    /\ UNCHANGED Other

-----------------------------------------------------------------------------
(* The poll task, _run_instance (P163-317). *)

Task(from) == running /\ pc.poll = from
Calm == UNCHANGED <<produced, switches, calls>>

Polls ==
    /\ Task("top") /\ enabled
    /\ Goes("poll", "ask") /\ why' = [why EXCEPT !.poll = "poll"]
    /\ UNCHANGED <<clientVars, rt, taskVars, got, dropped, faults>> /\ Calm

Registers ==
    /\ Task("registers")
    /\ IF registered THEN Goes("poll", "drains") /\ UNCHANGED why
       ELSE Goes("poll", "ask") /\ why' = [why EXCEPT !.poll = "adapter"]
    /\ UNCHANGED <<clientVars, rt, taskVars, got, dropped, faults>> /\ Calm

\* _deliver_update (P323-350); the bridge absorbs a message it has posted.
Delivered(m) == registered /\ Works /\ got' = IF m \in Range(got) THEN got ELSE Append(got, m)
Refused == UNCHANGED got /\ (Fails("delivery") \/ (~registered /\ Works))

\* _drain_pending (P352-415): the queue in order, then a commit.
Drains ==
    /\ Task("drains")
    /\ \/ queue = <<>> /\ Goes("poll", "gets") /\ UNCHANGED <<queue, got, faults>>
       \/ /\ queue # <<>>
          /\ \/ Delivered(Head(queue)) /\ queue' = Tail(queue) /\ Goes("poll", "drained")
             \/ Refused /\ UNCHANGED queue /\ Goes("poll", "top")
    /\ UNCHANGED <<clientVars, rt, why, batch, dropped>> /\ Calm
\* The runtime state is written after each; an error ends the iteration.
Drained ==
    /\ Task("drained")
    /\ \/ Fails("report") /\ Goes("poll", "top") /\ UNCHANGED <<file, rts, dropped>>
       \/ queue # <<>> /\ Works /\ Goes("poll", "drains") /\ UNCHANGED <<file, rts, dropped>>
       \/ queue = <<>> /\ Commits /\ Goes("poll", "gets")
    /\ UNCHANGED <<cur, rt, why, taskVars, got>> /\ Calm

\* get_updates (923-986), which waits for the lock before it lists the inbox
\* (998), and not while the marks are moved.
GetUpdates ==
    /\ Task("gets")
    /\ IF Live(cur)
       THEN Goes("poll", IF Unlocked(cur) THEN "fetches" ELSE "waits") /\ rt' = [rt EXCEPT !.poll = cur]
       ELSE Goes("poll", "top") /\ UNCHANGED rt
    /\ UNCHANGED <<clientVars, why, taskVars, got, dropped, faults>> /\ Calm
Waited ==
    /\ Task("waits") /\ Unlocked(rt.poll) /\ Goes("poll", "fetches")
    /\ UNCHANGED <<clientVars, rt, why, taskVars, got, dropped, faults>> /\ Calm

\* _fetch_new_messages (988-1116).  The inbox shows the threads in "seen": the
\* latest twenty, without the requests when an answer waits to be sent.
Newer(i, seen) ==
    {m \in 1..produced : ThreadOf[m] \in seen /\ Ahead(m, Mark(i, ThreadOf[m]), rts[i].since)}
Newest(i, seen) ==
    [th \in Threads |->
        LET read == {m \in 1..produced : ThreadOf[m] = th}
        IN  IF th \notin seen \/ read = {} THEN rts[i].staged[th]
            ELSE CHOOSE m \in read : \A k \in read : k <= m]
\* The messages of a set in their order: there is one sequence of them.
Sorted(S) == {s \in [1..Cardinality(S) -> S] :
                 Range(s) = S /\ \A i, k \in DOMAIN s : i < k => s[i] < s[k]}
Fetched ==
    /\ Task("fetches")
    /\ \E seen \in SUBSET Threads :
         /\ batch' \in Sorted(Newer(rt.poll, seen) \ Silent)
         /\ rts' = [rts EXCEPT ![rt.poll].staged = Newest(rt.poll, seen)]
    /\ Writes(rts[rt.poll]) \/ (Fails("file") /\ UNCHANGED file)
    /\ dropped' = dropped \union Skipped(rts[rt.poll])
    /\ Goes("poll", "delivers")
    /\ UNCHANGED <<cur, rt, why, queue, got>> /\ Calm
FetchFails ==
    /\ Task("fetches") /\ Fails("session") /\ Goes("poll", "top")
    /\ \E expired \in BOOLEAN : rts' = [rts EXCEPT ![rt.poll].auth = @ /\ ~expired]
    /\ UNCHANGED <<file, cur, rt, why, taskVars, got, dropped>> /\ Calm

\* Mutant of Requeued: the update that failed is queued behind the rest.
RequeuedLast == queue \o Tail(batch) \o <<Head(batch)>>

\* The batch (P238-300): what fails is queued with the rest of the batch.
Requeued == queue \o batch
Delivers ==
    /\ Task("delivers")
    /\ \/ /\ batch = <<>> /\ Goes("poll", "top")
          /\ IF queue = <<>> THEN Commits ELSE UNCHANGED <<file, rts, dropped, faults>>
          /\ UNCHANGED <<taskVars, got>>
       \/ /\ batch # <<>> /\ Delivered(Head(batch))
          /\ batch' = Tail(batch) /\ Goes("poll", "noted")
          /\ UNCHANGED <<file, rts, queue, dropped>>
       \/ /\ batch # <<>> /\ Refused
          /\ queue' = Requeued /\ batch' = <<>> /\ Goes("poll", "top")
          /\ UNCHANGED <<file, rts, dropped>>
    /\ UNCHANGED <<cur, rt, why>> /\ Calm
\* The runtime state is written; its error ends the iteration, and the rest of
\* the batch is in no queue although its marks are staged.
Noted ==
    /\ Task("noted")
    /\ \/ Works /\ Goes("poll", "delivers") /\ UNCHANGED <<batch, dropped>>
       \/ /\ Fails("report") /\ Goes("poll", "top")
          /\ batch' = <<>> /\ dropped' = dropped \union Range(batch)
    /\ UNCHANGED <<clientVars, rt, why, queue, got>> /\ Calm

-----------------------------------------------------------------------------
(* The manager (P113-147): a disabled instance loses its task and its queue, *)
(* and its adapter is disconnected when there is one.  Without one (it was   *)
(* disconnected when the instance was disabled) the session stays, with the  *)
(* marks it staged for what was in the batch or in the queue.                *)

ManagerStarts ==
    /\ enabled /\ ~running /\ running' = TRUE
    /\ UNCHANGED <<produced, clientVars, enabled, registered, pc, rt, why, taskVars, got,
                   dropped, spending>>
ManagerStops ==
    /\ ~enabled /\ running /\ running' = FALSE
    /\ batch' = <<>> /\ queue' = <<>> /\ Goes("poll", "top")
    /\ IF registered /\ cur # 0
       THEN Persists(rts[cur]) /\ cur' = 0
       ELSE /\ dropped' = dropped \union Range(batch) \union Range(queue)
            /\ UNCHANGED <<file, cur, faults>>
    /\ registered' = FALSE
    /\ UNCHANGED <<produced, rts, enabled, rt, why, got, calls>>

-----------------------------------------------------------------------------
(* The panel: Check (2030), Reconnect (1401), and the switch of the instance *)
(* (_handler_controller.py).                                                 *)

Panel(from) == pc.panel = from
Check ==
    /\ Panel("idle") /\ Calls
    /\ Goes("panel", "ask") /\ why' = [why EXCEPT !.panel = "check"]
    /\ UNCHANGED <<produced, clientVars, switches, rt, taskVars, got, dropped, faults>>
Probed ==
    /\ Panel("probes") /\ Unlocked(cur) /\ Goes("panel", "idle")
    /\ \/ Works /\ UNCHANGED rts
       \/ cur # 0 /\ Fails("session") /\ rts' = [rts EXCEPT ![cur].auth = FALSE]
    /\ UNCHANGED <<produced, file, cur, switches, rt, why, taskVars, got, dropped, calls>>

\* disconnect takes the session away, then writes it (412-422).
Leaves(reason) ==
    /\ cur' = 0
    /\ rt' = [rt EXCEPT !.panel = cur]
    /\ why' = [why EXCEPT !.panel = reason]
    /\ Goes("panel", IF cur # 0 THEN "dumps" ELSE IF reason = "reconnect" THEN "ask" ELSE "idle")
Reconnect ==
    /\ Panel("idle") /\ Calls /\ Leaves("reconnect")
    /\ UNCHANGED <<produced, file, rts, switches, taskVars, got, dropped, faults>>
Dumped ==
    /\ Panel("dumps") /\ Goes("panel", IF why.panel = "reconnect" THEN "ask" ELSE "idle")
    /\ Persists(rts[rt.panel])
    /\ UNCHANGED <<produced, rts, cur, switches, rt, why, taskVars, got, calls>>
Disable ==
    /\ Panel("idle") /\ Calls /\ enabled /\ enabled' = FALSE /\ registered' = FALSE
    /\ IF registered THEN Leaves("disable") ELSE UNCHANGED <<cur, pc, rt, why>>
    /\ UNCHANGED <<produced, file, rts, running, taskVars, got, dropped, faults>>
Enable ==
    /\ ~enabled /\ enabled' = TRUE
    /\ UNCHANGED <<produced, clientVars, registered, running, pc, rt, why, taskVars, got,
                   dropped, spending>>

-----------------------------------------------------------------------------
MessageSent ==
    /\ produced < Len(ThreadOf) /\ produced' = produced + 1
    /\ UNCHANGED <<clientVars, switches, pc, rt, why, taskVars, got, dropped, spending>>

\* The process ends; nothing of the connector is written then
\* (bootstrap/lifecycle.py stops the tasks only).
Restarts ==
    /\ Fails("restart")
    /\ cur' = 0 /\ registered' = FALSE /\ running' = FALSE
    /\ pc' = [poll |-> "top", panel |-> "idle"]
    /\ batch' = <<>> /\ queue' = <<>>
    /\ UNCHANGED <<produced, file, rts, enabled, rt, why, got, dropped, calls>>

Connecting ==
    \E a \in {"poll", "panel"} :
        \/ Connect(a) \/ LoginSucceeds(a) \/ LoginFails(a)
        \/ Verified(a) \/ VerificationFails(a)
InboxNext ==
    \/ Connecting
    \/ Polls \/ Registers \/ Drains \/ Drained \/ GetUpdates \/ Waited
    \/ Fetched \/ FetchFails \/ Delivers \/ Noted
    \/ ManagerStarts \/ ManagerStops
    \/ Check \/ Probed \/ Reconnect \/ Dumped \/ Disable \/ Enable
    \/ MessageSent \/ Restarts

InboxSpec == InboxInit /\ [][InboxNext]_vars

-----------------------------------------------------------------------------
\* What the file is past is in Chatwoot, whatever failed, restarted or was
\* clicked: a batch whose report failed is dropped, and a session that did not
\* read the file overwrites it (polling_service.py, connector.py).
NothingForgotten == \A m \in Undelivered : Passed(m) => m \in dropped

\* "a restart re-fetches anything not yet delivered (at-least-once semantics)"
\* (polling_service.py:18).
AtLeastOnce == \A m \in Undelivered : ~Passed(m)

\* The messages of a thread come to Chatwoot in their order.
InOrder ==
    got' # got =>
        \A m \in Undelivered :
            ThreadOf[m] = ThreadOf[Last(got')] /\ m < Last(got') => m \in dropped
OrderKept == [][InOrder]_vars
=============================================================================
