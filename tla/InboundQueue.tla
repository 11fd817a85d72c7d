----------------------------- MODULE InboundQueue -----------------------------
(***************************************************************************)
(* The durable inbound queue of the personal account platforms             *)
(* (application/messaging/polling.py): the poll loop that commits native   *)
(* updates to inbound_event_retries before anything else happens to them,  *)
(* and the drainer that delivers the rows to Chatwoot, one at a time and   *)
(* in order within a stream.                                               *)
(*                                                                         *)
(* Bale pushes frames into a queue in memory; Eitaa is asked for the       *)
(* difference since a cursor, which moves when the difference is queued.   *)
(* One instance is modelled.  Its events are numbered in the order the     *)
(* platform produced them; what they are is a history, chosen at the start *)
(* among those of the run.                                                 *)
(***************************************************************************)
EXTENDS Naturals, FiniteSets, Sequences, SequencesExt

CONSTANTS
    NumEvents,
    Histories,    \* what the platform may produce
    MaxFaults,    \* bound: failures and restarts
    MaxRepeats    \* bound: frames Bale sends once more

Events == 1..NumEvents

\* A history gives the platform, and of each event whether it is a message,
\* the confirmation of a send or a deletion, its chat, and the message a
\* confirmation or a deletion is about.
IsHistory(h) ==
    /\ h.platform \in {"bale", "eitaa"}
    /\ h.kind \in [Events -> {"message", "confirmation", "deletion"}]
    /\ DOMAIN h.peer = Events
    /\ h.original \in [Events -> Events \union {0}]
    /\ \A e \in Events : h.kind[e] = "message" <=> h.original[e] = 0
    /\ \A e \in Events : h.kind[e] = "deletion" =>
          /\ h.original[e] < e /\ h.kind[h.original[e]] = "message"
          /\ h.peer[h.original[e]] = h.peer[e]
    /\ h.platform = "bale" => \A e \in Events : h.kind[e] = "message"

\* What the constants have to be; the module that gives them values assumes it.
InboundAssumption ==
    /\ NumEvents \in Nat
    /\ \A h \in Histories : IsHistory(h)
    /\ MaxFaults \in Nat /\ MaxRepeats \in Nat

\* The stream of events that name no chat.
Nobody == "instance"

VARIABLES
    history,   \* never changes
    produced,  \* the platform has produced 1..produced
    \* The poll loop and the connector, in memory.
    inbox,     \* message_queue of the Bale connector
    batch,     \* fetched and not committed yet
    lost,      \* history: Bale's events lost before they were queued
    fetched,   \* pending_update_state of the Eitaa connector
    state,     \* its update_state
    \* The database.
    cursor,    \* last_platform_update_id
    rows,      \* inbound_event_retries, in the order of created_at
    mapped,    \* events whose effect is recorded
    \* The drainer.
    todo,      \* what is left of its snapshot of the rows
    blocked,   \* blocked_streams
    stage,     \* idle, next, ingest, posted, handled
    \* Chatwoot.
    copies,    \* bubbles created for each event
    \* Bounds.
    faults, repeats

intakeVars == <<inbox, batch, lost, fetched, state>>
drainVars  == <<todo, blocked, stage>>
boundVars  == <<faults, repeats>>
vars == <<history, produced, intakeVars, cursor, rows, mapped, drainVars,
          copies, boundVars>>

-------------------------------------------------------------------------------
Platform == history.platform
Kind     == history.kind
Peer     == history.peer
Original == history.original

Queued == {rows[i].event : i \in DOMAIN rows}
Waiting == Queued \union Range(batch) \union Range(inbox)

Fault == faults < MaxFaults /\ faults' = faults + 1 /\ UNCHANGED repeats

Init ==
    /\ history \in Histories
    /\ produced = 0
    /\ inbox = <<>> /\ batch = <<>> /\ lost = {} /\ fetched = 0 /\ state = 0
    /\ cursor = 0 /\ rows = <<>> /\ mapped = {}
    /\ todo = <<>> /\ blocked = {} /\ stage = "idle"
    /\ copies = [e \in Events |-> 0]
    /\ faults = 0 /\ repeats = 0

-------------------------------------------------------------------------------
(* The platform.                                                           *)

Produce ==
    /\ produced < NumEvents
    /\ produced' = produced + 1
    /\ inbox' = IF Platform = "bale" THEN Append(inbox, produced') ELSE inbox
    /\ UNCHANGED <<history, batch, lost, fetched, state, cursor, rows, mapped,
                   drainVars, copies, boundVars>>

\* Bale sends a frame that was received already.
Repeat(e) ==
    /\ Platform = "bale" /\ e \in Waiting \union mapped
    /\ repeats < MaxRepeats /\ repeats' = repeats + 1
    /\ inbox' = Append(inbox, e)
    /\ UNCHANGED <<history, produced, batch, lost, fetched, state, cursor, rows,
                   mapped, drainVars, copies, faults>>

-------------------------------------------------------------------------------
(* The poll loop.                                                          *)

\* A set of numbers as a sequence, in order: there is one.
Ascending(S) ==
    {s \in [1..Cardinality(S) -> S] :
        Range(s) = S /\ \A i, k \in DOMAIN s : i < k => s[i] < s[k]}

OfKind(events, kind) == Ascending({e \in events : Kind[e] = kind})

\* Fetches what Bale pushed, or a difference of any length: confirmations
\* first, deletions last.
Fetch ==
    /\ batch = <<>>
    /\ \/ /\ Platform = "bale" /\ inbox /= <<>>
          /\ batch' = inbox /\ inbox' = <<>>
          /\ UNCHANGED fetched
       \/ /\ Platform = "eitaa"
          /\ \E upTo \in state+1..produced :
             \E confirmations \in OfKind(state+1..upTo, "confirmation"),
                messages \in OfKind(state+1..upTo, "message"),
                deletions \in OfKind(state+1..upTo, "deletion") :
                /\ fetched' = upTo
                /\ batch' = confirmations \o messages \o deletions
          /\ UNCHANGED inbox
    /\ UNCHANGED <<history, produced, lost, state, cursor, rows, mapped, drainVars,
                   copies, boundVars>>

\* _retry_stream_key: Eitaa names the chat of a confirmation or a deletion
\* only when the message it is about came in the same difference.
Stream(e) ==
    IF Kind[e] = "message" \/ Original[e] \in Range(batch) THEN Peer[e] ELSE Nobody

\* An event whose row is waiting is not queued again: where in the batch the
\* others are, for the first time.
Unqueued ==
    {i \in DOMAIN batch : batch[i] \notin Queued /\ \A k \in 1..i-1 : batch[k] /= batch[i]}

Enqueue(e) == [event |-> e, stream |-> Stream(e), due |-> TRUE]

\* _persist_bale_updates: one transaction for the batch and Eitaa's cursor.
Persist ==
    /\ batch /= <<>>
    /\ \E new \in Ascending(Unqueued) :
          rows' = rows \o [n \in DOMAIN new |-> Enqueue(batch[new[n]])]
    /\ batch' = <<>>
    /\ IF Platform = "eitaa" THEN cursor' = fetched /\ state' = fetched
                             ELSE UNCHANGED <<cursor, state>>
    /\ UNCHANGED <<history, produced, inbox, lost, fetched, mapped, drainVars,
                   copies, boundVars>>

\* Mutant: the failure is swallowed, and the batch acknowledged.
PersistFailsUnseen ==
    /\ batch /= <<>>
    /\ Fault
    /\ batch' = <<>> /\ cursor' = fetched /\ state' = fetched
    /\ UNCHANGED <<history, produced, inbox, lost, fetched, rows, mapped, drainVars,
                   copies>>

\* The transaction fails: the batch is kept, by the loop (Bale) or by the
\* connector (Eitaa), and tried again; but if writing the error down fails
\* too, the loop's task ends, and its batch is lost (BalePvSession).
PersistFails ==
    /\ batch /= <<>>
    /\ Fault
    /\ \/ UNCHANGED <<batch, lost>>
       \/ /\ Platform = "bale"
          /\ batch' = <<>> /\ lost' = lost \union (Range(batch) \ Queued)
    /\ UNCHANGED <<history, produced, inbox, fetched, state, cursor, rows,
                   mapped, drainVars, copies>>

-------------------------------------------------------------------------------
(* _drain_retry_queue: one pass over a snapshot of the rows.               *)

DrainStart ==
    /\ stage = "idle"
    /\ todo' = rows /\ blocked' = {} /\ stage' = "next"
    /\ UNCHANGED <<history, produced, intakeVars, cursor, rows, mapped, copies,
                   boundVars>>

\* A deletion of a message in a chat it does not name stops a pass in which
\* anything is blocked: the message may be.
Overtaking ==
    /\ todo /= <<>> /\ blocked /= {}
    /\ Kind[Head(todo).event] = "deletion" /\ Head(todo).stream = Nobody

DrainStop ==
    /\ stage = "next"
    /\ (todo = <<>> \/ Overtaking)
    /\ todo' = <<>> /\ stage' = "idle"
    /\ UNCHANGED <<history, produced, intakeVars, cursor, rows, mapped,
                   blocked, copies, boundVars>>

\* Nothing is delivered behind an earlier event of its stream that waits.
Pass ==
    /\ stage = "next" /\ todo /= <<>> /\ ~Overtaking
    /\ (Head(todo).stream \in blocked \/ ~Head(todo).due)
    /\ blocked' = blocked \union {Head(todo).stream}
    /\ todo' = Tail(todo)
    /\ UNCHANGED <<history, produced, intakeVars, cursor, rows, mapped, stage,
                   copies, boundVars>>

\* Mutant: whatever is due is delivered.
BeginDue ==
    /\ stage = "next" /\ todo /= <<>> /\ ~Overtaking /\ Head(todo).due
    /\ stage' = "ingest"
    /\ UNCHANGED <<history, produced, intakeVars, cursor, rows, mapped, todo,
                   blocked, copies, boundVars>>

Begin ==
    /\ stage = "next" /\ todo /= <<>> /\ ~Overtaking
    /\ Head(todo).stream \notin blocked /\ Head(todo).due
    /\ stage' = "ingest"
    /\ UNCHANGED <<history, produced, intakeVars, cursor, rows, mapped, todo,
                   blocked, copies, boundVars>>

-------------------------------------------------------------------------------
(* _retry_queued_event and ChatwootBridgeService.ingest_platform_event.    *)

Current == Head(todo).event

\* An event is a duplicate when its mapping is committed, or that of the send
\* it echoes.
Duplicate(e) ==
    e \in mapped \/ \E c \in mapped : Kind[c] = "confirmation" /\ Original[c] = e

\* A message is posted to Chatwoot, a deletion of a mapped message applied.
Post ==
    /\ stage = "ingest"
    /\ IF Duplicate(Current) THEN stage' = "handled" ELSE stage' = "posted"
    /\ copies' = IF Kind[Current] = "message" /\ ~Duplicate(Current)
                 THEN [copies EXCEPT ![Current] = @ + 1] ELSE copies
    /\ UNCHANGED <<history, produced, intakeVars, cursor, rows, mapped, todo,
                   blocked, boundVars>>

\* The mapping, the receipt or the deletion is committed.
Commit ==
    /\ stage = "posted"
    /\ mapped' = mapped \union {Current}
    /\ stage' = "handled"
    /\ UNCHANGED <<history, produced, intakeVars, cursor, rows, todo, blocked,
                   copies, boundVars>>

\* An event has one row.
DeleteRow(e) == \E i \in DOMAIN rows : rows[i].event = e /\ rows' = RemoveAt(rows, i)

\* The row of a delivered event is deleted.
Delivered ==
    /\ stage = "handled"
    /\ DeleteRow(Current)
    /\ todo' = Tail(todo) /\ stage' = "next"
    /\ UNCHANGED <<history, produced, intakeVars, cursor, mapped, blocked,
                   copies, boundVars>>

\* Mutant: an event whose delivery failed is dropped.
DeliveryFailsDropping ==
    /\ stage \in {"ingest", "posted", "handled"}
    /\ Fault
    /\ DeleteRow(Current)
    /\ blocked' = blocked \union {Head(todo).stream}
    /\ todo' = Tail(todo) /\ stage' = "next"
    /\ UNCHANGED <<history, produced, intakeVars, cursor, mapped, copies>>

\* Otherwise it stays and backs off, unless that cannot be written either.
DeliveryFails ==
    /\ stage \in {"ingest", "posted", "handled"}
    /\ Fault
    /\ rows' \in {rows, [i \in DOMAIN rows |->
                           IF rows[i].event = Current
                           THEN [rows[i] EXCEPT !.due = FALSE] ELSE rows[i]]}
    /\ blocked' = blocked \union {Head(todo).stream}
    /\ todo' = Tail(todo) /\ stage' = "next"
    /\ UNCHANGED <<history, produced, intakeVars, cursor, mapped, copies>>

\* The backoff of a row ends.
Tick(e) ==
    /\ \E i \in DOMAIN rows : rows[i].event = e /\ ~rows[i].due
    /\ rows' = [i \in DOMAIN rows |->
                  IF rows[i].event = e THEN [rows[i] EXCEPT !.due = TRUE]
                                       ELSE rows[i]]
    /\ UNCHANGED <<history, produced, intakeVars, cursor, mapped, drainVars,
                   copies, boundVars>>

\* The process stops and starts again; Eitaa goes on from the stored cursor.
Restart ==
    /\ Fault
    /\ lost' = IF Platform = "bale" THEN lost \union (Waiting \ Queued) ELSE lost
    /\ inbox' = <<>> /\ batch' = <<>> /\ fetched' = cursor /\ state' = cursor
    /\ todo' = <<>> /\ blocked' = {} /\ stage' = "idle"
    /\ UNCHANGED <<history, produced, cursor, rows, mapped, copies>>

-------------------------------------------------------------------------------
Drain ==
    \/ DrainStart \/ DrainStop \/ Pass \/ Begin \/ Post \/ Commit \/ Delivered

Next ==
    \/ Produce \/ (\E e \in Events : Repeat(e) \/ Tick(e))
    \/ Fetch \/ Persist \/ PersistFails
    \/ Drain \/ DeliveryFails \/ Restart

Spec == Init /\ [][Next]_vars

\* Both loops run for ever, and time passes.
FairSpec ==
    /\ Spec
    /\ WF_vars(Fetch) /\ WF_vars(Persist) /\ WF_vars(Drain)
    /\ \A e \in Events : WF_vars(Tick(e))

-------------------------------------------------------------------------------
(* Properties.                                                             *)

\* The type invariant; no two rows have the same identifier.
Row == [event : Events, stream : Range(Peer) \union {Nobody}, due : BOOLEAN]

TypeOK ==
    /\ history \in Histories
    /\ produced \in 0..NumEvents
    /\ inbox \in Seq(Events) /\ batch \in Seq(Events)
    /\ cursor \in 0..produced /\ state = cursor /\ fetched \in cursor..produced
    /\ rows \in Seq(Row) /\ todo \in Seq(Row)
    /\ \A i, k \in DOMAIN rows : rows[i].event = rows[k].event => i = k
    /\ mapped \subseteq Events
    /\ stage \in {"idle", "next", "ingest", "posted", "handled"}
    /\ stage \notin {"idle", "next"} => todo /= <<>>
    /\ copies \in [Events -> Nat]

\* Chatwoot shows the messages of a chat in their order: none is posted while
\* an earlier one of its chat is known and still waits.  (One that was lost
\* with the loop's task and comes again, comes late.)  Nor is the deletion of a
\* message dealt with before the message, which would stay in Chatwoot.
PeerOrder ==
    /\ \A e, f \in Events :
        /\ e < f /\ Peer[e] = Peer[f]
        /\ Kind[e] = "message" /\ Kind[f] = "message"
        /\ copies[f] > 0
        => e \notin Waiting \ lost \/ copies[e] > 0 \/ Duplicate(e)
    /\ \A d \in mapped : Kind[d] = "deletion" => Duplicate(Original[d])

\* What Eitaa's cursor has passed is queued or delivered, whatever fails; and
\* what Bale pushed, unless it was lost with the loop's task or the process.
NothingSkipped ==
    /\ Platform = "eitaa" => \A e \in 1..cursor : e \in Queued \/ Duplicate(e)
    /\ Platform = "bale" =>
          \A e \in 1..produced : e \in Waiting \union lost \/ Duplicate(e)

\* What is queued, and what Eitaa produced, is delivered: again and again, the
\* queue is worked off.  (Bale's frames are in memory only until they are
\* queued.)
WorkedOff ==
    /\ \A e \in Queued : Duplicate(e)
    /\ Platform = "eitaa" => \A e \in 1..produced : Duplicate(e)

===============================================================================
