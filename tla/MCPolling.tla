------------------------------- MODULE MCPolling -------------------------------
(***************************************************************************)
(* The poll loops, their queue and the session they poll for TLC, checked  *)
(* in one run: "side" says which module moves, and what belongs to the     *)
(* others stays as it was initialized.                                     *)
(***************************************************************************)
EXTENDS Naturals, Sequences, FiniteSets

CONSTANTS
    ali, sara,              \* chats
    Pushes,                 \* what Bale pushes to the session
    Histories,              \* what the platform of the queue may send
    NumEvents, NumUpdates,  \* bounds: events of a history, updates of a bot
    MaxUpdateAttempts,      \* MAX_UPDATE_ATTEMPTS
    MaxRepeats, MaxFaults, MaxCalls, MaxDrops, SessionFaults  \* bounds of the components

VARIABLES side,
    produced, faults,
    history, inbox, batch, lost, fetched, state, cursor, rows, mapped,
    todo, blocked, stage, copies, repeats,
    lastId, stored, counts, polling, next, upTo, maxDone, handled, queued, dropped,
    row, saved, registered, current, rts, act, task, drained, kept, pushed,
    excused, calls, drops

\* Bale: three messages of two chats.
Frames ==
    [platform |-> "bale", kind |-> <<"message", "message", "message">>,
     peer |-> <<ali, sara, ali>>, original |-> <<0, 0, 0>>]

\* Eitaa: two messages of a chat, and the deletion of the first.
Recall ==
    [platform |-> "eitaa", kind |-> <<"message", "deletion", "message">>,
     peer |-> <<ali, ali, ali>>, original |-> <<0, 1, 0>>]

\* Eitaa: the confirmation of a send, the echo of what was sent, an answer.
Echo ==
    [platform |-> "eitaa", kind |-> <<"confirmation", "message", "message">>,
     peer |-> <<ali, ali, ali>>, original |-> <<2, 0, 0>>]

ThreeHistories == {Frames, Recall, Echo}

Queue == INSTANCE InboundQueue
Bot == INSTANCE BotPolling
Session == INSTANCE BalePvSession WITH Updates <- Pushes, MaxFaults <- SessionFaults

ASSUME PollingAssumption ==
    Queue!InboundAssumption /\ Bot!PollingAssumption /\ Session!SessionAssumption

queueOnly == <<history, inbox, batch, lost, fetched, state, cursor, rows, mapped,
               todo, blocked, stage, copies, repeats>>
botOnly == <<lastId, stored, counts, polling, next, upTo, maxDone, handled, queued, dropped>>
sessionOnly == <<row, saved, registered, current, rts, act, task, drained, kept,
                 pushed, excused, calls, drops>>
vars == <<side, produced, faults, queueOnly, botOnly, sessionOnly>>

NoQueue ==
    /\ history = Frames /\ inbox = <<>> /\ batch = <<>> /\ lost = {} /\ fetched = 0 /\ state = 0
    /\ cursor = 0 /\ rows = <<>> /\ mapped = {} /\ todo = <<>> /\ blocked = {}
    /\ stage = "idle" /\ copies = <<>> /\ repeats = 0
NoBot ==
    /\ lastId = 0 /\ stored = 0 /\ counts = <<>> /\ polling = FALSE /\ next = 1
    /\ upTo = 0 /\ maxDone = 0 /\ handled = {} /\ queued = {} /\ dropped = {}
NoSession ==
    /\ row = "off" /\ saved = FALSE /\ registered = FALSE /\ current = 0 /\ rts = <<>>
    /\ act = <<>> /\ task = "none" /\ drained = {} /\ kept = {} /\ pushed = {}
    /\ excused = {} /\ calls = 0 /\ drops = 0

Init ==
    \/ side = "queue" /\ Queue!Init /\ NoBot /\ NoSession
    \/ side = "bot" /\ Bot!Init /\ NoQueue /\ NoSession
    \/ side = "session" /\ Session!SessionInit /\ produced = 0 /\ NoQueue /\ NoBot

InQueue(A) == side = "queue" /\ A /\ UNCHANGED <<side, botOnly, sessionOnly>>
InBot(A) == side = "bot" /\ A /\ UNCHANGED <<side, queueOnly, sessionOnly>>
InSession(A) == side = "session" /\ A /\ UNCHANGED <<side, produced, queueOnly, botOnly>>

Next == InQueue(Queue!Next) \/ InBot(Bot!Next) \/ InSession(Session!SessionNext)

\* The loops run for ever, time passes, and the event loop's tasks go on: the
\* fairness of FairSpec and FairSession.  As a side never changes, one conjunct
\* stands for an action of each.
Spec ==
    /\ Init /\ [][Next]_vars
    /\ WF_vars(InQueue(Queue!Fetch) \/ InBot(Bot!Poll) \/ InSession(Session!Poll))
    /\ WF_vars(InQueue(Queue!Persist) \/ InSession(Session!ManagerStarts))
    /\ WF_vars(InQueue(Queue!Drain) \/ InSession(Session!Listener))
    /\ WF_vars(InQueue(\E e \in 1..NumEvents : Queue!Tick(e)) \/ InSession(Session!Panel))

\* Chatwoot shows a chat's messages in their order, and a deletion is not
\* dealt with before its message (polling.py, _drain_retry_queue).
PeerOrder == side = "queue" => Queue!PeerOrder

\* What Eitaa's cursor passed is queued or delivered (polling.py, _persist_bale_updates).
NothingSkipped == side = "queue" => Queue!NothingSkipped

\* Nothing is behind a bot's offset but what was settled or overtaken
\* (polling.py, _run_instance).
OnlyOvertaken == side = "bot" => Bot!OnlyOvertaken

\* Every queued event is delivered in the end, and no update of a bot holds up
\* the others: each loop catches up again and again (polling.py,
\* _drain_retry_queue, _handle_update_failure).
CatchesUp ==
    []<>(/\ side = "queue" => Queue!WorkedOff
         /\ side = "bot" => produced < Bot!Offset)

\* Reconnecting leaves no socket behind, but for overlapping starts
\* (connector.py, _start_messaging_client).
OneSocket == side = "session" => Session!OneSocket

\* An update received is queued, held or committed, unless a disconnection,
\* the end of a task or the dialogs' route dropped it (connector.py, polling.py).
UpdatesKept == side = "session" => Session!UpdatesKept

\* An instance enabled and logged in is connected and polled in the end
\* (polling.py, _run_manager; connector.py, _ws_listen).
Reconnects == side = "session" => Session!Reconnects
================================================================================
