----------------------------- MODULE BalePvSession -----------------------------
(***************************************************************************)
(* The session of one Bale personal account, from the instance's row to    *)
(* the queue its updates are committed to.  Five parties share it: the     *)
(* poll manager and the poll task of the instance (polling.py), the        *)
(* panel's routes (_handler_controller.py), the registry of adapters       *)
(* (runtime_registry.py), and the listener the connector starts for each   *)
(* of its runtimes (plugins/bale_pv/connector.py), which reconnects the    *)
(* WebSocket (ws_client.py).                                               *)
(*                                                                         *)
(* All run on one event loop: an action is what happens between two        *)
(* awaits, and sometimes less, where what may come between changes nothing *)
(* that an await of the same call does not admit already.  The phone       *)
(* number of the instance stays.  Updates are not told apart by order, and *)
(* one received by two sockets is one update: InboundQueue is about both.  *)
(***************************************************************************)
EXTENDS Naturals, Sequences, FiniteSets

CONSTANTS
    Updates,     \* what Bale pushes
    MaxCalls,    \* bound: calls of the panel
    MaxDrops,    \* bound: connections lost
    MaxFaults    \* bound: failed connections, database failures, restarts

\* What the constants have to be; the module that gives them values assumes it.
SessionAssumption == {MaxCalls, MaxDrops, MaxFaults} \subseteq Nat

VARIABLES
    row,         \* the instance's row: on, off (disabled), gone
    saved,       \* the session file holds a token
    registered,  \* the registry holds an open adapter
    current,     \* the connector's runtime of the instance, 0: none
    rts,         \* every runtime since the start, reachable or not
    act,         \* where the poll task and the panel's call are
    task,        \* the poll task: none, live, dead
    drained,     \* pending_bale_updates, and what is being fetched
    kept,        \* updates committed to the inbound queue
    \* History.
    pushed,      \* updates some runtime of the bridge received
    excused,     \* lost where the code drops them knowingly or not
    \* Bounds.
    calls, drops, faults

memory == <<registered, current, rts, act, task, drained>>
sessionVars == <<row, saved, memory, kept, pushed, excused, calls, drops, faults>>

Actors == {"poll", "panel"}
Idle == [pc |-> "idle", rt |-> 0, then |-> "idle"]

\* A runtime; "strays" are open sockets of it that nobody holds any more.
NewRuntime ==
    [auth |-> saved, code |-> FALSE, client |-> "none", strays |-> 0,
     listener |-> "none", stop |-> FALSE, opening |-> 0, raced |-> FALSE, queue |-> {}]

SessionInit ==
    /\ row \in {"on", "off"} /\ saved \in BOOLEAN
    /\ registered = FALSE /\ current = 0 /\ rts = <<>>
    /\ act = [a \in Actors |-> Idle]
    /\ task = "none" /\ drained = {} /\ kept = {} /\ pushed = {} /\ excused = {}
    /\ calls = 0 /\ drops = 0 /\ faults = 0

Call == act["panel"] = Idle /\ calls < MaxCalls /\ calls' = calls + 1
Fault == faults < MaxFaults /\ faults' = faults + 1

\* Where a call goes on.
At(pc, r) == IF pc = "idle" THEN Idle ELSE [pc |-> pc, rt |-> r, then |-> pc]

----------------------------------------------------------------------------
(* The connector: connect, _start_messaging_client, _refresh_user_cache.   *)

\* The runtime there is has its authentication refreshed, and no more; a new
\* one with a token goes on to open its socket.
Connect(a, then) ==
    IF current # 0
    THEN /\ rts' = [rts EXCEPT ![current].auth = @ \/ saved]
         /\ act' = [act EXCEPT ![a] = At(then, current)]
         /\ UNCHANGED current
    ELSE /\ current' = Len(rts) + 1
         /\ rts' = Append(rts, [NewRuntime EXCEPT !.opening = IF saved THEN 1 ELSE 0])
         /\ act' = [act EXCEPT ![a] =
                IF saved THEN [pc |-> "opening", rt |-> current', then |-> then]
                ELSE At(then, current')]

\* A client that is "lost" has no socket, a "deaf" one an open socket.
Open(client) == IF client \in {"up", "deaf"} THEN 1 ELSE 0

\* The old client is closed before a new one is made.
Starting(rt) ==
    [rt EXCEPT !.client = "none", !.opening = @ + 1, !.raced = @ \/ rt.opening > 0]

\* The new one takes the place of whatever another start put there meanwhile,
\* and so does its failure.
Started(rt, ok) ==
    [rt EXCEPT !.client = IF ok THEN "up" ELSE "none", !.strays = @ + Open(rt.client)]

\* _start_websocket_listener: one listener, and none that outlives a stop.
Listened(rt) ==
    IF rt.listener \notin {"none", "done"} THEN rt
    ELSE [rt EXCEPT !.listener = IF rt.stop THEN "done" ELSE "sleep"]

Opens(a) ==
    LET r == act[a].rt
        rt == [rts[r] EXCEPT !.opening = @ - 1]
    IN
    /\ act[a].pc = "opening"
    /\ \/ rts' = [rts EXCEPT ![r] = Listened(Started(rt, TRUE))] /\ UNCHANGED faults
       \/ Fault /\ rts' = [rts EXCEPT ![r] = Started(rt, FALSE)]
    /\ \E next \in CASE act[a].then = "draining" -> {"draining"}
                     [] act[a].then = "waiting" -> {"refreshing", "waiting"}
                     [] OTHER -> {"refreshing"} :
          act' = [act EXCEPT ![a].pc = next]
    /\ UNCHANGED <<row, saved, registered, current, task, drained, kept,
                   pushed, excused, calls, drops>>

\* The contacts are asked for by the instance's key, and asking raises when
\* its runtime was disconnected: the route fails, and the poll task goes on
\* to the connector itself, or ends its iteration.
Refreshes(a) ==
    /\ act[a].pc = "refreshing"
    /\ act' = [act EXCEPT ![a] =
          IF current # 0 THEN At(@.then, @.rt)
          ELSE IF a = "panel" THEN Idle
          ELSE At(IF @.then = "registered" THEN "connector" ELSE "erring", 0)]
    /\ UNCHANGED <<row, saved, registered, current, rts, task, drained, kept,
                   pushed, excused, calls, drops, faults>>

\* connect_instance registers the adapter after its connect returned, whatever
\* was disconnected meanwhile.
Registers(a) ==
    /\ act[a].pc = "registered"
    /\ registered' = TRUE
    /\ act' = [act EXCEPT ![a] = IF a = "poll" THEN At("connector", 0) ELSE Idle]
    /\ UNCHANGED <<row, saved, current, rts, task, drained, kept, pushed,
                   excused, calls, drops, faults>>

----------------------------------------------------------------------------
(* The listener of a runtime, _ws_listen: it looks after the client every  *)
(* two seconds, and reconnects.                                            *)

ListenerWakes(r) ==
    /\ rts[r].listener = "sleep" /\ rts[r].client # "up"
    /\ rts' = [rts EXCEPT ![r].listener = IF rts[r].client = "none" THEN "opening" ELSE "closing"]
    /\ UNCHANGED <<row, saved, registered, current, act, task, drained, kept,
                   pushed, excused, calls, drops, faults>>

\* Mutant: a new client is made without closing the old one.
ListenerLeaves(r) ==
    /\ rts[r].listener = "closing"
    /\ rts' = [rts EXCEPT ![r].listener = "opening", ![r].client = "none",
                          ![r].strays = @ + Open(rts[r].client)]
    /\ UNCHANGED <<row, saved, registered, current, act, task, drained, kept,
                   pushed, excused, calls, drops, faults>>

ListenerCloses(r) ==
    /\ rts[r].listener = "closing"
    /\ rts' = [rts EXCEPT ![r].listener = "opening", ![r].client = "none"]
    /\ UNCHANGED <<row, saved, registered, current, act, task, drained, kept,
                   pushed, excused, calls, drops, faults>>

ListenerOpens(r) ==
    LET rt == [rts[r] EXCEPT !.listener = IF rts[r].stop THEN "done" ELSE "sleep"] IN
    /\ rts[r].listener = "opening"
    /\ \/ rts' = [rts EXCEPT ![r] = Started(rt, TRUE)] /\ UNCHANGED faults
       \/ Fault /\ rts' = [rts EXCEPT ![r] = Started(rt, FALSE)]
    /\ UNCHANGED <<row, saved, registered, current, act, task, drained, kept,
                   pushed, excused, calls, drops>>

----------------------------------------------------------------------------
(* Bale: the account's updates go to every session that is open.           *)

Feeds(rt) == rt.client = "up" \/ rt.strays > 0

Push(u) ==
    /\ u \notin pushed
    /\ \E r \in DOMAIN rts : Feeds(rts[r])
    /\ pushed' = pushed \union {u}
    /\ rts' = [r \in DOMAIN rts |->
                 IF Feeds(rts[r]) THEN [rts[r] EXCEPT !.queue = @ \union {u}] ELSE rts[r]]
    /\ excused' = IF current # 0 /\ Feeds(rts[current]) THEN excused ELSE excused \union {u}
    /\ UNCHANGED <<row, saved, registered, current, act, task, drained, kept,
                   calls, drops, faults>>

\* The connection of a client is lost, or the server ends the session and the
\* client listens no longer; or a stray's connection is lost.
Drop ==
    /\ current # 0 /\ drops < MaxDrops /\ drops' = drops + 1
    /\ LET rt == rts[current] IN
       \E changed \in
             {[rt EXCEPT !.client = state] : state \in
                CASE rt.client = "up" -> {"lost", "deaf"}
                  [] rt.client = "deaf" -> {"lost"}
                  [] OTHER -> {}}
             \union {[rt EXCEPT !.strays = @ - 1] : n \in 1..rt.strays} :
          rts' = [rts EXCEPT ![current] = changed]
    /\ UNCHANGED <<row, saved, registered, current, act, task, drained, kept,
                   pushed, excused, calls, faults>>

----------------------------------------------------------------------------
(* The poll task, _run_instance.                                           *)

\* The row is read in a session of its own; a disabled instance is left
\* alone, an enabled one registered first.
PollBegins ==
    /\ act["poll"].pc = "row" /\ row = "on"
    /\ IF registered THEN act' = [act EXCEPT !["poll"] = At("connector", 0)] /\ UNCHANGED <<current, rts>>
                     ELSE Connect("poll", "registered")
    /\ UNCHANGED <<row, saved, registered, task, drained, kept, pushed, excused,
                   calls, drops, faults>>

PollConnects ==
    /\ act["poll"].pc = "connector"
    /\ Connect("poll", "updates")
    /\ UNCHANGED <<row, saved, registered, task, drained, kept, pushed, excused,
                   calls, drops, faults>>

\* A batch that is not committed yet goes first.  get_updates starts the
\* client where nobody listens, and may look up the contacts.
PollAsks ==
    /\ act["poll"].pc = "updates"
    /\ IF drained # {} \/ current = 0 \/ ~rts[current].auth
       THEN /\ act' = [act EXCEPT !["poll"] =
                    At(IF drained # {} THEN "persisting" ELSE "erring", 0)]
            /\ UNCHANGED rts
       ELSE IF rts[current].listener \in {"none", "done"}
       THEN /\ rts' = [rts EXCEPT ![current] = Starting(@)]
            /\ act' = [act EXCEPT !["poll"] =
                    [pc |-> "opening", rt |-> current, then |-> "waiting"]]
       ELSE /\ \E pc \in {"refreshing", "waiting"} :
                  act' = [act EXCEPT !["poll"] = [pc |-> pc, rt |-> current, then |-> "waiting"]]
            /\ UNCHANGED rts
    /\ UNCHANGED <<row, saved, registered, current, task, drained, kept, pushed,
                   excused, calls, drops, faults>>

\* The queue is emptied, or stays empty for the time of a poll.  Names that
\* are not known are looked up then.
PollDrains ==
    LET r == act["poll"].rt IN
    /\ act["poll"].pc = "waiting"
    /\ drained' = rts[r].queue
    /\ rts' = [rts EXCEPT ![r].queue = {}]
    /\ \E pc \in IF rts[r].queue = {} THEN {"row"} ELSE {"resolving", "persisting"} :
          act' = [act EXCEPT !["poll"] = At(pc, 0)]
    /\ UNCHANGED <<row, saved, registered, current, task, kept, pushed, excused,
                   calls, drops, faults>>

\* The look-up of a group's title asks for the runtime again and raises when
\* it was disconnected: what was drained is gone with the call.
PollResolves ==
    /\ act["poll"].pc = "resolving"
    /\ \/ /\ act' = [act EXCEPT !["poll"] = At("persisting", 0)]
          /\ UNCHANGED <<drained, excused>>
       \/ /\ current = 0
          /\ act' = [act EXCEPT !["poll"] = At("erring", 0)]
          /\ drained' = {} /\ excused' = excused \union drained
    /\ UNCHANGED <<row, saved, registered, current, rts, task, kept, pushed,
                   calls, drops, faults>>

PollPersists ==
    /\ act["poll"].pc = "persisting"
    /\ kept' = kept \union drained /\ drained' = {}
    /\ act' = [act EXCEPT !["poll"] = At("row", 0)]
    /\ UNCHANGED <<row, saved, registered, current, rts, task, pushed, excused,
                   calls, drops, faults>>

\* Mutant: the batch is let go before it is committed.
PersistLosesBatch ==
    /\ act["poll"].pc = "persisting" /\ Fault
    /\ drained' = {}
    /\ act' = [act EXCEPT !["poll"] = At("erring", 0)]
    /\ UNCHANGED <<row, saved, registered, current, rts, task, kept, pushed,
                   excused, calls, drops>>

PersistFails ==
    /\ act["poll"].pc = "persisting" /\ Fault
    /\ act' = [act EXCEPT !["poll"] = At("erring", 0)]
    /\ UNCHANGED <<row, saved, registered, current, rts, task, drained, kept,
                   pushed, excused, calls, drops>>

\* The error is written to the instance's state, and the loop goes on.
PollReports ==
    /\ act["poll"].pc = "erring"
    /\ act' = [act EXCEPT !["poll"] = At("row", 0)]
    /\ UNCHANGED <<row, saved, registered, current, rts, task, drained, kept,
                   pushed, excused, calls, drops, faults>>

\* Unless that fails, other than by SQLite's lock: nothing catches an error of
\* the handler, and the task ends, its batch with it.
ReportFails ==
    /\ act["poll"].pc = "erring" /\ Fault
    /\ act' = [act EXCEPT !["poll"] = Idle] /\ task' = "dead"
    /\ drained' = {} /\ excused' = excused \union drained
    /\ UNCHANGED <<row, saved, registered, current, rts, kept, pushed, calls, drops>>

----------------------------------------------------------------------------
(* The poll manager, _run_manager, every ten seconds.                      *)

\* Mutant: a task that ended keeps the instance's place.
ManagerStartsNew ==
    /\ row = "on" /\ task = "none"
    /\ task' = "live" /\ act' = [act EXCEPT !["poll"] = At("row", 0)]
    /\ UNCHANGED <<row, saved, registered, current, rts, drained, kept, pushed,
                   excused, calls, drops, faults>>

ManagerStarts ==
    /\ row = "on" /\ task # "live"
    /\ task' = "live" /\ act' = [act EXCEPT !["poll"] = At("row", 0)]
    /\ UNCHANGED <<row, saved, registered, current, rts, drained, kept, pushed,
                   excused, calls, drops, faults>>

\* The task of a disabled or deleted instance is cancelled where it is; a
\* socket it was opening is not the runtime's.
ManagerStops ==
    /\ row # "on" /\ task # "none"
    /\ task' = "none" /\ act' = [act EXCEPT !["poll"] = Idle]
    /\ rts' = IF act["poll"].pc # "opening" THEN rts
              ELSE [rts EXCEPT ![act["poll"].rt].opening = @ - 1]
    /\ drained' = {} /\ excused' = excused \union drained
    /\ UNCHANGED <<row, saved, registered, current, kept, pushed, calls, drops, faults>>

----------------------------------------------------------------------------
(* The panel.                                                              *)

\* The routes that need the connector connect it, of a disabled instance too:
\* the authentication's status; its code; its validation; the dialogs.
PanelConnects(then) ==
    /\ Call /\ row # "gone"
    /\ Connect("panel", then)
    /\ UNCHANGED <<row, saved, registered, task, drained, kept, pushed, excused, drops, faults>>

CodeSent ==
    LET r == act["panel"].rt IN
    /\ act["panel"].pc = "sending"
    /\ rts' = [rts EXCEPT ![r].code = TRUE, ![r].auth = FALSE]
    /\ act' = [act EXCEPT !["panel"] = Idle]
    /\ UNCHANGED <<row, saved, registered, current, task, drained, kept, pushed,
                   excused, calls, drops, faults>>

\* A code that was asked for of this runtime is accepted: the token is saved.
Validated ==
    LET r == act["panel"].rt IN
    /\ act["panel"].pc = "validating"
    /\ IF rts[r].code
       THEN /\ saved' = TRUE /\ rts' = [rts EXCEPT ![r].auth = TRUE]
            /\ act' = [act EXCEPT !["panel"] = At("login", r)]
       ELSE act' = [act EXCEPT !["panel"] = Idle] /\ UNCHANGED <<saved, rts>>
    /\ UNCHANGED <<row, registered, current, task, drained, kept, pushed,
                   excused, calls, drops, faults>>

LoggedIn ==
    /\ act["panel"].pc = "login"
    /\ IF registered THEN act' = [act EXCEPT !["panel"] = Idle] /\ UNCHANGED <<current, rts>>
                     ELSE Connect("panel", "registered")
    /\ UNCHANGED <<row, saved, registered, task, drained, kept, pushed, excused,
                   calls, drops, faults>>

\* get_dialogs takes what it wants from the queue of updates, and drops the
\* rest of them.
DialogsAsked ==
    LET r == act["panel"].rt IN
    /\ act["panel"].pc = "dialogs"
    /\ IF rts[r].auth /\ rts[r].listener \in {"none", "done"}
       THEN /\ rts' = [rts EXCEPT ![r] = Starting(@)]
            /\ act' = [act EXCEPT !["panel"] =
                    [pc |-> "opening", rt |-> r, then |-> "draining"]]
       ELSE /\ act' = [act EXCEPT !["panel"] = IF rts[r].auth THEN At("draining", r) ELSE Idle]
            /\ UNCHANGED rts
    /\ UNCHANGED <<row, saved, registered, current, task, drained, kept, pushed,
                   excused, calls, drops, faults>>

DialogsDrain ==
    LET r == act["panel"].rt IN
    /\ act["panel"].pc = "draining"
    /\ excused' = excused \union rts[r].queue
    /\ rts' = [rts EXCEPT ![r].queue = {}]
    /\ act' = [act EXCEPT !["panel"] = Idle]
    /\ UNCHANGED <<row, saved, registered, current, task, drained, kept, pushed,
                   calls, drops, faults>>

\* patch_instance commits the row first, delete_instance deletes it last.
Enable ==
    /\ Call /\ row # "on" /\ row' = "on"
    /\ UNCHANGED <<saved, memory, kept, pushed, excused, drops, faults>>

Disable ==
    /\ Call /\ row = "on" /\ row' = "off"
    /\ act' = [act EXCEPT !["panel"] = [pc |-> "dropping", rt |-> 0, then |-> "disabled"]]
    /\ UNCHANGED <<saved, registered, current, rts, task, drained, kept, pushed,
                   excused, drops, faults>>

Delete ==
    /\ Call /\ row # "gone"
    /\ act' = [act EXCEPT !["panel"] = [pc |-> "dropping", rt |-> 0, then |-> "deleted"]]
    /\ UNCHANGED <<row, saved, registered, current, rts, task, drained, kept,
                   pushed, excused, drops, faults>>

\* disconnect_instance: what is not registered is not disconnected.  The
\* connector forgets the runtime, stops and cancels its listener and waits for
\* it; a listener that is just closing a client may take the cancellation for
\* the client's own, and open one more socket.  The client has no "disconnect":
\* calling it fails silently, and the socket stays open.
Dropped ==
    /\ act["panel"].pc = "dropping"
    /\ registered' = FALSE
    /\ current' = IF registered THEN 0 ELSE current
    /\ act' = [act EXCEPT !["panel"].pc = "leaving", !["panel"].rt = IF registered THEN current ELSE 0]
    /\ IF registered /\ current # 0
       THEN /\ \E left \in IF rts[current].listener = "closing" THEN {"closing", "done"}
                         ELSE IF rts[current].listener = "none" THEN {"none"} ELSE {"done"} :
                  rts' = [rts EXCEPT ![current].stop = TRUE, ![current].listener = left]
            /\ excused' = excused \union rts[current].queue
       ELSE UNCHANGED <<rts, excused>>
    /\ UNCHANGED <<row, saved, task, drained, kept, pushed, calls, drops, faults>>

Left ==
    LET r == act["panel"].rt IN
    /\ act["panel"].pc = "leaving"
    /\ r # 0 => rts[r].listener \in {"none", "done"}
    /\ row' = IF act["panel"].then = "deleted" THEN "gone" ELSE row
    /\ act' = [act EXCEPT !["panel"] = Idle]
    /\ UNCHANGED <<saved, registered, current, rts, task, drained, kept, pushed,
                   excused, calls, drops, faults>>

----------------------------------------------------------------------------
\* The process ends and starts again: sockets, queues and tasks are gone.
SessionRestarts ==
    /\ Fault
    /\ registered' = FALSE /\ current' = 0 /\ rts' = <<>>
    /\ act' = [a \in Actors |-> Idle] /\ task' = "none" /\ drained' = {}
    /\ excused' = excused \union (pushed \ kept)
    /\ UNCHANGED <<row, saved, kept, pushed, calls, drops>>

Poll ==
    \/ PollBegins \/ Opens("poll") \/ Refreshes("poll") \/ Registers("poll")
    \/ PollConnects \/ PollAsks \/ PollDrains \/ PollResolves \/ PollPersists \/ PollReports

Panel ==
    \/ Opens("panel") \/ Refreshes("panel") \/ Registers("panel")
    \/ CodeSent \/ Validated \/ LoggedIn \/ DialogsAsked \/ DialogsDrain \/ Dropped \/ Left

Listener == \E r \in DOMAIN rts : ListenerWakes(r) \/ ListenerCloses(r) \/ ListenerOpens(r)

SessionNext ==
    \/ Poll \/ PersistFails \/ ReportFails \/ ManagerStarts \/ ManagerStops
    \/ Listener \/ Panel
    \/ (\E then \in {"idle", "sending", "validating", "dialogs"} : PanelConnects(then))
    \/ Enable \/ Disable \/ Delete
    \/ (\E u \in Updates : Push(u)) \/ Drop \/ SessionRestarts

SessionSpec == SessionInit /\ [][SessionNext]_sessionVars

\* The loop's tasks go on, and calls that began.
FairSession ==
    SessionSpec /\ WF_sessionVars(Poll) /\ WF_sessionVars(ManagerStarts)
    /\ WF_sessionVars(Listener) /\ WF_sessionVars(Panel)

----------------------------------------------------------------------------
(* Properties.                                                             *)

\* However often a connection is lost, a runtime has one open socket: the one
\* its client holds.  Only starts that overlap leave others, which nobody
\* closes (connector.py, _start_messaging_client).
OneSocket == \A r \in DOMAIN rts : rts[r].strays > 0 => rts[r].raced

\* What the bridge received is in the queue of a runtime in use, in the batch
\* of the poll task or committed; or it was dropped by a disconnection, the
\* end of the task or the process, or the dialogs' route.
UpdatesKept ==
    pushed \subseteq kept \union drained \union excused
                     \union (IF current = 0 THEN {} ELSE rts[current].queue)

\* get_connection_state: authenticated, connected, listening.
Healthy ==
    /\ current # 0 /\ rts[current].auth
    /\ rts[current].client = "up"
    /\ rts[current].listener \notin {"none", "done"}

\* An instance that stays enabled and logged in is in the end connected,
\* registered and polled for good, whatever failed before.
Reconnects ==
    <>[](row = "on" /\ saved) => <>[](Healthy /\ registered /\ task = "live")

\* "A database failure propagates to the poll loop, which retains this batch
\* in memory and retries persistence before draining another one."
BatchRetained ==
    [][act["poll"].pc \in {"persisting", "erring"} /\ task' # "none"
       => drained \subseteq drained' \union kept']_sessionVars
=============================================================================
