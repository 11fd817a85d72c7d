----------------------------- MODULE PollingProofs -----------------------------
(***************************************************************************)
(* Of the poll loop of the bots, of the session of a Bale account and of   *)
(* the durable queue: what the composition's run checks on an instance,    *)
(* for every value of the bounds, whatever the platforms send.  The lemmas *)
(* about a component are about its own actions; a step of another side     *)
(* leaves it as it was initialized.                                        *)
(***************************************************************************)
EXTENDS MCPolling, SequenceTheorems, FiniteSetTheorems, TLAPS

----------------------------------------------------------------------------
(* A bot's marks: what its offset is made of was settled.                  *)

\* A mark is of an update that was settled, or none.
SettledOrNone(mark) == mark \in Bot!Settled \union {0}

MarksInv ==
    /\ produced \in Nat /\ next \in Nat /\ upTo \in Nat
    /\ lastId \in Nat /\ stored \in Nat /\ maxDone \in Nat
    /\ {lastId, stored, maxDone} \subseteq Bot!Settled \union {0}

LEMMA HigherOf ==
    ASSUME NEW a \in Nat, NEW b \in Nat
    PROVE  /\ Bot!Max({a, b}) \in {a, b} /\ Bot!Max({a, b}) \in Nat
           /\ a <= Bot!Max({a, b}) /\ b <= Bot!Max({a, b})
<1> DEFINE m == IF a >= b THEN a ELSE b
<1>1. m \in {a, b} /\ \A y \in {a, b} : m >= y
    OBVIOUS
<1>2. /\ Bot!Max({a, b}) \in {a, b}
      /\ \A y \in {a, b} : Bot!Max({a, b}) >= y
    BY <1>1 DEF Bot!Max
<1> QED BY <1>2

LEMMA MarksStep == ASSUME MarksInv, [Bot!Next]_(Bot!vars) PROVE MarksInv'
<1>0. /\ produced \in Nat /\ next \in Nat /\ upTo \in Nat
      /\ lastId \in Nat /\ stored \in Nat /\ maxDone \in Nat
      /\ {lastId, stored, maxDone} \subseteq Bot!Settled \union {0}
    BY DEF MarksInv
<1>1. Bot!Settled \subseteq Bot!Settled'
    BY DEF Bot!Next, Bot!vars, Bot!memoryVars, Bot!Settled, Bot!Produce, Bot!Poll,
       Bot!Fetch, Bot!Handle, Bot!HandleFails, Bot!GivesUp, Bot!EndBatch,
       Bot!GivesUpUnqueued, Bot!Redeliver, Bot!Restart
<1>2. ASSUME Bot!Processed, next \in Bot!Settled', UNCHANGED <<produced, upTo>>,
             next' = next + 1
      PROVE  MarksInv'
    <2>1. /\ maxDone' \in {maxDone, next} /\ maxDone' \in Nat
          /\ lastId' \in {lastId, next} /\ lastId' \in Nat
        BY <1>0, <1>2, HigherOf DEF Bot!Processed, Bot!Higher
    <2>2. stored' \in {stored, next}
        BY <1>2 DEF Bot!Processed, Bot!Store
    <2> QED BY <1>0, <1>1, <1>2, <2>1, <2>2 DEF MarksInv
<1>3. CASE Bot!Produce
    BY <1>0, <1>1, <1>3 DEF Bot!Produce, Bot!memoryVars, MarksInv
<1>4. CASE Bot!Fetch
    <2>1. Bot!Max({lastId, stored}) \in {lastId, stored}
             /\ Bot!Max({lastId, stored}) \in Nat
        BY <1>0, HigherOf
    <2> QED BY <1>0, <1>1, <1>4, <2>1 DEF Bot!Fetch, Bot!Offset, MarksInv
<1>5. CASE Bot!Handle
    BY <1>2, <1>5 DEF Bot!Handle, Bot!Settled
<1>6. CASE Bot!HandleFails
    BY <1>0, <1>1, <1>6 DEF Bot!HandleFails, MarksInv
<1>7. CASE Bot!GivesUp
    BY <1>2, <1>7 DEF Bot!GivesUp, Bot!Settled
<1>8. CASE Bot!GivesUpUnqueued
    <2>1. /\ maxDone' \in {maxDone, next} /\ maxDone' \in Nat
          /\ lastId' \in {lastId, next} /\ lastId' \in Nat
        BY <1>0, <1>8, HigherOf DEF Bot!GivesUpUnqueued, Bot!Higher
    <2>2. next \in Bot!Settled' /\ stored' = next /\ next' = next + 1
             /\ UNCHANGED <<produced, upTo>>
        BY <1>8 DEF Bot!GivesUpUnqueued, Bot!Settled
    <2> QED BY <1>0, <1>1, <2>1, <2>2 DEF MarksInv
<1>9. CASE Bot!EndBatch
    <2>1. /\ lastId' \in {lastId, maxDone} /\ lastId' \in Nat
          /\ stored' \in {stored, maxDone} /\ UNCHANGED <<produced, next, upTo, maxDone>>
        BY <1>0, <1>9, HigherOf DEF Bot!EndBatch, Bot!Higher
    <2> QED BY <1>0, <1>1, <2>1 DEF MarksInv
<1>10. ASSUME NEW u \in Bot!Updates, Bot!Redeliver(u) PROVE MarksInv'
    BY <1>0, <1>1, <1>10 DEF Bot!Redeliver, Bot!memoryVars, MarksInv
<1>11. CASE Bot!Restart
    BY <1>0, <1>1, <1>11 DEF Bot!Restart, MarksInv
<1>12. CASE UNCHANGED Bot!vars
    BY <1>0, <1>1, <1>12 DEF Bot!vars, Bot!memoryVars, MarksInv
<1> QED BY <1>3, <1>4, <1>5, <1>6, <1>7, <1>8, <1>9, <1>10, <1>11, <1>12 DEF Bot!Next,
           Bot!Poll

LEMMA MarksInit == Bot!Init => MarksInv
BY DEF Bot!Init, MarksInv

LEMMA MarksMean == ASSUME MarksInv PROVE Bot!OnlyOvertaken
<1>1. Bot!Max({lastId, stored}) \in {lastId, stored} /\ Bot!Max({lastId, stored}) \in Nat
    BY HigherOf DEF MarksInv
<1>2. Bot!Offset - 1 = Bot!Max({lastId, stored}) /\ Bot!Max({lastId, stored}) < Bot!Offset
    BY <1>1 DEF Bot!Offset
<1> SUFFICES ASSUME NEW u \in 1..Bot!Offset - 1 PROVE \E v \in Bot!Settled : u <= v
       /\ v < Bot!Offset
    BY DEF Bot!OnlyOvertaken
<1> QED BY <1>1, <1>2 DEF MarksInv

----------------------------------------------------------------------------
(* The session of a Bale account.                                          *)

Clients == {"none", "up", "lost", "deaf"}
Listeners == {"none", "sleep", "closing", "opening", "done"}
Runtime == [auth : BOOLEAN, code : BOOLEAN, client : Clients, strays : Nat, listener : Listeners,
            stop : BOOLEAN, opening : Int, raced : BOOLEAN, queue : SUBSET Pushes]
Awaits == {"idle", "row", "opening", "refreshing", "registered", "connector", "updates",
           "waiting", "resolving", "persisting", "erring", "sending", "validating", "login",
           "dialogs", "draining", "dropping", "leaving", "disabled", "deleted"}
Place == [pc : Awaits, rt : Nat, then : Awaits]

\* Where a call is about one runtime, it has the runtime.
OfRuntime == {"waiting", "sending", "validating", "dialogs", "draining"}
Bound(e) == e.pc \notin {"dropping", "leaving"} /\ {e.pc, e.then} \cap OfRuntime # {}

SessionTypes ==
    /\ saved \in BOOLEAN /\ current \in {0} \union DOMAIN rts
    /\ rts \in Seq(Runtime) /\ act \in [Session!Actors -> Place]
    /\ drained \subseteq Pushes

\* A runtime whose starts do not overlap: one that is being started has no client and no
\* listener that would give it one, and one whose listener opens a socket has none.
Orderly(rt) ==
    /\ rt.strays = 0 /\ rt.opening \in {0, 1}
    /\ rt.opening = 1 => rt.client = "none" /\ rt.listener \in {"none", "done"}
    /\ rt.listener = "opening" => rt.client = "none"

Starts(a, r) == act[a].pc = "opening" /\ act[a].rt = r

\* "opening" counts the actors that start the runtime: one at most.
Counted(r) ==
    /\ rts[r].opening = 0 <=> \A a \in Session!Actors : ~Starts(a, r)
    /\ \A a, b \in Session!Actors : Starts(a, r) /\ Starts(b, r) => a = b

PlaceInv ==
    /\ act["poll"].pc # "idle" => task = "live"
    /\ \A a \in Session!Actors :
          /\ act[a].then # "opening"
          /\ act[a].pc = "opening" \/ Bound(act[a])
             => act[a].rt \in DOMAIN rts

StartsInv == \A r \in DOMAIN rts : rts[r].raced \/ (Orderly(rts[r]) /\ Counted(r))

Queued == IF current = 0 THEN {} ELSE rts[current].queue

\* The poll task asks for updates only with its batch committed.
BatchInv ==
    /\ act["poll"].pc = "waiting" => act["poll"].then = "waiting"
    /\ act["poll"].then = "waiting" => drained = {}
    /\ pushed \subseteq kept \union drained \union excused \union Queued

SesInv == SessionTypes /\ PlaceInv /\ StartsInv /\ BatchInv

\* What a runtime may become without its starts being told from before.
Follows(rt, new) ==
    new.raced \/ (~rt.raced /\ new.opening = rt.opening /\ (Orderly(rt) => Orderly(new)))

LEMMA Replaced ==
    ASSUME rts \in Seq(Runtime), NEW r \in DOMAIN rts, NEW new \in Runtime,
           rts' = [rts EXCEPT ![r] = new]
    PROVE  /\ rts' \in Seq(Runtime) /\ DOMAIN rts' = DOMAIN rts
           /\ rts'[r] = new /\ \A q \in DOMAIN rts : q # r => rts'[q] = rts[q]
<1>1. rts \in [1..Len(rts) -> Runtime] /\ Len(rts) \in Nat /\ DOMAIN rts = 1..Len(rts)
    OBVIOUS
<1>2. rts' \in [1..Len(rts) -> Runtime]
    BY <1>1
<1> QED BY <1>1, <1>2

LEMMA Moved ==
    ASSUME act \in [Session!Actors -> Place], NEW a \in Session!Actors, NEW e \in Place,
           act' = [act EXCEPT ![a] = e]
    PROVE  /\ act' \in [Session!Actors -> Place]
           /\ act'[a] = e /\ \A b \in Session!Actors : b # a => act'[b] = act[b]
OBVIOUS

LEMMA QueuedKept ==
    ASSUME SessionTypes, current' = current, DOMAIN rts' = DOMAIN rts,
           \A r \in DOMAIN rts : rts'[r].queue = rts[r].queue
    PROVE  Queued' = Queued
BY DEF SessionTypes, Queued

LEMMA AtPlace ==
    ASSUME NEW pc \in Awaits, NEW r \in Nat
    PROVE  /\ Session!At(pc, r) \in Place /\ Session!At(pc, r).pc = pc
                 /\ Session!At(pc, r).then = pc
           /\ pc # "idle" => Session!At(pc, r).rt = r
           /\ Session!At(pc, r).rt \in {0, r}
           /\ Session!Idle \in Place /\ Session!Idle.pc = "idle"
                 /\ Session!Idle.then = "idle" /\ Session!Idle.rt = 0
<1>1. Session!Idle \in Place /\ Session!Idle.pc = "idle" /\ Session!Idle.then = "idle"
         /\ Session!Idle.rt = 0
    BY DEF Session!Idle, Place, Awaits
<1>2. CASE pc = "idle"
    <2>1. Session!At(pc, r) = Session!Idle
        BY <1>2 DEF Session!At
    <2> QED BY <1>1, <1>2, <2>1
<1>3. CASE pc # "idle"
    BY <1>1, <1>3 DEF Session!At, Place
<1> QED BY <1>2, <1>3

\* A step of an actor that starts nothing and ends no start.
LEMMA Quiet ==
    ASSUME SesInv, NEW a \in Session!Actors, NEW e \in Place, act' = [act EXCEPT ![a] = e],
           rts' \in Seq(Runtime), DOMAIN rts' = DOMAIN rts,
           \A r \in DOMAIN rts : Follows(rts[r], rts'[r]),
           act[a].pc # "opening", e.pc # "opening", e.then # "opening",
           Bound(e) => e.rt \in DOMAIN rts,
           a = "poll" => task' = "live" \/ e.pc = "idle",
           a = "panel" => task' = task,
           saved' \in BOOLEAN, current' \in {0} \union DOMAIN rts,
           drained' \subseteq Pushes
    PROVE  SessionTypes' /\ PlaceInv' /\ StartsInv'
<1>0. SessionTypes /\ PlaceInv /\ StartsInv
    BY DEF SesInv
<1>1. /\ act' \in [Session!Actors -> Place]
      /\ act'[a] = e /\ \A b \in Session!Actors : b # a => act'[b] = act[b]
    BY <1>0, Moved DEF SessionTypes
<1>2. SessionTypes'
    BY <1>0, <1>1 DEF SessionTypes
<1>3. PlaceInv'
    <2>1. act'["poll"].pc # "idle" => task' = "live"
        BY <1>0, <1>1 DEF PlaceInv, Session!Actors
    <2>2. ASSUME NEW b \in Session!Actors
          PROVE  /\ act'[b].then # "opening"
                 /\ act'[b].pc = "opening" \/ Bound(act'[b])
                    => act'[b].rt \in DOMAIN rts
        <3>1. CASE b = a
            BY <1>1, <3>1
        <3>2. CASE b # a
            BY <1>0, <1>1, <3>2 DEF PlaceInv
        <3> QED BY <3>1, <3>2
    <2> QED BY <2>1, <2>2 DEF PlaceInv
<1>4. ASSUME NEW r \in DOMAIN rts PROVE rts'[r].raced \/ (Orderly(rts'[r]) /\ Counted(r)')
    <2>1. \A b \in Session!Actors : Starts(b, r)' <=> Starts(b, r)
        BY <1>1 DEF Starts
    <2>2. CASE rts'[r].raced
        BY <2>2
    <2>3. CASE ~rts'[r].raced
        <3>1. ~rts[r].raced /\ rts'[r].opening = rts[r].opening
                 /\ (Orderly(rts[r]) => Orderly(rts'[r]))
            BY <2>3 DEF Follows
        <3>2. Orderly(rts[r]) /\ Counted(r)
            BY <1>0, <3>1 DEF StartsInv
        <3> QED BY <2>1, <3>1, <3>2 DEF Counted
    <2> QED BY <2>2, <2>3
<1> QED BY <1>2, <1>3, <1>4 DEF StartsInv

LEMMA Same ==
    ASSUME SesInv, UNCHANGED rts
    PROVE  /\ rts' \in Seq(Runtime) /\ DOMAIN rts' = DOMAIN rts
           /\ \A r \in DOMAIN rts : Follows(rts[r], rts'[r])
           /\ \A r \in DOMAIN rts : rts'[r].queue = rts[r].queue
BY DEF SesInv, SessionTypes, Follows

\* Where the batch of the poll task and what is in the queue stay.
LEMMA BatchKept ==
    ASSUME SesInv, UNCHANGED <<drained, kept, pushed, excused>>, Queued' = Queued,
           act'["poll"].pc = "waiting" => act'["poll"].then = "waiting",
           act'["poll"].then = "waiting" => drained = {}
    PROVE  BatchInv'
BY DEF SesInv, BatchInv

\* A step of the panel that changes nothing of the runtimes.
LEMMA QuietPanel ==
    ASSUME SesInv, NEW e \in Place, act' = [act EXCEPT !["panel"] = e],
           UNCHANGED <<current, rts, task, drained, kept, pushed, excused>>,
           saved' \in BOOLEAN,
           act["panel"].pc # "opening", e.pc # "opening", e.then # "opening",
           Bound(e) => e.rt \in DOMAIN rts
    PROVE  SesInv'
<1>1. SessionTypes /\ "panel" \in Session!Actors /\ "poll" \in Session!Actors
    BY DEF SesInv, Session!Actors
<1>2. current' \in {0} \union DOMAIN rts /\ drained' \subseteq Pushes
    BY <1>1 DEF SessionTypes
<1>3. SessionTypes' /\ PlaceInv' /\ StartsInv'
    BY <1>1, <1>2, Same, Quiet
<1>4. act'["poll"] = act["poll"]
    BY <1>1, Moved DEF SessionTypes
<1>5. Queued' = Queued
    BY DEF Queued
<1>6. BatchInv'
    BY <1>4, <1>5, BatchKept DEF SesInv, BatchInv
<1> QED BY <1>3, <1>6 DEF SesInv

\* A step of the poll task that changes nothing of the runtimes.
LEMMA QuietPoll ==
    ASSUME SesInv, NEW e \in Place, act' = [act EXCEPT !["poll"] = e],
           UNCHANGED <<saved, current, rts, pushed>>, drained' \subseteq Pushes,
           drained \subseteq kept' \union drained' \union excused',
           kept \subseteq kept', excused \subseteq excused',
           act["poll"].pc # "opening", e.pc # "opening", e.then # "opening",
           Bound(e) => e.rt \in DOMAIN rts,
           e.pc = "waiting" => e.then = "waiting", e.then = "waiting" => drained' = {},
           task' = "live" \/ e.pc = "idle"
    PROVE  SesInv'
<1>1. SessionTypes /\ "panel" \in Session!Actors /\ "poll" \in Session!Actors
         /\ saved' \in BOOLEAN
    BY DEF SesInv, Session!Actors, SessionTypes
<1>2. current' \in {0} \union DOMAIN rts
    BY <1>1 DEF SessionTypes
<1>3. SessionTypes' /\ PlaceInv' /\ StartsInv'
    BY <1>1, <1>2, Same, Quiet
<1>4. act'["poll"] = e
    BY <1>1, Moved DEF SessionTypes
<1>5. Queued' = Queued
    BY DEF Queued
<1>6. BatchInv'
    BY <1>4, <1>5 DEF SesInv, BatchInv
<1> QED BY <1>3, <1>6 DEF SesInv

LEMMA PollQuietStep ==
    ASSUME SesInv, Session!PollResolves \/ Session!PollPersists \/ Session!PersistFails
           \/ Session!PollReports \/ Session!ReportFails
                   \/ Session!ManagerStarts
    PROVE  SesInv'
<1>1. drained \subseteq Pushes /\ PlaceInv
    BY DEF SesInv, SessionTypes
<1> DEFINE
        persisting == Session!At("persisting", 0)
        erring == Session!At("erring", 0)
        start == Session!At("row", 0)
<1>2. /\ persisting \in Place /\ persisting.pc = "persisting"
            /\ persisting.then = "persisting"
      /\ erring \in Place /\ erring.pc = "erring" /\ erring.then = "erring"
      /\ start \in Place /\ start.pc = "row" /\ start.then = "row"
      /\ Session!Idle \in Place /\ Session!Idle.pc = "idle" /\ Session!Idle.then = "idle"
    BY AtPlace DEF Awaits
<1> HIDE DEF persisting, erring, start
<1>3. ~Bound(persisting) /\ ~Bound(erring) /\ ~Bound(start) /\ ~Bound(Session!Idle)
    BY <1>2 DEF Bound, OfRuntime
<1>4. act["poll"].pc # "idle" => task = "live"
    BY <1>1 DEF PlaceInv
<1>5. CASE Session!PollResolves
    <2>1. \/ act' = [act EXCEPT !["poll"] = persisting] /\ UNCHANGED <<drained, excused>>
          \/ /\ act' = [act EXCEPT !["poll"] = erring]
             /\ drained' = {} /\ excused' = excused \union drained
        BY <1>5 DEF Session!PollResolves, persisting, erring
    <2>2. act["poll"].pc = "resolving"
             /\ UNCHANGED <<saved, current, rts, pushed, kept, task>>
        BY <1>5 DEF Session!PollResolves
    <2> QED BY <1>1, <1>2, <1>3, <1>4, <2>1, <2>2, QuietPoll
<1>6. CASE Session!PollPersists
    <2>1. /\ act' = [act EXCEPT !["poll"] = start]
          /\ act["poll"].pc = "persisting"
                /\ UNCHANGED <<saved, current, rts, pushed, excused, task>>
          /\ kept' = kept \union drained /\ drained' = {}
        BY <1>6 DEF Session!PollPersists, start
    <2> QED BY <1>1, <1>2, <1>3, <1>4, <2>1, QuietPoll
<1>7. CASE Session!PersistFails
    <2>1. /\ act' = [act EXCEPT !["poll"] = erring] /\ act["poll"].pc = "persisting"
          /\ UNCHANGED <<saved, current, rts, pushed, excused, task, kept, drained>>
        BY <1>7 DEF Session!PersistFails, erring
    <2> QED BY <1>1, <1>2, <1>3, <1>4, <2>1, QuietPoll
<1>8. CASE Session!PollReports
    <2>1. /\ act' = [act EXCEPT !["poll"] = start] /\ act["poll"].pc = "erring"
          /\ UNCHANGED <<saved, current, rts, pushed, excused, task, kept, drained>>
        BY <1>8 DEF Session!PollReports, start
    <2> QED BY <1>1, <1>2, <1>3, <1>4, <2>1, QuietPoll
<1>9. CASE Session!ReportFails
    <2>1. /\ act' = [act EXCEPT !["poll"] = Session!Idle] /\ act["poll"].pc = "erring"
          /\ UNCHANGED <<saved, current, rts, pushed, kept>>
          /\ drained' = {} /\ excused' = excused \union drained
        BY <1>9 DEF Session!ReportFails
    <2> QED BY <1>1, <1>2, <1>3, <2>1, QuietPoll
<1>10. CASE Session!ManagerStarts
    <2>1. /\ act' = [act EXCEPT !["poll"] = start] /\ task # "live" /\ task' = "live"
          /\ UNCHANGED <<saved, current, rts, pushed, excused, kept, drained>>
        BY <1>10 DEF Session!ManagerStarts, start
    <2>2. act["poll"].pc = "idle"
        BY <1>4, <2>1
    <2> QED BY <1>1, <1>2, <1>3, <2>1, <2>2, QuietPoll
<1> QED BY <1>5, <1>6, <1>7, <1>8, <1>9, <1>10

\* A change of a runtime's authentication, code or queue.
LEMMA Plain ==
    ASSUME NEW rt \in Runtime, NEW au \in BOOLEAN, NEW q \in SUBSET Pushes
    PROVE  /\ [rt EXCEPT !.auth = au] \in Runtime
           /\ Follows(rt, [rt EXCEPT !.auth = au])
                 /\ [rt EXCEPT !.auth = au].queue = rt.queue
           /\ [rt EXCEPT !.code = TRUE, !.auth = au] \in Runtime
           /\ Follows(rt, [rt EXCEPT !.code = TRUE, !.auth = au])
           /\ [rt EXCEPT !.code = TRUE, !.auth = au].queue = rt.queue
           /\ [rt EXCEPT !.queue = q] \in Runtime
           /\ Follows(rt, [rt EXCEPT !.queue = q]) /\ [rt EXCEPT !.queue = q].queue = q
<1>1. TRUE \in BOOLEAN
    OBVIOUS
<1>2. ASSUME NEW new \in Runtime, new.strays = rt.strays, new.opening = rt.opening,
             new.client = rt.client, new.listener = rt.listener, new.raced = rt.raced
      PROVE  Follows(rt, new)
    BY <1>2 DEF Follows, Orderly
<1>3. [rt EXCEPT !.auth = au] \in Runtime
    BY DEF Runtime
<1>4. [rt EXCEPT !.code = TRUE, !.auth = au] \in Runtime
    BY <1>1 DEF Runtime
<1>5. [rt EXCEPT !.queue = q] \in Runtime
    BY DEF Runtime
<1>6. Follows(rt, [rt EXCEPT !.auth = au]) /\ [rt EXCEPT !.auth = au].queue = rt.queue
    BY <1>2, <1>3 DEF Runtime
<1>7. /\ Follows(rt, [rt EXCEPT !.code = TRUE, !.auth = au])
      /\ [rt EXCEPT !.code = TRUE, !.auth = au].queue = rt.queue
    BY <1>2, <1>4 DEF Runtime
<1>8. Follows(rt, [rt EXCEPT !.queue = q]) /\ [rt EXCEPT !.queue = q].queue = q
    BY <1>2, <1>5 DEF Runtime
<1> QED BY <1>3, <1>4, <1>5, <1>6, <1>7, <1>8

\* A new runtime is appended; the actor that asked for it may start it.
LEMMA Appended ==
    ASSUME SesInv, NEW a \in Session!Actors, NEW e \in Place, act' = [act EXCEPT ![a] = e],
           NEW new \in Runtime, rts' = Append(rts, new), current' = Len(rts) + 1,
           current = 0,
           new.client = "none", new.listener = "none", new.strays = 0, new.queue = {},
           new.opening = IF e.pc = "opening" THEN 1 ELSE 0,
           act[a].pc # "opening", e.then # "opening", e.rt \in {0, current'},
           e.pc = "opening" \/ Bound(e) => e.rt = current',
           UNCHANGED <<saved, task, drained, kept, pushed, excused>>,
           a = "poll" => task = "live" /\ e.then # "waiting" /\ e.pc # "waiting"
    PROVE  SesInv'
<1>0. SessionTypes /\ PlaceInv /\ StartsInv /\ BatchInv
    BY DEF SesInv
<1>1. rts \in Seq(Runtime) /\ Len(rts) \in Nat /\ DOMAIN rts = 1..Len(rts)
    BY <1>0 DEF SessionTypes
<1>2. /\ rts' \in Seq(Runtime) /\ DOMAIN rts' = DOMAIN rts \union {current'}
      /\ rts'[current'] = new /\ \A r \in DOMAIN rts : rts'[r] = rts[r] /\ r # current'
    BY <1>1
<1>3. /\ act' \in [Session!Actors -> Place]
      /\ act'[a] = e /\ \A b \in Session!Actors : b # a => act'[b] = act[b]
    BY <1>0, Moved DEF SessionTypes
<1>4. SessionTypes'
    BY <1>0, <1>2, <1>3 DEF SessionTypes
<1>5. PlaceInv'
    <2>1. act'["poll"].pc # "idle" => task' = "live"
        BY <1>0, <1>3 DEF PlaceInv, Session!Actors
    <2>2. ASSUME NEW b \in Session!Actors
          PROVE  /\ act'[b].then # "opening"
                 /\ act'[b].pc = "opening" \/ Bound(act'[b])
                    => act'[b].rt \in DOMAIN rts'
        <3>1. CASE b = a
            BY <1>2, <1>3, <3>1
        <3>2. CASE b # a
            BY <1>0, <1>2, <1>3, <3>2 DEF PlaceInv
        <3> QED BY <3>1, <3>2
    <2> QED BY <2>1, <2>2 DEF PlaceInv
<1>6. ASSUME NEW r \in DOMAIN rts PROVE rts'[r].raced \/ (Orderly(rts'[r]) /\ Counted(r)')
    <2>1. \A b \in Session!Actors : Starts(b, r)' <=> Starts(b, r)
        BY <1>2, <1>3 DEF Starts
    <2> QED BY <1>0, <1>2, <2>1 DEF StartsInv, Counted
<1>7. ASSUME NEW n, n = current' PROVE Orderly(rts'[n]) /\ Counted(n)'
    <2>1. Orderly(new)
        BY DEF Orderly
    <2>2. n \notin DOMAIN rts /\ rts'[n] = new
        BY <1>2, <1>7
    <2>3. ASSUME NEW b \in Session!Actors, b # a PROVE ~Starts(b, n)'
        BY <1>0, <1>3, <2>2, <2>3 DEF PlaceInv, Starts
    <2>4. Starts(a, n)' <=> e.pc = "opening"
        BY <1>3, <1>7 DEF Starts
    <2> QED BY <2>1, <2>2, <2>3, <2>4 DEF Counted
<1>8. StartsInv'
    BY <1>2, <1>6, <1>7 DEF StartsInv
<1>9. Queued = {} /\ Queued' = {}
    BY <1>1, <1>2 DEF Queued
<1>10. BatchInv'
    <2>1. \/ act'["poll"] = act["poll"]
          \/ act'["poll"].then # "waiting" /\ act'["poll"].pc # "waiting"
        BY <1>3 DEF Session!Actors
    <2> QED BY <1>0, <1>9, <2>1 DEF BatchInv
<1> QED BY <1>4, <1>5, <1>8, <1>10 DEF SesInv

LEMMA ConnectStep ==
    ASSUME SesInv, NEW a \in Session!Actors, NEW then \in Awaits, Session!Connect(a, then),
           act[a].pc # "opening", then # "opening",
           UNCHANGED <<saved, task, drained, kept, pushed, excused>>,
           a = "poll" => task = "live" /\ then # "waiting"
    PROVE  SesInv'
<1>0. SessionTypes /\ PlaceInv /\ StartsInv /\ BatchInv
    BY DEF SesInv
<1>1. rts \in Seq(Runtime) /\ Len(rts) \in Nat /\ DOMAIN rts = 1..Len(rts)
    BY <1>0 DEF SessionTypes
<1>2. CASE current # 0
    <2>1. current \in DOMAIN rts /\ current \in Nat /\ rts[current] \in Runtime
        BY <1>0, <1>1, <1>2 DEF SessionTypes
    <2> DEFINE au == rts[current].auth \/ saved
               new == [rts[current] EXCEPT !.auth = au]
               e == Session!At(then, current)
    <2>2. au \in BOOLEAN
        OBVIOUS
    <2>3. /\ rts' = [rts EXCEPT ![current] = new] /\ UNCHANGED current
          /\ act' = [act EXCEPT ![a] = e]
        BY <1>2, <2>1 DEF Session!Connect
    <2>4. /\ e \in Place /\ e.pc = then /\ e.then = then
                /\ (then # "idle" => e.rt = current)
        BY <2>1, AtPlace
    <2>5. /\ new \in Runtime /\ Follows(rts[current], new) /\ new.queue = rts[current].queue
        BY <2>1, <2>2, Plain
    <2> HIDE DEF new, e
    <2>6. /\ rts' \in Seq(Runtime) /\ DOMAIN rts' = DOMAIN rts
          /\ rts'[current] = new /\ \A q \in DOMAIN rts : q # current => rts'[q] = rts[q]
        BY <1>1, <2>1, <2>3, <2>5, Replaced
    <2>7. \A r \in DOMAIN rts : Follows(rts[r], rts'[r]) /\ rts'[r].queue = rts[r].queue
        BY <2>5, <2>6 DEF Follows
    <2>8. then \in OfRuntime => e.rt \in DOMAIN rts
        BY <2>1, <2>4 DEF OfRuntime
    <2>9. SessionTypes' /\ PlaceInv' /\ StartsInv'
        <3>1. Bound(e) => e.rt \in DOMAIN rts
            BY <2>4, <2>8 DEF Bound
        <3>2. saved' \in BOOLEAN /\ current' \in {0} \union DOMAIN rts
                 /\ drained' \subseteq Pushes
            BY <1>0, <2>3 DEF SessionTypes
        <3> QED BY <2>3, <2>4, <2>6, <2>7, <3>1, <3>2, Quiet
    <2>10. Queued' = Queued
        BY <1>0, <2>3, <2>6, <2>7, QueuedKept
    <2>11. BatchInv'
        <3>1. act'[a] = e /\ \A b \in Session!Actors : b # a => act'[b] = act[b]
            BY <1>0, <2>3, <2>4, Moved DEF SessionTypes
        <3>2. CASE a = "poll"
            BY <2>4, <2>10, <3>1, <3>2, BatchKept
        <3>3. CASE a # "poll"
            BY <1>0, <2>10, <3>1, <3>3, BatchKept DEF BatchInv, Session!Actors
        <3> QED BY <3>2, <3>3
    <2> QED BY <2>9, <2>11 DEF SesInv
<1>3. CASE current = 0
    <2> DEFINE new == [Session!NewRuntime EXCEPT !.opening = IF saved THEN 1 ELSE 0]
               e == IF saved THEN [pc |-> "opening", rt |-> current', then |-> then]
                    ELSE Session!At(then, current')
    <2>1. current' = Len(rts) + 1 /\ current' \in Nat
        BY <1>1, <1>3 DEF Session!Connect
    <2>2. rts' = Append(rts, new) /\ act' = [act EXCEPT ![a] = e]
        BY <1>3 DEF Session!Connect
    <2>3. /\ new \in Runtime /\ new.client = "none" /\ new.listener = "none"
                /\ new.strays = 0
          /\ new.queue = {} /\ new.opening = IF saved THEN 1 ELSE 0
        <3>1. saved \in BOOLEAN /\ FALSE \in BOOLEAN /\ {} \in SUBSET Pushes
            BY <1>0 DEF SessionTypes
        <3>2. /\ Session!NewRuntime \in Runtime /\ Session!NewRuntime.client = "none"
                    /\ Session!NewRuntime.listener = "none"
              /\ Session!NewRuntime.strays = 0 /\ Session!NewRuntime.queue = {}
            BY <3>1 DEF Session!NewRuntime, Runtime, Clients, Listeners
        <3>3. CASE saved
            BY <3>2, <3>3 DEF Runtime
        <3>4. CASE ~saved
            BY <3>2, <3>4 DEF Runtime
        <3> QED BY <3>3, <3>4
    <2>4. /\ e \in Place /\ e.then = then /\ e.rt \in {0, current'}
                /\ e.pc \in {"opening", then}
          /\ (e.pc = "opening") = (saved = TRUE) /\ (then # "idle" => e.rt = current')
          /\ e.pc = "opening" => e.rt = current'
        <3>1. CASE saved
            BY <2>1, <3>1 DEF Place, Awaits
        <3>2. CASE ~saved
            BY <2>1, <3>2, AtPlace
        <3> QED BY <3>1, <3>2
    <2> HIDE DEF new, e
    <2>5. new.opening = IF e.pc = "opening" THEN 1 ELSE 0
        BY <1>0, <2>3, <2>4 DEF SessionTypes
    <2>6. e.pc = "opening" \/ Bound(e) => e.rt = current'
        BY <2>4 DEF OfRuntime, Bound
    <2> QED BY <1>3, <2>1, <2>2, <2>3, <2>4, <2>5, <2>6, Appended
<1> QED BY <1>2, <1>3

----------------------------------------------------------------------------
(* Starts.                                                                 *)

\* A start begins: the runtime has no client until it ends.
LEMMA Begun ==
    ASSUME NEW rt \in Runtime, rt.listener \in {"none", "done"}
    PROVE  /\ Session!Starting(rt) \in Runtime /\ Session!Starting(rt).queue = rt.queue
           /\ Session!Starting(rt).raced \/ (~rt.raced /\ (Orderly(rt) => rt.opening = 0))
           /\ Orderly(rt) /\ rt.opening = 0
              => Orderly(Session!Starting(rt)) /\ Session!Starting(rt).opening = 1
<1> DEFINE race == rt.raced \/ rt.opening > 0
<1>1. race \in BOOLEAN /\ rt.opening + 1 \in Int
    BY DEF Runtime
<1>0. Session!Starting(rt) = [rt EXCEPT !.client = "none", !.opening = rt.opening + 1, !.raced = race]
    BY DEF Session!Starting, Runtime
<1> HIDE DEF race
<1>2. Session!Starting(rt) \in Runtime
    BY <1>0, <1>1 DEF Runtime, Clients
<1>3. /\ Session!Starting(rt).queue = rt.queue /\ Session!Starting(rt).client = "none"
      /\ Session!Starting(rt).opening = rt.opening + 1
            /\ Session!Starting(rt).strays = rt.strays
      /\ Session!Starting(rt).listener = rt.listener
    BY <1>0, <1>1 DEF Runtime
<1>4. Session!Starting(rt).raced = race
    BY <1>0, <1>1 DEF Runtime
<1>5. Session!Starting(rt).raced \/ (~rt.raced /\ (Orderly(rt) => rt.opening = 0))
    <2>1. CASE race
        BY <1>4, <2>1
    <2>2. CASE ~race
        BY <2>2 DEF race, Orderly
    <2> QED BY <2>1, <2>2
<1>6. Orderly(rt) /\ rt.opening = 0 => Orderly(Session!Starting(rt))
         /\ Session!Starting(rt).opening = 1
    BY <1>3 DEF Orderly
<1> QED BY <1>2, <1>3, <1>5, <1>6

LEMMA EndedType ==
    ASSUME NEW rt \in Runtime, NEW ok \in BOOLEAN
    PROVE  LET left == [rt EXCEPT !.opening = @ - 1] IN
           left \in Runtime /\ Session!Started(left, ok) \in Runtime
              /\ Session!Listened(Session!Started(left, ok)) \in Runtime
<1> DEFINE left == [rt EXCEPT !.opening = @ - 1]
           s == Session!Started(left, ok)
<1>1. left \in Runtime
    BY DEF Runtime
<1> HIDE DEF left
<1>2. s \in Runtime
    <2>1. (IF ok THEN "up" ELSE "none") \in Clients
        BY DEF Clients
    <2>2. left.strays + Session!Open(left.client) \in Nat
        BY <1>1 DEF Runtime, Session!Open
    <2> QED BY <1>1, <2>1, <2>2 DEF Session!Started, Runtime
<1> HIDE DEF s
<1>3. Session!Listened(s) \in Runtime
    BY <1>2 DEF Session!Listened, Runtime, Listeners
<1> QED BY <1>1, <1>2, <1>3 DEF left, s

\* A start ends: what it opened is the runtime's client, unless it was cancelled.
LEMMA Ended ==
    ASSUME NEW rt \in Runtime, NEW left \in Runtime, NEW new \in Runtime,
           NEW ok \in BOOLEAN,
           left = [rt EXCEPT !.opening = @ - 1],
           new \in {Session!Started(left, ok), Session!Listened(Session!Started(left, ok)), left}
    PROVE  /\ new.queue = rt.queue /\ new.raced = rt.raced /\ new.opening = rt.opening - 1
           /\ Orderly(rt) /\ rt.opening = 1 => Orderly(new)
<1>1. /\ left.queue = rt.queue /\ left.raced = rt.raced /\ left.opening = rt.opening - 1
      /\ left.client = rt.client /\ left.listener = rt.listener /\ left.strays = rt.strays
    BY DEF Runtime
<1> DEFINE s == Session!Started(left, ok)
<1>2. /\ s.queue = rt.queue /\ s.raced = rt.raced /\ s.opening = rt.opening - 1
      /\ s.client = (IF ok THEN "up" ELSE "none") /\ s.listener = rt.listener
      /\ s.strays = rt.strays + Session!Open(rt.client)
    BY <1>1 DEF Session!Started, Runtime
<1>3. Session!Listened(s) \in {s, [s EXCEPT !.listener = "done"], [s EXCEPT !.listener = "sleep"]}
    BY DEF Session!Listened
<1>4. /\ Session!Listened(s).queue = rt.queue /\ Session!Listened(s).raced = rt.raced
      /\ Session!Listened(s).opening = rt.opening - 1
      /\ Session!Listened(s).strays = rt.strays + Session!Open(rt.client)
      /\ Session!Listened(s).listener \in {rt.listener, "done", "sleep"}
    <2>1. s \in Runtime
        BY EndedType
    <2> HIDE DEF s
    <2> QED BY <1>2, <1>3, <2>1 DEF Runtime
<1>5. Session!Open("none") = 0
    BY DEF Session!Open
<1>7. new \in {s, Session!Listened(s), left}
    OBVIOUS
<1> HIDE DEF s
<1>6. Orderly(rt) /\ rt.opening = 1 => Orderly(new)
    <2> SUFFICES ASSUME Orderly(rt), rt.opening = 1 PROVE Orderly(new)
        OBVIOUS
    <2>1. /\ rt.client = "none" /\ rt.strays = 0 /\ rt.listener \in {"none", "done"}
        BY DEF Orderly
    <2>2. new.strays = 0 /\ new.opening = 0 /\ new.listener # "opening"
        <3>1. CASE new = left
            BY <1>1, <2>1, <3>1
        <3>2. CASE new = s
            BY <1>2, <1>5, <2>1, <3>2
        <3>3. CASE new = Session!Listened(s)
            BY <1>4, <1>5, <2>1, <3>3
        <3> QED BY <1>7, <3>1, <3>2, <3>3
    <2> QED BY <2>2 DEF Orderly
<1> QED BY <1>1, <1>2, <1>4, <1>6, <1>7

\* An actor ends the start it is in.
LEMMA StartEnds ==
    ASSUME SesInv, NEW a \in Session!Actors, NEW e \in Place, act' = [act EXCEPT ![a] = e],
           NEW new \in Runtime, act[a].pc = "opening",
           rts' = [rts EXCEPT ![act[a].rt] = new],
           new.raced = rts[act[a].rt].raced, new.opening = rts[act[a].rt].opening - 1,
           Orderly(rts[act[a].rt]) /\ rts[act[a].rt].opening = 1 => Orderly(new),
           e.pc # "opening", e.then # "opening",
           Bound(e) => e.rt = act[a].rt,
           a = "poll" => task' = "live" \/ e.pc = "idle",
           a = "panel" => task' = task,
           saved' = saved, current' = current, drained' \subseteq Pushes
    PROVE  SessionTypes' /\ PlaceInv' /\ StartsInv'
<1> DEFINE r == act[a].rt
<1>0. SessionTypes /\ PlaceInv /\ StartsInv
    BY DEF SesInv
<1>1. r \in DOMAIN rts
    BY <1>0 DEF PlaceInv
<1>2. /\ rts' \in Seq(Runtime) /\ DOMAIN rts' = DOMAIN rts
      /\ rts'[r] = new /\ \A q \in DOMAIN rts : q # r => rts'[q] = rts[q]
    BY <1>0, <1>1, Replaced DEF SessionTypes
<1>3. /\ act' \in [Session!Actors -> Place]
      /\ act'[a] = e /\ \A b \in Session!Actors : b # a => act'[b] = act[b]
    BY <1>0, Moved DEF SessionTypes
<1>4. SessionTypes'
    BY <1>0, <1>2, <1>3 DEF SessionTypes
<1>5. PlaceInv'
    <2>1. act'["poll"].pc # "idle" => task' = "live"
        BY <1>0, <1>3 DEF PlaceInv, Session!Actors
    <2>2. ASSUME NEW b \in Session!Actors
          PROVE  /\ act'[b].then # "opening"
                 /\ act'[b].pc = "opening" \/ Bound(act'[b])
                    => act'[b].rt \in DOMAIN rts'
        <3>1. CASE b = a
            BY <1>1, <1>2, <1>3, <3>1
        <3>2. CASE b # a
            BY <1>0, <1>2, <1>3, <3>2 DEF PlaceInv
        <3> QED BY <3>1, <3>2
    <2> QED BY <2>1, <2>2 DEF PlaceInv
<1>6. ASSUME NEW q \in DOMAIN rts PROVE rts'[q].raced \/ (Orderly(rts'[q]) /\ Counted(q)')
    <2>1. \A b \in Session!Actors : b # a => (Starts(b, q)' <=> Starts(b, q))
        BY <1>3 DEF Starts
    <2>2. ~Starts(a, q)' /\ (Starts(a, q) <=> q = r)
        BY <1>3 DEF Starts
    <2>3. CASE q # r
        BY <1>0, <1>2, <2>1, <2>2, <2>3 DEF StartsInv, Counted
    <2>4. CASE q = r
        <3>1. CASE rts[r].raced
            BY <1>2, <2>4, <3>1
        <3>2. CASE ~rts[r].raced
            <4>1. Orderly(rts[r]) /\ Counted(r)
                BY <1>0, <1>1, <3>2 DEF StartsInv
            <4>2. rts[r].opening = 1
                BY <2>2, <2>4, <4>1 DEF Orderly, Counted
            <4>3. \A b \in Session!Actors : ~Starts(b, q)'
                BY <2>1, <2>2, <2>4, <4>1 DEF Counted
            <4> QED BY <1>2, <2>4, <4>1, <4>2, <4>3 DEF Counted
        <3> QED BY <3>1, <3>2
    <2> QED BY <2>3, <2>4
<1> QED BY <1>2, <1>4, <1>5, <1>6 DEF StartsInv

\* An actor starts a runtime.
LEMMA StartBegins ==
    ASSUME SesInv, NEW a \in Session!Actors, NEW then \in Awaits, NEW r \in DOMAIN rts,
           act' = [act EXCEPT ![a] = [pc |-> "opening", rt |-> r, then |-> then]],
           rts' = [rts EXCEPT ![r] = Session!Starting(@)],
           rts[r].listener \in {"none", "done"},
           act[a].pc # "opening", then # "opening",
           UNCHANGED <<saved, current, task, drained, kept, pushed, excused>>,
           a = "poll" => task = "live" /\ (then = "waiting" => drained = {})
    PROVE  SesInv'
<1> DEFINE new == Session!Starting(rts[r])
           e == [pc |-> "opening", rt |-> r, then |-> then]
<1>0. SessionTypes /\ PlaceInv /\ StartsInv /\ BatchInv
    BY DEF SesInv
<1>1. rts[r] \in Runtime /\ r \in Nat
    BY <1>0 DEF SessionTypes
<1>2. /\ new \in Runtime /\ new.queue = rts[r].queue
      /\ new.raced \/ (~rts[r].raced /\ (Orderly(rts[r]) => rts[r].opening = 0))
      /\ Orderly(rts[r]) /\ rts[r].opening = 0 => Orderly(new) /\ new.opening = 1
    BY <1>1, Begun
<1>3. e \in Place /\ e.pc = "opening" /\ e.rt = r /\ e.then = then
    BY <1>1 DEF Place, Awaits
<1>4. rts' = [rts EXCEPT ![r] = new] /\ act' = [act EXCEPT ![a] = e]
    OBVIOUS
<1> HIDE DEF new, e
<1>5. /\ rts' \in Seq(Runtime) /\ DOMAIN rts' = DOMAIN rts
      /\ rts'[r] = new /\ \A q \in DOMAIN rts : q # r => rts'[q] = rts[q]
    BY <1>0, <1>2, <1>4, Replaced DEF SessionTypes
<1>6. /\ act' \in [Session!Actors -> Place]
      /\ act'[a] = e /\ \A b \in Session!Actors : b # a => act'[b] = act[b]
    BY <1>0, <1>3, <1>4, Moved DEF SessionTypes
<1>7. SessionTypes'
    BY <1>0, <1>5, <1>6 DEF SessionTypes
<1>8. PlaceInv'
    <2>1. act'["poll"].pc # "idle" => task' = "live"
        BY <1>0, <1>6 DEF PlaceInv, Session!Actors
    <2>2. ASSUME NEW b \in Session!Actors
          PROVE  /\ act'[b].then # "opening"
                 /\ act'[b].pc = "opening" \/ Bound(act'[b])
                    => act'[b].rt \in DOMAIN rts'
        <3>1. CASE b = a
            BY <1>3, <1>5, <1>6, <3>1
        <3>2. CASE b # a
            BY <1>0, <1>5, <1>6, <3>2 DEF PlaceInv
        <3> QED BY <3>1, <3>2
    <2> QED BY <2>1, <2>2 DEF PlaceInv
<1>9. ASSUME NEW q \in DOMAIN rts PROVE rts'[q].raced \/ (Orderly(rts'[q]) /\ Counted(q)')
    <2>1. \A b \in Session!Actors : b # a => (Starts(b, q)' <=> Starts(b, q))
        BY <1>6 DEF Starts
    <2>2. ~Starts(a, q) /\ (Starts(a, q)' <=> q = r)
        BY <1>3, <1>6 DEF Starts
    <2>3. CASE q # r
        BY <1>0, <1>5, <2>1, <2>2, <2>3 DEF StartsInv, Counted
    <2>4. CASE q = r
        <3>1. CASE rts'[r].raced
            BY <2>4, <3>1
        <3>2. CASE ~rts'[r].raced
            <4>1. Orderly(rts[r]) /\ Counted(r) /\ rts[r].opening = 0
                BY <1>0, <1>2, <1>5, <3>2 DEF StartsInv
            <4>2. Orderly(rts'[r]) /\ rts'[r].opening = 1
                BY <1>2, <1>5, <4>1
            <4>3. \A b \in Session!Actors : ~Starts(b, r)
                BY <4>1 DEF Counted
            <4> QED BY <2>1, <2>2, <2>4, <4>2, <4>3 DEF Counted
        <3> QED BY <3>1, <3>2
    <2> QED BY <2>3, <2>4
<1>10. StartsInv'
    BY <1>5, <1>9 DEF StartsInv
<1>11. BatchInv'
    <2>1. \A q \in DOMAIN rts : rts'[q].queue = rts[q].queue
        BY <1>2, <1>5
    <2>2. Queued' = Queued
        BY <1>0, <1>5, <2>1, QueuedKept
    <2>3. CASE a = "poll"
        BY <1>3, <1>6, <2>2, <2>3, BatchKept
    <2>4. CASE a # "poll"
        BY <1>0, <1>6, <2>2, <2>4, BatchKept DEF BatchInv, Session!Actors
    <2> QED BY <2>3, <2>4
<1> QED BY <1>7, <1>8, <1>10, <1>11 DEF SesInv

LEMMA OpensStep ==
    ASSUME SesInv, NEW a \in Session!Actors, Session!Opens(a)
    PROVE  SesInv'
<1> DEFINE r == act[a].rt
           left == [rts[r] EXCEPT !.opening = @ - 1]
<1>0. SessionTypes /\ PlaceInv /\ BatchInv
    BY DEF SesInv
<1>1. act[a].pc = "opening" /\ r \in DOMAIN rts /\ act[a] \in Place
         /\ act[a].then # "opening"
    BY <1>0 DEF Session!Opens, PlaceInv, SessionTypes
<1>2. rts[r] \in Runtime
    BY <1>0, <1>1 DEF SessionTypes
<1>3. UNCHANGED <<saved, current, task, drained, kept, pushed, excused>>
    BY DEF Session!Opens
<1>4. PICK ok \in BOOLEAN :
              \E new \in {Session!Started(left, ok), Session!Listened(Session!Started(left, ok))} :
          rts' = [rts EXCEPT ![r] = new]
    BY DEF Session!Opens
<1>11. PICK new \in {Session!Started(left, ok), Session!Listened(Session!Started(left, ok))} :
          rts' = [rts EXCEPT ![r] = new]
    BY <1>4
<1>5. PICK after \in {"draining", "refreshing", "waiting"} :
          /\ act' = [act EXCEPT ![a].pc = after]
          /\ after = "waiting" => act[a].then = "waiting"
          /\ after = "draining" => act[a].then = "draining"
    BY DEF Session!Opens
<1> DEFINE e == [act[a] EXCEPT !.pc = after]
<1>6. /\ e \in Place /\ e.pc = after /\ e.rt = r /\ e.then = act[a].then
      /\ act' = [act EXCEPT ![a] = e]
    <2>1. after \in Awaits
        BY DEF Awaits
    <2>2. e \in Place /\ e.pc = after /\ e.rt = r /\ e.then = act[a].then
        BY <1>1, <2>1 DEF Place
    <2>3. act' = [act EXCEPT ![a] = e]
        BY <1>5
    <2> QED BY <2>2, <2>3
<1>7. left \in Runtime /\ new \in Runtime
    BY <1>2, <1>11, EndedType
<1>8. /\ new.queue = rts[r].queue /\ new.raced = rts[r].raced
      /\ new.opening = rts[r].opening - 1
      /\ Orderly(rts[r]) /\ rts[r].opening = 1 => Orderly(new)
    BY <1>2, <1>11, <1>7, Ended
<1> HIDE DEF e, left
<1>9. SessionTypes' /\ PlaceInv' /\ StartsInv'
    <2>1. a = "poll" => task' = "live" \/ e.pc = "idle"
        BY <1>0, <1>1, <1>3 DEF PlaceInv
    <2>2. drained' \subseteq Pushes /\ saved' = saved /\ current' = current
        BY <1>0, <1>3 DEF SessionTypes
    <2>3. e.pc # "opening" /\ e.then # "opening"
        BY <1>1, <1>6
    <2> QED BY <1>1, <1>3, <1>11, <1>6, <1>7, <1>8, <2>1, <2>2, <2>3, StartEnds
<1>10. BatchInv'
    <2>1. /\ DOMAIN rts' = DOMAIN rts
          /\ rts'[r] = new /\ \A q \in DOMAIN rts : q # r => rts'[q] = rts[q]
        BY <1>0, <1>1, <1>11, <1>7, Replaced DEF SessionTypes
    <2>2. \A q \in DOMAIN rts : rts'[q].queue = rts[q].queue
        BY <1>8, <2>1
    <2>3. Queued' = Queued
        BY <1>0, <1>3, <2>1, <2>2, QueuedKept
    <2>4. act'[a] = e /\ \A b \in Session!Actors : b # a => act'[b] = act[b]
        BY <1>0, <1>6, Moved DEF SessionTypes
    <2>5. CASE a = "poll"
        BY <1>0, <1>3, <1>5, <1>6, <2>3, <2>4, <2>5, BatchKept DEF BatchInv
    <2>6. CASE a # "poll"
        BY <1>0, <1>3, <2>3, <2>4, <2>6, BatchKept DEF BatchInv, Session!Actors
    <2> QED BY <2>5, <2>6
<1> QED BY <1>9, <1>10 DEF SesInv

LEMMA ManagerStopsStep == ASSUME SesInv, Session!ManagerStops PROVE SesInv'
<1> DEFINE r == act["poll"].rt
           left == [rts[r] EXCEPT !.opening = @ - 1]
<1>0. SessionTypes /\ PlaceInv /\ BatchInv /\ "poll" \in Session!Actors
    BY DEF SesInv, Session!Actors
<1>1. /\ act' = [act EXCEPT !["poll"] = Session!Idle] /\ drained' = {}
            /\ excused' = excused \union drained
      /\ UNCHANGED <<saved, current, kept, pushed>>
    BY DEF Session!ManagerStops
<1>2. /\ Session!Idle \in Place /\ Session!Idle.pc = "idle" /\ Session!Idle.then = "idle"
      /\ ~Bound(Session!Idle)
    BY AtPlace DEF Awaits, OfRuntime, Bound
<1>3. CASE act["poll"].pc # "opening"
    <2>1. UNCHANGED rts
        BY <1>3 DEF Session!ManagerStops
    <2> QED BY <1>1, <1>2, <1>3, <2>1, QuietPoll
<1>4. CASE act["poll"].pc = "opening"
    <2>1. r \in DOMAIN rts /\ rts[r] \in Runtime
        BY <1>0, <1>4 DEF PlaceInv, SessionTypes
    <2>2. rts' = [rts EXCEPT ![r] = left]
        BY <1>4 DEF Session!ManagerStops
    <2>3. left \in Runtime
        BY <2>1, EndedType
    <2>4. /\ left.queue = rts[r].queue /\ left.raced = rts[r].raced
          /\ left.opening = rts[r].opening - 1
          /\ Orderly(rts[r]) /\ rts[r].opening = 1 => Orderly(left)
        <3>1. PICK ok \in BOOLEAN : TRUE
            OBVIOUS
        <3>2. left \in {Session!Started(left, ok), Session!Listened(Session!Started(left, ok)), left}
            OBVIOUS
        <3> QED BY <2>1, <2>3, <3>1, <3>2, Ended
    <2> HIDE DEF left
    <2>5. SessionTypes' /\ PlaceInv' /\ StartsInv'
        BY <1>0, <1>1, <1>2, <1>4, <2>2, <2>3, <2>4, StartEnds
    <2>6. /\ DOMAIN rts' = DOMAIN rts
          /\ rts'[r] = left /\ \A q \in DOMAIN rts : q # r => rts'[q] = rts[q]
        BY <1>0, <2>1, <2>2, <2>3, Replaced DEF SessionTypes
    <2>7. \A q \in DOMAIN rts : rts'[q].queue = rts[q].queue
        BY <2>4, <2>6
    <2>8. Queued' = Queued
        BY <1>0, <1>1, <2>6, <2>7, QueuedKept
    <2>9. act'["poll"] = Session!Idle
        BY <1>0, <1>1, <1>2, Moved DEF SessionTypes
    <2>10. BatchInv'
        BY <1>0, <1>1, <1>2, <2>8, <2>9 DEF BatchInv
    <2> QED BY <2>5, <2>10 DEF SesInv
<1> QED BY <1>3, <1>4

----------------------------------------------------------------------------
(* The listener, and the connections.                                      *)

\* A step that moves no actor.
LEMMA Still ==
    ASSUME SesInv, UNCHANGED <<saved, current, act, task, drained>>,
           rts' \in Seq(Runtime), DOMAIN rts' = DOMAIN rts,
           \A r \in DOMAIN rts : Follows(rts[r], rts'[r])
    PROVE  SessionTypes' /\ PlaceInv' /\ StartsInv'
<1>0. SessionTypes /\ PlaceInv /\ StartsInv
    BY DEF SesInv
<1>1. SessionTypes' /\ PlaceInv'
    BY <1>0 DEF SessionTypes, PlaceInv
<1>2. ASSUME NEW r \in DOMAIN rts PROVE rts'[r].raced \/ (Orderly(rts'[r]) /\ Counted(r)')
    <2>1. \A b \in Session!Actors : Starts(b, r)' <=> Starts(b, r)
        BY DEF Starts
    <2>2. CASE rts'[r].raced
        BY <2>2
    <2>3. CASE ~rts'[r].raced
        <3>1. ~rts[r].raced /\ rts'[r].opening = rts[r].opening
                 /\ (Orderly(rts[r]) => Orderly(rts'[r]))
            BY <2>3 DEF Follows
        <3>2. Orderly(rts[r]) /\ Counted(r)
            BY <1>0, <3>1 DEF StartsInv
        <3> QED BY <2>1, <3>1, <3>2 DEF Counted
    <2> QED BY <2>2, <2>3
<1> QED BY <1>1, <1>2 DEF StartsInv

\* A step of one runtime alone.
LEMMA OneChanges ==
    ASSUME SesInv, UNCHANGED <<saved, current, act, task, drained, kept, pushed, excused>>,
           NEW r \in DOMAIN rts, NEW new \in Runtime, rts' = [rts EXCEPT ![r] = new],
           Follows(rts[r], new), new.queue = rts[r].queue
    PROVE  SesInv'
<1>0. SessionTypes /\ BatchInv
    BY DEF SesInv
<1>1. /\ rts' \in Seq(Runtime) /\ DOMAIN rts' = DOMAIN rts
      /\ rts'[r] = new /\ \A q \in DOMAIN rts : q # r => rts'[q] = rts[q]
    BY <1>0, Replaced DEF SessionTypes
<1>2. \A q \in DOMAIN rts : Follows(rts[q], rts'[q]) /\ rts'[q].queue = rts[q].queue
    BY <1>1 DEF Follows
<1>3. SessionTypes' /\ PlaceInv' /\ StartsInv'
    BY <1>1, <1>2, Still
<1>4. Queued' = Queued
    BY <1>0, <1>1, <1>2, QueuedKept
<1>5. BatchInv'
    BY <1>0, <1>4, BatchKept DEF BatchInv
<1> QED BY <1>3, <1>5 DEF SesInv

LEMMA ListenerStep ==
    ASSUME SesInv, NEW r \in DOMAIN rts, Session!ListenerWakes(r)
           \/ Session!ListenerCloses(r) \/ Session!ListenerOpens(r)
    PROVE  SesInv'
<1>0. rts[r] \in Runtime
    BY DEF SesInv, SessionTypes
<1>1. CASE Session!ListenerWakes(r)
    <2> DEFINE after == IF rts[r].client = "none" THEN "opening" ELSE "closing"
               new == [rts[r] EXCEPT !.listener = after]
    <2>1. after \in Listeners
        BY DEF Listeners
    <2>2. rts' = [rts EXCEPT ![r] = new] /\ rts[r].listener = "sleep"
        BY <1>1 DEF Session!ListenerWakes
    <2>3. new \in Runtime
        BY <1>0, <2>1 DEF Runtime
    <2>4. /\ new.queue = rts[r].queue /\ new.raced = rts[r].raced
                /\ new.opening = rts[r].opening
          /\ new.client = rts[r].client /\ new.strays = rts[r].strays
                /\ new.listener = after
        BY <1>0 DEF Runtime
    <2>5. Follows(rts[r], new)
        <3> HIDE DEF new
        <3>1. Orderly(rts[r]) => Orderly(new)
            BY <2>2, <2>4 DEF Orderly
        <3> QED BY <2>4, <3>1 DEF Follows
    <2>6. UNCHANGED <<saved, current, act, task, drained, kept, pushed, excused>>
        BY <1>1 DEF Session!ListenerWakes
    <2> HIDE DEF new
    <2> QED BY <2>2, <2>3, <2>4, <2>5, <2>6, OneChanges
<1>2. CASE Session!ListenerCloses(r)
    <2> DEFINE new == [rts[r] EXCEPT !.listener = "opening", !.client = "none"]
    <2>1. rts' = [rts EXCEPT ![r] = new] /\ rts[r].listener = "closing"
        BY <1>2 DEF Session!ListenerCloses
    <2>2. new \in Runtime
        BY <1>0 DEF Runtime, Listeners, Clients
    <2>3. /\ new.queue = rts[r].queue /\ new.raced = rts[r].raced
                /\ new.opening = rts[r].opening
          /\ new.client = "none" /\ new.strays = rts[r].strays /\ new.listener = "opening"
        BY <1>0 DEF Runtime
    <2>4. Follows(rts[r], new)
        <3> HIDE DEF new
        <3>1. Orderly(rts[r]) => Orderly(new)
            BY <2>1, <2>3 DEF Orderly
        <3> QED BY <2>3, <3>1 DEF Follows
    <2>5. UNCHANGED <<saved, current, act, task, drained, kept, pushed, excused>>
        BY <1>2 DEF Session!ListenerCloses
    <2> HIDE DEF new
    <2> QED BY <2>1, <2>2, <2>3, <2>4, <2>5, OneChanges
<1>3. CASE Session!ListenerOpens(r)
    <2> DEFINE after == IF rts[r].stop THEN "done" ELSE "sleep"
               left == [rts[r] EXCEPT !.listener = after]
    <2>1. after \in Listeners /\ after \in {"done", "sleep"}
        BY DEF Listeners
    <2>2. PICK ok \in BOOLEAN : rts' = [rts EXCEPT ![r] = Session!Started(left, ok)]
        BY <1>3 DEF Session!ListenerOpens
    <2> DEFINE new == Session!Started(left, ok)
    <2>3. rts[r].listener = "opening"
        BY <1>3 DEF Session!ListenerOpens
    <2>4. /\ left \in Runtime
          /\ left.queue = rts[r].queue /\ left.raced = rts[r].raced
                /\ left.opening = rts[r].opening
          /\ left.client = rts[r].client /\ left.strays = rts[r].strays
                /\ left.listener = after
        BY <1>0, <2>1 DEF Runtime
    <2> HIDE DEF left, after
    <2>5. /\ new.queue = rts[r].queue /\ new.raced = rts[r].raced
                /\ new.opening = rts[r].opening
          /\ new.listener = after
                /\ new.strays = rts[r].strays + Session!Open(rts[r].client)
        BY <2>4 DEF Session!Started, Runtime
    <2>6. new \in Runtime
        <3>1. (IF ok THEN "up" ELSE "none") \in Clients
            BY DEF Clients
        <3>2. left.strays + Session!Open(left.client) \in Nat
            BY <2>4 DEF Runtime, Session!Open
        <3> QED BY <2>4, <3>1, <3>2 DEF Session!Started, Runtime
    <2>7. Follows(rts[r], new)
        <3> HIDE DEF new
        <3>1. Orderly(rts[r]) => Orderly(new)
            <4> SUFFICES ASSUME Orderly(rts[r]) PROVE Orderly(new)
                OBVIOUS
            <4>1. rts[r].opening = 0 /\ rts[r].client = "none" /\ rts[r].strays = 0
                BY <2>3 DEF Orderly
            <4>2. new.opening = 0 /\ new.strays = 0 /\ new.listener # "opening"
                BY <2>1, <2>5, <4>1 DEF Session!Open
            <4> QED BY <4>2 DEF Orderly
        <3> QED BY <2>5, <3>1 DEF Follows
    <2>8. UNCHANGED <<saved, current, act, task, drained, kept, pushed, excused>>
        BY <1>3 DEF Session!ListenerOpens
    <2>9. rts' = [rts EXCEPT ![r] = new]
        BY <2>2
    <2> HIDE DEF new
    <2> QED BY <2>5, <2>6, <2>7, <2>8, <2>9, OneChanges
<1> QED BY <1>1, <1>2, <1>3

LEMMA PushStep == ASSUME SesInv, NEW u \in Pushes, Session!Push(u) PROVE SesInv'
<1>0. SessionTypes /\ BatchInv
    BY DEF SesInv
<1>1. rts \in Seq(Runtime) /\ Len(rts) \in Nat /\ DOMAIN rts = 1..Len(rts)
    BY <1>0 DEF SessionTypes
<1>2. /\ pushed' = pushed \union {u}
            /\ UNCHANGED <<saved, current, act, task, drained, kept>>
      /\ rts' = [r \in DOMAIN rts |->
                   IF Session!Feeds(rts[r]) THEN [rts[r] EXCEPT !.queue = @ \union {u}] ELSE rts[r]]
      /\ excused' = IF current # 0
            /\ Session!Feeds(rts[current]) THEN excused ELSE excused \union {u}
    BY DEF Session!Push
<1>3. ASSUME NEW r \in DOMAIN rts
      PROVE  /\ rts'[r] \in Runtime /\ Follows(rts[r], rts'[r])
             /\ rts'[r].queue = IF Session!Feeds(rts[r]) THEN rts[r].queue \union {u}
                   ELSE rts[r].queue
    <2> DEFINE q == rts[r].queue \union {u}
    <2>1. rts[r] \in Runtime /\ q \in SUBSET Pushes
        <3>1. rts[r] \in Runtime
            BY <1>1
        <3>2. rts[r].queue \in SUBSET Pushes
            BY <3>1 DEF Runtime
        <3> QED BY <3>1, <3>2
    <2> HIDE DEF q
    <2>2. PICK au \in BOOLEAN : TRUE
        OBVIOUS
    <2>3. /\ [rts[r] EXCEPT !.queue = q] \in Runtime
          /\ Follows(rts[r], [rts[r] EXCEPT !.queue = q])
                /\ [rts[r] EXCEPT !.queue = q].queue = q
        BY <2>1, <2>2, Plain
    <2>4. rts'[r] = IF Session!Feeds(rts[r]) THEN [rts[r] EXCEPT !.queue = q] ELSE rts[r]
        BY <1>2 DEF q
    <2>5. CASE Session!Feeds(rts[r])
        BY <2>3, <2>4, <2>5 DEF q
    <2>6. CASE ~Session!Feeds(rts[r])
        BY <2>1, <2>4, <2>6 DEF Follows
    <2> QED BY <2>5, <2>6
<1>4. rts' \in Seq(Runtime) /\ DOMAIN rts' = DOMAIN rts
    <2>1. rts' \in [1..Len(rts) -> Runtime]
        BY <1>1, <1>2, <1>3
    <2> QED BY <1>1, <2>1
<1>5. SessionTypes' /\ PlaceInv' /\ StartsInv'
    BY <1>2, <1>3, <1>4, Still
<1>6. Queued \subseteq Queued' /\ (u \in Queued' \/ u \in excused')
    <2>1. CASE current = 0
        BY <1>2, <2>1 DEF Queued
    <2>2. CASE current # 0
        <3>1. current \in DOMAIN rts
            BY <1>0, <2>2 DEF SessionTypes
        <3>2. Queued = rts[current].queue /\ Queued' = rts'[current].queue
            BY <1>2, <2>2 DEF Queued
        <3>3. CASE Session!Feeds(rts[current])
            BY <1>3, <3>1, <3>2, <3>3
        <3>4. CASE ~Session!Feeds(rts[current])
            BY <1>2, <1>3, <3>1, <3>2, <3>4
        <3> QED BY <3>3, <3>4
    <2> QED BY <2>1, <2>2
<1>7. excused \subseteq excused'
    BY <1>2
<1>8. BatchInv'
    BY <1>0, <1>2, <1>6, <1>7 DEF BatchInv
<1> QED BY <1>5, <1>8 DEF SesInv

LEMMA DropStep == ASSUME SesInv, Session!Drop PROVE SesInv'
<1> DEFINE rt == rts[current]
<1>1. current \in DOMAIN rts /\ rt \in Runtime
    BY DEF SesInv, SessionTypes, Session!Drop
<1>2. UNCHANGED <<saved, current, act, task, drained, kept, pushed, excused>>
    BY DEF Session!Drop
<1>3. \/ \E down \in {"lost", "deaf"} : rt.client \in {"up", "deaf"}
                      /\ rts' = [rts EXCEPT ![current] = [rt EXCEPT !.client = down]]
      \/ rt.strays > 0
            /\ rts' = [rts EXCEPT ![current] = [rt EXCEPT !.strays = rt.strays - 1]]
    <2>1. PICK changed \in
             {[rt EXCEPT !.client = down] : down \in
                CASE rt.client = "up" -> {"lost", "deaf"}
                  [] rt.client = "deaf" -> {"lost"}
                  [] OTHER -> {}}
             \union {[rt EXCEPT !.strays = @ - 1] : n \in 1..rt.strays} :
          rts' = [rts EXCEPT ![current] = changed]
        BY DEF Session!Drop
    <2>2. CASE \E n \in 1..rt.strays : changed = [rt EXCEPT !.strays = @ - 1]
        BY <1>1, <2>1, <2>2 DEF Runtime
    <2>3. CASE \E down \in CASE rt.client = "up" -> {"lost", "deaf"}
                              [] rt.client = "deaf" -> {"lost"}
                              [] OTHER -> {} : changed = [rt EXCEPT !.client = down]
        <3>1. CASE rt.client = "up"
            BY <2>1, <2>3, <3>1
        <3>2. CASE rt.client = "deaf"
            BY <2>1, <2>3, <3>2
        <3>3. CASE rt.client \notin {"up", "deaf"}
            BY <2>3, <3>3
        <3> QED BY <3>1, <3>2, <3>3
    <2> QED BY <2>1, <2>2, <2>3
<1>4. CASE \E down \in {"lost", "deaf"} : rt.client \in {"up", "deaf"}
                      /\ rts' = [rts EXCEPT ![current] = [rt EXCEPT !.client = down]]
    <2>1. PICK down \in {"lost", "deaf"} :
              rts' = [rts EXCEPT ![current] = [rt EXCEPT !.client = down]]
        BY <1>4
    <2> DEFINE new == [rt EXCEPT !.client = down]
    <2>2. rt.client # "none"
        BY <1>4
    <2>3. /\ new \in Runtime /\ new.queue = rt.queue /\ new.raced = rt.raced
          /\ new.opening = rt.opening /\ new.strays = rt.strays
                /\ new.listener = rt.listener
        BY <1>1 DEF Runtime, Clients
    <2> HIDE DEF new
    <2>4. Orderly(rt) => Orderly(new)
        BY <2>2, <2>3 DEF Orderly
    <2>5. Follows(rt, new) /\ rts' = [rts EXCEPT ![current] = new]
        BY <2>1, <2>3, <2>4 DEF Follows, new
    <2> QED BY <1>1, <1>2, <2>3, <2>5, OneChanges
<1>5. CASE /\ rt.strays > 0
           /\ rts' = [rts EXCEPT ![current] = [rt EXCEPT !.strays = rt.strays - 1]]
    <2> DEFINE new == [rt EXCEPT !.strays = rt.strays - 1]
    <2>1. rt.strays - 1 \in Nat /\ ~Orderly(rt)
        BY <1>1, <1>5 DEF Runtime, Orderly
    <2>2. /\ new \in Runtime /\ new.queue = rt.queue /\ new.raced = rt.raced
          /\ new.opening = rt.opening
        BY <1>1, <2>1 DEF Runtime
    <2> HIDE DEF new
    <2>3. Follows(rt, new) /\ rts' = [rts EXCEPT ![current] = new]
        BY <1>5, <2>1, <2>2 DEF Follows, new
    <2> QED BY <1>1, <1>2, <2>2, <2>3, OneChanges
<1> QED BY <1>3, <1>4, <1>5

----------------------------------------------------------------------------
(* The poll task and the panel.                                            *)

\* A step of the panel that changes the runtime it is about, or drops it.
LEMMA PanelChanges ==
    ASSUME SesInv, NEW e \in Place, act' = [act EXCEPT !["panel"] = e],
           NEW r \in DOMAIN rts, NEW new \in Runtime, rts' = [rts EXCEPT ![r] = new],
           Follows(rts[r], new), rts[r].queue \subseteq new.queue \union excused',
           excused \subseteq excused',
           \/ current' = current
           \/ current' = 0 /\ r = current /\ rts[r].queue \subseteq excused',
           UNCHANGED <<task, drained, kept, pushed>>, saved' \in BOOLEAN,
           act["panel"].pc # "opening", e.pc # "opening", e.then # "opening",
           Bound(e) => e.rt \in DOMAIN rts
    PROVE  SesInv'
<1>0. SessionTypes /\ BatchInv /\ "panel" \in Session!Actors /\ "poll" \in Session!Actors
    BY DEF SesInv, Session!Actors
<1>1. /\ rts' \in Seq(Runtime) /\ DOMAIN rts' = DOMAIN rts
      /\ rts'[r] = new /\ \A q \in DOMAIN rts : q # r => rts'[q] = rts[q]
    BY <1>0, Replaced DEF SessionTypes
<1>2. \A q \in DOMAIN rts : Follows(rts[q], rts'[q])
    BY <1>1 DEF Follows
<1>3. current' \in {0} \union DOMAIN rts /\ drained' \subseteq Pushes
    BY <1>0 DEF SessionTypes
<1>4. SessionTypes' /\ PlaceInv' /\ StartsInv'
    BY <1>0, <1>1, <1>2, <1>3, Quiet
<1>5. act'["poll"] = act["poll"]
    BY <1>0, Moved DEF SessionTypes
<1>6. Queued \subseteq Queued' \union excused'
    <2>1. CASE current = 0
        BY <2>1 DEF Queued
    <2>2. CASE current # 0
        <3>1. current \in DOMAIN rts /\ Queued = rts[current].queue
            BY <1>0, <2>2 DEF SessionTypes, Queued
        <3>2. CASE current' = current
            <4>1. Queued' = rts'[current].queue
                BY <2>2, <3>2 DEF Queued
            <4>2. CASE r = current
                BY <1>1, <3>1, <4>1, <4>2
            <4>3. CASE r # current
                BY <1>1, <3>1, <4>1, <4>3
            <4> QED BY <4>2, <4>3
        <3>3. CASE current' # current
            BY <3>1, <3>3
        <3> QED BY <3>2, <3>3
    <2> QED BY <2>1, <2>2
<1>7. BatchInv'
    BY <1>0, <1>5, <1>6 DEF BatchInv
<1> QED BY <1>4, <1>7 DEF SesInv

\* The step after a call of the contacts.
LEMMA RefreshesStep == ASSUME SesInv, NEW a \in Session!Actors,
                              Session!Refreshes(a) PROVE SesInv'
<1> DEFINE e == IF current # 0 THEN Session!At(act[a].then, act[a].rt)
                ELSE IF a = "panel" THEN Session!Idle
                ELSE Session!At(IF act[a].then = "registered" THEN "connector" ELSE "erring", 0)
<1>0. SessionTypes /\ PlaceInv /\ BatchInv
    BY DEF SesInv
<1>1. /\ act[a].pc = "refreshing" /\ act' = [act EXCEPT ![a] = e]
      /\ UNCHANGED <<saved, current, rts, task, drained, kept, pushed, excused>>
    BY DEF Session!Refreshes
<1>2. act[a] \in Place /\ act[a].then \in Awaits /\ act[a].rt \in Nat
         /\ act[a].then # "opening"
    BY <1>0 DEF SessionTypes, PlaceInv, Place
<1>3. act[a].then \in OfRuntime => act[a].rt \in DOMAIN rts
    BY <1>0, <1>1 DEF PlaceInv, Bound
<1>4. \/ e = Session!At(act[a].then, act[a].rt)
      \/ e = Session!Idle
      \/ e = Session!At("connector", 0)
      \/ e = Session!At("erring", 0)
    OBVIOUS
<1> HIDE DEF e
<1>5. /\ e \in Place /\ e.pc # "opening" /\ e.then # "opening" /\ e.pc = e.then
      /\ Bound(e) => e.rt \in DOMAIN rts
      /\ e.then \in {act[a].then, "idle", "connector", "erring"}
    <2>1. CASE e = Session!At(act[a].then, act[a].rt)
        <3>1. /\ e \in Place /\ e.pc = act[a].then /\ e.then = act[a].then
              /\ e.pc # "idle" => e.rt = act[a].rt
            BY <1>2, <2>1, AtPlace
        <3>2. Bound(e) => e.rt \in DOMAIN rts
            BY <1>3, <3>1 DEF Bound, OfRuntime
        <3> QED BY <1>2, <3>1, <3>2
    <2>2. CASE e = Session!Idle
        BY <2>2, AtPlace DEF Bound, OfRuntime, Awaits
    <2>3. CASE e = Session!At("connector", 0)
        <3>1. "connector" \in Awaits
            BY DEF Awaits
        <3>2. e \in Place /\ e.pc = "connector" /\ e.then = "connector"
            BY <2>3, <3>1, AtPlace
        <3> QED BY <3>2 DEF Bound, OfRuntime
    <2>4. CASE e = Session!At("erring", 0)
        <3>1. "erring" \in Awaits
            BY DEF Awaits
        <3>2. e \in Place /\ e.pc = "erring" /\ e.then = "erring"
            BY <2>4, <3>1, AtPlace
        <3> QED BY <3>2 DEF Bound, OfRuntime
    <2> QED BY <1>4, <2>1, <2>2, <2>3, <2>4
<1>6. CASE a = "panel"
    <2>1. saved' \in BOOLEAN
        BY <1>0, <1>1 DEF SessionTypes
    <2> QED BY <1>1, <1>5, <1>6, <2>1, QuietPanel
<1>7. CASE a = "poll"
    <2>1. task' = "live"
        BY <1>0, <1>1, <1>7 DEF PlaceInv
    <2>2. drained' \subseteq Pushes /\ (e.then = "waiting" => drained' = {})
        BY <1>0, <1>1, <1>5, <1>7 DEF SessionTypes, BatchInv
    <2> QED BY <1>1, <1>5, <1>7, <2>1, <2>2, QuietPoll
<1> QED BY <1>6, <1>7 DEF Session!Actors

LEMMA RegistersStep == ASSUME SesInv, NEW a \in Session!Actors,
                              Session!Registers(a) PROVE SesInv'
<1>0. SessionTypes /\ PlaceInv
    BY DEF SesInv
<1>1. /\ act[a].pc = "registered"
      /\ act' = [act EXCEPT ![a] = IF a = "poll" THEN Session!At("connector", 0) ELSE Session!Idle]
      /\ UNCHANGED <<saved, current, rts, task, drained, kept, pushed, excused>>
    BY DEF Session!Registers
<1>2. CASE a = "panel"
    <2>1. act' = [act EXCEPT !["panel"] = Session!Idle] /\ saved' \in BOOLEAN
        BY <1>0, <1>1, <1>2 DEF SessionTypes
    <2>2. Session!Idle \in Place /\ Session!Idle.pc = "idle"
             /\ Session!Idle.then = "idle" /\ ~Bound(Session!Idle)
        BY AtPlace DEF Bound, OfRuntime, Awaits
    <2> QED BY <1>1, <1>2, <2>1, <2>2, QuietPanel
<1>3. CASE a = "poll"
    <2> DEFINE e == Session!At("connector", 0)
    <2>1. act' = [act EXCEPT !["poll"] = e]
        BY <1>1, <1>3
    <2>2. e \in Place /\ e.pc = "connector" /\ e.then = "connector"
        BY AtPlace DEF Awaits
    <2> HIDE DEF e
    <2>3. task' = "live" /\ drained' \subseteq Pushes /\ ~Bound(e)
        BY <1>0, <1>1, <1>3, <2>2 DEF PlaceInv, SessionTypes, Bound, OfRuntime
    <2> QED BY <1>1, <1>3, <2>1, <2>2, <2>3, QuietPoll
<1> QED BY <1>2, <1>3 DEF Session!Actors

LEMMA PollConnectsStep == ASSUME SesInv, Session!PollBegins
                                 \/ Session!PollConnects PROVE SesInv'
<1>0. SessionTypes /\ PlaceInv /\ "poll" \in Session!Actors
    BY DEF SesInv, Session!Actors
<1>1. /\ act["poll"].pc \in {"row", "connector"}
      /\ UNCHANGED <<saved, task, drained, kept, pushed, excused>>
    BY DEF Session!PollBegins, Session!PollConnects
<1>2. act["poll"].pc # "idle" /\ act["poll"].pc # "opening" /\ task = "live"
    BY <1>0, <1>1 DEF PlaceInv
<1>3. CASE act' = [act EXCEPT !["poll"] = Session!At("connector", 0)]
              /\ UNCHANGED <<current, rts>>
    <2> DEFINE e == Session!At("connector", 0)
    <2>1. e \in Place /\ e.pc = "connector" /\ e.then = "connector"
        BY AtPlace DEF Awaits
    <2>2. act' = [act EXCEPT !["poll"] = e]
        BY <1>3
    <2> HIDE DEF e
    <2>3. task' = "live" /\ drained' \subseteq Pushes /\ ~Bound(e)
        BY <1>0, <1>1, <1>2, <2>1 DEF SessionTypes, Bound, OfRuntime
    <2> QED BY <1>1, <1>2, <1>3, <2>1, <2>2, <2>3, QuietPoll
<1>4. CASE \E then \in {"registered", "updates"} : Session!Connect("poll", then)
    <2>1. PICK then \in {"registered", "updates"} : Session!Connect("poll", then)
        BY <1>4
    <2>2. then \in Awaits
        BY DEF Awaits
    <2> QED BY <1>0, <1>1, <1>2, <2>1, <2>2, ConnectStep
<1> QED BY <1>3, <1>4 DEF Session!PollBegins, Session!PollConnects

LEMMA PollAsksStep == ASSUME SesInv, Session!PollAsks PROVE SesInv'
<1>0. SessionTypes /\ PlaceInv /\ "poll" \in Session!Actors /\ "waiting" \in Awaits
    BY DEF SesInv, Session!Actors, Awaits
<1>1. /\ act["poll"].pc = "updates"
      /\ UNCHANGED <<saved, current, task, drained, kept, pushed, excused>>
    BY DEF Session!PollAsks
<1>2. task = "live" /\ drained' \subseteq Pushes
    BY <1>0, <1>1 DEF PlaceInv, SessionTypes
<1>3. CASE drained # {} \/ current = 0 \/ ~rts[current].auth
    <2> DEFINE e == Session!At(IF drained # {} THEN "persisting" ELSE "erring", 0)
    <2>1. PICK pc \in {"persisting", "erring"} : e = Session!At(pc, 0)
        OBVIOUS
    <2>2. e \in Place /\ e.pc = pc /\ e.then = pc
        BY <2>1, AtPlace DEF Awaits
    <2>3. act' = [act EXCEPT !["poll"] = e] /\ UNCHANGED rts
        BY <1>3 DEF Session!PollAsks
    <2> HIDE DEF e
    <2>4. ~Bound(e)
        BY <2>2 DEF Bound, OfRuntime
    <2> QED BY <1>1, <1>2, <2>2, <2>3, <2>4, QuietPoll
<1>4. CASE ~(drained # {} \/ current = 0 \/ ~rts[current].auth)
    <2>1. current \in DOMAIN rts /\ current \in Nat /\ drained = {}
        BY <1>0, <1>4 DEF SessionTypes
    <2>2. CASE rts[current].listener \in {"none", "done"}
        <3>1. /\ rts' = [rts EXCEPT ![current] = Session!Starting(@)]
              /\ act' = [act EXCEPT !["poll"] =
                            [pc |-> "opening", rt |-> current, then |-> "waiting"]]
            BY <1>4, <2>2 DEF Session!PollAsks
        <3> QED BY <1>0, <1>1, <1>2, <2>1, <2>2, <3>1, StartBegins
    <2>3. CASE rts[current].listener \notin {"none", "done"}
        <3>1. PICK pc \in {"refreshing", "waiting"} :
                 act' = [act EXCEPT !["poll"] = [pc |-> pc, rt |-> current, then |-> "waiting"]]
            BY <1>4, <2>3 DEF Session!PollAsks
        <3>2. UNCHANGED rts
            BY <1>4, <2>3 DEF Session!PollAsks
        <3> DEFINE e == [pc |-> pc, rt |-> current, then |-> "waiting"]
        <3>3. e \in Place /\ e.pc = pc /\ e.then = "waiting" /\ e.rt = current
            BY <2>1 DEF Place, Awaits
        <3>4. act' = [act EXCEPT !["poll"] = e]
            BY <3>1
        <3> HIDE DEF e
        <3> QED BY <1>1, <1>2, <2>1, <3>2, <3>3, <3>4, QuietPoll
    <2> QED BY <2>2, <2>3
<1> QED BY <1>3, <1>4

LEMMA PollDrainsStep == ASSUME SesInv, Session!PollDrains PROVE SesInv'
<1> DEFINE r == act["poll"].rt
           none == {}
           new == [rts[r] EXCEPT !.queue = none]
<1>0. SessionTypes /\ PlaceInv /\ BatchInv /\ "poll" \in Session!Actors
    BY DEF SesInv, Session!Actors
<1>1. /\ act["poll"].pc = "waiting" /\ drained' = rts[r].queue
      /\ rts' = [rts EXCEPT ![r] = new]
      /\ UNCHANGED <<saved, current, task, kept, pushed, excused>>
    BY DEF Session!PollDrains
<1>2. r \in DOMAIN rts /\ rts[r] \in Runtime /\ task = "live" /\ drained = {}
    <2>1. r \in DOMAIN rts /\ task = "live"
        BY <1>0, <1>1 DEF PlaceInv, Bound, OfRuntime
    <2>2. rts[r] \in Runtime
        BY <1>0, <2>1 DEF SessionTypes
    <2>3. drained = {}
        BY <1>0, <1>1 DEF BatchInv
    <2> QED BY <2>1, <2>2, <2>3
<1>3. PICK pc \in {"row", "resolving", "persisting"} :
              act' = [act EXCEPT !["poll"] = Session!At(pc, 0)]
    BY DEF Session!PollDrains
<1> DEFINE e == Session!At(pc, 0)
<1>4. e \in Place /\ e.pc = pc /\ e.then = pc
    BY AtPlace DEF Awaits
<1>5. act' = [act EXCEPT !["poll"] = e]
    BY <1>3
<1> HIDE DEF e, none
<1>6. new \in Runtime /\ Follows(rts[r], new) /\ new.queue = none
    <2>1. PICK au \in BOOLEAN : TRUE
        OBVIOUS
    <2>2. none \in SUBSET Pushes
        BY DEF none
    <2> QED BY <1>2, <2>1, <2>2, Plain
<1> HIDE DEF new
<1>7. /\ rts' \in Seq(Runtime) /\ DOMAIN rts' = DOMAIN rts
      /\ rts'[r] = new /\ \A q \in DOMAIN rts : q # r => rts'[q] = rts[q]
    BY <1>0, <1>1, <1>2, <1>6, Replaced DEF SessionTypes
<1>8. \A q \in DOMAIN rts : Follows(rts[q], rts'[q])
    BY <1>6, <1>7 DEF Follows
<1>9. /\ current' \in {0} \union DOMAIN rts /\ drained' \subseteq Pushes
      /\ saved' \in BOOLEAN /\ task' = "live" /\ ~Bound(e)
    BY <1>0, <1>1, <1>2, <1>4 DEF SessionTypes, Runtime, Bound, OfRuntime
<1>10. SessionTypes' /\ PlaceInv' /\ StartsInv'
    BY <1>0, <1>1, <1>4, <1>5, <1>7, <1>8, <1>9, Quiet
<1>11. act'["poll"] = e
    BY <1>0, <1>4, <1>5, Moved DEF SessionTypes
<1>12. Queued \subseteq Queued' \union drained'
    <2>1. CASE current = 0
        BY <2>1 DEF Queued
    <2>2. CASE current # 0
        <3>1. current \in DOMAIN rts /\ Queued = rts[current].queue
                 /\ Queued' = rts'[current].queue
            BY <1>0, <1>1, <2>2 DEF SessionTypes, Queued
        <3>2. CASE r = current
            BY <1>1, <3>1, <3>2
        <3>3. CASE r # current
            BY <1>7, <3>1, <3>3
        <3> QED BY <3>2, <3>3
    <2> QED BY <2>1, <2>2
<1>13. BatchInv'
    BY <1>0, <1>1, <1>2, <1>4, <1>11, <1>12 DEF BatchInv
<1> QED BY <1>10, <1>13 DEF SesInv

\* The places of the panel's calls, and that an idle one is about no runtime.
LEMMA IdlePlace ==
    Session!Idle \in Place /\ Session!Idle.pc = "idle" /\ Session!Idle.then = "idle"
       /\ ~Bound(Session!Idle)
BY AtPlace DEF Bound, OfRuntime, Awaits

\* Calls that begin, and those that end without having touched a runtime.
LEMMA PanelQuietStep ==
    ASSUME SesInv, Session!Enable \/ Session!Disable \/ Session!Delete \/ Session!Left
    PROVE  SesInv'
<1>0. SessionTypes
    BY DEF SesInv
<1>1. CASE Session!Enable
    <2>1. UNCHANGED <<saved, current, rts, act, task, drained, kept, pushed, excused>>
        BY <1>1 DEF Session!Enable, Session!memory
    <2> QED BY <1>0, <2>1, Same, Still, BatchKept DEF SesInv, BatchInv, Queued
<1>2. CASE Session!Disable \/ Session!Delete
    <2>1. PICK then \in {"disabled", "deleted"} :
              act' = [act EXCEPT !["panel"] = [pc |-> "dropping", rt |-> 0, then |-> then]]
        BY <1>2 DEF Session!Disable, Session!Delete
    <2> DEFINE e == [pc |-> "dropping", rt |-> 0, then |-> then]
    <2>2. e \in Place /\ e.pc = "dropping" /\ e.then = then
        BY DEF Place, Awaits
    <2>3. act' = [act EXCEPT !["panel"] = e]
        BY <2>1
    <2> HIDE DEF e
    <2>4. /\ UNCHANGED <<saved, current, rts, task, drained, kept, pushed, excused>>
          /\ act["panel"] = Session!Idle
        BY <1>2 DEF Session!Disable, Session!Delete, Session!Call
    <2>5. saved' \in BOOLEAN /\ ~Bound(e) /\ act["panel"].pc # "opening"
        BY <1>0, <2>2, <2>4, IdlePlace DEF SessionTypes, Bound
    <2> QED BY <2>2, <2>3, <2>4, <2>5, QuietPanel
<1>3. CASE Session!Left
    <2>1. /\ act["panel"].pc = "leaving" /\ act' = [act EXCEPT !["panel"] = Session!Idle]
          /\ UNCHANGED <<saved, current, rts, task, drained, kept, pushed, excused>>
        BY <1>3 DEF Session!Left
    <2>2. saved' \in BOOLEAN
        BY <1>0, <2>1 DEF SessionTypes
    <2> QED BY <2>1, <2>2, IdlePlace, QuietPanel
<1> QED BY <1>1, <1>2, <1>3

LEMMA PanelConnectsStep ==
    ASSUME SesInv,
           Session!LoggedIn
              \/ \E then \in {"idle", "sending", "validating", "dialogs"} :
                    Session!PanelConnects(then)
    PROVE  SesInv'
<1>0. SessionTypes /\ "panel" \in Session!Actors
    BY DEF SesInv, Session!Actors
<1>1. CASE Session!LoggedIn /\ registered
    <2>1. /\ act["panel"].pc = "login" /\ act' = [act EXCEPT !["panel"] = Session!Idle]
          /\ UNCHANGED <<saved, current, rts, task, drained, kept, pushed, excused>>
        BY <1>1 DEF Session!LoggedIn
    <2>2. saved' \in BOOLEAN
        BY <1>0, <2>1 DEF SessionTypes
    <2> QED BY <2>1, <2>2, IdlePlace, QuietPanel
<1>2. CASE \E then \in {"registered", "idle", "sending", "validating", "dialogs"} :
              /\ Session!Connect("panel", then) /\ act["panel"].pc # "opening"
              /\ UNCHANGED <<saved, task, drained, kept, pushed, excused>>
    <2>1. PICK then \in {"registered", "idle", "sending", "validating", "dialogs"} :
              /\ Session!Connect("panel", then) /\ act["panel"].pc # "opening"
              /\ UNCHANGED <<saved, task, drained, kept, pushed, excused>>
        BY <1>2
    <2>2. then \in Awaits /\ then # "opening"
        BY DEF Awaits
    <2> QED BY <1>0, <2>1, <2>2, ConnectStep
<1>3. ASSUME NEW then \in {"idle", "sending", "validating", "dialogs"},
             Session!PanelConnects(then)
      PROVE  SesInv'
    <2>1. act["panel"] = Session!Idle
        BY <1>3 DEF Session!PanelConnects, Session!Call
    <2>2. act["panel"].pc # "opening"
        BY <2>1, IdlePlace
    <2> QED BY <1>2, <1>3, <2>2 DEF Session!PanelConnects
<1>4. CASE Session!LoggedIn /\ ~registered
    BY <1>2, <1>4 DEF Session!LoggedIn
<1> QED BY <1>1, <1>3, <1>4

\* The panel's calls that are about a runtime.
LEMMA PanelRuntimeStep ==
    ASSUME SesInv, Session!CodeSent \/ Session!Validated \/ Session!DialogsAsked
           \/ Session!DialogsDrain
    PROVE  SesInv'
<1> DEFINE r == act["panel"].rt
           none == {}
<1>0. SessionTypes /\ PlaceInv /\ "panel" \in Session!Actors
    BY DEF SesInv, Session!Actors
<1>1. /\ act["panel"].pc \in {"sending", "validating", "dialogs", "draining"}
      /\ UNCHANGED <<current, task, drained, kept, pushed>>
    BY DEF Session!CodeSent, Session!Validated, Session!DialogsAsked, Session!DialogsDrain
<1>2. r \in DOMAIN rts
    BY <1>0, <1>1 DEF PlaceInv, Bound, OfRuntime
<1>3. rts[r] \in Runtime /\ r \in Nat
    BY <1>0, <1>2 DEF SessionTypes
<1>4. PICK off \in BOOLEAN, on \in BOOLEAN : off = FALSE /\ on = TRUE
    OBVIOUS
<1>5. none \in SUBSET Pushes
    OBVIOUS
<1> HIDE DEF none
<1>6. CASE Session!CodeSent
    <2> DEFINE new == [rts[r] EXCEPT !.code = TRUE, !.auth = off]
    <2>1. /\ rts' = [rts EXCEPT ![r] = new] /\ act' = [act EXCEPT !["panel"] = Session!Idle]
          /\ UNCHANGED <<saved, excused>>
        BY <1>4, <1>6 DEF Session!CodeSent
    <2>2. new \in Runtime /\ Follows(rts[r], new) /\ new.queue = rts[r].queue
        BY <1>3, <1>4, <1>5, Plain
    <2> HIDE DEF new
    <2>3. saved' \in BOOLEAN /\ act["panel"].pc # "opening"
        BY <1>0, <1>1, <2>1 DEF SessionTypes
    <2> QED BY <1>1, <1>2, <2>1, <2>2, <2>3, IdlePlace, PanelChanges
<1>7. CASE Session!Validated
    <2>1. CASE rts[r].code
        <3> DEFINE new == [rts[r] EXCEPT !.auth = on]
                   e == Session!At("login", r)
        <3>1. /\ rts' = [rts EXCEPT ![r] = new] /\ act' = [act EXCEPT !["panel"] = e]
              /\ saved' = TRUE /\ UNCHANGED excused
            BY <1>4, <1>7, <2>1 DEF Session!Validated
        <3>2. new \in Runtime /\ Follows(rts[r], new) /\ new.queue = rts[r].queue
            BY <1>3, <1>4, <1>5, Plain
        <3>3. e \in Place /\ e.pc = "login" /\ e.then = "login"
            BY <1>3, AtPlace DEF Awaits
        <3> HIDE DEF new, e
        <3>4. saved' \in BOOLEAN /\ act["panel"].pc # "opening" /\ ~Bound(e)
            BY <1>1, <3>1, <3>3 DEF Bound, OfRuntime
        <3> QED BY <1>1, <1>2, <3>1, <3>2, <3>3, <3>4, PanelChanges
    <2>2. CASE ~rts[r].code
        <3>1. act' = [act EXCEPT !["panel"] = Session!Idle]
                 /\ UNCHANGED <<saved, rts, excused>>
            BY <1>7, <2>2 DEF Session!Validated
        <3>2. saved' \in BOOLEAN /\ act["panel"].pc # "opening"
            BY <1>0, <1>1, <3>1 DEF SessionTypes
        <3> QED BY <1>1, <3>1, <3>2, IdlePlace, QuietPanel
    <2> QED BY <2>1, <2>2
<1>8. CASE Session!DialogsAsked
    <2>0. UNCHANGED <<saved, excused>>
        BY <1>8 DEF Session!DialogsAsked
    <2>1. CASE rts[r].auth /\ rts[r].listener \in {"none", "done"}
        <3>1. /\ rts' = [rts EXCEPT ![r] = Session!Starting(@)]
              /\ act' = [act EXCEPT !["panel"] = [pc |-> "opening", rt |-> r, then |-> "draining"]]
            BY <1>8, <2>1 DEF Session!DialogsAsked
        <3>2. act["panel"].pc # "opening" /\ "draining" \in Awaits
            BY <1>1 DEF Awaits
        <3> QED BY <1>0, <1>1, <1>2, <2>0, <2>1, <3>1, <3>2, StartBegins
    <2>2. CASE ~(rts[r].auth /\ rts[r].listener \in {"none", "done"})
        <3> DEFINE e == IF rts[r].auth THEN Session!At("draining", r) ELSE Session!Idle
        <3>1. act' = [act EXCEPT !["panel"] = e] /\ UNCHANGED rts
            BY <1>8, <2>2 DEF Session!DialogsAsked
        <3>2. /\ e \in Place /\ e.pc # "opening" /\ e.then # "opening"
              /\ Bound(e) => e.rt \in DOMAIN rts
            <4>1. CASE rts[r].auth
                BY <1>2, <1>3, <4>1, AtPlace DEF Awaits
            <4>2. CASE ~rts[r].auth
                BY <4>2, IdlePlace
            <4> QED BY <4>1, <4>2
        <3> HIDE DEF e
        <3>3. saved' \in BOOLEAN /\ act["panel"].pc # "opening"
            BY <1>0, <1>1, <2>0 DEF SessionTypes
        <3> QED BY <1>1, <2>0, <3>1, <3>2, <3>3, QuietPanel
    <2> QED BY <2>1, <2>2
<1>9. CASE Session!DialogsDrain
    <2> DEFINE new == [rts[r] EXCEPT !.queue = none]
    <2>1. /\ rts' = [rts EXCEPT ![r] = new] /\ act' = [act EXCEPT !["panel"] = Session!Idle]
          /\ UNCHANGED saved /\ excused' = excused \union rts[r].queue
        BY <1>9 DEF Session!DialogsDrain, none
    <2>2. new \in Runtime /\ Follows(rts[r], new)
        BY <1>3, <1>4, <1>5, Plain
    <2> HIDE DEF new
    <2>3. saved' \in BOOLEAN /\ act["panel"].pc # "opening"
        BY <1>0, <1>1, <2>1 DEF SessionTypes
    <2> QED BY <1>1, <1>2, <2>1, <2>2, <2>3, IdlePlace, PanelChanges
<1> QED BY <1>6, <1>7, <1>8, <1>9

\* A runtime that is stopped, its listener done or about to open once more.
LEMMA Stopped ==
    ASSUME NEW rt \in Runtime, NEW left \in {"closing", "done", "none"},
           left = "closing" => rt.listener = "closing"
    PROVE  LET new == [rt EXCEPT !.stop = TRUE, !.listener = left] IN
           new \in Runtime /\ Follows(rt, new) /\ new.queue = rt.queue
<1> DEFINE new == [rt EXCEPT !.stop = TRUE, !.listener = left]
<1>1. left \in Listeners /\ TRUE \in BOOLEAN
    BY DEF Listeners
<1>2. new \in Runtime
    BY <1>1 DEF Runtime
<1>3. /\ new.queue = rt.queue /\ new.raced = rt.raced /\ new.opening = rt.opening
      /\ new.client = rt.client /\ new.strays = rt.strays /\ new.listener = left
    BY DEF Runtime
<1> HIDE DEF new
<1>4. Orderly(rt) => Orderly(new)
    BY <1>3 DEF Orderly
<1>5. Follows(rt, new)
    BY <1>3, <1>4 DEF Follows
<1> QED BY <1>2, <1>3, <1>5 DEF new

LEMMA DroppedStep == ASSUME SesInv, Session!Dropped PROVE SesInv'
<1> DEFINE gone == IF registered THEN current ELSE 0
           e == [act["panel"] EXCEPT !.pc = "leaving", !.rt = gone]
<1>0. SessionTypes /\ PlaceInv /\ "panel" \in Session!Actors
    BY DEF SesInv, Session!Actors
<1>1. /\ act["panel"].pc = "dropping"
      /\ UNCHANGED <<saved, task, drained, kept, pushed>>
      /\ current' = IF registered THEN 0 ELSE current
      /\ act' = [act EXCEPT !["panel"].pc = "leaving", !["panel"].rt = gone]
    BY DEF Session!Dropped
<1>2. act["panel"] \in Place /\ act["panel"].then # "opening" /\ gone \in Nat
    BY <1>0 DEF SessionTypes, PlaceInv
<1> HIDE DEF gone
<1>3. act' = [act EXCEPT !["panel"] = e]
    BY <1>0, <1>1 DEF SessionTypes
<1>4. /\ e \in Place /\ e.pc = "leaving" /\ e.then = act["panel"].then
    BY <1>2 DEF Place, Awaits
<1> HIDE DEF e
<1>5. saved' \in BOOLEAN /\ ~Bound(e)
    BY <1>0, <1>1, <1>4 DEF SessionTypes, Bound
<1>6. CASE registered /\ current # 0
    <2>1. current \in DOMAIN rts /\ rts[current] \in Runtime /\ current' = 0
        BY <1>0, <1>1, <1>6 DEF SessionTypes
    <2>2. PICK left \in {"closing", "done", "none"} :
              /\ left = "closing" => rts[current].listener = "closing"
              /\ rts' = [rts EXCEPT ![current].stop = TRUE, ![current].listener = left]
        BY <1>6 DEF Session!Dropped
    <2> DEFINE new == [rts[current] EXCEPT !.stop = TRUE, !.listener = left]
    <2>3. rts' = [rts EXCEPT ![current] = new]
        BY <2>1, <2>2
    <2>4. new \in Runtime /\ Follows(rts[current], new) /\ new.queue = rts[current].queue
        BY <2>1, <2>2, Stopped
    <2> HIDE DEF new
    <2>5. excused' = excused \union rts[current].queue
        BY <1>6 DEF Session!Dropped
    <2> QED BY <1>1, <1>2, <1>3, <1>4, <1>5, <2>1, <2>3, <2>4, <2>5, PanelChanges
<1>7. CASE ~(registered /\ current # 0)
    <2>1. UNCHANGED <<current, rts, excused>>
        BY <1>1, <1>7 DEF Session!Dropped
    <2> QED BY <1>1, <1>2, <1>3, <1>4, <1>5, <2>1, QuietPanel
<1> QED BY <1>6, <1>7

LEMMA RestartsStep == ASSUME SesInv, Session!SessionRestarts PROVE SesInv'
<1>1. /\ current' = 0 /\ rts' = <<>> /\ act' = [a \in Session!Actors |-> Session!Idle]
            /\ drained' = {}
      /\ excused' = excused \union (pushed \ kept) /\ UNCHANGED <<saved, kept, pushed>>
    BY DEF Session!SessionRestarts
<1>2. SessionTypes'
    BY <1>1, IdlePlace DEF SesInv, SessionTypes
<1>3. \A a \in Session!Actors : act'[a] = Session!Idle
    BY <1>1
<1>4. PlaceInv' /\ StartsInv' /\ BatchInv'
    BY <1>1, <1>3, IdlePlace DEF PlaceInv, StartsInv, BatchInv, Session!Actors
<1> QED BY <1>2, <1>4 DEF SesInv

LEMMA SesInvStep == ASSUME SesInv, [Session!SessionNext]_(Session!sessionVars) PROVE SesInv'
<1>1. CASE UNCHANGED Session!sessionVars
    <2>1. UNCHANGED <<saved, current, rts, act, task, drained, kept, pushed, excused>>
        BY <1>1 DEF Session!sessionVars, Session!memory
    <2> QED BY <2>1, Same, Still, BatchKept DEF SesInv, BatchInv, Queued
<1>2. CASE Session!Poll
    BY <1>2, OpensStep, RefreshesStep, RegistersStep, PollConnectsStep, PollAsksStep,
       PollDrainsStep, PollQuietStep DEF Session!Poll, Session!Actors
<1>3. CASE Session!Panel
    BY <1>3, OpensStep, RefreshesStep, RegistersStep, PanelRuntimeStep, PanelConnectsStep,
       DroppedStep, PanelQuietStep DEF Session!Panel, Session!Actors
<1>4. CASE Session!Listener
    BY <1>4, ListenerStep DEF Session!Listener
<1>5. CASE Session!PersistFails \/ Session!ReportFails \/ Session!ManagerStarts
              \/ Session!ManagerStops
    BY <1>5, PollQuietStep, ManagerStopsStep
<1>6. CASE \/ \E then \in {"idle", "sending", "validating", "dialogs"} :
                 Session!PanelConnects(then)
           \/ Session!Enable \/ Session!Disable \/ Session!Delete
    BY <1>6, PanelConnectsStep, PanelQuietStep
<1>7. CASE (\E u \in Pushes : Session!Push(u)) \/ Session!Drop \/ Session!SessionRestarts
    BY <1>7, PushStep, DropStep, RestartsStep
<1> QED BY <1>1, <1>2, <1>3, <1>4, <1>5, <1>6, <1>7 DEF Session!SessionNext

LEMMA SesInvInit == Session!SessionInit => SesInv
<1> SUFFICES ASSUME Session!SessionInit PROVE SesInv
    OBVIOUS
<1>1. /\ current = 0 /\ rts = <<>> /\ act = [a \in Session!Actors |-> Session!Idle]
            /\ drained = {}
      /\ pushed = {} /\ saved \in BOOLEAN
    BY DEF Session!SessionInit
<1>2. SessionTypes
    BY <1>1, IdlePlace DEF SessionTypes
<1>3. \A a \in Session!Actors : act[a] = Session!Idle
    BY <1>1
<1>4. PlaceInv /\ StartsInv /\ BatchInv
    BY <1>1, <1>3, IdlePlace DEF PlaceInv, StartsInv, BatchInv, Session!Actors
<1> QED BY <1>2, <1>4 DEF SesInv

LEMMA SesInvMeans == ASSUME SesInv PROVE Session!OneSocket /\ Session!UpdatesKept
BY DEF SesInv, StartsInv, Orderly, Session!OneSocket, BatchInv, Queued, Session!UpdatesKept

----------------------------------------------------------------------------
(* The durable queue.                                                      *)

Rows == [event : Queue!Events, stream : Queue!Range(Queue!Peer) \union {Queue!Nobody}, due : BOOLEAN]
Delivering == {"ingest", "posted", "handled"}

QueueTypes ==
    /\ NumEvents \in Nat /\ Queue!IsHistory(history) /\ produced \in 0..NumEvents
    /\ inbox \in Seq(Queue!Events) /\ batch \in Seq(Queue!Events)
    /\ rows \in Seq(Rows) /\ todo \in Seq(Rows)
    /\ Queue!Waiting \union mapped \subseteq 1..produced
    /\ copies \in [Queue!Events -> Nat]
          /\ \A f \in Queue!Events : copies[f] > 0 => f <= produced

\* One row an event, in the stream of its chat where it has one.
RowsInv ==
    /\ \A i, k \in DOMAIN rows : rows[i].event = rows[k].event => i = k
    /\ \A i \in DOMAIN rows :
          LET e == rows[i].event IN
          /\ Queue!Kind[e] = "message" => rows[i].stream = Queue!Peer[e]
          /\ Queue!Kind[e] = "deletion" => rows[i].stream \in {Queue!Peer[e], Queue!Nobody}

\* Messages that have not been shown and that nobody lost.
Live(e) == Queue!Kind[e] = "message" /\ e \notin lost /\ ~Queue!Duplicate(e)
Behind(e, f) == e < f /\ Queue!Kind[f] # "confirmation"

\* A live message is in every queue before the later ones: a frame that came twice counts
\* where it came first.
RowsInOrder ==
    \A i \in DOMAIN rows : \A e \in Queue!Waiting :
        Live(e) /\ Behind(e, rows[i].event) => \E k \in 1..i-1 : rows[k].event = e
BatchInOrder ==
    \A i \in DOMAIN batch : \A e \in Queue!Waiting :
        Live(e) /\ Behind(e, batch[i]) => e \in Queue!Queued
           \/ \E k \in 1..i-1 : batch[k] = e
InboxInOrder ==
    \A i \in DOMAIN inbox : \A e \in Queue!Waiting :
        Live(e) /\ Behind(e, inbox[i])
        => e \in Queue!Queued \union Queue!Range(batch) \/ \E k \in 1..i-1 : inbox[k] = e

\* Eitaa: what is behind the cursor was queued, what is fetched is ahead of it.
CursorInv ==
    Queue!Platform = "eitaa" =>
        /\ inbox = <<>> /\ lost = {} /\ cursor = state /\ state \in 0..produced
              /\ fetched \in 0..produced
        /\ batch = <<>> \/ Queue!Range(batch) = state+1..fetched
        /\ batch # <<>> => state < fetched
        /\ Queue!Queued \subseteq 1..cursor
        /\ \A f \in Queue!Events : copies[f] > 0 => f <= cursor

\* What the pass has left is queued; what is queued before it is blocked or left too.
TodoInv ==
    /\ \A k \in DOMAIN todo : \E i \in DOMAIN rows :
          rows[i].event = todo[k].event /\ rows[i].stream = todo[k].stream
    /\ \A k, m \in DOMAIN todo : todo[k].event = todo[m].event => k = m
    /\ \A k \in DOMAIN todo, j \in DOMAIN rows : \A i \in 1..j-1 :
          rows[j].event = todo[k].event
          => rows[i].stream \in blocked \/ \E m \in 1..k-1 : todo[m].event = rows[i].event
    /\ stage \in Delivering =>
          /\ todo # <<>> /\ Head(todo).stream \notin blocked
          /\ Queue!Kind[Queue!Current] = "deletion"
                /\ Head(todo).stream = Queue!Nobody => blocked = {}
    /\ stage = "handled" => Queue!Duplicate(Queue!Current)

QueueInv ==
    /\ QueueTypes /\ RowsInv /\ RowsInOrder /\ BatchInOrder /\ InboxInOrder
    /\ CursorInv /\ TodoInv /\ Queue!NothingSkipped /\ Queue!PeerOrder

LEMMA SeqRange ==
    ASSUME NEW S, NEW s \in Seq(S)
    PROVE  /\ Len(s) \in Nat /\ DOMAIN s = 1..Len(s) /\ Queue!Range(s) \subseteq S
           /\ \A i \in DOMAIN s : s[i] \in S /\ s[i] \in Queue!Range(s)
           /\ \A e \in Queue!Range(s) : \E i \in DOMAIN s : s[i] = e
           /\ s = <<>> => Queue!Range(s) = {}
BY DEF Queue!Range

\* What an action that leaves the history alone says of an event stays said.
LEMMA SameHistory ==
    ASSUME history' = history
    PROVE  /\ Queue!Kind' = Queue!Kind /\ Queue!Peer' = Queue!Peer
                 /\ Queue!Original' = Queue!Original /\ Queue!Platform' = Queue!Platform
           /\ Queue!IsHistory(history)' <=> Queue!IsHistory(history)
           /\ \A e, f : Behind(e, f)' <=> Behind(e, f)
BY DEF Queue!Kind, Queue!Peer, Queue!Original, Queue!Platform, Queue!IsHistory,
   Queue!Events, Behind

LEMMA DuplicateStays ==
    ASSUME history' = history, mapped \subseteq mapped', NEW e
    PROVE  /\ Queue!Duplicate(e) => Queue!Duplicate(e)'
           /\ (lost \subseteq lost' /\ Live(e)') => Live(e)
BY SameHistory DEF Queue!Duplicate, Live

\* Rows that change in nothing but when they are due.
SameRows ==
    /\ rows' \in Seq(Rows) /\ DOMAIN rows' = DOMAIN rows
    /\ \A i \in DOMAIN rows : rows'[i].event = rows[i].event
          /\ rows'[i].stream = rows[i].stream

LEMMA SameQueued == ASSUME SameRows PROVE Queue!Queued' = Queue!Queued
BY DEF SameRows, Queue!Queued

\* The steps of the pass that do not delete a row.
LEMMA IntakeKept ==
    ASSUME QueueInv, SameRows,
           UNCHANGED <<history, produced, inbox, batch, lost, fetched, state, cursor>>,
           mapped \subseteq mapped', mapped' \subseteq 1..produced, todo' \in Seq(Rows),
           copies' \in [Queue!Events -> Nat],
           \A f \in Queue!Events : copies'[f] > 0 => copies[f] > 0 \/ f \in Queue!Queued
    PROVE  /\ QueueTypes' /\ RowsInv' /\ RowsInOrder' /\ BatchInOrder' /\ InboxInOrder'
           /\ CursorInv' /\ Queue!NothingSkipped' /\ Queue!Waiting' = Queue!Waiting
<1>0. /\ QueueTypes /\ RowsInv /\ RowsInOrder /\ BatchInOrder /\ InboxInOrder
      /\ CursorInv /\ Queue!NothingSkipped
    BY DEF QueueInv
<1>1. Queue!Queued' = Queue!Queued
    BY SameQueued
<1>2. Queue!Waiting' = Queue!Waiting
    BY <1>1 DEF Queue!Waiting, Queue!Range
<1>3. /\ Queue!Kind' = Queue!Kind /\ Queue!Peer' = Queue!Peer
            /\ Queue!Original' = Queue!Original /\ Queue!Platform' = Queue!Platform
      /\ Queue!IsHistory(history)' /\ \A e, f : Behind(e, f)' <=> Behind(e, f)
    BY <1>0, SameHistory DEF QueueTypes
<1>4. \A e : (Queue!Duplicate(e) => Queue!Duplicate(e)') /\ (Live(e)' => Live(e))
    BY DuplicateStays
<1>5. QueueTypes'
    <2>1. \A f \in Queue!Events : copies'[f] > 0 => f <= produced
        BY <1>0 DEF QueueTypes, Queue!Waiting
    <2> QED BY <1>0, <1>2, <1>3, <2>1 DEF QueueTypes, SameRows, Rows, Queue!Events,
               Queue!Range
<1>6. RowsInv'
    BY <1>0, <1>3 DEF RowsInv, SameRows
<1>7. RowsInOrder' /\ BatchInOrder' /\ InboxInOrder'
    <2>1. RowsInOrder'
        <3> SUFFICES ASSUME NEW i \in DOMAIN rows', NEW e \in Queue!Waiting', Live(e)',
                            Behind(e, rows[i].event)'
                     PROVE  \E k \in 1..i-1 : rows'[k].event = e
            BY DEF RowsInOrder
        <3>1. i \in DOMAIN rows /\ rows'[i].event = rows[i].event
            BY DEF SameRows
        <3>4. Live(e) /\ Behind(e, rows[i].event)
            BY <1>3, <1>4, <3>1 DEF Behind
        <3>2. PICK k \in 1..i-1 : rows[k].event = e
            BY <1>0, <1>2, <3>1, <3>4 DEF RowsInOrder
        <3>3. k \in DOMAIN rows
            BY <1>0, <3>1, SeqRange DEF QueueTypes
        <3> QED BY <3>2, <3>3 DEF SameRows
    <2>2. BatchInOrder'
        BY <1>0, <1>1, <1>2, <1>3, <1>4 DEF BatchInOrder
    <2>3. InboxInOrder'
        BY <1>0, <1>1, <1>2, <1>3, <1>4 DEF InboxInOrder, Queue!Range
    <2> QED BY <2>1, <2>2, <2>3
<1>8. CursorInv'
    BY <1>0, <1>1, <1>3 DEF CursorInv, Queue!Range, Queue!Events
<1>9. Queue!NothingSkipped'
    BY <1>0, <1>1, <1>2, <1>3, <1>4 DEF Queue!NothingSkipped
<1> QED BY <1>2, <1>5, <1>6, <1>7, <1>8, <1>9

LEMMA HeadTail ==
    ASSUME NEW S, NEW s \in Seq(S), s # <<>>
    PROVE  /\ 1 \in DOMAIN s /\ Head(s) = s[1] /\ Head(s) \in S
           /\ Tail(s) \in Seq(S) /\ Len(Tail(s)) = Len(s) - 1
           /\ \A k \in DOMAIN Tail(s) :
                 k \in 1..Len(s)-1 /\ k+1 \in DOMAIN s /\ Tail(s)[k] = s[k+1]
OBVIOUS

LEMMA RowFacts ==
    ASSUME QueueTypes
    PROVE  /\ \A i \in DOMAIN rows : rows[i].event \in Queue!Events
                 /\ rows[i].event \in Queue!Queued
           /\ \A k \in DOMAIN todo : todo[k].event \in Queue!Events
           /\ Queue!Queued \subseteq Queue!Waiting /\ Queue!Waiting \subseteq Queue!Events
           /\ DOMAIN rows = 1..Len(rows) /\ Len(rows) \in Nat
           /\ DOMAIN todo = 1..Len(todo) /\ Len(todo) \in Nat
           /\ \A e \in Queue!Events : e \in Nat
                 /\ Queue!Kind[e] \in {"message", "confirmation", "deletion"}
           /\ \A e \in Queue!Queued : \E i \in DOMAIN rows : rows[i].event = e
<1>1. Queue!Waiting \subseteq Queue!Events
    BY DEF QueueTypes, Queue!Events
<1>2. \A i \in DOMAIN rows : rows[i].event \in Queue!Queued
    BY DEF Queue!Queued
<1>3. \A r \in Rows : r.event \in Queue!Events
    BY DEF Rows
<1>4. rows \in Seq(Rows) /\ todo \in Seq(Rows)
    BY DEF QueueTypes
<1>5. /\ \A i \in DOMAIN rows : rows[i].event \in Queue!Events
      /\ \A k \in DOMAIN todo : todo[k].event \in Queue!Events
    BY <1>3, <1>4
<1>6. /\ DOMAIN rows = 1..Len(rows) /\ Len(rows) \in Nat
      /\ DOMAIN todo = 1..Len(todo) /\ Len(todo) \in Nat
    BY <1>4
<1>7. \A e \in Queue!Events : e \in Nat
         /\ Queue!Kind[e] \in {"message", "confirmation", "deletion"}
    BY DEF QueueTypes, Queue!IsHistory, Queue!Kind, Queue!Events
<1>8. Queue!Queued \subseteq Queue!Waiting
         /\ \A e \in Queue!Queued : \E i \in DOMAIN rows : rows[i].event = e
    BY DEF Queue!Waiting, Queue!Queued
<1> QED BY <1>1, <1>2, <1>5, <1>6, <1>7, <1>8

\* The pass has something in hand, and it is the row of an event that waits.
LEMMA InHand ==
    ASSUME QueueInv, stage \in Delivering
    PROVE  /\ todo # <<>> /\ todo[1] = Head(todo) /\ 1 \in DOMAIN todo
           /\ Queue!Current \in Queue!Events /\ Queue!Current \in Queue!Queued
           /\ \E j \in DOMAIN rows : rows[j].event = Queue!Current
                 /\ rows[j].stream = Head(todo).stream
<1>1. todo # <<>> /\ todo \in Seq(Rows)
    BY DEF QueueInv, TodoInv, QueueTypes
<1>2. todo[1] = Head(todo) /\ 1 \in DOMAIN todo
    BY <1>1, HeadTail
<1>3. \E j \in DOMAIN rows : rows[j].event = Queue!Current
         /\ rows[j].stream = Head(todo).stream
    BY <1>2 DEF QueueInv, TodoInv, Queue!Current
<1> QED BY <1>1, <1>2, <1>3, RowFacts DEF QueueInv

\* The pass has not got past a live message of the chat.
LEMMA AtHead ==
    ASSUME QueueInv, stage \in Delivering, NEW e \in Queue!Waiting, Live(e),
           Behind(e, Queue!Current), Queue!Peer[e] = Queue!Peer[Queue!Current]
    PROVE  FALSE
<1>0. QueueTypes /\ RowsInv /\ RowsInOrder /\ TodoInv
    BY DEF QueueInv
<1>1. PICK j \in DOMAIN rows : rows[j].event = Queue!Current
              /\ rows[j].stream = Head(todo).stream
    BY InHand
<1>2. PICK i \in 1..j-1 : rows[i].event = e
    BY <1>0, <1>1 DEF RowsInOrder
<1>3. i \in DOMAIN rows
    BY <1>0, <1>1, RowFacts
<1>4. todo[1] = Head(todo) /\ 1 \in DOMAIN todo
    BY InHand
<1>5. rows[i].stream \in blocked \/ \E m \in 1..1-1 : todo[m].event = rows[i].event
    BY <1>0, <1>1, <1>4 DEF TodoInv, Queue!Current
<1>6. rows[i].stream \in blocked
    BY <1>5
<1>7. rows[i].stream = Queue!Peer[e]
    BY <1>0, <1>2, <1>3 DEF RowsInv, Live
<1>8. Queue!Kind[Queue!Current] \in {"message", "deletion"}
    BY <1>0, InHand, RowFacts DEF Behind
<1>9. CASE Queue!Kind[Queue!Current] = "message"
    <2>1. rows[j].stream = Queue!Peer[e]
        BY <1>0, <1>1, <1>9 DEF RowsInv
    <2> QED BY <1>0, <1>1, <1>6, <1>7, <2>1 DEF TodoInv
<1>10. CASE Queue!Kind[Queue!Current] = "deletion"
    <2>1. rows[j].stream = Queue!Peer[e] \/ rows[j].stream = Queue!Nobody
        BY <1>0, <1>1, <1>10 DEF RowsInv
    <2> QED BY <1>0, <1>1, <1>6, <1>7, <1>10, <2>1 DEF TodoInv
<1> QED BY <1>8, <1>9, <1>10

\* The order in which a chat is shown is kept when nothing is shown or dealt with.
LEMMA OrderKept ==
    ASSUME Queue!PeerOrder, QueueTypes, history' = history, copies' = copies,
           mapped' = mapped,
           \A e \in Queue!Waiting' \ lost' :
              \/ e \in Queue!Waiting \ lost \/ Queue!Duplicate(e)
              \/ \A f \in Queue!Events : copies[f] > 0 => ~(e < f)
    PROVE  Queue!PeerOrder'
<1>1. Queue!Kind' = Queue!Kind /\ Queue!Peer' = Queue!Peer
         /\ Queue!Original' = Queue!Original
               /\ \A e : Queue!Duplicate(e)' <=> Queue!Duplicate(e)
    BY SameHistory DEF Queue!Duplicate
<1>2. ASSUME NEW e \in Queue!Events, NEW f \in Queue!Events, e < f,
             Queue!Peer[e] = Queue!Peer[f],
             Queue!Kind[e] = "message", Queue!Kind[f] = "message", copies[f] > 0
      PROVE  e \notin Queue!Waiting' \ lost' \/ copies[e] > 0 \/ Queue!Duplicate(e)
    BY <1>2 DEF Queue!PeerOrder
<1>3. \A d \in mapped : Queue!Kind[d] = "deletion" => Queue!Duplicate(Queue!Original[d])
    BY DEF Queue!PeerOrder
<1> QED BY <1>1, <1>2, <1>3 DEF Queue!PeerOrder, Queue!Events

\* What the pass says of the rows holds of rows that changed in nothing but when they are due.
LEMMA TodoKept ==
    ASSUME QueueInv, SameRows, todo' = todo, blocked' = blocked, stage' = stage,
           history' = history, mapped \subseteq mapped'
    PROVE  TodoInv'
<1>0. QueueTypes /\ TodoInv /\ DOMAIN rows' = DOMAIN rows
    BY DEF QueueInv, SameRows
<1>1. \A i \in DOMAIN rows : rows'[i].event = rows[i].event
         /\ rows'[i].stream = rows[i].stream
    BY DEF SameRows
<1>2. Queue!Kind' = Queue!Kind /\ Queue!Current' = Queue!Current
         /\ (Queue!Duplicate(Queue!Current) => Queue!Duplicate(Queue!Current)')
    BY SameHistory, DuplicateStays DEF Queue!Current, Queue!Duplicate
<1>3. \A k \in DOMAIN todo' : \E i \in DOMAIN rows' :
          rows'[i].event = todo'[k].event /\ rows'[i].stream = todo'[k].stream
    BY <1>0, <1>1 DEF TodoInv
<1>4. \A k \in DOMAIN todo', j \in DOMAIN rows' : \A i \in 1..j-1 :
          rows'[j].event = todo'[k].event
          => rows'[i].stream \in blocked'
             \/ \E m \in 1..k-1 : todo'[m].event = rows'[i].event
    <2>1. \A j \in DOMAIN rows : \A i \in 1..j-1 : i \in DOMAIN rows
        BY <1>0, RowFacts
    <2> QED BY <1>0, <1>1, <2>1 DEF TodoInv
<1> QED BY <1>0, <1>2, <1>3, <1>4 DEF TodoInv

\* A step of the pass that leaves the row in hand behind, and its stream blocked.
LEMMA PassedOver ==
    ASSUME QueueInv, SameRows, todo # <<>>, todo' = Tail(todo), stage' = "next",
           blocked' = blocked \union {Head(todo).stream}, history' = history
    PROVE  todo' \in Seq(Rows) /\ TodoInv'
<1>0. QueueTypes /\ RowsInv /\ TodoInv /\ DOMAIN rows' = DOMAIN rows /\ todo \in Seq(Rows)
    BY DEF QueueInv, SameRows, QueueTypes
<1>1. \A i \in DOMAIN rows : rows'[i].event = rows[i].event
         /\ rows'[i].stream = rows[i].stream
    BY DEF SameRows
<1>2. /\ 1 \in DOMAIN todo /\ Head(todo) = todo[1] /\ todo' \in Seq(Rows)
      /\ Len(todo') = Len(todo) - 1
      /\ \A k \in DOMAIN todo' : k \in Nat /\ k+1 \in DOMAIN todo /\ todo'[k] = todo[k+1]
    BY <1>0, HeadTail
<1>3. PICK h \in DOMAIN rows : rows[h].event = todo[1].event
              /\ rows[h].stream = todo[1].stream
    BY <1>0, <1>2 DEF TodoInv
<1>4. \A k \in DOMAIN todo' : \E i \in DOMAIN rows' :
          rows'[i].event = todo'[k].event /\ rows'[i].stream = todo'[k].stream
    BY <1>0, <1>1, <1>2 DEF TodoInv
<1>5. \A k, m \in DOMAIN todo' : todo'[k].event = todo'[m].event => k = m
    <2> TAKE k, m \in DOMAIN todo'
    <2> HAVE todo'[k].event = todo'[m].event
    <2>1. k+1 \in DOMAIN todo /\ m+1 \in DOMAIN todo /\ todo[k+1].event = todo[m+1].event
        BY <1>2
    <2>2. k+1 = m+1
        BY <1>0, <2>1 DEF TodoInv
    <2> QED BY <1>2, <2>2
<1>6. ASSUME NEW k \in DOMAIN todo', NEW j \in DOMAIN rows', NEW i \in 1..j-1,
             rows'[j].event = todo'[k].event
      PROVE  rows'[i].stream \in blocked'
                \/ \E m \in 1..k-1 : todo'[m].event = rows'[i].event
    <2>1. i \in DOMAIN rows /\ j \in DOMAIN rows /\ i \in 1..j-1
        BY <1>0, <1>6, RowFacts
    <2>2. k+1 \in DOMAIN todo /\ k \in Nat /\ rows[j].event = todo[k+1].event
        BY <1>1, <1>2, <1>6, <2>1
    <2>3. rows[i].stream \in blocked \/ \E m \in 1..(k+1)-1 : todo[m].event = rows[i].event
        BY <1>0, <2>1, <2>2 DEF TodoInv
    <2>4. CASE rows[i].stream \in blocked
        BY <1>1, <2>1, <2>4
    <2>5. CASE \E m \in 1..(k+1)-1 : todo[m].event = rows[i].event
        <3>1. PICK m \in 1..k : todo[m].event = rows[i].event
            BY <2>2, <2>5
        <3>2. CASE m = 1
            <4>1. h = i
                BY <1>0, <1>3, <2>1, <3>1, <3>2 DEF RowsInv
            <4> QED BY <1>1, <1>2, <1>3, <2>1, <4>1
        <3>3. CASE m # 1
            <4> DEFINE n == m - 1
            <4>1. n \in 1..k-1 /\ n \in DOMAIN todo' /\ n+1 = m
                BY <1>0, <1>2, <2>2, <3>1, <3>3, RowFacts
            <4>2. todo'[n] = todo[m]
                BY <1>2, <4>1
            <4> QED BY <1>1, <2>1, <3>1, <4>1, <4>2
        <3> QED BY <3>2, <3>3
    <2> QED BY <2>3, <2>4, <2>5
<1> QED BY <1>2, <1>4, <1>5, <1>6 DEF TodoInv, Delivering

\* A pass begins, and ends.
LEMMA StartStep == ASSUME QueueInv, Queue!DrainStart PROVE QueueInv'
<1>0. QueueTypes /\ RowsInv /\ Queue!PeerOrder
    BY DEF QueueInv
<1>1. SameRows /\ todo' \in Seq(Rows)
    BY <1>0 DEF Queue!DrainStart, SameRows, QueueTypes
<1>2. /\ QueueTypes' /\ RowsInv' /\ RowsInOrder' /\ BatchInOrder' /\ InboxInOrder'
      /\ CursorInv' /\ Queue!NothingSkipped' /\ Queue!Waiting' = Queue!Waiting
    BY <1>1, IntakeKept, <1>0 DEF Queue!DrainStart, Queue!intakeVars, QueueTypes,
       Queue!Waiting
<1>3. TodoInv'
    <2>1. rows' = rows /\ todo' = rows /\ stage' \notin Delivering /\ stage' # "handled"
        BY DEF Queue!DrainStart, Delivering
    <2>2. \A j \in DOMAIN rows : \A i \in 1..j-1 : i \in DOMAIN rows
        BY <1>0, RowFacts
    <2> QED BY <1>0, <2>1, <2>2 DEF TodoInv, RowsInv
<1>4. Queue!PeerOrder'
    BY <1>0, <1>2, OrderKept DEF Queue!DrainStart, Queue!intakeVars
<1> QED BY <1>2, <1>3, <1>4 DEF QueueInv

LEMMA StopStep == ASSUME QueueInv, Queue!DrainStop PROVE QueueInv'
<1>0. QueueTypes /\ RowsInv /\ Queue!PeerOrder
    BY DEF QueueInv
<1>1. SameRows /\ todo' \in Seq(Rows)
    BY <1>0 DEF Queue!DrainStop, SameRows, QueueTypes
<1>2. /\ QueueTypes' /\ RowsInv' /\ RowsInOrder' /\ BatchInOrder' /\ InboxInOrder'
      /\ CursorInv' /\ Queue!NothingSkipped' /\ Queue!Waiting' = Queue!Waiting
    BY <1>1, IntakeKept, <1>0 DEF Queue!DrainStop, Queue!intakeVars, QueueTypes,
       Queue!Waiting
<1>3. TodoInv'
    BY DEF Queue!DrainStop, TodoInv, Delivering
<1>4. Queue!PeerOrder'
    BY <1>0, <1>2, OrderKept DEF Queue!DrainStop, Queue!intakeVars
<1> QED BY <1>2, <1>3, <1>4 DEF QueueInv

LEMMA PassStep == ASSUME QueueInv, Queue!Pass PROVE QueueInv'
<1>0. QueueTypes /\ RowsInv /\ Queue!PeerOrder
    BY DEF QueueInv
<1>1. SameRows
    BY <1>0 DEF Queue!Pass, SameRows, QueueTypes
<1>2. todo' \in Seq(Rows) /\ TodoInv'
    BY <1>1, PassedOver DEF Queue!Pass
<1>3. /\ QueueTypes' /\ RowsInv' /\ RowsInOrder' /\ BatchInOrder' /\ InboxInOrder'
      /\ CursorInv' /\ Queue!NothingSkipped' /\ Queue!Waiting' = Queue!Waiting
    BY <1>1, <1>2, IntakeKept, <1>0 DEF Queue!Pass, Queue!intakeVars, QueueTypes,
       Queue!Waiting
<1>4. Queue!PeerOrder'
    BY <1>0, <1>3, OrderKept DEF Queue!Pass, Queue!intakeVars
<1> QED BY <1>2, <1>3, <1>4 DEF QueueInv

LEMMA BeginStep == ASSUME QueueInv, Queue!Begin PROVE QueueInv'
<1>0. QueueTypes /\ RowsInv /\ Queue!PeerOrder /\ TodoInv
    BY DEF QueueInv
<1>1. SameRows /\ todo' \in Seq(Rows)
    BY <1>0 DEF Queue!Begin, SameRows, QueueTypes
<1>2. /\ QueueTypes' /\ RowsInv' /\ RowsInOrder' /\ BatchInOrder' /\ InboxInOrder'
      /\ CursorInv' /\ Queue!NothingSkipped' /\ Queue!Waiting' = Queue!Waiting
    BY <1>1, IntakeKept, <1>0 DEF Queue!Begin, Queue!intakeVars, QueueTypes, Queue!Waiting
<1>3. TodoInv'
    <2>1. /\ rows' = rows /\ todo' = todo /\ blocked' = blocked /\ stage' # "handled"
          /\ todo # <<>> /\ Head(todo).stream \notin blocked
          /\ Queue!Kind[Queue!Current] = "deletion"
                /\ Head(todo).stream = Queue!Nobody => blocked = {}
          /\ history' = history
        BY DEF Queue!Begin, Queue!Overtaking, Queue!Current
    <2>2. Queue!Kind' = Queue!Kind /\ Queue!Current' = Queue!Current
        BY <2>1, SameHistory DEF Queue!Current
    <2> QED BY <1>0, <2>1, <2>2 DEF TodoInv
<1>4. Queue!PeerOrder'
    BY <1>0, <1>2, OrderKept DEF Queue!Begin, Queue!intakeVars
<1> QED BY <1>2, <1>3, <1>4 DEF QueueInv

\* A backoff ends, or begins: nothing but when a row is due changes.
LEMMA DueChanges ==
    ASSUME QueueTypes, NEW b \in BOOLEAN, NEW e,
           rows' = [i \in DOMAIN rows |->
                      IF rows[i].event = e THEN [rows[i] EXCEPT !.due = b] ELSE rows[i]]
    PROVE  SameRows
<1>1. rows \in Seq(Rows) /\ \A i \in DOMAIN rows : rows[i] \in Rows
    BY DEF QueueTypes
<1>2. \A r \in Rows : LET n == [r EXCEPT !.due = b]
                      IN  n \in Rows /\ n.event = r.event /\ n.stream = r.stream
    BY DEF Rows
<1>3. /\ DOMAIN rows' = DOMAIN rows
      /\ \A i \in DOMAIN rows : /\ rows'[i] \in Rows
                                /\ rows'[i].event = rows[i].event
                                /\ rows'[i].stream = rows[i].stream
    BY <1>1, <1>2
<1>4. rows' \in [1..Len(rows) -> Rows]
    <2>1. DOMAIN rows = 1..Len(rows)
        BY <1>1
    <2> QED BY <1>3, <2>1
<1>5. rows' \in Seq(Rows)
    <2>1. Len(rows) \in Nat
        BY <1>1
    <2> QED BY <1>4, <2>1
<1> QED BY <1>3, <1>5 DEF SameRows

LEMMA TickStep == ASSUME QueueInv, NEW e \in Queue!Events, Queue!Tick(e) PROVE QueueInv'
<1>0. QueueTypes /\ RowsInv /\ Queue!PeerOrder
    BY DEF QueueInv
<1>1. SameRows
    <2>1. PICK b \in BOOLEAN : b = TRUE
        OBVIOUS
    <2>2. rows' = [i \in DOMAIN rows |->
                      IF rows[i].event = e THEN [rows[i] EXCEPT !.due = b] ELSE rows[i]]
        BY <2>1 DEF Queue!Tick
    <2> QED BY <1>0, <2>2, DueChanges
<1>2. TodoInv'
    BY <1>1, TodoKept DEF Queue!Tick, Queue!drainVars
<1>3. /\ QueueTypes' /\ RowsInv' /\ RowsInOrder' /\ BatchInOrder' /\ InboxInOrder'
      /\ CursorInv' /\ Queue!NothingSkipped' /\ Queue!Waiting' = Queue!Waiting
    BY <1>1, IntakeKept, <1>0 DEF Queue!Tick, Queue!intakeVars, Queue!drainVars, QueueTypes,
       Queue!Waiting
<1>4. Queue!PeerOrder'
    BY <1>0, <1>3, OrderKept DEF Queue!Tick, Queue!intakeVars
<1> QED BY <1>2, <1>3, <1>4 DEF QueueInv

LEMMA FailStep == ASSUME QueueInv, Queue!DeliveryFails PROVE QueueInv'
<1>0. QueueTypes /\ RowsInv /\ Queue!PeerOrder /\ stage \in Delivering
    BY DEF QueueInv, Queue!DeliveryFails, Delivering
<1>1. SameRows
    <2>1. PICK b \in BOOLEAN : b = FALSE
        OBVIOUS
    <2>2. CASE rows' = rows
        BY <1>0, <2>2 DEF SameRows, QueueTypes
    <2>3. CASE rows' = [i \in DOMAIN rows |-> IF rows[i].event = Queue!Current
                           THEN [rows[i] EXCEPT !.due = b] ELSE rows[i]]
        BY <1>0, <2>3, DueChanges
    <2> QED BY <2>1, <2>2, <2>3 DEF Queue!DeliveryFails
<1>2. todo' \in Seq(Rows) /\ TodoInv'
    BY <1>0, <1>1, InHand, PassedOver DEF Queue!DeliveryFails
<1>3. /\ QueueTypes' /\ RowsInv' /\ RowsInOrder' /\ BatchInOrder' /\ InboxInOrder'
      /\ CursorInv' /\ Queue!NothingSkipped' /\ Queue!Waiting' = Queue!Waiting
    BY <1>1, <1>2, IntakeKept, <1>0 DEF Queue!DeliveryFails, Queue!intakeVars, QueueTypes,
       Queue!Waiting
<1>4. Queue!PeerOrder'
    BY <1>0, <1>3, OrderKept DEF Queue!DeliveryFails, Queue!intakeVars
<1> QED BY <1>2, <1>3, <1>4 DEF QueueInv

\* What is posted is not behind a message of its chat that waits.
LEMMA PostStep == ASSUME QueueInv, Queue!Post PROVE QueueInv'
<1>0. QueueTypes /\ RowsInv /\ Queue!PeerOrder /\ TodoInv /\ stage \in Delivering
    BY DEF QueueInv, Queue!Post, Delivering
<1>1. SameRows /\ todo' \in Seq(Rows)
    BY <1>0 DEF Queue!Post, SameRows, QueueTypes
<1>2. Queue!Current \in Queue!Events /\ Queue!Current \in Queue!Queued
    BY <1>0, InHand
<1>3. /\ copies' \in [Queue!Events -> Nat]
      /\ \A f \in Queue!Events : copies'[f] > 0 =>
            copies[f] > 0
               \/ (f = Queue!Current /\ Queue!Kind[Queue!Current] = "message" /\ ~Queue!Duplicate(Queue!Current))
      /\ \A f \in Queue!Events : copies[f] > 0 => copies'[f] > 0
    <2>1. CASE copies' = [copies EXCEPT ![Queue!Current] = @ + 1]
                /\ Queue!Kind[Queue!Current] = "message" /\ ~Queue!Duplicate(Queue!Current)
        BY <1>0, <1>2, <2>1 DEF QueueTypes
    <2>2. CASE copies' = copies
        BY <1>0, <2>2 DEF QueueTypes
    <2> QED BY <2>1, <2>2 DEF Queue!Post
<1>4. /\ QueueTypes' /\ RowsInv' /\ RowsInOrder' /\ BatchInOrder' /\ InboxInOrder'
      /\ CursorInv' /\ Queue!NothingSkipped' /\ Queue!Waiting' = Queue!Waiting
    BY <1>1, <1>2, <1>3, IntakeKept, <1>0 DEF Queue!Post, Queue!intakeVars, QueueTypes,
       Queue!Waiting
<1>5. /\ Queue!Kind' = Queue!Kind /\ Queue!Peer' = Queue!Peer
            /\ Queue!Original' = Queue!Original /\ Queue!Current' = Queue!Current
      /\ \A e : Queue!Duplicate(e)' <=> Queue!Duplicate(e)
    BY SameHistory DEF Queue!Post, Queue!Duplicate, Queue!Current
<1>6. TodoInv'
    <2>1. /\ rows' = rows /\ todo' = todo /\ blocked' = blocked /\ stage' \in Delivering
          /\ stage' = "handled" => Queue!Duplicate(Queue!Current)
        BY DEF Queue!Post, Delivering
    <2> QED BY <1>0, <1>5, <2>1 DEF TodoInv
<1>7. Queue!PeerOrder'
    <2>1. ASSUME NEW e \in Queue!Events, NEW f \in Queue!Events, e < f,
                 Queue!Peer[e] = Queue!Peer[f],
                 Queue!Kind[e] = "message", Queue!Kind[f] = "message", copies'[f] > 0
          PROVE  e \notin Queue!Waiting \ lost \/ copies'[e] > 0 \/ Queue!Duplicate(e)
        <3>1. CASE copies[f] > 0
            BY <1>0, <1>3, <2>1, <3>1 DEF Queue!PeerOrder
        <3>2. CASE f = Queue!Current
            <4> SUFFICES ASSUME e \in Queue!Waiting \ lost, ~Queue!Duplicate(e) PROVE FALSE
                OBVIOUS
            <4>1. Live(e) /\ Behind(e, Queue!Current)
                     /\ Queue!Peer[e] = Queue!Peer[Queue!Current]
                BY <2>1, <3>2 DEF Live, Behind
            <4> QED BY <1>0, <4>1, AtHead
        <3> QED BY <1>3, <2>1, <3>1, <3>2
    <2>2. \A d \in mapped : Queue!Kind[d] = "deletion" => Queue!Duplicate(Queue!Original[d])
        BY <1>0 DEF Queue!PeerOrder
    <2>3. mapped' = mapped /\ lost' = lost
        BY DEF Queue!Post, Queue!intakeVars
    <2> QED BY <1>4, <1>5, <2>1, <2>2, <2>3 DEF Queue!PeerOrder, Queue!Events
<1> QED BY <1>4, <1>6, <1>7 DEF QueueInv

\* Nor is a deletion dealt with before the message it is about.
LEMMA CommitStep == ASSUME QueueInv, Queue!Commit PROVE QueueInv'
<1>0. /\ QueueTypes /\ RowsInv /\ Queue!PeerOrder /\ TodoInv /\ CursorInv
            /\ Queue!NothingSkipped
      /\ stage \in Delivering
    BY DEF QueueInv, Queue!Commit, Delivering
<1>1. SameRows /\ todo' \in Seq(Rows)
    BY <1>0 DEF Queue!Commit, SameRows, QueueTypes
<1>2. Queue!Current \in Queue!Events /\ Queue!Current \in Queue!Queued
         /\ Queue!Current \in Queue!Waiting
    BY <1>0, InHand, RowFacts
<1>3. mapped \subseteq mapped' /\ mapped' \subseteq 1..produced
         /\ mapped' = mapped \union {Queue!Current}
    BY <1>0, <1>2 DEF Queue!Commit, QueueTypes
<1>4. /\ QueueTypes' /\ RowsInv' /\ RowsInOrder' /\ BatchInOrder' /\ InboxInOrder'
      /\ CursorInv' /\ Queue!NothingSkipped' /\ Queue!Waiting' = Queue!Waiting
    BY <1>1, <1>3, IntakeKept, <1>0 DEF Queue!Commit, Queue!intakeVars, QueueTypes
<1>5. /\ Queue!Kind' = Queue!Kind /\ Queue!Peer' = Queue!Peer
            /\ Queue!Original' = Queue!Original /\ Queue!Current' = Queue!Current
      /\ history' = history
    BY SameHistory DEF Queue!Commit, Queue!Current
<1>6. \A e : Queue!Duplicate(e) => Queue!Duplicate(e)'
    BY <1>3, <1>5, DuplicateStays
<1>7. TodoInv'
    <2>1. /\ rows' = rows /\ todo' = todo /\ blocked' = blocked
          /\ Queue!Duplicate(Queue!Current)'
        BY <1>3, <1>5 DEF Queue!Commit, Queue!Duplicate
    <2> QED BY <1>0, <1>5, <2>1 DEF TodoInv
<1>8. ASSUME Queue!Kind[Queue!Current] = "deletion" PROVE Queue!Duplicate(Queue!Original[Queue!Current])
    <2> DEFINE o == Queue!Original[Queue!Current]
    <2>1. /\ Queue!Platform = "eitaa" /\ o \in Queue!Events /\ o < Queue!Current
                /\ Queue!Kind[o] = "message"
          /\ Queue!Peer[o] = Queue!Peer[Queue!Current]
        <3>1. Queue!IsHistory(history)
            BY <1>0 DEF QueueTypes
        <3>2. Queue!Platform = "eitaa"
            BY <1>2, <1>8, <3>1 DEF Queue!IsHistory, Queue!Platform, Queue!Kind
        <3>3. o \in Queue!Events \union {0} /\ o < Queue!Current
                 /\ Queue!Kind[o] = "message" /\ Queue!Peer[o] = Queue!Peer[Queue!Current]
            BY <1>2, <1>8, <3>1 DEF Queue!IsHistory, Queue!Kind, Queue!Peer, Queue!Original
        <3>4. o # 0
            BY <1>2, <1>8, <3>1 DEF Queue!IsHistory, Queue!Original, Queue!Kind
        <3> QED BY <3>2, <3>3, <3>4
    <2> HIDE DEF o
    <2>2. Queue!Current \in 1..cursor /\ cursor \in Nat
        BY <1>0, <1>2, <2>1 DEF CursorInv, QueueTypes
    <2>3. o \in 1..cursor
        BY <2>1, <2>2 DEF Queue!Events
    <2>4. o \in Queue!Queued \/ Queue!Duplicate(o)
        BY <1>0, <2>1, <2>3 DEF Queue!NothingSkipped
    <2>5. CASE o \in Queue!Queued /\ ~Queue!Duplicate(o) /\ o \notin lost
        <3>1. o \in Queue!Waiting /\ Live(o) /\ Behind(o, Queue!Current)
            BY <1>0, <1>8, <2>1, <2>5, RowFacts DEF Live, Behind
        <3> QED BY <1>0, <2>1, <3>1, AtHead
    <2>6. o \notin lost
        BY <1>0, <2>1 DEF CursorInv
    <2> QED BY <2>4, <2>5, <2>6 DEF o
<1>9. Queue!PeerOrder'
    <2>1. ASSUME NEW e \in Queue!Events, NEW f \in Queue!Events, e < f,
                 Queue!Peer[e] = Queue!Peer[f],
                 Queue!Kind[e] = "message", Queue!Kind[f] = "message", copies[f] > 0
          PROVE  e \notin Queue!Waiting \ lost \/ copies[e] > 0 \/ Queue!Duplicate(e)'
        BY <1>0, <1>6, <2>1 DEF Queue!PeerOrder
    <2>2. ASSUME NEW d \in mapped',
                 Queue!Kind[d] = "deletion" PROVE Queue!Duplicate(Queue!Original[d])'
        <3>1. Queue!Duplicate(Queue!Original[d])
            BY <1>0, <1>3, <1>8, <2>2 DEF Queue!PeerOrder
        <3>2. PICK o : o = Queue!Original[d]
            OBVIOUS
        <3>3. Queue!Duplicate(o)'
            BY <1>6, <3>1, <3>2
        <3> QED BY <1>5, <3>2, <3>3 DEF Queue!Duplicate
    <2>3. copies' = copies /\ lost' = lost
        BY DEF Queue!Commit, Queue!intakeVars
    <2>4. Queue!Events' = Queue!Events
        BY DEF Queue!Events
    <2>5. \A e, f \in Queue!Events :
             e < f /\ Queue!Peer'[e] = Queue!Peer'[f] /\ Queue!Kind'[e] = "message"
                /\ Queue!Kind'[f] = "message"
             /\ copies'[f] > 0 => e \notin Queue!Waiting' \ lost' \/ copies'[e] > 0
                   \/ Queue!Duplicate(e)'
        BY <1>4, <1>5, <2>1, <2>3
    <2>6. \A d \in mapped' : Queue!Kind'[d] = "deletion"
             => Queue!Duplicate(Queue!Original[d])'
        BY <1>5, <2>2
    <2> QED BY <2>4, <2>5, <2>6 DEF Queue!PeerOrder
<1> QED BY <1>4, <1>7, <1>9 DEF QueueInv

LEMMA RemoveAtFacts ==
    ASSUME NEW S, NEW s \in Seq(S), NEW p \in DOMAIN s
    PROVE  /\ Queue!RemoveAt(s, p) \in Seq(S) /\ Len(Queue!RemoveAt(s, p)) = Len(s) - 1
           /\ \A i \in 1..Len(s)-1 : Queue!RemoveAt(s, p)[i] = s[IF i < p THEN i ELSE i + 1]
<1>1. p \in 1..Len(s) /\ Len(s) \in Nat
    OBVIOUS
<1> DEFINE a == SubSeq(s, 1, p-1)
           b == SubSeq(s, p+1, Len(s))
<1>2. a \in Seq(S) /\ Len(a) = p - 1 /\ \A i \in 1..p-1 : a[i] = s[i]
    BY <1>1
<1>3. b \in Seq(S) /\ Len(b) = Len(s) - p /\ \A i \in 1..Len(s)-p : b[i] = s[p+i]
    BY <1>1
<1>4. Queue!RemoveAt(s, p) = a \o b
    BY DEF Queue!RemoveAt
<1> HIDE DEF a, b
<1>5. a \o b \in Seq(S) /\ Len(a \o b) = Len(s) - 1
    BY <1>1, <1>2, <1>3
<1>6. \A i \in 1..Len(s)-1 : (a \o b)[i] = IF i < p THEN a[i] ELSE b[i - (p-1)]
    <2>1. \A i \in 1..Len(a)+Len(b) : (a \o b)[i] = IF i <= Len(a) THEN a[i]
             ELSE b[i - Len(a)]
        BY <1>2, <1>3, ConcatProperties
    <2>2. \A i \in 1..Len(s)-1 : i \in 1..Len(a)+Len(b) /\ (i <= Len(a) <=> i < p)
        BY <1>1, <1>2, <1>3
    <2>3. Len(a) = p-1
        BY <1>2
    <2> QED BY <2>1, <2>2, <2>3
<1>7. ASSUME NEW i \in 1..Len(s)-1 PROVE (a \o b)[i] = s[IF i < p THEN i ELSE i + 1]
    <2>1. CASE i < p
        BY <1>1, <1>2, <1>6, <2>1
    <2>2. CASE ~(i < p)
        <3>1. i - (p-1) \in 1..Len(s)-p /\ p + (i - (p-1)) = i + 1
            BY <1>1, <2>2
        <3> QED BY <1>3, <1>6, <2>2, <3>1
    <2> QED BY <2>1, <2>2
<1> QED BY <1>4, <1>5, <1>7

\* The row of an event that was dealt with goes; the others keep their order.
LEMMA DeliveredStep == ASSUME QueueInv, Queue!Delivered PROVE QueueInv'
<1>0. /\ QueueTypes /\ RowsInv /\ RowsInOrder /\ BatchInOrder /\ InboxInOrder /\ CursorInv
      /\ Queue!NothingSkipped /\ Queue!PeerOrder /\ TodoInv /\ stage \in Delivering
    BY DEF QueueInv, Queue!Delivered, Delivering
<1>1. /\ UNCHANGED <<history, produced, inbox, batch, lost, fetched, state, cursor, mapped,
                     blocked, copies>>
      /\ todo' = Tail(todo) /\ stage' = "next"
    BY DEF Queue!Delivered, Queue!intakeVars
<1>2. PICK p \in DOMAIN rows : rows[p].event = Queue!Current
              /\ rows' = Queue!RemoveAt(rows, p)
    BY DEF Queue!Delivered, Queue!DeleteRow
<1>3. /\ Queue!Kind' = Queue!Kind /\ Queue!Peer' = Queue!Peer
            /\ Queue!Original' = Queue!Original /\ Queue!Platform' = Queue!Platform
      /\ Queue!IsHistory(history)'
            /\ \A e : (Queue!Duplicate(e)' <=> Queue!Duplicate(e)) /\ (Live(e)' <=> Live(e))
      /\ \A e, f : Behind(e, f)' <=> Behind(e, f)
    BY <1>0, <1>1, SameHistory DEF QueueTypes, Queue!Duplicate, Live
<1>4. rows \in Seq(Rows) /\ rows' \in Seq(Rows) /\ Rows' = Rows
      /\ Len(rows') = Len(rows) - 1 /\ p \in 1..Len(rows) /\ Len(rows) \in Nat
      /\ DOMAIN rows = 1..Len(rows) /\ DOMAIN rows' = 1..Len(rows) - 1
    <2>1. rows \in Seq(Rows) /\ Rows' = Rows
        BY <1>0, <1>3 DEF QueueTypes, Rows, Queue!Events
    <2> QED BY <1>2, <2>1, RemoveAtFacts
<1>5. \A i \in DOMAIN rows' : rows'[i] = rows[IF i < p THEN i ELSE i + 1]
    BY <1>2, <1>4, RemoveAtFacts
<1> DEFINE At(i) == IF i < p THEN i ELSE i + 1
\* Where the rows come from, and where they go.
<1>6. \A i \in DOMAIN rows' : At(i) \in DOMAIN rows /\ At(i) # p /\ rows'[i] = rows[At(i)]
    BY <1>4, <1>5
<1>7. \A i, k \in DOMAIN rows' : (At(i) = At(k) => i = k) /\ (At(i) < At(k) => i < k)
                                 /\ (i < k => At(i) < At(k))
    BY <1>4
<1>8. \A i \in DOMAIN rows : i # p => \E k \in DOMAIN rows' : At(k) = i
    <2> TAKE i \in DOMAIN rows
    <2> HAVE i # p
    <2> DEFINE k == IF i < p THEN i ELSE i - 1
    <2>1. k \in DOMAIN rows' /\ At(k) = i
        BY <1>4
    <2> QED BY <2>1
<1> HIDE DEF At
<1>9. Queue!Current \in Queue!Events /\ Queue!Duplicate(Queue!Current)
    BY <1>0, InHand DEF TodoInv, Queue!Delivered
<1>10. \A i \in DOMAIN rows : rows[i].event = Queue!Current => i = p
    BY <1>0, <1>2 DEF RowsInv
<1>11. Queue!Queued' = Queue!Queued \ {Queue!Current}
    <2>1. \A e \in Queue!Queued' : e \in Queue!Queued /\ e # Queue!Current
        BY <1>6, <1>10 DEF Queue!Queued
    <2>2. \A e \in Queue!Queued : e # Queue!Current => e \in Queue!Queued'
        <3> TAKE e \in Queue!Queued
        <3> HAVE e # Queue!Current
        <3>1. PICK i \in DOMAIN rows : rows[i].event = e
            BY DEF Queue!Queued
        <3>2. PICK k \in DOMAIN rows' : At(k) = i
            BY <1>2, <1>8, <3>1
        <3>3. rows'[k].event = e
            BY <1>6, <3>1, <3>2
        <3> QED BY <3>3 DEF Queue!Queued
    <2> QED BY <2>1, <2>2
<1>12. /\ Queue!Waiting' \subseteq Queue!Waiting
             /\ \A e \in Queue!Waiting : e \in Queue!Waiting' \/ e = Queue!Current
       /\ Queue!Range(batch)' = Queue!Range(batch)
             /\ Queue!Range(inbox)' = Queue!Range(inbox)
    BY <1>1, <1>11 DEF Queue!Waiting, Queue!Range
<1>13. todo # <<>> /\ todo \in Seq(Rows) /\ Head(todo) = todo[1] /\ 1 \in DOMAIN todo
       /\ todo[1].event = Queue!Current
    BY <1>0, InHand DEF QueueTypes, Queue!Current
<1>14. /\ todo' \in Seq(Rows) /\ Len(todo') = Len(todo) - 1
       /\ \A k \in DOMAIN todo' : k \in Nat /\ k+1 \in DOMAIN todo /\ todo'[k] = todo[k+1]
    BY <1>1, <1>13, HeadTail
<1>15. QueueTypes'
    BY <1>0, <1>1, <1>3, <1>4, <1>12, <1>14 DEF QueueTypes, Queue!Events
<1>16. RowsInv'
    <2>1. \A i, k \in DOMAIN rows' : rows'[i].event = rows'[k].event => i = k
        BY <1>0, <1>6, <1>7 DEF RowsInv
    <2>2. \A i \in DOMAIN rows' :
              /\ Queue!Kind[rows'[i].event] = "message"
                    => rows'[i].stream = Queue!Peer[rows'[i].event]
              /\ Queue!Kind[rows'[i].event] = "deletion"
                 => rows'[i].stream \in {Queue!Peer[rows'[i].event], Queue!Nobody}
        BY <1>0, <1>6 DEF RowsInv
    <2> QED BY <1>3, <2>1, <2>2 DEF RowsInv
<1>17. RowsInOrder'
    <2> SUFFICES ASSUME NEW i \in DOMAIN rows', NEW e \in Queue!Waiting', Live(e)',
                        Behind(e, rows[i].event)'
                 PROVE  \E k \in 1..i-1 : rows'[k].event = e
        BY DEF RowsInOrder
    <2>1. At(i) \in DOMAIN rows /\ rows'[i] = rows[At(i)] /\ e \in Queue!Waiting /\ Live(e)
          /\ Behind(e, rows[At(i)].event)
        BY <1>3, <1>6, <1>12 DEF Behind
    <2>2. PICK j \in 1..At(i)-1 : rows[j].event = e
        BY <1>0, <2>1 DEF RowsInOrder
    <2>3. j \in DOMAIN rows /\ j # p /\ j < At(i)
        BY <1>2, <1>4, <1>9, <2>1, <2>2 DEF Live
    <2>4. PICK k \in DOMAIN rows' : At(k) = j
        BY <1>8, <2>3
    <2>5. k < i /\ rows'[k].event = e
        BY <1>6, <1>7, <2>2, <2>3, <2>4
    <2>6. k \in 1..i-1
        BY <1>4, <2>4, <2>5
    <2> QED BY <2>5, <2>6
<1>18. BatchInOrder'
    <2>1. \A e \in Queue!Waiting' : Live(e) /\ e \in Queue!Queued => e \in Queue!Queued'
        BY <1>9, <1>11 DEF Live
    <2> QED BY <1>0, <1>1, <1>3, <1>12, <2>1 DEF BatchInOrder
<1>19. InboxInOrder'
    <2>1. \A e \in Queue!Waiting' : Live(e) /\ e \in Queue!Queued => e \in Queue!Queued'
        BY <1>9, <1>11 DEF Live
    <2> QED BY <1>0, <1>1, <1>3, <1>12, <2>1 DEF InboxInOrder
<1>20. CursorInv'
    BY <1>0, <1>1, <1>3, <1>11, <1>12 DEF CursorInv, Queue!Events
<1>21. Queue!NothingSkipped'
    BY <1>0, <1>1, <1>3, <1>9, <1>11, <1>12 DEF Queue!NothingSkipped
<1>22. Queue!PeerOrder'
    BY <1>0, <1>1, <1>12, OrderKept
<1>23. TodoInv'
    <2>1. \A k \in DOMAIN todo' : todo'[k].event # Queue!Current
        <3> TAKE k \in DOMAIN todo'
        <3>1. k \in Nat /\ k + 1 \in DOMAIN todo /\ k # 0
            BY <1>14
        <3>2. todo[k+1].event # todo[1].event
            BY <1>0, <1>13, <3>1 DEF TodoInv
        <3> QED BY <1>13, <1>14, <3>2
    <2>2. ASSUME NEW k \in DOMAIN todo'
          PROVE  \E i \in DOMAIN rows' :
                    rows'[i].event = todo'[k].event /\ rows'[i].stream = todo'[k].stream
        <3>1. PICK j \in DOMAIN rows : rows[j].event = todo[k+1].event
                                       /\ rows[j].stream = todo[k+1].stream
            BY <1>0, <1>14 DEF TodoInv
        <3>2. j # p
            BY <1>2, <1>14, <2>1, <3>1
        <3>3. PICK i \in DOMAIN rows' : At(i) = j
            BY <1>8, <3>2
        <3>4. rows'[i] = rows[j] /\ todo'[k] = todo[k+1]
            BY <1>6, <1>14, <3>3
        <3> QED BY <3>1, <3>4
    <2>3. \A k, m \in DOMAIN todo' : todo'[k].event = todo'[m].event => k = m
        <3> TAKE k, m \in DOMAIN todo'
        <3> HAVE todo'[k].event = todo'[m].event
        <3>1. k+1 \in DOMAIN todo /\ m+1 \in DOMAIN todo
                 /\ todo[k+1].event = todo[m+1].event
            BY <1>14
        <3>2. k+1 = m+1
            BY <1>0, <3>1 DEF TodoInv
        <3> QED BY <1>14, <3>2
    <2>4. ASSUME NEW k \in DOMAIN todo', NEW j \in DOMAIN rows', NEW i \in 1..j-1,
                 rows'[j].event = todo'[k].event
          PROVE  rows'[i].stream \in blocked'
                 \/ \E m \in 1..k-1 : todo'[m].event = rows'[i].event
        <3>1. i \in DOMAIN rows' /\ i < j /\ k \in Nat /\ k+1 \in DOMAIN todo
            BY <1>4, <1>14
        <3>2. At(i) \in 1..At(j)-1 /\ At(i) \in DOMAIN rows /\ At(j) \in DOMAIN rows
            BY <1>4, <1>6, <1>7, <3>1
        <3>3. rows[At(j)].event = todo[k+1].event
            BY <1>6, <1>14, <2>4
        <3>4. rows[At(i)].stream \in blocked
              \/ \E m \in 1..(k+1)-1 : todo[m].event = rows[At(i)].event
            BY <1>0, <3>1, <3>2, <3>3 DEF TodoInv
        <3>5. CASE \E m \in 1..(k+1)-1 : todo[m].event = rows[At(i)].event
            <4>1. PICK m \in 1..k : todo[m].event = rows[At(i)].event
                BY <3>1, <3>5
            <4>2. m # 1
                BY <1>10, <1>6, <1>13, <3>1, <3>2, <4>1
            <4> DEFINE n == m - 1
            <4>3. n \in 1..k-1 /\ n \in DOMAIN todo' /\ n + 1 = m
                BY <1>14, <3>1, <4>1, <4>2
            <4>4. todo'[n].event = rows'[i].event
                BY <1>6, <1>14, <3>1, <4>1, <4>3
            <4> QED BY <4>3, <4>4
        <3> QED BY <1>1, <1>6, <3>1, <3>4, <3>5
    <2> QED BY <1>1, <2>2, <2>3, <2>4 DEF TodoInv, Delivering
<1> QED BY <1>15, <1>16, <1>17, <1>18, <1>19, <1>20, <1>21, <1>22, <1>23 DEF QueueInv

LEMMA AppendFacts ==
    ASSUME NEW S, NEW s \in Seq(S), NEW x \in S
    PROVE  /\ Append(s, x) \in Seq(S) /\ Len(Append(s, x)) = Len(s) + 1
           /\ \A i \in DOMAIN s : i \in DOMAIN Append(s, x) /\ Append(s, x)[i] = s[i]
           /\ \A i \in DOMAIN Append(s, x) :
                 (i \in DOMAIN s /\ Append(s, x)[i] = s[i])
                 \/ (i = Len(s) + 1 /\ Append(s, x)[i] = x)
           /\ Queue!Range(Append(s, x)) = Queue!Range(s) \union {x}
<1>1. /\ Append(s, x) \in Seq(S) /\ Len(Append(s, x)) = Len(s) + 1 /\ Len(s) \in Nat
      /\ DOMAIN s = 1..Len(s) /\ DOMAIN Append(s, x) = 1..Len(s)+1
      /\ \A i \in 1..Len(s) : Append(s, x)[i] = s[i]
      /\ Append(s, x)[Len(s)+1] = x
    OBVIOUS
<1>2. \A i \in 1..Len(s)+1 : i \in 1..Len(s) \/ i = Len(s)+1
    BY <1>1
<1>3. Queue!Range(Append(s, x)) = Queue!Range(s) \union {x}
    <2>1. \A e \in Queue!Range(Append(s, x)) : e \in Queue!Range(s) \union {x}
        BY <1>1, <1>2 DEF Queue!Range
    <2>2. \A e \in Queue!Range(s) : e \in Queue!Range(Append(s, x))
        <3> TAKE e \in Queue!Range(s)
        <3>1. PICK i \in DOMAIN s : s[i] = e
            BY DEF Queue!Range
        <3>2. i \in DOMAIN Append(s, x) /\ Append(s, x)[i] = e
            BY <1>1, <3>1
        <3> QED BY <3>2 DEF Queue!Range
    <2>3. x \in Queue!Range(Append(s, x))
        <3>1. Len(s)+1 \in DOMAIN Append(s, x)
            BY <1>1
        <3> QED BY <1>1, <3>1 DEF Queue!Range
    <2> QED BY <2>1, <2>2, <2>3
<1> QED BY <1>1, <1>2, <1>3

\* A frame that comes, for the first time or again, comes last.
LEMMA Received ==
    ASSUME QueueInv, NEW x, inbox' = Append(inbox, x),
           UNCHANGED <<history, batch, lost, fetched, state, cursor, rows, mapped, todo,
                       blocked, stage, copies>>,
           Queue!Platform = "bale", x \in 1..produced', produced' \in 0..NumEvents,
           produced' >= produced,
           \A e \in 1..produced' : e \in 1..produced \/ e = x,
           x \in Queue!Waiting \/ Queue!Duplicate(x) \/ \A e \in 1..produced : e < x
    PROVE  QueueInv'
<1>0. /\ QueueTypes /\ RowsInv /\ RowsInOrder /\ BatchInOrder /\ InboxInOrder /\ CursorInv
      /\ Queue!NothingSkipped /\ Queue!PeerOrder /\ TodoInv
    BY DEF QueueInv
<1>1. /\ Queue!Kind' = Queue!Kind /\ Queue!Peer' = Queue!Peer
            /\ Queue!Original' = Queue!Original /\ Queue!Platform' = Queue!Platform
      /\ Queue!IsHistory(history)'
            /\ \A e : (Queue!Duplicate(e)' <=> Queue!Duplicate(e)) /\ (Live(e)' <=> Live(e))
      /\ \A e, f : Behind(e, f)' <=> Behind(e, f)
    BY <1>0, SameHistory DEF QueueTypes, Queue!Duplicate, Live
<1>2. x \in Queue!Events /\ inbox \in Seq(Queue!Events) /\ NumEvents \in Nat
         /\ produced \in 0..NumEvents
    BY <1>0 DEF QueueTypes, Queue!Events
<1>3. /\ inbox' \in Seq(Queue!Events) /\ Queue!Range(inbox') = Queue!Range(inbox) \union {x}
      /\ \A i \in DOMAIN inbox : inbox'[i] = inbox[i]
      /\ \A i \in DOMAIN inbox' : i \in DOMAIN inbox
            \/ (i = Len(inbox) + 1 /\ inbox'[i] = x)
      /\ DOMAIN inbox = 1..Len(inbox) /\ Len(inbox) \in Nat
    <2>1. DOMAIN inbox = 1..Len(inbox) /\ Len(inbox) \in Nat
        BY <1>2
    <2> QED BY <1>2, <2>1, AppendFacts
<1>4. /\ Queue!Queued' = Queue!Queued /\ Queue!Range(batch)' = Queue!Range(batch)
            /\ Queue!Range(inbox)' = Queue!Range(inbox')
      /\ Queue!Waiting' = Queue!Waiting \union {x}
    BY <1>3 DEF Queue!Queued, Queue!Waiting, Queue!Range
<1>5. SameRows
    BY <1>0 DEF SameRows, QueueTypes
<1>6. QueueTypes'
    <2>1. \A e \in 1..produced : e \in 1..produced'
        BY <1>2
    <2>2. \A f \in Queue!Events : copies'[f] > 0 => f <= produced'
        BY <1>0, <1>2 DEF QueueTypes, Queue!Events
    <2> QED BY <1>0, <1>1, <1>2, <1>3, <1>4, <2>1, <2>2 DEF QueueTypes, Rows, Queue!Events
<1>7. RowsInv'
    BY <1>0, <1>1 DEF RowsInv
<1>8. TodoInv'
    BY <1>5, TodoKept
\* The new frame is live only where it is ahead of whatever came before.
<1>9. \A e \in Queue!Waiting', f \in Queue!Waiting : Live(e)
         /\ Behind(e, f) => e \in Queue!Waiting
    <2> TAKE e \in Queue!Waiting', f \in Queue!Waiting
    <2> HAVE Live(e) /\ Behind(e, f)
    <2>1. f \in 1..produced
        BY <1>0 DEF QueueTypes
    <2>2. CASE e = x /\ \A g \in 1..produced : g < x
        BY <1>2, <2>1, <2>2 DEF Behind, Queue!Events
    <2> QED BY <1>4, <2>2 DEF Live
<1>10. RowsInOrder'
    <2>1. \A i \in DOMAIN rows : rows[i].event \in Queue!Waiting
        BY <1>0, RowFacts
    <2>2. \A i \in DOMAIN rows : \A e \in Queue!Waiting' :
             Live(e) /\ Behind(e, rows[i].event) => \E k \in 1..i-1 : rows[k].event = e
        BY <1>0, <1>9, <2>1 DEF RowsInOrder
    <2> QED BY <1>1, <2>2 DEF RowsInOrder
<1>11. BatchInOrder'
    <2>1. \A i \in DOMAIN batch : batch[i] \in Queue!Waiting
        BY DEF Queue!Waiting, Queue!Range
    <2>2. \A i \in DOMAIN batch : \A e \in Queue!Waiting' :
             Live(e) /\ Behind(e, batch[i]) => e \in Queue!Queued
                \/ \E k \in 1..i-1 : batch[k] = e
        BY <1>0, <1>9, <2>1 DEF BatchInOrder
    <2> QED BY <1>1, <1>4, <2>2 DEF BatchInOrder
<1>12. InboxInOrder'
    <2> SUFFICES ASSUME NEW i \in DOMAIN inbox', NEW e \in Queue!Waiting', Live(e),
                        Behind(e, inbox'[i]),
                        e \notin Queue!Queued \union Queue!Range(batch)
                 PROVE  \E k \in 1..i-1 : inbox'[k] = e
        BY <1>1, <1>4 DEF InboxInOrder
    <2>1. CASE i \in DOMAIN inbox
        <3>1. inbox'[i] = inbox[i] /\ inbox[i] \in Queue!Waiting
            BY <1>3, <2>1 DEF Queue!Waiting, Queue!Range
        <3>2. e \in Queue!Waiting
            BY <1>9, <3>1
        <3>3. PICK k \in 1..i-1 : inbox[k] = e
            BY <1>0, <2>1, <3>1, <3>2 DEF InboxInOrder
        <3>4. k \in DOMAIN inbox
            BY <1>3, <2>1
        <3> QED BY <1>3, <3>3, <3>4
    <2>2. CASE i = Len(inbox) + 1 /\ inbox'[i] = x
        <3>1. e # x
            BY <1>2, <2>2 DEF Behind, Queue!Events
        <3>2. e \in Queue!Range(inbox)
            BY <1>4, <3>1 DEF Queue!Waiting
        <3>3. PICK k \in DOMAIN inbox : inbox[k] = e
            BY <3>2 DEF Queue!Range
        <3>4. k \in 1..i-1
            BY <1>3, <2>2
        <3> QED BY <1>3, <3>3, <3>4
    <2> QED BY <1>3, <2>1, <2>2
<1>13. CursorInv'
    BY <1>1 DEF CursorInv
<1>14. Queue!NothingSkipped'
    BY <1>0, <1>1, <1>4 DEF Queue!NothingSkipped
<1>15. Queue!PeerOrder'
    <2>1. ASSUME NEW e \in Queue!Waiting' \ lost'
          PROVE  \/ e \in Queue!Waiting \ lost \/ Queue!Duplicate(e)
                 \/ \A f \in Queue!Events : copies[f] > 0 => ~(e < f)
        <3>1. CASE e = x /\ \A g \in 1..produced : g < x
            <4>1. \A f \in Queue!Events : copies[f] > 0 => f \in 1..produced
                BY <1>0, <1>2 DEF QueueTypes, Queue!Events
            <4>2. \A f \in 1..produced : ~(e < f)
                BY <1>2, <3>1 DEF Queue!Events
            <4> QED BY <4>1, <4>2
        <3> QED BY <1>4, <2>1, <3>1
    <2> QED BY <1>0, <2>1, OrderKept
<1> QED BY <1>6, <1>7, <1>8, <1>10, <1>11, <1>12, <1>13, <1>14, <1>15 DEF QueueInv

LEMMA ProduceStep == ASSUME QueueInv, Queue!Produce PROVE QueueInv'
<1>0. /\ QueueTypes /\ RowsInv /\ RowsInOrder /\ BatchInOrder /\ InboxInOrder /\ CursorInv
      /\ Queue!NothingSkipped /\ Queue!PeerOrder /\ TodoInv
    BY DEF QueueInv
<1>1. /\ produced' = produced + 1 /\ produced' \in 0..NumEvents /\ produced \in Nat
      /\ NumEvents \in Nat
    BY <1>0 DEF Queue!Produce, QueueTypes
<1>2. CASE Queue!Platform = "bale"
    <2> DEFINE x == produced'
    <2>1. inbox' = Append(inbox, x)
        BY <1>2 DEF Queue!Produce
    <2>2. UNCHANGED <<history, batch, lost, fetched, state, cursor, rows, mapped, todo,
                      blocked, stage, copies>>
        BY DEF Queue!Produce, Queue!drainVars
    <2>3. /\ x \in 1..produced' /\ produced' >= produced /\ \A e \in 1..produced : e < x
          /\ \A e \in 1..produced' : e \in 1..produced \/ e = x
        BY <1>1
    <2> HIDE DEF x
    <2> QED BY <1>1, <1>2, <2>1, <2>2, <2>3, Received
<1>3. CASE Queue!Platform # "bale"
    <2>1. UNCHANGED <<history, inbox, batch, lost, fetched, state, cursor, rows, mapped, todo,
                      blocked, stage, copies>>
        BY <1>3 DEF Queue!Produce, Queue!drainVars
    <2>2. /\ Queue!Kind' = Queue!Kind /\ Queue!Peer' = Queue!Peer
                /\ Queue!Original' = Queue!Original /\ Queue!Platform' = Queue!Platform
          /\ Queue!IsHistory(history)'
          /\ \A e : (Queue!Duplicate(e)' <=> Queue!Duplicate(e)) /\ (Live(e)' <=> Live(e))
          /\ \A e, f : Behind(e, f)' <=> Behind(e, f)
        BY <1>0, <2>1, SameHistory DEF QueueTypes, Queue!Duplicate, Live
    <2>3. Queue!Queued' = Queue!Queued /\ Queue!Waiting' = Queue!Waiting
        BY <2>1 DEF Queue!Queued, Queue!Waiting, Queue!Range
    <2>4. SameRows
        BY <1>0, <2>1 DEF SameRows, QueueTypes
    <2>5. TodoInv'
        BY <2>1, <2>4, TodoKept
    <2>6. Queue!PeerOrder'
        BY <1>0, <2>1, <2>3, OrderKept
    <2>7. QueueTypes'
        <3>1. \A f \in Queue!Events : copies'[f] > 0 => f <= produced'
            BY <1>0, <1>1, <2>1 DEF QueueTypes, Queue!Events
        <3>2. \A e \in 1..produced : e \in 1..produced'
            BY <1>1
        <3> QED BY <1>0, <1>1, <2>1, <2>2, <2>3, <3>1, <3>2 DEF QueueTypes, Rows,
                   Queue!Events
    <2>8. RowsInv' /\ RowsInOrder' /\ BatchInOrder' /\ InboxInOrder'
        BY <1>0, <2>1, <2>2, <2>3 DEF RowsInv, RowsInOrder, BatchInOrder, InboxInOrder,
           Queue!Range
    <2>9. CursorInv'
        <3>1. 0..produced \subseteq 0..produced'
            BY <1>1
        <3> QED BY <1>0, <2>1, <2>2, <2>3, <3>1 DEF CursorInv, Queue!Events, Queue!Range
    <2>10. Queue!NothingSkipped'
        BY <1>0, <1>3, <2>1, <2>2, <2>3 DEF Queue!NothingSkipped
    <2> QED BY <2>5, <2>6, <2>7, <2>8, <2>9, <2>10 DEF QueueInv
<1> QED BY <1>2, <1>3

LEMMA RepeatStep == ASSUME QueueInv, NEW x \in Queue!Events, Queue!Repeat(x) PROVE QueueInv'
<1>1. x \in Queue!Waiting \/ Queue!Duplicate(x)
    BY DEF Queue!Repeat, Queue!Duplicate
<1>2. QueueTypes /\ x \in 1..produced' /\ produced' = produced /\ produced \in 0..NumEvents
      /\ NumEvents \in Nat
    BY DEF QueueInv, QueueTypes, Queue!Repeat
<1>3. UNCHANGED <<history, batch, lost, fetched, state, cursor, rows, mapped, todo,
                  blocked, stage, copies>>
    BY DEF Queue!Repeat, Queue!drainVars
<1>4. inbox' = Append(inbox, x) /\ Queue!Platform = "bale"
    BY DEF Queue!Repeat
<1>5. produced' >= produced
    BY <1>2
<1> QED BY <1>1, <1>2, <1>3, <1>4, <1>5, Received

\* Frames are lost in memory only: with the loop's task, or with the process.
LEMMA PersistFailsStep == ASSUME QueueInv, Queue!PersistFails PROVE QueueInv'
<1>0. /\ QueueTypes /\ RowsInv /\ RowsInOrder /\ BatchInOrder /\ InboxInOrder /\ CursorInv
      /\ Queue!NothingSkipped /\ Queue!PeerOrder /\ TodoInv
    BY DEF QueueInv
<1>1. UNCHANGED <<history, produced, inbox, fetched, state, cursor, rows, mapped, todo, blocked,
                  stage, copies>>
    BY DEF Queue!PersistFails, Queue!drainVars
<1>2. /\ Queue!Kind' = Queue!Kind /\ Queue!Peer' = Queue!Peer
            /\ Queue!Original' = Queue!Original /\ Queue!Platform' = Queue!Platform
      /\ Queue!IsHistory(history)' /\ \A e : (Queue!Duplicate(e)' <=> Queue!Duplicate(e))
      /\ \A e, f : Behind(e, f)' <=> Behind(e, f)
    BY <1>0, <1>1, SameHistory DEF QueueTypes, Queue!Duplicate
<1>3. SameRows /\ Queue!Queued' = Queue!Queued
    BY <1>0, <1>1 DEF SameRows, QueueTypes, Queue!Queued
<1>4. TodoInv'
    BY <1>1, <1>3, TodoKept
<1>5. \/ batch' = batch /\ lost' = lost
      \/ /\ Queue!Platform = "bale" /\ batch' = <<>> /\ Queue!Range(batch') = {}
         /\ lost' = lost \union (Queue!Range(batch) \ Queue!Queued)
    BY DEF Queue!PersistFails, Queue!Range
<1>6. /\ lost \subseteq lost' /\ Queue!Waiting' \subseteq Queue!Waiting
      /\ \A e \in Queue!Waiting : e \in Queue!Waiting' \/ e \in lost'
      /\ \A e : Live(e)' => Live(e) /\ e \notin lost'
      /\ Queue!Range(inbox)' = Queue!Range(inbox)
    BY <1>1, <1>2, <1>3, <1>5 DEF Queue!Waiting, Queue!Range, Live
<1>7. Queue!PeerOrder'
    BY <1>0, <1>1, <1>6, OrderKept
<1>8. QueueTypes'
    <2>1. batch' \in Seq(Queue!Events)
        <3>1. CASE batch' = batch
            BY <1>0, <3>1 DEF QueueTypes, Queue!Events
        <3>2. CASE batch' = <<>>
            BY <3>2
        <3> QED BY <1>5, <3>1, <3>2
    <2>2. Queue!Waiting' \union mapped' \subseteq 1..produced
        BY <1>0, <1>1, <1>6 DEF QueueTypes
    <2> QED BY <1>0, <1>1, <1>2, <1>3, <2>1, <2>2 DEF QueueTypes, SameRows, Rows,
               Queue!Events
<1>9. RowsInv' /\ RowsInOrder'
    BY <1>0, <1>1, <1>2, <1>6 DEF RowsInv, RowsInOrder
<1>10. BatchInOrder'
    BY <1>0, <1>1, <1>2, <1>3, <1>5, <1>6 DEF BatchInOrder
<1>11. InboxInOrder'
    <2> SUFFICES ASSUME NEW i \in DOMAIN inbox, NEW e \in Queue!Waiting', Live(e)', Live(e),
                        Behind(e, inbox[i]),
                        e \notin Queue!Queued \union Queue!Range(batch')
                 PROVE  \E k \in 1..i-1 : inbox[k] = e
        BY <1>1, <1>2, <1>3, <1>6 DEF InboxInOrder, Queue!Range
    <2>1. e \notin Queue!Range(batch)
        BY <1>5, <1>6
    <2> QED BY <1>0, <1>6, <2>1 DEF InboxInOrder
<1>12. CursorInv'
    BY <1>0, <1>1, <1>2, <1>3, <1>5 DEF CursorInv, Queue!Events, Queue!Range
<1>13. Queue!NothingSkipped'
    BY <1>0, <1>1, <1>2, <1>3, <1>6 DEF Queue!NothingSkipped
<1> QED BY <1>4, <1>7, <1>8, <1>9, <1>10, <1>11, <1>12, <1>13 DEF QueueInv

LEMMA RestartStep == ASSUME QueueInv, Queue!Restart PROVE QueueInv'
<1>0. /\ QueueTypes /\ RowsInv /\ RowsInOrder /\ CursorInv /\ Queue!NothingSkipped
            /\ Queue!PeerOrder
    BY DEF QueueInv
<1>1. /\ UNCHANGED <<history, produced, cursor, rows, mapped, copies>>
      /\ inbox' = <<>> /\ batch' = <<>> /\ fetched' = cursor /\ state' = cursor
      /\ todo' = <<>> /\ blocked' = {} /\ stage' = "idle"
    BY DEF Queue!Restart
<1>2. /\ Queue!Kind' = Queue!Kind /\ Queue!Peer' = Queue!Peer
            /\ Queue!Original' = Queue!Original /\ Queue!Platform' = Queue!Platform
      /\ Queue!IsHistory(history)' /\ \A e : (Queue!Duplicate(e)' <=> Queue!Duplicate(e))
      /\ \A e, f : Behind(e, f)' <=> Behind(e, f)
    BY <1>0, <1>1, SameHistory DEF QueueTypes, Queue!Duplicate
<1>3. SameRows /\ Queue!Queued' = Queue!Queued
    BY <1>0, <1>1 DEF SameRows, QueueTypes, Queue!Queued
<1>4. Queue!Range(batch') = {} /\ Queue!Range(inbox') = {}
    BY <1>1 DEF Queue!Range
<1>5. Queue!Waiting' = Queue!Queued /\ Queue!Queued \subseteq Queue!Waiting
    BY <1>3, <1>4 DEF Queue!Waiting, Queue!Range
<1>6. /\ lost \subseteq lost'
      /\ Queue!Platform = "bale" => \A e \in Queue!Waiting : e \in Queue!Waiting'
            \/ e \in lost'
      /\ Queue!Platform # "bale" => lost' = lost
    BY <1>5 DEF Queue!Restart
<1>7. \A e : Live(e)' => Live(e)
    BY <1>2, <1>6 DEF Live
<1>8. Queue!PeerOrder'
    BY <1>0, <1>1, <1>5, <1>6, OrderKept
<1>9. QueueTypes'
    BY <1>0, <1>1, <1>2, <1>3, <1>5 DEF QueueTypes, SameRows, Rows, Queue!Events
<1>10. RowsInv' /\ RowsInOrder'
    BY <1>0, <1>1, <1>2, <1>5, <1>7 DEF RowsInv, RowsInOrder
<1>11. BatchInOrder' /\ InboxInOrder' /\ TodoInv'
    BY <1>1 DEF BatchInOrder, InboxInOrder, TodoInv, Delivering
<1>12. CursorInv'
    BY <1>0, <1>1, <1>2, <1>3, <1>4, <1>6 DEF CursorInv, Queue!Events
<1>13. Queue!NothingSkipped'
    BY <1>0, <1>1, <1>2, <1>3, <1>6 DEF Queue!NothingSkipped
<1> QED BY <1>8, <1>9, <1>10, <1>11, <1>12, <1>13 DEF QueueInv

LEMMA QueueInit ==
    ASSUME Queue!Init, NumEvents \in Nat, \A h \in Histories : Queue!IsHistory(h)
    PROVE  QueueInv
<1>1. /\ Queue!Queued = {} /\ Queue!Range(batch) = {} /\ Queue!Range(inbox) = {}
            /\ Queue!Waiting = {}
    BY DEF Queue!Init, Queue!Queued, Queue!Waiting, Queue!Range
<1>2. /\ rows = <<>> /\ batch = <<>> /\ inbox = <<>> /\ todo = <<>> /\ stage = "idle"
      /\ mapped = {} /\ produced = 0 /\ cursor = 0 /\ state = 0 /\ fetched = 0 /\ lost = {}
      /\ copies = [e \in Queue!Events |-> 0] /\ Queue!IsHistory(history)
    BY DEF Queue!Init
<1>3. QueueTypes
    BY <1>1, <1>2 DEF QueueTypes
<1>4. RowsInv /\ RowsInOrder /\ BatchInOrder /\ InboxInOrder /\ TodoInv
    BY <1>2 DEF RowsInv, RowsInOrder, BatchInOrder, InboxInOrder, TodoInv, Delivering
<1>5. CursorInv
    BY <1>1, <1>2 DEF CursorInv
<1>6. Queue!NothingSkipped /\ Queue!PeerOrder
    BY <1>1, <1>2 DEF Queue!NothingSkipped, Queue!PeerOrder
<1> QED BY <1>3, <1>4, <1>5, <1>6 DEF QueueInv

LEMMA QueueStutter == ASSUME QueueInv, UNCHANGED Queue!vars PROVE QueueInv'
<1>0. /\ QueueTypes /\ RowsInv /\ RowsInOrder /\ BatchInOrder /\ InboxInOrder /\ CursorInv
      /\ Queue!NothingSkipped /\ Queue!PeerOrder /\ TodoInv
    BY DEF QueueInv
<1>1. UNCHANGED <<history, produced, inbox, batch, lost, fetched, state, cursor, rows, mapped,
                  todo, blocked, stage, copies>>
    BY DEF Queue!vars, Queue!intakeVars, Queue!drainVars
<1>2. SameRows /\ mapped' \subseteq 1..produced /\ todo' \in Seq(Rows)
      /\ copies' \in [Queue!Events -> Nat]
    BY <1>0, <1>1 DEF SameRows, QueueTypes, Queue!Waiting
<1>3. /\ QueueTypes' /\ RowsInv' /\ RowsInOrder' /\ BatchInOrder' /\ InboxInOrder'
      /\ CursorInv' /\ Queue!NothingSkipped' /\ Queue!Waiting' = Queue!Waiting
    BY <1>1, <1>2, IntakeKept
<1>4. TodoInv'
    BY <1>1, <1>2, TodoKept
<1>5. Queue!PeerOrder'
    BY <1>0, <1>1, <1>3, OrderKept
<1> QED BY <1>3, <1>4, <1>5 DEF QueueInv

LEMMA SameCardinality == ASSUME NEW S PROVE Queue!Cardinality(S) = Cardinality(S)
BY DEF Queue!Cardinality, Cardinality

LEMMA AscendingFacts ==
    ASSUME NEW S, IsFiniteSet(S), NEW s \in Queue!Ascending(S)
    PROVE  /\ s \in Seq(S) /\ DOMAIN s = 1..Len(s) /\ Len(s) \in Nat
           /\ \A e \in S : \E i \in DOMAIN s : s[i] = e
           /\ \A i \in DOMAIN s : s[i] \in S
           /\ \A i, k \in DOMAIN s : i < k => s[i] < s[k]
<1>1. Cardinality(S) \in Nat
    BY FS_CardinalityType
<1>2. /\ s \in [1..Cardinality(S) -> S] /\ Queue!Range(s) = S
      /\ \A i, k \in DOMAIN s : i < k => s[i] < s[k]
    BY SameCardinality DEF Queue!Ascending
<1>3. s \in Seq(S)
    BY <1>1, <1>2
<1> QED BY <1>2, <1>3 DEF Queue!Range

LEMMA ConcatRange ==
    ASSUME NEW S, NEW s \in Seq(S), NEW t \in Seq(S)
    PROVE  /\ s \o t \in Seq(S) /\ DOMAIN (s \o t) = 1..Len(s)+Len(t)
           /\ \A i \in DOMAIN s : i \in DOMAIN (s \o t) /\ (s \o t)[i] = s[i]
           /\ \A i \in DOMAIN t : Len(s)+i \in DOMAIN (s \o t) /\ (s \o t)[Len(s)+i] = t[i]
           /\ \A i \in DOMAIN (s \o t) :
                 \/ i \in DOMAIN s
                 \/ i - Len(s) \in DOMAIN t /\ i = Len(s) + (i - Len(s))
<1>1. /\ s \o t \in Seq(S) /\ Len(s \o t) = Len(s) + Len(t)
      /\ \A i \in 1..Len(s)+Len(t) : (s \o t)[i] = IF i <= Len(s) THEN s[i]
            ELSE t[i - Len(s)]
    BY ConcatProperties
<1>2. DOMAIN s = 1..Len(s) /\ DOMAIN t = 1..Len(t) /\ Len(s) \in Nat /\ Len(t) \in Nat
      /\ DOMAIN (s \o t) = 1..Len(s \o t)
    BY <1>1
<1>3. \A i \in DOMAIN t : Len(s)+i \in 1..Len(s)+Len(t) /\ ~(Len(s)+i <= Len(s))
                          /\ (Len(s)+i) - Len(s) = i
    BY <1>2
<1>4. \A i \in DOMAIN s : i \in 1..Len(s)+Len(t) /\ i <= Len(s)
    BY <1>2
<1>5. \A i \in 1..Len(s)+Len(t) : i \in 1..Len(s)
          \/ (i - Len(s) \in 1..Len(t) /\ i = Len(s) + (i - Len(s)))
    BY <1>2
<1>6. DOMAIN (s \o t) = 1..Len(s)+Len(t)
    BY <1>1, <1>2
<1>7. \A i \in DOMAIN t : (s \o t)[Len(s)+i] = t[i]
    BY <1>1, <1>3
<1> QED BY <1>1, <1>2, <1>3, <1>4, <1>5, <1>6, <1>7

\* A difference in the order it is fetched in: all of it, its messages in order and
\* before the deletions.
InFetchOrder(s, D) ==
    /\ s \in Seq(Queue!Events) /\ Queue!Range(s) = D
    /\ \A i \in DOMAIN s, e \in D :
          (Queue!Kind[e] = "message" /\ Behind(e, s[i])) => \E k \in 1..i-1 : s[k] = e

LEMMA Difference ==
    ASSUME Queue!IsHistory(history), NumEvents \in Nat, NEW D \in SUBSET Queue!Events,
           IsFiniteSet(D),
           NEW confirmations \in Queue!OfKind(D, "confirmation"),
           NEW messages \in Queue!OfKind(D, "message"),
           NEW deletions \in Queue!OfKind(D, "deletion")
    PROVE  InFetchOrder(confirmations \o messages \o deletions, D)
<1> DEFINE Of(kind) == {e \in D : Queue!Kind[e] = kind}
           c == confirmations
           m == messages
           d == deletions
           s == confirmations \o messages \o deletions
<1>2. /\ IsFiniteSet(Of("confirmation")) /\ IsFiniteSet(Of("message"))
      /\ IsFiniteSet(Of("deletion"))
    <2>1. Of("confirmation") \in SUBSET D
        OBVIOUS
    <2>2. Of("message") \in SUBSET D
        OBVIOUS
    <2>3. Of("deletion") \in SUBSET D
        OBVIOUS
    <2> HIDE DEF Of
    <2> QED BY <2>1, <2>2, <2>3, FS_Subset
<1>3. c \in Queue!Ascending(Of("confirmation")) /\ m \in Queue!Ascending(Of("message"))
      /\ d \in Queue!Ascending(Of("deletion"))
    BY DEF Queue!OfKind
<1>16. \A kind : /\ Of(kind) \subseteq Queue!Events
                 /\ \A e : e \in Of(kind) <=> e \in D /\ Queue!Kind[e] = kind
    OBVIOUS
<1> HIDE DEF Of, c, m, d, s
<1>4. /\ c \in Seq(Of("confirmation"))
      /\ \A e \in Of("confirmation") : \E i \in DOMAIN c : c[i] = e
      /\ DOMAIN c = 1..Len(c) /\ Len(c) \in Nat
      /\ \A i \in DOMAIN c : c[i] \in Of("confirmation")
    BY <1>2, <1>3, AscendingFacts
<1>5. /\ m \in Seq(Of("message"))
      /\ \A e \in Of("message") : \E i \in DOMAIN m : m[i] = e
      /\ DOMAIN m = 1..Len(m) /\ Len(m) \in Nat
      /\ \A i \in DOMAIN m : m[i] \in Of("message")
      /\ \A i, k \in DOMAIN m : i < k => m[i] < m[k]
    BY <1>2, <1>3, AscendingFacts
<1>6. /\ d \in Seq(Of("deletion"))
      /\ \A e \in Of("deletion") : \E i \in DOMAIN d : d[i] = e
      /\ DOMAIN d = 1..Len(d) /\ Len(d) \in Nat
      /\ \A i \in DOMAIN d : d[i] \in Of("deletion")
    BY <1>2, <1>3, AscendingFacts
<1>7. c \in Seq(Queue!Events) /\ m \in Seq(Queue!Events) /\ d \in Seq(Queue!Events)
    BY <1>4, <1>5, <1>6, <1>16
<1> DEFINE b == c \o m
<1>8. /\ b \in Seq(Queue!Events) /\ DOMAIN b = 1..Len(c)+Len(m) /\ Len(b) = Len(c)+Len(m)
      /\ \A i \in DOMAIN c : i \in DOMAIN b /\ b[i] = c[i]
      /\ \A i \in DOMAIN m : Len(c)+i \in DOMAIN b /\ b[Len(c)+i] = m[i]
      /\ \A i \in DOMAIN b : i \in DOMAIN c
            \/ (i - Len(c) \in DOMAIN m /\ i = Len(c) + (i - Len(c)))
    <2>1. Len(b) = Len(c) + Len(m)
        BY <1>7
    <2> QED BY <1>7, <2>1, ConcatRange
<1> HIDE DEF b
<1>9. /\ s \in Seq(Queue!Events) /\ DOMAIN s = 1..Len(b)+Len(d)
      /\ \A i \in DOMAIN b : i \in DOMAIN s /\ s[i] = b[i]
      /\ \A i \in DOMAIN d : Len(b)+i \in DOMAIN s /\ s[Len(b)+i] = d[i]
      /\ \A i \in DOMAIN s : i \in DOMAIN b
            \/ (i - Len(b) \in DOMAIN d /\ i = Len(b) + (i - Len(b)))
    <2>1. s = b \o d
        BY DEF b, c, m, d, s
    <2>2. b \in Seq(Queue!Events) /\ d \in Seq(Queue!Events)
        BY <1>7, <1>8
    <2>3. /\ b \o d \in Seq(Queue!Events) /\ DOMAIN (b \o d) = 1..Len(b)+Len(d)
          /\ \A i \in DOMAIN b : i \in DOMAIN (b \o d) /\ (b \o d)[i] = b[i]
          /\ \A i \in DOMAIN d : Len(b)+i \in DOMAIN (b \o d) /\ (b \o d)[Len(b)+i] = d[i]
          /\ \A i \in DOMAIN (b \o d) : i \in DOMAIN b
                \/ (i - Len(b) \in DOMAIN d /\ i = Len(b) + (i - Len(b)))
        BY <2>2, ConcatRange
    <2> QED BY <2>1, <2>3
\* Where each event is.
<1>10. \A i \in DOMAIN c : i \in DOMAIN s /\ s[i] = c[i]
    BY <1>8, <1>9
<1>11. \A i \in DOMAIN m : Len(c)+i \in DOMAIN s /\ s[Len(c)+i] = m[i]
    BY <1>8, <1>9
<1>12. \A i \in DOMAIN s :
          \/ i \in DOMAIN c /\ s[i] = c[i]
          \/ i - Len(c) \in DOMAIN m /\ i = Len(c) + (i - Len(c)) /\ s[i] = m[i - Len(c)]
          \/ i - Len(b) \in DOMAIN d /\ i = Len(b) + (i - Len(b)) /\ s[i] = d[i - Len(b)]
    <2> TAKE i \in DOMAIN s
    <2>1. CASE i \in DOMAIN b
        BY <1>8, <1>9, <2>1
    <2>2. CASE i - Len(b) \in DOMAIN d /\ i = Len(b) + (i - Len(b))
        BY <1>9, <2>2
    <2> QED BY <1>9, <2>1, <2>2
<1>17. \A e \in D : e \in Nat
    BY DEF Queue!Events
<1>13. \A e \in D : Queue!Kind[e] \in {"message", "confirmation", "deletion"}
    BY DEF Queue!IsHistory, Queue!Kind
<1>14. Queue!Range(s) = D
    <2>1. \A i \in DOMAIN s : s[i] \in D
        <3> TAKE i \in DOMAIN s
        <3>1. CASE i \in DOMAIN c /\ s[i] = c[i]
            BY <1>4, <1>16, <3>1
        <3>2. CASE i - Len(c) \in DOMAIN m /\ s[i] = m[i - Len(c)]
            BY <1>5, <1>16, <3>2
        <3>3. CASE i - Len(b) \in DOMAIN d /\ s[i] = d[i - Len(b)]
            BY <1>6, <1>16, <3>3
        <3> QED BY <1>12, <3>1, <3>2, <3>3
    <2>2. ASSUME NEW e \in D PROVE \E i \in DOMAIN s : s[i] = e
        <3>1. CASE Queue!Kind[e] = "confirmation"
            BY <1>4, <1>10, <1>16, <3>1
        <3>2. CASE Queue!Kind[e] = "message"
            <4>1. PICK i \in DOMAIN m : m[i] = e
                BY <1>5, <1>16, <3>2
            <4> QED BY <1>11, <4>1
        <3>3. CASE Queue!Kind[e] = "deletion"
            <4>1. PICK i \in DOMAIN d : d[i] = e
                BY <1>6, <1>16, <3>3
            <4> QED BY <1>9, <4>1
        <3> QED BY <1>13, <3>1, <3>2, <3>3
    <2> QED BY <2>1, <2>2 DEF Queue!Range
<1>15. ASSUME NEW i \in DOMAIN s, NEW e \in D, Queue!Kind[e] = "message", Behind(e, s[i])
       PROVE  \E k \in 1..i-1 : s[k] = e
    <2>1. PICK p \in DOMAIN m : m[p] = e
        BY <1>5, <1>15, <1>16
    <2>2. s[Len(c)+p] = e
        BY <1>11, <2>1
    <2>3. e < s[i] /\ Queue!Kind[s[i]] # "confirmation" /\ e \in Nat
        BY <1>15, <1>17 DEF Behind
    <2>4. CASE i \in DOMAIN c /\ s[i] = c[i]
        BY <1>4, <1>16, <2>3, <2>4
    <2>5. CASE i - Len(c) \in DOMAIN m /\ i = Len(c) + (i - Len(c)) /\ s[i] = m[i - Len(c)]
        <3> DEFINE q == i - Len(c)
        <3>1. q \in DOMAIN m /\ i = Len(c) + q /\ m[p] < m[q] /\ m[q] \in Nat
                 /\ m[p] \in Nat
            BY <1>5, <1>16, <1>17, <2>1, <2>3, <2>5
        <3> HIDE DEF q
        <3>2. p \in Nat /\ q \in Nat /\ p >= 1
            BY <1>5, <2>1, <3>1
        <3>3. p < q
            <4>1. q < p => m[q] < m[p]
                BY <1>5, <2>1, <3>1
            <4>2. p # q
                BY <3>1
            <4> QED BY <3>1, <3>2, <4>1, <4>2
        <3>4. Len(c)+p \in 1..i-1
            BY <1>4, <3>1, <3>2, <3>3
        <3> QED BY <2>2, <3>4
    <2>6. CASE i - Len(b) \in DOMAIN d /\ i = Len(b) + (i - Len(b))
        <3> DEFINE q == i - Len(b)
        <3>1. q \in DOMAIN d /\ i = Len(b) + q
            BY <2>6
        <3> HIDE DEF q
        <3>2. p \in 1..Len(m) /\ q \in 1..Len(d)
            BY <1>5, <1>6, <2>1, <3>1
        <3>3. Len(c)+p \in 1..i-1
            BY <1>4, <1>5, <1>6, <1>8, <3>1, <3>2
        <3> QED BY <2>2, <3>3
    <2> QED BY <1>12, <2>4, <2>5, <2>6
<1>18. InFetchOrder(s, D)
    BY <1>9, <1>14, <1>15 DEF InFetchOrder
<1> QED BY <1>18 DEF s

\* Of the indices with a property there is a first.
LEMMA FirstOf ==
    ASSUME NEW T \in SUBSET Nat, NEW k \in T
    PROVE  \E p \in T : p <= k /\ \A q \in T : p <= q
<1>1. PICK p \in T : \A q \in T : ~(<<q, p>> \in OpToRel(<, Nat))
    BY NatLessThanWellFounded, WFMin
<1>2. \A q \in T : ~(q < p)
    BY <1>1 DEF OpToRel
<1>3. \A q \in T : p <= q
    BY <1>2
<1> QED BY <1>3

LEMMA FetchStep == ASSUME QueueInv, Queue!Fetch PROVE QueueInv'
<1>0. /\ QueueTypes /\ RowsInv /\ RowsInOrder /\ BatchInOrder /\ InboxInOrder /\ CursorInv
      /\ Queue!NothingSkipped /\ Queue!PeerOrder /\ TodoInv
    BY DEF QueueInv
<1>1. UNCHANGED <<history, produced, lost, state, cursor, rows, mapped, todo, blocked,
                  stage, copies>>
    BY DEF Queue!Fetch, Queue!drainVars
<1>2. /\ Queue!Kind' = Queue!Kind /\ Queue!Peer' = Queue!Peer
            /\ Queue!Original' = Queue!Original /\ Queue!Platform' = Queue!Platform
      /\ Queue!IsHistory(history)'
            /\ \A e : (Queue!Duplicate(e)' <=> Queue!Duplicate(e)) /\ (Live(e)' <=> Live(e))
      /\ \A e, f : Behind(e, f)' <=> Behind(e, f)
    BY <1>0, <1>1, SameHistory DEF QueueTypes, Queue!Duplicate, Live
<1>3. SameRows /\ Queue!Queued' = Queue!Queued
    BY <1>0, <1>1 DEF SameRows, QueueTypes, Queue!Queued
<1>4. TodoInv' /\ RowsInv'
    BY <1>0, <1>1, <1>2, <1>3, TodoKept DEF RowsInv
<1>5. batch = <<>> /\ Queue!Range(batch) = {}
    BY DEF Queue!Fetch, Queue!Range
<1>6. CASE Queue!Platform = "bale"
    <2>1. batch' = inbox /\ inbox' = <<>>
        BY <1>6 DEF Queue!Fetch
    <2>2. Queue!Range(batch)' = Queue!Range(inbox) /\ Queue!Range(inbox)' = {}
             /\ Queue!Waiting' = Queue!Waiting
        BY <1>3, <1>5, <2>1 DEF Queue!Range, Queue!Waiting
    <2>3. QueueTypes'
        BY <1>0, <1>1, <1>2, <1>3, <2>1, <2>2 DEF QueueTypes, SameRows, Rows, Queue!Events
    <2>4. RowsInOrder'
        BY <1>0, <1>1, <1>2, <2>2 DEF RowsInOrder
    <2>5. BatchInOrder'
        BY <1>0, <1>2, <1>3, <1>5, <2>1, <2>2 DEF BatchInOrder, InboxInOrder
    <2>6. InboxInOrder' /\ CursorInv'
        BY <1>2, <1>6, <2>1 DEF InboxInOrder, CursorInv
    <2>7. Queue!NothingSkipped'
        BY <1>0, <1>1, <1>2, <1>3, <1>6, <2>2 DEF Queue!NothingSkipped
    <2>8. Queue!PeerOrder'
        BY <1>0, <1>1, <2>2, OrderKept
    <2> QED BY <1>4, <2>3, <2>4, <2>5, <2>6, <2>7, <2>8 DEF QueueInv
<1>7. CASE Queue!Platform # "bale"
    <2>1. inbox' = inbox /\ Queue!Platform = "eitaa"
        BY <1>7 DEF Queue!Fetch
    <2>2. PICK z \in state+1..produced :
             \E confirmations \in Queue!OfKind(state+1..z, "confirmation"),
                messages \in Queue!OfKind(state+1..z, "message"),
                deletions \in Queue!OfKind(state+1..z, "deletion") :
                fetched' = z /\ batch' = confirmations \o messages \o deletions
        BY <1>7 DEF Queue!Fetch
    <2>3. PICK confirmations \in Queue!OfKind(state+1..z, "confirmation"),
               messages \in Queue!OfKind(state+1..z, "message"),
               deletions \in Queue!OfKind(state+1..z, "deletion") :
               fetched' = z /\ batch' = confirmations \o messages \o deletions
        BY <2>2
    <2>4. /\ state \in Nat /\ produced \in Nat /\ NumEvents \in Nat /\ produced <= NumEvents
          /\ state \in 0..produced /\ inbox = <<>> /\ cursor = state /\ lost = {}
          /\ Queue!Queued \subseteq 1..cursor
                /\ \A f \in Queue!Events : copies[f] > 0 => f <= cursor
        BY <1>0, <2>1 DEF QueueTypes, CursorInv
    <2>5. z \in Nat /\ state < z /\ z <= produced /\ state+1..z \subseteq Queue!Events
          /\ state+1..z \subseteq 1..produced
        BY <2>2, <2>4 DEF Queue!Events
    <2>6. PICK b : b = batch'
        OBVIOUS
    <2>7. /\ b \in Seq(Queue!Events) /\ Queue!Range(b) = state+1..z
          /\ \A i \in DOMAIN b, e \in state+1..z :
                (Queue!Kind[e] = "message" /\ Behind(e, b[i])) => \E k \in 1..i-1 : b[k] = e
        <3>1. Queue!IsHistory(history)
            BY <1>0 DEF QueueTypes
        <3>2. PICK D \in SUBSET Queue!Events : D = state+1..z
            BY <2>5
        <3>3. IsFiniteSet(D)
            BY <2>4, <2>5, <3>2, FS_Interval
        <3>4. /\ confirmations \in Queue!OfKind(D, "confirmation")
              /\ messages \in Queue!OfKind(D, "message")
              /\ deletions \in Queue!OfKind(D, "deletion")
              /\ b = confirmations \o messages \o deletions
            BY <2>3, <2>6, <3>2
        <3>5. InFetchOrder(b, D)
            BY <2>4, <3>1, <3>3, <3>4, Difference
        <3> QED BY <3>2, <3>5 DEF InFetchOrder
    <2>8. /\ Queue!Range(batch)' = state+1..z /\ Queue!Range(inbox)' = {}
          /\ Queue!Waiting' = Queue!Queued \union state+1..z
        <3>1. Queue!Range(batch)' = Queue!Range(b)
            BY <2>6 DEF Queue!Range
        <3>2. Queue!Range(inbox)' = {}
            BY <2>1, <2>4 DEF Queue!Range
        <3> QED BY <1>3, <2>7, <3>1, <3>2 DEF Queue!Waiting
    <2>9. \A e \in Queue!Waiting' : e \in Queue!Waiting \/ e \in state+1..z
        BY <1>0, <2>8, RowFacts
    <2>10. QueueTypes'
        <3>1. Queue!Queued \subseteq 1..produced /\ mapped \subseteq 1..produced
            BY <1>0, RowFacts DEF QueueTypes
        <3>2. Queue!Waiting' \union mapped' \subseteq 1..produced'
            BY <1>1, <2>5, <2>8, <3>1
        <3> QED BY <1>0, <1>1, <1>2, <1>3, <2>1, <2>6, <2>7, <3>2
                DEF QueueTypes, SameRows, Rows, Queue!Events
    <2>11. RowsInOrder'
        <3>1. ASSUME NEW i \in DOMAIN rows, NEW e \in Queue!Waiting', Live(e),
                     Behind(e, rows[i].event)
              PROVE  \E k \in 1..i-1 : rows[k].event = e
            <4>1. rows[i].event \in 1..cursor
                BY <1>0, <2>4, RowFacts
            <4>2. e \notin state+1..z
                BY <2>4, <2>5, <3>1, <4>1 DEF Behind
            <4> QED BY <1>0, <2>9, <3>1, <4>2 DEF RowsInOrder
        <3> QED BY <1>1, <1>2, <3>1 DEF RowsInOrder
    <2>12. BatchInOrder'
        <3>1. ASSUME NEW i \in DOMAIN b, NEW e \in Queue!Waiting', Live(e), Behind(e, b[i])
              PROVE  e \in Queue!Queued \/ \E k \in 1..i-1 : b[k] = e
            BY <2>7, <2>8, <3>1 DEF Live
        <3> QED BY <1>2, <1>3, <2>6, <3>1 DEF BatchInOrder
    <2>13. InboxInOrder'
        BY <2>1, <2>4 DEF InboxInOrder
    <2>14. CursorInv'
        <3>1. /\ inbox' = <<>> /\ cursor' = state' /\ state' \in 0..produced'
              /\ lost' = {} /\ fetched' \in 0..produced' /\ state' < fetched'
              /\ Queue!Range(batch)' = state'+1..fetched'
                    /\ Queue!Queued' \subseteq 1..cursor'
              /\ \A f \in Queue!Events : copies'[f] > 0 => f <= cursor'
            BY <1>1, <1>3, <2>1, <2>3, <2>4, <2>5, <2>8
        <3> QED BY <3>1 DEF CursorInv, Queue!Events
    <2>15. Queue!NothingSkipped'
        BY <1>0, <1>1, <1>2, <1>3, <1>7, <2>1 DEF Queue!NothingSkipped
    <2>16. Queue!PeerOrder'
        <3>1. ASSUME NEW e \in state+1..z PROVE \A f \in Queue!Events : copies[f] > 0
                     => ~(e < f)
            <4>1. \A f \in Queue!Events : f \in Nat
                BY DEF Queue!Events
            <4>2. e \in Nat /\ e > cursor /\ cursor \in Nat
                BY <2>4, <2>5
            <4> QED BY <2>4, <4>1, <4>2
        <3> QED BY <1>0, <1>1, <2>9, <3>1, OrderKept
    <2> QED BY <1>4, <2>10, <2>11, <2>12, <2>13, <2>14, <2>15, <2>16 DEF QueueInv
<1> QED BY <1>6, <1>7

\* The rows a batch adds: one of each event that has none, where the batch has it first.
LEMMA NewRows ==
    ASSUME QueueTypes, NEW new \in Queue!Ascending(Queue!Unqueued),
           NEW added, added = [n \in DOMAIN new |-> Queue!Enqueue(batch[new[n]])]
    PROVE  /\ added \in Seq(Rows) /\ DOMAIN added = DOMAIN new
           /\ \A n \in DOMAIN added :
                 /\ new[n] \in Queue!Unqueued /\ new[n] \in DOMAIN batch
                 /\ added[n].event = batch[new[n]] /\ added[n].event \notin Queue!Queued
                 /\ added[n].stream = Queue!Stream(batch[new[n]])
           /\ \A p \in Queue!Unqueued : \E n \in DOMAIN added : new[n] = p
           /\ \A n, m \in DOMAIN added : n < m => new[n] < new[m]
<1>1. /\ batch \in Seq(Queue!Events) /\ DOMAIN batch = 1..Len(batch) /\ Len(batch) \in Nat
    BY DEF QueueTypes
<1>2. IsFiniteSet(Queue!Unqueued)
    <2>1. Queue!Unqueued \in SUBSET (1..Len(batch))
        BY <1>1 DEF Queue!Unqueued
    <2>2. IsFiniteSet(1..Len(batch))
        BY <1>1, FS_Interval
    <2> QED BY <2>1, <2>2, FS_Subset
<1>3. /\ new \in Seq(Queue!Unqueued) /\ DOMAIN new = 1..Len(new) /\ Len(new) \in Nat
      /\ \A p \in Queue!Unqueued : \E n \in DOMAIN new : new[n] = p
      /\ \A n \in DOMAIN new : new[n] \in Queue!Unqueued
      /\ \A n, m \in DOMAIN new : n < m => new[n] < new[m]
    BY <1>2, AscendingFacts
<1>4. \A p \in Queue!Unqueued : p \in DOMAIN batch /\ batch[p] \in Queue!Events
         /\ batch[p] \notin Queue!Queued
    BY <1>1 DEF Queue!Unqueued
<1>5. \A e \in Queue!Events : Queue!Enqueue(e) \in Rows
    <2> TAKE e \in Queue!Events
    <2>1. Queue!Stream(e) \in Queue!Range(Queue!Peer) \union {Queue!Nobody}
        BY DEF Queue!Stream, Queue!Range, QueueTypes, Queue!IsHistory, Queue!Peer
    <2> QED BY <2>1 DEF Queue!Enqueue, Rows
<1>6. \A n \in DOMAIN new : added[n] = Queue!Enqueue(batch[new[n]])
    OBVIOUS
<1>7. DOMAIN added = 1..Len(new) /\ \A n \in 1..Len(new) : added[n] \in Rows
    BY <1>3, <1>4, <1>5, <1>6
<1>8. added \in [1..Len(new) -> Rows]
    BY <1>7
<1>9. added \in Seq(Rows)
    BY <1>3, <1>8
<1>10. \A e : Queue!Enqueue(e).event = e /\ Queue!Enqueue(e).stream = Queue!Stream(e)
    BY DEF Queue!Enqueue
<1> QED BY <1>3, <1>4, <1>6, <1>7, <1>9, <1>10

LEMMA PersistStep == ASSUME QueueInv, Queue!Persist PROVE QueueInv'
<1>0. /\ QueueTypes /\ RowsInv /\ RowsInOrder /\ BatchInOrder /\ InboxInOrder /\ CursorInv
      /\ Queue!NothingSkipped /\ Queue!PeerOrder /\ TodoInv
    BY DEF QueueInv
<1>1. /\ UNCHANGED <<history, produced, inbox, lost, fetched, mapped, todo, blocked,
                     stage, copies>>
      /\ batch' = <<>> /\ Queue!Range(batch') = {} /\ batch # <<>>
    BY DEF Queue!Persist, Queue!drainVars, Queue!Range
<1>2. /\ Queue!Kind' = Queue!Kind /\ Queue!Peer' = Queue!Peer
            /\ Queue!Original' = Queue!Original /\ Queue!Platform' = Queue!Platform
      /\ Queue!IsHistory(history)'
            /\ \A e : (Queue!Duplicate(e)' <=> Queue!Duplicate(e)) /\ (Live(e)' <=> Live(e))
      /\ \A e, f : Behind(e, f)' <=> Behind(e, f)
    BY <1>0, <1>1, SameHistory DEF QueueTypes, Queue!Duplicate, Live
<1>3. PICK new \in Queue!Ascending(Queue!Unqueued) :
         rows' = rows \o [n \in DOMAIN new |-> Queue!Enqueue(batch[new[n]])]
    BY DEF Queue!Persist
<1> DEFINE added == [n \in DOMAIN new |-> Queue!Enqueue(batch[new[n]])]
           L == Len(rows)
<1>4. rows' = rows \o added
    BY <1>3
<1>5. /\ added \in Seq(Rows) /\ DOMAIN added = DOMAIN new
      /\ \A n \in DOMAIN added :
            /\ new[n] \in Queue!Unqueued /\ new[n] \in DOMAIN batch
            /\ added[n].event = batch[new[n]] /\ added[n].event \notin Queue!Queued
            /\ added[n].stream = Queue!Stream(batch[new[n]])
      /\ \A p \in Queue!Unqueued : \E n \in DOMAIN added : new[n] = p
      /\ \A n, m \in DOMAIN added : n < m => new[n] < new[m]
    BY <1>0, NewRows
<1> HIDE DEF added
<1>6. rows \in Seq(Rows) /\ DOMAIN rows = 1..L /\ L \in Nat
      /\ DOMAIN added = 1..Len(added) /\ Len(added) \in Nat
      /\ batch \in Seq(Queue!Events) /\ DOMAIN batch = 1..Len(batch) /\ Len(batch) \in Nat
    BY <1>0, <1>5 DEF QueueTypes
<1>7. /\ rows' \in Seq(Rows) /\ DOMAIN rows' = 1..L+Len(added)
      /\ \A i \in DOMAIN rows : i \in DOMAIN rows' /\ rows'[i] = rows[i]
      /\ \A n \in DOMAIN added : L+n \in DOMAIN rows' /\ rows'[L+n] = added[n]
      /\ \A i \in DOMAIN rows' :
            i \in DOMAIN rows \/ (i - L \in DOMAIN added /\ i = L + (i - L))
    <2>1. /\ rows \o added \in Seq(Rows) /\ DOMAIN (rows \o added) = 1..L+Len(added)
          /\ \A i \in DOMAIN rows : i \in DOMAIN (rows \o added)
                /\ (rows \o added)[i] = rows[i]
          /\ \A n \in DOMAIN added :
                L+n \in DOMAIN (rows \o added) /\ (rows \o added)[L+n] = added[n]
          /\ \A i \in DOMAIN (rows \o added) :
                i \in DOMAIN rows \/ (i - L \in DOMAIN added /\ i = L + (i - L))
        BY <1>5, <1>6, ConcatRange
    <2> QED BY <1>4, <2>1
<1>8. \A i \in DOMAIN rows' :
          \/ i \in DOMAIN rows /\ rows'[i] = rows[i]
          \/ \E n \in DOMAIN added : i = L + n /\ rows'[i] = added[n]
    BY <1>7
<1> HIDE DEF L
\* The first time an event without a row is in the batch, it gets one.
<1>9. ASSUME NEW k \in DOMAIN batch, batch[k] \notin Queue!Queued
      PROVE  \E n \in DOMAIN added : new[n] <= k /\ added[n].event = batch[k]
    <2> DEFINE T == {q \in DOMAIN batch : batch[q] = batch[k]}
    <2>1. T \in SUBSET Nat /\ k \in T
        BY <1>6
    <2>2. PICK p \in T : p <= k /\ \A q \in T : p <= q
        BY <2>1, FirstOf
    <2>3. p \in Queue!Unqueued
        <3>1. \A q \in 1..p-1 : q \in DOMAIN batch /\ ~(p <= q)
            BY <1>6, <2>2
        <3>2. \A q \in 1..p-1 : batch[q] # batch[p]
            BY <2>2, <3>1
        <3> QED BY <1>9, <2>2, <3>2 DEF Queue!Unqueued
    <2>4. PICK n \in DOMAIN added : new[n] = p
        BY <1>5, <2>3
    <2> QED BY <1>5, <2>2, <2>4
<1>10. Queue!Queued' = Queue!Queued \union Queue!Range(batch)
    <2>1. \A e \in Queue!Queued' : e \in Queue!Queued \union Queue!Range(batch)
        <3> TAKE e \in Queue!Queued'
        <3>1. PICK i \in DOMAIN rows' : rows'[i].event = e
            BY DEF Queue!Queued
        <3>2. CASE i \in DOMAIN rows /\ rows'[i] = rows[i]
            BY <3>1, <3>2 DEF Queue!Queued
        <3>3. CASE \E n \in DOMAIN added : i = L + n /\ rows'[i] = added[n]
            BY <1>5, <3>1, <3>3 DEF Queue!Range
        <3> QED BY <1>8, <3>2, <3>3
    <2>2. \A e \in Queue!Queued : e \in Queue!Queued'
        <3> TAKE e \in Queue!Queued
        <3>1. PICK i \in DOMAIN rows : rows[i].event = e
            BY DEF Queue!Queued
        <3>2. i \in DOMAIN rows' /\ rows'[i].event = e
            BY <1>7, <3>1
        <3> QED BY <3>2 DEF Queue!Queued
    <2>3. \A e \in Queue!Range(batch) : e \in Queue!Queued'
        <3> TAKE e \in Queue!Range(batch)
        <3>1. PICK k \in DOMAIN batch : batch[k] = e
            BY DEF Queue!Range
        <3>2. CASE e \notin Queue!Queued
            <4>1. PICK n \in DOMAIN added : added[n].event = e
                BY <1>9, <3>1, <3>2
            <4>2. L+n \in DOMAIN rows' /\ rows'[L+n].event = e
                BY <1>7, <4>1
            <4> QED BY <4>2 DEF Queue!Queued
        <3> QED BY <2>2, <3>2
    <2> QED BY <2>1, <2>2, <2>3
<1>11. Queue!Waiting' = Queue!Waiting /\ Queue!Range(inbox)' = Queue!Range(inbox)
    BY <1>1, <1>10 DEF Queue!Waiting, Queue!Range
<1>13. QueueTypes'
    <2>1. batch' \in Seq(Queue!Events)
        BY <1>1
    <2>2. Queue!Waiting' \union mapped' \subseteq 1..produced' /\ Rows' = Rows
        BY <1>0, <1>1, <1>2, <1>11 DEF QueueTypes, Rows, Queue!Events
    <2> QED BY <1>0, <1>1, <1>2, <1>7, <2>1, <2>2 DEF QueueTypes, Queue!Events
<1>14. \A i, k \in DOMAIN rows' : rows'[i].event = rows'[k].event => i = k
    <2> SUFFICES ASSUME NEW i \in DOMAIN rows', NEW k \in DOMAIN rows',
                        rows'[i].event = rows'[k].event
                 PROVE  i = k
        OBVIOUS
    <2>1. \A n \in DOMAIN added, j \in DOMAIN rows : added[n].event # rows[j].event
        BY <1>5 DEF Queue!Queued
    <2>2. \A n, m \in DOMAIN added : added[n].event = added[m].event => n = m
        <3> TAKE n, m \in DOMAIN added
        <3> HAVE added[n].event = added[m].event
        <3>1. batch[new[n]] = batch[new[m]] /\ new[n] \in Queue!Unqueued
                 /\ new[m] \in Queue!Unqueued
            BY <1>5
        <3>2. new[n] \in Nat /\ new[m] \in Nat /\ new[n] >= 1 /\ new[m] >= 1
            BY <1>5, <1>6
        <3>3. ~(new[n] < new[m]) /\ ~(new[m] < new[n])
            BY <3>1, <3>2 DEF Queue!Unqueued
        <3> QED BY <1>5, <1>6, <3>3
    <2> QED BY <1>0, <1>8, <2>1, <2>2 DEF RowsInv
<1>15. RowsInv'
    <2>1. ASSUME NEW i \in DOMAIN rows'
          PROVE  /\ Queue!Kind[rows'[i].event] = "message"
                       => rows'[i].stream = Queue!Peer[rows'[i].event]
                 /\ Queue!Kind[rows'[i].event] = "deletion"
                    => rows'[i].stream \in {Queue!Peer[rows'[i].event], Queue!Nobody}
        <3>1. CASE i \in DOMAIN rows /\ rows'[i] = rows[i]
            BY <1>0, <3>1 DEF RowsInv
        <3>2. CASE \E n \in DOMAIN added : i = L + n /\ rows'[i] = added[n]
            BY <1>5, <3>2 DEF Queue!Stream
        <3> QED BY <1>8, <3>1, <3>2
    <2> QED BY <1>2, <1>14, <2>1 DEF RowsInv
<1>16. RowsInOrder'
    <2>1. ASSUME NEW i \in DOMAIN rows', NEW e \in Queue!Waiting, Live(e),
                 Behind(e, rows'[i].event)
          PROVE  \E k \in 1..i-1 : rows'[k].event = e
        <3>1. CASE i \in DOMAIN rows /\ rows'[i] = rows[i]
            <4>1. PICK k \in 1..i-1 : rows[k].event = e
                BY <1>0, <2>1, <3>1 DEF RowsInOrder
            <4>2. k \in DOMAIN rows
                BY <1>6, <3>1
            <4> QED BY <1>7, <4>1, <4>2
        <3>2. ASSUME NEW n \in DOMAIN added, i = L + n, rows'[i] = added[n]
              PROVE  \E k \in 1..i-1 : rows'[k].event = e
            <4>1. Behind(e, batch[new[n]]) /\ new[n] \in DOMAIN batch
                BY <1>5, <2>1, <3>2
            <4>2. CASE e \in Queue!Queued
                <5>1. PICK k \in DOMAIN rows : rows[k].event = e
                    BY <4>2 DEF Queue!Queued
                <5>2. k \in 1..i-1 /\ rows'[k].event = e
                    BY <1>6, <1>7, <3>2, <5>1
                <5> QED BY <5>2
            <4>3. CASE e \notin Queue!Queued
                <5>1. PICK k \in 1..new[n]-1 : batch[k] = e
                    BY <1>0, <2>1, <4>1, <4>3 DEF BatchInOrder
                <5>2. k \in DOMAIN batch /\ k < new[n]
                    BY <1>6, <4>1
                <5>3. PICK m \in DOMAIN added : new[m] <= k /\ added[m].event = e
                    BY <1>9, <4>3, <5>1, <5>2
                <5>4. new[m] < new[n] /\ new[m] \in Nat /\ new[n] \in Nat
                    BY <1>5, <1>6, <5>2, <5>3
                <5>5. m < n
                    <6>1. ~(n < m) /\ n # m
                        <7>1. n < m => new[n] < new[m]
                            BY <1>5
                        <7> QED BY <5>4, <7>1
                    <6> QED BY <1>6, <6>1
                <5>6. L + m \in 1..i-1 /\ rows'[L+m].event = e
                    BY <1>6, <1>7, <3>2, <5>3, <5>5
                <5> QED BY <5>6
            <4> QED BY <4>2, <4>3
        <3> QED BY <1>8, <3>1, <3>2
    <2> QED BY <1>2, <1>11, <2>1 DEF RowsInOrder
<1>17. BatchInOrder'
    BY <1>1 DEF BatchInOrder
<1>18. InboxInOrder'
    BY <1>0, <1>1, <1>2, <1>10, <1>11 DEF InboxInOrder
<1>19. ASSUME Queue!Platform = "eitaa" PROVE CursorInv' /\ Queue!NothingSkipped'
    <2>1. /\ cursor' = fetched /\ state' = fetched /\ state < fetched /\ cursor = state
          /\ Queue!Range(batch) = state+1..fetched /\ Queue!Queued \subseteq 1..cursor
                /\ lost = {}
          /\ inbox = <<>> /\ fetched \in 0..produced /\ state \in 0..produced
                /\ produced \in Nat
          /\ \A f \in Queue!Events : copies[f] > 0 => f <= cursor
        BY <1>0, <1>1, <1>19 DEF Queue!Persist, CursorInv, QueueTypes
    <2>2. Queue!Queued' \subseteq 1..fetched /\ \A e \in 1..fetched : e \in 1..cursor
             \/ e \in Queue!Range(batch)
        BY <1>10, <2>1
    <2>3. \A f \in Queue!Events : copies[f] > 0 => f <= fetched
        BY <2>1 DEF Queue!Events
    <2>4. CursorInv'
        BY <1>1, <1>2, <2>1, <2>2, <2>3 DEF CursorInv, Queue!Events
    <2>5. Queue!NothingSkipped'
        <3>1. \A e \in 1..fetched : e \in Queue!Queued' \/ Queue!Duplicate(e)
            BY <1>0, <1>10, <1>19, <2>2 DEF Queue!NothingSkipped
        <3>2. \A e \in 1..fetched : e \in Queue!Queued' \/ Queue!Duplicate(e)'
            BY <1>2, <3>1
        <3>3. Queue!Platform' = "eitaa" /\ cursor' = fetched
            BY <1>2, <1>19, <2>1
        <3> QED BY <3>2, <3>3 DEF Queue!NothingSkipped
    <2> QED BY <2>4, <2>5
<1>20. ASSUME Queue!Platform # "eitaa" PROVE CursorInv' /\ Queue!NothingSkipped'
    <2>1. Queue!Platform' # "eitaa"
        BY <1>2, <1>20
    <2>2. Queue!Platform = "bale" =>
              \A e \in 1..produced : e \in Queue!Waiting' \union lost'
                 \/ Queue!Duplicate(e)'
        BY <1>0, <1>1, <1>2, <1>11 DEF Queue!NothingSkipped
    <2>3. Queue!NothingSkipped'
        BY <1>1, <1>2, <2>1, <2>2 DEF Queue!NothingSkipped
    <2>4. CursorInv'
        BY <2>1 DEF CursorInv
    <2> QED BY <2>3, <2>4
<1>21. Queue!PeerOrder'
    BY <1>0, <1>1, <1>11, OrderKept
<1>22. TodoInv'
    <2>1. \A k \in DOMAIN todo : \E i \in DOMAIN rows' :
              rows'[i].event = todo[k].event /\ rows'[i].stream = todo[k].stream
        BY <1>0, <1>7 DEF TodoInv
    <2>2. ASSUME NEW k \in DOMAIN todo, NEW j \in DOMAIN rows', NEW i \in 1..j-1,
                 rows'[j].event = todo[k].event
          PROVE  rows'[i].stream \in blocked
                    \/ \E m \in 1..k-1 : todo[m].event = rows'[i].event
        <3>1. PICK h \in DOMAIN rows : rows[h].event = todo[k].event
            BY <1>0 DEF TodoInv
        <3>2. h = j
            BY <1>7, <1>14, <2>2, <3>1
        <3>3. i \in DOMAIN rows
            BY <1>6, <3>2
        <3> QED BY <1>0, <1>7, <2>2, <3>2, <3>3 DEF TodoInv
    <2>3. Queue!Current' = Queue!Current
        BY <1>1 DEF Queue!Current
    <2> QED BY <1>0, <1>1, <1>2, <2>1, <2>2, <2>3 DEF TodoInv
<1>23. CursorInv' /\ Queue!NothingSkipped'
    BY <1>19, <1>20
<1> QED BY <1>13, <1>15, <1>16, <1>17, <1>18, <1>21, <1>22, <1>23 DEF QueueInv

LEMMA QueueStep == ASSUME QueueInv, [Queue!Next]_(Queue!vars) PROVE QueueInv'
<1>1. ASSUME NEW e \in Queue!Events, Queue!Repeat(e) \/ Queue!Tick(e) PROVE QueueInv'
    BY <1>1, RepeatStep, TickStep
<1>2. CASE Queue!Produce \/ Queue!Fetch \/ Queue!Persist \/ Queue!PersistFails
    BY <1>2, ProduceStep, FetchStep, PersistStep, PersistFailsStep
<1>3. CASE Queue!Drain
    BY <1>3, StartStep, StopStep, PassStep, BeginStep, PostStep, CommitStep, DeliveredStep
       DEF Queue!Drain
<1>4. CASE Queue!DeliveryFails \/ Queue!Restart
    BY <1>4, FailStep, RestartStep
<1>5. CASE UNCHANGED Queue!vars
    BY <1>5, QueueStutter
<1> QED BY <1>1, <1>2, <1>3, <1>4, <1>5 DEF Queue!Next

----------------------------------------------------------------------------
(* The composition.                                                        *)

ProvedInv ==
    /\ side = "queue" => QueueInv
    /\ side = "bot" => MarksInv
    /\ side = "session" => SesInv

LEMMA ProvedInit == Init => ProvedInv
<1>1. NumEvents \in Nat /\ \A h \in Histories : Queue!IsHistory(h)
    BY PollingAssumption DEF Queue!InboundAssumption
<1> QED BY <1>1, QueueInit, MarksInit, SesInvInit DEF Init, ProvedInv

\* A step of the composition is a step of the side that moves, or none.
LEMMA Turns ==
    ASSUME [Next]_vars
    PROVE  /\ side' = side
           /\ side = "queue" => [Queue!Next]_(Queue!vars)
           /\ side = "bot" => [Bot!Next]_(Bot!vars)
           /\ side = "session" => [Session!SessionNext]_(Session!sessionVars)
<1>1. CASE UNCHANGED vars
    BY <1>1 DEF vars, queueOnly, botOnly, sessionOnly, Bot!vars, Bot!memoryVars,
                Session!sessionVars, Session!memory, Queue!vars, Queue!intakeVars,
                Queue!drainVars, Queue!boundVars
<1>2. CASE Next
    BY <1>2 DEF Next, InQueue, InBot, InSession
<1> QED BY <1>1, <1>2

LEMMA ProvedStep == ASSUME ProvedInv, [Next]_vars PROVE ProvedInv'
<1>1. side' = side
    BY Turns
<1>2. side = "bot" => MarksInv'
    BY Turns, MarksStep DEF ProvedInv
<1>4. side = "queue" => QueueInv'
    BY Turns, QueueStep DEF ProvedInv
<1>3. side = "session" => SesInv'
    BY Turns, SesInvStep DEF ProvedInv
<1> QED BY <1>1, <1>2, <1>3, <1>4 DEF ProvedInv

LEMMA ProvedInvariant == Spec => []ProvedInv
<1>1. ProvedInv /\ [Next]_vars => ProvedInv'
    BY ProvedStep
<1> QED BY <1>1, ProvedInit, PTL DEF Spec

\* Nothing is behind a bot's offset but what was settled, or overtaken by what
\* was settled (polling.py, _run_instance).
THEOREM OffsetPassesSettled == Spec => []OnlyOvertaken
<1>1. ProvedInv => OnlyOvertaken
    BY MarksMean DEF ProvedInv, OnlyOvertaken
<1> QED BY <1>1, ProvedInvariant, PTL

\* However often the connection of a runtime is lost and its listener opens
\* another, no socket is left behind unless starts overlapped (connector.py,
\* _start_messaging_client, _ws_listen).
THEOREM OneSocketEver == Spec => []OneSocket
<1>1. ProvedInv => OneSocket
    BY SesInvMeans DEF ProvedInv, OneSocket
<1> QED BY <1>1, ProvedInvariant, PTL

\* An update a Bale session received is in its queue, in the batch of the poll
\* task or committed, unless a disconnection, the end of the task or the
\* dialogs' route dropped it (connector.py, get_updates; polling.py).
THEOREM UpdatesStayKept == Spec => []UpdatesKept
<1>1. ProvedInv => UpdatesKept
    BY SesInvMeans DEF ProvedInv, UpdatesKept
<1> QED BY <1>1, ProvedInvariant, PTL

\* No message is shown while an earlier one of its chat waits, and no deletion is
\* dealt with before the message it is about (polling.py, _drain_retry_queue).
THEOREM ChatsStayInOrder == Spec => []PeerOrder
<1>1. ProvedInv => PeerOrder
    BY DEF ProvedInv, QueueInv, PeerOrder
<1> QED BY <1>1, ProvedInvariant, PTL

\* What Eitaa's cursor passed, and what Bale pushed, is queued or delivered, but
\* for what was lost with the loop's task or the process (polling.py,
\* _persist_bale_updates).
THEOREM NothingStaysSkipped == Spec => []NothingSkipped
<1>1. ProvedInv => NothingSkipped
    BY DEF ProvedInv, QueueInv, NothingSkipped
<1> QED BY <1>1, ProvedInvariant, PTL
================================================================================
