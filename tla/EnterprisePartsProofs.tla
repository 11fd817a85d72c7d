----------------------- MODULE EnterprisePartsProofs -----------------------
(***************************************************************************)
(* Proofs about the live conversations and the menus of both Enterprise    *)
(* bots, about the shared settings of an instance and about its documents, *)
(* for any number of messages, conversations, texts, inboxes, documents,   *)
(* groups and changes by hand.                                             *)
(***************************************************************************)
EXTENDS EnterpriseBale, EnterpriseTelegram, EnterpriseSettings, EnterpriseAssets,
        SequenceTheorems, FiniteSetTheorems, WellFoundedInduction, NaturalsInduction, TLAPS

----------------------------------------------------------------------------
(* The settings.                                                           *)

Settings == [last : 0..MaxSms, on : BOOLEAN, inbox : Nat]
Runs == [pc : {"idle", "fetching", "sending"}, cfg : Settings, items : SUBSET Sms,
         top : 0..MaxSms, shared : BOOLEAN]
Creations == [pc : {"idle", "listing", "creating", "repairing"}, cfg : Settings, inbox : Nat]

SettingsTypes ==
    /\ meta \in Settings /\ issued \in 0..MaxSms
    /\ run \in [Syncs -> Runs] /\ creation \in [Creators -> Creations]
    /\ inboxes \in Seq(BOOLEAN) /\ edits \in Nat
    /\ seen \in [Sms -> 0..2] /\ tried \subseteq Sms /\ excused \subseteq Sms
    /\ raced \in BOOLEAN

\* Every copy of the mark is behind what was tried.
Tried(last) == \A i \in 1..last : i \in tried

\* A run in progress has tried everything up to the highest text it sent, and
\* before the texts it has left only others of them are untried.
RunTried(r) ==
    /\ Tried(run[r].cfg.last)
    /\ run[r].pc = "idle" => run[r].cfg.last = 0
    /\ run[r].pc = "fetching" => run[r].top = run[r].cfg.last
    /\ run[r].pc = "sending" =>
          /\ Tried(run[r].top) /\ run[r].cfg.last <= run[r].top
          /\ \A i \in run[r].items : run[r].cfg.last < i
          /\ \A i \in run[r].items : \A k \in 1..i : k \in tried \/ k \in run[r].items

MarkInv ==
    /\ Tried(meta.last)
    /\ \A r \in Syncs : RunTried(r)
    /\ \A c \in Creators : Tried(creation[c].cfg.last)

\* A text was sent only if the mark, or a run still to move the mark, is past it;
\* and of what a run that is alone has before it, none was sent.
Past(r, i) ==
    /\ run[r].pc = "sending" /\ run[r].cfg.last < i /\ i <= run[r].top
    /\ i \notin run[r].items

RepeatInv ==
    /\ SmsRepeatsExcused
    /\ \A i \in Sms : seen[i] > 0 =>
          i \in excused \/ i <= meta.last \/ \E r \in Syncs : Past(r, i)
    /\ \A r \in Syncs, i \in Sms :
          (run[r].pc # "idle" /\ ~run[r].shared /\ run[r].cfg.last < i /\ seen[i] > 0) =>
             i \in excused \/ Past(r, i)
    /\ \A r \in Syncs, o \in Syncs :
          (r # o /\ run[r].pc # "idle" /\ run[o].pc # "idle") => run[r].shared

\* Without a race one creation is under way, and it creates the first inbox.
RaceInv ==
    raced \/ /\ Len(inboxes) <= 1
             /\ \A c \in Creators : creation[c].pc = "creating" => inboxes = <<>>
             /\ \A c \in Creators, o \in Creators :
                   creation[c].pc # "idle" /\ creation[o].pc # "idle" => c = o

SettingsInv == SettingsTypes /\ MarkInv /\ RepeatInv /\ RaceInv
----------------------------------------------------------------------------
\* What a task that does nothing holds is of the types.
LEMMA IdleTyped ==
    SettingsAssumption => 0 \in 0..MaxSms /\ NoSync \in Runs /\ NoCreation \in Creations
<1> SUFFICES ASSUME SettingsAssumption
             PROVE 0 \in 0..MaxSms /\ NoSync \in Runs /\ NoCreation \in Creations
    OBVIOUS
<1>1. 0 \in 0..MaxSms
    BY DEF SettingsAssumption
<1>2. [last |-> 0, on |-> FALSE, inbox |-> 0] \in Settings
    BY <1>1 DEF Settings
<1> QED BY <1>1, <1>2 DEF NoSync, NoCreation, Runs, Creations

\* Setting an element of a sequence: one is set, or none is of that number.
LEMMA ExceptKeeps ==
    ASSUME NEW S, NEW s \in Seq(S), NEW i \in Nat, NEW b \in S
    PROVE  [s EXCEPT ![i] = b] \in Seq(S) /\ Len([s EXCEPT ![i] = b]) = Len(s)
<1>1. CASE i \in 1..Len(s)
    BY <1>1, ExceptSeq
<1>2. CASE i \notin 1..Len(s)
    <2>1. s = [k \in 1..Len(s) |-> s[k]]
        OBVIOUS
    <2>2. [s EXCEPT ![i] = b] = s
        BY <1>2, <2>1, Zenon
    <2> QED BY <2>2, Zenon
<1> QED BY <1>1, <1>2

\* Setting a webhook adds no inbox.
LEMMA WebhookKeeps ==
    ASSUME NEW s \in Seq(BOOLEAN), NEW i \in Nat, NEW b \in BOOLEAN
    PROVE  [s EXCEPT ![i] = b] \in Seq(BOOLEAN) /\ Len([s EXCEPT ![i] = b]) = Len(s)
<1> DEFINE B == BOOLEAN
<1>1. s \in Seq(B) /\ b \in B
    OBVIOUS
<1> HIDE DEF B
<1>2. [s EXCEPT ![i] = b] \in Seq(B) /\ Len([s EXCEPT ![i] = b]) = Len(s)
    BY <1>1, ExceptKeeps
<1> QED BY <1>2 DEF B

\* The types are kept: no writer puts a mark in the column that no text has.
LEMMA TypesInit == SettingsAssumption /\ SettingsInit => SettingsTypes
<1> SUFFICES ASSUME SettingsAssumption, SettingsInit PROVE SettingsTypes
    OBVIOUS
<1>1. meta \in Settings
    BY IdleTyped DEF SettingsInit, Settings
<1>2. run \in [Syncs -> Runs] /\ creation \in [Creators -> Creations]
    BY IdleTyped DEF SettingsInit
<1>3. issued \in 0..MaxSms /\ edits \in Nat /\ seen \in [Sms -> 0..2]
    BY IdleTyped DEF SettingsInit
<1>4. inboxes \in Seq(BOOLEAN)
    BY EmptySeq, Zenon DEF SettingsInit
<1>5. tried \subseteq Sms /\ excused \subseteq Sms
    BY DEF SettingsInit
<1>6. raced \in BOOLEAN
    BY Zenon DEF SettingsInit
<1> QED BY <1>1, <1>2, <1>3, <1>4, <1>5, <1>6 DEF SettingsTypes

LEMMA TypesStep == SettingsAssumption /\ SettingsTypes /\ [SettingsNext]_settingsVars => SettingsTypes'
<1> SUFFICES ASSUME SettingsAssumption, SettingsTypes, [SettingsNext]_settingsVars
             PROVE SettingsTypes'
    OBVIOUS
<1> USE DEF SettingsTypes, smsHistory, SettingsAssumption
<1>1. ASSUME NEW r \in Syncs, SyncBegins(r) PROVE SettingsTypes'
    <2>1. PICK shared \in BOOLEAN :
              run' = [o \in Syncs |->
                  IF o = r THEN [NoSync EXCEPT !.pc = "fetching", !.cfg = meta,
                                               !.top = meta.last, !.shared = shared]
                  ELSE [run[o] EXCEPT !.shared = @ \/ run[o].pc # "idle"]]
        BY <1>1, Zenon DEF SyncBegins
    <2>2. [NoSync EXCEPT !.pc = "fetching", !.cfg = meta, !.top = meta.last,
                         !.shared = shared] \in Runs
        BY IdleTyped DEF Runs, Settings
    <2>3. \A o \in Syncs : [run[o] EXCEPT !.shared = @ \/ run[o].pc # "idle"] \in Runs
        <3> SUFFICES ASSUME NEW o \in Syncs, NEW b \in BOOLEAN
                     PROVE [run[o] EXCEPT !.shared = b] \in Runs
            BY Zenon
        <3> QED BY DEF Runs
    <2>4. run' \in [Syncs -> Runs]
        BY <2>1, <2>2, <2>3
    <2> QED BY <1>1, <2>4 DEF SyncBegins
<1>2. ASSUME NEW r \in Syncs, SyncFetched(r) PROVE SettingsTypes'
    <2>1. Unsent(run[r].cfg.last) \in SUBSET Sms
        BY DEF Unsent, Sms
    <2>2. [run[r] EXCEPT !.pc = "sending", !.items = Unsent(run[r].cfg.last)] \in Runs
        BY <2>1 DEF Runs
    <2>3. run' \in [Syncs -> Runs]
        BY <1>2, <2>2 DEF SyncFetched
    <2> QED BY <1>2, <2>3 DEF SyncFetched
<1>3. ASSUME NEW r \in Syncs, SyncSends(r) PROVE SettingsTypes'
    <2>1. PICK i \in run[r].items : tried' = tried \union {i} /\ (Dropped(r, i) \/ SmsSent(r, i))
        BY <1>3 DEF SyncSends
    <2>2. i \in Sms
        BY DEF Runs
    <2>3. i \in 0..MaxSms
        BY <2>2 DEF Sms
    <2>4. run' \in [Syncs -> Runs]
        <3>1. [run[r] EXCEPT !.items = @ \ {i}] \in Runs
            BY DEF Runs
        <3>2. [run[r] EXCEPT !.items = @ \ {i}, !.top = IF i > @ THEN i ELSE @] \in Runs
            BY <2>3 DEF Runs
        <3> QED BY <2>1, <3>1, <3>2 DEF Dropped, SmsSent
    <2>5. seen' \in [Sms -> 0..2] /\ excused' \subseteq Sms
        BY <2>1, <2>2 DEF Dropped, SmsSent
    <2> QED BY <1>3, <2>1, <2>2, <2>4, <2>5 DEF SyncSends
<1>4. ASSUME NEW r \in Syncs, SyncEnds(r) PROVE SettingsTypes'
    <2>1. run' \in [Syncs -> Runs]
        BY <1>4, IdleTyped DEF SyncEnds
    <2>2. meta' \in Settings /\ excused' \subseteq Sms
        BY <1>4 DEF SyncEnds, Runs, Settings, Written
    <2> QED BY <1>4, <2>1, <2>2 DEF SyncEnds
<1>5. ASSUME NEW r \in Syncs, SyncAborts(r) PROVE SettingsTypes'
    <2>1. run' \in [Syncs -> Runs] /\ excused' \subseteq Sms
        BY <1>5, IdleTyped DEF SyncAborts
    <2> QED BY <1>5, <2>1 DEF SyncAborts
<1>6. ASSUME NEW c \in Creators, CreationBegins(c) PROVE SettingsTypes'
    BY <1>6 DEF CreationBegins, Creations
<1>7. ASSUME NEW c \in Creators, InboxListed(c) PROVE SettingsTypes'
    <2>1. PICK pc \in {"creating", "repairing"}, i \in Nat :
              creation' = [creation EXCEPT ![c].pc = pc, ![c].inbox = i]
        BY <1>7 DEF InboxListed, Found
    <2>2. [creation[c] EXCEPT !.pc = pc, !.inbox = i] \in Creations
        BY DEF Creations
    <2>3. creation' \in [Creators -> Creations]
        BY <2>1, <2>2
    <2> QED BY <1>7, <2>3 DEF InboxListed
<1>8. ASSUME NEW c \in Creators, NEW i \in Nat, Linked(c, i)
      PROVE /\ meta' \in Settings /\ excused' \subseteq Sms
            /\ creation' \in [Creators -> Creations]
    <2>1. [creation[c].cfg EXCEPT !.inbox = i] \in Settings
        BY DEF Creations, Settings
    <2> QED BY <1>8, <2>1, IdleTyped DEF Linked, Written
<1>9. ASSUME NEW c \in Creators, InboxCreated(c) PROVE SettingsTypes'
    <2>1. Len(inboxes) + 1 \in Nat /\ inboxes' \in Seq(BOOLEAN)
        BY <1>9 DEF InboxCreated
    <2> QED BY <1>9, <1>8, <2>1 DEF InboxCreated
<1>10. ASSUME NEW c \in Creators, InboxRepaired(c) PROVE SettingsTypes'
    <2>1. creation[c].inbox \in Nat
        BY DEF Creations
    <2>2. inboxes' \in Seq(BOOLEAN)
        BY <1>10, <2>1, TRUE \in BOOLEAN, WebhookKeeps, Zenon DEF InboxRepaired
    <2> QED BY <1>10, <1>8, <2>1, <2>2 DEF InboxRepaired
<1>11. ASSUME NEW c \in Creators, CreationFails(c) PROVE SettingsTypes'
    BY <1>11, IdleTyped DEF CreationFails
<1>12. CASE Issued
    BY <1>12 DEF Issued, SettingsAssumption
<1>13. CASE ConfigPatched
    <2>1. PICK last \in 0..issued, on \in BOOLEAN :
              Written([meta EXCEPT !.last = last, !.on = on]) /\ tried' = tried \union 1..last
        BY <1>13 DEF ConfigPatched
    <2>2. last \in 0..MaxSms /\ 1..last \subseteq Sms
        BY DEF Sms
    <2>3. [meta EXCEPT !.last = last, !.on = on] \in Settings
        BY <2>2 DEF Settings
    <2> QED BY <1>13, <2>1, <2>2, <2>3 DEF ConfigPatched, Written
<1>14. CASE WebhookBroken
    BY <1>14 DEF WebhookBroken
<1>15. CASE UNCHANGED settingsVars
    BY <1>15 DEF settingsVars
<1> QED BY <1>1, <1>2, <1>3, <1>4, <1>5, <1>6, <1>7, <1>9, <1>10, <1>11, <1>12, <1>13, <1>14,
           <1>15 DEF SettingsNext, Sync, Creation
----------------------------------------------------------------------------
\* What the beginning of a run changes of the runs.
LEMMA RunBegins ==
    ASSUME SettingsTypes, NEW r \in Syncs, SyncBegins(r)
    PROVE  /\ run[r].pc = "idle" /\ run'[r].pc = "fetching" /\ run'[r].cfg = meta
           /\ run'[r].items = {} /\ run'[r].top = meta.last
           /\ (\E o \in Syncs : run[o].pc # "idle") => run'[r].shared
           /\ \A o \in Syncs \ {r} :
                 /\ run'[o].pc = run[o].pc /\ run'[o].cfg = run[o].cfg
                 /\ run'[o].items = run[o].items /\ run'[o].top = run[o].top
                 /\ (run[o].shared \/ run[o].pc # "idle") => run'[o].shared
<1>1. run' = [o \in Syncs |->
          IF o = r THEN [NoSync EXCEPT !.pc = "fetching", !.cfg = meta, !.top = meta.last,
                                       !.shared = \E q \in Syncs : run[q].pc # "idle"]
          ELSE [run[o] EXCEPT !.shared = @ \/ run[o].pc # "idle"]]
    BY Zenon DEF SyncBegins
<1> DEFINE others == \E q \in Syncs : run[q].pc # "idle"
<1>2. /\ run'[r] = [NoSync EXCEPT !.pc = "fetching", !.cfg = meta, !.top = meta.last,
                                  !.shared = others]
      /\ \A o \in Syncs \ {r} : run'[o] = [run[o] EXCEPT !.shared = @ \/ run[o].pc # "idle"]
    BY <1>1, Zenon
<1>3. run[r].pc = "idle"
    BY DEF SyncBegins
<1>4. /\ run'[r].pc = "fetching" /\ run'[r].cfg = meta /\ run'[r].items = {}
      /\ run'[r].top = meta.last /\ run'[r].shared = others
    <2> HIDE DEF others
    <2> QED BY <1>2 DEF NoSync
<1>5. ASSUME NEW o \in Syncs \ {r}
      PROVE /\ run'[o].pc = run[o].pc /\ run'[o].cfg = run[o].cfg
            /\ run'[o].items = run[o].items /\ run'[o].top = run[o].top
            /\ run'[o].shared = (run[o].shared \/ run[o].pc # "idle")
    <2> DEFINE b == run[o].shared \/ run[o].pc # "idle"
    <2>1. run'[o] = [run[o] EXCEPT !.shared = b] /\ run[o] \in Runs
        BY <1>2, Zenon DEF SettingsTypes
    <2> HIDE DEF b
    <2>2. /\ run'[o].pc = run[o].pc /\ run'[o].cfg = run[o].cfg
          /\ run'[o].items = run[o].items /\ run'[o].top = run[o].top
          /\ run'[o].shared = b
        BY <2>1 DEF Runs
    <2> QED BY <2>2 DEF b
<1> QED BY <1>3, <1>4, <1>5, Zenon

----------------------------------------------------------------------------
(* The mark.                                                               *)

LEMMA MarkInit == SettingsAssumption /\ SettingsInit => MarkInv
BY DEF SettingsAssumption, SettingsInit, MarkInv, Tried, RunTried, NoSync, NoCreation

\* Whoever tries a text leaves the others tried.
LEMMA TriedStays == [SettingsNext]_settingsVars => tried \subseteq tried'
BY DEF SettingsNext, settingsVars, smsHistory, Sync, SyncBegins, SyncFetched, SyncSends, SyncEnds,
       SyncAborts, Creation, CreationBegins, InboxListed, InboxCreated, InboxRepaired,
       CreationFails, Issued, ConfigPatched, WebhookBroken

\* A write puts a mark in the column that is tried; the copies stay behind it.
LEMMA MarkWritten ==
    ASSUME SettingsTypes, MarkInv, tried \subseteq tried', NEW value \in Settings,
           Written(value), \A i \in 1..value.last : i \in tried',
           \A r \in Syncs : run'[r] = run[r] \/ run'[r] = NoSync,
           \A c \in Creators : creation'[c] = creation[c] \/ creation'[c] = NoCreation
    PROVE  MarkInv'
<1>1. Tried(meta.last)'
    BY DEF Written, Tried
<1>2. \A r \in Syncs : RunTried(r)'
    <2> SUFFICES ASSUME NEW r \in Syncs PROVE RunTried(r)'
        OBVIOUS
    <2>1. CASE run'[r] = run[r]
        BY <2>1 DEF MarkInv, RunTried, Tried
    <2>2. CASE run'[r] = NoSync
        BY <2>2 DEF NoSync, RunTried, Tried
    <2> QED BY <2>1, <2>2
<1>3. \A c \in Creators : Tried(creation[c].cfg.last)'
    BY DEF MarkInv, NoCreation, NoSync, Tried
<1> QED BY <1>1, <1>2, <1>3 DEF MarkInv

\* A step that leaves the column alone and takes no new copy of it.
LEMMA MarkAside ==
    ASSUME MarkInv, tried \subseteq tried', meta' = meta,
           \A r \in Syncs : run'[r] = run[r] \/ RunTried(r)',
           \A c \in Creators : creation'[c].cfg \in {meta, creation[c].cfg, NoSync.cfg}
    PROVE  MarkInv'
<1>1. Tried(meta.last)'
    BY DEF MarkInv, Tried
<1>2. \A r \in Syncs : RunTried(r)'
    BY DEF MarkInv, RunTried, Tried
<1>3. \A c \in Creators : Tried(creation[c].cfg.last)'
    BY DEF MarkInv, NoSync, Tried
<1> QED BY <1>1, <1>2, <1>3 DEF MarkInv

LEMMA MarkStep ==
    SettingsAssumption /\ SettingsTypes /\ MarkInv /\ [SettingsNext]_settingsVars => MarkInv'
<1> SUFFICES ASSUME SettingsAssumption, SettingsTypes, MarkInv, [SettingsNext]_settingsVars
             PROVE MarkInv'
    OBVIOUS
<1>a. tried \subseteq tried' /\ SettingsTypes'
    BY TriedStays, TypesStep
<1>1. ASSUME NEW r \in Syncs, SyncBegins(r) PROVE MarkInv'
    <2>1. RunTried(r)'
        BY <1>1, <1>a, RunBegins DEF MarkInv, RunTried, Tried
    <2>2. \A o \in Syncs : RunTried(o)'
        BY <1>1, <1>a, <2>1, RunBegins DEF MarkInv, RunTried, Tried
    <2> QED BY <1>1, <1>a, <2>2, MarkAside DEF SyncBegins
<1>2. ASSUME NEW r \in Syncs, SyncFetched(r) PROVE MarkInv'
    <2>1. /\ run'[r].cfg = run[r].cfg /\ run'[r].top = run[r].top /\ run[r].top = run[r].cfg.last
          /\ run'[r].items = Unsent(run[r].cfg.last) /\ run'[r].pc = "sending"
          /\ \A o \in Syncs \ {r} : run'[o] = run[o]
        BY <1>2 DEF SyncFetched, SettingsTypes, Runs, MarkInv, RunTried
    <2>2. run[r].cfg.last \in Nat /\ issued \in Nat /\ Tried(run[r].cfg.last)
        BY DEF SettingsTypes, Runs, Settings, SettingsAssumption, MarkInv, RunTried
    <2>3. RunTried(r)'
        BY <1>a, <2>1, <2>2 DEF RunTried, Unsent, Tried
    <2> QED BY <1>2, <1>a, <2>1, <2>3, MarkAside DEF SyncFetched
<1>3. ASSUME NEW r \in Syncs, SyncSends(r) PROVE MarkInv'
    <2>1. PICK i \in run[r].items :
              /\ \A k \in run[r].items : i <= k
              /\ tried' = tried \union {i} /\ (Dropped(r, i) \/ SmsSent(r, i))
        BY <1>3 DEF SyncSends
    <2>2. /\ run'[r].pc = "sending" /\ run[r].pc = "sending" /\ run'[r].cfg = run[r].cfg
          /\ run'[r].items = run[r].items \ {i}
          /\ run'[r].top = run[r].top \/ (run'[r].top = i /\ i > run[r].top)
          /\ \A o \in Syncs \ {r} : run'[o] = run[o]
        BY <1>3, <2>1 DEF SyncSends, Dropped, SmsSent, SettingsTypes, Runs
    <2>3. run[r].cfg.last \in Nat /\ run[r].top \in Nat /\ run[r].items \subseteq Nat
        BY DEF SettingsTypes, Runs, Settings, SettingsAssumption, Sms
    <2>4. Tried(run[r].top)'
        BY <2>1, <2>2, <2>3 DEF MarkInv, RunTried, Tried
    <2>5. RunTried(r)'
        BY <2>1, <2>2, <2>3, <2>4 DEF MarkInv, RunTried, Tried
    <2> QED BY <1>3, <1>a, <2>2, <2>5, MarkAside DEF SyncSends
<1>4. ASSUME NEW r \in Syncs, SyncEnds(r) PROVE MarkInv'
    <2>1. run' = [run EXCEPT ![r] = NoSync] /\ creation' = creation
        BY <1>4 DEF SyncEnds
    <2>2. \A o \in Syncs : run'[o] = run[o] \/ run'[o] = NoSync
        BY <2>1 DEF SettingsTypes
    <2>3. CASE run[r].top # run[r].cfg.last
        <3>1. [run[r].cfg EXCEPT !.last = run[r].top] \in Settings
            BY DEF SettingsTypes, Runs, Settings
        <3>2. [run[r].cfg EXCEPT !.last = run[r].top].last = run[r].top
            BY DEF SettingsTypes, Runs, Settings
        <3>3. Tried(run[r].top)
            BY <1>4 DEF SyncEnds, MarkInv, RunTried
        <3> QED BY <1>4, <1>a, <2>1, <2>2, <2>3, <3>1, <3>2, <3>3, MarkWritten DEF SyncEnds, Tried
    <2>4. CASE run[r].top = run[r].cfg.last
        <3>1. \A o \in Syncs : run'[o] = run[o] \/ RunTried(o)'
            BY <2>2 DEF RunTried, NoSync, Tried
        <3> QED BY <1>4, <1>a, <2>1, <2>4, <3>1, MarkAside DEF SyncEnds
    <2> QED BY <2>3, <2>4
<1>5. ASSUME NEW r \in Syncs, SyncAborts(r) PROVE MarkInv'
    <2>1. \A o \in Syncs : run'[o] = run[o] \/ run'[o] = NoSync
        BY <1>5 DEF SyncAborts, SettingsTypes
    <2>2. \A o \in Syncs : run'[o] = run[o] \/ RunTried(o)'
        BY <2>1 DEF RunTried, NoSync, Tried
    <2> QED BY <1>5, <1>a, <2>2, MarkAside DEF SyncAborts
<1>6. ASSUME NEW c \in Creators, CreationBegins(c) \/ InboxListed(c) \/ CreationFails(c)
      PROVE MarkInv'
    <2>1. CASE CreationBegins(c)
        BY <2>1, <1>a, MarkAside DEF CreationBegins, SettingsTypes, Creations
    <2>2. CASE InboxListed(c)
        BY <2>2, <1>a, MarkAside DEF InboxListed, SettingsTypes, Creations
    <2>3. CASE CreationFails(c)
        BY <2>3, <1>a, MarkAside DEF CreationFails, NoCreation, SettingsTypes, Creations
    <2> QED BY <1>6, <2>1, <2>2, <2>3
<1>7. ASSUME NEW c \in Creators, NEW i \in Nat, Linked(c, i), run' = run PROVE MarkInv'
    <2>1. [creation[c].cfg EXCEPT !.inbox = i] \in Settings
        BY DEF SettingsTypes, Creations, Settings
    <2>2. [creation[c].cfg EXCEPT !.inbox = i].last = creation[c].cfg.last
        BY DEF SettingsTypes, Creations, Settings
    <2>3. Tried(creation[c].cfg.last)
        BY DEF MarkInv
    <2>4. \A o \in Creators : creation'[o] = creation[o] \/ creation'[o] = NoCreation
        BY <1>7 DEF Linked, SettingsTypes
    <2>5. Written([creation[c].cfg EXCEPT !.inbox = i])
        BY <1>7 DEF Linked
    <2> QED BY <1>7, <1>a, <2>1, <2>2, <2>3, <2>4, <2>5, MarkWritten DEF Tried
<1>8. ASSUME NEW c \in Creators, InboxCreated(c) \/ InboxRepaired(c) PROVE MarkInv'
    <2>1. Len(inboxes) + 1 \in Nat /\ creation[c].inbox \in Nat
        BY DEF SettingsTypes, Creations
    <2> QED BY <1>7, <1>8, <2>1 DEF InboxCreated, InboxRepaired
<1>9. CASE ConfigPatched
    <2>1. PICK last \in 0..issued, on \in BOOLEAN :
              Written([meta EXCEPT !.last = last, !.on = on]) /\ tried' = tried \union 1..last
        BY <1>9 DEF ConfigPatched
    <2>2. last \in 0..MaxSms
        BY DEF SettingsTypes, SettingsAssumption
    <2>3. [meta EXCEPT !.last = last, !.on = on] \in Settings
        BY <2>2 DEF SettingsTypes, Settings
    <2>4. [meta EXCEPT !.last = last, !.on = on].last = last
        BY DEF SettingsTypes, Settings
    <2> QED BY <1>9, <1>a, <2>1, <2>3, <2>4, MarkWritten DEF ConfigPatched
<1>10. CASE meta' = meta /\ run' = run /\ creation' = creation
    BY <1>10, <1>a, MarkAside
<1> QED BY <1>1, <1>2, <1>3, <1>4, <1>5, <1>6, <1>8, <1>9, <1>10
        DEF SettingsNext, settingsVars, Sync, Creation, Issued, WebhookBroken
----------------------------------------------------------------------------
(* Repeats.                                                                *)

LEMMA RepeatInit == SettingsAssumption /\ SettingsInit => RepeatInv
BY DEF SettingsAssumption, SettingsInit, RepeatInv, SmsRepeatsExcused, NoSync

\* A step that sends nothing: a run goes on or gives up, and what a run that
\* gives up has sent is behind the mark or excused.
LEMMA RepeatAside ==
    ASSUME SettingsTypes, RepeatInv, seen' = seen, excused \subseteq excused',
           \A i \in Sms : i <= meta.last => (i <= meta'.last \/ i \in excused'),
           \A r \in Syncs :
              \/ run'[r] = run[r]
              \/ /\ run'[r] = NoSync
                 /\ \A i \in Sms : (Past(r, i) /\ seen[i] > 0) => (i <= meta'.last \/ i \in excused')
    PROVE  RepeatInv'
<1>1. SmsRepeatsExcused'
    BY DEF RepeatInv, SmsRepeatsExcused
<1>2. ASSUME NEW i \in Sms, seen[i] > 0
      PROVE  i \in excused' \/ i <= meta'.last \/ \E r \in Syncs : Past(r, i)'
    BY <1>2 DEF RepeatInv, Past
<1>3. ASSUME NEW r \in Syncs, NEW i \in Sms, run'[r].pc # "idle", ~run'[r].shared,
             run'[r].cfg.last < i, seen[i] > 0
      PROVE  i \in excused' \/ Past(r, i)'
    <2>1. run'[r] = run[r]
        BY <1>3 DEF NoSync
    <2> QED BY <1>3, <2>1 DEF RepeatInv, Past
<1>4. ASSUME NEW r \in Syncs, NEW o \in Syncs, r # o, run'[r].pc # "idle", run'[o].pc # "idle"
      PROVE  run'[r].shared
    <2>1. run'[r] = run[r] /\ run'[o] = run[o]
        BY <1>4 DEF NoSync
    <2> QED BY <1>4, <2>1 DEF RepeatInv
<1> QED BY <1>1, <1>2, <1>3, <1>4 DEF RepeatInv

\* A write of the column is such a step.
LEMMA RepeatWritten ==
    ASSUME SettingsTypes, RepeatInv, seen' = seen, NEW value \in Settings, Written(value),
           \A r \in Syncs :
              \/ run'[r] = run[r]
              \/ run'[r] = NoSync /\ \A i \in Sms : Past(r, i) => i <= value.last
    PROVE  RepeatInv'
<1>1. value.last \in Int /\ meta.last \in Int /\ Sms \subseteq Int
    BY DEF SettingsTypes, Settings, Sms
<1>2. ASSUME NEW i \in Sms, i <= meta.last
      PROVE  i <= meta'.last \/ i \in excused'
    <2>1. meta' = value /\ excused' = excused \union {j \in Sms : value.last < j /\ j <= meta.last}
        BY DEF Written
    <2> QED BY <1>1, <1>2, <2>1
<1>3. meta' = value /\ excused \subseteq excused'
    BY DEF Written
<1> QED BY <1>2, <1>3, RepeatAside

LEMMA RepeatStep ==
    SettingsAssumption /\ SettingsTypes /\ MarkInv /\ RepeatInv /\ [SettingsNext]_settingsVars
       => RepeatInv'
<1> SUFFICES ASSUME SettingsAssumption, SettingsTypes, MarkInv, RepeatInv,
                    [SettingsNext]_settingsVars
             PROVE RepeatInv'
    OBVIOUS
<1>1. ASSUME NEW r \in Syncs, SyncBegins(r) PROVE RepeatInv'
    <2>1. seen' = seen /\ excused' = excused /\ meta' = meta
        BY <1>1 DEF SyncBegins, smsHistory
    <2>2. \A o \in Syncs, i \in Sms : Past(o, i) => Past(o, i)'
        BY <1>1, RunBegins DEF Past
    <2>3. ASSUME NEW o \in Syncs, NEW i \in Sms, run'[o].pc # "idle", ~run'[o].shared,
                 run'[o].cfg.last < i, seen[i] > 0
          PROVE  i \in excused
        <3>1. o = r /\ \A q \in Syncs : run[q].pc = "idle"
            BY <1>1, <2>3, RunBegins
        <3>2. ~(i <= meta.last)
            BY <1>1, <2>3, <3>1, RunBegins DEF SettingsTypes, Settings, Sms
        <3>3. \A q \in Syncs : ~Past(q, i)
            BY <3>1 DEF Past
        <3> QED BY <2>3, <3>2, <3>3 DEF RepeatInv
    <2>4. \A p \in Syncs, o \in Syncs :
              (p # o /\ run'[p].pc # "idle" /\ run'[o].pc # "idle") => run'[p].shared
        BY <1>1, RunBegins DEF RepeatInv
    <2> QED BY <2>1, <2>2, <2>3, <2>4 DEF RepeatInv, SmsRepeatsExcused
<1>2. ASSUME NEW r \in Syncs, SyncFetched(r) PROVE RepeatInv'
    <2>1. seen' = seen /\ excused' = excused /\ meta' = meta
        BY <1>2 DEF SyncFetched, smsHistory
    <2>2. /\ run[r].pc = "fetching" /\ run'[r].cfg = run[r].cfg /\ run'[r].shared = run[r].shared
          /\ run'[r].pc = "sending" /\ \A o \in Syncs \ {r} : run'[o] = run[o]
        BY <1>2 DEF SyncFetched, SettingsTypes, Runs
    <2>3. \A o \in Syncs, i \in Sms : Past(o, i) => Past(o, i)'
        BY <2>2 DEF Past
    <2>4. ASSUME NEW o \in Syncs, NEW i \in Sms, run'[o].pc # "idle", ~run'[o].shared,
                 run'[o].cfg.last < i, seen[i] > 0
          PROVE  i \in excused \/ Past(o, i)'
        BY <2>2, <2>3, <2>4 DEF RepeatInv
    <2>5. \A p \in Syncs, o \in Syncs :
              (p # o /\ run'[p].pc # "idle" /\ run'[o].pc # "idle") => run'[p].shared
        BY <2>2 DEF RepeatInv
    <2> QED BY <2>1, <2>3, <2>4, <2>5 DEF RepeatInv, SmsRepeatsExcused
<1>3. ASSUME NEW r \in Syncs, SyncSends(r) PROVE RepeatInv'
    <2>1. PICK i \in run[r].items : Dropped(r, i) \/ SmsSent(r, i)
        BY <1>3 DEF SyncSends
    <2>2. meta' = meta /\ run[r].pc = "sending" /\ i \in Sms
        BY <1>3 DEF SyncSends, SettingsTypes, Runs
    <2>3. /\ run'[r].pc = run[r].pc /\ run'[r].cfg = run[r].cfg
          /\ run'[r].shared = run[r].shared /\ run'[r].items = run[r].items \ {i}
          /\ \A o \in Syncs \ {r} : run'[o] = run[o]
        BY <2>1 DEF Dropped, SmsSent, SettingsTypes, Runs
    <2>4. run[r].top \in Int /\ run[r].cfg.last \in Int /\ Sms \subseteq Int
        BY DEF SettingsTypes, Runs, Settings, Sms
    <2>5. run[r].top <= run'[r].top /\ run'[r].top \in Int
        BY <2>1, <2>2, <2>4 DEF Dropped, SmsSent, SettingsTypes, Runs
    <2>6. \A o \in Syncs, k \in Sms : Past(o, k) => Past(o, k)'
        BY <2>3, <2>4, <2>5 DEF Past
    <2>7. \A p \in Syncs, o \in Syncs :
              (p # o /\ run'[p].pc # "idle" /\ run'[o].pc # "idle") => run'[p].shared
        BY <2>3 DEF RepeatInv
    <2>8. CASE Dropped(r, i)
        BY <2>2, <2>3, <2>6, <2>7, <2>8 DEF Dropped, RepeatInv, SmsRepeatsExcused
    <2>9. CASE SmsSent(r, i)
        <3>1. /\ \A k \in Sms \ {i} : seen'[k] = seen[k]
              /\ seen[i] \in 0..2 /\ seen'[i] = IF seen[i] = 2 THEN 2 ELSE seen[i] + 1
              /\ excused \subseteq excused' /\ DOMAIN seen = Sms /\ DOMAIN seen' = Sms
            BY <2>2, <2>9 DEF SmsSent, SettingsTypes
        <3>2. run[r].shared => i \in excused'
            BY <2>9, Zenon DEF SmsSent
        <3>3. ~(i <= run[r].cfg.last) => Past(r, i)'
            <4>1. run'[r].top >= i
                BY <2>2, <2>4, <2>9 DEF SmsSent, SettingsTypes, Runs
            <4> QED BY <2>2, <2>3, <2>4, <4>1 DEF Past
        <3>4. run[r].cfg.last < i
            BY <2>2 DEF MarkInv, RunTried
        <3>5. Past(r, i)'
            BY <2>2, <2>4, <3>3, <3>4
        <3>6. seen[i] > 0 => i \in excused'
            BY <2>2, <2>3, <3>1, <3>2, <3>4 DEF RepeatInv, Past
        <3>7. SmsRepeatsExcused'
            BY <3>1, <3>6 DEF RepeatInv, SmsRepeatsExcused
        <3>8. \A k \in Sms : seen'[k] > 0 =>
                  k \in excused' \/ k <= meta'.last \/ \E o \in Syncs : Past(o, k)'
            BY <2>2, <2>6, <3>1, <3>5 DEF RepeatInv
        <3>9. ASSUME NEW o \in Syncs, NEW k \in Sms, run'[o].pc # "idle", ~run'[o].shared,
                     run'[o].cfg.last < k, seen'[k] > 0
              PROVE  k \in excused' \/ Past(o, k)'
            <4>1. CASE k = i
                <5>1. CASE o = r
                    BY <4>1, <5>1, <3>5
                <5>2. CASE o # r
                    BY <5>2, <3>9, <2>2, <2>3 DEF RepeatInv
                <5> QED BY <5>1, <5>2
            <4>2. CASE k # i
                BY <4>2, <3>1, <3>9, <2>3, <2>6 DEF RepeatInv
            <4> QED BY <4>1, <4>2
        <3> QED BY <2>7, <3>7, <3>8, <3>9 DEF RepeatInv
    <2> QED BY <2>1, <2>8, <2>9
<1>4. ASSUME NEW r \in Syncs, SyncEnds(r) PROVE RepeatInv'
    <2>1. seen' = seen /\ \A o \in Syncs : run'[o] = IF o = r THEN NoSync ELSE run[o]
        BY <1>4 DEF SyncEnds, SettingsTypes, smsHistory
    <2>2. CASE run[r].top # run[r].cfg.last
        <3>1. [run[r].cfg EXCEPT !.last = run[r].top] \in Settings
            BY DEF SettingsTypes, Runs, Settings
        <3>2. [run[r].cfg EXCEPT !.last = run[r].top].last = run[r].top
            BY DEF SettingsTypes, Runs, Settings
        <3> QED BY <1>4, <2>1, <2>2, <3>1, <3>2, RepeatWritten DEF SyncEnds, Past
    <2>3. CASE run[r].top = run[r].cfg.last
        <3>1. \A i \in Sms : ~Past(r, i)
            BY <2>3 DEF Past, SettingsTypes, Runs, Settings, Sms
        <3> QED BY <1>4, <2>1, <2>3, <3>1, RepeatAside DEF SyncEnds
    <2> QED BY <2>2, <2>3
<1>5. ASSUME NEW r \in Syncs, SyncAborts(r) PROVE RepeatInv'
    <2>1. /\ seen' = seen /\ meta' = meta /\ excused \subseteq excused'
          /\ \A o \in Syncs : run'[o] = IF o = r THEN NoSync ELSE run[o]
        BY <1>5 DEF SyncAborts, SettingsTypes, smsHistory
    <2>2. \A i \in Sms : (Past(r, i) /\ seen[i] > 0) => i \in excused'
        BY <1>5 DEF SyncAborts, Past, SettingsTypes, Runs, Settings, Sms
    <2> QED BY <2>1, <2>2, RepeatAside
<1>6. ASSUME NEW c \in Creators, NEW i \in Nat, Linked(c, i), run' = run, seen' = seen
      PROVE RepeatInv'
    <2>1. [creation[c].cfg EXCEPT !.inbox = i] \in Settings
        BY DEF SettingsTypes, Creations, Settings
    <2> QED BY <1>6, <2>1, RepeatWritten DEF Linked
<1>7. ASSUME NEW c \in Creators, InboxCreated(c) \/ InboxRepaired(c) PROVE RepeatInv'
    <2>1. Len(inboxes) + 1 \in Nat /\ creation[c].inbox \in Nat
        BY DEF SettingsTypes, Creations
    <2> QED BY <1>6, <1>7, <2>1 DEF InboxCreated, InboxRepaired, smsHistory
<1>8. CASE ConfigPatched
    <2>1. PICK last \in 0..issued, on \in BOOLEAN :
              Written([meta EXCEPT !.last = last, !.on = on])
        BY <1>8 DEF ConfigPatched
    <2>2. last \in 0..MaxSms
        BY DEF SettingsTypes, SettingsAssumption
    <2>3. [meta EXCEPT !.last = last, !.on = on] \in Settings
        BY <2>2 DEF SettingsTypes, Settings
    <2> QED BY <1>8, <2>1, <2>3, RepeatWritten DEF ConfigPatched
<1>9. CASE meta' = meta /\ run' = run /\ seen' = seen /\ excused' = excused
    BY <1>9, RepeatAside
<1> QED BY <1>1, <1>2, <1>3, <1>4, <1>5, <1>7, <1>8, <1>9
        DEF SettingsNext, settingsVars, smsHistory, Sync, Creation, CreationBegins, InboxListed,
            CreationFails, Issued, WebhookBroken

----------------------------------------------------------------------------
(* The second inbox.                                                       *)

LEMMA RaceInit == SettingsInit => RaceInv
BY DEF SettingsInit, RaceInv, NoCreation

LEMMA RaceStep == SettingsTypes /\ RaceInv /\ [SettingsNext]_settingsVars => RaceInv'
<1> SUFFICES ASSUME SettingsTypes, RaceInv, [SettingsNext]_settingsVars PROVE RaceInv'
    OBVIOUS
<1>1. raced => raced'
    BY Zenon DEF SettingsNext, settingsVars, Sync, SyncBegins, SyncFetched, SyncSends, SyncEnds, SyncAborts,
           Creation, CreationBegins, InboxListed, InboxCreated, InboxRepaired, CreationFails,
           Issued, ConfigPatched, WebhookBroken
<1> SUFFICES ASSUME ~raced, ~raced' PROVE RaceInv'
    BY <1>1, Zenon DEF RaceInv
<1>2. /\ Len(inboxes) <= 1
      /\ \A c \in Creators : creation[c].pc = "creating" => inboxes = <<>>
      /\ \A c \in Creators, o \in Creators :
            creation[c].pc # "idle" /\ creation[o].pc # "idle" => c = o
    BY Zenon DEF RaceInv
<1>3. ASSUME NEW c \in Creators, CreationBegins(c) PROVE RaceInv'
    <2>1. inboxes' = inboxes /\ \A o \in Creators \ {c} : creation[o].pc = "idle"
        BY <1>3, Zenon DEF CreationBegins
    <2>2. creation'[c].pc = "listing" /\ \A o \in Creators \ {c} : creation'[o] = creation[o]
        BY <1>3 DEF CreationBegins, SettingsTypes, Creations
    <2> QED BY <1>2, <2>1, <2>2 DEF RaceInv
<1>4. ASSUME NEW c \in Creators, InboxListed(c) PROVE RaceInv'
    <2>1. inboxes' = inboxes /\ creation[c].pc = "listing"
        BY <1>4 DEF InboxListed
    <2>2. /\ creation'[c].pc = "creating" => inboxes = <<>>
          /\ \A o \in Creators \ {c} : creation'[o] = creation[o]
        BY <1>4 DEF InboxListed, Found, SettingsTypes, Creations
    <2> QED BY <1>2, <2>1, <2>2 DEF RaceInv
<1>5. ASSUME NEW c \in Creators, creation[c].pc # "idle", creation' = [creation EXCEPT ![c] = NoCreation],
             Len(inboxes') <= 1
      PROVE RaceInv'
    <2>1. creation'[c].pc = "idle" /\ \A o \in Creators \ {c} : creation'[o] = creation[o]
        BY <1>5 DEF NoCreation, SettingsTypes
    <2> QED BY <1>2, <1>5, <2>1 DEF RaceInv
<1>6. ASSUME NEW c \in Creators, InboxCreated(c) PROVE RaceInv'
    <2>1. inboxes = <<>> /\ inboxes' = Append(inboxes, TRUE)
        BY <1>2, <1>6 DEF InboxCreated
    <2>2. Len(inboxes') <= 1
        BY <2>1
    <2> QED BY <1>5, <1>6, <2>2 DEF InboxCreated, Linked
<1>7. ASSUME NEW c \in Creators, InboxRepaired(c) PROVE RaceInv'
    <2>1. creation[c].inbox \in Nat /\ inboxes \in Seq(BOOLEAN)
        BY DEF SettingsTypes, Creations
    <2>2. Len(inboxes') = Len(inboxes)
        BY <1>7, <2>1, TRUE \in BOOLEAN, WebhookKeeps, Zenon DEF InboxRepaired
    <2> QED BY <1>2, <1>5, <1>7, <2>2 DEF InboxRepaired, Linked
<1>8. ASSUME NEW c \in Creators, CreationFails(c) PROVE RaceInv'
    BY <1>2, <1>5, <1>8 DEF CreationFails
<1>9. CASE WebhookBroken
    <2>1. Len(inboxes') = Len(inboxes) /\ (inboxes = <<>> => inboxes' = <<>>)
        <3>1. PICK i \in DOMAIN inboxes : inboxes' = [inboxes EXCEPT ![i] = FALSE]
            BY <1>9, Zenon DEF WebhookBroken
        <3>2. i \in Nat /\ inboxes \in Seq(BOOLEAN)
            BY DEF SettingsTypes
        <3>3. Len(inboxes') = Len(inboxes)
            BY <3>1, <3>2, FALSE \in BOOLEAN, WebhookKeeps, Zenon
        <3> QED BY <3>2, <3>3
    <2> QED BY <1>2, <1>9, <2>1 DEF WebhookBroken, RaceInv
<1>10. CASE inboxes' = inboxes /\ creation' = creation
    BY <1>2, <1>10 DEF RaceInv
<1> QED BY <1>3, <1>4, <1>6, <1>7, <1>8, <1>9, <1>10
        DEF SettingsNext, settingsVars, Sync, SyncBegins, SyncFetched, SyncSends, SyncEnds,
            SyncAborts, Creation, Issued, ConfigPatched

----------------------------------------------------------------------------
(* The theorems.                                                           *)

LEMMA SettingsInvInit == SettingsAssumption /\ SettingsInit => SettingsInv
BY TypesInit, MarkInit, RepeatInit, RaceInit DEF SettingsInv

LEMMA SettingsInvStep ==
    ASSUME SettingsAssumption, SettingsInv, [SettingsNext]_settingsVars
    PROVE  SettingsInv'
BY TypesStep, MarkStep, RepeatStep, RaceStep DEF SettingsInv

\* What the invariant says of the texts and the inboxes.
LEMMA SettingsInvMeans ==
    ASSUME SettingsInv
    PROVE  NothingPassedOver /\ SmsRepeatsExcused /\ SecondInboxIsRace
<1>1. NothingPassedOver
    BY DEF SettingsInv, MarkInv, Tried, NothingPassedOver
<1>2. SmsRepeatsExcused
    BY DEF SettingsInv, RepeatInv
<1>3. SecondInboxIsRace
    BY DEF SettingsInv, SettingsTypes, RaceInv, SecondInboxIsRace
<1> QED BY <1>1, <1>2, <1>3

LEMMA SettingsInvariant == SettingsAssumption => (SettingsSpec => []SettingsInv)
<1> SUFFICES ASSUME SettingsAssumption PROVE SettingsSpec => []SettingsInv
    OBVIOUS
<1>1. SettingsInit => SettingsInv
    BY SettingsInvInit
<1>2. SettingsInv /\ [SettingsNext]_settingsVars => SettingsInv'
    BY SettingsInvStep
<1> QED BY <1>1, <1>2, PTL DEF SettingsSpec

\* The column is always one a form could have written: no synchronization and no
\* creation, however stale its copy, leaves a mark beyond the texts there are
\* (bale.py, instances.py).
THEOREM SettingsStayTyped == SettingsAssumption => (SettingsSpec => []SettingsTypes)
<1> SUFFICES ASSUME SettingsAssumption PROVE SettingsSpec => []SettingsTypes
    OBVIOUS
<1>1. SettingsInv => SettingsTypes
    BY DEF SettingsInv
<1> QED BY <1>1, SettingsInvariant, PTL

\* The mark never passes a text that no run has dealt with, whichever stale copy
\* of the settings was written last: for any number of texts, and any
\* interleaving of both synchronizations, both creations and the forms
\* (sync_external_sms_messages, create_route_inbox).
THEOREM MarkPassesNothing == SettingsAssumption => (SettingsSpec => []NothingPassedOver)
BY SettingsInvariant, SettingsInvMeans, PTL

\* A text goes to its customer a second time only after a run that sent it was
\* cut short, beside an overlapping run, or when the mark was taken back.
THEOREM RepeatsHaveReason == SettingsAssumption => (SettingsSpec => []SmsRepeatsExcused)
BY SettingsInvariant, SettingsInvMeans, PTL

\* Only overlapping creations make a second inbox for a route, however often its
\* link was lost to a stale copy (create_route_inbox).
THEOREM OneInboxWithoutRace == SettingsAssumption => (SettingsSpec => []SecondInboxIsRace)
BY SettingsInvariant, SettingsInvMeans, PTL

----------------------------------------------------------------------------
(* Documents and groups.                                                   *)

Assets == [kind : {"manual", "catalog", "gone"}, active : BOOLEAN]
Labels == Names \union {NoGroup}

AssetTypes ==
    /\ rows \in Seq(Assets)
    /\ upload \in [Uploads -> [pc : {"idle", "writing"}, kind : {"manual", "catalog"}, old : Nat]]
    /\ deletion \in [pc : {"idle", "file", "row"}, row : Nat]
    /\ deletion.pc # "idle" => deletion.row \in DOMAIN rows
    /\ groups \in Seq(Labels)
    /\ editor \in [Threads -> [pc : {"idle", "checked"}, op : {"create", "rename", "delete", "add"},
                               group : Nat, name : Names \union {"none"}, row : Nat]]

\* What is active has its file; an upload that will take the file of a catalog
\* takes its activity first, if a deletion has not.
FilesInv ==
    /\ \A i \in DOMAIN rows : rows[i].kind = "gone" => ~rows[i].active
    /\ \A i, k \in ActiveCatalogs : i = k
    /\ \A i \in DOMAIN rows : rows[i].active => i \in files \union cut
    /\ \A u \in Uploads : (upload[u].pc = "writing" /\ upload[u].old # 0) =>
          /\ upload[u].kind = "catalog" /\ upload[u].old \in DOMAIN rows
          /\ rows[upload[u].old].kind # "manual"

\* What the threads checked need not hold any more; what they commit does.
GroupsInv ==
    /\ GroupsConsistent
    /\ \A m \in members : m.row \in DOMAIN rows
    /\ \A t \in Threads : (editor[t].pc = "checked" /\ editor[t].op = "add") =>
          editor[t].row \in DOMAIN rows
    /\ \A t \in Threads : (editor[t].pc = "checked" /\ editor[t].op \in {"create", "rename"}) =>
          editor[t].name \in Names

AssetsInv == AssetTypes /\ FilesInv /\ GroupsInv

LEMMA AssetsInvInit == ASSUME AssetsInit PROVE AssetsInv
<1>1. AssetTypes
    BY DEF AssetsInit, AssetTypes, NoUpload, NoDeletion, NoEdit
<1>2. FilesInv
    BY DEF AssetsInit, FilesInv, ActiveCatalogs, NoUpload
<1>3. GroupsInv
    BY DEF AssetsInit, GroupsInv, GroupsConsistent, GroupIds, NoEdit
<1> QED BY <1>1, <1>2, <1>3 DEF AssetsInv

\* A step that touches no group, and keeps the rows that assignments refer to.
LEMMA GroupsStay ==
    ASSUME GroupsInv, UNCHANGED <<groups, editor>>, members' \subseteq members,
           DOMAIN rows \subseteq DOMAIN rows',
           \A m \in members' : rows'[m.row] # Gone
    PROVE  GroupsInv'
<1>1. /\ \A g1, g2 \in GroupIds : groups[g1] = groups[g2] => g1 = g2
      /\ \A m \in members : m.group \in GroupIds
    BY DEF GroupsInv, GroupsConsistent
<1>2. GroupIds' = GroupIds
    BY DEF GroupIds
<1>3. GroupsConsistent'
    BY <1>1, <1>2 DEF GroupsConsistent
<1> QED BY <1>3 DEF GroupsInv

LEMMA UploadBeginsStep ==
    ASSUME AssetsInv, NEW u \in Uploads, UploadBegins(u) PROVE AssetsInv'
<1>0. AssetTypes /\ FilesInv /\ GroupsInv
    BY DEF AssetsInv
<1>1. PICK kind \in {"manual", "catalog"},
           old \in IF ActiveCatalogs = {} THEN {0} ELSE ActiveCatalogs :
           upload' = [upload EXCEPT ![u] = [pc |-> "writing", kind |-> kind,
                          old |-> IF kind = "catalog" THEN old ELSE 0]]
    BY DEF UploadBegins
<1> DEFINE o == IF kind = "catalog" THEN old ELSE 0
           e == [pc |-> "writing", kind |-> kind, old |-> o]
<1>2. upload' = [upload EXCEPT ![u] = e]
    BY <1>1
<1>3. o # 0 => kind = "catalog" /\ o \in ActiveCatalogs
    BY <1>1
<1>4. o \in Nat
    BY <1>0, <1>3 DEF AssetTypes, ActiveCatalogs
<1>5. UNCHANGED <<rows, files, deletion, cut, groups, members, editor>>
    BY DEF UploadBegins, groupVars
<1> HIDE DEF o
<1>6. AssetTypes'
    BY <1>0, <1>2, <1>4, <1>5 DEF AssetTypes, Labels
<1>7. FilesInv'
    <2>1. \A v \in Uploads : upload'[v] = IF v = u THEN e ELSE upload[v]
        BY <1>0, <1>2 DEF AssetTypes
    <2>2. o # 0 => o \in DOMAIN rows /\ rows[o].kind # "manual"
        BY <1>3 DEF ActiveCatalogs
    <2> QED BY <1>0, <1>3, <1>5, <2>1, <2>2 DEF FilesInv, ActiveCatalogs
<1>8. GroupsInv'
    BY <1>0, <1>5, GroupsStay DEF GroupsInv, GroupsConsistent
<1> QED BY <1>6, <1>7, <1>8 DEF AssetsInv

LEMMA UploadCommitsStep ==
    ASSUME AssetsInv, NEW u \in Uploads, UploadCommits(u) PROVE AssetsInv'
<1>0. AssetTypes /\ FilesInv /\ GroupsInv
    BY DEF AssetsInv
<1> DEFINE kind == upload[u].kind
           old == upload[u].old
           L == Len(rows)
           rest == [i \in DOMAIN rows |->
                     IF kind = "catalog" /\ rows[i].kind = "catalog"
                     THEN [rows[i] EXCEPT !.active = FALSE] ELSE rows[i]]
           new == [kind |-> kind, active |-> TRUE]
<1>1. /\ rows' = Append(rest, new) /\ upload[u].pc = "writing"
      /\ upload' = [upload EXCEPT ![u] = NoUpload]
      /\ UNCHANGED <<deletion, cut, groups, members, editor>>
    BY DEF UploadCommits, groupVars
<1>2. PICK gone \in SUBSET ({old} \ {0}) : files' = (files \union {L + 1}) \ gone
    BY DEF UploadCommits
<1>3. rows \in Seq(Assets) /\ DOMAIN rows = 1..L /\ L \in Nat /\ kind \in {"manual", "catalog"}
      /\ \A i \in DOMAIN rows : rows[i] \in Assets
    BY <1>0 DEF AssetTypes
<1>4. \A r \in Assets : LET n == [r EXCEPT !.active = FALSE]
                        IN  n \in Assets /\ n.kind = r.kind /\ n.active = FALSE
    BY DEF Assets
<1>5. \A i \in DOMAIN rows :
          /\ rest[i] \in Assets /\ rest[i].kind = rows[i].kind
          /\ (kind = "catalog" /\ rows[i].kind = "catalog") => ~rest[i].active
          /\ ~(kind = "catalog" /\ rows[i].kind = "catalog") => rest[i] = rows[i]
    BY <1>3, <1>4
<1>6. rest \in Seq(Assets) /\ Len(rest) = L
    <2>1. rest \in [1..L -> Assets]
        BY <1>3, <1>5
    <2> HIDE DEF rest, L
    <2> QED BY <1>3, <2>1
<1>7. new \in Assets /\ new.active = TRUE /\ new.kind = kind
    BY <1>3 DEF Assets
<1> HIDE DEF rest, new, L
<1>8. /\ rows' \in Seq(Assets) /\ DOMAIN rows' = 1..L+1 /\ rows'[L+1] = new
      /\ \A i \in DOMAIN rows : i \in DOMAIN rows' /\ rows'[i] = rest[i]
      /\ \A i \in DOMAIN rows' : i \in DOMAIN rows \/ i = L+1
    BY <1>1, <1>3, <1>6, <1>7
<1> HIDE DEF kind
<1>9. \A i \in DOMAIN rows : rows'[i].active => rows[i].active /\ rows'[i] = rows[i]
                             /\ ~(kind = "catalog" /\ rows[i].kind = "catalog")
    <2> TAKE i \in DOMAIN rows
    <2>1. CASE kind = "catalog" /\ rows[i].kind = "catalog"
        BY <1>5, <1>8, <2>1
    <2>2. CASE ~(kind = "catalog" /\ rows[i].kind = "catalog")
        BY <1>5, <1>8, <2>2
    <2> QED BY <2>1, <2>2
<1>10. \A v \in Uploads : upload'[v] = IF v = u THEN NoUpload ELSE upload[v]
    BY <1>0, <1>1 DEF AssetTypes
<1>11. AssetTypes'
    <2>1. upload' \in [Uploads -> [pc : {"idle", "writing"}, kind : {"manual", "catalog"}, old : Nat]]
        BY <1>0, <1>1 DEF AssetTypes, NoUpload
    <2> QED BY <1>0, <1>1, <1>3, <1>8, <2>1 DEF AssetTypes, Labels
<1>12. FilesInv'
    <2>1. \A i \in DOMAIN rows' : rows'[i].kind = "gone" => ~rows'[i].active
        BY <1>0, <1>3, <1>5, <1>7, <1>8, <1>9 DEF FilesInv
    <2>2. \A i, k \in ActiveCatalogs' : i = k
        <3>1. ASSUME NEW i \in ActiveCatalogs', i # L+1 PROVE i \in ActiveCatalogs /\ kind # "catalog"
            <4>1. i \in DOMAIN rows' /\ rows'[i].kind = "catalog" /\ rows'[i].active
                BY DEF ActiveCatalogs
            <4>2. i \in DOMAIN rows
                BY <1>8, <3>1, <4>1
            <4>3. rows'[i] = rows[i] /\ ~(kind = "catalog" /\ rows[i].kind = "catalog")
                BY <1>9, <4>1, <4>2
            <4> QED BY <4>1, <4>2, <4>3 DEF ActiveCatalogs
        <3>2. L+1 \in ActiveCatalogs' => kind = "catalog"
            BY <1>7, <1>8 DEF ActiveCatalogs
        <3> QED BY <1>0, <3>1, <3>2 DEF FilesInv
    <2>3. ASSUME NEW i \in DOMAIN rows', rows'[i].active PROVE i \in files' \union cut'
        <3>1. CASE i = L+1
            <4>1. L+1 \notin gone
                BY <1>0, <1>1, <1>3 DEF FilesInv
            <4> QED BY <1>2, <3>1, <4>1
        <3>2. CASE i \in DOMAIN rows
            <4>1. rows[i].active /\ ~(kind = "catalog" /\ rows[i].kind = "catalog")
                BY <1>9, <2>3, <3>2
            <4>2. i \in files \union cut
                BY <1>0, <3>2, <4>1 DEF FilesInv
            <4>3. i \notin gone
                <5> SUFFICES ASSUME i = old, old # 0 PROVE FALSE
                    OBVIOUS
                <5>1. kind = "catalog" /\ rows[i].kind # "manual"
                    BY <1>0, <1>1 DEF FilesInv, kind
                <5>2. rows[i].kind # "gone"
                    BY <1>0, <3>2, <4>1 DEF FilesInv
                <5>3. rows[i].kind \in {"manual", "catalog", "gone"}
                    BY <1>3, <3>2 DEF Assets
                <5> QED BY <4>1, <5>1, <5>2, <5>3
            <4> QED BY <1>1, <1>2, <4>2, <4>3
        <3> QED BY <1>8, <3>1, <3>2
    <2>4. ASSUME NEW v \in Uploads, upload'[v].pc = "writing", upload'[v].old # 0
          PROVE  /\ upload'[v].kind = "catalog" /\ upload'[v].old \in DOMAIN rows'
                 /\ rows'[upload'[v].old].kind # "manual"
        <3>1. upload'[v] = upload[v]
            BY <1>10, <2>4 DEF NoUpload
        <3>2. /\ upload[v].kind = "catalog" /\ upload[v].old \in DOMAIN rows
              /\ rows[upload[v].old].kind # "manual"
            BY <1>0, <2>4, <3>1 DEF FilesInv
        <3> QED BY <1>5, <1>8, <3>1, <3>2
    <2> QED BY <2>1, <2>2, <2>3, <2>4 DEF FilesInv
<1>13. GroupsInv'
    <2>1. \A m \in members : m.row \in DOMAIN rows /\ rows[m.row] # Gone
        BY <1>0 DEF GroupsInv, GroupsConsistent
    <2>2. \A i \in DOMAIN rows : rows[i] # Gone => rows'[i] # Gone
        <3> TAKE i \in DOMAIN rows
        <3>1. CASE kind = "catalog" /\ rows[i].kind = "catalog"
            BY <1>5, <1>8, <3>1 DEF Gone
        <3>2. CASE ~(kind = "catalog" /\ rows[i].kind = "catalog")
            BY <1>5, <1>8, <3>2
        <3> QED BY <3>1, <3>2
    <2> QED BY <1>0, <1>1, <1>8, <2>1, <2>2, GroupsStay
<1> QED BY <1>11, <1>12, <1>13 DEF AssetsInv

LEMMA UploadFailsStep ==
    ASSUME AssetsInv, NEW u \in Uploads, UploadFails(u) PROVE AssetsInv'
<1>0. AssetTypes /\ FilesInv /\ GroupsInv
    BY DEF AssetsInv
<1>1. /\ upload' = [upload EXCEPT ![u] = NoUpload]
      /\ UNCHANGED <<rows, files, deletion, cut, groups, members, editor>>
    BY DEF UploadFails, groupVars
<1>2. AssetTypes'
    BY <1>0, <1>1 DEF AssetTypes, NoUpload, Labels
<1>3. FilesInv'
    <2>1. \A v \in Uploads : upload'[v] = IF v = u THEN NoUpload ELSE upload[v]
        BY <1>0, <1>1 DEF AssetTypes
    <2> QED BY <1>0, <1>1, <2>1 DEF FilesInv, ActiveCatalogs, NoUpload
<1>4. GroupsInv'
    BY <1>0, <1>1, GroupsStay DEF GroupsInv, GroupsConsistent
<1> QED BY <1>2, <1>3, <1>4 DEF AssetsInv

\* What begins, ends or fails of a deletion, and takes no row.
LEMMA DeletionMoves ==
    ASSUME AssetsInv, DeletionBegins \/ FileDeleted \/ DeletionFails PROVE AssetsInv'
<1>0. AssetTypes /\ FilesInv /\ GroupsInv
    BY DEF AssetsInv
<1>1. UNCHANGED <<rows, upload, groups, members, editor>>
    BY DEF DeletionBegins, FileDeleted, DeletionFails, groupVars
<1>2. AssetTypes'
    <2>1. CASE DeletionBegins
        <3>1. PICK i \in DOMAIN rows : deletion' = [pc |-> "file", row |-> i]
            BY <2>1 DEF DeletionBegins
        <3>2. i \in Nat
            BY <1>0 DEF AssetTypes
        <3> QED BY <1>0, <1>1, <3>1, <3>2 DEF AssetTypes, Labels
    <2>2. CASE FileDeleted
        BY <1>0, <1>1, <2>2 DEF AssetTypes, FileDeleted, Labels
    <2>3. CASE DeletionFails
        BY <1>0, <1>1, <2>3 DEF AssetTypes, DeletionFails, NoDeletion, Labels
    <2> QED BY <2>1, <2>2, <2>3
<1>3. FilesInv'
    <2>1. \A i \in DOMAIN rows : i \in files \union cut => i \in files' \union cut'
        BY DEF DeletionBegins, FileDeleted, DeletionFails
    <2> QED BY <1>0, <1>1, <2>1 DEF FilesInv, ActiveCatalogs
<1>4. GroupsInv'
    BY <1>0, <1>1, GroupsStay DEF GroupsInv, GroupsConsistent
<1> QED BY <1>2, <1>3, <1>4 DEF AssetsInv

LEMMA RowDeletedStep ==
    ASSUME AssetsInv, RowDeleted PROVE AssetsInv'
<1>0. AssetTypes /\ FilesInv /\ GroupsInv
    BY DEF AssetsInv
<1> DEFINE d == deletion.row
<1>1. /\ rows' = [rows EXCEPT ![d] = Gone]
      /\ members' = {m \in members : m.row # d}
      /\ deletion' = NoDeletion
      /\ UNCHANGED <<files, upload, cut, groups, editor>>
    BY DEF RowDeleted
<1>2. rows \in Seq(Assets) /\ Gone \in Assets
    BY <1>0 DEF AssetTypes, Assets, Gone
<1>3. /\ rows' \in Seq(Assets) /\ DOMAIN rows' = DOMAIN rows
      /\ \A i \in DOMAIN rows : rows'[i] = IF i = d THEN Gone ELSE rows[i]
    <2>1. d \in 1..Len(rows)
        BY <1>0 DEF AssetTypes, RowDeleted
    <2> HIDE DEF d
    <2> QED BY <1>1, <1>2, <2>1, ExceptSeq
<1>4. Gone.kind = "gone" /\ Gone.active = FALSE
    BY DEF Gone
<1> HIDE DEF d
<1>5. AssetTypes'
    BY <1>0, <1>1, <1>3 DEF AssetTypes, NoDeletion, Labels
<1>6. FilesInv'
    BY <1>0, <1>1, <1>3, <1>4 DEF FilesInv, ActiveCatalogs
<1>7. GroupsInv'
    <2>1. \A m \in members' : m \in members /\ m.row # d
        BY <1>1
    <2>2. \A m \in members : m.row \in DOMAIN rows /\ rows[m.row] # Gone
        BY <1>0 DEF GroupsInv, GroupsConsistent
    <2>3. \A m \in members' : rows'[m.row] # Gone
        BY <1>3, <2>1, <2>2
    <2> QED BY <1>0, <1>1, <1>3, <2>1, <2>3, GroupsStay
<1> QED BY <1>5, <1>6, <1>7 DEF AssetsInv

LEMMA EditBeginsStep ==
    ASSUME AssetsInv, NEW t \in Threads, EditBegins(t) PROVE AssetsInv'
<1>0. AssetTypes /\ FilesInv /\ GroupsInv
    BY DEF AssetsInv
<1>1. UNCHANGED <<rows, files, upload, deletion, cut, groups, members>>
    BY DEF EditBegins, fileVars
<1>2. PICK op \in {"create", "rename", "delete", "add"}, g \in GroupIds \union {0},
           name \in Names, i \in DOMAIN rows \union {0} :
          /\ op = "add" <=> i # 0
          /\ editor' = [editor EXCEPT ![t] = [pc |-> "checked", op |-> op, group |-> g,
                                              name |-> name, row |-> i]]
    BY DEF EditBegins
<1> DEFINE e == [pc |-> "checked", op |-> op, group |-> g, name |-> name, row |-> i]
<1>3. g \in Nat /\ i \in Nat
    BY <1>0 DEF AssetTypes, GroupIds
<1>4. e \in [pc : {"idle", "checked"}, op : {"create", "rename", "delete", "add"},
             group : Nat, name : Names \union {"none"}, row : Nat]
    BY <1>3
<1>5. e.op = op /\ e.name = name /\ e.row = i
    OBVIOUS
<1>6. editor' = [editor EXCEPT ![t] = e]
    BY <1>2
<1> HIDE DEF e
<1>7. AssetTypes'
    BY <1>0, <1>1, <1>4, <1>6 DEF AssetTypes, Labels
<1>8. FilesInv'
    BY <1>0, <1>1 DEF FilesInv, ActiveCatalogs
<1>9. GroupsInv'
    <2>1. \A s \in Threads : editor'[s] = IF s = t THEN e ELSE editor[s]
        BY <1>0, <1>6 DEF AssetTypes
    <2>2. GroupsConsistent'
        BY <1>0, <1>1 DEF GroupsInv, GroupsConsistent, GroupIds
    <2> QED BY <1>0, <1>1, <1>2, <1>5, <2>1, <2>2 DEF GroupsInv
<1> QED BY <1>7, <1>8, <1>9 DEF AssetsInv

\* The unique indexes and the foreign keys keep what is committed consistent.
LEMMA EditCommitsStep ==
    ASSUME AssetsAssumption, AssetsInv, NEW t \in Threads, EditCommits(t) PROVE AssetsInv'
<1>0. AssetTypes /\ FilesInv /\ GroupsInv
    BY DEF AssetsInv
<1> DEFINE e == editor[t]
<1>1. /\ UNCHANGED <<rows, files, upload, deletion, cut>>
      /\ editor' = [editor EXCEPT ![t] = NoEdit]
      /\ e.pc = "checked"
    BY DEF EditCommits, fileVars
<1>2. FilesInv'
    BY <1>0, <1>1 DEF FilesInv, ActiveCatalogs
<1>3. /\ editor' \in [Threads -> [pc : {"idle", "checked"}, op : {"create", "rename", "delete", "add"},
                               group : Nat, name : Names \union {"none"}, row : Nat]]
      /\ \A s \in Threads : editor'[s] = IF s = t THEN NoEdit ELSE editor[s]
    BY <1>0, <1>1 DEF AssetTypes, NoEdit
<1>4. /\ groups \in Seq(Labels) /\ DOMAIN groups = 1..Len(groups) /\ Len(groups) \in Nat
      /\ e.op \in {"create", "rename", "delete", "add"}
    BY <1>0 DEF AssetTypes
<1>5. (e.op \in {"create", "rename"}) => e.name \in Names /\ e.name \in Labels /\ e.name # NoGroup
    BY <1>0, <1>1 DEF GroupsInv, AssetsAssumption, Labels, NoGroup
<1>6. e.op = "add" => e.row \in DOMAIN rows
    BY <1>0, <1>1 DEF GroupsInv
<1>7. /\ \A g1, g2 \in GroupIds : groups[g1] = groups[g2] => g1 = g2
      /\ \A m \in members : m.group \in GroupIds /\ m.row \in DOMAIN rows /\ rows[m.row] # Gone
    BY <1>0 DEF GroupsInv, GroupsConsistent
<1>8. SUFFICES
        /\ groups' \in Seq(Labels)
        /\ \A g1, g2 \in GroupIds' : groups'[g1] = groups'[g2] => g1 = g2
        /\ \A m \in members' : m.group \in GroupIds' /\ m.row \in DOMAIN rows /\ rows[m.row] # Gone
    <2>1. AssetTypes'
        BY <1>0, <1>1, <1>3, <1>8 DEF AssetTypes, Labels
    <2>2. GroupsConsistent'
        BY <1>1, <1>8 DEF GroupsConsistent
    <2>3. GroupsInv'
        BY <1>0, <1>1, <1>3, <1>8, <2>2 DEF GroupsInv, NoEdit
    <2> QED BY <1>2, <2>1, <2>3 DEF AssetsInv
<1>9. CASE ~Allowed(e)
    <2>1. groups' = groups /\ members' = members
        BY <1>9 DEF EditCommits
    <2>2. GroupIds' = GroupIds
        BY <2>1 DEF GroupIds
    <2> QED BY <1>4, <1>7, <2>1, <2>2
<1>10. CASE Allowed(e) /\ e.op = "create"
    <2>1. groups' = Append(groups, e.name) /\ members' = members
        BY <1>10 DEF EditCommits
    <2>2. \A g \in GroupIds : groups[g] # e.name
        BY <1>10 DEF Allowed, Named
    <2>3. /\ groups' \in Seq(Labels) /\ DOMAIN groups' = 1..Len(groups)+1
          /\ groups'[Len(groups)+1] = e.name
          /\ \A g \in DOMAIN groups : groups'[g] = groups[g]
        BY <1>4, <1>5, <1>10, <2>1
    <2>4. GroupIds' = GroupIds \union {Len(groups)+1}
        BY <1>4, <1>5, <1>10, <2>3 DEF GroupIds
    <2>5. \A g \in GroupIds : groups'[g] = groups[g]
        BY <2>3 DEF GroupIds
    <2>6. \A g1, g2 \in GroupIds' : groups'[g1] = groups'[g2] => g1 = g2
        BY <1>7, <2>2, <2>3, <2>4, <2>5
    <2> QED BY <1>7, <2>1, <2>3, <2>4, <2>6
<1>11. CASE Allowed(e) /\ e.op = "rename"
    <2>1. groups' = [groups EXCEPT ![e.group] = e.name] /\ members' = members
        BY <1>11 DEF EditCommits
    <2>2. e.group \in GroupIds /\ \A g \in GroupIds : g # e.group => groups[g] # e.name
        BY <1>11 DEF Allowed, Named
    <2>3. e.group \in DOMAIN groups
        BY <2>2 DEF GroupIds
    <2>4. /\ groups' \in Seq(Labels) /\ DOMAIN groups' = DOMAIN groups
          /\ \A g \in DOMAIN groups : groups'[g] = IF g = e.group THEN e.name ELSE groups[g]
        BY <1>4, <1>5, <1>11, <2>1, <2>3
    <2>5. GroupIds' = GroupIds
        BY <1>5, <1>11, <2>2, <2>4 DEF GroupIds
    <2>6. \A g \in GroupIds : groups'[g] = IF g = e.group THEN e.name ELSE groups[g]
        BY <2>4 DEF GroupIds
    <2> QED BY <1>7, <2>1, <2>2, <2>4, <2>5, <2>6
<1>12. CASE Allowed(e) /\ e.op = "delete"
    <2>1. /\ groups' = [groups EXCEPT ![e.group] = NoGroup]
          /\ members' = {m \in members : m.group # e.group}
        BY <1>12 DEF EditCommits
    <2>2. e.group \in GroupIds
        BY <1>12 DEF Allowed
    <2>3. e.group \in DOMAIN groups /\ NoGroup \in Labels
        BY <2>2 DEF GroupIds, Labels
    <2>4. /\ groups' \in Seq(Labels) /\ DOMAIN groups' = DOMAIN groups
          /\ \A g \in DOMAIN groups : groups'[g] = IF g = e.group THEN NoGroup ELSE groups[g]
        BY <1>4, <2>1, <2>3
    <2>5. GroupIds' = GroupIds \ {e.group}
        BY <2>4 DEF GroupIds
    <2>6. \A g \in GroupIds' : groups'[g] = groups[g]
        BY <2>4, <2>5 DEF GroupIds
    <2> QED BY <1>7, <2>1, <2>4, <2>5, <2>6
<1>13. CASE Allowed(e) /\ e.op = "add"
    <2>1. /\ groups' = groups
          /\ members' = members \union {[group |-> e.group, row |-> e.row]}
        BY <1>13 DEF EditCommits
    <2>2. e.group \in GroupIds /\ rows[e.row] # Gone
        BY <1>13 DEF Allowed
    <2>3. GroupIds' = GroupIds
        BY <2>1 DEF GroupIds
    <2> QED BY <1>4, <1>6, <1>7, <1>13, <2>1, <2>2, <2>3
<1> QED BY <1>4, <1>9, <1>10, <1>11, <1>12, <1>13

LEMMA MemberRemovedStep ==
    ASSUME AssetsInv, MemberRemoved PROVE AssetsInv'
<1>0. AssetTypes /\ FilesInv /\ GroupsInv
    BY DEF AssetsInv
<1>1. UNCHANGED <<rows, files, upload, deletion, cut, groups, editor>> /\ members' \subseteq members
    BY DEF MemberRemoved, fileVars
<1>2. AssetTypes' /\ FilesInv'
    BY <1>0, <1>1 DEF AssetTypes, FilesInv, ActiveCatalogs, Labels
<1>3. GroupsInv'
    BY <1>0, <1>1, GroupsStay DEF GroupsInv, GroupsConsistent
<1> QED BY <1>2, <1>3 DEF AssetsInv

LEMMA AssetsInvStep ==
    ASSUME AssetsAssumption, AssetsInv, [AssetsNext]_assetVars PROVE AssetsInv'
<1>1. ASSUME NEW u \in Uploads, UploadBegins(u) \/ UploadCommits(u) \/ UploadFails(u)
      PROVE  AssetsInv'
    BY <1>1, UploadBeginsStep, UploadCommitsStep, UploadFailsStep
<1>2. CASE DeletionBegins \/ FileDeleted \/ DeletionFails
    BY <1>2, DeletionMoves
<1>3. CASE RowDeleted
    BY <1>3, RowDeletedStep
<1>4. ASSUME NEW t \in Threads, EditBegins(t) \/ EditCommits(t)
      PROVE  AssetsInv'
    BY <1>4, EditBeginsStep, EditCommitsStep
<1>5. CASE MemberRemoved
    BY <1>5, MemberRemovedStep
<1>6. CASE UNCHANGED assetVars
    <2>1. UNCHANGED <<rows, files, upload, deletion, cut, groups, members, editor>>
        BY <1>6 DEF assetVars, fileVars, groupVars
    <2> QED BY <2>1 DEF AssetsInv, AssetTypes, Labels, FilesInv, ActiveCatalogs, GroupsInv,
                        GroupsConsistent, GroupIds
<1> QED BY <1>1, <1>2, <1>3, <1>4, <1>5, <1>6 DEF AssetsNext, Documents, ManualGroups

LEMMA AssetsInvMeans == AssetsInv => ActiveIsReadable /\ GroupsConsistent
BY DEF AssetsInv, FilesInv, GroupsInv, ActiveIsReadable

LEMMA AssetsInvariant == AssetsAssumption => (AssetsSpec => []AssetsInv)
<1> SUFFICES ASSUME AssetsAssumption PROVE AssetsSpec => []AssetsInv
    OBVIOUS
<1>1. AssetsInv /\ [AssetsNext]_assetVars => AssetsInv'
    BY AssetsInvStep
<1> QED BY <1>1, AssetsInvInit, PTL DEF AssetsSpec

\* However uploads and deletions interleave, at most one catalog is active and
\* what is active has its file, unless a deletion was cut short (documents.py).
THEOREM OneCatalogWithItsFile == AssetsAssumption => (AssetsSpec => []ActiveIsReadable)
BY AssetsInvariant, AssetsInvMeans, PTL

\* However the changes of two threads interleave, group names stay unique and
\* assignments refer to groups and manuals that exist (manual_groups.py).
THEOREM GroupsStayConsistent == AssetsAssumption => (AssetsSpec => []GroupsConsistent)
BY AssetsInvariant, AssetsInvMeans, PTL

----------------------------------------------------------------------------
(* The live conversations, behind the root menu alone and behind the menus *)
(* of both bots, for any messages, conversations and changes.              *)

Texts == Msgs \ {"resolved"}
SessionRows == [inbox : Nat, conv : Nat, status : Statuses, present : BOOLEAN,
                accepted : BOOLEAN, noticed : BOOLEAN, unread : Nat]
KeptRows == [m : Texts, s : Nat, status : {"pending", "delivered"}, late : BOOLEAN]
Webhooks == [conv : Nat, m : Msgs \union {"resolved"}]
Conversations == [inbox : Nat, status : {"open", "resolved", "missing"}]

\* What a handler knows: its copies of the rows, and what it has handed over.
Fields == {"pc", "s", "stage", "goal", "inbox", "reopen", "mine", "base", "locked", "rows",
           "done", "next", "verified", "closed"}
Copied(hh) ==
    /\ DOMAIN hh = Fields
    /\ DOMAIN hh.mine \subseteq Nat /\ IsFiniteSet(DOMAIN hh.mine)
    /\ \A i \in DOMAIN hh.mine : hh.mine[i] \in SessionRows
    /\ hh.inbox \in Nat

SessTypes ==
    /\ DOMAIN sess \subseteq Nat /\ sess \in [DOMAIN sess -> SessionRows]
    /\ newest \in [DOMAIN sess -> Nat] /\ IsFiniteSet(DOMAIN sess)
LiveTypes ==
    /\ SessTypes
    /\ pend \in Seq(KeptRows) /\ jobs \in Seq(Webhooks) /\ remote \in Seq(Conversations)
    /\ inbox \in 1..2 /\ sent \in [Msgs -> 0..2]
    /\ w.pc # "idle" => w \in [pc : {"noticing", "accepting", "delivering"}, s : DOMAIN sess,
                               m : Texts, base : SessionRows, mine : SessionRows]

\* What a run handles is the first of the webhooks.
RunInv == w.pc # "idle" => jobs # <<>> /\ Head(jobs).m = w.m

\* What the handler is handing over.
Handing(hh) ==
    /\ hh.pc # "draining" => hh.done = {}
    /\ hh.done \subseteq DOMAIN pend
    /\ \A k \in hh.rows : k \in DOMAIN pend /\ pend[k].status = "pending" /\ k \notin hh.done

\* A message is in one place: a webhook, or a row that waits.  In both it is one
\* that was not sent, but for a task that could not commit; a row was sent as well
\* if the handler is about to mark it.
PlaceInv ==
    /\ \A j \in DOMAIN jobs, k \in DOMAIN jobs :
          jobs[j].m = jobs[k].m /\ jobs[j].m # "resolved" => j = k
    /\ \A j \in DOMAIN pend, k \in DOMAIN pend : pend[j].m = pend[k].m => j = k
    /\ \A j \in DOMAIN jobs, k \in DOMAIN pend : jobs[j].m # pend[k].m
SentInv ==
    /\ \A j \in DOMAIN jobs :
          jobs[j].m # "resolved" /\ sent[jobs[j].m] > 0 => jobs[j].m \in undone
    /\ \A k \in DOMAIN pend :
          pend[k].status = "pending" /\ sent[pend[k].m] > 0 =>
             pend[k].m \in undone \/ k \in h.done
    /\ RepeatsAreRetries

\* Of what was resolved when the update was taken, everything still is before the
\* handler reopens it; afterwards, everything else.
Closed(hh, rem) ==
    /\ hh.pc \in {"checking", "toggling", "posting"} => hh.s \in DOMAIN hh.mine
    /\ hh.pc = "toggling" => hh.reopen
    /\ \A c \in hh.closed :
          /\ c \in DOMAIN rem
          /\ hh.pc \in {"creating", "checking", "toggling"} => rem[c].status = "resolved"
          /\ hh.pc = "posting" =>
                /\ rem[c].status # "missing"
                /\ c # hh.mine[hh.s].conv => rem[c].status = "resolved"
                /\ c = hh.mine[hh.s].conv =>
                      hh.verified = "blind" \/ (hh.reopen /\ hh.verified = "reopened")

Steady(hh, rem) == Copied(hh) /\ Handing(hh) /\ Closed(hh, rem)
LiveInv == LiveTypes /\ RunInv /\ PlaceInv /\ SentInv /\ Steady(h, remote)
----------------------------------------------------------------------------
LEMMA SmallestOf ==
    ASSUME NEW S, S \subseteq Nat, S # {}
    PROVE  \E m \in S : \A k \in S : m <= k
<1> DEFINE R == OpToRel(<, Nat)
<1>1. IsWellFoundedOn(R, Nat)
    BY NatLessThanWellFounded
<1>2. \A x, y \in Nat : <<x, y>> \in R <=> x < y
    BY DEF OpToRel
<1> HIDE DEF R
<1>3. PICK m \in S : \A y \in S : ~(<<y, m>> \in R)
    BY <1>1, WFMin
<1>4. \A k \in S : k \in Nat /\ m \in Nat /\ ~(k < m)
    BY <1>2, <1>3
<1>5. \A k \in S : m <= k
    BY <1>4
<1> QED BY <1>5

\* Of sessions with places there is a first one.
LEMMA FirstOfThem ==
    ASSUME NEW S, NEW order, S # {}, \A i \in S : order[i] \in Nat
    PROVE  First(S, order) \in S
<1>1. PICK m \in {order[i] : i \in S} : \A k \in {order[i] : i \in S} : m <= k
    <2>1. {order[i] : i \in S} \subseteq Nat /\ {order[i] : i \in S} # {}
        OBVIOUS
    <2> QED BY <2>1, SmallestOf
<1>2. PICK i \in S : m = order[i]
    BY <1>1
<1>3. \A j \in S : order[i] <= order[j]
    BY <1>1, <1>2
<1> QED BY <1>3 DEF First

LEMMA OrderCounts ==
    ASSUME SessTypes, NEW hh, Copied(hh), LiveAssumption,
           NEW i \in Ids(hh)
    PROVE  Order(hh)[i] \in Nat
<1>1. Cardinality({j \in DOMAIN hh.mine : j > i}) \in Nat
    <2>1. {j \in DOMAIN hh.mine : j > i} \in SUBSET DOMAIN hh.mine
        OBVIOUS
    <2>2. IsFiniteSet({j \in DOMAIN hh.mine : j > i})
        BY <2>1, FS_Subset DEF Copied
    <2> QED BY <2>2, FS_CardinalityType
<1>2. i \in DOMAIN sess => newest[i] \in Nat
    BY DEF SessTypes
<1>3. Order(hh)[i] =
        CASE i \notin DOMAIN sess -> Cardinality({j \in DOMAIN hh.mine : j > i})
          [] i \in DOMAIN sess /\ i \in hh.locked -> MaxConvs + newest[i]
          [] OTHER -> 2 * MaxConvs + newest[i]
    BY DEF Order
<1>4. MaxConvs \in Nat
    BY DEF LiveAssumption
<1> QED BY <1>1, <1>2, <1>3, <1>4

LEMMA PlacesCount ==
    ASSUME NEW order, IsFiniteSet(DOMAIN order)
    PROVE  Places(order) \in [DOMAIN order -> Nat]
<1>1. \A i \in DOMAIN order : Cardinality({j \in DOMAIN order : order[j] <= order[i]}) \in Nat
    <2> TAKE i \in DOMAIN order
    <2>1. {j \in DOMAIN order : order[j] <= order[i]} \in SUBSET DOMAIN order
        OBVIOUS
    <2>2. IsFiniteSet({j \in DOMAIN order : order[j] <= order[i]})
        BY <2>1, FS_Subset
    <2> QED BY <2>2, FS_CardinalityType
<1> QED BY <1>1 DEF Places

----------------------------------------------------------------------------
(* What the steps of a handler leave of what it knows.                     *)

Alike(hh, g) ==
    /\ Copied(g) /\ g.done = hh.done /\ g.closed = hh.closed /\ g.reopen = hh.reopen
    /\ g.goal = hh.goal
Agree(hh, g) == Alike(hh, g) /\ g.next = hh.next /\ g.rows = hh.rows

LEMMA WithTyped ==
    ASSUME NEW copies, DOMAIN copies \subseteq Nat, IsFiniteSet(DOMAIN copies),
           \A k \in DOMAIN copies : copies[k] \in SessionRows,
           NEW i \in Nat, NEW row \in SessionRows
    PROVE  LET c == With(copies, i, row)
           IN /\ DOMAIN c = DOMAIN copies \union {i}
              /\ DOMAIN c \subseteq Nat /\ IsFiniteSet(DOMAIN c)
              /\ \A k \in DOMAIN c : c[k] \in SessionRows
              /\ c[i] = row /\ \A k \in DOMAIN copies \ {i} : c[k] = copies[k]
<1>1. IsFiniteSet(DOMAIN copies \union {i})
    BY FS_AddElement
<1> QED BY <1>1 DEF With

LEMMA Loaded ==
    ASSUME SessTypes, NEW hh, Copied(hh), NEW i \in Ids(hh)
    PROVE  LET g == Load(hh, i)
           IN /\ Agree(hh, g) /\ g.pc = hh.pc /\ g.s = hh.s
              /\ i \in DOMAIN g.mine /\ DOMAIN hh.mine \subseteq DOMAIN g.mine
<1>1. CASE i \in DOMAIN hh.mine
    BY <1>1 DEF Load, Agree, Alike
<1>2. CASE i \notin DOMAIN hh.mine
    <2>1. i \in Nat /\ sess[i] \in SessionRows
        BY <1>2 DEF SessTypes, Ids
    <2> DEFINE c == With(hh.mine, i, sess[i])
               b == With(hh.base, i, sess[i])
               g == [hh EXCEPT !.mine = c, !.base = b]
    <2>2. Load(hh, i) = g
        BY <1>2 DEF Load
    <2>3. /\ DOMAIN c = DOMAIN hh.mine \union {i} /\ DOMAIN c \subseteq Nat
          /\ IsFiniteSet(DOMAIN c) /\ \A k \in DOMAIN c : c[k] \in SessionRows
        BY <2>1, WithTyped DEF Copied
    <2> HIDE DEF c, b
    <2>4. /\ DOMAIN g = Fields /\ g.mine = c
          /\ \A f \in Fields \ {"mine", "base"} : g[f] = hh[f]
        BY DEF Copied, Fields
    <2> HIDE DEF g
    <2> QED BY <2>2, <2>3, <2>4 DEF Copied, Agree, Alike, Fields
<1> QED BY <1>1, <1>2

LEMMA Saved ==
    ASSUME NEW hh, Copied(hh), NEW i \in Nat, NEW row \in SessionRows
    PROVE  LET g == Save(hh, i, row)
           IN /\ Agree(hh, g) /\ g.pc = hh.pc /\ g.s = hh.s /\ g.stage = hh.stage
              /\ g.inbox = hh.inbox
              /\ DOMAIN g.mine = DOMAIN hh.mine \union {i} /\ g.mine[i] = row
<1> DEFINE c == With(hh.mine, i, row)
           l == IF row # hh.base[i] THEN hh.locked \union {i} ELSE hh.locked
           g == [hh EXCEPT !.mine = c, !.locked = l]
<1>1. Save(hh, i, row) = g
    BY DEF Save, Copied, Fields
<1>0. /\ DOMAIN hh.mine \subseteq Nat /\ IsFiniteSet(DOMAIN hh.mine)
      /\ \A k \in DOMAIN hh.mine : hh.mine[k] \in SessionRows
    BY DEF Copied
<1>2. /\ DOMAIN c = DOMAIN hh.mine \union {i} /\ DOMAIN c \subseteq Nat
      /\ IsFiniteSet(DOMAIN c) /\ \A k \in DOMAIN c : c[k] \in SessionRows
    BY <1>0, WithTyped
<1>3. c[i] = row
    BY DEF With
<1> HIDE DEF c, l
<1>4. /\ DOMAIN g = Fields /\ g.mine = c
      /\ \A f \in Fields \ {"mine", "locked"} : g[f] = hh[f]
    BY DEF Copied, Fields
<1> HIDE DEF g
<1> QED BY <1>1, <1>2, <1>3, <1>4 DEF Copied, Agree, Alike, Fields

\* A field that is none of the copies.
LEMMA Set ==
    ASSUME NEW hh, Copied(hh)
    PROVE  /\ \A v : LET g == [hh EXCEPT !.pc = v]
                     IN Agree(hh, g) /\ g.pc = v /\ g.s = hh.s /\ g.mine = hh.mine
                        /\ g.inbox = hh.inbox
           /\ \A v : LET g == [hh EXCEPT !.s = v]
                     IN Agree(hh, g) /\ g.s = v /\ g.pc = hh.pc /\ g.mine = hh.mine
                        /\ g.inbox = hh.inbox
           /\ \A v : LET g == [hh EXCEPT !.stage = v]
                     IN Agree(hh, g) /\ g.pc = hh.pc /\ g.s = hh.s /\ g.mine = hh.mine
                        /\ g.inbox = hh.inbox
BY DEF Copied, Agree, Alike, Fields

LEMMA VerifyMoves ==
    ASSUME NEW hh, Copied(hh), NEW other
    PROVE  \/ Verify(hh, other) = other
           \/ LET g == Verify(hh, other)
              IN Agree(hh, g) /\ g.pc = "checking" /\ g.s = hh.s /\ g.mine = hh.mine
BY Set DEF Verify

\* A conversation is asked about, or one will be created.
Opened(hh, g) ==
    /\ Agree(hh, g) /\ g.pc \in {"creating", "checking"}
    /\ g.pc = "checking" => g.s \in DOMAIN g.mine

LEMMA CreatingMoves ==
    ASSUME NEW hh, Copied(hh)
    PROVE  Agree(hh, Creating(hh)) /\ Creating(hh).pc = "creating"
<1> DEFINE g == [hh EXCEPT !.pc = "creating", !.stage = 2]
<1>1. /\ DOMAIN g = Fields /\ g.pc = "creating"
      /\ \A f \in Fields \ {"pc", "stage"} : g[f] = hh[f]
    BY DEF Copied, Fields
<1>2. Creating(hh) = g
    BY DEF Creating
<1> HIDE DEF g
<1> QED BY <1>1, <1>2 DEF Copied, Agree, Alike, Fields

LEMMA SameChain ==
    ASSUME NEW hh, NEW g, NEW f, Agree(hh, g), Agree(g, f)
    PROVE  Agree(hh, f)
BY DEF Agree, Alike

LEMMA OpenRouteMoves ==
    ASSUME LiveAssumption, SessTypes, NEW hh, Copied(hh)
    PROVE  Opened(hh, OpenRoute(hh))
<1> DEFINE unresolved == {i \in Ids(hh) : StatusOf(hh, i) # "resolved"}
           c == IF unresolved # {} THEN First(unresolved, Order(hh))
                ELSE IF hh.reopen /\ Ids(hh) # {} THEN First(Ids(hh), Order(hh)) ELSE 0
           new == Creating(hh)
           load == Load(hh, c)
           found == [load EXCEPT !.s = c, !.stage = 2]
<1>1. OpenRoute(hh) = IF c = 0 THEN new
                          ELSE IF InboxOf(hh, c) # hh.inbox THEN new
                          ELSE Verify(found, new)
    BY DEF OpenRoute, Reusing, RouteSessionOf
<1>2. Agree(hh, new) /\ new.pc = "creating"
    BY CreatingMoves
<1>3. c # 0 => c \in Ids(hh)
    <2>1. \A i \in Ids(hh) : Order(hh)[i] \in Nat
        BY OrderCounts
    <2>2. unresolved # {} => First(unresolved, Order(hh)) \in unresolved
        <3>1. unresolved \subseteq Ids(hh)
            OBVIOUS
        <3> HIDE DEF unresolved
        <3>2. \A i \in unresolved : Order(hh)[i] \in Nat
            BY <2>1, <3>1
        <3> QED BY <3>2, FirstOfThem
    <2>3. Ids(hh) # {} => First(Ids(hh), Order(hh)) \in Ids(hh)
        BY <2>1, FirstOfThem
    <2> QED BY <2>2, <2>3
<1> HIDE DEF new, c
<1>4. c \in Ids(hh) => Agree(hh, found) /\ found.s \in DOMAIN found.mine
    <2> SUFFICES ASSUME c \in Ids(hh)
                 PROVE  Agree(hh, found) /\ found.s \in DOMAIN found.mine
        OBVIOUS
    <2>1. Agree(hh, load) /\ c \in DOMAIN load.mine
        BY Loaded
    <2> HIDE DEF load
    <2>2. /\ DOMAIN found = Fields /\ found.s = c
          /\ \A f \in Fields \ {"s", "stage"} : found[f] = load[f]
        BY <2>1 DEF Agree, Alike, Copied, Fields
    <2> QED BY <2>1, <2>2 DEF Copied, Agree, Alike, Fields
<1> HIDE DEF found
<1>5. c \in Ids(hh) => Opened(hh, Verify(found, new))
    <2> SUFFICES ASSUME c \in Ids(hh) PROVE Opened(hh, Verify(found, new))
        OBVIOUS
    <2>1. Copied(found)
        BY <1>4 DEF Agree, Alike
    <2> DEFINE g == Verify(found, new)
    <2>2. \/ g = new
          \/ Agree(found, g) /\ g.pc = "checking" /\ g.s = found.s /\ g.mine = found.mine
        BY <2>1, VerifyMoves
    <2> HIDE DEF g
    <2>3. CASE g = new
        BY <1>2, <2>3 DEF Opened, g
    <2>4. CASE Agree(found, g) /\ g.pc = "checking" /\ g.s = found.s /\ g.mine = found.mine
        BY <1>4, <2>4, SameChain DEF Opened, g
    <2> QED BY <2>2, <2>3, <2>4
<1>6. Opened(hh, new)
    BY <1>2 DEF Opened
<1> QED BY <1>1, <1>3, <1>5, <1>6

LEMMA ForwardMoves ==
    ASSUME LiveAssumption, SessTypes, NEW hh, Copied(hh), hh.s \in DOMAIN hh.mine
    PROVE  Opened(hh, Forwardable(hh))
<1> DEFINE g == [hh EXCEPT !.stage = 1]
           other == OpenRoute(hh)
           v == Verify(g, other)
<1>1. Opened(hh, other)
    BY OpenRouteMoves
<1>2. Agree(hh, g) /\ g.s = hh.s /\ g.mine = hh.mine
    BY Set
<1> HIDE DEF g, other
<1>3. v = other \/ (Agree(g, v) /\ v.pc = "checking" /\ v.s = g.s /\ v.mine = g.mine)
    BY <1>2, VerifyMoves DEF Agree, Alike
<1> HIDE DEF v
<1>4. Opened(hh, v)
    <2>1. CASE v = other
        BY <1>1, <2>1
    <2>2. CASE Agree(g, v) /\ v.pc = "checking" /\ v.s = g.s /\ v.mine = g.mine
        BY <1>2, <2>2, SameChain DEF Opened
    <2> QED BY <1>3, <2>1, <2>2
<1> QED BY <1>1, <1>4 DEF Forwardable, v, g, other

\* Setting what a row says.
LEMMA RowSet ==
    ASSUME NEW r \in SessionRows
    PROVE  /\ LET q == [r EXCEPT !.present = TRUE, !.status = "open"]
              IN q \in SessionRows /\ q.conv = r.conv
           /\ LET q == [r EXCEPT !.status = "open", !.present = TRUE]
              IN q \in SessionRows /\ q.conv = r.conv
           /\ LET q == [r EXCEPT !.status = "resolved", !.present = FALSE]
              IN q \in SessionRows /\ q.conv = r.conv
           /\ LET q == [r EXCEPT !.status = "open"]
              IN q \in SessionRows /\ q.conv = r.conv
           /\ LET q == [r EXCEPT !.present = FALSE, !.status = "closed_by_user"]
              IN q \in SessionRows /\ q.conv = r.conv
           /\ LET q == [r EXCEPT !.present = TRUE]
              IN q \in SessionRows /\ q.conv = r.conv
           /\ LET q == [r EXCEPT !.noticed = FALSE, !.unread = 0]
              IN q \in SessionRows /\ q.conv = r.conv
           /\ LET q == [r EXCEPT !.unread = @ + 1]
              IN q \in SessionRows /\ q.conv = r.conv
           /\ \A ok \in BOOLEAN :
                LET q == [r EXCEPT !.noticed = @ \/ ok]
                IN q \in SessionRows /\ q.conv = r.conv
           /\ \A ok \in BOOLEAN :
                LET q == [r EXCEPT !.accepted = @ \/ ok]
                IN q \in SessionRows /\ q.conv = r.conv
<1>1. \A p \in BOOLEAN, q \in Statuses :
          LET x == [r EXCEPT !.present = p, !.status = q]
          IN x \in SessionRows /\ x.conv = r.conv
    BY DEF SessionRows
<1>2. \A p \in BOOLEAN, q \in Statuses :
          LET x == [r EXCEPT !.status = q, !.present = p]
          IN x \in SessionRows /\ x.conv = r.conv
    BY DEF SessionRows
<1>3. \A p \in BOOLEAN, q \in Statuses :
          /\ [r EXCEPT !.status = q] \in SessionRows /\ [r EXCEPT !.status = q].conv = r.conv
          /\ [r EXCEPT !.present = p] \in SessionRows /\ [r EXCEPT !.present = p].conv = r.conv
    BY DEF SessionRows
<1>4. LET q == [r EXCEPT !.noticed = FALSE, !.unread = 0]
      IN q \in SessionRows /\ q.conv = r.conv
    BY DEF SessionRows
<1>5. LET q == [r EXCEPT !.unread = @ + 1]
      IN q \in SessionRows /\ q.conv = r.conv
    <2>1. r.unread + 1 \in Nat
        BY DEF SessionRows
    <2> QED BY <2>1 DEF SessionRows
<1>6. \A b \in BOOLEAN :
          LET q == [r EXCEPT !.noticed = b]
          IN q \in SessionRows /\ q.conv = r.conv
    BY DEF SessionRows
<1>7. \A b \in BOOLEAN :
          LET q == [r EXCEPT !.accepted = b]
          IN q \in SessionRows /\ q.conv = r.conv
    BY DEF SessionRows
<1>8. "open" \in Statuses /\ "resolved" \in Statuses /\ "closed_by_user" \in Statuses
    BY DEF Statuses
<1>9. \A ok \in BOOLEAN : (r.noticed \/ ok) \in BOOLEAN /\ (r.accepted \/ ok) \in BOOLEAN
    BY ZenonT(20)
<1> QED BY <1>1, <1>2, <1>3, <1>4, <1>5, <1>6, <1>7, <1>8, <1>9

\* The conversation is settled: the route is entered, or the text is posted to it.
Settled(hh, g, v) ==
    /\ Alike(hh, g)
    /\ hh.goal = "enter" =>
          /\ g.next = Live /\ g.pc \in {"replying", "accepting"}
          /\ \A k \in g.rows : k \in DOMAIN pend /\ pend[k].status = "pending"
    /\ hh.goal # "enter" =>
          /\ g.next = hh.next /\ g.rows = hh.rows /\ g.pc = "posting" /\ g.verified = v
          /\ g.s \in DOMAIN g.mine /\ g.mine[g.s].conv = hh.mine[hh.s].conv

LEMMA ChosenMoves ==
    ASSUME NEW hh, Copied(hh), hh.s \in DOMAIN hh.mine, NEW v
    PROVE  Settled(hh, Chosen(hh, v), v)
<1> DEFINE i == hh.s
           row == [hh.mine[i] EXCEPT !.present = TRUE, !.status = "open"]
           kept == IF hh.stage = 1 THEN hh ELSE Save(hh, i, row)
           ready == [kept EXCEPT !.verified = v]
           enter == Entering(ready)
           post == [ready EXCEPT !.pc = "posting"]
<1>1. Chosen(hh, v) = IF hh.goal = "enter" THEN enter ELSE post
    BY DEF Chosen
<1>2. i \in Nat /\ hh.mine[i] \in SessionRows
    BY DEF Copied
<1>3. row \in SessionRows /\ row.conv = hh.mine[i].conv
    BY <1>2, RowSet
<1> HIDE DEF row
<1>4. Agree(hh, kept) /\ kept.s = i /\ i \in DOMAIN kept.mine /\ kept.mine[i].conv = hh.mine[i].conv
    <2>1. CASE hh.stage = 1
        BY <2>1 DEF Agree, Alike
    <2>2. CASE hh.stage # 1
        <3> DEFINE g == Save(hh, i, row)
        <3>1. /\ Agree(hh, g) /\ g.s = hh.s /\ DOMAIN g.mine = DOMAIN hh.mine \union {i}
              /\ g.mine[i] = row
            BY <1>2, <1>3, Saved
        <3> HIDE DEF g
        <3>2. Agree(hh, g) /\ g.s = i /\ i \in DOMAIN g.mine /\ g.mine[i].conv = hh.mine[i].conv
            BY <1>3, <3>1
        <3> QED BY <2>2, <3>2 DEF g
    <2> QED BY <2>1, <2>2
<1> HIDE DEF kept
<1>5. Agree(kept, ready) /\ ready.s = i /\ ready.mine = kept.mine /\ ready.verified = v
    <2>1. /\ DOMAIN ready = Fields /\ ready.verified = v
          /\ \A f \in Fields \ {"verified"} : ready[f] = kept[f]
        BY <1>4 DEF Agree, Alike, Copied, Fields
    <2> HIDE DEF ready
    <2> QED BY <1>4, <2>1 DEF Copied, Agree, Alike, Fields
<1> HIDE DEF ready
<1>6. Agree(hh, ready)
    BY <1>4, <1>5, SameChain
<1>7. Settled(hh, post, v) \/ hh.goal = "enter"
    <2>1. /\ DOMAIN post = Fields /\ post.pc = "posting"
          /\ \A f \in Fields \ {"pc"} : post[f] = ready[f]
        BY <1>6 DEF Agree, Alike, Copied, Fields
    <2> HIDE DEF post
    <2>2. Alike(hh, post) /\ post.next = hh.next /\ post.rows = hh.rows
        BY <1>6, <2>1 DEF Copied, Agree, Alike, Fields
    <2>3. /\ post.verified = v /\ post.s = i /\ post.mine = kept.mine
        BY <1>5, <2>1 DEF Fields
    <2> QED BY <1>4, <2>1, <2>2, <2>3 DEF Settled
<1>8. Settled(hh, enter, v) \/ hh.goal # "enter"
    <2> DEFINE kp == {k \in DOMAIN pend : pend[k].s = ready.s /\ pend[k].status = "pending"}
               pc == IF kp = {} THEN "replying" ELSE "accepting"
               e == [ready EXCEPT !.next = Live, !.rows = kp, !.pc = pc]
    <2>1. enter = e
        BY DEF Entering
    <2>2. \A k \in kp : k \in DOMAIN pend /\ pend[k].status = "pending"
        OBVIOUS
    <2>3. pc \in {"replying", "accepting"}
        OBVIOUS
    <2> HIDE DEF enter, kp, pc
    <2>4. /\ DOMAIN e = Fields /\ e.pc = pc /\ e.rows = kp /\ e.next = Live
          /\ \A f \in Fields \ {"pc", "rows", "next"} : e[f] = ready[f]
        BY <1>6 DEF Agree, Alike, Copied, Fields
    <2> HIDE DEF e
    <2>5. Alike(hh, e)
        BY <1>6, <2>4 DEF Copied, Agree, Alike, Fields
    <2> QED BY <2>1, <2>2, <2>3, <2>4, <2>5 DEF Settled
<1> HIDE DEF enter, post
<1> QED BY <1>1, <1>7, <1>8

----------------------------------------------------------------------------
(* The sessions after a commit.                                            *)

LEMMA MergeTyped ==
    ASSUME NEW row \in SessionRows, NEW base, NEW mine \in SessionRows
    PROVE  Merge(row, base, mine) \in SessionRows
<1> DEFINE F == {"inbox", "conv", "status", "present", "accepted", "noticed", "unread"}
           q == Merge(row, base, mine)
<1>1. q = [f \in F |-> IF mine[f] # base[f] THEN mine[f] ELSE row[f]]
    BY DEF Merge, SessionRows
<1>2. \A f \in F : q[f] = mine[f] \/ q[f] = row[f]
    BY <1>1
<1>3. /\ q.inbox \in Nat /\ q.conv \in Nat /\ q.status \in Statuses /\ q.unread \in Nat
    BY <1>2 DEF SessionRows
<1>4. q.present \in BOOLEAN
    BY <1>2 DEF SessionRows
<1>5. q.accepted \in BOOLEAN
    BY <1>2 DEF SessionRows
<1>6. q.noticed \in BOOLEAN
    BY <1>2 DEF SessionRows
<1>7. q = [inbox |-> q.inbox, conv |-> q.conv, status |-> q.status, present |-> q.present,
           accepted |-> q.accepted, noticed |-> q.noticed, unread |-> q.unread]
    BY <1>1
<1> HIDE DEF q
<1>8. q \in SessionRows
    BY <1>3, <1>4, <1>5, <1>6, <1>7 DEF SessionRows
<1> QED BY <1>8 DEF q

\* What a commit leaves of the sessions.
LEMMA WritesKeep ==
    ASSUME LiveAssumption, SessTypes, NEW hh, Copied(hh), WritesSessions(hh)
    PROVE  SessTypes' /\ DOMAIN sess \subseteq DOMAIN sess'
<1> DEFINE dirty == {i \in DOMAIN hh.mine : hh.mine[i] # hh.base[i]}
           f == [hh EXCEPT !.locked = dirty]
           order == Order(f)
<1>1. /\ sess' = [i \in Ids(hh) |->
             IF i \notin DOMAIN hh.mine THEN sess[i]
             ELSE IF i \notin DOMAIN sess THEN hh.mine[i]
             ELSE Merge(sess[i], hh.base[i], hh.mine[i])]
      /\ newest' = Places(order)
    BY DEF WritesSessions
<1>3. DOMAIN sess \subseteq Ids(hh) /\ DOMAIN hh.mine \subseteq Ids(hh)
      /\ Ids(hh) = DOMAIN sess \union DOMAIN hh.mine
    BY DEF Ids
<1>4. DOMAIN sess' = Ids(hh) /\ Ids(hh) \subseteq Nat /\ IsFiniteSet(Ids(hh))
    BY <1>1, <1>3, FS_Union DEF SessTypes, Copied
<1>5. \A i \in Ids(hh) : sess'[i] \in SessionRows
    BY <1>1, <1>3, MergeTyped DEF SessTypes, Copied
<1>6. newest' \in [Ids(hh) -> Nat]
    <2>1. /\ DOMAIN f = Fields /\ f.mine = hh.mine /\ f.inbox = hh.inbox
        BY DEF Copied, Fields
    <2>2. Ids(f) = Ids(hh)
        BY <2>1 DEF Ids
    <2>3. DOMAIN order = Ids(hh)
        BY <2>2 DEF Order
    <2> HIDE DEF order
    <2> QED BY <1>1, <1>4, <2>3, PlacesCount
<1>7. SessTypes'
    <2>1. sess' \in [DOMAIN sess' -> SessionRows]
        BY <1>1, <1>4, <1>5
    <2> QED BY <1>4, <1>6, <2>1 DEF SessTypes
<1> QED BY <1>1, <1>3, <1>7

\* The handler comes to an await: where it commits, it keeps no copies.
LEMMA Proceeded ==
    ASSUME LiveAssumption, SessTypes, NEW g, NEW rem, Steady(g, rem), Proceeds(g)
    PROVE  /\ Steady(h', rem) /\ h'.next = g.next
           /\ SessTypes' /\ DOMAIN sess \subseteq DOMAIN sess'
<1>1. CASE g.pc = "creating"
    <2> DEFINE f == [g EXCEPT !.mine = <<>>, !.base = <<>>, !.locked = {}]
    <2>1. WritesSessions(g) /\ h' = f
        BY <1>1 DEF Proceeds
    <2>2. DOMAIN << >> = {}
        OBVIOUS
    <2>3. Copied(g) /\ Handing(g) /\ Closed(g, rem)
        BY DEF Steady
    <2>4. /\ DOMAIN f = Fields /\ DOMAIN f.mine = {}
          /\ \A x \in Fields \ {"mine", "base", "locked"} : f[x] = g[x]
        BY <2>2, <2>3 DEF Copied, Fields
    <2> HIDE DEF f
    <2>5. /\ f.pc = g.pc /\ f.next = g.next /\ f.done = g.done /\ f.rows = g.rows
          /\ f.closed = g.closed /\ f.inbox = g.inbox
        BY <2>4 DEF Fields
    <2>6. Copied(f)
        BY <2>3, <2>4, <2>5, FS_EmptySet DEF Copied
    <2>7. Handing(f) /\ Closed(f, rem)
        BY <1>1, <2>3, <2>5 DEF Handing, Closed
    <2>8. SessTypes' /\ DOMAIN sess \subseteq DOMAIN sess'
        BY <2>1, <2>3, WritesKeep
    <2> QED BY <2>1, <2>5, <2>6, <2>7, <2>8 DEF Steady
<1>2. CASE g.pc # "creating"
    <2>1. h' = g /\ UNCHANGED <<sess, newest>>
        BY <1>2 DEF Proceeds
    <2> QED BY <2>1 DEF SessTypes
<1> QED BY <1>1, <1>2

----------------------------------------------------------------------------
(* The steps of the handler, up to its commit.                             *)

LEMMA OpenedSteady ==
    ASSUME NEW hh, NEW g, NEW rem, Opened(hh, g), Handing(hh), hh.done = {},
           \A c \in hh.closed : c \in DOMAIN rem /\ rem[c].status = "resolved"
    PROVE  Steady(g, rem) /\ g.next = hh.next
BY DEF Steady, Opened, Agree, Alike, Handing, Closed

LEMMA SettledSteady ==
    ASSUME NEW hh, NEW g, NEW rem, NEW v, Settled(hh, g, v), Handing(hh), hh.done = {},
           \A c \in hh.closed :
              /\ c \in DOMAIN rem /\ rem[c].status # "missing"
              /\ c # hh.mine[hh.s].conv => rem[c].status = "resolved"
              /\ c = hh.mine[hh.s].conv => v = "blind" \/ (hh.reopen /\ v = "reopened")
    PROVE  Steady(g, rem) /\ g.next \in {hh.next, Live}
<1>1. CASE hh.goal = "enter"
    BY <1>1 DEF Settled, Steady, Alike, Handing, Closed
<1>2. CASE hh.goal # "enter"
    BY <1>2 DEF Settled, Steady, Alike, Handing, Closed
<1> QED BY <1>1, <1>2

LEMMA Begun ==
    ASSUME inbox \in 1..2, NEW goal, NEW next
    PROVE  LET b == Begin(goal, next)
           IN /\ Copied(b) /\ Handing(b) /\ b.done = {} /\ b.next = next /\ b.goal = goal
              /\ DOMAIN b.mine = {}
              /\ \A c \in b.closed : c \in DOMAIN remote /\ remote[c].status = "resolved"
<1> DEFINE b == Begin(goal, next)
<1>1. /\ DOMAIN b = Fields /\ b.mine = <<>> /\ b.inbox = inbox /\ b.rows = {} /\ b.done = {}
      /\ b.pc = "idle" /\ b.next = next /\ b.goal = goal
      /\ b.closed = {c \in DOMAIN remote : remote[c].status = "resolved"}
    BY DEF Begin, NoHandler, Fields
<1>2. DOMAIN << >> = {}
    OBVIOUS
<1>3. DOMAIN b.mine = {} /\ inbox \in Nat
    BY <1>1, <1>2
<1> HIDE DEF b
<1>4. Copied(b)
    BY <1>1, <1>3, FS_EmptySet DEF Copied
<1>5. Handing(b)
    BY <1>1 DEF Handing
<1> QED BY <1>1, <1>3, <1>4, <1>5 DEF b

LEMMA EnterSteady ==
    ASSUME LiveAssumption, LiveTypes, EnterRoute
    PROVE  /\ Steady(h', remote) /\ h'.next = ustate
           /\ SessTypes' /\ DOMAIN sess \subseteq DOMAIN sess'
<1> DEFINE b == Begin("enter", ustate)
<1>1. /\ Copied(b) /\ Handing(b) /\ b.done = {} /\ b.next = ustate
      /\ \A c \in b.closed : c \in DOMAIN remote /\ remote[c].status = "resolved"
    BY Begun DEF LiveTypes
<1>2. PICK g : g = OpenRoute(b) /\ Proceeds(g)
    BY DEF EnterRoute
<1> HIDE DEF b
<1>3. Opened(b, g)
    BY <1>1, <1>2, OpenRouteMoves DEF LiveTypes
<1>4. Steady(g, remote) /\ g.next = ustate
    BY <1>1, <1>3, OpenedSteady
<1> QED BY <1>2, <1>4, Proceeded DEF LiveTypes

LEMMA ActiveIsThere ==
    ASSUME SessTypes, ActiveSession # 0
    PROVE  ActiveSession \in DOMAIN sess /\ ustate = Live
<1> DEFINE unresolved == {i \in DOMAIN sess : sess[i].status # "resolved"}
           S == IF unresolved # {} THEN unresolved ELSE DOMAIN sess
<1>1. ustate = Live /\ DOMAIN sess # {} /\ ActiveSession = First(S, newest)
    BY DEF ActiveSession
<1>2. S # {} /\ S \subseteq DOMAIN sess
    BY <1>1
<1> HIDE DEF S
<1>3. \A i \in S : newest[i] \in Nat
    BY <1>2 DEF SessTypes
<1> QED BY <1>1, <1>2, <1>3, FirstOfThem

LEMMA UpdateSteady ==
    ASSUME LiveAssumption, LiveTypes, NEW text, NEW root, LiveUpdate(text, root)
    PROVE  /\ Steady(h', remote) /\ h'.next \in {ustate, root} /\ ustate = Live
           /\ SessTypes' /\ DOMAIN sess \subseteq DOMAIN sess'
<1> DEFINE b == Begin("forward", ustate)
           i == ActiveSession
           mine == Load(b, i)
           at == [mine EXCEPT !.s = i]
           row == [sess[i] EXCEPT !.present = TRUE]
           here == IF sess[i].present THEN at ELSE Save(at, i, row)
           gone == [here.mine[here.s] EXCEPT !.present = FALSE, !.status = "closed_by_user"]
           left == [here EXCEPT !.pc = "replying", !.next = root, !.mine[here.s] = gone]
           stay == [here EXCEPT !.pc = "replying"]
<1>1. /\ Copied(b) /\ Handing(b) /\ b.done = {} /\ b.next = ustate
      /\ \A c \in b.closed : c \in DOMAIN remote /\ remote[c].status = "resolved"
    BY Begun DEF LiveTypes
<1>2. i \in DOMAIN sess /\ ustate = Live
    BY ActiveIsThere DEF LiveTypes, LiveUpdate
<1>3. PICK g :
          /\ Proceeds(g)
          /\ \/ text = "back" /\ g = left
             \/ text = "label" /\ g = stay
             \/ text \notin {"back", "label"} /\ g = Forwardable(here)
    BY DEF LiveUpdate, Heard, Leaving, Refusing
<1> HIDE DEF b, i
<1>4. Agree(b, mine) /\ i \in DOMAIN mine.mine
    BY <1>1, <1>2, Loaded DEF LiveTypes, Ids
<1> HIDE DEF mine
<1>5. Agree(b, at) /\ at.s = i /\ i \in DOMAIN at.mine
    <2>1. Copied(mine)
        BY <1>4 DEF Agree, Alike
    <2>2. Agree(mine, at) /\ at.s = i /\ at.mine = mine.mine
        BY <2>1, Set
    <2> QED BY <1>4, <2>2, SameChain
<1> HIDE DEF at
<1>6. Agree(b, here) /\ here.s = i /\ i \in DOMAIN here.mine
    <2>1. CASE sess[i].present
        BY <1>5, <2>1
    <2>2. CASE ~sess[i].present
        <3>1. sess[i] \in SessionRows /\ i \in Nat
            BY <1>2 DEF LiveTypes, SessTypes
        <3>2. row \in SessionRows
            BY <3>1, RowSet
        <3> HIDE DEF row
        <3> DEFINE q == Save(at, i, row)
        <3>3. Agree(at, q) /\ q.s = at.s /\ DOMAIN q.mine = DOMAIN at.mine \union {i}
            BY <1>5, <3>1, <3>2, Saved DEF Agree, Alike
        <3> HIDE DEF q
        <3>4. Agree(b, q) /\ q.s = i /\ i \in DOMAIN q.mine
            BY <1>5, <3>3, SameChain
        <3> QED BY <2>2, <3>4 DEF q
    <2> QED BY <2>1, <2>2
<1> HIDE DEF here
<1>7. /\ Handing(here) /\ here.done = {} /\ here.pc = here.pc /\ Copied(here) /\ here.next = ustate
      /\ here.closed = b.closed
    BY <1>1, <1>6 DEF Agree, Alike, Handing
<1> SUFFICES Steady(g, remote) /\ g.next \in {ustate, root}
    BY <1>2, <1>3, Proceeded DEF LiveTypes
<1>8. CASE text = "back"
    <2>1. gone \in SessionRows
        BY <1>6, RowSet DEF Agree, Alike, Copied
    <2> HIDE DEF gone
    <2> DEFINE c == [here.mine EXCEPT ![here.s] = gone]
    <2>2. DOMAIN c = DOMAIN here.mine /\ \A k \in DOMAIN c : c[k] \in SessionRows
        BY <1>7, <2>1 DEF Copied
    <2>3. left = [here EXCEPT !.pc = "replying", !.next = root, !.mine = c]
        BY DEF Copied, Fields
    <2> HIDE DEF c, left
    <2>4. /\ DOMAIN left = Fields /\ left.mine = c /\ left.pc = "replying" /\ left.next = root
          /\ \A f \in Fields \ {"pc", "next", "mine"} : left[f] = here[f]
        BY <1>7, <2>3 DEF Copied, Fields
    <2>5. /\ left.done = {} /\ left.rows = here.rows /\ left.closed = b.closed
          /\ left.inbox = here.inbox
        BY <1>7, <2>4 DEF Fields
    <2>6. Copied(left)
        BY <1>7, <2>2, <2>4, <2>5 DEF Copied
    <2>7. Steady(left, remote)
        BY <1>1, <1>7, <2>4, <2>5, <2>6 DEF Steady, Handing, Closed
    <2> QED BY <1>2, <1>3, <1>8, <2>4, <2>7
<1>9. CASE text = "label"
    <2>1. Agree(here, stay) /\ stay.pc = "replying"
        BY <1>7, Set
    <2> HIDE DEF stay
    <2>2. Steady(stay, remote)
        BY <1>1, <1>7, <2>1 DEF Steady, Agree, Alike, Handing, Closed
    <2>3. g = stay
        BY <1>3, <1>9
    <2> QED BY <1>2, <1>7, <2>1, <2>2, <2>3 DEF Agree
<1>10. CASE text \notin {"back", "label"}
    <2>1. Opened(here, Forwardable(here))
        BY <1>6, <1>7, ForwardMoves DEF LiveTypes
    <2>2. g = Forwardable(here)
        BY <1>3, <1>10
    <2> QED BY <1>1, <1>2, <1>7, <2>1, <2>2, OpenedSteady
<1> QED BY <1>8, <1>9, <1>10

\* A conversation changes its status.
LEMMA SetConversation ==
    ASSUME remote \in Seq(Conversations), NEW c, NEW v \in {"open", "resolved", "missing"},
           remote' = [remote EXCEPT ![c].status = v]
    PROVE  /\ remote' \in Seq(Conversations) /\ DOMAIN remote' = DOMAIN remote
           /\ \A k \in DOMAIN remote : k # c => remote'[k] = remote[k]
           /\ \A k \in DOMAIN remote : k = c => remote'[k].status = v
<1>1. \A r \in Conversations : LET q == [r EXCEPT !.status = v]
                               IN q \in Conversations /\ q.status = v
    BY DEF Conversations
<1>2. \A k \in DOMAIN remote : remote[k] \in Conversations
    OBVIOUS
<1>3. DOMAIN remote = 1..Len(remote) /\ Len(remote) \in Nat
    OBVIOUS
<1>4. /\ DOMAIN remote' = DOMAIN remote
      /\ \A k \in DOMAIN remote : k # c => remote'[k] = remote[k]
      /\ \A k \in DOMAIN remote : k = c => remote'[k] = [remote[k] EXCEPT !.status = v]
    BY <1>3
<1>5. \A k \in DOMAIN remote' : remote'[k] \in Conversations
    BY <1>1, <1>2, <1>4
<1>6. remote' \in [1..Len(remote) -> Conversations]
    BY <1>3, <1>4, <1>5
<1>7. remote' \in Seq(Conversations)
    BY <1>3, <1>6
<1> QED BY <1>1, <1>2, <1>4, <1>7

LEMMA AnswerSteady ==
    ASSUME LiveAssumption, LiveTypes, Steady(h, remote), StatusAnswered
    PROVE  /\ Steady(h', remote) /\ h'.next \in {h.next, Live}
           /\ SessTypes' /\ DOMAIN sess \subseteq DOMAIN sess'
<1> DEFINE i == h.s
           mine == h.mine[i]
           status == remote[mine.conv].status
           gone == [mine EXCEPT !.status = "resolved", !.present = FALSE]
           open == [mine EXCEPT !.status = "open"]
           stale == Save(h, i, gone)
           back == Save(h, i, open)
<1>1. /\ Copied(h) /\ Handing(h) /\ h.done = {} /\ i \in DOMAIN h.mine /\ i \in Nat
      /\ mine \in SessionRows
      /\ \A c \in h.closed : c \in DOMAIN remote /\ remote[c].status = "resolved"
    BY DEF StatusAnswered, Steady, Closed, Handing, Copied
<1>2. /\ gone \in SessionRows /\ open \in SessionRows /\ open.conv = mine.conv
    BY <1>1, RowSet
<1> HIDE DEF gone, open
<1>3. /\ Agree(h, stale) /\ stale.s = i
      /\ Agree(h, back) /\ back.s = i /\ i \in DOMAIN back.mine /\ back.mine[i] = open
    BY <1>1, <1>2, Saved
<1> HIDE DEF stale, back
<1>4. PICK g :
         /\ Proceeds(g)
         /\ \/ /\ mine.status # "resolved"
               /\ g = Chosen(h, "blind")
            \/ /\ status = "open"
               /\ g = Chosen(IF mine.status # "resolved" THEN h ELSE back, "open")
            \/ /\ status = "resolved" /\ h.reopen
               /\ g = [h EXCEPT !.pc = "toggling"]
            \/ /\ g = IF h.stage = 1 THEN OpenRoute(stale) ELSE Creating(stale)
    BY DEF StatusAnswered, stale, back, gone, open
<1> SUFFICES Steady(g, remote) /\ g.next \in {h.next, Live}
    BY <1>4, Proceeded DEF LiveTypes
<1>5. CASE g = Chosen(h, "blind")
    <2>1. Settled(h, g, "blind")
        BY <1>1, <1>5, ChosenMoves
    <2> QED BY <1>1, <2>1, SettledSteady
<1>6. CASE status = "open" /\ g = Chosen(IF mine.status # "resolved" THEN h ELSE back, "open")
    <2> DEFINE f == IF mine.status # "resolved" THEN h ELSE back
    <2>1. Agree(h, f) /\ f.s = i /\ i \in DOMAIN f.mine /\ f.mine[i].conv = mine.conv
        BY <1>1, <1>2, <1>3 DEF Agree, Alike
    <2> HIDE DEF f
    <2>2. /\ Copied(f) /\ Handing(f) /\ f.done = {} /\ f.next = h.next
          /\ f.closed = h.closed
        <3>1. f.done = {} /\ f.rows = h.rows
            BY <1>1, <2>1 DEF Agree, Alike
        <3> QED BY <1>1, <2>1, <3>1 DEF Agree, Alike, Handing
    <2>3. Settled(f, g, "open")
        BY <1>6, <2>1, <2>2, ChosenMoves DEF f
    <2>4. \A c \in f.closed : c # mine.conv
        BY <1>1, <1>6, <2>2
    <2> QED BY <1>1, <2>1, <2>2, <2>3, <2>4, SettledSteady
<1>7. CASE h.reopen /\ g = [h EXCEPT !.pc = "toggling"]
    <2>1. Agree(h, g) /\ g.pc = "toggling" /\ g.s = i /\ g.mine = h.mine
        BY <1>1, <1>7, Set
    <2> QED BY <1>1, <1>7, <2>1 DEF Steady, Agree, Alike, Handing, Closed
<1>8. CASE g = IF h.stage = 1 THEN OpenRoute(stale) ELSE Creating(stale)
    <2>1. Copied(stale) /\ Handing(stale) /\ stale.done = {} /\ stale.closed = h.closed
          /\ stale.next = h.next
        <3>1. stale.done = {} /\ stale.rows = h.rows
            BY <1>1, <1>3 DEF Agree, Alike
        <3> QED BY <1>1, <1>3, <3>1 DEF Agree, Alike, Handing
    <2>2. Opened(stale, OpenRoute(stale))
        BY <2>1, OpenRouteMoves DEF LiveTypes
    <2>3. Opened(stale, Creating(stale))
        BY <2>1, CreatingMoves DEF Opened
    <2>4. Opened(stale, g)
        BY <1>8, <2>2, <2>3
    <2> QED BY <1>1, <2>1, <2>4, OpenedSteady
<1> QED BY <1>4, <1>5, <1>6, <1>7, <1>8

LEMMA ReopenSteady ==
    ASSUME LiveAssumption, LiveTypes, Steady(h, remote), Reopened
    PROVE  /\ Steady(h', remote') /\ h'.next \in {h.next, Live}
           /\ remote' \in Seq(Conversations)
<1> DEFINE i == h.s
           mine == h.mine[i]
           open == [mine EXCEPT !.status = "open", !.present = TRUE]
           back == Save(h, i, open)
<1>1. /\ Copied(h) /\ Handing(h) /\ h.done = {} /\ i \in DOMAIN h.mine /\ i \in Nat
      /\ mine \in SessionRows /\ h.reopen
      /\ \A c \in h.closed : c \in DOMAIN remote /\ remote[c].status = "resolved"
    BY DEF Reopened, Steady, Closed, Handing, Copied
<1>2. open \in SessionRows /\ open.conv = mine.conv
    BY <1>1, RowSet
<1> HIDE DEF open
<1>3. Agree(h, back) /\ back.s = i /\ i \in DOMAIN back.mine /\ back.mine[i] = open
    BY <1>1, <1>2, Saved
<1>4. h' = Chosen(back, "reopened")
    BY DEF Reopened, back, open
<1>5. remote' = [remote EXCEPT ![mine.conv].status = "open"]
    BY DEF Reopened
<1> HIDE DEF back
<1>6. Copied(back) /\ Handing(back) /\ back.done = {} /\ back.next = h.next
      /\ back.closed = h.closed /\ back.reopen = h.reopen
    <2>1. back.done = {} /\ back.rows = h.rows
        BY <1>1, <1>3 DEF Agree, Alike
    <2> QED BY <1>1, <1>3, <2>1 DEF Agree, Alike, Handing
<1>7. Settled(back, h', "reopened")
    BY <1>3, <1>4, <1>6, ChosenMoves
<1>8. /\ remote' \in Seq(Conversations) /\ DOMAIN remote' = DOMAIN remote
      /\ \A c \in DOMAIN remote : c # mine.conv => remote'[c] = remote[c]
      /\ \A c \in DOMAIN remote : c = mine.conv => remote'[c].status = "open"
    BY <1>5, SetConversation DEF LiveTypes
<1>a. back.mine[back.s].conv = mine.conv
    BY <1>2, <1>3
<1> HIDE DEF mine, i
<1>9. \A c \in back.closed :
          /\ c \in DOMAIN remote' /\ remote'[c].status # "missing"
          /\ c # back.mine[back.s].conv => remote'[c].status = "resolved"
    BY <1>a, <1>1, <1>2, <1>3, <1>6, <1>8
<1> QED BY <1>1, <1>6, <1>7, <1>8, <1>9, SettledSteady

LEMMA CreateSteady ==
    ASSUME LiveAssumption, LiveTypes, Steady(h, remote), Created
    PROVE  /\ Steady(h', remote') /\ h'.next \in {h.next, Live}
           /\ remote' \in Seq(Conversations)
<1> DEFINE i == Cardinality(Ids(h)) + 1
           c == Len(remote) + 1
           row == [inbox |-> h.inbox, conv |-> c, status |-> "open", present |-> TRUE,
                   accepted |-> FALSE, noticed |-> FALSE, unread |-> 0]
           m == With(h.mine, i, row)
           b == With(h.base, i, row)
           made == [h EXCEPT !.s = i, !.mine = m, !.base = b]
<1>1. /\ Copied(h) /\ Handing(h) /\ h.done = {}
      /\ \A k \in h.closed : k \in DOMAIN remote /\ remote[k].status = "resolved"
    BY DEF Created, Steady, Closed, Handing
<1>2. h' = Chosen(made, "fresh")
    BY DEF Created
<1>3. remote' = Append(remote, [inbox |-> h.inbox, status |-> "open"])
    BY DEF Created
<1>4. i \in Nat
    <2>1. IsFiniteSet(Ids(h))
        BY <1>1, FS_Union DEF LiveTypes, SessTypes, Copied, Ids
    <2> QED BY <2>1, FS_CardinalityType
<1>5. c \in Nat /\ c \notin DOMAIN remote /\ h.inbox \in Nat
    BY <1>1 DEF LiveTypes, Copied
<1>6. row \in SessionRows /\ row.conv = c
    BY <1>5 DEF SessionRows, Statuses
<1> HIDE DEF i, row
<1>7. /\ DOMAIN m = DOMAIN h.mine \union {i} /\ DOMAIN m \subseteq Nat
      /\ IsFiniteSet(DOMAIN m) /\ \A k \in DOMAIN m : m[k] \in SessionRows
    BY <1>1, <1>4, <1>6, WithTyped DEF Copied
<1>8. m[i] = row
    BY DEF With
<1> HIDE DEF m, b
<1>9. /\ DOMAIN made = Fields /\ made.mine = m /\ made.s = i
      /\ \A f \in Fields \ {"s", "mine", "base"} : made[f] = h[f]
    BY <1>1 DEF Copied, Fields
<1> HIDE DEF made
<1>10. /\ Copied(made) /\ Handing(made) /\ made.done = {} /\ made.next = h.next
       /\ made.closed = h.closed /\ made.s \in DOMAIN made.mine
       /\ made.mine[made.s].conv = c
    <2>1. made.done = {} /\ made.rows = h.rows /\ made.inbox = h.inbox /\ made.next = h.next
          /\ made.closed = h.closed /\ made.pc = h.pc
        BY <1>1, <1>9 DEF Fields
    <2> HIDE DEF c
    <2> QED BY <1>1, <1>6, <1>7, <1>8, <1>9, <2>1 DEF Copied, Handing
<1>11. Settled(made, h', "fresh")
    BY <1>2, <1>10, ChosenMoves
<1>12. /\ remote' \in Seq(Conversations) /\ DOMAIN remote \subseteq DOMAIN remote'
       /\ \A k \in DOMAIN remote : remote'[k] = remote[k]
    <2>1. [inbox |-> h.inbox, status |-> "open"] \in Conversations
        BY <1>5 DEF Conversations
    <2> QED BY <1>3, <2>1 DEF LiveTypes
<1>13. \A k \in made.closed : k \in DOMAIN remote' /\ remote'[k].status = "resolved" /\ k # c
    BY <1>1, <1>5, <1>10, <1>12
<1> HIDE DEF c
<1> QED BY <1>10, <1>11, <1>12, <1>13, SettledSteady

LEMMA NowhereSteady ==
    ASSUME LiveAssumption, LiveTypes, Steady(h, remote), PostedNowhere
    PROVE  /\ Steady(h', remote) /\ h'.next = h.next
           /\ SessTypes' /\ DOMAIN sess \subseteq DOMAIN sess'
<1> DEFINE i == h.s
           mine == h.mine[i]
           row == [mine EXCEPT !.status = "resolved", !.present = FALSE]
           gone == Save(h, i, row)
           again == [gone EXCEPT !.goal = "repost"]
<1>1. /\ Copied(h) /\ Handing(h) /\ h.done = {} /\ i \in DOMAIN h.mine /\ i \in Nat
      /\ mine \in SessionRows
      /\ \A c \in h.closed : c \in DOMAIN remote /\ remote[c].status = "resolved"
    BY DEF PostedNowhere, Steady, Closed, Handing, Copied
<1>2. PICK g : g = OpenRoute(again) /\ Proceeds(g)
    BY DEF PostedNowhere
<1>3. row \in SessionRows
    BY <1>1, RowSet
<1> HIDE DEF row
<1>4. Agree(h, gone)
    BY <1>1, <1>3, Saved
<1> HIDE DEF gone
<1>5. /\ DOMAIN again = Fields
      /\ \A f \in Fields \ {"goal"} : again[f] = gone[f]
    BY <1>4 DEF Agree, Alike, Copied, Fields
<1> HIDE DEF again
<1>6. /\ Copied(again) /\ Handing(again) /\ again.done = {} /\ again.closed = h.closed
      /\ again.next = h.next
    <2>1. /\ again.done = {} /\ again.rows = h.rows /\ again.closed = h.closed
          /\ again.next = h.next
        BY <1>1, <1>4, <1>5 DEF Agree, Alike, Fields
    <2>2. Copied(again)
        BY <1>4, <1>5 DEF Agree, Alike, Copied, Fields
    <2> QED BY <1>1, <2>1, <2>2 DEF Handing
<1>7. Opened(again, g)
    BY <1>2, <1>6, OpenRouteMoves DEF LiveTypes
<1>8. Steady(g, remote) /\ g.next = h.next
    BY <1>1, <1>6, <1>7, OpenedSteady
<1> QED BY <1>2, <1>8, Proceeded DEF LiveTypes

LEMMA HandoverSteady ==
    ASSUME LiveTypes, Steady(h, remote), HandoverBegins
    PROVE  Steady(h', remote) /\ h'.next = h.next
<1>1. Copied(h) /\ Handing(h) /\ h.done = {}
    BY DEF HandoverBegins, Steady, Handing
<1>2. PICK ok \in BOOLEAN :
          h' = [h EXCEPT !.pc = "draining", !.mine[h.s].accepted = @ \/ ok]
    BY DEF HandoverBegins
<1> DEFINE row == [h.mine[h.s] EXCEPT !.accepted = @ \/ ok]
           c == [h.mine EXCEPT ![h.s] = row]
<1>3. h' = [h EXCEPT !.pc = "draining", !.mine = c]
    BY <1>1, <1>2 DEF Copied, Fields
<1>4. DOMAIN c = DOMAIN h.mine /\ \A k \in DOMAIN c : c[k] \in SessionRows
    <2>1. h.s \in DOMAIN h.mine => row \in SessionRows
        BY <1>1, RowSet DEF Copied
    <2> HIDE DEF row
    <2> QED BY <1>1, <2>1 DEF Copied
<1> HIDE DEF c
<1>5. /\ DOMAIN h' = Fields /\ h'.mine = c /\ h'.pc = "draining"
      /\ \A f \in Fields \ {"pc", "mine"} : h'[f] = h[f]
    BY <1>1, <1>3 DEF Copied, Fields
<1>6. /\ h'.done = {} /\ h'.rows = h.rows /\ h'.closed = h.closed /\ h'.next = h.next
      /\ h'.inbox = h.inbox
    BY <1>1, <1>5 DEF Fields
<1>7. Copied(h')
    BY <1>1, <1>4, <1>5, <1>6 DEF Copied
<1> QED BY <1>1, <1>5, <1>6, <1>7 DEF Steady, Handing, Closed

LEMMA HandedSteady ==
    ASSUME LiveTypes, Steady(h, remote), HandedOver
    PROVE  /\ Steady(h', remote) /\ h'.next = h.next
           /\ \E k \in DOMAIN pend :
                /\ k \notin h.done /\ pend[k].status = "pending"
                /\ h'.done = h.done \union {k}
                /\ sent' = SentOnceMore(pend[k].m)
<1>1. Copied(h) /\ Handing(h) /\ h.pc = "draining" /\ h.rows # {}
    BY DEF HandedOver, Steady
<1> DEFINE k == CHOOSE i \in h.rows : \A j \in h.rows : i <= j
<1>2. /\ sent' = SentOnceMore(pend[k].m)
      /\ h' = [h EXCEPT !.rows = @ \ {k}, !.done = @ \union {k}]
    BY DEF HandedOver
<1>3. k \in h.rows
    <2>1. h.rows \subseteq Nat
        BY <1>1 DEF Handing, LiveTypes
    <2> QED BY <1>1, <2>1, SmallestOf
<1> HIDE DEF k
<1>4. /\ DOMAIN h' = Fields /\ h'.done = h.done \union {k} /\ h'.rows = h.rows \ {k}
      /\ \A f \in Fields \ {"rows", "done"} : h'[f] = h[f]
    BY <1>1, <1>2 DEF Copied, Fields
<1>5. /\ h'.pc = "draining" /\ h'.closed = h.closed /\ h'.next = h.next
      /\ h'.inbox = h.inbox /\ h'.mine = h.mine
    BY <1>1, <1>4 DEF Fields
<1>6. Copied(h') /\ Handing(h')
    BY <1>1, <1>3, <1>4, <1>5 DEF Copied, Handing
<1>7. Closed(h', remote)
    BY <1>1, <1>5 DEF Steady, Closed
<1> QED BY <1>1, <1>2, <1>3, <1>4, <1>5, <1>6, <1>7 DEF Steady, Handing

----------------------------------------------------------------------------
(* The rows after a commit.                                                *)

LEMMA IdleSteady ==
    ASSUME NEW rem
    PROVE  /\ Copied(NoHandler) /\ Closed(NoHandler, rem) /\ Handing(NoHandler)
           /\ NoHandler.pc = "idle" /\ NoHandler.done = {} /\ NoHandler.rows = {}
<1> DEFINE b == NoHandler
<1>1. /\ DOMAIN b = Fields /\ b.mine = <<>> /\ b.inbox = 0 /\ b.rows = {} /\ b.done = {}
      /\ b.pc = "idle" /\ b.closed = {}
    BY DEF NoHandler, Fields
<1>2. DOMAIN << >> = {}
    OBVIOUS
<1>3. DOMAIN b.mine = {} /\ b.inbox \in Nat
    BY <1>1, <1>2
<1> HIDE DEF b
<1> QED BY <1>1, <1>3, FS_EmptySet DEF Copied, Closed, Handing, b

LEMMA CommitKeeps ==
    ASSUME LiveAssumption, LiveTypes, NEW hh, Copied(hh), Committed(hh)
    PROVE  /\ SessTypes' /\ DOMAIN sess \subseteq DOMAIN sess'
           /\ pend' \in Seq(KeptRows) /\ DOMAIN pend' = DOMAIN pend
           /\ \A k \in DOMAIN pend :
                /\ pend'[k].m = pend[k].m
                /\ pend'[k].status = "pending" => pend[k].status = "pending" /\ k \notin hh.done
           /\ h' = NoHandler /\ ustate' = hh.next
<1>1. /\ ustate' = hh.next /\ h' = NoHandler
      /\ pend' = [k \in DOMAIN pend |->
             IF k \in hh.done THEN [pend[k] EXCEPT !.status = "delivered"]
             ELSE pend[k]]
    BY DEF Committed
<1>2. SessTypes /\ pend \in Seq(KeptRows)
    BY DEF LiveTypes
<1>3. SessTypes' /\ DOMAIN sess \subseteq DOMAIN sess'
    BY <1>2, WritesKeep DEF Committed
<1>8. \A k \in DOMAIN pend :
         /\ pend'[k] \in KeptRows /\ pend'[k].m = pend[k].m
         /\ pend'[k].status = "pending" => pend[k].status = "pending" /\ k \notin hh.done
    <2> TAKE k \in DOMAIN pend
    <2>1. pend[k] \in KeptRows
        BY <1>2
    <2>2. CASE k \in hh.done
        <3>1. pend'[k] = [pend[k] EXCEPT !.status = "delivered"]
            BY <1>1, <2>2
        <3> QED BY <2>1, <3>1 DEF KeptRows
    <2>3. CASE k \notin hh.done
        BY <1>1, <2>1, <2>3
    <2> QED BY <2>2, <2>3
<1>9. pend' \in Seq(KeptRows) /\ DOMAIN pend' = DOMAIN pend
    <2>1. DOMAIN pend = 1..Len(pend) /\ Len(pend) \in Nat
        BY <1>2
    <2>2. DOMAIN pend' = 1..Len(pend) /\ pend' \in [1..Len(pend) -> KeptRows]
        BY <1>1, <1>8, <2>1
    <2> QED BY <2>1, <2>2
<1> QED BY <1>1, <1>3, <1>8, <1>9

LEMMA RunKeeps ==
    ASSUME LiveTypes, NEW i \in DOMAIN sess, NEW base, NEW mine \in SessionRows,
           RunCommits(i, base, mine)
    PROVE  SessTypes' /\ DOMAIN sess' = DOMAIN sess /\ jobs' = Tail(jobs) /\ w' = NoRun
<1>0. SessTypes
    BY DEF LiveTypes
<1>1. /\ sess' = [sess EXCEPT ![i] = Merge(sess[i], base, mine)]
      /\ newest' = IF mine = base THEN newest ELSE Places([newest EXCEPT ![i] = 0])
      /\ jobs' = Tail(jobs) /\ w' = NoRun
    BY DEF RunCommits, RunEnds
<1>2. Merge(sess[i], base, mine) \in SessionRows
    BY <1>0, MergeTyped DEF SessTypes
<1>3. sess' \in [DOMAIN sess -> SessionRows] /\ DOMAIN sess' = DOMAIN sess
    BY <1>0, <1>1, <1>2 DEF SessTypes
<1>4. newest' \in [DOMAIN sess -> Nat]
    <2> DEFINE order == [newest EXCEPT ![i] = 0]
    <2>1. DOMAIN order = DOMAIN sess
        BY <1>0 DEF SessTypes
    <2> HIDE DEF order
    <2>2. Places(order) \in [DOMAIN sess -> Nat]
        BY <1>0, <2>1, PlacesCount DEF SessTypes
    <2> QED BY <1>0, <1>1, <2>2 DEF SessTypes, order
<1> QED BY <1>0, <1>1, <1>3, <1>4 DEF SessTypes

----------------------------------------------------------------------------
(* Messages and webhooks move.                                             *)

\* A queue that holds some of the webhooks, each at most once.
Queued(q) ==
    /\ q \in Seq(Webhooks)
    /\ \E p : /\ \A k \in DOMAIN q : p[k] \in DOMAIN jobs /\ q[k] = jobs[p[k]]
              /\ \A j \in DOMAIN q, k \in DOMAIN q : p[j] = p[k] => j = k

LEMMA TailKept ==
    ASSUME jobs \in Seq(Webhooks), jobs # <<>>
    PROVE  /\ Queued(Tail(jobs))
           /\ \A k \in DOMAIN Tail(jobs) : k + 1 \in DOMAIN jobs /\ k + 1 # 1
                                           /\ Tail(jobs)[k] = jobs[k + 1]
<1> DEFINE q == Tail(jobs)
           n == Len(jobs)
           p == [k \in 1..n |-> k + 1]
<1>1. n \in Nat /\ n > 0 /\ DOMAIN jobs = 1..n
    BY EmptySeq, LenProperties
<1>2. q \in Seq(Webhooks) /\ DOMAIN q = 1..(n - 1) /\ \A k \in 1..(n - 1) : q[k] = jobs[k + 1]
    BY <1>1
<1> HIDE DEF q, n
<1>3. \A k \in 1..(n - 1) : p[k] = k + 1 /\ k + 1 \in 1..n /\ k + 1 # 1
    BY <1>1
<1> HIDE DEF p
<1>4. /\ \A j, k \in 1..(n - 1) : p[j] = p[k] => j = k
      /\ \A k \in 1..(n - 1) : p[k] \in 1..n /\ q[k] = jobs[p[k]]
    BY <1>2, <1>3
<1>5. Queued(q)
    <2>1. /\ q \in Seq(Webhooks) /\ DOMAIN q = 1..(n - 1) /\ DOMAIN jobs = 1..n
          /\ \A k \in DOMAIN q : p[k] \in DOMAIN jobs /\ q[k] = jobs[p[k]]
          /\ \A j \in DOMAIN q, k \in DOMAIN q : p[j] = p[k] => j = k
        BY <1>1, <1>2, <1>4
    <2> QED BY <2>1 DEF Queued
<1> QED BY <1>1, <1>2, <1>3, <1>5 DEF q

LEMMA RequeueKept ==
    ASSUME jobs \in Seq(Webhooks), jobs # <<>>
    PROVE  Queued(Requeued)
<1> DEFINE q == Append(Tail(jobs), Head(jobs))
           n == Len(jobs)
           p == [k \in 1..n |-> IF k = n THEN 1 ELSE k + 1]
<1>1. n \in Nat /\ n > 0 /\ DOMAIN jobs = 1..n /\ \A k \in 1..n : jobs[k] \in Webhooks
    BY EmptySeq, LenProperties
<1>2. /\ Head(jobs) = jobs[1] /\ jobs[1] \in Webhooks
      /\ Tail(jobs) \in Seq(Webhooks) /\ Len(Tail(jobs)) = n - 1
      /\ \A k \in 1..(n - 1) : Tail(jobs)[k] = jobs[k + 1]
    BY <1>1
<1> HIDE DEF n
<1>3. /\ q \in Seq(Webhooks) /\ DOMAIN q = 1..n
      /\ \A k \in 1..n : q[k] = IF k = n THEN jobs[1] ELSE jobs[k + 1]
    BY <1>1, <1>2
<1>4. Requeued = q
    BY DEF Requeued
<1> HIDE DEF q
<1>5. \A k \in 1..n : p[k] = IF k = n THEN 1 ELSE k + 1
    OBVIOUS
<1> HIDE DEF p
<1>6. \A k \in 1..n : p[k] \in 1..n /\ q[k] = jobs[p[k]]
    BY <1>1, <1>3, <1>5
<1>7. \A j, k \in 1..n : p[j] = p[k] => j = k
    BY <1>1, <1>5
<1> QED BY <1>1, <1>3, <1>4, <1>6, <1>7 DEF Queued

\* Such a queue and the same rows keep every message in its place.
LEMMA QueueKeeps ==
    ASSUME PlaceInv, SentInv, NEW q, Queued(q)
    PROVE  /\ \A j \in DOMAIN q, k \in DOMAIN q : q[j].m = q[k].m /\ q[j].m # "resolved" => j = k
           /\ \A j \in DOMAIN q, k \in DOMAIN pend : q[j].m # pend[k].m
           /\ \A j \in DOMAIN q :
                q[j].m # "resolved" /\ sent[q[j].m] > 0 => q[j].m \in undone
<1>1. PICK p : /\ \A k \in DOMAIN q : p[k] \in DOMAIN jobs /\ q[k] = jobs[p[k]]
               /\ \A j \in DOMAIN q, k \in DOMAIN q : p[j] = p[k] => j = k
    BY DEF Queued
<1>2. \A j \in DOMAIN q, k \in DOMAIN q : q[j].m = q[k].m /\ q[j].m # "resolved" => j = k
    BY <1>1 DEF PlaceInv
<1>3. \A j \in DOMAIN q, k \in DOMAIN pend : q[j].m # pend[k].m
    BY <1>1 DEF PlaceInv
<1>4. \A j \in DOMAIN q : q[j].m # "resolved" /\ sent[q[j].m] > 0 => q[j].m \in undone
    BY <1>1 DEF SentInv
<1> QED BY <1>2, <1>3, <1>4

LEMMA OnceMore ==
    ASSUME sent \in [Msgs -> 0..2], NEW m \in Msgs
    PROVE  /\ SentOnceMore(m) \in [Msgs -> 0..2]
           /\ \A n \in Msgs : n # m => SentOnceMore(m)[n] = sent[n]
           /\ SentOnceMore(m)[m] > 1 => sent[m] > 0
<1>1. sent[m] \in 0..2
    OBVIOUS
<1>2. SentOnceMore(m) = [sent EXCEPT ![m] = IF sent[m] = 2 THEN 2 ELSE sent[m] + 1]
    BY DEF SentOnceMore
<1> QED BY <1>1, <1>2

\* A handler that moves between its rows.
LEMMA MovedSteps ==
    ASSUME LiveInv, h.done = {}, Steady(h', remote'), remote' \in Seq(Conversations),
           SessTypes', DOMAIN sess \subseteq DOMAIN sess',
           UNCHANGED <<pend, inbox, jobs, w, sent, undone>>
    PROVE  LiveInv'
<1>1. LiveTypes' /\ RunInv'
    BY DEF LiveInv, LiveTypes, RunInv
<1>2. PlaceInv'
    BY DEF LiveInv, PlaceInv
<1>3. SentInv'
    BY DEF LiveInv, SentInv, RepeatsAreRetries
<1>4. Steady(h, remote)'
    BY DEF Steady, Copied, Handing, Closed
<1> QED BY <1>1, <1>2, <1>3, <1>4 DEF LiveInv

\* A handler that commits.
LEMMA CommitSteps ==
    ASSUME LiveAssumption, LiveInv, NEW hh, Copied(hh), hh.done = h.done,
           Committed(hh), remote' \in Seq(Conversations),
           UNCHANGED <<inbox, jobs, w, sent, undone>>
    PROVE  LiveInv' /\ ustate' = hh.next /\ h'.pc = "idle"
<1>0. LiveTypes /\ RunInv /\ PlaceInv /\ SentInv
    BY DEF LiveInv
<1>1. /\ SessTypes' /\ DOMAIN sess \subseteq DOMAIN sess'
      /\ pend' \in Seq(KeptRows) /\ DOMAIN pend' = DOMAIN pend
      /\ \A k \in DOMAIN pend :
           /\ pend'[k].m = pend[k].m
           /\ pend'[k].status = "pending" => pend[k].status = "pending" /\ k \notin hh.done
      /\ h' = NoHandler /\ ustate' = hh.next
    BY <1>0, CommitKeeps
<1>2. LiveTypes'
    BY <1>0, <1>1 DEF LiveTypes
<1>3. RunInv'
    BY <1>0 DEF RunInv
<1>4. PlaceInv'
    BY <1>0, <1>1 DEF PlaceInv
<1>5. /\ Copied(NoHandler) /\ Closed(NoHandler, remote')
      /\ NoHandler.pc = "idle" /\ NoHandler.done = {} /\ NoHandler.rows = {}
    BY IdleSteady
<1>6. SentInv'
    <2>1. \A k \in DOMAIN pend' :
             pend'[k].status = "pending" /\ sent'[pend'[k].m] > 0 => pend'[k].m \in undone'
        BY <1>0, <1>1 DEF SentInv
    <2> QED BY <1>0, <1>1, <1>5, <2>1 DEF SentInv, RepeatsAreRetries
<1>7. Steady(h, remote)'
    BY <1>1, <1>5 DEF Steady, Copied, Closed, Handing
<1> QED BY <1>1, <1>2, <1>3, <1>4, <1>5, <1>6, <1>7 DEF LiveInv

----------------------------------------------------------------------------
(* The webhooks.                                                           *)

\* A run that ends without a new row: its webhook is done with, or waits again.
LEMMA RunSteps ==
    ASSUME LiveAssumption, LiveInv, jobs # <<>>, w' = NoRun,
           jobs' \in {Tail(jobs), Requeued},
           SessTypes', DOMAIN sess' = DOMAIN sess,
           UNCHANGED <<pend, inbox, remote, h, sent, undone>>
    PROVE  LiveInv'
<1>0. LiveTypes /\ PlaceInv /\ SentInv /\ Steady(h, remote)
    BY DEF LiveInv
<1>1. Queued(jobs')
    BY <1>0, TailKept, RequeueKept DEF LiveTypes
<1>2. PICK q : q = jobs'
    OBVIOUS
<1>3. /\ \A j \in DOMAIN q, k \in DOMAIN q : q[j].m = q[k].m /\ q[j].m # "resolved" => j = k
      /\ \A j \in DOMAIN q, k \in DOMAIN pend : q[j].m # pend[k].m
      /\ \A j \in DOMAIN q :
           q[j].m # "resolved" /\ sent[q[j].m] > 0 => q[j].m \in undone
    BY <1>0, <1>1, <1>2, QueueKeeps
<1>4. w'.pc = "idle"
    BY DEF NoRun
<1>5. LiveTypes' /\ RunInv'
    BY <1>0, <1>1, <1>4 DEF LiveTypes, RunInv, Queued
<1>6. PlaceInv' /\ SentInv'
    BY <1>0, <1>2, <1>3 DEF PlaceInv, SentInv, RepeatsAreRetries
<1>7. Steady(h, remote)'
    BY <1>0 DEF Steady, Copied, Handing, Closed
<1> QED BY <1>5, <1>6, <1>7 DEF LiveInv

LEMMA IgnoredStep ==
    ASSUME LiveAssumption, LiveInv, WebhookIgnored
    PROVE  LiveInv'
<1>1. /\ jobs # <<>> /\ jobs' = Tail(jobs) /\ w' = NoRun
      /\ UNCHANGED <<sess, newest, pend, inbox, remote, h, sent, undone>>
    BY DEF WebhookIgnored, RunEnds, rowVars, agentVars, seenVars
<1>2. SessTypes' /\ DOMAIN sess' = DOMAIN sess
    BY <1>1 DEF LiveInv, LiveTypes, SessTypes
<1> QED BY <1>1, <1>2, RunSteps

LEMMA ResolvesStep ==
    ASSUME LiveAssumption, LiveInv, WebhookResolves
    PROVE  LiveInv'
<1>1. /\ jobs # <<>>
      /\ UNCHANGED <<pend, inbox, remote, h, sent, undone>>
    BY DEF WebhookResolves, agentVars, seenVars
<1>2. PICK i \in SessionOf(Head(jobs).conv) :
          LET mine == [sess[i] EXCEPT !.status = "resolved", !.present = FALSE]
          IN IF Blocked(i, sess[i], mine)
             THEN RunEnds(Requeued) /\ UNCHANGED <<sess, newest>>
             ELSE RunCommits(i, sess[i], mine)
    BY DEF WebhookResolves
<1> DEFINE mine == [sess[i] EXCEPT !.status = "resolved", !.present = FALSE]
<1>3. /\ i \in DOMAIN sess /\ sess[i] \in SessionRows /\ LiveTypes
    BY DEF SessionOf, LiveInv, LiveTypes, SessTypes
<1>4. mine \in SessionRows
    BY <1>3, RowSet
<1>5. CASE Blocked(i, sess[i], mine)
    <2>1. jobs' = Requeued /\ w' = NoRun /\ UNCHANGED <<sess, newest>>
        BY <1>2, <1>5 DEF RunEnds
    <2>2. SessTypes' /\ DOMAIN sess' = DOMAIN sess
        BY <1>3, <2>1 DEF LiveTypes, SessTypes
    <2> QED BY <1>1, <2>1, <2>2, RunSteps
<1>6. CASE ~Blocked(i, sess[i], mine)
    <2>1. RunCommits(i, sess[i], mine)
        BY <1>2, <1>6
    <2> HIDE DEF mine
    <2>2. SessTypes' /\ DOMAIN sess' = DOMAIN sess /\ jobs' = Tail(jobs) /\ w' = NoRun
        BY <1>3, <1>4, <2>1, RunKeeps
    <2> QED BY <1>1, <2>2, RunSteps
<1> QED BY <1>5, <1>6

LEMMA TakenStep ==
    ASSUME LiveInv, WebhookTaken
    PROVE  LiveInv'
<1>0. LiveTypes /\ RunInv /\ PlaceInv /\ SentInv /\ Steady(h, remote)
    BY DEF LiveInv
<1>1. /\ jobs # <<>> /\ Head(jobs).m # "resolved"
      /\ UNCHANGED <<sess, newest, pend, inbox, remote, jobs, h, sent, undone>>
    BY DEF WebhookTaken, StatusEvent, rowVars, agentVars, seenVars
<1>2. PICK i \in SessionOf(Head(jobs).conv) :
          w' = [pc |-> IF sess[i].present THEN "accepting" ELSE "noticing",
                s |-> i, m |-> Head(jobs).m, base |-> sess[i],
                mine |-> IF sess[i].present THEN sess[i]
                         ELSE [sess[i] EXCEPT !.unread = @ + 1]]
    BY DEF WebhookTaken
<1>3. /\ i \in DOMAIN sess /\ sess[i] \in SessionRows
    BY <1>0 DEF SessionOf, LiveTypes, SessTypes
<1>4. [sess[i] EXCEPT !.unread = @ + 1] \in SessionRows
    BY <1>3, RowSet
<1>5. Head(jobs) \in Webhooks
    BY <1>0, <1>1, EmptySeq DEF LiveTypes
<1>6. Head(jobs).m \in Texts
    BY <1>1, <1>5 DEF Webhooks, Texts
<1> DEFINE mine == IF sess[i].present THEN sess[i] ELSE [sess[i] EXCEPT !.unread = @ + 1]
<1>7. mine \in SessionRows
    BY <1>3, <1>4
<1> HIDE DEF mine
<1>8. /\ w' \in [pc : {"noticing", "accepting", "delivering"}, s : DOMAIN sess,
                 m : Texts, base : SessionRows, mine : SessionRows]
      /\ w'.m = Head(jobs).m
    BY <1>2, <1>3, <1>6, <1>7 DEF mine
<1>9. LiveTypes' /\ RunInv'
    BY <1>0, <1>1, <1>8 DEF LiveTypes, SessTypes, RunInv
<1>10. PlaceInv' /\ SentInv' /\ Steady(h, remote)'
    BY <1>0, <1>1 DEF PlaceInv, SentInv, RepeatsAreRetries, Steady, Copied, Handing, Closed
<1> QED BY <1>9, <1>10 DEF LiveInv

LEMMA AcceptedStep ==
    ASSUME LiveInv, Accepted
    PROVE  LiveInv'
<1>0. LiveTypes /\ RunInv /\ PlaceInv /\ SentInv /\ Steady(h, remote)
    BY DEF LiveInv
<1>1. /\ w.pc = "accepting"
      /\ UNCHANGED <<sess, newest, pend, inbox, remote, jobs, h, sent, undone>>
    BY DEF Accepted, rowVars, agentVars, seenVars
<1>2. PICK ok \in BOOLEAN : w' = [w EXCEPT !.pc = "delivering", !.mine.accepted = @ \/ ok]
    BY DEF Accepted
<1>3. w \in [pc : {"noticing", "accepting", "delivering"}, s : DOMAIN sess,
             m : Texts, base : SessionRows, mine : SessionRows]
    BY <1>0, <1>1 DEF LiveTypes
<1> DEFINE row == [w.mine EXCEPT !.accepted = @ \/ ok]
<1>4. row \in SessionRows
    BY <1>3, RowSet
<1>5. w' = [w EXCEPT !.pc = "delivering", !.mine = row]
    BY <1>2, <1>3
<1> HIDE DEF row
<1>6. /\ w' \in [pc : {"noticing", "accepting", "delivering"}, s : DOMAIN sess,
                 m : Texts, base : SessionRows, mine : SessionRows]
      /\ w'.m = w.m
    BY <1>3, <1>4, <1>5
<1>7. LiveTypes' /\ RunInv'
    BY <1>0, <1>1, <1>6 DEF LiveTypes, SessTypes, RunInv
<1>8. PlaceInv' /\ SentInv' /\ Steady(h, remote)'
    BY <1>0, <1>1 DEF PlaceInv, SentInv, RepeatsAreRetries, Steady, Copied, Handing, Closed
<1> QED BY <1>7, <1>8 DEF LiveInv

\* The rows that wait already: at most their history changes.
LEMMA BelatedRows ==
    ASSUME pend \in Seq(KeptRows), NEW i
    PROVE  /\ Belated(i) \in Seq(KeptRows) /\ Len(Belated(i)) = Len(pend)
           /\ \A k \in DOMAIN pend :
                /\ Belated(i)[k].m = pend[k].m /\ Belated(i)[k].status = pend[k].status
                /\ Belated(i)[k].s = pend[k].s
                /\ Belated(i)[k].late <=> pend[k].late \/ (pend[k].s = i /\ Abandoned(i))
<1> DEFINE q == Belated(i)
<1>1. DOMAIN pend = 1..Len(pend) /\ Len(pend) \in Nat /\ \A k \in DOMAIN pend : pend[k] \in KeptRows
    BY ElementOfSeq, LenProperties
<1>2. DOMAIN q = DOMAIN pend
      /\ \A k \in DOMAIN pend :
            q[k] = [pend[k] EXCEPT !.late = @ \/ (pend[k].s = i /\ Abandoned(i))]
    BY DEF Belated
<1> HIDE DEF q
<1>3. ASSUME NEW k \in DOMAIN pend
      PROVE  /\ q[k] \in KeptRows /\ q[k].m = pend[k].m /\ q[k].status = pend[k].status
             /\ q[k].s = pend[k].s
             /\ q[k].late <=> pend[k].late \/ (pend[k].s = i /\ Abandoned(i))
    <2> DEFINE late == pend[k].late \/ (pend[k].s = i /\ Abandoned(i))
    <2>1. late \in BOOLEAN
        BY ZenonT(20)
    <2>2. q[k] = [pend[k] EXCEPT !.late = late] /\ pend[k] \in KeptRows
        BY <1>1, <1>2
    <2>3. late <=> pend[k].late \/ (pend[k].s = i /\ Abandoned(i))
        OBVIOUS
    <2> HIDE DEF late
    <2>4. q[k] \in KeptRows /\ q[k].m = pend[k].m /\ q[k].status = pend[k].status
          /\ q[k].s = pend[k].s /\ q[k].late = late
        BY <2>1, <2>2 DEF KeptRows
    <2> QED BY <2>3, <2>4
<1>4. q \in [1..Len(pend) -> KeptRows]
    <2>1. DOMAIN q = 1..Len(pend) /\ \A k \in 1..Len(pend) : q[k] \in KeptRows
        BY <1>1, <1>2, <1>3
    <2>2. q = [k \in 1..Len(pend) |-> q[k]]
        BY <1>1, <1>2 DEF q, Belated
    <2> QED BY <2>1, <2>2
<1>5. q \in Seq(KeptRows) /\ Len(q) = Len(pend)
    BY <1>1, <1>4
<1> QED BY <1>3, <1>5 DEF q

\* The message waits for the customer's return.
LEMMA KeptStep ==
    ASSUME LiveAssumption, LiveInv, Kept
    PROVE  LiveInv'
<1>0. LiveTypes /\ RunInv /\ PlaceInv /\ SentInv /\ Steady(h, remote)
    BY DEF LiveInv
<1>1. /\ w.pc = "noticing"
      /\ UNCHANGED <<ustate, inbox, remote, h, sent, undone>>
    BY DEF Kept, agentVars, seenVars
<1>2. PICK ok \in BOOLEAN :
          LET mine == [w.mine EXCEPT !.noticed = @ \/ ok]
          IN IF Blocked(w.s, w.base, mine)
             THEN RunEnds(Requeued) /\ UNCHANGED <<sess, newest, pend>>
             ELSE /\ RunCommits(w.s, w.base, mine)
                  /\ pend' = Append(Belated(w.s), [m |-> w.m, s |-> w.s, status |-> "pending",
                                                   late |-> ustate = Live \/ Abandoned(w.s)])
    BY DEF Kept
<1> DEFINE mine == [w.mine EXCEPT !.noticed = @ \/ ok]
           row == [m |-> w.m, s |-> w.s, status |-> "pending",
                   late |-> ustate = Live \/ Abandoned(w.s)]
<1>3. /\ w \in [pc : {"noticing", "accepting", "delivering"}, s : DOMAIN sess,
                m : Texts, base : SessionRows, mine : SessionRows]
      /\ jobs # <<>> /\ Head(jobs).m = w.m
    BY <1>0, <1>1 DEF LiveTypes, RunInv
<1>4. mine \in SessionRows /\ w.s \in DOMAIN sess /\ w.m \in Texts
    BY <1>3, RowSet
<1> HIDE DEF mine
<1>5. CASE Blocked(w.s, w.base, mine)
    <2>1. jobs' = Requeued /\ w' = NoRun /\ UNCHANGED <<sess, newest, pend>>
        BY <1>2, <1>5 DEF RunEnds, mine
    <2>2. SessTypes' /\ DOMAIN sess' = DOMAIN sess
        BY <1>0, <2>1 DEF LiveTypes, SessTypes
    <2> QED BY <1>1, <1>3, <2>1, <2>2, RunSteps
<1>6. CASE ~Blocked(w.s, w.base, mine)
    <2>1. RunCommits(w.s, w.base, mine) /\ pend' = Append(Belated(w.s), row)
        BY <1>2, <1>6 DEF mine
    <2>2. SessTypes' /\ DOMAIN sess' = DOMAIN sess /\ jobs' = Tail(jobs) /\ w' = NoRun
        BY <1>0, <1>4, <2>1, RunKeeps
    <2>3. row \in KeptRows /\ row.m = w.m /\ row.status = "pending"
        BY <1>0, <1>4 DEF KeptRows, LiveTypes, SessTypes
    <2> HIDE DEF row
    <2> DEFINE n == Len(pend) + 1
    <2>4. /\ pend' \in Seq(KeptRows) /\ DOMAIN pend' = DOMAIN pend \union {n}
          /\ n \notin DOMAIN pend /\ pend'[n] = row
          /\ \A k \in DOMAIN pend : pend'[k].m = pend[k].m /\ pend'[k].status = pend[k].status
        BY <1>0, <2>1, <2>3, BelatedRows DEF LiveTypes
    <2> HIDE DEF n
    <2>5. PICK q : q = Tail(jobs)
        OBVIOUS
    <2>6. Queued(q) /\ \A k \in DOMAIN q : k + 1 \in DOMAIN jobs /\ k + 1 # 1
                                          /\ q[k] = jobs[k + 1]
        BY <1>0, <1>3, <2>5, TailKept DEF LiveTypes
    <2>7. /\ \A j \in DOMAIN q, k \in DOMAIN q :
                q[j].m = q[k].m /\ q[j].m # "resolved" => j = k
          /\ \A j \in DOMAIN q, k \in DOMAIN pend : q[j].m # pend[k].m
          /\ \A j \in DOMAIN q :
                q[j].m # "resolved" /\ sent[q[j].m] > 0 => q[j].m \in undone
        BY <1>0, <2>6, QueueKeeps
    <2>8. 1 \in DOMAIN jobs /\ jobs[1].m = w.m /\ w.m # "resolved"
        BY <1>0, <1>3, <1>4, EmptySeq, LenProperties DEF LiveTypes, Texts
    <2>9. /\ \A j \in DOMAIN q : q[j].m # w.m
          /\ \A k \in DOMAIN pend : pend[k].m # w.m
          /\ sent[w.m] > 0 => w.m \in undone
        <3>1. \A j \in DOMAIN q : q[j].m # w.m
            BY <1>0, <2>6, <2>8 DEF PlaceInv
        <3> QED BY <1>0, <2>8, <3>1 DEF PlaceInv, SentInv
    <2>10. PlaceInv'
        <3>1. \A j \in DOMAIN pend', k \in DOMAIN pend' : pend'[j].m = pend'[k].m => j = k
            BY <1>0, <2>3, <2>4, <2>9 DEF PlaceInv
        <3>2. \A j \in DOMAIN q, k \in DOMAIN pend' : q[j].m # pend'[k].m
            BY <2>3, <2>4, <2>7, <2>9
        <3> QED BY <2>2, <2>5, <2>7, <3>1, <3>2 DEF PlaceInv
    <2>11. SentInv'
        <3>1. \A k \in DOMAIN pend' :
                 pend'[k].status = "pending" /\ sent[pend'[k].m] > 0 =>
                    pend'[k].m \in undone \/ k \in h.done
            BY <1>0, <2>3, <2>4, <2>9 DEF SentInv
        <3> QED BY <1>0, <1>1, <2>2, <2>5, <2>7, <3>1 DEF SentInv, RepeatsAreRetries
    <2>12. LiveTypes' /\ RunInv'
        <3>1. w'.pc = "idle"
            BY <2>2 DEF NoRun
        <3> QED BY <1>0, <1>1, <2>2, <2>4, <2>5, <2>6, <3>1 DEF LiveTypes, RunInv, Queued
    <2>13. Steady(h, remote)'
        <3>1. Handing(h)'
            BY <1>0, <1>1, <2>4 DEF Steady, Handing
        <3> QED BY <1>0, <1>1, <3>1 DEF Steady, Copied, Closed
    <2> QED BY <2>10, <2>11, <2>12, <2>13 DEF LiveInv
<1> QED BY <1>5, <1>6

\* The message is sent, and the run commits or fails.
LEMMA DeliveredStep ==
    ASSUME LiveAssumption, LiveInv, Delivered
    PROVE  LiveInv'
<1>0. LiveTypes /\ RunInv /\ PlaceInv /\ SentInv /\ Steady(h, remote)
    BY DEF LiveInv
<1> DEFINE blocked == Blocked(w.s, w.base, w.mine)
<1>1. /\ w.pc = "delivering" /\ sent' = SentOnceMore(w.m)
      /\ undone' = IF blocked THEN undone \union {w.m} ELSE undone
      /\ IF blocked THEN RunEnds(Requeued) /\ UNCHANGED <<sess, newest>>
         ELSE RunCommits(w.s, w.base, w.mine)
      /\ UNCHANGED <<pend, inbox, remote, h>>
    BY DEF Delivered, agentVars
<1> HIDE DEF blocked
<1>2. /\ w \in [pc : {"noticing", "accepting", "delivering"}, s : DOMAIN sess,
                m : Texts, base : SessionRows, mine : SessionRows]
      /\ jobs # <<>> /\ Head(jobs).m = w.m
    BY <1>0, <1>1 DEF LiveTypes, RunInv
<1>3. w.mine \in SessionRows /\ w.s \in DOMAIN sess /\ w.m \in Texts /\ w.m \in Msgs
    BY <1>2 DEF Texts
<1>4. /\ SessTypes' /\ DOMAIN sess' = DOMAIN sess /\ w' = NoRun
      /\ jobs' = IF blocked THEN Requeued ELSE Tail(jobs)
    <2>1. CASE blocked
        BY <1>0, <1>1, <2>1 DEF RunEnds, LiveTypes, SessTypes
    <2>2. CASE ~blocked
        BY <1>0, <1>1, <1>3, <2>2, RunKeeps
    <2> QED BY <2>1, <2>2
<1>5. PICK q : q = jobs'
    OBVIOUS
<1>6. Queued(q)
    BY <1>0, <1>2, <1>4, <1>5, TailKept, RequeueKept DEF LiveTypes
<1>7. /\ \A j \in DOMAIN q, k \in DOMAIN q : q[j].m = q[k].m /\ q[j].m # "resolved" => j = k
      /\ \A j \in DOMAIN q, k \in DOMAIN pend : q[j].m # pend[k].m
      /\ \A j \in DOMAIN q :
           q[j].m # "resolved" /\ sent[q[j].m] > 0 => q[j].m \in undone
    BY <1>0, <1>6, QueueKeeps
<1>8. 1 \in DOMAIN jobs /\ jobs[1].m = w.m /\ w.m # "resolved"
    BY <1>0, <1>2, <1>3, EmptySeq, LenProperties DEF LiveTypes, Texts
<1>9. ~blocked => \A j \in DOMAIN q : q[j].m # w.m
    <2> SUFFICES ASSUME ~blocked PROVE \A j \in DOMAIN q : q[j].m # w.m
        OBVIOUS
    <2>1. \A k \in DOMAIN q : k + 1 \in DOMAIN jobs /\ k + 1 # 1 /\ q[k] = jobs[k + 1]
        BY <1>0, <1>2, <1>4, <1>5, TailKept DEF LiveTypes
    <2> QED BY <1>0, <1>8, <2>1 DEF PlaceInv
<1>10. /\ \A k \in DOMAIN pend : pend[k].m # w.m
       /\ sent[w.m] > 0 => w.m \in undone
    BY <1>0, <1>8 DEF PlaceInv, SentInv
<1>11. /\ sent' \in [Msgs -> 0..2] /\ \A n \in Msgs : n # w.m => sent'[n] = sent[n]
       /\ sent'[w.m] > 1 => sent[w.m] > 0
    BY <1>0, <1>1, <1>3, OnceMore DEF LiveTypes
<1>12. undone \subseteq undone' /\ (blocked => w.m \in undone')
    BY <1>1
<1>13. \A j \in DOMAIN q : q[j].m # "resolved" => q[j].m \in Msgs
    <2>1. \A j \in DOMAIN q : q[j] \in Webhooks
        BY <1>6, ElementOfSeq, LenProperties DEF Queued
    <2> QED BY <2>1 DEF Webhooks
<1>14. \A k \in DOMAIN pend : pend[k].m \in Msgs
    <2>1. \A k \in DOMAIN pend : pend[k] \in KeptRows
        BY <1>0, ElementOfSeq, LenProperties DEF LiveTypes
    <2> QED BY <2>1 DEF KeptRows, Texts
<1>15. LiveTypes' /\ RunInv'
    <2>1. w'.pc = "idle"
        BY <1>4 DEF NoRun
    <2> QED BY <1>0, <1>1, <1>4, <1>5, <1>6, <1>11, <2>1 DEF LiveTypes, RunInv, Queued
<1>16. PlaceInv'
    BY <1>0, <1>1, <1>5, <1>7 DEF PlaceInv
<1>17. SentInv'
    <2>1. \A j \in DOMAIN q :
             q[j].m # "resolved" /\ sent'[q[j].m] > 0 => q[j].m \in undone'
        BY <1>7, <1>9, <1>11, <1>12, <1>13
    <2>2. \A k \in DOMAIN pend :
             pend[k].status = "pending" /\ sent'[pend[k].m] > 0 =>
                pend[k].m \in undone' \/ k \in h.done
        BY <1>0, <1>10, <1>11, <1>12, <1>14 DEF SentInv
    <2>3. \A m \in Msgs : sent'[m] > 1 => m \in undone'
        BY <1>0, <1>10, <1>11, <1>12 DEF SentInv, RepeatsAreRetries, LiveTypes
    <2> QED BY <1>1, <1>5, <1>11, <2>1, <2>2, <2>3 DEF SentInv, RepeatsAreRetries
<1>18. Steady(h, remote)'
    BY <1>0, <1>1 DEF Steady, Copied, Handing, Closed
<1> QED BY <1>15, <1>16, <1>17, <1>18 DEF LiveInv

----------------------------------------------------------------------------
(* The agents, the failures, and a step of the machine.                    *)

LEMMA AgentWritesStep ==
    ASSUME LiveInv, AgentWrites
    PROVE  LiveInv'
<1>0. LiveTypes /\ RunInv /\ PlaceInv /\ SentInv /\ Steady(h, remote)
    BY DEF LiveInv
<1>1. PICK c \in DOMAIN remote, m \in Msgs \ Said : jobs' = Append(jobs, [conv |-> c, m |-> m])
    BY DEF AgentWrites
<1>2. UNCHANGED <<sess, newest, pend, inbox, remote, h, w, sent, undone>>
    BY DEF AgentWrites, rowVars, seenVars
<1>3. /\ \A k \in DOMAIN jobs : jobs[k].m # m
      /\ ~(sent[m] > 0)
      /\ \A k \in DOMAIN pend : pend[k].m # m
    BY <1>1 DEF Said
<1> DEFINE n == Len(jobs) + 1
           job == [conv |-> c, m |-> m]
<1>4. job \in Webhooks /\ job.m = m
    BY <1>0, <1>1 DEF Webhooks, LiveTypes
<1> HIDE DEF job
<1>5. jobs' = Append(jobs, job)
    BY <1>1 DEF job
<1>6. /\ jobs' \in Seq(Webhooks) /\ DOMAIN jobs' = DOMAIN jobs \union {n}
      /\ jobs'[n] = job /\ \A k \in DOMAIN jobs : jobs'[k] = jobs[k]
      /\ jobs # <<>> => Head(jobs') = Head(jobs)
      /\ jobs' # <<>>
    BY <1>0, <1>4, <1>5 DEF LiveTypes
<1> HIDE DEF n
<1>7. LiveTypes' /\ RunInv'
    BY <1>0, <1>2, <1>6 DEF LiveTypes, SessTypes, RunInv
<1>8. PlaceInv'
    BY <1>0, <1>2, <1>3, <1>4, <1>6 DEF PlaceInv
<1>9. SentInv'
    BY <1>0, <1>2, <1>3, <1>4, <1>6 DEF SentInv, RepeatsAreRetries
<1>10. Steady(h, remote)'
    BY <1>0, <1>2 DEF Steady, Copied, Handing, Closed
<1> QED BY <1>7, <1>8, <1>9, <1>10 DEF LiveInv

LEMMA AgentSetsStep ==
    ASSUME LiveInv, AgentSets
    PROVE  LiveInv' /\ h'.pc = h.pc /\ h'.next = h.next
<1>0. LiveTypes /\ RunInv /\ PlaceInv /\ SentInv /\ Steady(h, remote)
    BY DEF LiveInv
<1>1. PICK c \in DOMAIN remote, status \in {"open", "resolved", "missing"} :
          /\ remote' = [remote EXCEPT ![c].status = status]
          /\ jobs' = IF status = "resolved"
                     THEN Append(jobs, [conv |-> c, m |-> "resolved"]) ELSE jobs
          /\ h' = [h EXCEPT !.closed = @ \ {c}]
    BY DEF AgentSets
<1>2. UNCHANGED <<sess, newest, pend, inbox, w, sent, undone>>
    BY DEF AgentSets, rowVars, seenVars
<1>3. /\ remote' \in Seq(Conversations) /\ DOMAIN remote' = DOMAIN remote
      /\ \A k \in DOMAIN remote : k # c => remote'[k] = remote[k]
    BY <1>0, <1>1, SetConversation DEF LiveTypes
<1> DEFINE n == Len(jobs) + 1
           job == [conv |-> c, m |-> "resolved"]
<1>4. job \in Webhooks /\ job.m = "resolved"
    BY <1>0, <1>1 DEF Webhooks, LiveTypes
<1> HIDE DEF job
<1>5. /\ jobs' \in Seq(Webhooks) /\ DOMAIN jobs \subseteq DOMAIN jobs'
      /\ \A k \in DOMAIN jobs : jobs'[k] = jobs[k]
      /\ \A k \in DOMAIN jobs' : k \in DOMAIN jobs \/ jobs'[k].m = "resolved"
      /\ jobs # <<>> => Head(jobs') = Head(jobs) /\ jobs' # <<>>
    <2>1. CASE status = "resolved"
        <3>1. jobs' = Append(jobs, job)
            BY <1>1, <2>1 DEF job
        <3> QED BY <1>0, <1>4, <3>1 DEF LiveTypes
    <2>2. CASE status # "resolved"
        BY <1>0, <1>1, <2>2 DEF LiveTypes
    <2> QED BY <2>1, <2>2
<1>6. /\ DOMAIN h' = Fields /\ h'.closed = h.closed \ {c}
      /\ \A f \in Fields \ {"closed"} : h'[f] = h[f]
    BY <1>0, <1>1 DEF Steady, Copied, Fields
<1>7. /\ h'.pc = h.pc /\ h'.s = h.s /\ h'.mine = h.mine /\ h'.inbox = h.inbox
      /\ h'.done = h.done /\ h'.rows = h.rows /\ h'.reopen = h.reopen
      /\ h'.verified = h.verified /\ h'.next = h.next
    BY <1>6 DEF Fields
<1>8. LiveTypes' /\ RunInv'
    BY <1>0, <1>2, <1>3, <1>5 DEF LiveTypes, SessTypes, RunInv
<1>9. \A k \in DOMAIN pend : pend[k].m # "resolved"
    <2>1. \A k \in DOMAIN pend : pend[k] \in KeptRows
        BY <1>0, ElementOfSeq, LenProperties DEF LiveTypes
    <2> QED BY <2>1 DEF KeptRows, Texts
<1>10. PlaceInv'
    <2> PICK q : q = jobs'
        OBVIOUS
    <2>1. \A j \in DOMAIN q, k \in DOMAIN q : q[j].m = q[k].m /\ q[j].m # "resolved" => j = k
        BY <1>0, <1>5 DEF PlaceInv
    <2>2. \A j \in DOMAIN q, k \in DOMAIN pend : q[j].m # pend[k].m
        BY <1>0, <1>5, <1>9 DEF PlaceInv
    <2> QED BY <1>0, <1>2, <2>1, <2>2 DEF PlaceInv
<1>11. SentInv'
    BY <1>0, <1>2, <1>5, <1>7 DEF SentInv, RepeatsAreRetries
<1>12. Copied(h)' /\ Handing(h)'
    BY <1>0, <1>2, <1>6, <1>7 DEF Steady, Copied, Handing
<1>13. Closed(h, remote)'
    BY <1>0, <1>3, <1>6, <1>7 DEF Steady, Closed
<1> QED BY <1>7, <1>8, <1>10, <1>11, <1>12, <1>13 DEF LiveInv, Steady

LEMMA ReconfiguredStep ==
    ASSUME LiveInv, Reconfigured
    PROVE  LiveInv'
<1>0. LiveTypes /\ RunInv /\ PlaceInv /\ SentInv /\ Steady(h, remote)
    BY DEF LiveInv
<1>1. /\ UNCHANGED <<sess, newest, pend, remote, jobs, h, w, sent, undone>>
      /\ inbox' = 3 - inbox \/ inbox' = inbox
    BY DEF Reconfigured, rowVars, seenVars
<1>2. inbox' \in 1..2
    BY <1>0, <1>1 DEF LiveTypes
<1>3. LiveTypes' /\ RunInv'
    BY <1>0, <1>1, <1>2 DEF LiveTypes, SessTypes, RunInv
<1>4. PlaceInv' /\ SentInv' /\ Steady(h, remote)'
    BY <1>0, <1>1 DEF PlaceInv, SentInv, RepeatsAreRetries, Steady, Copied, Handing, Closed
<1> QED BY <1>3, <1>4 DEF LiveInv

\* A handler that ends without a commit; the run of a webhook may end with it.
LEMMA LostStep ==
    ASSUME LiveInv, undone' = undone \union {pend[k].m : k \in h.done},
           h' = NoHandler, w' \in {w, NoRun},
           UNCHANGED <<sess, newest, pend, inbox, remote, jobs, sent>>
    PROVE  LiveInv'
<1>0. LiveTypes /\ RunInv /\ PlaceInv /\ SentInv /\ Steady(h, remote)
    BY DEF LiveInv
<1>1. w' = w \/ w'.pc = "idle"
    BY DEF NoRun
<1>2. /\ Copied(NoHandler) /\ Closed(NoHandler, remote)
      /\ NoHandler.done = {} /\ NoHandler.rows = {}
    BY IdleSteady
<1>3. LiveTypes' /\ RunInv'
    BY <1>0, <1>1 DEF LiveTypes, SessTypes, RunInv
<1>4. PlaceInv'
    BY <1>0 DEF PlaceInv
<1>5. SentInv'
    BY <1>0 DEF SentInv, RepeatsAreRetries
<1>6. Steady(h, remote)'
    BY <1>2 DEF Steady, Copied, Closed, Handing
<1> QED BY <1>3, <1>4, <1>5, <1>6 DEF LiveInv

LEMMA HandedOverStep ==
    ASSUME LiveInv, HandedOver
    PROVE  LiveInv' /\ h'.next = h.next
<1>0. LiveTypes /\ RunInv /\ PlaceInv /\ SentInv /\ Steady(h, remote)
    BY DEF LiveInv
<1>1. UNCHANGED <<sess, newest, pend, inbox, remote, jobs, w, undone>>
    BY DEF HandedOver, rowVars, agentVars
<1>2. Steady(h', remote) /\ h'.next = h.next
    BY <1>0, HandedSteady
<1>3. PICK k \in DOMAIN pend :
          /\ k \notin h.done /\ pend[k].status = "pending"
          /\ h'.done = h.done \union {k}
          /\ sent' = SentOnceMore(pend[k].m)
    BY <1>0, HandedSteady
<1>4. \A i \in DOMAIN pend : pend[i].m \in Msgs /\ pend[i].m \in Texts
    <2>1. \A i \in DOMAIN pend : pend[i] \in KeptRows
        BY <1>0, ElementOfSeq, LenProperties DEF LiveTypes
    <2> QED BY <2>1 DEF KeptRows, Texts
<1>5. \A j \in DOMAIN jobs : jobs[j].m # "resolved" => jobs[j].m \in Msgs
    <2>1. \A j \in DOMAIN jobs : jobs[j] \in Webhooks
        BY <1>0, ElementOfSeq, LenProperties DEF LiveTypes
    <2> QED BY <2>1 DEF Webhooks
<1> DEFINE m == pend[k].m
<1>6. /\ sent' \in [Msgs -> 0..2] /\ \A n \in Msgs : n # m => sent'[n] = sent[n]
      /\ sent'[m] > 1 => sent[m] > 0
    BY <1>0, <1>3, <1>4, OnceMore DEF LiveTypes
<1>7. /\ \A j \in DOMAIN jobs : jobs[j].m # m
      /\ \A i \in DOMAIN pend : i # k => pend[i].m # m
      /\ sent[m] > 0 => m \in undone
    BY <1>0, <1>3 DEF PlaceInv, SentInv
<1> HIDE DEF m
<1>8. LiveTypes' /\ RunInv' /\ PlaceInv'
    BY <1>0, <1>1, <1>6 DEF LiveTypes, SessTypes, RunInv, PlaceInv
<1>9. SentInv'
    <2>1. \A j \in DOMAIN jobs :
             jobs[j].m # "resolved" /\ sent'[jobs[j].m] > 0 => jobs[j].m \in undone
        BY <1>0, <1>5, <1>6, <1>7 DEF SentInv
    <2>2. \A i \in DOMAIN pend :
             pend[i].status = "pending" /\ sent'[pend[i].m] > 0 =>
                pend[i].m \in undone \/ i \in h'.done
        BY <1>0, <1>3, <1>4, <1>6, <1>7 DEF SentInv
    <2>3. \A n \in Msgs : sent'[n] > 1 => n \in undone
        BY <1>0, <1>6, <1>7 DEF SentInv, RepeatsAreRetries, LiveTypes
    <2> QED BY <1>1, <1>6, <2>1, <2>2, <2>3 DEF SentInv, RepeatsAreRetries
<1>10. Steady(h, remote)'
    BY <1>1, <1>2 DEF Steady, Copied, Handing, Closed
<1> QED BY <1>2, <1>8, <1>9, <1>10 DEF LiveInv

\* Where a handler leaves the customer, and where it will.
Leads ==
    \/ ustate' = ustate /\ (h'.pc = "idle" \/ h'.next \in {h.next, Live})
    \/ ustate' = h.next /\ h'.pc = "idle"

LEMMA PostedStep ==
    ASSUME LiveAssumption, LiveInv, Posted
    PROVE  LiveInv' /\ Leads
<1> DEFINE row == [h.mine[h.s] EXCEPT !.status = "open"]
           c == [h.mine EXCEPT ![h.s] = row]
           hh == [h EXCEPT !.mine = c]
<1>0. LiveTypes /\ Copied(h)
    BY DEF LiveInv, Steady
<1>1. /\ h.pc = "posting" /\ Committed([h EXCEPT !.mine[h.s] = [@ EXCEPT !.status = "open"]])
      /\ remote' = [remote EXCEPT ![h.mine[h.s].conv].status = "open"]
      /\ UNCHANGED <<inbox, jobs, w, sent, undone>>
    BY DEF Posted, agentVars, seenVars
<1>2. Committed(hh)
    BY <1>0, <1>1 DEF Copied, Fields
<1>3. DOMAIN c = DOMAIN h.mine /\ \A k \in DOMAIN c : c[k] \in SessionRows
    <2>1. h.s \in DOMAIN h.mine => row \in SessionRows
        BY <1>0, RowSet DEF Copied
    <2> HIDE DEF row
    <2> QED BY <1>0, <2>1 DEF Copied
<1> HIDE DEF c
<1>4. /\ DOMAIN hh = Fields /\ hh.mine = c
      /\ \A f \in Fields \ {"mine"} : hh[f] = h[f]
    BY <1>0 DEF Copied, Fields
<1> HIDE DEF hh
<1>5. hh.done = h.done /\ hh.next = h.next /\ hh.inbox = h.inbox
    BY <1>4 DEF Fields
<1>6. Copied(hh)
    BY <1>0, <1>3, <1>4, <1>5 DEF Copied
<1>7. remote' \in Seq(Conversations)
    BY <1>0, <1>1, SetConversation DEF LiveTypes
<1>8. LiveInv' /\ ustate' = hh.next /\ h'.pc = "idle"
    BY <1>1, <1>2, <1>5, <1>6, <1>7, CommitSteps
<1> QED BY <1>5, <1>8 DEF Leads

LEMMA HandoverEndsStep ==
    ASSUME LiveAssumption, LiveInv, HandoverEnds
    PROVE  LiveInv' /\ Leads
<1> DEFINE row == [h.mine[h.s] EXCEPT !.noticed = FALSE, !.unread = 0]
           c == [h.mine EXCEPT ![h.s] = row]
           hh == [h EXCEPT !.mine = c]
<1>0. LiveTypes /\ Copied(h)
    BY DEF LiveInv, Steady
<1>1. /\ Committed([h EXCEPT !.mine[h.s] = [@ EXCEPT !.noticed = FALSE, !.unread = 0]])
      /\ UNCHANGED <<inbox, remote, jobs, w, sent, undone>>
    BY DEF HandoverEnds, agentVars, seenVars
<1>2. Committed(hh)
    BY <1>0, <1>1 DEF Copied, Fields
<1>3. DOMAIN c = DOMAIN h.mine /\ \A k \in DOMAIN c : c[k] \in SessionRows
    <2>1. h.s \in DOMAIN h.mine => row \in SessionRows
        BY <1>0, RowSet DEF Copied
    <2> HIDE DEF row
    <2> QED BY <1>0, <2>1 DEF Copied
<1> HIDE DEF c
<1>4. /\ DOMAIN hh = Fields /\ hh.mine = c
      /\ \A f \in Fields \ {"mine"} : hh[f] = h[f]
    BY <1>0 DEF Copied, Fields
<1> HIDE DEF hh
<1>5. hh.done = h.done /\ hh.next = h.next /\ hh.inbox = h.inbox
    BY <1>4 DEF Fields
<1>6. Copied(hh)
    BY <1>0, <1>3, <1>4, <1>5 DEF Copied
<1>7. remote' \in Seq(Conversations)
    BY <1>0, <1>1 DEF LiveTypes
<1>8. LiveInv' /\ ustate' = hh.next /\ h'.pc = "idle"
    BY <1>1, <1>2, <1>5, <1>6, <1>7, CommitSteps
<1> QED BY <1>5, <1>8 DEF Leads

LEMMA HandlerStep ==
    ASSUME LiveAssumption, LiveInv, Handler
    PROVE  LiveInv' /\ Leads /\ h.pc # "idle"
<1>0. LiveTypes /\ Steady(h, remote) /\ (h.pc # "draining" => h.done = {})
    BY DEF LiveInv, Steady, Handing
<1>1. CASE Replied
    <2>1. /\ h.pc = "replying" /\ Committed(h) /\ remote' \in Seq(Conversations)
          /\ UNCHANGED <<inbox, jobs, w, sent, undone>>
        BY <1>0, <1>1 DEF Replied, agentVars, seenVars, LiveTypes
    <2>2. Copied(h)
        BY <1>0 DEF Steady
    <2> QED BY <2>1, <2>2, CommitSteps DEF Leads
<1>2. CASE HandlerFails
    <2>1. /\ h.pc # "idle" /\ h' = NoHandler /\ ustate' = ustate
          /\ undone' = undone \union {pend[k].m : k \in h.done}
          /\ UNCHANGED <<sess, newest, pend, inbox, remote, jobs, w, sent>>
        BY <1>2 DEF HandlerFails, rowVars, agentVars
    <2>2. NoHandler.pc = "idle"
        BY IdleSteady
    <2> QED BY <2>1, <2>2, LostStep DEF Leads
<1>3. CASE StatusAnswered
    <2>1. /\ h.pc = "checking" /\ ustate' = ustate
          /\ UNCHANGED <<pend, inbox, remote, jobs, w, sent, undone>>
        BY <1>3 DEF StatusAnswered, agentVars, seenVars
    <2>2. /\ Steady(h', remote') /\ h'.next \in {h.next, Live} /\ remote' \in Seq(Conversations)
          /\ SessTypes' /\ DOMAIN sess \subseteq DOMAIN sess'
        BY <1>0, <1>3, <2>1, AnswerSteady DEF LiveTypes
    <2> QED BY <1>0, <2>1, <2>2, MovedSteps DEF Leads
<1>4. CASE Reopened
    <2>1. /\ h.pc = "toggling" /\ ustate' = ustate
          /\ UNCHANGED <<sess, newest, pend, inbox, jobs, w, sent, undone>>
        BY <1>4 DEF Reopened, rowVars, agentVars, seenVars
    <2>2. Steady(h', remote') /\ h'.next \in {h.next, Live} /\ remote' \in Seq(Conversations)
        BY <1>0, <1>4, ReopenSteady
    <2>3. SessTypes' /\ DOMAIN sess' = DOMAIN sess
        BY <1>0, <2>1 DEF LiveTypes, SessTypes
    <2> QED BY <1>0, <2>1, <2>2, <2>3, MovedSteps DEF Leads
<1>5. CASE Created
    <2>1. /\ h.pc = "creating" /\ ustate' = ustate
          /\ UNCHANGED <<sess, newest, pend, inbox, jobs, w, sent, undone>>
        BY <1>5 DEF Created, rowVars, agentVars, seenVars
    <2>2. Steady(h', remote') /\ h'.next \in {h.next, Live} /\ remote' \in Seq(Conversations)
        BY <1>0, <1>5, CreateSteady
    <2>3. SessTypes' /\ DOMAIN sess' = DOMAIN sess
        BY <1>0, <2>1 DEF LiveTypes, SessTypes
    <2> QED BY <1>0, <2>1, <2>2, <2>3, MovedSteps DEF Leads
<1>6. CASE Posted
    BY <1>6, PostedStep DEF Posted
<1>7. CASE PostedNowhere
    <2>1. /\ h.pc = "posting" /\ ustate' = ustate
          /\ UNCHANGED <<pend, inbox, remote, jobs, w, sent, undone>>
        BY <1>7 DEF PostedNowhere, agentVars, seenVars
    <2>2. /\ Steady(h', remote') /\ h'.next = h.next /\ remote' \in Seq(Conversations)
          /\ SessTypes' /\ DOMAIN sess \subseteq DOMAIN sess'
        BY <1>0, <1>7, <2>1, NowhereSteady DEF LiveTypes
    <2> QED BY <1>0, <2>1, <2>2, MovedSteps DEF Leads
<1>8. CASE HandoverBegins
    <2>1. /\ h.pc = "accepting" /\ ustate' = ustate
          /\ UNCHANGED <<sess, newest, pend, inbox, remote, jobs, w, sent, undone>>
        BY <1>8 DEF HandoverBegins, rowVars, agentVars, seenVars
    <2>2. Steady(h', remote') /\ h'.next = h.next /\ remote' \in Seq(Conversations)
        BY <1>0, <1>8, <2>1, HandoverSteady DEF LiveTypes
    <2>3. SessTypes' /\ DOMAIN sess' = DOMAIN sess
        BY <1>0, <2>1 DEF LiveTypes, SessTypes
    <2> QED BY <1>0, <2>1, <2>2, <2>3, MovedSteps DEF Leads
<1>9. CASE HandedOver
    <2>1. h.pc = "draining" /\ ustate' = ustate
        BY <1>9 DEF HandedOver, rowVars
    <2> QED BY <1>9, <2>1, HandedOverStep DEF Leads
<1>10. CASE HandoverEnds
    BY <1>10, HandoverEndsStep DEF HandoverEnds
<1> QED BY <1>1, <1>2, <1>3, <1>4, <1>5, <1>6, <1>7, <1>8, <1>9, <1>10 DEF Handler

\* What begins while no update is handled.
LEMMA UpdateStep ==
    ASSUME LiveAssumption, LiveInv, EnterRoute \/ \E text, root : LiveUpdate(text, root)
    PROVE  LiveInv' /\ ustate' = ustate
<1>1. /\ h.pc = "idle" /\ ustate' = ustate
      /\ UNCHANGED <<pend, inbox, remote, jobs, w, sent, undone>>
    BY DEF EnterRoute, LiveUpdate, agentVars, seenVars
<1>2. h.done = {} /\ LiveTypes /\ remote' \in Seq(Conversations)
    BY <1>1 DEF LiveInv, Steady, Handing, LiveTypes
<1>3. Steady(h', remote') /\ SessTypes' /\ DOMAIN sess \subseteq DOMAIN sess'
    BY <1>1, <1>2, EnterSteady, UpdateSteady
<1> QED BY <1>1, <1>2, <1>3, MovedSteps

\* What happens beside the handler.
LEMMA WebhookStep ==
    ASSUME LiveAssumption, LiveInv, Webhook
    PROVE  LiveInv' /\ ustate' = ustate /\ h' = h
<1>1. ustate' = ustate /\ h' = h
    BY DEF Webhook, WebhookIgnored, WebhookResolves, WebhookTaken, Kept, Accepted, Delivered,
           rowVars
<1> QED BY SMTT(30), <1>1, IgnoredStep, ResolvesStep, TakenStep, KeptStep, AcceptedStep, DeliveredStep
        DEF Webhook

LEMMA AgentsStep ==
    ASSUME LiveInv, Agents
    PROVE  LiveInv' /\ ustate' = ustate /\ h'.pc = h.pc /\ h'.next = h.next
<1>1. ustate' = ustate
    BY DEF Agents, AgentWrites, AgentSets, Reconfigured, rowVars
<1>2. AgentWrites \/ Reconfigured => h' = h
    BY DEF AgentWrites, Reconfigured
<1> QED BY <1>1, <1>2, AgentWritesStep, AgentSetsStep, ReconfiguredStep DEF Agents

LEMMA CrashStep ==
    ASSUME LiveInv, Crash
    PROVE  LiveInv' /\ ustate' = ustate /\ h'.pc = "idle"
<1>1. /\ undone' = undone \union {pend[k].m : k \in h.done} /\ ustate' = ustate
      /\ h' = NoHandler /\ w' = NoRun
      /\ UNCHANGED <<sess, newest, pend, inbox, remote, jobs, sent>>
    BY DEF Crash, rowVars, agentVars
<1> QED BY <1>1, LostStep, IdleSteady

\* A step that leaves the live conversations alone, whatever the menus do.
LEMMA MenuStep ==
    ASSUME LiveInv, UNCHANGED <<sess, newest, pend, inbox, remote, jobs, h, w, sent, undone>>
    PROVE  LiveInv'
BY DEF LiveInv, LiveTypes, SessTypes, RunInv, PlaceInv, SentInv, RepeatsAreRetries,
       Steady, Copied, Handing, Closed

\* The invariant as far as the state of the customer does not matter to it.
LEMMA LiveInitially ==
    ASSUME LiveAssumption, NEW root, LiveInit(root)
    PROVE  LiveInv /\ h.pc = "idle" /\ ustate = root
<1>1. /\ ustate = root /\ sess = <<>> /\ newest = <<>> /\ pend = <<>> /\ inbox = 1
      /\ remote = <<>> /\ jobs = <<>> /\ h = NoHandler /\ w = NoRun
      /\ sent = [m \in Msgs |-> 0] /\ undone = {}
    BY DEF LiveInit
<1>2. w.pc = "idle" /\ h.pc = "idle" /\ h.done = {}
    BY <1>1, IdleSteady DEF NoRun
<1>3. DOMAIN sess = {} /\ DOMAIN newest = {} /\ DOMAIN jobs = {} /\ DOMAIN pend = {}
    BY <1>1
<1>4. SessTypes
    BY <1>1, <1>3, FS_EmptySet DEF SessTypes
<1>5. LiveTypes /\ RunInv
    BY <1>1, <1>2, <1>4 DEF LiveTypes, RunInv
<1>6. PlaceInv /\ SentInv
    BY <1>1, <1>3 DEF PlaceInv, SentInv, RepeatsAreRetries
<1>7. Steady(h, remote)
    BY <1>1, IdleSteady DEF Steady
<1> QED BY <1>1, <1>2, <1>5, <1>6, <1>7 DEF LiveInv

\* A bot whose menu is the root alone.
LEMMA LiveSteps ==
    ASSUME LiveAssumption, LiveInv, [LiveNext]_liveVars
    PROVE  LiveInv'
<1>1. CASE UNCHANGED liveVars
    BY <1>1, MenuStep DEF liveVars
<1>2. CASE LiveNext
    BY <1>2, UpdateStep, HandlerStep, WebhookStep, AgentsStep, CrashStep DEF LiveNext
<1> QED BY <1>1, <1>2

\* No update is posted to a conversation that was resolved before it.
LEMMA PostedFresh ==
    ASSUME LiveInv, h.pc = "posting", h.mine[h.s].conv \in h.closed
    PROVE  h.verified = "blind" \/ (h.reopen /\ h.verified = "reopened")
BY DEF LiveInv, Steady, Closed

----------------------------------------------------------------------------
(* The menus.                                                              *)

\* An update that is handled found the customer at the root or in the route,
\* and leads to one of them.
Outside == ManualStates \union {"awaiting_phone_input", "address_menu"}
BaleMenusInv ==
    /\ MenusFitCustomer
    /\ h.pc # "idle" => ustate \notin Outside /\ h.next \in {Live, Root(gre), ustate}
BaleInv == LiveInv /\ BaleMenusInv

TelegramMenusInv ==
    /\ GroupFitsMenu
    /\ h.pc # "idle" => /\ ustate \notin {"manual_menu", "manual_group_menu", "address_menu"}
                        /\ h.next # "manual_menu"
TelegramInv == LiveInv /\ TelegramMenusInv

LEMMA BaleInitially ==
    ASSUME LiveAssumption, BaleInit
    PROVE  BaleInv
BY LiveInitially DEF BaleInit, BaleInv, BaleMenusInv, MenusFitCustomer, ManualStates

LEMMA TelegramInitially ==
    ASSUME LiveAssumption, TelegramInit
    PROVE  TelegramInv
BY LiveInitially DEF TelegramInit, TelegramInv, TelegramMenusInv, GroupFitsMenu

\* A menu's step: what the rules of each menu keep.
LEMMA MenuInput ==
    ASSUME BaleMenusInv, BaleMenus
    PROVE  /\ MenusFitCustomer' /\ h' = h /\ h.pc = "idle"
           /\ UNCHANGED <<sess, newest, pend, inbox, remote, jobs, h, w, sent, undone>>
<1>1. ASSUME NEW state, NEW group, NEW status, Menu(state, group, status)
      PROVE  /\ h.pc = "idle" /\ ustate' = state /\ ingroup' = group /\ gre' = status
             /\ UNCHANGED <<sess, newest, pend, inbox, remote, jobs, h, w, sent, undone>>
    BY <1>1 DEF Menu, agentVars, seenVars
<1>2. ASSUME NEW status, ToRoot(status)
      PROVE  MenusFitCustomer'
    <2>1. Menu(Root(status), FALSE, status)
        BY <1>2 DEF ToRoot
    <2>2. ustate' = Root(status) /\ ingroup' = FALSE /\ gre' = status
        BY <2>1 DEF Menu
    <2> QED BY <2>2 DEF Root, MenusFitCustomer, ManualStates
<1>3. PICK to, kept, known : Menu(to, kept, known)
    BY DEF BaleMenus, Start, PhoneSubmitted, PhoneBack, EligibleRoot, IneligibleRoot,
           ManualMenu, AddressMenu, Catalog, Back, To, ToRoot
<1>4. CASE Start
    <2>1. PICK status : IF status = "unknown" THEN Menu("awaiting_phone_input", ingroup, status)
                        ELSE ToRoot(status)
        BY <1>4 DEF Start
    <2>2. CASE status = "unknown"
        BY <1>1, <2>1, <2>2 DEF MenusFitCustomer, ManualStates
    <2>3. CASE status # "unknown"
        BY <1>2, <1>1, <2>1, <2>3 DEF ToRoot
    <2> QED BY <1>1, <1>3, <2>2, <2>3
<1>5. CASE PhoneSubmitted
    BY <1>1, <1>2, <1>3, <1>5 DEF PhoneSubmitted
<1>6. CASE PhoneBack
    <2>1. ustate' = "ineligible_root" /\ ingroup' = FALSE
        BY <1>6 DEF PhoneBack, Menu
    <2> QED BY <1>1, <1>3, <2>1 DEF MenusFitCustomer, ManualStates
<1>7. CASE EligibleRoot
    <2>1. CASE Back
        BY <1>1, <1>2, <1>3, <2>1 DEF Back
    <2>2. CASE \E state \in {"manual_group_menu", "manual_menu", "address_menu"} : To(state)
        BY <1>1, <1>7, <2>2 DEF EligibleRoot, AtRoot, To, BaleMenusInv, MenusFitCustomer,
                               ManualStates
    <2> QED BY <1>7, <2>1, <2>2 DEF EligibleRoot
<1>8. CASE IneligibleRoot
    <2>1. CASE Back
        BY <1>1, <1>2, <1>3, <2>1 DEF Back
    <2>2. CASE \E state \in {"awaiting_phone_input", "address_menu"} : To(state)
        BY <1>1, <1>8, <2>2 DEF IneligibleRoot, AtRoot, To, BaleMenusInv, MenusFitCustomer,
                               ManualStates
    <2> QED BY <1>8, <2>1, <2>2 DEF IneligibleRoot
<1>9. CASE ManualMenu
    <2>1. CASE Back
        BY <1>1, <1>2, <1>3, <2>1 DEF Back
    <2>2. CASE Menu("manual_menu", TRUE, gre)
        <3>1. ustate' = "manual_menu" /\ gre' = gre
            BY <2>2 DEF Menu
        <3>2. gre = "eligible"
            BY <1>9 DEF ManualMenu, BaleMenusInv, MenusFitCustomer, ManualStates
        <3> QED BY <1>1, <1>3, <3>1, <3>2 DEF MenusFitCustomer
    <2>3. CASE To(ustate)
        <3>1. ustate' = ustate /\ gre' = gre /\ ingroup' = ingroup
            BY <2>3 DEF To, Menu
        <3> QED BY <1>1, <1>3, <3>1 DEF BaleMenusInv, MenusFitCustomer
    <2> QED BY <1>9, <2>1, <2>2, <2>3 DEF ManualMenu
<1>10. CASE AddressMenu \/ Catalog
    BY <1>1, <1>2, <1>3, <1>10 DEF AddressMenu, Catalog, Back
<1> QED BY <1>4, <1>5, <1>6, <1>7, <1>8, <1>9, <1>10 DEF BaleMenus

LEMMA BaleSteps ==
    ASSUME LiveAssumption, BaleInv, [BaleNext]_baleVars
    PROVE  BaleInv'
<1>0. LiveInv /\ BaleMenusInv /\ LiveTypes
    BY DEF BaleInv, LiveInv
<1>1. CASE UNCHANGED baleVars
    <2>1. LiveInv'
        BY <1>0, <1>1, MenuStep DEF baleVars, liveVars
    <2> QED BY <1>0, <1>1, <2>1 DEF BaleInv, BaleMenusInv, MenusFitCustomer, baleVars, liveVars,
                                    menuVars
<1>2. CASE BaleMenus
    <2>1. /\ MenusFitCustomer' /\ h' = h /\ h.pc = "idle"
          /\ UNCHANGED <<sess, newest, pend, inbox, remote, jobs, h, w, sent, undone>>
        BY <1>0, <1>2, MenuInput
    <2>2. LiveInv'
        BY <1>0, <2>1, MenuStep
    <2> QED BY <2>1, <2>2 DEF BaleInv, BaleMenusInv
<1>3. CASE RouteButton
    <2>1. EnterRoute /\ UNCHANGED menuVars /\ ustate \notin Outside
        BY <1>3 DEF RouteButton, AtRoot, Outside
    <2>2. LiveInv' /\ ustate' = ustate
        BY <1>0, <2>1, UpdateStep
    <2>3. h'.next = ustate
        BY <1>0, <2>1, EnterSteady
    <2> QED BY <1>0, <2>1, <2>2, <2>3 DEF BaleInv, BaleMenusInv, MenusFitCustomer, menuVars
<1>4. CASE BaleLive
    <2>1. PICK text : LiveUpdate(text, Root(gre))
        BY <1>4 DEF BaleLive
    <2>2. LiveInv' /\ ustate' = ustate
        BY <1>0, <2>1, UpdateStep
    <2>3. h'.next \in {ustate, Root(gre)} /\ ustate = Live
        BY <1>0, <2>1, UpdateSteady
    <2>4. UNCHANGED menuVars /\ Live \notin Outside
        BY <1>4 DEF BaleLive, Live, Outside, ManualStates
    <2>5. Root(gre)' = Root(gre)
        BY <2>4 DEF menuVars, Root
    <2> QED BY <1>0, <2>2, <2>3, <2>4, <2>5
            DEF BaleInv, BaleMenusInv, MenusFitCustomer, menuVars
<1>5. CASE GroupsConfigured
    <2>1. /\ UNCHANGED <<sess, newest, pend, inbox, remote, jobs, h, w, sent, undone>>
          /\ UNCHANGED <<ustate, gre>>
          /\ ingroup' = ingroup \/ ingroup' = FALSE
        BY <1>5 DEF GroupsConfigured, rowVars, seenVars
    <2>2. LiveInv'
        BY <1>0, <2>1, MenuStep
    <2> QED BY <1>0, <2>1, <2>2 DEF BaleInv, BaleMenusInv, MenusFitCustomer, Root
<1>6. CASE (Handler \/ Webhook \/ Crash \/ Agents) /\ UNCHANGED menuVars
    <2>1. CASE Handler
        <3>1. LiveInv' /\ Leads /\ h.pc # "idle"
            BY <1>0, <2>1, HandlerStep
        <3>2. UNCHANGED <<gre, ingroup>>
            BY <1>6 DEF menuVars
        <3>3. /\ ustate \notin Outside /\ h.next \in {Live, Root(gre), ustate}
              /\ MenusFitCustomer
            BY <1>0, <3>1 DEF BaleMenusInv, MenusFitCustomer, Outside, ManualStates
        <3>4. CASE ustate' = ustate /\ (h'.pc = "idle" \/ h'.next \in {h.next, Live})
            BY <3>1, <3>2, <3>3, <3>4 DEF BaleInv, BaleMenusInv, MenusFitCustomer, Root
        <3>5. CASE ustate' = h.next /\ h'.pc = "idle"
            <4>1. ~ingroup
                BY <3>3 DEF MenusFitCustomer, Outside, ManualStates
            <4>2. MenusFitCustomer'
                BY <3>2, <3>3, <3>5, <4>1 DEF MenusFitCustomer, Root, Live, ManualStates
            <4> QED BY <3>1, <3>5, <4>2 DEF BaleInv, BaleMenusInv
        <3> QED BY <3>1, <3>4, <3>5 DEF Leads
    <2>2. CASE Webhook \/ Crash \/ Agents
        <3>1. /\ LiveInv' /\ ustate' = ustate
              /\ h'.pc = "idle" \/ (h'.pc = h.pc /\ h'.next = h.next)
            BY <1>0, <2>2, WebhookStep, AgentsStep, CrashStep
        <3> QED BY <1>0, <1>6, <3>1 DEF BaleInv, BaleMenusInv, MenusFitCustomer, menuVars, Root
    <2> QED BY <1>6, <2>1, <2>2
<1> QED BY <1>1, <1>2, <1>3, <1>4, <1>5, <1>6 DEF BaleNext

LEMMA TelegramSteps ==
    ASSUME LiveAssumption, TelegramInv, [TelegramNext]_telegramVars
    PROVE  TelegramInv'
<1>0. LiveInv /\ TelegramMenusInv /\ LiveTypes
    BY DEF TelegramInv, LiveInv
<1>1. CASE UNCHANGED telegramVars
    <2>1. LiveInv'
        BY <1>0, <1>1, MenuStep DEF telegramVars, liveVars
    <2> QED BY <1>0, <1>1, <2>1 DEF TelegramInv, TelegramMenusInv, GroupFitsMenu, telegramVars,
                                    liveVars
<1>2. CASE ShowRoot \/ RootActions \/ ManualChoice \/ AddressChoice
    <2>1. /\ h.pc = "idle"
          /\ UNCHANGED <<sess, newest, pend, inbox, remote, jobs, h, w, sent, undone>>
        BY <1>2 DEF ShowRoot, RootActions, ManualChoice, AddressChoice, MenuTo, agentVars, seenVars
    <2>2. \/ chosen' = FALSE
          \/ ustate' = "manual_menu"
          \/ chosen' = chosen /\ ustate' = ustate
          \/ chosen' = chosen /\ ustate # "manual_menu"
        BY <1>2 DEF ShowRoot, RootActions, ManualChoice, AddressChoice, MenuTo
    <2>3. GroupFitsMenu'
        BY <1>0, <2>2 DEF TelegramMenusInv, GroupFitsMenu
    <2>4. LiveInv'
        BY <1>0, <2>1, MenuStep
    <2> QED BY <2>1, <2>3, <2>4 DEF TelegramInv, TelegramMenusInv
<1>3. CASE RouteChosen
    <2>1. /\ EnterRoute /\ UNCHANGED <<chosen, grouping>>
          /\ ustate \notin {"manual_menu", "manual_group_menu", "address_menu"}
        BY <1>3 DEF RouteChosen
    <2>2. LiveInv' /\ ustate' = ustate
        BY <1>0, <2>1, UpdateStep
    <2>3. h'.next = ustate
        BY <1>0, <2>1, EnterSteady
    <2> QED BY <1>0, <2>1, <2>2, <2>3 DEF TelegramInv, TelegramMenusInv, GroupFitsMenu
<1>4. CASE LeaveLiveRoute \/ LiveMenuInput \/ ForwardableSession
    <2>1. PICK text : LiveUpdate(text, "root")
        BY <1>4 DEF LeaveLiveRoute, LiveMenuInput, ForwardableSession
    <2>2. LiveInv' /\ ustate' = ustate
        BY <1>0, <2>1, UpdateStep
    <2>3. h'.next \in {ustate, "root"} /\ ustate = Live
        BY <1>0, <2>1, UpdateSteady
    <2>4. UNCHANGED chosen
        BY <1>4 DEF LeaveLiveRoute, LiveMenuInput, ForwardableSession, Same
    <2> QED BY <1>0, <2>2, <2>3, <2>4 DEF TelegramInv, TelegramMenusInv, GroupFitsMenu, Live
<1>5. CASE GroupingSet
    <2>1. /\ UNCHANGED <<sess, newest, pend, inbox, remote, jobs, h, w, sent, undone>>
          /\ UNCHANGED ustate
          /\ chosen' = chosen \/ chosen' = FALSE
        BY <1>5 DEF GroupingSet, rowVars, seenVars
    <2>2. LiveInv'
        BY <1>0, <2>1, MenuStep
    <2> QED BY <1>0, <2>1, <2>2 DEF TelegramInv, TelegramMenusInv, GroupFitsMenu
<1>6. CASE Handler /\ Same
    <2>1. LiveInv' /\ Leads /\ h.pc # "idle" /\ UNCHANGED chosen
        BY <1>0, <1>6, HandlerStep DEF Same
    <2>2. CASE ustate' = ustate /\ (h'.pc = "idle" \/ h'.next \in {h.next, Live})
        BY <1>0, <2>1, <2>2 DEF TelegramInv, TelegramMenusInv, GroupFitsMenu, Live
    <2>3. CASE ustate' = h.next /\ h'.pc = "idle"
        BY <1>0, <2>1, <2>3 DEF TelegramInv, TelegramMenusInv, GroupFitsMenu
    <2> QED BY <2>1, <2>2, <2>3 DEF Leads
<1>7. CASE (Webhook \/ Crash \/ Agents) /\ Same
    <2>1. /\ LiveInv' /\ ustate' = ustate /\ UNCHANGED chosen
          /\ h'.pc = "idle" \/ (h'.pc = h.pc /\ h'.next = h.next)
        BY <1>0, <1>7, WebhookStep, AgentsStep, CrashStep DEF Same
    <2> QED BY <1>0, <2>1 DEF TelegramInv, TelegramMenusInv, GroupFitsMenu
<1> QED BY <1>1, <1>2, <1>3, <1>4, <1>5, <1>6, <1>7
        DEF TelegramNext, RemoteStatus, ReusableSession, RouteSession, ForwardMessage,
            RecreateSession, AcceptedNotice, DeliverPayload, EnterLiveRoute, ReceiveWebhook,
            Handler, Webhook

----------------------------------------------------------------------------
(* What waits for a customer is handed over when he returns.               *)

\* Something was kept for the customer before he came back.
Waits(i) ==
    \E k \in DOMAIN pend : pend[k].s = i /\ pend[k].status = "pending" /\ ~pend[k].late

\* The session a customer's message finds: the one that is not resolved, or of
\* resolved ones the latest.
Front(i) ==
    \/ sess[i].status # "resolved"
    \/ \A j \in DOMAIN sess : sess[j].status = "resolved" /\ newest[i] <= newest[j]

\* The route was never linked to another inbox, as far as its conversations tell.
OneBox(rem) == \A c, d \in DOMAIN rem : rem[c].inbox = rem[d].inbox
Boxed(row, rem) == \E c \in DOMAIN rem : row.inbox = rem[c].inbox

\* Sessions are numbered from 1 and have a place each; a run changes only what it
\* says it does.
Counted(rem) ==
    /\ \E n \in 0..MaxConvs : DOMAIN sess = 1..n /\ n <= Len(rem)
    /\ \A i \in DOMAIN sess : newest[i] \in 1..MaxConvs /\ Boxed(sess[i], rem)
    /\ \A k \in DOMAIN pend : pend[k].s \in DOMAIN sess
    /\ w.pc # "idle" => /\ w.mine.status = w.base.status /\ w.mine.present = w.base.present
                        /\ w.mine.inbox = w.base.inbox
    /\ w.pc = "noticing" => w.mine.unread # w.base.unread

\* At most one session is not resolved.  A customer in the route finds a session
\* in which nothing waits, and in the menus none that is not resolved and in which
\* he is present.
SessInv ==
    /\ \A k \in DOMAIN pend :
          pend[k].status = "pending" /\ ~pend[k].late => ~sess[pend[k].s].present
    /\ \A i, j \in DOMAIN sess :
          sess[i].status # "resolved" /\ sess[j].status # "resolved" => i = j
    /\ \A i, j \in DOMAIN sess : Front(i) /\ Front(j) => i = j
    /\ \A i \in DOMAIN sess :
          Front(i) => IF ustate = Live THEN ~Waits(i)
                      ELSE sess[i].status # "resolved" => ~sess[i].present
    /\ w.pc \in {"accepting", "delivering"} => ~Waits(w.s)

\* The handler's copies, of types and numbered on.
Own(hh, rem) ==
    /\ Copied(hh) /\ DOMAIN hh.base = DOMAIN hh.mine /\ hh.locked \subseteq DOMAIN hh.mine
    /\ \A i \in DOMAIN hh.mine : hh.base[i] \in SessionRows /\ Boxed(hh.mine[i], rem)
    /\ \E n \in 0..MaxConvs : Ids(hh) = 1..n /\ n <= Len(rem)

\* Of the committed sessions the handler has one copy, and it is the session that
\* was found when the update was taken: what happened since is known.
Both(hh) == DOMAIN hh.mine \intersect DOMAIN sess
Copy(hh, i) ==
    /\ hh.base[i].status = "resolved" => sess[i].status = "resolved"
    /\ ~hh.base[i].present => ~sess[i].present
    /\ sess[i].status = "resolved" => \A j \in DOMAIN sess : sess[j].status = "resolved"
    /\ hh.mine[i].status = "resolved" /\ hh.base[i].status # "resolved" => ~hh.mine[i].present
    /\ hh.goal = "enter" => hh.base[i].status = "resolved" \/ ~hh.base[i].present
    /\ hh.goal # "enter" =>
          /\ ustate = Live /\ ~Waits(i)
          /\ ~hh.base[i].present => i \in hh.locked
Clean(hh, i) == i \notin hh.locked => hh.mine[i] = hh.base[i]
Kin(hh) ==
    /\ \A i, j \in Both(hh) : i = j
    /\ \A i \in Both(hh) :
          /\ Copy(hh, i)
          /\ (hh.pc = "replying" => hh.goal = "enter") => Clean(hh, i)

\* All sessions but the handler's own are resolved.
Others(hh) ==
    /\ hh.s \in DOMAIN hh.mine
    /\ hh.s \in DOMAIN sess => DOMAIN hh.mine \subseteq DOMAIN sess
    /\ \A i \in Ids(hh) : i # hh.s => StatusOf(hh, i) = "resolved"
Over(hh) == \A i \in Ids(hh) : StatusOf(hh, i) = "resolved"
\* Nothing was made of a session yet.
Unsettled(hh) ==
    /\ DOMAIN hh.mine \subseteq DOMAIN sess
    /\ \A i \in DOMAIN hh.mine : hh.mine[i].status = hh.base[i].status

\* Before the session is settled, and once it is.
Fit(hh) ==
    /\ hh.goal = "enter" =>
          /\ ustate # Live \/ DOMAIN sess = {}
          /\ DOMAIN hh.mine \subseteq DOMAIN sess
          /\ \A i \in Both(hh) : hh.mine[i].present =>
                hh.mine[i].status = "resolved" /\ hh.base[i].present
    /\ hh.goal # "enter" => ustate = Live /\ hh.next = Live
Asking(hh, rem) ==
    /\ Fit(hh)
    /\ hh.pc = "creating" =>
          /\ hh.stage = 2
          /\ (\A c \in DOMAIN rem : rem[c].inbox = hh.inbox) => Over(hh)
          /\ Over(hh) \/ Unsettled(hh)
    /\ hh.pc # "creating" =>
          Others(hh) /\ (hh.stage = 1 => hh.s \in DOMAIN sess /\ hh.goal # "enter")
Ready(hh) ==
    /\ Others(hh)
    /\ \/ hh.mine[hh.s].status # "resolved"
       \/ hh.s \in DOMAIN sess /\ hh.base[hh.s].status = "resolved" /\ hh.goal # "enter"
    /\ hh.goal = "enter" =>
          /\ ustate # Live \/ DOMAIN sess = {}
          /\ hh.next = Live
          /\ \A i \in Both(hh) : hh.mine[i].present <=> i = hh.s
          /\ \A k \in DOMAIN pend :
                pend[k].s = hh.s /\ pend[k].status = "pending" => k \in hh.rows \union hh.done
    /\ hh.goal # "enter" =>
          ustate = Live /\ (hh.next = Live \/ (hh.s \in DOMAIN sess /\ ~hh.mine[hh.s].present))
Going(hh, rem) ==
    /\ hh.pc \in {"creating", "checking", "toggling"} => Asking(hh, rem)
    /\ hh.pc \in {"posting", "accepting", "draining", "replying"} => Ready(hh)
    /\ hh.pc = "posting" => hh.goal # "enter" /\ hh.next = Live
    /\ hh.pc \in {"accepting", "draining"} => hh.goal = "enter"
    /\ hh.pc = "replying" => IF hh.goal = "enter" THEN hh.rows = {} ELSE hh.s \in DOMAIN sess

Returning(hh, rem) ==
    /\ Counted(rem) /\ SessInv /\ Own(hh, rem) /\ Kin(hh) /\ Going(hh, rem)
    /\ hh.pc \in {"idle", "creating"} => DOMAIN hh.mine = {}
ReturnInv == LiveInv /\ (OneBox(remote) => Returning(h, remote))

----------------------------------------------------------------------------
(* The orders of sessions.                                                 *)

LEMMA PlacesOrdered ==
    ASSUME NEW order, IsFiniteSet(DOMAIN order), \A i \in DOMAIN order : order[i] \in Nat
    PROVE  /\ \A i \in DOMAIN order : Places(order)[i] \in 1..Cardinality(DOMAIN order)
           /\ \A i, j \in DOMAIN order :
                order[i] <= order[j] => Places(order)[i] <= Places(order)[j]
           /\ \A i, j \in DOMAIN order :
                order[i] < order[j] => Places(order)[i] < Places(order)[j]
<1> DEFINE D == DOMAIN order
           B(i) == {j \in D : order[j] <= order[i]}
<1>1. \A i \in D : Places(order)[i] = Cardinality(B(i))
    BY DEF Places
<1>2. \A i \in D : B(i) \subseteq D /\ i \in B(i) /\ IsFiniteSet(B(i))
    <2> TAKE i \in D
    <2>1. B(i) \subseteq D /\ i \in B(i)
        OBVIOUS
    <2> QED BY <2>1, FS_Subset
<1>3. \A i, j \in D : order[i] <= order[j] => B(i) \subseteq B(j)
    OBVIOUS
<1>4. \A i, j \in D : order[i] < order[j] => j \notin B(i)
    OBVIOUS
<1> HIDE DEF B, D
<1>5. \A i \in D : Cardinality(B(i)) \in Nat /\ Cardinality(B(i)) <= Cardinality(D)
                   /\ Cardinality(B(i)) # 0
    <2> TAKE i \in D
    <2>1. Cardinality(B(i)) \in Nat /\ Cardinality(B(i)) <= Cardinality(D)
        BY <1>2, FS_Subset, FS_CardinalityType DEF D
    <2>2. Cardinality(B(i)) # 0
        BY <1>2, FS_EmptySet
    <2> QED BY <2>1, <2>2
<1>6. \A i, j \in D : order[i] <= order[j] => Cardinality(B(i)) <= Cardinality(B(j))
    BY <1>2, <1>3, FS_Subset
<1>7. \A i, j \in D : order[i] < order[j] => Cardinality(B(i)) < Cardinality(B(j))
    <2> SUFFICES ASSUME NEW i \in D, NEW j \in D, order[i] < order[j]
                 PROVE  Cardinality(B(i)) < Cardinality(B(j))
        OBVIOUS
    <2>1. B(i) \subseteq B(j) /\ j \in B(j) /\ j \notin B(i)
        BY <1>2, <1>3, <1>4 DEF D
    <2>2. Cardinality(B(i)) <= Cardinality(B(j)) /\ Cardinality(B(i)) # Cardinality(B(j))
        BY <1>2, <2>1, FS_Subset
    <2> QED BY <1>5, <2>2
<1>8. Cardinality(D) \in Nat
    BY FS_CardinalityType DEF D
<1> QED BY <1>1, <1>5, <1>6, <1>7, <1>8 DEF D

\* The first of some sessions is before every other.
LEMMA FirstIsLeast ==
    ASSUME NEW S, NEW order, S # {}, \A i \in S : order[i] \in Nat
    PROVE  First(S, order) \in S /\ \A j \in S : order[First(S, order)] <= order[j]
<1>1. PICK m \in {order[i] : i \in S} : \A k \in {order[i] : i \in S} : m <= k
    <2>1. {order[i] : i \in S} \subseteq Nat /\ {order[i] : i \in S} # {}
        OBVIOUS
    <2> QED BY <2>1, SmallestOf
<1>2. PICK i \in S : m = order[i]
    BY <1>1
<1>3. \A j \in S : order[i] <= order[j]
    BY <1>1, <1>2
<1> QED BY <1>3 DEF First

LEMMA MergeSays ==
    ASSUME NEW row \in SessionRows, NEW base, NEW mine
    PROVE  LET q == Merge(row, base, mine)
           IN /\ q.status = IF mine.status # base.status THEN mine.status ELSE row.status
              /\ q.present = IF mine.present # base.present THEN mine.present ELSE row.present
              /\ q.inbox = IF mine.inbox # base.inbox THEN mine.inbox ELSE row.inbox
<1>1. {"status", "present", "inbox"} \subseteq DOMAIN row
    BY DEF SessionRows
<1> QED BY <1>1 DEF Merge

----------------------------------------------------------------------------
(* A handler commits.                                                      *)

\* What it writes of each session.
LEMMA CommitWrites ==
    ASSUME SessTypes, NEW hh, WritesSessions(hh)
    PROVE  /\ DOMAIN sess' = Ids(hh)
           /\ \A i \in DOMAIN sess \ DOMAIN hh.mine : sess'[i] = sess[i]
           /\ \A i \in DOMAIN hh.mine \ DOMAIN sess : sess'[i] = hh.mine[i]
           /\ \A i \in Both(hh) :
                /\ sess'[i].status = IF hh.mine[i].status # hh.base[i].status
                                     THEN hh.mine[i].status ELSE sess[i].status
                /\ sess'[i].present = IF hh.mine[i].present # hh.base[i].present
                                      THEN hh.mine[i].present ELSE sess[i].present
                /\ sess'[i].inbox = IF hh.mine[i].inbox # hh.base[i].inbox
                                    THEN hh.mine[i].inbox ELSE sess[i].inbox
<1>1. sess' = [i \in Ids(hh) |->
             IF i \notin DOMAIN hh.mine THEN sess[i]
             ELSE IF i \notin DOMAIN sess THEN hh.mine[i]
             ELSE Merge(sess[i], hh.base[i], hh.mine[i])]
    BY DEF WritesSessions
<1>2. \A i \in Both(hh) : sess'[i] = Merge(sess[i], hh.base[i], hh.mine[i])
    BY <1>1 DEF Both, Ids
<1>3. \A i \in Both(hh) : sess[i] \in SessionRows
    BY DEF Both, SessTypes
<1>4. DOMAIN sess' = Ids(hh)
    BY <1>1
<1>5. \A i \in DOMAIN sess \ DOMAIN hh.mine : sess'[i] = sess[i]
    BY <1>1 DEF Ids
<1>6. \A i \in DOMAIN hh.mine \ DOMAIN sess : sess'[i] = hh.mine[i]
    BY <1>1 DEF Ids
<1> QED BY <1>2, <1>3, <1>4, <1>5, <1>6, MergeSays

\* Where it leaves them in the order: its own first, or as they were.
LEMMA CommitOrders ==
    ASSUME LiveAssumption, SessTypes, NEW rem, Counted(rem), NEW hh, Own(hh, rem),
           WritesSessions(hh)
    PROVE  /\ \A i \in DOMAIN sess' : newest'[i] \in 1..MaxConvs
           /\ \A s \in DOMAIN sess :
                DOMAIN hh.mine \subseteq DOMAIN sess
                /\ (\A i \in Both(hh) : i = s) =>
                   IF s \in Both(hh) /\ hh.mine[s] # hh.base[s]
                   THEN \A j \in DOMAIN sess : j # s => newest'[s] < newest'[j]
                   ELSE \A i, j \in DOMAIN sess : newest'[i] <= newest'[j] => newest[i] <= newest[j]
           /\ ~(DOMAIN hh.mine \subseteq DOMAIN sess) =>
                \E n \in DOMAIN sess' \ DOMAIN sess :
                   \A j \in DOMAIN sess' : j # n => newest'[n] < newest'[j]
<1> DEFINE dirty == {i \in DOMAIN hh.mine : hh.mine[i] # hh.base[i]}
           f == [hh EXCEPT !.locked = dirty]
           order == Order(f)
<1>1. newest' = Places(order) /\ DOMAIN sess' = Ids(hh)
    BY DEF WritesSessions
<1>2. Copied(hh) /\ DOMAIN f = Fields /\ f.mine = hh.mine /\ f.locked = dirty /\ f.inbox = hh.inbox
    BY DEF Own, Copied, Fields
<1>3. Copied(f) /\ Ids(f) = Ids(hh)
    BY <1>2 DEF Copied, Ids
<1> HIDE DEF f
<1>4. DOMAIN order = Ids(hh) /\ \A i \in Ids(hh) : order[i] \in Nat
    BY <1>3, OrderCounts DEF Order
<1>5. PICK n \in 0..MaxConvs : Ids(hh) = 1..n
    BY DEF Own
<1>6. IsFiniteSet(Ids(hh)) /\ Cardinality(Ids(hh)) = n /\ MaxConvs \in Nat
    BY <1>5, FS_Interval DEF LiveAssumption
<1>7. \A i \in DOMAIN sess :
          order[i] = (IF i \in dirty THEN MaxConvs ELSE 2 * MaxConvs) + newest[i]
    BY <1>2, <1>3 DEF Order, Ids
<1>8. \A i \in DOMAIN sess : newest[i] \in 1..MaxConvs /\ i \in Ids(hh)
    BY DEF Counted, Ids
<1> HIDE DEF order
<1>9. /\ \A i \in Ids(hh) : newest'[i] \in 1..n
      /\ \A i, j \in Ids(hh) : order[i] <= order[j] => newest'[i] <= newest'[j]
      /\ \A i, j \in Ids(hh) : order[i] < order[j] => newest'[i] < newest'[j]
    BY <1>1, <1>4, <1>6, PlacesOrdered
<1>10. \A i \in DOMAIN sess' : newest'[i] \in 1..MaxConvs
    BY <1>1, <1>5, <1>6, <1>9
<1>11. ASSUME NEW s \in DOMAIN sess, \A i \in Both(hh) : i = s
       PROVE  IF s \in Both(hh) /\ hh.mine[s] # hh.base[s]
              THEN \A j \in DOMAIN sess : j # s => newest'[s] < newest'[j]
              ELSE \A i, j \in DOMAIN sess : newest'[i] <= newest'[j] => newest[i] <= newest[j]
    <2>1. \A i \in DOMAIN sess : i \in dirty <=> i = s /\ s \in Both(hh) /\ hh.mine[s] # hh.base[s]
        BY <1>11 DEF Both
    <2> HIDE DEF dirty
    <2>2. CASE s \in Both(hh) /\ hh.mine[s] # hh.base[s]
        <3>1. \A j \in DOMAIN sess : j # s => order[s] < order[j]
            BY <1>6, <1>7, <1>8, <2>1, <2>2
        <3> QED BY <1>8, <1>9, <2>2, <3>1
    <2>3. CASE ~(s \in Both(hh) /\ hh.mine[s] # hh.base[s])
        <3>1. \A i \in DOMAIN sess : order[i] = 2 * MaxConvs + newest[i]
            BY <1>7, <2>1, <2>3
        <3>2. \A i, j \in DOMAIN sess : newest[j] < newest[i] => order[j] < order[i]
            BY <1>6, <1>8, <3>1
        <3>3. \A i, j \in DOMAIN sess : newest'[j] < newest'[i] \/ newest[i] <= newest[j]
            BY <1>8, <1>9, <3>2
        <3>4. \A i, j \in DOMAIN sess : newest'[i] <= newest'[j] => newest[i] <= newest[j]
            BY <1>5, <1>6, <1>8, <1>9, <3>3
        <3> QED BY <2>3, <3>4
    <2> QED BY <2>2, <2>3
\* Of the sessions it made, the last comes first.
<1>12. ASSUME ~(DOMAIN hh.mine \subseteq DOMAIN sess)
       PROVE  \E m \in DOMAIN sess' \ DOMAIN sess :
                 \A j \in DOMAIN sess' : j # m => newest'[m] < newest'[j]
    <2>1. PICK a \in 0..MaxConvs : DOMAIN sess = 1..a
        BY DEF Counted
    <2>2. n \in Ids(hh) /\ n \notin DOMAIN sess /\ n \in DOMAIN hh.mine
          /\ Ids(hh) \subseteq 1..n
        BY <1>5, <1>6, <1>12, <2>1 DEF Ids
    <2> DEFINE later(i) == {j \in DOMAIN hh.mine : j > i}
    <2>3. \A i \in Ids(hh) \ DOMAIN sess : order[i] = Cardinality(later(i))
        BY <1>2, <1>3 DEF order, Order
    <2>4. later(n) = {}
        BY <1>6, <2>2 DEF Ids
    <2>5. \A i \in Ids(hh) \ DOMAIN sess : i # n => Cardinality(later(i)) # 0 /\ Cardinality(later(i)) \in Nat
        <3> SUFFICES ASSUME NEW i \in Ids(hh) \ DOMAIN sess, i # n
                     PROVE  Cardinality(later(i)) # 0 /\ Cardinality(later(i)) \in Nat
            OBVIOUS
        <3>1. later(i) \subseteq Ids(hh) /\ n \in later(i)
            BY <1>6, <2>2 DEF Ids
        <3> HIDE DEF later
        <3>2. IsFiniteSet(later(i))
            BY <1>6, <3>1, FS_Subset
        <3> QED BY <3>1, <3>2, FS_EmptySet, FS_CardinalityType
    <2> HIDE DEF later
    <2>6. order[n] = 0 /\ \A j \in Ids(hh) : j # n => order[j] > 0
        <3>1. order[n] = 0
            BY <2>2, <2>3, <2>4, FS_EmptySet
        <3>2. \A j \in Ids(hh) \ DOMAIN sess : j # n => order[j] > 0
            BY <2>3, <2>5
        <3>3. \A j \in DOMAIN sess : order[j] > 0
            BY <1>6, <1>7, <1>8
        <3> QED BY <3>1, <3>2, <3>3
    <2> QED BY <1>1, <1>9, <2>2, <2>6
<1> QED BY <1>10, <1>11, <1>12

LEMMA CommitReturns ==
    ASSUME LiveAssumption, LiveTypes, NEW rem, Counted(rem), SessInv,
           NEW hh, Own(hh, rem), Committed(hh), w' = w, Ready(hh),
           \A i, j \in Both(hh) : i = j,
           \A i \in Both(hh) : Copy(hh, i) /\ (i # hh.s => Clean(hh, i)),
           hh.goal = "enter" => hh.rows = {}
    PROVE  SessInv'
<1> DEFINE s == hh.s
           F(i) == \/ sess'[i].status # "resolved"
                   \/ \A j \in DOMAIN sess' : sess'[j].status = "resolved" /\ newest'[i] <= newest'[j]
<1>0. SessTypes /\ pend \in Seq(KeptRows) /\ WritesSessions(hh)
    BY DEF LiveTypes, Committed
<1>1. /\ DOMAIN sess' = Ids(hh) /\ Ids(hh) = DOMAIN sess \union DOMAIN hh.mine
      /\ \A i \in DOMAIN sess \ DOMAIN hh.mine : sess'[i] = sess[i]
      /\ \A i \in DOMAIN hh.mine \ DOMAIN sess : sess'[i] = hh.mine[i]
      /\ \A i \in Both(hh) :
           /\ sess'[i].status = IF hh.mine[i].status # hh.base[i].status
                                THEN hh.mine[i].status ELSE sess[i].status
           /\ sess'[i].present = IF hh.mine[i].present # hh.base[i].present
                                 THEN hh.mine[i].present ELSE sess[i].present
    BY <1>0, CommitWrites DEF Ids
<1>2. /\ ustate' = hh.next /\ DOMAIN pend' = DOMAIN pend
      /\ \A k \in DOMAIN pend :
           /\ pend'[k].s = pend[k].s /\ pend'[k].late = pend[k].late
           /\ pend'[k].status = "pending" => pend[k].status = "pending" /\ k \notin hh.done
    <2>1. /\ ustate' = hh.next
          /\ pend' = [k \in DOMAIN pend |->
                IF k \in hh.done THEN [pend[k] EXCEPT !.status = "delivered"] ELSE pend[k]]
        BY DEF Committed
    <2>2. \A k \in DOMAIN pend : pend[k] \in KeptRows
        BY <1>0
    <2>3. \A k \in DOMAIN pend :
             LET q == [pend[k] EXCEPT !.status = "delivered"]
             IN q.s = pend[k].s /\ q.late = pend[k].late /\ q.status = "delivered"
        BY <2>2 DEF KeptRows
    <2> QED BY <2>1, <2>3
<1>3. s \in DOMAIN hh.mine /\ (s \in DOMAIN sess <=> s \in Both(hh)) /\ Both(hh) \subseteq DOMAIN sess
      /\ Both(hh) \subseteq DOMAIN hh.mine /\ hh.locked \subseteq DOMAIN hh.mine
    BY DEF Ready, Others, Both, Own
\* Only the handler's own session may be open now.
<1>4. \A i \in DOMAIN sess' : i # s => sess'[i].status = "resolved"
    <2> SUFFICES ASSUME NEW i \in Ids(hh), i # s PROVE sess'[i].status = "resolved"
        BY <1>1
    <2>1. StatusOf(hh, i) = "resolved"
        BY DEF Ready, Others
    <2>2. CASE i \notin DOMAIN sess
        BY <1>1, <2>1, <2>2 DEF StatusOf
    <2>3. CASE i \in DOMAIN sess \ DOMAIN hh.mine
        BY <1>1, <1>3, <2>1, <2>3 DEF StatusOf
    <2>4. CASE i \in Both(hh)
        <3>1. Copy(hh, i) /\ Clean(hh, i)
            BY <2>4
        <3>2. CASE i \in hh.locked
            BY <1>1, <2>1, <2>4, <3>1, <3>2 DEF StatusOf, Copy
        <3>3. CASE i \notin hh.locked
            BY <1>1, <1>3, <2>1, <2>4, <3>1, <3>3 DEF StatusOf, Clean
        <3> QED BY <3>2, <3>3
    <2> QED BY <1>1, <2>2, <2>3, <2>4 DEF Both
\* The session that will be found is the handler's own, or it wrote nothing.
<1>5. \/ \A i \in DOMAIN sess' : F(i) => i = s
      \/ /\ s \in DOMAIN sess /\ DOMAIN sess' = DOMAIN sess /\ hh.mine[s] = hh.base[s]
         /\ \A i \in DOMAIN sess : F(i) => Front(i)
    <2>1. CASE sess'[s].status # "resolved"
        BY <1>1, <1>3, <1>4, <2>1
    <2>2. CASE sess'[s].status = "resolved"
        <3>1. s \in DOMAIN sess
            BY <1>1, <1>3, <2>2 DEF Ready
        <3>2. DOMAIN hh.mine \subseteq DOMAIN sess /\ DOMAIN sess' = DOMAIN sess
            BY <1>1, <3>1 DEF Ready, Others
        <3>3. \A i \in Both(hh) : i = s
            BY <1>3, <3>1
        <3>4. \A i \in DOMAIN sess : newest'[i] \in 1..MaxConvs
            BY <1>0, <3>2, CommitOrders
        <3>5. IF hh.mine[s] # hh.base[s]
              THEN \A j \in DOMAIN sess : j # s => newest'[s] < newest'[j]
              ELSE \A i, j \in DOMAIN sess : newest'[i] <= newest'[j] => newest[i] <= newest[j]
            BY <1>0, <1>3, <3>1, <3>2, <3>3, CommitOrders
        <3>6. CASE hh.mine[s] # hh.base[s]
            BY <1>4, <2>2, <3>1, <3>2, <3>4, <3>5, <3>6
        <3>7. CASE hh.mine[s] = hh.base[s]
            <4>1. \A i \in DOMAIN sess : sess'[i].status = sess[i].status
                BY <1>1, <1>3, <3>3, <3>7 DEF Both
            <4>2. \A i \in DOMAIN sess : F(i) => Front(i)
                BY <2>2, <3>1, <3>2, <3>5, <3>7, <4>1 DEF Front
            <4> QED BY <3>1, <3>2, <3>7, <4>2
        <3> QED BY <3>6, <3>7
    <2> QED BY <2>1, <2>2
<1>6. \A i, j \in DOMAIN sess' : F(i) /\ F(j) => i = j
    BY <1>5 DEF SessInv
<1>7. \A i, j \in DOMAIN sess' : sess'[i].status # "resolved" /\ sess'[j].status # "resolved" => i = j
    BY <1>4
\* Nobody returns to what waits: rows of the sessions it marked are done.
<1>8. \A k \in DOMAIN pend :
         pend'[k].status = "pending" /\ ~pend'[k].late => ~sess'[pend'[k].s].present
    <2> SUFFICES ASSUME NEW k \in DOMAIN pend, pend'[k].status = "pending", ~pend'[k].late,
                        sess'[pend'[k].s].present
                 PROVE  FALSE
        OBVIOUS
    <2> DEFINE i == pend[k].s
    <2>1. /\ i \in DOMAIN sess /\ pend[k].status = "pending" /\ ~pend[k].late /\ k \notin hh.done
          /\ pend'[k].s = i
        BY <1>2 DEF Counted
    <2>2. ~sess[i].present
        BY <2>1 DEF SessInv
    <2>3. i \in Both(hh)
        BY <1>1, <2>1, <2>2 DEF Both
    <2>4. hh.mine[i].present
        BY <1>1, <2>1, <2>2, <2>3
    <2>5. Copy(hh, i) /\ Waits(i)
        BY <2>1, <2>3 DEF Waits
    <2>6. hh.goal = "enter"
        BY <2>5 DEF Copy
    <2>7. i = s /\ k \in hh.rows \union hh.done
        BY <2>1, <2>3, <2>4, <2>6 DEF Ready
    <2> QED BY <2>1, <2>6, <2>7
<1>9. \A i \in DOMAIN sess' : F(i) =>
         IF hh.next = Live
         THEN \A k \in DOMAIN pend :
                 ~(pend'[k].s = i /\ pend'[k].status = "pending" /\ ~pend'[k].late)
         ELSE sess'[i].status # "resolved" => ~sess'[i].present
    <2> SUFFICES ASSUME NEW i \in DOMAIN sess', F(i)
                 PROVE  IF hh.next = Live
                        THEN \A k \in DOMAIN pend :
                                ~(pend'[k].s = i /\ pend'[k].status = "pending" /\ ~pend'[k].late)
                        ELSE sess'[i].status # "resolved" => ~sess'[i].present
        OBVIOUS
    <2>1. i = s \/ (s \in Both(hh) /\ hh.mine[s] = hh.base[s] /\ i \in DOMAIN sess /\ Front(i) /\ i # s)
        BY <1>3, <1>5
    <2>2. CASE hh.next = Live
        <3> SUFFICES ASSUME NEW k \in DOMAIN pend, pend'[k].s = i, pend'[k].status = "pending",
                            ~pend'[k].late
                     PROVE  FALSE
            BY <2>2
        <3>1. /\ pend[k].s = i /\ i \in DOMAIN sess /\ pend[k].status = "pending" /\ ~pend[k].late
              /\ k \notin hh.done /\ Waits(i)
            BY <1>2 DEF Counted, Waits
        <3>2. CASE hh.goal = "enter"
            <4>1. i # s
                BY <3>1, <3>2 DEF Ready
            <4>2. s \in Both(hh) /\ hh.mine[s] = hh.base[s]
                BY <2>1, <4>1
            <4> QED BY <3>2, <4>2 DEF Ready, Copy
        <3>3. CASE hh.goal # "enter"
            <4>1. ustate = Live
                BY <3>3 DEF Ready
            <4>2. i # s
                BY <1>3, <3>1, <3>3 DEF Copy
            <4> QED BY <2>1, <3>1, <4>1, <4>2 DEF SessInv
        <3> QED BY <3>2, <3>3
    <2>3. CASE hh.next # Live
        <3>1. hh.goal # "enter" /\ s \in Both(hh) /\ ~hh.mine[s].present
            BY <1>3, <2>3 DEF Ready
        <3>2. CASE i = s
            BY <1>1, <2>3, <3>1, <3>2 DEF Copy
        <3>3. CASE i # s
            BY <1>4, <2>3, <3>3
        <3> QED BY <3>2, <3>3
    <2> QED BY <2>2, <2>3
<1>10. w.pc \in {"accepting", "delivering"} =>
          \A k \in DOMAIN pend :
             ~(pend'[k].s = w.s /\ pend'[k].status = "pending" /\ ~pend'[k].late)
    BY <1>2 DEF SessInv, Waits
<1> QED BY <1>1, <1>2, <1>6, <1>7, <1>8, <1>9, <1>10 DEF SessInv, Front, Waits

\* Conversations are added; whose inbox they are in stays.
Grown(rem) ==
    /\ Len(remote) \in Nat /\ Len(rem) \in Nat /\ Len(remote) <= Len(rem)
    /\ \A c \in DOMAIN remote : c \in DOMAIN rem /\ rem[c].inbox = remote[c].inbox

LEMMA GrowthKeeps ==
    ASSUME LiveAssumption, NEW rem, Grown(rem)
    PROVE  /\ Counted(remote) => Counted(rem)
           /\ OneBox(rem) => OneBox(remote)
           /\ \A hh : Own(hh, remote) => Own(hh, rem)
           /\ \A hh : Going(hh, remote) => Going(hh, rem)
<1>1. \A row : Boxed(row, remote) => Boxed(row, rem)
    BY DEF Boxed, Grown
<1>2. \A n \in 0..MaxConvs : n <= Len(remote) => n <= Len(rem)
    BY DEF Grown, LiveAssumption
<1>3. Counted(remote) => Counted(rem)
    BY <1>1, <1>2 DEF Counted
<1>4. OneBox(rem) => OneBox(remote)
    BY DEF OneBox, Grown
<1>5. \A hh : Own(hh, remote) => Own(hh, rem)
    BY <1>1, <1>2 DEF Own
<1>6. \A hh : Going(hh, remote) => Going(hh, rem)
    BY DEF Going, Asking, Grown
<1> QED BY <1>3, <1>4, <1>5, <1>6

\* What is written is numbered on, and each of it has its place.
LEMMA WritesCount ==
    ASSUME LiveAssumption, LiveTypes, NEW rem, Counted(rem), NEW hh, Own(hh, rem),
           WritesSessions(hh), w' = w, DOMAIN pend' = DOMAIN pend,
           \A k \in DOMAIN pend : pend'[k].s = pend[k].s
    PROVE  Counted(rem)'
<1>1. SessTypes
    BY DEF LiveTypes
<1>2. /\ DOMAIN sess' = Ids(hh) /\ Ids(hh) = DOMAIN sess \union DOMAIN hh.mine
      /\ \A i \in DOMAIN sess \ DOMAIN hh.mine : sess'[i] = sess[i]
      /\ \A i \in DOMAIN hh.mine \ DOMAIN sess : sess'[i] = hh.mine[i]
      /\ \A i \in Both(hh) : sess'[i].inbox = IF hh.mine[i].inbox # hh.base[i].inbox
                                             THEN hh.mine[i].inbox ELSE sess[i].inbox
    BY <1>1, CommitWrites DEF Ids
<1>3. \A i \in DOMAIN sess' : newest'[i] \in 1..MaxConvs
    BY <1>1, CommitOrders
<1>4. \A i \in DOMAIN sess' : Boxed(sess'[i], rem)
    <2>1. \A i \in DOMAIN sess : Boxed(sess[i], rem)
        BY DEF Counted
    <2>2. \A i \in DOMAIN hh.mine : Boxed(hh.mine[i], rem)
        BY DEF Own
    <2> QED BY <1>2, <2>1, <2>2 DEF Both, Boxed
<1>5. \E n \in 0..MaxConvs : DOMAIN sess' = 1..n /\ n <= Len(rem)
    BY <1>2 DEF Own
<1>6. \A k \in DOMAIN pend' : pend'[k].s \in DOMAIN sess'
    BY <1>2 DEF Counted
<1> QED BY <1>3, <1>4, <1>5, <1>6 DEF Counted, Boxed

LEMMA CommitCounts ==
    ASSUME LiveAssumption, LiveTypes, NEW rem, Counted(rem), NEW hh, Own(hh, rem), Committed(hh),
           w' = w
    PROVE  Counted(rem)'
<1>1. pend \in Seq(KeptRows) /\ WritesSessions(hh)
    BY DEF LiveTypes, Committed
<1>2. pend' = [k \in DOMAIN pend |->
         IF k \in hh.done THEN [pend[k] EXCEPT !.status = "delivered"] ELSE pend[k]]
    BY DEF Committed
<1>3. \A k \in DOMAIN pend : [pend[k] EXCEPT !.status = "delivered"].s = pend[k].s
    BY <1>1 DEF KeptRows
<1>4. DOMAIN pend' = DOMAIN pend /\ \A k \in DOMAIN pend : pend'[k].s = pend[k].s
    BY <1>2, <1>3
<1> QED BY <1>1, <1>4, WritesCount

\* A handler that does nothing has no copies.
LEMMA IdleReturns ==
    ASSUME NEW rem, Counted(rem)', h' = NoHandler
    PROVE  Own(h, rem)' /\ Kin(h)' /\ Going(h, rem)' /\ DOMAIN h'.mine = {}
<1> DEFINE b == NoHandler
<1>1. /\ DOMAIN b = Fields /\ b.mine = <<>> /\ b.base = <<>> /\ b.locked = {} /\ b.pc = "idle"
    BY DEF NoHandler, Fields
<1>2. DOMAIN << >> = {}
    OBVIOUS
<1>3. Copied(b)
    BY IdleSteady
<1> HIDE DEF b
<1>4. DOMAIN b.mine = {} /\ DOMAIN b.base = {} /\ h' = b
    BY <1>1, <1>2 DEF b
<1>5. (DOMAIN b.mine) \intersect DOMAIN sess' = {} /\ DOMAIN sess' \union DOMAIN b.mine = DOMAIN sess'
    BY <1>4
<1>6. Own(h, rem)'
    BY <1>1, <1>3, <1>4, <1>5 DEF Own, Counted, Ids, Copied, Boxed
<1>7. Kin(h)' /\ Going(h, rem)'
    BY <1>1, <1>4, <1>5 DEF Kin, Going, Both
<1> QED BY <1>4, <1>6, <1>7

LEMMA CommitReturn ==
    ASSUME LiveAssumption, ReturnInv, LiveInv', Grown(remote'), w' = w,
           NEW hh, Committed(hh),
           OneBox(remote') =>
              /\ Own(hh, remote') /\ Ready(hh)
              /\ \A i, j \in Both(hh) : i = j
              /\ \A i \in Both(hh) : Copy(hh, i) /\ (i # hh.s => Clean(hh, i))
              /\ hh.goal = "enter" => hh.rows = {}
    PROVE  ReturnInv'
<1>1. PICK rem : rem = remote'
    OBVIOUS
<1> SUFFICES ASSUME OneBox(rem) PROVE Returning(h, rem)'
    BY <1>1 DEF ReturnInv, OneBox, Returning, Counted, SessInv, Own, Kin, Going, Boxed, Asking
<1>2. Counted(rem) /\ SessInv
    BY <1>1, GrowthKeeps DEF ReturnInv, Returning
<1>3. LiveTypes /\ Own(hh, rem)
    BY <1>1 DEF ReturnInv, LiveInv
<1>4. Counted(rem)'
    BY <1>2, <1>3, CommitCounts
<1>5. h' = NoHandler
    BY DEF Committed
<1>6. Own(h, rem)' /\ Kin(h)' /\ Going(h, rem)' /\ DOMAIN h'.mine = {}
    BY <1>4, <1>5, IdleReturns
<1>7. SessInv'
    BY <1>1, <1>2, <1>3, CommitReturns
<1> QED BY <1>4, <1>6, <1>7 DEF Returning

\* What is known stays where neither the rows nor the run of a webhook change.
LEMMA SameReturns ==
    ASSUME NEW rem, NEW g, Counted(rem), SessInv, Own(g, rem), Kin(g), Going(g, rem),
           g.pc \in {"idle", "creating"} => DOMAIN g.mine = {},
           UNCHANGED <<ustate, sess, newest, pend, w>>
    PROVE  Returning(g, rem)'
<1>1. Counted(rem)' /\ SessInv'
    <2>1. \A i : Front(i)' <=> Front(i)
        BY DEF Front
    <2>2. \A i : Waits(i)' <=> Waits(i)
        BY DEF Waits
    <2> QED BY <2>1, <2>2 DEF Counted, Boxed, SessInv
<1>2. Own(g, rem)' /\ Kin(g)' /\ Going(g, rem)'
    <2>1. \A i : Front(i)' <=> Front(i)
        BY DEF Front
    <2>2. \A i : Waits(i)' <=> Waits(i)
        BY DEF Waits
    <2>3. Own(g, rem)'
        BY DEF Own, Copied, Boxed, Ids
    <2>4. Kin(g)'
        BY <2>1, <2>2 DEF Kin, Both, Copy, Clean
    <2>5. Going(g, rem)'
        BY DEF Going, Asking, Ready, Fit, Over, Unsettled, Others, Both, Ids, StatusOf
    <2> QED BY <2>3, <2>4, <2>5
<1> QED BY <1>1, <1>2 DEF Returning

\* A step that changes neither the rows nor the run of a webhook.
LEMMA MovedReturn ==
    ASSUME LiveAssumption, ReturnInv, LiveInv', Grown(remote'),
           UNCHANGED <<ustate, sess, newest, pend, w>>,
           OneBox(remote') =>
              /\ Own(h', remote') /\ Kin(h') /\ Going(h', remote')
              /\ h'.pc \in {"idle", "creating"} => DOMAIN h'.mine = {}
    PROVE  ReturnInv'
<1>1. PICK rem : rem = remote'
    OBVIOUS
<1>2. PICK g : g = h'
    OBVIOUS
<1> SUFFICES ASSUME OneBox(rem) PROVE Returning(g, rem)'
    BY <1>1, <1>2 DEF ReturnInv, OneBox, Returning, Counted, SessInv, Own, Kin, Going, Boxed, Asking
<1>3. Counted(rem) /\ SessInv /\ Own(g, rem) /\ Kin(g) /\ Going(g, rem)
      /\ (g.pc \in {"idle", "creating"} => DOMAIN g.mine = {})
    BY <1>1, <1>2, GrowthKeeps DEF ReturnInv, Returning
<1> QED BY <1>3, SameReturns

\* The handler commits before it creates a conversation: what it made of the
\* sessions is known to all, and it keeps no copies.
LEMMA InnerReturns ==
    ASSUME LiveAssumption, LiveTypes, NEW rem, Counted(rem), SessInv,
           NEW g, Own(g, rem), Kin(g), Asking(g, rem), g.pc = "creating",
           WritesSessions(g), UNCHANGED <<ustate, pend, w>>,
           NEW f, f = [g EXCEPT !.mine = <<>>, !.base = <<>>, !.locked = {}]
    PROVE  Returning(f, rem)'
<1> DEFINE F(i) == \/ sess'[i].status # "resolved"
                   \/ \A j \in DOMAIN sess' : sess'[j].status = "resolved" /\ newest'[i] <= newest'[j]
<1>0. /\ SessTypes /\ Fit(g) /\ g.stage = 2
      /\ (\A c \in DOMAIN rem : rem[c].inbox = g.inbox) => Over(g)
      /\ Over(g) \/ Unsettled(g)
    BY DEF LiveTypes, Asking
<1>1. /\ DOMAIN sess' = Ids(g) /\ Ids(g) = DOMAIN sess \union DOMAIN g.mine
      /\ \A i \in DOMAIN sess \ DOMAIN g.mine : sess'[i] = sess[i]
      /\ \A i \in DOMAIN g.mine \ DOMAIN sess : sess'[i] = g.mine[i]
      /\ \A i \in Both(g) :
           /\ sess'[i].status = IF g.mine[i].status # g.base[i].status
                                THEN g.mine[i].status ELSE sess[i].status
           /\ sess'[i].present = IF g.mine[i].present # g.base[i].present
                                 THEN g.mine[i].present ELSE sess[i].present
    BY <1>0, CommitWrites DEF Ids
<1>2. /\ Both(g) = DOMAIN g.mine \intersect DOMAIN sess /\ g.locked \subseteq DOMAIN g.mine
      /\ \A i, j \in Both(g) : i = j
      /\ \A i \in Both(g) : Copy(g, i) /\ Clean(g, i)
      /\ \A i \in DOMAIN g.mine : g.mine[i] \in SessionRows /\ g.base[i] \in SessionRows
    BY DEF Kin, Both, Own, Copied
<1>3. \A i : Waits(i)' <=> Waits(i)
    BY DEF Waits
\* Whatever it gave up is resolved, and nothing else was settled.
<1>4. Over(g) => \A i \in DOMAIN sess' : sess'[i].status = "resolved"
    <2> SUFFICES ASSUME Over(g), NEW i \in Ids(g) PROVE sess'[i].status = "resolved"
        BY <1>1
    <2>1. StatusOf(g, i) = "resolved"
        BY DEF Over
    <2>2. CASE i \notin DOMAIN sess
        BY <1>1, <2>1, <2>2 DEF StatusOf
    <2>3. CASE i \in DOMAIN sess \ DOMAIN g.mine
        BY <1>1, <1>2, <2>1, <2>3 DEF StatusOf
    <2>4. CASE i \in Both(g)
        <3>1. Copy(g, i) /\ Clean(g, i)
            BY <1>2, <2>4
        <3>2. CASE i \in g.locked
            BY <1>1, <2>1, <2>4, <3>1, <3>2 DEF StatusOf, Copy
        <3>3. CASE i \notin g.locked
            BY <1>1, <1>2, <2>1, <2>4, <3>1, <3>3 DEF StatusOf, Clean
        <3> QED BY <3>2, <3>3
    <2> QED BY <1>1, <1>2, <2>2, <2>3, <2>4
<1>5. ~Over(g) => /\ DOMAIN sess' = DOMAIN sess
                  /\ \A i \in DOMAIN sess : sess'[i].status = sess[i].status
    BY <1>0, <1>1, <1>2 DEF Unsettled
\* He is not there where he was not, but for one who writes from the route.
<1>6. ASSUME NEW i \in DOMAIN sess, ~sess[i].present, sess'[i].present
      PROVE  i \in Both(g) /\ g.goal # "enter" /\ ustate = Live /\ ~Waits(i)
    <2>1. i \in Both(g) /\ g.mine[i].present # g.base[i].present /\ g.mine[i].present
        BY <1>1, <1>2, <1>6
    <2>2. g.mine[i].present \in BOOLEAN /\ g.base[i].present \in BOOLEAN
        BY <1>2, <2>1 DEF SessionRows
    <2>3. g.goal # "enter"
        BY <1>0, <2>1, <2>2 DEF Fit
    <2> QED BY <1>2, <2>1, <2>3 DEF Copy
<1>7. \A k \in DOMAIN pend : pend[k].status = "pending" /\ ~pend[k].late => ~sess'[pend[k].s].present
    <2> SUFFICES ASSUME NEW k \in DOMAIN pend, pend[k].status = "pending", ~pend[k].late,
                        sess'[pend[k].s].present
                 PROVE  FALSE
        OBVIOUS
    <2>1. pend[k].s \in DOMAIN sess /\ ~sess[pend[k].s].present /\ Waits(pend[k].s)
        BY DEF Counted, SessInv, Waits
    <2> QED BY <1>6, <2>1
<1>8. \A i, j \in DOMAIN sess' :
         sess'[i].status # "resolved" /\ sess'[j].status # "resolved" => i = j
    BY <1>4, <1>5 DEF SessInv
\* The session that will be found: nothing waits there.
<1>9. /\ \A i, j \in DOMAIN sess' : F(i) /\ F(j) => i = j
      /\ \A i \in DOMAIN sess' : F(i) =>
            IF ustate = Live THEN ~Waits(i)
            ELSE sess'[i].status # "resolved" => ~sess'[i].present
    <2>1. CASE \E u \in DOMAIN sess' : sess'[u].status # "resolved"
        <3>1. ~Over(g) /\ DOMAIN sess' = DOMAIN sess
              /\ \A i \in DOMAIN sess : sess'[i].status = sess[i].status
            BY <1>4, <1>5, <2>1
        <3>2. \A i \in DOMAIN sess' : F(i) => sess'[i].status # "resolved"
            BY <2>1
        <3>3. ASSUME NEW i \in DOMAIN sess, sess[i].status # "resolved"
              PROVE  IF ustate = Live THEN ~Waits(i) ELSE ~sess'[i].present
            <4>1. IF ustate = Live THEN ~Waits(i) ELSE ~sess[i].present
                BY <3>3 DEF SessInv, Front
            <4> QED BY <1>6, <4>1
        <3> QED BY <1>8, <3>1, <3>2, <3>3
    <2>2. CASE \A u \in DOMAIN sess' : sess'[u].status = "resolved"
        <3>1. \A i \in DOMAIN sess' : newest'[i] \in 1..MaxConvs
            BY <1>0, CommitOrders
        <3>2. CASE ~(DOMAIN g.mine \subseteq DOMAIN sess)
            <4>1. PICK n \in DOMAIN sess' \ DOMAIN sess :
                     \A j \in DOMAIN sess' : j # n => newest'[n] < newest'[j]
                BY <1>0, <3>2, CommitOrders
            <4>2. \A i \in DOMAIN sess' : F(i) => i = n
                BY <2>2, <3>1, <4>1
            <4>3. ~Waits(n)
                BY <4>1 DEF Waits, Counted
            <4> QED BY <2>2, <4>2, <4>3
        <3>3. CASE DOMAIN g.mine \subseteq DOMAIN sess
            <4>1. DOMAIN sess' = DOMAIN sess
                BY <1>1, <3>3
            <4>2. CASE \E s \in Both(g) : g.mine[s] # g.base[s]
                <5>1. PICK s \in Both(g) : g.mine[s] # g.base[s]
                    BY <4>2
                <5>2. s \in DOMAIN sess /\ \A j \in DOMAIN sess : j # s => newest'[s] < newest'[j]
                    BY <1>0, <1>2, <3>3, <5>1, CommitOrders
                <5>3. \A i \in DOMAIN sess' : F(i) => i = s
                    BY <2>2, <3>1, <4>1, <5>2
                <5>4. ustate = Live => ~Waits(s)
                    BY <1>0, <1>2, <5>1, <5>2 DEF Fit, Copy
                <5> QED BY <2>2, <5>3, <5>4
            <4>3. CASE \A s \in Both(g) : g.mine[s] = g.base[s]
                <5>1. \A i \in DOMAIN sess : sess[i].status = "resolved"
                    BY <1>1, <1>2, <2>2, <4>1, <4>3
                <5>2. ASSUME NEW s \in DOMAIN sess
                      PROVE  \A i, j \in DOMAIN sess : newest'[i] <= newest'[j] => newest[i] <= newest[j]
                    <6>1. CASE Both(g) = {}
                        BY <1>0, <3>3, <6>1, CommitOrders
                    <6>2. CASE Both(g) # {}
                        <7>1. PICK t \in Both(g) : TRUE
                            BY <6>2
                        <7>2. t \in DOMAIN sess /\ \A i \in Both(g) : i = t
                            BY <1>2, <7>1
                        <7> QED BY <1>0, <3>3, <4>3, <7>1, <7>2, CommitOrders
                    <6> QED BY <6>1, <6>2
                <5>3. \A i \in DOMAIN sess' : F(i) => Front(i)
                    BY <2>2, <4>1, <5>1, <5>2 DEF Front
                <5> QED BY <2>2, <4>1, <5>3 DEF SessInv
            <4> QED BY <4>2, <4>3
        <3> QED BY <3>2, <3>3
    <2> QED BY <2>1, <2>2
<1>10. SessInv'
    BY <1>3, <1>7, <1>8, <1>9 DEF SessInv, Front
<1>11. Counted(rem)'
    BY WritesCount
<1>12. DOMAIN << >> = {}
    OBVIOUS
<1>13. /\ DOMAIN f = Fields /\ DOMAIN f.mine = {} /\ DOMAIN f.base = {} /\ f.locked = {}
       /\ f.pc = "creating" /\ f.stage = 2 /\ f.goal = g.goal /\ f.next = g.next
       /\ f.inbox = g.inbox
    BY <1>0, <1>12 DEF Own, Copied, Fields
<1>14. Own(f, rem)'
    <2>1. Copied(f)
        BY <1>13, FS_EmptySet DEF Own, Copied
    <2>2. \E n \in 0..MaxConvs : DOMAIN sess' = 1..n /\ n <= Len(rem)
        BY <1>1 DEF Own
    <2>3. Ids(f)' = DOMAIN sess'
        BY <1>13 DEF Ids
    <2> QED BY <1>13, <2>1, <2>2, <2>3 DEF Own, Copied
<1>15. Both(f)' = {}
    BY <1>13 DEF Both
<1>16. Kin(f)'
    BY <1>15 DEF Kin
<1>17. Over(g) => Over(f)'
    BY <1>4, <1>13 DEF Over, Ids, StatusOf
<1>18. Fit(f)'
    <2>1. g.goal = "enter" => DOMAIN sess' = DOMAIN sess
        BY <1>0, <1>1 DEF Fit
    <2> QED BY <1>0, <1>13, <1>15, <2>1 DEF Fit
<1>19. Asking(f, rem)'
    <2>1. Unsettled(f)'
        BY <1>13 DEF Unsettled
    <2> QED BY <1>0, <1>13, <1>17, <1>18, <2>1 DEF Asking
<1>20. Going(f, rem)'
    BY <1>13, <1>19 DEF Going
<1> QED BY <1>10, <1>11, <1>13, <1>14, <1>16, <1>20 DEF Returning

\* The handler comes to an await.
Comes(g, rem) == g.pc # "idle" /\ Own(g, rem) /\ Kin(g) /\ Going(g, rem)
LEMMA ProceedReturn ==
    ASSUME LiveAssumption, ReturnInv, LiveInv', UNCHANGED <<ustate, pend, w, remote>>,
           OneBox(remote) => \E g : Proceeds(g) /\ Comes(g, remote)
    PROVE  ReturnInv'
<1>1. PICK rem : rem = remote
    OBVIOUS
<1>2. PICK f : f = h'
    OBVIOUS
<1> SUFFICES ASSUME OneBox(rem) PROVE Returning(f, rem)'
    BY <1>1, <1>2 DEF ReturnInv, OneBox, Returning, Counted, SessInv, Own, Kin, Going, Boxed, Asking
<1>3. PICK g : Proceeds(g) /\ Comes(g, rem)
    BY <1>1
<1>4. LiveTypes /\ Counted(rem) /\ SessInv
    BY <1>1 DEF ReturnInv, LiveInv, Returning
<1>5. Own(g, rem) /\ Kin(g) /\ Going(g, rem)
    BY <1>3 DEF Comes
<1>6. CASE g.pc = "creating"
    <2>1. /\ WritesSessions(g) /\ UNCHANGED <<ustate, pend, w>>
          /\ f = [g EXCEPT !.mine = <<>>, !.base = <<>>, !.locked = {}]
        BY <1>2, <1>3, <1>6 DEF Proceeds
    <2>2. Asking(g, rem)
        BY <1>5, <1>6 DEF Going
    <2> QED BY <1>4, <1>5, <1>6, <2>1, <2>2, InnerReturns
<1>7. CASE g.pc # "creating"
    <2>1. h' = g /\ UNCHANGED <<sess, newest>>
        BY <1>3, <1>7 DEF Proceeds
    <2>2. f = g /\ f.pc \notin {"idle", "creating"}
        BY <1>2, <1>3, <1>7, <2>1 DEF Comes
    <2> QED BY <1>4, <1>5, <2>1, <2>2, SameReturns
<1> QED BY <1>6, <1>7

\* The handler's own copy is set without a flush.
LEMMA Touched ==
    ASSUME NEW rem, NEW hh, Own(hh, rem), hh.s \in DOMAIN hh.mine,
           NEW row \in SessionRows, row.inbox = hh.mine[hh.s].inbox
    PROVE  LET g == [hh EXCEPT !.mine = [hh.mine EXCEPT ![hh.s] = row]]
           IN /\ Own(g, rem) /\ DOMAIN g.mine = DOMAIN hh.mine /\ Both(g) = Both(hh) /\ Ids(g) = Ids(hh)
              /\ g.mine[g.s] = row /\ \A i \in DOMAIN hh.mine : i # hh.s => g.mine[i] = hh.mine[i]
              /\ \A f \in Fields \ {"mine"} : g[f] = hh[f]
<1> DEFINE c == [hh.mine EXCEPT ![hh.s] = row]
           g == [hh EXCEPT !.mine = c]
<1>1. Copied(hh)
    BY DEF Own
<1>2. /\ DOMAIN c = DOMAIN hh.mine /\ c[hh.s] = row
      /\ \A i \in DOMAIN hh.mine : i # hh.s => c[i] = hh.mine[i]
      /\ \A i \in DOMAIN c : c[i] \in SessionRows
    BY <1>1 DEF Copied
<1>3. \A i \in DOMAIN c : Boxed(c[i], rem)
    BY <1>2 DEF Own, Boxed
<1> HIDE DEF c
<1>4. /\ DOMAIN g = Fields /\ g.mine = c /\ \A f \in Fields \ {"mine"} : g[f] = hh[f]
    BY <1>1 DEF Copied, Fields
<1> HIDE DEF g
<1>5. g.inbox = hh.inbox /\ g.base = hh.base /\ g.locked = hh.locked /\ g.pc = hh.pc /\ g.s = hh.s
    BY <1>4 DEF Fields
<1>6. Both(g) = Both(hh) /\ Ids(g) = Ids(hh)
    BY <1>2, <1>4 DEF Both, Ids
<1>7. Copied(g)
    BY <1>1, <1>2, <1>4, <1>5 DEF Copied
<1>8. Own(g, rem)
    BY <1>2, <1>3, <1>4, <1>5, <1>6, <1>7 DEF Own
<1> QED BY <1>2, <1>4, <1>5, <1>6, <1>8 DEF g, c

\* A copy that differs from one in what is not asked for is as ready to be written.
LEMMA TouchedReady ==
    ASSUME NEW hh, NEW g, Ready(hh), hh.locked \subseteq DOMAIN hh.mine,
           Both(g) = Both(hh), Ids(g) = Ids(hh), DOMAIN g.mine = DOMAIN hh.mine,
           \A i \in DOMAIN hh.mine : i # hh.s => g.mine[i] = hh.mine[i],
           \A f \in Fields \ {"mine"} : g[f] = hh[f],
           g.mine[g.s].status \in {"open", hh.mine[hh.s].status},
           g.mine[g.s].present = hh.mine[hh.s].present
    PROVE  /\ Ready(g)
           /\ \A i \in Both(hh) : Copy(hh, i) => Copy(g, i)
           /\ \A i \in Both(hh) : i # hh.s /\ Clean(hh, i) => Clean(g, i)
<1>1. /\ g.s = hh.s /\ g.base = hh.base /\ g.locked = hh.locked /\ g.goal = hh.goal
      /\ g.next = hh.next /\ g.rows = hh.rows /\ g.done = hh.done
    BY DEF Fields
<1>2. \A i \in Ids(hh) : i # hh.s => StatusOf(g, i) = StatusOf(hh, i)
    BY <1>1 DEF StatusOf, Ids
<1>3. Others(g)
    BY <1>1, <1>2 DEF Ready, Others
<1>4. Ready(g)
    BY <1>1, <1>3 DEF Ready, Both
<1>5. \A i \in Both(hh) : Copy(hh, i) => Copy(g, i)
    BY <1>1 DEF Both, Copy
<1>6. \A i \in Both(hh) : i # hh.s /\ Clean(hh, i) => Clean(g, i)
    BY <1>1 DEF Both, Clean
<1> QED BY <1>4, <1>5, <1>6

\* The copies of a handler, whatever else it notes.
LEMMA SameCopies ==
    ASSUME NEW rem, NEW hh, Own(hh, rem), NEW g, DOMAIN g = Fields,
           g.mine = hh.mine, g.base = hh.base, g.locked = hh.locked, g.inbox = hh.inbox
    PROVE  /\ Own(g, rem) /\ Ids(g) = Ids(hh) /\ Both(g) = Both(hh)
           /\ \A i : StatusOf(g, i) = StatusOf(hh, i)
           /\ \A i : Clean(g, i) <=> Clean(hh, i)
           /\ (g.goal = "enter" <=> hh.goal = "enter") => \A i : Copy(g, i) <=> Copy(hh, i)
<1>1. Copied(g) /\ Ids(g) = Ids(hh) /\ Both(g) = Both(hh)
    BY DEF Own, Copied, Ids, Both
<1>2. Own(g, rem)
    BY <1>1 DEF Own
<1>3. \A i : StatusOf(g, i) = StatusOf(hh, i)
    BY DEF StatusOf
<1>4. \A i : Clean(g, i) <=> Clean(hh, i)
    BY DEF Clean
<1>5. (g.goal = "enter" <=> hh.goal = "enter") => \A i : Copy(g, i) <=> Copy(hh, i)
    BY DEF Copy
<1> QED BY <1>1, <1>2, <1>3, <1>4, <1>5

\* A row is read.
LEMMA LoadOwns ==
    ASSUME SessTypes, NEW rem, Counted(rem), NEW hh, Own(hh, rem), NEW i \in Ids(hh)
    PROVE  LET g == Load(hh, i)
           IN /\ Own(g, rem) /\ Ids(g) = Ids(hh) /\ DOMAIN g.mine = DOMAIN hh.mine \union {i}
              /\ \A k \in DOMAIN hh.mine : g.mine[k] = hh.mine[k] /\ g.base[k] = hh.base[k]
              /\ i \notin DOMAIN hh.mine => i \in DOMAIN sess /\ g.mine[i] = sess[i] /\ g.base[i] = sess[i]
              /\ \A f \in Fields \ {"mine", "base"} : g[f] = hh[f]
              /\ \A k \in Ids(hh) : StatusOf(g, k) = StatusOf(hh, k)
<1>0. Copied(hh)
    BY DEF Own
<1>1. CASE i \in DOMAIN hh.mine
    <2>1. Load(hh, i) = hh
        BY <1>1 DEF Load
    <2> QED BY <1>1, <2>1
<1>2. CASE i \notin DOMAIN hh.mine
    <2>1. i \in Nat /\ i \in DOMAIN sess /\ sess[i] \in SessionRows
        BY <1>2 DEF SessTypes, Ids
    <2> DEFINE c == With(hh.mine, i, sess[i])
               b == With(hh.base, i, sess[i])
               g == [hh EXCEPT !.mine = c, !.base = b]
    <2>2. Load(hh, i) = g
        BY <1>2 DEF Load
    <2>3. /\ DOMAIN c = DOMAIN hh.mine \union {i} /\ DOMAIN c \subseteq Nat
          /\ IsFiniteSet(DOMAIN c) /\ \A k \in DOMAIN c : c[k] \in SessionRows
          /\ c[i] = sess[i] /\ \A k \in DOMAIN hh.mine : c[k] = hh.mine[k]
        <3>1. /\ DOMAIN hh.mine \subseteq Nat /\ IsFiniteSet(DOMAIN hh.mine)
              /\ \A k \in DOMAIN hh.mine : hh.mine[k] \in SessionRows
            BY <1>0 DEF Copied
        <3>2. /\ DOMAIN c = DOMAIN hh.mine \union {i} /\ DOMAIN c \subseteq Nat
              /\ IsFiniteSet(DOMAIN c) /\ \A k \in DOMAIN c : c[k] \in SessionRows
            BY <2>1, <3>1, WithTyped
        <3>3. c[i] = sess[i] /\ \A k \in DOMAIN hh.mine : c[k] = hh.mine[k]
            BY <1>2 DEF With
        <3> QED BY <3>2, <3>3
    <2>4. /\ DOMAIN b = DOMAIN hh.mine \union {i} /\ b[i] = sess[i]
          /\ \A k \in DOMAIN hh.mine : b[k] = hh.base[k]
        BY <1>2 DEF With, Own
    <2> HIDE DEF c, b
    <2>5. /\ DOMAIN g = Fields /\ g.mine = c /\ g.base = b
          /\ \A f \in Fields \ {"mine", "base"} : g[f] = hh[f]
        BY <1>0 DEF Copied, Fields
    <2> HIDE DEF g
    <2>6. g.locked = hh.locked /\ g.inbox = hh.inbox
        BY <2>5 DEF Fields
    <2>7. Ids(g) = Ids(hh)
        BY <2>1, <2>3, <2>5 DEF Ids
    <2>8. Copied(g)
        BY <1>0, <2>3, <2>5, <2>6 DEF Copied
    <2>9. \A k \in DOMAIN c : b[k] \in SessionRows /\ Boxed(c[k], rem)
        BY <1>2, <2>1, <2>3, <2>4 DEF Own, Counted, Boxed
    <2>10. Own(g, rem)
        BY <2>3, <2>4, <2>5, <2>6, <2>7, <2>8, <2>9 DEF Own
    <2>11. \A k \in Ids(hh) : StatusOf(g, k) = StatusOf(hh, k)
        <3>1. i \notin hh.locked
            BY <1>2 DEF Own
        <3> QED BY <2>1, <2>3, <2>5, <2>6, <3>1 DEF StatusOf, Ids, Own
    <2> QED BY <2>1, <2>2, <2>3, <2>4, <2>5, <2>7, <2>10, <2>11
<1> QED BY <1>1, <1>2

\* A row is flushed.
Stored(hh, g, i, row) ==
    /\ Ids(g) = Ids(hh) /\ Both(g) = Both(hh) /\ DOMAIN g.mine = DOMAIN hh.mine
    /\ g.mine[i] = row /\ \A k \in DOMAIN hh.mine : k # i => g.mine[k] = hh.mine[k]
    /\ g.locked = IF row # hh.base[i] THEN hh.locked \union {i} ELSE hh.locked
    /\ \A f \in Fields \ {"mine", "locked"} : g[f] = hh[f]
LEMMA SaveOwns ==
    ASSUME NEW rem, NEW hh, Own(hh, rem), NEW i \in DOMAIN hh.mine, NEW row \in SessionRows,
           row.inbox = hh.mine[i].inbox
    PROVE  Own(Save(hh, i, row), rem) /\ Stored(hh, Save(hh, i, row), i, row)
<1> DEFINE c == With(hh.mine, i, row)
           l == IF row # hh.base[i] THEN hh.locked \union {i} ELSE hh.locked
           g == [hh EXCEPT !.mine = c, !.locked = l]
<1>0. Copied(hh)
    BY DEF Own
<1>1. Save(hh, i, row) = g
    BY <1>0 DEF Save, Copied, Fields
<1>2. /\ DOMAIN c = DOMAIN hh.mine /\ c[i] = row
      /\ \A k \in DOMAIN hh.mine : k # i => c[k] = hh.mine[k]
    BY DEF With
<1>3. l \subseteq DOMAIN hh.mine
    BY DEF Own
<1>4. \A k \in DOMAIN hh.mine : c[k] \in SessionRows /\ Boxed(c[k], rem)
    <2>1. Boxed(row, rem)
        BY DEF Own, Boxed
    <2> QED BY <1>0, <1>2, <2>1 DEF Own, Copied
<1> HIDE DEF c
<1>5. /\ DOMAIN g = Fields /\ g.mine = c /\ g.locked = l
      /\ \A f \in Fields \ {"mine", "locked"} : g[f] = hh[f]
    BY <1>0 DEF Copied, Fields
<1> HIDE DEF g
<1>6. g.base = hh.base /\ g.inbox = hh.inbox
    BY <1>5 DEF Fields
<1>7. Ids(g) = Ids(hh) /\ Both(g) = Both(hh)
    BY <1>2, <1>5 DEF Ids, Both
<1>8. Copied(g)
    BY <1>0, <1>2, <1>4, <1>5, <1>6 DEF Copied
<1>9. Own(g, rem)
    BY <1>2, <1>3, <1>4, <1>5, <1>6, <1>7, <1>8 DEF Own
<1> QED BY <1>1, <1>2, <1>5, <1>7, <1>9 DEF Stored

\* What it then knows of the sessions.
LEMMA SaveKeeps ==
    ASSUME NEW rem, NEW hh, Own(hh, rem), NEW i \in DOMAIN hh.mine, NEW row \in SessionRows,
           row.inbox = hh.mine[i].inbox,
           \A k \in Both(hh) : Copy(hh, k) /\ Clean(hh, k),
           row.status = "resolved" => ~row.present
    PROVE  LET g == Save(hh, i, row)
           IN /\ \A k \in Both(hh) : Copy(g, k) /\ Clean(g, k)
              /\ \A k \in Ids(hh) : k # i => StatusOf(g, k) = StatusOf(hh, k)
              /\ StatusOf(g, i) = row.status \/ (i \in DOMAIN sess /\ i \notin g.locked /\ row = hh.base[i])
<1> DEFINE g == Save(hh, i, row)
<1>1. /\ Own(g, rem) /\ Ids(g) = Ids(hh) /\ Both(g) = Both(hh) /\ DOMAIN g.mine = DOMAIN hh.mine
      /\ g.mine[i] = row /\ \A k \in DOMAIN hh.mine : k # i => g.mine[k] = hh.mine[k]
      /\ g.locked = IF row # hh.base[i] THEN hh.locked \union {i} ELSE hh.locked
      /\ \A f \in Fields \ {"mine", "locked"} : g[f] = hh[f]
    BY SaveOwns DEF Stored
<1> HIDE DEF g
<1>2. g.base = hh.base /\ g.goal = hh.goal
    BY <1>1 DEF Fields
<1>3. \A k \in Both(hh) : Copy(g, k)
    BY <1>1, <1>2 DEF Both, Copy
<1>4. \A k \in Both(hh) : Clean(g, k)
    BY <1>1, <1>2 DEF Both, Clean
<1>5. \A k \in Ids(hh) : k # i => StatusOf(g, k) = StatusOf(hh, k)
    BY <1>1 DEF StatusOf, Ids, Own
<1>6. StatusOf(g, i) = row.status \/ (i \in DOMAIN sess /\ i \notin g.locked /\ row = hh.base[i])
    BY <1>1 DEF StatusOf
<1> QED BY <1>3, <1>4, <1>5, <1>6 DEF g

\* What _get_or_open_route_session finds.
LEMMA RouteFound ==
    ASSUME LiveAssumption, SessTypes, NEW rem, NEW hh, Own(hh, rem)
    PROVE  LET c == RouteSessionOf(hh)
           IN /\ c = 0 => Over(hh)
              /\ c # 0 => /\ c \in Ids(hh)
                          /\ \/ StatusOf(hh, c) # "resolved"
                             \/ /\ hh.reopen /\ Over(hh)
                                /\ \A j \in Ids(hh) : Order(hh)[c] <= Order(hh)[j]
<1> DEFINE unresolved == {i \in Ids(hh) : StatusOf(hh, i) # "resolved"}
           order == Order(hh)
           c == RouteSessionOf(hh)
<1>1. c = IF unresolved # {} THEN First(unresolved, order)
          ELSE IF hh.reopen /\ Ids(hh) # {} THEN First(Ids(hh), order) ELSE 0
    BY DEF RouteSessionOf
<1>2. Copied(hh) /\ \A i \in Ids(hh) : i # 0
    BY DEF Own
<1>3. \A i \in Ids(hh) : order[i] \in Nat
    BY <1>2, OrderCounts
<1> HIDE DEF c, order
<1>4. CASE unresolved # {}
    <2>1. \A i \in unresolved : order[i] \in Nat
        BY <1>3
    <2>2. unresolved \subseteq Ids(hh) /\ \A i \in unresolved : StatusOf(hh, i) # "resolved"
        OBVIOUS
    <2> HIDE DEF unresolved
    <2>3. c \in unresolved
        BY <1>1, <1>4, <2>1, FirstIsLeast
    <2> QED BY <1>2, <2>2, <2>3 DEF c
<1>5. CASE unresolved = {} /\ hh.reopen /\ Ids(hh) # {}
    <2>1. c \in Ids(hh) /\ \A j \in Ids(hh) : order[c] <= order[j]
        BY <1>1, <1>3, <1>5, FirstIsLeast
    <2> QED BY <1>2, <1>5, <2>1 DEF Over, c, order
<1>6. CASE unresolved = {} /\ ~(hh.reopen /\ Ids(hh) # {})
    BY <1>1, <1>2, <1>6 DEF Over, c
<1> QED BY <1>4, <1>5, <1>6

\* What a handler that goes on with one of its own sessions knows.
Pick(hh) ==
    LET c == RouteSessionOf(hh)
    IN c # 0 =>
         /\ c \in DOMAIN sess => DOMAIN hh.mine \subseteq DOMAIN sess
         /\ c \in DOMAIN hh.mine \/ (hh.goal = "enter" /\ DOMAIN hh.mine = {} /\ Front(c))

\* A session that was read and goes on to be asked about.
Asked(hh, c) == [Load(hh, c) EXCEPT !.s = c, !.stage = 2]

LEMMA AskedOwns ==
    ASSUME SessTypes, NEW rem, Counted(rem), NEW hh, Own(hh, rem), NEW c \in Ids(hh)
    PROVE  LET g == Asked(hh, c)
           IN /\ Own(g, rem) /\ Ids(g) = Ids(hh) /\ DOMAIN g.mine = DOMAIN hh.mine \union {c}
              /\ \A k \in DOMAIN hh.mine : g.mine[k] = hh.mine[k] /\ g.base[k] = hh.base[k]
              /\ c \notin DOMAIN hh.mine => c \in DOMAIN sess /\ g.mine[c] = sess[c] /\ g.base[c] = sess[c]
              /\ g.s = c /\ g.stage = 2
              /\ \A f \in Fields \ {"mine", "base", "s", "stage"} : g[f] = hh[f]
              /\ \A k \in Ids(hh) : StatusOf(g, k) = StatusOf(hh, k)
<1> DEFINE f == Load(hh, c)
           g == [f EXCEPT !.s = c, !.stage = 2]
<1>1. /\ Own(f, rem) /\ Ids(f) = Ids(hh) /\ DOMAIN f.mine = DOMAIN hh.mine \union {c}
      /\ \A k \in DOMAIN hh.mine : f.mine[k] = hh.mine[k] /\ f.base[k] = hh.base[k]
      /\ c \notin DOMAIN hh.mine => c \in DOMAIN sess /\ f.mine[c] = sess[c] /\ f.base[c] = sess[c]
      /\ \A x \in Fields \ {"mine", "base"} : f[x] = hh[x]
      /\ \A k \in Ids(hh) : StatusOf(f, k) = StatusOf(hh, k)
    BY LoadOwns
<1> HIDE DEF f
<1>2. DOMAIN f = Fields
    BY <1>1 DEF Own, Copied
<1>3. /\ DOMAIN g = Fields /\ g.s = c /\ g.stage = 2
      /\ \A x \in Fields \ {"s", "stage"} : g[x] = f[x]
    BY <1>2 DEF Fields
<1>4. g = Asked(hh, c)
    BY DEF Asked, f
<1> HIDE DEF g
<1>5. g.mine = f.mine /\ g.base = f.base /\ g.locked = f.locked /\ g.inbox = f.inbox
    BY <1>3 DEF Fields
<1>6. Own(g, rem) /\ Ids(g) = Ids(f) /\ \A i : StatusOf(g, i) = StatusOf(f, i)
    BY <1>1, <1>3, <1>5, SameCopies
<1>7. \A x \in Fields \ {"mine", "base", "s", "stage"} : g[x] = hh[x]
    BY <1>1, <1>3
<1> QED BY <1>1, <1>3, <1>4, <1>5, <1>6, <1>7

\* The knowledge of a handler that has flushed what it changed.
Known(hh) ==
    /\ \A i, j \in Both(hh) : i = j
    /\ \A i \in Both(hh) : Copy(hh, i) /\ Clean(hh, i)

LEMMA CreatingReturns ==
    ASSUME NEW rem, NEW hh, Own(hh, rem), Known(hh), Fit(hh),
           (\A c \in DOMAIN rem : rem[c].inbox = hh.inbox) => Over(hh),
           Over(hh) \/ Unsettled(hh)
    PROVE  LET g == Creating(hh)
           IN g.pc = "creating" /\ Own(g, rem) /\ Kin(g) /\ Asking(g, rem)
<1> DEFINE g == [hh EXCEPT !.pc = "creating", !.stage = 2]
<1>1. g = Creating(hh)
    BY DEF Creating
<1>2. /\ DOMAIN g = Fields /\ g.pc = "creating" /\ g.stage = 2
      /\ \A f \in Fields \ {"pc", "stage"} : g[f] = hh[f]
    BY DEF Own, Copied, Fields
<1> HIDE DEF g
<1>3. /\ g.mine = hh.mine /\ g.base = hh.base /\ g.locked = hh.locked /\ g.inbox = hh.inbox
      /\ g.goal = hh.goal /\ g.next = hh.next
    BY <1>2 DEF Fields
<1>4. /\ Own(g, rem) /\ Ids(g) = Ids(hh) /\ Both(g) = Both(hh)
      /\ \A i : StatusOf(g, i) = StatusOf(hh, i)
      /\ \A i : Clean(g, i) <=> Clean(hh, i)
      /\ \A i : Copy(g, i) <=> Copy(hh, i)
    BY <1>2, <1>3, SameCopies
<1>5. Kin(g)
    BY <1>4 DEF Kin, Known
<1>6. Asking(g, rem)
    BY <1>2, <1>3, <1>4 DEF Asking, Fit, Over, Unsettled
<1> QED BY <1>1, <1>2, <1>4, <1>5, <1>6

LEMMA RouteReturns ==
    ASSUME LiveAssumption, SessTypes, NEW rem, Counted(rem), SessInv,
           NEW hh, Own(hh, rem), Known(hh), Fit(hh), Pick(hh),
           Over(hh) \/ Unsettled(hh),
           \A i, j \in Ids(hh) :
              StatusOf(hh, i) # "resolved" /\ StatusOf(hh, j) # "resolved" => i = j
    PROVE  LET g == OpenRoute(hh)
           IN g.pc \in {"creating", "checking"} /\ Own(g, rem) /\ Kin(g) /\ Asking(g, rem)
<1> DEFINE c == RouteSessionOf(hh)
           new == Creating(hh)
           found == Asked(hh, c)
           ask == [found EXCEPT !.pc = "checking"]
<1>1. OpenRoute(hh) = IF c = 0 \/ InboxOf(hh, c) # hh.inbox THEN new
                      ELSE IF found.mine[found.s].status = "resolved" /\ ~found.reopen THEN new
                      ELSE ask
    BY DEF OpenRoute, Reusing, Verify, Asked
<1>2. /\ c = 0 => Over(hh)
      /\ c # 0 => /\ c \in Ids(hh)
                  /\ StatusOf(hh, c) # "resolved" \/ (hh.reopen /\ Over(hh))
    BY RouteFound
<1>3. Pick(hh) <=> (c # 0 =>
         /\ c \in DOMAIN sess => DOMAIN hh.mine \subseteq DOMAIN sess
         /\ c \in DOMAIN hh.mine \/ (hh.goal = "enter" /\ DOMAIN hh.mine = {} /\ Front(c)))
    BY DEF Pick
<1> HIDE DEF c
<1>4. c # 0 =>
        /\ Own(found, rem) /\ Ids(found) = Ids(hh) /\ DOMAIN found.mine = DOMAIN hh.mine \union {c}
        /\ \A k \in DOMAIN hh.mine : found.mine[k] = hh.mine[k] /\ found.base[k] = hh.base[k]
        /\ c \notin DOMAIN hh.mine =>
              c \in DOMAIN sess /\ found.mine[c] = sess[c] /\ found.base[c] = sess[c]
        /\ found.s = c /\ found.stage = 2
        /\ \A f \in Fields \ {"mine", "base", "s", "stage"} : found[f] = hh[f]
        /\ \A k \in Ids(hh) : StatusOf(found, k) = StatusOf(hh, k)
    BY <1>2, AskedOwns
<1> HIDE DEF found
<1>5. CASE OpenRoute(hh) = new
    <2>1. ASSUME \A k \in DOMAIN rem : rem[k].inbox = hh.inbox
          PROVE  Over(hh)
        <3>1. CASE c = 0
            BY <1>2, <3>1
        <3>2. CASE c # 0
            <4>1. InboxOf(hh, c) = hh.inbox
                <5>1. c \in DOMAIN hh.mine => Boxed(hh.mine[c], rem)
                    BY DEF Own
                <5>2. c \in DOMAIN sess => Boxed(sess[c], rem)
                    BY DEF Counted
                <5> QED BY <1>2, <2>1, <3>2, <5>1, <5>2 DEF InboxOf, Boxed, Ids
            <4>2. CASE found.mine[c].status = "resolved" /\ ~hh.reopen
                <5>1. StatusOf(hh, c) # "resolved"
                    BY <1>2, <3>2, <4>2
                <5>2. CASE c \notin DOMAIN hh.mine
                    BY <1>4, <3>2, <4>2, <5>1, <5>2 DEF StatusOf, Own
                <5>3. CASE c \in DOMAIN hh.mine
                    <6>1. hh.mine[c].status = "resolved"
                        BY <1>4, <3>2, <4>2, <5>3
                    <6>2. c \in Both(hh) /\ c \notin hh.locked /\ sess[c].status # "resolved"
                        BY <5>1, <5>3, <6>1 DEF StatusOf, Both
                    <6> QED BY <6>1, <6>2 DEF Known, Copy, Clean
                <5> QED BY <5>2, <5>3
            <4>3. CASE ~(found.mine[c].status = "resolved" /\ ~hh.reopen)
                <5>1. found.reopen = hh.reopen
                    BY <1>4, <3>2 DEF Fields
                <5>2. new = ask
                    BY <1>1, <1>4, <1>5, <3>2, <4>1, <4>3, <5>1
                <5>3. new.pc = "creating" /\ ask.pc = "checking"
                    <6>1. DOMAIN found = Fields /\ DOMAIN hh = Fields
                        BY <1>4, <3>2 DEF Own, Copied
                    <6> QED BY <6>1 DEF Creating, Fields
                <5> QED BY <5>2, <5>3
            <4> QED BY <4>2, <4>3
        <3> QED BY <3>1, <3>2
    <2> QED BY <1>5, <2>1, CreatingReturns
<1>6. CASE OpenRoute(hh) # new
    <2>1. c # 0 /\ OpenRoute(hh) = ask
        BY <1>1, <1>6
    <2>2. /\ DOMAIN ask = Fields /\ ask.pc = "checking"
          /\ \A f \in Fields \ {"pc"} : ask[f] = found[f]
        BY <1>4, <2>1 DEF Own, Copied, Fields
    <2> HIDE DEF ask, new
    <2>3. /\ ask.mine = found.mine /\ ask.base = found.base /\ ask.locked = found.locked
          /\ ask.inbox = found.inbox /\ ask.goal = found.goal /\ ask.next = found.next
          /\ ask.s = c /\ ask.stage = 2
        BY <1>4, <2>1, <2>2 DEF Fields
    <2>4. /\ found.locked = hh.locked /\ found.goal = hh.goal /\ found.next = hh.next
        BY <1>4, <2>1 DEF Fields
    <2>5. /\ Own(ask, rem) /\ Ids(ask) = Ids(hh) /\ Both(ask) = Both(found)
          /\ \A i \in Ids(hh) : StatusOf(ask, i) = StatusOf(hh, i)
        BY <1>4, <2>1, <2>2, <2>3, SameCopies
    <2>6. Others(ask)
        BY <1>2, <1>3, <1>4, <2>1, <2>3, <2>5 DEF Others, Over
    <2>7. CASE c \in DOMAIN hh.mine
        <3>1. /\ DOMAIN ask.mine = DOMAIN hh.mine /\ Both(ask) = Both(hh)
              /\ \A i \in DOMAIN hh.mine : ask.mine[i] = hh.mine[i] /\ ask.base[i] = hh.base[i]
              /\ ask.locked = hh.locked /\ ask.goal = hh.goal /\ ask.next = hh.next
            BY <1>4, <2>1, <2>3, <2>4, <2>7 DEF Both
        <3>2. \A i \in Both(hh) : Copy(ask, i) /\ Clean(ask, i)
            <4> SUFFICES ASSUME NEW i \in Both(hh) PROVE Copy(ask, i) /\ Clean(ask, i)
                OBVIOUS
            <4>1. i \in DOMAIN hh.mine /\ Copy(hh, i) /\ Clean(hh, i)
                BY DEF Both, Known
            <4>2. ask.mine[i] = hh.mine[i] /\ ask.base[i] = hh.base[i]
                BY <3>1, <4>1
            <4>3. Copy(ask, i)
                BY <3>1, <4>1, <4>2 DEF Copy
            <4>4. Clean(ask, i)
                BY <3>1, <4>1, <4>2 DEF Clean
            <4> QED BY <4>3, <4>4
        <3>3. Kin(ask)
            BY <3>1, <3>2 DEF Kin, Known
        <3>4. Fit(ask)
            BY <3>1 DEF Fit, Both
        <3> QED BY <2>1, <2>2, <2>3, <2>5, <2>6, <3>3, <3>4 DEF Asking
    <2>8. CASE c \notin DOMAIN hh.mine
        <3>1. /\ hh.goal = "enter" /\ DOMAIN hh.mine = {} /\ Front(c) /\ c \in DOMAIN sess
              /\ ustate # Live
            BY <1>3, <1>4, <2>1, <2>8 DEF Fit
        <3>2. /\ DOMAIN ask.mine = {c} /\ ask.mine[c] = sess[c] /\ ask.base[c] = sess[c]
              /\ Both(ask) = {c} /\ ask.goal = "enter"
            BY <1>4, <2>1, <2>3, <2>4, <2>8, <3>1 DEF Both
        <3>3. sess[c].status # "resolved" => ~sess[c].present
            BY <3>1 DEF SessInv
        <3>4. Copy(ask, c)
            <4>1. sess[c].status = "resolved" => \A j \in DOMAIN sess : sess[j].status = "resolved"
                BY <3>1 DEF Front
            <4> QED BY <3>2, <3>3, <4>1 DEF Copy
        <3>5. Clean(ask, c)
            BY <3>2 DEF Clean
        <3>6. Kin(ask)
            BY <3>2, <3>4, <3>5 DEF Kin
        <3>7. Fit(ask)
            BY <3>1, <3>2, <3>3 DEF Fit
        <3> QED BY <2>1, <2>2, <2>3, <2>5, <2>6, <3>6, <3>7 DEF Asking
    <2> QED BY <2>7, <2>8
<1> QED BY <1>5, <1>6

\* The orders of the sessions in a handler's own queries.
LEMMA OrderOf ==
    ASSUME LiveAssumption, SessTypes, NEW rem, Counted(rem), NEW hh, Own(hh, rem)
    PROVE  /\ \A i \in DOMAIN sess : i \in hh.locked =>
                Order(hh)[i] \in Nat /\ Order(hh)[i] <= 2 * MaxConvs
           /\ \A i \in DOMAIN sess : i \notin hh.locked =>
                Order(hh)[i] = 2 * MaxConvs + newest[i] /\ newest[i] \in Nat /\ newest[i] > 0
           /\ \A i \in DOMAIN sess : Order(hh)[i] > MaxConvs
           /\ \A i \in DOMAIN hh.mine \ DOMAIN sess : Order(hh)[i] \in Nat /\ Order(hh)[i] <= MaxConvs
           /\ MaxConvs \in Nat
<1>1. MaxConvs \in Nat /\ \A i \in DOMAIN sess : newest[i] \in 1..MaxConvs
    BY DEF LiveAssumption, Counted
<1>2. \A i \in DOMAIN sess :
          i \in Ids(hh) /\ Order(hh)[i] = (IF i \in hh.locked THEN MaxConvs ELSE 2 * MaxConvs) + newest[i]
    BY DEF Order, Ids
<1>3. ASSUME NEW i \in DOMAIN hh.mine \ DOMAIN sess
      PROVE  Order(hh)[i] \in Nat /\ Order(hh)[i] <= MaxConvs
    <2> DEFINE S == {j \in DOMAIN hh.mine : j > i}
    <2>1. Order(hh)[i] = Cardinality(S)
        BY DEF Order, Ids
    <2>2. PICK n \in 0..MaxConvs : Ids(hh) = 1..n
        BY DEF Own
    <2>3. S \subseteq 1..n /\ IsFiniteSet(1..n) /\ Cardinality(1..n) = n
        BY <1>1, <2>2, FS_Interval DEF Ids
    <2> HIDE DEF S
    <2>4. Cardinality(S) \in Nat /\ Cardinality(S) <= n
        BY <2>3, FS_Subset, FS_CardinalityType
    <2> QED BY <1>1, <2>1, <2>2, <2>4
<1> QED BY <1>1, <1>2, <1>3

\* A handler that has given up its session goes on with one of its own.
LEMMA OwnPick ==
    ASSUME LiveAssumption, SessTypes, NEW rem, Counted(rem), NEW hh, Own(hh, rem),
           \A i, j \in Both(hh) : i = j, Over(hh),
           hh.s \in DOMAIN hh.mine,
           hh.s \in DOMAIN sess => hh.s \in hh.locked /\ DOMAIN hh.mine \subseteq DOMAIN sess
    PROVE  Pick(hh)
<1> DEFINE c == RouteSessionOf(hh)
           o == Order(hh)
           s == hh.s
<1>1. c # 0 => c \in Ids(hh) /\ \A j \in Ids(hh) : o[c] <= o[j]
    BY RouteFound DEF Over
<1>2. /\ \A i \in DOMAIN sess : i \in hh.locked => o[i] \in Nat /\ o[i] <= 2 * MaxConvs
      /\ \A i \in DOMAIN sess : i \notin hh.locked =>
            o[i] = 2 * MaxConvs + newest[i] /\ newest[i] \in Nat /\ newest[i] > 0
      /\ \A i \in DOMAIN sess : o[i] > MaxConvs
      /\ \A i \in DOMAIN hh.mine \ DOMAIN sess : o[i] \in Nat /\ o[i] <= MaxConvs
      /\ MaxConvs \in Nat
    BY OrderOf
<1>3. s \in Ids(hh) /\ hh.locked \subseteq DOMAIN hh.mine
    BY DEF Ids, Own
<1> HIDE DEF c, o
<1>4. CASE c # 0 /\ s \in DOMAIN sess
    <2>1. \A i \in DOMAIN sess : i \in hh.locked => i = s
        BY <1>3, <1>4 DEF Both
    <2>2. c \in DOMAIN sess /\ DOMAIN hh.mine \subseteq DOMAIN sess
        BY <1>1, <1>4 DEF Ids
    <2>3. c \in hh.locked
        <3>1. o[c] <= o[s] /\ o[s] \in Nat /\ o[s] <= 2 * MaxConvs
            BY <1>1, <1>2, <1>3, <1>4
        <3> QED BY <1>2, <2>2, <3>1
    <2> QED BY <1>4, <2>1, <2>2, <2>3 DEF Pick, c
<1>5. CASE c # 0 /\ s \notin DOMAIN sess
    <2>1. o[c] <= o[s] /\ o[s] \in Nat /\ o[s] <= MaxConvs
        BY <1>1, <1>2, <1>3, <1>5
    <2>2. c \notin DOMAIN sess
        <3>1. ASSUME c \in DOMAIN sess PROVE FALSE
            <4>1. o[c] \in Nat /\ o[c] > MaxConvs
                BY <1>2, <3>1
            <4> QED BY <1>2, <2>1, <4>1
        <3> QED BY <3>1
    <2>3. c \in DOMAIN hh.mine
        BY <1>1, <1>5, <2>2 DEF Ids
    <2> QED BY <2>2, <2>3 DEF Pick, c
<1>6. CASE c = 0
    BY <1>6 DEF Pick, c
<1> QED BY <1>4, <1>5, <1>6

\* A session that is given up is resolved and left.
GivenUp(hh, g) ==
    /\ Ids(g) = Ids(hh) /\ Both(g) = Both(hh)
    /\ DOMAIN g.mine = DOMAIN hh.mine /\ ~g.mine[hh.s].present
    /\ \A k \in DOMAIN hh.mine : k # hh.s => g.mine[k] = hh.mine[k]
    /\ hh.goal # "enter" /\ hh.s \in DOMAIN sess => hh.s \in g.locked
    /\ \A f \in Fields \ {"mine", "locked"} : g[f] = hh[f]
LEMMA StaleKnows ==
    ASSUME NEW rem, NEW hh, Own(hh, rem), Known(hh), Others(hh)
    PROVE  LET g == Save(hh, hh.s, [hh.mine[hh.s] EXCEPT !.status = "resolved", !.present = FALSE])
           IN Own(g, rem) /\ Known(g) /\ Over(g) /\ GivenUp(hh, g)
<1> DEFINE i == hh.s
           row == [hh.mine[i] EXCEPT !.status = "resolved", !.present = FALSE]
           g == Save(hh, i, row)
<1>1. i \in DOMAIN hh.mine /\ hh.mine[i] \in SessionRows
    BY DEF Others, Own, Copied
<1>2. row \in SessionRows /\ row.inbox = hh.mine[i].inbox /\ row.status = "resolved" /\ ~row.present
    BY <1>1 DEF SessionRows, Statuses
<1> HIDE DEF row
<1>3. Own(g, rem) /\ Stored(hh, g, i, row)
    BY <1>1, <1>2, SaveOwns
<1>4. /\ \A k \in Both(hh) : Copy(g, k) /\ Clean(g, k)
      /\ \A k \in Ids(hh) : k # i => StatusOf(g, k) = StatusOf(hh, k)
      /\ StatusOf(g, i) = row.status \/ (i \in DOMAIN sess /\ i \notin g.locked /\ row = hh.base[i])
    BY <1>1, <1>2, SaveKeeps DEF Known
<1> HIDE DEF g
<1>5. Known(g)
    BY <1>3, <1>4 DEF Known, Stored
<1>6. StatusOf(g, i) = "resolved"
    <2>1. CASE i \in DOMAIN sess /\ i \notin g.locked /\ row = hh.base[i]
        <3>1. Copy(hh, i) /\ hh.base[i].status = "resolved"
            BY <1>1, <1>2, <2>1 DEF Known, Both
        <3> QED BY <2>1, <3>1 DEF Copy, StatusOf
    <2> QED BY <1>2, <1>4, <2>1
<1>7. Over(g)
    BY <1>3, <1>4, <1>6 DEF Over, Others, Stored
<1>8. hh.goal # "enter" /\ i \in DOMAIN sess => i \in g.locked
    <2> SUFFICES ASSUME hh.goal # "enter", i \in DOMAIN sess PROVE i \in g.locked
        OBVIOUS
    <2>1. Copy(hh, i)
        BY <1>1 DEF Known, Both
    <2>2. CASE hh.base[i].present
        BY <1>2, <1>3, <2>2 DEF Stored
    <2>3. CASE ~hh.base[i].present
        BY <1>3, <2>1, <2>3 DEF Copy, Own, Stored
    <2> QED BY <2>2, <2>3
<1> QED BY <1>2, <1>3, <1>5, <1>7, <1>8 DEF g, row, Stored, GivenUp

\* The session is settled.
LEMMA ChosenReturns ==
    ASSUME NEW rem, NEW hh, Own(hh, rem), Known(hh), Others(hh),
           hh.mine[hh.s].status # "resolved",
           hh.goal = "enter" =>
              /\ ustate # Live \/ DOMAIN sess = {}
              /\ hh.stage # 1 /\ \A i \in Both(hh) : i = hh.s,
           hh.goal # "enter" => ustate = Live /\ hh.next = Live,
           NEW v
    PROVE  LET g == Chosen(hh, v)
           IN g.pc \notin {"idle", "creating"} /\ Own(g, rem) /\ Kin(g) /\ Going(g, rem)
<1> DEFINE i == hh.s
           row == [hh.mine[i] EXCEPT !.present = TRUE, !.status = "open"]
           save == Save(hh, i, row)
           kept == IF hh.stage = 1 THEN hh ELSE save
           ready == [kept EXCEPT !.verified = v]
           enter == Entering(ready)
           post == [ready EXCEPT !.pc = "posting"]
<1>1. Chosen(hh, v) = IF hh.goal = "enter" THEN enter ELSE post
    BY DEF Chosen
<1>2. i \in DOMAIN hh.mine /\ hh.mine[i] \in SessionRows
    BY DEF Others, Own, Copied
<1>3. row \in SessionRows /\ row.inbox = hh.mine[i].inbox /\ row.status = "open" /\ row.present
    BY <1>2 DEF SessionRows, Statuses
<1> HIDE DEF row
<1>4. Own(save, rem) /\ Stored(hh, save, i, row)
    BY <1>2, <1>3, SaveOwns
<1>5. /\ \A k \in Both(hh) : Copy(save, k) /\ Clean(save, k)
      /\ \A k \in Ids(hh) : k # i => StatusOf(save, k) = StatusOf(hh, k)
    BY <1>2, <1>3, SaveKeeps DEF Known
<1> HIDE DEF save
<1>6. /\ Own(kept, rem) /\ Ids(kept) = Ids(hh) /\ Both(kept) = Both(hh)
      /\ DOMAIN kept.mine = DOMAIN hh.mine /\ kept.mine[i].status # "resolved"
      /\ \A k \in Both(hh) : Copy(kept, k) /\ Clean(kept, k)
      /\ \A k \in Ids(hh) : k # i => StatusOf(kept, k) = StatusOf(hh, k)
      /\ kept.s = i /\ kept.goal = hh.goal /\ kept.next = hh.next /\ kept.pc = hh.pc
      /\ hh.goal = "enter" => \A k \in Both(hh) : kept.mine[k].present <=> k = i
    <2>1. CASE hh.stage = 1
        BY <1>2, <2>1 DEF Known
    <2>2. CASE hh.stage # 1
        <3>1. /\ kept = save /\ save.s = i /\ save.goal = hh.goal /\ save.next = hh.next
              /\ save.pc = hh.pc
            BY <1>4, <2>2 DEF Stored, Fields
        <3>2. ASSUME hh.goal = "enter", NEW k \in Both(hh)
              PROVE  save.mine[k].present <=> k = i
            <4>1. CASE k = i
                BY <1>3, <1>4, <4>1 DEF Stored
            <4>2. CASE k # i
                BY <1>4, <3>2, <4>2 DEF Stored, Both
            <4> QED BY <4>1, <4>2
        <3> QED BY <1>3, <1>4, <1>5, <3>1, <3>2 DEF Stored
    <2> QED BY <2>1, <2>2
<1> HIDE DEF kept
<1>7. /\ DOMAIN ready = Fields /\ \A f \in Fields \ {"verified"} : ready[f] = kept[f]
    BY <1>6 DEF Own, Copied, Fields
<1> HIDE DEF ready
<1> DEFINE kp == {k \in DOMAIN pend : pend[k].s = ready.s /\ pend[k].status = "pending"}
           g == Chosen(hh, v)
<1>8. /\ DOMAIN g = Fields /\ \A f \in Fields \ {"verified", "pc", "next", "rows"} : g[f] = kept[f]
      /\ hh.goal = "enter" => /\ g.next = Live /\ g.rows = kp
                              /\ g.pc = IF kp = {} THEN "replying" ELSE "accepting"
      /\ hh.goal # "enter" => g.next = kept.next /\ g.pc = "posting"
    <2>1. CASE hh.goal = "enter"
        <3> DEFINE p == IF kp = {} THEN "replying" ELSE "accepting"
                   e == [ready EXCEPT !.next = Live, !.rows = kp, !.pc = p]
        <3>1. g = e
            BY <1>1, <2>1 DEF Entering
        <3> HIDE DEF kp, p, g
        <3>2. /\ DOMAIN e = Fields /\ e.next = Live /\ e.rows = kp /\ e.pc = p
              /\ \A f \in Fields \ {"pc", "next", "rows"} : e[f] = ready[f]
            BY <1>7 DEF Fields
        <3> QED BY <1>7, <2>1, <3>1, <3>2 DEF p
    <2>2. CASE hh.goal # "enter"
        <3>1. g = post
            BY <1>1, <2>2
        <3>2. /\ DOMAIN post = Fields /\ post.pc = "posting"
              /\ \A f \in Fields \ {"pc"} : post[f] = ready[f]
            BY <1>7 DEF Fields
        <3> HIDE DEF post, g
        <3>3. post.next = kept.next
            BY <1>7, <3>2 DEF Fields
        <3> QED BY <1>7, <2>2, <3>1, <3>2, <3>3
    <2> QED BY <2>1, <2>2
<1>9. ready.s = i
    BY <1>6, <1>7 DEF Fields
<1> HIDE DEF g, enter, post
<1>10. /\ g.mine = kept.mine /\ g.base = kept.base /\ g.locked = kept.locked /\ g.inbox = kept.inbox
       /\ g.goal = hh.goal /\ g.s = i
    BY <1>6, <1>8 DEF Fields
<1>11. /\ Own(g, rem) /\ Ids(g) = Ids(hh) /\ Both(g) = Both(hh)
       /\ \A k : StatusOf(g, k) = StatusOf(kept, k)
       /\ \A k : Clean(g, k) <=> Clean(kept, k)
       /\ \A k : Copy(g, k) <=> Copy(kept, k)
    BY <1>6, <1>8, <1>10, SameCopies
<1>12. Kin(g)
    BY <1>6, <1>11 DEF Kin, Known
<1>13. Others(g)
    BY <1>2, <1>6, <1>10, <1>11 DEF Others
<1>14. Ready(g)
    <2>1. CASE hh.goal = "enter"
        BY <1>6, <1>8, <1>9, <1>10, <1>11, <1>13, <2>1 DEF Ready
    <2>2. CASE hh.goal # "enter"
        BY <1>6, <1>8, <1>10, <1>13, <2>2 DEF Ready
    <2> QED BY <2>1, <2>2
<1>15. g.pc \notin {"idle", "creating"} /\ Going(g, rem)
    BY <1>6, <1>8, <1>10, <1>14 DEF Going
<1> QED BY <1>11, <1>12, <1>15 DEF g

\* A conversation's status is known, or is taken as it was.
LEMMA AnswerOwns ==
    ASSUME LiveAssumption, LiveTypes, NEW rem, Returning(h, rem), StatusAnswered
    PROVE  \E g : Proceeds(g) /\ Comes(g, rem)
<1> DEFINE i == h.s
           mine == h.mine[i]
           open == [mine EXCEPT !.status = "open"]
           stale == Save(h, i, [h.mine[i] EXCEPT !.status = "resolved", !.present = FALSE])
           back == Save(h, i, open)
           f == IF mine.status # "resolved" THEN h ELSE back
           toggle == [h EXCEPT !.pc = "toggling"]
<1>1. PICK g : /\ Proceeds(g)
               /\ \/ mine.status # "resolved" /\ g = Chosen(h, "blind")
                  \/ g = Chosen(f, "open")
                  \/ g = toggle
                  \/ g = IF h.stage = 1 THEN OpenRoute(stale) ELSE Creating(stale)
    BY ZenonT(30) DEF StatusAnswered
<1> SUFFICES g.pc # "idle" /\ Own(g, rem) /\ Kin(g) /\ Going(g, rem)
    BY <1>1 DEF Comes
<1>2. /\ SessTypes /\ Counted(rem) /\ SessInv /\ Own(h, rem) /\ h.pc = "checking"
      /\ Fit(h) /\ Others(h) /\ (h.stage = 1 => i \in DOMAIN sess /\ h.goal # "enter")
    BY DEF StatusAnswered, Returning, Going, Asking, LiveTypes
<1>3. Known(h)
    BY <1>2 DEF Returning, Kin, Known
<1>b. h.goal = "enter" => \A k \in Both(h) : k = i
    BY <1>2, <1>3 DEF Fit, Others, Known, Both
<1>4. i \in DOMAIN h.mine /\ mine \in SessionRows
    BY <1>2 DEF Others, Own, Copied
<1>5. open \in SessionRows /\ open.inbox = mine.inbox /\ open.status = "open"
    BY <1>4 DEF SessionRows, Statuses
<1> HIDE DEF open
<1>a. Own(stale, rem) /\ Known(stale) /\ Over(stale) /\ GivenUp(h, stale)
    BY <1>2, <1>3, StaleKnows
<1>6. /\ Own(stale, rem) /\ Known(stale) /\ Over(stale)
      /\ Ids(stale) = Ids(h) /\ Both(stale) = Both(h)
      /\ DOMAIN stale.mine = DOMAIN h.mine /\ ~stale.mine[i].present
      /\ \A k \in DOMAIN h.mine : k # i => stale.mine[k] = h.mine[k]
      /\ h.goal # "enter" /\ i \in DOMAIN sess => i \in stale.locked
      /\ \A x \in Fields \ {"mine", "locked"} : stale[x] = h[x]
    BY <1>a DEF GivenUp
<1> HIDE DEF stale
<1>7. stale.s = i /\ stale.goal = h.goal /\ stale.next = h.next /\ stale.base = h.base
    BY <1>6 DEF Fields
<1>8. Fit(stale)
    BY <1>2, <1>6, <1>7 DEF Fit, Both
<1>9. CASE mine.status # "resolved" /\ g = Chosen(h, "blind")
    BY <1>2, <1>3, <1>9, <1>b, ChosenReturns DEF Fit
<1>10. CASE g = Chosen(f, "open")
    <2>1. CASE mine.status # "resolved"
        BY <1>2, <1>3, <1>10, <1>b, <2>1, ChosenReturns DEF Fit
    <2>2. CASE mine.status = "resolved"
        <3>1. Own(back, rem) /\ Stored(h, back, i, open)
            BY <1>2, <1>4, <1>5, SaveOwns
        <3>2. /\ \A k \in Both(h) : Copy(back, k) /\ Clean(back, k)
              /\ \A k \in Ids(h) : k # i => StatusOf(back, k) = StatusOf(h, k)
            BY <1>2, <1>3, <1>4, <1>5, SaveKeeps DEF Known
        <3> HIDE DEF back
        <3>3. back.s = i /\ back.goal = h.goal /\ back.next = h.next /\ back.stage = h.stage
            BY <3>1 DEF Stored, Fields
        <3>4. Known(back)
            BY <1>3, <3>1, <3>2 DEF Known, Stored
        <3>5. Others(back)
            BY <1>2, <3>1, <3>2, <3>3 DEF Others, Stored
        <3>6. back.mine[back.s].status # "resolved"
            BY <1>5, <3>1, <3>3 DEF Stored
        <3>7. Both(back) = Both(h)
            BY <3>1 DEF Stored
        <3>8. g = Chosen(back, "open")
            BY <1>10, <2>2
        <3> QED BY <1>2, <1>b, <3>1, <3>3, <3>4, <3>5, <3>6, <3>7, <3>8, ChosenReturns DEF Fit
    <2> QED BY <2>1, <2>2
<1>11. CASE g = toggle
    <2>1. /\ DOMAIN toggle = Fields /\ toggle.pc = "toggling"
          /\ \A x \in Fields \ {"pc"} : toggle[x] = h[x]
        BY <1>2 DEF Own, Copied, Fields
    <2> HIDE DEF toggle
    <2>2. /\ toggle.mine = h.mine /\ toggle.base = h.base /\ toggle.locked = h.locked
          /\ toggle.inbox = h.inbox /\ toggle.goal = h.goal /\ toggle.next = h.next
          /\ toggle.s = i /\ toggle.stage = h.stage
        BY <2>1 DEF Fields
    <2>3. /\ Own(toggle, rem) /\ Ids(toggle) = Ids(h) /\ Both(toggle) = Both(h)
          /\ \A k : StatusOf(toggle, k) = StatusOf(h, k)
          /\ \A k : Clean(toggle, k) <=> Clean(h, k)
          /\ \A k : Copy(toggle, k) <=> Copy(h, k)
        BY <1>2, <2>1, <2>2, SameCopies
    <2>4. Kin(toggle)
        BY <1>3, <2>3 DEF Kin, Known
    <2>5. Fit(toggle) /\ Others(toggle)
        BY <1>2, <2>2, <2>3 DEF Fit, Others
    <2>6. Going(toggle, rem)
        BY <1>2, <2>1, <2>2, <2>5 DEF Going, Asking
    <2> QED BY <1>11, <2>1, <2>3, <2>4, <2>6
<1>12. CASE g = IF h.stage = 1 THEN OpenRoute(stale) ELSE Creating(stale)
    <2>1. CASE h.stage = 1
        <3>1. Pick(stale)
            BY <1>2, <1>4, <1>6, <1>7, <2>1, OwnPick DEF Others, Known
        <3>2. \A j, k \in Ids(stale) :
                 StatusOf(stale, j) # "resolved" /\ StatusOf(stale, k) # "resolved" => j = k
            BY <1>6 DEF Over
        <3>3. g = OpenRoute(stale)
            BY <1>12, <2>1
        <3>4. g.pc \in {"creating", "checking"} /\ Own(g, rem) /\ Kin(g) /\ Asking(g, rem)
            BY <1>2, <1>6, <1>8, <3>1, <3>2, <3>3, RouteReturns
        <3> QED BY <3>4 DEF Going
    <2>2. CASE h.stage # 1
        <3>1. g = Creating(stale)
            BY <1>12, <2>2
        <3>2. g.pc = "creating" /\ Own(g, rem) /\ Kin(g) /\ Asking(g, rem)
            BY <1>6, <1>8, <3>1, CreatingReturns
        <3> QED BY <3>2 DEF Going
    <2> QED BY <2>1, <2>2
<1> QED BY <1>1, <1>9, <1>10, <1>11, <1>12

\* A conversation is opened again.
LEMMA ReopenOwns ==
    ASSUME LiveAssumption, LiveTypes, NEW rem, Returning(h, rem), Reopened
    PROVE  h'.pc \notin {"idle", "creating"} /\ Own(h', rem) /\ Kin(h') /\ Going(h', rem)
<1> DEFINE i == h.s
           mine == h.mine[i]
           open == [mine EXCEPT !.status = "open", !.present = TRUE]
           back == Save(h, i, open)
<1>1. h' = Chosen(back, "reopened") /\ h.pc = "toggling"
    BY DEF Reopened
<1>2. /\ Own(h, rem) /\ Fit(h) /\ Others(h)
      /\ (h.stage = 1 => i \in DOMAIN sess /\ h.goal # "enter")
    BY <1>1 DEF Returning, Going, Asking
<1>3. Known(h)
    BY <1>1 DEF Returning, Kin, Known
<1>4. i \in DOMAIN h.mine /\ mine \in SessionRows
    BY <1>2 DEF Others, Own, Copied
<1>5. open \in SessionRows /\ open.inbox = mine.inbox /\ open.status = "open"
    BY <1>4 DEF SessionRows, Statuses
<1> HIDE DEF open
<1>6. Own(back, rem) /\ Stored(h, back, i, open)
    BY <1>2, <1>4, <1>5, SaveOwns
<1>7. /\ \A k \in Both(h) : Copy(back, k) /\ Clean(back, k)
      /\ \A k \in Ids(h) : k # i => StatusOf(back, k) = StatusOf(h, k)
    BY <1>2, <1>3, <1>4, <1>5, SaveKeeps DEF Known
<1> HIDE DEF back
<1>8. back.s = i /\ back.goal = h.goal /\ back.next = h.next /\ back.stage = h.stage
    BY <1>6 DEF Stored, Fields
<1>9. Known(back)
    BY <1>3, <1>6, <1>7 DEF Known, Stored
<1>10. Others(back)
    BY <1>2, <1>6, <1>7, <1>8 DEF Others, Stored
<1>11. back.mine[back.s].status # "resolved"
    BY <1>5, <1>6, <1>8 DEF Stored
<1>12. h.goal = "enter" => \A k \in Both(back) : k = back.s
    <2>1. Both(back) = Both(h)
        BY <1>6 DEF Stored
    <2> QED BY <1>2, <1>3, <1>8, <2>1 DEF Fit, Others, Known, Both
<1> QED BY <1>1, <1>2, <1>6, <1>8, <1>9, <1>10, <1>11, <1>12, ChosenReturns DEF Fit

\* A new session is copied, and is open.
LEMMA CreateOwns ==
    ASSUME LiveAssumption, LiveTypes, NEW rem, NEW old, Returning(h, old), Created,
           Grown(rem), old = remote, Len(rem) = Len(remote) + 1, rem[Len(rem)].inbox = h.inbox,
           Len(rem) \in DOMAIN rem, OneBox(rem)
    PROVE  h'.pc \notin {"idle", "creating"} /\ Own(h', rem) /\ Kin(h') /\ Going(h', rem)
<1> DEFINE i == Cardinality(Ids(h)) + 1
           c == Len(remote) + 1
           row == [inbox |-> h.inbox, conv |-> c, status |-> "open", present |-> TRUE,
                   accepted |-> FALSE, noticed |-> FALSE, unread |-> 0]
           m == With(h.mine, i, row)
           b == With(h.base, i, row)
           made == [h EXCEPT !.s = i, !.mine = m, !.base = b]
<1>1. h' = Chosen(made, "fresh") /\ h.pc = "creating" /\ Len(remote) < MaxConvs
    BY DEF Created
<1>2. /\ Own(h, old) /\ Fit(h) /\ h.stage = 2
      /\ (\A k \in DOMAIN old : old[k].inbox = h.inbox) => Over(h)
    BY <1>1 DEF Returning, Going, Asking
<1>b. DOMAIN h.mine = {} /\ Both(h) = {}
    BY <1>1 DEF Returning, Both
<1>3. Known(h)
    BY <1>1 DEF Returning, Kin, Known
<1>4. \A k \in DOMAIN old : old[k].inbox = h.inbox
    <2>1. \A k \in DOMAIN old : k \in DOMAIN rem /\ rem[k].inbox = old[k].inbox
        BY DEF Grown
    <2> QED BY <2>1 DEF OneBox
<1>5. Over(h) /\ Copied(h)
    BY <1>2, <1>4 DEF Own
<1>6. PICK n \in 0..MaxConvs : Ids(h) = 1..n /\ n <= Len(old)
    BY <1>2 DEF Own
<1>7. /\ i = n + 1 /\ i \in Nat /\ i \notin Ids(h) /\ n \in Nat /\ n + 1 \in 0..MaxConvs
      /\ n + 1 <= Len(rem) /\ Ids(h) \union {i} = 1..(n + 1)
    <2>1. MaxConvs \in Nat /\ Len(remote) \in Nat
        BY DEF LiveAssumption, Grown
    <2>2. Cardinality(1..n) = n
        BY <1>6, <2>1, FS_Interval
    <2>3. i = n + 1 /\ n \in Nat
        BY <1>6, <2>1, <2>2
    <2> QED BY <1>1, <1>6, <2>1, <2>3
<1>8. c \in Nat /\ row \in SessionRows /\ row.inbox = h.inbox /\ row.status = "open"
    BY <1>5 DEF LiveTypes, Copied, SessionRows, Statuses
<1> HIDE DEF i, row
<1>9. /\ DOMAIN m = DOMAIN h.mine \union {i} /\ DOMAIN m \subseteq Nat
      /\ IsFiniteSet(DOMAIN m) /\ \A k \in DOMAIN m : m[k] \in SessionRows
    BY <1>5, <1>7, <1>8, WithTyped DEF Copied
<1>10. /\ m[i] = row /\ b[i] = row /\ DOMAIN b = DOMAIN m
       /\ \A k \in DOMAIN h.mine : m[k] = h.mine[k] /\ b[k] = h.base[k]
    BY <1>2, <1>7 DEF With, Own, Ids
<1> HIDE DEF m, b
<1>11. /\ DOMAIN made = Fields /\ made.mine = m /\ made.base = b /\ made.s = i
       /\ \A f \in Fields \ {"s", "mine", "base"} : made[f] = h[f]
    BY <1>5 DEF Copied, Fields
<1> HIDE DEF made
<1>12. /\ made.inbox = h.inbox /\ made.locked = h.locked /\ made.goal = h.goal
       /\ made.next = h.next /\ made.stage = h.stage
    BY <1>11 DEF Fields
<1>13. Ids(made) = 1..(n + 1) /\ Both(made) = Both(h) /\ i \notin DOMAIN sess
    BY <1>7, <1>9, <1>11 DEF Ids, Both
<1>14. Own(made, rem)
    <2>1. Copied(made)
        BY <1>5, <1>9, <1>11, <1>12 DEF Copied
    <2>2. \A k \in DOMAIN m : b[k] \in SessionRows
        BY <1>2, <1>8, <1>9, <1>10 DEF Own
    <2>3. \A k \in DOMAIN m : Boxed(m[k], rem)
        <3>1. Boxed(row, rem)
            BY <1>8 DEF Boxed
        <3>2. Own(h, rem)
            BY <1>2, GrowthKeeps
        <3> QED BY <1>9, <1>10, <3>1, <3>2 DEF Own, Boxed
    <2> QED BY <1>2, <1>7, <1>9, <1>10, <1>11, <1>12, <1>13, <2>1, <2>2, <2>3 DEF Own
<1>15. Known(made)
    <2>1. \A k \in Both(h) : k \in DOMAIN h.mine /\ m[k] = h.mine[k] /\ b[k] = h.base[k]
        BY <1>10 DEF Both
    <2> QED BY <1>3, <1>11, <1>12, <1>13, <2>1 DEF Known, Copy, Clean
<1>16. Others(made)
    <2>1. \A k \in Ids(h) : StatusOf(made, k) = StatusOf(h, k)
        <3> TAKE k \in Ids(h)
        <3>1. k \in DOMAIN h.mine => m[k] = h.mine[k]
            BY <1>10
        <3>2. h.locked \subseteq DOMAIN h.mine
            BY <1>2 DEF Own
        <3> QED BY <1>11, <1>12, <3>1, <3>2 DEF StatusOf, Ids
    <2>2. \A k \in Ids(made) : k # i => k \in Ids(h)
        BY <1>6, <1>7, <1>13
    <2> QED BY <1>5, <1>9, <1>11, <1>13, <2>1, <2>2 DEF Others, Over
<1>17. made.mine[made.s].status # "resolved"
    BY <1>8, <1>10, <1>11
<1>18. Both(made) = {}
    BY <1>13, <1>b
<1> QED BY <1>1, <1>2, <1>12, <1>14, <1>15, <1>16, <1>17, <1>18, ChosenReturns DEF Fit

\* A message met a conversation that is gone.
LEMMA NowhereOwns ==
    ASSUME LiveAssumption, LiveTypes, NEW rem, Returning(h, rem), PostedNowhere
    PROVE  \E g : Proceeds(g) /\ Comes(g, rem)
<1> DEFINE i == h.s
           stale == Save(h, i, [h.mine[i] EXCEPT !.status = "resolved", !.present = FALSE])
           again == [stale EXCEPT !.goal = "repost"]
           g == OpenRoute(again)
<1>1. Proceeds(g) /\ h.pc = "posting"
    BY DEF PostedNowhere
<1>2. /\ SessTypes /\ Counted(rem) /\ SessInv /\ Own(h, rem) /\ Ready(h)
      /\ h.goal # "enter" /\ h.next = Live /\ Others(h) /\ ustate = Live
    BY <1>1 DEF Returning, Going, Ready, LiveTypes
<1>3. Known(h)
    BY <1>1 DEF Returning, Kin, Known
<1>a. Own(stale, rem) /\ Known(stale) /\ Over(stale) /\ GivenUp(h, stale)
    BY <1>2, <1>3, StaleKnows
<1>4. /\ Own(stale, rem) /\ Known(stale) /\ Over(stale)
      /\ Ids(stale) = Ids(h) /\ Both(stale) = Both(h) /\ DOMAIN stale.mine = DOMAIN h.mine
      /\ i \in DOMAIN sess => i \in stale.locked
      /\ \A x \in Fields \ {"mine", "locked"} : stale[x] = h[x]
    BY <1>2, <1>a DEF GivenUp
<1> HIDE DEF stale
<1>5. /\ DOMAIN again = Fields /\ again.goal = "repost"
      /\ \A x \in Fields \ {"goal"} : again[x] = stale[x]
    BY <1>4 DEF Own, Copied, Fields
<1> HIDE DEF again, g
<1>6. /\ again.mine = stale.mine /\ again.base = stale.base /\ again.locked = stale.locked
      /\ again.inbox = stale.inbox /\ again.s = i /\ again.next = Live /\ stale.goal # "enter"
    BY <1>2, <1>4, <1>5 DEF Fields
<1>7. /\ Own(again, rem) /\ Ids(again) = Ids(stale) /\ Both(again) = Both(stale)
      /\ \A k : StatusOf(again, k) = StatusOf(stale, k)
      /\ \A k : Clean(again, k) <=> Clean(stale, k)
      /\ \A k : Copy(again, k) <=> Copy(stale, k)
    BY <1>4, <1>5, <1>6, SameCopies
<1>8. Known(again) /\ Over(again)
    BY <1>4, <1>7 DEF Known, Over
<1>9. Fit(again)
    BY <1>2, <1>5, <1>6 DEF Fit
<1>10. Pick(again)
    <2>1. /\ \A j, k \in Both(again) : j = k
          /\ i \in DOMAIN again.mine
          /\ i \in DOMAIN sess => i \in again.locked /\ DOMAIN again.mine \subseteq DOMAIN sess
        BY <1>2, <1>4, <1>6, <1>8 DEF Others, Known
    <2> QED BY <1>2, <1>6, <1>7, <1>8, <2>1, OwnPick
<1>11. g.pc \in {"creating", "checking"} /\ Own(g, rem) /\ Kin(g) /\ Asking(g, rem)
    <2>1. \A j, k \in Ids(again) :
             StatusOf(again, j) # "resolved" /\ StatusOf(again, k) # "resolved" => j = k
        BY <1>8 DEF Over
    <2> QED BY <1>2, <1>7, <1>8, <1>9, <1>10, <2>1, RouteReturns DEF g
<1> QED BY <1>1, <1>11 DEF Going, Comes

\* A conversation changes its status, or one is added.
LEMMA SetGrows ==
    ASSUME remote \in Seq(Conversations), NEW c, NEW v,
           remote' = [remote EXCEPT ![c].status = v]
    PROVE  Grown(remote')
<1>1. DOMAIN remote = 1..Len(remote) /\ Len(remote) \in Nat
    OBVIOUS
<1>2. \A k \in DOMAIN remote : remote[k] \in Conversations
    OBVIOUS
<1>3. \A r \in Conversations : [r EXCEPT !.status = v].inbox = r.inbox
    BY DEF Conversations
<1>4. \A k \in DOMAIN remote : remote'[k].inbox = remote[k].inbox
    BY <1>2, <1>3
<1>5. DOMAIN remote' = 1..Len(remote)
    BY <1>1
<1>6. Len(remote') = Len(remote)
    BY <1>1, <1>5
<1> QED BY <1>1, <1>4, <1>5, <1>6 DEF Grown

LEMMA SameGrows ==
    ASSUME remote \in Seq(Conversations), UNCHANGED remote
    PROVE  Grown(remote')
BY DEF Grown

\* A handler that goes on hands over or asks.
LEMMA HandoverOwns ==
    ASSUME LiveAssumption, LiveTypes, NEW rem, Returning(h, rem), HandoverBegins
    PROVE  h'.pc \notin {"idle", "creating"} /\ Own(h', rem) /\ Kin(h') /\ Going(h', rem)
<1>1. PICK ok \in BOOLEAN :
          h' = [h EXCEPT !.pc = "draining", !.mine[h.s].accepted = @ \/ ok]
    BY DEF HandoverBegins
<1> DEFINE row == [h.mine[h.s] EXCEPT !.accepted = @ \/ ok]
           g == [h EXCEPT !.mine = [h.mine EXCEPT ![h.s] = row]]
<1>2. /\ Own(h, rem) /\ Ready(h) /\ h.goal = "enter" /\ h.pc = "accepting" /\ Others(h)
      /\ h.s \in DOMAIN h.mine /\ h.mine[h.s] \in SessionRows
    BY DEF HandoverBegins, Returning, Going, Ready, Others, Own, Copied
<1>3. Known(h)
    BY <1>2 DEF Returning, Kin, Known
<1>4. /\ row \in SessionRows /\ row.inbox = h.mine[h.s].inbox
      /\ row.status = h.mine[h.s].status /\ row.present = h.mine[h.s].present
    BY <1>2 DEF SessionRows
<1> HIDE DEF row
<1>5. h' = [g EXCEPT !.pc = "draining"]
    <2>1. DOMAIN h = Fields
        BY <1>2 DEF Own, Copied
    <2> QED BY <1>1, <2>1 DEF row, Fields
<1>6. /\ Own(g, rem) /\ DOMAIN g.mine = DOMAIN h.mine /\ Both(g) = Both(h) /\ Ids(g) = Ids(h)
      /\ g.mine[g.s] = row /\ \A i \in DOMAIN h.mine : i # h.s => g.mine[i] = h.mine[i]
      /\ \A f \in Fields \ {"mine"} : g[f] = h[f]
    BY <1>2, <1>4, Touched
<1> HIDE DEF g
<1>7. /\ Ready(g)
      /\ \A i \in Both(h) : Copy(h, i) => Copy(g, i)
      /\ \A i \in Both(h) : i # h.s /\ Clean(h, i) => Clean(g, i)
    BY <1>2, <1>4, <1>6, TouchedReady DEF Own
<1>8. g.s = h.s /\ g.locked = h.locked /\ g.goal = "enter"
    BY <1>2, <1>6 DEF Fields
<1>9. \A i \in Both(h) : Clean(g, i)
    <2> SUFFICES ASSUME NEW i \in Both(h), i = h.s PROVE Clean(g, i)
        BY <1>3, <1>7 DEF Known
    <2>1. /\ h.mine[i].present /\ h.mine[i].status # "resolved" /\ Clean(h, i)
          /\ h.base[i].status = "resolved" \/ ~h.base[i].present
        BY <1>2, <1>3 DEF Ready, Known, Copy
    <2> QED BY <1>8, <2>1 DEF Clean
<1>10. /\ DOMAIN h' = Fields /\ h'.pc = "draining"
       /\ \A f \in Fields \ {"pc"} : h'[f] = g[f]
    BY <1>5, <1>6 DEF Own, Copied, Fields
<1>11. /\ h'.mine = g.mine /\ h'.base = g.base /\ h'.locked = g.locked /\ h'.inbox = g.inbox
       /\ h'.s = g.s /\ h'.goal = "enter" /\ h'.next = g.next /\ h'.rows = g.rows
       /\ h'.done = g.done
    BY <1>8, <1>10 DEF Fields
<1>12. PICK k : k = h'
    OBVIOUS
<1>13. /\ Own(k, rem) /\ Ids(k) = Ids(g) /\ Both(k) = Both(g)
       /\ \A i : StatusOf(k, i) = StatusOf(g, i)
       /\ \A i : Clean(k, i) <=> Clean(g, i)
       /\ \A i : Copy(k, i) <=> Copy(g, i)
    BY <1>6, <1>8, <1>10, <1>11, <1>12, SameCopies
<1>14. Kin(k)
    BY <1>3, <1>6, <1>7, <1>9, <1>13 DEF Kin, Known
<1>15. Others(k)
    BY <1>7, <1>11, <1>12, <1>13 DEF Ready, Others
<1>16. Ready(k)
    BY <1>7, <1>8, <1>11, <1>12, <1>13, <1>15 DEF Ready
<1> QED BY <1>10, <1>11, <1>12, <1>13, <1>14, <1>16 DEF Going

LEMMA HandedOwns ==
    ASSUME LiveAssumption, LiveTypes, NEW rem, Returning(h, rem), HandedOver
    PROVE  h'.pc \notin {"idle", "creating"} /\ Own(h', rem) /\ Kin(h') /\ Going(h', rem)
<1> DEFINE d == CHOOSE i \in h.rows : \A j \in h.rows : i <= j
<1>1. h' = [h EXCEPT !.rows = h.rows \ {d}, !.done = h.done \union {d}]
    BY DEF HandedOver
<1> HIDE DEF d
<1>2. /\ Own(h, rem) /\ Ready(h) /\ h.goal = "enter" /\ h.pc = "draining" /\ Others(h)
    BY DEF HandedOver, Returning, Going, Ready
<1>3. Known(h)
    BY <1>2 DEF Returning, Kin, Known
<1>4. /\ DOMAIN h' = Fields /\ h'.rows = h.rows \ {d} /\ h'.done = h.done \union {d}
      /\ \A f \in Fields \ {"rows", "done"} : h'[f] = h[f]
    BY <1>1, <1>2 DEF Own, Copied, Fields
<1>5. /\ h'.mine = h.mine /\ h'.base = h.base /\ h'.locked = h.locked /\ h'.inbox = h.inbox
      /\ h'.s = h.s /\ h'.goal = h.goal /\ h'.next = h.next /\ h'.pc = h.pc
    BY <1>4 DEF Fields
<1>6. PICK k : k = h'
    OBVIOUS
<1>7. /\ Own(k, rem) /\ Ids(k) = Ids(h) /\ Both(k) = Both(h)
      /\ \A i : StatusOf(k, i) = StatusOf(h, i)
      /\ \A i : Clean(k, i) <=> Clean(h, i)
      /\ \A i : Copy(k, i) <=> Copy(h, i)
    BY <1>2, <1>4, <1>5, <1>6, SameCopies
<1>8. Kin(k)
    BY <1>3, <1>7 DEF Kin, Known
<1>9. Others(k)
    BY <1>2, <1>5, <1>6, <1>7 DEF Others
<1>10. \A i \in DOMAIN pend :
          pend[i].s = k.s /\ pend[i].status = "pending" => i \in k.rows \union k.done
    BY <1>2, <1>4, <1>5, <1>6 DEF Ready
<1>11. Ready(k)
    BY <1>2, <1>5, <1>6, <1>7, <1>9, <1>10 DEF Ready
<1> QED BY <1>2, <1>5, <1>6, <1>7, <1>8, <1>11 DEF Going

\* A handler that goes on.
LEMMA MovesReturn ==
    ASSUME LiveAssumption, ReturnInv, LiveInv',
           Reopened \/ Created \/ HandoverBegins \/ HandedOver
    PROVE  ReturnInv'
<1>1. LiveTypes /\ Steady(h, remote)
    BY DEF ReturnInv, LiveInv
<1>2. UNCHANGED <<ustate, sess, newest, pend, w>>
    BY DEF Reopened, Created, HandoverBegins, HandedOver, rowVars
<1>3. /\ Grown(remote')
      /\ Created => /\ Len(remote') = Len(remote) + 1 /\ remote'[Len(remote')].inbox = h.inbox
                    /\ Len(remote') \in DOMAIN remote'
    <2>0. remote \in Seq(Conversations)
        BY <1>1 DEF LiveTypes
    <2>1. CASE UNCHANGED remote /\ ~Created
        BY SMTT(30), <2>0, <2>1, SameGrows
    <2>2. CASE Reopened /\ ~Created
        <3>1. remote' = [remote EXCEPT ![h.mine[h.s].conv].status = "open"]
            BY <2>2 DEF Reopened
        <3> QED BY <2>0, <2>2, <3>1, SetGrows
    <2>3. CASE Created
        <3>1. remote' = Append(remote, [inbox |-> h.inbox, status |-> "open"])
            BY <2>3 DEF Created
        <3> QED BY <2>0, <3>1 DEF Grown
    <2> QED BY <2>1, <2>2, <2>3 DEF HandoverBegins, HandedOver
<1>4. ASSUME OneBox(remote')
      PROVE  h'.pc \notin {"idle", "creating"} /\ Own(h', remote') /\ Kin(h') /\ Going(h', remote')
    <2>1. PICK rem : rem = remote'
        OBVIOUS
    <2>2. PICK old : old = remote
        OBVIOUS
    <2>3. Returning(h, old)
        BY <1>3, <1>4, <2>1, <2>2, GrowthKeeps DEF ReturnInv
    <2>4. Returning(h, rem)
        BY <1>3, <2>1, <2>2, <2>3, GrowthKeeps DEF Returning
    <2>5. CASE ~Created
        BY <1>1, <2>1, <2>4, <2>5, ReopenOwns, HandoverOwns, HandedOwns
    <2>6. CASE Created
        BY <1>1, <1>3, <1>4, <2>1, <2>2, <2>3, <2>6, CreateOwns
    <2> QED BY <2>5, <2>6
<1> QED BY <1>2, <1>3, <1>4, MovedReturn

\* A handler that looks for another conversation.
LEMMA SearchReturns ==
    ASSUME LiveAssumption, ReturnInv, LiveInv', StatusAnswered \/ PostedNowhere
    PROVE  ReturnInv'
<1>1. LiveTypes /\ UNCHANGED <<ustate, pend, w, remote>>
    BY DEF ReturnInv, LiveInv, StatusAnswered, PostedNowhere
<1>2. PICK rem : rem = remote
    OBVIOUS
<1>3. OneBox(rem) => \E g : Proceeds(g) /\ Comes(g, rem)
    BY <1>1, <1>2, AnswerOwns, NowhereOwns DEF ReturnInv
<1> QED BY <1>1, <1>2, <1>3, ProceedReturn

\* A handler that commits.
LEMMA CommitsReturn ==
    ASSUME LiveAssumption, ReturnInv, LiveInv', Replied \/ Posted \/ HandoverEnds
    PROVE  ReturnInv'
<1>1. LiveTypes /\ w' = w /\ remote \in Seq(Conversations)
    BY DEF ReturnInv, LiveInv, LiveTypes, Replied, Posted, HandoverEnds
<1>2. CASE Replied
    <2>1. h.pc = "replying" /\ Committed(h) /\ UNCHANGED remote
        BY <1>2 DEF Replied
    <2>2. Grown(remote')
        BY <1>1, <2>1, SameGrows
    <2>3. ASSUME OneBox(remote')
          PROVE  /\ Own(h, remote') /\ Ready(h)
                 /\ \A i, j \in Both(h) : i = j
                 /\ \A i \in Both(h) : Copy(h, i) /\ (i # h.s => Clean(h, i))
                 /\ h.goal = "enter" => h.rows = {}
        <3>1. /\ Own(h, remote) /\ Ready(h) /\ Kin(h)
              /\ IF h.goal = "enter" THEN h.rows = {} ELSE h.s \in DOMAIN sess
            BY <2>1, <2>3 DEF ReturnInv, Returning, Going
        <3>2. h.goal # "enter" => h.s \in Both(h)
            BY <3>1 DEF Ready, Others, Both
        <3> QED BY <2>1, <3>1, <3>2 DEF Kin
    <2> QED BY <1>1, <2>1, <2>2, <2>3, CommitReturn
<1>3. ASSUME NEW row, h.pc \in {"posting", "draining"},
             Committed([h EXCEPT !.mine[h.s] = row]), Grown(remote'),
             h.mine[h.s] \in SessionRows =>
                /\ row \in SessionRows /\ row.inbox = h.mine[h.s].inbox
                /\ row.status \in {"open", h.mine[h.s].status}
                /\ row.present = h.mine[h.s].present,
             h.pc = "draining" => h.rows = {}
      PROVE  ReturnInv'
    <2> DEFINE g == [h EXCEPT !.mine = [h.mine EXCEPT ![h.s] = row]]
    <2>1. DOMAIN h = Fields
        BY DEF ReturnInv, LiveInv, Steady, Copied
    <2>2. Committed(g)
        BY <1>3, <2>1 DEF Fields
    <2> HIDE DEF g
    <2>3. ASSUME OneBox(remote')
          PROVE  /\ Own(g, remote') /\ Ready(g)
                 /\ \A i, j \in Both(g) : i = j
                 /\ \A i \in Both(g) : Copy(g, i) /\ (i # g.s => Clean(g, i))
                 /\ g.goal = "enter" => g.rows = {}
        <3>1. PICK rem : rem = remote'
            OBVIOUS
        <3>2. Returning(h, remote)
            BY <1>3, <2>3, GrowthKeeps DEF ReturnInv
        <3>3. Own(h, rem) /\ Ready(h) /\ Kin(h) /\ (h.pc = "posting" => h.goal # "enter")
            BY <1>3, <3>1, <3>2, GrowthKeeps DEF Returning, Going
        <3>4. h.s \in DOMAIN h.mine /\ h.mine[h.s] \in SessionRows /\ Known(h)
            BY <1>3, <3>3 DEF Ready, Others, Own, Copied, Kin, Known
        <3>5. /\ row \in SessionRows /\ row.inbox = h.mine[h.s].inbox
              /\ row.status \in {"open", h.mine[h.s].status}
              /\ row.present = h.mine[h.s].present
            BY <1>3, <3>4
        <3>6. /\ Own(g, rem) /\ DOMAIN g.mine = DOMAIN h.mine /\ Both(g) = Both(h) /\ Ids(g) = Ids(h)
              /\ g.mine[g.s] = row /\ \A i \in DOMAIN h.mine : i # h.s => g.mine[i] = h.mine[i]
              /\ \A f \in Fields \ {"mine"} : g[f] = h[f]
            BY <3>3, <3>4, <3>5, Touched DEF g
        <3>7. /\ Ready(g)
              /\ \A i \in Both(h) : Copy(h, i) => Copy(g, i)
              /\ \A i \in Both(h) : i # h.s /\ Clean(h, i) => Clean(g, i)
            BY <3>3, <3>5, <3>6, TouchedReady DEF Own
        <3>8. g.s = h.s /\ g.goal = h.goal /\ g.rows = h.rows
            BY <3>6 DEF Fields
        <3> QED BY <1>3, <3>1, <3>3, <3>4, <3>6, <3>7, <3>8 DEF Known
    <2> QED BY <1>1, <1>3, <2>2, <2>3, CommitReturn
<1>4. \A r \in SessionRows :
         /\ LET q == [r EXCEPT !.status = "open"]
            IN q \in SessionRows /\ q.inbox = r.inbox /\ q.status = "open" /\ q.present = r.present
         /\ LET q == [r EXCEPT !.noticed = FALSE, !.unread = 0]
            IN q \in SessionRows /\ q.inbox = r.inbox /\ q.status = r.status /\ q.present = r.present
    BY DEF SessionRows, Statuses
<1>5. CASE Posted
    <2>1. /\ h.pc = "posting" /\ Committed([h EXCEPT !.mine[h.s] = [@ EXCEPT !.status = "open"]])
          /\ remote' = [remote EXCEPT ![h.mine[h.s].conv].status = "open"]
        BY <1>5 DEF Posted
    <2> DEFINE row == [h.mine[h.s] EXCEPT !.status = "open"]
    <2>2. DOMAIN h = Fields
        BY DEF ReturnInv, LiveInv, Steady, Copied
    <2>3. Committed([h EXCEPT !.mine[h.s] = row])
        BY SMTT(30), <2>1, <2>2 DEF Fields
    <2>4. Grown(remote')
        BY <1>1, <2>1, SetGrows
    <2>5. h.mine[h.s] \in SessionRows =>
             /\ row \in SessionRows /\ row.inbox = h.mine[h.s].inbox
             /\ row.status \in {"open", h.mine[h.s].status}
             /\ row.present = h.mine[h.s].present
        BY <1>4
    <2>6. PICK p : p = row
        OBVIOUS
    <2> HIDE DEF row
    <2> QED BY <1>3, <2>1, <2>3, <2>4, <2>5, <2>6
<1>6. CASE HandoverEnds
    <2>1. /\ h.pc = "draining" /\ h.rows = {} /\ UNCHANGED remote
          /\ Committed([h EXCEPT !.mine[h.s] = [@ EXCEPT !.noticed = FALSE, !.unread = 0]])
        BY <1>6 DEF HandoverEnds
    <2> DEFINE row == [h.mine[h.s] EXCEPT !.noticed = FALSE, !.unread = 0]
    <2>2. DOMAIN h = Fields
        BY DEF ReturnInv, LiveInv, Steady, Copied
    <2>3. Committed([h EXCEPT !.mine[h.s] = row])
        BY <2>1, <2>2 DEF Fields
    <2>4. Grown(remote')
        BY <1>1, <2>1, SameGrows
    <2>5. h.mine[h.s] \in SessionRows =>
             /\ row \in SessionRows /\ row.inbox = h.mine[h.s].inbox
             /\ row.status \in {"open", h.mine[h.s].status}
             /\ row.present = h.mine[h.s].present
        BY <1>4
    <2>6. PICK q : q = row
        OBVIOUS
    <2> HIDE DEF row
    <2> QED BY <1>3, <2>1, <2>3, <2>4, <2>5, <2>6
<1> QED BY SMTT(30), <1>2, <1>5, <1>6

----------------------------------------------------------------------------
(* An update is taken.                                                     *)

\* A handler that begins has read nothing.
Fresh(b, goal, next) ==
    /\ DOMAIN b.mine = {} /\ b.locked = {} /\ b.goal = goal /\ b.next = next /\ b.stage = 0
    /\ b.pc = "idle" /\ Ids(b) = DOMAIN sess /\ Both(b) = {}
    /\ \A i \in DOMAIN sess : StatusOf(b, i) = sess[i].status
LEMMA BeginOwns ==
    ASSUME LiveTypes, NEW rem, Counted(rem), NEW goal, NEW next
    PROVE  Own(Begin(goal, next), rem) /\ Fresh(Begin(goal, next), goal, next)
<1> DEFINE b == Begin(goal, next)
<1>1. Copied(b) /\ DOMAIN b.mine = {}
    BY Begun DEF LiveTypes
<1>2. /\ b.base = <<>> /\ b.locked = {} /\ b.goal = goal /\ b.next = next /\ b.stage = 0
      /\ b.pc = "idle"
    BY DEF Begin, NoHandler, Fields
<1>3. DOMAIN << >> = {}
    OBVIOUS
<1> HIDE DEF b
<1>4. Ids(b) = DOMAIN sess /\ Both(b) = {}
    BY <1>1 DEF Ids, Both
<1>5. \A i \in DOMAIN sess : StatusOf(b, i) = sess[i].status
    BY <1>2 DEF StatusOf
<1>6. Own(b, rem)
    BY <1>1, <1>2, <1>3, <1>4 DEF Own, Counted
<1> QED BY <1>1, <1>2, <1>4, <1>5, <1>6 DEF Fresh, b

\* The session of a customer in the route is the one that will be found.
LEMMA ActiveIsFront ==
    ASSUME SessTypes, NEW rem, Counted(rem)
    PROVE  IF ActiveSession = 0 THEN ustate # Live \/ DOMAIN sess = {}
           ELSE ActiveSession \in DOMAIN sess /\ ustate = Live /\ Front(ActiveSession)
<1> DEFINE unresolved == {i \in DOMAIN sess : sess[i].status # "resolved"}
           S == IF unresolved # {} THEN unresolved ELSE DOMAIN sess
<1>1. ActiveSession = IF ustate # Live \/ DOMAIN sess = {} THEN 0 ELSE First(S, newest)
    BY DEF ActiveSession
<1> SUFFICES ASSUME ustate = Live, DOMAIN sess # {}
             PROVE  First(S, newest) \in DOMAIN sess /\ First(S, newest) # 0
                    /\ Front(First(S, newest))
    BY <1>1
<1>2. \A i \in DOMAIN sess : newest[i] \in Nat /\ i # 0
    BY DEF SessTypes, Counted
<1>3. CASE unresolved # {}
    <2>1. unresolved \subseteq DOMAIN sess /\ \A i \in unresolved : sess[i].status # "resolved"
        OBVIOUS
    <2> HIDE DEF unresolved
    <2>2. First(S, newest) \in unresolved
        BY <1>2, <1>3, <2>1, FirstIsLeast
    <2> QED BY <1>2, <2>1, <2>2 DEF Front
<1>4. CASE unresolved = {}
    <2>1. \A i \in DOMAIN sess : sess[i].status = "resolved"
        BY <1>4
    <2> HIDE DEF unresolved
    <2>2. S = DOMAIN sess
        BY <1>4
    <2>3. First(S, newest) \in S /\ \A j \in S : newest[First(S, newest)] <= newest[j]
        BY <1>2, <2>2, FirstIsLeast
    <2> HIDE DEF S
    <2> QED BY <1>2, <2>1, <2>2, <2>3 DEF Front
<1> QED BY <1>3, <1>4

\* The route's button.
LEMMA EnterOwns ==
    ASSUME LiveAssumption, LiveTypes, NEW rem, Returning(h, rem), EnterRoute, ActiveSession = 0
    PROVE  \E g : Proceeds(g) /\ Comes(g, rem)
<1> DEFINE b == Begin("enter", ustate)
           c == RouteSessionOf(b)
           g == OpenRoute(b)
<1>1. Proceeds(g)
    BY DEF EnterRoute
<1>2. SessTypes /\ Counted(rem) /\ SessInv
    BY DEF Returning, LiveTypes
<1>3. Own(b, rem) /\ Fresh(b, "enter", ustate)
    BY <1>2, BeginOwns
<1> HIDE DEF b, g
<1>4. ustate # Live \/ DOMAIN sess = {}
    BY <1>2, ActiveIsFront
<1>5. Known(b) /\ Fit(b) /\ Unsettled(b)
    BY <1>3, <1>4 DEF Fresh, Known, Fit, Unsettled
<1>6. \A i, j \in Ids(b) :
         StatusOf(b, i) # "resolved" /\ StatusOf(b, j) # "resolved" => i = j
    BY <1>2, <1>3 DEF Fresh, SessInv
<1>7. Pick(b)
    <2> SUFFICES ASSUME c # 0 PROVE Front(c)
        BY <1>3 DEF Pick, Fresh
    <2>1. /\ c \in DOMAIN sess
          /\ \/ StatusOf(b, c) # "resolved"
             \/ Over(b) /\ \A j \in DOMAIN sess : Order(b)[c] <= Order(b)[j]
        BY <1>2, <1>3, RouteFound DEF Fresh
    <2> HIDE DEF c
    <2>2. CASE StatusOf(b, c) # "resolved"
        BY <1>3, <2>1, <2>2 DEF Fresh, Front
    <2>3. CASE Over(b) /\ \A j \in DOMAIN sess : Order(b)[c] <= Order(b)[j]
        <3>1. \A i \in DOMAIN sess : Order(b)[i] = 2 * MaxConvs + newest[i] /\ newest[i] \in Nat
            BY <1>2, <1>3, OrderOf DEF Fresh
        <3>2. \A j \in DOMAIN sess : newest[c] <= newest[j]
            BY <2>1, <2>3, <3>1 DEF LiveAssumption
        <3>3. \A j \in DOMAIN sess : sess[j].status = "resolved"
            BY <1>3, <2>3 DEF Over, Fresh
        <3> QED BY <3>2, <3>3 DEF Front
    <2> QED BY <2>1, <2>2, <2>3
<1>8. g.pc \in {"creating", "checking"} /\ Own(g, rem) /\ Kin(g) /\ Asking(g, rem)
    BY <1>2, <1>3, <1>5, <1>6, <1>7, RouteReturns DEF g
<1> QED BY <1>1, <1>8 DEF Going, Comes

\* A customer in the route writes.
Hearing(hh, i) ==
    /\ DOMAIN hh.mine = {i} /\ hh.s = i /\ hh.goal = "forward" /\ hh.next = Live /\ hh.pc = "idle"
    /\ i \in DOMAIN sess /\ Front(i) /\ ustate = Live
    /\ Ids(hh) = DOMAIN sess /\ Both(hh) = {i} /\ hh.locked \subseteq {i}
    /\ hh.base[i] = sess[i] /\ hh.mine[i].status = sess[i].status /\ hh.mine[i].present
    /\ Copy(hh, i) /\ Clean(hh, i)
    /\ \A k \in DOMAIN sess : StatusOf(hh, k) = sess[k].status
    /\ \A k \in DOMAIN sess : k # i => sess[k].status = "resolved"
LEMMA HeardOwns ==
    ASSUME LiveTypes, NEW rem, Counted(rem), SessInv, ActiveSession # 0
    PROVE  Own(Heard(ActiveSession), rem) /\ Hearing(Heard(ActiveSession), ActiveSession)
<1> DEFINE i == ActiveSession
           b == Begin("forward", ustate)
           load == Load(b, i)
           at == [load EXCEPT !.s = i]
           row == [sess[i] EXCEPT !.present = TRUE]
           save == Save(at, i, row)
           hh == Heard(i)
<1>1. hh = IF sess[i].present THEN at ELSE save
    BY DEF Heard
<1>2. SessTypes /\ i \in DOMAIN sess /\ ustate = Live /\ Front(i)
    BY ActiveIsFront DEF LiveTypes
<1> HIDE DEF i, hh
<1>3. Own(b, rem) /\ Fresh(b, "forward", Live)
    BY <1>2, BeginOwns
<1> HIDE DEF b
<1>4. /\ Own(load, rem) /\ Ids(load) = Ids(b) /\ DOMAIN load.mine = DOMAIN b.mine \union {i}
      /\ i \notin DOMAIN b.mine => i \in DOMAIN sess /\ load.mine[i] = sess[i] /\ load.base[i] = sess[i]
      /\ \A f \in Fields \ {"mine", "base"} : load[f] = b[f]
      /\ \A k \in Ids(b) : StatusOf(load, k) = StatusOf(b, k)
    BY <1>2, <1>3, LoadOwns DEF Ids
<1> HIDE DEF load
<1>5. /\ DOMAIN load.mine = {i} /\ load.mine[i] = sess[i] /\ load.base[i] = sess[i]
      /\ Ids(load) = DOMAIN sess /\ load.locked = {} /\ load.goal = "forward" /\ load.next = Live
      /\ load.pc = "idle"
      /\ \A k \in DOMAIN sess : StatusOf(load, k) = sess[k].status
    BY <1>3, <1>4 DEF Fresh, Fields
<1>6. /\ DOMAIN at = Fields /\ at.s = i /\ \A f \in Fields \ {"s"} : at[f] = load[f]
    BY <1>4 DEF Own, Copied, Fields
<1> HIDE DEF at
<1>7. /\ at.mine = load.mine /\ at.base = load.base /\ at.locked = {} /\ at.inbox = load.inbox
      /\ at.goal = "forward" /\ at.next = Live /\ at.pc = "idle"
    BY <1>5, <1>6 DEF Fields
<1>8. /\ Own(at, rem) /\ Ids(at) = DOMAIN sess /\ Both(at) = {i}
      /\ \A k \in DOMAIN sess : StatusOf(at, k) = sess[k].status
    <2> HIDE DEF row, save
    <2>1. /\ Own(load, rem) /\ DOMAIN at = Fields /\ at.mine = load.mine /\ at.base = load.base
          /\ at.locked = load.locked /\ at.inbox = load.inbox
        BY <1>4, <1>5, <1>6, <1>7
    <2>2. Own(at, rem) /\ Ids(at) = Ids(load) /\ \A k : StatusOf(at, k) = StatusOf(load, k)
        BY <2>1, SameCopies
    <2> QED BY <1>2, <1>5, <1>7, <2>2 DEF Both
<1>9. \A k \in DOMAIN sess : k # i => sess[k].status = "resolved"
    BY <1>2 DEF Front, SessInv
<1>10. /\ sess[i].status = "resolved" => \A j \in DOMAIN sess : sess[j].status = "resolved"
       /\ ~Waits(i)
    BY <1>2 DEF Front, SessInv
<1>11. CASE sess[i].present
    <2>1. hh = at
        BY <1>1, <1>11
    <2>2. Copy(at, i) /\ Clean(at, i)
        BY <1>2, <1>5, <1>7, <1>10, <1>11 DEF Copy, Clean
    <2>3. Hearing(at, i)
        BY <1>2, <1>5, <1>6, <1>7, <1>8, <1>9, <1>11, <2>2 DEF Hearing
    <2> QED BY <1>8, <2>1, <2>3 DEF hh, i
<1>12. CASE ~sess[i].present
    <2>1. hh = save
        BY <1>1, <1>12
    <2>2. /\ row \in SessionRows /\ row.inbox = sess[i].inbox /\ row.status = sess[i].status
          /\ row.present
        <3>1. sess[i] \in SessionRows
            BY <1>2 DEF SessTypes
        <3> QED BY <3>1 DEF SessionRows
    <2> HIDE DEF row
    <2>3. Own(save, rem) /\ Stored(at, save, i, row)
        BY <1>5, <1>7, <1>8, <2>2, SaveOwns
    <2> HIDE DEF save
    <2>4. /\ save.mine[i] = row /\ save.base[i] = sess[i] /\ save.locked = {i}
          /\ save.goal = "forward" /\ save.next = Live /\ save.pc = "idle" /\ save.s = i
          /\ DOMAIN save.mine = {i} /\ Ids(save) = DOMAIN sess /\ Both(save) = {i}
        BY <1>5, <1>6, <1>7, <1>8, <1>12, <2>2, <2>3 DEF Stored, Fields
    <2>5. Copy(save, i) /\ Clean(save, i)
        BY <1>2, <1>10, <1>12, <2>2, <2>4 DEF Copy, Clean
    <2>6. \A k \in DOMAIN sess : StatusOf(save, k) = sess[k].status
        BY <2>2, <2>4 DEF StatusOf
    <2>7. Hearing(save, i)
        BY <1>2, <1>9, <2>2, <2>4, <2>5, <2>6 DEF Hearing
    <2> QED BY <2>1, <2>3, <2>7 DEF hh, i
<1> QED BY <1>11, <1>12

LEMMA HearingReady ==
    ASSUME NEW rem, NEW hh, NEW i, Own(hh, rem), Hearing(hh, i)
    PROVE  Others(hh) /\ Ready(hh) /\ Known(hh) /\ Fit(hh) /\ Unsettled(hh)
<1>1. Others(hh)
    BY DEF Hearing, Others
<1>2. Ready(hh)
    BY <1>1 DEF Hearing, Ready
<1> QED BY <1>1, <1>2 DEF Hearing, Known, Fit, Unsettled

\* What he writes finds his session again, or none.
LEMMA HearingPick ==
    ASSUME LiveAssumption, SessTypes, NEW rem, Counted(rem), SessInv,
           NEW hh, NEW i, Own(hh, rem), Hearing(hh, i)
    PROVE  Pick(hh)
<1> DEFINE c == RouteSessionOf(hh)
           o == Order(hh)
<1> SUFFICES ASSUME c # 0 PROVE c = i
    BY DEF Pick, Hearing
<1>1. /\ c \in DOMAIN sess
      /\ \/ StatusOf(hh, c) # "resolved"
         \/ Over(hh) /\ \A j \in DOMAIN sess : o[c] <= o[j]
    BY RouteFound DEF Hearing
<1>2. /\ \A j \in DOMAIN sess : j \in hh.locked => o[j] \in Nat /\ o[j] <= 2 * MaxConvs
      /\ \A j \in DOMAIN sess : j \notin hh.locked =>
            o[j] = 2 * MaxConvs + newest[j] /\ newest[j] \in Nat /\ newest[j] > 0
      /\ MaxConvs \in Nat
    BY OrderOf
<1> HIDE DEF c, o
<1>3. CASE StatusOf(hh, c) # "resolved"
    BY <1>1, <1>3 DEF Hearing
<1>4. CASE Over(hh) /\ \A j \in DOMAIN sess : o[c] <= o[j]
    <2>1. CASE i \in hh.locked
        <3>1. o[c] <= o[i] /\ o[i] \in Nat /\ o[i] <= 2 * MaxConvs
            BY <1>2, <1>4, <2>1 DEF Hearing
        <3>2. c \in hh.locked
            BY <1>1, <1>2, <3>1
        <3> QED BY <3>2 DEF Hearing
    <2>2. CASE i \notin hh.locked
        <3>1. \A j \in DOMAIN sess : o[j] = 2 * MaxConvs + newest[j] /\ newest[j] \in Nat
            BY <1>2, <2>2 DEF Hearing
        <3>2. \A j \in DOMAIN sess : newest[c] <= newest[j]
            BY <1>1, <1>2, <1>4, <3>1
        <3>3. \A j \in DOMAIN sess : sess[j].status = "resolved"
            BY <1>4 DEF Hearing, Over
        <3>4. Front(c)
            BY <3>2, <3>3 DEF Front
        <3> QED BY <1>1, <3>4 DEF Hearing, SessInv
    <2> QED BY <2>1, <2>2
<1> QED BY <1>1, <1>3, <1>4

LEMMA ForwardOwns ==
    ASSUME LiveAssumption, SessTypes, NEW rem, Counted(rem), SessInv,
           NEW hh, NEW i, Own(hh, rem), Hearing(hh, i)
    PROVE  LET g == Forwardable(hh)
           IN g.pc # "idle" /\ Own(g, rem) /\ Kin(g) /\ Going(g, rem)
<1> DEFINE open == OpenRoute(hh)
           ask == [hh EXCEPT !.stage = 1, !.pc = "checking"]
<1>1. DOMAIN hh = Fields
    BY DEF Own, Copied
<1>2. Forwardable(hh) \in {open, ask}
    BY <1>1 DEF Forwardable, Verify, Fields
<1>3. Others(hh) /\ Ready(hh) /\ Known(hh) /\ Fit(hh) /\ Unsettled(hh)
    BY HearingReady
<1>4. open.pc \in {"creating", "checking"} /\ Own(open, rem) /\ Kin(open) /\ Asking(open, rem)
    <2>1. Pick(hh)
        BY HearingPick
    <2>2. \A j, k \in Ids(hh) :
             StatusOf(hh, j) # "resolved" /\ StatusOf(hh, k) # "resolved" => j = k
        BY DEF Hearing
    <2> QED BY <1>3, <2>1, <2>2, RouteReturns
<1> HIDE DEF open
<1>5. ask.pc = "checking" /\ Own(ask, rem) /\ Kin(ask) /\ Asking(ask, rem)
    <2>1. /\ DOMAIN ask = Fields /\ ask.pc = "checking" /\ ask.stage = 1
          /\ \A f \in Fields \ {"pc", "stage"} : ask[f] = hh[f]
        BY <1>1 DEF Fields
    <2> HIDE DEF ask
    <2>2. /\ ask.mine = hh.mine /\ ask.base = hh.base /\ ask.locked = hh.locked
          /\ ask.inbox = hh.inbox /\ ask.goal = hh.goal /\ ask.next = hh.next /\ ask.s = hh.s
        BY <2>1 DEF Fields
    <2>3. /\ Own(ask, rem) /\ Ids(ask) = Ids(hh) /\ Both(ask) = Both(hh)
          /\ \A k : StatusOf(ask, k) = StatusOf(hh, k)
          /\ \A k : Clean(ask, k) <=> Clean(hh, k)
          /\ \A k : Copy(ask, k) <=> Copy(hh, k)
        BY <2>1, <2>2, SameCopies
    <2>4. Kin(ask)
        BY <1>3, <2>3 DEF Kin, Known
    <2>5. Fit(ask) /\ Others(ask)
        BY <1>3, <2>2, <2>3 DEF Fit, Others
    <2>6. ask.s \in DOMAIN sess /\ ask.goal # "enter"
        BY <2>2 DEF Hearing
    <2> QED BY <2>1, <2>3, <2>4, <2>5, <2>6 DEF Asking
<1> QED BY <1>2, <1>4, <1>5 DEF Going

LEMMA UpdateOwns ==
    ASSUME LiveAssumption, LiveTypes, NEW rem, Returning(h, rem),
           NEW text, NEW root, LiveUpdate(text, root)
    PROVE  \E g : Proceeds(g) /\ Comes(g, rem)
<1> DEFINE i == ActiveSession
           hh == Heard(i)
           gone == [hh.mine[hh.s] EXCEPT !.present = FALSE, !.status = "closed_by_user"]
           at == [hh EXCEPT !.mine = [hh.mine EXCEPT ![hh.s] = gone]]
           left == [at EXCEPT !.pc = "replying", !.next = root]
           stay == [hh EXCEPT !.pc = "replying"]
<1>1. SessTypes /\ Counted(rem) /\ SessInv
    BY DEF Returning, LiveTypes
<1>2. Own(hh, rem) /\ Hearing(hh, i)
    BY <1>1, HeardOwns DEF LiveUpdate
<1>3. PICK g : Proceeds(g) /\ (g = Leaving(hh, root) \/ g = stay \/ g = Forwardable(hh))
    BY DEF LiveUpdate, Refusing
<1> HIDE DEF i, hh
<1> SUFFICES g.pc # "idle" /\ Own(g, rem) /\ Kin(g) /\ Going(g, rem)
    BY <1>3 DEF Comes
<1>4. DOMAIN hh = Fields /\ Others(hh) /\ Ready(hh) /\ Known(hh)
    BY <1>2, HearingReady DEF Own, Copied
<1>5. CASE g = stay
    <2>1. /\ DOMAIN stay = Fields /\ stay.pc = "replying"
          /\ \A f \in Fields \ {"pc"} : stay[f] = hh[f]
        BY <1>4 DEF Fields
    <2> HIDE DEF stay
    <2>2. /\ stay.mine = hh.mine /\ stay.base = hh.base /\ stay.locked = hh.locked
          /\ stay.inbox = hh.inbox /\ stay.goal = hh.goal /\ stay.next = hh.next /\ stay.s = hh.s
        BY <2>1 DEF Fields
    <2>3. /\ Own(stay, rem) /\ Ids(stay) = Ids(hh) /\ Both(stay) = Both(hh)
          /\ \A k : StatusOf(stay, k) = StatusOf(hh, k)
          /\ \A k : Clean(stay, k) <=> Clean(hh, k)
          /\ \A k : Copy(stay, k) <=> Copy(hh, k)
        BY <1>2, <2>1, <2>2, SameCopies
    <2>4. Kin(stay)
        BY <1>4, <2>3 DEF Kin, Known
    <2>5. Others(stay)
        BY <1>4, <2>2, <2>3 DEF Others
    <2>6. Ready(stay) /\ stay.s \in DOMAIN sess /\ stay.goal # "enter"
        BY <1>2, <1>4, <2>2, <2>3, <2>5 DEF Ready, Hearing
    <2> QED BY <1>5, <2>1, <2>3, <2>4, <2>6 DEF Going
<1>6. CASE g = Leaving(hh, root)
    <2>1. g = left
        BY <1>4, <1>6 DEF Leaving, Fields
    <2>2. hh.s \in DOMAIN hh.mine /\ hh.mine[hh.s] \in SessionRows
        BY <1>2, <1>4 DEF Others, Own, Copied
    <2>3. /\ gone \in SessionRows /\ gone.inbox = hh.mine[hh.s].inbox
          /\ gone.status = "closed_by_user" /\ ~gone.present
        BY <2>2 DEF SessionRows, Statuses
    <2> HIDE DEF gone
    <2>4. /\ Own(at, rem) /\ DOMAIN at.mine = DOMAIN hh.mine /\ Both(at) = Both(hh) /\ Ids(at) = Ids(hh)
          /\ at.mine[at.s] = gone /\ \A k \in DOMAIN hh.mine : k # hh.s => at.mine[k] = hh.mine[k]
          /\ \A f \in Fields \ {"mine"} : at[f] = hh[f]
        BY <1>2, <2>2, <2>3, Touched
    <2> HIDE DEF at
    <2>5. at.s = hh.s /\ at.base = hh.base /\ at.locked = hh.locked /\ at.goal = hh.goal
        BY <2>4 DEF Fields
    <2>6. /\ DOMAIN left = Fields /\ left.pc = "replying" /\ left.next = root
          /\ \A f \in Fields \ {"pc", "next"} : left[f] = at[f]
        BY <2>4 DEF Own, Copied, Fields
    <2> HIDE DEF left
    <2>7. /\ left.mine = at.mine /\ left.base = hh.base /\ left.locked = hh.locked
          /\ left.inbox = at.inbox /\ left.goal = hh.goal /\ left.s = hh.s
        BY <2>5, <2>6 DEF Fields
    <2>8. Own(left, rem) /\ Ids(left) = Ids(hh) /\ Both(left) = Both(hh)
        BY <2>4, <2>5, <2>6, <2>7, SameCopies
    <2>9. /\ DOMAIN left.mine = {i} /\ left.s = i /\ left.goal = "forward" /\ i \in DOMAIN sess
          /\ left.mine[i].status = "closed_by_user" /\ ~left.mine[i].present
          /\ Ids(left) = DOMAIN sess /\ Both(left) = {i}
        BY <1>2, <2>3, <2>4, <2>5, <2>7, <2>8 DEF Hearing
    <2>10. Others(left)
        <3>1. \A k \in DOMAIN sess : k # i => StatusOf(left, k) = sess[k].status
            BY <1>2, <2>7 DEF StatusOf, Hearing
        <3> QED BY <1>2, <2>9, <3>1 DEF Others, Hearing
    <2>11. Ready(left) /\ Going(left, rem)
        BY <1>2, <2>6, <2>9, <2>10 DEF Ready, Going, Hearing
    <2>12. Kin(left)
        <3>1. Copy(left, i)
            BY <1>2, <2>7, <2>9 DEF Copy, Hearing
        <3> QED BY <2>6, <2>9, <3>1 DEF Kin
    <2> QED BY <2>1, <2>6, <2>8, <2>11, <2>12
<1>7. CASE g = Forwardable(hh)
    BY <1>1, <1>2, <1>7, ForwardOwns
<1> QED BY <1>3, <1>5, <1>6, <1>7

\* An update begins.
LEMMA UpdatesReturn ==
    ASSUME LiveAssumption, ReturnInv, LiveInv',
           (EnterRoute /\ ActiveSession = 0) \/ \E text, root : LiveUpdate(text, root)
    PROVE  ReturnInv'
<1>1. LiveTypes /\ remote \in Seq(Conversations)
    BY DEF ReturnInv, LiveInv, LiveTypes
<1>2. UNCHANGED <<ustate, pend, w, remote>>
    BY DEF EnterRoute, LiveUpdate
<1>3. PICK rem : rem = remote
    OBVIOUS
<1>4. OneBox(rem) => \E g : Proceeds(g) /\ Comes(g, rem)
    BY <1>1, <1>3, EnterOwns, UpdateOwns DEF ReturnInv
<1> QED BY <1>2, <1>3, <1>4, ProceedReturn

\* A handler that ends without a commit; the run of a webhook may end with it.
LEMMA LostReturn ==
    ASSUME LiveAssumption, ReturnInv, LiveInv', h' = NoHandler, w' \in {w, NoRun},
           UNCHANGED <<ustate, sess, newest, pend, remote>>
    PROVE  ReturnInv'
<1>1. PICK rem : rem = remote
    OBVIOUS
<1> SUFFICES ASSUME OneBox(rem) PROVE Returning(h, rem)'
    BY <1>1 DEF ReturnInv, OneBox, Returning, Counted, SessInv, Own, Kin, Going, Boxed, Asking
<1>2. Counted(rem) /\ SessInv
    BY <1>1 DEF ReturnInv, Returning
<1>3. w' = w \/ w'.pc = "idle"
    BY DEF NoRun
<1>4. Counted(rem)'
    BY <1>2, <1>3 DEF Counted, Boxed
<1>5. SessInv'
    <2>1. \A i : Front(i)' <=> Front(i)
        BY DEF Front
    <2>2. \A i : Waits(i)' <=> Waits(i)
        BY DEF Waits
    <2> QED BY <1>2, <1>3, <2>1, <2>2 DEF SessInv
<1> QED BY <1>4, <1>5, IdleReturns DEF Returning

\* The agents: conversations are resolved, opened or deleted, settings change.
LEMMA AgentsReturn ==
    ASSUME LiveAssumption, ReturnInv, LiveInv', Agents
    PROVE  ReturnInv'
<1>1. /\ LiveTypes /\ remote \in Seq(Conversations)
      /\ UNCHANGED <<ustate, sess, newest, pend, w>> /\ Copied(h)
    BY DEF ReturnInv, LiveInv, LiveTypes, Steady, Agents, AgentWrites, AgentSets, Reconfigured, rowVars
<1>2. Grown(remote')
    <2>1. CASE AgentSets
        <3>1. PICK c \in DOMAIN remote, v \in {"open", "resolved", "missing"} :
                 remote' = [remote EXCEPT ![c].status = v]
            BY <2>1 DEF AgentSets
        <3> QED BY <1>1, <3>1, SetGrows
    <2>2. CASE ~AgentSets
        BY <1>1, <2>2, SameGrows DEF Agents, AgentWrites, Reconfigured
    <2> QED BY <2>1, <2>2
<1>3. /\ DOMAIN h' = Fields /\ \A f \in Fields \ {"closed"} : h'[f] = h[f]
    <2>1. CASE AgentSets
        <3>1. PICK c \in DOMAIN remote : h' = [h EXCEPT !.closed = @ \ {c}]
            BY <2>1 DEF AgentSets
        <3> QED BY <1>1, <3>1 DEF Copied, Fields
    <2>2. CASE ~AgentSets
        BY <1>1, <2>2 DEF Agents, AgentWrites, Reconfigured, Copied
    <2> QED BY <2>1, <2>2
<1>4. PICK g : g = h'
    OBVIOUS
<1>5. /\ g.mine = h.mine /\ g.base = h.base /\ g.locked = h.locked /\ g.inbox = h.inbox
      /\ g.goal = h.goal /\ g.next = h.next /\ g.s = h.s /\ g.pc = h.pc /\ g.stage = h.stage
      /\ g.rows = h.rows /\ g.done = h.done
    BY <1>3, <1>4 DEF Fields
<1>6. ASSUME OneBox(remote')
      PROVE  /\ Own(g, remote') /\ Kin(g) /\ Going(g, remote')
             /\ g.pc \in {"idle", "creating"} => DOMAIN g.mine = {}
    <2>1. PICK rem : rem = remote'
        OBVIOUS
    <2>2. Own(h, rem) /\ Kin(h) /\ Going(h, rem) /\ (h.pc \in {"idle", "creating"} => DOMAIN h.mine = {})
        BY <1>2, <1>6, <2>1, GrowthKeeps DEF ReturnInv, Returning
    <2>3. /\ Own(g, rem) /\ Ids(g) = Ids(h) /\ Both(g) = Both(h)
          /\ \A k : StatusOf(g, k) = StatusOf(h, k)
          /\ \A k : Clean(g, k) <=> Clean(h, k)
          /\ \A k : Copy(g, k) <=> Copy(h, k)
        BY <1>3, <1>4, <1>5, <2>2, SameCopies
    <2>4. Kin(g)
        BY <1>5, <2>2, <2>3 DEF Kin
    <2>5. /\ Others(h) => Others(g)
          /\ Fit(h) => Fit(g)
          /\ Over(h) => Over(g)
          /\ Unsettled(h) => Unsettled(g)
        BY <1>5, <2>3 DEF Others, Fit, Over, Unsettled
    <2>6. Ready(h) => Ready(g)
        BY <1>5, <2>3, <2>5 DEF Ready
    <2>7. Asking(h, rem) => Asking(g, rem)
        BY <1>5, <2>5 DEF Asking
    <2>8. Going(g, rem)
        BY <1>5, <2>2, <2>6, <2>7 DEF Going
    <2> QED BY <1>5, <2>1, <2>2, <2>3, <2>4, <2>8
<1> QED BY <1>1, <1>2, <1>4, <1>6, MovedReturn

----------------------------------------------------------------------------
(* What a webhook does beside a handler.                                   *)

\* What its run writes of its session, and where it leaves it in the order.
Ran(i, base, mine) ==
    /\ DOMAIN sess' = DOMAIN sess /\ w' = NoRun
    /\ \A k \in DOMAIN sess : k # i => sess'[k] = sess[k]
    /\ sess'[i].status = IF mine.status # base.status THEN mine.status ELSE sess[i].status
    /\ sess'[i].present = IF mine.present # base.present THEN mine.present ELSE sess[i].present
    /\ sess'[i].inbox = IF mine.inbox # base.inbox THEN mine.inbox ELSE sess[i].inbox
    /\ \A k \in DOMAIN sess : newest'[k] \in 1..MaxConvs
    /\ IF mine = base THEN newest' = newest
       ELSE \A k \in DOMAIN sess : k # i => newest'[i] < newest'[k]
LEMMA RunWrites ==
    ASSUME LiveAssumption, LiveTypes, NEW rem, Counted(rem), NEW i \in DOMAIN sess,
           NEW base, NEW mine \in SessionRows, RunCommits(i, base, mine)
    PROVE  Ran(i, base, mine)
<1>1. SessTypes
    BY DEF LiveTypes
<1>2. /\ sess' = [sess EXCEPT ![i] = Merge(sess[i], base, mine)]
      /\ newest' = IF mine = base THEN newest ELSE Places([newest EXCEPT ![i] = 0])
      /\ w' = NoRun
    BY DEF RunCommits, RunEnds
<1>3. /\ DOMAIN sess' = DOMAIN sess
      /\ \A k \in DOMAIN sess : k # i => sess'[k] = sess[k]
      /\ sess'[i] = Merge(sess[i], base, mine)
    BY <1>1, <1>2 DEF SessTypes
<1>4. sess[i] \in SessionRows
    BY <1>1 DEF SessTypes
<1>5. /\ sess'[i].status = IF mine.status # base.status THEN mine.status ELSE sess[i].status
      /\ sess'[i].present = IF mine.present # base.present THEN mine.present ELSE sess[i].present
      /\ sess'[i].inbox = IF mine.inbox # base.inbox THEN mine.inbox ELSE sess[i].inbox
    BY <1>3, <1>4, MergeSays
<1>6. /\ \A k \in DOMAIN sess : newest'[k] \in 1..MaxConvs
      /\ IF mine = base THEN newest' = newest
         ELSE \A k \in DOMAIN sess : k # i => newest'[i] < newest'[k]
    <2>1. CASE mine = base
        BY <1>2, <2>1 DEF Counted
    <2>2. CASE mine # base
        <3> DEFINE order == [newest EXCEPT ![i] = 0]
        <3>1. newest' = Places(order)
            BY <1>2, <2>2
        <3>2. DOMAIN order = DOMAIN sess /\ order[i] = 0
              /\ \A k \in DOMAIN sess : k # i => order[k] = newest[k]
            BY <1>1 DEF SessTypes
        <3> HIDE DEF order
        <3>3. \A k \in DOMAIN sess : newest[k] \in Nat /\ newest[k] > 0
            BY DEF Counted
        <3>4. \A k \in DOMAIN order : order[k] \in Nat
            BY <3>2, <3>3
        <3>5. \A k \in DOMAIN sess : k # i => order[i] < order[k]
            BY <3>2, <3>3
        <3>6. PICK n \in 0..MaxConvs : DOMAIN sess = 1..n
            BY DEF Counted
        <3>7. IsFiniteSet(DOMAIN order) /\ Cardinality(DOMAIN order) = n /\ n \in Nat
              /\ MaxConvs \in Nat
            BY <3>2, <3>6, FS_Interval DEF LiveAssumption
        <3>8. /\ \A k \in DOMAIN order : Places(order)[k] \in 1..n
              /\ \A j, k \in DOMAIN order :
                   order[j] < order[k] => Places(order)[j] < Places(order)[k]
            BY <3>4, <3>7, PlacesOrdered
        <3>9. \A k \in DOMAIN sess : newest'[k] \in 1..MaxConvs
            BY <3>1, <3>2, <3>6, <3>7, <3>8
        <3>10. \A k \in DOMAIN sess : k # i => newest'[i] < newest'[k]
            BY <3>1, <3>2, <3>5, <3>8
        <3> QED BY <2>2, <3>9, <3>10
    <2> QED BY <2>1, <2>2
<1> QED BY <1>2, <1>3, <1>5, <1>6 DEF Ran

\* What it may do beside a handler: sessions are resolved and left, and nothing
\* waits for who enters.
LEMMA BesideReturns ==
    ASSUME NEW rem, NEW g, Returning(g, rem), ustate' = ustate, DOMAIN sess' = DOMAIN sess,
           \A i \in DOMAIN sess :
              /\ sess'[i].status \in {sess[i].status, "resolved"}
              /\ sess'[i].present => sess[i].present
              /\ sess'[i].inbox = sess[i].inbox
              /\ newest'[i] \in 1..MaxConvs
              /\ ustate = Live /\ Waits(i)' => Waits(i),
           \A k \in DOMAIN pend' :
              \/ k \in DOMAIN pend /\ pend'[k].s = pend[k].s /\ pend'[k].status = pend[k].status
              \/ /\ pend'[k].s \in DOMAIN sess
                 /\ g.goal = "enter" /\ Ready(g) => pend'[k].s # g.s,
           (w.pc # "idle" => /\ w.mine.status = w.base.status /\ w.mine.present = w.base.present
                             /\ w.mine.inbox = w.base.inbox)',
           (w.pc = "noticing" => w.mine.unread # w.base.unread)',
           SessInv'
    PROVE  Returning(g, rem)'
<1>1. Counted(rem) /\ SessInv /\ Own(g, rem) /\ Kin(g) /\ Going(g, rem)
      /\ (g.pc \in {"idle", "creating"} => DOMAIN g.mine = {})
    BY DEF Returning
<1>2. Counted(rem)'
    <2>1. \A k \in DOMAIN pend' : pend'[k].s \in DOMAIN sess'
        BY <1>1 DEF Counted
    <2>2. \A i \in DOMAIN sess' : newest'[i] \in 1..MaxConvs /\ Boxed(sess'[i], rem)
        BY <1>1 DEF Counted, Boxed
    <2> QED BY <1>1, <2>1, <2>2 DEF Counted, Boxed
<1>3. Own(g, rem)'
    BY <1>1 DEF Own, Copied, Boxed, Ids
<1>4. Kin(g)'
    <2>1. DOMAIN g.mine \intersect DOMAIN sess' = Both(g)
        BY DEF Both
    <2>2. ASSUME NEW i \in Both(g) PROVE Copy(g, i)'
        <3>1. i \in DOMAIN sess /\ Copy(g, i)
            BY <1>1 DEF Both, Kin
        <3>2. sess'[i].status = "resolved" => \A j \in DOMAIN sess : sess'[j].status = "resolved"
            <4> SUFFICES ASSUME sess'[i].status = "resolved", NEW j \in DOMAIN sess,
                                sess'[j].status # "resolved"
                         PROVE  FALSE
                OBVIOUS
            <4>1. sess[j].status # "resolved" /\ i # j
                OBVIOUS
            <4>2. sess[i].status = "resolved"
                BY <1>1, <3>1, <4>1 DEF SessInv
            <4> QED BY <3>1, <4>1, <4>2 DEF Copy
        <3>3. ustate = Live /\ ~Waits(i) => ~Waits(i)'
            BY <3>1
        <3> HIDE DEF Waits
        <3> QED BY <3>1, <3>2, <3>3 DEF Copy
    <2> QED BY <1>1, <2>1, <2>2 DEF Kin, Both, Clean
<1>5. Others(g) => Others(g)'
    BY DEF Others, Ids, StatusOf
<1>6. Over(g) => Over(g)'
    BY DEF Over, Ids, StatusOf
<1>11. Unsettled(g) => Unsettled(g)'
    BY DEF Unsettled
<1>7. Fit(g) => Fit(g)'
    BY DEF Fit, Both
<1>8. Asking(g, rem) => Asking(g, rem)'
    BY <1>5, <1>6, <1>7, <1>11 DEF Asking
<1>9. Ready(g) => Ready(g)'
    <2> SUFFICES ASSUME Ready(g) PROVE Ready(g)'
        OBVIOUS
    <2>1. Others(g)'
        BY <1>5 DEF Ready
    <2>2. g.goal = "enter" => \A k \in DOMAIN pend' :
             pend'[k].s = g.s /\ pend'[k].status = "pending" => k \in g.rows \union g.done
        BY DEF Ready
    <2> QED BY <2>1, <2>2 DEF Ready, Both
<1>10. Going(g, rem)'
    BY <1>1, <1>8, <1>9 DEF Going
<1> QED BY <1>1, <1>2, <1>3, <1>4, <1>10 DEF Returning

\* A run that changes neither the status of a session nor whether he is there.
LEMMA QuietReturns ==
    ASSUME NEW rem, NEW g, Returning(g, rem), ustate' = ustate, DOMAIN sess' = DOMAIN sess,
           \A i \in DOMAIN sess :
              /\ sess'[i].status = sess[i].status /\ sess'[i].present = sess[i].present
              /\ sess'[i].inbox = sess[i].inbox /\ newest'[i] \in 1..MaxConvs,
           \/ newest' = newest
           \/ \E i \in DOMAIN sess : sess[i].status # "resolved"
           \/ \E i \in DOMAIN sess : /\ ustate = Live => ~Waits(i)'
                                    /\ \A k \in DOMAIN sess : k # i => newest'[i] < newest'[k],
           \A k \in DOMAIN pend' :
              \/ /\ k \in DOMAIN pend
                 /\ pend'[k].s = pend[k].s /\ pend'[k].status = pend[k].status
                 /\ pend[k].late => pend'[k].late
              \/ /\ pend'[k].s \in DOMAIN sess
                 /\ pend'[k].late <=> ustate = Live \/ Abandoned(pend'[k].s)
                 /\ g.goal = "enter" /\ Ready(g) => pend'[k].s # g.s,
           (w.pc # "idle" => /\ w.mine.status = w.base.status /\ w.mine.present = w.base.present
                             /\ w.mine.inbox = w.base.inbox)',
           (w.pc \in {"accepting", "delivering"} => ~Waits(w.s))',
           (w.pc = "noticing" => w.mine.unread # w.base.unread)'
    PROVE  Returning(g, rem)'
<1>1. SessInv /\ Counted(rem)
    BY DEF Returning
<1>2. \A i \in DOMAIN sess : sess[i].status # "resolved" => Front(i)
    BY DEF Front
<1>3. \A i \in DOMAIN sess : ustate = Live /\ Waits(i)' => Waits(i)
    BY DEF Waits
<1>4. /\ \A i, j \in DOMAIN sess : Front(i)' /\ Front(j)' => i = j
      /\ \A i \in DOMAIN sess : Front(i)' => Front(i) \/ (ustate = Live => ~Waits(i)')
    <2>1. CASE newest' = newest
        <3>1. \A i \in DOMAIN sess : Front(i)' <=> Front(i)
            BY <2>1 DEF Front
        <3> QED BY <1>1, <3>1 DEF SessInv
    <2>2. CASE \E i \in DOMAIN sess : sess[i].status # "resolved"
        <3>1. \A i \in DOMAIN sess : Front(i)' <=> Front(i)
            BY <2>2 DEF Front
        <3> QED BY <1>1, <3>1 DEF SessInv
    <2>3. CASE ~\E i \in DOMAIN sess : sess[i].status # "resolved"
        <3>1. CASE newest' = newest
            BY <2>1, <3>1
        <3>3. CASE newest' # newest
            <4>2. PICK i \in DOMAIN sess :
                     /\ ustate = Live => ~Waits(i)'
                     /\ \A k \in DOMAIN sess : k # i => newest'[i] < newest'[k]
                <5> HIDE DEF Waits
                <5> QED BY <2>3, <3>3
            <4>1. \A f \in DOMAIN sess : Front(f)' => f = i
                <5> SUFFICES ASSUME NEW f \in DOMAIN sess, Front(f)', f # i PROVE FALSE
                    OBVIOUS
                <5>1. newest'[f] <= newest'[i] /\ newest'[i] < newest'[f]
                    BY <2>3, <4>2 DEF Front
                <5>2. newest'[f] \in Nat /\ newest'[i] \in Nat
                    OBVIOUS
                <5> QED BY <5>1, <5>2
            <4> HIDE DEF Front, Waits
            <4> QED BY <4>2, <4>1
        <3> QED BY <3>1, <3>3
    <2> QED BY <2>2, <2>3
<1>5. SessInv'
    <2>1. \A k \in DOMAIN pend' :
             pend'[k].status = "pending" /\ ~pend'[k].late => ~sess'[pend'[k].s].present
        <3> SUFFICES ASSUME NEW k \in DOMAIN pend', pend'[k].status = "pending", ~pend'[k].late
                     PROVE  ~sess'[pend'[k].s].present
            OBVIOUS
        <3>1. CASE /\ k \in DOMAIN pend
                   /\ pend'[k].s = pend[k].s /\ pend'[k].status = pend[k].status
                   /\ pend[k].late => pend'[k].late
            <4>1. pend[k].s \in DOMAIN sess /\ ~sess[pend[k].s].present
                BY <1>1, <3>1 DEF SessInv, Counted
            <4> QED BY <3>1, <4>1
        <3>2. CASE /\ pend'[k].s \in DOMAIN sess
                   /\ pend'[k].late <=> ustate = Live \/ Abandoned(pend'[k].s)
            <4>1. ustate # Live /\ sess[pend'[k].s].status # "resolved"
                BY <3>2 DEF Abandoned
            <4> QED BY <1>1, <1>2, <3>2, <4>1 DEF SessInv
        <3> QED BY <3>1, <3>2
    <2>2. \A i \in DOMAIN sess :
             Front(i)' => IF ustate = Live THEN ~Waits(i)'
                          ELSE sess'[i].status # "resolved" => ~sess'[i].present
        <3> HIDE DEF Front, Waits
        <3> QED BY <1>1, <1>2, <1>3, <1>4 DEF SessInv
    <2>3. \A i, j \in DOMAIN sess' :
             sess'[i].status # "resolved" /\ sess'[j].status # "resolved" => i = j
        BY <1>1 DEF SessInv
    <2> QED BY <1>4, <2>1, <2>2, <2>3 DEF SessInv
<1>6. \A i \in DOMAIN sess :
         /\ sess'[i].status \in {sess[i].status, "resolved"}
         /\ sess'[i].present => sess[i].present
    OBVIOUS
<1> QED BY <1>3, <1>5, <1>6, BesideReturns

\* A conversation was resolved.
LEMMA ResolvedReturns ==
    ASSUME NEW rem, NEW g, Returning(g, rem), LiveTypes, UNCHANGED <<ustate, pend>>,
           NEW i \in DOMAIN sess, w.pc = "idle",
           Ran(i, sess[i], [sess[i] EXCEPT !.status = "resolved", !.present = FALSE])
    PROVE  Returning(g, rem)'
<1> DEFINE mine == [sess[i] EXCEPT !.status = "resolved", !.present = FALSE]
<1>1. SessInv /\ Counted(rem) /\ sess[i] \in SessionRows /\ w'.pc = "idle"
    BY DEF Returning, LiveTypes, SessTypes, Ran, NoRun
<1>2. /\ mine.status = "resolved" /\ mine.present = FALSE /\ mine.inbox = sess[i].inbox
      /\ mine = sess[i] <=> sess[i].status = "resolved" /\ ~sess[i].present
    BY <1>1 DEF SessionRows
<1>3. /\ DOMAIN sess' = DOMAIN sess
      /\ \A k \in DOMAIN sess : k # i => sess'[k] = sess[k]
      /\ sess'[i].status = "resolved" /\ sess'[i].present = FALSE /\ sess'[i].inbox = sess[i].inbox
      /\ \A k \in DOMAIN sess : newest'[k] \in 1..MaxConvs
      /\ IF mine = sess[i] THEN newest' = newest
         ELSE \A k \in DOMAIN sess : k # i => newest'[i] < newest'[k]
    <2>1. sess[i].present \in BOOLEAN
        BY <1>1 DEF SessionRows
    <2>2. Ran(i, sess[i], mine)
        OBVIOUS
    <2> HIDE DEF mine
    <2>3. /\ DOMAIN sess' = DOMAIN sess
          /\ \A k \in DOMAIN sess : k # i => sess'[k] = sess[k]
          /\ \A k \in DOMAIN sess : newest'[k] \in 1..MaxConvs
          /\ IF mine = sess[i] THEN newest' = newest
             ELSE \A k \in DOMAIN sess : k # i => newest'[i] < newest'[k]
        BY <2>2 DEF Ran
    <2>4. sess'[i].status = "resolved"
        BY <1>2, <2>2 DEF Ran
    <2>5. sess'[i].present = FALSE
        BY <1>2, <2>1, <2>2 DEF Ran
    <2>6. sess'[i].inbox = sess[i].inbox
        BY <1>2, <2>2 DEF Ran
    <2> QED BY <2>3, <2>4, <2>5, <2>6
<1> HIDE DEF mine
<1>4. CASE mine = sess[i]
    <2>1. /\ ustate' = ustate /\ DOMAIN sess' = DOMAIN sess
          /\ \A k \in DOMAIN sess :
                /\ sess'[k].status = sess[k].status /\ sess'[k].present = sess[k].present
                /\ sess'[k].inbox = sess[k].inbox /\ newest'[k] \in 1..MaxConvs
        <3>1. sess[i].status = "resolved" /\ sess[i].present = FALSE
            BY <1>1, <1>2, <1>4 DEF SessionRows
        <3> QED BY <1>3, <3>1
    <2>2. newest' = newest
        BY <1>3, <1>4
    <2>3. \A k \in DOMAIN pend' :
             /\ k \in DOMAIN pend /\ pend'[k].s = pend[k].s /\ pend'[k].status = pend[k].status
             /\ pend[k].late => pend'[k].late
        OBVIOUS
    <2> QED BY <1>1, <2>1, <2>2, <2>3, QuietReturns
<1>5. CASE mine # sess[i]
    <2>1. \A f \in DOMAIN sess : Front(f)' => f = i \/ (sess[f].status # "resolved" /\ f # i)
        <3> SUFFICES ASSUME NEW f \in DOMAIN sess, f # i, sess[f].status = "resolved", Front(f)'
                     PROVE  FALSE
            OBVIOUS
        <3>1. sess'[f].status = "resolved"
            BY <1>3
        <3>2. newest'[f] <= newest'[i] /\ newest'[i] < newest'[f]
            BY <1>3, <1>5, <3>1 DEF Front
        <3>3. newest'[f] \in Nat /\ newest'[i] \in Nat
            BY <1>3
        <3> QED BY <3>2, <3>3
    <2>2. ASSUME NEW f \in DOMAIN sess, NEW j \in DOMAIN sess, Front(f)', Front(j)'
          PROVE  f = j
        <3>1. ASSUME NEW x \in DOMAIN sess, Front(i)', sess[x].status # "resolved", x # i
              PROVE  FALSE
            BY <1>3, <3>1 DEF Front
        <3> QED BY <1>1, <2>1, <2>2, <3>1 DEF SessInv
    <2>3. ustate = Live => ~Waits(i)
        <3>1. CASE sess[i].status # "resolved"
            <4>1. Front(i)
                BY <3>1 DEF Front
            <4> QED BY <1>1, <4>1 DEF SessInv
        <3>2. CASE sess[i].present
            BY <1>1, <3>2 DEF SessInv, Waits
        <3> QED BY <1>2, <1>5, <3>1, <3>2
    <2>4. \A f : Waits(f)' <=> Waits(f)
        BY DEF Waits
    <2>5. \A f \in DOMAIN sess : sess[f].status # "resolved" => Front(f)
        BY DEF Front
    <2>6. \A f \in DOMAIN sess : Front(f)' =>
             IF ustate = Live THEN ~Waits(f)'
             ELSE sess'[f].status # "resolved" => ~sess'[f].present
        BY <1>1, <1>3, <2>1, <2>3, <2>4, <2>5 DEF SessInv
    <2>7. SessInv'
        <3>1. \A k \in DOMAIN pend :
                 pend[k].status = "pending" /\ ~pend[k].late => ~sess'[pend[k].s].present
            BY <1>1, <1>3 DEF SessInv, Counted
        <3>2. \A f, j \in DOMAIN sess :
                 sess'[f].status # "resolved" /\ sess'[j].status # "resolved" => f = j
            BY <1>1, <1>3 DEF SessInv
        <3> QED BY <1>1, <1>3, <2>2, <2>6, <3>1, <3>2 DEF SessInv
    <2>8. /\ \A f \in DOMAIN sess :
                /\ sess'[f].status \in {sess[f].status, "resolved"}
                /\ sess'[f].present => sess[f].present
                /\ sess'[f].inbox = sess[f].inbox /\ newest'[f] \in 1..MaxConvs
          /\ \A k \in DOMAIN pend' : k \in DOMAIN pend /\ pend'[k].s = pend[k].s
                                  /\ pend'[k].status = pend[k].status
        BY <1>3
    <2> QED BY <1>1, <1>3, <2>4, <2>7, <2>8, BesideReturns
<1> QED BY <1>4, <1>5

\* The steps of a run.
LEMMA WebhookReturns ==
    ASSUME LiveAssumption, ReturnInv, LiveInv', Webhook
    PROVE  ReturnInv'
<1>1. LiveTypes /\ UNCHANGED <<ustate, remote, h>>
    BY DEF ReturnInv, LiveInv, Webhook, WebhookIgnored, WebhookResolves, WebhookTaken, Kept,
           Accepted, Delivered, rowVars
<1>2. PICK rem : rem = remote
    OBVIOUS
<1>3. PICK g : g = h
    OBVIOUS
<1> SUFFICES ASSUME OneBox(rem) PROVE Returning(g, rem)'
    BY <1>1, <1>2, <1>3 DEF ReturnInv, OneBox, Returning, Counted, SessInv, Own, Kin, Going,
                            Boxed, Asking
<1>4. Returning(g, rem) /\ SessInv /\ Counted(rem)
    BY <1>2, <1>3 DEF ReturnInv, Returning
<1>5. /\ pend \in Seq(KeptRows)
      /\ \A i \in DOMAIN sess : sess[i] \in SessionRows
      /\ w.pc # "idle" => w.s \in DOMAIN sess /\ w.mine \in SessionRows /\ w.base \in SessionRows
    BY <1>1 DEF LiveTypes, SessTypes
<1>6. \A i \in DOMAIN sess : newest[i] \in 1..MaxConvs
    BY <1>4 DEF Counted
\* Only the run itself changes.
<1>7. ASSUME UNCHANGED <<sess, newest, pend>>,
             (w.pc # "idle" =>
                /\ w.mine.status = w.base.status /\ w.mine.present = w.base.present
                /\ w.mine.inbox = w.base.inbox)',
             (w.pc \in {"accepting", "delivering"} => ~Waits(w.s))',
             (w.pc = "noticing" => w.mine.unread # w.base.unread)'
      PROVE  Returning(g, rem)'
    <2>1. \A k \in DOMAIN pend' :
             /\ k \in DOMAIN pend /\ pend'[k].s = pend[k].s /\ pend'[k].status = pend[k].status
             /\ pend[k].late => pend'[k].late
        BY <1>7
    <2> QED BY <1>1, <1>4, <1>6, <1>7, <2>1, QuietReturns
<1>8. UNCHANGED <<sess, newest, pend>> /\ w' = NoRun => Returning(g, rem)'
    BY <1>7 DEF NoRun
\* A run commits what concerns neither the status of a session nor presence.
<1>9. ASSUME w.pc # "idle", NEW mine \in SessionRows, RunCommits(w.s, w.base, mine),
             \A f \in {"status", "present", "inbox"} : mine[f] = w.mine[f],
             \/ UNCHANGED pend /\ w.pc = "delivering"
             \/ /\ pend' = Append(Belated(w.s), [m |-> w.m, s |-> w.s, status |-> "pending",
                                                 late |-> ustate = Live \/ Abandoned(w.s)])
                /\ mine # w.base /\ w.s \notin g.locked
      PROVE  Returning(g, rem)'
    <2>1. Ran(w.s, w.base, mine)
        BY <1>1, <1>4, <1>5, <1>9, RunWrites
    <2>2. /\ mine.status = w.base.status /\ mine.present = w.base.present
          /\ mine.inbox = w.base.inbox
        BY <1>4, <1>9 DEF Counted
    <2>3. /\ DOMAIN sess' = DOMAIN sess
          /\ \A i \in DOMAIN sess :
                /\ sess'[i].status = sess[i].status /\ sess'[i].present = sess[i].present
                /\ sess'[i].inbox = sess[i].inbox /\ newest'[i] \in 1..MaxConvs
        BY <2>1, <2>2 DEF Ran
    <2>4. w'.pc = "idle"
        BY <2>1 DEF Ran, NoRun
    <2>7. mine # w.base /\ w.s \notin g.locked /\ g.goal = "enter" /\ Ready(g) => w.s # g.s
        <3> SUFFICES ASSUME mine # w.base, g.s \notin g.locked, g.goal = "enter", Ready(g),
                            g.s \in DOMAIN sess
                     PROVE  FALSE
            BY <1>5, <1>9
        <3>1. g.s \in Both(g)
            BY DEF Ready, Others, Both
        <3>2. Kin(g) /\ g.mine[g.s].present
            BY <1>4, <3>1 DEF Returning, Ready
        <3>3. Copy(g, g.s) /\ Clean(g, g.s)
            BY <3>1, <3>2 DEF Kin
        <3>4. g.mine[g.s] = g.base[g.s]
            BY <3>3 DEF Clean
        <3>5. g.mine[g.s].status # "resolved"
            BY DEF Ready
        <3>6. g.base[g.s].status = "resolved" \/ ~g.base[g.s].present
            BY <3>3 DEF Copy
        <3> QED BY <3>2, <3>4, <3>5, <3>6
    <2>9. PICK v : v = w.s
        OBVIOUS
    <2>8. /\ \A k \in DOMAIN pend' :
                \/ /\ k \in DOMAIN pend
                   /\ pend'[k].s = pend[k].s /\ pend'[k].status = pend[k].status
                   /\ pend[k].late => pend'[k].late
                \/ /\ pend'[k].s \in DOMAIN sess
                   /\ pend'[k].late <=> ustate = Live \/ Abandoned(pend'[k].s)
                   /\ g.goal = "enter" /\ Ready(g) => pend'[k].s # g.s
          /\ Abandoned(w.s) => ~Waits(v)'
        <3>1. CASE UNCHANGED pend /\ w.pc = "delivering"
            <4>1. ~Waits(w.s)
                BY <1>4, <3>1 DEF SessInv
            <4> QED BY <2>9, <3>1, <4>1 DEF Waits
        <3>2. CASE /\ pend' = Append(Belated(w.s), [m |-> w.m, s |-> w.s, status |-> "pending",
                                                    late |-> ustate = Live \/ Abandoned(w.s)])
                   /\ mine # w.base /\ w.s \notin g.locked
            <4> DEFINE row == [m |-> w.m, s |-> w.s, status |-> "pending",
                               late |-> ustate = Live \/ Abandoned(w.s)]
                       late == Belated(w.s)
            <4>1. row.s = w.s /\ row.late = (ustate = Live \/ Abandoned(w.s))
                OBVIOUS
            <4>2. /\ late \in Seq(KeptRows) /\ DOMAIN late = DOMAIN pend
                  /\ \A k \in DOMAIN pend :
                        /\ late[k].s = pend[k].s /\ late[k].status = pend[k].status
                        /\ late[k].late <=> pend[k].late \/ (pend[k].s = w.s /\ Abandoned(w.s))
                BY <1>5, BelatedRows
            <4>3. pend' = Append(late, row)
                BY <3>2
            <4> HIDE DEF row, late
            <4>4. \A k \in DOMAIN pend' : (k \in DOMAIN pend /\ pend'[k] = late[k]) \/ pend'[k] = row
                BY <4>2, <4>3
            <4>5. row.s \in DOMAIN sess /\ (g.goal = "enter" /\ Ready(g) => row.s # g.s)
                BY <1>5, <1>9, <2>7, <3>2, <4>1
            <4>6. Abandoned(w.s) => \A k \in DOMAIN pend' : pend'[k].s = w.s => pend'[k].late
                BY <4>1, <4>2, <4>4
            <4> QED BY <2>9, <4>1, <4>2, <4>4, <4>5, <4>6 DEF Waits
        <3> QED BY <1>9, <3>1, <3>2
    <2>5. \/ newest' = newest
          \/ \E i \in DOMAIN sess : sess[i].status # "resolved"
          \/ \E i \in DOMAIN sess : /\ ustate = Live => ~Waits(i)'
                                   /\ \A k \in DOMAIN sess : k # i => newest'[i] < newest'[k]
        <3>1. newest' = newest \/ \A k \in DOMAIN sess : k # w.s => newest'[w.s] < newest'[k]
            BY <2>1 DEF Ran
        <3>2. sess[w.s].status # "resolved" \/ ~Waits(v)'
            BY <2>8 DEF Abandoned
        <3> HIDE DEF Waits
        <3> QED BY <1>5, <1>9, <2>9, <3>1, <3>2
    <2> QED BY <1>1, <1>4, <2>3, <2>4, <2>5, <2>8, QuietReturns
<1>10. CASE WebhookIgnored
    BY <1>8, <1>10 DEF WebhookIgnored, RunEnds, rowVars
<1>11. CASE WebhookResolves
    <2>1. PICK i \in SessionOf(Head(jobs).conv) :
             LET mine == [sess[i] EXCEPT !.status = "resolved", !.present = FALSE]
             IN IF Blocked(i, sess[i], mine)
                THEN RunEnds(Requeued) /\ UNCHANGED <<sess, newest>>
                ELSE RunCommits(i, sess[i], mine)
        BY <1>11 DEF WebhookResolves
    <2>2. i \in DOMAIN sess /\ w.pc = "idle" /\ UNCHANGED <<ustate, pend>>
        BY <1>11 DEF WebhookResolves, SessionOf
    <2> DEFINE mine == [sess[i] EXCEPT !.status = "resolved", !.present = FALSE]
    <2>3. CASE Blocked(i, sess[i], mine)
        <3>1. UNCHANGED <<sess, newest, pend>> /\ w' = NoRun
            BY <2>1, <2>2, <2>3 DEF RunEnds
        <3> QED BY <1>8, <3>1
    <2>4. CASE ~Blocked(i, sess[i], mine)
        <3>1. RunCommits(i, sess[i], mine)
            BY <2>1, <2>4
        <3>2. mine \in SessionRows
            BY <1>5, <2>2 DEF SessionRows, Statuses
        <3>3. Ran(i, sess[i], mine)
            <4> HIDE DEF mine
            <4> QED BY <1>1, <1>4, <2>2, <3>1, <3>2, RunWrites
        <3> QED BY <1>1, <1>4, <2>2, <3>3, ResolvedReturns
    <2> QED BY <2>3, <2>4
<1>12. CASE WebhookTaken
    <2>1. PICK i \in SessionOf(Head(jobs).conv) :
             /\ sess[i].status # "resolved"
             /\ w' = [pc |-> IF sess[i].present THEN "accepting" ELSE "noticing",
                      s |-> i, m |-> Head(jobs).m, base |-> sess[i],
                      mine |-> IF sess[i].present THEN sess[i]
                               ELSE [sess[i] EXCEPT !.unread = @ + 1]]
        BY <1>12 DEF WebhookTaken
    <2>2. i \in DOMAIN sess /\ UNCHANGED <<sess, newest, pend>>
        BY <1>12 DEF WebhookTaken, SessionOf, rowVars
    <2> DEFINE away == [sess[i] EXCEPT !.unread = @ + 1]
    <2>3. /\ away.status = sess[i].status /\ away.present = sess[i].present
          /\ away.inbox = sess[i].inbox /\ away.unread = sess[i].unread + 1
          /\ sess[i].unread \in Nat
        BY <1>5, <2>2 DEF SessionRows
    <2>4. /\ w'.s = i /\ w'.base = sess[i]
          /\ w'.mine = IF sess[i].present THEN sess[i] ELSE away
          /\ w'.pc = IF sess[i].present THEN "accepting" ELSE "noticing"
        BY <2>1
    <2> HIDE DEF away
    <2>5. /\ w'.mine.status = w'.base.status /\ w'.mine.present = w'.base.present
          /\ w'.mine.inbox = w'.base.inbox
          /\ w'.pc = "noticing" => w'.mine.unread # w'.base.unread
        BY <2>3, <2>4
    <2>6. sess[i].present => ~Waits(i)
        BY <1>4 DEF SessInv, Waits
    <2>7. w'.pc \in {"accepting", "delivering"} => ~Waits(w.s)'
        BY <2>2, <2>4, <2>6 DEF Waits
    <2> QED BY <1>7, <2>2, <2>5, <2>7
<1>13. CASE Kept
    <2>1. PICK ok \in BOOLEAN :
             LET mine == [w.mine EXCEPT !.noticed = @ \/ ok]
             IN IF Blocked(w.s, w.base, mine)
                THEN RunEnds(Requeued) /\ UNCHANGED <<sess, newest, pend>>
                ELSE /\ RunCommits(w.s, w.base, mine)
                     /\ pend' = Append(Belated(w.s), [m |-> w.m, s |-> w.s, status |-> "pending",
                                                      late |-> ustate = Live \/ Abandoned(w.s)])
        BY <1>13 DEF Kept
    <2>2. w.pc # "idle" /\ w.mine.unread # w.base.unread
        BY <1>4, <1>13 DEF Kept, Counted
    <2> DEFINE mine == [w.mine EXCEPT !.noticed = @ \/ ok]
    <2>3. /\ mine \in SessionRows /\ mine.unread = w.mine.unread
          /\ \A f \in {"status", "present", "inbox"} : mine[f] = w.mine[f]
        BY <1>5, <2>2 DEF SessionRows
    <2>4. mine # w.base
        BY <2>2, <2>3
    <2>5. CASE Blocked(w.s, w.base, mine)
        <3>1. UNCHANGED <<sess, newest, pend>> /\ w' = NoRun
            BY <2>1, <2>5 DEF RunEnds
        <3> QED BY <1>8, <3>1
    <2>6. CASE ~Blocked(w.s, w.base, mine)
        <3>1. /\ RunCommits(w.s, w.base, mine)
              /\ pend' = Append(Belated(w.s), [m |-> w.m, s |-> w.s, status |-> "pending",
                                               late |-> ustate = Live \/ Abandoned(w.s)])
            BY <2>1, <2>6
        <3>2. w.s \notin g.locked
            BY <1>3, <2>4, <2>6 DEF Blocked
        <3> HIDE DEF mine
        <3> QED BY <1>9, <2>2, <2>3, <2>4, <3>1, <3>2
    <2> QED BY <2>5, <2>6
<1>14. CASE Accepted
    <2>1. PICK ok \in BOOLEAN : w' = [w EXCEPT !.pc = "delivering", !.mine.accepted = @ \/ ok]
        BY <1>14 DEF Accepted
    <2>2. UNCHANGED <<sess, newest, pend>> /\ w.pc # "idle"
        BY <1>14 DEF Accepted, rowVars
    <2>3. w \in [pc : {"noticing", "accepting", "delivering"}, s : DOMAIN sess,
                 m : Texts, base : SessionRows, mine : SessionRows]
        BY <1>1, <2>2 DEF LiveTypes
    <2>4. /\ w'.pc = "delivering" /\ w'.s = w.s /\ w'.base = w.base
          /\ w'.mine = [w.mine EXCEPT !.accepted = @ \/ ok]
        BY <2>1, <2>3
    <2>5. w'.mine.status = w.mine.status /\ w'.mine.present = w.mine.present
          /\ w'.mine.inbox = w.mine.inbox
        BY <1>5, <2>2, <2>4 DEF SessionRows
    <2>6. /\ w.mine.status = w.base.status /\ w.mine.present = w.base.present
          /\ w.mine.inbox = w.base.inbox /\ ~Waits(w.s)
        BY <1>4, <1>14, <2>2 DEF Counted, SessInv, Accepted
    <2>7. ~Waits(w.s)'
        BY <2>2, <2>4, <2>6 DEF Waits
    <2> QED BY <1>7, <2>2, <2>4, <2>5, <2>6, <2>7
<1>15. CASE Delivered
    <2>1. /\ w.pc = "delivering" /\ UNCHANGED pend
          /\ IF Blocked(w.s, w.base, w.mine) THEN RunEnds(Requeued) /\ UNCHANGED <<sess, newest>>
             ELSE RunCommits(w.s, w.base, w.mine)
        BY <1>15 DEF Delivered
    <2>2. CASE Blocked(w.s, w.base, w.mine)
        BY <1>8, <2>1, <2>2 DEF RunEnds
    <2>3. CASE ~Blocked(w.s, w.base, w.mine)
        <3>1. RunCommits(w.s, w.base, w.mine)
            BY <2>1, <2>3
        <3>2. PICK mine : mine = w.mine
            OBVIOUS
        <3> QED BY <1>5, <1>9, <2>1, <3>1, <3>2
    <2> QED BY <2>2, <2>3
<1> QED BY SMTT(30), <1>10, <1>11, <1>12, <1>13, <1>14, <1>15 DEF Webhook

----------------------------------------------------------------------------
(* The steps of the bots.                                                  *)

LEMMA HandlerReturns ==
    ASSUME LiveAssumption, ReturnInv, LiveInv', Handler
    PROVE  ReturnInv'
<1>1. CASE HandlerFails
    <2>1. h' = NoHandler /\ w' = w /\ UNCHANGED <<ustate, sess, newest, pend, remote>>
        BY <1>1 DEF HandlerFails, rowVars
    <2> QED BY <2>1, LostReturn
<1>2. CASE Replied \/ Posted \/ HandoverEnds
    BY <1>2, CommitsReturn
<1>3. CASE Reopened \/ Created \/ HandoverBegins \/ HandedOver
    BY <1>3, MovesReturn
<1>4. CASE StatusAnswered \/ PostedNowhere
    BY <1>4, SearchReturns
<1> QED BY <1>1, <1>2, <1>3, <1>4 DEF Handler

LEMMA CrashReturns ==
    ASSUME LiveAssumption, ReturnInv, LiveInv', Crash
    PROVE  ReturnInv'
<1>1. h' = NoHandler /\ w' = NoRun /\ UNCHANGED <<ustate, sess, newest, pend, remote>>
    BY DEF Crash, rowVars
<1> QED BY <1>1, LostReturn

\* A customer is led from menu to menu, or nothing of this changes.
LEMMA MenuReturns ==
    ASSUME ReturnInv, LiveInv', UNCHANGED <<sess, newest, pend, remote, h, w>>,
           ustate' = ustate \/ (h.pc = "idle" /\ ActiveSession = 0 /\ ustate' # Live)
    PROVE  ReturnInv'
<1>1. PICK rem : rem = remote
    OBVIOUS
<1>2. PICK g : g = h
    OBVIOUS
<1> SUFFICES ASSUME OneBox(rem) PROVE Returning(g, rem)'
    BY <1>1, <1>2 DEF ReturnInv, OneBox, Returning, Counted, SessInv, Own, Kin, Going,
                      Boxed, Asking
<1>3. Returning(g, rem) /\ Counted(rem) /\ SessInv /\ Own(g, rem) /\ Kin(g) /\ Going(g, rem)
      /\ (g.pc \in {"idle", "creating"} => DOMAIN g.mine = {})
    BY <1>1, <1>2 DEF ReturnInv, Returning
<1>4. Counted(rem)' /\ Own(g, rem)'
    BY <1>3 DEF Counted, Own, Boxed, Ids
<1>5. (\A i : Front(i)' <=> Front(i)) /\ (\A i : Waits(i)' <=> Waits(i)) /\ Both(g)' = Both(g)
    BY DEF Front, Waits, Both
<1>6. CASE ustate' = ustate
    <2>1. SessInv'
        BY <1>3, <1>5, <1>6 DEF SessInv
    <2>2. \A i : Copy(g, i)' <=> Copy(g, i)
        BY <1>5, <1>6 DEF Copy
    <2>3. Kin(g)'
        BY <1>3, <1>5, <2>2 DEF Kin, Clean
    <2>4. /\ Others(g)' <=> Others(g)
          /\ Fit(g)' <=> Fit(g)
          /\ Over(g)' <=> Over(g)
          /\ Unsettled(g)' <=> Unsettled(g)
        BY <1>5, <1>6 DEF Others, Fit, Over, Unsettled, Ids, StatusOf
    <2>5. Ready(g)' <=> Ready(g)
        BY <1>5, <1>6, <2>4 DEF Ready
    <2>6. Asking(g, rem)' <=> Asking(g, rem)
        BY <1>6, <2>4 DEF Asking
    <2>7. Going(g, rem)'
        BY <1>3, <2>5, <2>6 DEF Going
    <2> QED BY <1>3, <1>4, <2>1, <2>3, <2>7 DEF Returning
<1>7. CASE h.pc = "idle" /\ ActiveSession = 0 /\ ustate' # Live
    <2>1. ustate # Live \/ DOMAIN sess = {}
        <3>1. SessTypes
            BY DEF ReturnInv, LiveInv, LiveTypes
        <3> QED BY <1>3, <1>7, <3>1, ActiveIsFront
    <2>2. SessInv'
        BY <1>3, <1>5, <1>7, <2>1 DEF SessInv
    <2>3. g.pc = "idle" /\ Both(g)' = {}
        BY <1>2, <1>3, <1>7 DEF Both
    <2>4. Kin(g)'
        BY <2>3 DEF Kin
    <2>5. Going(g, rem)'
        BY <2>3 DEF Going
    <2> QED BY <1>3, <1>4, <2>2, <2>4, <2>5 DEF Returning
<1> QED BY <1>6, <1>7

LEMMA ReturnInitially ==
    ASSUME LiveAssumption, NEW root, LiveInit(root), root # Live
    PROVE  ReturnInv
<1>1. LiveInv
    BY LiveInitially
<1>2. /\ sess = <<>> /\ newest = <<>> /\ pend = <<>> /\ ustate = root
      /\ remote = <<>> /\ h = NoHandler /\ w = NoRun
    BY DEF LiveInit
<1>3. DOMAIN sess = {} /\ DOMAIN pend = {} /\ Len(remote) = 0 /\ w.pc = "idle"
    BY <1>2 DEF NoRun
<1>4. PICK rem : rem = remote
    OBVIOUS
<1>5. Counted(rem)
    <2>1. DOMAIN sess = 1..0 /\ 0 \in 0..MaxConvs
        BY <1>3 DEF LiveAssumption
    <2> QED BY <1>3, <1>4, <2>1 DEF Counted
<1>6. SessInv
    BY <1>3 DEF SessInv
<1>7. Own(h, rem) /\ Kin(h) /\ Going(h, rem) /\ DOMAIN h.mine = {}
    <2>1. /\ DOMAIN h.mine = {} /\ DOMAIN h.base = {} /\ h.locked = {} /\ h.pc = "idle" /\ Copied(h)
        BY <1>2, IdleSteady DEF NoHandler
    <2>2. Ids(h) = 1..0 /\ Both(h) = {} /\ 0 \in 0..MaxConvs
        BY <1>3, <2>1 DEF Ids, Both, LiveAssumption
    <2>3. Own(h, rem)
        BY <1>3, <1>4, <2>1, <2>2 DEF Own
    <2> QED BY <2>1, <2>2, <2>3 DEF Kin, Going
<1> QED BY <1>1, <1>4, <1>5, <1>6, <1>7 DEF ReturnInv, Returning

\* What the invariant says of a customer who is in the route.
LEMMA ReturnInvMeans ==
    ASSUME ReturnInv
    PROVE  HandedOverOnReturn
<1> SUFFICES ASSUME \A c \in DOMAIN remote : remote[c].inbox = inbox,
                    NEW k \in DOMAIN pend, pend[k].status = "pending",
                    sess[pend[k].s].present, ~pend[k].late
             PROVE  FALSE
    BY DEF HandedOverOnReturn
<1>1. OneBox(remote)
    BY DEF OneBox
<1> QED BY <1>1 DEF ReturnInv, Returning, SessInv

LEMMA LiveReturnSteps ==
    ASSUME LiveAssumption, ReturnInv, [LiveNext]_liveVars
    PROVE  ReturnInv'
<1>1. LiveInv'
    BY LiveSteps DEF ReturnInv
<1>2. CASE UNCHANGED liveVars
    BY <1>1, <1>2, MenuReturns DEF liveVars
<1>3. CASE LiveNext
    BY <1>1, <1>3, UpdatesReturn, HandlerReturns, WebhookReturns, CrashReturns, AgentsReturn
       DEF LiveNext
<1> QED BY <1>2, <1>3

LEMMA BaleReturnSteps ==
    ASSUME LiveAssumption, BaleInv, ReturnInv, [BaleNext]_baleVars
    PROVE  BaleInv' /\ ReturnInv'
<1>1. BaleInv' /\ LiveInv'
    BY BaleSteps DEF BaleInv
<1>2. CASE UNCHANGED baleVars
    BY <1>1, <1>2, MenuReturns DEF baleVars, liveVars
<1>3. CASE BaleMenus
    <2>1. PICK to, kept, known : Menu(to, kept, known)
        BY <1>3 DEF BaleMenus, Start, PhoneSubmitted, PhoneBack, EligibleRoot,
                    IneligibleRoot, ManualMenu, AddressMenu, Catalog, Back, To, ToRoot
    <2>2. UNCHANGED <<sess, newest, pend, remote, h, w>> /\ h.pc = "idle" /\ ActiveSession = 0
        BY <2>1 DEF Menu
    <2>3. ustate' = ustate \/ ustate' # Live
        <3>1. ASSUME NEW status, ToRoot(status) PROVE ustate' # Live
            BY <3>1 DEF ToRoot, Menu, Root, Live
        <3>2. ASSUME NEW state, To(state) PROVE ustate' = state
            BY <3>2 DEF To, Menu
        <3>3. ASSUME NEW state, NEW group, NEW status, Menu(state, group, status)
              PROVE  ustate' = state
            BY <3>3 DEF Menu
        <3>4. Back => ustate' # Live
            BY <3>1 DEF Back
        <3>5. CASE Start \/ PhoneSubmitted \/ PhoneBack
            BY <3>1, <3>3, <3>5 DEF Start, PhoneSubmitted, PhoneBack, Live
        <3>6. CASE EligibleRoot \/ IneligibleRoot \/ ManualMenu \/ AddressMenu \/ Catalog
            BY <3>2, <3>3, <3>4, <3>6
               DEF EligibleRoot, IneligibleRoot, ManualMenu, AddressMenu, Catalog, Live
        <3> QED BY <1>3, <3>5, <3>6 DEF BaleMenus
    <2> QED BY <1>1, <2>2, <2>3, MenuReturns
<1>4. CASE RouteButton \/ BaleLive
    BY <1>1, <1>4, UpdatesReturn DEF RouteButton, BaleLive
<1>5. CASE GroupsConfigured
    <2>1. UNCHANGED <<sess, newest, pend, remote, h, w, ustate>>
        BY <1>5 DEF GroupsConfigured, rowVars
    <2> QED BY <1>1, <2>1, MenuReturns
<1>6. CASE Handler \/ Webhook \/ Crash \/ Agents
    BY <1>1, <1>6, HandlerReturns, WebhookReturns, CrashReturns, AgentsReturn
<1> QED BY <1>1, <1>2, <1>3, <1>4, <1>5, <1>6 DEF BaleNext

LEMMA TelegramReturnSteps ==
    ASSUME LiveAssumption, TelegramInv, ReturnInv, [TelegramNext]_telegramVars
    PROVE  TelegramInv' /\ ReturnInv'
<1>1. TelegramInv' /\ LiveInv'
    BY TelegramSteps DEF TelegramInv
<1>2. CASE UNCHANGED telegramVars
    BY <1>1, <1>2, MenuReturns DEF telegramVars, liveVars
<1>3. CASE ShowRoot \/ RootActions \/ ManualChoice \/ AddressChoice
    <2>1. ASSUME NEW to, NEW group, MenuTo(to, group), to = ustate \/ to # Live
          PROVE  ReturnInv'
        <3>1. UNCHANGED <<sess, newest, pend, remote, h, w>> /\ h.pc = "idle"
              /\ ActiveSession = 0 /\ ustate' = to
            BY <2>1 DEF MenuTo
        <3> QED BY <1>1, <2>1, <3>1, MenuReturns
    <2> QED BY <1>1, <1>3, <2>1 DEF ShowRoot, RootActions, ManualChoice, AddressChoice, Live
<1>4. CASE RouteChosen \/ LeaveLiveRoute \/ LiveMenuInput \/ ForwardableSession
    BY <1>1, <1>4, UpdatesReturn DEF RouteChosen, LeaveLiveRoute, LiveMenuInput, ForwardableSession
<1>5. CASE GroupingSet
    <2>1. UNCHANGED <<sess, newest, pend, remote, h, w, ustate>>
        BY <1>5 DEF GroupingSet, rowVars
    <2> QED BY <1>1, <2>1, MenuReturns
<1>6. CASE Handler \/ Webhook \/ Crash \/ Agents
    BY <1>1, <1>6, HandlerReturns, WebhookReturns, CrashReturns, AgentsReturn
<1> QED BY <1>1, <1>2, <1>3, <1>4, <1>5, <1>6
        DEF TelegramNext, RemoteStatus, ReusableSession, RouteSession, ForwardMessage,
            RecreateSession, AcceptedNotice, DeliverPayload, EnterLiveRoute, ReceiveWebhook,
            Handler, Webhook

LEMMA LiveReturnInitially ==
    ASSUME LiveAssumption, LiveInit("root")
    PROVE  ReturnInv
BY ReturnInitially DEF Live

LEMMA BaleReturnInitially ==
    ASSUME LiveAssumption, BaleInit
    PROVE  BaleInv /\ ReturnInv
BY BaleInitially, ReturnInitially DEF BaleInit, Live

LEMMA TelegramReturnInitially ==
    ASSUME LiveAssumption, TelegramInit
    PROVE  TelegramInv /\ ReturnInv
BY TelegramInitially, ReturnInitially DEF TelegramInit, Live

----------------------------------------------------------------------------
(* What holds of each bot.                                                 *)

\* Posting is what the invariant says of it.
LEMMA PostingMeans ==
    ASSUME LiveInv
    PROVE  [Posted /\ h.mine[h.s].conv \in h.closed =>
               \/ h.verified = "blind"
               \/ h.reopen /\ h.verified = "reopened"]_liveVars
BY PostedFresh DEF Posted

LEMMA LiveInvMeans ==
    ASSUME LiveInv
    PROVE  RepeatsAreRetries
BY DEF LiveInv, SentInv

LEMMA BaleInvMeans ==
    ASSUME BaleInv
    PROVE  LiveInv /\ MenusFitCustomer
BY DEF BaleInv, BaleMenusInv

LEMMA TelegramInvMeans ==
    ASSUME TelegramInv
    PROVE  LiveInv /\ GroupFitsMenu
BY DEF TelegramInv, TelegramMenusInv

\* However an update, the webhooks, the agents and crashes interleave, a message of
\* an agent is sent to the customer again only when a task that sent it did not
\* commit, nothing that was kept for a customer in the menus waits behind his back
\* once he is in the route again, and an update reaches a conversation that was
\* resolved before it only when that was reopened or its status could not be had.
THEOREM LiveConversations ==
    LiveAssumption =>
        (LiveSpec => [](RepeatsAreRetries /\ HandedOverOnReturn) /\ ResolvedNotReused)
<1> SUFFICES ASSUME LiveAssumption
             PROVE  LiveSpec => [](RepeatsAreRetries /\ HandedOverOnReturn) /\ ResolvedNotReused
    OBVIOUS
<1>1. LiveInit("root") => LiveInv /\ ReturnInv
    BY LiveInitially, LiveReturnInitially
<1>2. LiveInv /\ ReturnInv /\ [LiveNext]_liveVars => LiveInv' /\ ReturnInv'
    BY LiveSteps, LiveReturnSteps
<1> QED BY <1>1, <1>2, LiveInvMeans, ReturnInvMeans, PostingMeans, PTL
        DEF LiveSpec, ResolvedNotReused

\* The same behind the menus of the Bale bot, and there no step of a menu, an
\* update, a webhook or an operator leads a customer who is not eligible to the
\* manuals, or keeps a group chosen in a menu he has left.
THEOREM BaleCustomers ==
    LiveAssumption =>
        (BaleSpec => /\ [](RepeatsAreRetries /\ HandedOverOnReturn /\ MenusFitCustomer)
                     /\ ResolvedNotReused)
<1> SUFFICES ASSUME LiveAssumption
             PROVE  BaleSpec => /\ [](RepeatsAreRetries /\ HandedOverOnReturn /\ MenusFitCustomer)
                                /\ ResolvedNotReused
    OBVIOUS
<1>1. BaleInit => BaleInv /\ ReturnInv
    BY BaleReturnInitially
<1>2. BaleInv /\ ReturnInv /\ [BaleNext]_baleVars => BaleInv' /\ ReturnInv'
    BY BaleReturnSteps
<1>3. BaleInv /\ ReturnInv => RepeatsAreRetries /\ HandedOverOnReturn /\ MenusFitCustomer
    BY BaleInvMeans, LiveInvMeans, ReturnInvMeans
<1> QED BY <1>1, <1>2, <1>3, BaleInvMeans, PostingMeans, PTL DEF BaleSpec, ResolvedNotReused

\* The same behind the menus of the Telegram bot.
THEOREM TelegramCustomers ==
    LiveAssumption =>
        (TelegramSpec => /\ [](RepeatsAreRetries /\ HandedOverOnReturn /\ GroupFitsMenu)
                         /\ ResolvedNotReused)
<1> SUFFICES ASSUME LiveAssumption
             PROVE  TelegramSpec => /\ [](RepeatsAreRetries /\ HandedOverOnReturn /\ GroupFitsMenu)
                                    /\ ResolvedNotReused
    OBVIOUS
<1>1. TelegramInit => TelegramInv /\ ReturnInv
    BY TelegramReturnInitially
<1>2. TelegramInv /\ ReturnInv /\ [TelegramNext]_telegramVars => TelegramInv' /\ ReturnInv'
    BY TelegramReturnSteps
<1>3. TelegramInv /\ ReturnInv => RepeatsAreRetries /\ HandedOverOnReturn /\ GroupFitsMenu
    BY TelegramInvMeans, LiveInvMeans, ReturnInvMeans
<1> QED BY <1>1, <1>2, <1>3, TelegramInvMeans, PostingMeans, PTL
        DEF TelegramSpec, ResolvedNotReused
=============================================================================
