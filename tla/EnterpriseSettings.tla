-------------------------- MODULE EnterpriseSettings --------------------------
(***************************************************************************)
(* The settings of a Bale or Telegram Enterprise instance as its tasks     *)
(* share them: platform_metadata is one encrypted column, so whoever       *)
(* changes one setting writes all of them, as it read them when it began.  *)
(*                                                                         *)
(* Two tasks hold such a copy across awaits.  The SMS synchronization      *)
(* fetches the texts after enterprise_sms_last_id, sends each to the       *)
(* customer with its phone number and then moves the mark; the poll loop   *)
(* starts it, and so does POST .../sms-sync/run.  The creation of a        *)
(* route's Chatwoot inbox looks the inbox up by name, creates it or repairs*)
(* its webhook, and then links it; operators and customers both start it.  *)
(***************************************************************************)
EXTENDS Naturals, Sequences, FiniteSets

CONSTANTS
    Syncs,         \* who synchronizes: "poll" and "manual"
    Creators,      \* who creates the inbox: "customer" and "operator"
    MaxSms,        \* bound: texts the SMS service issues, numbered upwards
    MaxInboxes,    \* bound: inboxes of the route's name
    MaxEdits       \* bound: settings changed and webhooks broken by hand

\* What the constants have to be; the module that gives them values assumes it.
SettingsAssumption ==
    /\ Syncs \subseteq {"poll", "manual"} /\ Creators \subseteq {"customer", "operator"}
    /\ MaxSms \in Nat \ {0} /\ MaxInboxes \in Nat \ {0} /\ MaxEdits \in Nat

Sms == 1..MaxSms

VARIABLES
    meta,         \* the column: SMS mark, SMS switch, linked inbox (0: none)
    issued,       \* texts the service has
    run,          \* the synchronizations
    creation,     \* the inbox creations
    inboxes,      \* Chatwoot: per inbox of the name, whether its webhook is ours
    edits,        \* bound
    \* History.
    seen,         \* times each text was sent
    tried,        \* texts a run has dealt with, or an operator passed over
    excused,      \* texts whose progress was lost, or sent by overlapping runs
    raced         \* two creations were under way at once

settingsVars == <<meta, issued, run, creation, inboxes, edits,
                  seen, tried, excused, raced>>
smsHistory == <<seen, tried>>

NoSync == [pc |-> "idle", cfg |-> [last |-> 0, on |-> FALSE, inbox |-> 0],
           items |-> {}, top |-> 0, shared |-> FALSE]
NoCreation == [pc |-> "idle", cfg |-> NoSync.cfg, inbox |-> 0]

SettingsInit ==
    /\ meta = [last |-> 0, on |-> TRUE, inbox |-> 0]
    /\ issued = 0
    /\ run = [r \in Syncs |-> NoSync]
    /\ creation = [c \in Creators |-> NoCreation]
    /\ inboxes = <<>> /\ edits = 0
    /\ seen = [i \in Sms |-> 0] /\ tried = {} /\ excused = {}
    /\ raced = FALSE

\* A write of the whole column; what it takes back will be sent again.
Written(value) ==
    /\ meta' = value
    /\ excused' = excused \union {i \in Sms : value.last < i /\ i <= meta.last}

----------------------------------------------------------------------------
(* sync_external_sms_messages, called by the poll loop's background task   *)
(* and by the route.                                                       *)

\* _maybe_run_enterprise_sms_sync lets one run of its own go on until it is
\* stuck; the route asks nobody.
SyncBegins(r) ==
    /\ run[r].pc = "idle" /\ meta.on
    /\ LET shared == \E o \in Syncs : run[o].pc # "idle"
       IN run' = [o \in Syncs |->
             IF o = r THEN [NoSync EXCEPT !.pc = "fetching", !.cfg = meta,
                                          !.top = meta.last, !.shared = shared]
             ELSE [run[o] EXCEPT !.shared = @ \/ run[o].pc # "idle"]]
    /\ UNCHANGED <<meta, issued, creation, inboxes, edits, smsHistory, excused, raced>>

\* Mutant: the first text after the mark is left out.
UnsentAfterNext(last) == {i \in 1..issued : i > last + 1}

\* The service answers with the texts from last_id + 1 on.
Unsent(last) == {i \in 1..issued : i > last}

SyncFetched(r) ==
    /\ run[r].pc = "fetching"
    /\ run' = [run EXCEPT ![r].pc = "sending", ![r].items = Unsent(run[r].cfg.last)]
    /\ UNCHANGED <<meta, issued, creation, inboxes, edits, smsHistory, excused, raced>>

\* The next text: nobody has its number, or it is sent, or sending fails.
Dropped(r, i) ==
    /\ run' = [run EXCEPT ![r].items = @ \ {i}]
    /\ UNCHANGED <<seen, excused>>
SmsSent(r, i) ==
    /\ run' = [run EXCEPT ![r].items = @ \ {i}, ![r].top = IF i > @ THEN i ELSE @]
    /\ seen' = [seen EXCEPT ![i] = IF @ = 2 THEN 2 ELSE @ + 1]
    /\ excused' = IF run[r].shared THEN excused \union {i} ELSE excused

SyncSends(r) ==
    /\ run[r].pc = "sending"
    /\ \E i \in run[r].items :
          /\ \A k \in run[r].items : i <= k
          /\ tried' = tried \union {i}
          /\ Dropped(r, i) \/ SmsSent(r, i)
    /\ UNCHANGED <<meta, issued, creation, inboxes, edits, raced>>

\* The mark moves to the highest text that was sent, past those that failed
\* before it, with the run's copy of every other setting.
SyncEnds(r) ==
    /\ run[r].pc = "sending" /\ run[r].items = {}
    /\ IF run[r].top # run[r].cfg.last
       THEN Written([run[r].cfg EXCEPT !.last = run[r].top])
       ELSE UNCHANGED <<meta, excused>>
    /\ run' = [run EXCEPT ![r] = NoSync]
    /\ UNCHANGED <<issued, creation, inboxes, edits, smsHistory, raced>>

\* The fetch fails, or the run is cut short: its deadline, the stuck-run
\* cancellation, the disabled instance, the death of the process.
SyncAborts(r) ==
    /\ run[r].pc # "idle"
    /\ run' = [run EXCEPT ![r] = NoSync]
    /\ excused' = excused \union {i \in Sms : seen[i] > 0 /\ i > run[r].cfg.last}
    /\ UNCHANGED <<meta, issued, creation, inboxes, edits, smsHistory, raced>>

Issued ==
    /\ issued < MaxSms /\ issued' = issued + 1
    /\ UNCHANGED <<meta, run, creation, inboxes, edits, smsHistory, excused, raced>>

\* update_sms_sync_config, and update_instance of the panel's form: the
\* column is read, changed and written without an await.
ConfigPatched ==
    /\ edits < MaxEdits /\ edits' = edits + 1
    /\ \E last \in 0..issued, on \in BOOLEAN :
          /\ Written([meta EXCEPT !.last = last, !.on = on])
          /\ tried' = tried \union 1..last
    /\ UNCHANGED <<issued, run, creation, inboxes, seen, raced>>

----------------------------------------------------------------------------
(* create_route_inbox.                                                     *)

\* _ensure_route_inbox calls it while the route is not linked; the panel's
\* save and POST .../inboxes/{route} always do.
CreationBegins(c) ==
    /\ creation[c].pc = "idle"
    /\ c = "customer" => meta.inbox = 0
    /\ c = "operator" => edits < MaxEdits
    /\ edits' = IF c = "operator" THEN edits + 1 ELSE edits
    /\ creation' = [creation EXCEPT ![c] = [pc |-> "listing", cfg |-> meta, inbox |-> 0]]
    /\ raced' = (raced \/ \E o \in Creators \ {c} : creation[o].pc # "idle")
    /\ UNCHANGED <<meta, issued, run, inboxes, smsHistory, excused>>

\* Mutant: an inbox of the name is not looked for.
FoundNone == 0

\* list_inboxes: the first of the name, or none.
Found == IF inboxes = <<>> THEN 0 ELSE 1

InboxListed(c) ==
    /\ creation[c].pc = "listing"
    /\ creation' = [creation EXCEPT ![c].pc = IF Found = 0 THEN "creating" ELSE "repairing",
                                    ![c].inbox = Found]
    /\ UNCHANGED <<meta, issued, run, inboxes, edits, smsHistory, excused, raced>>

Linked(c, i) ==
    /\ Written([creation[c].cfg EXCEPT !.inbox = i])
    /\ creation' = [creation EXCEPT ![c] = NoCreation]

InboxCreated(c) ==
    /\ creation[c].pc = "creating" /\ Len(inboxes) < MaxInboxes
    /\ inboxes' = Append(inboxes, TRUE)
    /\ Linked(c, Len(inboxes) + 1)
    /\ UNCHANGED <<issued, run, edits, smsHistory, raced>>

\* _ensure_inbox_webhook_url.
InboxRepaired(c) ==
    /\ creation[c].pc = "repairing"
    /\ inboxes' = [inboxes EXCEPT ![creation[c].inbox] = TRUE]
    /\ Linked(c, creation[c].inbox)
    /\ UNCHANGED <<issued, run, edits, smsHistory, raced>>

\* Chatwoot fails, or the process dies.
CreationFails(c) ==
    /\ creation[c].pc # "idle"
    /\ creation' = [creation EXCEPT ![c] = NoCreation]
    /\ UNCHANGED <<meta, issued, run, inboxes, edits, smsHistory, excused, raced>>

\* An administrator points an inbox's webhook elsewhere.
WebhookBroken ==
    /\ edits < MaxEdits /\ edits' = edits + 1
    /\ \E i \in DOMAIN inboxes : inboxes[i] /\ inboxes' = [inboxes EXCEPT ![i] = FALSE]
    /\ UNCHANGED <<meta, issued, run, creation, smsHistory, excused, raced>>

----------------------------------------------------------------------------
Sync(r) == SyncBegins(r) \/ SyncFetched(r) \/ SyncSends(r) \/ SyncEnds(r) \/ SyncAborts(r)
Creation(c) ==
    CreationBegins(c) \/ InboxListed(c) \/ InboxCreated(c) \/ InboxRepaired(c)
    \/ CreationFails(c)

SettingsNext ==
    \/ \E r \in Syncs : Sync(r)
    \/ \E c \in Creators : Creation(c)
    \/ Issued \/ ConfigPatched \/ WebhookBroken

SettingsSpec == SettingsInit /\ [][SettingsNext]_settingsVars

----------------------------------------------------------------------------
(* Properties.                                                             *)

\* A text is sent again only when a run that sent it was cut short, two runs
\* overlapped, or a writer with an older copy took the mark back.
SmsRepeatsExcused == \A i \in DOMAIN seen : seen[i] > 1 => i \in excused

\* The mark never passes a text that no run has dealt with, whichever stale
\* copy of the settings was written last.
NothingPassedOver == \A i \in 1..meta.last : i \in tried

\* The route has a second inbox only when two creations overlapped: a link
\* that a stale copy wiped out is found again by name.
SecondInboxIsRace == Len(inboxes) > 1 => raced
=============================================================================
