# A TLA+ model of Wootify

Wootify connects Chatwoot, the help desk of a team, to the messengers its
customers use. Some are bots (Telegram, Bale bot, the Enterprise bots); others
are *personal accounts* driven over the protocol of the messenger's own client
(Bale PV, Eitaa PV, Instagram), where a send is only known to have happened when
the platform confirms it. This directory models the parts that decide whether a
message is delivered once, in order, to the right person and truthfully
reported, and proves the most important of them for every size.

Paths below are relative to `src/backend/src/wootify/`.

| module | what it is |
|---|---|
| `TruthfulDelivery` | abstract specification: what the customer receives and the agent sees of one message |
| `ConfirmedDelivery` | the send ledger, the failure report, confirmations, deletion, crash; implements `TruthfulDelivery` |
| `DeliveryQueue` | the durable queue of Chatwoot webhooks: rows, tasks, semaphore, locks, recovery, Retry clicks |
| `InboundQueue` | the durable queue of native updates of Bale PV and Eitaa PV |
| `BotPolling` | the poll loop and the watermarks of the bot platforms |
| `BalePvSession` | poll manager, poll task, panel, registry and WebSocket of a Bale personal account |
| `EitaaSession` | the token of an Eitaa session: one renewal for many requests, logins with a code |
| `InstagramInbox` | the sessions, watermarks and retry queue of an Instagram account |
| `InstagramChallenge` | its logins and the challenges the panel answers |
| `ConversationMapping` | conversations of a contact and their rows, shared by the two bridges |
| `MessageLifecycle` | messages, edits and deletions in both directions in the bridge of the adapters |
| `Bridge` | the same for the generic bridge, with its transactions and row locks |
| `ContactIdentity` | which Chatwoot contact stands for a peer |
| `PhoneDestination` | whom an agent's answer goes to, while telephone numbers move |
| `ContactSync` | the panel's copying and removing of contacts and dialogs |
| `EnterpriseLive` | live conversations of the Enterprise bots |
| `EnterpriseBale`, `EnterpriseTelegram` | the menus in front of them, extending `EnterpriseLive` |
| `EnterpriseSettings` | the settings that tasks share as one column: the SMS mark, the inbox of a route |
| `EnterpriseAssets` | documents, catalogs and groups |
| `MCConfirmedDelivery`, `MCDeliveryQueue`, `MCInstagramInbox` | constants of a run |
| `MCPolling`, `MCEnterprise`, `MCComponents` | several modules side by side in one run |
| `ConfirmedDeliveryProofs`, `DeliveryQueueProofs` | theorems about the module of that name and their proofs |
| `ContactIdentityProofs` | theorems about `ContactIdentity`, `PhoneDestination`, `ContactSync`, `Bridge` and `MessageLifecycle` |
| `AccountsProofs` | theorems about `EitaaSession`, `InstagramChallenge` and `InstagramInbox` |
| `EnterprisePartsProofs` | theorems about `EnterpriseLive`, `EnterpriseBale`, `EnterpriseTelegram`, `EnterpriseSettings` and `EnterpriseAssets` |
| `PollingProofs` | theorems about `BotPolling`, `BalePvSession` and `InboundQueue`, side by side in `MCPolling` |
| `EnterpriseProofs`, `ComponentsProofs` | carry the theorems of the components to `MCEnterprise` and `MCComponents` |

## 1. The system

### Components, their state and their operations

**Confirmed outbound delivery** (`application/messaging/confirmed_outbound_delivery.py`
and the branches of `handle_chatwoot_webhook` in
`application/messaging/chatwoot_bridge.py`). A ledger per Chatwoot message, in a
JSON column of `message_mappings`: the send plan, the request identity of each
part in flight, the receipt of each confirmed part, the `cancelled` flag.
`deliver` walks the plan, committing the identity of a part before it is sent;
`accept_receipt` checkpoints an answer; `report_failure_or_confirm` turns the
bubble red and posts a private note, unless a look under the message lock shows
that everything was confirmed; `finalize` removes the notes and turns the bubble
to "sent"; `reconcile_echo` (Bale) and `reconcile_eitaa_confirmation` apply the
confirmations the platform pushes. Correct when no part is sent twice, a message
shown as sent was received in full, parts arrive in order, nothing is sent after
a deletion, and errors do not overrule confirmations.

**Durable webhook queue** (`presentation/http/routers/_handler_controller.py`).
The rows of `chatwoot_webhook_deliveries`; in memory the active job identifiers,
a semaphore of 20 permits, at most 1000 conversation locks. Accept a webhook
(commit, then schedule), run a job, settle it, time it out after 300 seconds,
scan for due rows, rearm on a Retry click, cancel the job of a deleted message.
Correct when runs of one conversation exclude each other, a finished or cancelled
job stays so against every stale view of it, and every accepted job is settled.

**Durable inbound queue** (`application/messaging/polling.py`, `get_updates` of
`plugins/eitaa_pv/connector.py`, the frame queue of `plugins/bale_pv/connector.py`
and the duplicate checks of `ingest_platform_event`). Frames in memory, the
difference cursor, the rows of `inbound_event_retries`. Correct when a chat's
messages reach Chatwoot in order, deletions follow their messages, and the
cursor passes nothing that is not stored.

**Bot poll loop** (`BalePollingService._run_instance`). A mark in memory, one in
the database, failure counts. Correct when failing updates neither vanish nor
block the others.

**Poll manager, instances and runtimes** (`polling.py`, `runtime_registry.py`,
`application/instances`, the instance routes) and the **Bale PV client**
(`packages/bale-pv-client`, `plugins/bale_pv/connector.py`). The instance's row,
the registry's adapters, the connector's runtime objects with their sockets and
listeners, the poll task and its batch. Correct when an enabled, logged-in
account gets connected and polled again after anything, through one socket, and
no received update is lost but where the code drops it knowingly.

**Eitaa session** (`plugins/eitaa_pv/session_client.py`, `connector.py`). The
profile in memory, on disk and waiting to be saved, the renewal task. Correct
when a token that the server handed out is not lost, is renewed once however
many requests met its expiry, and a new login is not undone.

**Instagram** (`plugins/instagram/connector.py`, `polling_service.py`). Session
objects, a watermark per thread (in memory, staged, in a file), a retry queue in
memory, the login's lock and challenge. Correct when the file passes nothing that
was not delivered, a thread keeps its order, and logins come one at a time and
only when something has changed.

**Message lifecycle** (`chatwoot_bridge.py`) and **generic bridge** (`bridge.py`):
two implementations of messages, edits, deletions and status between a peer and
its conversations. Correct when repetitions make no copies, resolved
conversations are respected, and what the platform mirrors is not shown as the
customer's.

**Contact and conversation mapping** (`contact_identity.py`,
`conversation_mapping.py`, `conversation_policy.py`, `message_mapping.py`, the
repositories). Contacts, aliases, creation anchors, conversation rows, resolved
telephone numbers. Correct when a peer has one contact, a contact stays its
peer's, and answers go to the peer of their contact.

**Contact and dialog synchronisation** (`workflows.py` and the routes' functions
in `bridge.py`). Correct when agents' names survive it, a removal removes, and
imported history stays in Chatwoot.

**Enterprise workflows** (`application/enterprise/bale.py`, `telegram.py`),
**settings and assets** (`documents.py`, `manual_groups.py`, the SMS and inbox
functions). Sessions, pending messages and menu states of customers; one JSON
column of settings; asset rows and files. Correct when nothing kept for a customer
is forgotten or repeated, menus fit what the customer may see, the SMS mark passes
nothing untried, a route has one inbox, and the active catalog can be sent.

**Application lifecycle** is the start and stop of the above; **persistence** is
the rows and locks in them. **Shared cache, security, Chatwoot client, network,
configuration, observability, web panel**: not modelled (section 11).

### How they interact

```
              panel ------------ ContactSync ---- ContactIdentity
                |                                     |        \
  BalePvSession, EitaaSession,                        |      PhoneDestination
  InstagramInbox/Challenge                            |          |
                | updates                             |          | whom to
                v                                     v          v
   InboundQueue, BotPolling ---> MessageLifecycle / Bridge ---> platform
                                  (ConversationMapping)          ^
                                        |  bubbles               | parts
                                        v                        |
                                     Chatwoot --> DeliveryQueue --> ConfirmedDelivery
                                        ^                                ^
                                        |                                | confirmations
                                  Enterprise*                      InboundQueue
```

Each module is a component with its neighbours as free environment: the sender
of `ConfirmedDelivery` may be accepted, refused or lost at any time, the queues'
handlers may fail at any time, and the bridges are given any event, in any order
and as often as the queues may repeat it. Where components share state, the
module has the state of both: `ConfirmedDelivery` the job row and the ledger,
`BalePvSession` manager, poll task, panel and connector, `ContactSync` the calls of
the panel and the messages, `PhoneDestination` routing, mapping and resolver,
`MessageLifecycle` ingestion and webhook run.

All of it is one asyncio process over one database: code between two awaits is
atomic for the event loop, but database work runs in worker threads that a
cancelled task leaves behind, and a session keeps the rows it has loaded while
other sessions change them. The process may stop at any await. Sessions are
isolated from what others have not committed, and a flush that meets a locked
row fails, as in PostgreSQL.

### What is hard

Acknowledgements lost after the platform accepted; confirmations that arrive while
a task waits for, or reports, the opposite; failures half-way through several
calls to Chatwoot; rows, settings, login states and conversation statuses read
before an await and used after it; timeouts that cancel a task but not its
thread; scans that act on rows loaded earlier; restarts between any two commits;
streams that must keep an order while single events back off; numbers and contacts
that change hands. `PROJECT.json` lists each with its line and the properties
about it.

## 2. ConfirmedDelivery

One message with `NumParts` parts, from its webhook to the customer. Actors:
the task that runs its job, the poller that applies confirmations, the
platform, Chatwoot.

| state | code |
|---|---|
| `jobStatus`, `attempts`, `terminal`, `noted` | the job row: `status`, `attempts`, and in its payload the final-failure flag and the remembered note identifiers |
| `saved`, `inflight`, `receipts`, `cancelled` | the ledger in `platform_payload_json` |
| `pc`, `part`, `err`, `reply`, `late` | the await at which the task is suspended, and what it carries |
| `confirming`, `lock` | the poller inside `reconcile_*`, the holder of `message_lock` |
| `net`, `copies`, `echoes` | requests under way, the customer's chat, native updates not yet handled |
| `bubble`, `note` | Chatwoot |

A step of the task is the code between two awaits. `pc` names the await:
`resolve` (finding the recipient), `mark` (turning the bubble red before the
first send), `prepare` (upload), `await` (the answer to the request),
`finalize`/`sync`/`confirm` (the three calls of `finalize`: after the last part,
at the start of a run of a complete ledger, in place of a late report),
`wantLock` (`report_failure_or_confirm` before the lock), `notify` and `note`
(the two halves of `_notify_delivery_failure`), `settle` (the worker thread that
settles the row). `err` is first the class of the error that is reported and
then the outcome of the run: `ok`, `retry` or `dead`.

Decisions of the model:

- The identity of a request is a hash of its idempotency key, equal on every
  attempt: requests and receipts are named by their part.
- `Accept`, `Refuse` and `Lose` are free: the network owes nothing. The other
  failures are actions guarded by `Fault(kind)`, bounded by `MaxFaults`.
- A call to Chatwoot that fails, times out or is interrupted by a crash may
  have been carried out in part: `HalfFinalized`, `HalfPosted`, `Interrupted`.
- `Delete` happens only between runs: the deletion is a job of the same
  conversation, whose lock it needs. `DeliveryQueue` checks that exclusion.
- `PostNote` may post nothing when a remembered note is gone or the text was
  posted a short while ago. The code's time-to-live is over-approximated.
- Not here: the copies of the job's metadata that a session keeps over an await
  (they are `snapshot` in `DeliveryQueue`), the import of receipts of an older
  Eitaa format, messages without content, private notes, and the recall of
  parts on the platform when a message is deleted.

`TruthfulDelivery` is what the ledger is for. Seen from outside there are only
offers to the platform, copies and the bubble, and `offered` is refined by the
requests under way (`net`). It forbids an offer of a part that was delivered or
is on offer, an offer before the earlier parts arrived, and "sent" before every
part arrived.

Properties beyond that refinement:

- `NoStaleNote`: no private failure note outlives the delivery.
- `UncertaintyKept`: a part in flight is only taken out by a receipt or when the
  platform cannot hold the request any more.
- `NoSendAfterCancel`: once the deletion is recorded nothing new is sent.
- `SentStays`: "A late error cannot overwrite a confirmed send"
  (`src/docs/fixes/2026-10-14-bale-confirmed-delivery-and-native-retry.md:70`).
- `ConfirmedIsShown`: what is confirmed is shown as sent in the end.

## 3. DeliveryQueue

| state | code |
|---|---|
| `row`, `attempts`, `due`, `cancelled`, `consumed`, `arrived` | `chatwoot_webhook_deliveries`; `done` is a deleted row, `arrived` its order by `created_at` |
| `scan` | rows loaded by the recovery loop in a worker thread and not scheduled yet |
| `active`, `task`, `late`, `snapshot` | `_webhook_delivery_active_ids`, the tasks, and the copy of the row's metadata a report works on |
| `semq`, `lockq`, `ref`, `dict` | waiters of the semaphore and of the locks, the lock object of each task, `_webhook_delivery_locks` in insertion order |

A lock object is an identifier of its own, apart from the dictionary entry that
names it, so that the model has what the code has: `_get_webhook_delivery_lock`
may drop the entry of a lock somebody holds. What a run does to the platform is
left to `ConfirmedDelivery`; here it ends completed, failed or finally failed.

`ConversationMutex` is why the downstream duplicate check is not raced, and what
`Delete` of `ConfirmedDelivery` relies on. It holds while the dictionary has
room: with more than `MaxLocks` conversations the oldest entry is evicted, in
use or not. The code accepts this at 1000 conversations; the run stays below and
the theorems have the hypothesis `FewConversations`.
(`_release_webhook_delivery_lock` is called while the lock is held and
therefore never drops an entry, so the dictionary does reach its limit;
`Leave` models that.) A job in backoff is overtaken by later jobs of its
conversation: the lock orders concurrent runs, not retries.

`CancelledStaysOut` and `DoneIsFinal` set the rows against every stale view of
them (scan, tasks that were scheduled before, threads that settle after a
timeout, clicks). `Settles` says that an accepted webhook is done or failed in
the end. Not modelled: the re-arming rule of platforms without a ledger, the
other HTTP routes of the file.

## 4. InboundQueue

One instance, whose events are numbered in the order the platform produced
them. What they are is a `history` chosen at the start among `Histories`: the
platform, and for each event its kind, chat and subject.

| state | code |
|---|---|
| `inbox`, `lost` | `message_queue` of the Bale connector, and what went with it when the task or the process ended |
| `batch`, `fetched`, `state` | the fetched updates, `pending_update_state` and `update_state` of the Eitaa connector |
| `cursor`, `rows`, `mapped` | `last_platform_update_id`, `inbound_event_retries`, the committed mappings and receipts |
| `todo`, `blocked`, `stage` | the pass of `_drain_retry_queue`: its snapshot, its blocked streams, the step of the current event |
| `copies` | bubbles made in Chatwoot |

`Fetch` takes a difference of any length, confirmations first and deletions
last; `Stream` is the rule by which an Eitaa confirmation or deletion has a chat
only when its message came in the same difference; `Persist` commits rows and
cursor together; `Pass` and `Overtaking` are the two rules that keep order.
`Post` and `Commit` are apart because the bubble is posted before the mapping is
committed.

`PeerOrder`, `NothingSkipped` and, as liveness, `WorkedOff`: the queue is worked off
again and again. Bounds of what is claimed: frames that Bale pushed and the
process lost with its memory are gone unless pushed again; rows are created in
the order of their clock; rows of deleted instances are not modelled. The
comment at `plugins/eitaa_pv/connector.py:671` wants receipts handled before
echoes; a receipt whose echo comes in a later difference is in another stream and
can be overtaken when its processing fails. The model has that behaviour; it is
listed as a hazard that no run checks.

## 5. BotPolling

The marks `lastId` (memory) and `stored` (database), the batch, and the counts
of failures. A failing update is left to a later poll, then queued, then counts
as done. `OnlyOvertaken` says the loop passes nothing over by itself, whatever
happens to its marks: an update behind the offset was settled or a later one
was. That second half is real, see the findings. As liveness the offset catches up
with what was produced again and again: poisonous updates hold up nothing. A
failing handler is free; a failing database and restarts are bounded by
`MaxFaults`.

## 6. The sessions of the accounts

### BalePvSession

| state | code |
|---|---|
| `row`, `saved` | the instance's row (enabled, disabled, deleted), the session file |
| `registered` | `RuntimeRegistry` holds an open adapter |
| `rts`, `current` | the connector's runtime objects and the one of the instance: authenticated, client (up, deaf, down), listener, stop flag, starts under way, frame queue, and sockets nobody holds (`strays`) |
| `act` | the await of the poll task and of the panel's call |
| `task`, `drained`, `kept` | the poll task; `pending_bale_updates`; what is committed |

`Opens`, `Refreshes` and `Registers` are the stages of a connect, whoever calls it;
`ListenerWakes`, `ListenerCloses`, `ListenerOpens` the reconnection of the WebSocket;
`PollAsks`, `PollDrains`, `PollResolves`, `PollPersists`, `PollReports` one turn of the
loop; `ManagerStarts` and `ManagerStops` the manager; `PanelConnects` and its
successors the routes that connect, send a code, validate it or list dialogs;
`Enable`, `Disable`, `Delete` the instance's routes; `Push`, `Drop` and
`SessionRestarts` the environment.

`OneSocket`: a runtime leaves no open socket behind, but for two starts that
overlap. `UpdatesKept`: a received update is queued, held or committed, or was
dropped by a disconnection, the end of the task or process, or the dialogs' route,
which drains the same queue. `Reconnects`: an instance that stays enabled and
logged in ends up connected, registered and polled for good.

### EitaaSession

A token is a pair of the login it comes from and its number among those issued
for that login. `profile`, `disk`, `pending` are the profile in memory, the session
file and `_pending_profile`; `ren` and `cur` the renewal tasks and `_refresh_task`;
`req` the requests with the token they carried and the task they wait for; `login`
a login with a code. `TokenKept` has two parts: the newest token of the current
login is with the client (or its answer never came), and no token is renewed while
the client has a newer one. `NewLoginStays`: the profile is of the last login.

Named exceptions: `raced`, a renewal that begins while the server checks a code,
which puts the old session back or leaves none; `gone`, tokens whose answer was
lost, that came unasked while a renewal ran, waited or backed off and were dropped
by the code, or that were not on disk yet when the process ended.

### InstagramInbox and InstagramChallenge

Session objects are elements of `rts`; `cur` is the one the connector knows. A
fetch stages marks, a commit after the delivery makes them the session's and
writes the file. A login is as many steps as it has awaits: the session is one to be
used and nothing is staged from then on (`LoginSucceeds`), the account is asked for,
which may undo the login (`VerificationFails`), and the file is read, or cannot be
read and the session goes on with its own start (`Verified`). Meanwhile its lock keeps
other logins, the listing of the inbox (`Waited`) and the panel's look (`Probed`) out,
while disabling and reconnecting do not ask for the lock and write the file.
`NothingForgotten`: what the file is past is in Chatwoot, but for
what `dropped` names: a batch whose error report failed, a queue that a restart
emptied, and what is history to a session that did not read the file, because it
does not list it and because it overwrites the file.
`OrderKept`: the messages of a thread come in their order.

`InstagramChallenge` has one session object, its lock, the callers of `connect` (the
poll task and requests of the panel) and the threads of challenges with the
event each waits for. `LoginsInTurn` joins: one login at a time; `connect` is shut
out only while something will let it in again or the panel can resume; while the
account waits for the panel the poll task logs in at most once. All three except two calls that
were let in before either took the lock (`raced`), because what is checked before
the lock is not checked under it; two challenges raced in this way may leave the
state "manual" without the client to resume, which only Reconnect repairs.

## 7. Messages, conversations and contacts

**ConversationMapping** has the conversations of one contact in Chatwoot (open,
resolved, deleted), the setting to reopen, the rows and which are active, and the
choice among them (`Select`), with agents opening, resolving and deleting.

**MessageLifecycle** extends it with one ingestion (`t`), one webhook run (`w`),
the webhooks waiting (`hooks`), posts and mappings. Every change of a mapping is
committed before the next await. With `Mirrors` the platform sends an answer's
edit or deletion back as an event. **Bridge** extends it likewise, but its upserts
stay uncommitted, and their rows locked, until the message is mapped: a flush
leaves nothing dirty, so the commits that stand before the requests do nothing.

- `CopiesExcused`: a message is copied only by a run that ended between the request
  and the mapping (and in `Bridge`, where messages are looked up by conversation,
  by a change of conversation).
- `NotIntoResolved`: no message goes into a conversation that was seen resolved.
- `OwnEditsStayOut`: the mirror of an agent's edit is not shown as the customer's, but
  for the races named in `MessageLifecycle`.

**ContactIdentity**: resolutions of peers as tasks, contacts and creation requests
in Chatwoot, mapping, aliases, and the committed anchor that lets a lost reply be
found again. `OneContactPerPeer` and `ContactKeepsPeer`, the latter but for two
overlapping repairs between which an agent moves the number from one contact to
another; that takes three changes by agents, more than the run has.

**PhoneDestination**: the routing of an answer by the active row, the contact's
mapping or alias, or its number, with the table of resolved numbers (`cache`,
Bale only), while numbers move between accounts and contacts. `AnswersFindPeer`: an
answer goes to a peer who wrote to this contact or had its number when it was
asked for, and a contact's answers all go to one peer. The exception, `trusted`:
an old resolution is taken for a peer that has no contact yet, and the number may
have moved since.

**ContactSync**: the calls of sync-contacts, sync-dialogs and
remove-chatwoot-contacts with their stages, a message that looks the contact's name
up, agents who rename, users who show another name. `NamesStay`: a name that an
agent gave stays, and none is replaced by a made-up one, but for the cases its
comment names (a synchronization of dialogs, one that began before the first had
ended, a name written on an older look). `RemovalLeavesMoved`: a removal that meets
no error leaves only contacts that moved up a page while those before them were
deleted.

## 8. Enterprise bots

**EnterpriseLive**: the update handler `h` and the webhook run `w`, tasks with a
database session each: copies of rows (`mine`, `base`), columns written by
difference, row locks from flush to commit. `sess`, `newest`, `pend`, `ustate` are
the committed rows, `remote` Chatwoot's conversations, `inbox` and `reopen` the
settings. Enter, write, leave, return and hand over; agents' answers, kept while
the customer is away; resolutions by webhook; crashes. `newest` gives each row its
place by `updated_at`; `Order` is the order of the handler's own queries, in which
what it made and what it flushed come first. An update is one transaction
(`Committed`, or `HandlerFails`) but for one place: before a conversation is created
the contact is resolved, and `contact_identity.resolve` commits
(`contact_identity.py:159`, `:195` and the others) before it asks Chatwoot. `Proceeds`
has this commit on every way to a creation: sessions given up so far stay given up
though the creation fails, the handler's locks are released, and a webhook can come
in between. That is how a webhook that read a session before keeps a message for it
after it was given up: such a message waits, and `HandedOverOnReturn` names it (`late`,
set by `Kept`).

**EnterpriseBale** and **EnterpriseTelegram** extend it with the menus: `phone`, `gre`,
`ingroup`, `grouped` and `chosen`, `grouping` are columns of the user's row and
whether groups are configured. A menu input is one step, because updates of a bot
are handled one by one and a menu handler writes that row only.

**EnterpriseSettings**: `meta` is the column that whoever changes one setting writes
whole; the SMS synchronizations `run` and the inbox creations `creation` hold a copy
of it across awaits. **EnterpriseAssets**: rows, files, uploads on the event loop,
deletions and group changes in threads, one statement a step.

- `HandedOverOnReturn`, `RepeatsAreRetries`: what agents write while the customer is
  away is handed over on return, but for what was kept while he was in the route or
  for a session already given up, and repeated only by a task that could not commit.
- `ResolvedNotReused`, `MenusFitCustomer`.
- `SmsMarkHolds`: the mark passes no text untried; a text is repeated only by
  overlapping or cut-short runs or a stale copy. A text whose sending failed *is*
  passed over when a later one succeeds: the mark is the highest that succeeded.
- `SecondInboxIsRace`: a route has a second inbox only when two creations overlapped.
- `AssetsConsistent`: the active catalog can be read, groups refer to what exists.

## 9. Runs

| run | specification and bounds | shows |
|---|---|---|
| `ConfirmedDelivery` | Eitaa, 2 parts, 2 attempts, 4 faults of every kind, 3 webhooks | `SentIsTruthful`, `DeliveredInOrder`, `NoStaleNote`, `UncertaintyKept`, refinement `TruthfulSpec` (62 518 states) |
| `ConfirmedDeliveryLateErrors` | Bale, 2 parts, 3 attempts, 2 faults, reports under the lock; fair | `AtMostOnce`, `NoSendAfterCancel`, `SentStays`, `ConfirmedIsShown` (13 776 states) |
| `DeliveryQueue` | a message and its deletion, 2 permits, 2 attempts, 2 clicks, 1 fault; fair | `ConversationMutex`, `CancelledStaysOut`, `DoneIsFinal`, `Settles` (81 698 states) |
| `Polling` | `InboundQueue` with three histories of 3 events, 2 faults, 1 repetition; `BotPolling` with 3 updates, 3 attempts, 2 faults; `BalePvSession` with 1 update, 2 calls, 1 lost connection, 1 fault; fair | `PeerOrder`, `NothingSkipped`, `OnlyOvertaken`, `OneSocket`, `UpdatesKept`, `CatchesUp`, `Reconnects` (283 843 states) |
| `Enterprise` | `EnterpriseLive` twice, the menus of both bots, `EnterpriseSettings` twice, `EnterpriseAssets` twice | `HandedOverOnReturn`, `RepeatsAreRetries`, `MenusFitCustomer`, `SmsMarkHolds`, `SecondInboxIsRace`, `AssetsConsistent`, `ResolvedNotReused` (some 960 000 states) |
| `Components` | `ContactIdentity` twice, `Bridge` twice, `MessageLifecycle` three times, `InstagramInbox` twice, `InstagramChallenge`, `EitaaSession`, `ContactSync`, `PhoneDestination` for Bale and for Eitaa | `OneContactPerPeer`, `ContactKeepsPeer`, `CopiesExcused`, `NotIntoResolved`, `OwnEditsStayOut`, `NothingForgotten`, `OrderKept`, `LoginsInTurn`, `TokenKept`, `NewLoginStays`, `NamesStay`, `RemovalLeavesMoved`, `AnswersFindPeer` (some 2.1 million states) |
| `ConfirmedDeliveryUnlocked` | Bale, 1 part, every fault | `SentStays` is violated by the reports without the lock |
| `DeliveryQueueClicks` | `DeliveryQueue` without faults, 1 click | `ClickConsumed` is violated |
| `BotPollingSkips` | 2 updates, no fault | `NoneSkipped` is violated |
| `BalePvSessionOutage` | 1 update, 2 database failures | `BatchRetained` is violated |
| `InstagramInboxForgets` | 1 failed login, 1 reconnection | `AtLeastOnce` is violated |
| `ContactSyncHistory` | 1 call of sync-dialogs | `HistoryStaysIn` is violated |

**Modules side by side.** `MCPolling`, `MCEnterprise` and `MCComponents` check several
modules in one run: `side` is chosen at the start and never changes, the module of
that side moves, and the variables of the others keep a fixed value. Variables of
the same name in two modules are one variable of the run. A property of a side is
stated as `side = ... => Module!Property`. The instances do not interact; the
composition of parts that do is in the modules themselves (section 1). The bounds
of each instance are those of its `INSTANCE ... WITH` line. The symmetry sets
permute values that no instance tells apart; where an instance mentions one value
of a set only, no state and its permutation are both reachable.

**Why the bounds are enough.** Two parts are what order, partial delivery and
completion need; a third part is sent by the same loop. Four faults let a
dispatch, its report, the finalization and the process fail in one behaviour, and
two attempts make both the retry and the exhausted budget happen. The theorems of
section 10 remove these bounds for the properties they cover. In `DeliveryQueue` a
message and its deletion are the pair of jobs that act on each other's rows; two
permits let them compete for the lock. In `InboundQueue` three events put one
behind a blocked one of its chat and one beside it, and two faults fail an event
and its retry, or an event and the process. Three updates give `BotPolling` one
that fails between two that do not. Two calls of the panel, a lost connection and
a failure overlap every pair of parties of `BalePvSession`. In the contact and
bridge modules two tasks or two peers are what can be confused, and the events are
one more than it takes to repeat or replace: three ingestions of one message, two
conversations, one or two changes by agents. Two requests and three renewals let one
request renew what the other already has, and a login fall between. Two threads
and three messages, one of them not bridged, order one thread across the other's
failure. Two peers on pages of one contact make the second move up.

**Fairness.** Weak fairness of tasks and loops: the event loop runs every ready
task, each await has a timeout (requests 300 seconds at most), scans and poll
loops run for ever and survive their own errors, the manager looks after its tasks
periodically, a call of the panel that began is carried on, a queued event is
handled again until it succeeds, and backoffs end. Nothing is assumed of customers,
agents, the network (`Accept`, `Refuse`, `Lose`, `Push`, `Drop` are not fair) or
failures; their number is bounded. For `ConfirmedIsShown` the number of faults is
below `MaxAttempts`: with an exhausted budget the code gives up by design. The
loop of `BalePvSession` can die of a failing database (see the findings); the
manager starts another, which is why `Reconnects` holds and `BatchRetained` does
not. In `MCPolling` each fairness conjunct is a disjunction of one action of each
side, which is the fairness of that action since the side stays.

Deadlock is checked for the delivery modules and `DeliveryQueue`. `Polling`,
`Enterprise`, `Components` and the runs of `BalePvSession` and `ContactSync` do stop:
their calls, messages and failures are bounded and nothing runs when they are used
up (a deleted instance, an idle bridge), so there it is not.

**Mutants.** An operator whose comment begins with "Mutant" is what a plausible
mistake would make of the definition below it (a dropped guard, a missing
reset). No specification uses it. `PROJECT.json` pairs each property with one
that breaks it, so that every property is known to be able to fail.

## 10. Proofs

Every theorem holds for every value of the constants that satisfies the named
assumption of its module. `ConstantsAssumption`, `QueueAssumption` and
`PollingAssumption` are assumptions of modules; the components that runs check
through `INSTANCE` define theirs (`ContactAssumption`, `SessionAssumption`, ...) as
an operator, a theorem has it as a hypothesis, and the composition assumes it of
its instances, so TLC evaluates all of them.

### The ledger

`ConfirmedDeliveryProofs`, for every number of parts, attempts, faults and
webhooks, every subset of failures and both platforms:

| theorem | statement |
|---|---|
| `Invariance`, `TypeCorrect` | `Spec => []IInv`, `Spec => []TypeOK` |
| `DeliveredAtMostOnce` | `Spec => []AtMostOnce` |
| `SentMeansDelivered` | `Spec => []SentIsTruthful` |
| `PartsInOrder` | `Spec => []DeliveredInOrder` |
| `NoNoteStays` | `Spec => []NoStaleNote` |
| `UncertaintyIsKept` | `Spec => UncertaintyKept` |
| `CancelledIsSilent` | `Spec => NoSendAfterCancel` |
| `LateErrorsLose` | `ReportsLocked => (Spec => SentStays)` |
| `Refinement` | `Spec => TruthfulSpec` |

`IInv` has five parts. The type invariant. `LedgerInv` sets the ledger against
the platform: a request that may still arrive is in flight; a copy the customer
has is in flight or has a receipt; every receipt and every echo stands for
exactly one copy; behind a part in flight every earlier part has its receipt.
`TaskInv` ties the await of the task to the ledger, above all that an error
classed as "not sent" or "refused" is only reported when nothing in flight can
arrive, which makes clearing the in-flight set safe. `ShownInv`: nobody shows, or
is about to show, an incomplete message as sent. `CancelInv`: no run past its
first check works on a cancelled message. None of the safety properties is
inductive alone: `AtMostOnce` needs to know that a part without receipt and not
in flight has no copy, which needs the whole of `LedgerInv`, which needs
`TaskInv` at the places where the ledger is cleared.

`InvStep` has one step per action. Steps that are alike in what they leave alone
are grouped by lemmas (`FlagsStep`, `CountersStep`, `LedgerReport`, `LedgerEcho`,
`TypeEcho`, `InterruptedKeeps`). The action properties follow from the
invariant and a lemma that names the only actions that touch the variable
(`InflightGrows`, `OnlyDispatchSends`). The refinement maps `Dispatch` to `Offer`,
`Accept` to `Deliver`, `Refuse` and `Lose` to `Withdraw`, the finalizations to
`ShowSent`, the reports to `ShowFailed`, and everything else to a stutter.

`NoStaleNote` needs more than `IInv`: that a note in the conversation is
remembered by its row (`RowInv`), and that a note of a message that is complete is
there only while somebody has the lock to remove it (`NoteInv`).

`ReportsLocked` says that `"offline"` and `"conflict"` are not among the failures.
These are the two reports the code makes without the message lock; with them
`SentStays` is false (`ConfirmedDeliveryUnlocked`, a finding). For all other
failures `LockedInv` holds: who marks or reports a failure does so with an
incomplete ledger, as no confirmation is handled in between.

### The webhook queue

`DeliveryQueueProofs`, for any number of jobs, Retry identifiers, permits,
attempts, clicks and faults:

| theorem | statement |
|---|---|
| `RunsExclude` | `FewConversations => (Spec => []ConversationMutex)` |
| `DeletedStaysDeleted` | `FewConversations => (Spec => []CancelledStaysOut)` |
| `CompletedIsOver` | `Spec => DoneIsFinal` |

`FewConversations` is `Cardinality(Conversations) <= MaxLocks`. The code evicts the
oldest of 1000 locks, held or not; beyond that many conversations exclusion does
not hold, and with it not what the deletion relies on. `MutexInv` is what makes it
inductive: tasks hold the lock object that the dictionary has for their
conversation, a conversation and a lock have one entry, each task that waits or
runs keeps its entry in the dictionary (`LockInv`), and a lock has one holder
(`HolderInv`). That an entry survives needs the counting argument `RoomForOne`: a
list that lacks a conversation is shorter than their number. `CancelInv` adds that
a cancelled job is settled and not running.

### Polling

`PollingProofs` extends `MCPolling`, whose constants are parameters, so that the
theorems say of the composition what the run says of its instance:

| theorem | statement |
|---|---|
| `OffsetPassesSettled` | `Spec => []OnlyOvertaken` |
| `OneSocketEver` | `Spec => []OneSocket` |
| `UpdatesStayKept` | `Spec => []UpdatesKept` |
| `ChatsStayInOrder` | `Spec => []PeerOrder` |
| `NothingStaysSkipped` | `Spec => []NothingSkipped` |

The histories are any set of `PollingAssumption`: events of the three kinds, where a
deletion or a confirmation is of an earlier message.

`MarksInv` (bots): each of the three marks is an update that was settled, or none.

`SesInv` (Bale): a runtime whose starts did not overlap has no stray socket, is being
opened by at most one actor, and has no client and no listener while it is
(`StartsInv`); whoever is in the middle of a call about a runtime has it
(`PlaceInv`); what was received is queued, drained, committed or excused
(`BatchInv`).

`QueueInv` (the durable queue): a live message is before every later one of its chat
in the rows, the batch and the frames in memory, a repeated frame counting where
it came first (`RowsInOrder`, `BatchInOrder`, `InboxInOrder`); what is behind
Eitaa's cursor was queued (`CursorInv`); what the pass has left is queued, and
what is queued before it is in a blocked stream or left as well (`TodoInv`). The
last one is what orders a stale list of rows against the rows as they are.

### Contacts and destinations

`ContactIdentityProofs`, for any set of peers, resolutions, contacts and numbers:
`OneContactEver` (`OneContactPerPeer`), `ContactsKeepPeer` (`ContactKeepsPeer`),
`AnswersFindOwners` and `AnswersFindOnePeer` (the two halves of `AnswersFindPeer`: an
answer goes only to a peer who wrote to the contact, had its number when it was
asked for, or was taken on trust from an old resolution; and all answers of a
contact go to one peer). Neither says that what the contacts or the cache hold is
still true: a number may have moved since it was resolved.

`IdentityInv`: of the live contacts one was created for a peer (`OneCreated`), and no
contact belongs to two peers as a mapping or an alias (`OneOwner`). It rests on the
creation bearing the identifier of the peer it is for, which makes the search that
follows a lost reply find it. `PhoneInv` (`OwnersInv`): whatever holds a peer for a
contact (a row, a delivery under way, an answer that was sent) holds the one the
contact belongs to, and he became its owner by what the histories name.

The same module has the routes that copy an account (`ContactSync`), for any number
of peers, calls, renamings, messages and failures and any size of a page:
`GivenNamesStay` (`NamesStay`) and `RemovalLeavesTheMoved` (`RemovalLeavesMoved`).
`SyncInv`: a synchronization of the contacts that renames began before any had ended,
because the end of each marks the first as done (`NamesInv`); of the contacts a
removal met and has not dealt with, each stands on a page still to come or moved up
behind one that was deleted (`PagesInv`). That the end of a removal, an empty page,
means that nobody is left behind it needs that the contacts' places have no gaps
(`NoGaps`), and that places only get lower behind a deleted contact (`RankStays`).

### The two bridges

`ContactIdentityProofs` ends with `Bridge` and `MessageLifecycle`, which share the
conversations, for any number of messages, answers, parts, conversations, versions,
ingestions and webhooks:

| theorem | what it proves |
|---|---|
| `BridgeCopiesExcused` | of the generic bridge: `CopiesExcused` and `LooksFirst` |
| `LifecycleCopiesExcused` | of the bridge of the adapters, mirrored or not: `CopiesExcused`, `LooksFirst` and `OwnEditStaysOut` |

`CopiesExcused` is a bound on counts: a message has at most one copy more than the
histories excuse. It is not inductive, because the copy that a request makes is
allowed only if the message was not mapped when it was made. `BridgeInv` counts exactly:
the copies of a message in Chatwoot are no more than what the histories name, plus
one when it is mapped or the run has just posted it (`MessagesCounted`), likewise
each part of an answer (`AnswersCounted`); and what is posted at the first attempt has
no mapping in its conversation (`Lookup`), what is being sent was not sent
(`NotYetSent`). A message that is mapped in one conversation and posted to another, or
posted by an attempt that does not search again, is what `moved` counts.

`LifecycleInv` has the same counts for the customer's messages (`PostsCounted`) and for
answers (`SendingsCounted`), and three things besides. Edits and deletions rewrite
mappings, so that a mapping is there must survive them: `SharedInv` says that an answer
lives in one conversation, which every mapping and every webhook of it names
(`Placed`), because a rewritten mapping replaces the ones of its conversation.
`TaskInv` and `RunInv` say of every step of the ingestion and of the webhook run
whether what it works on is mapped. `OwnAccounted` says of an agent's own edit that
comes back from the platform that its text was mapped, or the run that made it is
about to, or a run ended in between. `LifecycleAssumption` has that no customer's
message is an agent's answer: the code tells them apart by the direction the platform
gives.

### Accounts

`AccountsProofs`:

| theorem | statement |
|---|---|
| `LastTokenKept`, `RenewedOnce` | the two halves of `TokenKept`, for any number of requests, renewals, logins and faults |
| `LoginStays` | `NewLoginStays` |
| `OneLoginAtATime`, `NobodyIsShutOut`, `LoginsWaitForPanel` | the three of `LoginsInTurn`, for any requests and challenges: two logins go on together only when let in side by side; `connect` is turned away only while something will let it in again; while the account waits for the panel the poll task logs in at most once, unless let in together with another login |
| `PassedIsSettled` | `NothingForgotten`, for any threads, messages, sessions, failures and restarts |
| `ThreadsStayInOrder` | `OrderKept`, likewise |

*Eitaa.* `InOrder` holds until a renewal begins while the user signs in (`raced`):
the profile is the last login's, the file has the profile or what is about to
replace it (`TokensInv`), one task renews (`OneRenews`) and is tied to what is
pending by its program counter (`TaskInv`), and the server's last token is stored,
pending or in the hands of that task (`LatestInv`).

*Logins.* Unless two calls were let in before either had the lock, one caller, one
thread or one resumption is under way and the state of the challenge says which
(`TurnsInv`); the poll task has tried nothing while it waits for changed
credentials (`TriesInv`).

*Inbox.* `NothingForgotten` speaks of the file. What makes it inductive is said of
every session that can write it: the marks of a session are past only what is
settled (`SessionsInv`), the marks that are staged in the connector's session are
past only what is settled or in the hands of the poll task (`StagedInv`), there is
a batch only while it is delivered (`HandsInv`), and of a message to be delivered
those of its thread before it are settled or to be delivered before (`InLine`, of
the batch and of the retry queue). `OrderKept` follows from `InLine` at the steps
that deliver.

### Live conversations and menus

`EnterprisePartsProofs`, for any messages, conversations, failures, crashes and
settings, from `LiveAssumption` (there may be one conversation, the bound of the
agents is a number):

| theorem | what it proves |
|---|---|
| `LiveConversations` | `LiveSpec`, the machine behind a bare root menu: `RepeatsAreRetries`, `HandedOverOnReturn`, `ResolvedNotReused` |
| `BaleCustomers` | `BaleSpec`: these, and `MenusFitCustomer` |
| `TelegramCustomers` | `TelegramSpec`: these, and `GroupFitsMenu` |

`LiveInv` is what makes them inductive. A message is in one place, a queued webhook or
a row that waits (`PlaceInv`): `RepeatsAreRetries` alone does not say that a message
that was sent is nowhere still to be sent. Of what is in a place none was sent, but
by a task that could not commit, or by the handover that is about to mark the row
(`SentInv`); so a webhook run works for the head of the queue (`RunInv`) and a handover
for rows that are pending (`Handing`). `Steady` follows the conversations that were
resolved when the update was taken: until the handler reopens one they still are,
and from then on the others. `ResolvedNotReused` follows from it at the step that
posts. `BaleMenusInv` and `TelegramMenusInv` say besides from which menus a handler
can be under way and to which it leads, because its `next` is written when it commits.

`ReturnInv` is what `HandedOverOnReturn` needs on top, while every conversation is of
one inbox (`OneBox`, the property's premise). At most one session is not resolved, and
a session is `Front` when a customer's message would find it: nothing waits in it
while he is in the route, and he is not present in it while he is in the menus
(`SessInv`). The handler works on copies that a webhook may have overtaken, so the
invariant says how far: of the committed sessions it has at most one, resolved or left
since it was read at most (`Copy`), unchanged unless its row is locked (`Clean`); and
by its step, that every other session is resolved as the handler sees them (`Others`),
that the session it settled on is open or was resolved behind its back (`Ready`), and
that on entering it has every waiting row of that session in hand (`Ready`, its last
part). The commit before a creation leaves it no copies (`Returning`, its last line),
so all that is known of the sessions then is in the rows, and what is kept for one
that is resolved there is late. A webhook that would add to those rows has changed the row the handler has
locked, and fails (`Kept` and `Blocked`). Two orders matter to it: a commit puts the
handler's session first (`CommitOrders`), and a resolution puts the resolved one first
(`RunWrites`), so that the session found later is the one these facts are about.

### Settings and assets

`EnterprisePartsProofs`: `MarkPassesNothing` and `RepeatsHaveReason` (the two halves
of `SmsMarkHolds`), `OneInboxWithoutRace` (`SecondInboxIsRace`),
`OneCatalogWithItsFile` and `GroupsStayConsistent` (of `AssetsConsistent`); for any number of texts, inboxes, documents, groups and
changes.

`SettingsInv`: the column is written as a whole from copies that may be stale, so the
mark is set against what was tried in *every* copy, that of a run and that of a
creation (`MarkInv`); a text was sent only if the mark, or a run that is still to
move it, is past it (`RepeatInv`); without a race one creation is under way
(`RaceInv`). `AssetsInv`: what is active has its file, and an upload that will
take the file of a catalog takes its activity first (`FilesInv`); what two threads
checked need not hold any more, what they commit does (`GroupsInv`).

### Compositions

`EnterpriseProofs` and `ComponentsProofs` carry these results to the
specifications that the runs check. The definitions of the proofs' instance and of
the composition's instance are shown equal by expansion; a step of the composition
is a step of one side (`Turns`) and leaves the variables of the others alone, so the
conjunction of the components' invariants is invariant (`ProvedInv`).

| theorem | property of the run |
|---|---|
| `MarkHoldsInBoth`, `OneInboxInBoth`, `AssetsStayConsistent` | `SmsMarkHolds`, `SecondInboxIsRace`, `AssetsConsistent` |
| `RepeatsAreRetriesInBoth`, `HandedOverInBoth`, `ResolvedIsReopenedFirst`, `MenusAlwaysFit` | `RepeatsAreRetries`, `HandedOverOnReturn`, `ResolvedNotReused`, `MenusFitCustomer` |
| `OneContactInBoth`, `ContactsStayInBoth`, `AnswersFindTheirPeer` | `OneContactPerPeer`, `ContactKeepsPeer`, `AnswersFindPeer` |
| `TokenStaysKept`, `LoginIsNotUndone`, `LoginsTakeTurns` | `TokenKept`, `NewLoginStays`, `LoginsInTurn` |
| `CopiesHaveExcuses`, `ResolvedStaySo`, `EditsStayOut` | `CopiesExcused`, `NotIntoResolved`, `OwnEditsStayOut` |
| `NamesStayGiven`, `RemovalsLeaveTheMoved` | `NamesStay`, `RemovalLeavesMoved` |
| `PassedIsInChatwoot`, `ThreadsComeInOrder` | `NothingForgotten`, `OrderKept` |

The inductive invariants were checked with TLC on the instances of the runs before
they were proved; they are not listed as properties, which the proofs make
unnecessary.

## 11. Findings, and what is not modelled

Findings, each with a run that shows it:

- **Unlocked reports.** A closed connector (`chatwoot_bridge.py:708`) and a
  contact conflict (`:822`) are reported without `message_lock`. A confirmation
  finalized by the poller between the completeness check and the report is
  overwritten: the bubble of a delivered message turns red.
- **Lost clicks.** The failure report loads the job rows, awaits the search for
  an existing note, and writes its copy of the metadata back
  (`chatwoot_bridge.py:2204`). A Retry identifier consumed by the pending row in
  between is forgotten and its redelivery refills the budget.
- **Skipped updates.** When update *n* of a batch fails and *n+1* succeeds, both
  marks move past *n* (`polling.py:425`), which is never refetched.
- **A batch lost in an outage.** When a drained batch cannot be committed, the loop's
  handler writes the error to the same database (`polling.py:473`); that fails too,
  nothing catches it, and the task ends with the batch that the docstring at line
  790 says is retained.
- **Overwritten watermarks.** Reconnecting or disabling an Instagram account whose
  session has not logged in yet writes that session's start over the file
  (`plugins/instagram/connector.py:419`); messages before it are never fetched.
- **History sent again.** Answers imported with a dialog are posted as outgoing
  messages without a `source_id` (`bridge.py:1546`); their webhook is taken for an
  agent's and the customer gets them a second time.

Behaviours the models have, which no document or comment of the code denies: an
Eitaa part confirmed after its message was deleted is not recalled
(`chatwoot_bridge.py:2839`); a job in backoff is overtaken by later webhooks of its
conversation (`_handler_controller.py:1617`); kept messages that the platform
refuses are marked delivered (`enterprise/bale.py:1821`); and the exceptions named
in sections 6 to 8.

Not modelled:

- *SQLite's shared connection.* The models take sessions as isolated and rows as
  lockable, as in PostgreSQL. The default SQLite engine gives all sessions one
  connection (`infrastructure/persistence/session.py:93`, `StaticPool`), so one
  session's commit also commits what another has flushed; every interleaving of
  every module would change.
- *The commit of a new inbox.* A live customer whose route has no inbox yet gets one
  made first, which commits the settings (`create_route_inbox`, `bale.py:933`,
  `telegram.py:363`). `EnterpriseLive` begins with the route linked; the creations of
  inboxes are `EnterpriseSettings`'.
- *Inside modelled components*: the import of receipts of an older Eitaa format and
  the re-arming of jobs in the middle of a report
  (`confirmed_outbound_delivery.py:427`); the re-arming rule of platforms without
  a ledger; rows of deleted instances; local commands and phone prompts of the
  bots; reactions and attachments as data; identifiers of older releases; group
  members; pictures of contacts; Instagram's answers, which have no ledger, its
  window of twenty threads, and the checkpoints its native client answers by
  itself; the renewal of an Eitaa client that a reconnection replaced; the wire
  formats and their parsers; the texts and keyboards of the Enterprise bots.
- *Components left out*: the shared cache (it saves requests and decides nothing
  here), encryption and key rotation (sequential transformations of data), HTTP
  clients (their outcomes are the failures above), configuration, logging, the
  web panel.

## 12. What is only model-checked

- Liveness under fairness (`ConfirmedIsShown`, `Settles`, `CatchesUp`, `Reconnects`) is
  out of the prover's reach.
- `SentStays` is proved under `ReportsLocked`, the setting of its run. Every other
  safety property of a passing run, state or action property, is a theorem without a
  hypothesis but the modules' assumptions (`FewConversations` for two of the webhook
  queue, where its run has as few).
- The properties of the violation runs, which are false.

## 13. Using it

```
tlc -config DeliveryQueue.cfg MCDeliveryQueue    # a run: its cfg and its module
tlapm ConfirmedDeliveryProofs.tla                # the proofs
```

`PROJECT.json` names the module and the cfg of each run, what every definition
translates, the mutants, the findings, the hazards and the theorems.
