----------------------------- MODULE MCComponents -----------------------------
(***************************************************************************)
(* The contact identities, the destinations of answers, the copying of     *)
(* contacts, the two bridges, the Instagram accounts and the Eitaa session *)
(* for TLC, checked in one run: "side" says which instance of which module *)
(* moves, and what belongs to the others stays as it was initialized.      *)
(***************************************************************************)
EXTENDS Naturals, Sequences, FiniteSets, TLC

CONSTANTS peer1, peer2, peer3, task1, answer1, task2, task3, none

VARIABLES side,
    contacts, requests, mapping, aliases, anchor, task, admin,
    convs, reopen, rows, active, spent,
    heard, posts, maps, t, w, runs, lost, spoiled,
    answer, status, shown, moved, hooks, sent, mapped,
    produced, file, rts, enabled, registered, running, pc, rt, why,
    batch, queue, got, dropped, calls,
    s, lock, at, flow, event, signals, edited, tries, turns,
    issued, profile, disk, pending, loginRequired, refreshPending, backoff,
    ren, req, login, logins, gone,
    cur, faults, raced,
    bale, contact, synced, complete, told,
    owner, number, born, cache, conv, wrote, had, trusted,
    job

\* Two peers with one number; two resolutions of one peer.
Two == INSTANCE ContactIdentity WITH Peers <- {peer1, peer2}, Resolvers <- {task1},
           MaxContacts <- 3, MaxAdmin <- 1
One == INSTANCE ContactIdentity WITH Peers <- {peer3}, Resolvers <- {task2, task3},
           MaxContacts <- 2, MaxAdmin <- 1

\* Repeated messages of a customer; two answers to it sent side by side.
Intake == INSTANCE Bridge WITH Msgs <- {peer1}, Answers <- {}, MaxParts <- 1, MaxConvs <- 2,
              MaxAgent <- 2, MaxIngests <- 3, MaxWebhooks <- 0
Answer == INSTANCE Bridge WITH Msgs <- {peer1}, Answers <- {answer1}, MaxParts <- 2, MaxConvs <- 2,
              MaxAgent <- 0, MaxIngests <- 1, MaxWebhooks <- 2

\* Repeated messages; mirrored changes; answers sent without confirmation.
Repeats == INSTANCE MessageLifecycle WITH Msgs <- {peer1}, Answers <- {}, Mirrors <- TRUE,
               MaxText <- 2, MaxConvs <- 2, MaxAgent <- 2, MaxIngests <- 3, MaxWebhooks <- 1
Mirror == INSTANCE MessageLifecycle WITH Msgs <- {}, Answers <- {answer1}, Mirrors <- TRUE,
              MaxText <- 3, MaxConvs <- 1, MaxAgent <- 0, MaxIngests <- 1, MaxWebhooks <- 3
Unconfirmed == INSTANCE MessageLifecycle WITH Msgs <- {}, Answers <- {answer1}, Mirrors <- FALSE,
                   MaxText <- 1, MaxConvs <- 2, MaxAgent <- 2, MaxIngests <- 1, MaxWebhooks <- 2

\* One thread, and whatever fails; two threads, an item that is not bridged.
Account == INSTANCE InstagramInbox WITH ThreadOf <- <<peer1, peer1>>, Silent <- {},
               Faults <- {"login", "session", "delivery", "report", "file", "restart"},
               MaxRuntimes <- 2, MaxCalls <- 2, MaxFaults <- 1
Threads == INSTANCE InstagramInbox WITH ThreadOf <- <<peer1, peer2, peer1>>, Silent <- {2},
               Faults <- {"login", "session", "delivery", "report", "file", "restart"},
               MaxRuntimes <- 2, MaxCalls <- 0, MaxFaults <- 2
Challenge == INSTANCE InstagramChallenge WITH Requests <- {task2, task3}, MaxFlows <- 2, MaxTurns <- 4

\* Two requests that meet an expired token, and a login with a code.
Eitaa == INSTANCE EitaaSession WITH Requests <- {task2, task3}, MaxRenewals <- 2,
             MaxTasks <- 3, MaxLogins <- 1, MaxFaults <- 3

\* Two calls of the panel, an agent, and a page of one contact.
Sync == INSTANCE ContactSync WITH NumPeers <- 2, PageSize <- 1, Calls <- {task2, task3},
            MaxCalls <- 2, MaxHand <- 1, MaxEvents <- 1, MaxFaults <- 1

\* A number that moves between two accounts and three contacts; without a memory
\* of what it was.
BaleNumbers == INSTANCE PhoneDestination WITH Peers <- {peer1, peer2},
                   Contacts <- {task1, task2, task3}, Numbers <- {"number"}, None <- none,
                   Remembers <- TRUE, MaxMoves <- 2, MaxEdits <- 2, MaxAnswers <- 2, MaxEvents <- 1
EitaaNumbers == INSTANCE PhoneDestination WITH Peers <- {peer1, peer2},
                   Contacts <- {task1, task2}, Numbers <- {"number"}, None <- none,
                   Remembers <- FALSE, MaxMoves <- 1, MaxEdits <- 2, MaxAnswers <- 2, MaxEvents <- 1

ASSUME ComponentsAssumption ==
    /\ Two!ContactAssumption /\ One!ContactAssumption
    /\ Intake!BridgeAssumption /\ Answer!BridgeAssumption
    /\ Repeats!LifecycleAssumption /\ Mirror!LifecycleAssumption
    /\ Unconfirmed!LifecycleAssumption
    /\ Account!InboxAssumption /\ Threads!InboxAssumption
    /\ Challenge!ChallengeAssumption /\ Eitaa!SessionAssumption
    /\ Sync!SyncAssumption
    /\ BaleNumbers!PhoneAssumption /\ EitaaNumbers!PhoneAssumption

peerVars == <<contacts, requests, mapping, aliases, anchor, task, admin>>
mappingVars == <<convs, reopen, rows, active, spent>>
bothVars == <<heard, posts, maps, t, w, runs, lost, spoiled>>
bridgeVars == <<answer, status, shown, moved>>
lifecycleVars == <<hooks, sent, mapped>>
bridges == <<mappingVars, bothVars, bridgeVars, lifecycleVars>>
inboxVars == <<produced, file, rts, enabled, registered, running, pc, rt, why,
               batch, queue, got, dropped, calls>>
challengeVars == <<s, lock, at, flow, event, signals, edited, tries, turns>>
eitaaVars == <<issued, profile, disk, pending, loginRequired, refreshPending, backoff,
               ren, req, login, logins, gone>>
sharedVars == <<cur, faults, raced>>
accounts == <<inboxVars, challengeVars, eitaaVars, sharedVars>>
syncVars == <<bale, contact, synced, complete, told>>
phoneVars == <<owner, number, born, cache, conv, wrote, had, trusted>>
routing == <<syncVars, phoneVars, job>>
vars == <<side, peerVars, bridges, accounts, routing>>

NoPeers ==
    /\ contacts = <<>> /\ requests = {} /\ mapping = <<>> /\ aliases = {}
    /\ anchor = <<>> /\ task = <<>> /\ admin = 0
NoMapping == reopen = FALSE /\ rows = {} /\ active = {} /\ spent = 0
NoBridge == answer = <<>> /\ status = <<>> /\ shown = <<>> /\ moved = <<>>
NoLifecycle == hooks = {} /\ sent = <<>> /\ mapped = {}
NoBoth ==
    /\ heard = {} /\ posts = <<>> /\ maps = {} /\ t = 0 /\ w = 0 /\ runs = 0
    /\ lost = <<>> /\ spoiled = <<>>
NoInbox ==
    /\ produced = 0 /\ file = 0 /\ rts = <<>> /\ enabled = FALSE /\ registered = FALSE
    /\ running = FALSE /\ pc = <<>> /\ rt = <<>> /\ why = <<>> /\ batch = <<>> /\ queue = <<>>
    /\ got = <<>> /\ dropped = {} /\ calls = 0
NoChallenge ==
    /\ s = <<>> /\ lock = "free" /\ at = <<>> /\ flow = <<>> /\ event = <<>> /\ signals = {}
    /\ edited = FALSE /\ tries = 0 /\ turns = 0
NoEitaa ==
    /\ issued = <<>> /\ profile = <<>> /\ disk = <<>> /\ pending = <<>>
    /\ loginRequired = FALSE /\ refreshPending = FALSE /\ backoff = FALSE
    /\ ren = <<>> /\ req = <<>> /\ login = "idle" /\ logins = 0 /\ gone = {}
NoAccounts == NoInbox /\ NoChallenge /\ NoEitaa /\ cur = 0 /\ faults = 0 /\ raced = FALSE
NoBridges == NoMapping /\ NoBoth /\ NoBridge /\ NoLifecycle
NoSync == bale = <<>> /\ contact = <<>> /\ synced = FALSE /\ complete = FALSE /\ told = <<>>
NoPhones ==
    /\ owner = <<>> /\ number = <<>> /\ born = {} /\ cache = <<>> /\ conv = <<>>
    /\ wrote = {} /\ had = {} /\ trusted = {}
NoRouting == NoSync /\ NoPhones /\ job = <<>>
NoMessages == NoPeers /\ NoBridges /\ convs = <<>>

Init ==
    \/ /\ \/ side = "two" /\ Two!IdentityInit
          \/ side = "one" /\ One!IdentityInit
       /\ NoBridges /\ NoAccounts /\ NoRouting
    \/ /\ \/ side = "intake" /\ Intake!BridgeInit
          \/ side = "answer" /\ Answer!BridgeInit
       /\ NoPeers /\ NoLifecycle /\ NoAccounts /\ NoRouting
    \/ /\ \/ side = "repeats" /\ Repeats!LifecycleInit
          \/ side = "mirror" /\ Mirror!LifecycleInit
          \/ side = "unconfirmed" /\ Unconfirmed!LifecycleInit
       /\ NoPeers /\ NoBridge /\ NoAccounts /\ NoRouting
    \/ /\ \/ side = "account" /\ Account!InboxInit
          \/ side = "threads" /\ Threads!InboxInit
       /\ NoMessages /\ NoChallenge /\ NoEitaa /\ raced = FALSE /\ NoRouting
    \/ /\ side = "challenge" /\ Challenge!ChallengeInit
       /\ NoMessages /\ NoInbox /\ NoEitaa /\ cur = 0 /\ faults = 0 /\ NoRouting
    \/ /\ side = "eitaa" /\ Eitaa!EitaaInit
       /\ NoMessages /\ NoInbox /\ NoChallenge /\ NoRouting
    \/ /\ side = "sync" /\ Sync!SyncInit
       /\ NoPeers /\ convs = <<>> /\ reopen = FALSE /\ rows = {} /\ active = {}
       /\ NoBoth /\ NoBridge /\ sent = <<>> /\ mapped = {} /\ NoInbox /\ NoEitaa /\ NoPhones
       /\ s = <<>> /\ lock = "free" /\ at = <<>> /\ flow = <<>> /\ signals = {}
       /\ edited = FALSE /\ tries = 0 /\ turns = 0 /\ cur = 0 /\ faults = 0 /\ raced = FALSE
    \/ /\ \/ side = "bale numbers" /\ BaleNumbers!PhoneInit
          \/ side = "eitaa numbers" /\ EitaaNumbers!PhoneInit
       /\ contacts = <<>> /\ requests = {} /\ anchor = <<>> /\ task = <<>> /\ admin = 0
       /\ convs = <<>> /\ reopen = FALSE /\ rows = {} /\ active = {}
       /\ NoBoth /\ NoBridge /\ hooks = {} /\ mapped = {} /\ NoAccounts /\ NoSync

InContacts ==
    /\ \/ side = "two" /\ Two!IdentityNext
       \/ side = "one" /\ One!IdentityNext
    /\ UNCHANGED <<side, reopen, rows, active, spent, bothVars, bridgeVars, lifecycleVars,
                   accounts, routing>>
InBridge ==
    /\ \/ side = "intake" /\ Intake!BridgeNext
       \/ side = "answer" /\ Answer!BridgeNext
    /\ UNCHANGED <<side, peerVars, lifecycleVars, accounts, routing>>
InLifecycle ==
    /\ \/ side = "repeats" /\ Repeats!LifecycleNext
       \/ side = "mirror" /\ Mirror!LifecycleNext
       \/ side = "unconfirmed" /\ Unconfirmed!LifecycleNext
    /\ UNCHANGED <<side, peerVars, bridgeVars, accounts, routing>>
InInstagram ==
    \/ /\ \/ side = "account" /\ Account!InboxNext
          \/ side = "threads" /\ Threads!InboxNext
       /\ UNCHANGED <<side, peerVars, bridges, challengeVars, eitaaVars, raced, routing>>
    \/ /\ side = "challenge" /\ Challenge!ChallengeNext
       /\ UNCHANGED <<side, peerVars, bridges, inboxVars, eitaaVars, cur, faults, routing>>
InEitaa ==
    /\ side = "eitaa" /\ Eitaa!EitaaNext
    /\ UNCHANGED <<side, peerVars, bridges, inboxVars, challengeVars, routing>>
InSync ==
    /\ side = "sync" /\ Sync!SyncNext
    /\ UNCHANGED <<side, peerVars, convs, reopen, rows, active, bothVars, bridgeVars, sent, mapped,
                   inboxVars, s, lock, at, flow, signals, edited, tries, turns, eitaaVars,
                   sharedVars, phoneVars>>
InPhones ==
    /\ \/ side = "bale numbers" /\ BaleNumbers!PhoneNext
       \/ side = "eitaa numbers" /\ EitaaNumbers!PhoneNext
    /\ UNCHANGED <<side, contacts, requests, anchor, task, admin, convs, reopen, rows, active,
                   bothVars, bridgeVars, hooks, mapped, accounts, syncVars>>

Next ==
    InContacts \/ InBridge \/ InLifecycle \/ InInstagram \/ InEitaa \/ InSync \/ InPhones

Spec == Init /\ [][Next]_vars

\* However replies are lost or late and resolutions overlap, no peer has two
\* contacts in Chatwoot that the bridge created (contact_identity.py).
OneContactPerPeer ==
    /\ side = "two" => Two!OneContactPerPeer
    /\ side = "one" => One!OneContactPerPeer

\* A contact stays its peer's while it is there (contact_identity.py).
ContactKeepsPeer == [][(side = "two" => Two!KeepsPeer) /\ (side = "one" => One!KeepsPeer)]_vars

\* A message is copied only by a run that ended between the request and the
\* mapping, and in bridge.py also by a change of conversation.
CopiesExcused ==
    /\ side = "intake" => Intake!CopiesExcused
    /\ side = "answer" => Answer!CopiesExcused
    /\ side = "repeats" => Repeats!CopiesExcused
    /\ side = "unconfirmed" => Unconfirmed!CopiesExcused

\* Neither bridge puts a message into a conversation it saw resolved.
NotIntoResolved ==
    [][(side = "intake" => Intake!LooksFirst) /\ (side = "repeats" => Repeats!LooksFirst)]_vars

\* An agent's own edit is not shown to agents as the customer's, but for
\* races (chatwoot_bridge.py, _handle_chatwoot_message_updated).
OwnEditsStayOut == [][side = "mirror" => Mirror!OwnEditStaysOut]_vars

\* What the watermark file of an Instagram account is past is in Chatwoot, but
\* for the named losses (polling_service.py, connector.py).
NothingForgotten ==
    /\ side = "account" => Account!NothingForgotten
    /\ side = "threads" => Threads!NothingForgotten

\* The messages of an Instagram thread come to Chatwoot in their order.
OrderKept ==
    [][(side = "account" => Account!InOrder) /\ (side = "threads" => Threads!InOrder)]_vars

\* Logins of an Instagram account do not overlap, but for two that were let in
\* side by side; a challenge shuts connect out only while something will let it
\* in again; and the poll task does not log in again and again while the account
\* waits for the panel (connector.py, connect and start_challenge).
LoginsInTurn ==
    side = "challenge" => Challenge!OneLogin /\ Challenge!ShutOutByFlow /\ Challenge!LoginsWait

\* The token an Eitaa session was given last is not lost, and one that was
\* renewed is not renewed again (session_client.py).
TokenKept == side = "eitaa" => Eitaa!TokenKept /\ Eitaa!AskedOnce

\* A renewal of the session before does not undo a login with a code.
NewLoginStays == side = "eitaa" => Eitaa!NewLoginStays

\* A name that an agent gave stays, and none is replaced by a made-up one, but
\* for the named cases (chatwoot_bridge.py, bridge.py, workflows.py).
NamesStay == [][side = "sync" => Sync!NamesStay]_vars

\* A removal of the account's contacts that ends without an error leaves none
\* but those that moved up a page (bridge.py).
RemovalLeavesMoved == [][side = "sync" => Sync!RemovalLeavesMoved]_vars

\* An answer goes to a peer of the contact it is written to, and a contact's
\* answers all go to one peer, however its number moves (chatwoot_bridge.py).
AnswersFindPeer ==
    /\ side = "bale numbers" => BaleNumbers!OnlyToOwners /\ BaleNumbers!OnePeerPerContact
    /\ side = "eitaa numbers" => EitaaNumbers!OnlyToOwners /\ EitaaNumbers!OnePeerPerContact

Symmetry == Permutations({peer1, peer2}) \union Permutations({task2, task3})
=============================================================================
