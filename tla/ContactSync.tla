----------------------------- MODULE ContactSync ------------------------------
(***************************************************************************)
(* The panel's routes that copy a Bale account into Chatwoot and clear it  *)
(* out again (application/messaging/workflows.py and, in bridge.py, the    *)
(* contact, name, history and removal functions), next to the messages     *)
(* that make contacts (chatwoot_bridge.py) and the agents who rename them. *)
(* Each call is a task; what runs between two awaits is one step.          *)
(*                                                                         *)
(* Chatwoot is external: it lists contacts in a fixed order, a page at a   *)
(* time, and sends a webhook for every outgoing message, those posted      *)
(* through its API too.  The identity of a contact is ContactIdentity's    *)
(* matter; here a peer has one contact or none, and every peer is one of   *)
(* the account's contacts in Bale.  Left out: pictures, numbers, the cache *)
(* of looks at names, the counts reported to the panel, and dry runs.      *)
(***************************************************************************)
EXTENDS Naturals, FiniteSets

CONSTANTS
    NumPeers,      \* in the order of Chatwoot's lists
    PageSize,      \* contacts on a page of a search
    Calls,         \* calls of the routes that can be under way at once
    MaxCalls,      \* bound: calls
    MaxHand,       \* bound: names given by agents and by Bale's users
    MaxEvents,     \* bound: messages that look the contact up
    MaxFaults      \* bound: requests that fail

\* What the constants have to be; the module that gives them values assumes it.
SyncAssumption ==
    /\ NumPeers \in Nat \ {0} /\ PageSize \in Nat \ {0}
    /\ MaxCalls \in Nat /\ MaxHand \in Nat /\ MaxEvents \in Nat /\ MaxFaults \in Nat

VARIABLES
    bale,        \* Bale: the name a peer shows, "" for none
    contact,     \* Chatwoot: the name of the peer's contact, "none" without one
    synced,      \* runtime state: contacts_first_synced_at is set
    complete,    \* history: a first synchronization has ended
    job,         \* the calls
    event,       \* a message's look at the contact
    hooks,       \* webhooks of imported answers on their way
    told,        \* Bale: how often a peer has got the answer given in Bale
    spent        \* bounds: calls, renamings, messages, failures

syncVars == <<bale, contact, synced, complete, job, event, hooks, told, spent>>
remoteVars == <<bale, hooks, told>>

Peers == 1..NumPeers
There == {p \in Peers : contact[p] # "none"}

\* Names are what is made of the shown one, "generic" ("Bale User 7"),
\* "fallback" ("(user) 7"), or an agent's, "agent".
IsGeneric(name) == name = "generic"

NoCall == [pc |-> "idle", kind |-> "none", renames |-> FALSE, early |-> FALSE,
           names |-> <<>>, p |-> 0, read |-> "none", page |-> 0, left |-> {},
           gone |-> {}, whole |-> {}]
NoLook == [pc |-> "idle", p |-> 0, name |-> "none", read |-> "none"]

Spend(what) == /\ spent[what] > 0
               /\ spent' = [spent EXCEPT ![what] = @ - 1]
Set(r, j) == job' = [job EXCEPT ![r] = j]
At(r, pc) == job[r].pc = pc

SyncInit ==
    /\ bale \in [Peers -> {"", "first"}] /\ contact = [p \in Peers |-> "none"]
    /\ synced = FALSE /\ complete = FALSE
    /\ job = [r \in Calls |-> NoCall] /\ event = NoLook
    /\ hooks = {} /\ told = [p \in Peers |-> 1]
    /\ spent = [calls |-> MaxCalls, hand |-> MaxHand, events |-> MaxEvents, faults |-> MaxFaults]

-------------------------------------------------------------------------------
(* A call begins: the flag is read before the account is asked.            *)

\* sync-contacts, sync-dialogs and remove-chatwoot-contacts.
Routes == {"contacts", "dialogs", "remove"}

Begins(r) ==
    /\ At(r, "idle") /\ Spend("calls")
    /\ \E kind \in Routes :
          Set(r, [NoCall EXCEPT !.pc = "fetch", !.kind = kind, !.early = ~complete,
                                !.renames = kind = "dialogs" \/ (kind = "contacts" /\ ~synced)])
    /\ UNCHANGED <<remoteVars, contact, synced, complete, event>>

\* get_contacts: a contact without a name gets the generic one.
Listed == [p \in Peers |-> IF bale[p] = "" THEN "generic" ELSE bale[p]]

\* sync_bale_dialogs: the label in front makes any name look like one.
Labelled == [p \in Peers |-> IF bale[p] = "" THEN "fallback" ELSE bale[p]]

Fetched(r) ==
    /\ At(r, "fetch")
    /\ Set(r, CASE job[r].kind = "contacts" -> [job[r] EXCEPT !.pc = "resolve", !.p = 1, !.names = Listed]
                [] job[r].kind = "dialogs" -> [job[r] EXCEPT !.pc = "resolve", !.p = 1, !.names = Labelled]
                [] job[r].kind = "remove" -> [job[r] EXCEPT !.pc = "search", !.page = 1, !.whole = There])
    /\ UNCHANGED <<remoteVars, contact, synced, complete, event, spent>>

\* The users of the dialogs could not be loaded: nobody has a name.
FetchedNameless(r) ==
    /\ At(r, "fetch") /\ job[r].kind = "dialogs" /\ Spend("faults")
    /\ Set(r, [job[r] EXCEPT !.pc = "resolve", !.p = 1, !.names = [p \in Peers |-> "fallback"]])
    /\ UNCHANGED <<remoteVars, contact, synced, complete, event>>

FetchFails(r) ==
    /\ At(r, "fetch") /\ Spend("faults")
    /\ Set(r, NoCall)
    /\ UNCHANGED <<remoteVars, contact, synced, complete, event>>

-------------------------------------------------------------------------------
(* _get_or_create_contact, for one peer after the other.                   *)

\* Mutant: the mark is forgotten.
EndUnmarked(r) == UNCHANGED synced

\* The last contact: a first synchronization is marked as done, whatever
\* failed in it.
EndMarks(r) == synced' = (synced \/ (job[r].kind = "contacts" /\ job[r].renames))

\* On to the next peer, or the end.
NextPeer(r, j) ==
    IF job[r].p < NumPeers
    THEN /\ Set(r, [j EXCEPT !.pc = "resolve", !.p = job[r].p + 1, !.read = "none"])
         /\ UNCHANGED <<synced, complete>>
    ELSE /\ Set(r, NoCall) /\ EndMarks(r)
         /\ complete' = (complete \/ job[r].kind = "contacts")

\* What follows a peer's contact: its history, if it has a dialog.
AfterContact(r) ==
    IF job[r].kind = "dialogs"
    THEN Set(r, [job[r] EXCEPT !.pc = "import"]) /\ UNCHANGED <<synced, complete>>
    ELSE NextPeer(r, job[r])

Resolved(r) ==
    LET p == job[r].p IN
    /\ At(r, "resolve")
    /\ \/ /\ contact[p] = "none"
          /\ contact' = [contact EXCEPT ![p] = job[r].names[p]]
          /\ AfterContact(r)
       \/ /\ contact[p] # "none"
          /\ Set(r, [job[r] EXCEPT !.pc = "read"])
          /\ UNCHANGED <<contact, synced, complete>>
    /\ UNCHANGED <<remoteVars, event, spent>>

\* _sync_contact_name_if_needed decides on the name it was sent ...
Renames(r, current) ==
    LET new == job[r].names[job[r].p]
    IN job[r].renames /\ new # current /\ ~IsGeneric(new)

ContactRead(r) ==
    LET current == contact[job[r].p] IN
    /\ At(r, "read")
    /\ CASE current = "none" -> NextPeer(r, job[r])      \* the request fails
         [] current # "none" /\ Renames(r, current) ->
               /\ Set(r, [job[r] EXCEPT !.pc = "rename", !.read = current])
               /\ UNCHANGED <<synced, complete>>
         [] OTHER -> AfterContact(r)
    /\ UNCHANGED <<remoteVars, contact, event, spent>>

\* ... and a failure to write it is only logged.
Written(p, name) ==
    contact' = IF contact[p] = "none" THEN contact ELSE [contact EXCEPT ![p] = name]

ContactRenamed(r) ==
    /\ At(r, "rename")
    /\ Written(job[r].p, job[r].names[job[r].p])
    /\ AfterContact(r)
    /\ UNCHANGED <<remoteVars, event, spent>>

\* An error of any request for a peer leaves the others to come.
PeerFails(r) ==
    /\ job[r].pc \in {"resolve", "read", "import"} /\ Spend("faults")
    /\ NextPeer(r, job[r])
    /\ UNCHANGED <<remoteVars, contact, event>>

\* _import_historical_message posts the answer given in Bale as an outgoing
\* message without a source_id; Chatwoot sends its webhook.
Imported(r) ==
    /\ At(r, "import")
    /\ hooks' \in {hooks, hooks \union {job[r].p}}      \* or there is none
    /\ NextPeer(r, job[r])
    /\ UNCHANGED <<bale, told, contact, event, spent>>

\* handle_chatwoot_webhook knows its own posts by their source_id: this one
\* goes to the peer of the contact.
HookHandled ==
    /\ \E p \in hooks :
          /\ hooks' = hooks \ {p}
          /\ told' = IF contact[p] = "none" THEN told ELSE [told EXCEPT ![p] = @ + 1]
    /\ UNCHANGED <<bale, contact, synced, complete, job, event, spent>>

-------------------------------------------------------------------------------
(* remove_bale_pv_contacts_from_chatwoot.                                  *)

\* A contact's place in Chatwoot's list, and the contacts of a page.
Rank(p) == Cardinality({q \in There : q <= p})
Page(n) == {p \in There : Rank(p) \in (n - 1) * PageSize + 1 .. n * PageSize}

\* Mutant: pages are counted from nought.
SearchedFromNought(r) ==
    /\ At(r, "search")
    /\ Set(r, IF Page(job[r].page + 1) = {} THEN NoCall
              ELSE [job[r] EXCEPT !.pc = "delete", !.left = Page(job[r].page + 1)])
    /\ UNCHANGED <<remoteVars, contact, synced, complete, event, spent>>

\* An empty page ends the call.
Searched(r) ==
    /\ At(r, "search")
    /\ Set(r, IF Page(job[r].page) = {} THEN NoCall
              ELSE [job[r] EXCEPT !.pc = "delete", !.left = Page(job[r].page)])
    /\ UNCHANGED <<remoteVars, contact, synced, complete, event, spent>>

\* The next page is asked for by its number, although the contacts moved up.
First(S) == CHOOSE p \in S : \A q \in S : p <= q
NextOnPage(j) ==
    LET rest == j.left \ {First(j.left)} IN
    IF rest = {} THEN [j EXCEPT !.pc = "search", !.left = {}, !.page = @ + 1]
    ELSE [j EXCEPT !.left = rest]

\* A contact is deleted; one that is gone counts as deleted.
Deleted(r) ==
    LET c == First(job[r].left)
        next == NextOnPage(job[r])
    IN /\ At(r, "delete")
       /\ contact' = [contact EXCEPT ![c] = "none"]
       /\ job' = [o \in Calls |->
             LET j == IF o = r THEN next ELSE job[o]
             IN IF j.page = 0 THEN j
                ELSE [j EXCEPT !.gone = @ \union {c}, !.whole = @ \ {c}]]
       /\ UNCHANGED <<remoteVars, synced, complete, event, spent>>

DeleteFails(r) ==
    /\ At(r, "delete") /\ Spend("faults")
    /\ Set(r, [NextOnPage(job[r]) EXCEPT !.whole = @ \ {First(job[r].left)}])
    /\ UNCHANGED <<remoteVars, contact, synced, complete, event>>

SearchFails(r) ==
    /\ At(r, "search") /\ Spend("faults")
    /\ Set(r, NoCall)
    /\ UNCHANGED <<remoteVars, contact, synced, complete, event>>

-------------------------------------------------------------------------------
(* A message of the peer: ingest_platform_event of chatwoot_bridge.py      *)
(* replaces a generic name, and looks before it does.                      *)

Looks ==
    /\ event.pc = "idle" /\ Spend("events")
    /\ \E p \in Peers :
          IF contact[p] = "none"
          THEN /\ contact' = [contact EXCEPT ![p] = IF bale[p] = "" THEN "generic" ELSE bale[p]]
               /\ UNCHANGED event
          ELSE /\ bale[p] # ""
               /\ event' = [pc |-> "look", p |-> p, name |-> bale[p], read |-> "none"]
               /\ UNCHANGED contact
    /\ UNCHANGED <<remoteVars, synced, complete, job>>

Looked ==
    /\ event.pc = "look"
    /\ event' = IF IsGeneric(contact[event.p])
                THEN [event EXCEPT !.pc = "write", !.read = contact[event.p]] ELSE NoLook
    /\ UNCHANGED <<remoteVars, contact, synced, complete, job, spent>>

Repaired ==
    /\ event.pc = "write"
    /\ Written(event.p, event.name)
    /\ event' = NoLook
    /\ UNCHANGED <<remoteVars, synced, complete, job, spent>>

\* An agent gives a contact a name; a user of Bale shows another one.
AgentNames(p) ==
    /\ contact[p] # "none" /\ Spend("hand")
    /\ contact' = [contact EXCEPT ![p] = "agent"]
    /\ UNCHANGED <<remoteVars, synced, complete, job, event>>
ShowsAnother(p) ==
    /\ bale[p] # "second" /\ Spend("hand")
    /\ bale' = [bale EXCEPT ![p] = "second"]
    /\ UNCHANGED <<hooks, told, contact, synced, complete, job, event>>

-------------------------------------------------------------------------------
Call(r) ==
    \/ Begins(r) \/ Fetched(r) \/ FetchedNameless(r) \/ FetchFails(r)
    \/ Resolved(r) \/ ContactRead(r) \/ ContactRenamed(r) \/ PeerFails(r) \/ Imported(r)
    \/ Searched(r) \/ Deleted(r) \/ DeleteFails(r) \/ SearchFails(r)

SyncNext ==
    \/ \E r \in Calls : Call(r)
    \/ HookHandled \/ Looks \/ Looked \/ Repaired
    \/ \E p \in Peers : AgentNames(p) \/ ShowsAnother(p)

SyncSpec == SyncInit /\ [][SyncNext]_syncVars

-------------------------------------------------------------------------------
\* The name an agent gave stays, but for a synchronization of the dialogs, one
\* of the contacts that began before the first had ended, or a name that was
\* written on a look at the one before.  And no name is replaced by one made up
\* from the number, but where the dialogs showed none.
NamesStay ==
    \A p \in Peers :
        /\ contact[p] = "agent" /\ contact'[p] \notin {"agent", "none"} =>
              \/ \E r \in Calls : /\ At(r, "rename") /\ job[r].p = p
                                  /\ \/ job[r].kind = "dialogs" \/ job[r].early
                                     \/ job[r].read # "agent"
              \/ event.pc = "write" /\ event.p = p
        /\ contact'[p] # contact[p] /\ contact'[p] \in {"generic", "fallback"} =>
              \/ contact[p] = "none"
              \/ contact'[p] = "fallback" /\ \E r \in Calls : At(r, "rename") /\ job[r].kind = "dialogs"

\* When a removal ends that met no failure, what is left of the contacts that
\* were there stood behind others it had deleted, and moved up a page.
RemovalLeavesMoved ==
    \A r \in Calls :
        At(r, "search") /\ job'[r] = NoCall /\ spent' = spent =>
            \A p \in job[r].whole \intersect There : \E q \in job[r].gone : q < p

\* "Import Bale dialogs, conversations, and optional historical messages": a
\* message that is imported is not sent to the customer again.
HistoryStaysIn == \A p \in Peers : told[p] = 1
===============================================================================
