---------------------------- MODULE ContactIdentity ----------------------------
(***************************************************************************)
(* Which Chatwoot contact stands for a peer of the platform                *)
(* (application/messaging/contact_identity.py and the contact mapping      *)
(* repository).  Resolutions are tasks of one event loop: what runs        *)
(* between two awaits is one step, and any await may end in an error,      *)
(* which ends the task and rolls back what it has not committed.           *)
(*                                                                         *)
(* A creation is anchored: a committed row whose identifier is the new     *)
(* contact's source_id, unique in Chatwoot's inbox, so that a request      *)
(* whose reply was lost can be found again, also when Chatwoot commits it  *)
(* only after the client has given up.                                     *)
(*                                                                         *)
(* All peers share one telephone number, the case in which they could be   *)
(* taken for each other; a message may or may not carry it.  The search    *)
(* for the identifiers of older releases is left out.                      *)
(***************************************************************************)
EXTENDS Naturals, Sequences

CONSTANTS
    Peers,
    Resolvers,      \* resolutions that can be under way at once
    MaxContacts,    \* bound: contacts Chatwoot creates
    MaxAdmin        \* bound: contacts deleted or given the number by hand

\* What the constants have to be; the module that gives them values assumes it.
ContactAssumption ==
    /\ MaxContacts \in Nat \ {0} /\ MaxAdmin \in Nat
    /\ "agent" \notin Peers    \* stands for whoever creates a contact by hand

VARIABLES
    contacts,    \* Chatwoot: [live, phone, by: the peer of its source_id]
    requests,    \* creations sent to Chatwoot and not yet dealt with
    mapping,     \* contact_mappings: the contact of a peer, 0 for none
    aliases,     \* contact_aliases: <<contact, peer>>
    anchor,      \* contact_creations: made, and the contact recorded
    convs,       \* contacts in the peer's conversation rows
    task,        \* the resolutions
    admin        \* bound

identityVars == <<contacts, requests, mapping, aliases, anchor, convs, task, admin>>
rowVars == <<mapping, aliases, anchor, convs>>
remoteVars == <<contacts, requests, admin>>

Idle == [pc |-> "idle", p |-> "none", phone |-> FALSE, c |-> 0,
         row |-> TRUE, missing |-> {}, left |-> {}, reply |-> 0]

Live(c) == c \in DOMAIN contacts /\ contacts[c].live
WithNumber == {c \in DOMAIN contacts : contacts[c].live /\ contacts[c].phone}
CreatedFor(p) == {c \in DOMAIN contacts : contacts[c].live /\ contacts[c].by = p}

\* unique_platform_id_for_chatwoot.
Owners(c) == {p \in Peers : mapping[p] = c \/ <<c, p>> \in aliases}

IdentityInit ==
    /\ contacts = <<>> /\ requests = {}
    /\ mapping = [p \in Peers |-> 0] /\ aliases = {}
    /\ anchor = [p \in Peers |-> [made |-> FALSE, c |-> 0]]
    /\ convs = [p \in Peers |-> {}]
    /\ task = [r \in Resolvers |-> Idle]
    /\ admin = 0

At(r, pc) == task[r].pc = pc
Goto(r, t) == task' = [task EXCEPT ![r] = t]

----------------------------------------------------------------------------
(* The steps of resolve between its requests.                              *)

\* From the conversation rows on: the next one not known to be missing.
NextCandidate(t, left) ==
    LET rest == left \ t.missing
    IN IF rest = {} THEN {[t EXCEPT !.pc = "reserve", !.left = {}, !.c = 0]}
       ELSE {[t EXCEPT !.pc = "candidate", !.c = c, !.left = rest \ {c}] : c \in rest}

Started(r) ==
    /\ At(r, "idle")
    /\ \E p \in Peers, phone \in BOOLEAN :
          LET t == [Idle EXCEPT !.p = p, !.phone = phone]
          IN \E next \in IF mapping[p] = 0 THEN NextCandidate(t, convs[p])
                         ELSE {[t EXCEPT !.pc = "mapped", !.c = mapping[p]]} :
                Goto(r, next)
    /\ UNCHANGED <<rowVars, remoteVars>>

\* ContactMappingRepository.save: nobody else owns the contact, and the peer
\* has no other.
MaySave(p, c) == Owners(c) \subseteq {p} /\ mapping[p] \in {0, c}

\* _finish: the mapping, with the anchor's contact when there is an anchor,
\* or a conflict that ends the task.
Finish(r, c, anchored) ==
    LET p == task[r].p
    IN IF MaySave(p, c)
       THEN /\ mapping' = [mapping EXCEPT ![p] = c]
            /\ anchor' = IF anchored THEN [anchor EXCEPT ![p].c = c] ELSE anchor
            /\ Goto(r, [Idle EXCEPT !.pc = "done", !.p = p, !.c = c])
            /\ UNCHANGED <<aliases, convs>>
       ELSE Goto(r, Idle) /\ UNCHANGED rowVars

\* _invalidate, and on to the conversation rows.  A task that still holds the
\* deleted mapping row can no longer use it (row).
Invalidated(r) ==
    LET t == [task[r] EXCEPT !.missing = @ \union {task[r].c}]
        gone == mapping[t.p] = t.c
    IN /\ mapping' = IF gone THEN [mapping EXCEPT ![t.p] = 0] ELSE mapping
       /\ \E next \in NextCandidate(t, IF t.pc = "mapped" THEN convs[t.p] ELSE t.left) :
             task' = [o \in Resolvers |->
                 IF o = r THEN next
                 ELSE [task[o] EXCEPT !.row = @ /\ ~(/\ gone /\ task[o].p = t.p
                                                      /\ task[o].pc \in {"mapped", "preferring"})]]
       /\ UNCHANGED <<aliases, anchor, convs>>

\* The mapped contact is there, or gone.  A message with the number makes a
\* contact without one look for the contact that has it.
MappedAnswered(r) ==
    /\ At(r, "mapped")
    /\ IF ~Live(task[r].c) THEN Invalidated(r)
       ELSE IF task[r].phone /\ ~contacts[task[r].c].phone
       THEN Goto(r, [task[r] EXCEPT !.pc = "preferring"]) /\ UNCHANGED rowVars
       ELSE Finish(r, task[r].c, FALSE)
    /\ UNCHANGED remoteVars

\* Mutant: the old contact is dropped.
RepairWithoutAlias(r, d) ==
    LET p == task[r].p
    IN IF task[r].row /\ Owners(d) \subseteq {p}
       THEN /\ mapping' = [mapping EXCEPT ![p] = d]
            /\ Goto(r, [Idle EXCEPT !.pc = "done", !.p = p, !.c = d])
            /\ UNCHANGED <<aliases, anchor, convs>>
       ELSE Goto(r, Idle) /\ UNCHANGED rowVars

\* The contact with the number becomes the peer's and the old one an alias;
\* save_verified_alias wants nobody else to own either.
Repair(r, d) ==
    LET p == task[r].p
        c == task[r].c
    IN IF task[r].row /\ Owners(d) \subseteq {p} /\ Owners(c) \subseteq {p}
       THEN /\ mapping' = [mapping EXCEPT ![p] = d]
            /\ aliases' = aliases \union {<<c, p>>}
            /\ anchor' = IF anchor[p].made THEN [anchor EXCEPT ![p].c = d] ELSE anchor
            /\ Goto(r, [Idle EXCEPT !.pc = "done", !.p = p, !.c = d])
            /\ UNCHANGED convs
       ELSE Goto(r, Idle) /\ UNCHANGED rowVars

Preferred(r) ==
    /\ At(r, "preferring")
    /\ IF WithNumber \ {task[r].c} = {} THEN Finish(r, task[r].c, FALSE)
       ELSE \E d \in WithNumber : Repair(r, d)
    /\ UNCHANGED remoteVars

CandidateAnswered(r) ==
    /\ At(r, "candidate")
    /\ IF Live(task[r].c) THEN Finish(r, task[r].c, FALSE) ELSE Invalidated(r)
    /\ UNCHANGED remoteVars

\* _reserve commits the anchor before any request, one for each peer.
Reserved(r) ==
    /\ At(r, "reserve")
    /\ LET t == task[r]
           c == anchor[t.p].c
       IN /\ anchor' = [anchor EXCEPT ![t.p].made = TRUE]
          /\ Goto(r, IF c # 0 /\ c \notin t.missing
                     THEN [t EXCEPT !.pc = "anchor", !.c = c, !.missing = {}]
                     ELSE [t EXCEPT !.pc = "source", !.missing = {}])
    /\ UNCHANGED <<mapping, aliases, convs, remoteVars>>

AnchorAnswered(r) ==
    /\ At(r, "anchor")
    /\ IF Live(task[r].c) THEN Finish(r, task[r].c, TRUE)
       ELSE Goto(r, [task[r] EXCEPT !.pc = "source", !.c = 0]) /\ UNCHANGED rowVars
    /\ UNCHANGED remoteVars

\* get_contact_by_source with the anchor's identifier.
SourceAnswered(r) ==
    /\ At(r, "source") \/ At(r, "reconciling")
    /\ LET p == task[r].p
       IN \/ \E c \in CreatedFor(p) : Finish(r, c, TRUE)
          \/ /\ CreatedFor(p) = {}
             /\ UNCHANGED rowVars
             /\ Goto(r, CASE task[r].phone -> [task[r] EXCEPT !.pc =
                                IF At(r, "source") THEN "searching" ELSE "researching"]
                          [] ~task[r].phone /\ At(r, "source") -> [task[r] EXCEPT !.pc = "create"]
                          [] OTHER -> Idle)
    /\ UNCHANGED remoteVars

\* _exact over the number, before a creation and after one that failed.
Searched(r) ==
    /\ At(r, "searching") \/ At(r, "researching")
    /\ \/ \E c \in WithNumber : Finish(r, c, TRUE)
       \/ /\ WithNumber = {}
          /\ Goto(r, IF At(r, "searching") THEN [task[r] EXCEPT !.pc = "create"] ELSE Idle)
          /\ UNCHANGED rowVars
    /\ UNCHANGED remoteVars

\* Mutant: the request carries an identifier of its own.
SourceIdAfresh(r) == [p |-> task[r].p, phone |-> task[r].phone, r |-> r, key |-> "none"]

\* create_contact, with the anchor's identifier as source_id.
SourceId(r) == [p |-> task[r].p, phone |-> task[r].phone, r |-> r, key |-> task[r].p]

CreateSent(r) ==
    /\ At(r, "create")
    /\ requests' = requests \union {SourceId(r)}
    /\ Goto(r, [task[r] EXCEPT !.pc = "creating", !.reply = 0])
    /\ UNCHANGED <<rowVars, contacts, admin>>

\* The answer: the contact, or a refusal (0), after which and after a lost
\* reply the creation is reconciled.
CreateAnswered(r) ==
    /\ At(r, "creating") /\ task[r].reply # 0
    /\ Finish(r, task[r].reply, TRUE)
    /\ UNCHANGED remoteVars
CreateFailed(r) ==
    /\ At(r, "creating")
    /\ Goto(r, [task[r] EXCEPT !.pc = "reconciling", !.reply = 0])
    /\ requests' = {IF q.r = r THEN [q EXCEPT !.r = "nobody"] ELSE q : q \in requests}
    /\ UNCHANGED <<rowVars, contacts, admin>>

\* The caller goes on; it may store the contact in a conversation row.
Returned(r) ==
    /\ At(r, "done")
    /\ convs' \in {convs, [convs EXCEPT ![task[r].p] = @ \union {task[r].c}]}
    /\ Goto(r, Idle)
    /\ UNCHANGED <<mapping, aliases, anchor, remoteVars>>

\* An error at an await, a conflict or the death of the process.
ResolutionFails(r) ==
    /\ task[r].pc \notin {"idle", "done"}
    /\ Goto(r, Idle)
    /\ requests' = {IF q.r = r THEN [q EXCEPT !.r = "nobody"] ELSE q : q \in requests}
    /\ UNCHANGED <<rowVars, contacts, admin>>

----------------------------------------------------------------------------
(* Chatwoot: source_id is unique in the inbox and the number in the        *)
(* account, and a request is carried out as a whole or not at all, some    *)
(* time after it was sent.                                                 *)

Accepts(q) ==
    /\ Len(contacts) < MaxContacts
    /\ q.key \in Peers => CreatedFor(q.key) = {}
    /\ q.phone => WithNumber = {}

ChatwootCreates ==
    /\ \E q \in requests :
          /\ requests' = requests \ {q}
          /\ IF Accepts(q)
             THEN /\ contacts' = Append(contacts, [live |-> TRUE, phone |-> q.phone, by |-> q.p])
                  /\ task' = IF q.r \in Resolvers
                             THEN [task EXCEPT ![q.r].reply = Len(contacts) + 1] ELSE task
             ELSE UNCHANGED <<contacts, task>>
    /\ UNCHANGED <<rowVars, admin>>

\* An agent deletes a contact, gives one the number or takes it away, or
\* creates one with the number.
AgentEdits ==
    /\ admin < MaxAdmin /\ admin' = admin + 1
    /\ \/ \E c \in DOMAIN contacts :
             /\ contacts[c].live
             /\ \/ contacts' = [contacts EXCEPT ![c].live = FALSE]
                \/ WithNumber = {} /\ contacts' = [contacts EXCEPT ![c].phone = TRUE]
                \/ contacts' = [contacts EXCEPT ![c].phone = FALSE]
       \/ /\ WithNumber = {} /\ Len(contacts) < MaxContacts
          /\ contacts' = Append(contacts, [live |-> TRUE, phone |-> TRUE, by |-> "agent"])
    /\ UNCHANGED <<rowVars, requests, task>>

----------------------------------------------------------------------------
Resolution(r) ==
    Started(r) \/ MappedAnswered(r) \/ Preferred(r) \/ CandidateAnswered(r)
    \/ Reserved(r) \/ AnchorAnswered(r) \/ SourceAnswered(r) \/ Searched(r)
    \/ CreateSent(r) \/ CreateAnswered(r) \/ CreateFailed(r) \/ Returned(r)
    \/ ResolutionFails(r)

IdentityNext == (\E r \in Resolvers : Resolution(r)) \/ ChatwootCreates \/ AgentEdits

IdentitySpec == IdentityInit /\ [][IdentityNext]_identityVars

----------------------------------------------------------------------------
\* However replies are lost or late and resolutions overlap, no peer ever has
\* two contacts in Chatwoot that the bridge created.
OneContactPerPeer == \A p \in Peers : \A c, d \in CreatedFor(p) : c = d

\* A contact is one peer's, and it stays that peer's while it is there: a
\* number that wanders between contacts and peers never hands a contact, with
\* the conversations agents have in it, to another peer or to nobody.  (Two
\* overlapping repairs that find different contacts keep the last one only: it
\* takes an agent who moves the number from one to the other between them.)
KeepsPeer ==
    \A c \in DOMAIN contacts, p \in Peers :
        contacts'[c].live /\ p \in Owners(c) =>
            \/ Owners(c)' = {p}
            \/ /\ Owners(c)' = {}
               /\ \E r \in Resolvers : At(r, "preferring") /\ task[r].p = p /\ task[r].c # c
=============================================================================
