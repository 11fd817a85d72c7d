--------------------------- MODULE PhoneDestination ---------------------------
(***************************************************************************)
(* Whom an agent's answer goes to: the routing of handle_chatwoot_webhook  *)
(* (application/messaging/chatwoot_bridge.py) with the contact mappings    *)
(* and aliases, and the numbers that Bale and Eitaa resolve.  The answers  *)
(* of a conversation are delivered one after the other, those of different *)
(* conversations side by side; what runs between two awaits is one step.   *)
(* Numbers move between the accounts of the platform and are changed by    *)
(* agents, while Wootify keeps what it once was told.                      *)
(*                                                                         *)
(* A contact has one conversation.  Left out: identifiers and rows written *)
(* by older releases, and the name and number the contact is given after a *)
(* number was resolved, which route nothing.                               *)
(***************************************************************************)
EXTENDS Naturals, FiniteSets

CONSTANTS
    Peers,         \* accounts of the platform
    Contacts,      \* contacts of Chatwoot, with their conversations
    Numbers,       \* telephone numbers
    None,
    Remembers,     \* Bale: resolved numbers are kept; Eitaa: they are not
    MaxMoves,      \* bound: changes of a number's account
    MaxEdits,      \* bound: changes of a contact's number, resolved conversations
    MaxAnswers,    \* bound: answers
    MaxEvents      \* bound: messages of peers

\* What the constants have to be; the module that gives them values assumes it.
PhoneAssumption ==
    /\ None \notin Peers \union Contacts \union Numbers
    /\ Remembers \in BOOLEAN
    /\ MaxMoves \in Nat /\ MaxEdits \in Nat /\ MaxAnswers \in Nat /\ MaxEvents \in Nat

VARIABLES
    owner,       \* platform: the account with the number
    number,      \* Chatwoot: the number of the contact
    born,        \* Chatwoot: the contacts there are
    mapping,     \* contact_mappings: the contact of a peer
    aliases,     \* contact_aliases: <<contact, peer>>
    cache,       \* bale_pv_phone_resolved_users
    conv,        \* the peer in the active row of the contact's conversation
    job,         \* the delivery of an answer in the contact's conversation
    sent,        \* platform: <<contact, peer>> for every answer
    wrote,       \* history: <<contact, peer>>, a peer's message came to it
    had,         \* history: the peer was found to have the contact's number
    trusted,     \* history: an old resolution was taken for the peer's first contact
    spent        \* bounds: moves, edits, answers, events

phoneVars == <<owner, number, born, mapping, aliases, cache, conv, job, sent, wrote, had,
               trusted, spent>>
remoteVars == <<owner, number, born>>
rowVars == <<mapping, aliases, cache>>
historyVars == <<wrote, had, trusted>>

NoJob == [pc |-> "idle", n |-> None, p |-> None]
Spend(what) == /\ spent[what] > 0
               /\ spent' = [spent EXCEPT ![what] = @ - 1]
At(c, pc) == job[c].pc = pc
Goto(c, pc, n, p) == job' = [job EXCEPT ![c] = [pc |-> pc, n |-> n, p |-> p]]
Fails(c) == job' = [job EXCEPT ![c] = NoJob]

Owners(c) == {p \in Peers : mapping[p] = c \/ <<c, p>> \in aliases}

PhoneInit ==
    /\ owner \in [Numbers -> Peers]
    /\ number \in {f \in [Contacts -> Numbers \union {None}] :
                      \A n \in Numbers : Cardinality({c \in Contacts : f[c] = n}) = 1}
    /\ born \in SUBSET Contacts /\ {c \in Contacts : number[c] # None} \subseteq born
    /\ mapping = [p \in Peers |-> None] /\ aliases = {}
    /\ cache = [n \in Numbers |-> None] /\ conv = [c \in Contacts |-> None]
    /\ job = [c \in Contacts |-> NoJob]
    /\ sent = {} /\ wrote = {} /\ had = {} /\ trusted = {}
    /\ spent = [moves |-> MaxMoves, edits |-> MaxEdits, answers |-> MaxAnswers,
                events |-> MaxEvents]

\* resolve_phone_to_user: the platform's account with the number.
AccountOf(n) == owner[n]

-------------------------------------------------------------------------------
(* _ensure_verified_contact_alias: another contact than the peer's.        *)

\* The alias there is decides; without one the number has to be asked for.
AliasWanted(c, n, p) ==
    CASE <<c, p>> \in aliases -> Goto(c, "map", n, p)
      [] \E q \in Peers \ {p} : <<c, q>> \in aliases -> Fails(c)
      [] {q \in Peers : <<c, q>> \in aliases} = {} /\ n # None -> Goto(c, "verify", n, p)
      [] OTHER -> Fails(c)

\* Mutant: the resolution that is kept will do.
VerifiesFromCache(n, p) == IF cache[n] # None THEN cache[n] = p ELSE AccountOf(n) = p

\* "A persisted phone cache may be stale": the platform is asked.
Verifies(n, p) == AccountOf(n) = p

\* save_verified_alias: the peer has a contact, and nobody else has this one.
AliasAnswered(c) ==
    LET p == job[c].p
        n == job[c].n
    IN
    /\ At(c, "verify")
    /\ IF Verifies(n, p) /\ mapping[p] # None /\ Owners(c) \subseteq {p}
       THEN /\ aliases' = aliases \union {<<c, p>>}
            /\ had' = IF owner[n] = p THEN had \union {<<c, p>>} ELSE had
            /\ Goto(c, "map", n, p)
       ELSE Fails(c) /\ UNCHANGED <<aliases, had>>
    /\ UNCHANGED <<remoteVars, mapping, cache, conv, sent, wrote, trusted, spent>>

-------------------------------------------------------------------------------
(* The answer's way to its peer.                                           *)

\* ContactMappingRepository.save for a peer without a contact.
Saved(c, p) == Owners(c) \subseteq {p} /\ mapping' = [mapping EXCEPT ![p] = c]

\* The conversation's row names the peer; a peer unknown to the mappings gets
\* this contact.
ByRow(c, n) ==
    LET p == conv[c] IN
    CASE mapping[p] = c -> Goto(c, "map", n, p) /\ UNCHANGED mapping
      [] mapping[p] = None ->
            IF Owners(c) \subseteq {p} THEN Saved(c, p) /\ Goto(c, "map", n, p)
            ELSE Fails(c) /\ UNCHANGED mapping
      [] OTHER -> AliasWanted(c, n, p) /\ UNCHANGED mapping

\* The contact is one peer's.
ByContact(c, n, p) ==
    /\ IF mapping[p] \in {c, None} THEN Goto(c, "map", n, p) ELSE AliasWanted(c, n, p)
    /\ UNCHANGED mapping

\* What is known of a number: the account it had when it was resolved.
ByNumber(c, n, p) ==
    CASE mapping[p] = c -> Goto(c, "map", n, p) /\ UNCHANGED <<mapping, trusted>>
      [] mapping[p] = None ->
            IF Owners(c) \subseteq {p}
            THEN /\ Saved(c, p) /\ Goto(c, "map", n, p)
                 /\ trusted' = IF owner[n] # p THEN trusted \union {<<c, p>>} ELSE trusted
            ELSE Fails(c) /\ UNCHANGED <<mapping, trusted>>
      [] OTHER -> AliasWanted(c, n, p) /\ UNCHANGED <<mapping, trusted>>

\* A webhook's run: the row decides, then the contact, then its number.
Answered(c) ==
    LET n == number[c]
    IN /\ At(c, "idle") /\ c \in born /\ Spend("answers")
       /\ CASE conv[c] # None -> ByRow(c, n) /\ UNCHANGED <<trusted, had>>
            [] conv[c] = None /\ Cardinality(Owners(c)) = 1 ->
                  /\ ByContact(c, n, CHOOSE p \in Peers : p \in Owners(c))
                  /\ UNCHANGED <<trusted, had>>
            [] conv[c] = None /\ Owners(c) = {} /\ n # None /\ cache[n] # None ->
                  /\ ByNumber(c, n, cache[n])
                  /\ had' = IF owner[n] = cache[n] THEN had \union {<<c, cache[n]>>} ELSE had
            [] conv[c] = None /\ Owners(c) = {} /\ n # None /\ cache[n] = None ->
                  /\ Goto(c, "resolve", n, None)
                  /\ UNCHANGED <<mapping, trusted, had>>
            [] OTHER -> UNCHANGED <<job, mapping, trusted, had>>      \* reported as failed
       /\ UNCHANGED <<remoteVars, aliases, cache, conv, sent, wrote>>

\* resolve_phone_to_user has answered.  A row that another answer inserted
\* meanwhile is taken instead.
NumberAnswered(c) ==
    LET n == job[c].n
        p == IF Remembers /\ cache[n] # None THEN cache[n] ELSE AccountOf(n)
    IN /\ At(c, "resolve")
       /\ cache' = IF Remembers THEN [cache EXCEPT ![n] = p] ELSE cache
       /\ had' = IF owner[n] = p THEN had \union {<<c, p>>} ELSE had
       /\ ByNumber(c, n, p)
       /\ UNCHANGED <<remoteVars, aliases, conv, sent, wrote, spent>>

\* The conversation becomes the peer's only active one.
Activated(c, p) ==
    conv' = [d \in Contacts |-> IF d = c THEN p ELSE IF conv[d] = p THEN None ELSE conv[d]]

\* _persist_outbound_conversation_mapping, in a worker thread.
Mapped(c) ==
    /\ At(c, "map")
    /\ Activated(c, job[c].p)
    /\ Goto(c, "send", job[c].n, job[c].p)
    /\ UNCHANGED <<remoteVars, rowVars, sent, historyVars, spent>>

Sent(c) ==
    /\ At(c, "send")
    /\ sent' = sent \union {<<c, job[c].p>>}
    /\ job' = [job EXCEPT ![c] = NoJob]
    /\ UNCHANGED <<remoteVars, rowVars, conv, historyVars, spent>>

\* An error at an await, or the death of the process.
AnswerFails(c) ==
    /\ ~At(c, "idle") /\ Fails(c)
    /\ UNCHANGED <<remoteVars, rowVars, conv, sent, historyVars, spent>>

-------------------------------------------------------------------------------
(* The peers, the platform and the agents.                                 *)

\* A message of a peer comes to its contact: the mapped one, one with its
\* number that is nobody's (the message shares the number), or a new one.
Writes(p) ==
    /\ Spend("events")
    /\ \E c \in Contacts :
          /\ \/ mapping[p] = c /\ UNCHANGED <<mapping, born>>
             \/ /\ mapping[p] = None /\ Saved(c, p)
                /\ \/ c \notin born
                   \/ c \in born /\ number[c] # None /\ owner[number[c]] = p
                /\ born' = born \union {c}
          /\ Activated(c, p)
          /\ wrote' = wrote \union {<<c, p>>}
    /\ UNCHANGED <<owner, number, aliases, cache, job, sent, had, trusted>>

NumberMoves(n, p) ==
    /\ owner[n] # p /\ Spend("moves")
    /\ owner' = [owner EXCEPT ![n] = p]
    /\ UNCHANGED <<number, born, rowVars, conv, job, sent, historyVars>>

\* An agent takes a contact's number away, or gives it one that is free.
NumberEdited(c) ==
    /\ c \in born /\ Spend("edits")
    /\ \E n \in Numbers \union {None} :
          /\ n # number[c] /\ n # None => \A d \in Contacts : number[d] # n
          /\ number' = [number EXCEPT ![c] = n]
    /\ UNCHANGED <<owner, born, rowVars, conv, job, sent, historyVars>>

\* A conversation is resolved: its row is no longer active.
ConversationResolved(c) ==
    /\ conv[c] # None /\ Spend("edits")
    /\ conv' = [conv EXCEPT ![c] = None]
    /\ UNCHANGED <<remoteVars, rowVars, job, sent, historyVars>>

-------------------------------------------------------------------------------
Delivery(c) ==
    Answered(c) \/ AliasAnswered(c) \/ NumberAnswered(c) \/ Mapped(c) \/ Sent(c) \/ AnswerFails(c)

PhoneNext ==
    \/ \E c \in Contacts : Delivery(c) \/ NumberEdited(c) \/ ConversationResolved(c)
    \/ \E p \in Peers : Writes(p) \/ \E n \in Numbers : NumberMoves(n, p)

PhoneSpec == PhoneInit /\ [][PhoneNext]_phoneVars

-------------------------------------------------------------------------------
\* An answer goes to a peer who wrote to this contact, or who had its number
\* when it was asked for; but for a peer who had it before and was no contact's
\* yet, when an old resolution was taken on trust.
OnlyToOwners == sent \subseteq wrote \union had \union trusted

\* A contact has one peer: whatever happens to numbers, an agent's answers in
\* its conversation never go to one and then to another.
OnePeerPerContact ==
    \A c \in Contacts, p, q \in Peers : <<c, p>> \in sent /\ <<c, q>> \in sent => p = q
===============================================================================
