-------------------------- MODULE ConversationMapping --------------------------
(***************************************************************************)
(* The conversations of one contact in Chatwoot and the rows that map them *)
(* to the peer (application/messaging/conversation_mapping.py,             *)
(* conversation_policy.py and the conversation repository), shared by the  *)
(* two bridges.  A conversation has at most one row; a row is the peer's   *)
(* current one when it is active.                                          *)
(***************************************************************************)
EXTENDS Naturals, Sequences, FiniteSets

CONSTANTS
    MaxConvs,     \* bound: conversations Chatwoot creates
    MaxAgent      \* bound: conversations opened, changed or deleted by agents

VARIABLES
    convs,    \* Chatwoot: the status of each conversation, oldest first
    reopen,   \* reopen_conversation of the inbox
    rows,     \* conversations with a committed row
    active,   \* committed rows that are active
    spent     \* bound: what agents did

mappingVars == <<convs, reopen, rows, active, spent>>
rowVars == <<rows, active>>

Open(c) == convs[c] = "open"
Resolved(c) == convs[c] = "resolved"
There(c) == c \in DOMAIN convs /\ convs[c] # "deleted"

\* list_contact_conversations: what it says of each conversation; a deleted
\* one is not in it.
Listing == [c \in {d \in DOMAIN convs : There(d)} |-> convs[c]]

Newest(cs) == IF cs = {} THEN 0 ELSE CHOOSE c \in cs : \A d \in cs : d <= c

\* select_conversation, 0 for none.
Select(list, other) ==
    LET known == DOMAIN list \ {other}
        unresolved == {c \in known : list[c] # "resolved"}
    IN IF unresolved # {} THEN Newest(unresolved)
       ELSE IF reopen THEN Newest(known) ELSE 0

\* get_by_platform_id: the active row written last; which one that is does
\* not matter to what is checked, so any.
Current == IF active = {} THEN {0} ELSE active

\* upsert, committed at once: the row of c is the active one.
Upsert(c) == rows' = rows \union {c} /\ active' = {c}

MappingInit ==
    /\ convs \in {<<>>, <<"open">>} /\ reopen \in BOOLEAN
    /\ rows \in SUBSET DOMAIN convs /\ active = rows
    /\ spent = 0

Creates == Len(convs) < MaxConvs /\ convs' = Append(convs, "open")

\* Chatwoot carries out toggle_conversation_status, which fails for a
\* conversation that is gone.
Opens(c) == There(c) /\ convs' = [convs EXCEPT ![c] = "open"]

\* An agent opens a conversation, or changes or deletes one.
AgentSets ==
    /\ spent < MaxAgent /\ spent' = spent + 1
    /\ \/ Creates
       \/ \E c \in DOMAIN convs :
             /\ There(c)
             /\ \E s \in {"open", "resolved", "deleted"} \ {convs[c]} :
                   convs' = [convs EXCEPT ![c] = s]
    /\ UNCHANGED <<reopen, rows, active>>
=============================================================================
