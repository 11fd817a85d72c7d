--------------------------------- MODULE Bridge ---------------------------------
(***************************************************************************)
(* The generic bridge (application/messaging/bridge.py) between one peer   *)
(* of a platform and its conversations in Chatwoot.  An ingestion and a    *)
(* webhook run are tasks of one event loop with a session each; what lies  *)
(* between two awaits is one step.                                         *)
(*                                                                         *)
(* A flush leaves nothing new or dirty behind, so the commits that stand   *)
(* before the requests to Chatwoot and to the platform do not happen: the  *)
(* upsert of a conversation stays uncommitted, and its rows locked, until  *)
(* the message is mapped.  A flush that meets a locked row is an error.    *)
(*                                                                         *)
(* Ingestions and runs are begun by queues that repeat what failed; here   *)
(* any event and any message of an agent may be taken at any time.  The    *)
(* contact is ContactIdentity's; it and its name are kept up to date       *)
(* before the listing, and only the listing is modelled.                   *)
(***************************************************************************)
EXTENDS ConversationMapping

CONSTANTS
    Msgs,       \* messages of the customer
    Answers,    \* messages of agents
    MaxParts,   \* attachments of each
    MaxIngests,   \* bound: ingestions
    MaxWebhooks   \* bound: runs of webhooks

\* What the constants have to be; the module that gives them values assumes it.
BridgeAssumption ==
    {MaxConvs, MaxAgent, MaxParts, MaxIngests, MaxWebhooks} \subseteq Nat

VARIABLES
    heard,      \* events the platform has reported: [p, text, gone]
    posts,      \* Chatwoot: [conv, p, text, gone]
    maps,       \* message_mappings of the customer's messages: [conv, p, post, text]
    t,          \* the ingestion
    answer,     \* Chatwoot: where an answer was written, and the post it quotes
    status,     \* message_mappings of the answers
    w,          \* the webhook run
    shown,      \* platform: how often each part of an answer is there
    runs,       \* bound
    lost, moved, spoiled   \* history: see the properties

Parts == 1 .. MaxParts

inVars == <<heard, posts, maps, t, lost, moved>>
outVars == <<answer, status, w, shown, spoiled>>
bridgeVars == <<mappingVars, inVars, outVars, runs>>

NoTx == [c |-> 0, seen |-> {}]
NoEvent == [p |-> "none", text |-> 0, gone |-> FALSE]
IdleTask == [pc |-> "idle", e |-> NoEvent, row |-> 0, c |-> 0, tx |-> NoTx,
             saw |-> "unknown", post |-> 0, again |-> FALSE]
IdleRun == [pc |-> "idle", a |-> "none", tx |-> NoTx, left |-> {}, failed |-> FALSE]

BridgeInit ==
    /\ MappingInit
    /\ heard = {} /\ posts = <<>> /\ maps = {} /\ t = IdleTask
    /\ answer = [a \in Answers |-> [c |-> 0, quotes |-> 0, gone |-> FALSE]]
    /\ status = [a \in Answers |-> "none"]
    /\ w = IdleRun
    /\ shown = [a \in Answers |-> [k \in Parts |-> 0]]
    /\ runs = [in |-> 0, out |-> 0]
    /\ lost = [p \in Msgs |-> 0] /\ moved = [p \in Msgs |-> 0]
    /\ spoiled = [a \in Answers |-> 0]

----------------------------------------------------------------------------
(* Uncommitted upserts.                                                    *)

Locked(tx) == IF tx.c = 0 THEN {} ELSE {tx.c} \union tx.seen
CanFlush(c, other) == ({c} \union active) \cap Locked(other) = {}

\* upsert, flushed: the rows that were active are deactivated with it.
Flush(c) == [c |-> c, seen |-> active \ {c}]

Commit(tx) ==
    IF tx.c = 0 THEN UNCHANGED rowVars
    ELSE rows' = rows \union {tx.c} /\ active' = (active \ tx.seen) \union {tx.c}

----------------------------------------------------------------------------
(* ingest_platform_event.                                                  *)

\* The customer writes a message, edits it or takes it back.
CustomerActs ==
    /\ \E p \in Msgs :
          LET of == {e \in heard : e.p = p}
          IN \E e \in {[p |-> p, text |-> 1, gone |-> FALSE], [p |-> p, text |-> 2, gone |-> FALSE],
                       [p |-> p, text |-> 1, gone |-> TRUE]} :
                /\ e \notin heard /\ [e EXCEPT !.text = 1, !.gone = TRUE] \notin heard
                /\ (e.text = 2 \/ e.gone) => of # {}
                /\ heard' = heard \union {e}
    /\ UNCHANGED <<mappingVars, posts, maps, t, lost, moved, outVars, runs>>

IngestBegins ==
    /\ t.pc = "idle" /\ runs.in < MaxIngests
    /\ \E e \in heard, row \in Current :
          t' = [IdleTask EXCEPT !.pc = "listing", !.e = e, !.row = row, !.c = row]
    /\ runs' = [runs EXCEPT !.in = @ + 1]
    /\ UNCHANGED <<mappingVars, heard, posts, maps, lost, moved, outVars>>

MappedIn(c, p) == {m \in maps : m.conv = c /\ m.p = p}

\* message_mapping.py, upsert: one mapping of a message in a conversation.
Remapped(m) == (maps \ MappedIn(m.conv, m.p)) \union {m}

\* What is done with the event once its conversation is known.  What is not
\* committed is rolled back when nothing is done.
Decided(s) ==
    LET known == MappedIn(s.c, s.e.p)
    IN CASE s.e.gone /\ known # {} -> [s EXCEPT !.pc = "deleting"]
         [] ~s.e.gone /\ known = {} -> [s EXCEPT !.pc = "posting"]
         [] ~s.e.gone /\ \E m \in known : m.text # s.e.text -> [s EXCEPT !.pc = "editing"]
         [] OTHER -> IdleTask

\* The conversation becomes the peer's, unless it is, and the event is dealt
\* with; a locked row ends the ingestion.
Settled(s, c) ==
    IF c = s.row \/ s.tx.c = c THEN Decided([s EXCEPT !.c = c])
    ELSE IF CanFlush(c, w.tx) THEN Decided([s EXCEPT !.c = c, !.tx = Flush(c)])
    ELSE IdleTask

\* Mutant: a resolved conversation is used as it is.
OpenedOrUsed(s, c, known) == Settled([s EXCEPT !.saw = known], c)

\* _maybe_reopen_contact_conversation, after the upsert when there was a row.
Opened(s, c, known) ==
    IF known = "resolved" /\ reopen
    THEN IF s.row = 0 \/ c = s.row THEN [s EXCEPT !.pc = "opening", !.c = c, !.saw = known]
         ELSE IF CanFlush(c, w.tx)
         THEN [s EXCEPT !.pc = "opening", !.c = c, !.saw = known, !.tx = Flush(c)]
         ELSE IdleTask
    ELSE Settled([s EXCEPT !.saw = known], c)

\* The peer has no row: the contact's conversation, or a new one.  (That of
\* another peer with the same contact comes with a second peer; there is one.)
FirstConversation(list) ==
    LET c == Select(list, 0)
    IN IF c # 0 THEN Opened(t, c, list[c]) ELSE [t EXCEPT !.pc = "creating"]

\* The peer has a row: its conversation, unless it is resolved and another
\* one is to be used.
NextConversation(list) ==
    LET known == t.row \in DOMAIN list
        done == known /\ list[t.row] = "resolved"
        other == Select(list, t.row)
        c == IF known /\ ~done THEN t.row ELSE Select(list, 0)
    IN CASE done /\ ~reopen /\ other # 0 -> Opened(t, other, list[other])
         [] done /\ ~reopen /\ other = 0 -> [t EXCEPT !.pc = "creating"]
         [] ~(done /\ ~reopen) /\ c # 0 -> Opened(t, c, list[c])
         [] OTHER -> Settled(t, t.row)

\* _list_contact_conversations turns an error into an empty list.
Listed ==
    /\ t.pc = "listing"
    /\ \E list \in {Listing, <<>>} :
          t' = IF t.row = 0 THEN FirstConversation(list) ELSE NextConversation(list)
    /\ UNCHANGED <<mappingVars, heard, posts, maps, lost, moved, outVars, runs>>

\* toggle_conversation_status; an error ends the ingestion (IngestFails).
ReopenAnswered ==
    /\ t.pc = "opening" /\ Opens(t.c)
    /\ t' = Settled([t EXCEPT !.saw = "open"], t.c)
    /\ UNCHANGED <<reopen, rowVars, spent, heard, posts, maps, lost, moved, outVars, runs>>

\* create_conversation; the reply may be lost.
ConversationCreated ==
    /\ t.pc = "creating" /\ Creates
    /\ t' \in {Settled([t EXCEPT !.saw = "open"], Len(convs) + 1), IdleTask}
    /\ UNCHANGED <<reopen, rowVars, spent, heard, posts, maps, lost, moved, outVars, runs>>

\* _send_platform_message_to_chatwoot, carried out by Chatwoot.
Posted ==
    /\ t.pc = "posting" /\ There(t.c)
    /\ posts' = Append(posts, [conv |-> t.c, p |-> t.e.p, text |-> t.e.text, gone |-> FALSE])
    /\ t' = [t EXCEPT !.pc = "posted", !.post = Len(posts) + 1]
    /\ moved' = IF (t.again \/ MappedIn(t.c, t.e.p) = {}) /\ \E m \in maps : m.p = t.e.p
                THEN [moved EXCEPT ![t.e.p] = @ + 1] ELSE moved
    /\ UNCHANGED <<mappingVars, heard, maps, lost, outVars, runs>>

\* The conversation is gone: another one is looked for, once, and the message
\* posted there without a look at what is mapped to it.
PostRefused ==
    /\ t.pc = "posting" /\ ~There(t.c)
    /\ t' = IF t.again THEN IdleTask ELSE [t EXCEPT !.pc = "recovering"]
    /\ UNCHANGED <<mappingVars, heard, posts, maps, lost, moved, outVars, runs>>

\* upsert and commit of _recover_deleted_chatwoot_conversation, with the
\* upsert that was waiting, or the error of a locked row.
Recover(c, known) ==
    LET own == t.tx.c \in {0, c}
        seen == t.tx.seen \union (active \ {c})
    IN IF CanFlush(c, w.tx)
       THEN /\ rows' = rows \union {c} \union (IF own THEN {} ELSE {t.tx.c})
            /\ active' = (active \ seen) \union {c}
            /\ t' = [t EXCEPT !.pc = "posting", !.c = c, !.tx = NoTx, !.saw = known,
                              !.again = TRUE, !.row = c]
       ELSE t' = IdleTask /\ UNCHANGED rowVars

RecoveryListed ==
    /\ t.pc = "recovering"
    /\ \E list \in {Listing, <<>>} :
          LET c == Select(list, t.c)
          IN CASE c = 0 -> t' = [t EXCEPT !.pc = "recreating"] /\ UNCHANGED rowVars
               [] c # 0 /\ list[c] = "resolved" ->
                     t' = [t EXCEPT !.pc = "reopening", !.row = c] /\ UNCHANGED rowVars
               [] OTHER -> Recover(c, list[c])
    /\ UNCHANGED <<convs, reopen, spent, heard, posts, maps, lost, moved, outVars, runs>>

RecoveryReopened ==
    /\ t.pc = "reopening" /\ Opens(t.row) /\ Recover(t.row, "open")
    /\ UNCHANGED <<reopen, spent, heard, posts, maps, lost, moved, outVars, runs>>

RecoveryCreated ==
    /\ t.pc = "recreating" /\ Creates
    /\ \/ Recover(Len(convs) + 1, "open")
       \/ t' = IdleTask /\ UNCHANGED rowVars
    /\ UNCHANGED <<reopen, spent, heard, posts, maps, lost, moved, outVars, runs>>

\* The message is mapped, in the place of what mapped it before, and
\* everything committed.
Mapped ==
    /\ t.pc = "posted"
    /\ maps' = Remapped([conv |-> t.c, p |-> t.e.p, post |-> t.post, text |-> t.e.text])
    /\ Commit(t.tx)
    /\ t' = IdleTask
    /\ UNCHANGED <<convs, reopen, spent, heard, posts, lost, moved, outVars, runs>>

\* _handle_platform_message_delete: an error is an answer like any other, and
\* nothing is committed.
DeleteAnswered ==
    /\ t.pc = "deleting"
    /\ posts' \in {posts} \union
          {[posts EXCEPT ![m.post].gone = TRUE] : m \in {n \in MappedIn(t.c, t.e.p) : There(n.conv)}}
    /\ t' = IdleTask
    /\ UNCHANGED <<mappingVars, heard, maps, lost, moved, outVars, runs>>

\* _handle_platform_message_edit writes into Chatwoot's own database.
EditAnswered ==
    /\ t.pc = "editing"
    /\ \/ \E m \in MappedIn(t.c, t.e.p) :
             /\ There(m.conv)
             /\ posts' = [posts EXCEPT ![m.post].text = t.e.text]
             /\ maps' = (maps \ {m}) \union {[m EXCEPT !.text = t.e.text]}
             /\ Commit(t.tx)
       \/ UNCHANGED <<posts, maps, rowVars>>
    /\ t' = IdleTask
    /\ UNCHANGED <<convs, reopen, spent, heard, lost, moved, outVars, runs>>

\* An error at an await or the end of the process: all is rolled back.
IngestFails ==
    /\ t.pc # "idle"
    /\ lost' = IF t.pc = "posted" THEN [lost EXCEPT ![t.e.p] = @ + 1] ELSE lost
    /\ t' = IdleTask
    /\ UNCHANGED <<mappingVars, heard, posts, maps, moved, outVars, runs>>

----------------------------------------------------------------------------
(* receive_chatwoot_webhook.                                               *)

\* An agent answers, perhaps quoting a message of the customer, or deletes
\* the answer.
AgentWrites ==
    /\ \E a \in Answers :
          \/ /\ answer[a].c = 0
             /\ \E c \in DOMAIN convs :
                   /\ There(c)
                   /\ \E q \in {0} \union {k \in DOMAIN posts : posts[k].conv = c} :
                         answer' = [answer EXCEPT ![a] = [c |-> c, quotes |-> q, gone |-> FALSE]]
          \/ /\ answer[a].c # 0 /\ ~answer[a].gone
             /\ answer' = [answer EXCEPT ![a].gone = TRUE]
    /\ UNCHANGED <<mappingVars, inVars, status, w, shown, spoiled, runs>>

\* The row of the conversation is written, and the connector asked to
\* connect; an answer that is mapped as sent or skipped is a duplicate, and
\* one that quotes an unmapped message is skipped.
WebhookBegins ==
    /\ w.pc = "idle" /\ runs.out < MaxWebhooks
    /\ \E a \in Answers :
          LET c == answer[a].c
              q == answer[a].quotes
              parted == q # 0 /\ \A m \in maps : m.post # q
          IN /\ c # 0 /\ status[a] \notin {"sent", "skipped"} /\ CanFlush(c, t.tx)
             /\ IF parted
                THEN /\ status' = [status EXCEPT ![a] = "skipped"]
                     /\ Commit(Flush(c))
                     /\ w' = w
                ELSE /\ w' = [IdleRun EXCEPT !.pc = "connecting", !.a = a, !.tx = Flush(c)]
                     /\ UNCHANGED <<status, rowVars>>
    /\ runs' = [runs EXCEPT !.out = @ + 1]
    /\ UNCHANGED <<convs, reopen, spent, inVars, answer, shown, spoiled>>

\* The contact of the peer is saved and with it the conversation committed.
Connected ==
    /\ w.pc = "connecting"
    /\ Commit(w.tx)
    /\ w' = [w EXCEPT !.pc = "sending", !.tx = NoTx, !.left = Parts]
    /\ UNCHANGED <<convs, reopen, spent, inVars, answer, status, shown, spoiled, runs>>

\* The parts are sent side by side, and each may fail.
PartSent ==
    /\ w.pc = "sending"
    /\ \E k \in w.left :
          \/ /\ shown' = [shown EXCEPT ![w.a][k] = @ + 1]
             /\ w' = [w EXCEPT !.left = @ \ {k}]
          \/ /\ w' = [w EXCEPT !.left = @ \ {k}, !.failed = TRUE]
             /\ UNCHANGED shown
    /\ UNCHANGED <<mappingVars, inVars, answer, status, spoiled, runs>>

\* The answer is mapped as sent, or as failed when a part of it is.
RunEnds ==
    /\ w.pc = "sending" /\ w.left = {}
    /\ status' = [status EXCEPT ![w.a] = IF w.failed THEN "failed" ELSE "sent"]
    /\ spoiled' = IF w.failed THEN [spoiled EXCEPT ![w.a] = @ + 1] ELSE spoiled
    /\ w' = IdleRun
    /\ UNCHANGED <<mappingVars, inVars, answer, shown, runs>>

\* _handle_chatwoot_message_delete: what is mapped as sent is taken back, by
\* the identifier of the first part.
DeleteWebhook ==
    /\ w.pc = "idle" /\ runs.out < MaxWebhooks
    /\ \E a \in Answers :
          /\ answer[a].gone /\ status[a] = "sent"
          /\ w' = [IdleRun EXCEPT !.pc = "recalling", !.a = a]
    /\ runs' = [runs EXCEPT !.out = @ + 1]
    /\ UNCHANGED <<mappingVars, inVars, answer, status, shown, spoiled>>
Recalled ==
    /\ w.pc = "recalling"
    /\ shown' = [shown EXCEPT ![w.a][1] = IF @ = 0 THEN 0 ELSE @ - 1]
    /\ w' = IdleRun
    /\ UNCHANGED <<mappingVars, inVars, answer, status, spoiled, runs>>

\* An error before the sending or the end of the process.
RunFails ==
    /\ w.pc # "idle"
    /\ spoiled' = IF w.pc = "sending" THEN [spoiled EXCEPT ![w.a] = @ + 1] ELSE spoiled
    /\ w' = IdleRun
    /\ UNCHANGED <<mappingVars, inVars, answer, status, shown, runs>>

----------------------------------------------------------------------------
Ingestion ==
    IngestBegins \/ Listed \/ ReopenAnswered \/ ConversationCreated \/ Posted \/ PostRefused
    \/ RecoveryListed \/ RecoveryReopened \/ RecoveryCreated \/ Mapped
    \/ DeleteAnswered \/ EditAnswered \/ IngestFails
Run == WebhookBegins \/ Connected \/ PartSent \/ RunEnds \/ DeleteWebhook \/ Recalled \/ RunFails
AgentSetsStatus == AgentSets /\ UNCHANGED <<inVars, outVars, runs>>

BridgeNext == CustomerActs \/ AgentWrites \/ AgentSetsStatus \/ Ingestion \/ Run

BridgeSpec == BridgeInit /\ [][BridgeNext]_bridgeVars

----------------------------------------------------------------------------
\* A message is in Chatwoot once for each ingestion that posted it and ended
\* before it was mapped (lost), that looked for it under another conversation
\* than the one it is mapped to (moved), and one that mapped it; and each part of an
\* answer is on the platform once for each run that did not get through
\* (spoiled), and one that did.  No other interleaving makes a copy.
CopiesExcused ==
    /\ \A p \in Msgs : Cardinality({k \in DOMAIN posts : posts[k].p = p}) <= 1 + lost[p] + moved[p]
    /\ \A a \in Answers, k \in Parts : shown[a][k] <= 1 + spoiled[a]

\* A message of the customer goes into a resolved conversation only when it
\* was not resolved at the last look, or the listing failed: with reopening
\* switched on it is opened first, and otherwise another one is used.
LooksFirst == Len(posts') > Len(posts) /\ Resolved(posts'[Len(posts')].conv) => t.saw # "resolved"
=============================================================================
