---------------------------- MODULE MessageLifecycle ----------------------------
(***************************************************************************)
(* What becomes of a message after it was written, in the bridge of the    *)
(* adapters (application/messaging/chatwoot_bridge.py): messages of the    *)
(* customer posted, edited and deleted in Chatwoot, answers of agents      *)
(* sent, edited and deleted on the platform, and the conversations both    *)
(* are in.  An ingestion and a webhook run are tasks of one event loop;    *)
(* here every change of a mapping is committed before the next await.      *)
(*                                                                         *)
(* Where the platform mirrors what an answer's account does (Bale, Eitaa), *)
(* an edit or a deletion made for an agent comes back as an event, and the *)
(* sending is ConfirmedDelivery's; where it does not (Instagram) answers   *)
(* are sent without confirmation.  The contact is ContactIdentity's.  What *)
(* ends in an error is repeated: any event may be taken at any time.       *)
(***************************************************************************)
EXTENDS ConversationMapping

CONSTANTS
    Msgs,        \* messages of the customer
    Answers,     \* messages of agents
    Mirrors,     \* the platform mirrors what the account does
    MaxText,     \* bound: versions of a message
    MaxIngests,  \* bound: ingestions
    MaxWebhooks  \* bound: runs of webhooks

\* What the constants have to be; the module that gives them values assumes it.
LifecycleAssumption ==
    /\ {MaxConvs, MaxAgent, MaxText, MaxIngests, MaxWebhooks} \subseteq Nat
    /\ Mirrors \in BOOLEAN /\ Msgs \cap Answers = {}

VARIABLES
    heard,    \* events of the platform: [p, text, gone, own]
    posts,    \* Chatwoot: [conv, p, text, kind, gone]
    maps,     \* message_mappings: [conv, p, post, text, gone]
    t,        \* the ingestion
    hooks,    \* webhooks waiting: [kind, a, c, text]
    w,        \* the webhook run
    sent,     \* platform: how often an answer was sent
    runs,     \* bound
    lost, spoiled, mapped   \* history: see the properties

inVars == <<heard, posts, maps, t, lost>>
outVars == <<hooks, w, sent, spoiled>>
lifecycleVars == <<mappingVars, inVars, outVars, mapped, runs>>

NoMap == [conv |-> 0, p |-> "none", post |-> 0, text |-> 0, gone |-> FALSE]
NoEvent == [p |-> "none", text |-> 0, gone |-> FALSE, own |-> FALSE]
IdleTask == [pc |-> "idle", e |-> NoEvent, c |-> 0, saw |-> "unknown", post |-> 0,
             m |-> NoMap, again |-> FALSE, excused |-> FALSE]
IdleRun == [pc |-> "idle", h |-> [kind |-> "none", a |-> "none", c |-> 0, text |-> 0], m |-> NoMap]

LifecycleInit ==
    /\ MappingInit
    /\ heard = {} /\ posts = <<>> /\ maps = {} /\ t = IdleTask
    /\ hooks = {} /\ w = IdleRun /\ sent = [a \in Answers |-> 0]
    /\ runs = [in |-> 0, out |-> 0]
    /\ lost = [p \in Msgs |-> 0] /\ spoiled = [a \in Answers |-> 0] /\ mapped = {}

MappingsOf(p) == {m \in maps : m.p = p}
SameRow(m, n) == m.conv = n.conv /\ m.p = n.p

\* Writes a mapping; the whole row is what the writer read, with its change.
Write(m) ==
    /\ maps' = {n \in maps : ~SameRow(m, n)} \union {m}
    /\ mapped' = mapped \union {<<m.p, m.text>>}
KeepMaps == UNCHANGED <<maps, mapped>>

----------------------------------------------------------------------------
(* ingest_platform_event.                                                  *)

\* The customer, or the owner of the account in its own app, writes, edits or
\* takes back a message.
PeerActs ==
    /\ \E p \in Msgs \union {m.p : m \in maps} :
          LET of == {e \in heard : e.p = p}
          IN \E text \in 1 .. MaxText, gone \in BOOLEAN :
                /\ (text > 1 \/ gone) => of # {} \/ p \in Answers
                /\ p \in Answers => Mirrors /\ (text > 1 \/ gone)
                /\ \A e \in of : ~e.gone /\ (e.own \/ e.text # text \/ gone)
                /\ heard' = heard \union {[p |-> p, text |-> text, gone |-> gone, own |-> FALSE]}
    /\ UNCHANGED <<mappingVars, posts, maps, t, lost, outVars, mapped, runs>>

\* A webhook run has changed the answer on the platform, and not yet the
\* mapping; or one never will.
Unsettled(a) == w.pc \in {"edited", "deleted"} /\ w.h.a = a
Surprised(e) == e.own /\ ~Unsettled(e.p) /\ <<e.p, e.text>> \notin mapped /\ spoiled[e.p] = 0

\* Mutant: a repeat is looked for in the current conversation only.
TakenHere(e) ==
    IF \E m \in MappingsOf(e.p) : m.conv \in active THEN {}
    ELSE {[IdleTask EXCEPT !.pc = "listing", !.e = e, !.c = row] : row \in Current}

\* A deletion, then a repeat or an edit, are about a mapping of any
\* conversation of the peer.  What needs nothing done is left out.
Taken(e) ==
    IF e.gone
    THEN {[IdleTask EXCEPT !.pc = "deleting", !.e = e, !.m = m] :
              m \in {n \in MappingsOf(e.p) : ~n.gone}}
    ELSE IF MappingsOf(e.p) # {}
    THEN {[IdleTask EXCEPT !.pc = "editing", !.e = e, !.m = m, !.excused = ~Surprised(e)] :
              m \in {n \in MappingsOf(e.p) : n.text # e.text}}
    ELSE {[IdleTask EXCEPT !.pc = "listing", !.e = e, !.c = row] : row \in Current}

IngestBegins ==
    /\ t.pc = "idle" /\ runs.in < MaxIngests
    /\ \E e \in heard : t' \in Taken(e)
    /\ runs' = [runs EXCEPT !.in = @ + 1]
    /\ UNCHANGED <<mappingVars, heard, posts, maps, lost, outVars, mapped>>

Ready(c, known) == t' = [t EXCEPT !.pc = "posting", !.c = c, !.saw = known]

\* _get_or_create_conversation.  A mapped conversation the listing does not
\* have is used as it is; if it is gone, posting will tell.
Listed ==
    /\ t.pc = "listing"
    /\ LET list == Listing
           c == IF t.c # 0 /\ list[t.c] # "resolved" THEN t.c ELSE Select(list, 0)
       IN IF t.c # 0 /\ t.c \notin DOMAIN list
          THEN Ready(t.c, "unknown") /\ UNCHANGED rowVars
          ELSE CASE c = 0 -> t' = [t EXCEPT !.pc = "creating"] /\ UNCHANGED rowVars
                 [] c # 0 /\ list[c] = "resolved" ->
                       t' = [t EXCEPT !.pc = "opening", !.c = c] /\ UNCHANGED rowVars
                 [] OTHER -> Upsert(c) /\ Ready(c, list[c])
    /\ UNCHANGED <<convs, reopen, spent, heard, posts, maps, lost, outVars, mapped, runs>>

ReopenAnswered ==
    /\ t.pc = "opening" /\ Opens(t.c) /\ Upsert(t.c) /\ Ready(t.c, "open")
    /\ UNCHANGED <<reopen, spent, heard, posts, maps, lost, outVars, mapped, runs>>

ConversationCreated ==
    /\ t.pc = "creating" /\ Creates
    /\ \/ Upsert(Len(convs) + 1) /\ Ready(Len(convs) + 1, "open")
       \/ t' = IdleTask /\ UNCHANGED rowVars
    /\ UNCHANGED <<reopen, spent, heard, posts, maps, lost, outVars, mapped, runs>>

Post(c, kind) ==
    posts' = Append(posts, [conv |-> c, p |-> t.e.p, text |-> t.e.text, kind |-> kind, gone |-> FALSE])

Posted ==
    /\ t.pc = "posting" /\ There(t.c) /\ Post(t.c, "message")
    /\ t' = [t EXCEPT !.pc = "posted", !.post = Len(posts) + 1]
    /\ UNCHANGED <<mappingVars, heard, maps, lost, outVars, mapped, runs>>

\* _recreate_chatwoot_conversation, once: any conversation that is not
\* resolved, or a new one, also when the listing fails.
PostRefused ==
    /\ t.pc = "posting" /\ ~There(t.c)
    /\ t' = IF t.again THEN IdleTask ELSE [t EXCEPT !.pc = "recovering", !.again = TRUE]
    /\ UNCHANGED <<mappingVars, heard, posts, maps, lost, outVars, mapped, runs>>

Recovered ==
    /\ t.pc = "recovering"
    /\ LET others == {c \in DOMAIN Listing : Open(c)}
       IN \/ \E c \in others : Upsert(c) /\ Ready(c, "open")
          \/ t' = [t EXCEPT !.pc = "creating"] /\ UNCHANGED rowVars
    /\ UNCHANGED <<convs, reopen, spent, heard, posts, maps, lost, outVars, mapped, runs>>

\* _persist_mapping leaves a row that is there alone.
Mapped ==
    /\ t.pc = "posted"
    /\ Write([conv |-> t.c, p |-> t.e.p, post |-> t.post, text |-> t.e.text, gone |-> FALSE])
    /\ t' = IdleTask
    /\ UNCHANGED <<mappingVars, heard, posts, lost, outVars, runs>>

\* _handle_platform_message_edit_as_reply: a reply in the conversation of the
\* original, then its mapping and the new text of the original.
EditPosted ==
    /\ t.pc = "editing" /\ There(t.m.conv) /\ Post(t.m.conv, "edit")
    /\ t' = [t EXCEPT !.pc = "edited", !.post = Len(posts) + 1]
    /\ UNCHANGED <<mappingVars, heard, maps, lost, outVars, mapped, runs>>
EditMapped ==
    /\ t.pc = "edited"
    /\ \E m \in maps : SameRow(m, t.m) /\ Write([m EXCEPT !.text = t.e.text])
    /\ t' = IdleTask
    /\ UNCHANGED <<mappingVars, heard, posts, lost, outVars, runs>>

\* _handle_platform_message_deleted: what Chatwoot no longer has is deleted.
\* The mapping is written as it was read before the request.
DeleteAnswered ==
    /\ t.pc = "deleting"
    /\ posts' = [posts EXCEPT ![t.m.post].gone = TRUE]
    /\ Write([t.m EXCEPT !.gone = TRUE])
    /\ t' = IdleTask
    /\ UNCHANGED <<mappingVars, heard, lost, outVars, runs>>

IngestFails ==
    /\ t.pc # "idle"
    /\ lost' = IF t.pc = "posted" THEN [lost EXCEPT ![t.e.p] = @ + 1] ELSE lost
    /\ t' = IdleTask
    /\ UNCHANGED <<mappingVars, heard, posts, maps, outVars, mapped, runs>>

----------------------------------------------------------------------------
(* handle_chatwoot_webhook.                                                *)

Hook(kind, a, c, text) == [kind |-> kind, a |-> a, c |-> c, text |-> text]
PostOf(a) == {k \in DOMAIN posts : posts[k].p = a /\ posts[k].kind = "message"}

\* An agent writes an answer, edits it or deletes it.
AgentActs ==
    /\ \E a \in Answers :
          \/ /\ PostOf(a) = {}
             /\ \E c \in DOMAIN convs :
                   /\ There(c)
                   /\ posts' = Append(posts, [conv |-> c, p |-> a, text |-> 1,
                                              kind |-> "message", gone |-> FALSE])
                   /\ hooks' = hooks \union {Hook("created", a, c, 1)}
          \/ \E k \in PostOf(a) :
                /\ ~posts[k].gone
                /\ \/ /\ posts[k].text < MaxText
                      /\ posts' = [posts EXCEPT ![k].text = @ + 1]
                      /\ hooks' = hooks \union {Hook("edited", a, posts[k].conv, posts[k].text + 1)}
                   \/ /\ posts' = [posts EXCEPT ![k].gone = TRUE]
                      /\ hooks' = hooks \union {Hook("deleted", a, posts[k].conv, posts[k].text)}
    /\ UNCHANGED <<mappingVars, heard, maps, t, lost, w, sent, spoiled, mapped, runs>>

AgentSetsStatus ==
    /\ AgentSets
    /\ hooks' = hooks \union {Hook("resolved", "none", c, 0) :
                                 c \in {d \in DOMAIN convs : convs'[d] = "resolved" /\ ~Resolved(d)}}
    /\ UNCHANGED <<inVars, w, sent, spoiled, mapped, runs>>

Mine(h) == {m \in maps : m.p = h.a /\ m.conv = h.c}
Waiting(kind, h) == w.pc = "idle" /\ runs.out < MaxWebhooks /\ h \in hooks /\ h.kind = kind
Running == runs' = [runs EXCEPT !.out = @ + 1]
Dealt(h) == hooks' = hooks \ {h}

\* _is_duplicate_outbound_delivery: the answer is mapped in its conversation.
AlreadySent(h) == Mine(h) # {}

\* _persist_outbound_conversation_mapping, then the look at what was sent.
CreatedTaken(h) ==
    /\ Waiting("created", h) /\ Running /\ Upsert(h.c)
    /\ IF AlreadySent(h) THEN w' = w /\ Dealt(h)
       ELSE w' = [IdleRun EXCEPT !.pc = "sending", !.h = h] /\ hooks' = hooks
    /\ UNCHANGED <<convs, reopen, spent, inVars, sent, spoiled, mapped>>

AnswerMapping(h) ==
    [conv |-> h.c, p |-> h.a, post |-> CHOOSE k \in PostOf(h.a) : TRUE, text |-> 1, gone |-> FALSE]

\* A confirmed delivery maps the answer by itself.
AnswerSent ==
    /\ w.pc = "sending"
    /\ sent' = [sent EXCEPT ![w.h.a] = @ + 1]
    /\ IF Mirrors THEN Write(AnswerMapping(w.h)) /\ Dealt(w.h) /\ w' = IdleRun
       ELSE w' = [w EXCEPT !.pc = "sent"] /\ KeepMaps /\ hooks' = hooks
    /\ UNCHANGED <<mappingVars, heard, posts, t, lost, spoiled, runs>>

\* _persist_outbound_mappings: nothing, when the row is no longer active.
AnswerMapped ==
    /\ w.pc = "sent"
    /\ IF w.h.c \in active
       THEN Write(AnswerMapping(w.h)) /\ spoiled' = spoiled
       ELSE KeepMaps /\ spoiled' = [spoiled EXCEPT ![w.h.a] = @ + 1]
    /\ Dealt(w.h) /\ w' = IdleRun
    /\ UNCHANGED <<mappingVars, heard, posts, t, lost, sent, runs>>

\* _handle_chatwoot_message_updated and _deleted, up to the platform.
ChangeTaken(h) ==
    /\ (Waiting("edited", h) \/ Waiting("deleted", h)) /\ Running
    /\ LET due == {m \in Mine(h) : IF h.kind = "edited" THEN m.text # h.text ELSE ~m.gone}
       IN \/ due = {} /\ Dealt(h) /\ w' = w
          \/ \E m \in due :
                /\ w' = [pc |-> IF h.kind = "edited" THEN "editing" ELSE "deleting", h |-> h, m |-> m]
                /\ hooks' = hooks
    /\ UNCHANGED <<mappingVars, inVars, sent, spoiled, mapped>>

\* The platform carries it out, and mirrors it.
ChangeMade ==
    /\ w.pc \in {"editing", "deleting"}
    /\ w' = [w EXCEPT !.pc = IF @ = "editing" THEN "edited" ELSE "deleted"]
    /\ heard' = IF ~Mirrors THEN heard ELSE heard \union
          {[p |-> w.h.a, text |-> w.h.text, gone |-> w.pc = "deleting", own |-> TRUE]}
    /\ UNCHANGED <<mappingVars, posts, maps, t, lost, hooks, sent, spoiled, mapped, runs>>

\* Mutant: the mapping keeps the text the answer was sent with.
ChangeForgotten ==
    /\ w.pc \in {"edited", "deleted"}
    /\ Dealt(w.h) /\ w' = IdleRun
    /\ UNCHANGED <<mappingVars, inVars, sent, spoiled, mapped, runs>>

\* The mapping is written as it was read before the request.
ChangeMapped ==
    /\ w.pc \in {"edited", "deleted"}
    /\ Write(IF w.pc = "edited" THEN [w.m EXCEPT !.text = w.h.text] ELSE [w.m EXCEPT !.gone = TRUE])
    /\ Dealt(w.h) /\ w' = IdleRun
    /\ UNCHANGED <<mappingVars, heard, posts, t, lost, sent, spoiled, runs>>

\* An error is reported, and the webhook repeated or given up; so is one
\* whose process ends.
RunFails ==
    /\ w.pc # "idle"
    /\ spoiled' = IF w.pc \in {"sent", "edited", "deleted"}
                  THEN [spoiled EXCEPT ![w.h.a] = @ + 1] ELSE spoiled
    /\ hooks' \in {hooks, hooks \ {w.h}}
    /\ w' = IdleRun
    /\ UNCHANGED <<mappingVars, inVars, sent, mapped, runs>>

\* _handle_conversation_status_change.
ResolvedTaken(h) ==
    /\ Waiting("resolved", h) /\ Running /\ Dealt(h)
    /\ active' = active \ {h.c}
    /\ UNCHANGED <<convs, reopen, rows, spent, inVars, w, sent, spoiled, mapped>>

----------------------------------------------------------------------------
Ingestion ==
    IngestBegins \/ Listed \/ ReopenAnswered \/ ConversationCreated \/ Posted \/ PostRefused
    \/ Recovered \/ Mapped \/ EditPosted \/ EditMapped \/ DeleteAnswered \/ IngestFails
Run ==
    \/ \E h \in hooks : CreatedTaken(h) \/ ChangeTaken(h) \/ ResolvedTaken(h)
    \/ AnswerSent \/ AnswerMapped \/ ChangeMade \/ ChangeMapped \/ RunFails

LifecycleNext == PeerActs \/ AgentActs \/ AgentSetsStatus \/ Ingestion \/ Run

LifecycleSpec == LifecycleInit /\ [][LifecycleNext]_lifecycleVars

----------------------------------------------------------------------------
\* A message is in Chatwoot once for each ingestion that posted it and ended
\* before it was mapped (lost), and one that mapped it, whatever happened to
\* its conversation; and an answer was sent once for each run that ended
\* without the mapping (spoiled), and one that mapped it.
CopiesExcused ==
    /\ \A p \in Msgs : Cardinality(PostOf(p)) <= 1 + lost[p]
    /\ \A a \in Answers : sent[a] <= 1 + spoiled[a]

\* A message goes into a resolved conversation only when it was not resolved
\* at the last look.
LooksFirst ==
    /\ Len(posts') > Len(posts) /\ posts'[Len(posts')].p \in Msgs
    /\ posts'[Len(posts')].kind = "message" /\ Resolved(posts'[Len(posts')].conv)
    => t.saw # "resolved"

\* An agent's own edit does not come back to agents as an edit of the
\* customer, unless the mirrored event met the run that made it before the
\* mapping, the run ended there, or a later edit was already mapped.
OwnEditStaysOut ==
    Len(posts') > Len(posts) /\ posts'[Len(posts')].kind = "edit" => t.excused
=============================================================================
