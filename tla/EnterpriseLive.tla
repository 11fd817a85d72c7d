---------------------------- MODULE EnterpriseLive ----------------------------
(***************************************************************************)
(* The live conversations of the Enterprise bots (application/enterprise): *)
(* a customer enters a route, writes to its Chatwoot conversation, leaves  *)
(* and comes back; agents answer through webhooks, and what they write     *)
(* while the customer is away is kept and handed over on return.           *)
(*                                                                         *)
(* The bot's update handler (h) and the webhook run (w) are tasks of one   *)
(* event loop, each with a database session of its own: it works on copies *)
(* of the rows it has read, writes the columns it changed when it commits, *)
(* and between flush and commit holds the row's lock, on which the other's *)
(* flush fails (PostgreSQL with lock_timeout).  Every await is a step.     *)
(*                                                                         *)
(* One customer and one route.  bale.py and telegram.py share this machine *)
(* line by line; it is translated from bale.py, and EnterpriseBale and     *)
(* EnterpriseTelegram add what differs.                                    *)
(***************************************************************************)
EXTENDS Naturals, Sequences, FiniteSets

CONSTANTS
    Msgs,          \* what agents write
    MaxConvs,      \* bound: Chatwoot conversations
    MaxOperator    \* bound: resolutions, reopenings, deletions, setting changes

\* What the constants have to be; the module that gives them values assumes it.
LiveAssumption == MaxConvs \in Nat \ {0} /\ MaxOperator \in Nat

VARIABLES
    \* Committed rows.
    ustate,    \* current_state of the customer
    sess,      \* sessions of the route, in order of creation
    newest,    \* their places by updated_at, the latest first
    pend,      \* pending messages, in order of creation; late: history
    \* Settings and Chatwoot.
    inbox,     \* the inbox the route is linked to
    reopen,    \* Reopen resolved conversation
    remote,    \* the conversations: inbox and status
    jobs,      \* queued webhooks
    \* The two tasks.
    h, w,
    \* What the customer sees, and history.
    sent,      \* times each message was sent to the customer
    undone,    \* messages sent by a task that then failed to commit
    spent      \* bound: what operators and agents did

liveVars == <<ustate, sess, newest, pend, inbox, reopen, remote, jobs, h, w,
              sent, undone, spent>>
rowVars  == <<ustate, sess, newest, pend>>
seenVars == <<sent, undone>>
agentVars == <<inbox, reopen, spent>>

Live == "live"      \* the state of a customer in the route
Statuses == {"open", "closed_by_user", "resolved"}

Row == [inbox : 1..2, conv : 1..MaxConvs, status : Statuses,
        present : BOOLEAN, accepted : BOOLEAN, noticed : BOOLEAN,
        unread : 0..Cardinality(Msgs)]

NoHandler == [pc |-> "idle", s |-> 0, stage |-> 0, goal |-> "none",
              inbox |-> 0, reopen |-> FALSE, mine |-> <<>>, base |-> <<>>,
              locked |-> {}, rows |-> {}, done |-> {}, next |-> "none",
              verified |-> "no", closed |-> {}]
NoRun == [pc |-> "idle", s |-> 0, m |-> "none", mine |-> <<>>, base |-> <<>>]

----------------------------------------------------------------------------
(* Rows and transactions.                                                  *)

\* SQLAlchemy writes the columns a task has changed since it read the row.
Merge(row, base, mine) ==
    [f \in DOMAIN row |-> IF mine[f] # base[f] THEN mine[f] ELSE row[f]]

With(copies, i, row) ==
    [k \in DOMAIN copies \union {i} |-> IF k = i THEN row ELSE copies[k]]

Load(hh, i) ==
    IF i \in DOMAIN hh.mine THEN hh
    ELSE [hh EXCEPT !.mine = With(@, i, sess[i]), !.base = With(@, i, sess[i])]

\* EnterpriseBaleSessionRepository.save: the flush takes the row's lock.
Save(hh, i, row) ==
    [hh EXCEPT !.mine = With(@, i, row),
               !.locked = IF row # hh.base[i] THEN @ \union {i} ELSE @]

\* The sessions as the handler's own queries order them: those it made, those it
\* flushed, and the others.
Ids(hh) == DOMAIN sess \union DOMAIN hh.mine
Order(hh) ==
    [i \in Ids(hh) |->
        CASE i \notin DOMAIN sess -> Cardinality({j \in DOMAIN hh.mine : j > i})
          [] i \in DOMAIN sess /\ i \in hh.locked -> MaxConvs + newest[i]
          [] OTHER -> 2 * MaxConvs + newest[i]]
First(S, order) == CHOOSE i \in S : \A j \in S : order[i] <= order[j]
Places(order) ==
    [i \in DOMAIN order |-> Cardinality({j \in DOMAIN order : order[j] <= order[i]})]

StatusOf(hh, i) ==
    IF i \in hh.locked \/ i \notin DOMAIN sess THEN hh.mine[i].status ELSE sess[i].status
InboxOf(hh, i) == IF i \in DOMAIN hh.mine THEN hh.mine[i].inbox ELSE sess[i].inbox

\* What a commit writes of the sessions.
WritesSessions(hh) ==
    LET dirty == {i \in DOMAIN hh.mine : hh.mine[i] # hh.base[i]}
    IN /\ sess' = [i \in Ids(hh) |->
             IF i \notin DOMAIN hh.mine THEN sess[i]
             ELSE IF i \notin DOMAIN sess THEN hh.mine[i]
             ELSE Merge(sess[i], hh.base[i], hh.mine[i])]
       /\ newest' = Places(Order([hh EXCEPT !.locked = dirty]))

\* db.commit() at the end of handle_platform_update.
Committed(hh) ==
    /\ WritesSessions(hh)
    /\ ustate' = hh.next
    /\ pend' = [k \in DOMAIN pend |->
          IF k \in hh.done THEN [pend[k] EXCEPT !.status = "delivered"]
          ELSE pend[k]]
    /\ h' = NoHandler

\* The handler comes to its next await.  Before a conversation is created,
\* _get_or_create_contact commits (contact_identity.resolve): what the handler
\* has changed of the sessions stays whatever happens next, its locks are
\* released and its copies expire.  It has changed nothing else yet.
Proceeds(hh) ==
    IF hh.pc = "creating"
    THEN WritesSessions(hh) /\ h' = [hh EXCEPT !.mine = <<>>, !.base = <<>>, !.locked = {}]
    ELSE h' = hh /\ UNCHANGED <<sess, newest>>

\* An exception ends the handler: the transaction is rolled back, and the
\* poll loop hands the same update over again (a new arrival of its text).
HandlerFails ==
    /\ h.pc # "idle"
    /\ undone' = undone \union {pend[k].m : k \in h.done}
    /\ h' = NoHandler
    /\ UNCHANGED <<rowVars, agentVars, remote, jobs, w, sent>>

----------------------------------------------------------------------------
(* Choosing the conversation of a customer's message.                      *)

\* _active_live_session_for_state, without and with its fallback.
ActiveSession ==
    LET unresolved == {i \in DOMAIN sess : sess[i].status # "resolved"}
    IN IF ustate # Live \/ DOMAIN sess = {} THEN 0
       ELSE First(IF unresolved # {} THEN unresolved ELSE DOMAIN sess, newest)

Creating(hh) == [hh EXCEPT !.pc = "creating", !.stage = 2]

\* _resolve_reusable_route_session up to its request.
Verify(hh, otherwise) ==
    IF hh.mine[hh.s].status = "resolved" /\ ~hh.reopen THEN otherwise
    ELSE [hh EXCEPT !.pc = "checking"]

\* _get_or_open_route_session up to its first request: the session it finds, and
\* what it makes of it.
RouteSessionOf(hh) ==
    LET unresolved == {i \in Ids(hh) : StatusOf(hh, i) # "resolved"}
    IN IF unresolved # {} THEN First(unresolved, Order(hh))
       ELSE IF hh.reopen /\ Ids(hh) # {} THEN First(Ids(hh), Order(hh)) ELSE 0
Reusing(hh, c) ==
    IF c = 0 THEN Creating(hh)
    ELSE IF InboxOf(hh, c) # hh.inbox THEN Creating(hh)
    ELSE Verify([Load(hh, c) EXCEPT !.s = c, !.stage = 2], Creating(hh))
OpenRoute(hh) == Reusing(hh, RouteSessionOf(hh))

\* _ensure_forwardable_route_session, first half of a forward.
Forwardable(hh) ==
    IF hh.mine[hh.s].inbox = hh.inbox
    THEN Verify([hh EXCEPT !.stage = 1], OpenRoute(hh))
    ELSE OpenRoute(hh)

\* _enter_live_route once it has its session.
Entering(hh) ==
    LET kept == {k \in DOMAIN pend : pend[k].s = hh.s /\ pend[k].status = "pending"}
    IN [hh EXCEPT !.next = Live, !.rows = kept,
                  !.pc = IF kept = {} THEN "replying" ELSE "accepting"]

\* The session is settled: _get_or_open_route_session marks the customer
\* present, then the message is posted or the route is entered.
Chosen(hh, verified) ==
    LET i == hh.s
        kept == IF hh.stage = 1 THEN hh
                ELSE Save(hh, i, [hh.mine[i] EXCEPT !.present = TRUE, !.status = "open"])
        ready == [kept EXCEPT !.verified = verified]
    IN IF hh.goal = "enter" THEN Entering(ready)
       ELSE [ready EXCEPT !.pc = "posting"]

Begin(goal, next) ==
    [NoHandler EXCEPT !.goal = goal, !.next = next, !.inbox = inbox,
        !.reopen = reopen,
        !.closed = {c \in DOMAIN remote : remote[c].status = "resolved"}]

\* handle_platform_update for a customer in a live session: presence, then a
\* menu label or command is refused, Back leaves, and the rest is forwarded.
Heard(i) ==
    LET mine == [Load(Begin("forward", ustate), i) EXCEPT !.s = i]
    IN IF sess[i].present THEN mine
       ELSE Save(mine, i, [sess[i] EXCEPT !.present = TRUE])
Refusing(hh) == [hh EXCEPT !.pc = "replying"]
Leaving(hh, root) ==
    [hh EXCEPT !.pc = "replying", !.next = root,
        !.mine[hh.s] = [@ EXCEPT !.present = FALSE, !.status = "closed_by_user"]]
LiveUpdate(text, root) ==
    /\ h.pc = "idle" /\ ActiveSession # 0
    /\ \/ text = "back" /\ Proceeds(Leaving(Heard(ActiveSession), root))
       \/ text = "label" /\ Proceeds(Refusing(Heard(ActiveSession)))
       \/ text \notin {"back", "label"} /\ Proceeds(Forwardable(Heard(ActiveSession)))
    /\ UNCHANGED <<ustate, pend, agentVars, remote, jobs, w, seenVars>>

\* The root menu's route button.
EnterRoute ==
    /\ h.pc = "idle"
    /\ Proceeds(OpenRoute(Begin("enter", ustate)))
    /\ UNCHANGED <<ustate, pend, agentVars, remote, jobs, w, seenVars>>

\* The last reply of a handler has been sent and it commits.
Replied ==
    /\ h.pc = "replying"
    /\ Committed(h)
    /\ UNCHANGED <<agentVars, remote, jobs, w, seenVars>>

\* Mutant: a resolved conversation passes for an open one.
StatusAnsweredLoosely ==
    /\ h.pc = "checking"
    /\ remote[h.mine[h.s].conv].status # "missing"
    /\ h' = Chosen(h, "open")
    /\ UNCHANGED <<rowVars, agentVars, remote, jobs, w, seenVars>>

\* _get_remote_route_session_status answers: no status at all when the list
\* of the contact's conversations fails, "missing" when this one is not in it.
StatusAnswered ==
    /\ h.pc = "checking"
    /\ LET i == h.s
           mine == h.mine[i]
           status == remote[mine.conv].status
           stale == Save(h, i, [mine EXCEPT !.status = "resolved", !.present = FALSE])
       IN \/ /\ mine.status # "resolved"
             /\ Proceeds(Chosen(h, "blind"))
          \/ /\ status = "open"
             /\ Proceeds(Chosen(IF mine.status # "resolved" THEN h
                                ELSE Save(h, i, [mine EXCEPT !.status = "open"]), "open"))
          \/ /\ status = "resolved" /\ h.reopen
             /\ Proceeds([h EXCEPT !.pc = "toggling"])
          \/ /\ status = "missing" \/ (status = "resolved" /\ ~h.reopen)
             /\ Proceeds(IF h.stage = 1 THEN OpenRoute(stale) ELSE Creating(stale))
    /\ UNCHANGED <<ustate, pend, agentVars, remote, jobs, w, seenVars>>

\* toggle_conversation_status succeeds.
Reopened ==
    /\ h.pc = "toggling"
    /\ remote[h.mine[h.s].conv].status # "missing"
    /\ remote' = [remote EXCEPT ![h.mine[h.s].conv].status = "open"]
    /\ h' = Chosen(Save(h, h.s, [h.mine[h.s] EXCEPT !.status = "open", !.present = TRUE]),
                   "reopened")
    /\ UNCHANGED <<rowVars, agentVars, jobs, w, seenVars>>

\* _get_or_open_route_session has its contact and creates a conversation.
Created ==
    /\ h.pc = "creating" /\ Len(remote) < MaxConvs
    /\ LET i == Cardinality(Ids(h)) + 1
           c == Len(remote) + 1
           row == [inbox |-> h.inbox, conv |-> c, status |-> "open", present |-> TRUE,
                   accepted |-> FALSE, noticed |-> FALSE, unread |-> 0]
       IN /\ remote' = Append(remote, [inbox |-> h.inbox, status |-> "open"])
          /\ h' = Chosen([h EXCEPT !.s = i, !.mine = With(@, i, row),
                             !.base = With(@, i, row)], "fresh")
    /\ UNCHANGED <<rowVars, agentVars, jobs, w, seenVars>>

\* _forward_customer_message_to_chatwoot: the message is posted, and Chatwoot
\* opens the conversation when it was resolved.
Posted ==
    /\ h.pc = "posting"
    /\ remote[h.mine[h.s].conv].status # "missing"
    /\ remote' = [remote EXCEPT ![h.mine[h.s].conv].status = "open"]
    /\ Committed([h EXCEPT !.mine[h.s] = [@ EXCEPT !.status = "open"]])
    /\ UNCHANGED <<agentVars, jobs, w, seenVars>>

\* Posting meets a conversation that is gone: _recreate_route_session, once.
PostedNowhere ==
    /\ h.pc = "posting" /\ h.goal = "forward"
    /\ remote[h.mine[h.s].conv].status = "missing"
    /\ LET gone == Save(h, h.s, [h.mine[h.s] EXCEPT !.status = "resolved",
                                                    !.present = FALSE])
       IN Proceeds(OpenRoute([gone EXCEPT !.goal = "repost"]))
    /\ UNCHANGED <<ustate, pend, agentVars, remote, jobs, w, seenVars>>

\* _enter_live_route hands over what was kept: first the accepted notice,
\* whose failure is swallowed, or the resume text.
HandoverBegins ==
    /\ h.pc = "accepting"
    /\ \E ok \in BOOLEAN :
          h' = [h EXCEPT !.pc = "draining", !.mine[h.s].accepted = @ \/ ok]
    /\ UNCHANGED <<rowVars, agentVars, remote, jobs, w, seenVars>>

\* _deliver_operator_payload: one send, whose refusal it swallows.
SentOnceMore(m) == [sent EXCEPT ![m] = IF @ = 2 THEN 2 ELSE @ + 1]

\* Mutant: a message handed over is not marked.
HandedOverUnmarked ==
    /\ h.pc = "draining" /\ h.rows # {}
    /\ LET k == CHOOSE i \in h.rows : \A j \in h.rows : i <= j
       IN /\ sent' = SentOnceMore(pend[k].m)
          /\ h' = [h EXCEPT !.rows = @ \ {k}]
    /\ UNCHANGED <<rowVars, agentVars, remote, jobs, w, undone>>

HandedOver ==
    /\ h.pc = "draining" /\ h.rows # {}
    /\ LET k == CHOOSE i \in h.rows : \A j \in h.rows : i <= j
       IN /\ sent' = SentOnceMore(pend[k].m)
          /\ h' = [h EXCEPT !.rows = @ \ {k}, !.done = @ \union {k}]
    /\ UNCHANGED <<rowVars, agentVars, remote, jobs, w, undone>>

HandoverEnds ==
    /\ h.pc = "draining" /\ h.rows = {}
    /\ Committed([h EXCEPT !.mine[h.s] = [@ EXCEPT !.noticed = FALSE, !.unread = 0]])
    /\ UNCHANGED <<agentVars, remote, jobs, w, seenVars>>

----------------------------------------------------------------------------
(* receive_chatwoot_webhook, run by the durable queue one at a time.       *)

\* _is_chatwoot_status_event and _extract_chatwoot_status_name.
StatusEvent(j) == j.m = "resolved"

SessionOf(c) == {i \in DOMAIN sess : sess[i].conv = c}

RunEnds(left) == jobs' = left /\ w' = NoRun
\* A run that fails is tried again after the others (its ten attempts are
\* DeliveryQueue's subject and not counted here).
Requeued == Append(Tail(jobs), Head(jobs))

\* Mutant: the webhook does not write the session row, so nothing stops it.
BlockedNever(i, base, mine) == FALSE

\* The run writes its session row; the handler's lock makes the flush fail.
Blocked(i, base, mine) == i \in h.locked /\ mine # base
RunCommits(i, base, mine) ==
    /\ sess' = [sess EXCEPT ![i] = Merge(@, base, mine)]
    /\ newest' = IF mine = base THEN newest ELSE Places([newest EXCEPT ![i] = 0])
    /\ RunEnds(Tail(jobs))

\* Status events, and what is ignored: no session, or a resolved one.
WebhookIgnored ==
    /\ w.pc = "idle" /\ jobs # <<>>
    /\ LET j == Head(jobs)
       IN \/ SessionOf(j.conv) = {}
          \/ ~StatusEvent(j) /\ \E i \in SessionOf(j.conv) : sess[i].status = "resolved"
          \/ \E i \in SessionOf(j.conv) : ~sess[i].present /\ \E k \in DOMAIN pend :
                pend[k].s = i /\ pend[k].m = j.m
    /\ RunEnds(Tail(jobs))
    /\ UNCHANGED <<rowVars, agentVars, remote, h, seenVars>>

WebhookResolves ==
    /\ w.pc = "idle" /\ jobs # <<>> /\ StatusEvent(Head(jobs))
    /\ \E i \in SessionOf(Head(jobs).conv) :
          LET mine == [sess[i] EXCEPT !.status = "resolved", !.present = FALSE]
          IN IF Blocked(i, sess[i], mine)
             THEN RunEnds(Requeued) /\ UNCHANGED <<sess, newest>>
             ELSE RunCommits(i, sess[i], mine)
    /\ UNCHANGED <<ustate, pend, agentVars, remote, h, seenVars>>

\* A message for a customer who is away, or who is there.
WebhookTaken ==
    /\ w.pc = "idle" /\ jobs # <<>> /\ ~StatusEvent(Head(jobs))
    /\ \E i \in SessionOf(Head(jobs).conv) :
          /\ sess[i].status # "resolved"
          /\ sess[i].present \/ \A k \in DOMAIN pend :
                ~(pend[k].s = i /\ pend[k].m = Head(jobs).m)
          /\ w' = [pc |-> IF sess[i].present THEN "accepting" ELSE "noticing",
                   s |-> i, m |-> Head(jobs).m, base |-> sess[i],
                   mine |-> IF sess[i].present THEN sess[i]
                            ELSE [sess[i] EXCEPT !.unread = @ + 1]]
    /\ UNCHANGED <<rowVars, agentVars, remote, jobs, h, seenVars>>

\* The unread notice has been sent, or failed, or was sent before; the
\* message joins the rows that wait for the customer's return.  A session that
\* was given up meanwhile will not be entered: what waits in it, waits late.
Abandoned(s) == sess[s].status = "resolved"
Belated(s) ==
    [k \in DOMAIN pend |-> [pend[k] EXCEPT !.late = @ \/ (pend[k].s = s /\ Abandoned(s))]]
Kept ==
    /\ w.pc = "noticing"
    /\ \E ok \in BOOLEAN :
          LET mine == [w.mine EXCEPT !.noticed = @ \/ ok]
          IN IF Blocked(w.s, w.base, mine)
             THEN RunEnds(Requeued) /\ UNCHANGED <<sess, newest, pend>>
             ELSE /\ RunCommits(w.s, w.base, mine)
                  /\ pend' = Append(Belated(w.s), [m |-> w.m, s |-> w.s, status |-> "pending",
                                                   late |-> ustate = Live \/ Abandoned(w.s)])
    /\ UNCHANGED <<ustate, agentVars, remote, h, seenVars>>

\* _ensure_accepted_notice.
Accepted ==
    /\ w.pc = "accepting"
    /\ \E ok \in BOOLEAN :
          w' = [w EXCEPT !.pc = "delivering", !.mine.accepted = @ \/ ok]
    /\ UNCHANGED <<rowVars, agentVars, remote, jobs, h, seenVars>>

\* The operator's payload has been sent, then the session row is saved.
Delivered ==
    /\ w.pc = "delivering"
    /\ LET blocked == Blocked(w.s, w.base, w.mine)
       IN /\ sent' = SentOnceMore(w.m)
          /\ undone' = IF blocked THEN undone \union {w.m} ELSE undone
          /\ IF blocked THEN RunEnds(Requeued) /\ UNCHANGED <<sess, newest>>
             ELSE RunCommits(w.s, w.base, w.mine)
    /\ UNCHANGED <<ustate, pend, agentVars, remote, h>>

\* The process dies: both tasks are lost, the queued webhook is run again.
Crash ==
    /\ h.pc # "idle" \/ w.pc # "idle"
    /\ undone' = undone \union {pend[k].m : k \in h.done}
    /\ h' = NoHandler /\ w' = NoRun
    /\ UNCHANGED <<rowVars, agentVars, remote, jobs, sent>>

----------------------------------------------------------------------------
(* Agents and operators.                                                   *)

Said == {m \in Msgs : \/ \E k \in DOMAIN jobs : jobs[k].m = m
                      \/ sent[m] > 0
                      \/ \E k \in DOMAIN pend : pend[k].m = m}

AgentWrites ==
    /\ \E c \in DOMAIN remote, m \in Msgs \ Said :
          /\ remote[c].status # "missing"
          /\ jobs' = Append(jobs, [conv |-> c, m |-> m])
    /\ spent < MaxOperator + Cardinality(Msgs) /\ spent' = spent + 1
    /\ UNCHANGED <<rowVars, inbox, reopen, remote, h, w, seenVars>>

\* The agent resolves, reopens or deletes a conversation.  Only the first
\* sends a webhook that the code heeds.
AgentSets ==
    /\ spent < MaxOperator /\ spent' = spent + 1
    /\ \E c \in DOMAIN remote, status \in {"open", "resolved", "missing"} :
          /\ remote[c].status \notin {status, "missing"}
          /\ remote' = [remote EXCEPT ![c].status = status]
          /\ jobs' = IF status = "resolved"
                     THEN Append(jobs, [conv |-> c, m |-> "resolved"]) ELSE jobs
          /\ h' = [h EXCEPT !.closed = @ \ {c}]
    /\ UNCHANGED <<rowVars, inbox, reopen, w, seenVars>>

\* The route is linked to another inbox, or its reopen switch is set.
Reconfigured ==
    /\ spent < MaxOperator /\ spent' = spent + 1
    /\ \/ inbox' = 3 - inbox /\ UNCHANGED reopen
       \/ reopen' = ~reopen /\ UNCHANGED inbox
    /\ UNCHANGED <<rowVars, remote, jobs, h, w, seenVars>>

----------------------------------------------------------------------------
LiveInit(root) ==
    /\ ustate = root
    /\ sess = <<>> /\ newest = <<>> /\ pend = <<>>
    /\ inbox = 1 /\ reopen \in BOOLEAN
    /\ remote = <<>> /\ jobs = <<>>
    /\ h = NoHandler /\ w = NoRun
    /\ sent = [m \in Msgs |-> 0] /\ undone = {}
    /\ spent = 0

Agents == AgentWrites \/ AgentSets \/ Reconfigured
Webhook == WebhookIgnored \/ WebhookResolves \/ WebhookTaken \/ Kept \/ Accepted \/ Delivered
Handler ==
    Replied \/ HandlerFails \/ StatusAnswered \/ Reopened \/ Created \/ Posted
    \/ PostedNowhere \/ HandoverBegins \/ HandedOver \/ HandoverEnds

\* A bot whose menu is the root alone.
LiveNext ==
    \/ ActiveSession = 0 /\ EnterRoute
    \/ \E text \in {"back", "label", "text"} : LiveUpdate(text, "root")
    \/ Handler \/ Webhook \/ Crash \/ Agents

LiveSpec == LiveInit("root") /\ [][LiveNext]_liveVars

----------------------------------------------------------------------------
(* Properties.                                                             *)

\* A conversation that was resolved when the customer's update was taken is
\* posted to only after it was reopened under the policy, or when Chatwoot
\* could not tell its status.
ResolvedNotReused ==
    [][Posted /\ h.mine[h.s].conv \in h.closed =>
          \/ h.verified = "blind"
          \/ h.reopen /\ h.verified = "reopened"]_liveVars

\* What was kept for a customer in the menus does not wait behind his back
\* once he has returned: a webhook that overlaps the handover fails and is run
\* again.  (Kept while he is in the route, by a webhook that read the session
\* before he entered it or after a late resolution, a message does wait; so does
\* one kept for a session that was given up while the webhook ran, because the
\* handler committed that before it created a conversation; and a session of the
\* inbox the route was linked to before is not entered.)
HandedOverOnReturn ==
    (\A c \in DOMAIN remote : remote[c].inbox = inbox) =>
        \A k \in DOMAIN pend :
            pend[k].status = "pending" /\ sess[pend[k].s].present => pend[k].late

\* An agent's message is sent to the customer twice only when the task that
\* sent it could not commit.
RepeatsAreRetries == \A m \in DOMAIN sent : sent[m] > 1 => m \in undone
=============================================================================
