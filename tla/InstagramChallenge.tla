-------------------------- MODULE InstagramChallenge --------------------------
(***************************************************************************)
(* How an Instagram account logs in (plugins/instagram/connector.py):      *)
(* connect, called by the poll task again and again and by the panel, and  *)
(* the challenge the panel starts, answers with a code, or resumes after   *)
(* an approval.  connect and the beginning of a challenge hold the lock of *)
(* the session; the challenge itself is a thread that runs without it and  *)
(* writes what it comes to into the session object.                        *)
(*                                                                         *)
(* The session object is s; Reconnect makes a new one, and what is under   *)
(* way with the old one goes on without effect on the new one.             *)
(***************************************************************************)
EXTENDS Naturals, FiniteSets

CONSTANTS
    Requests,    \* requests of the panel that are under way side by side
    MaxFlows,    \* bound: challenges
    MaxTurns     \* bound: clicks, edits and expiries

Flows == 1..MaxFlows
Callers == Requests \union {"poll"}

\* What the constants have to be; the module that gives them values assumes it.
ChallengeAssumption == MaxFlows \in Nat /\ MaxTurns \in Nat /\ "poll" \notin Requests

VARIABLES
    s,        \* the session object: challenge_state, authenticated,
              \* auth_detail, challenge_event, challenge_client
    lock,     \* who holds its lock, or "free"
    at,       \* where each caller is
    flow,     \* where the thread of each challenge is
    event,    \* the event each thread waits for
    signals,  \* the events that were set
    edited,   \* the credentials were changed since the last connect
    tries,    \* history: logins of the poll task since the account waits
    raced,    \* history: two logins were let in before either had begun
    turns

loginVars == <<s, lock, at, flow, event, signals>>
vars == <<loginVars, edited, tries, raced, turns>>

NewSession == [state |-> "none", auth |-> FALSE, detail |-> "new", event |-> 0, frozen |-> 0]

ChallengeInit ==
    /\ s = NewSession /\ lock = "free"
    /\ at = [c \in Callers |-> "idle"]
    /\ flow = [f \in Flows |-> "none"] /\ event = [f \in Flows |-> 0] /\ signals = {}
    /\ edited = FALSE /\ tries = 0 /\ raced = FALSE /\ turns = 0

Turn == turns < MaxTurns /\ turns' = turns + 1
Goes(c, to) == at' = [at EXCEPT ![c] = to]
Runs(f, to) == flow' = [flow EXCEPT ![f] = to]

\* Mutant of InProgress: a challenge whose code was submitted is forgotten.
InProgressUntilCode == {"sending", "code_sent", "manual"}

InProgress == {"sending", "code_sent", "resolving", "manual"}
\* The details connect waits with for the panel; not the native checkpoint,
\* nor a challenge that failed.
Waiting == {"challenge", "refused"}

Those(who) == {c \in Callers : at[c] \in who}
Threads == {f \in Flows : flow[f] \in {"login", "waits", "adopts"}}
LoggingIn == Cardinality(Those({"login", "resumes"})) + Cardinality(Threads)

-----------------------------------------------------------------------------
(* connect (181-387): the poll task, and the panel's Check and Reconnect.  *)

\* Checked before the lock is waited for, and not again.
Connect(c) ==
    /\ at[c] = IF c = "poll" THEN "idle" ELSE "connects"
    /\ edited' = FALSE /\ tries' = IF edited THEN 0 ELSE tries
    /\ IF s.state \in InProgress \/ (~edited /\ s.detail \in Waiting) \/ (s.auth /\ ~edited)
       THEN (IF c = "poll" THEN UNCHANGED at ELSE Goes(c, "idle")) /\ UNCHANGED <<s, raced>>
       ELSE /\ Goes(c, "locks")
            /\ s' = [s EXCEPT !.auth = FALSE]
            /\ raced' = (raced \/ Those({"locks", "login", "starts", "loads"}) # {})
    /\ UNCHANGED <<lock, flow, event, signals, turns>>
Locks(c) ==
    /\ at[c] = "locks" /\ lock = "free" /\ lock' = c /\ Goes(c, "login")
    /\ tries' = IF c = "poll" /\ s.detail \in {"challenge", "refused"} /\ ~s.auth THEN tries + 1 ELSE tries
    /\ UNCHANGED <<s, flow, event, signals, edited, raced, turns>>
LoggedIn(c) ==
    /\ at[c] = "login" /\ lock' = "free" /\ Goes(c, "idle")
    /\ \/ s' = [s EXCEPT !.auth = TRUE, !.detail = "ok"] /\ tries' = 0
       \/ \E why \in {"challenge", "refused", "native", "failed"} :
              s' = [s EXCEPT !.auth = FALSE, !.detail = why] /\ UNCHANGED tries
    /\ UNCHANGED <<flow, event, signals, edited, raced, turns>>

-----------------------------------------------------------------------------
(* start_challenge (1509-1868). *)

Start(p) ==
    /\ at[p] = "idle" /\ Turn /\ tries' = 0 /\ edited' = FALSE
    /\ IF s.auth \/ s.state \in InProgress THEN UNCHANGED <<at, raced>>
       ELSE /\ Goes(p, "starts")
            /\ raced' = (raced \/ Those({"locks", "login", "starts", "loads"}) # {})
    /\ UNCHANGED <<s, lock, flow, event, signals>>
StartLocks(p) ==
    /\ at[p] = "starts" /\ lock = "free" /\ lock' = p /\ Goes(p, "loads")
    /\ UNCHANGED <<s, flow, event, signals, edited, tries, raced, turns>>
\* The file is read, then the state is set and the thread started.
StartLoaded(p) ==
    /\ at[p] = "loads" /\ Goes(p, "watches")
    /\ \E f \in Flows :
         /\ flow[f] = "none" /\ \A g \in Flows : g < f => flow[g] # "none"
         /\ Runs(f, "login")
         /\ s' = [s EXCEPT !.state = "sending", !.event = f, !.frozen = 0]
    /\ UNCHANGED <<lock, event, signals, edited, tries, raced, turns>>
\* After a milestone of the challenge, or a minute.
StartReturns(p) ==
    /\ at[p] = "watches" /\ Goes(p, "idle") /\ lock' = "free"
    /\ UNCHANGED <<s, flow, event, signals, edited, tries, raced, turns>>

\* The thread (1598-1854).  A login is answered by a session, by a request for
\* a code, by a checkpoint to be approved in the app, or by an error.
Asked(f) ==
    /\ flow[f] = "login" /\ Runs(f, "waits")
    /\ event' = [event EXCEPT ![f] = s.event]
    /\ signals' = signals \ {s.event}
    /\ s' = [s EXCEPT !.state = "code_sent"]
    /\ UNCHANGED <<lock, at, edited, tries, raced, turns>>
Frozen(f) ==
    /\ flow[f] = "login" /\ Runs(f, "done")
    /\ s' = [s EXCEPT !.state = "manual", !.frozen = f, !.detail = "manual"]
    /\ UNCHANGED <<lock, at, event, signals, edited, tries, raced, turns>>
Passed(f) ==
    /\ flow[f] = "login" /\ Runs(f, "adopts")
    /\ UNCHANGED <<s, lock, at, event, signals, edited, tries, raced, turns>>
CodeRead(f) ==
    /\ flow[f] = "waits" /\ event[f] \in signals /\ Runs(f, "login")
    /\ UNCHANGED <<s, lock, at, event, signals, edited, tries, raced, turns>>

\* An error, or no code within five minutes.
Failing == [s EXCEPT !.state = "failed", !.auth = FALSE, !.detail = "failed"]
FlowFails(f) ==
    /\ flow[f] \in {"login", "waits"} /\ Runs(f, "done") /\ s' = Failing
    /\ UNCHANGED <<lock, at, event, signals, edited, tries, raced, turns>>
Adopted == [s EXCEPT !.state = "connected", !.auth = TRUE, !.detail = "ok", !.frozen = 0]
FlowAdopts(f) ==
    /\ flow[f] = "adopts" /\ Runs(f, "done")
    /\ s' \in {Adopted, [s EXCEPT !.state = "failed", !.auth = FALSE]}
    /\ UNCHANGED <<lock, at, event, signals, edited, tries, raced, turns>>

-----------------------------------------------------------------------------
(* submit_challenge_code (1870-1901), resume_challenge (1903-2028). *)

Submit(p) ==
    /\ at[p] = "idle" /\ Turn /\ tries' = 0 /\ s.state = "code_sent"
    /\ s' = [s EXCEPT !.state = "resolving"]
    /\ signals' = signals \union {s.event}
    /\ UNCHANGED <<lock, at, flow, event, edited, raced>>

\* A native checkpoint is not resumed; otherwise the kept client logs in.
Resume(p) ==
    /\ at[p] = "idle" /\ Turn /\ tries' = 0 /\ s.state = "manual" /\ s.frozen # 0
    /\ \/ UNCHANGED <<s, at>>
       \/ s' = [s EXCEPT !.state = "resolving"] /\ Goes(p, "resumes")
    /\ UNCHANGED <<lock, flow, event, signals, edited, raced>>
Resumed(p) ==
    /\ at[p] = "resumes" /\ Goes(p, "idle")
    /\ s' \in {Adopted, [s EXCEPT !.state = "manual"]}
    /\ UNCHANGED <<lock, flow, event, signals, edited, tries, raced, turns>>

\* check_connectivity (2030-2103): connect, then a request of its own; a
\* fetch of the poll task finds an expired session as well (923-986).
Check(p) ==
    /\ at[p] = "idle" /\ Turn /\ tries' = 0 /\ Goes(p, "connects")
    /\ UNCHANGED <<s, lock, flow, event, signals, edited, raced>>
Expires ==
    /\ s.auth /\ Turn
    /\ s' = [s EXCEPT !.auth = FALSE, !.detail = "expired"]
    /\ UNCHANGED <<lock, at, flow, event, signals, edited, tries, raced>>
Edits ==
    /\ Turn /\ edited' = TRUE /\ tries' = 0
    /\ UNCHANGED <<loginVars, raced>>

\* reconnect (1401-1451): a new session object, then connect.
Reconnect(p) ==
    /\ at[p] = "idle" /\ Turn /\ tries' = 0
    /\ s' = NewSession /\ lock' = "free" /\ signals' = {}
    /\ flow' = [f \in Flows |-> IF flow[f] = "none" THEN "none" ELSE "done"]
    /\ event' = [f \in Flows |-> 0]
    /\ at' = [c \in Callers |-> IF c = p THEN "connects" ELSE "idle"]
    /\ raced' = FALSE
    /\ UNCHANGED edited

-----------------------------------------------------------------------------
Connecting == \E c \in Callers : Connect(c) \/ Locks(c) \/ LoggedIn(c)
Panel ==
    \E p \in Requests :
        \/ Start(p) \/ StartLocks(p) \/ StartLoaded(p) \/ StartReturns(p)
        \/ Submit(p) \/ Resume(p) \/ Resumed(p) \/ Check(p) \/ Reconnect(p)
Thread ==
    \E f \in Flows :
        Asked(f) \/ Frozen(f) \/ Passed(f) \/ CodeRead(f) \/ FlowFails(f) \/ FlowAdopts(f)
ChallengeNext == Connecting \/ Panel \/ Thread \/ Expires \/ Edits

ChallengeSpec == ChallengeInit /\ [][ChallengeNext]_vars

-----------------------------------------------------------------------------
\* Two logins of one session object go on at a time only when both were let in
\* before either had begun: what connect and start_challenge check is not
\* checked again under the lock.
OneLogin == LoggingIn > 1 => raced

\* connect and start_challenge are turned away only while a thread or a
\* request is there that will let them in again, or the panel can resume; two
\* challenges at once may leave a checkpoint to resume without its client.
ShutOutByFlow ==
    s.state \in InProgress =>
        LoggingIn > 0 \/ (s.state = "manual" /\ s.frozen # 0) \/ raced

\* "Wait for a panel action or changed credentials instead of attempting
\* another login every time the poller wakes up" (connector.py:240): of the
\* poll task, one login for the changed credentials at most, but for those that
\* were let in together with another before the account was to wait.
LoginsWait == tries > 1 => raced
=============================================================================
