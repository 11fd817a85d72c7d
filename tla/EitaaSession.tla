---------------------------- MODULE EitaaSession ----------------------------
(***************************************************************************)
(* The token of an Eitaa Web session (plugins/eitaa_pv/session_client.py). *)
(* Any request may be answered by "expired", or by a new token; one task   *)
(* renews it, saves it and puts it into the profile, and the requests wait *)
(* for that task.  The user may log in again with a code at any time       *)
(* (validate_auth_code, connector.py 214-236).                             *)
(*                                                                         *)
(* A token is a pair: the login it comes from, and its number among the    *)
(* tokens the server issued for that login.  Numbers in brackets are lines *)
(* of session_client.py.                                                   *)
(***************************************************************************)
EXTENDS Naturals, FiniteSets

CONSTANTS
    Requests,     \* requests that are under way side by side
    MaxRenewals,  \* _max_renewals: renewals a request waits for
    MaxTasks,     \* bound: renewal tasks
    MaxLogins,    \* bound: logins with a code
    MaxFaults     \* bound: failures

\* What the constants have to be; the module that gives them values assumes it.
SessionAssumption == {MaxRenewals, MaxTasks, MaxLogins, MaxFaults} \subseteq Nat

Tasks == 1..MaxTasks
None == <<0, 0>>

VARIABLES
    issued,    \* the server: the number of the last token of each login
    profile, disk, pending,  \* self.profile, the session file, _pending_profile
    loginRequired, refreshPending,
    backoff,   \* _retry_at is ahead
    ren,       \* the renewal tasks: where each is, the token it renews, the
               \* one it was given or answered, how it ended
    cur,       \* _refresh_task, 0 for none
    req,       \* the requests: where each is, its token, its attempt, the task
               \* it waits for, and whether it began with that
    login,     \* "idle", "prepares", "signs"
    logins,    \* the number of the last login
    gone,      \* history: tokens the client was never to see, or dropped
    raced,     \* history: a renewal began while the user was logging in
    faults

tokens == <<issued, profile, disk, pending>>
flags == <<loginRequired, refreshPending, backoff>>
vars == <<tokens, flags, ren, cur, req, login, logins, gone, raced, faults>>

Idle == [at |-> "idle", token |-> None, attempt |-> 0, task |-> 0, first |-> FALSE]
Unused == [at |-> "none", old |-> None, new |-> None, ok |-> FALSE]

EitaaInit ==
    /\ issued = [k \in 1..(MaxLogins + 1) |-> 1]
    /\ profile = <<1, 1>> /\ disk = profile /\ pending = None
    /\ loginRequired = FALSE /\ refreshPending = FALSE /\ backoff = FALSE
    /\ ren = [i \in Tasks |-> Unused] /\ cur = 0
    /\ req = [r \in Requests |-> Idle]
    /\ login = "idle" /\ logins = 1 /\ gone = {} /\ raced = FALSE /\ faults = 0

Fault == faults < MaxFaults /\ faults' = faults + 1
Running(i) == i # 0 /\ ren[i].at \notin {"none", "done"}
Req(r, to) == req' = [req EXCEPT ![r] = to]
Ren(i, to) == ren' = [ren EXCEPT ![i] = to]
Newer(token) == <<token[1], issued[token[1]] + 1>>
Issues(token) == issued' = [issued EXCEPT ![token[1]] = @ + 1]

-----------------------------------------------------------------------------
(* A request (invoke, 48-83). *)

\* _recover (85-94): nothing is awaited between the check and the new task.  A
\* token the server sent on its own is lost when a task is there already.
Outdated(token) == profile # token
Recover(r, token, rotated, q) ==
    IF Outdated(token)
    THEN /\ Req(r, [q EXCEPT !.at = "begins"])
         /\ gone' = gone \union ({rotated} \ {None})
         /\ UNCHANGED <<refreshPending, ren, cur, raced>>
    ELSE IF Running(cur)
    THEN /\ Req(r, [q EXCEPT !.at = "waits", !.task = cur])
         /\ gone' = gone \union ({rotated} \ {None})
         /\ UNCHANGED <<refreshPending, ren, cur, raced>>
    ELSE \E i \in Tasks :
         /\ ren[i].at = "none" /\ \A j \in Tasks : j < i => ren[j].at # "none"
         /\ Ren(i, [Unused EXCEPT !.at = "begins", !.old = token, !.new = rotated])
         /\ cur' = i /\ refreshPending' = TRUE
         /\ Req(r, [q EXCEPT !.at = "waits", !.task = i])
         /\ raced' = (raced \/ login = "signs")
         /\ UNCHANGED gone

Invoke(r) ==
    /\ req[r].at = "idle" /\ profile # None
    /\ Req(r, [Idle EXCEPT !.at = "begins"])
    /\ UNCHANGED <<tokens, flags, ren, cur, login, logins, gone, raced, faults>>
Begins(r) ==
    /\ req[r].at = "begins"
    /\ IF loginRequired \/ profile = None
       THEN Req(r, Idle) /\ UNCHANGED <<refreshPending, ren, cur, gone, raced>>
       ELSE IF refreshPending
       THEN Recover(r, profile, None, [req[r] EXCEPT !.first = TRUE])
       ELSE /\ Req(r, IF Running(cur) THEN [req[r] EXCEPT !.at = "waits", !.task = cur, !.first = TRUE]
                                      ELSE [req[r] EXCEPT !.at = "sent", !.token = profile])
            /\ UNCHANGED <<refreshPending, ren, cur, gone, raced>>
    /\ UNCHANGED <<tokens, loginRequired, backoff, login, logins, faults>>
\* The task the request waits for ended; or the request is cancelled, and the
\* task goes on.
Awaited(r) ==
    /\ req[r].at = "waits"
    /\ \/ ren[req[r].task].at = "done"
          /\ Req(r, IF ~ren[req[r].task].ok \/ profile = None THEN Idle
                    ELSE IF req[r].first
                    THEN [req[r] EXCEPT !.at = "sent", !.token = profile, !.first = FALSE]
                    ELSE [req[r] EXCEPT !.at = "begins", !.attempt = @ + 1])
       \/ Req(r, Idle)
    /\ UNCHANGED <<tokens, flags, ren, cur, login, logins, gone, raced, faults>>

\* An answer, or an error that is not about the token.
Answered(r) ==
    /\ req[r].at = "sent" /\ Req(r, Idle)
    /\ UNCHANGED <<tokens, flags, ren, cur, login, logins, gone, raced, faults>>
Revoked(r) ==
    /\ req[r].at = "sent" /\ Fault /\ Req(r, Idle) /\ loginRequired' = TRUE
    /\ UNCHANGED <<tokens, refreshPending, backoff, ren, cur, login, logins, gone, raced>>
\* The token expired, or is replaced by the one the answer brings; after the
\* last attempt the request gives up, and what it was given is not kept.
Rejected(r, rotated) ==
    /\ req[r].at = "sent"
    /\ IF rotated = None THEN UNCHANGED issued ELSE Issues(req[r].token)
    /\ IF req[r].attempt = MaxRenewals
       THEN /\ refreshPending' = TRUE /\ backoff' = TRUE /\ Req(r, Idle)
            /\ gone' = gone \union ({rotated} \ {None})
            /\ UNCHANGED <<ren, cur, raced>>
       ELSE Recover(r, req[r].token, rotated, req[r]) /\ UNCHANGED backoff
    /\ UNCHANGED <<profile, disk, pending, loginRequired, login, logins>>
Expired(r) == Fault /\ Rejected(r, None)
Rotated(r) == Fault /\ Rejected(r, Newer(req[r].token))

-----------------------------------------------------------------------------
(* The renewal task (_renew, 103-143). *)

Ended(i, how) == Ren(i, [ren[i] EXCEPT !.at = "done", !.ok = how])
Defers == refreshPending' = TRUE /\ backoff' = TRUE

\* In backoff the task ends at once, with what it was given; a token that was
\* not saved yet is saved first, and nothing is asked.
RenewalBegins(i) ==
    /\ ren[i].at = "begins"
    /\ IF backoff
       THEN /\ Ended(i, FALSE)
            /\ gone' = gone \union ({ren[i].new} \ {None})
            /\ UNCHANGED pending
       ELSE IF pending # None
       THEN /\ Ren(i, [ren[i] EXCEPT !.at = "saves", !.new = pending])
            /\ gone' = gone \union ({ren[i].new} \ {None})
            /\ UNCHANGED pending
       ELSE IF ren[i].new # None
       THEN Ren(i, [ren[i] EXCEPT !.at = "saves"]) /\ pending' = ren[i].new /\ UNCHANGED gone
       ELSE Ren(i, [ren[i] EXCEPT !.at = "asked"]) /\ UNCHANGED <<pending, gone>>
    /\ UNCHANGED <<issued, profile, disk, flags, cur, req, login, logins, raced, faults>>
\* The server issues a token; its answer is read, or comes too late.
Served(i) ==
    /\ ren[i].at = "asked" /\ Issues(ren[i].old)
    /\ Ren(i, [ren[i] EXCEPT !.at = "served", !.new = Newer(ren[i].old)])
    /\ UNCHANGED <<profile, disk, pending, flags, cur, req, login, logins, gone, raced, faults>>
RenewalRead(i) ==
    /\ ren[i].at = "served" /\ pending' = ren[i].new
    /\ Ren(i, [ren[i] EXCEPT !.at = "saves"])
    /\ UNCHANGED <<issued, profile, disk, flags, cur, req, login, logins, gone, raced, faults>>
RenewalFails(i) ==
    /\ ren[i].at \in {"asked", "served"} /\ Fault /\ Defers /\ Ended(i, FALSE)
    /\ gone' = gone \union ({ren[i].new} \ {None})
    /\ UNCHANGED <<tokens, loginRequired, cur, req, login, logins, raced>>
RenewalRefused(i) ==
    /\ ren[i].at = "asked" /\ Fault /\ Ended(i, FALSE)
    /\ loginRequired' = TRUE /\ refreshPending' = FALSE
    /\ UNCHANGED <<tokens, backoff, cur, req, login, logins, gone, raced>>
\* The file is written by a thread, then the task goes on.
Saved(i) ==
    /\ ren[i].at = "saves" /\ disk' = ren[i].new
    /\ Ren(i, [ren[i] EXCEPT !.at = "saved"])
    /\ UNCHANGED <<issued, profile, pending, flags, cur, req, login, logins, gone, raced, faults>>

\* Mutant of NotSaved: a token that could not be saved is dropped.
NotSavedDropped(i) ==
    /\ ren[i].at = "saves" /\ Fault /\ Defers /\ Ended(i, FALSE)
    /\ pending' = None
    /\ UNCHANGED <<issued, profile, disk, loginRequired, cur, req, login, logins, gone, raced>>

NotSaved(i) ==
    /\ ren[i].at = "saves" /\ Fault /\ Defers /\ Ended(i, FALSE)
    /\ UNCHANGED <<tokens, loginRequired, cur, req, login, logins, gone, raced>>
\* The profile becomes _pending_profile as it is now: a login in between has
\* cleared it, and the client is without a profile.
Renewed(i) ==
    /\ ren[i].at = "saved" /\ profile' = pending
    /\ IF pending = None
       THEN Defers /\ Ended(i, FALSE) /\ UNCHANGED <<pending, loginRequired>>
       ELSE /\ pending' = None /\ Ended(i, TRUE)
            /\ refreshPending' = FALSE /\ loginRequired' = FALSE /\ backoff' = FALSE
    /\ UNCHANGED <<issued, disk, cur, req, login, logins, gone, raced, faults>>
BackoffEnds ==
    /\ backoff /\ backoff' = FALSE
    /\ UNCHANGED <<tokens, loginRequired, refreshPending, ren, cur, req, login, logins, gone, raced, faults>>

-----------------------------------------------------------------------------
(* A login with a code, and a restart. *)

ValidateCode ==
    /\ login = "idle" /\ logins <= MaxLogins
    /\ login' = "prepares"
    /\ UNCHANGED <<tokens, flags, ren, cur, req, logins, gone, raced, faults>>

\* Mutant of Prepared: a renewal that is under way is not waited for.
PreparedAtOnce ==
    /\ login = "prepares"
    /\ login' = "signs"
    /\ UNCHANGED <<tokens, flags, ren, cur, req, logins, gone, raced, faults>>

\* prepare_reauthentication (145-150).
Prepared ==
    /\ login = "prepares" /\ ~Running(cur)
    /\ login' = "signs"
    /\ UNCHANGED <<tokens, flags, ren, cur, req, logins, gone, raced, faults>>
\* The library saves the new profile; then reset_session_recovery (152-159).
SignedIn ==
    /\ login = "signs" /\ login' = "idle"
    /\ \/ /\ logins' = logins + 1
          /\ profile' = <<logins', 1>> /\ disk' = profile' /\ pending' = None
          /\ loginRequired' = FALSE /\ refreshPending' = FALSE /\ backoff' = FALSE
          /\ cur' = 0
       \/ UNCHANGED <<logins, profile, disk, pending, flags, cur>>
    /\ UNCHANGED <<issued, ren, req, gone, raced, faults>>
Restarts ==
    /\ Fault
    /\ profile' = disk /\ pending' = None /\ cur' = 0
    /\ loginRequired' = FALSE /\ refreshPending' = FALSE /\ backoff' = FALSE
    /\ gone' = gone \union (({pending} \union {ren[i].new : i \in {j \in Tasks : Running(j)}}) \ {None, disk})
    /\ ren' = [i \in Tasks |-> IF ren[i].at = "none" THEN Unused ELSE [ren[i] EXCEPT !.at = "done"]]
    /\ req' = [r \in Requests |-> Idle] /\ login' = "idle"
    /\ UNCHANGED <<issued, disk, logins, raced>>

Requesting ==
    \E r \in Requests :
        Invoke(r) \/ Begins(r) \/ Awaited(r) \/ Answered(r) \/ Revoked(r) \/ Expired(r) \/ Rotated(r)
Renewing ==
    \E i \in Tasks :
        \/ RenewalBegins(i) \/ Served(i) \/ RenewalRead(i) \/ RenewalFails(i)
        \/ RenewalRefused(i) \/ Saved(i) \/ NotSaved(i) \/ Renewed(i)
EitaaNext ==
    Requesting \/ Renewing \/ BackoffEnds \/ ValidateCode \/ Prepared \/ SignedIn \/ Restarts

EitaaSpec == EitaaInit /\ [][EitaaNext]_vars

-----------------------------------------------------------------------------
Held == {profile, disk, pending} \union {ren[i].new : i \in {j \in Tasks : Running(j)}}

\* The last token the server issued for the login of the profile is with the
\* client, or its answer never came, or it is one of those the client was sent
\* unasked and dropped; a disk that fails loses none.
TokenKept == raced \/ (<<logins, issued[logins]>> \in Held \union gone)

\* "Refresh once per client": the server is asked to renew a token only while
\* the client has no newer one of the same login.
AskedOnce ==
    raced \/ \A i \in Tasks :
        ren[i].at = "asked" =>
            \A token \in {profile, disk, pending} :
                token[1] = ren[i].old[1] => token[2] <= ren[i].old[2]

\* A login with a code is not undone by a renewal of the session before, but
\* for one that begins while the server checks the code: that one puts the old
\* session back, or leaves the client without a profile.
NewLoginStays == raced \/ profile[1] = logins
=============================================================================
