--------------------------- MODULE AccountsProofs ---------------------------
(***************************************************************************)
(* Proofs about the token of an Eitaa session, for any number of requests, *)
(* renewals, logins and failures; about the logins of an Instagram         *)
(* account, for any number of requests and challenges; and about what that *)
(* account receives, for any number of threads, messages and sessions.     *)
(***************************************************************************)
EXTENDS EitaaSession, FiniteSetTheorems, SequenceTheorems, WellFoundedInduction, TLAPS

Tokens == (1..(MaxLogins + 1)) \X Nat
Renewals == [at : {"none", "begins", "asked", "served", "saves", "saved", "done"},
             old : Tokens \union {None}, new : Tokens \union {None}, ok : BOOLEAN]
Sendings == [at : {"idle", "begins", "waits", "sent"}, token : Tokens \union {None},
             attempt : Nat, task : Tasks \union {0}, first : BOOLEAN]

SessionTypes ==
    /\ issued \in [1..(MaxLogins + 1) -> Nat]
    /\ {profile, disk, pending} \subseteq Tokens \union {None}
    /\ ren \in [Tasks -> Renewals] /\ cur \in Tasks \union {0}
    /\ req \in [Requests -> Sendings]
    /\ login \in {"idle", "prepares", "signs"} /\ logins \in 1..(MaxLogins + 1)
    /\ login # "idle" => logins <= MaxLogins
    /\ \A i \in Tasks : Running(i) => ren[i].old \in Tokens
    /\ \A i \in Tasks : ren[i].at = "served" => ren[i].new \in Tokens
    /\ \A r \in Requests : req[r].at = "sent" => req[r].token \in Tokens

\* A token that was issued for the last login after the one in the profile.
Later(token) ==
    /\ token \in Tokens /\ token[1] = logins
    /\ profile[2] < token[2] /\ token[2] <= issued[logins]

\* The client is of the last login.  What it is about to put into the profile is
\* later than what is there, and the file has one of the two.
TokensInv ==
    /\ profile \in Tokens /\ profile[1] = logins /\ profile[2] <= issued[logins]
    /\ pending # None => Later(pending)
    /\ disk = profile \/ (pending # None /\ disk = pending)

\* One task renews, never while the user signs in; it renews the profile's token,
\* and from its answer until its end _pending_profile is that answer.
TaskInv(i) ==
    /\ i = cur /\ login # "signs"
    /\ ren[i].old = profile
    /\ ren[i].new # None => Later(ren[i].new)
    /\ ren[i].at = "asked" => pending = None /\ ren[i].new = None
    /\ ren[i].at = "served" => pending = None /\ ren[i].new # None
    /\ ren[i].at \in {"saves", "saved"} => pending = ren[i].new /\ ren[i].new # None
    /\ ren[i].at = "saved" => disk = pending

\* The server's last token is somewhere.
Latest == <<logins, issued[logins]>>
LatestInv ==
    \/ Latest \in {profile, pending} \union gone
    \/ \E i \in Tasks : Running(i) /\ ren[i].new = Latest

\* The server issues tokens only for logins there were.
IssuedInv ==
    /\ \A k \in (logins + 1)..(MaxLogins + 1) : issued[k] = 1
    /\ \A r \in Requests : req[r].at = "sent" => req[r].token[1] <= logins

OneRenews == \A i \in Tasks : Running(i) => TaskInv(i)
InOrder == TokensInv /\ OneRenews /\ LatestInv /\ IssuedInv

\* A renewal that begins while the user signs in is the one way out of it.
SessionInv == raced \/ InOrder
----------------------------------------------------------------------------
(* Types.                                                                  *)

\* No token is the token of no login; the next one is a token of the same.
LEMMA TokenFacts ==
    ASSUME SessionAssumption, SessionTypes
    PROVE  /\ None \notin Tokens
           /\ \A token \in Tokens :
                 /\ Newer(token) \in Tokens /\ Newer(token)[1] = token[1]
                 /\ Newer(token)[2] = issued[token[1]] + 1
           /\ \A token \in Tokens : Issues(token) =>
                 /\ issued' \in [1..(MaxLogins + 1) -> Nat]
                 /\ issued'[token[1]] = issued[token[1]] + 1
                 /\ \A k \in 1..(MaxLogins + 1) : k # token[1] => issued'[k] = issued[k]
<1>1. /\ MaxLogins \in Nat /\ issued \in [1..(MaxLogins + 1) -> Nat]
      /\ \A token \in Tokens : token[1] \in 1..(MaxLogins + 1) /\ issued[token[1]] \in Nat
    BY DEF SessionAssumption, SessionTypes, Tokens
<1>2. None \notin Tokens
    BY <1>1 DEF None, Tokens
<1>3. ASSUME NEW token \in Tokens
      PROVE  /\ Newer(token) \in Tokens /\ Newer(token)[1] = token[1]
             /\ Newer(token)[2] = issued[token[1]] + 1
    BY <1>1 DEF Newer, Tokens
<1>4. ASSUME NEW token \in Tokens, Issues(token)
      PROVE  /\ issued' \in [1..(MaxLogins + 1) -> Nat]
             /\ issued'[token[1]] = issued[token[1]] + 1
             /\ \A k \in 1..(MaxLogins + 1) : k # token[1] => issued'[k] = issued[k]
    BY <1>1, <1>4 DEF Issues
<1> QED BY <1>2, <1>3, <1>4

\* What a request that a token was refused to makes of the tasks.
LEMMA RecoverTypes ==
    ASSUME SessionTypes, NEW r \in Requests, NEW token \in Tokens,
           NEW rotated \in Tokens \union {None}, NEW q \in Sendings,
           Recover(r, token, rotated, q)
    PROVE  /\ req' \in [Requests -> Sendings] /\ ren' \in [Tasks -> Renewals]
           /\ cur' \in Tasks \union {0}
           /\ req'[r].at # "sent" /\ \A o \in Requests \ {r} : req'[o] = req[o]
           /\ \A i \in Tasks : Running(i)' => ren'[i].old \in Tokens
           /\ \A i \in Tasks : ren'[i].at = "served" => ren'[i].new \in Tokens
<1>1. ASSUME NEW at \in {"begins", "waits"}, NEW i \in Tasks \union {0},
             Req(r, [q EXCEPT !.at = at, !.task = i]) \/ Req(r, [q EXCEPT !.at = at])
      PROVE  /\ req' \in [Requests -> Sendings] /\ req'[r].at # "sent"
             /\ \A o \in Requests \ {r} : req'[o] = req[o]
    <2>1. /\ [q EXCEPT !.at = at, !.task = i] \in Sendings /\ [q EXCEPT !.at = at] \in Sendings
          /\ [q EXCEPT !.at = at, !.task = i].at # "sent" /\ [q EXCEPT !.at = at].at # "sent"
        BY DEF Sendings
    <2> QED BY <1>1, <2>1 DEF Req, SessionTypes
<1>2. CASE Outdated(token) \/ Running(cur)
    <2>1. ren' = ren /\ cur' = cur
        BY <1>2 DEF Recover
    <2>2. CASE Outdated(token)
        BY <1>1, <2>1, <2>2, "begins" \in {"begins", "waits"}, 0 \in Tasks \union {0}
           DEF Recover, SessionTypes, Running
    <2>3. CASE ~Outdated(token) /\ Running(cur)
        BY <1>1, <2>1, <2>3, "waits" \in {"begins", "waits"} DEF Recover, SessionTypes, Running
    <2> QED BY <1>2, <2>2, <2>3
<1>3. CASE ~(Outdated(token) \/ Running(cur))
    <2>1. PICK i \in Tasks :
              /\ Ren(i, [Unused EXCEPT !.at = "begins", !.old = token, !.new = rotated])
              /\ cur' = i /\ Req(r, [q EXCEPT !.at = "waits", !.task = i])
        BY <1>3, Zenon DEF Recover
    <2> DEFINE new == [Unused EXCEPT !.at = "begins", !.old = token, !.new = rotated]
    <2>2. new \in Renewals /\ new.at = "begins" /\ new.old = token
        BY DEF Unused, Renewals
    <2>3. ren' = [ren EXCEPT ![i] = new]
        BY <2>1, Zenon DEF Ren
    <2> HIDE DEF new
    <2>4. ren' \in [Tasks -> Renewals] /\ ren'[i] = new /\ \A j \in Tasks \ {i} : ren'[j] = ren[j]
        BY <2>2, <2>3 DEF SessionTypes
    <2>5. \A j \in Tasks : Running(j)' => ren'[j].old \in Tokens
        BY <2>2, <2>4 DEF SessionTypes, Running
    <2>6. \A j \in Tasks : ren'[j].at = "served" => ren'[j].new \in Tokens
        BY <2>2, <2>4 DEF SessionTypes
    <2> QED BY <1>1, <2>1, <2>4, <2>5, <2>6, "waits" \in {"begins", "waits"}
<1> QED BY <1>2, <1>3

LEMMA SessionTypesInit == SessionAssumption /\ EitaaInit => SessionTypes
BY DEF SessionAssumption, EitaaInit, SessionTypes, Tokens, None, Renewals, Sendings, Unused, Idle,
       Tasks, Running
\* A task goes on and keeps the token it renews.
Moved(i, at, new) ==
    /\ ren' \in [Tasks -> Renewals]
    /\ ren'[i].at = at /\ ren'[i].old = ren[i].old /\ ren'[i].new = new
    /\ \A j \in Tasks \ {i} : ren'[j] = ren[j]

LEMMA Moves ==
    ASSUME SessionTypes, NEW i \in Tasks
    PROVE  /\ \A how \in BOOLEAN : Ended(i, how) => Moved(i, "done", ren[i].new)
           /\ \A at \in {"asked", "served", "saves", "saved"} :
                 Ren(i, [ren[i] EXCEPT !.at = at]) => Moved(i, at, ren[i].new)
           /\ \A at \in {"asked", "served", "saves", "saved"}, new \in Tokens \union {None} :
                 Ren(i, [ren[i] EXCEPT !.at = at, !.new = new]) => Moved(i, at, new)
<1>1. ASSUME NEW to \in Renewals, Ren(i, to), to.old = ren[i].old PROVE Moved(i, to.at, to.new)
    BY <1>1 DEF SessionTypes, Ren, Moved
<1>2. ren[i] \in Renewals
    BY DEF SessionTypes
<1>3. ASSUME NEW how \in BOOLEAN, Ended(i, how) PROVE Moved(i, "done", ren[i].new)
    <2> DEFINE to == [ren[i] EXCEPT !.at = "done", !.ok = how]
    <2>1. to \in Renewals /\ to.old = ren[i].old /\ to.at = "done" /\ to.new = ren[i].new
        BY <1>2 DEF Renewals
    <2>2. Ren(i, to)
        BY <1>3, Zenon DEF Ended
    <2> HIDE DEF to
    <2> QED BY <1>1, <2>1, <2>2
<1>4. ASSUME NEW at \in {"asked", "served", "saves", "saved"}, Ren(i, [ren[i] EXCEPT !.at = at])
      PROVE  Moved(i, at, ren[i].new)
    <2> DEFINE to == [ren[i] EXCEPT !.at = at]
    <2>1. to \in Renewals /\ to.old = ren[i].old /\ to.at = at /\ to.new = ren[i].new
        BY <1>2 DEF Renewals
    <2>2. Ren(i, to)
        BY <1>4
    <2> HIDE DEF to
    <2> QED BY <1>1, <2>1, <2>2
<1>5. ASSUME NEW at \in {"asked", "served", "saves", "saved"}, NEW new \in Tokens \union {None},
             Ren(i, [ren[i] EXCEPT !.at = at, !.new = new])
      PROVE  Moved(i, at, new)
    <2> DEFINE to == [ren[i] EXCEPT !.at = at, !.new = new]
    <2>1. to \in Renewals /\ to.old = ren[i].old /\ to.at = at /\ to.new = new
        BY <1>2 DEF Renewals
    <2>2. Ren(i, to)
        BY <1>5
    <2> HIDE DEF to
    <2> QED BY <1>1, <2>1, <2>2
<1> QED BY <1>3, <1>4, <1>5

\* What each step of a task does to the task and to the tokens.
LEMMA TaskSteps ==
    ASSUME SessionTypes, NEW i \in Tasks
    PROVE  /\ RenewalBegins(i) =>
                 /\ ren[i].at = "begins" /\ UNCHANGED <<issued, profile, disk>>
                 /\ \/ /\ Moved(i, "done", ren[i].new) /\ pending' = pending
                       /\ gone' = gone \union ({ren[i].new} \ {None})
                    \/ /\ pending # None /\ Moved(i, "saves", pending) /\ pending' = pending
                       /\ gone' = gone \union ({ren[i].new} \ {None})
                    \/ /\ pending = None /\ ren[i].new # None /\ Moved(i, "saves", ren[i].new)
                       /\ pending' = ren[i].new /\ gone' = gone
                    \/ /\ pending = None /\ ren[i].new = None /\ Moved(i, "asked", ren[i].new)
                       /\ pending' = pending /\ gone' = gone
           /\ RenewalRead(i) =>
                 /\ ren[i].at = "served" /\ Moved(i, "saves", ren[i].new) /\ pending' = ren[i].new
                 /\ UNCHANGED <<issued, profile, disk, gone>>
           /\ RenewalFails(i) \/ RenewalRefused(i) =>
                 /\ ren[i].at \in {"asked", "served"} /\ Moved(i, "done", ren[i].new)
                 /\ UNCHANGED tokens
                 /\ gone' = gone \union ({ren[i].new} \ {None}) \/ (ren[i].at = "asked" /\ gone' = gone)
           /\ Saved(i) =>
                 /\ ren[i].at = "saves" /\ Moved(i, "saved", ren[i].new) /\ disk' = ren[i].new
                 /\ UNCHANGED <<issued, profile, pending, gone>>
           /\ NotSaved(i) =>
                 /\ ren[i].at = "saves" /\ Moved(i, "done", ren[i].new) /\ UNCHANGED <<tokens, gone>>
           /\ Renewed(i) =>
                 /\ ren[i].at = "saved" /\ Moved(i, "done", ren[i].new) /\ profile' = pending
                 /\ pending' = None /\ UNCHANGED <<issued, disk, gone>>
<1>1. pending \in Tokens \union {None} /\ ren[i].new \in Tokens \union {None}
    BY DEF SessionTypes, Renewals
<1>2. TRUE \in BOOLEAN /\ FALSE \in BOOLEAN
    OBVIOUS
<1>3. ASSUME RenewalBegins(i)
      PROVE  /\ ren[i].at = "begins" /\ UNCHANGED <<issued, profile, disk>>
             /\ \/ /\ Moved(i, "done", ren[i].new) /\ pending' = pending
                   /\ gone' = gone \union ({ren[i].new} \ {None})
                \/ /\ pending # None /\ Moved(i, "saves", pending) /\ pending' = pending
                   /\ gone' = gone \union ({ren[i].new} \ {None})
                \/ /\ pending = None /\ ren[i].new # None /\ Moved(i, "saves", ren[i].new)
                   /\ pending' = ren[i].new /\ gone' = gone
                \/ /\ pending = None /\ ren[i].new = None /\ Moved(i, "asked", ren[i].new)
                   /\ pending' = pending /\ gone' = gone
    BY <1>1, <1>3, Moves DEF RenewalBegins
<1>4. ASSUME RenewalRead(i)
      PROVE  /\ ren[i].at = "served" /\ Moved(i, "saves", ren[i].new) /\ pending' = ren[i].new
             /\ UNCHANGED <<issued, profile, disk, gone>>
    BY <1>4, Moves DEF RenewalRead
<1>5. ASSUME RenewalFails(i) \/ RenewalRefused(i)
      PROVE  /\ ren[i].at \in {"asked", "served"} /\ Moved(i, "done", ren[i].new)
             /\ UNCHANGED tokens
             /\ gone' = gone \union ({ren[i].new} \ {None}) \/ (ren[i].at = "asked" /\ gone' = gone)
    BY <1>2, <1>5, Moves DEF RenewalFails, RenewalRefused
<1>6. ASSUME Saved(i)
      PROVE  /\ ren[i].at = "saves" /\ Moved(i, "saved", ren[i].new) /\ disk' = ren[i].new
             /\ UNCHANGED <<issued, profile, pending, gone>>
    BY <1>6, Moves DEF Saved
<1>7. ASSUME NotSaved(i)
      PROVE  ren[i].at = "saves" /\ Moved(i, "done", ren[i].new) /\ UNCHANGED <<tokens, gone>>
    BY <1>2, <1>7, Moves DEF NotSaved
<1>8. ASSUME Renewed(i)
      PROVE  /\ ren[i].at = "saved" /\ Moved(i, "done", ren[i].new) /\ profile' = pending
             /\ pending' = None /\ UNCHANGED <<issued, disk, gone>>
    BY <1>2, <1>8, Moves DEF Renewed
<1> QED BY <1>3, <1>4, <1>5, <1>6, <1>7, <1>8

LEMMA SessionTypesStep ==
    SessionAssumption /\ SessionTypes /\ [EitaaNext]_vars => SessionTypes'
<1> SUFFICES ASSUME SessionAssumption, SessionTypes, [EitaaNext]_vars PROVE SessionTypes'
    OBVIOUS
<1> USE DEF tokens, flags
<1>a. Tokens' = Tokens
    BY DEF Tokens
<1>1. ASSUME NEW r \in Requests, Invoke(r) \/ Awaited(r) \/ Answered(r) \/ Revoked(r)
      PROVE SessionTypes'
    <2>1. PICK to \in Sendings : Req(r, to) /\ (to.at = "sent" => to.token \in Tokens)
        <3>1. Idle \in Sendings /\ [Idle EXCEPT !.at = "begins"] \in Sendings
              /\ Idle.at # "sent" /\ [Idle EXCEPT !.at = "begins"].at # "sent"
            BY DEF Idle, Sendings
        <3>2. profile \in Tokens \union {None} /\ req[r] \in Sendings
            BY DEF SessionTypes
        <3>3. /\ [req[r] EXCEPT !.at = "sent", !.token = profile, !.first = FALSE] \in Sendings
              /\ [req[r] EXCEPT !.at = "sent", !.token = profile, !.first = FALSE].token = profile
            BY <3>2 DEF Sendings
        <3>4. /\ [req[r] EXCEPT !.at = "begins", !.attempt = @ + 1] \in Sendings
              /\ [req[r] EXCEPT !.at = "begins", !.attempt = @ + 1].at # "sent"
            <4>1. \A n \in Nat : /\ [req[r] EXCEPT !.at = "begins", !.attempt = n] \in Sendings
                                 /\ [req[r] EXCEPT !.at = "begins", !.attempt = n].at # "sent"
                BY <3>2 DEF Sendings
            <4>2. req[r].attempt + 1 \in Nat
                BY <3>2 DEF Sendings
            <4> QED BY <4>1, <4>2
        <3>5. CASE Awaited(r)
            BY <3>1, <3>2, <3>3, <3>4, <3>5 DEF Awaited
        <3>6. CASE Invoke(r) \/ Answered(r) \/ Revoked(r)
            BY <3>1, <3>6 DEF Invoke, Answered, Revoked
        <3> QED BY <1>1, <3>5, <3>6
    <2>2. req' \in [Requests -> Sendings] /\ \A o \in Requests :
                  req'[o] = IF o = r THEN to ELSE req[o]
        BY <2>1 DEF Req, SessionTypes
    <2>3. UNCHANGED <<issued, profile, disk, pending, ren, cur, login, logins>>
        BY <1>1 DEF Invoke, Awaited, Answered, Revoked
    <2> QED BY <1>a, <2>1, <2>2, <2>3 DEF SessionTypes, Running
<1>2. ASSUME NEW r \in Requests, Begins(r) PROVE SessionTypes'
    <2>1. UNCHANGED <<issued, profile, disk, pending, login, logins>>
        BY <1>2 DEF Begins
    <2>2. req[r] \in Sendings /\ Idle \in Sendings /\ Idle.at # "sent" /\ req[r].at = "begins"
        BY <1>2 DEF Begins, SessionTypes, Idle, Sendings
    <2>3. CASE loginRequired \/ profile = None
        BY <1>2, <2>1, <2>2, <2>3 DEF Begins, Req, SessionTypes, Running
    <2>4. CASE ~(loginRequired \/ profile = None) /\ refreshPending
        <3>1. [req[r] EXCEPT !.first = TRUE] \in Sendings
            BY <2>2 DEF Sendings
        <3>2. profile \in Tokens
            BY <2>4 DEF SessionTypes
        <3>3. Recover(r, profile, None, [req[r] EXCEPT !.first = TRUE])
            BY <1>2, <2>4 DEF Begins
        <3> QED BY <1>a, <2>1, <3>1, <3>2, <3>3, RecoverTypes DEF SessionTypes
    <2>5. CASE ~(loginRequired \/ profile = None) /\ ~refreshPending
        <3>1. /\ [req[r] EXCEPT !.at = "waits", !.task = cur, !.first = TRUE] \in Sendings
              /\ [req[r] EXCEPT !.at = "sent", !.token = profile] \in Sendings
            BY <2>2 DEF Sendings, SessionTypes
        <3>2. profile \in Tokens
            BY <2>5 DEF SessionTypes
        <3>3. /\ [req[r] EXCEPT !.at = "waits", !.task = cur, !.first = TRUE].at # "sent"
              /\ [req[r] EXCEPT !.at = "sent", !.token = profile].token = profile
            BY <2>2 DEF Sendings
        <3>4. ren' = ren /\ cur' = cur
            BY <1>2, <2>5 DEF Begins
        <3>5. PICK to \in Sendings : Req(r, to) /\ (to.at = "sent" => to.token \in Tokens)
            BY <1>2, <2>5, <3>1, <3>2, <3>3 DEF Begins
        <3>6. req' \in [Requests -> Sendings] /\ \A o \in Requests :
                  req'[o] = IF o = r THEN to ELSE req[o]
            BY <3>5 DEF Req, SessionTypes
        <3> QED BY <1>a, <2>1, <3>4, <3>5, <3>6 DEF SessionTypes, Running
    <2> QED BY <2>3, <2>4, <2>5
<1>3. ASSUME NEW r \in Requests, NEW rotated \in {None, Newer(req[r].token)}, Rejected(r, rotated)
      PROVE SessionTypes'
    <2>1. req[r].token \in Tokens /\ req[r] \in Sendings
        BY <1>3 DEF Rejected, SessionTypes
    <2>2. rotated \in Tokens \union {None}
        BY <2>1, TokenFacts
    <2>3. issued' \in [1..(MaxLogins + 1) -> Nat]
        BY <1>3, <2>1, TokenFacts DEF Rejected, SessionTypes
    <2>4. UNCHANGED <<profile, disk, pending, login, logins>>
        BY <1>3 DEF Rejected
    <2>5. CASE req[r].attempt = MaxRenewals
        <3>1. Idle \in Sendings /\ Idle.at # "sent"
            BY DEF Idle, Sendings
        <3>2. Req(r, Idle) /\ ren' = ren /\ cur' = cur
            BY <1>3, <2>5 DEF Rejected
        <3>3. req' \in [Requests -> Sendings] /\ \A o \in Requests :
                  req'[o] = IF o = r THEN Idle ELSE req[o]
            BY <3>1, <3>2 DEF Req, SessionTypes
        <3> QED BY <1>a, <2>3, <2>4, <3>1, <3>2, <3>3 DEF SessionTypes, Running
    <2>6. CASE req[r].attempt # MaxRenewals
        <3>1. Recover(r, req[r].token, rotated, req[r])
            BY <1>3, <2>6 DEF Rejected
        <3> QED BY <1>a, <2>1, <2>2, <2>3, <2>4, <3>1, RecoverTypes DEF SessionTypes
    <2> QED BY <2>5, <2>6
<1>4. ASSUME NEW i \in Tasks, Running(i), NEW at, NEW new, Moved(i, at, new),
             at = "served" => new \in Tokens,
             UNCHANGED <<cur, req, login, logins>>, issued' \in [1..(MaxLogins + 1) -> Nat],
             {profile', disk', pending'} \subseteq Tokens \union {None}
      PROVE SessionTypes'
    <2>1. \A j \in Tasks : Running(j)' => ren'[j].old \in Tokens
        BY <1>4 DEF Moved, Running, SessionTypes
    <2>2. \A j \in Tasks : ren'[j].at = "served" => ren'[j].new \in Tokens
        BY <1>4 DEF Moved, SessionTypes
    <2> QED BY <1>a, <1>4, <2>1, <2>2 DEF SessionTypes, Moved
<1>5. ASSUME NEW i \in Tasks, Served(i) PROVE SessionTypes'
    <2>1. Running(i) /\ UNCHANGED <<profile, disk, pending, cur, req, login, logins>>
        BY <1>5 DEF Served, Running, Tasks
    <2>2. ren[i].old \in Tokens /\ Newer(ren[i].old) \in Tokens
        BY <2>1, TokenFacts DEF SessionTypes
    <2>3. issued' \in [1..(MaxLogins + 1) -> Nat]
        BY <1>5, <2>2, TokenFacts DEF Served
    <2>4. Moved(i, "served", Newer(ren[i].old))
        BY <1>5, <2>2, Moves DEF Served
    <2> QED BY <1>4, <2>1, <2>2, <2>3, <2>4 DEF SessionTypes
<1>6. ASSUME NEW i \in Tasks,
             \/ RenewalBegins(i) \/ RenewalRead(i) \/ RenewalFails(i) \/ RenewalRefused(i)
             \/ Saved(i) \/ NotSaved(i) \/ Renewed(i)
      PROVE SessionTypes'
    <2>1. Running(i) /\ UNCHANGED <<cur, req, login, logins>>
        <3>1. UNCHANGED <<cur, req, login, logins>>
            BY <1>6, Zenon DEF RenewalBegins, RenewalRead, RenewalFails, RenewalRefused, Saved,
                               NotSaved, Renewed
        <3>2. ren[i].at \in {"begins", "asked", "served", "saves", "saved"} /\ i # 0
            BY <1>6, TaskSteps DEF Tasks
        <3> QED BY <3>1, <3>2 DEF Running
    <2>2. {None, profile, disk, pending, ren[i].new} \subseteq Tokens \union {None}
        BY DEF SessionTypes, Renewals
    <2>3. {profile', disk', pending'} \subseteq Tokens \union {None}
        BY <1>6, <2>2, TaskSteps
    <2>4. issued' = issued /\ \E at, new : at # "served" /\ Moved(i, at, new)
        BY <1>6, TaskSteps
    <2> QED BY <1>4, <2>1, <2>3, <2>4 DEF SessionTypes
<1>9. CASE BackoffEnds \/ ValidateCode \/ Prepared
    BY <1>a, <1>9 DEF BackoffEnds, ValidateCode, Prepared, SessionTypes, Running
<1>10. CASE SignedIn
    <2>1. UNCHANGED <<issued, ren, req>> /\ login = "signs" /\ login' = "idle"
        BY <1>10 DEF SignedIn
    <2>2. logins + 1 \in 1..(MaxLogins + 1) /\ <<logins + 1, 1>> \in Tokens
        BY <2>1 DEF SessionTypes, SessionAssumption, Tokens
    <2>3. {profile', disk', pending'} \subseteq Tokens \union {None}
        BY <1>10, <2>2 DEF SignedIn, SessionTypes
    <2>4. cur' \in Tasks \union {0} /\ logins' \in 1..(MaxLogins + 1)
        BY <1>10, <2>2 DEF SignedIn, SessionTypes
    <2> QED BY <1>a, <2>1, <2>3, <2>4 DEF SessionTypes, Running
<1>11. CASE Restarts
    <2>1. /\ Idle \in Sendings /\ Idle.at # "sent" /\ Unused \in Renewals /\ Unused.at = "none"
          /\ \A i \in Tasks : [ren[i] EXCEPT !.at = "done"] \in Renewals
          /\ \A i \in Tasks : [ren[i] EXCEPT !.at = "done"].at = "done"
        BY DEF Idle, Sendings, Unused, Renewals, SessionTypes
    <2>2. /\ ren' \in [Tasks -> Renewals] /\ \A i \in Tasks : ren'[i].at \in {"none", "done"}
          /\ req' \in [Requests -> Sendings] /\ \A r \in Requests : req'[r].at # "sent"
        BY <1>11, <2>1 DEF Restarts
    <2>3. /\ UNCHANGED <<issued, disk, logins>> /\ profile' = disk /\ pending' = None
          /\ cur' = 0 /\ login' = "idle"
        BY <1>11 DEF Restarts
    <2> QED BY <1>a, <2>2, <2>3 DEF SessionTypes, Running
<1>12. CASE UNCHANGED vars
    BY <1>a, <1>12 DEF vars, SessionTypes, Running
<1>13. ASSUME NEW r \in Requests, Expired(r) \/ Rotated(r) PROVE SessionTypes'
    BY <1>3, <1>13 DEF Expired, Rotated
<1> QED BY <1>1, <1>2, <1>5, <1>6, <1>9, <1>10, <1>11, <1>12, <1>13
        DEF EitaaNext, Requesting, Renewing
----------------------------------------------------------------------------
(* The order of the tokens.                                                *)

LEMMA InOrderInit == SessionAssumption /\ EitaaInit => InOrder
BY DEF SessionAssumption, EitaaInit, InOrder, TokensInv, OneRenews, LatestInv, Latest, IssuedInv,
       Tokens, None, Unused, Idle, Running

\* A step that leaves tokens and tasks alone.
LEMMA AsideKeeps ==
    ASSUME SessionTypes, InOrder, UNCHANGED <<tokens, ren, cur, logins>>, gone \subseteq gone',
           login' # "signs" \/ login' = login \/ ~Running(cur),
           \A r \in Requests : req'[r].at = "sent" => req'[r].token[1] <= logins
    PROVE  InOrder'
<1> USE DEF tokens
<1>1. TokensInv'
    BY DEF InOrder, TokensInv, Later, Tokens
<1>2. ASSUME NEW i \in Tasks, Running(i)' PROVE TaskInv(i)'
    BY <1>2 DEF InOrder, OneRenews, TaskInv, Running, Later, Tokens
<1>3. LatestInv'
    BY DEF InOrder, LatestInv, Latest, Running
<1>4. IssuedInv'
    BY DEF InOrder, IssuedInv
<1> QED BY <1>1, <1>2, <1>3, <1>4 DEF InOrder, OneRenews

\* A step of the task that renews.
LEMMA TaskKeeps ==
    ASSUME SessionTypes, InOrder, NEW i \in Tasks, UNCHANGED <<cur, req, login, logins>>,
           \/ RenewalBegins(i) \/ RenewalRead(i) \/ RenewalFails(i) \/ RenewalRefused(i)
           \/ Saved(i) \/ NotSaved(i) \/ Renewed(i)
    PROVE  InOrder'
<1> USE DEF tokens
<1>1. ren[i].at \in {"begins", "asked", "served", "saves", "saved"} /\ Running(i)
    BY TaskSteps DEF Tasks, Running
<1>2. TaskInv(i) /\ \A j \in Tasks \ {i} : ~Running(j)
    BY <1>1 DEF InOrder, OneRenews, TaskInv
<1>3. PICK at, new : Moved(i, at, new)
    BY TaskSteps
<1>4. issued' = issued
    BY TaskSteps
<1>5. \A j \in Tasks \ {i} : ~Running(j)'
    BY <1>2, <1>3 DEF Moved, Running
<1>6. TokensInv
    BY DEF InOrder
<1>7. TokensInv' /\ (Running(i)' => TaskInv(i)')
    <2>1. CASE RenewalBegins(i)
        BY <2>1, <1>1, <1>2, <1>4, <1>6, TaskSteps DEF TokensInv, TaskInv, Later, Moved, Running, Tokens
    <2>2. CASE RenewalRead(i)
        BY <2>2, <1>1, <1>2, <1>4, <1>6, TaskSteps DEF TokensInv, TaskInv, Later, Moved, Running, Tokens
    <2>3. CASE RenewalFails(i) \/ RenewalRefused(i) \/ NotSaved(i)
        BY <2>3, <1>1, <1>2, <1>4, <1>6, TaskSteps DEF TokensInv, TaskInv, Later, Moved, Running, Tokens
    <2>4. CASE Saved(i)
        BY <2>4, <1>1, <1>2, <1>4, <1>6, TaskSteps DEF TokensInv, TaskInv, Later, Moved, Running, Tokens
    <2>5. CASE Renewed(i)
        BY <2>5, <1>1, <1>2, <1>4, <1>6, TaskSteps DEF TokensInv, TaskInv, Later, Moved, Running, Tokens
    <2> QED BY <2>1, <2>2, <2>3, <2>4, <2>5
<1>8. LatestInv'
    <2>1. Latest' = Latest /\ Latest # None
        BY <1>4 DEF Latest, None, SessionTypes
    <2>2. gone \subseteq gone'
        BY TaskSteps
    <2>3. CASE Latest \in gone
        BY <2>1, <2>2, <2>3 DEF LatestInv
    <2>4. CASE Latest = pending
        <3>1. pending' = pending \/ profile' = pending
            BY <1>2, <2>1, <2>4, TaskSteps DEF TaskInv
        <3> QED BY <2>1, <2>4, <3>1 DEF LatestInv
    <2>5. CASE Running(i) /\ ren[i].new = Latest
        <3>1. \/ Latest \in gone' \/ pending' = Latest \/ profile' = Latest
              \/ Running(i)' /\ ren'[i].new = Latest
            BY <1>1, <1>2, <2>1, <2>5, TaskSteps DEF TaskInv, Moved, Running
        <3> QED BY <2>1, <3>1 DEF LatestInv
    <2>6. CASE Latest = profile
        <3>1. profile' = profile
            BY <1>2, <1>6, <2>6, TaskSteps DEF TaskInv, TokensInv, Later, Latest, Tokens
        <3> QED BY <2>1, <2>6, <3>1 DEF LatestInv
    <2> QED BY <1>2, <2>3, <2>4, <2>5, <2>6 DEF InOrder, LatestInv
<1>9. IssuedInv'
    BY <1>4 DEF InOrder, IssuedInv
<1> QED BY <1>5, <1>7, <1>8, <1>9 DEF InOrder, OneRenews
\* The server answers a renewal: nobody has a later token.
LEMMA ServedKeeps ==
    ASSUME SessionAssumption, SessionTypes, InOrder, NEW i \in Tasks, Served(i)
    PROVE  InOrder'
<1>1. /\ ren[i].at = "asked" /\ Running(i) /\ Issues(ren[i].old)
      /\ UNCHANGED <<profile, disk, pending, cur, req, login, logins, gone>>
    BY DEF Served, Running, Tasks
<1>2. TaskInv(i) /\ \A j \in Tasks \ {i} : ~Running(j)
    BY <1>1 DEF InOrder, OneRenews, TaskInv
<1>3. TokensInv /\ ren[i].old = profile /\ profile \in Tokens
    BY <1>2 DEF InOrder, TaskInv, TokensInv
<1>4. /\ Newer(profile) \in Tokens /\ Newer(profile)[1] = logins
      /\ Newer(profile)[2] = issued[logins] + 1 /\ Newer(profile) = <<logins, issued[logins] + 1>>
      /\ issued'[logins] = issued[logins] + 1 /\ issued[logins] \in Nat
      /\ \A k \in (logins + 1)..(MaxLogins + 1) : issued'[k] = issued[k]
    <2>1. profile[1] = logins /\ logins \in 1..(MaxLogins + 1) /\ MaxLogins \in Nat
        BY <1>3 DEF TokensInv, SessionTypes, SessionAssumption
    <2>2. Newer(profile) \in Tokens /\ Newer(profile)[1] = logins
        BY <1>3, <2>1, TokenFacts
    <2>3. Newer(profile)[2] = issued[logins] + 1 /\ Newer(profile) = <<logins, issued[logins] + 1>>
        BY <1>3, <2>1, TokenFacts DEF Newer
    <2>4. issued'[logins] = issued[logins] + 1 /\ issued[logins] \in Nat
        BY <1>1, <1>3, <2>1, TokenFacts DEF SessionTypes
    <2>5. \A k \in 1..(MaxLogins + 1) : k # logins => issued'[k] = issued[k]
        BY <1>1, <1>3, <2>1, TokenFacts
    <2> QED BY <2>1, <2>2, <2>3, <2>4, <2>5
<1>5. Moved(i, "served", Newer(profile))
    BY <1>3, <1>4, Moves DEF Served
<1>6. TokensInv'
    BY <1>1, <1>3, <1>4 DEF TokensInv, Later, Tokens
<1>7. ASSUME NEW j \in Tasks, Running(j)' PROVE TaskInv(j)'
    <2>1. j = i
        BY <1>2, <1>5, <1>7 DEF Moved, Running
    <2>2. profile[2] \in Nat /\ profile[2] <= issued[logins]
        BY <1>3 DEF TokensInv, Tokens
    <2>3. profile[2] < Newer(profile)[2]
        BY <1>4, <2>2
    <2>4. Newer(profile) # None
        BY <1>4, TokenFacts
    <2> QED BY <1>1, <1>2, <1>4, <1>5, <2>1, <2>3, <2>4 DEF TaskInv, Later, Moved, Tokens
<1>8. LatestInv'
    BY <1>1, <1>4, <1>5 DEF LatestInv, Latest, Moved, Running, Tasks
<1>9. IssuedInv'
    BY <1>1, <1>4 DEF InOrder, IssuedInv
<1> QED BY <1>6, <1>7, <1>8, <1>9 DEF InOrder, OneRenews

\* What a request that a token was refused to does.
LEMMA RecoverSteps ==
    ASSUME SessionTypes, NEW r \in Requests, NEW token \in Tokens,
           NEW rotated \in Tokens \union {None}, NEW q \in Sendings,
           Recover(r, token, rotated, q)
    PROVE  \/ /\ ren' = ren /\ cur' = cur /\ raced' = raced
              /\ gone' = gone \union ({rotated} \ {None})
           \/ /\ profile = token /\ ~Running(cur)
              /\ \E i \in Tasks :
                    /\ ren' \in [Tasks -> Renewals] /\ cur' = i
                    /\ ren'[i].at = "begins" /\ ren'[i].old = token /\ ren'[i].new = rotated
                    /\ \A j \in Tasks \ {i} : ren'[j] = ren[j]
              /\ raced' = (raced \/ login = "signs") /\ gone' = gone
<1>1. CASE Outdated(token) \/ Running(cur)
    <2>1. ren' = ren /\ cur' = cur /\ raced' = raced /\ gone' = gone \union ({rotated} \ {None})
        BY <1>1, Zenon DEF Recover
    <2> QED BY <2>1, Zenon
<1>2. CASE ~(Outdated(token) \/ Running(cur))
    <2>1. PICK i \in Tasks :
              /\ Ren(i, [Unused EXCEPT !.at = "begins", !.old = token, !.new = rotated]) /\ cur' = i
              /\ raced' = (raced \/ login = "signs") /\ gone' = gone
        BY <1>2, Zenon DEF Recover
    <2> DEFINE new == [Unused EXCEPT !.at = "begins", !.old = token, !.new = rotated]
    <2>2. new \in Renewals /\ new.at = "begins" /\ new.old = token /\ new.new = rotated
        BY DEF Unused, Renewals
    <2>3. ren' = [ren EXCEPT ![i] = new]
        BY <2>1, Zenon DEF Ren
    <2> HIDE DEF new
    <2>4. ren' \in [Tasks -> Renewals] /\ ren'[i] = new /\ \A j \in Tasks \ {i} : ren'[j] = ren[j]
        BY <2>2, <2>3 DEF SessionTypes
    <2>5. profile = token /\ ~Running(cur)
        BY <1>2 DEF Outdated
    <2>6. \E k \in Tasks :
              /\ ren' \in [Tasks -> Renewals] /\ cur' = k
              /\ ren'[k].at = "begins" /\ ren'[k].old = token /\ ren'[k].new = rotated
              /\ \A j \in Tasks \ {k} : ren'[j] = ren[j]
        BY <2>1, <2>2, <2>4
    <2> QED BY <2>1, <2>5, <2>6, Zenon
<1> QED BY <1>1, <1>2

\* What the server issued.
LEMMA IssuedGrows ==
    ASSUME SessionAssumption, SessionTypes, NEW token \in Tokens, token[1] <= logins,
           NEW rotated \in {None, Newer(token)}, UNCHANGED logins,
           IF rotated = None THEN UNCHANGED issued ELSE Issues(token)
    PROVE  /\ issued[logins] \in Nat /\ issued'[logins] \in Nat /\ issued[logins] <= issued'[logins]
           /\ \A k \in (logins + 1)..(MaxLogins + 1) : issued'[k] = issued[k]
           /\ Latest' = Latest \/ (rotated # None /\ Latest' = rotated)
<1>1. logins \in 1..(MaxLogins + 1) /\ MaxLogins \in Nat /\ token[1] \in 1..logins
      /\ issued \in [1..(MaxLogins + 1) -> Nat]
    BY DEF SessionTypes, SessionAssumption, Tokens
<1>2. /\ issued[logins] <= issued'[logins] /\ issued[logins] \in Nat
      /\ \A k \in (logins + 1)..(MaxLogins + 1) : issued'[k] = issued[k]
      /\ issued'[logins] \in Nat
    <2>1. CASE rotated = None
        BY <1>1, <2>1
    <2>2. CASE rotated # None
        <3>1. /\ issued'[token[1]] = issued[token[1]] + 1
              /\ \A k \in 1..(MaxLogins + 1) : k # token[1] => issued'[k] = issued[k]
            BY <2>2, TokenFacts
        <3> QED BY <1>1, <3>1
    <2> QED BY <2>1, <2>2
<1>3. Latest' = Latest \/ (rotated # None /\ Latest' = rotated)
    <2>1. CASE rotated = None \/ token[1] # logins
        <3>1. issued'[logins] = issued[logins]
            BY <1>1, <2>1, TokenFacts
        <3> QED BY <3>1 DEF Latest
    <2>2. CASE rotated # None /\ token[1] = logins
        <3>1. rotated = <<logins, issued'[logins]>>
            BY <1>1, <2>2, TokenFacts DEF Newer
        <3> QED BY <2>2, <3>1 DEF Latest
    <2> QED BY <2>1, <2>2
<1> QED BY <1>2, <1>3

\* The request gives up, and the token it was given is dropped.
LEMMA GivesUpKeeps ==
    ASSUME SessionAssumption, SessionTypes, InOrder, NEW r \in Requests,
           NEW token \in Tokens, token[1] <= logins, NEW rotated \in {None, Newer(token)},
           IF rotated = None THEN UNCHANGED issued ELSE Issues(token),
           UNCHANGED <<profile, disk, pending, login, logins, ren, cur>>, Req(r, Idle),
           gone' = gone \union ({rotated} \ {None})
    PROVE  InOrder'
<1>1. logins \in Nat /\ Idle.at # "sent"
    BY DEF SessionTypes, Idle
<1>2. TokensInv'
    BY <1>1, IssuedGrows DEF InOrder, TokensInv, Later, Tokens
<1>3. ASSUME NEW i \in Tasks, Running(i)' PROVE TaskInv(i)'
    BY <1>1, <1>3, IssuedGrows DEF InOrder, OneRenews, TaskInv, Running, Later, Tokens
<1>4. LatestInv'
    BY IssuedGrows DEF InOrder, LatestInv, Running
<1>5. IssuedInv'
    BY <1>1, IssuedGrows DEF InOrder, IssuedInv, Req, SessionTypes
<1> QED BY <1>2, <1>3, <1>4, <1>5 DEF InOrder, OneRenews

LEMMA RecoverKeeps ==
    ASSUME SessionAssumption, SessionTypes, InOrder, ~raced', NEW r \in Requests,
           NEW token \in Tokens, token[1] <= logins, NEW q \in Sendings,
           NEW rotated \in {None, Newer(token)},
           IF rotated = None THEN UNCHANGED issued ELSE Issues(token),
           UNCHANGED <<profile, disk, pending, login, logins>>, Recover(r, token, rotated, q)
    PROVE  InOrder'
<1>1. rotated \in Tokens \union {None} /\ None \notin Tokens
    BY TokenFacts
<1>2. logins \in 1..(MaxLogins + 1) /\ MaxLogins \in Nat
    BY DEF SessionTypes, SessionAssumption
<1>3. /\ issued[logins] \in Nat /\ issued'[logins] \in Nat /\ issued[logins] <= issued'[logins]
      /\ \A k \in (logins + 1)..(MaxLogins + 1) : issued'[k] = issued[k]
    BY IssuedGrows
<1>4. Latest' = Latest \/ (rotated # None /\ Latest' = rotated)
    BY IssuedGrows
<1>5. TokensInv'
    BY <1>2, <1>3 DEF InOrder, TokensInv, Later, Tokens
<1>6. IssuedInv'
    BY <1>1, <1>3, RecoverTypes DEF InOrder, IssuedInv
<1>7. CASE ren' = ren /\ cur' = cur /\ gone' = gone \union ({rotated} \ {None})
    <2>1. ASSUME NEW i \in Tasks, Running(i)' PROVE TaskInv(i)'
        BY <1>2, <1>3, <1>7, <2>1 DEF InOrder, OneRenews, TaskInv, Running, Later, Tokens
    <2>2. LatestInv'
        BY <1>4, <1>7 DEF InOrder, LatestInv, Running
    <2> QED BY <1>5, <1>6, <2>1, <2>2 DEF InOrder, OneRenews
<1>8. CASE ~(ren' = ren /\ cur' = cur /\ gone' = gone \union ({rotated} \ {None}))
    <2>1. profile = token /\ ~Running(cur) /\ gone' = gone /\ login # "signs"
        BY <1>1, <1>8, RecoverSteps
    <2>2. PICK i \in Tasks :
              /\ ren' \in [Tasks -> Renewals] /\ cur' = i
              /\ ren'[i].at = "begins" /\ ren'[i].old = token /\ ren'[i].new = rotated
              /\ \A j \in Tasks \ {i} : ren'[j] = ren[j]
        BY <1>1, <1>8, RecoverSteps
    <2>3. \A j \in Tasks : ~Running(j)
        BY <2>1 DEF InOrder, OneRenews, TaskInv
    <2>4. \A j \in Tasks : Running(j)' => j = i
        BY <2>2, <2>3 DEF Running
    <2>5. rotated # None => Later(rotated)'
        <3>1. profile[1] = logins /\ profile[2] <= issued[logins] /\ profile[2] \in Nat
            BY DEF InOrder, TokensInv, Tokens
        <3>2. rotated # None => /\ rotated \in Tokens /\ rotated[1] = logins
                                /\ rotated[2] = issued[logins] + 1 /\ issued'[logins] = issued[logins] + 1
            BY <2>1, <3>1, TokenFacts
        <3> QED BY <1>2, <1>3, <3>1, <3>2 DEF Later, Tokens
    <2>6. TaskInv(i)'
        BY <2>1, <2>2, <2>5 DEF TaskInv
    <2>7. LatestInv'
        <3>1. Running(i)' /\ ren'[i].new = rotated
            BY <2>2 DEF Running, Tasks
        <3> QED BY <1>4, <2>1, <2>3, <3>1 DEF InOrder, LatestInv
    <2> QED BY <1>5, <1>6, <2>4, <2>6, <2>7 DEF InOrder, OneRenews
<1> QED BY <1>7, <1>8
\* A login puts a session of its own in place of everything: nothing renews.
LEMMA SignedInKeeps ==
    ASSUME SessionAssumption, SessionTypes, InOrder, SignedIn PROVE InOrder'
<1>1. /\ UNCHANGED <<issued, ren, req, gone>> /\ login = "signs" /\ login' = "idle"
      /\ \A i \in Tasks : ~Running(i)
    BY DEF SignedIn, InOrder, OneRenews, TaskInv
<1>2. \A i \in Tasks : ~Running(i)'
    BY <1>1 DEF Running
<1>3. CASE UNCHANGED <<logins, profile, disk, pending>>
    <2>1. TokensInv' /\ IssuedInv'
        BY <1>1, <1>3 DEF InOrder, TokensInv, Later, IssuedInv, Tokens
    <2>2. LatestInv'
        BY <1>1, <1>3 DEF InOrder, LatestInv, Latest
    <2> QED BY <1>2, <2>1, <2>2 DEF InOrder, OneRenews
<1>4. CASE ~UNCHANGED <<logins, profile, disk, pending>>
    <2>1. logins' = logins + 1 /\ profile' = <<logins + 1, 1>> /\ disk' = profile' /\ pending' = None
        BY <1>4 DEF SignedIn
    <2>2. logins + 1 \in 1..(MaxLogins + 1) /\ logins \in Nat /\ MaxLogins \in Nat
        BY <1>1 DEF SessionTypes, SessionAssumption
    <2>3. issued[logins + 1] = 1
        BY <2>2 DEF InOrder, IssuedInv
    <2>4. TokensInv'
        BY <1>1, <2>1, <2>2, <2>3 DEF TokensInv, Tokens
    <2>5. LatestInv'
        BY <1>1, <2>1, <2>3 DEF LatestInv, Latest
    <2>6. IssuedInv'
        <3>1. \A k \in (logins' + 1)..(MaxLogins + 1) : issued'[k] = 1
            BY <1>1, <2>1, <2>2 DEF InOrder, IssuedInv
        <3>2. ASSUME NEW r \in Requests, req[r].at = "sent" PROVE req[r].token[1] <= logins + 1
            <4>1. req[r].token[1] \in Nat /\ req[r].token[1] <= logins
                BY <2>2, <3>2 DEF SessionTypes, Tokens, InOrder, IssuedInv
            <4> QED BY <2>2, <4>1
        <3> QED BY <1>1, <2>1, <3>1, <3>2 DEF IssuedInv
    <2> QED BY <1>2, <2>4, <2>5, <2>6 DEF InOrder, OneRenews
<1> QED BY <1>3, <1>4

\* A restart reads the file, and forgets what was in memory.
LEMMA RestartKeeps ==
    ASSUME SessionAssumption, SessionTypes, InOrder, Restarts PROVE InOrder'
<1>1. /\ profile' = disk /\ disk' = disk /\ pending' = None /\ login' = "idle"
      /\ UNCHANGED <<issued, logins>>
      /\ gone' = gone \union (({pending} \union {ren[i].new : i \in {j \in Tasks : Running(j)}})
                              \ {None, disk})
    BY DEF Restarts
<1>2. (\A r \in Requests : req'[r].at # "sent") /\ \A i \in Tasks : ~Running(i)'
    <2>1. Idle.at # "sent" /\ Unused.at = "none" /\ \A i \in Tasks : ren[i] \in Renewals
        BY DEF Idle, Unused, SessionTypes
    <2>2. \A i \in Tasks : [ren[i] EXCEPT !.at = "done"].at = "done"
        BY <2>1 DEF Renewals
    <2> QED BY <2>1, <2>2 DEF Restarts, Running
<1>3. TokensInv'
    BY <1>1 DEF InOrder, TokensInv, Later, Tokens
<1>4. Latest' = Latest /\ Latest # None
    BY <1>1 DEF Latest, None, SessionTypes
<1>5. LatestInv'
    <2>1. CASE Latest = profile
        <3>1. disk = profile
            BY <2>1 DEF InOrder, TokensInv, Later, Latest, Tokens
        <3> QED BY <1>1, <1>4, <2>1, <3>1 DEF LatestInv
    <2>2. CASE Latest = pending \/ Latest \in gone
        BY <1>1, <1>4, <2>2 DEF LatestInv
    <2>3. CASE \E i \in Tasks : Running(i) /\ ren[i].new = Latest
        BY <1>1, <1>4, <2>3 DEF LatestInv
    <2> QED BY <2>1, <2>2, <2>3 DEF InOrder, LatestInv
<1>6. IssuedInv'
    BY <1>1, <1>2 DEF InOrder, IssuedInv
<1> QED BY <1>2, <1>3, <1>5, <1>6 DEF InOrder, OneRenews

LEMMA SessionStep ==
    SessionAssumption /\ SessionTypes /\ SessionInv /\ [EitaaNext]_vars => SessionInv'
<1> SUFFICES ASSUME SessionAssumption, SessionTypes, SessionInv, [EitaaNext]_vars PROVE SessionInv'
    OBVIOUS
<1>1. raced => raced'
    BY Zenon DEF EitaaNext, vars, Requesting, Renewing, Invoke, Begins, Awaited, Answered, Revoked,
                 Expired, Rotated, Rejected, Recover, RenewalBegins, Served, RenewalRead,
                 RenewalFails, RenewalRefused, Saved, NotSaved, Renewed, BackoffEnds,
                 ValidateCode, Prepared, SignedIn, Restarts
<1> SUFFICES ASSUME InOrder, ~raced' PROVE InOrder'
    BY <1>1, Zenon DEF SessionInv
<1> USE DEF tokens, flags
<1>a. profile \in Tokens /\ profile[1] <= logins
    BY DEF InOrder, TokensInv, SessionTypes
<1>2. ASSUME NEW r \in Requests, NEW to,
             Req(r, to), to.at = "sent" => to.token[1] <= logins,
             UNCHANGED <<tokens, ren, cur, logins, login>>, gone \subseteq gone'
      PROVE  InOrder'
    <2>1. \A o \in Requests :
                  req'[o] = IF o = r THEN to ELSE req[o]
        BY <1>2 DEF Req, SessionTypes
    <2>2. \A o \in Requests : req'[o].at = "sent" => req'[o].token[1] <= logins
        BY <1>2, <2>1 DEF InOrder, IssuedInv
    <2> QED BY <1>2, <2>2, AsideKeeps
<1>3. ASSUME NEW r \in Requests, Invoke(r) \/ Answered(r) \/ Revoked(r) PROVE InOrder'
    <2>1. Idle.at # "sent" /\ [Idle EXCEPT !.at = "begins"].at # "sent"
        BY DEF Idle
    <2> QED BY <1>2, <1>3, <2>1 DEF Invoke, Answered, Revoked
<1>4. ASSUME NEW r \in Requests, Awaited(r) PROVE InOrder'
    <2>1. req[r] \in Sendings /\ Idle.at # "sent"
        BY DEF Idle, SessionTypes
    <2>2. /\ [req[r] EXCEPT !.at = "sent", !.token = profile, !.first = FALSE].token = profile
          /\ [req[r] EXCEPT !.at = "begins", !.attempt = @ + 1].at # "sent"
        BY <2>1 DEF Sendings
    <2>3. \E to : Req(r, to) /\ (to.at = "sent" => to.token[1] <= logins)
        BY <1>a, <1>4, <2>1, <2>2 DEF Awaited
    <2> QED BY <1>2, <1>4, <2>3 DEF Awaited
<1>5. ASSUME NEW r \in Requests, Begins(r) PROVE InOrder'
    <2>1. UNCHANGED <<tokens, login, logins>>
        BY <1>5 DEF Begins
    <2>2. req[r] \in Sendings /\ Idle.at # "sent"
        BY DEF Idle, SessionTypes
    <2>3. CASE ~loginRequired /\ profile # None /\ refreshPending
        <3>1. [req[r] EXCEPT !.first = TRUE] \in Sendings
            BY <2>2 DEF Sendings
        <3>2. Recover(r, profile, None, [req[r] EXCEPT !.first = TRUE])
            BY <1>5, <2>3 DEF Begins
        <3> QED BY <1>a, <2>1, <3>1, <3>2, RecoverKeeps
    <2>4. CASE ~(~loginRequired /\ profile # None /\ refreshPending)
        <3>1. /\ [req[r] EXCEPT !.at = "waits", !.task = cur, !.first = TRUE].at # "sent"
              /\ [req[r] EXCEPT !.at = "sent", !.token = profile].token = profile
            BY <2>2 DEF Sendings
        <3>2. /\ \E to : Req(r, to) /\ (to.at = "sent" => to.token[1] <= logins)
              /\ UNCHANGED <<ren, cur, gone>>
            BY <1>a, <1>5, <2>2, <2>4, <3>1 DEF Begins
        <3> QED BY <1>2, <2>1, <3>2
    <2> QED BY <2>3, <2>4
<1>6. ASSUME NEW r \in Requests, NEW rotated \in {None, Newer(req[r].token)}, Rejected(r, rotated)
      PROVE  InOrder'
    <2>1. /\ req[r] \in Sendings /\ req[r].token \in Tokens /\ req[r].token[1] <= logins
          /\ UNCHANGED <<profile, disk, pending, login, logins>>
          /\ IF rotated = None THEN UNCHANGED issued ELSE Issues(req[r].token)
        BY <1>6 DEF Rejected, SessionTypes, InOrder, IssuedInv
    <2>2. CASE req[r].attempt # MaxRenewals
        <3>1. Recover(r, req[r].token, rotated, req[r])
            BY <1>6, <2>2 DEF Rejected
        <3> QED BY <2>1, <3>1, RecoverKeeps
    <2>3. CASE req[r].attempt = MaxRenewals
        BY <1>6, <2>1, <2>3, GivesUpKeeps DEF Rejected
    <2> QED BY <2>2, <2>3
<1>7. ASSUME NEW i \in Tasks,
             \/ RenewalBegins(i) \/ RenewalRead(i) \/ RenewalFails(i) \/ RenewalRefused(i)
             \/ Saved(i) \/ NotSaved(i) \/ Renewed(i)
      PROVE  InOrder'
    <2>1. UNCHANGED <<cur, req, login, logins>>
        BY <1>7, Zenon DEF RenewalBegins, RenewalRead, RenewalFails, RenewalRefused, Saved,
                           NotSaved, Renewed
    <2> QED BY <1>7, <2>1, TaskKeeps
<1>8. CASE BackoffEnds \/ ValidateCode \/ Prepared \/ UNCHANGED vars
    <2>1. /\ UNCHANGED <<tokens, ren, cur, logins, gone, req>>
          /\ login' # "signs" \/ login' = login \/ ~Running(cur)
        BY <1>8 DEF BackoffEnds, ValidateCode, Prepared, vars
    <2> QED BY <2>1, AsideKeeps DEF InOrder, IssuedInv
<1>9. ASSUME NEW r \in Requests, Expired(r) \/ Rotated(r) PROVE InOrder'
    BY <1>6, <1>9 DEF Expired, Rotated
<1> QED BY <1>3, <1>4, <1>5, <1>7, <1>8, <1>9, ServedKeeps, SignedInKeeps, RestartKeeps
        DEF EitaaNext, Requesting, Renewing

----------------------------------------------------------------------------
(* The theorems.                                                           *)

LEMMA InvInit == SessionAssumption /\ EitaaInit => SessionTypes /\ SessionInv
BY SessionTypesInit, InOrderInit DEF SessionInv

LEMMA InvStep ==
    ASSUME SessionAssumption, SessionTypes, SessionInv, [EitaaNext]_vars
    PROVE  SessionTypes' /\ SessionInv'
BY SessionTypesStep, SessionStep

\* What the invariant says of the tokens.
LEMMA InvMeans ==
    ASSUME SessionTypes, SessionInv
    PROVE  TokenKept /\ AskedOnce /\ NewLoginStays
<1>1. TokenKept
    BY Zenon DEF SessionInv, InOrder, LatestInv, Latest, TokenKept, Held
<1>2. ASSUME InOrder, NEW i \in Tasks, ren[i].at = "asked",
             NEW token \in {profile, disk, pending}, token[1] = ren[i].old[1]
      PROVE  token[2] <= ren[i].old[2]
    <2>1. Running(i) /\ TaskInv(i)
        BY <1>2 DEF Running, Tasks, InOrder, OneRenews
    <2>2. profile[2] \in Nat /\ profile[1] \in 1..(MaxLogins + 1) /\ None[1] = 0
        BY <1>2 DEF InOrder, TokensInv, Tokens, None
    <2>3. token = profile \/ token = None
        BY <1>2, <2>1 DEF InOrder, TokensInv, TaskInv
    <2> QED BY <1>2, <2>1, <2>2, <2>3 DEF TaskInv
<1>3. AskedOnce
    BY <1>2, Zenon DEF SessionInv, AskedOnce
<1>4. NewLoginStays
    BY Zenon DEF SessionInv, InOrder, TokensInv, NewLoginStays
<1> QED BY <1>1, <1>3, <1>4

LEMMA SessionInvariant ==
    SessionAssumption => (EitaaSpec => [](SessionTypes /\ SessionInv))
<1> SUFFICES ASSUME SessionAssumption PROVE EitaaSpec => [](SessionTypes /\ SessionInv)
    OBVIOUS
<1>1. (SessionTypes /\ SessionInv) /\ [EitaaNext]_vars => (SessionTypes /\ SessionInv)'
    BY InvStep
<1>2. EitaaInit => SessionTypes /\ SessionInv
    BY InvInit
<1> QED BY <1>1, <1>2, PTL DEF EitaaSpec

\* However many requests find their token refused, and whatever fails between the
\* answer, the file and the profile, the server's last token stays with the
\* client or was one it was sent unasked (session_client.py, _renew, _recover).
THEOREM LastTokenKept == SessionAssumption => (EitaaSpec => []TokenKept)
BY SessionInvariant, InvMeans, PTL

\* The server is asked to renew a token only while nobody has a newer one, so
\* that requests that fail side by side cost one renewal (invoke, _recover).
THEOREM RenewedOnce == SessionAssumption => (EitaaSpec => []AskedOnce)
BY SessionInvariant, InvMeans, PTL

\* A login with a code is what the client goes on with: no renewal of the session
\* before undoes it, unless it began while the server checked the code
\* (prepare_reauthentication, reset_session_recovery).
THEOREM LoginStays == SessionAssumption => (EitaaSpec => []NewLoginStays)
BY SessionInvariant, InvMeans, PTL

----------------------------------------------------------------------------
(* The logins of an Instagram account (InstagramChallenge).                *)

CONSTANTS MaxFlows, MaxTurns
VARIABLES s, lock, at, flow, event, signals, edited, tries, turns

Login == INSTANCE InstagramChallenge

\* The instance's Cardinality is that of the theorems on finite sets.
LEMMA LoginCardinality == \A S : Login!Cardinality(S) = Cardinality(S)
BY DEF Login!Cardinality, Cardinality

States == {"none", "sending", "code_sent", "resolving", "manual", "failed", "connected"}
Sessions == [state : States, auth : BOOLEAN,
             detail : {"new", "ok", "challenge", "refused", "native", "failed", "manual", "expired"},
             event : Nat, frozen : Nat]
Places == {"idle", "connects", "locks", "login", "starts", "loads", "watches", "resumes"}

ChallengeTypes ==
    /\ s \in Sessions /\ edited \in BOOLEAN /\ raced \in BOOLEAN /\ tries \in Nat
    /\ at \in [Login!Callers -> Places]
    /\ flow \in [Login!Flows -> {"none", "login", "waits", "adopts", "done"}]

\* Let in to log in or to start a challenge, and not turned into one yet.
Entered == Login!Those({"locks", "login", "starts", "loads"})
Resuming == Login!Those({"resumes"})

\* Unless two were let in side by side, one caller, one thread or one resumption
\* is under way, and the state of the challenge says which.
TurnsInv ==
    /\ \A c, d \in Entered : c = d
    /\ \A c, d \in Resuming : c = d
    /\ \A f, g \in Login!Threads : f = g
    /\ Entered # {} => s.state \notin Login!InProgress
    /\ Login!Threads # {} => Resuming = {} /\ s.state \in {"sending", "code_sent", "resolving"}
    /\ Resuming # {} => s.state = "resolving" /\ s.frozen # 0
    /\ s.state \in {"sending", "code_sent", "resolving"} => Login!Threads # {} \/ Resuming # {}
    /\ s.state = "manual" => s.frozen # 0

\* The poll task logs in while it is to wait only with changed credentials,
\* which it has not tried.
TriesInv ==
    /\ tries <= 1
    /\ (at["poll"] = "locks" /\ s.detail \in Login!Waiting) => tries = 0

ChallengeInv == ChallengeTypes /\ (~raced => TurnsInv /\ TriesInv)

\* What these sets are after the steps that change them.
LEMMA CallerMoves ==
    ASSUME at \in [Login!Callers -> Places], NEW c \in Login!Callers, NEW to \in Places,
           Login!Goes(c, to)
    PROVE  /\ at' \in [Login!Callers -> Places]
           /\ Entered' = (Entered \ {c}) \union
                            (IF to \in {"locks", "login", "starts", "loads"} THEN {c} ELSE {})
           /\ Resuming' = (Resuming \ {c}) \union (IF to \in {"resumes"} THEN {c} ELSE {})
           /\ \A d \in Login!Callers : at'[d] = IF d = c THEN to ELSE at[d]
BY DEF Login!Goes, Login!Those, Entered, Resuming

LEMMA ThreadMoves ==
    ASSUME ChallengeTypes, NEW f \in Login!Flows,
           NEW to \in {"none", "login", "waits", "adopts", "done"},
           Login!Runs(f, to)
    PROVE  /\ flow' \in [Login!Flows -> {"none", "login", "waits", "adopts", "done"}]
           /\ Login!Threads' = (Login!Threads \ {f}) \union
                            (IF to \in {"login", "waits", "adopts"} THEN {f} ELSE {})
BY DEF Login!Runs, Login!Threads, ChallengeTypes

LEMMA SessionMoves ==
    ASSUME s \in Sessions, NEW st \in States,
           NEW de \in {"new", "ok", "challenge", "refused", "native", "failed", "manual", "expired"},
           NEW au \in BOOLEAN, NEW fr \in Nat
    PROVE  /\ [s EXCEPT !.auth = au] \in Sessions
           /\ [s EXCEPT !.auth = au, !.detail = de] \in Sessions
           /\ [s EXCEPT !.state = st] \in Sessions
           /\ [s EXCEPT !.state = st, !.auth = au] \in Sessions
           /\ [s EXCEPT !.state = st, !.frozen = fr, !.detail = de] \in Sessions
           /\ [s EXCEPT !.state = st, !.auth = au, !.detail = de] \in Sessions
           /\ [s EXCEPT !.state = st, !.auth = au, !.detail = de, !.frozen = fr] \in Sessions
           /\ [s EXCEPT !.state = st, !.event = fr, !.frozen = 0] \in Sessions
BY DEF Sessions

LEMMA ChallengeInvInit == ASSUME Login!ChallengeAssumption, Login!ChallengeInit PROVE ChallengeInv
<1>1. ChallengeTypes
    BY DEF Login!ChallengeInit, ChallengeTypes, Login!NewSession, Sessions, States, Places
<1>2. Entered = {} /\ Resuming = {} /\ Login!Threads = {}
    BY DEF Login!ChallengeInit, Entered, Resuming, Login!Those, Login!Threads
<1>3. s.state = "none" /\ s.detail = "new" /\ tries = 0
    BY DEF Login!ChallengeInit, Login!NewSession
<1> QED BY <1>1, <1>2, <1>3 DEF ChallengeInv, TurnsInv, TriesInv, Login!InProgress, Login!Waiting

\* A step that lets nobody in, ends nothing and leaves the state of the challenge.
LEMMA NothingBegins ==
    ASSUME ChallengeInv, ChallengeTypes', UNCHANGED <<raced, Entered, Resuming, Login!Threads>>,
           s'.state = s.state, s'.frozen = s.frozen, tries' \in {0, tries},
           at'["poll"] = "locks" => at["poll"] = "locks",
           s'.detail \in Login!Waiting => s.detail \in Login!Waiting
    PROVE  ChallengeInv'
BY DEF ChallengeInv, TurnsInv, TriesInv

----------------------------------------------------------------------------
LEMMA ConnectStep ==
    ASSUME ChallengeInv, NEW c \in Login!Callers, Login!Connect(c) PROVE ChallengeInv'
<1>1. /\ ChallengeTypes
      /\ UNCHANGED flow /\ edited' = FALSE /\ tries' = IF edited THEN 0 ELSE tries
    BY DEF ChallengeInv, Login!Connect
<1>2. UNCHANGED Login!Threads
    BY <1>1 DEF Login!Threads
<1> DEFINE away == s.state \in Login!InProgress \/ (~edited /\ s.detail \in Login!Waiting)
                      \/ (s.auth /\ ~edited)
<1>3. CASE away
    <2>1. UNCHANGED <<s, raced>> /\ (UNCHANGED at \/ (at[c] = "connects" /\ Login!Goes(c, "idle")))
        BY <1>3 DEF Login!Connect
    <2>2. /\ at' \in [Login!Callers -> Places] /\ Entered' = Entered /\ Resuming' = Resuming
          /\ at'["poll"] = "locks" => at["poll"] = "locks"
        <3>1. CASE UNCHANGED at
            BY <1>1, <3>1 DEF ChallengeTypes, Entered, Resuming, Login!Those
        <3>2. CASE at[c] = "connects" /\ Login!Goes(c, "idle")
            <4>1. /\ "idle" \in Places /\ c \notin Entered /\ c \notin Resuming
                  /\ at \in [Login!Callers -> Places]
                BY <1>1, <3>2 DEF Places, Entered, Resuming, Login!Those, ChallengeTypes
            <4>2. "poll" \in Login!Callers
                BY DEF Login!Callers
            <4> QED BY <3>2, <4>1, <4>2, CallerMoves
        <3> QED BY <2>1, <3>1, <3>2
    <2>3. ChallengeTypes' /\ tries' \in {0, tries}
        BY <1>1, <2>1, <2>2 DEF ChallengeTypes
    <2> QED BY <1>2, <2>1, <2>2, <2>3, NothingBegins
<1>4. CASE ~away
    <2>1. /\ Login!Goes(c, "locks") /\ s' = [s EXCEPT !.auth = FALSE]
          /\ raced' = (raced \/ Entered # {})
        BY <1>4 DEF Login!Connect, Entered
    <2>2. /\ s' \in Sessions /\ s'.state = s.state /\ s'.detail = s.detail
          /\ s'.frozen = s.frozen /\ raced' \in BOOLEAN /\ tries' \in Nat
        BY <1>1, <2>1 DEF ChallengeTypes, Sessions
    <2>3. /\ at' \in [Login!Callers -> Places] /\ Entered' = Entered \union {c}
          /\ Resuming' = Resuming \ {c}
          /\ \A d \in Login!Callers : at'[d] = IF d = c THEN "locks" ELSE at[d]
        <3>1. "locks" \in Places /\ at \in [Login!Callers -> Places]
            BY <1>1 DEF Places, ChallengeTypes
        <3> QED BY <2>1, <3>1, CallerMoves
    <2>4. ChallengeTypes'
        BY <1>1, <2>2, <2>3 DEF ChallengeTypes
    <2>5. ASSUME ~raced' PROVE TurnsInv' /\ TriesInv'
        <3>1. ~raced /\ Entered = {} /\ TurnsInv /\ TriesInv
            BY <2>1, <2>5 DEF ChallengeInv
        <3>2. s.state \notin Login!InProgress /\ Login!Threads = {} /\ Resuming = {}
            BY <1>4, <3>1 DEF TurnsInv, Login!InProgress
        <3>3. TurnsInv'
            BY <1>2, <2>2, <2>3, <3>1, <3>2 DEF TurnsInv, Login!InProgress
        <3>4. edited \/ s.detail \notin Login!Waiting
            BY <1>4
        <3>5. "poll" \in Login!Callers /\ (at["poll"] # "locks" \/ c = "poll")
            BY <3>1 DEF Login!Callers, Entered, Login!Those
        <3>6. TriesInv'
            BY <1>1, <2>2, <2>3, <3>1, <3>4, <3>5 DEF TriesInv
        <3> QED BY <3>3, <3>6
    <2> QED BY <2>4, <2>5 DEF ChallengeInv
<1> QED BY <1>3, <1>4

LEMMA LocksStep ==
    ASSUME ChallengeInv, NEW c \in Login!Callers, Login!Locks(c) PROVE ChallengeInv'
<1>1. /\ ChallengeTypes /\ UNCHANGED <<s, flow, edited, raced>> /\ at[c] = "locks"
      /\ Login!Goes(c, "login")
      /\ tries' = IF c = "poll" /\ s.detail \in {"challenge", "refused"} /\ ~s.auth
                  THEN tries + 1 ELSE tries
    BY DEF ChallengeInv, Login!Locks
<1>2. /\ at' \in [Login!Callers -> Places] /\ Entered' = Entered /\ Resuming' = Resuming
      /\ \A d \in Login!Callers : at'[d] = IF d = c THEN "login" ELSE at[d]
    <2>1. c \in Entered /\ c \notin Resuming /\ "login" \in Places /\ at \in [Login!Callers -> Places]
        BY <1>1 DEF Entered, Resuming, Login!Those, Places, ChallengeTypes
    <2> QED BY <1>1, <2>1, CallerMoves
<1>3. ChallengeTypes' /\ UNCHANGED Login!Threads
    BY <1>1, <1>2 DEF ChallengeTypes, Login!Threads
<1>4. ASSUME ~raced' PROVE TurnsInv' /\ TriesInv'
    <2>1. TurnsInv /\ TriesInv
        BY <1>1, <1>4 DEF ChallengeInv
    <2>2. TurnsInv'
        BY <1>1, <1>2, <1>3, <2>1 DEF TurnsInv
    <2>3. "poll" \in Login!Callers /\ tries \in Nat
        BY <1>1 DEF Login!Callers, ChallengeTypes
    <2>4. (c = "poll" /\ s.detail \in {"challenge", "refused"}) => tries = 0
        BY <1>1, <2>1 DEF TriesInv, Login!Waiting
    <2>5. TriesInv'
        BY <1>1, <1>2, <2>1, <2>3, <2>4 DEF TriesInv
    <2> QED BY <2>2, <2>5
<1> QED BY <1>3, <1>4 DEF ChallengeInv

LEMMA LoggedInStep ==
    ASSUME ChallengeInv, NEW c \in Login!Callers, Login!LoggedIn(c) PROVE ChallengeInv'
<1>1. /\ ChallengeTypes /\ UNCHANGED <<flow, edited, raced>> /\ at[c] = "login" /\ Login!Goes(c, "idle")
      /\ tries' = 0 \/ tries' = tries
    BY DEF ChallengeInv, Login!LoggedIn
<1>2. s' \in Sessions /\ s'.state = s.state /\ s'.frozen = s.frozen
    <2>1. CASE s' = [s EXCEPT !.auth = TRUE, !.detail = "ok"]
        BY <1>1, <2>1 DEF ChallengeTypes, Sessions
    <2>2. ASSUME NEW why \in {"challenge", "refused", "native", "failed"},
                 s' = [s EXCEPT !.auth = FALSE, !.detail = why]
          PROVE  s' \in Sessions /\ s'.state = s.state /\ s'.frozen = s.frozen
        BY <1>1, <2>2 DEF ChallengeTypes, Sessions
    <2> QED BY <2>1, <2>2 DEF Login!LoggedIn
<1>3. /\ at' \in [Login!Callers -> Places] /\ Entered' = Entered \ {c} /\ Resuming' = Resuming
      /\ \A d \in Login!Callers : at'[d] = IF d = c THEN "idle" ELSE at[d]
    <2>1. c \notin Resuming /\ "idle" \in Places /\ at \in [Login!Callers -> Places]
        BY <1>1 DEF Resuming, Login!Those, Places, ChallengeTypes
    <2> QED BY <1>1, <2>1, CallerMoves
<1>4. ChallengeTypes' /\ UNCHANGED Login!Threads
    BY <1>1, <1>2, <1>3 DEF ChallengeTypes, Login!Threads
<1>5. ASSUME ~raced' PROVE TurnsInv' /\ TriesInv'
    <2>1. TurnsInv /\ TriesInv
        BY <1>1, <1>5 DEF ChallengeInv
    <2>2. TurnsInv'
        BY <1>1, <1>2, <1>3, <1>4, <2>1 DEF TurnsInv
    <2>3. at'["poll"] # "locks"
        <3>1. "poll" \in Login!Callers
            BY DEF Login!Callers
        <3>2. c \in Entered /\ (at["poll"] = "locks" => "poll" \in Entered)
            BY <1>1, <3>1 DEF Entered, Login!Those
        <3> QED BY <1>1, <1>3, <2>1, <3>1, <3>2 DEF TurnsInv
    <2>4. TriesInv'
        BY <1>1, <2>1, <2>3 DEF TriesInv
    <2> QED BY <2>2, <2>4
<1> QED BY <1>4, <1>5 DEF ChallengeInv

LEMMA StartStep ==
    ASSUME ChallengeInv, NEW p \in Requests, Login!Start(p) PROVE ChallengeInv'
<1>1. /\ ChallengeTypes /\ UNCHANGED <<s, flow>> /\ tries' = 0 /\ edited' = FALSE /\ at[p] = "idle"
    BY DEF ChallengeInv, Login!Start
<1>2. UNCHANGED Login!Threads
    BY <1>1 DEF Login!Threads
<1>3. CASE s.auth \/ s.state \in Login!InProgress
    <2>1. UNCHANGED <<at, raced>>
        BY <1>3 DEF Login!Start
    <2>2. UNCHANGED <<Entered, Resuming>>
        BY <2>1 DEF Entered, Resuming, Login!Those
    <2>3. ChallengeTypes'
        BY <1>1, <2>1 DEF ChallengeTypes
    <2> QED BY <1>1, <1>2, <2>1, <2>2, <2>3, NothingBegins
<1>4. CASE ~(s.auth \/ s.state \in Login!InProgress)
    <2>1. Login!Goes(p, "starts") /\ raced' = (raced \/ Entered # {}) /\ p \in Login!Callers
        BY <1>4 DEF Login!Start, Entered, Login!Callers
    <2>2. /\ at' \in [Login!Callers -> Places] /\ Entered' = Entered \union {p}
          /\ Resuming' = Resuming \ {p}
        <3>1. "starts" \in Places /\ at \in [Login!Callers -> Places]
            BY <1>1 DEF Places, ChallengeTypes
        <3> QED BY <2>1, <3>1, CallerMoves
    <2>3. ChallengeTypes'
        BY <1>1, <2>1, <2>2 DEF ChallengeTypes
    <2>4. ASSUME ~raced' PROVE TurnsInv' /\ TriesInv'
        <3>1. ~raced /\ Entered = {} /\ TurnsInv
            BY <2>1, <2>4 DEF ChallengeInv
        <3>2. s.state \notin Login!InProgress /\ Login!Threads = {} /\ Resuming = {}
            BY <1>4, <3>1 DEF TurnsInv, Login!InProgress
        <3> QED BY <1>1, <1>2, <2>2, <3>1, <3>2 DEF TurnsInv, TriesInv, Login!InProgress
    <2> QED BY <2>3, <2>4 DEF ChallengeInv
<1> QED BY <1>3, <1>4

\* The thread of a challenge takes the place of the request that let it in.
LEMMA StartLoadedStep ==
    ASSUME ChallengeInv, NEW p \in Requests, Login!StartLoaded(p) PROVE ChallengeInv'
<1>1. /\ ChallengeTypes /\ UNCHANGED <<edited, tries, raced>> /\ at[p] = "loads"
      /\ Login!Goes(p, "watches") /\ p \in Login!Callers
    BY DEF ChallengeInv, Login!StartLoaded, Login!Callers
<1>2. PICK f \in Login!Flows :
          Login!Runs(f, "login") /\ s' = [s EXCEPT !.state = "sending", !.event = f, !.frozen = 0]
    BY DEF Login!StartLoaded
<1>3. f \in Nat /\ "sending" \in States
    BY DEF Login!Flows, States
<1>4. s' \in Sessions /\ s'.state = "sending" /\ s'.detail = s.detail
    BY <1>1, <1>2, <1>3 DEF ChallengeTypes, Sessions
<1>5. /\ at' \in [Login!Callers -> Places] /\ Entered' = Entered \ {p} /\ Resuming' = Resuming
      /\ \A d \in Login!Callers : at'[d] = IF d = p THEN "watches" ELSE at[d]
      /\ p \in Entered
    <2>1. p \in Entered /\ p \notin Resuming /\ "watches" \in Places /\ at \in [Login!Callers -> Places]
        BY <1>1 DEF Entered, Resuming, Login!Those, Places, ChallengeTypes
    <2> QED BY <1>1, <2>1, CallerMoves
<1>6. /\ flow' \in [Login!Flows -> {"none", "login", "waits", "adopts", "done"}]
      /\ Login!Threads' = Login!Threads \union {f}
    BY <1>1, <1>2, ThreadMoves
<1>7. ChallengeTypes'
    BY <1>1, <1>4, <1>5, <1>6 DEF ChallengeTypes
<1>8. ASSUME ~raced' PROVE TurnsInv' /\ TriesInv'
    <2>1. TurnsInv /\ TriesInv
        BY <1>1, <1>8 DEF ChallengeInv
    <2>2. Entered' = {} /\ Login!Threads = {} /\ Resuming = {}
        BY <1>5, <2>1 DEF TurnsInv, Login!InProgress
    <2>3. TurnsInv'
        BY <1>4, <1>5, <1>6, <2>2 DEF TurnsInv
    <2>4. at'["poll"] = "locks" => at["poll"] = "locks"
        <3>1. "poll" \in Login!Callers
            BY DEF Login!Callers
        <3> QED BY <1>5, <3>1
    <2>5. TriesInv'
        BY <1>1, <1>4, <2>1, <2>4 DEF TriesInv
    <2> QED BY <2>3, <2>5
<1> QED BY <1>7, <1>8 DEF ChallengeInv

LEMMA RequestMoves ==
    ASSUME ChallengeInv, NEW p \in Requests,
           Login!StartLocks(p) \/ Login!StartReturns(p) \/ Login!Check(p)
    PROVE  ChallengeInv'
<1>1. /\ ChallengeTypes /\ UNCHANGED <<s, flow, raced>> /\ tries' \in {0, tries} /\ edited' = edited
      /\ p \in Login!Callers /\ "poll" \in Login!Callers
    BY DEF ChallengeInv, Login!StartLocks, Login!StartReturns, Login!Check, Login!Callers
<1>2. PICK to \in {"loads", "idle", "connects"} :
          /\ Login!Goes(p, to) /\ at[p] \in {"starts", "watches", "idle"}
          /\ at[p] = "starts" <=> to = "loads"
    BY DEF Login!StartLocks, Login!StartReturns, Login!Check
<1>3. /\ at' \in [Login!Callers -> Places] /\ Entered' = Entered /\ Resuming' = Resuming
      /\ at'["poll"] = "locks" => at["poll"] = "locks"
    <2>1. to \in Places /\ at \in [Login!Callers -> Places]
        BY <1>1 DEF Places, ChallengeTypes
    <2>2. (p \in Entered <=> at[p] = "starts") /\ p \notin Resuming
        BY <1>1, <1>2 DEF Entered, Resuming, Login!Those
    <2>3. /\ Entered' = (Entered \ {p}) \union
                 (IF to \in {"locks", "login", "starts", "loads"} THEN {p} ELSE {})
          /\ Resuming' = (Resuming \ {p}) \union (IF to \in {"resumes"} THEN {p} ELSE {})
          /\ at' \in [Login!Callers -> Places]
          /\ \A d \in Login!Callers : at'[d] = IF d = p THEN to ELSE at[d]
        BY <1>1, <1>2, <2>1, CallerMoves
    <2> QED BY <1>1, <1>2, <2>2, <2>3
<1>4. ChallengeTypes' /\ UNCHANGED Login!Threads
    BY <1>1, <1>3 DEF ChallengeTypes, Login!Threads
<1> QED BY <1>1, <1>3, <1>4, NothingBegins

----------------------------------------------------------------------------
LEMMA ThreadGoesOn ==
    ASSUME ChallengeInv, NEW f \in Login!Flows, Login!Asked(f) \/ Login!Passed(f) \/ Login!CodeRead(f)
    PROVE  ChallengeInv'
<1>1. ChallengeTypes /\ UNCHANGED <<at, edited, raced, tries>> /\ f \in Login!Threads
    BY DEF ChallengeInv, Login!Asked, Login!Passed, Login!CodeRead, Login!Threads
<1>2. PICK to \in {"login", "waits", "adopts"} : Login!Runs(f, to)
    BY DEF Login!Asked, Login!Passed, Login!CodeRead
<1>3. /\ flow' \in [Login!Flows -> {"none", "login", "waits", "adopts", "done"}]
      /\ Login!Threads' = Login!Threads
    BY <1>1, <1>2, ThreadMoves
<1>4. UNCHANGED <<Entered, Resuming>>
    BY <1>1 DEF Entered, Resuming, Login!Those
<1>5. CASE UNCHANGED s
    <2>1. ChallengeTypes'
        BY <1>1, <1>3, <1>5 DEF ChallengeTypes
    <2> QED BY <1>1, <1>3, <1>4, <1>5, <2>1, NothingBegins
<1>6. CASE s' = [s EXCEPT !.state = "code_sent"]
    <2>1. s' \in Sessions /\ s'.state = "code_sent" /\ s'.detail = s.detail
        BY <1>1, <1>6 DEF ChallengeTypes, Sessions, States
    <2>2. ChallengeTypes'
        BY <1>1, <1>3, <2>1 DEF ChallengeTypes
    <2>3. ASSUME ~raced' PROVE TurnsInv' /\ TriesInv'
        <3>1. TurnsInv /\ TriesInv
            BY <1>1, <2>3 DEF ChallengeInv
        <3>2. Entered = {} /\ Resuming = {}
            BY <1>1, <3>1 DEF TurnsInv, Login!InProgress
        <3> QED BY <1>1, <1>3, <1>4, <2>1, <3>1, <3>2 DEF TurnsInv, TriesInv
    <2> QED BY <2>2, <2>3 DEF ChallengeInv
<1> QED BY <1>5, <1>6 DEF Login!Asked, Login!Passed, Login!CodeRead

LEMMA ThreadEnds ==
    ASSUME Login!ChallengeAssumption, ChallengeInv, NEW f \in Login!Flows,
           Login!Frozen(f) \/ Login!FlowFails(f) \/ Login!FlowAdopts(f)
    PROVE  ChallengeInv'
<1>1. /\ ChallengeTypes /\ UNCHANGED <<at, edited, raced, tries>> /\ f \in Login!Threads
      /\ Login!Runs(f, "done")
    BY DEF ChallengeInv, Login!Frozen, Login!FlowFails, Login!FlowAdopts, Login!Threads
<1>2. /\ flow' \in [Login!Flows -> {"none", "login", "waits", "adopts", "done"}]
      /\ Login!Threads' = Login!Threads \ {f}
    BY <1>1, ThreadMoves
<1>3. UNCHANGED <<Entered, Resuming>>
    BY <1>1 DEF Entered, Resuming, Login!Those
<1>4. /\ s' \in Sessions
      /\ \/ s'.state = "manual" /\ s'.frozen # 0
         \/ s'.state \in {"failed", "connected"}
      /\ s'.detail \in Login!Waiting => s.detail \in Login!Waiting
    <2>1. CASE s' = [s EXCEPT !.state = "manual", !.frozen = f, !.detail = "manual"]
        <3>1. f \in Nat /\ f # 0
            BY DEF Login!Flows
        <3> QED BY <1>1, <2>1, <3>1 DEF ChallengeTypes, Sessions, States, Login!Waiting
    <2>2. CASE s' = Login!Failing
        BY <1>1, <2>2 DEF Login!Failing, ChallengeTypes, Sessions, States, Login!Waiting
    <2>3. CASE s' = Login!Adopted
        BY <1>1, <2>3 DEF Login!Adopted, ChallengeTypes, Sessions, States, Login!Waiting
    <2>4. CASE s' = [s EXCEPT !.state = "failed", !.auth = FALSE]
        BY <1>1, <2>4 DEF ChallengeTypes, Sessions, States
    <2> QED BY <2>1, <2>2, <2>3, <2>4 DEF Login!Frozen, Login!FlowFails, Login!FlowAdopts
<1>5. ChallengeTypes'
    BY <1>1, <1>2, <1>4 DEF ChallengeTypes
<1>6. ASSUME ~raced' PROVE TurnsInv' /\ TriesInv'
    <2>1. TurnsInv /\ TriesInv
        BY <1>1, <1>6 DEF ChallengeInv
    <2>2. Entered = {} /\ Resuming = {} /\ Login!Threads' = {}
        BY <1>1, <1>2, <2>1 DEF TurnsInv, Login!InProgress
    <2> QED BY <1>1, <1>3, <1>4, <2>1, <2>2 DEF TurnsInv, TriesInv
<1> QED BY <1>5, <1>6 DEF ChallengeInv

LEMMA SubmitStep ==
    ASSUME ChallengeInv, NEW p \in Requests, Login!Submit(p) PROVE ChallengeInv'
<1>1. /\ ChallengeTypes /\ UNCHANGED <<at, flow, edited, raced>> /\ tries' = 0
      /\ s.state = "code_sent" /\ s' = [s EXCEPT !.state = "resolving"]
    BY DEF ChallengeInv, Login!Submit
<1>2. s' \in Sessions /\ s'.state = "resolving" /\ s'.frozen = s.frozen
    BY <1>1 DEF ChallengeTypes, Sessions, States
<1>3. UNCHANGED <<Entered, Resuming, Login!Threads>>
    BY <1>1 DEF Entered, Resuming, Login!Those, Login!Threads
<1>4. ChallengeTypes'
    BY <1>1, <1>2 DEF ChallengeTypes
<1> QED BY <1>1, <1>2, <1>3, <1>4 DEF ChallengeInv, TurnsInv, TriesInv, Login!InProgress

LEMMA ResumeStep ==
    ASSUME ChallengeInv, NEW p \in Requests, Login!Resume(p) PROVE ChallengeInv'
<1>1. /\ ChallengeTypes /\ UNCHANGED <<flow, edited, raced>> /\ tries' = 0
      /\ s.state = "manual" /\ s.frozen # 0 /\ at[p] = "idle" /\ p \in Login!Callers
    BY DEF ChallengeInv, Login!Resume, Login!Callers
<1>2. UNCHANGED Login!Threads
    BY <1>1 DEF Login!Threads
<1>3. CASE UNCHANGED <<s, at>>
    <2>1. ChallengeTypes' /\ UNCHANGED <<Entered, Resuming>>
        BY <1>1, <1>3 DEF ChallengeTypes, Entered, Resuming, Login!Those
    <2> QED BY <1>1, <1>2, <1>3, <2>1, NothingBegins
<1>4. CASE s' = [s EXCEPT !.state = "resolving"] /\ Login!Goes(p, "resumes")
    <2>1. s' \in Sessions /\ s'.state = "resolving" /\ s'.frozen = s.frozen
        BY <1>1, <1>4 DEF ChallengeTypes, Sessions, States
    <2>2. at' \in [Login!Callers -> Places] /\ Entered' = Entered /\ Resuming' = Resuming \union {p}
        <3>1. p \notin Entered /\ "resumes" \in Places /\ at \in [Login!Callers -> Places]
            BY <1>1 DEF Entered, Login!Those, Places, ChallengeTypes
        <3> QED BY <1>1, <1>4, <3>1, CallerMoves
    <2>3. ChallengeTypes'
        BY <1>1, <2>1, <2>2 DEF ChallengeTypes
    <2>4. ASSUME ~raced' PROVE TurnsInv' /\ TriesInv'
        <3>1. TurnsInv
            BY <1>1, <2>4 DEF ChallengeInv
        <3>2. Entered = {} /\ Resuming = {} /\ Login!Threads = {}
            BY <1>1, <3>1 DEF TurnsInv, Login!InProgress
        <3> QED BY <1>1, <1>2, <2>1, <2>2, <3>2 DEF TurnsInv, TriesInv
    <2> QED BY <2>3, <2>4 DEF ChallengeInv
<1> QED BY <1>3, <1>4 DEF Login!Resume

LEMMA ResumedStep ==
    ASSUME ChallengeInv, NEW p \in Requests, Login!Resumed(p) PROVE ChallengeInv'
<1>1. /\ ChallengeTypes /\ UNCHANGED <<flow, edited, raced, tries>>
      /\ at[p] = "resumes" /\ Login!Goes(p, "idle") /\ p \in Login!Callers
    BY DEF ChallengeInv, Login!Resumed, Login!Callers
<1>2. /\ s' \in Sessions
      /\ s'.detail \in Login!Waiting => s.detail \in Login!Waiting
      /\ \/ s'.state = "connected"
         \/ s'.state = "manual" /\ s'.frozen = s.frozen
    <2>1. CASE s' = Login!Adopted
        BY <1>1, <2>1 DEF Login!Adopted, ChallengeTypes, Sessions, States, Login!Waiting
    <2>2. CASE s' = [s EXCEPT !.state = "manual"]
        BY <1>1, <2>2 DEF ChallengeTypes, Sessions, States
    <2> QED BY <2>1, <2>2 DEF Login!Resumed
<1>3. /\ at' \in [Login!Callers -> Places] /\ Entered' = Entered /\ Resuming' = Resuming \ {p}
      /\ p \in Resuming /\ (at'["poll"] = "locks" => at["poll"] = "locks")
    <2>1. p \in Resuming /\ p \notin Entered /\ "idle" \in Places /\ at \in [Login!Callers -> Places]
        BY <1>1 DEF Resuming, Entered, Login!Those, Places, ChallengeTypes
    <2>2. "poll" \in Login!Callers
        BY DEF Login!Callers
    <2> QED BY <1>1, <2>1, <2>2, CallerMoves
<1>4. ChallengeTypes' /\ UNCHANGED Login!Threads
    BY <1>1, <1>2, <1>3 DEF ChallengeTypes, Login!Threads
<1>5. ASSUME ~raced' PROVE TurnsInv' /\ TriesInv'
    <2>1. TurnsInv /\ TriesInv
        BY <1>1, <1>5 DEF ChallengeInv
    <2>2. Entered = {} /\ Login!Threads = {} /\ Resuming' = {} /\ s.frozen # 0
        BY <1>3, <2>1 DEF TurnsInv, Login!InProgress
    <2> QED BY <1>1, <1>2, <1>3, <1>4, <2>1, <2>2 DEF TurnsInv, TriesInv
<1> QED BY <1>4, <1>5 DEF ChallengeInv

LEMMA OutsideMoves ==
    ASSUME ChallengeInv, Login!Expires \/ Login!Edits PROVE ChallengeInv'
<1>1. ChallengeTypes /\ UNCHANGED <<at, flow, raced>> /\ tries' \in {0, tries} /\ edited' \in BOOLEAN
    BY DEF ChallengeInv, ChallengeTypes, Login!Expires, Login!Edits, Login!loginVars
<1>2. /\ s' \in Sessions /\ s'.state = s.state /\ s'.frozen = s.frozen
      /\ s'.detail \in Login!Waiting => s.detail \in Login!Waiting
    BY <1>1 DEF Login!Expires, Login!Edits, Login!loginVars, ChallengeTypes, Sessions, Login!Waiting
<1>3. ChallengeTypes' /\ UNCHANGED <<Entered, Resuming, Login!Threads>>
    BY <1>1, <1>2 DEF ChallengeTypes, Entered, Resuming, Login!Those, Login!Threads
<1> QED BY <1>1, <1>2, <1>3, NothingBegins

LEMMA ReconnectStep ==
    ASSUME ChallengeInv, NEW p \in Requests, Login!Reconnect(p) PROVE ChallengeInv'
<1>1. /\ ChallengeTypes /\ tries' = 0 /\ s' = Login!NewSession /\ raced' = FALSE /\ edited' = edited
      /\ flow' = [f \in Login!Flows |-> IF flow[f] = "none" THEN "none" ELSE "done"]
      /\ at' = [c \in Login!Callers |-> IF c = p THEN "connects" ELSE "idle"]
    BY DEF ChallengeInv, Login!Reconnect
<1>2. s' \in Sessions /\ s'.state = "none"
    BY <1>1 DEF Login!NewSession, Sessions, States
<1>3. ChallengeTypes'
    BY <1>1, <1>2 DEF ChallengeTypes, Places
<1>4. Entered' = {} /\ Resuming' = {} /\ Login!Threads' = {}
    BY <1>1 DEF Entered, Resuming, Login!Those, Login!Threads
<1>5. TriesInv' /\ TurnsInv'
    BY <1>1, <1>2, <1>4 DEF TriesInv, TurnsInv, Login!InProgress
<1> QED BY <1>3, <1>5 DEF ChallengeInv

LEMMA ChallengeInvStep ==
    ASSUME Login!ChallengeAssumption, ChallengeInv, [Login!ChallengeNext]_(Login!vars)
    PROVE  ChallengeInv'
<1>1. CASE Login!Connecting
    BY <1>1, ConnectStep, LocksStep, LoggedInStep DEF Login!Connecting
<1>2. CASE Login!Panel
    BY <1>2, StartStep, StartLoadedStep, RequestMoves, SubmitStep, ResumeStep, ResumedStep,
       ReconnectStep DEF Login!Panel
<1>3. CASE Login!Thread
    BY <1>3, ThreadGoesOn, ThreadEnds DEF Login!Thread
<1>4. CASE Login!Expires \/ Login!Edits
    BY <1>4, OutsideMoves
<1>5. CASE UNCHANGED Login!vars
    BY <1>5 DEF Login!vars, Login!loginVars, ChallengeInv, ChallengeTypes, TurnsInv, TriesInv, Entered,
                Resuming, Login!Those, Login!Threads
<1> QED BY <1>1, <1>2, <1>3, <1>4, <1>5 DEF Login!ChallengeNext

\* A set of which any two members are equal has at most one.
LEMMA AtMostOne ==
    ASSUME NEW S, \A x, y \in S : x = y
    PROVE  Cardinality(S) \in {0, 1} /\ (S # {} => Cardinality(S) = 1)
<1>1. CASE S = {}
    BY <1>1, FS_EmptySet
<1>2. ASSUME NEW x \in S PROVE Cardinality(S) = 1
    <2>1. S = {x}
        OBVIOUS
    <2> QED BY <2>1, FS_Singleton
<1> QED BY <1>1, <1>2

LEMMA ChallengeInvMeans == ChallengeInv => Login!OneLogin /\ Login!ShutOutByFlow /\ Login!LoginsWait
<1> SUFFICES ASSUME ChallengeInv, ~raced
             PROVE  /\ ~(Login!LoggingIn > 1) /\ ~(tries > 1)
                    /\ s.state \in Login!InProgress =>
                          Login!LoggingIn > 0 \/ (s.state = "manual" /\ s.frozen # 0)
    BY DEF Login!OneLogin, Login!ShutOutByFlow, Login!LoginsWait
<1> DEFINE A == Login!Those({"login", "resumes"})
<1>1. TurnsInv /\ TriesInv /\ tries \in Nat
    BY DEF ChallengeInv, ChallengeTypes
<1>2. A \subseteq Entered \union Resuming /\ Resuming \subseteq A
    BY DEF Login!Those, Entered, Resuming
<1>3. \A c, d \in A : c = d
    BY <1>1, <1>2 DEF TurnsInv, Login!InProgress
<1>4. Login!Threads # {} => A = {}
    BY <1>1, <1>2 DEF TurnsInv, Login!InProgress
<1>5. \A f, g \in Login!Threads : f = g
    BY <1>1 DEF TurnsInv
<1>6. /\ Cardinality(A) \in {0, 1} /\ (A # {} => Cardinality(A) = 1)
      /\ Cardinality(Login!Threads) \in {0, 1} /\ (Login!Threads # {} => Cardinality(Login!Threads) = 1)
    <2> HIDE DEF A
    <2> QED BY <1>3, <1>5, AtMostOne
<1>7. Login!Threads # {} => Cardinality(A) = 0
    BY <1>4, FS_EmptySet
<1>8. Login!LoggingIn = Cardinality(A) + Cardinality(Login!Threads)
    BY LoginCardinality DEF Login!LoggingIn
<1> HIDE DEF A
<1>9. ~(Login!LoggingIn > 1)
    <2>1. CASE Login!Threads = {}
        <3>1. Cardinality(Login!Threads) = 0
            BY <2>1, FS_EmptySet
        <3> QED BY <1>6, <1>8, <3>1
    <2>2. CASE Login!Threads # {}
        BY <1>6, <1>7, <1>8, <2>2
    <2> QED BY <2>1, <2>2
<1>10. ASSUME s.state \in Login!InProgress
      PROVE  Login!LoggingIn > 0 \/ (s.state = "manual" /\ s.frozen # 0)
    <2>1. CASE s.state = "manual"
        BY <1>1, <2>1 DEF TurnsInv
    <2>2. CASE s.state # "manual"
        <3>1. Login!Threads # {} \/ A # {}
            BY <1>1, <1>2, <1>10, <2>2 DEF TurnsInv, Login!InProgress
        <3> QED BY <1>6, <1>8, <3>1
    <2> QED BY <2>1, <2>2
<1> QED BY <1>1, <1>9, <1>10 DEF TriesInv

LEMMA ChallengeInvariant == Login!ChallengeAssumption => (Login!ChallengeSpec => []ChallengeInv)
<1> SUFFICES ASSUME Login!ChallengeAssumption PROVE Login!ChallengeSpec => []ChallengeInv
    OBVIOUS
<1>1. Login!ChallengeInit => ChallengeInv
    BY ChallengeInvInit
<1>2. ChallengeInv /\ [Login!ChallengeNext]_(Login!vars) => ChallengeInv'
    BY ChallengeInvStep
<1> QED BY <1>1, <1>2, PTL DEF Login!ChallengeSpec

\* Two logins of a session go on side by side only when both were let in before
\* either had begun, for any number of requests and challenges (connect,
\* start_challenge).
THEOREM OneLoginAtATime == Login!ChallengeAssumption => (Login!ChallengeSpec => []Login!OneLogin)
BY ChallengeInvariant, ChallengeInvMeans, PTL

\* connect is turned away only while something is there that will let it in
\* again, or the panel can resume (connect, resume_challenge).
THEOREM NobodyIsShutOut == Login!ChallengeAssumption => (Login!ChallengeSpec => []Login!ShutOutByFlow)
BY ChallengeInvariant, ChallengeInvMeans, PTL

\* While the account waits for the panel or for other credentials the poll task
\* logs in once at most, unless it was let in together with another login before
\* the account was to wait (connect).
THEOREM LoginsWaitForPanel == Login!ChallengeAssumption => (Login!ChallengeSpec => []Login!LoginsWait)
BY ChallengeInvariant, ChallengeInvMeans, PTL


----------------------------------------------------------------------------
(* What an Instagram account receives (InstagramInbox).                    *)

CONSTANTS ThreadOf, Silent, Faults, MaxRuntimes, MaxCalls, MaxFailures
VARIABLES produced, file, rts, enabled, registered, running, pc, rt, why,
    batch, queue, got, dropped, calls

Inbox == INSTANCE InstagramInbox WITH MaxFaults <- MaxFailures

\* The instance's Cardinality is that of the theorems on finite sets.
LEMMA InboxCardinality == \A S : Inbox!Cardinality(S) = Cardinality(S)
BY DEF Inbox!Cardinality, Cardinality

Marks == [Inbox!Threads -> Nat]
Session == [since : Nat, wm : Marks, staged : Marks, auth : BOOLEAN]
TaskAt == {"top", "ask", "login", "verifies", "registers", "drains", "drained", "gets", "waits",
           "fetches", "delivers", "noted"}
PanelAt == {"idle", "ask", "login", "verifies", "probes", "dumps"}

InboxTypes ==
    /\ produced \in 0..Len(ThreadOf)
    /\ file \in [since : Nat, wm : Marks]
    /\ rts \in Seq(Session) /\ cur \in 0..Len(rts)
    /\ pc \in [poll : TaskAt, panel : PanelAt]
    /\ rt \in [poll : 0..Len(rts), panel : 0..Len(rts)]
    /\ why \in [poll : {"poll", "adapter"}, panel : {"check", "reconnect", "disable"}]
    /\ pc.poll \in {"login", "verifies", "waits", "fetches"} => rt.poll # 0
    /\ pc.panel \in {"login", "verifies", "dumps"} => rt.panel # 0
    /\ pc.panel \in {"ask", "login", "verifies"} => why.panel # "disable"
    /\ batch \in Seq(1..produced) /\ queue \in Seq(1..produced) /\ got \in Seq(1..produced)

\* In Chatwoot, not to be there, or lost for a reason that is named.
Settled(m) == m \in Inbox!Range(got) \/ m \in Silent \/ m \in dropped

\* Everything up to a time is settled; everything of a thread is.
Upto(n) == n <= produced /\ \A m \in 1..n : Settled(m)
UptoIn(th, n) == n <= produced /\ \A m \in 1..n : ThreadOf[m] = th => Settled(m)
AllUpto(marks) == \A th \in Inbox!Threads : UptoIn(th, marks[th])

\* The file is past nothing but what is settled.
FileInv == Upto(file.since) /\ AllUpto(file.wm)

\* Neither are the marks of a session.
ReadsSettled(o) ==
    /\ AllUpto(o.wm) /\ o.since <= produced
    /\ \A th \in Inbox!Threads : o.staged[th] <= produced
SessionsInv == \A i \in 1..Len(rts) : ReadsSettled(rts[i])

\* The marks that are staged in the connector's session are past what is in the
\* hands of the poll task, and nothing else.
InHand(m) == m \in Inbox!Range(batch) \/ m \in Inbox!Range(queue)
StagedInv ==
    cur # 0 =>
        \A th \in Inbox!Threads : \A m \in 1..rts[cur].staged[th] :
            ThreadOf[m] = th => Settled(m) \/ InHand(m)

\* There is a batch while it is delivered, and a queue until it is drained; what is
\* fetched is ahead of what is settled.
HandsInv ==
    /\ batch # <<>> => pc.poll \in {"delivers", "noted"}
    /\ queue # <<>> => pc.poll \in {"top", "ask", "login", "verifies", "registers", "drains", "drained"}
    /\ pc.poll \in {"waits", "fetches"} => AllUpto(rts[rt.poll].staged)

\* Of a message that is to be delivered, those of its thread before it are settled
\* or to be delivered before.
InLine(q) ==
    \A k \in 1..Len(q) : \A m \in 1..(q[k] - 1) :
        ThreadOf[m] = ThreadOf[q[k]] => Settled(m) \/ \E j \in 1..(k - 1) : q[j] = m

InboxInv ==
    InboxTypes /\ FileInv /\ SessionsInv /\ StagedInv /\ HandsInv /\ InLine(batch) /\ InLine(queue)

LEMMA InboxInvInit == ASSUME Inbox!InboxAssumption, Inbox!InboxInit PROVE InboxInv
<1>1. Len(ThreadOf) \in Nat
    BY DEF Inbox!InboxAssumption, Inbox!InboxInit, Inbox!Messages
<1>2. /\ produced = 0 /\ file = [since |-> 0, wm |-> Inbox!Unread] /\ rts = <<>> /\ cur = 0
      /\ pc = [poll |-> "top", panel |-> "idle"] /\ rt = [poll |-> 0, panel |-> 0]
      /\ why = [poll |-> "poll", panel |-> "check"]
      /\ batch = <<>> /\ queue = <<>> /\ got = <<>>
    BY DEF Inbox!InboxInit
<1>3. Inbox!Unread \in Marks /\ \A th \in Inbox!Threads : Inbox!Unread[th] = 0
    BY DEF Inbox!Unread, Marks
<1>4. InboxTypes
    BY <1>1, <1>2, <1>3 DEF InboxTypes, TaskAt, PanelAt
<1>5. FileInv /\ SessionsInv /\ StagedInv /\ HandsInv /\ InLine(batch) /\ InLine(queue)
    BY <1>2, <1>3 DEF FileInv, SessionsInv, StagedInv, HandsInv, InLine, Upto, UptoIn, AllUpto
<1> QED BY <1>4, <1>5 DEF InboxInv

----------------------------------------------------------------------------
(* What is settled stays settled.                                          *)

Grows ==
    /\ produced \in Nat /\ produced' \in Nat /\ produced <= produced'
    /\ \A m : Settled(m) => Settled(m)'

LEMMA SettledGrows ==
    ASSUME produced \in Nat, produced' \in Nat, produced <= produced',
           Inbox!Range(got) \subseteq Inbox!Range(got)', dropped \subseteq dropped'
    PROVE  Grows
BY DEF Grows, Settled

LEMMA UptoGrows ==
    ASSUME Grows
    PROVE  /\ \A n \in Nat : Upto(n) => Upto(n)'
           /\ \A n \in Nat : \A th \in Inbox!Threads : UptoIn(th, n) => UptoIn(th, n)'
           /\ \A marks \in Marks : AllUpto(marks) => AllUpto(marks)'
<1>1. \A n \in Nat : Upto(n) => Upto(n)'
    BY DEF Grows, Upto
<1>2. \A n \in Nat : \A th \in Inbox!Threads : UptoIn(th, n) => UptoIn(th, n)'
    BY DEF Grows, UptoIn
<1>3. \A marks \in Marks : AllUpto(marks) => AllUpto(marks)'
    BY <1>2 DEF AllUpto, Marks
<1> QED BY <1>1, <1>2, <1>3

LEMMA InLineGrows ==
    ASSUME Grows, NEW q \in Seq(Nat), InLine(q) PROVE InLine(q)'
BY DEF Grows, InLine

\* A session that gained no marks.
LEMMA SessionGrows ==
    ASSUME Grows, NEW o \in Session, NEW p \in Session, ReadsSettled(o),
           p.wm = o.wm, p.since = o.since, p.staged = o.staged \/ p.staged = Inbox!Unread
    PROVE  ReadsSettled(p)'
<1>1. o.since \in Nat /\ o.wm \in Marks /\ o.staged \in Marks
    BY DEF Session
<1>2. AllUpto(o.wm)'
    BY <1>1, UptoGrows DEF ReadsSettled
<1>3. \A th \in Inbox!Threads : p.staged[th] <= produced'
    BY <1>1 DEF ReadsSettled, Grows, Inbox!Unread, Marks
<1> QED BY <1>1, <1>2, <1>3 DEF ReadsSettled, Grows

\* Writing the file, or not.
LEMMA WritesKeep ==
    ASSUME produced \in Nat, file \in [since : Nat, wm : Marks], FileInv,
           NEW o, o.since \in Nat, o.wm \in Marks, o.since <= produced, AllUpto(o.wm),
           UNCHANGED <<produced, got>>, dropped \subseteq dropped',
           UNCHANGED file \/ (Inbox!Writes(o) /\ Inbox!Skipped(o) \subseteq dropped')
    PROVE  Grows /\ FileInv' /\ file' \in [since : Nat, wm : Marks]
<1>1. Grows
    BY SettledGrows
<1>2. CASE UNCHANGED file
    <2>1. FileInv'
        BY <1>1, <1>2, UptoGrows DEF FileInv
    <2> QED BY <1>1, <1>2, <2>1
<1>3. CASE file' = [since |-> o.since, wm |-> o.wm] /\ Inbox!Skipped(o) \subseteq dropped'
    <2>1. file' \in [since : Nat, wm : Marks] /\ file'.since = o.since /\ file'.wm = o.wm
        BY <1>3
    <2>2. AllUpto(o.wm)'
        BY <1>1, UptoGrows
    <2>3. CASE o.since > file.since
        <3>1. \A m \in 1..produced : Settled(m)'
            BY <1>3, <2>3 DEF Settled, Inbox!Undelivered, Inbox!Skipped
        <3> QED BY <1>1, <2>1, <2>2, <3>1 DEF FileInv, Upto
    <2>4. CASE ~(o.since > file.since)
        <3>1. \A m \in 1..o.since : Settled(m)
            BY <2>4 DEF FileInv, Upto
        <3>2. Upto(o.since)
            BY <3>1 DEF Upto
        <3>3. Upto(o.since)'
            BY <1>1, <3>2, UptoGrows
        <3> QED BY <1>1, <2>1, <2>2, <3>3 DEF FileInv
    <2> QED BY <2>3, <2>4
<1> QED BY <1>2, <1>3 DEF Inbox!Writes

LEMMA PersistsKeeps ==
    ASSUME produced \in Nat, file \in [since : Nat, wm : Marks], FileInv,
           NEW o, o.since \in Nat, o.wm \in Marks, o.since <= produced, AllUpto(o.wm),
           Inbox!Persists(o), UNCHANGED <<produced, got>>
    PROVE  Grows /\ FileInv' /\ file' \in [since : Nat, wm : Marks]
BY WritesKeep DEF Inbox!Persists

----------------------------------------------------------------------------
(* What a step leaves.                                                     *)

LEMMA GoesIs ==
    ASSUME InboxTypes, NEW a \in {"poll", "panel"}, NEW to, Inbox!Goes(a, to)
    PROVE  /\ a = "poll" => pc'.poll = to /\ pc'.panel = pc.panel
                            /\ (to \in TaskAt => pc' \in [poll : TaskAt, panel : PanelAt])
           /\ a = "panel" => pc'.panel = to /\ pc'.poll = pc.poll
                             /\ (to \in PanelAt => pc' \in [poll : TaskAt, panel : PanelAt])
BY DEF Inbox!Goes, InboxTypes

LEMMA FileKept ==
    ASSUME InboxInv, Grows, UNCHANGED file PROVE FileInv'
BY UptoGrows DEF InboxInv, InboxTypes, FileInv

LEMMA SessionsKept ==
    ASSUME InboxInv, Grows, UNCHANGED rts PROVE SessionsInv'
<1> SUFFICES ASSUME NEW i \in 1..Len(rts) PROVE ReadsSettled(rts[i])'
    BY DEF SessionsInv
<1>1. rts[i] \in Session /\ ReadsSettled(rts[i])
    BY DEF InboxInv, InboxTypes, SessionsInv
<1> QED BY <1>1, SessionGrows

LEMMA OneSession ==
    ASSUME InboxInv, Grows, NEW i \in 1..Len(rts), NEW o \in Session, ReadsSettled(o)',
           rts' = [rts EXCEPT ![i] = o]
    PROVE  /\ rts' \in Seq(Session) /\ Len(rts') = Len(rts) /\ rts'[i] = o
           /\ \A j \in 1..Len(rts) \ {i} : rts'[j] = rts[j]
           /\ SessionsInv'
<1>1. rts \in Seq(Session)
    BY DEF InboxInv, InboxTypes
<1>2. /\ rts' \in Seq(Session) /\ Len(rts') = Len(rts) /\ rts'[i] = o
      /\ \A j \in 1..Len(rts) \ {i} : rts'[j] = rts[j]
    BY <1>1, ExceptSeq
<1>3. ASSUME NEW j \in 1..Len(rts) PROVE ReadsSettled(rts[j])'
    <2>1. CASE j = i
        BY <1>2, <2>1
    <2>2. CASE j # i
        <3>1. rts[j] \in Session /\ ReadsSettled(rts[j])
            BY <1>1 DEF InboxInv, SessionsInv
        <3> QED BY <1>2, <2>2, <3>1, SessionGrows
    <2> QED BY <2>1, <2>2
<1> QED BY <1>2, <1>3 DEF SessionsInv

LEMMA StagedKept ==
    ASSUME InboxInv, Grows, cur' \in {cur, 0},
           cur # 0 => rts'[cur].staged = rts[cur].staged \/ rts'[cur].staged = Inbox!Unread,
           \A m : InHand(m) => Settled(m)' \/ InHand(m)'
    PROVE  StagedInv'
BY DEF InboxInv, StagedInv, Grows, Inbox!Unread

LEMMA LinesKept ==
    ASSUME InboxInv, Grows PROVE
    /\ batch' = batch => InLine(batch)'
    /\ queue' = queue => InLine(queue)'
    /\ batch' = <<>> => InLine(batch)'
    /\ queue' = <<>> => InLine(queue)'
<1>1. batch \in Seq(Nat) /\ queue \in Seq(Nat)
    BY DEF InboxInv, InboxTypes
<1>2. batch' = batch => InLine(batch)'
    BY <1>1, InLineGrows DEF InboxInv
<1>3. queue' = queue => InLine(queue)'
    BY <1>1, InLineGrows DEF InboxInv
<1> QED BY <1>2, <1>3 DEF InLine

\* The session a fetch is under way with.
LEMMA FetchKept ==
    ASSUME InboxInv, Grows, pc.poll \in {"waits", "fetches"}, rt'.poll = rt.poll,
           \/ rts'[rt.poll].staged = rts[rt.poll].staged
           \/ rts'[rt.poll].staged = Inbox!Unread
    PROVE  AllUpto(rts[rt.poll].staged)'
<1> DEFINE o == rts[rt.poll]
<1>1. o.staged \in Marks /\ AllUpto(o.staged)
    <2>1. rts \in Seq(Session) /\ rt.poll \in 1..Len(rts)
        BY DEF InboxInv, InboxTypes
    <2>2. o \in Session
        BY <2>1
    <2> QED BY <2>2 DEF InboxInv, HandsInv, Session
<1>2. CASE rts'[rt.poll].staged = o.staged
    BY <1>1, <1>2, UptoGrows
<1>3. CASE rts'[rt.poll].staged = Inbox!Unread
    BY <1>3 DEF AllUpto, UptoIn, Inbox!Unread, Grows
<1> QED BY <1>2, <1>3

\* A step that writes, delivers and drops nothing.
LEMMA QuietStep ==
    ASSUME InboxInv, InboxTypes', produced <= produced', cur' \in {cur, 0},
           UNCHANGED <<file, rts, got, dropped, batch, queue>>,
           batch # <<>> => pc'.poll \in {"delivers", "noted"},
           queue # <<>> =>
               pc'.poll \in {"top", "ask", "login", "verifies", "registers", "drains", "drained"},
           pc'.poll \in {"waits", "fetches"} =>
               \/ pc.poll \in {"waits", "fetches"} /\ rt'.poll = rt.poll
               \/ pc.poll = "gets" /\ rt'.poll = cur /\ cur # 0
    PROVE  InboxInv'
<1>1. Grows
    BY SettledGrows DEF InboxInv, InboxTypes
<1>2. FileInv' /\ SessionsInv' /\ StagedInv' /\ InLine(batch)' /\ InLine(queue)'
    BY <1>1, FileKept, SessionsKept, StagedKept, LinesKept DEF InHand
<1>3. ASSUME pc'.poll \in {"waits", "fetches"} PROVE AllUpto(rts[rt.poll].staged)'
    <2>1. CASE pc.poll \in {"waits", "fetches"} /\ rt'.poll = rt.poll
        BY <1>1, <2>1, FetchKept
    <2>2. CASE pc.poll = "gets" /\ rt'.poll = cur /\ cur # 0
        <3>1. batch = <<>> /\ queue = <<>>
            BY <2>2 DEF InboxInv, HandsInv
        <3>2. cur \in 1..Len(rts) /\ rts[cur] \in Session
            BY <2>2 DEF InboxInv, InboxTypes
        <3>3. rts[cur].staged \in Marks /\ AllUpto(rts[cur].staged)
            BY <2>2, <3>1, <3>2
               DEF InboxInv, SessionsInv, ReadsSettled, StagedInv, InHand, Inbox!Range, AllUpto, UptoIn, Session
        <3> QED BY <1>1, <2>2, <3>3, UptoGrows
    <2> QED BY <1>3, <2>1, <2>2
<1>4. HandsInv'
    BY <1>3 DEF HandsInv
<1> QED BY <1>2, <1>4 DEF InboxInv

LEMMA QuietSteps ==
    ASSUME Inbox!InboxAssumption, InboxInv,
           \/ Inbox!Polls \/ Inbox!Registers \/ Inbox!GetUpdates \/ Inbox!Waited \/ Inbox!ManagerStarts
           \/ Inbox!Check \/ Inbox!Reconnect \/ Inbox!Disable \/ Inbox!Enable \/ Inbox!MessageSent
    PROVE  InboxInv'
<1>1. InboxTypes /\ HandsInv /\ "poll" \in {"poll", "panel"} /\ "panel" \in {"poll", "panel"}
    BY DEF InboxInv
<1>2. CASE Inbox!Polls
    <2>1. /\ UNCHANGED <<file, rts, cur, rt, batch, queue, got, dropped, produced>>
          /\ pc.poll = "top" /\ Inbox!Goes("poll", "ask") /\ why' = [why EXCEPT !.poll = "poll"]
        BY <1>2 DEF Inbox!Polls, Inbox!Calm, Inbox!clientVars, Inbox!taskVars, Inbox!Task
    <2>2. pc'.poll = "ask" /\ pc'.panel = pc.panel /\ pc' \in [poll : TaskAt, panel : PanelAt]
        BY <1>1, <2>1, GoesIs DEF TaskAt
    <2>3. InboxTypes'
        BY <1>1, <2>1, <2>2 DEF InboxTypes
    <2> QED BY <1>1, <2>1, <2>2, <2>3, QuietStep DEF HandsInv, InboxTypes
<1>3. CASE Inbox!Registers
    <2>1. /\ UNCHANGED <<file, rts, cur, rt, batch, queue, got, dropped, produced>>
          /\ pc.poll = "registers"
          /\ \/ Inbox!Goes("poll", "drains") /\ UNCHANGED why
             \/ Inbox!Goes("poll", "ask") /\ why' = [why EXCEPT !.poll = "adapter"]
        BY <1>3 DEF Inbox!Registers, Inbox!Calm, Inbox!clientVars, Inbox!taskVars, Inbox!Task
    <2>2. /\ pc'.poll \in {"drains", "ask"} /\ pc'.panel = pc.panel
          /\ pc' \in [poll : TaskAt, panel : PanelAt]
        BY <1>1, <2>1, GoesIs DEF TaskAt
    <2>3. InboxTypes'
        BY <1>1, <2>1, <2>2 DEF InboxTypes
    <2> QED BY <1>1, <2>1, <2>2, <2>3, QuietStep DEF HandsInv, InboxTypes
<1>4. CASE Inbox!GetUpdates
    <2>1. /\ UNCHANGED <<file, rts, cur, why, batch, queue, got, dropped, produced>>
          /\ pc.poll = "gets"
          /\ \/ /\ cur # 0 /\ rt' = [rt EXCEPT !.poll = cur]
                /\ Inbox!Goes("poll", "fetches") \/ Inbox!Goes("poll", "waits")
             \/ Inbox!Goes("poll", "top") /\ UNCHANGED rt
        BY <1>4 DEF Inbox!GetUpdates, Inbox!Calm, Inbox!clientVars, Inbox!taskVars, Inbox!Task, Inbox!Live
    <2>2. CASE /\ cur # 0 /\ rt' = [rt EXCEPT !.poll = cur]
               /\ Inbox!Goes("poll", "fetches") \/ Inbox!Goes("poll", "waits")
        <3>1. /\ pc'.poll \in {"waits", "fetches"} /\ pc'.panel = pc.panel
              /\ pc' \in [poll : TaskAt, panel : PanelAt]
            BY <1>1, <2>2, GoesIs DEF TaskAt
        <3>2. rt'.poll = cur /\ InboxTypes'
            BY <1>1, <2>1, <2>2, <3>1 DEF InboxTypes
        <3> QED BY <1>1, <2>1, <2>2, <3>1, <3>2, QuietStep DEF HandsInv, InboxTypes
    <2>3. CASE Inbox!Goes("poll", "top") /\ UNCHANGED rt
        <3>1. /\ pc'.poll = "top" /\ pc'.panel = pc.panel
              /\ pc' \in [poll : TaskAt, panel : PanelAt]
            BY <1>1, <2>3, GoesIs DEF TaskAt
        <3>2. InboxTypes'
            BY <1>1, <2>1, <2>3, <3>1 DEF InboxTypes
        <3> QED BY <1>1, <2>1, <3>1, <3>2, QuietStep DEF HandsInv, InboxTypes
    <2> QED BY <2>1, <2>2, <2>3
<1>4a. CASE Inbox!Waited
    <2>1. /\ UNCHANGED <<file, rts, cur, rt, why, batch, queue, got, dropped, produced>>
          /\ pc.poll = "waits" /\ Inbox!Goes("poll", "fetches")
        BY <1>4a DEF Inbox!Waited, Inbox!Calm, Inbox!clientVars, Inbox!taskVars, Inbox!Task
    <2>2. pc'.poll = "fetches" /\ pc'.panel = pc.panel /\ pc' \in [poll : TaskAt, panel : PanelAt]
        BY <1>1, <2>1, GoesIs DEF TaskAt
    <2>3. InboxTypes'
        BY <1>1, <2>1, <2>2 DEF InboxTypes
    <2> QED BY <1>1, <2>1, <2>2, <2>3, QuietStep DEF HandsInv, InboxTypes
<1>5. CASE Inbox!ManagerStarts \/ Inbox!Enable
    <2>1. UNCHANGED <<file, rts, cur, why, rt, pc, batch, queue, got, dropped, produced>>
        BY <1>5 DEF Inbox!ManagerStarts, Inbox!Enable, Inbox!clientVars, Inbox!taskVars
    <2>2. InboxTypes'
        BY <1>1, <2>1 DEF InboxTypes
    <2> QED BY <1>1, <2>1, <2>2, QuietStep DEF HandsInv, InboxTypes
<1>6. CASE Inbox!Check
    <2>1. /\ UNCHANGED <<file, rts, cur, rt, batch, queue, got, dropped, produced>>
          /\ Inbox!Goes("panel", "ask") /\ why' = [why EXCEPT !.panel = "check"]
        BY <1>6 DEF Inbox!Check, Inbox!clientVars, Inbox!taskVars
    <2>2. pc'.panel = "ask" /\ pc'.poll = pc.poll /\ pc' \in [poll : TaskAt, panel : PanelAt]
        BY <1>1, <2>1, GoesIs DEF PanelAt
    <2>3. InboxTypes'
        BY <1>1, <2>1, <2>2 DEF InboxTypes
    <2> QED BY <1>1, <2>1, <2>2, <2>3, QuietStep DEF HandsInv, InboxTypes
<1>7. ASSUME NEW reason \in {"reconnect", "disable"}, Inbox!Leaves(reason),
             UNCHANGED <<produced, file, rts, batch, queue, got, dropped>>
      PROVE  InboxInv'
    <2> DEFINE to == IF cur # 0 THEN "dumps" ELSE IF reason = "reconnect" THEN "ask" ELSE "idle"
    <2>1. /\ cur' = 0 /\ rt' = [rt EXCEPT !.panel = cur] /\ why' = [why EXCEPT !.panel = reason]
          /\ Inbox!Goes("panel", to)
        BY <1>7 DEF Inbox!Leaves
    <2>2. pc'.panel = to /\ pc'.poll = pc.poll /\ pc' \in [poll : TaskAt, panel : PanelAt]
        <3>1. to \in PanelAt
            BY DEF PanelAt
        <3> HIDE DEF to
        <3> QED BY <1>1, <2>1, <3>1, GoesIs
    <2>3. InboxTypes' /\ rt'.poll = rt.poll
        <3>1. /\ rt' \in [poll : 0..Len(rts), panel : 0..Len(rts)]
              /\ rt'.poll = rt.poll /\ rt'.panel = cur
              /\ why' \in [poll : {"poll", "adapter"}, panel : {"check", "reconnect", "disable"}]
              /\ why'.panel = reason
            BY <1>1, <2>1 DEF InboxTypes
        <3>2. /\ pc'.panel \in {"login", "verifies", "dumps"} => cur # 0
              /\ pc'.panel \in {"ask", "login", "verifies"} => reason # "disable"
            BY <2>2
        <3> HIDE DEF to
        <3> QED BY <1>1, <1>7, <2>1, <2>2, <3>1, <3>2 DEF InboxTypes
    <2> QED BY <1>1, <1>7, <2>1, <2>2, <2>3, QuietStep DEF HandsInv, InboxTypes
<1>8. CASE Inbox!Reconnect
    BY <1>7, <1>8 DEF Inbox!Reconnect, Inbox!taskVars
<1>9. CASE Inbox!Disable
    <2>1. CASE Inbox!Leaves("disable")
        BY <1>7, <1>9, <2>1 DEF Inbox!Disable, Inbox!taskVars
    <2>2. CASE UNCHANGED <<cur, pc, rt, why>>
        <3>1. UNCHANGED <<file, rts, cur, why, rt, pc, batch, queue, got, dropped, produced>>
            BY <1>9, <2>2 DEF Inbox!Disable, Inbox!taskVars
        <3>2. InboxTypes'
            BY <1>1, <3>1 DEF InboxTypes
        <3> QED BY <1>1, <3>1, <3>2, QuietStep DEF HandsInv, InboxTypes
    <2> QED BY <1>9, <2>1, <2>2 DEF Inbox!Disable
<1>10. CASE Inbox!MessageSent
    <2>1. /\ UNCHANGED <<file, rts, cur, why, rt, pc, batch, queue, got, dropped>>
          /\ produced < Len(ThreadOf) /\ produced' = produced + 1
        BY <1>10 DEF Inbox!MessageSent, Inbox!clientVars, Inbox!taskVars
    <2>2. Len(ThreadOf) \in Nat /\ produced \in Nat /\ produced' \in 0..Len(ThreadOf)
        <3>1. Len(ThreadOf) \in Nat
            BY DEF Inbox!InboxAssumption
        <3> QED BY <1>1, <2>1, <3>1 DEF InboxTypes
    <2>3. InboxTypes'
        BY <1>1, <2>1, <2>2 DEF InboxTypes
    <2> QED BY <1>1, <2>1, <2>2, <2>3, QuietStep DEF HandsInv, InboxTypes
<1> QED BY <1>2, <1>3, <1>4, <1>4a, <1>5, <1>6, <1>8, <1>9, <1>10

----------------------------------------------------------------------------
(* Sessions.                                                               *)

LEMMA SessionsStep ==
    ASSUME InboxInv, InboxTypes', SessionsInv', StagedInv',
           UNCHANGED <<produced, file, got, dropped, batch, queue>>,
           \/ pc'.poll = pc.poll
           \/ /\ pc.poll \in {"ask", "login", "verifies", "fetches"}
              /\ pc'.poll \in {"registers", "top", "drains", "login", "verifies"},
           pc'.poll \in {"waits", "fetches"} =>
               /\ rt'.poll = rt.poll
               /\ \/ rts'[rt.poll].staged = rts[rt.poll].staged
                  \/ rts'[rt.poll].staged = Inbox!Unread
    PROVE  InboxInv'
<1>1. Grows
    BY SettledGrows DEF InboxInv, InboxTypes
<1>2. FileInv' /\ InLine(batch)' /\ InLine(queue)'
    BY <1>1, FileKept, LinesKept
<1>3. ASSUME pc'.poll \in {"waits", "fetches"} PROVE AllUpto(rts[rt.poll].staged)'
    BY <1>1, <1>3, FetchKept
<1>4. HandsInv'
    BY <1>3 DEF HandsInv, InboxInv
<1> QED BY <1>2, <1>4 DEF InboxInv

LEMMA ReturnedIs ==
    ASSUME InboxTypes, NEW a \in {"poll", "panel"}, NEW ok \in BOOLEAN, Inbox!Returned(a, ok),
           pc[a] \in {"ask", "login", "verifies"}
    PROVE  /\ pc' \in [poll : TaskAt, panel : PanelAt]
           /\ a = "poll" => pc'.panel = pc.panel /\ pc'.poll \in {"registers", "top", "drains"}
           /\ a = "panel" => pc'.poll = pc.poll /\ pc'.panel \in {"probes", "idle"}
<1> DEFINE to == CASE why[a] = "poll" -> IF ok THEN "registers" ELSE "top"
                   [] why[a] = "adapter" -> "drains"
                   [] why[a] = "check" -> IF ok THEN "probes" ELSE "idle"
                   [] why[a] = "reconnect" -> "idle"
<1>1. Inbox!Goes(a, to)
    BY DEF Inbox!Returned
<1>2. CASE a = "poll"
    <2>1. why.poll \in {"poll", "adapter"}
        BY DEF InboxTypes
    <2>2. to \in {"registers", "top", "drains"}
        BY <1>2, <2>1
    <2> HIDE DEF to
    <2> QED BY <1>1, <1>2, <2>2, GoesIs DEF TaskAt
<1>3. CASE a = "panel"
    <2>1. why.panel \in {"check", "reconnect"}
        BY <1>3 DEF InboxTypes
    <2>2. to \in {"probes", "idle"}
        BY <1>3, <2>1
    <2> HIDE DEF to
    <2> QED BY <1>1, <1>3, <2>2, GoesIs DEF PanelAt
<1> QED BY <1>2, <1>3

\* A session that was found, or made, and is not authenticated or stays as it is.
LEMMA ConnectsStep ==
    ASSUME InboxInv, NEW a \in {"poll", "panel"}, Inbox!Connect(a) PROVE InboxInv'
<1> DEFINE i == IF cur = 0 THEN Len(rts) + 1 ELSE cur
           old == IF cur = 0 THEN Append(rts, Inbox!SessionObject) ELSE rts
<1>1. /\ InboxTypes /\ pc[a] = "ask" /\ cur' = i
      /\ UNCHANGED <<produced, file, why, batch, queue, got, dropped>>
    BY DEF InboxInv, Inbox!Connect, Inbox!taskVars
<1>2. rts \in Seq(Session) /\ Len(rts) \in Nat /\ cur \in 0..Len(rts) /\ produced \in Nat
    BY <1>1 DEF InboxTypes
<1>3. Grows
    BY <1>1, <1>2, SettledGrows
<1>4. /\ Inbox!SessionObject \in Session /\ ReadsSettled(Inbox!SessionObject) /\ ~Inbox!SessionObject.auth
      /\ Inbox!SessionObject.staged = Inbox!Unread
    BY <1>2 DEF Inbox!SessionObject, Session, ReadsSettled, Inbox!Unread, Marks, AllUpto, UptoIn
<1>5. /\ old \in Seq(Session) /\ i \in 1..Len(old) /\ Len(old) >= Len(rts)
      /\ \A j \in 1..Len(rts) : old[j] = rts[j]
      /\ \A j \in 1..Len(old) : ReadsSettled(old[j])
      /\ cur = 0 => ~old[i].auth /\ old[i].staged = Inbox!Unread
    <2>1. \A j \in 1..Len(rts) : ReadsSettled(rts[j])
        BY DEF InboxInv, SessionsInv
    <2>2. CASE cur = 0
        <3>1. /\ old \in Seq(Session) /\ Len(old) = Len(rts) + 1 /\ old[Len(rts) + 1] = Inbox!SessionObject
              /\ \A j \in 1..Len(rts) : old[j] = rts[j]
            BY <1>2, <1>4, <2>2, AppendProperties
        <3> HIDE DEF old
        <3>2. \A j \in 1..Len(old) : j \in 1..Len(rts) \/ j = Len(rts) + 1
            BY <1>2, <3>1
        <3> QED BY <1>2, <1>4, <2>1, <2>2, <3>1, <3>2
    <2>3. CASE cur # 0
        BY <1>2, <2>1, <2>3
    <2> QED BY <2>2, <2>3
<1>6. CASE old[i].auth /\ Inbox!Returned(a, TRUE) /\ UNCHANGED <<rts, rt>>
    <2>1. cur # 0 /\ cur' = cur
        BY <1>1, <1>5, <1>6
    <2>2. /\ pc' \in [poll : TaskAt, panel : PanelAt]
          /\ a = "poll" => pc'.panel = pc.panel /\ pc'.poll \in {"registers", "top", "drains"}
          /\ a = "panel" => pc'.poll = pc.poll /\ pc'.panel \in {"probes", "idle"}
        BY <1>1, <1>6, ReturnedIs
    <2>3. InboxTypes'
        BY <1>1, <1>6, <2>1, <2>2 DEF InboxTypes
    <2>4. SessionsInv' /\ StagedInv'
        BY <1>1, <1>3, <1>6, <2>1, SessionsKept, StagedKept DEF InHand
    <2> QED BY <1>1, <1>6, <2>1, <2>2, <2>3, <2>4, SessionsStep
<1>7. CASE rts' = [old EXCEPT ![i].auth = FALSE] /\ Inbox!Goes(a, "login") /\ rt' = [rt EXCEPT ![a] = i]
    <2> DEFINE o == [old[i] EXCEPT !.auth = FALSE]
    <2>1. old[i] \in Session /\ ReadsSettled(old[i])
        BY <1>5
    <2>2. /\ o \in Session /\ o.wm = old[i].wm /\ o.since = old[i].since
          /\ o.staged = old[i].staged /\ ~o.auth /\ rts' = [old EXCEPT ![i] = o]
        BY <1>7, <2>1 DEF Session
    <2> HIDE DEF o, old, i
    <2>3. /\ rts' \in Seq(Session) /\ Len(rts') = Len(old) /\ rts'[i] = o
          /\ \A j \in 1..Len(old) \ {i} : rts'[j] = old[j]
        BY <1>5, <2>2, ExceptSeq
    <2>4. SessionsInv'
        <3> SUFFICES ASSUME NEW j \in 1..Len(old) PROVE ReadsSettled(rts[j])'
            BY <2>3 DEF SessionsInv
        <3>1. CASE j = i
            BY <1>3, <2>1, <2>2, <2>3, <3>1, SessionGrows
        <3>2. CASE j # i
            <4>1. old[j] \in Session /\ ReadsSettled(old[j]) /\ rts'[j] = old[j]
                BY <1>5, <2>3, <3>2
            <4> QED BY <1>3, <4>1, SessionGrows
        <3> QED BY <3>1, <3>2
    <2>5. StagedInv'
        <3>1. CASE cur = 0
            <4>1. rts'[cur'].staged = Inbox!Unread
                BY <1>1, <1>5, <2>2, <2>3, <3>1
            <4> QED BY <4>1 DEF StagedInv, Inbox!Unread
        <3>2. CASE cur # 0
            <4>1. i = cur
                BY <3>2 DEF i
            <4>2. rts'[cur].staged = rts[cur].staged /\ cur' = cur
                BY <1>1, <1>2, <1>5, <2>2, <2>3, <3>2, <4>1
            <4> QED BY <1>1, <1>3, <4>2, StagedKept DEF InHand
        <3> QED BY <3>1, <3>2
    <2>6. /\ pc' \in [poll : TaskAt, panel : PanelAt]
          /\ a = "poll" => pc'.panel = pc.panel /\ pc'.poll = "login"
          /\ a = "panel" => pc'.poll = pc.poll /\ pc'.panel = "login"
        BY <1>1, <1>7, GoesIs DEF TaskAt, PanelAt
    <2>7. /\ rt' \in [poll : 0..Len(rts'), panel : 0..Len(rts')]
          /\ a = "poll" => rt'.panel = rt.panel /\ rt'.poll = i
          /\ a = "panel" => rt'.poll = rt.poll /\ rt'.panel = i
        <3>1. rt \in [poll : 0..Len(rts'), panel : 0..Len(rts')]
            BY <1>1, <1>2, <1>5, <2>3 DEF InboxTypes
        <3> QED BY <1>5, <1>7, <2>3, <3>1
    <2>8. InboxTypes'
        <3>1. i # 0 /\ i \in 0..Len(rts')
            BY <1>5, <2>3
        <3> QED BY <1>1, <2>3, <2>6, <2>7, <3>1 DEF InboxTypes
    <2>9. ASSUME pc'.poll \in {"waits", "fetches"}
          PROVE  rt'.poll = rt.poll /\ rts'[rt.poll].staged = rts[rt.poll].staged
        <3>1. a = "panel" /\ pc.poll \in {"waits", "fetches"}
            BY <2>6, <2>9
        <3>2. rt.poll \in 1..Len(rts)
            BY <1>1, <1>2, <3>1 DEF InboxTypes
        <3>3. old[rt.poll] = rts[rt.poll] /\ rt.poll \in 1..Len(old)
            BY <1>2, <1>5, <3>2
        <3> QED BY <2>2, <2>3, <2>7, <3>1, <3>3
    <2>10. pc'.poll = pc.poll \/ (pc.poll = "ask" /\ pc'.poll = "login")
        BY <1>1, <2>6
    <2> QED BY <1>1, <2>4, <2>5, <2>8, <2>9, <2>10, SessionsStep
<1>8. \/ old[i].auth /\ Inbox!Returned(a, TRUE) /\ UNCHANGED <<rts, rt>>
      \/ rts' = [old EXCEPT ![i].auth = FALSE] /\ Inbox!Goes(a, "login") /\ rt' = [rt EXCEPT ![a] = i]
    BY DEF Inbox!Connect
<1> QED BY <1>6, <1>7, <1>8

\* A session that is given by another.
LEMMA SessionSet ==
    ASSUME InboxInv, NEW i \in 1..Len(rts), NEW o \in Session, ReadsSettled(o)',
           rts' = [rts EXCEPT ![i] = o],
           o.staged = rts[i].staged \/ o.staged = Inbox!Unread,
           UNCHANGED <<produced, file, cur, why, batch, queue, got, dropped, rt>>,
           pc' \in [poll : TaskAt, panel : PanelAt],
           \/ pc'.poll = pc.poll /\ pc'.panel \in {"probes", "idle"}
           \/ pc'.poll = pc.poll /\ pc.panel = "login" /\ pc'.panel = "verifies"
           \/ /\ pc'.panel = pc.panel /\ pc.poll \in {"login", "verifies", "fetches"}
              /\ pc'.poll \in {"registers", "top", "drains"}
           \/ pc'.panel = pc.panel /\ pc.poll = "login" /\ pc'.poll = "verifies"
    PROVE  InboxInv'
<1>1. InboxTypes
    BY DEF InboxInv
<1>2. Grows
    BY <1>1, SettledGrows DEF InboxTypes
<1>3. /\ rts' \in Seq(Session) /\ Len(rts') = Len(rts) /\ rts'[i] = o
      /\ \A j \in 1..Len(rts) \ {i} : rts'[j] = rts[j]
      /\ SessionsInv'
    BY <1>2, OneSession
<1>4. StagedInv'
    <2>1. cur # 0 => cur \in 1..Len(rts)
        BY <1>1 DEF InboxTypes
    <2>2. cur # 0 => rts'[cur].staged = rts[cur].staged \/ rts'[cur].staged = Inbox!Unread
        BY <1>3, <2>1
    <2> QED BY <1>2, <2>2, StagedKept DEF InHand
<1>5. InboxTypes'
    BY <1>1, <1>3 DEF InboxTypes
<1>6. ASSUME pc'.poll \in {"waits", "fetches"}
      PROVE  \/ rts'[rt.poll].staged = rts[rt.poll].staged
             \/ rts'[rt.poll].staged = Inbox!Unread
    <2>1. rt.poll \in 1..Len(rts)
        BY <1>1, <1>6 DEF InboxTypes
    <2>2. CASE rt.poll = i
        BY <1>3, <2>2
    <2>3. CASE rt.poll # i
        BY <1>3, <2>1, <2>3
    <2> QED BY <2>2, <2>3
<1> QED BY <1>3, <1>4, <1>5, <1>6, SessionsStep

LEMMA LoginStep ==
    ASSUME InboxInv, NEW a \in {"poll", "panel"},
           \/ Inbox!LoginSucceeds(a) \/ Inbox!LoginFails(a)
           \/ Inbox!Verified(a) \/ Inbox!VerificationFails(a)
    PROVE  InboxInv'
<1>1. /\ InboxTypes /\ pc[a] \in {"login", "verifies"}
      /\ UNCHANGED <<produced, file, cur, why, batch, queue, got, dropped, rt>>
    BY DEF InboxInv, Inbox!LoginSucceeds, Inbox!LoginFails, Inbox!Verified, Inbox!VerificationFails,
           Inbox!Other, Inbox!taskVars
<1>2. rt[a] \in 1..Len(rts) /\ rts \in Seq(Session) /\ produced \in Nat
    BY <1>1 DEF InboxTypes
<1>3. /\ pc' \in [poll : TaskAt, panel : PanelAt]
      /\ \/ pc'.poll = pc.poll /\ pc'.panel \in {"probes", "idle"}
         \/ pc'.poll = pc.poll /\ pc.panel = "login" /\ pc'.panel = "verifies"
         \/ /\ pc'.panel = pc.panel /\ pc.poll \in {"login", "verifies", "fetches"}
            /\ pc'.poll \in {"registers", "top", "drains"}
         \/ pc'.panel = pc.panel /\ pc.poll = "login" /\ pc'.poll = "verifies"
    <2>1. CASE Inbox!LoginSucceeds(a)
        BY <1>1, <2>1, GoesIs DEF Inbox!LoginSucceeds, TaskAt, PanelAt
    <2>2. ASSUME NEW ok \in BOOLEAN, Inbox!Returned(a, ok)
          PROVE  /\ pc' \in [poll : TaskAt, panel : PanelAt]
                 /\ \/ pc'.poll = pc.poll /\ pc'.panel \in {"probes", "idle"}
                    \/ /\ pc'.panel = pc.panel /\ pc.poll \in {"login", "verifies", "fetches"}
                       /\ pc'.poll \in {"registers", "top", "drains"}
        BY <1>1, <2>2, ReturnedIs
    <2> QED BY <2>1, <2>2 DEF Inbox!LoginFails, Inbox!Verified, Inbox!VerificationFails
<1>4. Grows
    BY <1>1, <1>2, SettledGrows
<1>5. PICK p \in Session : p = rts[rt[a]] /\ ReadsSettled(p)
    BY <1>2 DEF InboxInv, SessionsInv
<1>6. p.since \in Nat /\ p.wm \in Marks /\ p.staged \in Marks /\ Inbox!Unread \in Marks
    BY DEF Session, Inbox!Unread, Marks
\* What becomes of a session that keeps its time and its marks.
<1>7. ASSUME NEW o \in Session, rts' = [rts EXCEPT ![rt[a]] = o], o.wm = p.wm, o.since = p.since,
             o.staged = p.staged \/ o.staged = Inbox!Unread
      PROVE  InboxInv'
    <2>1. ReadsSettled(o)'
        BY <1>4, <1>5, <1>7, SessionGrows
    <2> QED BY <1>1, <1>2, <1>3, <1>5, <1>7, <2>1, SessionSet
<1>8. CASE Inbox!LoginSucceeds(a)
    <2> DEFINE o == [p EXCEPT !.staged = Inbox!Unread, !.auth = TRUE]
    <2>1. rts' = [rts EXCEPT ![rt[a]] = o]
        BY <1>2, <1>5, <1>8 DEF Inbox!LoginSucceeds
    <2>2. o \in Session /\ o.wm = p.wm /\ o.since = p.since /\ o.staged = Inbox!Unread
        BY <1>6 DEF Session
    <2> HIDE DEF o
    <2> QED BY <1>7, <2>1, <2>2
<1>9. CASE Inbox!LoginFails(a) \/ Inbox!VerificationFails(a)
    <2> DEFINE o == [p EXCEPT !.auth = FALSE]
    <2>1. rts' = [rts EXCEPT ![rt[a]] = o]
        BY <1>2, <1>5, <1>9 DEF Inbox!LoginFails, Inbox!VerificationFails
    <2>2. o \in Session /\ o.wm = p.wm /\ o.since = p.since /\ o.staged = p.staged
        BY DEF Session
    <2> HIDE DEF o
    <2> QED BY <1>7, <2>1, <2>2
<1>10. CASE Inbox!Verified(a)
    <2>1. CASE UNCHANGED rts
        <3>1. rts' = [rts EXCEPT ![rt[a]] = p]
            BY <1>2, <1>5, <2>1
        <3> QED BY <1>7, <3>1
    <2>2. CASE rts' = [rts EXCEPT ![rt[a]] = [@ EXCEPT !.since = file.since, !.wm = file.wm]]
        <3> DEFINE read == [p EXCEPT !.since = file.since, !.wm = file.wm]
        <3>0. read \in Session /\ read.wm = file.wm /\ read.since = file.since /\ read.staged = p.staged
            BY <1>1 DEF InboxTypes, Session
        <3>1. rts' = [rts EXCEPT ![rt[a]] = read]
            BY <1>2, <1>5, <2>2
        <3> HIDE DEF read
        <3>2. PICK o \in Session : /\ rts' = [rts EXCEPT ![rt[a]] = o] /\ o.wm = file.wm
                                  /\ o.since = file.since /\ o.staged = p.staged
            BY <3>0, <3>1
        <3>3. AllUpto(o.wm) /\ o.since <= produced
            BY <3>2 DEF InboxInv, FileInv, Upto
        <3>4. ReadsSettled(o)
            BY <1>5, <3>2, <3>3 DEF ReadsSettled
        <3>5. ReadsSettled(o)'
            BY <1>4, <3>2, <3>4, SessionGrows
        <3> QED BY <1>1, <1>2, <1>3, <1>5, <3>2, <3>5, SessionSet
    <2> QED BY <1>10, <2>1, <2>2 DEF Inbox!Verified
<1> QED BY <1>8, <1>9, <1>10

\* A session that expired.
LEMMA ExpiredStep ==
    ASSUME InboxInv, Inbox!Probed \/ Inbox!FetchFails PROVE InboxInv'
<1>1. /\ InboxTypes /\ UNCHANGED <<produced, file, cur, why, batch, queue, got, dropped, rt>>
    BY DEF InboxInv, Inbox!Probed, Inbox!FetchFails, Inbox!taskVars, Inbox!Calm
<1>2. rts \in Seq(Session) /\ produced \in Nat
    BY <1>1 DEF InboxTypes
<1>3. Grows
    BY <1>1, <1>2, SettledGrows
<1>4. /\ pc' \in [poll : TaskAt, panel : PanelAt]
      /\ \/ pc'.poll = pc.poll /\ pc'.panel = "idle"
         \/ pc'.panel = pc.panel /\ pc.poll = "fetches" /\ pc'.poll = "top"
    <2>1. CASE Inbox!Probed
        BY <1>1, <2>1, GoesIs DEF Inbox!Probed, PanelAt
    <2>2. CASE Inbox!FetchFails
        BY <1>1, <2>2, GoesIs DEF Inbox!FetchFails, TaskAt, Inbox!Task
    <2> QED BY <2>1, <2>2
<1>5. CASE UNCHANGED rts
    <2>1. InboxTypes'
        BY <1>1, <1>4, <1>5 DEF InboxTypes
    <2>2. SessionsInv' /\ StagedInv'
        BY <1>1, <1>3, <1>5, SessionsKept, StagedKept DEF InHand
    <2> QED BY <1>1, <1>4, <1>5, <2>1, <2>2, SessionsStep
<1>6. ASSUME NEW i \in 1..Len(rts), NEW b \in BOOLEAN,
             rts' = [rts EXCEPT ![i].auth = rts[i].auth /\ b]
      PROVE  InboxInv'
    <2>1. rts[i] \in Session /\ ReadsSettled(rts[i])
        BY <1>2 DEF InboxInv, SessionsInv
    <2>2. /\ rts' = [rts EXCEPT ![i] = [rts[i] EXCEPT !.auth = rts[i].auth /\ b]]
          /\ [rts[i] EXCEPT !.auth = rts[i].auth /\ b] \in Session
        BY <1>6, <2>1 DEF Session
    <2>3. PICK o \in Session : /\ rts' = [rts EXCEPT ![i] = o] /\ o.wm = rts[i].wm
                              /\ o.since = rts[i].since /\ o.staged = rts[i].staged
        BY <2>1, <2>2 DEF Session
    <2>4. ReadsSettled(o)'
        <3>1. PICK p : p = rts[i]
            OBVIOUS
        <3> QED BY <1>3, <2>1, <2>3, <3>1, SessionGrows
    <2> QED BY <1>1, <1>2, <1>4, <2>3, <2>4, SessionSet
<1>7. CASE Inbox!Probed
    <2>1. CASE cur # 0 /\ rts' = [rts EXCEPT ![cur].auth = FALSE]
        <3>1. cur \in 1..Len(rts)
            BY <1>1, <2>1 DEF InboxTypes
        <3>2. rts[cur] \in Session
            BY <1>2, <3>1
        <3>3. rts' = [rts EXCEPT ![cur].auth = rts[cur].auth /\ FALSE]
            BY <2>1, <3>2
        <3> QED BY <1>6, <3>1, <3>3
    <2> QED BY <1>5, <1>7, <2>1 DEF Inbox!Probed
<1>8. CASE Inbox!FetchFails
    <2>1. rt.poll \in 1..Len(rts)
        BY <1>1, <1>8 DEF Inbox!FetchFails, Inbox!Task, InboxTypes
    <2>2. PICK expired \in BOOLEAN : rts' = [rts EXCEPT ![rt.poll].auth = @ /\ ~expired]
        BY <1>8 DEF Inbox!FetchFails
    <2> QED BY <1>6, <2>1, <2>2
<1> QED BY <1>7, <1>8

----------------------------------------------------------------------------
(* Deliveries.                                                             *)

LEMMA TailIs ==
    ASSUME NEW q \in Seq(Nat), q # <<>>
    PROVE  /\ Head(q) = q[1] /\ Tail(q) \in Seq(Nat) /\ Len(q) \in Nat \ {0}
           /\ Len(Tail(q)) = Len(q) - 1 /\ \A k \in 1..Len(Tail(q)) : Tail(q)[k] = q[k + 1]
           /\ \A m : m \in Inbox!Range(q) <=> m = Head(q) \/ m \in Inbox!Range(Tail(q))
<1>1. /\ Head(q) = q[1] /\ Tail(q) \in Seq(Nat) /\ Len(q) \in Nat \ {0}
      /\ Len(Tail(q)) = Len(q) - 1 /\ \A k \in 1..Len(Tail(q)) : Tail(q)[k] = q[k + 1]
    BY HeadTailProperties, EmptySeq
<1>2. /\ DOMAIN q = 1..Len(q) /\ DOMAIN Tail(q) = 1..Len(Tail(q))
      /\ \A k \in 1..Len(q) : k = 1 \/ k - 1 \in 1..Len(Tail(q))
      /\ \A k \in 1..Len(Tail(q)) : k + 1 \in 1..Len(q)
    BY <1>1
<1>3. ASSUME NEW k \in 1..Len(q), k # 1 PROVE q[k] = Tail(q)[k - 1] /\ k - 1 \in DOMAIN Tail(q)
    <2>1. k - 1 \in 1..Len(Tail(q)) /\ k = (k - 1) + 1
        BY <1>2, <1>3
    <2> QED BY <1>1, <1>2, <2>1
<1>4. 1 \in DOMAIN q
    BY <1>1, <1>2
<1>5. ASSUME NEW m, m \in Inbox!Range(q) PROVE m = Head(q) \/ m \in Inbox!Range(Tail(q))
    <2>1. PICK k \in 1..Len(q) : m = q[k]
        BY <1>2, <1>5 DEF Inbox!Range
    <2>2. CASE k = 1
        BY <1>1, <2>1, <2>2
    <2>3. CASE k # 1
        BY <1>3, <2>1, <2>3 DEF Inbox!Range
    <2> QED BY <2>2, <2>3
<1>6. \A m : m = Head(q) \/ m \in Inbox!Range(Tail(q)) => m \in Inbox!Range(q)
    BY <1>1, <1>2, <1>4 DEF Inbox!Range
<1> QED BY <1>1, <1>5, <1>6

LEMMA TailInLine ==
    ASSUME Grows, NEW q \in Seq(Nat), q # <<>>, InLine(q), Settled(Head(q))',
           NEW t \in Seq(Nat), t = Tail(q)
    PROVE  InLine(t)'
<1>1. /\ Head(q) = q[1] /\ Len(q) \in Nat \ {0}
      /\ Len(Tail(q)) = Len(q) - 1 /\ \A k \in 1..Len(Tail(q)) : Tail(q)[k] = q[k + 1]
    BY TailIs
<1>2. t = Tail(q)
    OBVIOUS
<1>3. ASSUME NEW k \in 1..Len(t), NEW m \in 1..(t[k] - 1), ThreadOf[m] = ThreadOf[t[k]]
      PROVE  Settled(m)' \/ \E j \in 1..(k - 1) : t[j] = m
    <2>1. t[k] = q[k + 1] /\ k + 1 \in 1..Len(q)
        BY <1>1, <1>2, <1>3
    <2>2. Settled(m) \/ \E j \in 1..((k + 1) - 1) : q[j] = m
        BY <1>3, <2>1 DEF InLine
    <2>3. ASSUME NEW j \in 1..((k + 1) - 1), q[j] = m
          PROVE  Settled(m)' \/ \E l \in 1..(k - 1) : t[l] = m
        <3>1. CASE j = 1
            BY <1>1, <2>3, <3>1
        <3>2. CASE j # 1
            <4>1. j - 1 \in 1..(k - 1) /\ j - 1 \in 1..Len(t) /\ (j - 1) + 1 = j
                BY <3>2
            <4>2. t[j - 1] = q[j]
                BY <1>1, <1>2, <4>1
            <4> QED BY <2>3, <4>1, <4>2
        <3> QED BY <3>1, <3>2
    <2> QED BY <2>2, <2>3 DEF Grows
<1> QED BY <1>3 DEF InLine

LEMMA DeliveredIs ==
    ASSUME InboxTypes, NEW m \in 1..produced, Inbox!Delivered(m), UNCHANGED <<produced, dropped>>
    PROVE  Grows /\ got' \in Seq(1..produced) /\ Settled(m)'
<1>1. produced \in Nat /\ got \in Seq(1..produced)
    BY DEF InboxTypes
<1>2. CASE m \in Inbox!Range(got) /\ got' = got
    <2>1. Grows
        BY <1>1, <1>2, SettledGrows
    <2> QED BY <1>1, <1>2, <2>1 DEF Settled
<1>3. CASE got' = Append(got, m)
    <2>1. /\ got' \in Seq(1..produced) /\ Len(got') = Len(got) + 1 /\ got'[Len(got) + 1] = m
          /\ \A i \in 1..Len(got) : got'[i] = got[i]
        BY <1>1, <1>3, AppendProperties
    <2>2. /\ DOMAIN got = 1..Len(got) /\ DOMAIN got' = 1..Len(got') /\ Len(got) \in Nat
        BY <1>1, <2>1
    <2>3. Inbox!Range(got) \subseteq Inbox!Range(got)' /\ m \in Inbox!Range(got)'
        BY <2>1, <2>2 DEF Inbox!Range
    <2>4. Grows
        BY <1>1, <2>3, SettledGrows
    <2> QED BY <2>1, <2>3, <2>4 DEF Settled
<1> QED BY <1>2, <1>3 DEF Inbox!Delivered

\* The task goes on with nothing of its sessions or of the file changed.
LEMMA TaskGoesOn ==
    ASSUME InboxInv, Grows, UNCHANGED <<produced, file, rts, cur, rt, why>>,
           NEW to \in TaskAt \ {"ask", "login", "verifies", "waits", "fetches"}, Inbox!Goes("poll", to),
           got' \in Seq(1..produced), batch' \in Seq(1..produced), queue' \in Seq(1..produced),
           \A m : InHand(m) => Settled(m)' \/ InHand(m)',
           batch' # <<>> => to \in {"delivers", "noted"},
           queue' # <<>> => to \in {"top", "registers", "drains", "drained"},
           InLine(batch)', InLine(queue)'
    PROVE  InboxInv'
<1>1. InboxTypes /\ "poll" \in {"poll", "panel"}
    BY DEF InboxInv
<1>2. pc'.poll = to /\ pc'.panel = pc.panel /\ pc' \in [poll : TaskAt, panel : PanelAt]
    BY <1>1, GoesIs
<1>3. InboxTypes'
    BY <1>1, <1>2 DEF InboxTypes
<1>4. FileInv' /\ SessionsInv' /\ StagedInv'
    BY FileKept, SessionsKept, StagedKept
<1>5. HandsInv'
    BY <1>2 DEF HandsInv
<1> QED BY <1>3, <1>4, <1>5 DEF InboxInv

LEMMA DrainsStep ==
    ASSUME InboxInv, Inbox!Drains PROVE InboxInv'
<1>1. /\ InboxTypes /\ HandsInv /\ pc.poll = "drains"
      /\ UNCHANGED <<produced, file, rts, cur, rt, why, batch, dropped>>
    BY DEF InboxInv, Inbox!Drains, Inbox!Task, Inbox!Calm, Inbox!clientVars
<1>2. /\ produced \in Nat /\ got \in Seq(1..produced) /\ queue \in Seq(1..produced)
      /\ queue \in Seq(Nat) /\ batch = <<>> /\ batch' = <<>> /\ batch' \in Seq(1..produced)
    BY <1>1 DEF InboxTypes, HandsInv
<1>3. CASE UNCHANGED <<queue, got>>
    <2>1. Grows
        BY <1>1, <1>2, <1>3, SettledGrows
    <2>2. InLine(batch)' /\ InLine(queue)'
        BY <1>2, <1>3, <2>1, LinesKept
    <2>3. CASE queue = <<>> /\ Inbox!Goes("poll", "gets")
        BY <1>1, <1>2, <1>3, <2>1, <2>2, <2>3, TaskGoesOn DEF InHand, TaskAt
    <2>4. CASE Inbox!Goes("poll", "top")
        BY <1>1, <1>2, <1>3, <2>1, <2>2, <2>4, TaskGoesOn DEF InHand, TaskAt
    <2>5. (queue = <<>> /\ Inbox!Goes("poll", "gets")) \/ Inbox!Goes("poll", "top")
        <3>1. ASSUME queue # <<>>, queue' = Tail(queue) PROVE FALSE
            <4>1. Len(Tail(queue)) = Len(queue) - 1 /\ Len(queue) \in Nat
                BY <1>2, <3>1, TailIs
            <4>2. Len(Tail(queue)) = Len(queue)
                BY <1>3, <3>1
            <4> QED BY <4>1, <4>2
        <3> QED BY <3>1 DEF Inbox!Drains
    <2> QED BY <2>3, <2>4, <2>5
<1>4. CASE /\ queue # <<>> /\ Inbox!Delivered(Head(queue)) /\ queue' = Tail(queue)
           /\ Inbox!Goes("poll", "drained")
    <2>1. Tail(queue) \in Seq(1..produced) /\ Tail(queue) \in Seq(Nat)
        BY <1>2, <1>4, HeadTailProperties
    <2>2. PICK m \in 1..produced : m = Head(queue)
        BY <1>2, <1>4, HeadTailProperties
    <2>3. Grows /\ got' \in Seq(1..produced) /\ Settled(m)'
        BY <1>1, <1>4, <2>2, DeliveredIs
    <2>4. InLine(batch)' /\ InLine(queue)'
        <3>1. InLine(queue) /\ InLine(batch)'
            BY <1>2, <2>3, LinesKept DEF InboxInv
        <3> QED BY <1>2, <1>4, <2>1, <2>2, <2>3, <3>1, TailInLine
    <2>5. \A k : InHand(k) => Settled(k)' \/ InHand(k)'
        BY <1>2, <1>4, <2>2, <2>3, TailIs DEF InHand
    <2> QED BY <1>1, <1>2, <1>4, <2>1, <2>3, <2>4, <2>5, TaskGoesOn DEF TaskAt
<1>5. \/ UNCHANGED <<queue, got>>
      \/ /\ queue # <<>> /\ Inbox!Delivered(Head(queue)) /\ queue' = Tail(queue)
         /\ Inbox!Goes("poll", "drained")
    BY DEF Inbox!Drains, Inbox!Refused
<1> QED BY <1>3, <1>4, <1>5

----------------------------------------------------------------------------
(* Commits.                                                                *)

\* With nothing in its hands, the task commits marks that are past nothing but
\* what is settled.
LEMMA CommitsKeep ==
    ASSUME InboxInv, Inbox!Commits, UNCHANGED <<produced, got, cur>>, batch = <<>>, queue = <<>>
    PROVE  /\ Grows /\ FileInv' /\ SessionsInv' /\ StagedInv'
           /\ file' \in [since : Nat, wm : Marks]
           /\ rts' \in Seq(Session) /\ Len(rts') = Len(rts)
<1>1. /\ InboxTypes /\ FileInv /\ produced \in Nat /\ rts \in Seq(Session)
      /\ file \in [since : Nat, wm : Marks]
    BY DEF InboxInv, InboxTypes
<1>2. \A m : ~InHand(m)
    BY DEF InHand, Inbox!Range
<1>3. CASE cur = 0
    <2>1. UNCHANGED <<file, rts, dropped>>
        BY <1>3 DEF Inbox!Commits
    <2>2. Grows
        BY <1>1, <2>1, SettledGrows
    <2> QED BY <1>1, <1>2, <2>1, <2>2, FileKept, SessionsKept, StagedKept
<1>4. CASE cur # 0
    <2>1. cur \in 1..Len(rts)
        BY <1>1, <1>4 DEF InboxTypes
    <2>2. PICK p \in Session : p = rts[cur]
        BY <1>1, <2>1
    <2>3. /\ ReadsSettled(p) /\ p.since \in Nat /\ p.wm \in Marks /\ p.staged \in Marks
        BY <2>1, <2>2 DEF InboxInv, SessionsInv, Session
    <2>4. rts' = [rts EXCEPT ![cur] = Inbox!Merged(p)] /\ Inbox!Persists(Inbox!Merged(p))
        BY <1>4, <2>2 DEF Inbox!Commits
    <2>5. PICK o \in Session : /\ o = Inbox!Merged(p) /\ o.since = p.since /\ o.staged = Inbox!Unread
                              /\ \A th \in Inbox!Threads :
                                    o.wm[th] = IF p.staged[th] # 0 THEN p.staged[th] ELSE p.wm[th]
        <3>1. [th \in Inbox!Threads |-> IF p.staged[th] # 0 THEN p.staged[th] ELSE p.wm[th]] \in Marks
            BY <2>3 DEF Marks
        <3>2. Inbox!Unread \in Marks
            BY DEF Inbox!Unread, Marks
        <3>3. Inbox!Merged(p) = [p EXCEPT !.wm = [th \in Inbox!Threads |-> IF p.staged[th] # 0
                                                       THEN p.staged[th] ELSE p.wm[th]],
                                    !.staged = Inbox!Unread]
            BY DEF Inbox!Merged
        <3> QED BY <3>1, <3>2, <3>3 DEF Session
    <2>6. AllUpto(p.staged) /\ AllUpto(p.wm)
        BY <1>2, <1>4, <2>2, <2>3
           DEF InboxInv, StagedInv, ReadsSettled, AllUpto, UptoIn, Marks
    <2>7. AllUpto(o.wm)
        BY <2>5, <2>6 DEF AllUpto
    <2>8. o.since \in Nat /\ o.wm \in Marks /\ o.since <= produced
        BY <2>3, <2>5 DEF Session, ReadsSettled
    <2>9. Grows /\ FileInv' /\ file' \in [since : Nat, wm : Marks]
        BY <1>1, <2>4, <2>5, <2>7, <2>8, PersistsKeeps
    <2>10. ReadsSettled(o)'
        <3>1. AllUpto(o.wm)'
            BY <2>7, <2>8, <2>9, UptoGrows
        <3> QED BY <2>5, <2>8, <2>9, <3>1 DEF ReadsSettled, Inbox!Unread, Grows
    <2>11. /\ rts' \in Seq(Session) /\ Len(rts') = Len(rts) /\ rts'[cur] = o /\ SessionsInv'
        BY <2>1, <2>4, <2>5, <2>9, <2>10, OneSession
    <2>12. StagedInv'
        BY <1>2, <2>5, <2>9, <2>11, StagedKept
    <2> QED BY <2>9, <2>11, <2>12
<1> QED BY <1>3, <1>4

\* The task goes on after a commit.
LEMMA CommitGoesOn ==
    ASSUME InboxInv, Inbox!Commits, UNCHANGED <<produced, got, cur, rt, why, batch, queue>>,
           batch = <<>>, queue = <<>>,
           NEW to \in TaskAt \ {"ask", "login", "verifies", "waits", "fetches"}, Inbox!Goes("poll", to)
    PROVE  InboxInv'
<1>1. InboxTypes /\ "poll" \in {"poll", "panel"}
    BY DEF InboxInv
<1>2. pc'.poll = to /\ pc'.panel = pc.panel /\ pc' \in [poll : TaskAt, panel : PanelAt]
    BY <1>1, GoesIs
<1>3. /\ Grows /\ FileInv' /\ SessionsInv' /\ StagedInv'
      /\ file' \in [since : Nat, wm : Marks]
      /\ rts' \in Seq(Session) /\ Len(rts') = Len(rts)
    BY CommitsKeep
<1>4. InboxTypes'
    BY <1>1, <1>2, <1>3 DEF InboxTypes
<1>5. InLine(batch)' /\ InLine(queue)'
    BY <1>3, LinesKept
<1>6. HandsInv'
    BY <1>2 DEF HandsInv
<1> QED BY <1>3, <1>4, <1>5, <1>6 DEF InboxInv

LEMMA DrainedStep ==
    ASSUME InboxInv, Inbox!Drained PROVE InboxInv'
<1>1. /\ InboxTypes /\ HandsInv /\ pc.poll = "drained"
      /\ UNCHANGED <<produced, cur, rt, why, batch, queue, got>>
    BY DEF InboxInv, Inbox!Drained, Inbox!Task, Inbox!Calm, Inbox!taskVars
<1>2. batch = <<>> /\ produced \in Nat
    BY <1>1 DEF HandsInv, InboxTypes
<1>3. ASSUME NEW to \in {"top", "drains"}, Inbox!Goes("poll", to), UNCHANGED <<file, rts, dropped>>
      PROVE  InboxInv'
    <2>1. Grows
        BY <1>1, <1>2, <1>3, SettledGrows
    <2>2. InLine(batch)' /\ InLine(queue)'
        BY <1>1, <2>1, LinesKept
    <2>3. to \in TaskAt \ {"ask", "login", "verifies", "waits", "fetches"}
        BY <1>3 DEF TaskAt
    <2>4. /\ got' \in Seq(1..produced) /\ batch' \in Seq(1..produced) /\ queue' \in Seq(1..produced)
        BY <1>1 DEF InboxTypes
    <2> QED BY <1>1, <1>2, <1>3, <2>1, <2>2, <2>3, <2>4, TaskGoesOn DEF InHand
<1>4. CASE queue = <<>> /\ Inbox!Commits /\ Inbox!Goes("poll", "gets")
    BY <1>1, <1>2, <1>4, CommitGoesOn DEF TaskAt
<1>5. \/ Inbox!Goes("poll", "top") /\ UNCHANGED <<file, rts, dropped>>
      \/ Inbox!Goes("poll", "drains") /\ UNCHANGED <<file, rts, dropped>>
      \/ queue = <<>> /\ Inbox!Commits /\ Inbox!Goes("poll", "gets")
    BY DEF Inbox!Drained
<1> QED BY <1>3, <1>4, <1>5

LEMMA DeliversStep ==
    ASSUME InboxInv, Inbox!Delivers PROVE InboxInv'
<1>1. /\ InboxTypes /\ HandsInv /\ pc.poll = "delivers" /\ UNCHANGED <<produced, cur, rt, why>>
    BY DEF InboxInv, Inbox!Delivers, Inbox!Task, Inbox!Calm
<1>2. /\ produced \in Nat /\ queue = <<>> /\ batch \in Seq(1..produced) /\ batch \in Seq(Nat)
      /\ got \in Seq(1..produced) /\ queue \in Seq(1..produced)
    BY <1>1 DEF HandsInv, InboxTypes
<1>3. CASE batch = <<>> /\ Inbox!Goes("poll", "top") /\ Inbox!Commits /\ UNCHANGED <<batch, queue, got>>
    BY <1>1, <1>2, <1>3, CommitGoesOn DEF TaskAt
<1>4. CASE /\ batch # <<>> /\ Inbox!Delivered(Head(batch)) /\ batch' = Tail(batch)
           /\ Inbox!Goes("poll", "noted") /\ UNCHANGED <<file, rts, queue, dropped>>
    <2>1. Tail(batch) \in Seq(1..produced) /\ Tail(batch) \in Seq(Nat)
        BY <1>2, <1>4, HeadTailProperties
    <2>2. PICK m \in 1..produced : m = Head(batch)
        BY <1>2, <1>4, HeadTailProperties
    <2>3. Grows /\ got' \in Seq(1..produced) /\ Settled(m)'
        BY <1>1, <1>4, <2>2, DeliveredIs
    <2>4. InLine(batch)' /\ InLine(queue)'
        <3>1. InLine(batch) /\ InLine(queue)'
            BY <1>4, <2>3, LinesKept DEF InboxInv
        <3> QED BY <1>2, <1>4, <2>1, <2>2, <2>3, <3>1, TailInLine
    <2>5. \A k : InHand(k) => Settled(k)' \/ InHand(k)'
        BY <1>2, <1>4, <2>2, <2>3, TailIs DEF InHand
    <2> QED BY <1>1, <1>2, <1>4, <2>1, <2>3, <2>4, <2>5, TaskGoesOn DEF TaskAt
<1>5. CASE /\ queue' = Inbox!Requeued /\ batch' = <<>> /\ Inbox!Goes("poll", "top")
           /\ UNCHANGED <<file, rts, dropped, got>>
    <2>1. queue' = batch
        BY <1>2, <1>5, ConcatEmptySeq DEF Inbox!Requeued
    <2>2. Grows
        BY <1>1, <1>2, <1>5, SettledGrows
    <2>3. InLine(batch)' /\ InLine(queue)'
        BY <1>2, <1>5, <2>1, <2>2, InLineGrows, LinesKept DEF InboxInv
    <2>4. \A k : InHand(k) => InHand(k)'
        BY <1>2, <2>1 DEF InHand, Inbox!Range
    <2>5. batch' \in Seq(1..produced)
        BY <1>5
    <2> QED BY <1>1, <1>2, <1>5, <2>1, <2>2, <2>3, <2>4, <2>5, TaskGoesOn DEF TaskAt
<1> QED BY <1>2, <1>3, <1>4, <1>5 DEF Inbox!Delivers, Inbox!Refused, Inbox!taskVars

LEMMA NotedStep ==
    ASSUME InboxInv, Inbox!Noted PROVE InboxInv'
<1>1. /\ InboxTypes /\ HandsInv /\ pc.poll = "noted"
      /\ UNCHANGED <<produced, file, rts, cur, rt, why, queue, got>>
    BY DEF InboxInv, Inbox!Noted, Inbox!Task, Inbox!Calm, Inbox!clientVars
<1>2. /\ produced \in Nat /\ queue = <<>> /\ batch \in Seq(1..produced)
      /\ got' \in Seq(1..produced) /\ queue' \in Seq(1..produced)
    BY <1>1 DEF HandsInv, InboxTypes
<1>3. CASE Inbox!Goes("poll", "delivers") /\ UNCHANGED <<batch, dropped>>
    <2>1. Grows
        BY <1>1, <1>2, <1>3, SettledGrows
    <2>2. InLine(batch)' /\ InLine(queue)'
        BY <1>1, <1>3, <2>1, LinesKept
    <2> QED BY <1>1, <1>2, <1>3, <2>1, <2>2, TaskGoesOn DEF InHand, TaskAt
<1>4. CASE Inbox!Goes("poll", "top") /\ batch' = <<>> /\ dropped' = dropped \union Inbox!Range(batch)
    <2>1. Grows
        BY <1>1, <1>2, <1>4, SettledGrows
    <2>2. InLine(batch)' /\ InLine(queue)'
        BY <1>1, <1>4, <2>1, LinesKept
    <2>3. \A m : InHand(m) => Settled(m)' \/ InHand(m)'
        BY <1>1, <1>4 DEF InHand, Settled
    <2>4. batch' \in Seq(1..produced)
        BY <1>4
    <2> QED BY <1>1, <1>2, <1>4, <2>1, <2>2, <2>3, <2>4, TaskGoesOn DEF TaskAt
<1> QED BY <1>3, <1>4 DEF Inbox!Noted

----------------------------------------------------------------------------
(* A session that is left, and a restart.                                  *)

LEMMA StopsStep ==
    ASSUME InboxInv, Inbox!ManagerStops PROVE InboxInv'
<1>1. /\ InboxTypes /\ UNCHANGED <<produced, rts, rt, why, got>>
      /\ batch' = <<>> /\ queue' = <<>> /\ Inbox!Goes("poll", "top") /\ "poll" \in {"poll", "panel"}
    BY DEF InboxInv, Inbox!ManagerStops
<1>2. /\ produced \in Nat /\ rts \in Seq(Session) /\ file \in [since : Nat, wm : Marks]
    BY <1>1 DEF InboxTypes
<1>3. /\ pc'.poll = "top" /\ pc'.panel = pc.panel /\ pc' \in [poll : TaskAt, panel : PanelAt]
    BY <1>1, GoesIs DEF TaskAt
<1>4. /\ Grows /\ FileInv' /\ StagedInv' /\ file' \in [since : Nat, wm : Marks]
      /\ cur' \in 0..Len(rts)
    <2>1. CASE cur # 0 /\ Inbox!Persists(rts[cur]) /\ cur' = 0
        <3>1. cur \in 1..Len(rts)
            BY <1>1, <2>1 DEF InboxTypes
        <3>2. PICK p \in Session : p = rts[cur]
            BY <1>2, <3>1
        <3>3. p.since \in Nat /\ p.wm \in Marks /\ p.since <= produced /\ AllUpto(p.wm)
            BY <3>1, <3>2 DEF InboxInv, SessionsInv, ReadsSettled, Session
        <3>4. Grows /\ FileInv' /\ file' \in [since : Nat, wm : Marks]
            BY <1>1, <1>2, <2>1, <3>2, <3>3, PersistsKeeps DEF InboxInv
        <3>5. StagedInv'
            BY <2>1 DEF StagedInv
        <3> QED BY <1>2, <2>1, <3>4, <3>5
    <2>2. CASE dropped' = dropped \union Inbox!Range(batch) \union Inbox!Range(queue) /\ UNCHANGED <<file, cur>>
        <3>1. Grows
            BY <1>1, <1>2, <2>2, SettledGrows
        <3>2. \A m : InHand(m) => Settled(m)'
            BY <2>2 DEF InHand, Settled
        <3>3. FileInv' /\ StagedInv'
            BY <1>1, <2>2, <3>1, <3>2, FileKept, StagedKept
        <3> QED BY <1>1, <1>2, <2>2, <3>1, <3>3 DEF InboxTypes
    <2> QED BY <2>1, <2>2 DEF Inbox!ManagerStops
<1>5. InboxTypes'
    BY <1>1, <1>2, <1>3, <1>4 DEF InboxTypes
<1>6. SessionsInv' /\ InLine(batch)' /\ InLine(queue)'
    BY <1>1, <1>4, SessionsKept, LinesKept
<1>7. HandsInv'
    BY <1>1, <1>3 DEF HandsInv
<1> QED BY <1>4, <1>5, <1>6, <1>7 DEF InboxInv

LEMMA DumpedStep ==
    ASSUME InboxInv, Inbox!Dumped PROVE InboxInv'
<1>1. /\ InboxTypes /\ pc.panel = "dumps" /\ "panel" \in {"poll", "panel"}
      /\ UNCHANGED <<produced, rts, cur, rt, why, batch, queue, got>>
    BY DEF InboxInv, Inbox!Dumped, Inbox!Panel, Inbox!taskVars
<1>2. /\ produced \in Nat /\ rts \in Seq(Session) /\ file \in [since : Nat, wm : Marks]
    BY <1>1 DEF InboxTypes
<1>3. PICK to \in {"ask", "idle"} : Inbox!Goes("panel", to) /\ (to = "ask" => why.panel = "reconnect")
    BY DEF Inbox!Dumped
<1>4. pc'.panel = to /\ pc'.poll = pc.poll /\ pc' \in [poll : TaskAt, panel : PanelAt]
    BY <1>1, <1>3, GoesIs DEF PanelAt
<1>5. rt.panel \in 1..Len(rts)
    BY <1>1 DEF InboxTypes
<1>6. PICK p \in Session : p = rts[rt.panel]
    BY <1>2, <1>5
<1>7. p.since \in Nat /\ p.wm \in Marks /\ p.since <= produced /\ AllUpto(p.wm)
    BY <1>5, <1>6 DEF InboxInv, SessionsInv, ReadsSettled, Session
<1>8. Grows /\ FileInv' /\ file' \in [since : Nat, wm : Marks]
    BY <1>1, <1>2, <1>6, <1>7, PersistsKeeps DEF InboxInv, Inbox!Dumped
<1>9. SessionsInv' /\ StagedInv' /\ InLine(batch)' /\ InLine(queue)'
    BY <1>1, <1>8, SessionsKept, StagedKept, LinesKept DEF InHand
<1>10. InboxTypes'
    BY <1>1, <1>3, <1>4, <1>8 DEF InboxTypes
<1>11. HandsInv'
    <2>1. pc'.poll \in {"waits", "fetches"} => AllUpto(rts[rt.poll].staged)'
        BY <1>1, <1>4, <1>8, FetchKept
    <2> QED BY <1>1, <1>4, <2>1 DEF HandsInv, InboxInv
<1> QED BY <1>8, <1>9, <1>10, <1>11 DEF InboxInv

LEMMA RestartsStep ==
    ASSUME InboxInv, Inbox!Restarts PROVE InboxInv'
<1>1. /\ InboxTypes /\ UNCHANGED <<produced, file, rts, rt, why, got, dropped>>
      /\ cur' = 0 /\ pc' = [poll |-> "top", panel |-> "idle"]
      /\ batch' = <<>> /\ queue' = <<>>
    BY DEF InboxInv, Inbox!Restarts
<1>2. Grows
    BY <1>1, SettledGrows DEF InboxTypes
<1>3. FileInv' /\ SessionsInv' /\ InLine(batch)' /\ InLine(queue)'
    BY <1>1, <1>2, FileKept, SessionsKept, LinesKept
<1>4. InboxTypes'
    BY <1>1 DEF InboxTypes, TaskAt, PanelAt
<1>5. StagedInv' /\ HandsInv'
    BY <1>1 DEF StagedInv, HandsInv
<1> QED BY <1>3, <1>4, <1>5 DEF InboxInv

----------------------------------------------------------------------------
(* Fetches.                                                                *)

\* A set of numbers that is not empty and has a bound has a greatest one.
LEMMA GreatestExists ==
    ASSUME NEW S \in SUBSET Nat, S # {}, NEW n \in Nat, \A k \in S : k <= n
    PROVE  \E m \in S : \A k \in S : k <= m
<1> DEFINE R == OpToRel(<, Nat)
           T == {u \in Nat : \A k \in S : k <= u}
<1>1. IsWellFoundedOn(R, Nat)
    BY NatLessThanWellFounded
<1>2. \A x, y \in Nat : <<x, y>> \in R <=> x < y
    BY DEF OpToRel
<1>3. T \subseteq Nat /\ T # {}
    OBVIOUS
<1> HIDE DEF R
<1>4. PICK u \in T : \A y \in T : ~(<<y, u>> \in R)
    BY <1>1, <1>3, WFMin
<1>5. \A y \in T : ~(y < u)
    BY <1>2, <1>3, <1>4
<1>6. CASE u = 0
    <2>1. PICK k \in S : TRUE
        OBVIOUS
    <2> QED BY <1>4, <1>6, <2>1
<1>7. CASE u # 0
    <2>1. u - 1 \in Nat /\ u - 1 < u
        BY <1>7
    <2>2. u - 1 \notin T
        BY <1>5, <2>1
    <2>3. PICK k \in S : ~(k <= u - 1)
        BY <2>1, <2>2
    <2>4. k = u
        BY <1>4, <2>3
    <2> QED BY <1>4, <2>4
<1> QED BY <1>6, <1>7

LEMMA NewestIs ==
    ASSUME produced \in Nat, NEW i, NEW seen, NEW n, n = Inbox!Newest(i, seen), rts[i].staged \in Marks,
           \A th \in Inbox!Threads : rts[i].staged[th] <= produced
    PROVE  /\ n \in Marks /\ \A th \in Inbox!Threads : n[th] <= produced
           /\ \A th \in Inbox!Threads : th \in seen \/ n[th] = rts[i].staged[th]
<1>1. ASSUME NEW th \in Inbox!Threads
      PROVE  n[th] \in Nat /\ n[th] <= produced /\ (th \in seen \/ n[th] = rts[i].staged[th])
    <2> DEFINE read == {m \in 1..produced : ThreadOf[m] = th}
               newest == CHOOSE m \in read : \A k \in read : k <= m
    <2>1. n[th] = IF th \notin seen \/ read = {} THEN rts[i].staged[th] ELSE newest
        BY DEF Inbox!Newest
    <2>2. rts[i].staged[th] \in Nat /\ rts[i].staged[th] <= produced
        BY DEF Marks
    <2>3. ASSUME read # {} PROVE newest \in read
        <3>1. read \in SUBSET Nat /\ \A k \in read : k <= produced
            OBVIOUS
        <3> HIDE DEF read
        <3>2. \E m \in read : \A k \in read : k <= m
            BY <2>3, <3>1, GreatestExists
        <3> QED BY <3>2
    <2>4. read # {} => newest \in Nat /\ newest <= produced
        BY <2>3
    <2> HIDE DEF newest
    <2> QED BY <2>1, <2>2, <2>4
<1>2. n = [th \in Inbox!Threads |-> n[th]]
    BY DEF Inbox!Newest
<1> QED BY <1>1, <1>2 DEF Marks

\* What a fetch finds is all that is ahead of what is settled, or of what the
\* session takes for history.
LEMMA FetchedIs ==
    ASSUME InboxInv, pc.poll = "fetches", NEW seen \in SUBSET Inbox!Threads,
           NEW b, b \in Inbox!Sorted(Inbox!Newer(rt.poll, seen) \ Silent),
           Grows, Inbox!Skipped(rts[rt.poll]) \subseteq dropped'
    PROVE  /\ b \in Seq(1..produced)
           /\ \A m \in 1..produced : ThreadOf[m] \in seen => Settled(m)' \/ m \in Inbox!Range(b)
           /\ InLine(b)'
<1> DEFINE S == Inbox!Newer(rt.poll, seen) \ Silent
<1>1. PICK p \in Session : p = rts[rt.poll]
    BY DEF InboxInv, InboxTypes
<1>2. rt.poll \in 1..Len(rts) /\ produced \in Nat
    BY DEF InboxInv, InboxTypes
<1>3. /\ AllUpto(p.staged) /\ AllUpto(p.wm)
      /\ p.since \in Nat /\ p.staged \in Marks /\ p.wm \in Marks
    BY <1>1, <1>2 DEF InboxInv, HandsInv, SessionsInv, ReadsSettled, Session
<1>3a. ASSUME NEW m \in 1..produced, m <= p.since PROVE Settled(m)'
    <2>1. CASE p.since > file.since
        <3>1. m \in Inbox!Undelivered => m \in dropped'
            BY <1>1, <2>1 DEF Inbox!Skipped
        <3>2. m \notin Inbox!Undelivered => Settled(m)
            BY DEF Inbox!Undelivered, Settled
        <3> QED BY <3>1, <3>2 DEF Grows, Settled
    <2>2. CASE ~(p.since > file.since)
        <3>1. file.since \in Nat
            BY DEF InboxInv, InboxTypes
        <3>2. Settled(m)
            BY <1>3, <1>3a, <2>2, <3>1 DEF InboxInv, FileInv, Upto
        <3> QED BY <3>2 DEF Grows
    <2> QED BY <2>1, <2>2
<1>4. /\ b \in [1..Cardinality(S) -> S] /\ Inbox!Range(b) = S
      /\ \A i, k \in DOMAIN b : i < k => b[i] < b[k]
    BY InboxCardinality DEF Inbox!Sorted
<1>5. S \subseteq 1..produced /\ S \subseteq Nat
    BY <1>2 DEF Inbox!Newer
<1>6. ASSUME NEW m \in 1..produced, ThreadOf[m] \in seen PROVE Settled(m)' \/ m \in S
    <2> DEFINE th == ThreadOf[m]
    <2>1. th \in Inbox!Threads /\ p.staged[th] \in Nat /\ p.wm[th] \in Nat
        BY <1>3, <1>6 DEF Marks
    <2>2. CASE Inbox!Ahead(m, Inbox!Mark(rt.poll, th), p.since)
        <3>1. Settled(m) \/ m \in S
            BY <1>1, <1>6, <2>2 DEF Inbox!Newer, Settled
        <3> QED BY <3>1 DEF Grows
    <2>3. CASE ~Inbox!Ahead(m, Inbox!Mark(rt.poll, th), p.since)
        <3>1. m <= p.staged[th] \/ m <= p.wm[th] \/ m <= p.since
            BY <1>1, <1>3, <2>1, <2>3 DEF Inbox!Ahead, Inbox!Mark
        <3>2. m <= p.since \/ Settled(m)
            BY <1>3, <2>1, <3>1 DEF AllUpto, UptoIn
        <3> QED BY <1>3a, <3>2 DEF Grows
    <2> QED BY <2>2, <2>3
<1> HIDE DEF S
<1>7. PICK n \in Nat : n = Cardinality(S)
    <2>1. IsFiniteSet(1..produced)
        BY <1>2, FS_Interval
    <2>2. IsFiniteSet(S)
        BY <1>5, <2>1, FS_Subset
    <2> QED BY <2>2, FS_CardinalityType
<1>8. b \in Seq(1..produced) /\ Len(b) = n /\ DOMAIN b = 1..n
    <2>1. b \in [1..n -> S]
        BY <1>4, <1>7
    <2>2. b \in [1..n -> 1..produced]
        BY <1>5, <2>1
    <2>3. b \in Seq(1..produced)
        BY <1>7, <2>2, SeqDef
    <2> QED BY <1>7, <2>2, <2>3, LenProperties
<1>9. ASSUME NEW k \in 1..n, NEW m \in 1..(b[k] - 1), ThreadOf[m] = ThreadOf[b[k]]
      PROVE  Settled(m)' \/ \E j \in 1..(k - 1) : b[j] = m
    <2>1. b[k] \in S /\ b[k] \in 1..produced
        BY <1>4, <1>5, <1>8
    <2>2. ThreadOf[b[k]] \in seen
        BY <2>1 DEF S, Inbox!Newer
    <2>3. m \in 1..produced /\ m < b[k]
        BY <1>2, <2>1
    <2>4. CASE m \in S
        <3>1. PICK j \in 1..n : b[j] = m
            BY <1>4, <1>8, <2>4 DEF Inbox!Range
        <3>2. j < k
            <4>1. j # k /\ ~(k < j)
                BY <1>4, <1>8, <2>3, <3>1, <2>1
            <4> QED BY <1>7, <4>1
        <3> QED BY <1>7, <3>1, <3>2
    <2> QED BY <1>6, <1>9, <2>2, <2>3, <2>4
<1>10. InLine(b)'
    BY <1>8, <1>9 DEF InLine
<1> QED BY <1>4, <1>6, <1>8, <1>10

LEMMA FetchedStep ==
    ASSUME InboxInv, Inbox!Fetched PROVE InboxInv'
<1>1. /\ InboxTypes /\ HandsInv /\ pc.poll = "fetches" /\ "poll" \in {"poll", "panel"}
      /\ UNCHANGED <<produced, cur, rt, why, queue, got>> /\ Inbox!Goes("poll", "delivers")
    BY DEF InboxInv, Inbox!Fetched, Inbox!Task, Inbox!Calm
<1>2. /\ produced \in Nat /\ rts \in Seq(Session) /\ file \in [since : Nat, wm : Marks]
      /\ rt.poll \in 1..Len(rts) /\ queue = <<>> /\ batch = <<>>
    BY <1>1 DEF InboxTypes, HandsInv
<1>3. PICK seen \in SUBSET Inbox!Threads :
          /\ batch' \in Inbox!Sorted(Inbox!Newer(rt.poll, seen) \ Silent)
          /\ rts' = [rts EXCEPT ![rt.poll].staged = Inbox!Newest(rt.poll, seen)]
    BY DEF Inbox!Fetched
<1>4. PICK p \in Session : p = rts[rt.poll]
    BY <1>2
<1>5. /\ ReadsSettled(p) /\ AllUpto(p.staged) /\ p.since \in Nat /\ p.wm \in Marks /\ p.staged \in Marks
    BY <1>1, <1>2, <1>4 DEF InboxInv, SessionsInv, HandsInv, Session
<1>6. PICK n \in Marks : /\ n = Inbox!Newest(rt.poll, seen) /\ \A th \in Inbox!Threads : n[th] <= produced
                         /\ \A th \in Inbox!Threads : th \in seen \/ n[th] = p.staged[th]
    BY <1>2, <1>4, <1>5, NewestIs DEF ReadsSettled
<1>7. PICK o \in Session : /\ rts' = [rts EXCEPT ![rt.poll] = o]
                           /\ o.since = p.since /\ o.wm = p.wm /\ o.auth = p.auth /\ o.staged = n
    <2>1. [p EXCEPT !.staged = n] \in Session
        BY <1>6 DEF Session
    <2>2. rts' = [rts EXCEPT ![rt.poll] = [p EXCEPT !.staged = n]]
        BY <1>3, <1>4, <1>6
    <2> QED BY <2>1, <2>2 DEF Session
<1>7a. /\ dropped \subseteq dropped' /\ Inbox!Skipped(p) \subseteq dropped'
       /\ UNCHANGED file \/ Inbox!Writes(p)
    BY <1>4 DEF Inbox!Fetched
<1>8. Grows /\ FileInv' /\ file' \in [since : Nat, wm : Marks]
    BY <1>1, <1>2, <1>5, <1>7a, WritesKeep DEF InboxInv, ReadsSettled
<1>9. ReadsSettled(o)'
    <2>1. AllUpto(o.wm)'
        BY <1>5, <1>7, <1>8, UptoGrows DEF ReadsSettled
    <2> QED BY <1>1, <1>5, <1>6, <1>7, <2>1 DEF ReadsSettled
<1>10. /\ rts' \in Seq(Session) /\ Len(rts') = Len(rts) /\ rts'[rt.poll] = o
       /\ \A j \in 1..Len(rts) \ {rt.poll} : rts'[j] = rts[j]
       /\ SessionsInv'
    BY <1>2, <1>7, <1>8, <1>9, OneSession
<1>11. PICK b : b = batch'
    OBVIOUS
<1>12. /\ b \in Seq(1..produced) /\ InLine(b)'
       /\ \A m \in 1..produced : ThreadOf[m] \in seen => Settled(m)' \/ m \in Inbox!Range(b)
    BY <1>1, <1>3, <1>4, <1>7a, <1>8, <1>11, FetchedIs
<1>13. b \in Seq(Nat)
    BY <1>2, <1>12, SeqMonotonic
<1>14. InLine(batch)' /\ InLine(queue)'
    <2>1. InLine(batch)'
        BY <1>11, <1>12 DEF InLine
    <2> QED BY <1>1, <1>8, <2>1, LinesKept
<1>15. StagedInv'
    <2>1. CASE cur = rt.poll
        <3> SUFFICES ASSUME NEW th \in Inbox!Threads, NEW m \in 1..n[th], ThreadOf[m] = th
                     PROVE  Settled(m)' \/ InHand(m)'
            BY <1>1, <1>7, <1>10, <2>1 DEF StagedInv
        <3>1. m \in 1..produced
            BY <1>2, <1>6 DEF Marks
        <3>2. CASE th \in seen
            BY <1>11, <1>12, <3>1, <3>2 DEF InHand
        <3>3. CASE th \notin seen
            <4>1. Settled(m)
                BY <1>5, <1>6, <3>3 DEF AllUpto, UptoIn
            <4> QED BY <1>8, <4>1 DEF Grows
        <3> QED BY <3>2, <3>3
    <2>2. CASE cur # rt.poll
        <3>1. cur # 0 => rts'[cur].staged = rts[cur].staged
            BY <1>1, <1>10, <2>2 DEF InboxTypes
        <3>2. \A m : ~InHand(m)
            BY <1>2 DEF InHand, Inbox!Range
        <3> QED BY <1>1, <1>8, <3>1, <3>2, StagedKept
    <2> QED BY <2>1, <2>2
<1>16. /\ pc'.poll = "delivers" /\ pc'.panel = pc.panel /\ pc' \in [poll : TaskAt, panel : PanelAt]
    BY <1>1, GoesIs DEF TaskAt
<1>17. InboxTypes'
    BY <1>1, <1>8, <1>10, <1>11, <1>12, <1>16 DEF InboxTypes
<1>18. HandsInv'
    BY <1>1, <1>2, <1>16 DEF HandsInv
<1> QED BY <1>8, <1>10, <1>14, <1>15, <1>17, <1>18 DEF InboxInv

----------------------------------------------------------------------------
(* What the invariant says of the specification.                           *)

LEMMA InboxInvStep == ASSUME Inbox!InboxAssumption, InboxInv, [Inbox!InboxNext]_(Inbox!vars) PROVE InboxInv'
<1>1. CASE Inbox!InboxNext
    <2>1. Inbox!Polls \/ Inbox!Registers \/ Inbox!GetUpdates \/ Inbox!Waited \/ Inbox!ManagerStarts
              \/ Inbox!Check \/ Inbox!Reconnect \/ Inbox!Disable \/ Inbox!Enable \/ Inbox!MessageSent => InboxInv'
        BY QuietSteps
    <2>2. Inbox!Connecting => InboxInv'
        BY ConnectsStep, LoginStep DEF Inbox!Connecting
    <2>3. Inbox!Drains \/ Inbox!Drained \/ Inbox!Fetched \/ Inbox!Delivers \/ Inbox!Noted => InboxInv'
        BY DrainsStep, DrainedStep, FetchedStep, DeliversStep, NotedStep
    <2>4. Inbox!FetchFails \/ Inbox!Probed \/ Inbox!ManagerStops \/ Inbox!Dumped \/ Inbox!Restarts => InboxInv'
        BY ExpiredStep, StopsStep, DumpedStep, RestartsStep
    <2> QED BY <1>1, <2>1, <2>2, <2>3, <2>4 DEF Inbox!InboxNext
<1>2. CASE UNCHANGED Inbox!vars
    <2>1. UNCHANGED <<produced, file, rts, cur, pc, rt, why, batch, queue, got, dropped>>
        BY <1>2 DEF Inbox!vars, Inbox!clientVars, Inbox!taskVars
    <2>2. InboxTypes'
        BY <2>1 DEF InboxInv, InboxTypes
    <2> QED BY <2>1, <2>2, QuietStep DEF InboxInv, HandsInv, InboxTypes
<1> QED BY <1>1, <1>2

LEMMA InboxInvMeans == ASSUME Inbox!InboxAssumption, InboxInv PROVE Inbox!NothingForgotten
<1> SUFFICES ASSUME NEW m \in Inbox!Undelivered, Inbox!Passed(m) PROVE m \in dropped
    BY DEF Inbox!NothingForgotten
<1>1. m \in 1..produced /\ m \notin Inbox!Range(got) /\ m \notin Silent
    BY DEF Inbox!Undelivered
<1>2. ThreadOf[m] \in Inbox!Threads
    BY <1>1 DEF Inbox!Threads, Inbox!InboxAssumption, InboxInv, InboxTypes
<1>3. file.wm[ThreadOf[m]] \in Nat /\ file.since \in Nat
    BY <1>2 DEF InboxInv, InboxTypes, Marks
<1>4. m <= file.wm[ThreadOf[m]] \/ m <= file.since
    BY <1>1, <1>3 DEF Inbox!Passed, Inbox!Ahead
<1>5. Settled(m)
    BY <1>1, <1>2, <1>3, <1>4 DEF InboxInv, FileInv, AllUpto, Upto, UptoIn
<1> QED BY <1>1, <1>5 DEF Settled

LEMMA InOrderStep == ASSUME InboxInv, [Inbox!InboxNext]_(Inbox!vars) PROVE Inbox!InOrder
<1>1. /\ produced \in Nat /\ got \in Seq(1..produced)
      /\ batch \in Seq(1..produced) /\ queue \in Seq(1..produced)
    BY DEF InboxInv, InboxTypes
<1>2. ASSUME NEW q \in Seq(1..produced), q # <<>>, InLine(q), got' = Append(got, Head(q))
      PROVE  Inbox!InOrder
    <2>1. q \in Seq(Nat)
        BY <1>1, SeqMonotonic
    <2>2. Head(q) = q[1] /\ Len(q) \in Nat \ {0} /\ q[1] \in 1..produced
        BY <1>2, <2>1, TailIs, HeadTailProperties
    <2>3. Inbox!Last(got') = q[1]
        <3>1. /\ Len(got') = Len(got) + 1 /\ got'[Len(got) + 1] = Head(q)
            BY <1>1, <1>2, <2>2, AppendProperties
        <3> QED BY <2>2, <3>1 DEF Inbox!Last
    <2>4. ASSUME NEW m \in Inbox!Undelivered, ThreadOf[m] = ThreadOf[q[1]], m < q[1] PROVE m \in dropped
        <3>1. m \in 1..(q[1] - 1)
            BY <1>1, <2>2, <2>4 DEF Inbox!Undelivered
        <3>2. Settled(m) \/ \E j \in 1..(1 - 1) : q[j] = m
            BY <1>2, <2>2, <2>4, <3>1 DEF InLine
        <3> QED BY <2>4, <3>2 DEF Settled, Inbox!Undelivered
    <2> QED BY <2>3, <2>4 DEF Inbox!InOrder
<1>3. CASE UNCHANGED got
    BY <1>3 DEF Inbox!InOrder
<1>4. CASE Inbox!Drains
    BY <1>1, <1>2, <1>3, <1>4 DEF Inbox!Drains, Inbox!Delivered, Inbox!Refused, InboxInv
<1>5. CASE Inbox!Delivers
    BY <1>1, <1>2, <1>3, <1>5 DEF Inbox!Delivers, Inbox!Delivered, Inbox!Refused, InboxInv
<1>6. CASE Inbox!Connecting
    BY <1>3, <1>6 DEF Inbox!Connecting, Inbox!Connect, Inbox!LoginSucceeds, Inbox!LoginFails,
           Inbox!Verified, Inbox!VerificationFails, Inbox!Other
<1>7. CASE \/ Inbox!Polls \/ Inbox!Registers \/ Inbox!Drained \/ Inbox!GetUpdates \/ Inbox!Waited
           \/ Inbox!Fetched \/ Inbox!FetchFails \/ Inbox!Noted
    BY <1>3, <1>7 DEF Inbox!Polls, Inbox!Registers, Inbox!Drained, Inbox!GetUpdates, Inbox!Waited,
           Inbox!Fetched, Inbox!FetchFails, Inbox!Noted
<1>8. CASE Inbox!ManagerStarts \/ Inbox!ManagerStops \/ Inbox!MessageSent \/ Inbox!Restarts
    BY <1>3, <1>8 DEF Inbox!ManagerStarts, Inbox!ManagerStops, Inbox!MessageSent, Inbox!Restarts
<1>9. CASE Inbox!Check \/ Inbox!Probed \/ Inbox!Reconnect \/ Inbox!Dumped \/ Inbox!Disable \/ Inbox!Enable
    BY <1>3, <1>9 DEF Inbox!Check, Inbox!Probed, Inbox!Reconnect, Inbox!Dumped, Inbox!Disable, Inbox!Enable
<1> QED BY <1>3, <1>4, <1>5, <1>6, <1>7, <1>8, <1>9 DEF Inbox!InboxNext, Inbox!vars

LEMMA InboxInvariant == Inbox!InboxAssumption => (Inbox!InboxSpec => []InboxInv)
<1> SUFFICES ASSUME Inbox!InboxAssumption PROVE Inbox!InboxSpec => []InboxInv
    OBVIOUS
<1>1. Inbox!InboxInit => InboxInv
    BY InboxInvInit
<1>2. InboxInv /\ [Inbox!InboxNext]_(Inbox!vars) => InboxInv'
    BY InboxInvStep
<1> QED BY <1>1, <1>2, PTL DEF Inbox!InboxSpec

\* What the watermark file is past is in Chatwoot or was lost for a reason the
\* model names, for any threads, messages, sessions, failures and restarts
\* (polling_service.py, connector.py).
THEOREM PassedIsSettled == Inbox!InboxAssumption => (Inbox!InboxSpec => []Inbox!NothingForgotten)
<1> SUFFICES ASSUME Inbox!InboxAssumption PROVE Inbox!InboxSpec => []Inbox!NothingForgotten
    OBVIOUS
<1>1. InboxInv => Inbox!NothingForgotten
    BY InboxInvMeans
<1> QED BY <1>1, InboxInvariant, PTL

\* The messages of a thread come to Chatwoot in their order, whatever was queued
\* again or fetched again (polling_service.py, _drain_pending).
THEOREM ThreadsStayInOrder == Inbox!InboxAssumption => (Inbox!InboxSpec => Inbox!OrderKept)
<1> SUFFICES ASSUME Inbox!InboxAssumption PROVE Inbox!InboxSpec => Inbox!OrderKept
    OBVIOUS
<1>1. InboxInv /\ [Inbox!InboxNext]_(Inbox!vars) => [Inbox!InOrder]_(Inbox!vars)
    BY InOrderStep
<1> QED BY <1>1, InboxInvariant, PTL DEF Inbox!InboxSpec, Inbox!OrderKept
=============================================================================
