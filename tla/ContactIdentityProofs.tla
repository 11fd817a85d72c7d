------------------------- MODULE ContactIdentityProofs -------------------------
(***************************************************************************)
(* Proofs about ContactIdentity, for any number of peers and resolutions:  *)
(* a peer never has two contacts that the bridge created, and a contact    *)
(* stays the peer's whose it is.  About PhoneDestination: an answer goes   *)
(* to the one peer its contact belongs to.  About ContactSync: what the    *)
(* panel's routes do to names, and what a removal leaves.  And about       *)
(* Bridge and MessageLifecycle, which share the conversations: what may be *)
(* copied, and where nothing goes.                                         *)
(***************************************************************************)
EXTENDS ContactIdentity, SequenceTheorems, FiniteSetTheorems, WellFoundedInduction, TLAPS

States == {"idle", "mapped", "preferring", "candidate", "reserve", "anchor", "source",
           "reconciling", "searching", "researching", "create", "creating", "done"}

Contact == [live : BOOLEAN, phone : BOOLEAN, by : Peers \union {"agent"}]

Task == [pc : States, p : Peers \union {"none"}, phone : BOOLEAN, c : Nat,
         row : BOOLEAN, missing : SUBSET Nat, left : SUBSET Nat, reply : Nat]

\* A resolution that is under way is for a peer.
Resolving == {t \in Task : t.pc # "idle" => t.p \in Peers}

\* The values; a creation bears the identifier of the peer it is for.
IdentityTypes ==
    /\ contacts \in Seq(Contact)
    /\ \A q \in requests : q.p \in Peers /\ q.key = q.p /\ q.phone \in BOOLEAN
    /\ mapping \in [Peers -> Nat]
    /\ anchor \in [Peers -> [made : BOOLEAN, c : Nat]]
    /\ convs \in [Peers -> SUBSET Nat]
    /\ task \in [Resolvers -> Resolving]

\* Two live contacts that were created for one peer are one.
OneCreated ==
    \A c, d \in DOMAIN contacts :
        /\ contacts[c].live /\ contacts[d].live
        /\ contacts[c].by \in Peers /\ contacts[c].by = contacts[d].by
        => c = d

\* No contact is two peers', as a mapping or as an alias.
OneOwner == \A c \in Nat \ {0} : \A p, q \in Owners(c) : p = q

IdentityInv == IdentityTypes /\ OneCreated /\ OneOwner

----------------------------------------------------------------------------
(* The tasks.                                                              *)

LEMMA IdleResolves == Idle \in Resolving
BY DEF Idle, Resolving, Task, States

\* A resolution goes on from one state to another.
LEMMA GoesOn ==
    ASSUME NEW t \in Resolving, t.p \in Peers, NEW pc \in States,
           NEW c \in Nat, NEW missing \in SUBSET Nat, NEW left \in SUBSET Nat, NEW reply \in Nat
    PROVE  /\ [t EXCEPT !.pc = pc] \in Resolving
           /\ [t EXCEPT !.pc = pc, !.c = c] \in Resolving
           /\ [t EXCEPT !.pc = pc, !.reply = reply] \in Resolving
           /\ [t EXCEPT !.missing = missing] \in Resolving
           /\ [t EXCEPT !.missing = missing].pc = t.pc
           /\ [t EXCEPT !.missing = missing].p = t.p
           /\ [t EXCEPT !.pc = pc, !.missing = missing] \in Resolving
           /\ [t EXCEPT !.pc = pc, !.c = c, !.missing = missing] \in Resolving
           /\ [t EXCEPT !.pc = pc, !.left = left, !.c = c] \in Resolving
           /\ [t EXCEPT !.pc = pc, !.c = c, !.left = left] \in Resolving
BY DEF Resolving, Task

LEMMA Ends ==
    ASSUME NEW p \in Peers, NEW c \in Nat, NEW phone \in BOOLEAN
    PROVE  /\ [Idle EXCEPT !.pc = "done", !.p = p, !.c = c] \in Resolving
           /\ [Idle EXCEPT !.p = p, !.phone = phone] \in Resolving
           /\ [Idle EXCEPT !.p = p, !.phone = phone].p = p
BY DEF Idle, Resolving, Task, States

LEMMA Replied ==
    ASSUME NEW t \in Resolving, NEW n \in Nat, NEW b \in BOOLEAN
    PROVE  [t EXCEPT !.reply = n] \in Resolving /\ [t EXCEPT !.row = b] \in Resolving
BY DEF Resolving, Task

LEMMA CandidateResolves ==
    ASSUME NEW t \in Resolving, t.p \in Peers, NEW left \in SUBSET Nat,
           NEW next \in NextCandidate(t, left)
    PROVE  next \in Resolving
<1> DEFINE rest == left \ t.missing
<1>1. CASE rest = {}
  <2>1. next = [t EXCEPT !.pc = "reserve", !.left = {}, !.c = 0]
    BY <1>1 DEF NextCandidate
  <2> QED BY <2>1, GoesOn DEF States
<1>2. CASE rest # {}
  <2>1. PICK c \in rest : next = [t EXCEPT !.pc = "candidate", !.c = c, !.left = rest \ {c}]
    BY <1>2 DEF NextCandidate
  <2>2. "candidate" \in States /\ rest \ {c} \in SUBSET Nat /\ c \in Nat
    BY DEF States
  <2> QED BY <2>1, <2>2, GoesOn
<1> QED BY <1>1, <1>2

\* What the tasks of a step have to be.
LEMMA GotoTypes ==
    ASSUME IdentityTypes, NEW r \in Resolvers, NEW t \in Resolving, Goto(r, t)
    PROVE  task' \in [Resolvers -> Resolving]
BY DEF IdentityTypes, Goto

LEMMA Under ==
    ASSUME IdentityTypes, NEW r \in Resolvers, task[r].pc # "idle"
    PROVE  /\ task[r] \in Resolving /\ task[r].p \in Peers
           /\ task[r].c \in Nat /\ task[r].reply \in Nat
           /\ task[r].missing \in SUBSET Nat /\ task[r].left \in SUBSET Nat
           /\ task[r].row \in BOOLEAN /\ task[r].phone \in BOOLEAN
BY DEF IdentityTypes, Resolving, Task

----------------------------------------------------------------------------
(* What the steps do to the mapping and the aliases.                       *)

Saves(p, c) ==
    MaySave(p, c) /\ mapping' = [mapping EXCEPT ![p] = c] /\ UNCHANGED <<aliases, contacts>>

Forgets(p) ==
    /\ ~Live(mapping[p])
    /\ mapping' = [mapping EXCEPT ![p] = 0] /\ UNCHANGED <<aliases, contacts>>

Repairs(r, d) ==
    /\ At(r, "preferring")
    /\ Owners(d) \subseteq {task[r].p} /\ Owners(task[r].c) \subseteq {task[r].p}
    /\ mapping' = [mapping EXCEPT ![task[r].p] = d]
    /\ aliases' = aliases \union {<<task[r].c, task[r].p>>}
    /\ UNCHANGED contacts

RowsMove ==
    \/ UNCHANGED <<mapping, aliases>>
    \/ \E p \in Peers, c \in Nat : Saves(p, c)
    \/ \E p \in Peers : Forgets(p)
    \/ \E r \in Resolvers, d \in Nat : task[r].p \in Peers /\ task[r].c \in Nat /\ Repairs(r, d)

RowTypes == /\ mapping \in [Peers -> Nat]
            /\ anchor \in [Peers -> [made : BOOLEAN, c : Nat]]
            /\ convs \in [Peers -> SUBSET Nat]
            /\ task \in [Resolvers -> Resolving]

LEMMA FinishTypes ==
    ASSUME IdentityTypes, NEW r \in Resolvers, task[r].pc # "idle", NEW c \in Nat,
           NEW anchored \in BOOLEAN, Finish(r, c, anchored)
    PROVE  RowTypes' /\ (UNCHANGED contacts => RowsMove)
<1> DEFINE p == task[r].p
<1>0. p \in Peers
  BY Under
<1>1. CASE MaySave(p, c)
  <2>1. /\ mapping' = [mapping EXCEPT ![p] = c]
        /\ anchor' = IF anchored THEN [anchor EXCEPT ![p].c = c] ELSE anchor
        /\ Goto(r, [Idle EXCEPT !.pc = "done", !.p = p, !.c = c])
        /\ aliases' = aliases /\ convs' = convs
    BY <1>1 DEF Finish
  <2>2. task' \in [Resolvers -> Resolving]
    BY <2>1, <1>0, Ends, GotoTypes
  <2>3. anchor' \in [Peers -> [made : BOOLEAN, c : Nat]] /\ mapping' \in [Peers -> Nat]
    BY <2>1, <1>0 DEF IdentityTypes
  <2>4. UNCHANGED contacts => Saves(p, c)
    BY <2>1, <1>1 DEF Saves
  <2> QED BY <2>1, <2>2, <2>3, <2>4, <1>0 DEF RowTypes, RowsMove, IdentityTypes
<1>2. CASE ~MaySave(p, c)
  <2>1. Goto(r, Idle) /\ UNCHANGED rowVars
    BY <1>2 DEF Finish
  <2>2. task' \in [Resolvers -> Resolving]
    BY <2>1, IdleResolves, GotoTypes
  <2> QED BY <2>1, <2>2 DEF RowTypes, RowsMove, IdentityTypes, rowVars
<1> QED BY <1>1, <1>2

LEMMA InvalidatedTypes ==
    ASSUME IdentityTypes, NEW r \in Resolvers, task[r].pc # "idle",
           ~Live(task[r].c), Invalidated(r)
    PROVE  RowTypes' /\ (UNCHANGED contacts => RowsMove)
<1> DEFINE t == [task[r] EXCEPT !.missing = @ \union {task[r].c}]
           gone == mapping[t.p] = t.c
           left == IF t.pc = "mapped" THEN convs[t.p] ELSE t.left
<1>0. /\ task[r] \in Resolving /\ task[r].p \in Peers /\ task[r].c \in Nat
      /\ task[r].missing \in SUBSET Nat /\ task[r].left \in SUBSET Nat
  BY Under
<1>1. t \in Resolving /\ t.p = task[r].p /\ t.c = task[r].c /\ t.left = task[r].left
  <2>1. task[r].missing \union {task[r].c} \in SUBSET Nat
    BY <1>0
  <2>2. t \in Resolving
    <3> DEFINE m == task[r].missing \union {task[r].c}
    <3>1. m \in SUBSET Nat /\ t = [task[r] EXCEPT !.missing = m]
      BY <2>1
    <3>2. "done" \in States /\ {} \in SUBSET Nat
      BY DEF States
    <3> HIDE DEF m, t
    <3>3. [task[r] EXCEPT !.missing = m] \in Resolving
      BY <1>0, <3>1, <3>2, GoesOn, 0 \in Nat
    <3> QED BY <3>1, <3>3
  <2>3. /\ t.p = task[r].p /\ t.c = task[r].c /\ t.left = task[r].left
    BY <1>0 DEF Resolving, Task
  <2> QED BY <2>2, <2>3
<1>2. left \in SUBSET Nat
  BY <1>0, <1>1 DEF IdentityTypes
<1> HIDE DEF left
<1>3. /\ mapping' = IF gone THEN [mapping EXCEPT ![t.p] = 0] ELSE mapping
      /\ aliases' = aliases /\ anchor' = anchor /\ convs' = convs
  BY DEF Invalidated
<1>4. PICK next \in NextCandidate(t, left) :
          task' = [o \in Resolvers |->
              IF o = r THEN next
              ELSE [task[o] EXCEPT !.row = @ /\ ~(/\ gone /\ task[o].p = t.p
                                                   /\ task[o].pc \in {"mapped", "preferring"})]]
  BY DEF Invalidated, left
<1> HIDE DEF t, gone
<1>5. next \in Resolving
  BY <1>1, <1>2, <1>0, CandidateResolves
<1>6. task' \in [Resolvers -> Resolving]
  <2> DEFINE New(o) == [task[o] EXCEPT !.row = @ /\ ~(/\ gone /\ task[o].p = t.p
                                                   /\ task[o].pc \in {"mapped", "preferring"})]
  <2>1. ASSUME NEW o \in Resolvers
        PROVE  New(o) \in Resolving
    <3>1. task[o] \in Resolving
      BY DEF IdentityTypes
    <3> DEFINE b == task[o].row /\ ~(/\ gone /\ task[o].p = t.p
                                     /\ task[o].pc \in {"mapped", "preferring"})
    <3>2. b \in BOOLEAN
      OBVIOUS
    <3>3. New(o) = [task[o] EXCEPT !.row = b]
      OBVIOUS
    <3> HIDE DEF b
    <3> QED BY <3>1, <3>2, <3>3, Replied, 0 \in Nat
  <2>2. task' = [o \in Resolvers |-> IF o = r THEN next ELSE New(o)]
    BY <1>4
  <2> HIDE DEF New
  <2> QED BY <2>1, <2>2, <1>5
<1>7. mapping' \in [Peers -> Nat]
  BY <1>3, <1>0, <1>1 DEF IdentityTypes
<1>8. gone /\ UNCHANGED contacts => Forgets(task[r].p)
  BY <1>1, <1>3 DEF Forgets, gone
<1> QED BY <1>0, <1>3, <1>6, <1>7, <1>8 DEF RowTypes, RowsMove, IdentityTypes

\* Contacts are in Chatwoot by number.
LEMMA NumbersOfContacts ==
    ASSUME IdentityTypes
    PROVE  DOMAIN contacts \subseteq Nat /\ WithNumber \subseteq Nat
           /\ \A p : CreatedFor(p) \subseteq Nat
BY DEF IdentityTypes, WithNumber, CreatedFor

LEMMA RepairTypes ==
    ASSUME IdentityTypes, NEW r \in Resolvers, At(r, "preferring"), NEW d \in Nat, Repair(r, d)
    PROVE  RowTypes' /\ (UNCHANGED contacts => RowsMove)
<1> DEFINE p == task[r].p
           c == task[r].c
<1>0. p \in Peers /\ c \in Nat
  BY Under DEF At
<1>1. CASE task[r].row /\ Owners(d) \subseteq {p} /\ Owners(c) \subseteq {p}
  <2>1. /\ mapping' = [mapping EXCEPT ![p] = d]
        /\ aliases' = aliases \union {<<c, p>>}
        /\ anchor' = IF anchor[p].made THEN [anchor EXCEPT ![p].c = d] ELSE anchor
        /\ Goto(r, [Idle EXCEPT !.pc = "done", !.p = p, !.c = d])
        /\ convs' = convs
    BY <1>1 DEF Repair
  <2>2. task' \in [Resolvers -> Resolving]
    BY <2>1, <1>0, Ends, GotoTypes
  <2>3. anchor' \in [Peers -> [made : BOOLEAN, c : Nat]] /\ mapping' \in [Peers -> Nat]
    BY <2>1, <1>0 DEF IdentityTypes
  <2>4. UNCHANGED contacts => Repairs(r, d)
    BY <2>1, <1>1 DEF Repairs
  <2> QED BY <2>1, <2>2, <2>3, <2>4, <1>0 DEF RowTypes, RowsMove, IdentityTypes
<1>2. CASE ~(task[r].row /\ Owners(d) \subseteq {p} /\ Owners(c) \subseteq {p})
  <2>1. Goto(r, Idle) /\ UNCHANGED rowVars
    BY <1>2 DEF Repair
  <2>2. task' \in [Resolvers -> Resolving]
    BY <2>1, IdleResolves, GotoTypes
  <2> QED BY <2>1, <2>2 DEF RowTypes, RowsMove, IdentityTypes, rowVars
<1> QED BY <1>1, <1>2

\* A step that leaves the rows and Chatwoot alone.
LEMMA OnlyTask ==
    ASSUME IdentityTypes, NEW r \in Resolvers, NEW t \in Resolving, Goto(r, t), UNCHANGED rowVars
    PROVE  RowTypes' /\ RowsMove
BY GotoTypes DEF RowTypes, RowsMove, IdentityTypes, rowVars

\* A resolution's step keeps the types of the rows.
LEMMA ResolutionRows ==
    ASSUME IdentityTypes, NEW r \in Resolvers, Resolution(r)
    PROVE  RowTypes' /\ RowsMove
<1>1. CASE Started(r)
  <2>1. PICK p \in Peers, phone \in BOOLEAN :
            LET t == [Idle EXCEPT !.p = p, !.phone = phone]
            IN \E next \in IF mapping[p] = 0 THEN NextCandidate(t, convs[p])
                           ELSE {[t EXCEPT !.pc = "mapped", !.c = mapping[p]]} :
                  Goto(r, next)
    BY <1>1 DEF Started
  <2> DEFINE t == [Idle EXCEPT !.p = p, !.phone = phone]
  <2>2. t \in Resolving /\ t.p = p
    BY Ends, 0 \in Nat
  <2>3. PICK next \in IF mapping[p] = 0 THEN NextCandidate(t, convs[p])
                      ELSE {[t EXCEPT !.pc = "mapped", !.c = mapping[p]]} :
                  Goto(r, next)
    BY <2>1
  <2> HIDE DEF t
  <2>4. convs[p] \in SUBSET Nat /\ mapping[p] \in Nat
    BY DEF IdentityTypes
  <2>5. next \in Resolving
    <3>1. [t EXCEPT !.pc = "mapped", !.c = mapping[p]] \in Resolving
      BY <2>2, <2>4, GoesOn DEF States
    <3>2. \A n \in NextCandidate(t, convs[p]) : n \in Resolving
      BY <2>2, <2>4, CandidateResolves
    <3> QED BY <2>3, <3>1, <3>2
  <2> QED BY <1>1, <2>3, <2>5, OnlyTask DEF Started
<1>2. CASE MappedAnswered(r)
  <2>0. task[r].pc # "idle" /\ UNCHANGED contacts
    BY <1>2 DEF MappedAnswered, At, remoteVars
  <2>1. CASE ~Live(task[r].c)
    BY <1>2, <2>0, <2>1, InvalidatedTypes DEF MappedAnswered
  <2>2. CASE Live(task[r].c) /\ task[r].phone /\ ~contacts[task[r].c].phone
    <3>1. [task[r] EXCEPT !.pc = "preferring"] \in Resolving
      BY <2>0, Under, GoesOn DEF States
    <3> QED BY <1>2, <2>2, <3>1, OnlyTask DEF MappedAnswered
  <2>3. CASE Live(task[r].c) /\ ~(task[r].phone /\ ~contacts[task[r].c].phone)
    BY <1>2, <2>0, <2>3, Under, FinishTypes, FALSE \in BOOLEAN DEF MappedAnswered
  <2> QED BY <2>1, <2>2, <2>3
<1>3. CASE Preferred(r)
  <2>0. task[r].pc # "idle" /\ UNCHANGED contacts
    BY <1>3 DEF Preferred, At, remoteVars
  <2>1. CASE WithNumber \ {task[r].c} = {}
    BY <1>3, <2>0, <2>1, Under, FinishTypes, FALSE \in BOOLEAN DEF Preferred
  <2>2. CASE WithNumber \ {task[r].c} # {}
    BY <1>3, <2>0, <2>2, NumbersOfContacts, RepairTypes DEF Preferred
  <2> QED BY <2>1, <2>2
<1>4. CASE CandidateAnswered(r)
  <2>0. task[r].pc # "idle" /\ UNCHANGED contacts
    BY <1>4 DEF CandidateAnswered, At, remoteVars
  <2>1. CASE Live(task[r].c)
    BY <1>4, <2>0, <2>1, Under, FinishTypes, FALSE \in BOOLEAN DEF CandidateAnswered
  <2>2. CASE ~Live(task[r].c)
    BY <1>4, <2>0, <2>2, InvalidatedTypes DEF CandidateAnswered
  <2> QED BY <2>1, <2>2
<1>5. CASE Reserved(r)
  <2> DEFINE t == task[r]
             c == anchor[t.p].c
  <2>0. t.pc # "idle"
    BY <1>5 DEF Reserved, At
  <2>1. t \in Resolving /\ t.p \in Peers
    BY <2>0, Under
  <2>2. c \in Nat /\ {} \in SUBSET Nat
    BY <2>1 DEF IdentityTypes
  <2>3. /\ anchor' = [anchor EXCEPT ![t.p].made = TRUE]
        /\ Goto(r, IF c # 0 /\ c \notin t.missing
                     THEN [t EXCEPT !.pc = "anchor", !.c = c, !.missing = {}]
                     ELSE [t EXCEPT !.pc = "source", !.missing = {}])
        /\ mapping' = mapping /\ aliases' = aliases /\ convs' = convs
    BY <1>5 DEF Reserved
  <2>4. /\ [t EXCEPT !.pc = "anchor", !.c = c, !.missing = {}] \in Resolving
        /\ [t EXCEPT !.pc = "source", !.missing = {}] \in Resolving
    <3> HIDE DEF t, c
    <3> QED BY <2>1, <2>2, GoesOn DEF States
  <2>5. task' \in [Resolvers -> Resolving]
    BY <2>3, <2>4, GotoTypes
  <2>6. anchor' \in [Peers -> [made : BOOLEAN, c : Nat]]
    BY <2>1, <2>3 DEF IdentityTypes
  <2> QED BY <2>3, <2>5, <2>6 DEF RowTypes, RowsMove, IdentityTypes
<1>6. CASE AnchorAnswered(r)
  <2>0. task[r].pc # "idle" /\ UNCHANGED contacts
    BY <1>6 DEF AnchorAnswered, At, remoteVars
  <2>1. CASE Live(task[r].c)
    BY <1>6, <2>0, <2>1, Under, FinishTypes, TRUE \in BOOLEAN DEF AnchorAnswered
  <2>2. CASE ~Live(task[r].c)
    <3>1. [task[r] EXCEPT !.pc = "source", !.c = 0] \in Resolving
      BY <2>0, Under, GoesOn, 0 \in Nat DEF States
    <3> QED BY <1>6, <2>2, <3>1, OnlyTask DEF AnchorAnswered
  <2> QED BY <2>1, <2>2
<1>7. CASE SourceAnswered(r)
  <2>0. task[r].pc # "idle" /\ UNCHANGED contacts
    BY <1>7 DEF SourceAnswered, At, remoteVars
  <2>1. CASE \E c \in CreatedFor(task[r].p) : Finish(r, c, TRUE)
    BY <2>0, <2>1, NumbersOfContacts, FinishTypes, TRUE \in BOOLEAN
  <2>2. CASE ~\E c \in CreatedFor(task[r].p) : Finish(r, c, TRUE)
    <3> DEFINE t == CASE task[r].phone -> [task[r] EXCEPT !.pc =
                                IF At(r, "source") THEN "searching" ELSE "researching"]
                      [] ~task[r].phone /\ At(r, "source") -> [task[r] EXCEPT !.pc = "create"]
                      [] OTHER -> Idle
    <3>1. Goto(r, t) /\ UNCHANGED rowVars
      BY <1>7, <2>2 DEF SourceAnswered
    <3>2. \A pc \in States : [task[r] EXCEPT !.pc = pc] \in Resolving
      BY <2>0, Under, GoesOn
    <3>3. (IF At(r, "source") THEN "searching" ELSE "researching") \in States
          /\ "create" \in States
      BY DEF States
    <3>4. t \in Resolving
      BY <3>2, <3>3, IdleResolves
    <3> QED BY <3>1, <3>4, OnlyTask
  <2> QED BY <2>1, <2>2
<1>8. CASE Searched(r)
  <2>0. task[r].pc # "idle" /\ UNCHANGED contacts
    BY <1>8 DEF Searched, At, remoteVars
  <2>1. CASE \E c \in WithNumber : Finish(r, c, TRUE)
    BY <2>0, <2>1, NumbersOfContacts, FinishTypes, TRUE \in BOOLEAN
  <2>2. CASE ~\E c \in WithNumber : Finish(r, c, TRUE)
    <3> DEFINE t == IF At(r, "searching") THEN [task[r] EXCEPT !.pc = "create"] ELSE Idle
    <3>1. Goto(r, t) /\ UNCHANGED rowVars
      BY <1>8, <2>2 DEF Searched
    <3>2. t \in Resolving
      BY <2>0, Under, GoesOn, IdleResolves DEF States
    <3> QED BY <3>1, <3>2, OnlyTask
  <2> QED BY <2>1, <2>2
<1>9. CASE CreateSent(r)
  <2>0. task[r].pc # "idle"
    BY <1>9 DEF CreateSent, At
  <2>1. [task[r] EXCEPT !.pc = "creating", !.reply = 0] \in Resolving
    BY <2>0, Under, GoesOn, 0 \in Nat DEF States
  <2> QED BY <1>9, <2>1, OnlyTask DEF CreateSent
<1>10. CASE CreateAnswered(r)
  <2>0. task[r].pc # "idle" /\ UNCHANGED contacts
    BY <1>10 DEF CreateAnswered, At, remoteVars
  <2> QED BY <1>10, <2>0, Under, FinishTypes, TRUE \in BOOLEAN DEF CreateAnswered
<1>11. CASE CreateFailed(r)
  <2>0. task[r].pc # "idle"
    BY <1>11 DEF CreateFailed, At
  <2>1. [task[r] EXCEPT !.pc = "reconciling", !.reply = 0] \in Resolving
    BY <2>0, Under, GoesOn, 0 \in Nat DEF States
  <2> QED BY <1>11, <2>1, OnlyTask DEF CreateFailed
<1>12. CASE Returned(r)
  <2>0. task[r].p \in Peers /\ task[r].c \in Nat
    BY <1>12, Under DEF Returned, At
  <2>1. /\ convs' \in {convs, [convs EXCEPT ![task[r].p] = @ \union {task[r].c}]}
        /\ Goto(r, Idle)
        /\ mapping' = mapping /\ aliases' = aliases /\ anchor' = anchor
    BY <1>12 DEF Returned
  <2>2. convs' \in [Peers -> SUBSET Nat]
    <3> DEFINE new == convs[task[r].p] \union {task[r].c}
    <3>1. convs \in [Peers -> SUBSET Nat] /\ new \in SUBSET Nat
      BY <2>0 DEF IdentityTypes
    <3>2. convs' = convs \/ convs' = [convs EXCEPT ![task[r].p] = new]
      BY <2>1
    <3> HIDE DEF new
    <3> QED BY <2>0, <3>1, <3>2
  <2>3. task' \in [Resolvers -> Resolving]
    BY <2>1, IdleResolves, GotoTypes
  <2> QED BY <2>1, <2>2, <2>3 DEF RowTypes, RowsMove, IdentityTypes
<1>13. CASE ResolutionFails(r)
  BY <1>13, IdleResolves, OnlyTask DEF ResolutionFails
<1> QED BY <1>1, <1>2, <1>3, <1>4, <1>5, <1>6, <1>7, <1>8, <1>9, <1>10, <1>11, <1>12, <1>13
        DEF Resolution

\* A resolution sends at most a creation for its peer, and marks its own when
\* it gives up.
LEMMA ResolutionRequests ==
    ASSUME IdentityTypes, NEW r \in Resolvers, Resolution(r)
    PROVE  /\ UNCHANGED contacts
           /\ \A q \in requests' : q.p \in Peers /\ q.key = q.p /\ q.phone \in BOOLEAN
<1>1. CASE CreateSent(r)
  <2>1. task[r].p \in Peers /\ task[r].phone \in BOOLEAN
    BY <1>1, Under DEF CreateSent, At
  <2> QED BY <1>1, <2>1 DEF CreateSent, SourceId, IdentityTypes
<1>2. CASE CreateFailed(r) \/ ResolutionFails(r)
  <2> DEFINE Nobodys(q) == IF q.r = r THEN [q EXCEPT !.r = "nobody"] ELSE q
  <2>1. requests' = {Nobodys(q) : q \in requests} /\ contacts' = contacts
    BY <1>2 DEF CreateFailed, ResolutionFails
  <2>2. \A q : Nobodys(q).p = q.p /\ Nobodys(q).key = q.key /\ Nobodys(q).phone = q.phone
    OBVIOUS
  <2> HIDE DEF Nobodys
  <2> QED BY <2>1, <2>2 DEF IdentityTypes
<1>3. CASE UNCHANGED remoteVars
  BY <1>3 DEF remoteVars, IdentityTypes
<1> QED BY <1>1, <1>2, <1>3 DEF Resolution, Started, MappedAnswered, Preferred, CandidateAnswered,
           Reserved, AnchorAnswered, SourceAnswered, Searched, CreateAnswered, Returned

----------------------------------------------------------------------------
(* What Chatwoot and its agents do.                                        *)

\* A contact more, of another peer than the live ones, or one changed, never
\* back to life.
Grows(b, phone) ==
    /\ b \in Peers => CreatedFor(b) = {}
    /\ contacts' = Append(contacts, [live |-> TRUE, phone |-> phone, by |-> b])

Changes(c, live, phone) ==
    /\ live => contacts[c].live
    /\ contacts' = [contacts EXCEPT ![c] = [live |-> live, phone |-> phone, by |-> contacts[c].by]]

LEMMA ContactsGrow ==
    ASSUME IdentityTypes, OneCreated, NEW b \in Peers \union {"agent"}, NEW phone \in BOOLEAN,
           Grows(b, phone)
    PROVE  contacts' \in Seq(Contact) /\ OneCreated'
<1> DEFINE new == [live |-> TRUE, phone |-> phone, by |-> b]
           n == Len(contacts)
<1>1. contacts \in Seq(Contact) /\ new \in Contact /\ contacts' = Append(contacts, new)
  BY DEF IdentityTypes, Contact, Grows
<1>2. /\ contacts' \in Seq(Contact)
      /\ DOMAIN contacts' = 1 .. n + 1 /\ DOMAIN contacts = 1 .. n /\ n \in Nat
      /\ \A c \in 1 .. n : contacts'[c] = contacts[c]
      /\ contacts'[n + 1] = new
  <2> HIDE DEF new
  <2> QED BY <1>1, AppendProperties, LenProperties
<1>3. new.by = b /\ new.live
  OBVIOUS
<1>4. \A c \in 1 .. n : ~(contacts[c].live /\ contacts[c].by = b /\ b \in Peers)
  BY <1>2 DEF Grows, CreatedFor
<1> HIDE DEF new, n
<1>5. ASSUME NEW c \in DOMAIN contacts', NEW d \in DOMAIN contacts',
             contacts'[c].live, contacts'[d].live,
             contacts'[c].by \in Peers, contacts'[c].by = contacts'[d].by
      PROVE  c = d
  <2>1. CASE c \in 1 .. n /\ d \in 1 .. n
    BY <1>2, <1>5, <2>1 DEF OneCreated
  <2>2. CASE c = n + 1 /\ d \in 1 .. n
    BY <1>2, <1>3, <1>4, <1>5, <2>2
  <2>3. CASE d = n + 1 /\ c \in 1 .. n
    BY <1>2, <1>3, <1>4, <1>5, <2>3
  <2> QED BY <1>2, <2>1, <2>2, <2>3
<1> QED BY <1>2, <1>5 DEF OneCreated

LEMMA ContactsChange ==
    ASSUME IdentityTypes, OneCreated, NEW c \in DOMAIN contacts, NEW live \in BOOLEAN,
           NEW phone \in BOOLEAN, Changes(c, live, phone)
    PROVE  contacts' \in Seq(Contact) /\ OneCreated'
<1> DEFINE new == [live |-> live, phone |-> phone, by |-> contacts[c].by]
<1>1. contacts \in Seq(Contact) /\ contacts[c] \in Contact
  BY ElementOfSeq, LenProperties DEF IdentityTypes
<1>2. /\ new \in Contact /\ new.by = contacts[c].by /\ (new.live => contacts[c].live)
      /\ contacts' = [contacts EXCEPT ![c] = new]
  BY <1>1 DEF Contact, Changes
<1> HIDE DEF new
<1>3. contacts' \in Seq(Contact) /\ DOMAIN contacts' = DOMAIN contacts
  BY <1>1, <1>2, ExceptSeq, LenProperties
<1>4. \A d \in DOMAIN contacts : /\ contacts'[d].by = contacts[d].by
                                 /\ contacts'[d].live => contacts[d].live
  BY <1>1, <1>2, <1>3
<1> QED BY <1>3, <1>4 DEF OneCreated

LEMMA FieldChanges ==
    ASSUME NEW a \in Contact, NEW b \in BOOLEAN
    PROVE  /\ [a EXCEPT !.live = b] = [live |-> b, phone |-> a.phone, by |-> a.by]
           /\ [a EXCEPT !.phone = b] = [live |-> a.live, phone |-> b, by |-> a.by]
BY DEF Contact

LEMMA ChatwootTypes ==
    ASSUME IdentityTypes, OneCreated, ChatwootCreates
    PROVE  IdentityTypes' /\ OneCreated' /\ UNCHANGED <<mapping, aliases>>
<1>1. PICK q \in requests :
          /\ requests' = requests \ {q}
          /\ IF Accepts(q)
             THEN /\ contacts' = Append(contacts, [live |-> TRUE, phone |-> q.phone, by |-> q.p])
                  /\ task' = IF q.r \in Resolvers
                             THEN [task EXCEPT ![q.r].reply = Len(contacts) + 1] ELSE task
             ELSE UNCHANGED <<contacts, task>>
  BY DEF ChatwootCreates
<1>2. q.p \in Peers /\ q.key = q.p /\ q.phone \in BOOLEAN
  BY DEF IdentityTypes
<1>3. contacts' \in Seq(Contact) /\ OneCreated'
  <2>1. CASE Accepts(q)
    <3>1. Grows(q.p, q.phone)
      BY <1>1, <1>2, <2>1 DEF Grows, Accepts
    <3> QED BY <1>2, <3>1, ContactsGrow
  <2>2. CASE ~Accepts(q)
    BY <1>1, <2>2 DEF OneCreated, IdentityTypes
  <2> QED BY <2>1, <2>2
<1>4. task' \in [Resolvers -> Resolving]
  <2>1. CASE Accepts(q) /\ q.r \in Resolvers
    <3>1. task \in [Resolvers -> Resolving] /\ task[q.r] \in Resolving
      BY <2>1 DEF IdentityTypes
    <3>2. Len(contacts) + 1 \in Nat
      BY LenProperties DEF IdentityTypes
    <3> DEFINE n == Len(contacts) + 1
               to == [task[q.r] EXCEPT !.reply = n]
    <3>3. task' = [task EXCEPT ![q.r] = to]
      BY <1>1, <2>1
    <3>4. to \in Resolving
      <4> HIDE DEF n
      <4> QED BY <3>1, <3>2, Replied, TRUE \in BOOLEAN DEF n
    <3> HIDE DEF to
    <3> QED BY <3>1, <3>3, <3>4, <2>1
  <2>2. CASE ~(Accepts(q) /\ q.r \in Resolvers)
    BY <1>1, <2>2 DEF IdentityTypes
  <2> QED BY <2>1, <2>2
<1> QED BY <1>1, <1>3, <1>4 DEF IdentityTypes, ChatwootCreates, rowVars

LEMMA AgentTypes ==
    ASSUME ContactAssumption, IdentityTypes, OneCreated, AgentEdits
    PROVE  /\ IdentityTypes' /\ OneCreated' /\ UNCHANGED <<mapping, aliases>>

<1>1. contacts' \in Seq(Contact) /\ OneCreated'
  <2>1. CASE \E c \in DOMAIN contacts :
             /\ contacts[c].live
             /\ \/ contacts' = [contacts EXCEPT ![c].live = FALSE]
                \/ WithNumber = {} /\ contacts' = [contacts EXCEPT ![c].phone = TRUE]
                \/ contacts' = [contacts EXCEPT ![c].phone = FALSE]
    <3>1. PICK c \in DOMAIN contacts :
             /\ contacts[c].live
             /\ \/ contacts' = [contacts EXCEPT ![c].live = FALSE]
                \/ WithNumber = {} /\ contacts' = [contacts EXCEPT ![c].phone = TRUE]
                \/ contacts' = [contacts EXCEPT ![c].phone = FALSE]
      BY <2>1
    <3>2. contacts[c] \in Contact
      BY ElementOfSeq, LenProperties DEF IdentityTypes
    <3>3. contacts[c].phone \in BOOLEAN
      BY <3>2 DEF Contact
    <3>4. /\ [contacts[c] EXCEPT !.live = FALSE]
               = [live |-> FALSE, phone |-> contacts[c].phone, by |-> contacts[c].by]
          /\ [contacts[c] EXCEPT !.phone = TRUE]
               = [live |-> contacts[c].live, phone |-> TRUE, by |-> contacts[c].by]
          /\ [contacts[c] EXCEPT !.phone = FALSE]
               = [live |-> contacts[c].live, phone |-> FALSE, by |-> contacts[c].by]
      BY <3>2, FieldChanges, TRUE \in BOOLEAN, FALSE \in BOOLEAN
    <3>5. \E phone \in BOOLEAN : Changes(c, FALSE, phone) \/ Changes(c, contacts[c].live, phone)
      BY <3>1, <3>3, <3>4 DEF Changes
    <3>6. FALSE \in BOOLEAN /\ contacts[c].live \in BOOLEAN
      BY <3>2 DEF Contact
    <3> QED BY <3>5, <3>6, ContactsChange
  <2>2. CASE contacts' = Append(contacts, [live |-> TRUE, phone |-> TRUE, by |-> "agent"])
    <3>1. Grows("agent", TRUE)
      BY <2>2 DEF Grows, ContactAssumption
    <3> QED BY <3>1, ContactsGrow, TRUE \in BOOLEAN
  <2> QED BY <2>1, <2>2 DEF AgentEdits
<1>2. requests' = requests /\ task' = task /\ UNCHANGED rowVars
  BY DEF AgentEdits
<1> QED BY <1>1, <1>2 DEF IdentityTypes, rowVars

----------------------------------------------------------------------------
(* Whose a contact is.                                                     *)

\* Who owns a contact after a mapping was written, or written and an alias
\* added.
LEMMA OwnersSaved ==
    ASSUME mapping \in [Peers -> Nat], NEW p \in Peers, NEW d \in Nat,
           mapping' = [mapping EXCEPT ![p] = d], aliases' = aliases,
           NEW c, NEW q
    PROVE  q \in Owners(c)' <=> /\ q \in Peers
                                /\ \/ q = p /\ d = c
                                   \/ q # p /\ mapping[q] = c
                                   \/ <<c, q>> \in aliases
BY DEF Owners

LEMMA OwnersRepaired ==
    ASSUME mapping \in [Peers -> Nat], NEW p \in Peers, NEW d \in Nat, NEW e \in Nat,
           mapping' = [mapping EXCEPT ![p] = d], aliases' = aliases \union {<<e, p>>},
           NEW c, NEW q
    PROVE  q \in Owners(c)' <=> /\ q \in Peers
                                /\ \/ q = p /\ d = c
                                   \/ q # p /\ mapping[q] = c
                                   \/ <<c, q>> \in aliases
                                   \/ c = e /\ q = p
BY DEF Owners

\* A step loses a contact to nobody but a repair that found it mapped when it
\* looked for another one; and never gives it to a second peer.
LEMMA OwnersStep ==
    ASSUME mapping \in [Peers -> Nat], OneOwner, RowsMove, UNCHANGED contacts
    PROVE  /\ OneOwner'
           /\ \A c \in Nat \ {0} : \A p \in Owners(c) :
                 Live(c) => \/ Owners(c)' = {p}
                            \/ /\ Owners(c)' = {}
                               /\ \E r \in Resolvers :
                                     At(r, "preferring") /\ task[r].p = p /\ task[r].c # c
<1>1. CASE UNCHANGED <<mapping, aliases>>
  <2>1. \A c : Owners(c)' = Owners(c)
    BY <1>1 DEF Owners
  <2>2. OneOwner'
    BY <2>1 DEF OneOwner
  <2>3. \A c \in Nat \ {0} : \A p \in Owners(c) : Owners(c)' = {p}
    BY <2>1 DEF OneOwner
  <2> QED BY <2>2, <2>3
<1>2. CASE \E p \in Peers, d \in Nat : Saves(p, d)
  <2>1. PICK p \in Peers, d \in Nat : Saves(p, d)
    BY <1>2
  <2>2. \A c, q : q \in Owners(c)' <=> /\ q \in Peers
                                       /\ \/ q = p /\ d = c
                                          \/ q # p /\ mapping[q] = c
                                          \/ <<c, q>> \in aliases
    BY <2>1, OwnersSaved DEF Saves
  <2>3. Owners(d) \subseteq {p} /\ mapping[p] \in {0, d}
    BY <2>1 DEF Saves, MaySave
  <2>4. ASSUME NEW c \in Nat \ {0}
        PROVE  Owners(c)' = IF c = d THEN {p} ELSE Owners(c)
    <3>1. CASE c = d
      BY <2>2, <2>3, <3>1 DEF Owners
    <3>2. CASE c # d
      BY <2>2, <2>3, <2>4, <3>2 DEF Owners
    <3> QED BY <3>1, <3>2
  <2>5. OneOwner'
    BY <2>4 DEF OneOwner
  <2>6. \A c \in Nat \ {0} : \A q \in Owners(c) : Owners(c)' = {q}
    BY <2>3, <2>4 DEF OneOwner
  <2> QED BY <2>5, <2>6
<1>3. CASE \E p \in Peers : Forgets(p)
  <2>1. PICK p \in Peers : Forgets(p)
    BY <1>3
  <2>2. \A c, q : q \in Owners(c)' <=> /\ q \in Peers
                                       /\ \/ q = p /\ 0 = c
                                          \/ q # p /\ mapping[q] = c
                                          \/ <<c, q>> \in aliases
    BY <2>1, OwnersSaved, 0 \in Nat DEF Forgets
  <2>3. \A c \in Nat \ {0} : Owners(c)' \subseteq Owners(c)
    BY <2>2 DEF Owners
  <2>4. \A c \in Nat \ {0} : Live(c) => Owners(c)' = Owners(c)
    BY <2>1, <2>2 DEF Owners, Forgets
  <2>5. OneOwner'
    BY <2>3 DEF OneOwner
  <2>6. \A c \in Nat \ {0} : \A q \in Owners(c) : Live(c) => Owners(c)' = {q}
    BY <2>4 DEF OneOwner
  <2> QED BY <2>5, <2>6
<1>4. CASE \E r \in Resolvers, d \in Nat : task[r].p \in Peers /\ task[r].c \in Nat /\ Repairs(r, d)
  <2>1. PICK r \in Resolvers, d \in Nat : task[r].p \in Peers /\ task[r].c \in Nat /\ Repairs(r, d)
    BY <1>4
  <2> DEFINE p == task[r].p
             e == task[r].c
  <2>2. /\ p \in Peers /\ e \in Nat /\ At(r, "preferring")
        /\ Owners(d) \subseteq {p} /\ Owners(e) \subseteq {p}
        /\ mapping' = [mapping EXCEPT ![p] = d] /\ aliases' = aliases \union {<<e, p>>}
    BY <2>1 DEF Repairs
  <2>3. \A c, q : q \in Owners(c)' <=> /\ q \in Peers
                                       /\ \/ q = p /\ d = c
                                          \/ q # p /\ mapping[q] = c
                                          \/ <<c, q>> \in aliases
                                          \/ c = e /\ q = p
    <3> HIDE DEF p, e
    <3> QED BY <2>2, OwnersRepaired
  <2> HIDE DEF p, e
  <2>4. ASSUME NEW c \in Nat \ {0}
        PROVE  /\ c \in {d, e} => Owners(c)' = {p}
               /\ c \notin {d, e} => Owners(c)' \subseteq Owners(c)
    BY <2>2, <2>3 DEF Owners
  <2>5. ASSUME NEW c \in Nat \ {0}, c \notin {d, e}, NEW q \in Owners(c)
        PROVE  Owners(c)' = {q} \/ (Owners(c)' = {} /\ q = p)
    <3>1. Owners(c) = {q}
      BY <2>5 DEF OneOwner
    <3>2. q # p => q \in Owners(c)'
      BY <2>3, <2>5 DEF Owners
    <3> QED BY <2>4, <2>5, <3>1, <3>2
  <2>6. OneOwner'
    <3>1. ASSUME NEW c \in Nat \ {0}
          PROVE  \A q1, q2 \in Owners(c)' : q1 = q2
      <4>1. CASE c \in {d, e}
        BY <2>4, <4>1
      <4>2. CASE c \notin {d, e}
        BY <2>4, <4>2 DEF OneOwner
      <4> QED BY <4>1, <4>2
    <3> QED BY <3>1 DEF OneOwner
  <2>7. ASSUME NEW c \in Nat \ {0}, NEW q \in Owners(c)
        PROVE  \/ Owners(c)' = {q}
               \/ /\ Owners(c)' = {}
                  /\ At(r, "preferring") /\ task[r].p = q /\ task[r].c # c
    <3>1. CASE c \in {d, e}
      BY <2>2, <2>4, <2>7, <3>1
    <3>2. CASE c \notin {d, e}
      BY <2>2, <2>5, <2>7, <3>2 DEF p, e
    <3> QED BY <3>1, <3>2
  <2> QED BY <2>6, <2>7
<1> QED BY <1>1, <1>2, <1>3, <1>4 DEF RowsMove

----------------------------------------------------------------------------
(* The invariant, and the theorems.                                        *)

LEMMA IdentityInvInit == IdentityInit => IdentityInv
<1> SUFFICES ASSUME IdentityInit PROVE IdentityInv
  OBVIOUS
<1>1. contacts \in Seq(Contact) /\ DOMAIN contacts = {}
  BY EmptySeq, LenProperties DEF IdentityInit
<1>2. anchor \in [Peers -> [made : BOOLEAN, c : Nat]]
  <2>1. [made |-> FALSE, c |-> 0] \in [made : BOOLEAN, c : Nat]
    OBVIOUS
  <2> DEFINE a == [made |-> FALSE, c |-> 0]
  <2>2. anchor = [p \in Peers |-> a]
    BY DEF IdentityInit
  <2> HIDE DEF a
  <2> QED BY <2>1, <2>2 DEF a
<1>3. task \in [Resolvers -> Resolving]
  BY IdleResolves DEF IdentityInit
<1>4. convs \in [Peers -> SUBSET Nat] /\ mapping \in [Peers -> Nat] /\ requests = {}
  BY DEF IdentityInit
<1>5. IdentityTypes
  BY <1>1, <1>2, <1>3, <1>4 DEF IdentityTypes
<1>6. OneCreated
  BY <1>1 DEF OneCreated
<1>7. OneOwner
  BY DEF OneOwner, Owners, IdentityInit
<1> QED BY <1>5, <1>6, <1>7 DEF IdentityInv

LEMMA IdentityInvStep ==
    ASSUME ContactAssumption, IdentityInv, [IdentityNext]_identityVars
    PROVE  IdentityInv'
<1> USE DEF IdentityInv
<1>1. CASE \E r \in Resolvers : Resolution(r)
  <2>1. PICK r \in Resolvers : Resolution(r)
    BY <1>1
  <2>2. RowTypes' /\ RowsMove /\ UNCHANGED contacts
        /\ \A q \in requests' : q.p \in Peers /\ q.key = q.p /\ q.phone \in BOOLEAN
    BY <2>1, ResolutionRows, ResolutionRequests
  <2>3. IdentityTypes'
    BY <2>2 DEF RowTypes, IdentityTypes
  <2>4. OneOwner'
    BY <2>2, OwnersStep DEF IdentityTypes
  <2>5. OneCreated'
    BY <2>2 DEF OneCreated
  <2> QED BY <2>3, <2>4, <2>5
<1>2. CASE ChatwootCreates \/ AgentEdits
  <2>1. IdentityTypes' /\ OneCreated' /\ UNCHANGED <<mapping, aliases>>
    BY <1>2, ChatwootTypes, AgentTypes
  <2>2. OneOwner'
    BY <2>1 DEF OneOwner, Owners
  <2> QED BY <2>1, <2>2
<1>3. CASE UNCHANGED identityVars
  BY <1>3 DEF identityVars, IdentityTypes, OneCreated, OneOwner, Owners
<1> QED BY <1>1, <1>2, <1>3 DEF IdentityNext

LEMMA InvHasOneContact ==
    ASSUME IdentityInv
    PROVE  OneContactPerPeer
BY DEF IdentityInv, OneCreated, CreatedFor, OneContactPerPeer

LEMMA StepKeepsPeer ==
    ASSUME ContactAssumption, IdentityInv, [IdentityNext]_identityVars
    PROVE  KeepsPeer
<1> SUFFICES ASSUME NEW c \in DOMAIN contacts, NEW p \in Peers,
                    contacts'[c].live, p \in Owners(c)
             PROVE  \/ Owners(c)' = {p}
                    \/ /\ Owners(c)' = {}
                       /\ \E r \in Resolvers :
                             At(r, "preferring") /\ task[r].p = p /\ task[r].c # c
  BY DEF KeepsPeer
<1>1. c \in Nat \ {0} /\ Owners(c) = {p}
  <2>1. c \in Nat \ {0}
    BY LenProperties DEF IdentityInv, IdentityTypes
  <2> QED BY <2>1 DEF IdentityInv, OneOwner
<1>2. CASE \E r \in Resolvers : Resolution(r)
  <2>1. RowsMove /\ UNCHANGED contacts
    BY <1>2, ResolutionRows, ResolutionRequests DEF IdentityInv
  <2>2. Live(c)
    BY <2>1 DEF Live
  <2>3. mapping \in [Peers -> Nat] /\ OneOwner
    BY DEF IdentityInv, IdentityTypes
  <2>4. \/ Owners(c)' = {p}
        \/ /\ Owners(c)' = {}
           /\ \E r \in Resolvers : At(r, "preferring") /\ task[r].p = p /\ task[r].c # c
    BY <1>1, <2>1, <2>2, <2>3, OwnersStep
  <2> QED BY <2>4
<1>3. CASE ChatwootCreates \/ AgentEdits \/ UNCHANGED identityVars
  <2>1. UNCHANGED <<mapping, aliases>>
    BY <1>3 DEF ChatwootCreates, AgentEdits, rowVars, identityVars
  <2>2. Owners(c)' = Owners(c)
    BY <2>1 DEF Owners
  <2> QED BY <1>1, <2>2
<1> QED BY <1>2, <1>3 DEF IdentityNext

\* The values keep their types: tasks that are under way are for a peer, and a
\* creation bears its peer's identifier (contact_identity.py, resolve).
THEOREM IdentityStaysTyped == ContactAssumption => (IdentitySpec => []IdentityTypes)
<1> SUFFICES ASSUME ContactAssumption PROVE IdentitySpec => []IdentityTypes
  OBVIOUS
<1>1. IdentityInv => IdentityTypes
  BY DEF IdentityInv
<1>2. ContactAssumption
  OBVIOUS
<1> QED BY <1>1, IdentityInvInit, IdentityInvStep, <1>2, PTL DEF IdentitySpec

\* However replies are lost or late and resolutions overlap, Chatwoot has at
\* most one live contact that the bridge created for a peer
\* (contact_identity.py, _reserve and create_contact with the anchor's source_id).
THEOREM OneContactEver == ContactAssumption => (IdentitySpec => []OneContactPerPeer)
<1> SUFFICES ASSUME ContactAssumption PROVE IdentitySpec => []OneContactPerPeer
  OBVIOUS
<1>1. IdentityInv /\ [IdentityNext]_identityVars => IdentityInv'
  BY IdentityInvStep
<1> QED BY <1>1, IdentityInvInit, InvHasOneContact, PTL DEF IdentitySpec

\* A contact stays the peer's whose it is while Chatwoot has it, but for a
\* repair that overlapped another one (contact_mapping repository, save and
\* save_verified_alias).
THEOREM ContactsKeepPeer ==
    ContactAssumption => (IdentitySpec => [][KeepsPeer]_identityVars)
<1> SUFFICES ASSUME ContactAssumption PROVE IdentitySpec => [][KeepsPeer]_identityVars
  OBVIOUS
<1>1. IdentityInv /\ [IdentityNext]_identityVars => IdentityInv' /\ KeepsPeer
  BY IdentityInvStep, StepKeepsPeer
<1> QED BY <1>1, IdentityInvInit, PTL DEF IdentitySpec

----------------------------------------------------------------------------
(* Whom answers go to (PhoneDestination), with the mappings and the aliases *)
(* of the contacts above.                                                  *)

CONSTANTS Contacts, Numbers, None, Remembers, MaxMoves, MaxEdits, MaxAnswers, MaxEvents
VARIABLES owner, number, born, cache, conv, job, sent, wrote, had, trusted, spent

Phone == INSTANCE PhoneDestination

\* The instance's Cardinality is that of the theorems on finite sets.
LEMMA PhoneCardinality == \A S : Phone!Cardinality(S) = Cardinality(S)
BY DEF Phone!Cardinality, Cardinality

Jobs == [pc : {"idle", "resolve", "verify", "map", "send"},
         n : Numbers \union {None}, p : Peers \union {None}]

PhoneTypes ==
    /\ owner \in [Numbers -> Peers]
    /\ number \in [Contacts -> Numbers \union {None}]
    /\ mapping \in [Peers -> Contacts \union {None}]
    /\ aliases \subseteq Contacts \X Peers
    /\ cache \in [Numbers -> Peers \union {None}]
    /\ conv \in [Contacts -> Peers \union {None}]
    /\ job \in [Contacts -> Jobs]
    /\ \A c \in Contacts : /\ job[c].pc = "resolve" => job[c].n \in Numbers
                           /\ job[c].pc = "verify" => job[c].n \in Numbers /\ job[c].p \in Peers

Known == wrote \union had \union trusted

\* A contact is one peer's, and became his by what the histories name; whatever
\* holds a peer for a contact, the row of its conversation, a delivery under way
\* or an answer that was sent, holds the one the contact belongs to.
OwnersInv ==
    /\ \A c \in Contacts : \A p, q \in Phone!Owners(c) : p = q
    /\ \A c \in Contacts : \A p \in Phone!Owners(c) : <<c, p>> \in Known
    /\ \A c \in Contacts : conv[c] # None => conv[c] \in Phone!Owners(c)
    /\ \A c \in Contacts : job[c].pc \in {"map", "send"} => job[c].p \in Phone!Owners(c)
    /\ \A m \in sent : \E c \in Contacts : \E p \in Phone!Owners(c) : m = <<c, p>>

PhoneInv == PhoneTypes /\ OwnersInv

LEMMA PhoneInvInit == ASSUME Phone!PhoneAssumption, Phone!PhoneInit PROVE PhoneInv
<1>1. None \notin Contacts
    BY DEF Phone!PhoneAssumption
<1>2. \A c \in Contacts : Phone!Owners(c) = {}
    BY <1>1 DEF Phone!PhoneInit, Phone!Owners
<1>3. PhoneTypes
    BY DEF Phone!PhoneInit, PhoneTypes, Jobs, Phone!NoJob
<1> QED BY <1>2, <1>3 DEF PhoneInv, OwnersInv, Phone!PhoneInit, Phone!NoJob

\* A delivery moves, and goes on to the peer the contact belongs to.
Moves(c) ==
    /\ job' \in [Contacts -> Jobs]
    /\ \A d \in Contacts \ {c} : job'[d] = job[d]
    /\ job'[c].pc = "resolve" => job'[c].n \in Numbers
    /\ job'[c].pc = "verify" => job'[c].n \in Numbers /\ job'[c].p \in Peers
    /\ job'[c].pc \in {"map", "send"} => job'[c].p \in Phone!Owners(c)'

\* The contact stays whose it is, or becomes the peer's.
Keeps(c, p) ==
    /\ mapping' \in [Peers -> Contacts \union {None}] /\ aliases' \subseteq Contacts \X Peers
    /\ \A d \in Contacts : Phone!Owners(d) \subseteq Phone!Owners(d)'
    /\ \A d \in Contacts \ {c} : Phone!Owners(d)' = Phone!Owners(d)
    /\ Phone!Owners(c)' = Phone!Owners(c) \/ (Phone!Owners(c)' = {p} /\ <<c, p>> \in Known')

LEMMA RoutesStep ==
    ASSUME PhoneInv, NEW c \in Contacts, NEW p, Keeps(c, p), Moves(c),
           owner' = owner, number' = number, Known \subseteq Known',
           cache' \in [Numbers -> Peers \union {None}], UNCHANGED <<conv, sent>>
    PROVE  PhoneInv'
<1>1. PhoneTypes /\ OwnersInv
    BY DEF PhoneInv
<1>2. PhoneTypes'
    BY <1>1 DEF PhoneTypes, Keeps, Moves
<1>3. \A d \in Contacts : \A q, r \in Phone!Owners(d)' : q = r
    BY <1>1 DEF OwnersInv, Keeps
<1>4. ASSUME NEW d \in Contacts, NEW q \in Phone!Owners(d)' PROVE <<d, q>> \in Known'
    <2>1. q \in Phone!Owners(d) \/ (d = c /\ q = p /\ <<c, p>> \in Known')
        BY <1>4 DEF Keeps
    <2>2. q \in Phone!Owners(d) => <<d, q>> \in Known
        BY <1>1 DEF OwnersInv
    <2> QED BY <2>1, <2>2
<1>5. \A d \in Contacts : conv[d] # None => conv[d] \in Phone!Owners(d)'
    BY <1>1 DEF OwnersInv, Keeps
<1>6. \A d \in Contacts : job'[d].pc \in {"map", "send"} => job'[d].p \in Phone!Owners(d)'
    BY <1>1 DEF OwnersInv, Keeps, Moves
<1>7. \A m \in sent : \E d \in Contacts : \E q \in Phone!Owners(d)' : m = <<d, q>>
    BY <1>1 DEF OwnersInv, Keeps
<1> QED BY <1>2, <1>3, <1>4, <1>5, <1>6, <1>7 DEF PhoneInv, OwnersInv

LEMMA GotoIs ==
    ASSUME PhoneTypes, NEW c \in Contacts, NEW pc \in {"idle", "resolve", "verify", "map", "send"},
           NEW n \in Numbers \union {None}, NEW p \in Peers \union {None}, Phone!Goto(c, pc, n, p)
    PROVE  /\ job' \in [Contacts -> Jobs]
           /\ \A d \in Contacts \ {c} : job'[d] = job[d]
           /\ job'[c].pc = pc /\ job'[c].n = n /\ job'[c].p = p
BY DEF Phone!Goto, PhoneTypes, Jobs

LEMMA FailsIs ==
    ASSUME PhoneTypes, NEW c \in Contacts, Phone!Fails(c) PROVE Moves(c)
BY DEF Phone!Fails, PhoneTypes, Jobs, Phone!NoJob, Moves

LEMMA AliasWantedMoves ==
    ASSUME PhoneTypes, NEW c \in Contacts, NEW n \in Numbers \union {None}, NEW p \in Peers,
           UNCHANGED <<mapping, aliases>>, Phone!AliasWanted(c, n, p)
    PROVE  Moves(c)
<1>1. UNCHANGED Phone!Owners(c)
    BY DEF Phone!Owners
<1>2. CASE <<c, p>> \in aliases /\ Phone!Goto(c, "map", n, p)
    <2>1. p \in Phone!Owners(c)
        BY <1>2 DEF Phone!Owners
    <2> QED BY <1>1, <1>2, <2>1, GotoIs DEF Moves
<1>3. CASE n # None /\ Phone!Goto(c, "verify", n, p)
    BY <1>3, GotoIs DEF Moves
<1>4. CASE Phone!Fails(c)
    BY <1>4, FailsIs
<1> QED BY <1>2, <1>3, <1>4 DEF Phone!AliasWanted

\* A contact of nobody else's becomes the peer's.
LEMMA SavedKeeps ==
    ASSUME Phone!PhoneAssumption, PhoneTypes, NEW c \in Contacts, NEW p \in Peers, mapping[p] = None,
           Phone!Saved(c, p), aliases' = aliases, <<c, p>> \in Known'
    PROVE  Keeps(c, p) /\ p \in Phone!Owners(c)'
<1>1. /\ Phone!Owners(c) \subseteq {p} /\ mapping' = [mapping EXCEPT ![p] = c] /\ None \notin Contacts
      /\ mapping \in [Peers -> Contacts \union {None}]
    BY DEF Phone!Saved, Phone!PhoneAssumption, PhoneTypes
<1>2. /\ mapping' \in [Peers -> Contacts \union {None}]
      /\ \A q \in Peers : mapping'[q] = IF q = p THEN c ELSE mapping[q]
    BY <1>1
<1>3. \A d \in Contacts \ {c} : Phone!Owners(d)' = Phone!Owners(d)
    BY <1>1, <1>2 DEF Phone!Owners
<1>4. Phone!Owners(c)' = Phone!Owners(c) \union {p}
    BY <1>1, <1>2 DEF Phone!Owners
<1> QED BY <1>1, <1>2, <1>3, <1>4 DEF Keeps, PhoneTypes

LEMMA SameKeeps ==
    ASSUME PhoneTypes, NEW c \in Contacts, NEW p, UNCHANGED <<mapping, aliases>>
    PROVE  Keeps(c, p) /\ UNCHANGED Phone!Owners(c)
BY DEF Keeps, PhoneTypes, Phone!Owners

LEMMA ByRowKeeps ==
    ASSUME Phone!PhoneAssumption, PhoneInv, NEW c \in Contacts, NEW n \in Numbers \union {None},
           conv[c] # None, Phone!ByRow(c, n), UNCHANGED aliases, Known \subseteq Known'
    PROVE  Moves(c) /\ Keeps(c, conv[c])
<1> DEFINE p == conv[c]
<1>1. PhoneTypes /\ p \in Peers /\ p \in Phone!Owners(c) /\ <<c, p>> \in Known
    BY DEF PhoneInv, PhoneTypes, OwnersInv
<1>2. CASE mapping[p] = c
    <2>1. Phone!Goto(c, "map", n, p) /\ UNCHANGED mapping
        BY <1>2 DEF Phone!ByRow, Phone!PhoneAssumption
    <2>2. Keeps(c, p) /\ UNCHANGED Phone!Owners(c)
        BY <1>1, <2>1, SameKeeps
    <2> QED BY <1>1, <2>1, <2>2, GotoIs DEF Moves
<1>3. CASE mapping[p] # c /\ mapping[p] = None
    <2>1. CASE Phone!Owners(c) \subseteq {p}
        <3>1. Phone!Saved(c, p) /\ Phone!Goto(c, "map", n, p)
            BY <1>3, <2>1 DEF Phone!ByRow
        <3>2. Keeps(c, p) /\ p \in Phone!Owners(c)'
            BY <1>1, <1>3, <3>1, SavedKeeps
        <3> QED BY <1>1, <3>1, <3>2, GotoIs DEF Moves
    <2>2. CASE ~(Phone!Owners(c) \subseteq {p})
        <3>1. Phone!Fails(c) /\ UNCHANGED mapping
            BY <1>3, <2>2 DEF Phone!ByRow
        <3> QED BY <1>1, <3>1, SameKeeps, FailsIs
    <2> QED BY <2>1, <2>2
<1>4. CASE mapping[p] # c /\ mapping[p] # None
    <2>1. Phone!AliasWanted(c, n, p) /\ UNCHANGED mapping
        BY <1>4 DEF Phone!ByRow
    <2> QED BY <1>1, <2>1, SameKeeps, AliasWantedMoves
<1> QED BY <1>2, <1>3, <1>4

LEMMA ByNumberKeeps ==
    ASSUME Phone!PhoneAssumption, PhoneInv, NEW c \in Contacts, NEW n \in Numbers, NEW p \in Peers,
           Phone!ByNumber(c, n, p), UNCHANGED <<owner, aliases, wrote>>,
           had' = IF owner[n] = p THEN had \union {<<c, p>>} ELSE had
    PROVE  Moves(c) /\ Keeps(c, p) /\ Known \subseteq Known'
<1>1. PhoneTypes
    BY DEF PhoneInv
<1>2. CASE mapping[p] = c
    <2>1. Phone!Goto(c, "map", n, p) /\ UNCHANGED <<mapping, trusted>>
        BY <1>2 DEF Phone!ByNumber, Phone!PhoneAssumption
    <2>2. Keeps(c, p) /\ UNCHANGED Phone!Owners(c) /\ p \in Phone!Owners(c)
        BY <1>1, <1>2, <2>1, SameKeeps DEF Phone!Owners
    <2> QED BY <1>1, <2>1, <2>2, GotoIs DEF Moves, Known
<1>3. CASE mapping[p] # c /\ mapping[p] = None
    <2>1. CASE Phone!Owners(c) \subseteq {p}
        <3>1. /\ Phone!Saved(c, p) /\ Phone!Goto(c, "map", n, p)
              /\ trusted' = IF owner[n] # p THEN trusted \union {<<c, p>>} ELSE trusted
            BY <1>3, <2>1 DEF Phone!ByNumber
        <3>2. <<c, p>> \in Known' /\ Known \subseteq Known'
            BY <3>1 DEF Known
        <3>3. Keeps(c, p) /\ p \in Phone!Owners(c)'
            BY <1>1, <1>3, <3>1, <3>2, SavedKeeps
        <3> QED BY <1>1, <3>1, <3>2, <3>3, GotoIs DEF Moves
    <2>2. CASE ~(Phone!Owners(c) \subseteq {p})
        <3>1. Phone!Fails(c) /\ UNCHANGED <<mapping, trusted>>
            BY <1>3, <2>2 DEF Phone!ByNumber
        <3> QED BY <1>1, <3>1, SameKeeps, FailsIs DEF Known
    <2> QED BY <2>1, <2>2
<1>4. CASE mapping[p] # c /\ mapping[p] # None
    <2>1. Phone!AliasWanted(c, n, p) /\ UNCHANGED <<mapping, trusted>>
        BY <1>4 DEF Phone!ByNumber
    <2> QED BY <1>1, <2>1, SameKeeps, AliasWantedMoves DEF Known
<1> QED BY <1>2, <1>3, <1>4

LEMMA AnsweredStep ==
    ASSUME Phone!PhoneAssumption, PhoneInv, NEW c \in Contacts, Phone!Answered(c) PROVE PhoneInv'
<1> DEFINE n == number[c]
<1>1. /\ PhoneTypes /\ n \in Numbers \union {None} /\ Phone!Owners(c) \subseteq Peers
      /\ UNCHANGED <<owner, number, born, aliases, cache, conv, sent, wrote>>
    BY DEF PhoneInv, PhoneTypes, Phone!Answered, Phone!remoteVars, Phone!Owners
<1>2. CASE conv[c] # None
    <2>1. Phone!ByRow(c, n) /\ UNCHANGED <<trusted, had>>
        BY <1>2 DEF Phone!Answered
    <2>2. Known \subseteq Known'
        BY <1>1, <2>1 DEF Known
    <2>3. Moves(c) /\ Keeps(c, conv[c])
        BY <1>1, <1>2, <2>1, <2>2, ByRowKeeps
    <2> QED BY <1>1, <2>2, <2>3, RoutesStep DEF PhoneTypes
<1>3. CASE conv[c] = None /\ Phone!Cardinality(Phone!Owners(c)) = 1
    <2> DEFINE p == CHOOSE q \in Peers : q \in Phone!Owners(c)
    <2>1. Phone!Owners(c) # {}
        BY <1>3, FS_EmptySet, PhoneCardinality
    <2>2. p \in Peers /\ p \in Phone!Owners(c)
        BY <1>1, <2>1
    <2>3. Phone!ByContact(c, n, p) /\ UNCHANGED <<trusted, had>>
        BY <1>3, <2>1 DEF Phone!Answered
    <2> HIDE DEF p
    <2>4. UNCHANGED mapping /\ Known \subseteq Known'
        BY <1>1, <2>3 DEF Phone!ByContact, Known
    <2>5. Keeps(c, p) /\ UNCHANGED Phone!Owners(c)
        BY <1>1, <2>4, SameKeeps
    <2>6. Moves(c)
        <3>1. CASE mapping[p] \in {c, None}
            <4>1. Phone!Goto(c, "map", n, p)
                BY <2>3, <3>1 DEF Phone!ByContact
            <4> QED BY <1>1, <2>2, <2>5, <4>1, GotoIs DEF Moves
        <3>2. CASE mapping[p] \notin {c, None}
            <4>1. Phone!AliasWanted(c, n, p)
                BY <2>3, <3>2 DEF Phone!ByContact
            <4> QED BY <1>1, <2>2, <2>4, <4>1, AliasWantedMoves
        <3> QED BY <3>1, <3>2
    <2> QED BY <1>1, <2>4, <2>5, <2>6, RoutesStep DEF PhoneTypes
<1>4. CASE conv[c] = None /\ Phone!Owners(c) = {} /\ n # None /\ cache[n] # None
    <2>1. n \in Numbers /\ cache[n] \in Peers
        BY <1>1, <1>4 DEF PhoneTypes
    <2>2. Phone!Cardinality(Phone!Owners(c)) # 1
        BY <1>4, FS_EmptySet, PhoneCardinality
    <2>3. /\ Phone!ByNumber(c, n, cache[n])
          /\ had' = IF owner[n] = cache[n] THEN had \union {<<c, cache[n]>>} ELSE had
        BY <1>4, <2>2 DEF Phone!Answered
    <2>4. Moves(c) /\ Keeps(c, cache[n]) /\ Known \subseteq Known'
        BY <1>1, <2>1, <2>3, ByNumberKeeps
    <2> QED BY <1>1, <2>4, RoutesStep DEF PhoneTypes
<1>5. CASE conv[c] = None /\ Phone!Owners(c) = {} /\ n # None /\ cache[n] = None
    <2>1. n \in Numbers
        BY <1>1, <1>5
    <2>2. Phone!Cardinality(Phone!Owners(c)) # 1
        BY <1>5, FS_EmptySet, PhoneCardinality
    <2>3. Phone!Goto(c, "resolve", n, None) /\ UNCHANGED <<mapping, trusted, had>>
        BY <1>5, <2>2 DEF Phone!Answered
    <2>4. Keeps(c, None) /\ Known \subseteq Known'
        BY <1>1, <2>3, SameKeeps DEF Known
    <2>5. Moves(c)
        BY <1>1, <2>1, <2>3, GotoIs DEF Moves
    <2> QED BY <1>1, <2>4, <2>5, RoutesStep DEF PhoneTypes
<1>6. CASE /\ conv[c] = None /\ Phone!Cardinality(Phone!Owners(c)) # 1
           /\ ~(Phone!Owners(c) = {} /\ n # None)
    <2>1. UNCHANGED <<job, mapping, trusted, had>>
        BY <1>6 DEF Phone!Answered
    <2>2. Keeps(c, None) /\ UNCHANGED Phone!Owners(c) /\ Known \subseteq Known'
        BY <1>1, <2>1, SameKeeps DEF Known
    <2>3. Moves(c)
        BY <1>1, <2>1, <2>2 DEF Moves, PhoneTypes, PhoneInv, OwnersInv
    <2> QED BY <1>1, <2>2, <2>3, RoutesStep DEF PhoneTypes
<1> QED BY <1>2, <1>3, <1>4, <1>5, <1>6

LEMMA AliasAnsweredStep ==
    ASSUME PhoneInv, NEW c \in Contacts, Phone!AliasAnswered(c) PROVE PhoneInv'
<1> DEFINE p == job[c].p
           n == job[c].n
<1>1. /\ PhoneTypes /\ n \in Numbers /\ p \in Peers
      /\ UNCHANGED <<owner, number, born, mapping, cache, conv, sent, wrote, trusted>>
    BY DEF PhoneInv, PhoneTypes, Phone!AliasAnswered, Phone!At, Phone!remoteVars
<1>2. CASE Phone!Verifies(n, p) /\ mapping[p] # None /\ Phone!Owners(c) \subseteq {p}
    <2>1. /\ aliases' = aliases \union {<<c, p>>} /\ owner[n] = p
          /\ had' = had \union {<<c, p>>} /\ Phone!Goto(c, "map", n, p)
        BY <1>2 DEF Phone!AliasAnswered, Phone!Verifies, Phone!AccountOf
    <2> HIDE DEF p, n
    <2>2. Known \subseteq Known' /\ <<c, p>> \in Known'
        BY <1>1, <2>1 DEF Known
    <2>3. /\ \A d \in Contacts \ {c} : Phone!Owners(d)' = Phone!Owners(d)
          /\ Phone!Owners(c)' = Phone!Owners(c) \union {p}
        BY <1>1, <2>1 DEF Phone!Owners
    <2>4. Keeps(c, p)
        BY <1>1, <1>2, <2>1, <2>2, <2>3 DEF Keeps, PhoneTypes
    <2>5. Moves(c)
        BY <1>1, <2>1, <2>3, GotoIs DEF Moves
    <2> QED BY <1>1, <2>2, <2>4, <2>5, RoutesStep DEF PhoneTypes
<1>3. CASE ~(Phone!Verifies(n, p) /\ mapping[p] # None /\ Phone!Owners(c) \subseteq {p})
    <2>1. Phone!Fails(c) /\ UNCHANGED <<aliases, had>>
        BY <1>3 DEF Phone!AliasAnswered
    <2>2. Moves(c) /\ Keeps(c, p) /\ Known \subseteq Known'
        BY <1>1, <2>1, FailsIs, SameKeeps DEF Known
    <2> QED BY <1>1, <2>2, RoutesStep DEF PhoneTypes
<1> QED BY <1>2, <1>3

LEMMA NumberAnsweredStep ==
    ASSUME Phone!PhoneAssumption, PhoneInv, NEW c \in Contacts, Phone!NumberAnswered(c) PROVE PhoneInv'
<1> DEFINE n == job[c].n
           p == IF Remembers /\ cache[n] # None THEN cache[n] ELSE Phone!AccountOf(n)
<1>1. /\ PhoneTypes /\ n \in Numbers
      /\ UNCHANGED <<owner, number, born, aliases, conv, sent, wrote>>
    BY DEF PhoneInv, PhoneTypes, Phone!NumberAnswered, Phone!At, Phone!remoteVars
<1>2. p \in Peers
    BY <1>1 DEF PhoneTypes, Phone!AccountOf
<1>3. /\ cache' = IF Remembers THEN [cache EXCEPT ![n] = p] ELSE cache
      /\ had' = IF owner[n] = p THEN had \union {<<c, p>>} ELSE had
      /\ Phone!ByNumber(c, n, p)
    BY DEF Phone!NumberAnswered
<1> HIDE DEF n, p
<1>4. Moves(c) /\ Keeps(c, p) /\ Known \subseteq Known'
    BY <1>1, <1>2, <1>3, ByNumberKeeps
<1>5. cache' \in [Numbers -> Peers \union {None}]
    BY <1>1, <1>2, <1>3 DEF PhoneTypes
<1> QED BY <1>1, <1>4, <1>5, RoutesStep

\* A peer has the conversation of a contact that is his.
LEMMA ActivatedIs ==
    ASSUME PhoneInv, NEW c \in Contacts, NEW p \in Peers, Phone!Activated(c, p), p \in Phone!Owners(c)',
           \A d \in Contacts : Phone!Owners(d) \subseteq Phone!Owners(d)'
    PROVE  /\ conv' \in [Contacts -> Peers \union {None}]
           /\ \A d \in Contacts : conv'[d] # None => conv'[d] \in Phone!Owners(d)'
<1>1. /\ conv \in [Contacts -> Peers \union {None}]
      /\ \A d \in Contacts : conv[d] # None => conv[d] \in Phone!Owners(d)
    BY DEF PhoneInv, PhoneTypes, OwnersInv
<1> QED BY <1>1 DEF Phone!Activated

LEMMA MappedStep ==
    ASSUME PhoneInv, NEW c \in Contacts, Phone!Mapped(c) PROVE PhoneInv'
<1> DEFINE p == job[c].p
<1>1. /\ PhoneTypes /\ OwnersInv /\ Phone!At(c, "map") /\ Phone!Activated(c, p)
      /\ Phone!Goto(c, "send", job[c].n, p)
      /\ UNCHANGED <<owner, number, mapping, aliases, cache, sent, wrote, had, trusted>>
    BY DEF PhoneInv, Phone!Mapped, Phone!remoteVars, Phone!rowVars, Phone!historyVars
<1>2. p \in Phone!Owners(c) /\ p \in Peers /\ job[c].n \in Numbers \union {None}
    BY <1>1 DEF OwnersInv, Phone!At, Phone!Owners, PhoneTypes, Jobs
<1>3. \A d \in Contacts : Phone!Owners(d)' = Phone!Owners(d)
    BY <1>1 DEF Phone!Owners
<1>4. /\ conv' \in [Contacts -> Peers \union {None}]
      /\ \A d \in Contacts : conv'[d] # None => conv'[d] \in Phone!Owners(d)'
    BY <1>1, <1>2, <1>3, ActivatedIs
<1>5. /\ job' \in [Contacts -> Jobs] /\ \A d \in Contacts \ {c} : job'[d] = job[d]
      /\ job'[c].pc = "send" /\ job'[c].p = p
    BY <1>1, <1>2, GotoIs
<1> HIDE DEF p
<1>6. PhoneTypes'
    BY <1>1, <1>4, <1>5 DEF PhoneTypes
<1>7. \A d \in Contacts : job'[d].pc \in {"map", "send"} => job'[d].p \in Phone!Owners(d)'
    BY <1>1, <1>2, <1>3, <1>5 DEF OwnersInv
<1>8. OwnersInv'
    BY <1>1, <1>3, <1>4, <1>7 DEF OwnersInv, Known
<1> QED BY <1>6, <1>8 DEF PhoneInv

LEMMA SentStep ==
    ASSUME PhoneInv, NEW c \in Contacts, Phone!Sent(c) PROVE PhoneInv'
<1> DEFINE p == job[c].p
<1>1. /\ PhoneTypes /\ OwnersInv /\ Phone!At(c, "send")
      /\ sent' = sent \union {<<c, p>>} /\ Phone!Fails(c)
      /\ UNCHANGED <<owner, number, mapping, aliases, cache, conv, wrote, had, trusted>>
    BY DEF PhoneInv, Phone!Sent, Phone!Fails, Phone!remoteVars, Phone!rowVars, Phone!historyVars
<1>2. p \in Phone!Owners(c)
    BY <1>1 DEF OwnersInv, Phone!At
<1>3. \A d \in Contacts : Phone!Owners(d)' = Phone!Owners(d)
    BY <1>1 DEF Phone!Owners
<1>4. Moves(c)
    BY <1>1, FailsIs
<1> HIDE DEF p
<1>5. PhoneTypes'
    BY <1>1, <1>4 DEF PhoneTypes, Moves
<1>6. \A d \in Contacts : job'[d].pc \in {"map", "send"} => job'[d].p \in Phone!Owners(d)'
    BY <1>1, <1>3, <1>4 DEF OwnersInv, Moves
<1>7. \A m \in sent' : \E d \in Contacts : \E q \in Phone!Owners(d)' : m = <<d, q>>
    BY <1>1, <1>2, <1>3 DEF OwnersInv
<1>8. OwnersInv'
    BY <1>1, <1>3, <1>6, <1>7 DEF OwnersInv, Known
<1> QED BY <1>5, <1>8 DEF PhoneInv

LEMMA AnswerFailsStep ==
    ASSUME PhoneInv, NEW c \in Contacts, Phone!AnswerFails(c) PROVE PhoneInv'
<1>1. /\ PhoneTypes /\ Phone!Fails(c)
      /\ UNCHANGED <<owner, number, mapping, aliases, cache, conv, sent, wrote, had, trusted>>
    BY DEF PhoneInv, Phone!AnswerFails, Phone!remoteVars, Phone!rowVars, Phone!historyVars
<1>2. Moves(c) /\ Keeps(c, None) /\ Known \subseteq Known'
    BY <1>1, FailsIs, SameKeeps DEF Known
<1> QED BY <1>1, <1>2, RoutesStep DEF PhoneTypes

LEMMA WritesStep ==
    ASSUME Phone!PhoneAssumption, PhoneInv, NEW p \in Peers, Phone!Writes(p) PROVE PhoneInv'
<1>1. /\ PhoneTypes /\ OwnersInv
      /\ UNCHANGED <<owner, number, aliases, cache, job, sent, had, trusted>>
    BY DEF PhoneInv, Phone!Writes
<1>2. PICK c \in Contacts :
          /\ \/ mapping[p] = c /\ UNCHANGED mapping
             \/ mapping[p] = None /\ Phone!Saved(c, p)
          /\ Phone!Activated(c, p)
          /\ wrote' = wrote \union {<<c, p>>}
    BY DEF Phone!Writes
<1>3. <<c, p>> \in Known' /\ Known \subseteq Known'
    BY <1>1, <1>2 DEF Known
<1>4. Keeps(c, p) /\ p \in Phone!Owners(c)'
    <2>1. CASE mapping[p] = c /\ UNCHANGED mapping
        BY <1>1, <2>1, SameKeeps DEF Phone!Owners
    <2>2. CASE mapping[p] = None /\ Phone!Saved(c, p)
        BY <1>1, <1>3, <2>2, SavedKeeps
    <2> QED BY <1>2, <2>1, <2>2
<1>5. /\ conv' \in [Contacts -> Peers \union {None}]
      /\ \A d \in Contacts : conv'[d] # None => conv'[d] \in Phone!Owners(d)'
    BY <1>2, <1>4, ActivatedIs DEF Keeps
<1>6. PhoneTypes'
    BY <1>1, <1>4, <1>5 DEF PhoneTypes, Keeps
<1>7. \A d \in Contacts : \A q, r \in Phone!Owners(d)' : q = r
    BY <1>1, <1>4 DEF OwnersInv, Keeps
<1>8. ASSUME NEW d \in Contacts, NEW q \in Phone!Owners(d)' PROVE <<d, q>> \in Known'
    <2>1. q \in Phone!Owners(d) \/ (d = c /\ q = p)
        BY <1>4, <1>8 DEF Keeps
    <2>2. q \in Phone!Owners(d) => <<d, q>> \in Known
        BY <1>1 DEF OwnersInv
    <2> QED BY <1>3, <2>1, <2>2
<1>9. \A d \in Contacts : job[d].pc \in {"map", "send"} => job[d].p \in Phone!Owners(d)'
    BY <1>1, <1>4 DEF OwnersInv, Keeps
<1>10. \A m \in sent : \E d \in Contacts : \E q \in Phone!Owners(d)' : m = <<d, q>>
    BY <1>1, <1>4 DEF OwnersInv, Keeps
<1> QED BY <1>1, <1>5, <1>6, <1>7, <1>8, <1>9, <1>10 DEF PhoneInv, OwnersInv

\* Numbers that move, are edited, and conversations that are resolved.
LEMMA OutsideStep ==
    ASSUME PhoneInv, PhoneTypes',
           UNCHANGED <<mapping, aliases, job, sent, wrote, had, trusted>>,
           \A c \in Contacts : conv'[c] \in {conv[c], None}
    PROVE  PhoneInv'
<1>1. OwnersInv /\ \A c \in Contacts : Phone!Owners(c)' = Phone!Owners(c)
    BY DEF PhoneInv, Phone!Owners
<1> QED BY <1>1 DEF PhoneInv, OwnersInv, Known

LEMMA PhoneInvStep ==
    ASSUME Phone!PhoneAssumption, PhoneInv, [Phone!PhoneNext]_(Phone!phoneVars) PROVE PhoneInv'
<1>0. PhoneTypes
    BY DEF PhoneInv
<1>1. ASSUME NEW c \in Contacts, Phone!Delivery(c) PROVE PhoneInv'
    BY <1>1, AnsweredStep, AliasAnsweredStep, NumberAnsweredStep, MappedStep, SentStep,
       AnswerFailsStep DEF Phone!Delivery
<1>2. ASSUME NEW c \in Contacts, Phone!NumberEdited(c) PROVE PhoneInv'
    <2>1. UNCHANGED <<owner, mapping, aliases, cache, conv, job, sent, wrote, had, trusted>>
        BY <1>2 DEF Phone!NumberEdited, Phone!rowVars, Phone!historyVars
    <2>2. PhoneTypes'
        BY <1>0, <1>2, <2>1 DEF Phone!NumberEdited, PhoneTypes
    <2> QED BY <2>1, <2>2, OutsideStep
<1>3. ASSUME NEW c \in Contacts, Phone!ConversationResolved(c) PROVE PhoneInv'
    <2>1. /\ UNCHANGED <<owner, number, mapping, aliases, cache, job, sent, wrote, had, trusted>>
          /\ conv' = [conv EXCEPT ![c] = None]
        BY <1>3 DEF Phone!ConversationResolved, Phone!remoteVars, Phone!rowVars, Phone!historyVars
    <2>2. PhoneTypes' /\ \A d \in Contacts : conv'[d] \in {conv[d], None}
        BY <1>0, <2>1 DEF PhoneTypes
    <2> QED BY <2>1, <2>2, OutsideStep
<1>4. ASSUME NEW p \in Peers, Phone!Writes(p) PROVE PhoneInv'
    BY <1>4, WritesStep
<1>5. ASSUME NEW p \in Peers, NEW n \in Numbers, Phone!NumberMoves(n, p) PROVE PhoneInv'
    <2>1. /\ UNCHANGED <<number, mapping, aliases, cache, conv, job, sent, wrote, had, trusted>>
          /\ owner' = [owner EXCEPT ![n] = p]
        BY <1>5 DEF Phone!NumberMoves, Phone!rowVars, Phone!historyVars
    <2>2. PhoneTypes'
        BY <1>0, <2>1 DEF PhoneTypes
    <2> QED BY <2>1, <2>2, OutsideStep
<1>6. CASE UNCHANGED Phone!phoneVars
    <2>1. UNCHANGED <<owner, number, mapping, aliases, cache, conv, job, sent, wrote, had, trusted>>
        BY <1>6 DEF Phone!phoneVars
    <2>2. PhoneTypes'
        BY <1>0, <2>1 DEF PhoneTypes
    <2> QED BY <2>1, <2>2, OutsideStep
<1> QED BY <1>1, <1>2, <1>3, <1>4, <1>5, <1>6 DEF Phone!PhoneNext

LEMMA PhoneInvMeans == PhoneInv => Phone!OnlyToOwners /\ Phone!OnePeerPerContact
<1> SUFFICES ASSUME PhoneInv PROVE Phone!OnlyToOwners /\ Phone!OnePeerPerContact
    OBVIOUS
<1>1. OwnersInv
    BY DEF PhoneInv
<1>2. sent \subseteq Known
    BY <1>1 DEF OwnersInv
<1>3. \A c \in Contacts, p \in Peers : <<c, p>> \in sent => p \in Phone!Owners(c)
    BY <1>1 DEF OwnersInv
<1> QED BY <1>1, <1>2, <1>3 DEF Phone!OnlyToOwners, Phone!OnePeerPerContact, OwnersInv, Known

LEMMA PhoneInvariant == Phone!PhoneAssumption => (Phone!PhoneSpec => []PhoneInv)
<1> SUFFICES ASSUME Phone!PhoneAssumption PROVE Phone!PhoneSpec => []PhoneInv
    OBVIOUS
<1>1. Phone!PhoneInit => PhoneInv
    BY PhoneInvInit
<1>2. PhoneInv /\ [Phone!PhoneNext]_(Phone!phoneVars) => PhoneInv'
    BY PhoneInvStep
<1> QED BY <1>1, <1>2, PTL DEF Phone!PhoneSpec

\* However numbers move between accounts and contacts, an answer goes to a peer
\* who wrote to the contact or had its number when it was asked for, but for an
\* old resolution that was taken on trust (handle_chatwoot_webhook).
THEOREM AnswersFindOwners == Phone!PhoneAssumption => (Phone!PhoneSpec => []Phone!OnlyToOwners)
BY PhoneInvariant, PhoneInvMeans, PTL

\* A contact's answers all go to one peer (handle_chatwoot_webhook).
THEOREM AnswersFindOnePeer == Phone!PhoneAssumption => (Phone!PhoneSpec => []Phone!OnePeerPerContact)
BY PhoneInvariant, PhoneInvMeans, PTL

----------------------------------------------------------------------------
(* The panel's synchronization of contacts.                                *)

CONSTANTS NumPeers, PageSize, Calls, MaxCalls, MaxHand, MaxFaults
VARIABLES bale, contact, synced, complete, event, hooks, told

Sync == INSTANCE ContactSync

LEMMA SyncCardinality == \A S : Sync!Cardinality(S) = Cardinality(S)
BY DEF Sync!Cardinality, Cardinality

Shown == {"first", "second"}
Made == Shown \union {"generic", "fallback"}
Given == Made \union {"agent", "none"}
Copying == {"resolve", "read", "rename", "import"}
CallsOf == [pc : {"idle", "fetch", "search", "delete"} \union Copying,
            kind : Sync!Routes \union {"none"}, renames : BOOLEAN, early : BOOLEAN,
            names : {<<>>} \union [Sync!Peers -> Made], p : Nat, read : Given,
            page : Nat, left : SUBSET Sync!Peers, gone : SUBSET Sync!Peers,
            whole : SUBSET Sync!Peers]
Spendings == [calls : Nat, hand : Nat, events : Nat, faults : Nat]

SyncTypes ==
    /\ bale \in [Sync!Peers -> Shown \union {""}]
    /\ contact \in [Sync!Peers -> Given]
    /\ synced \in BOOLEAN /\ complete \in BOOLEAN
    /\ job \in [Calls -> CallsOf]
    /\ event \in [pc : {"idle", "look", "write"}, p : Nat, name : Given, read : Given]
    /\ event.pc # "idle" => event.p \in Sync!Peers /\ event.name \in Shown
    /\ spent \in Spendings

\* A synchronization of the contacts that renames began before any had ended, as
\* the end of one marks the first as done; none of its names is a labelled one, and
\* what is about to be written is no generic one.
Named(j) ==
    /\ j.pc # "idle" => j.kind \in Sync!Routes
    /\ j.kind = "contacts" => IF j.renames THEN j.early ELSE synced
    /\ j.pc \in Copying =>
          /\ j.kind \in {"contacts", "dialogs"} /\ j.p \in Sync!Peers
          /\ j.names \in [Sync!Peers -> Made]
          /\ j.kind = "contacts" => \A p \in Sync!Peers : j.names[p] # "fallback"
    /\ j.pc = "rename" => j.renames /\ j.names[j.p] # "generic"
NamesInv == (complete => synced) /\ \A r \in Calls : Named(job[r])

\* Of the contacts that a removal met at its beginning and has not dealt with, each
\* is still to come or moved up behind one that was deleted.
Moved(j, p) == \E q \in j.gone : q < p
Comes(j, p) ==
    CASE j.pc = "search" -> Sync!Rank(p) > (j.page - 1) * PageSize
      [] j.pc = "delete" -> p \in j.left \/ Sync!Rank(p) > j.page * PageSize
      [] OTHER -> TRUE
Removes(j) ==
    /\ j.pc \in {"search", "delete"} <=> j.page # 0
    /\ j.pc = "delete" => j.left # {}
    /\ j.page # 0 => /\ j.whole \subseteq Sync!There
                     /\ \A p \in j.whole : Moved(j, p) \/ Comes(j, p)
PagesInv == \A r \in Calls : Removes(job[r])

SyncInv == SyncTypes /\ NamesInv /\ PagesInv

----------------------------------------------------------------------------
\* What a number of peers has a first one, which is in it.
LEMMA Smallest ==
    ASSUME NEW S, S \subseteq Nat, S # {}
    PROVE  \E m \in S : \A k \in S : m <= k
<1> DEFINE R == OpToRel(<, Nat)
<1>1. IsWellFoundedOn(R, Nat)
    BY NatLessThanWellFounded
<1>2. \A x, y \in Nat : <<x, y>> \in R <=> x < y
    BY DEF OpToRel
<1> HIDE DEF R
<1>3. PICK m \in S : \A y \in S : ~(<<y, m>> \in R)
    BY <1>1, WFMin
<1>4. \A k \in S : k \in Nat /\ m \in Nat /\ ~(k < m)
    BY <1>2, <1>3
<1>5. \A k \in S : m <= k
    BY <1>4
<1> QED BY <1>5

LEMMA FirstIn ==
    ASSUME NEW S, S \subseteq Nat, S # {}
    PROVE  Sync!First(S) \in S
BY Smallest DEF Sync!First

LEMMA RanksCount ==
    ASSUME Sync!SyncAssumption, NEW S, S \subseteq Sync!Peers
    PROVE  IsFiniteSet(S) /\ Cardinality(S) \in Nat
<1>1. IsFiniteSet(Sync!Peers)
    BY FS_Interval DEF Sync!SyncAssumption, Sync!Peers
<1> QED BY <1>1, FS_Subset, FS_CardinalityType

LEMMA RankNat ==
    ASSUME Sync!SyncAssumption, NEW p PROVE Sync!Rank(p) \in Nat
<1>1. {q \in Sync!There : q <= p} \subseteq Sync!Peers
    BY DEF Sync!There
<1> QED BY <1>1, RanksCount, SyncCardinality DEF Sync!Rank

\* A page is empty only behind the last contact.
LEMMA NoGaps ==
    ASSUME Sync!SyncAssumption, NEW n \in Nat \ {0}, Sync!Page(n) = {}, NEW p \in Sync!There
    PROVE  ~(Sync!Rank(p) > (n - 1) * PageSize)
<1> DEFINE K == (n - 1) * PageSize
<1> DEFINE Behind == {q \in Sync!There : Sync!Rank(q) > K}
<1> DEFINE Upto(q) == {x \in Sync!There : x <= q}
<1>0. /\ Sync!There \subseteq Sync!Peers /\ Sync!Peers \subseteq Nat
      /\ PageSize \in Nat \ {0} /\ n - 1 \in Nat
    BY DEF Sync!There, Sync!Peers, Sync!SyncAssumption
<1>a. K \in Nat /\ n * PageSize = K + PageSize
    <2>1. \A a, b \in Nat : a * b \in Nat /\ (a + 1) * b = a * b + b
        OBVIOUS
    <2>2. n = (n - 1) + 1
        OBVIOUS
    <2> QED BY <1>0, <2>1, <2>2
<1>b. \A q : Sync!Rank(q) = Cardinality(Upto(q))
    BY SyncCardinality DEF Sync!Rank
<1>c. \A q : Sync!Rank(q) \in Nat
    BY RankNat
<1> HIDE DEF K
<1> SUFFICES ASSUME p \in Behind PROVE FALSE
    BY DEF K
<1>1. PICK m \in Behind : \A k \in Behind : m <= k
    BY <1>0, Smallest
<1>2. m \in Nat /\ m \in Sync!There /\ Sync!Rank(m) > K
    BY <1>0
<1>3. Sync!Rank(m) > n * PageSize
    <2>1. ~(Sync!Rank(m) \in (n - 1) * PageSize + 1 .. n * PageSize)
        BY <1>2 DEF Sync!Page
    <2> QED BY <1>0, <1>a, <1>c, <1>2, <2>1 DEF K
<1> DEFINE L == Upto(m) \ {m}
<1>4. Cardinality(L) = Sync!Rank(m) - 1
    <2>0. Upto(m) \subseteq Sync!Peers /\ m \in Upto(m)
        <3>1. m <= m /\ m \in Sync!There
            BY <1>2
        <3>2. m \in Upto(m)
            BY <3>1
        <3>3. Upto(m) \subseteq Sync!There
            OBVIOUS
        <3> QED BY <1>0, <3>2, <3>3
    <2>1. IsFiniteSet(Upto(m)) /\ m \in Upto(m)
        BY <2>0, RanksCount
    <2> QED BY <1>b, <2>1, FS_RemoveElement
<1>5. Cardinality(L) > K
    BY <1>0, <1>a, <1>c, <1>3, <1>4
<1>6. L # {}
    <2>1. Cardinality({}) = 0
        BY FS_EmptySet
    <2>2. Cardinality(L) # 0
        BY <1>5, <1>a, <1>4, <1>c
    <2> QED BY <2>1, <2>2
<1>7. PICK d \in {m - k : k \in L} : \A e \in {m - k : k \in L} : d <= e
    <2>1. {m - k : k \in L} \subseteq Nat
        BY <1>0, <1>2
    <2>2. {m - k : k \in L} # {}
        BY <1>6
    <2> QED BY <2>1, <2>2, Smallest
<1>8. PICK k \in L : d = m - k
    BY <1>7
<1>9. \A x \in L : x <= k
    BY <1>0, <1>2, <1>7, <1>8
<1>10. Upto(k) = L
    <2>1. k \in Nat /\ k <= m /\ k # m /\ k \in Sync!There
        BY <1>0, <1>2
    <2>2. \A x \in Sync!There : x <= k <=> (x <= m /\ x # m)
        <3>1. \A x \in Sync!There : x \in Nat
            BY <1>0
        <3>2. \A x \in Sync!There : (x <= m /\ x # m) => x <= k
            BY <1>9
        <3> QED BY <1>2, <2>1, <3>1, <3>2
    <2> QED BY <2>2
<1>11. k \in Behind
    BY <1>b, <1>5, <1>10
<1>12. m <= k
    BY <1>1, <1>11
<1>13. k <= m /\ k # m /\ k \in Nat
    <2>1. k \in Upto(m) /\ k # m
        OBVIOUS
    <2>2. k \in Sync!There /\ k <= m
        BY <2>1
    <2> QED BY <1>0, <2>1, <2>2
<1> HIDE DEF L, Behind, Upto
<1> QED BY <1>2, <1>12, <1>13

\* As long as nobody is deleted before him, nobody's place gets lower.
LEMMA RankStays ==
    ASSUME Sync!SyncAssumption, NEW p \in Nat,
           \A q \in Sync!There : q <= p => q \in Sync!There'
    PROVE  Sync!Rank(p) <= Sync!Rank(p)'
<1> DEFINE Old == {q \in Sync!There : q <= p}
           New == {q \in Sync!There' : q <= p}
<1>1. Old \subseteq New
    OBVIOUS
<1>2. Sync!There' \subseteq Sync!Peers
    BY DEF Sync!There, Sync!Peers
<1>3. New \subseteq Sync!Peers
    BY <1>2
<1>4. Sync!Rank(p) = Cardinality(Old) /\ Sync!Rank(p)' = Cardinality(New)
    BY SyncCardinality DEF Sync!Rank
<1>5. IsFiniteSet(New)
    BY <1>3, RanksCount
<1> HIDE DEF Old, New
<1> QED BY <1>1, <1>4, <1>5, FS_Subset

\* While contacts come and change, but none goes, a removal that does not move has
\* left what it had.
LEMMA RemovalWaits ==
    ASSUME Sync!SyncAssumption, SyncInv, NEW r \in Calls, job'[r] = job[r],
           Sync!There \subseteq Sync!There'
    PROVE  Removes(job[r])'
<1>1. Removes(job[r])
    BY DEF SyncInv, PagesInv
<1>2. job[r] \in CallsOf /\ Sync!Peers \subseteq Nat
    <2>1. job[r] \in CallsOf
        BY DEF SyncInv, SyncTypes
    <2> QED BY <2>1 DEF Sync!Peers
<1>3. \A p \in Sync!Peers : Sync!Rank(p) <= Sync!Rank(p)'
    BY <1>2, RankStays
<1>4. \A p \in Sync!Peers : Sync!Rank(p) \in Nat /\ Sync!Rank(p)' \in Nat
    <2> SUFFICES ASSUME NEW p \in Sync!Peers PROVE Sync!Rank(p) \in Nat /\ Sync!Rank(p)' \in Nat
        OBVIOUS
    <2>1. {q \in Sync!There' : q <= p} \subseteq Sync!Peers
        BY DEF Sync!There, Sync!Peers
    <2>2. Sync!Rank(p)' \in Nat
        BY <2>1, RanksCount, SyncCardinality DEF Sync!Rank
    <2> QED BY <2>2, RankNat
<1>5. /\ job[r].page * PageSize \in Nat /\ (job[r].page - 1) * PageSize \in Int
    <2>1. \A a \in Int : \A b \in Nat : a * b \in Int
        OBVIOUS
    <2>2. \A a \in Nat : \A b \in Nat : a * b \in Nat
        OBVIOUS
    <2>3. job[r].page \in Nat /\ job[r].page - 1 \in Int /\ PageSize \in Nat
        BY <1>2 DEF CallsOf, Sync!SyncAssumption
    <2> QED BY <2>1, <2>2, <2>3
<1>6. \A p \in Sync!Peers : Comes(job[r], p) => Comes(job[r], p)'
    <2> SUFFICES ASSUME NEW p \in Sync!Peers, Comes(job[r], p) PROVE Comes(job[r], p)'
        OBVIOUS
    <2>1. Sync!Rank(p) <= Sync!Rank(p)' /\ Sync!Rank(p) \in Nat /\ Sync!Rank(p)' \in Nat
        BY <1>3, <1>4
    <2>2. CASE job[r].pc = "search"
        BY <1>5, <2>1, <2>2 DEF Comes
    <2>3. CASE job[r].pc = "delete"
        BY <1>5, <2>1, <2>3 DEF Comes
    <2>4. CASE job[r].pc \notin {"search", "delete"}
        BY <2>4 DEF Comes
    <2> QED BY <2>2, <2>3, <2>4
<1>7. job[r].whole \subseteq Sync!Peers
    BY <1>2 DEF CallsOf
<1> QED BY <1>1, <1>6, <1>7 DEF Removes, Moved

LEMMA SyncInvInit == ASSUME Sync!SyncAssumption, Sync!SyncInit PROVE SyncInv
<1>1. Sync!NoCall \in CallsOf /\ Sync!NoCall.pc = "idle" /\ Sync!NoCall.kind = "none"
      /\ Sync!NoCall.page = 0
    BY DEF Sync!NoCall, CallsOf, Given, Made
<1>2. SyncTypes
    <2>1. bale \in [Sync!Peers -> Shown \union {""}]
        BY DEF Sync!SyncInit, Shown
    <2>2. contact \in [Sync!Peers -> Given] /\ job \in [Calls -> CallsOf]
        BY <1>1 DEF Sync!SyncInit, Given
    <2>3. event.pc = "idle"
          /\ event \in [pc : {"idle", "look", "write"}, p : Nat, name : Given, read : Given]
        BY DEF Sync!SyncInit, Sync!NoLook, Given
    <2>4. spent \in Spendings
        BY DEF Spendings, Sync!SyncInit, Sync!SyncAssumption
    <2>5. synced \in BOOLEAN /\ complete \in BOOLEAN
        BY DEF Sync!SyncInit
    <2> QED BY <2>1, <2>2, <2>3, <2>4, <2>5 DEF SyncTypes
<1>3. NamesInv
    BY <1>1 DEF NamesInv, Named, Sync!SyncInit, Copying
<1>4. PagesInv
    BY <1>1 DEF PagesInv, Removes, Sync!SyncInit
<1> QED BY <1>2, <1>3, <1>4 DEF SyncInv

----------------------------------------------------------------------------
(* The steps of a call, by what becomes of it.                             *)

\* What a call may become, a step at a time, that renames contacts.
Follow(j) == Named(j) /\ j.pc \in Copying \union {"idle", "fetch"} /\ j.page = 0

\* A synchronization does only its next step, and marks the end of one.
Marks ==
    /\ synced' \in BOOLEAN /\ complete' \in BOOLEAN
    /\ synced => synced'
    /\ complete' => synced' 

LEMMA CallTyped ==
    ASSUME SyncInv, NEW r \in Calls
    PROVE  /\ job[r] \in CallsOf /\ Removes(job[r])
           /\ job[r].pc \in Copying => Follow(job[r])
           /\ complete => synced
           /\ Sync!Peers \subseteq Nat
<1>1. job[r] \in CallsOf
    BY DEF SyncInv, SyncTypes
<1>2. Removes(job[r]) /\ (complete => synced)
    BY DEF SyncInv, PagesInv, NamesInv
<1>3. job[r].pc \in Copying => Follow(job[r])
    BY <1>1, <1>2 DEF SyncInv, NamesInv, Follow, Removes, Copying
<1>4. Sync!Peers \subseteq Nat
    BY DEF Sync!Peers
<1> QED BY <1>1, <1>2, <1>3, <1>4

LEMMA NoCallFollows ==
    Sync!NoCall \in CallsOf /\ Follow(Sync!NoCall)
BY DEF Sync!NoCall, CallsOf, Follow, Named, Copying, Given, Made

\* On to the next peer, or the end.
LEMMA NextFollows ==
    ASSUME Sync!SyncAssumption, SyncInv, NEW r \in Calls, job[r].pc \in Copying,
           Sync!NextPeer(r, job[r])
    PROVE  \E j \in CallsOf : job' = [job EXCEPT ![r] = j] /\ Follow(j) /\ Marks
<1> DEFINE j0 == [job[r] EXCEPT !.pc = "resolve", !.p = job[r].p + 1, !.read = "none"]
<1>1. job[r] \in CallsOf /\ Follow(job[r]) /\ (complete => synced)
      /\ synced \in BOOLEAN /\ complete \in BOOLEAN
    BY CallTyped DEF SyncInv, SyncTypes
<1>2. CASE job[r].p < NumPeers
    <2>1. job[r].p + 1 \in Sync!Peers /\ job[r].p + 1 \in Nat
        BY <1>1, <1>2 DEF Follow, Named, Sync!Peers, Sync!SyncAssumption
    <2>2. j0 \in CallsOf
        BY <1>1, <2>1 DEF CallsOf, Copying, Given
    <2>3. Follow(j0)
        BY <1>1, <2>1 DEF CallsOf, Copying, Follow, Named
    <2>4. job' = [job EXCEPT ![r] = j0] /\ UNCHANGED <<synced, complete>>
        BY <1>2 DEF Sync!NextPeer, Sync!Set
    <2> HIDE DEF j0
    <2> QED BY <1>1, <2>2, <2>3, <2>4 DEF Marks
<1>3. CASE ~(job[r].p < NumPeers)
    <2>1. /\ job' = [job EXCEPT ![r] = Sync!NoCall]
          /\ synced' = (synced \/ (job[r].kind = "contacts" /\ job[r].renames))
          /\ complete' = (complete \/ job[r].kind = "contacts")
        BY <1>3 DEF Sync!NextPeer, Sync!Set, Sync!EndMarks
    <2>2. Marks
        BY <1>1, <2>1 DEF Marks, Follow, Named, CallsOf
    <2> QED BY <2>1, <2>2, NoCallFollows
<1> QED BY <1>2, <1>3

LEMMA AfterFollows ==
    ASSUME Sync!SyncAssumption, SyncInv, NEW r \in Calls, job[r].pc \in Copying,
           Sync!AfterContact(r)
    PROVE  \E j \in CallsOf : job' = [job EXCEPT ![r] = j] /\ Follow(j) /\ Marks
<1>1. CASE job[r].kind = "dialogs"
    <2> DEFINE j0 == [job[r] EXCEPT !.pc = "import"]
    <2>1. job[r] \in CallsOf /\ Follow(job[r]) /\ (complete => synced)
          /\ synced \in BOOLEAN /\ complete \in BOOLEAN
        BY CallTyped DEF SyncInv, SyncTypes
    <2>2. j0 \in CallsOf /\ Follow(j0)
        BY <2>1 DEF CallsOf, Follow, Named, Copying
    <2>3. job' = [job EXCEPT ![r] = j0] /\ UNCHANGED <<synced, complete>>
        BY <1>1 DEF Sync!AfterContact, Sync!Set
    <2> HIDE DEF j0
    <2> QED BY <2>1, <2>2, <2>3 DEF Marks
<1>2. CASE job[r].kind # "dialogs"
    BY <1>2, NextFollows DEF Sync!AfterContact
<1> QED BY <1>1, <1>2

\* What an operation of a call for one peer after the other comes to: its own next
\* step, and contacts that come or change, but do not go.
Copies(r) ==
    /\ \E j \in CallsOf : job' = [job EXCEPT ![r] = j] /\ Follow(j) /\ Marks
    /\ contact' \in [Sync!Peers -> Given] /\ Sync!There \subseteq Sync!There'
    /\ spent' \in Spendings
    /\ bale' = bale /\ event' = event

LEMMA SpendTyped ==
    ASSUME SyncInv, NEW what \in {"calls", "hand", "events", "faults"}, Sync!Spend(what)
    PROVE  spent' \in Spendings /\ spent' # spent
<1>1. spent \in Spendings
    BY DEF SyncInv, SyncTypes
<1>2. spent[what] \in Nat \ {0} /\ spent' = [spent EXCEPT ![what] = spent[what] - 1]
    BY <1>1 DEF Sync!Spend, Spendings
<1>3. spent'[what] = spent[what] - 1
    BY <1>1, <1>2 DEF Spendings
<1>4. spent[what] - 1 \in Nat /\ spent[what] - 1 # spent[what]
    BY <1>2
<1>5. spent' \in Spendings
    BY <1>1, <1>2, <1>4 DEF Spendings
<1> QED BY <1>2, <1>3, <1>4, <1>5

\* One contact more, or another name for one: none goes.
LEMMA ContactTyped ==
    ASSUME SyncInv, NEW p \in Sync!Peers, NEW name \in Given \ {"none"},
           contact' = [contact EXCEPT ![p] = name]
    PROVE  contact' \in [Sync!Peers -> Given] /\ Sync!There \subseteq Sync!There'
<1>1. contact \in [Sync!Peers -> Given]
    BY DEF SyncInv, SyncTypes
<1> QED BY <1>1 DEF Sync!There

LEMMA BeginsCopies ==
    ASSUME Sync!SyncAssumption, SyncInv, NEW r \in Calls, Sync!Begins(r) PROVE Copies(r)
<1>1. PICK kind \in Sync!Routes :
          job' = [job EXCEPT ![r] = [Sync!NoCall EXCEPT !.pc = "fetch", !.kind = kind,
             !.early = ~complete, !.renames = kind = "dialogs" \/ (kind = "contacts" /\ ~synced)]]
    BY DEF Sync!Begins, Sync!Set
<1> DEFINE j0 == [Sync!NoCall EXCEPT !.pc = "fetch", !.kind = kind,
             !.early = ~complete, !.renames = kind = "dialogs" \/ (kind = "contacts" /\ ~synced)]
<1>2. (complete => synced) /\ synced \in BOOLEAN /\ complete \in BOOLEAN
      /\ contact \in [Sync!Peers -> Given]
    BY DEF SyncInv, NamesInv, SyncTypes
<1>3. j0 \in CallsOf /\ Follow(j0)
    BY <1>2 DEF Sync!NoCall, CallsOf, Follow, Named, Copying, Given, Made, Sync!Routes
<1>4. spent' \in Spendings
    BY SpendTyped DEF Sync!Begins
<1>5. UNCHANGED <<contact, synced, complete, bale, event>>
    BY DEF Sync!Begins, Sync!remoteVars
<1> HIDE DEF j0
<1> QED BY <1>1, <1>2, <1>3, <1>4, <1>5 DEF Copies, Marks, j0, Sync!There

\* The names that a list of contacts or of dialogs gives.
LEMMA NamesTyped ==
    ASSUME SyncInv
    PROVE  /\ Sync!Listed \in [Sync!Peers -> Made]
           /\ \A p \in Sync!Peers : Sync!Listed[p] # "fallback"
           /\ Sync!Labelled \in [Sync!Peers -> Made]
           /\ [p \in Sync!Peers |-> "fallback"] \in [Sync!Peers -> Made]
           /\ 1 \in Nat
<1>1. bale \in [Sync!Peers -> Shown \union {""}]
    BY DEF SyncInv, SyncTypes
<1> QED BY <1>1 DEF Sync!Listed, Sync!Labelled, Made, Shown

LEMMA FetchedCopies ==
    ASSUME Sync!SyncAssumption, SyncInv, NEW r \in Calls,
           (Sync!Fetched(r) /\ job[r].kind # "remove") \/ Sync!FetchedNameless(r) \/ Sync!FetchFails(r)
    PROVE  Copies(r)
<1>0. /\ job[r] \in CallsOf /\ (complete => synced) /\ synced \in BOOLEAN /\ complete \in BOOLEAN
      /\ contact \in [Sync!Peers -> Given] /\ spent \in Spendings /\ job[r].pc = "fetch"
      /\ Named(job[r])
    BY CallTyped DEF SyncInv, SyncTypes, NamesInv, Sync!Fetched, Sync!FetchedNameless,
                     Sync!FetchFails, Sync!At
<1>1. /\ UNCHANGED <<contact, synced, complete, bale, event>>
      /\ spent' \in Spendings
    BY <1>0, SpendTyped DEF Sync!Fetched, Sync!FetchedNameless, Sync!FetchFails, Sync!remoteVars
<1>2. 1 \in Sync!Peers /\ job[r].page = 0
    BY <1>0, CallTyped DEF Sync!Peers, Sync!SyncAssumption, Removes
<1>3. \E j \in CallsOf : job' = [job EXCEPT ![r] = j] /\ Follow(j)
    <2>1. ASSUME NEW names \in [Sync!Peers -> Made], job[r].kind \in {"contacts", "dialogs"},
                 job[r].kind = "contacts" => \A p \in Sync!Peers : names[p] # "fallback",
                 job' = [job EXCEPT ![r] = [job[r] EXCEPT !.pc = "resolve", !.p = 1, !.names = names]]
          PROVE  \E j \in CallsOf : job' = [job EXCEPT ![r] = j] /\ Follow(j)
        <3> DEFINE j0 == [job[r] EXCEPT !.pc = "resolve", !.p = 1, !.names = names]
        <3>1. j0 \in CallsOf
            BY <1>0, <2>1 DEF CallsOf, Copying
        <3>2. Follow(j0)
            BY <1>0, <1>2, <2>1 DEF CallsOf, Copying, Follow, Named
        <3> QED BY <2>1, <3>1, <3>2
    <2>2. CASE Sync!FetchFails(r)
        BY <2>2, NoCallFollows DEF Sync!FetchFails, Sync!Set
    <2>3. CASE Sync!FetchedNameless(r)
        <3>1. job[r].kind = "dialogs"
              /\ job' = [job EXCEPT ![r] = [job[r] EXCEPT !.pc = "resolve", !.p = 1,
                                           !.names = [p \in Sync!Peers |-> "fallback"]]]
            BY <2>3 DEF Sync!FetchedNameless, Sync!Set
        <3> DEFINE names == [p \in Sync!Peers |-> "fallback"]
        <3>2. names \in [Sync!Peers -> Made]
            BY NamesTyped
        <3> HIDE DEF names
        <3> QED BY <2>1, <3>1, <3>2 DEF names
    <2>4. CASE Sync!Fetched(r) /\ job[r].kind = "contacts"
        <3>1. job' = [job EXCEPT ![r] = [job[r] EXCEPT !.pc = "resolve", !.p = 1,
                                                       !.names = Sync!Listed]]
            BY <2>4 DEF Sync!Fetched, Sync!Set
        <3> QED BY <2>1, <2>4, <3>1, NamesTyped
    <2>5. CASE Sync!Fetched(r) /\ job[r].kind = "dialogs"
        <3>1. job' = [job EXCEPT ![r] = [job[r] EXCEPT !.pc = "resolve", !.p = 1,
                                                       !.names = Sync!Labelled]]
            BY <2>5 DEF Sync!Fetched, Sync!Set
        <3> QED BY <2>1, <2>5, <3>1, NamesTyped
    <2>6. job[r].kind \in {"contacts", "dialogs", "remove"}
        BY <1>0 DEF Named, Sync!Routes
    <2> QED BY <2>2, <2>3, <2>4, <2>5, <2>6
<1>4. Marks
    BY <1>0, <1>1 DEF Marks
<1> QED BY <1>0, <1>1, <1>3, <1>4 DEF Copies, Sync!There

LEMMA OnePeerCopies ==
    ASSUME Sync!SyncAssumption, SyncInv, NEW r \in Calls,
           Sync!Resolved(r) \/ Sync!ContactRead(r) \/ Sync!ContactRenamed(r)
           \/ Sync!PeerFails(r) \/ Sync!Imported(r)
    PROVE  Copies(r)
<1>0. /\ job[r].pc \in Copying
      /\ job[r] \in CallsOf /\ Follow(job[r]) /\ (complete => synced)
      /\ synced \in BOOLEAN /\ complete \in BOOLEAN
      /\ contact \in [Sync!Peers -> Given] /\ spent \in Spendings
    BY CallTyped DEF SyncInv, SyncTypes, Copying, Sync!At, Sync!Resolved, Sync!ContactRead,
       Sync!ContactRenamed, Sync!PeerFails, Sync!Imported
<1>1. bale' = bale /\ event' = event /\ spent' \in Spendings
    BY <1>0, SpendTyped DEF Sync!Resolved, Sync!ContactRead,
       Sync!ContactRenamed, Sync!PeerFails, Sync!Imported, Sync!remoteVars
<1> DEFINE p == job[r].p
<1>2. p \in Sync!Peers /\ job[r].names \in [Sync!Peers -> Made]
    BY <1>0 DEF Follow, Named
<1>3. job[r].names[p] \in Given \ {"none"}
    BY <1>2 DEF Given, Made, Shown
<1> HIDE DEF p
<1>4. contact' \in [Sync!Peers -> Given] /\ Sync!There \subseteq Sync!There'
    <2>1. CASE contact' = contact
        BY <1>0, <2>1 DEF Sync!There
    <2>2. CASE contact' = [contact EXCEPT ![p] = job[r].names[p]]
        BY <1>2, <1>3, <2>2, ContactTyped
    <2> QED BY <2>1, <2>2 DEF Sync!Resolved, Sync!ContactRead, Sync!Written,
               Sync!ContactRenamed, Sync!PeerFails, Sync!Imported, p
<1>5. ASSUME NEW j \in CallsOf, Follow(j), job' = [job EXCEPT ![r] = j], UNCHANGED <<synced, complete>>
      PROVE  \E i \in CallsOf : job' = [job EXCEPT ![r] = i] /\ Follow(i) /\ Marks
    BY <1>0, <1>5 DEF Marks
<1>6. \E j \in CallsOf : job' = [job EXCEPT ![r] = j] /\ Follow(j) /\ Marks
    <2>1. CASE Sync!PeerFails(r) \/ Sync!Imported(r) \/ Sync!ContactRenamed(r)
        BY <1>0, <2>1, NextFollows, AfterFollows DEF Sync!PeerFails, Sync!Imported, Sync!ContactRenamed
    <2>2. CASE Sync!Resolved(r)
        <3>1. CASE Sync!AfterContact(r)
            BY <1>0, <3>1, AfterFollows
        <3>2. CASE Sync!Set(r, [job[r] EXCEPT !.pc = "read"]) /\ UNCHANGED <<synced, complete>>
            <4> DEFINE j0 == [job[r] EXCEPT !.pc = "read"]
            <4>1. j0 \in CallsOf /\ Follow(j0)
                BY <1>0 DEF CallsOf, Follow, Named, Copying
            <4> HIDE DEF j0
            <4> QED BY <1>5, <3>2, <4>1 DEF Sync!Set, j0
        <3> QED BY <2>2, <3>1, <3>2 DEF Sync!Resolved
    <2>3. CASE Sync!ContactRead(r)
        <3>1. CASE Sync!AfterContact(r)
            BY <1>0, <3>1, AfterFollows
        <3>2. CASE Sync!NextPeer(r, job[r])
            BY <1>0, <3>2, NextFollows
        <3>3. CASE /\ Sync!Renames(r, contact[p]) /\ UNCHANGED <<synced, complete>>
                   /\ Sync!Set(r, [job[r] EXCEPT !.pc = "rename", !.read = contact[p]])
            <4> DEFINE j0 == [job[r] EXCEPT !.pc = "rename", !.read = contact[p]]
            <4>1. j0 \in CallsOf
                BY <1>0, <1>2 DEF CallsOf, Copying
            <4>2. job[r].renames /\ job[r].names[job[r].p] # "generic"
                BY <3>3 DEF Sync!Renames, Sync!IsGeneric
            <4>3. Follow(j0)
                BY <1>0, <1>2, <4>2 DEF CallsOf, Follow, Named, Copying
            <4> HIDE DEF j0
            <4> QED BY <1>5, <3>3, <4>1, <4>3 DEF Sync!Set, j0
        <3> QED BY <2>3, <3>1, <3>2, <3>3 DEF Sync!ContactRead, p
    <2> QED BY <2>1, <2>2, <2>3
<1> QED BY <1>1, <1>4, <1>6 DEF Copies

----------------------------------------------------------------------------
(* The steps of the invariant.                                             *)

LEMMA CopiesKeep ==
    ASSUME Sync!SyncAssumption, SyncInv, NEW r \in Calls, Copies(r) PROVE SyncInv'
<1>1. PICK j \in CallsOf : job' = [job EXCEPT ![r] = j] /\ Follow(j) /\ Marks
    BY DEF Copies
<1>2. job \in [Calls -> CallsOf] /\ bale \in [Sync!Peers -> Shown \union {""}]
      /\ event \in [pc : {"idle", "look", "write"}, p : Nat, name : Given, read : Given]
      /\ (event.pc # "idle" => event.p \in Sync!Peers /\ event.name \in Shown)
    BY DEF SyncInv, SyncTypes
<1>3. job' \in [Calls -> CallsOf] /\ job'[r] = j /\ \A o \in Calls \ {r} : job'[o] = job[o]
    BY <1>1, <1>2
<1>4. SyncTypes'
    BY <1>1, <1>2, <1>3 DEF SyncTypes, Copies, Marks
<1>5. \A k : Named(k) => Named(k)'
    BY <1>1 DEF Named, Marks
<1>6. \A o \in Calls : Named(job[o])
    BY DEF SyncInv, NamesInv
<1>7. NamesInv'
    <2>1. complete' => synced'
        BY <1>1 DEF Marks
    <2>2. ASSUME NEW o \in Calls PROVE Named(job[o])'
        BY <1>1, <1>3, <1>5, <1>6 DEF Follow, Named
    <2> QED BY <2>1, <2>2 DEF NamesInv
<1>8. PagesInv'
    <2>1. Removes(j)'
        BY <1>1 DEF Removes, Follow, Copying
    <2>2. \A o \in Calls \ {r} : Removes(job[o])'
        BY <1>3, RemovalWaits DEF Copies
    <2> QED BY <1>3, <2>1, <2>2 DEF PagesInv
<1> QED BY <1>4, <1>7, <1>8 DEF SyncInv

\* What leaves the calls alone and takes no contact.
LEMMA OthersKeep ==
    ASSUME Sync!SyncAssumption, SyncInv, job' = job, synced' = synced, complete' = complete,
           Sync!There \subseteq Sync!There', SyncTypes'
    PROVE  SyncInv'
<1>1. NamesInv'
    BY DEF SyncInv, NamesInv, Named
<1>2. PagesInv'
    BY RemovalWaits DEF PagesInv
<1> QED BY <1>1, <1>2 DEF SyncInv

LEMMA MessagesKeep ==
    ASSUME Sync!SyncAssumption, SyncInv,
           Sync!HookHandled \/ Sync!Looks \/ Sync!Looked \/ Sync!Repaired
           \/ (\E p \in Sync!Peers : Sync!AgentNames(p) \/ Sync!ShowsAnother(p))
           \/ UNCHANGED Sync!syncVars
    PROVE  SyncInv'
<1> DEFINE Messages == [pc : {"idle", "look", "write"}, p : Nat, name : Given, read : Given]
<1>0. /\ bale \in [Sync!Peers -> Shown \union {""}] /\ contact \in [Sync!Peers -> Given]
      /\ synced \in BOOLEAN /\ complete \in BOOLEAN
      /\ job \in [Calls -> CallsOf] /\ event \in Messages /\ spent \in Spendings
      /\ event.pc # "idle" => event.p \in Sync!Peers /\ event.name \in Shown
      /\ Sync!Peers \subseteq Nat
    <2>1. Sync!Peers \subseteq Nat
        BY DEF Sync!Peers
    <2> QED BY <2>1 DEF SyncInv, SyncTypes
<1>1. job' = job /\ synced' = synced /\ complete' = complete
    BY DEF Sync!HookHandled, Sync!Looks, Sync!Looked, Sync!Repaired, Sync!AgentNames,
           Sync!ShowsAnother, Sync!syncVars
<1>2. spent' \in Spendings
    BY <1>0, SpendTyped DEF Sync!HookHandled, Sync!Looks, Sync!Looked, Sync!Repaired,
           Sync!AgentNames, Sync!ShowsAnother, Sync!syncVars
<1>3. bale' \in [Sync!Peers -> Shown \union {""}]
    BY <1>0 DEF Sync!HookHandled, Sync!Looks, Sync!Looked, Sync!Repaired, Sync!AgentNames,
           Sync!ShowsAnother, Sync!syncVars, Sync!remoteVars, Shown
<1>4. ASSUME contact' = contact PROVE contact' \in [Sync!Peers -> Given] /\ Sync!There \subseteq Sync!There'
    BY <1>0, <1>4 DEF Sync!There
<1>5. contact' \in [Sync!Peers -> Given] /\ Sync!There \subseteq Sync!There'
    <2>1. CASE Sync!Looks
        <3>1. PICK p \in Sync!Peers :
                 \/ contact' = [contact EXCEPT ![p] = IF bale[p] = "" THEN "generic" ELSE bale[p]]
                 \/ contact' = contact
            BY <2>1 DEF Sync!Looks
        <3>2. (IF bale[p] = "" THEN "generic" ELSE bale[p]) \in Given \ {"none"}
            BY <1>0 DEF Given, Made, Shown
        <3> QED BY <1>4, <3>1, <3>2, ContactTyped
    <2>2. CASE Sync!Repaired
        <3>1. /\ event.p \in Sync!Peers /\ event.name \in Given \ {"none"}
              /\ contact' = contact \/ contact' = [contact EXCEPT ![event.p] = event.name]
            BY <1>0, <2>2 DEF Sync!Repaired, Sync!Written, Given, Made, Shown
        <3> QED BY <1>4, <3>1, ContactTyped
    <2>3. ASSUME NEW p \in Sync!Peers, Sync!AgentNames(p)
          PROVE  contact' \in [Sync!Peers -> Given] /\ Sync!There \subseteq Sync!There'
        <3>1. contact' = [contact EXCEPT ![p] = "agent"] /\ "agent" \in Given \ {"none"}
            BY <2>3 DEF Sync!AgentNames, Given
        <3> QED BY <3>1, ContactTyped
    <2>4. CASE Sync!HookHandled \/ Sync!Looked \/ (\E p \in Sync!Peers : Sync!ShowsAnother(p))
               \/ UNCHANGED Sync!syncVars
        BY <1>4, <2>4 DEF Sync!HookHandled, Sync!Looked, Sync!ShowsAnother, Sync!syncVars
    <2> QED BY <2>1, <2>2, <2>3, <2>4
<1>6. event' \in Messages /\ (event'.pc # "idle" => event'.p \in Sync!Peers /\ event'.name \in Shown)
    <2>1. CASE Sync!Looks
        <3>1. PICK p \in Sync!Peers :
                 \/ event' = event
                 \/ bale[p] # "" /\ event' = [pc |-> "look", p |-> p, name |-> bale[p], read |-> "none"]
            BY <2>1 DEF Sync!Looks
        <3>2. CASE event' = event
            BY <1>0, <3>2
        <3>3. CASE bale[p] # "" /\ event' = [pc |-> "look", p |-> p, name |-> bale[p], read |-> "none"]
            <4>1. bale[p] \in Shown /\ bale[p] \in Given /\ "none" \in Given /\ p \in Nat
                BY <1>0, <3>3 DEF Given, Made
            <4>2. event'.pc = "look" /\ event'.p = p /\ event'.name = bale[p]
                BY <3>3
            <4>3. event' \in Messages
                BY <3>3, <4>1
            <4> QED BY <4>1, <4>2, <4>3
        <3> QED BY <3>1, <3>2, <3>3
    <2>2. CASE Sync!Looked
        <3>1. contact[event.p] \in Given
            BY <1>0, <2>2 DEF Sync!Looked
        <3>2. event' = [event EXCEPT !.pc = "write", !.read = contact[event.p]]
              \/ event' = Sync!NoLook
            BY <2>2 DEF Sync!Looked
        <3>3. Sync!NoLook \in Messages /\ Sync!NoLook.pc = "idle"
            BY DEF Sync!NoLook, Given
        <3> QED BY <1>0, <2>2, <3>1, <3>2, <3>3 DEF Sync!Looked
    <2>3. CASE Sync!Repaired
        BY <2>3 DEF Sync!Repaired, Sync!NoLook, Given
    <2>4. CASE event' = event
        BY <1>0, <2>4
    <2> QED BY <2>1, <2>2, <2>3, <2>4 DEF Sync!HookHandled, Sync!AgentNames,
           Sync!ShowsAnother, Sync!syncVars
<1>7. SyncTypes'
    BY <1>0, <1>1, <1>2, <1>3, <1>5, <1>6 DEF SyncTypes
<1> QED BY <1>1, <1>5, <1>7, OthersKeep

----------------------------------------------------------------------------
(* The steps of a removal.                                                 *)

\* The calls, types and names of a removal's step, and of the others.
LEMMA RemovalKeeps ==
    ASSUME SyncInv, NEW r \in Calls,
           contact' \in [Sync!Peers -> Given], spent' \in Spendings,
           UNCHANGED <<bale, synced, complete, event>>,
           job' \in [Calls -> CallsOf],
           \A o \in Calls : Named(job'[o]), PagesInv'
    PROVE  SyncInv'
<1>1. SyncTypes'
    BY DEF SyncInv, SyncTypes
<1>2. NamesInv'
    <2>1. ASSUME NEW o \in Calls PROVE Named(job[o])'
        <3>1. Named(job'[o])
            OBVIOUS
        <3> QED BY <3>1 DEF Named
    <2> QED BY <2>1 DEF SyncInv, NamesInv
<1> QED BY <1>1, <1>2 DEF SyncInv

\* What a removal becomes keeps the flags; it names nobody.
LEMMA RemovalNamed ==
    ASSUME NEW j, j.kind \in Sync!Routes, NEW i, i.kind = j.kind, i.pc \in {"search", "delete"},
           i.renames = j.renames, i.early = j.early, Named(j)
    PROVE  Named(i)
BY DEF Named, Copying

\* A step that leaves the contacts alone, of a removal that has dealt with what it
\* leaves.
LEMMA AloneKeeps ==
    ASSUME Sync!SyncAssumption, SyncInv, NEW r \in Calls, NEW j \in CallsOf,
           job' = [job EXCEPT ![r] = j], Named(j), Removes(j),
           UNCHANGED <<bale, contact, synced, complete, event>>, spent' \in Spendings
    PROVE  SyncInv'
<1>1. job \in [Calls -> CallsOf] /\ contact \in [Sync!Peers -> Given]
    BY DEF SyncInv, SyncTypes
<1>2. job' \in [Calls -> CallsOf] /\ job'[r] = j /\ \A o \in Calls \ {r} : job'[o] = job[o]
    BY <1>1
<1>3. \A o \in Calls : Named(job'[o])
    BY <1>2 DEF SyncInv, NamesInv
<1>4. Sync!There' = Sync!There
    BY DEF Sync!There
<1>5. Removes(j)'
    <2>1. \A p : Sync!Rank(p)' = Sync!Rank(p)
        BY <1>4 DEF Sync!Rank
    <2> QED BY <1>4, <2>1 DEF Removes, Comes, Moved
<1>6. PagesInv'
    <2>1. \A o \in Calls \ {r} : Removes(job[o])'
        BY <1>2, <1>4, RemovalWaits
    <2> QED BY <1>2, <1>5, <2>1 DEF PagesInv
<1> QED BY <1>1, <1>2, <1>3, <1>6, RemovalKeeps

\* The contacts of the first page are behind nothing.
LEMMA RemovalBegins ==
    ASSUME Sync!SyncAssumption, SyncInv, NEW r \in Calls, Sync!Fetched(r), job[r].kind = "remove"
    PROVE  SyncInv'
<1> DEFINE j == [job[r] EXCEPT !.pc = "search", !.page = 1, !.whole = Sync!There]
<1>0. job[r] \in CallsOf /\ Named(job[r]) /\ spent \in Spendings /\ job[r].pc = "fetch"
    BY DEF SyncInv, SyncTypes, NamesInv, Sync!Fetched, Sync!At
<1>1. /\ job' = [job EXCEPT ![r] = j] /\ spent' \in Spendings
      /\ UNCHANGED <<bale, contact, synced, complete, event>>
    BY <1>0 DEF Sync!Fetched, Sync!Set, Sync!remoteVars
<1>2. Sync!There \subseteq Sync!Peers
    BY DEF Sync!There
<1>3. j \in CallsOf /\ j.pc = "search" /\ j.page = 1 /\ j.whole = Sync!There
      /\ j.kind = job[r].kind /\ j.renames = job[r].renames /\ j.early = job[r].early
    BY <1>0, <1>2 DEF CallsOf, Copying
<1> HIDE DEF j
<1>4. Named(j)
    BY <1>0, <1>3, RemovalNamed DEF CallsOf, Sync!Routes
<1>5. \A p \in Sync!There : Sync!Rank(p) > 0
    <2> SUFFICES ASSUME NEW p \in Sync!There PROVE Sync!Rank(p) > 0
        OBVIOUS
    <2> DEFINE L == {q \in Sync!There : q <= p}
    <2>1. p \in Nat /\ p <= p
        BY <1>2 DEF Sync!Peers
    <2>2. p \in L /\ L \subseteq Sync!Peers
        BY <1>2, <2>1
    <2>3. Sync!Rank(p) = Cardinality(L)
        BY SyncCardinality DEF Sync!Rank
    <2> HIDE DEF L
    <2>4. IsFiniteSet(L) /\ Cardinality(L) \in Nat
        BY <2>2, RanksCount
    <2>5. Cardinality(L) # 0
        BY <2>2, <2>4, FS_EmptySet
    <2> QED BY <2>3, <2>4, <2>5
<1>6. Removes(j)
    <2>1. (1 - 1) * PageSize = 0
        BY DEF Sync!SyncAssumption
    <2> QED BY <1>3, <1>5, <2>1 DEF Removes, Comes
<1> QED BY <1>1, <1>3, <1>4, <1>6, AloneKeeps

\* A page is asked for.
LEMMA SearchedKeeps ==
    ASSUME Sync!SyncAssumption, SyncInv, NEW r \in Calls, Sync!Searched(r)
    PROVE  SyncInv'
<1>0. job[r] \in CallsOf /\ Named(job[r]) /\ Removes(job[r]) /\ spent \in Spendings
      /\ job[r].pc = "search"
    BY DEF SyncInv, SyncTypes, NamesInv, PagesInv, Sync!Searched, Sync!At
<1>1. spent' \in Spendings /\ UNCHANGED <<bale, contact, synced, complete, event>>
    BY <1>0 DEF Sync!Searched, Sync!remoteVars
<1>2. CASE Sync!Page(job[r].page) = {}
    <2>1. job' = [job EXCEPT ![r] = Sync!NoCall]
        BY <1>2 DEF Sync!Searched, Sync!Set
    <2>2. Removes(Sync!NoCall)
        BY DEF Removes, Sync!NoCall
    <2> QED BY <1>1, <2>1, <2>2, NoCallFollows, AloneKeeps DEF Follow
<1>3. CASE Sync!Page(job[r].page) # {}
    <2> DEFINE j == [job[r] EXCEPT !.pc = "delete", !.left = Sync!Page(job[r].page)]
    <2>1. job' = [job EXCEPT ![r] = j]
        BY <1>3 DEF Sync!Searched, Sync!Set
    <2>2. Sync!Page(job[r].page) \subseteq Sync!Peers
        BY DEF Sync!Page, Sync!There
    <2>3. j \in CallsOf /\ j.pc = "delete" /\ j.page = job[r].page /\ j.whole = job[r].whole
          /\ j.gone = job[r].gone /\ j.left = Sync!Page(job[r].page)
          /\ j.kind = job[r].kind /\ j.renames = job[r].renames /\ j.early = job[r].early
        BY <1>0, <2>2 DEF CallsOf, Copying
    <2> HIDE DEF j
    <2>4. Named(j)
        BY <1>0, <2>3, RemovalNamed DEF Named
    <2>5. ASSUME NEW p \in Sync!There, Sync!Rank(p) > (job[r].page - 1) * PageSize
          PROVE  p \in Sync!Page(job[r].page) \/ Sync!Rank(p) > job[r].page * PageSize
        <3>1. Sync!Rank(p) \in Nat
            BY RankNat
        <3>2. /\ job[r].page - 1 \in Nat /\ job[r].page \in Nat /\ PageSize \in Nat
            BY <1>0 DEF Removes, CallsOf, Sync!SyncAssumption
        <3>3. (job[r].page - 1) * PageSize \in Nat /\ job[r].page * PageSize \in Nat
            BY <3>2
        <3> QED BY <2>5, <3>1, <3>3 DEF Sync!Page
    <2>6. Removes(j)
        BY <1>0, <1>3, <2>3, <2>5 DEF Removes, Comes, Moved
    <2> QED BY <1>1, <2>1, <2>3, <2>4, <2>6, AloneKeeps
<1> QED BY <1>2, <1>3

LEMMA SearchFailsKeeps ==
    ASSUME Sync!SyncAssumption, SyncInv, NEW r \in Calls, Sync!SearchFails(r)
    PROVE  SyncInv'
<1>1. /\ spent' \in Spendings /\ job' = [job EXCEPT ![r] = Sync!NoCall]
      /\ UNCHANGED <<bale, contact, synced, complete, event>>
    BY SpendTyped DEF Sync!SearchFails, Sync!Set, Sync!remoteVars
<1>2. Removes(Sync!NoCall)
    BY DEF Removes, Sync!NoCall
<1> QED BY <1>1, <1>2, NoCallFollows, AloneKeeps DEF Follow

\* What a removal goes on with when it has dealt with the first of what is left.
LEMMA RemovalGoesOn ==
    ASSUME NEW r \in Calls, SyncInv, job[r].pc = "delete"
    PROVE  LET c == Sync!First(job[r].left)
               j == Sync!NextOnPage(job[r])
           IN /\ c \in job[r].left /\ c \in Sync!Peers
              /\ j \in CallsOf /\ j.pc \in {"search", "delete"} /\ j.kind = job[r].kind
              /\ j.renames = job[r].renames /\ j.early = job[r].early
              /\ j.gone = job[r].gone /\ j.whole = job[r].whole
              /\ j.page \in Nat \ {0}
              /\ j.pc = "delete" =>
                    j.page = job[r].page /\ j.left = job[r].left \ {c} /\ j.left # {}
              /\ j.pc = "search" => j.page - 1 = job[r].page /\ job[r].left \ {c} = {}
<1> DEFINE c == Sync!First(job[r].left)
           rest == job[r].left \ {c}
           j1 == [job[r] EXCEPT !.pc = "search", !.left = {}, !.page = job[r].page + 1]
           j2 == [job[r] EXCEPT !.left = rest]
<1>1. job[r] \in CallsOf /\ job[r].left # {} /\ job[r].page # 0
    BY DEF SyncInv, SyncTypes, PagesInv, Removes
<1>2. job[r].left \subseteq Nat /\ job[r].left \subseteq Sync!Peers /\ job[r].page \in Nat \ {0}
    <2>1. job[r].left \subseteq Sync!Peers /\ job[r].page \in Nat
        BY <1>1 DEF CallsOf
    <2> QED BY <1>1, <2>1 DEF Sync!Peers
<1>3. c \in job[r].left
    BY <1>1, <1>2, FirstIn
<1>4. Sync!NextOnPage(job[r]) = IF rest = {} THEN j1 ELSE j2
    BY DEF Sync!NextOnPage
<1> HIDE DEF c
<1>5. /\ j1 \in CallsOf /\ j1.pc = "search" /\ j1.kind = job[r].kind
      /\ j1.renames = job[r].renames /\ j1.early = job[r].early
      /\ j1.gone = job[r].gone /\ j1.whole = job[r].whole /\ j1.page = job[r].page + 1
    <2>1. job[r].page + 1 \in Nat /\ {} \in SUBSET Sync!Peers
        BY <1>2
    <2>2. j1 \in CallsOf
        BY <1>1, <2>1 DEF CallsOf
    <2> QED BY <1>1, <2>1, <2>2 DEF CallsOf
<1>6. /\ j2 \in CallsOf /\ j2.pc = "delete" /\ j2.kind = job[r].kind
      /\ j2.renames = job[r].renames /\ j2.early = job[r].early
      /\ j2.gone = job[r].gone /\ j2.whole = job[r].whole /\ j2.page = job[r].page
      /\ j2.left = rest
    BY <1>1, <1>2 DEF CallsOf, Copying
<1>7. job[r].page + 1 \in Nat \ {0} /\ (job[r].page + 1) - 1 = job[r].page
    BY <1>2
<1> HIDE DEF j1, j2, rest
<1>8. CASE rest = {}
    BY <1>2, <1>3, <1>4, <1>5, <1>7, <1>8 DEF c, rest
<1>9. CASE rest # {}
    BY <1>2, <1>3, <1>4, <1>6, <1>9 DEF c, rest
<1> QED BY <1>8, <1>9

\* A deletion that failed is done with.
LEMMA DeleteFailsKeeps ==
    ASSUME Sync!SyncAssumption, SyncInv, NEW r \in Calls, Sync!DeleteFails(r)
    PROVE  SyncInv'
<1> DEFINE c == Sync!First(job[r].left)
           i == Sync!NextOnPage(job[r])
           j == [i EXCEPT !.whole = i.whole \ {c}]
<1>0. /\ spent' \in Spendings /\ job' = [job EXCEPT ![r] = j] /\ job[r].pc = "delete"
      /\ UNCHANGED <<bale, contact, synced, complete, event>>
    BY SpendTyped DEF Sync!DeleteFails, Sync!Set, Sync!remoteVars, Sync!At
<1>1. Named(job[r]) /\ Removes(job[r]) /\ job[r].kind \in Sync!Routes
    BY <1>0 DEF SyncInv, NamesInv, PagesInv, Named
<1>2. /\ c \in job[r].left
      /\ i \in CallsOf /\ i.pc \in {"search", "delete"} /\ i.kind = job[r].kind
      /\ i.renames = job[r].renames /\ i.early = job[r].early
      /\ i.gone = job[r].gone /\ i.whole = job[r].whole
      /\ i.page \in Nat \ {0}
      /\ i.pc = "delete" => i.page = job[r].page /\ i.left = job[r].left \ {c} /\ i.left # {}
      /\ i.pc = "search" => i.page - 1 = job[r].page /\ job[r].left \ {c} = {}
    BY <1>0, RemovalGoesOn
<1> HIDE DEF c, i
<1>3. /\ j \in CallsOf /\ j.pc = i.pc /\ j.kind = job[r].kind
      /\ j.renames = job[r].renames /\ j.early = job[r].early
      /\ j.gone = job[r].gone /\ j.whole = job[r].whole \ {c} /\ j.page = i.page /\ j.left = i.left
    BY <1>2 DEF CallsOf, Copying
<1> HIDE DEF j
<1>4. Named(j)
    BY <1>1, <1>2, <1>3, RemovalNamed
<1>5. ASSUME NEW p \in j.whole PROVE Moved(j, p) \/ Comes(j, p)
    <2>1. Moved(job[r], p) \/ p \in job[r].left \/ Sync!Rank(p) > job[r].page * PageSize
        BY <1>0, <1>1, <1>3, <1>5 DEF Removes, Comes
    <2>2. CASE Moved(job[r], p)
        BY <1>3, <2>2 DEF Moved
    <2>3. CASE p \in job[r].left \/ Sync!Rank(p) > job[r].page * PageSize
        BY <1>2, <1>3, <1>5, <2>3 DEF Comes
    <2> QED BY <2>1, <2>2, <2>3
<1>6. Removes(j)
    BY <1>0, <1>1, <1>2, <1>3, <1>5 DEF Removes
<1> QED BY <1>0, <1>3, <1>4, <1>6, AloneKeeps

\* A contact goes; those behind it move up, and every removal knows it.
LEMMA DeletedKeeps ==
    ASSUME Sync!SyncAssumption, SyncInv, NEW r \in Calls, Sync!Deleted(r)
    PROVE  SyncInv'
<1> DEFINE c == Sync!First(job[r].left)
           next == Sync!NextOnPage(job[r])
           at(o) == IF o = r THEN next ELSE job[o]
           new(j) == [j EXCEPT !.gone = j.gone \union {c}, !.whole = j.whole \ {c}]
<1>0. /\ job[r].pc = "delete" /\ contact' = [contact EXCEPT ![c] = "none"]
      /\ job' = [o \in Calls |-> IF at(o).page = 0 THEN at(o) ELSE new(at(o))]
      /\ UNCHANGED <<bale, synced, complete, event, spent>>
    BY DEF Sync!Deleted, Sync!At, Sync!remoteVars
<1>1. /\ job \in [Calls -> CallsOf] /\ contact \in [Sync!Peers -> Given]
      /\ spent \in Spendings /\ \A o \in Calls : Named(job[o]) /\ Removes(job[o])
    BY DEF SyncInv, SyncTypes, NamesInv, PagesInv
<1>2. /\ c \in job[r].left /\ c \in Sync!Peers
      /\ next \in CallsOf /\ next.pc \in {"search", "delete"} /\ next.kind = job[r].kind
      /\ next.renames = job[r].renames /\ next.early = job[r].early
      /\ next.gone = job[r].gone /\ next.whole = job[r].whole
      /\ next.page \in Nat \ {0}
      /\ next.pc = "delete" => next.page = job[r].page /\ next.left = job[r].left \ {c} /\ next.left # {}
      /\ next.pc = "search" => next.page - 1 = job[r].page /\ job[r].left \ {c} = {}
    BY <1>0, RemovalGoesOn
<1> HIDE DEF c, next
<1>3. \A o \in Calls : at(o) \in CallsOf
    BY <1>1, <1>2
<1>4. \A o \in Calls : job'[o] = IF at(o).page = 0 THEN at(o) ELSE new(at(o))
    BY <1>0
<1>5. \A j \in CallsOf : /\ new(j) \in CallsOf /\ new(j).pc = j.pc /\ new(j).kind = j.kind
                         /\ new(j).renames = j.renames /\ new(j).early = j.early
                         /\ new(j).names = j.names /\ new(j).p = j.p
                         /\ new(j).gone = j.gone \union {c} /\ new(j).whole = j.whole \ {c}
                         /\ new(j).page = j.page /\ new(j).left = j.left
    BY <1>2 DEF CallsOf, Copying
<1> HIDE DEF new, at
<1>6. job' \in [Calls -> CallsOf]
    BY <1>0, <1>3, <1>5
<1>7. \A o \in Calls : Named(job'[o])
    <2> SUFFICES ASSUME NEW o \in Calls PROVE Named(job'[o])
        OBVIOUS
    <2>1. Named(at(o))
        <3>1. Named(next)
            <4>1. Named(job[r]) /\ job[r].kind \in Sync!Routes
                BY <1>0, <1>1 DEF Named
            <4> QED BY <1>2, <4>1, RemovalNamed
        <3> QED BY <1>1, <3>1 DEF at
    <2>2. Named(new(at(o)))
        BY <1>3, <1>5, <2>1 DEF Named
    <2> QED BY <1>4, <2>1, <2>2
<1>8. contact' \in [Sync!Peers -> Given]
    BY <1>0, <1>1 DEF Given
<1>9. Sync!There' = Sync!There \ {c}
    BY <1>0, <1>1, <1>2 DEF Sync!There
<1>10. \A p \in Sync!Peers : p # c => c < p \/ Sync!Rank(p)' = Sync!Rank(p)
    <2> SUFFICES ASSUME NEW p \in Sync!Peers, p # c, ~(c < p) PROVE Sync!Rank(p)' = Sync!Rank(p)
        OBVIOUS
    <2>1. ~(c <= p)
        BY <1>2 DEF Sync!Peers
    <2>2. {q \in Sync!There' : q <= p} = {q \in Sync!There : q <= p}
        BY <1>9, <2>1
    <2> QED BY <2>2 DEF Sync!Rank
<1>11. ASSUME NEW o \in Calls PROVE Removes(job[o])'
    <2>0. PICK k \in CallsOf : k = job'[o]
        BY <1>6
    <2>1. CASE at(o).page = 0
        <3>1. o # r
            BY <1>2, <2>1 DEF at
        <3>2. k = job[o] /\ Removes(job[o]) /\ job[o].page = 0
            BY <1>1, <1>4, <2>0, <2>1, <3>1 DEF at
        <3>3. Removes(k)'
            BY <3>2 DEF Removes
        <3> QED BY <2>0, <3>3 DEF Removes
    <2>2. CASE at(o).page # 0
        <3>1. k = new(at(o))
            BY <1>4, <2>0, <2>2
        <3>2. /\ k.pc = at(o).pc /\ k.gone = at(o).gone \union {c} /\ k.whole = at(o).whole \ {c}
              /\ k.page = at(o).page /\ k.left = at(o).left
            BY <1>3, <1>5, <3>1
        <3>3. /\ at(o).gone = job[o].gone /\ at(o).whole = job[o].whole
              /\ job[o].page # 0 /\ Removes(job[o])
            BY <1>0, <1>1, <1>2, <2>2 DEF at, Removes
        <3>4. job[o].whole \subseteq Sync!There
            BY <3>3 DEF Removes
        <3>5. ASSUME NEW p \in k.whole PROVE Moved(k, p) \/ Comes(k, p)'
            <4>1. p # c /\ p \in job[o].whole /\ p \in Sync!Peers
                BY <3>2, <3>3, <3>4, <3>5 DEF Sync!There
            <4>2. CASE Moved(job[o], p) \/ c < p
                BY <3>2, <3>3, <4>2 DEF Moved
            <4>3. CASE ~Moved(job[o], p) /\ ~(c < p)
                <5>1. Comes(job[o], p) /\ Sync!Rank(p)' = Sync!Rank(p)
                    BY <1>10, <3>3, <4>1, <4>3 DEF Removes
                <5>2. CASE o # r
                    BY <3>2, <5>1, <5>2 DEF at, Comes
                <5>3. CASE o = r
                    <6>1. p \in job[r].left \/ Sync!Rank(p) > job[r].page * PageSize
                        BY <1>0, <5>1, <5>3 DEF Comes
                    <6>2. /\ k.pc = next.pc /\ k.page = next.page /\ k.left = next.left
                        BY <3>2, <5>3 DEF at
                    <6>3. CASE next.pc = "delete"
                        BY <1>2, <4>1, <5>1, <6>1, <6>2, <6>3 DEF Comes
                    <6>4. CASE next.pc = "search"
                        BY <1>2, <4>1, <5>1, <6>1, <6>2, <6>4 DEF Comes
                    <6> QED BY <1>2, <6>3, <6>4
                <5> QED BY <5>2, <5>3
            <4> QED BY <4>2, <4>3
        <3>6. k.pc \in {"search", "delete"} /\ (k.pc = "delete" => k.left # {})
            <4>1. CASE o = r
                BY <1>2, <3>2, <4>1 DEF at
            <4>2. CASE o # r
                BY <3>2, <3>3, <4>2 DEF at, Removes
            <4> QED BY <4>1, <4>2
        <3>7. k.whole \subseteq Sync!There'
            BY <1>9, <3>2, <3>3, <3>4
        <3>8. Removes(k)'
            BY <2>2, <3>2, <3>5, <3>6, <3>7 DEF Removes, Moved
        <3> QED BY <2>0, <3>8 DEF Removes, Comes, Moved
    <2> QED BY <2>1, <2>2
<1>12. PagesInv'
    BY <1>11 DEF PagesInv
<1> QED BY <1>0, <1>1, <1>6, <1>7, <1>8, <1>12, RemovalKeeps

----------------------------------------------------------------------------
(* The invariant, and what every step keeps.                               *)

LEMMA SyncInvStep ==
    ASSUME Sync!SyncAssumption, SyncInv, [Sync!SyncNext]_(Sync!syncVars) PROVE SyncInv'
<1>1. ASSUME NEW r \in Calls, Sync!Call(r) PROVE SyncInv'
    <2>1. CASE Sync!Begins(r)
        BY <2>1, BeginsCopies, CopiesKeep
    <2>2. CASE Sync!Fetched(r) /\ job[r].kind = "remove"
        BY <2>2, RemovalBegins
    <2>3. CASE (Sync!Fetched(r) /\ job[r].kind # "remove") \/ Sync!FetchedNameless(r)
               \/ Sync!FetchFails(r)
        BY <2>3, FetchedCopies, CopiesKeep
    <2>4. CASE Sync!Resolved(r) \/ Sync!ContactRead(r) \/ Sync!ContactRenamed(r)
               \/ Sync!PeerFails(r) \/ Sync!Imported(r)
        BY <2>4, OnePeerCopies, CopiesKeep
    <2>5. CASE Sync!Searched(r) \/ Sync!Deleted(r) \/ Sync!DeleteFails(r) \/ Sync!SearchFails(r)
        BY <2>5, SearchedKeeps, DeletedKeeps, DeleteFailsKeeps, SearchFailsKeeps
    <2> QED BY <1>1, <2>1, <2>2, <2>3, <2>4, <2>5 DEF Sync!Call
<1> QED BY <1>1, MessagesKeep DEF Sync!SyncNext

\* Only a call and a message about a contact write its name.
LEMMA NamesStayStep ==
    ASSUME Sync!SyncAssumption, SyncInv, [Sync!SyncNext]_(Sync!syncVars) PROVE Sync!NamesStay
<1> SUFFICES ASSUME NEW p \in Sync!Peers, contact'[p] # contact[p]
             PROVE  /\ contact[p] = "agent" /\ contact'[p] \notin {"agent", "none"} =>
                          \/ \E r \in Calls : /\ Sync!At(r, "rename") /\ job[r].p = p
                                              /\ \/ job[r].kind = "dialogs" \/ job[r].early
                                                 \/ job[r].read # "agent"
                          \/ event.pc = "write" /\ event.p = p
                    /\ contact'[p] \in {"generic", "fallback"} =>
                          \/ contact[p] = "none"
                          \/ /\ contact'[p] = "fallback"
                             /\ \E r \in Calls : Sync!At(r, "rename") /\ job[r].kind = "dialogs"
    BY DEF Sync!NamesStay
<1>0. contact \in [Sync!Peers -> Given] /\ event.name \in Given
      /\ (event.pc # "idle" => event.p \in Sync!Peers /\ event.name \in Shown)
    BY DEF SyncInv, SyncTypes
<1>1. CASE contact[p] = "none"
    BY <1>1
<1>2. CASE contact'[p] \in {"none", "agent"}
    BY <1>2
<1>3. CASE contact[p] # "none" /\ contact'[p] \notin {"none", "agent"}
    <2>1. ASSUME NEW r \in Calls, Sync!ContactRenamed(r)
          PROVE  /\ Sync!At(r, "rename") /\ job[r].p = p
                 /\ job[r].kind = "dialogs" \/ (job[r].early /\ contact'[p] # "fallback")
                 /\ contact'[p] # "generic"
        <3>1. Named(job[r]) /\ job[r].pc = "rename" /\ job[r].pc \in Copying
            BY <2>1 DEF SyncInv, NamesInv, Sync!ContactRenamed, Sync!At, Copying
        <3>2. job[r].p = p /\ contact'[p] = job[r].names[p]
            BY <1>0, <2>1, <3>1 DEF Sync!ContactRenamed, Sync!Written, Named
        <3>3. job[r].kind = "contacts" => job[r].renames
            BY <3>1 DEF Named
        <3> QED BY <2>1, <3>1, <3>2, <3>3 DEF Named, Sync!At
    <2>2. CASE Sync!Repaired
        <3>1. event.pc = "write" /\ event.p = p /\ contact'[p] = event.name
            BY <1>0, <2>2 DEF Sync!Repaired, Sync!Written
        <3> QED BY <1>0, <3>1 DEF Shown
    <2>3. CASE Sync!Looks
        BY <1>0, <1>3, <2>3 DEF Sync!Looks
    <2>4. ASSUME NEW q \in Sync!Peers, Sync!AgentNames(q) PROVE FALSE
        BY <1>0, <1>3, <2>4 DEF Sync!AgentNames
    <2>5. ASSUME NEW r \in Calls, Sync!Resolved(r) PROVE FALSE
        BY <1>0, <1>3, <2>5 DEF Sync!Resolved
    <2>6. ASSUME NEW r \in Calls, Sync!Deleted(r) PROVE FALSE
        BY <1>0, <1>3, <2>6 DEF Sync!Deleted
    <2>7. CASE contact' = contact
        BY <2>7
    <2> QED BY <2>1, <2>2, <2>3, <2>4, <2>5, <2>6, <2>7 DEF Sync!SyncNext, Sync!Call,
           Sync!syncVars, Sync!Begins, Sync!Fetched, Sync!FetchedNameless, Sync!FetchFails,
           Sync!ContactRead, Sync!PeerFails, Sync!Imported, Sync!Searched, Sync!DeleteFails,
           Sync!SearchFails, Sync!HookHandled, Sync!Looked, Sync!ShowsAnother
<1> QED BY <1>1, <1>2, <1>3

\* A removal that meets no failure ends with an empty page.
LEMMA RemovalLeavesStep ==
    ASSUME Sync!SyncAssumption, SyncInv, [Sync!SyncNext]_(Sync!syncVars)
    PROVE  Sync!RemovalLeavesMoved
<1> SUFFICES ASSUME NEW r \in Calls, Sync!At(r, "search"), job'[r] = Sync!NoCall, spent' = spent,
                    NEW p \in job[r].whole \intersect Sync!There
             PROVE  \E q \in job[r].gone : q < p
    BY DEF Sync!RemovalLeavesMoved
<1>0. job \in [Calls -> CallsOf] /\ job[r].pc = "search" /\ Removes(job[r])
      /\ Sync!NoCall.pc = "idle"
    BY DEF SyncInv, SyncTypes, PagesInv, Sync!At, Sync!NoCall
<1>1. job[r].page \in Nat \ {0}
    BY <1>0 DEF Removes, CallsOf
<1>2. Moved(job[r], p) \/ Sync!Rank(p) > (job[r].page - 1) * PageSize
    BY <1>0, <1>1 DEF Removes, Comes
<1>3. Sync!Searched(r) /\ Sync!Page(job[r].page) = {}
    <2>1. ASSUME NEW o \in Calls, NEW j, o # r, job' = [job EXCEPT ![o] = j] PROVE FALSE
        BY <1>0, <2>1
    <2>2. CASE job' = job
        BY <1>0, <2>2
    <2>3. ASSUME NEW o \in Calls, Sync!Deleted(o) PROVE FALSE
        <3>1. o # r
            BY <1>0, <2>3 DEF Sync!Deleted, Sync!At
        <3>2. job'[r] = [job[r] EXCEPT !.gone = job[r].gone \union {Sync!First(job[o].left)},
                                       !.whole = job[r].whole \ {Sync!First(job[o].left)}]
            BY <1>1, <2>3, <3>1 DEF Sync!Deleted
        <3>3. job'[r].pc = job[r].pc
            BY <1>0, <3>2 DEF CallsOf
        <3> QED BY <1>0, <3>3
    <2>4. ASSUME NEW o \in Calls, Copies(o), job[o].pc # "search" PROVE FALSE
        BY <1>0, <2>1, <2>4 DEF Copies
    <2>5. ASSUME NEW o \in Calls, Sync!Searched(o)
          PROVE  o = r /\ Sync!Page(job[r].page) = {}
        <3>1. o = r
            BY <2>1, <2>5 DEF Sync!Searched, Sync!Set
        <3>2. CASE Sync!Page(job[r].page) # {}
            <4>1. job'[r] = [job[r] EXCEPT !.pc = "delete", !.left = Sync!Page(job[r].page)]
                BY <1>0, <2>5, <3>1, <3>2 DEF Sync!Searched, Sync!Set
            <4>2. job'[r].pc = "delete"
                BY <1>0, <4>1 DEF CallsOf
            <4> QED BY <1>0, <4>2
        <3> QED BY <3>1, <3>2
    <2>6. ASSUME NEW o \in Calls, Sync!Call(o)
          PROVE  Sync!Searched(o)
        <3>1. CASE Sync!Begins(o) \/ Sync!FetchedNameless(o) \/ Sync!FetchFails(o) \/ Sync!PeerFails(o)
                   \/ Sync!DeleteFails(o) \/ Sync!SearchFails(o)
            BY <3>1, SpendTyped DEF Sync!Begins, Sync!FetchedNameless, Sync!FetchFails,
               Sync!PeerFails, Sync!DeleteFails, Sync!SearchFails
        <3>2. CASE Sync!Resolved(o) \/ Sync!ContactRead(o) \/ Sync!ContactRenamed(o)
                   \/ Sync!Imported(o)
            <4>1. job[o].pc # "search"
                BY <3>2 DEF Sync!Resolved, Sync!ContactRead, Sync!ContactRenamed, Sync!Imported, Sync!At
            <4> QED BY <2>4, <3>2, <4>1, OnePeerCopies
        <3>3. CASE Sync!Fetched(o)
            <4>1. o # r
                BY <1>0, <3>3 DEF Sync!Fetched, Sync!At
            <4>2. job'[r] = job[r]
                BY <1>0, <3>3, <4>1 DEF Sync!Fetched, Sync!Set
            <4> QED BY <1>0, <4>2
        <3> QED BY <2>3, <2>6, <3>1, <3>2, <3>3 DEF Sync!Call
    <2> QED BY <2>2, <2>5, <2>6 DEF Sync!SyncNext, Sync!syncVars, Sync!HookHandled, Sync!Looks,
           Sync!Looked, Sync!Repaired, Sync!AgentNames, Sync!ShowsAnother
<1> QED BY <1>1, <1>2, <1>3, NoGaps DEF Moved

LEMMA SyncInvariant == Sync!SyncAssumption => (Sync!SyncSpec => []SyncInv)
<1> SUFFICES ASSUME Sync!SyncAssumption PROVE Sync!SyncSpec => []SyncInv
    OBVIOUS
<1>1. SyncInv /\ [Sync!SyncNext]_(Sync!syncVars) => SyncInv'
    BY SyncInvStep
<1>2. Sync!SyncInit => SyncInv
    BY SyncInvInit
<1> QED BY <1>1, <1>2, PTL DEF Sync!SyncSpec

\* The name an agent gave a contact stays, but for what the routes are for and for
\* looks that were overtaken (workflows.py, bridge.py).
THEOREM GivenNamesStay ==
    Sync!SyncAssumption => (Sync!SyncSpec => [][Sync!NamesStay]_(Sync!syncVars))
<1> SUFFICES ASSUME Sync!SyncAssumption PROVE Sync!SyncSpec => [][Sync!NamesStay]_(Sync!syncVars)
    OBVIOUS
<1>1. SyncInv /\ [Sync!SyncNext]_(Sync!syncVars) => Sync!NamesStay
    BY NamesStayStep
<1> QED BY <1>1, SyncInvariant, PTL DEF Sync!SyncSpec

\* A removal that meets no failure leaves only what moved up a page
\* (bridge.py, remove_bale_pv_contacts_from_chatwoot).
THEOREM RemovalLeavesTheMoved ==
    Sync!SyncAssumption => (Sync!SyncSpec => [][Sync!RemovalLeavesMoved]_(Sync!syncVars))
<1> SUFFICES ASSUME Sync!SyncAssumption
             PROVE  Sync!SyncSpec => [][Sync!RemovalLeavesMoved]_(Sync!syncVars)
    OBVIOUS
<1>1. SyncInv /\ [Sync!SyncNext]_(Sync!syncVars) => Sync!RemovalLeavesMoved
    BY RemovalLeavesStep
<1> QED BY <1>1, SyncInvariant, PTL DEF Sync!SyncSpec

----------------------------------------------------------------------------
(* The generic bridge (Bridge).                                            *)

CONSTANTS Msgs, Answers, MaxParts, MaxConvs, MaxAgent, MaxIngests, MaxWebhooks
VARIABLES reopen, rows, active, heard, posts, maps, t, answer, status, w, shown, runs,
          lost, moved, spoiled

Br == INSTANCE Bridge

LEMMA BrCardinality == \A S : Br!Cardinality(S) = Cardinality(S)
BY DEF Br!Cardinality, Cardinality

ConvStatus == {"open", "resolved", "deleted"}

BrSteps == {"idle", "listing", "opening", "creating", "posting", "posted", "recovering",
            "reopening", "recreating", "deleting", "editing"}

BrEvent == [p : Msgs, text : Nat, gone : BOOLEAN]
BrTx == [c : Nat, seen : SUBSET Nat]
BrPost == [conv : Nat, p : Msgs, text : Nat, gone : BOOLEAN]
BrMap == [conv : Nat, p : Msgs, post : Nat, text : Nat]

BrTask == [pc : BrSteps, e : BrEvent \union {Br!NoEvent}, row : Nat, c : Nat, tx : BrTx,
           saw : ConvStatus \union {"unknown"}, post : Nat, again : BOOLEAN]

BrRun == [pc : {"idle", "connecting", "sending", "recalling"}, a : Answers \union {"none"},
          tx : BrTx, left : SUBSET Br!Parts, failed : BOOLEAN]

\* The values: of the conversations, of the customer's messages, of the answers.
ConvTypes ==
    /\ convs \in Seq(ConvStatus) /\ rows \subseteq Nat /\ active \subseteq Nat
    /\ reopen \in BOOLEAN
BrInTypes ==
    /\ heard \subseteq BrEvent /\ posts \in Seq(BrPost) /\ maps \subseteq BrMap
    /\ t \in BrTask /\ (t.pc # "idle" => t.e \in BrEvent)
    /\ lost \in [Msgs -> Nat] /\ moved \in [Msgs -> Nat]
BrOutTypes ==
    /\ answer \in [Answers -> [c : Nat, quotes : Nat, gone : BOOLEAN]]
    /\ status \in [Answers -> {"none", "sent", "failed", "skipped"}]
    /\ w \in BrRun /\ (w.pc # "idle" => w.a \in Answers)
    /\ shown \in [Answers -> [Br!Parts -> Nat]] /\ spoiled \in [Answers -> Nat]

PostsOf(p) == {k \in DOMAIN posts : posts[k].p = p}
HasMapping(p) == \E m \in maps : m.p = p

\* A message is in Chatwoot once for each history that names it, and once when it
\* is mapped or about to be.
MessagesCounted ==
    \A p \in Msgs :
        Cardinality(PostsOf(p)) <= lost[p] + moved[p]
            + (IF HasMapping(p) \/ (t.pc = "posted" /\ t.e.p = p) THEN 1 ELSE 0)

\* A part of an answer is on the platform once for each run that did not get
\* through, and once when the answer is mapped as sent or the part just was.
AnswersCounted ==
    \A a \in Answers, k \in Br!Parts :
        shown[a][k] <= spoiled[a]
            + (IF status[a] = "sent" \/ (w.pc = "sending" /\ w.a = a /\ k \notin w.left)
               THEN 1 ELSE 0)

\* What is posted at the first attempt is not mapped where it goes; and where a
\* message goes was not resolved at the last look, unless it is about to be opened.
Lookup ==
    /\ t.pc = "posting" /\ ~t.again => Br!MappedIn(t.c, t.e.p) = {}
    /\ t.pc # "opening" => t.saw # "resolved"

\* An answer under way was not sent before.
NotYetSent == w.pc \in {"connecting", "sending"} => status[w.a] # "sent"

IngestInv == BrInTypes /\ MessagesCounted /\ Lookup
AnswerInv == BrOutTypes /\ AnswersCounted /\ NotYetSent

BridgeInv == ConvTypes /\ IngestInv /\ AnswerInv

----------------------------------------------------------------------------
(* The conversations.                                                      *)

\* What a number of conversations has a last one, which is in it.
LEMMA Largest ==
    ASSUME NEW n \in Nat, NEW S, S \subseteq 1 .. n, S # {}
    PROVE  \E m \in S : \A k \in S : k <= m
<1> DEFINE D == {n - k : k \in S}
<1>1. D \subseteq Nat /\ D # {}
    <2>1. \A k \in S : n - k \in Nat
        OBVIOUS
    <2> QED BY <2>1, Zenon
<1>2. PICK d \in D : \A e \in D : d <= e
    BY <1>1, Smallest
<1>3. PICK m \in S : d = n - m
    OBVIOUS
<1>4. \A k \in S : n - m <= n - k
    BY <1>2, <1>3
<1> QED BY <1>4

\* What the listing says is about conversations that were created.
BrList(list) ==
    /\ DOMAIN list \subseteq DOMAIN convs
    /\ \A c \in DOMAIN list : c \in Nat \ {0} /\ list[c] \in ConvStatus

LEMMA BrListed ==
    ASSUME ConvTypes, NEW list \in {Br!Listing, <<>>}
    PROVE  BrList(list)
BY DEF ConvTypes, BrList, Br!Listing, Br!There

\* A selected conversation is in the list, and resolved only where it is reopened.
LEMMA BrSelects ==
    ASSUME ConvTypes, NEW list, BrList(list), NEW other
    PROVE  LET c == Br!Select(list, other)
           IN c # 0 => /\ c \in DOMAIN list /\ c \in Nat /\ list[c] \in ConvStatus
                       /\ list[c] = "resolved" => reopen = TRUE
<1>1. DOMAIN convs = 1 .. Len(convs) /\ Len(convs) \in Nat
    BY DEF ConvTypes
<1>2. \A S \in SUBSET DOMAIN list : Br!Newest(S) # 0 => S # {} /\ Br!Newest(S) \in S
    <2> SUFFICES ASSUME NEW S \in SUBSET DOMAIN list, S # {}
                 PROVE  Br!Newest(S) \in S
        BY DEF Br!Newest
    <2>1. \E m \in S : \A k \in S : k <= m
        BY <1>1, Largest DEF BrList
    <2> QED BY <2>1 DEF Br!Newest
<1> DEFINE known == DOMAIN list \ {other}
           unresolved == {c \in known : list[c] # "resolved"}
<1>3. known \in SUBSET DOMAIN list /\ unresolved \in SUBSET DOMAIN list
    OBVIOUS
<1>4. CASE unresolved # {}
    <2>1. Br!Select(list, other) = Br!Newest(unresolved)
        BY <1>4 DEF Br!Select
    <2> QED BY <2>1, <1>2, <1>3 DEF BrList
<1>5. CASE unresolved = {}
    <2>1. Br!Select(list, other) = IF reopen THEN Br!Newest(known) ELSE 0
        BY <1>5 DEF Br!Select
    <2>2. Br!Newest(known) # 0 => Br!Newest(known) \in known
        BY <1>2, <1>3
    <2> QED BY <2>1, <2>2 DEF BrList, ConvTypes
<1> QED BY <1>4, <1>5

----------------------------------------------------------------------------
(* The ingestion.                                                          *)

\* An ingestion on its way to the post, or at its end.
BrFit(s) ==
    /\ s \in BrTask /\ (s.pc # "idle" => s.e \in BrEvent)
    /\ s.pc # "posted"
    /\ s.pc = "posting" /\ ~s.again => Br!MappedIn(s.c, s.e.p) = {}
    /\ s.pc # "opening" => s.saw # "resolved"

LEMMA BrIdleFits == BrFit(Br!IdleTask)
BY DEF BrFit, BrTask, BrSteps, BrTx, Br!IdleTask, Br!NoTx, ConvStatus

LEMMA BrDecided ==
    ASSUME NEW s \in BrTask, s.e \in BrEvent, s.saw # "resolved"
    PROVE  BrFit(Br!Decided(s))
<1>1. \A pc \in {"deleting", "editing"} : BrFit([s EXCEPT !.pc = pc])
    BY DEF BrFit, BrTask, BrSteps
<1>2. Br!MappedIn(s.c, s.e.p) = {} => BrFit([s EXCEPT !.pc = "posting"])
    BY DEF BrFit, BrTask, BrSteps, Br!MappedIn
<1> QED BY <1>1, <1>2, BrIdleFits DEF Br!Decided

LEMMA BrFlush ==
    ASSUME ConvTypes, NEW c \in Nat PROVE Br!Flush(c) \in BrTx
BY DEF ConvTypes, BrTx, Br!Flush

LEMMA BrSettled ==
    ASSUME ConvTypes, NEW s \in BrTask, s.e \in BrEvent, s.saw # "resolved", NEW c \in Nat
    PROVE  BrFit(Br!Settled(s, c))
<1>1. /\ [s EXCEPT !.c = c] \in BrTask
      /\ [s EXCEPT !.c = c].e = s.e /\ [s EXCEPT !.c = c].saw = s.saw
    BY DEF BrTask
<1>2. /\ [s EXCEPT !.c = c, !.tx = Br!Flush(c)] \in BrTask
      /\ [s EXCEPT !.c = c, !.tx = Br!Flush(c)].e = s.e
      /\ [s EXCEPT !.c = c, !.tx = Br!Flush(c)].saw = s.saw
    BY BrFlush DEF BrTask
<1> QED BY <1>1, <1>2, BrDecided, BrIdleFits DEF Br!Settled

LEMMA BrOpened ==
    ASSUME ConvTypes, NEW s \in BrTask, s.e \in BrEvent, NEW c \in Nat,
           NEW known \in ConvStatus, known = "resolved" => reopen = TRUE
    PROVE  BrFit(Br!Opened(s, c, known))
<1>1. BrFit([s EXCEPT !.pc = "opening", !.c = c, !.saw = known])
    BY DEF BrFit, BrTask, BrSteps
<1>2. BrFit([s EXCEPT !.pc = "opening", !.c = c, !.saw = known, !.tx = Br!Flush(c)])
    BY BrFlush DEF BrFit, BrTask, BrSteps
<1>3. /\ [s EXCEPT !.saw = known] \in BrTask /\ [s EXCEPT !.saw = known].e = s.e
      /\ [s EXCEPT !.saw = known].saw = known
    BY DEF BrTask
<1>4. known # "resolved" => BrFit(Br!Settled([s EXCEPT !.saw = known], c))
    BY <1>3, BrSettled
<1> QED BY <1>1, <1>2, <1>4, BrIdleFits DEF Br!Opened

\* The first look for a conversation.
LEMMA BrLooks ==
    ASSUME ConvTypes, t \in BrTask, t.e \in BrEvent, t.saw # "resolved",
           NEW list \in {Br!Listing, <<>>}
    PROVE  BrFit(Br!FirstConversation(list)) /\ BrFit(Br!NextConversation(list))
<1>1. BrList(list)
    BY BrListed
<1>2. BrFit([t EXCEPT !.pc = "creating"])
    BY DEF BrFit, BrTask, BrSteps
<1>3. \A other : LET c == Br!Select(list, other)
                 IN c # 0 => BrFit(Br!Opened(t, c, list[c]))
    BY <1>1, BrSelects, BrOpened
<1>4. t.row \in DOMAIN list /\ list[t.row] # "resolved" => BrFit(Br!Opened(t, t.row, list[t.row]))
    BY <1>1, BrOpened DEF BrList
<1>5. BrFit(Br!Settled(t, t.row))
    BY BrSettled DEF BrTask
<1>6. BrFit(Br!FirstConversation(list))
    BY <1>2, <1>3 DEF Br!FirstConversation
<1>7. BrFit(Br!NextConversation(list))
    <2> DEFINE known == t.row \in DOMAIN list
               done == known /\ list[t.row] = "resolved"
               other == Br!Select(list, t.row)
               c == IF known /\ ~done THEN t.row ELSE Br!Select(list, 0)
    <2>1. Br!NextConversation(list) =
            CASE done /\ ~reopen /\ other # 0 -> Br!Opened(t, other, list[other])
              [] done /\ ~reopen /\ other = 0 -> [t EXCEPT !.pc = "creating"]
              [] ~(done /\ ~reopen) /\ c # 0 -> Br!Opened(t, c, list[c])
              [] OTHER -> Br!Settled(t, t.row)
        BY DEF Br!NextConversation
    <2>2. other # 0 => BrFit(Br!Opened(t, other, list[other]))
        BY <1>3
    <2>3. c # 0 => BrFit(Br!Opened(t, c, list[c]))
        BY <1>3, <1>4
    <2> HIDE DEF known, done, other, c
    <2> QED BY <2>1, <2>2, <2>3, <1>2, <1>5
<1> QED BY <1>6, <1>7

----------------------------------------------------------------------------
(* The steps of an ingestion.                                              *)

LEMMA PostsFinite ==
    ASSUME BrInTypes, NEW p
    PROVE  IsFiniteSet(PostsOf(p)) /\ Cardinality(PostsOf(p)) \in Nat
<1>1. DOMAIN posts = 1 .. Len(posts) /\ Len(posts) \in Nat
    BY DEF BrInTypes
<1>2. IsFiniteSet(DOMAIN posts)
    BY <1>1, FS_Interval
<1> QED BY <1>2, FS_Subset, FS_CardinalityType DEF PostsOf

\* A step that goes on, or ends, and writes nothing.
LEMMA BrFitStep ==
    ASSUME IngestInv, BrFit(t'), t.pc # "posted", heard' \subseteq BrEvent,
           UNCHANGED <<posts, maps, lost, moved>>
    PROVE  IngestInv'
<1>1. BrInTypes'
    BY DEF IngestInv, BrInTypes, BrFit
<1>2. MessagesCounted'
    <2>1. \A p : PostsOf(p)' = PostsOf(p) /\ HasMapping(p)' = HasMapping(p)
        BY DEF PostsOf, HasMapping
    <2> QED BY <2>1 DEF IngestInv, MessagesCounted, BrFit
<1>3. Lookup'
    BY DEF Lookup, BrFit, Br!MappedIn
<1> QED BY <1>1, <1>2, <1>3 DEF IngestInv

LEMMA CustomerActsStep == ASSUME IngestInv, Br!CustomerActs PROVE IngestInv'
<1>1. heard' \subseteq BrEvent
    <2>1. PICK p \in Msgs : \E e \in {[p |-> p, text |-> 1, gone |-> FALSE],
                                      [p |-> p, text |-> 2, gone |-> FALSE],
                                      [p |-> p, text |-> 1, gone |-> TRUE]} :
              heard' = heard \union {e}
        BY DEF Br!CustomerActs
    <2>2. PICK e \in {[p |-> p, text |-> 1, gone |-> FALSE], [p |-> p, text |-> 2, gone |-> FALSE],
                      [p |-> p, text |-> 1, gone |-> TRUE]} : heard' = heard \union {e}
        BY <2>1
    <2>3. \A text \in Nat, gone \in BOOLEAN : [p |-> p, text |-> text, gone |-> gone] \in BrEvent
        BY DEF BrEvent
    <2>4. e \in BrEvent
        BY <2>3
    <2> QED BY <2>2, <2>4 DEF IngestInv, BrInTypes
<1>2. UNCHANGED <<posts, maps, t, lost, moved>>
    BY DEF Br!CustomerActs
<1>3. BrInTypes'
    BY <1>1, <1>2 DEF IngestInv, BrInTypes
<1>4. MessagesCounted' /\ Lookup'
    BY <1>2 DEF IngestInv, MessagesCounted, Lookup, PostsOf, HasMapping, Br!MappedIn
<1> QED BY <1>3, <1>4 DEF IngestInv

LEMMA BrIngestBeginsStep == ASSUME ConvTypes, IngestInv, Br!IngestBegins PROVE IngestInv'
<1>1. PICK e \in heard, row \in Br!Current :
          t' = [Br!IdleTask EXCEPT !.pc = "listing", !.e = e, !.row = row, !.c = row]
    BY DEF Br!IngestBegins
<1>2. row \in Nat /\ e \in BrEvent
    BY DEF ConvTypes, Br!Current, IngestInv, BrInTypes
<1>3. BrFit(t')
    BY <1>1, <1>2, BrIdleFits DEF BrFit, BrTask, BrSteps, Br!IdleTask
<1> QED BY <1>3, BrFitStep DEF Br!IngestBegins, IngestInv, BrInTypes

LEMMA BrListedStep == ASSUME ConvTypes, IngestInv, Br!Listed PROVE IngestInv'
<1>1. t \in BrTask /\ t.e \in BrEvent /\ t.saw # "resolved"
    BY DEF Br!Listed, IngestInv, BrInTypes, Lookup
<1>2. BrFit(t')
    BY <1>1, BrLooks DEF Br!Listed
<1> QED BY <1>2, BrFitStep DEF Br!Listed, IngestInv, BrInTypes

LEMMA BrReopenAnsweredStep == ASSUME ConvTypes, IngestInv, Br!ReopenAnswered PROVE IngestInv'
<1>1. t \in BrTask /\ t.e \in BrEvent /\ t.c \in Nat
    BY DEF Br!ReopenAnswered, IngestInv, BrInTypes, BrTask
<1> DEFINE s == [t EXCEPT !.saw = "open"]
<1>2. s \in BrTask /\ s.e = t.e /\ s.saw = "open"
    BY <1>1 DEF BrTask, ConvStatus
<1>3. t' = Br!Settled(s, t.c)
    BY DEF Br!ReopenAnswered
<1> HIDE DEF s
<1>4. BrFit(t')
    BY <1>1, <1>2, <1>3, BrSettled
<1> QED BY <1>4, BrFitStep DEF Br!ReopenAnswered, IngestInv, BrInTypes

LEMMA BrConversationCreatedStep ==
    ASSUME ConvTypes, IngestInv, Br!ConversationCreated PROVE IngestInv'
<1>1. t \in BrTask /\ t.e \in BrEvent /\ Len(convs) + 1 \in Nat
    BY DEF Br!ConversationCreated, IngestInv, BrInTypes, BrTask, ConvTypes
<1> DEFINE s == [t EXCEPT !.saw = "open"]
<1>2. s \in BrTask /\ s.e = t.e /\ s.saw = "open"
    BY <1>1 DEF BrTask, ConvStatus
<1>3. t' \in {Br!Settled(s, Len(convs) + 1), Br!IdleTask}
    BY DEF Br!ConversationCreated
<1> HIDE DEF s
<1>4. BrFit(t')
    BY <1>1, <1>2, <1>3, BrSettled, BrIdleFits
<1> QED BY <1>4, BrFitStep DEF Br!ConversationCreated, IngestInv, BrInTypes

\* One post more, counted for the run that is to map it, and as moved when the
\* message is mapped elsewhere.
LEMMA BrPostedStep == ASSUME ConvTypes, IngestInv, Br!Posted PROVE IngestInv'
<1> DEFINE new == [conv |-> t.c, p |-> t.e.p, text |-> t.e.text, gone |-> FALSE]
<1>1. /\ t.pc = "posting" /\ t \in BrTask /\ t.e \in BrEvent
      /\ posts \in Seq(BrPost) /\ Len(posts) \in Nat
      /\ lost \in [Msgs -> Nat] /\ moved \in [Msgs -> Nat]
    BY DEF Br!Posted, IngestInv, BrInTypes
<1>2. new \in BrPost
    BY <1>1 DEF BrPost, BrEvent, BrTask
<1>3. posts' = Append(posts, new) /\ t' = [t EXCEPT !.pc = "posted", !.post = Len(posts) + 1]
    BY DEF Br!Posted
<1>4. UNCHANGED <<heard, maps, lost>>
    BY DEF Br!Posted
<1>5. moved' = IF HasMapping(t.e.p) THEN [moved EXCEPT ![t.e.p] = @ + 1] ELSE moved
    <2>1. t.again \in BOOLEAN /\ (t.again \/ Br!MappedIn(t.c, t.e.p) = {})
        BY <1>1 DEF IngestInv, Lookup, BrTask
    <2> QED BY <2>1 DEF Br!Posted, HasMapping
<1> HIDE DEF new
<1>6. /\ t'.pc = "posted" /\ t'.e = t.e /\ t' \in BrTask /\ t'.saw = t.saw
    <2>1. \A n \in Nat : LET s == [t EXCEPT !.pc = "posted", !.post = n]
                         IN s.pc = "posted" /\ s.e = t.e /\ s \in BrTask /\ s.saw = t.saw
        BY <1>1 DEF BrTask, BrSteps
    <2>2. Len(posts) + 1 \in Nat
        BY <1>1
    <2> QED BY <2>1, <2>2, <1>3
<1>7. posts' \in Seq(BrPost) /\ moved' \in [Msgs -> Nat]
    <2>1. posts' \in Seq(BrPost)
        BY <1>1, <1>2, <1>3, AppendProperties
    <2>2. t.e.p \in Msgs
        BY <1>1 DEF BrEvent
    <2> QED BY <1>1, <1>5, <2>1, <2>2
<1>8. BrInTypes'
    BY <1>1, <1>4, <1>6, <1>7 DEF IngestInv, BrInTypes
<1>9. MessagesCounted'
    <2> SUFFICES ASSUME NEW p \in Msgs
                 PROVE  Cardinality(PostsOf(p)') <= lost[p] + moved'[p]
                           + (IF HasMapping(p) \/ t.e.p = p THEN 1 ELSE 0)
        BY <1>4, <1>6 DEF MessagesCounted, HasMapping
    <2>1. /\ Cardinality(PostsOf(p)) <= lost[p] + moved[p] + (IF HasMapping(p) THEN 1 ELSE 0)
          /\ Cardinality(PostsOf(p)) \in Nat /\ IsFiniteSet(PostsOf(p))
          /\ lost[p] \in Nat /\ moved[p] \in Nat
        BY <1>1, PostsFinite DEF IngestInv, MessagesCounted
    <2>2. PostsOf(p)' = IF t.e.p = p THEN PostsOf(p) \union {Len(posts) + 1} ELSE PostsOf(p)
        BY <1>1, <1>2, <1>3 DEF PostsOf, new
    <2>3. CASE t.e.p = p
        <3>0. PostsOf(p)' = PostsOf(p) \union {Len(posts) + 1}
            BY <2>2, <2>3
        <3>1. Cardinality(PostsOf(p) \union {Len(posts) + 1})
                  = IF Len(posts) + 1 \in PostsOf(p) THEN Cardinality(PostsOf(p))
                    ELSE Cardinality(PostsOf(p)) + 1
            BY <2>1, FS_AddElement
        <3>2. moved'[p] = moved[p] + (IF HasMapping(p) THEN 1 ELSE 0)
            BY <1>1, <1>5, <2>3
        <3> QED BY <2>1, <2>3, <3>0, <3>1, <3>2
    <2>4. CASE t.e.p # p
        <3>1. moved'[p] = moved[p]
            BY <1>1, <1>5, <2>4
        <3> QED BY <2>1, <2>2, <2>4, <3>1
    <2> QED BY <2>3, <2>4
<1>10. Lookup'
    BY <1>1, <1>6 DEF IngestInv, Lookup
<1> QED BY <1>8, <1>9, <1>10 DEF IngestInv

LEMMA BrPostRefusedStep == ASSUME ConvTypes, IngestInv, Br!PostRefused PROVE IngestInv'
<1>1. t \in BrTask /\ t.e \in BrEvent /\ t.pc = "posting" /\ t.saw # "resolved"
    BY DEF Br!PostRefused, IngestInv, BrInTypes, Lookup
<1>2. t' \in {Br!IdleTask, [t EXCEPT !.pc = "recovering"]}
    BY DEF Br!PostRefused
<1>3. BrFit(t')
    BY <1>1, <1>2, BrIdleFits DEF BrFit, BrTask, BrSteps
<1> QED BY <1>1, <1>3, BrFitStep DEF Br!PostRefused, IngestInv, BrInTypes

\* The recovery posts again, or ends.
LEMMA BrRecoverStep ==
    ASSUME ConvTypes, IngestInv, NEW c \in Nat, NEW known \in ConvStatus, known # "resolved",
           t.pc \notin {"idle", "posted", "opening"}, Br!Recover(c, known),
           UNCHANGED <<heard, posts, maps, lost, moved>>
    PROVE  IngestInv' /\ rows' \subseteq Nat /\ active' \subseteq Nat
<1>1. t \in BrTask /\ t.e \in BrEvent /\ t.tx \in BrTx /\ heard \subseteq BrEvent
    BY DEF IngestInv, BrInTypes, BrTask
<1>2. BrFit([t EXCEPT !.pc = "posting", !.c = c, !.tx = Br!NoTx, !.saw = known,
                      !.again = TRUE, !.row = c])
    BY <1>1 DEF BrFit, BrTask, BrSteps, BrTx, Br!NoTx
<1>3. BrFit(t')
    BY <1>2, BrIdleFits DEF Br!Recover
<1>4. rows' \subseteq Nat /\ active' \subseteq Nat
    BY <1>1 DEF ConvTypes, Br!Recover, Br!rowVars, BrTx
<1> QED BY <1>1, <1>3, <1>4, BrFitStep

\* A step of the recovery that goes on, or ends, and writes nothing.
LEMMA BrGoesOn ==
    ASSUME IngestInv, t.pc \notin {"idle", "posted", "opening"},
           NEW pc \in {"recreating", "reopening"}, NEW row \in Nat
    PROVE  BrFit([t EXCEPT !.pc = pc]) /\ BrFit([t EXCEPT !.pc = pc, !.row = row])
<1>1. t \in BrTask /\ t.e \in BrEvent /\ t.saw # "resolved"
    BY DEF IngestInv, BrInTypes, Lookup
<1> QED BY <1>1 DEF BrFit, BrTask, BrSteps

LEMMA BrRecoveryListedStep ==
    ASSUME ConvTypes, IngestInv, Br!RecoveryListed
    PROVE  IngestInv' /\ rows' \subseteq Nat /\ active' \subseteq Nat
<1>1. PICK list \in {Br!Listing, <<>>} :
          LET c == Br!Select(list, t.c)
          IN CASE c = 0 -> t' = [t EXCEPT !.pc = "recreating"] /\ UNCHANGED Br!rowVars
               [] c # 0 /\ list[c] = "resolved" ->
                     t' = [t EXCEPT !.pc = "reopening", !.row = c] /\ UNCHANGED Br!rowVars
               [] OTHER -> Br!Recover(c, list[c])
    BY DEF Br!RecoveryListed
<1>2. /\ t.pc = "recovering" /\ heard \subseteq BrEvent
      /\ UNCHANGED <<heard, posts, maps, lost, moved>>
    BY DEF Br!RecoveryListed, IngestInv, BrInTypes
<1> DEFINE c == Br!Select(list, t.c)
<1>3. c # 0 => c \in Nat /\ list[c] \in ConvStatus
    BY BrListed, BrSelects
<1>4. CASE c = 0
    <2>1. t' = [t EXCEPT !.pc = "recreating"] /\ UNCHANGED Br!rowVars
        BY <1>1, <1>4
    <2>2. BrFit(t')
        BY <1>2, <2>1, BrGoesOn
    <2> QED BY <1>2, <2>1, <2>2, BrFitStep DEF ConvTypes, Br!rowVars
<1>5. CASE c # 0 /\ list[c] = "resolved"
    <2>1. t' = [t EXCEPT !.pc = "reopening", !.row = c] /\ UNCHANGED Br!rowVars
        BY <1>1, <1>5
    <2>2. BrFit(t')
        BY <1>2, <1>3, <1>5, <2>1, BrGoesOn
    <2> QED BY <1>2, <2>1, <2>2, BrFitStep DEF ConvTypes, Br!rowVars
<1>6. CASE c # 0 /\ list[c] # "resolved"
    <2>1. Br!Recover(c, list[c])
        BY <1>1, <1>6
    <2> QED BY <1>2, <1>3, <1>6, <2>1, BrRecoverStep
<1> QED BY <1>4, <1>5, <1>6

LEMMA BrRecoveryReopenedStep ==
    ASSUME ConvTypes, IngestInv, Br!RecoveryReopened
    PROVE  IngestInv' /\ rows' \subseteq Nat /\ active' \subseteq Nat
<1>1. t.pc = "reopening" /\ t.row \in Nat /\ "open" \in ConvStatus
    BY DEF Br!RecoveryReopened, IngestInv, BrInTypes, BrTask, ConvStatus
<1>2. Br!Recover(t.row, "open") /\ UNCHANGED <<heard, posts, maps, lost, moved>>
    BY DEF Br!RecoveryReopened
<1> QED BY <1>1, <1>2, BrRecoverStep

LEMMA BrRecoveryCreatedStep ==
    ASSUME ConvTypes, IngestInv, Br!RecoveryCreated
    PROVE  IngestInv' /\ rows' \subseteq Nat /\ active' \subseteq Nat
<1>1. /\ t.pc = "recreating" /\ Len(convs) + 1 \in Nat /\ "open" \in ConvStatus
      /\ heard \subseteq BrEvent /\ UNCHANGED <<heard, posts, maps, lost, moved>>
    BY DEF Br!RecoveryCreated, ConvTypes, ConvStatus, IngestInv, BrInTypes
<1>2. CASE Br!Recover(Len(convs) + 1, "open")
    BY <1>1, <1>2, BrRecoverStep
<1>3. CASE t' = Br!IdleTask /\ UNCHANGED Br!rowVars
    BY <1>1, <1>3, BrIdleFits, BrFitStep DEF ConvTypes, Br!rowVars
<1> QED BY <1>2, <1>3 DEF Br!RecoveryCreated

\* An end of the ingestion at which posts and mappings are still of the messages
\* they were of, and what was posted is mapped, or counted as lost.
LEMMA BrEnds ==
    ASSUME BrInTypes, MessagesCounted, t' = Br!IdleTask,
           heard' \subseteq BrEvent, maps' \subseteq BrMap, lost' \in [Msgs -> Nat],
           moved' = moved, posts' \in Seq(BrPost), Len(posts') = Len(posts),
           \A k \in DOMAIN posts : posts'[k].p = posts[k].p,
           \A p \in Msgs : HasMapping(p) => HasMapping(p)',
           \A p \in Msgs : lost[p] <= lost'[p],
           t.pc = "posted" => (\E m \in maps' : m.p = t.e.p) \/ lost'[t.e.p] = lost[t.e.p] + 1
    PROVE  IngestInv'
<1>1. t'.pc = "idle" /\ BrFit(t')
    BY BrIdleFits DEF Br!IdleTask
<1>2. BrInTypes'
    BY <1>1 DEF BrInTypes, BrFit
<1>3. MessagesCounted'
    <2> SUFFICES ASSUME NEW p \in Msgs
                 PROVE  Cardinality(PostsOf(p)') <= lost'[p] + moved[p]
                            + (IF HasMapping(p)' THEN 1 ELSE 0)
        BY <1>1 DEF MessagesCounted
    <2>1. PostsOf(p)' = PostsOf(p)
        <3>1. DOMAIN posts' = DOMAIN posts
            BY DEF BrInTypes
        <3> QED BY <3>1 DEF PostsOf
    <2>2. /\ Cardinality(PostsOf(p)) <= lost[p] + moved[p]
                + (IF HasMapping(p) \/ (t.pc = "posted" /\ t.e.p = p) THEN 1 ELSE 0)
          /\ lost[p] \in Nat /\ moved[p] \in Nat /\ lost'[p] \in Nat
          /\ lost[p] <= lost'[p]
          /\ HasMapping(p) => HasMapping(p)'
          /\ t.pc = "posted" /\ t.e.p = p => HasMapping(p)' \/ lost'[p] = lost[p] + 1
          /\ Cardinality(PostsOf(p)) \in Nat
        BY PostsFinite DEF BrInTypes, MessagesCounted, HasMapping
    <2> QED BY <2>1, <2>2
<1>4. Lookup'
    BY <1>1 DEF Lookup, BrFit
<1> QED BY <1>2, <1>3, <1>4 DEF IngestInv

LEMMA BrMappedStep ==
    ASSUME ConvTypes, IngestInv, Br!Mapped
    PROVE  IngestInv' /\ rows' \subseteq Nat /\ active' \subseteq Nat
<1> DEFINE m == [conv |-> t.c, p |-> t.e.p, post |-> t.post, text |-> t.e.text]
<1>1. /\ t.pc = "posted" /\ t \in BrTask /\ t.e \in BrEvent /\ t.tx \in BrTx
      /\ BrInTypes /\ MessagesCounted
    BY DEF Br!Mapped, IngestInv, BrInTypes, BrTask
<1>2. m \in BrMap /\ m.p = t.e.p
    BY <1>1 DEF BrMap, BrTask, BrEvent
<1>3. maps' = (maps \ Br!MappedIn(m.conv, m.p)) \union {m}
    BY DEF Br!Mapped, Br!Remapped
<1> HIDE DEF m
<1>4. maps' \subseteq BrMap
    BY <1>1, <1>2, <1>3 DEF BrInTypes
<1>5. \A p : HasMapping(p) \/ p = t.e.p => HasMapping(p)'
    BY <1>2, <1>3 DEF HasMapping, Br!MappedIn
<1>6. IngestInv'
    <2>1. t' = Br!IdleTask /\ UNCHANGED <<heard, posts, lost, moved>>
        BY DEF Br!Mapped
    <2>2. \A p \in Msgs : lost[p] <= lost'[p]
        BY <2>1 DEF BrInTypes, IngestInv
    <2>3. \E n \in maps' : n.p = t.e.p
        BY <1>2, <1>3
    <2> QED BY <1>1, <1>4, <1>5, <2>1, <2>2, <2>3, BrEnds DEF BrInTypes
<1>7. rows' \subseteq Nat /\ active' \subseteq Nat
    BY <1>1 DEF ConvTypes, Br!Mapped, Br!Commit, Br!rowVars, BrTx
<1> QED BY <1>6, <1>7

\* The posts of the same messages.
SameMessages(others) ==
    /\ others \in Seq(BrPost) /\ Len(others) = Len(posts)
    /\ \A k \in DOMAIN posts : others[k].p = posts[k].p

\* Fields of a post that change leave its message alone.
LEMMA PostEdited ==
    ASSUME BrInTypes, NEW k, NEW text \in Nat
    PROVE  /\ SameMessages([posts EXCEPT ![k].text = text])
           /\ SameMessages([posts EXCEPT ![k].gone = TRUE])
<1>1. \A post \in BrPost : /\ [post EXCEPT !.text = text] \in BrPost
                           /\ [post EXCEPT !.text = text].p = post.p
                           /\ [post EXCEPT !.gone = TRUE] \in BrPost
                           /\ [post EXCEPT !.gone = TRUE].p = post.p
    BY DEF BrPost
<1>2. \A j \in DOMAIN posts : posts[j] \in BrPost
    BY DEF BrInTypes
<1> DEFINE edited == [posts EXCEPT ![k].text = text]
           gone == [posts EXCEPT ![k].gone = TRUE]
<1>3. ASSUME NEW post \in BrPost
      PROVE  LET s == [posts EXCEPT ![k] = post] IN s \in Seq(BrPost) /\ Len(s) = Len(posts)
    <2>1. posts \in Seq(BrPost) /\ DOMAIN posts = 1 .. Len(posts)
        BY DEF BrInTypes
    <2>2. CASE k \in 1 .. Len(posts)
        BY <2>1, <2>2, ExceptSeq
    <2>3. CASE k \notin 1 .. Len(posts)
        <3>1. [posts EXCEPT ![k] = post] = posts
            BY <2>1, <2>3
        <3> QED BY <2>1, <3>1
    <2> QED BY <2>2, <2>3
<1>4. /\ edited \in Seq(BrPost) /\ Len(edited) = Len(posts)
      /\ gone \in Seq(BrPost) /\ Len(gone) = Len(posts)
    <2>1. CASE k \in DOMAIN posts
        <3>1. /\ edited = [posts EXCEPT ![k] = [posts[k] EXCEPT !.text = text]]
              /\ gone = [posts EXCEPT ![k] = [posts[k] EXCEPT !.gone = TRUE]]
            OBVIOUS
        <3> QED BY <1>1, <1>2, <1>3, <2>1, <3>1
    <2>2. CASE k \notin DOMAIN posts
        <3>1. edited = posts /\ gone = posts
            BY <2>2 DEF BrInTypes
        <3> QED BY <3>1 DEF BrInTypes
    <2> QED BY <2>1, <2>2
<1>5. \A j \in DOMAIN posts : edited[j].p = posts[j].p /\ gone[j].p = posts[j].p
    BY <1>1, <1>2 DEF BrInTypes
<1> QED BY <1>4, <1>5 DEF SameMessages

LEMMA BrDeleteAnsweredStep == ASSUME ConvTypes, IngestInv, Br!DeleteAnswered PROVE IngestInv'
<1>1. /\ t.pc = "deleting" /\ BrInTypes /\ MessagesCounted
      /\ t' = Br!IdleTask /\ UNCHANGED <<heard, maps, lost, moved>>
    BY DEF Br!DeleteAnswered, IngestInv
<1>2. posts' = posts \/ \E m \in maps : posts' = [posts EXCEPT ![m.post].gone = TRUE]
    BY DEF Br!DeleteAnswered, Br!MappedIn
<1>3. SameMessages(posts')
    <2>1. CASE posts' = posts
        BY <1>1, <2>1 DEF BrInTypes, SameMessages
    <2>2. ASSUME NEW m \in maps, posts' = [posts EXCEPT ![m.post].gone = TRUE]
          PROVE  SameMessages(posts')
        <3>1. 0 \in Nat
            OBVIOUS
        <3>2. SameMessages([posts EXCEPT ![m.post].gone = TRUE])
            BY <1>1, <3>1, PostEdited
        <3> QED BY <2>2, <3>2
    <2> QED BY <1>2, <2>1, <2>2
<1>4. \A p : HasMapping(p) => HasMapping(p)'
    BY <1>1 DEF HasMapping
<1>5. \A p \in Msgs : lost[p] <= lost'[p]
    BY <1>1 DEF BrInTypes
<1> QED BY <1>1, <1>3, <1>4, <1>5, BrEnds DEF BrInTypes, SameMessages

LEMMA BrEditAnsweredStep ==
    ASSUME ConvTypes, IngestInv, Br!EditAnswered
    PROVE  IngestInv' /\ rows' \subseteq Nat /\ active' \subseteq Nat
<1>1. /\ t.pc = "editing" /\ BrInTypes /\ MessagesCounted /\ t.e \in BrEvent /\ t.tx \in BrTx
      /\ t' = Br!IdleTask /\ UNCHANGED <<heard, lost, moved>>
    BY DEF Br!EditAnswered, IngestInv, BrInTypes, BrTask
<1>2. rows' \subseteq Nat /\ active' \subseteq Nat
    BY <1>1 DEF ConvTypes, Br!EditAnswered, Br!Commit, Br!rowVars, BrTx
<1>3. t.e.text \in Nat
    BY <1>1 DEF BrEvent
<1>4. SameMessages(posts') /\ maps' \subseteq BrMap /\ \A p : HasMapping(p) => HasMapping(p)'
    <2>1. CASE UNCHANGED <<posts, maps>>
        BY <1>1, <2>1 DEF BrInTypes, HasMapping, SameMessages
    <2>2. ASSUME NEW m \in maps, posts' = [posts EXCEPT ![m.post].text = t.e.text],
                 maps' = (maps \ {m}) \union {[m EXCEPT !.text = t.e.text]}
          PROVE  SameMessages(posts') /\ maps' \subseteq BrMap
                 /\ \A p : HasMapping(p) => HasMapping(p)'
        <3>1. [m EXCEPT !.text = t.e.text] \in BrMap /\ [m EXCEPT !.text = t.e.text].p = m.p
            BY <1>1, <1>3 DEF BrInTypes, BrMap
        <3>2. SameMessages(posts')
            <4>1. PICK text \in Nat : text = t.e.text
                BY <1>3
            <4>2. posts' = [posts EXCEPT ![m.post].text = text]
                BY <2>2, <4>1
            <4>3. SameMessages([posts EXCEPT ![m.post].text = text])
                BY <1>1, PostEdited
            <4> QED BY <4>2, <4>3
        <3>3. maps' \subseteq BrMap
            BY <1>1, <2>2, <3>1 DEF BrInTypes
        <3>4. \A p : HasMapping(p) => HasMapping(p)'
            BY <2>2, <3>1 DEF HasMapping
        <3> QED BY <3>2, <3>3, <3>4
    <2> QED BY <2>1, <2>2 DEF Br!EditAnswered, Br!MappedIn
<1>5. \A p \in Msgs : lost[p] <= lost'[p]
    BY <1>1 DEF BrInTypes
<1> QED BY <1>1, <1>2, <1>4, <1>5, BrEnds DEF BrInTypes, SameMessages

LEMMA BrIngestFailsStep == ASSUME ConvTypes, IngestInv, Br!IngestFails PROVE IngestInv'
<1>1. /\ BrInTypes /\ MessagesCounted /\ t.e \in BrEvent /\ lost \in [Msgs -> Nat]
      /\ t' = Br!IdleTask /\ UNCHANGED <<heard, posts, maps, moved>>
    BY DEF Br!IngestFails, IngestInv, BrInTypes
<1>2. lost' = IF t.pc = "posted" THEN [lost EXCEPT ![t.e.p] = @ + 1] ELSE lost
    BY DEF Br!IngestFails
<1>3. t.e.p \in Msgs
    BY <1>1 DEF BrEvent
<1>4. /\ lost' \in [Msgs -> Nat] /\ \A p \in Msgs : lost[p] <= lost'[p]
      /\ t.pc = "posted" => lost'[t.e.p] = lost[t.e.p] + 1
    BY <1>1, <1>2, <1>3
<1>5. \A p : HasMapping(p) => HasMapping(p)'
    BY <1>1 DEF HasMapping
<1> QED BY <1>1, <1>4, <1>5, BrEnds DEF BrInTypes

----------------------------------------------------------------------------
(* The answers, and the steps of a webhook run.                            *)

LEMMA AgentWritesStep ==
    ASSUME ConvTypes, BrInTypes, AnswerInv, Br!AgentWrites PROVE AnswerInv'
<1>1. UNCHANGED <<status, w, shown, spoiled>>
    BY DEF Br!AgentWrites
<1>2. answer' \in [Answers -> [c : Nat, quotes : Nat, gone : BOOLEAN]]
    <2>1. answer \in [Answers -> [c : Nat, quotes : Nat, gone : BOOLEAN]]
        BY DEF AnswerInv, BrOutTypes
    <2>2. PICK a \in Answers :
              \/ \E c \in DOMAIN convs : \E q \in {0} \union DOMAIN posts :
                     answer' = [answer EXCEPT ![a] = [c |-> c, quotes |-> q, gone |-> FALSE]]
              \/ answer' = [answer EXCEPT ![a].gone = TRUE]
        BY DEF Br!AgentWrites
    <2>3. CASE answer' = [answer EXCEPT ![a].gone = TRUE]
        BY <2>1, <2>3
    <2>4. ASSUME NEW c \in DOMAIN convs, NEW q \in {0} \union DOMAIN posts,
                 answer' = [answer EXCEPT ![a] = [c |-> c, quotes |-> q, gone |-> FALSE]]
          PROVE  answer' \in [Answers -> [c : Nat, quotes : Nat, gone : BOOLEAN]]
        <3>1. c \in Nat /\ q \in Nat
            BY DEF ConvTypes, BrInTypes
        <3> QED BY <2>1, <2>4, <3>1
    <2> QED BY <2>2, <2>3, <2>4
<1> QED BY <1>1, <1>2 DEF AnswerInv, BrOutTypes, AnswersCounted, NotYetSent

LEMMA BrIdleRun == Br!IdleRun \in BrRun /\ Br!IdleRun.pc = "idle"
BY DEF BrRun, BrTx, Br!IdleRun, Br!NoTx

LEMMA WebhookBeginsStep ==
    ASSUME ConvTypes, AnswerInv, Br!WebhookBegins
    PROVE  AnswerInv' /\ rows' \subseteq Nat /\ active' \subseteq Nat
<1>1. w.pc = "idle" /\ BrOutTypes /\ AnswersCounted
    BY DEF Br!WebhookBegins, AnswerInv
<1>2. PICK a \in Answers :
          /\ status[a] \notin {"sent", "skipped"}
          /\ \/ /\ status' = [status EXCEPT ![a] = "skipped"]
                /\ Br!Commit(Br!Flush(answer[a].c)) /\ w' = w
             \/ /\ w' = [Br!IdleRun EXCEPT !.pc = "connecting", !.a = a, !.tx = Br!Flush(answer[a].c)]
                /\ UNCHANGED <<status, rows, active>>
    BY DEF Br!WebhookBegins, Br!rowVars
<1>3. UNCHANGED <<answer, shown, spoiled>>
    BY DEF Br!WebhookBegins
<1>4. answer[a].c \in Nat /\ Br!Flush(answer[a].c) \in BrTx
    <2>1. answer[a].c \in Nat
        BY <1>1 DEF BrOutTypes
    <2> QED BY <2>1, BrFlush
<1>5. CASE /\ status' = [status EXCEPT ![a] = "skipped"]
           /\ Br!Commit(Br!Flush(answer[a].c)) /\ w' = w
    <2>1. rows' \subseteq Nat /\ active' \subseteq Nat
        BY <1>4, <1>5 DEF ConvTypes, Br!Commit, Br!rowVars, BrTx
    <2>2. BrOutTypes'
        BY <1>1, <1>3, <1>5 DEF BrOutTypes
    <2>3. AnswersCounted'
        BY <1>1, <1>2, <1>3, <1>5 DEF AnswersCounted, BrOutTypes
    <2> QED BY <1>1, <1>5, <2>1, <2>2, <2>3 DEF AnswerInv, NotYetSent
<1>6. CASE /\ w' = [Br!IdleRun EXCEPT !.pc = "connecting", !.a = a, !.tx = Br!Flush(answer[a].c)]
           /\ UNCHANGED <<status, rows, active>>
    <2>1. w' \in BrRun /\ w'.pc = "connecting" /\ w'.a = a
        BY <1>4, <1>6, BrIdleRun DEF BrRun
    <2>2. BrOutTypes' /\ AnswersCounted'
        BY <1>1, <1>3, <1>6, <2>1 DEF BrOutTypes, AnswersCounted
    <2> QED BY <1>2, <1>6, <2>1, <2>2 DEF AnswerInv, NotYetSent, ConvTypes
<1> QED BY <1>2, <1>5, <1>6

LEMMA ConnectedStep ==
    ASSUME ConvTypes, AnswerInv, Br!Connected
    PROVE  AnswerInv' /\ rows' \subseteq Nat /\ active' \subseteq Nat
<1>1. /\ w.pc = "connecting" /\ w \in BrRun /\ w.a \in Answers /\ w.tx \in BrTx
      /\ BrOutTypes /\ AnswersCounted /\ NotYetSent
      /\ UNCHANGED <<answer, status, shown, spoiled>>
    BY DEF Br!Connected, AnswerInv, BrOutTypes, BrRun
<1>2. w' = [w EXCEPT !.pc = "sending", !.tx = Br!NoTx, !.left = Br!Parts] /\ Br!Commit(w.tx)
    BY DEF Br!Connected
<1>3. w' \in BrRun /\ w'.pc = "sending" /\ w'.a = w.a /\ w'.left = Br!Parts
    BY <1>1, <1>2 DEF BrRun, BrTx, Br!NoTx
<1>4. rows' \subseteq Nat /\ active' \subseteq Nat
    BY <1>1, <1>2 DEF ConvTypes, Br!Commit, Br!rowVars, BrTx
<1>5. BrOutTypes' /\ NotYetSent'
    BY <1>1, <1>3 DEF BrOutTypes, NotYetSent
<1>6. AnswersCounted'
    BY <1>1, <1>3 DEF AnswersCounted
<1> QED BY <1>4, <1>5, <1>6 DEF AnswerInv

LEMMA PartSentStep == ASSUME AnswerInv, Br!PartSent PROVE AnswerInv'
<1>1. /\ w.pc = "sending" /\ w \in BrRun /\ w.a \in Answers /\ w.left \subseteq Br!Parts
      /\ BrOutTypes /\ AnswersCounted /\ NotYetSent
      /\ UNCHANGED <<answer, status, spoiled>>
    BY DEF Br!PartSent, AnswerInv, BrOutTypes, BrRun
<1>2. PICK k \in w.left :
          \/ /\ shown' = [shown EXCEPT ![w.a][k] = @ + 1] /\ w' = [w EXCEPT !.left = @ \ {k}]
          \/ w' = [w EXCEPT !.left = @ \ {k}, !.failed = TRUE] /\ shown' = shown
    BY DEF Br!PartSent
<1>3. /\ w' \in BrRun /\ w'.pc = "sending" /\ w'.a = w.a /\ w'.left = w.left \ {k}
    BY <1>1, <1>2 DEF BrRun
<1>4. shown \in [Answers -> [Br!Parts -> Nat]] /\ spoiled \in [Answers -> Nat]
    BY <1>1 DEF BrOutTypes
<1>5. shown' \in [Answers -> [Br!Parts -> Nat]]
    BY <1>1, <1>2, <1>4
<1>6. \A a \in Answers, j \in Br!Parts :
          shown'[a][j] <= IF a = w.a /\ j = k THEN shown[a][j] + 1 ELSE shown[a][j]
    BY <1>1, <1>2, <1>4
<1>7. BrOutTypes' /\ NotYetSent'
    BY <1>1, <1>3, <1>5 DEF BrOutTypes, NotYetSent
<1>8. AnswersCounted'
    <2> SUFFICES ASSUME NEW a \in Answers, NEW j \in Br!Parts
                 PROVE  shown'[a][j] <= spoiled[a]
                            + (IF status[a] = "sent" \/ (w.a = a /\ j \notin w.left \ {k})
                               THEN 1 ELSE 0)
        BY <1>1, <1>3 DEF AnswersCounted
    <2>1. /\ shown[a][j] <= spoiled[a]
                + (IF status[a] = "sent" \/ (w.a = a /\ j \notin w.left) THEN 1 ELSE 0)
          /\ shown[a][j] \in Nat /\ shown'[a][j] \in Nat /\ spoiled[a] \in Nat
        BY <1>1, <1>4, <1>5 DEF AnswersCounted
    <2>2. a = w.a => status[a] # "sent"
        BY <1>1 DEF NotYetSent
    <2>3. shown'[a][j] <= IF a = w.a /\ j = k THEN shown[a][j] + 1 ELSE shown[a][j]
        BY <1>6
    <2> QED BY <2>1, <2>2, <2>3
<1> QED BY <1>7, <1>8 DEF AnswerInv

LEMMA RunEndsStep == ASSUME AnswerInv, Br!RunEnds PROVE AnswerInv'
<1>1. /\ w.pc = "sending" /\ w.left = {} /\ w.a \in Answers
      /\ BrOutTypes /\ AnswersCounted /\ UNCHANGED <<answer, shown>> /\ w' = Br!IdleRun
    BY DEF Br!RunEnds, AnswerInv, BrOutTypes
<1>2. /\ status' = [status EXCEPT ![w.a] = IF w.failed THEN "failed" ELSE "sent"]
      /\ spoiled' = IF w.failed THEN [spoiled EXCEPT ![w.a] = @ + 1] ELSE spoiled
    BY DEF Br!RunEnds
<1>3. BrOutTypes'
    BY <1>1, <1>2, BrIdleRun DEF BrOutTypes
<1>4. AnswersCounted'
    <2> SUFFICES ASSUME NEW a \in Answers, NEW j \in Br!Parts
                 PROVE  shown[a][j] <= spoiled'[a] + (IF status'[a] = "sent" THEN 1 ELSE 0)
        BY <1>1, BrIdleRun DEF AnswersCounted
    <2>1. /\ shown[a][j] <= spoiled[a] + (IF status[a] = "sent" \/ w.a = a THEN 1 ELSE 0)
          /\ shown[a][j] \in Nat /\ spoiled[a] \in Nat
        BY <1>1 DEF AnswersCounted, BrOutTypes
    <2>2. /\ w.a # a => spoiled'[a] = spoiled[a] /\ status'[a] = status[a]
          /\ w.a = a => \/ spoiled'[a] = spoiled[a] + 1
                        \/ spoiled'[a] = spoiled[a] /\ status'[a] = "sent"
        BY <1>1, <1>2 DEF BrOutTypes
    <2> QED BY <2>1, <2>2
<1> QED BY <1>1, <1>3, <1>4, BrIdleRun DEF AnswerInv, NotYetSent

LEMMA DeleteWebhookStep == ASSUME AnswerInv, Br!DeleteWebhook PROVE AnswerInv'
<1>1. /\ w.pc = "idle" /\ BrOutTypes /\ AnswersCounted
      /\ UNCHANGED <<answer, status, shown, spoiled>>
    BY DEF Br!DeleteWebhook, AnswerInv
<1>2. PICK a \in Answers : w' = [Br!IdleRun EXCEPT !.pc = "recalling", !.a = a]
    BY DEF Br!DeleteWebhook
<1>3. w' \in BrRun /\ w'.pc = "recalling" /\ w'.a = a
    BY <1>2, BrIdleRun DEF BrRun
<1> QED BY <1>1, <1>3 DEF AnswerInv, BrOutTypes, AnswersCounted, NotYetSent

LEMMA RecalledStep == ASSUME AnswerInv, Br!Recalled PROVE AnswerInv'
<1>1. /\ w.pc = "recalling" /\ w.a \in Answers /\ BrOutTypes /\ AnswersCounted
      /\ UNCHANGED <<answer, status, spoiled>> /\ w' = Br!IdleRun
    BY DEF Br!Recalled, AnswerInv, BrOutTypes
<1>2. shown' = [shown EXCEPT ![w.a][1] = IF @ = 0 THEN 0 ELSE @ - 1]
    BY DEF Br!Recalled
<1>3. shown \in [Answers -> [Br!Parts -> Nat]] /\ spoiled \in [Answers -> Nat]
    BY <1>1 DEF BrOutTypes
<1>4. /\ shown' \in [Answers -> [Br!Parts -> Nat]]
      /\ \A a \in Answers, j \in Br!Parts : shown'[a][j] <= shown[a][j]
    <2>1. ASSUME NEW a \in Answers
          PROVE  /\ shown'[a] \in [Br!Parts -> Nat]
                 /\ \A j \in Br!Parts : shown'[a][j] <= shown[a][j]
        <3>1. shown'[a] = IF a = w.a THEN [shown[a] EXCEPT ![1] = IF @ = 0 THEN 0 ELSE @ - 1]
                          ELSE shown[a]
            BY <1>1, <1>2, <1>3
        <3>2. shown[a] \in [Br!Parts -> Nat]
            BY <1>3
        <3>3. \A j \in Br!Parts :
                  shown'[a][j] = IF a = w.a /\ j = 1
                                 THEN (IF shown[a][j] = 0 THEN 0 ELSE shown[a][j] - 1)
                                 ELSE shown[a][j]
            BY <3>1, <3>2
        <3>4. \A j \in Br!Parts : shown[a][j] \in Nat
            BY <3>2
        <3>5. \A j \in Br!Parts : shown'[a][j] \in Nat /\ shown'[a][j] <= shown[a][j]
            BY <3>3, <3>4
        <3>6. shown'[a] = [j \in Br!Parts |-> shown'[a][j]]
            BY <3>1, <3>2
        <3> QED BY <3>5, <3>6
    <2>2. shown' = [a \in Answers |-> shown'[a]]
        BY <1>2, <1>3
    <2> QED BY <2>1, <2>2
<1>5. BrOutTypes'
    BY <1>1, <1>4, BrIdleRun DEF BrOutTypes
<1>6. AnswersCounted'
    <2> SUFFICES ASSUME NEW a \in Answers, NEW j \in Br!Parts
                 PROVE  shown'[a][j] <= spoiled[a] + (IF status[a] = "sent" THEN 1 ELSE 0)
        BY <1>1, BrIdleRun DEF AnswersCounted
    <2>1. shown[a][j] <= spoiled[a] + (IF status[a] = "sent" THEN 1 ELSE 0)
        BY <1>1 DEF AnswersCounted
    <2>2. /\ shown[a][j] \in Nat /\ shown'[a][j] \in Nat /\ spoiled[a] \in Nat
          /\ shown'[a][j] <= shown[a][j]
        BY <1>3, <1>4
    <2> QED BY <2>1, <2>2
<1> QED BY <1>1, <1>5, <1>6, BrIdleRun DEF AnswerInv, NotYetSent

LEMMA RunFailsStep == ASSUME AnswerInv, Br!RunFails PROVE AnswerInv'
<1>1. /\ w.pc # "idle" /\ w.a \in Answers /\ BrOutTypes /\ AnswersCounted
      /\ UNCHANGED <<answer, status, shown>> /\ w' = Br!IdleRun
    BY DEF Br!RunFails, AnswerInv, BrOutTypes
<1>2. spoiled' = IF w.pc = "sending" THEN [spoiled EXCEPT ![w.a] = @ + 1] ELSE spoiled
    BY DEF Br!RunFails
<1>3. BrOutTypes'
    BY <1>1, <1>2, BrIdleRun DEF BrOutTypes
<1>4. AnswersCounted'
    <2> SUFFICES ASSUME NEW a \in Answers, NEW j \in Br!Parts
                 PROVE  shown[a][j] <= spoiled'[a] + (IF status[a] = "sent" THEN 1 ELSE 0)
        BY <1>1, BrIdleRun DEF AnswersCounted
    <2>1. /\ shown[a][j] <= spoiled[a]
                 + (IF status[a] = "sent" \/ (w.pc = "sending" /\ w.a = a) THEN 1 ELSE 0)
          /\ shown[a][j] \in Nat /\ spoiled[a] \in Nat
        BY <1>1 DEF AnswersCounted, BrOutTypes
    <2>2. spoiled'[a] = IF w.pc = "sending" /\ w.a = a THEN spoiled[a] + 1 ELSE spoiled[a]
        BY <1>1, <1>2 DEF BrOutTypes
    <2> QED BY <2>1, <2>2
<1> QED BY <1>1, <1>3, <1>4, BrIdleRun DEF AnswerInv, NotYetSent

----------------------------------------------------------------------------
(* The generic bridge as a whole.                                          *)

\* What happens to the conversations in Chatwoot.
LEMMA BrConvsStep ==
    ASSUME ConvTypes, [Br!BridgeNext]_(Br!bridgeVars)
    PROVE  convs' \in Seq(ConvStatus) /\ reopen' = reopen
<1>1. convs \in Seq(ConvStatus) /\ {"open", "resolved", "deleted"} = ConvStatus
    BY DEF ConvTypes, ConvStatus
<1>2. \/ convs' = convs \/ convs' = Append(convs, "open")
      \/ \E c, s : s \in ConvStatus /\ c \in DOMAIN convs /\ convs' = [convs EXCEPT ![c] = s]
    BY <1>1 DEF Br!BridgeNext, Br!bridgeVars, Br!mappingVars, Br!Ingestion, Br!Run, Br!CustomerActs,
       Br!AgentWrites, Br!AgentSetsStatus, Br!AgentSets, Br!IngestBegins, Br!Listed,
       Br!ReopenAnswered, Br!Opens, Br!There, Br!ConversationCreated, Br!Creates, Br!Posted,
       Br!PostRefused, Br!RecoveryListed, Br!RecoveryReopened, Br!RecoveryCreated, Br!Mapped,
       Br!DeleteAnswered, Br!EditAnswered, Br!IngestFails, Br!WebhookBegins, Br!Connected,
       Br!PartSent, Br!RunEnds, Br!DeleteWebhook, Br!Recalled, Br!RunFails
<1>3. convs' \in Seq(ConvStatus)
    <2>1. "open" \in ConvStatus
        BY <1>1
    <2>2. CASE convs' = Append(convs, "open")
        BY <1>1, <2>1, <2>2, AppendProperties
    <2>3. ASSUME NEW c \in DOMAIN convs, NEW s \in ConvStatus, convs' = [convs EXCEPT ![c] = s]
          PROVE  convs' \in Seq(ConvStatus)
        BY <1>1, <2>3, ExceptSeq
    <2> QED BY <1>1, <1>2, <2>2, <2>3
<1>4. reopen' = reopen
    BY DEF Br!BridgeNext, Br!bridgeVars, Br!mappingVars, Br!Ingestion, Br!Run, Br!CustomerActs,
       Br!AgentWrites, Br!AgentSetsStatus, Br!AgentSets, Br!IngestBegins, Br!Listed,
       Br!ReopenAnswered, Br!ConversationCreated, Br!Posted,
       Br!PostRefused, Br!RecoveryListed, Br!RecoveryReopened, Br!RecoveryCreated, Br!Mapped,
       Br!DeleteAnswered, Br!EditAnswered, Br!IngestFails, Br!WebhookBegins, Br!Connected,
       Br!PartSent, Br!RunEnds, Br!DeleteWebhook, Br!Recalled, Br!RunFails
<1> QED BY <1>3, <1>4

\* What leaves an ingestion, or the answers, alone.
LEMMA IngestKept ==
    ASSUME IngestInv, UNCHANGED <<heard, posts, maps, t, lost, moved>> PROVE IngestInv'
BY DEF IngestInv, BrInTypes, MessagesCounted, Lookup, PostsOf, HasMapping, Br!MappedIn

LEMMA AnswersKept ==
    ASSUME AnswerInv, UNCHANGED <<answer, status, w, shown, spoiled>> PROVE AnswerInv'
BY DEF AnswerInv, BrOutTypes, AnswersCounted, NotYetSent

LEMMA BridgeInvInit == ASSUME Br!BridgeAssumption, Br!BridgeInit PROVE BridgeInv
<1>1. ConvTypes
    <2>1. <<>> \in Seq(ConvStatus) /\ <<"open">> \in Seq(ConvStatus)
        BY DEF ConvStatus
    <2>2. convs \in Seq(ConvStatus) /\ reopen \in BOOLEAN
        BY <2>1 DEF Br!BridgeInit, Br!MappingInit
    <2>3. DOMAIN convs \subseteq Nat
        BY <2>2
    <2> QED BY <2>2, <2>3 DEF ConvTypes, Br!BridgeInit, Br!MappingInit
<1>2. /\ heard = {} /\ posts = <<>> /\ maps = {} /\ t = Br!IdleTask
      /\ lost = [p \in Msgs |-> 0] /\ moved = [p \in Msgs |-> 0]
    BY DEF Br!BridgeInit
<1>3. BrInTypes
    BY <1>2, BrIdleFits DEF BrInTypes, BrFit, Br!IdleTask
<1>4. MessagesCounted
    <2>1. \A p : PostsOf(p) = {}
        BY <1>2 DEF PostsOf
    <2> QED BY <1>2, <2>1, FS_EmptySet DEF MessagesCounted
<1>5. Lookup
    BY <1>2 DEF Lookup, Br!IdleTask
<1>6. BrOutTypes /\ NotYetSent
    BY BrIdleRun DEF Br!BridgeInit, BrOutTypes, NotYetSent
<1>7. AnswersCounted
    BY DEF Br!BridgeInit, AnswersCounted
<1> QED BY <1>1, <1>3, <1>4, <1>5, <1>6, <1>7 DEF BridgeInv, IngestInv, AnswerInv

LEMMA BridgeInvStep == ASSUME BridgeInv, [Br!BridgeNext]_(Br!bridgeVars) PROVE BridgeInv'
<1>1. ConvTypes /\ IngestInv /\ AnswerInv /\ BrInTypes
    BY DEF BridgeInv, IngestInv
<1>2. convs' \in Seq(ConvStatus) /\ reopen' \in BOOLEAN
    BY <1>1, BrConvsStep DEF ConvTypes
<1>3. SUFFICES IngestInv' /\ AnswerInv' /\ rows' \subseteq Nat /\ active' \subseteq Nat
    BY <1>2 DEF BridgeInv, ConvTypes
<1> DEFINE Kept == UNCHANGED <<rows, active>>
           Out == UNCHANGED <<answer, status, w, shown, spoiled>>
           In == UNCHANGED <<heard, posts, maps, t, lost, moved>>
<1>4. Kept => rows' \subseteq Nat /\ active' \subseteq Nat
    BY <1>1 DEF ConvTypes
<1>5. Out => AnswerInv'
    BY <1>1, AnswersKept
<1>6. In => IngestInv'
    BY <1>1, IngestKept
<1>10. CASE UNCHANGED Br!bridgeVars
    <2>1. Kept /\ Out /\ In
        BY <1>10 DEF Br!bridgeVars, Br!mappingVars, Br!inVars, Br!outVars
    <2> QED BY <1>4, <1>5, <1>6, <2>1
<1>11. CASE Br!CustomerActs
    <2>1. Kept /\ Out
        BY <1>11 DEF Br!CustomerActs, Br!mappingVars, Br!outVars
    <2> QED BY <1>1, <1>4, <1>5, <1>11, <2>1, CustomerActsStep
<1>12. CASE Br!AgentWrites
    <2>1. Kept /\ In
        BY <1>12 DEF Br!AgentWrites, Br!mappingVars, Br!inVars
    <2> QED BY <1>1, <1>4, <1>6, <1>12, <2>1, AgentWritesStep
<1>13. CASE Br!AgentSetsStatus
    <2>1. Kept /\ In /\ Out
        BY <1>13 DEF Br!AgentSetsStatus, Br!AgentSets, Br!inVars, Br!outVars
    <2> QED BY <1>4, <1>5, <1>6, <2>1
<1>14. CASE Br!IngestBegins
    <2>1. Kept /\ Out
        BY <1>14 DEF Br!IngestBegins, Br!mappingVars, Br!outVars
    <2> QED BY <1>1, <1>4, <1>5, <1>14, <2>1, BrIngestBeginsStep
<1>15. CASE Br!Listed
    <2>1. Kept /\ Out
        BY <1>15 DEF Br!Listed, Br!mappingVars, Br!outVars
    <2> QED BY <1>1, <1>4, <1>5, <1>15, <2>1, BrListedStep
<1>16. CASE Br!ReopenAnswered
    <2>1. Kept /\ Out
        BY <1>16 DEF Br!ReopenAnswered, Br!rowVars, Br!outVars
    <2> QED BY <1>1, <1>4, <1>5, <1>16, <2>1, BrReopenAnsweredStep
<1>17. CASE Br!ConversationCreated
    <2>1. Kept /\ Out
        BY <1>17 DEF Br!ConversationCreated, Br!rowVars, Br!outVars
    <2> QED BY <1>1, <1>4, <1>5, <1>17, <2>1, BrConversationCreatedStep
<1>18. CASE Br!Posted
    <2>1. Kept /\ Out
        BY <1>18 DEF Br!Posted, Br!mappingVars, Br!outVars
    <2> QED BY <1>1, <1>4, <1>5, <1>18, <2>1, BrPostedStep
<1>19. CASE Br!PostRefused
    <2>1. Kept /\ Out
        BY <1>19 DEF Br!PostRefused, Br!mappingVars, Br!outVars
    <2> QED BY <1>1, <1>4, <1>5, <1>19, <2>1, BrPostRefusedStep
<1>20. CASE Br!RecoveryListed
    <2>1. Out
        BY <1>20 DEF Br!RecoveryListed, Br!outVars
    <2> QED BY <1>1, <1>5, <1>20, <2>1, BrRecoveryListedStep
<1>21. CASE Br!RecoveryReopened
    <2>1. Out
        BY <1>21 DEF Br!RecoveryReopened, Br!outVars
    <2> QED BY <1>1, <1>5, <1>21, <2>1, BrRecoveryReopenedStep
<1>22. CASE Br!RecoveryCreated
    <2>1. Out
        BY <1>22 DEF Br!RecoveryCreated, Br!outVars
    <2> QED BY <1>1, <1>5, <1>22, <2>1, BrRecoveryCreatedStep
<1>23. CASE Br!Mapped
    <2>1. Out
        BY <1>23 DEF Br!Mapped, Br!outVars
    <2> QED BY <1>1, <1>5, <1>23, <2>1, BrMappedStep
<1>24. CASE Br!DeleteAnswered
    <2>1. Kept /\ Out
        BY <1>24 DEF Br!DeleteAnswered, Br!mappingVars, Br!outVars
    <2> QED BY <1>1, <1>4, <1>5, <1>24, <2>1, BrDeleteAnsweredStep
<1>25. CASE Br!EditAnswered
    <2>1. Out
        BY <1>25 DEF Br!EditAnswered, Br!outVars
    <2> QED BY <1>1, <1>5, <1>25, <2>1, BrEditAnsweredStep
<1>26. CASE Br!IngestFails
    <2>1. Kept /\ Out
        BY <1>26 DEF Br!IngestFails, Br!mappingVars, Br!outVars
    <2> QED BY <1>1, <1>4, <1>5, <1>26, <2>1, BrIngestFailsStep
<1>27. CASE Br!WebhookBegins
    <2>1. In
        BY <1>27 DEF Br!WebhookBegins, Br!inVars
    <2> QED BY <1>1, <1>6, <1>27, <2>1, WebhookBeginsStep
<1>28. CASE Br!Connected
    <2>1. In
        BY <1>28 DEF Br!Connected, Br!inVars
    <2> QED BY <1>1, <1>6, <1>28, <2>1, ConnectedStep
<1>29. CASE Br!PartSent
    <2>1. Kept /\ In
        BY <1>29 DEF Br!PartSent, Br!mappingVars, Br!inVars
    <2> QED BY <1>1, <1>4, <1>6, <1>29, <2>1, PartSentStep
<1>30. CASE Br!RunEnds
    <2>1. Kept /\ In
        BY <1>30 DEF Br!RunEnds, Br!mappingVars, Br!inVars
    <2> QED BY <1>1, <1>4, <1>6, <1>30, <2>1, RunEndsStep
<1>31. CASE Br!DeleteWebhook
    <2>1. Kept /\ In
        BY <1>31 DEF Br!DeleteWebhook, Br!mappingVars, Br!inVars
    <2> QED BY <1>1, <1>4, <1>6, <1>31, <2>1, DeleteWebhookStep
<1>32. CASE Br!Recalled
    <2>1. Kept /\ In
        BY <1>32 DEF Br!Recalled, Br!mappingVars, Br!inVars
    <2> QED BY <1>1, <1>4, <1>6, <1>32, <2>1, RecalledStep
<1>33. CASE Br!RunFails
    <2>1. Kept /\ In
        BY <1>33 DEF Br!RunFails, Br!mappingVars, Br!inVars
    <2> QED BY <1>1, <1>4, <1>6, <1>33, <2>1, RunFailsStep
<1> HIDE DEF Kept, Out, In
<1> QED BY <1>10, <1>11, <1>12, <1>13, <1>14, <1>15, <1>16, <1>17, <1>18, <1>19, <1>20, <1>21,
           <1>22, <1>23, <1>24, <1>25, <1>26, <1>27, <1>28, <1>29, <1>30, <1>31, <1>32, <1>33
        DEF Br!BridgeNext, Br!Ingestion, Br!Run

\* What the invariant means.
LEMMA BridgeInvMeans == BridgeInv => Br!CopiesExcused
<1> SUFFICES ASSUME BridgeInv PROVE Br!CopiesExcused
    OBVIOUS
<1>1. BrInTypes /\ BrOutTypes /\ MessagesCounted /\ AnswersCounted
    BY DEF BridgeInv, IngestInv, AnswerInv
<1>2. ASSUME NEW p \in Msgs
      PROVE  Cardinality({k \in DOMAIN posts : posts[k].p = p}) <= 1 + lost[p] + moved[p]
    <2>1. /\ Cardinality(PostsOf(p)) <= lost[p] + moved[p]
                + (IF HasMapping(p) \/ (t.pc = "posted" /\ t.e.p = p) THEN 1 ELSE 0)
          /\ Cardinality(PostsOf(p)) \in Nat /\ lost[p] \in Nat /\ moved[p] \in Nat
        BY <1>1, PostsFinite DEF MessagesCounted, BrInTypes
    <2>2. Cardinality(PostsOf(p)) <= 1 + lost[p] + moved[p]
        BY <2>1
    <2> QED BY <2>2 DEF PostsOf
<1>3. ASSUME NEW a \in Answers, NEW k \in Br!Parts
      PROVE  shown[a][k] <= 1 + spoiled[a]
    <2>1. shown[a][k] \in Nat /\ spoiled[a] \in Nat
        BY <1>1 DEF BrOutTypes
    <2> QED BY <1>1, <2>1 DEF AnswersCounted
<1> QED BY <1>2, <1>3, BrCardinality DEF Br!CopiesExcused

\* Only a posting makes a post.
LEMMA LooksFirstStep == ASSUME BridgeInv, [Br!BridgeNext]_(Br!bridgeVars) PROVE Br!LooksFirst
<1>1. BrInTypes /\ Lookup
    BY DEF BridgeInv, IngestInv
<1>2. CASE Br!Posted
    BY <1>1, <1>2 DEF Lookup, Br!Posted, Br!LooksFirst
<1>3. ASSUME ~Br!Posted PROVE Len(posts') = Len(posts)
    <2>1. CASE Br!DeleteAnswered
        <3>1. posts' = posts \/ \E m \in maps : posts' = [posts EXCEPT ![m.post].gone = TRUE]
            BY <2>1 DEF Br!DeleteAnswered, Br!MappedIn
        <3>2. 0 \in Nat
            OBVIOUS
        <3>3. \A k : SameMessages([posts EXCEPT ![k].gone = TRUE])
            BY <1>1, <3>2, PostEdited
        <3> QED BY <3>1, <3>3 DEF SameMessages
    <2>2. CASE Br!EditAnswered
        <3>1. posts' = posts \/ \E m \in maps : posts' = [posts EXCEPT ![m.post].text = t.e.text]
            BY <2>2 DEF Br!EditAnswered, Br!MappedIn
        <3>2. t.e.text \in Nat
            BY <1>1, <2>2 DEF BrInTypes, BrEvent, Br!EditAnswered
        <3>3. PICK text \in Nat : text = t.e.text
            BY <3>2
        <3>4. \A k : SameMessages([posts EXCEPT ![k].text = text])
            BY <1>1, PostEdited
        <3> QED BY <3>1, <3>3, <3>4 DEF SameMessages
    <2>3. CASE ~Br!DeleteAnswered /\ ~Br!EditAnswered
        <3>1. posts' = posts
            BY <1>3, <2>3 DEF Br!BridgeNext, Br!bridgeVars, Br!inVars, Br!Ingestion, Br!Run,
               Br!CustomerActs, Br!AgentWrites, Br!AgentSetsStatus, Br!IngestBegins,
               Br!Listed, Br!ReopenAnswered, Br!ConversationCreated, Br!PostRefused,
               Br!RecoveryListed, Br!RecoveryReopened, Br!RecoveryCreated, Br!Mapped,
               Br!IngestFails, Br!WebhookBegins, Br!Connected, Br!PartSent, Br!RunEnds,
               Br!DeleteWebhook, Br!Recalled, Br!RunFails
        <3> QED BY <3>1
    <2> QED BY <2>1, <2>2, <2>3
<1>4. Len(posts) \in Nat
    BY <1>1 DEF BrInTypes
<1> QED BY <1>2, <1>3, <1>4 DEF Br!LooksFirst

LEMMA BridgeInvariant == Br!BridgeAssumption => (Br!BridgeSpec => []BridgeInv)
<1> SUFFICES ASSUME Br!BridgeAssumption PROVE Br!BridgeSpec => []BridgeInv
    OBVIOUS
<1>1. Br!BridgeInit => BridgeInv
    BY BridgeInvInit
<1>2. BridgeInv /\ [Br!BridgeNext]_(Br!bridgeVars) => BridgeInv'
    BY BridgeInvStep
<1> QED BY <1>1, <1>2, PTL DEF Br!BridgeSpec

\* A message is in Chatwoot again, and a part of an answer on the platform, only
\* when a run ended between the request and the mapping, or the message was looked
\* for under another conversation than its own; and a message goes into a resolved
\* conversation only when that was not seen (bridge.py).
THEOREM BridgeCopiesExcused ==
    Br!BridgeAssumption =>
        (Br!BridgeSpec => []Br!CopiesExcused /\ [][Br!LooksFirst]_(Br!bridgeVars))
<1> SUFFICES ASSUME Br!BridgeAssumption
             PROVE  Br!BridgeSpec => []Br!CopiesExcused /\ [][Br!LooksFirst]_(Br!bridgeVars)
    OBVIOUS
<1>1. BridgeInv => Br!CopiesExcused
    BY BridgeInvMeans
<1>2. BridgeInv /\ [Br!BridgeNext]_(Br!bridgeVars) => Br!LooksFirst
    BY LooksFirstStep
<1> QED BY <1>1, <1>2, BridgeInvariant, PTL DEF Br!BridgeSpec

----------------------------------------------------------------------------
(* The bridge of the adapters (MessageLifecycle).                          *)

CONSTANTS LcMsgs, LcAnswers, Mirrors, MaxText, LcConvs, LcAgent, LcIngests, LcWebhooks
VARIABLES mapped

Lc == INSTANCE MessageLifecycle WITH Msgs <- LcMsgs, Answers <- LcAnswers, MaxConvs <- LcConvs,
          MaxAgent <- LcAgent, MaxIngests <- LcIngests, MaxWebhooks <- LcWebhooks

LEMMA LcCardinality == \A S : Lc!Cardinality(S) = Cardinality(S)
BY DEF Lc!Cardinality, Cardinality

LcEvent == [p : LcMsgs \union LcAnswers, text : Nat, gone : BOOLEAN, own : BOOLEAN]
LcMap == [conv : Nat, p : LcMsgs \union LcAnswers, post : Nat, text : Nat, gone : BOOLEAN]
LcPost == [conv : Nat, p : LcMsgs \union LcAnswers, text : Nat, kind : {"message", "edit"},
           gone : BOOLEAN]
LcHook == [kind : {"created", "edited", "deleted", "resolved"}, a : LcAnswers \union {"none"},
           c : Nat, text : Nat]

\* An ingestion of a message that is to be posted, one of a change, and a webhook
\* run for a change.
Fresh == {"listing", "opening", "creating", "posting", "recovering", "posted"}
Rewriting == {"editing", "edited", "deleting"}
Changing == {"editing", "edited", "deleting", "deleted"}

LcTask == [pc : {"idle"} \union Fresh \union Rewriting, e : LcEvent \union {Lc!NoEvent}, c : Nat,
           saw : ConvStatus \union {"unknown"}, post : Nat, m : LcMap \union {Lc!NoMap},
           again : BOOLEAN, excused : BOOLEAN]
LcRun == [pc : {"idle", "sending", "sent"} \union Changing,
          h : LcHook \union {[kind |-> "none", a |-> "none", c |-> 0, text |-> 0]},
          m : LcMap \union {Lc!NoMap}]

IsMapped(p) == Lc!MappingsOf(p) # {}

\* The answer is in conversation c, and in no other.
Placed(a, c) == Lc!PostOf(a) # {} /\ \A k \in Lc!PostOf(a) : posts[k].conv = c

\* What both sides read: an answer is in one conversation, which every mapping and
\* webhook of it names, and the platform tells of mapped answers only.
SharedInv ==
    /\ posts \in Seq(LcPost) /\ maps \subseteq LcMap
    /\ heard \subseteq LcEvent /\ hooks \subseteq LcHook
    /\ \A a \in LcAnswers : Lc!PostOf(a) = {} \/ \E c : Placed(a, c)
    /\ \A m \in maps : m.p \in LcAnswers => Placed(m.p, m.conv)
    /\ \A h \in hooks : h.kind # "resolved" => h.a \in LcAnswers /\ Placed(h.a, h.c)
    /\ \A e \in heard : e.p \in LcAnswers => IsMapped(e.p)

\* The ingestion: what is to be posted is the customer's and not mapped; what is
\* changed is.
LcFit(s) ==
    /\ s \in LcTask
    /\ s.pc # "idle" => s.e \in LcEvent
    /\ s.pc \in Fresh => s.e.p \in LcMsgs /\ ~IsMapped(s.e.p)
    /\ s.pc \in Rewriting => /\ s.m \in LcMap /\ IsMapped(s.m.p)
                             /\ s.m.p \in LcAnswers => Placed(s.m.p, s.m.conv)
    /\ s.pc = "posting" => s.saw # "resolved"
    /\ s.pc = "editing" => s.excused = TRUE

\* A message is in Chatwoot once for each history that names it, and once when it
\* is mapped or about to be.
PostsCounted ==
    \A p \in LcMsgs :
        Cardinality(Lc!PostOf(p)) <= lost[p]
            + (IF IsMapped(p) \/ (t.pc = "posted" /\ t.e.p = p) THEN 1 ELSE 0)

TaskInv == lost \in [LcMsgs -> Nat] /\ LcFit(t) /\ PostsCounted

\* The webhook run: an answer that is sent is not mapped, one that is changed is.
RunFit(s) ==
    /\ s \in LcRun
    /\ s.pc # "idle" => s.h \in LcHook /\ s.h.a \in LcAnswers /\ Placed(s.h.a, s.h.c)
    /\ s.pc \in {"sending", "sent"} => ~IsMapped(s.h.a)
    /\ s.pc \in Changing => /\ s.m \in LcMap /\ s.m.p = s.h.a /\ IsMapped(s.h.a)
                            /\ Placed(s.m.p, s.m.conv)

\* An answer was sent once for each run that did not map it, and once when it is
\* mapped or about to be.
SendingsCounted ==
    \A a \in LcAnswers :
        sent[a] <= spoiled[a] + (IF IsMapped(a) \/ (w.pc = "sent" /\ w.h.a = a) THEN 1 ELSE 0)

RunInv ==
    /\ sent \in [LcAnswers -> Nat] /\ spoiled \in [LcAnswers -> Nat] /\ RunFit(w) /\ SendingsCounted

\* An agent's own edit that comes back was mapped, or the run that made it is about
\* to, or it ended.
OwnAccounted ==
    \A e \in heard :
        e.own /\ ~e.gone =>
            /\ e.p \in LcAnswers
            /\ \/ w.pc = "edited" /\ w.h.a = e.p /\ w.h.text = e.text
               \/ <<e.p, e.text>> \in mapped
               \/ spoiled[e.p] > 0

LifecycleInv == ConvTypes /\ SharedInv /\ TaskInv /\ RunInv /\ OwnAccounted

----------------------------------------------------------------------------
(* Mappings and posts.                                                     *)

\* A mapping that is written takes the place of its row, and nothing else goes.
LEMMA Writes ==
    ASSUME SharedInv, NEW m \in LcMap, Lc!Write(m)
    PROVE  /\ maps' \subseteq LcMap
           /\ \A n \in maps' : n \in maps \/ n = m
           /\ \A p : IsMapped(p)' <=> IsMapped(p) \/ p = m.p
           /\ mapped' = mapped \union {<<m.p, m.text>>}
<1>1. maps' = {n \in maps : ~Lc!SameRow(m, n)} \union {m} /\ maps \subseteq LcMap
    BY DEF Lc!Write, SharedInv
<1>2. \A n \in maps : Lc!SameRow(m, n) => n.p = m.p
    BY DEF Lc!SameRow
<1>3. \A p : IsMapped(p)' <=> IsMapped(p) \/ p = m.p
    BY <1>1, <1>2 DEF IsMapped, Lc!MappingsOf
<1> QED BY <1>1, <1>3 DEF Lc!Write

\* Steps that change no more of the posts than text and deletion.
SamePosts ==
    /\ posts' \in Seq(LcPost) /\ Len(posts') = Len(posts)
    /\ \A k \in DOMAIN posts : /\ posts'[k].p = posts[k].p /\ posts'[k].kind = posts[k].kind
                               /\ posts'[k].conv = posts[k].conv

LEMMA SamePlaces ==
    ASSUME SharedInv, SamePosts
    PROVE  /\ \A p : Lc!PostOf(p)' = Lc!PostOf(p)
           /\ \A a, c : Placed(a, c)' <=> Placed(a, c)
<1>1. DOMAIN posts' = DOMAIN posts
    BY DEF SharedInv, SamePosts
<1>2. \A p : Lc!PostOf(p)' = Lc!PostOf(p)
    BY <1>1 DEF SamePosts, Lc!PostOf
<1>3. \A a : \A k \in Lc!PostOf(a) : posts'[k].conv = posts[k].conv
    BY DEF SamePosts, Lc!PostOf
<1> QED BY <1>2, <1>3 DEF Placed

LEMMA PostChanges ==
    ASSUME SharedInv, NEW k, NEW text \in Nat,
           posts' \in {posts, [posts EXCEPT ![k].text = text], [posts EXCEPT ![k].gone = TRUE]}
    PROVE  SamePosts
<1>1. \A post \in LcPost :
          /\ [post EXCEPT !.text = text] \in LcPost /\ [post EXCEPT !.text = text].p = post.p
          /\ [post EXCEPT !.text = text].kind = post.kind
          /\ [post EXCEPT !.text = text].conv = post.conv
          /\ [post EXCEPT !.gone = TRUE] \in LcPost /\ [post EXCEPT !.gone = TRUE].p = post.p
          /\ [post EXCEPT !.gone = TRUE].kind = post.kind
          /\ [post EXCEPT !.gone = TRUE].conv = post.conv
    BY DEF LcPost
<1>2. posts \in Seq(LcPost) /\ \A j \in DOMAIN posts : posts[j] \in LcPost
    BY DEF SharedInv
<1>3. CASE posts' = posts
    BY <1>2, <1>3 DEF SamePosts
<1>4. CASE k \notin DOMAIN posts
    <2>1. posts' = posts
        BY <1>2, <1>4
    <2> QED BY <1>3, <2>1
<1>5. CASE k \in DOMAIN posts /\ posts' # posts
    <2>1. PICK post \in LcPost :
              /\ posts' = [posts EXCEPT ![k] = post]
              /\ post.p = posts[k].p /\ post.kind = posts[k].kind /\ post.conv = posts[k].conv
        <3>1. CASE posts' = [posts EXCEPT ![k].text = text]
            <4>1. posts' = [posts EXCEPT ![k] = [posts[k] EXCEPT !.text = text]]
                BY <3>1
            <4> QED BY <1>1, <1>2, <1>5, <4>1
        <3>2. CASE posts' = [posts EXCEPT ![k].gone = TRUE]
            <4>1. posts' = [posts EXCEPT ![k] = [posts[k] EXCEPT !.gone = TRUE]]
                BY <3>2
            <4> QED BY <1>1, <1>2, <1>5, <4>1
        <3> QED BY <1>5, <3>1, <3>2
    <2>2. k \in 1 .. Len(posts)
        BY <1>2, <1>5
    <2>3. /\ posts' \in Seq(LcPost) /\ Len(posts') = Len(posts)
          /\ \A j \in 1 .. Len(posts) : posts'[j] = IF j = k THEN post ELSE posts[j]
        BY <1>2, <2>1, <2>2, ExceptSeq
    <2>4. DOMAIN posts = 1 .. Len(posts)
        BY <1>2
    <2> QED BY <2>1, <2>3, <2>4 DEF SamePosts
<1> QED BY <1>3, <1>4, <1>5

\* One post more.
LEMMA PostAdded ==
    ASSUME SharedInv, NEW new \in LcPost, posts' = Append(posts, new)
    PROVE  /\ posts' \in Seq(LcPost)
           /\ \A p : Lc!PostOf(p)' = IF new.p = p /\ new.kind = "message"
                                     THEN Lc!PostOf(p) \union {Len(posts) + 1} ELSE Lc!PostOf(p)
           /\ \A p : \A k \in Lc!PostOf(p) : posts'[k] = posts[k]
           /\ posts'[Len(posts) + 1] = new
<1>1. posts \in Seq(LcPost) /\ Len(posts) \in Nat /\ DOMAIN posts = 1 .. Len(posts)
    BY DEF SharedInv
<1>2. /\ posts' \in Seq(LcPost) /\ DOMAIN posts' = 1 .. (Len(posts) + 1)
      /\ \A k \in 1 .. Len(posts) : posts'[k] = posts[k]
      /\ posts'[Len(posts) + 1] = new
    BY <1>1, AppendProperties
<1>3. \A k \in DOMAIN posts' : k = Len(posts) + 1 \/ k \in DOMAIN posts
    BY <1>1, <1>2
<1>4. Len(posts) + 1 \in DOMAIN posts' /\ Len(posts) + 1 \notin DOMAIN posts
      /\ DOMAIN posts \subseteq DOMAIN posts'
    BY <1>1, <1>2
<1>5. ASSUME NEW p
      PROVE  Lc!PostOf(p)' = IF new.p = p /\ new.kind = "message"
                             THEN Lc!PostOf(p) \union {Len(posts) + 1} ELSE Lc!PostOf(p)
    <2>1. \A k : k \in Lc!PostOf(p)' <=>
                     k \in Lc!PostOf(p) \/ (k = Len(posts) + 1 /\ new.p = p /\ new.kind = "message")
        BY <1>1, <1>2, <1>3, <1>4 DEF Lc!PostOf
    <2>2. CASE new.p = p /\ new.kind = "message"
        BY <2>1, <2>2
    <2>3. CASE ~(new.p = p /\ new.kind = "message")
        BY <2>1, <2>3
    <2> QED BY <2>2, <2>3
<1>6. \A p : \A k \in Lc!PostOf(p) : posts'[k] = posts[k]
    BY <1>1, <1>2 DEF Lc!PostOf
<1> QED BY <1>2, <1>5, <1>6

LEMMA PostOfFinite ==
    ASSUME SharedInv, NEW p
    PROVE  IsFiniteSet(Lc!PostOf(p)) /\ Cardinality(Lc!PostOf(p)) \in Nat
<1>1. DOMAIN posts = 1 .. Len(posts) /\ Len(posts) \in Nat
    BY DEF SharedInv
<1>2. IsFiniteSet(DOMAIN posts)
    BY <1>1, FS_Interval
<1> QED BY <1>2, FS_Subset, FS_CardinalityType DEF Lc!PostOf

----------------------------------------------------------------------------
(* What a step of another actor leaves as it was.                          *)

LEMMA FitKept ==
    ASSUME NEW s, LcFit(s),
           \A p \in LcMsgs : IsMapped(p)' <=> IsMapped(p),
           \A p : IsMapped(p) => IsMapped(p)',
           \A a \in LcAnswers : \A c : Placed(a, c) => Placed(a, c)'
    PROVE  LcFit(s)'
<1>1. s.pc \in Fresh => ~IsMapped(s.e.p)'
    BY DEF LcFit
<1>2. s.pc \in Rewriting => IsMapped(s.m.p)' /\ (s.m.p \in LcAnswers => Placed(s.m.p, s.m.conv)')
    BY DEF LcFit
<1> QED BY <1>1, <1>2 DEF LcFit

LEMMA RunFitKept ==
    ASSUME NEW s, RunFit(s),
           \A a \in LcAnswers : IsMapped(a)' <=> IsMapped(a),
           \A a \in LcAnswers : \A c : Placed(a, c) => Placed(a, c)'
    PROVE  RunFit(s)'
<1>1. s.pc # "idle" => Placed(s.h.a, s.h.c)'
    BY DEF RunFit
<1>2. s.pc \in {"sending", "sent"} => s.h.a \in LcAnswers /\ ~IsMapped(s.h.a)'
    BY DEF RunFit
<1>3. s.pc \in Changing => IsMapped(s.h.a)' /\ Placed(s.m.p, s.m.conv)'
    BY DEF RunFit, Changing
<1> QED BY <1>1, <1>2, <1>3 DEF RunFit

\* A step of the other side, which neither posts nor maps a message of the customer.
LEMMA TaskKept ==
    ASSUME TaskInv, UNCHANGED <<t, lost>>,
           \A p \in LcMsgs : Lc!PostOf(p)' = Lc!PostOf(p),
           \A p \in LcMsgs : IsMapped(p)' <=> IsMapped(p),
           \A p : IsMapped(p) => IsMapped(p)',
           \A a \in LcAnswers : \A c : Placed(a, c) => Placed(a, c)'
    PROVE  TaskInv'
<1>1. PICK s : s = t
    OBVIOUS
<1>2. LcFit(s)'
    BY <1>1, FitKept DEF TaskInv
<1>3. LcFit(t)'
    BY <1>1, <1>2
<1>4. PostsCounted'
    BY DEF TaskInv, PostsCounted
<1> QED BY <1>3, <1>4 DEF TaskInv

\* A step of the other side, which maps no answer that was not.
LEMMA RunKept ==
    ASSUME RunInv, UNCHANGED <<w, sent, spoiled>>,
           \A a \in LcAnswers : IsMapped(a)' <=> IsMapped(a),
           \A a \in LcAnswers : \A c : Placed(a, c) => Placed(a, c)'
    PROVE  RunInv'
<1>1. PICK s : s = w
    OBVIOUS
<1>2. RunFit(s)'
    BY <1>1, RunFitKept DEF RunInv
<1>3. RunFit(w)'
    BY <1>1, <1>2
<1>4. SendingsCounted'
    BY DEF RunInv, SendingsCounted
<1> QED BY <1>3, <1>4 DEF RunInv

\* A step that makes no edit of an agent's come back.
LEMMA OwnKept ==
    ASSUME OwnAccounted, UNCHANGED <<w, spoiled>>, mapped \subseteq mapped',
           \A e \in heard' : e \in heard \/ e.own = FALSE
    PROVE  OwnAccounted'
BY DEF OwnAccounted

\* What both sides read stays in order when a mapping of a placed message is written.
LEMMA SharedKept ==
    ASSUME SharedInv, posts' \in Seq(LcPost), maps' \subseteq LcMap,
           heard' \subseteq LcEvent, hooks' \subseteq LcHook,
           \A p : IsMapped(p) => IsMapped(p)',
           \A a \in LcAnswers : \A c : Placed(a, c) => Placed(a, c)',
           \A a \in LcAnswers : Lc!PostOf(a)' = Lc!PostOf(a) \/ \E c : Placed(a, c)',
           \A m \in maps' : m \in maps \/ (m.p \in LcAnswers => Placed(m.p, m.conv)'),
           \A h \in hooks' : h \in hooks \/ (h.kind # "resolved" => h.a \in LcAnswers /\ Placed(h.a, h.c)'),
           \A e \in heard' : e \in heard \/ (e.p \in LcAnswers => IsMapped(e.p)')
    PROVE  SharedInv'
<1>1. \A m \in maps' : m.p \in LcAnswers => Placed(m.p, m.conv)'
    BY DEF SharedInv
<1>2. \A h \in hooks' : h.kind # "resolved" => h.a \in LcAnswers /\ Placed(h.a, h.c)'
    BY DEF SharedInv
<1>3. \A e \in heard' : e.p \in LcAnswers => IsMapped(e.p)'
    BY DEF SharedInv
<1>4. \A a \in LcAnswers : Lc!PostOf(a)' = {} \/ \E c : Placed(a, c)'
    BY DEF SharedInv
<1> QED BY <1>1, <1>2, <1>3, <1>4 DEF SharedInv

----------------------------------------------------------------------------
(* The steps of an ingestion.                                              *)

LcCore == SharedInv /\ TaskInv /\ RunInv /\ OwnAccounted

LEMMA LcIdleFits == LcFit(Lc!IdleTask) /\ Lc!IdleTask.pc = "idle"
BY DEF LcFit, LcTask, Fresh, Rewriting, Lc!IdleTask, ConvStatus

\* What is unchanged keeps its places and mappings.
LEMMA NothingWritten ==
    ASSUME UNCHANGED <<posts, maps>>
    PROVE  /\ \A p : Lc!PostOf(p)' = Lc!PostOf(p) /\ (IsMapped(p)' <=> IsMapped(p))
           /\ \A a, c : Placed(a, c)' <=> Placed(a, c)
BY DEF IsMapped, Placed, Lc!PostOf, Lc!MappingsOf

\* A step that goes on, or ends, and writes nothing.
LEMMA LcQuiet ==
    ASSUME LcCore, LcFit(t'), t.pc # "posted", t'.pc # "posted",
           UNCHANGED <<heard, posts, maps, lost, hooks, w, sent, spoiled, mapped>>
    PROVE  LcCore'
<1>1. /\ \A p : Lc!PostOf(p)' = Lc!PostOf(p) /\ (IsMapped(p)' <=> IsMapped(p))
      /\ \A a, c : Placed(a, c)' <=> Placed(a, c)
    BY NothingWritten
<1>2. PICK s : s = t'
    OBVIOUS
<1>3. LcFit(s)'
    BY <1>1, <1>2, FitKept
<1>4. LcFit(t)'
    BY <1>2, <1>3
<1>5. PostsCounted'
    BY <1>1 DEF LcCore, TaskInv, PostsCounted
<1>6. TaskInv'
    BY <1>4, <1>5 DEF LcCore, TaskInv
<1>7. SharedInv'
    BY <1>1, SharedKept DEF LcCore, SharedInv
<1>8. RunInv'
    BY <1>1, RunKept DEF LcCore
<1>9. OwnAccounted'
    BY OwnKept DEF LcCore
<1> QED BY <1>6, <1>7, <1>8, <1>9 DEF LcCore

LEMMA LcIngestBeginsStep == ASSUME ConvTypes, LcCore, Lc!IngestBegins PROVE LcCore'
<1>1. PICK e \in heard : t' \in Lc!Taken(e)
    BY DEF Lc!IngestBegins
<1>2. e \in LcEvent /\ (e.p \in LcAnswers => IsMapped(e.p)) /\ maps \subseteq LcMap
    BY DEF LcCore, SharedInv
<1>3. t.pc = "idle" /\ UNCHANGED <<heard, posts, maps, lost, hooks, w, sent, spoiled, mapped>>
    BY DEF Lc!IngestBegins, Lc!outVars
<1>4. \A m \in Lc!MappingsOf(e.p) :
          m \in LcMap /\ IsMapped(m.p) /\ (m.p \in LcAnswers => Placed(m.p, m.conv))
    BY DEF LcCore, SharedInv, Lc!MappingsOf, IsMapped
<1>5. CASE e.gone
    <2>1. PICK m \in Lc!MappingsOf(e.p) :
              t' = [Lc!IdleTask EXCEPT !.pc = "deleting", !.e = e, !.m = m]
        BY <1>1, <1>5 DEF Lc!Taken
    <2>2. LcFit(t') /\ t'.pc # "posted"
        BY <1>2, <1>4, <2>1, LcIdleFits DEF LcFit, LcTask, Fresh, Rewriting, Lc!IdleTask
    <2> QED BY <1>3, <2>2, LcQuiet
<1>6. CASE ~e.gone /\ Lc!MappingsOf(e.p) # {}
    <2>1. PICK m \in Lc!MappingsOf(e.p) :
              t' = [Lc!IdleTask EXCEPT !.pc = "editing", !.e = e, !.m = m,
                                       !.excused = ~Lc!Surprised(e)]
        BY <1>1, <1>6 DEF Lc!Taken
    <2>2. ~Lc!Surprised(e)
        <3>1. e.own /\ ~e.gone => /\ e.p \in LcAnswers
                                  /\ \/ w.pc = "edited" /\ w.h.a = e.p
                                     \/ <<e.p, e.text>> \in mapped
                                     \/ spoiled[e.p] > 0
            BY DEF LcCore, OwnAccounted
        <3>2. e.p \in LcAnswers => spoiled[e.p] \in Nat
            BY DEF LcCore, RunInv
        <3> QED BY <1>6, <3>1, <3>2 DEF Lc!Surprised, Lc!Unsettled
    <2>3. (~Lc!Surprised(e)) = TRUE
        BY <2>2
    <2>4. t' = [Lc!IdleTask EXCEPT !.pc = "editing", !.e = e, !.m = m, !.excused = TRUE]
        BY <2>1, <2>3, Zenon
    <2>5. LcFit(t') /\ t'.pc # "posted"
        BY <1>2, <1>4, <2>4, LcIdleFits DEF LcFit, LcTask, Fresh, Rewriting, Lc!IdleTask
    <2> QED BY <1>3, <2>5, LcQuiet
<1>7. CASE ~e.gone /\ Lc!MappingsOf(e.p) = {}
    <2>1. PICK row \in Lc!Current : t' = [Lc!IdleTask EXCEPT !.pc = "listing", !.e = e, !.c = row]
        BY <1>1, <1>7 DEF Lc!Taken
    <2>2. row \in Nat
        BY DEF ConvTypes, Lc!Current
    <2>3. e.p \in LcMsgs /\ ~IsMapped(e.p)
        BY <1>2, <1>7 DEF LcEvent, IsMapped
    <2>4. LcFit(t') /\ t'.pc # "posted"
        BY <1>2, <2>1, <2>2, <2>3, LcIdleFits DEF LcFit, LcTask, Fresh, Rewriting, Lc!IdleTask
    <2> QED BY <1>3, <2>4, LcQuiet
<1> QED BY <1>5, <1>6, <1>7

\* An ingestion on its way to the post stays one.
LEMMA FreshMoves ==
    ASSUME TaskInv, t.pc \in Fresh, NEW c \in Nat,
           NEW known \in ConvStatus \union {"unknown"}, known # "resolved"
    PROVE  /\ LcFit([t EXCEPT !.pc = "posting", !.c = c, !.saw = known])
           /\ LcFit([t EXCEPT !.pc = "creating"]) /\ LcFit([t EXCEPT !.pc = "opening", !.c = c])
           /\ LcFit([t EXCEPT !.pc = "recovering", !.again = TRUE])
BY DEF TaskInv, LcFit, LcTask, Fresh, Rewriting

LEMMA ReadyMoves ==
    ASSUME TaskInv, t.pc \in Fresh, NEW c \in Nat,
           NEW known \in ConvStatus \union {"unknown"}, known # "resolved", Lc!Ready(c, known)
    PROVE  LcFit(t') /\ t'.pc = "posting"
<1>1. t' = [t EXCEPT !.pc = "posting", !.c = c, !.saw = known] /\ t \in LcTask
    BY DEF Lc!Ready, TaskInv, LcFit
<1>2. t'.pc = "posting"
    BY <1>1 DEF LcTask
<1> QED BY <1>1, <1>2, FreshMoves

LEMMA LcSelects ==
    ASSUME ConvTypes, NEW other, Lc!Select(Lc!Listing, other) # 0
    PROVE  /\ Lc!Select(Lc!Listing, other) \in Nat
           /\ Lc!Listing[Lc!Select(Lc!Listing, other)] \in ConvStatus
<1>1. Lc!Listing = Br!Listing
    BY DEF Lc!Listing, Br!Listing, Lc!There, Br!There
<1>2. \A S : Lc!Newest(S) = Br!Newest(S)
    BY DEF Lc!Newest, Br!Newest
<1>3. \A list : Lc!Select(list, other) = Br!Select(list, other)
    BY <1>2 DEF Lc!Select, Br!Select
<1>4. BrList(Br!Listing)
    BY BrListed
<1> QED BY <1>1, <1>3, <1>4, BrSelects

LEMMA LcListedStep ==
    ASSUME ConvTypes, LcCore, Lc!Listed
    PROVE  LcCore' /\ rows' \subseteq Nat /\ active' \subseteq Nat
<1>1. /\ TaskInv /\ t.pc = "listing" /\ t \in LcTask /\ t.pc \in Fresh
      /\ UNCHANGED <<heard, posts, maps, lost, hooks, w, sent, spoiled, mapped>>
    BY DEF Lc!Listed, Lc!outVars, LcCore, TaskInv, LcFit, Fresh
<1> DEFINE list == Lc!Listing
           c == IF t.c # 0 /\ list[t.c] # "resolved" THEN t.c ELSE Lc!Select(list, 0)
<1>2. \/ Lc!Ready(t.c, "unknown") /\ UNCHANGED Lc!rowVars
      \/ /\ ~(t.c # 0 /\ t.c \notin DOMAIN list)
         /\ \/ t' = [t EXCEPT !.pc = "creating"] /\ UNCHANGED Lc!rowVars
            \/ c # 0 /\ t' = [t EXCEPT !.pc = "opening", !.c = c] /\ UNCHANGED Lc!rowVars
            \/ c # 0 /\ list[c] # "resolved" /\ Lc!Upsert(c) /\ Lc!Ready(c, list[c])
    BY DEF Lc!Listed
<1>3. t.c \in Nat
    BY <1>1 DEF LcTask
<1>4. ~(t.c # 0 /\ t.c \notin DOMAIN list) /\ c # 0 => c \in Nat /\ list[c] \in ConvStatus
    <2>1. t.c \in DOMAIN list => list[t.c] \in ConvStatus
        BY DEF ConvTypes, Lc!Listing, Lc!There
    <2> QED BY <1>3, <2>1, LcSelects
<1> HIDE DEF list, c
<1>5. LcFit(t') /\ t'.pc # "posted"
    <2>1. CASE Lc!Ready(t.c, "unknown")
        BY <1>1, <1>3, <2>1, ReadyMoves
    <2>2. CASE c # 0 /\ c \in Nat /\ list[c] \in ConvStatus /\ list[c] # "resolved"
               /\ Lc!Ready(c, list[c])
        BY <1>1, <2>2, ReadyMoves
    <2>3. CASE t' = [t EXCEPT !.pc = "creating"]
        BY <1>1, <2>3, FreshMoves DEF LcTask, ConvStatus
    <2>4. CASE c \in Nat /\ t' = [t EXCEPT !.pc = "opening", !.c = c]
        BY <1>1, <2>4, FreshMoves DEF LcTask, ConvStatus
    <2> QED BY <1>2, <1>4, <2>1, <2>2, <2>3, <2>4
<1>6. rows' \subseteq Nat /\ active' \subseteq Nat
    BY <1>2, <1>4 DEF ConvTypes, Lc!rowVars, Lc!Upsert
<1> QED BY <1>1, <1>5, <1>6, LcQuiet

LEMMA LcReopenAnsweredStep ==
    ASSUME ConvTypes, LcCore, Lc!ReopenAnswered
    PROVE  LcCore' /\ rows' \subseteq Nat /\ active' \subseteq Nat
<1>1. /\ TaskInv /\ t.pc = "opening" /\ t.c \in Nat /\ t.pc \in Fresh /\ "open" \in ConvStatus
      /\ UNCHANGED <<heard, posts, maps, lost, hooks, w, sent, spoiled, mapped>>
    BY DEF Lc!ReopenAnswered, Lc!outVars, LcCore, TaskInv, LcFit, Fresh, LcTask, ConvStatus
<1>2. Lc!Ready(t.c, "open") /\ Lc!Upsert(t.c)
    BY DEF Lc!ReopenAnswered
<1>3. LcFit(t') /\ t'.pc # "posted"
    BY <1>1, <1>2, ReadyMoves
<1>4. rows' \subseteq Nat /\ active' \subseteq Nat
    BY <1>1, <1>2 DEF ConvTypes, Lc!Upsert
<1> QED BY <1>1, <1>3, <1>4, LcQuiet

LEMMA LcConversationCreatedStep ==
    ASSUME ConvTypes, LcCore, Lc!ConversationCreated
    PROVE  LcCore' /\ rows' \subseteq Nat /\ active' \subseteq Nat
<1>1. /\ TaskInv /\ t.pc = "creating" /\ t.pc \in Fresh /\ "open" \in ConvStatus
      /\ Len(convs) + 1 \in Nat
      /\ UNCHANGED <<heard, posts, maps, lost, hooks, w, sent, spoiled, mapped>>
    BY DEF Lc!ConversationCreated, Lc!outVars, LcCore, TaskInv, Fresh, ConvStatus, ConvTypes
<1>2. CASE Lc!Upsert(Len(convs) + 1) /\ Lc!Ready(Len(convs) + 1, "open")
    <2>1. LcFit(t') /\ t'.pc # "posted"
        BY <1>1, <1>2, ReadyMoves
    <2>2. rows' \subseteq Nat /\ active' \subseteq Nat
        BY <1>1, <1>2 DEF ConvTypes, Lc!Upsert
    <2> QED BY <1>1, <2>1, <2>2, LcQuiet
<1>3. CASE t' = Lc!IdleTask /\ UNCHANGED Lc!rowVars
    BY <1>1, <1>3, LcIdleFits, LcQuiet DEF ConvTypes, Lc!rowVars
<1> QED BY <1>2, <1>3 DEF Lc!ConversationCreated

LEMMA LcPostRefusedStep == ASSUME ConvTypes, LcCore, Lc!PostRefused PROVE LcCore'
<1>1. /\ TaskInv /\ t.pc = "posting" /\ t \in LcTask /\ t.pc \in Fresh
      /\ UNCHANGED <<heard, posts, maps, lost, hooks, w, sent, spoiled, mapped>>
    BY DEF Lc!PostRefused, Lc!outVars, LcCore, TaskInv, LcFit, Fresh
<1>2. t' \in {Lc!IdleTask, [t EXCEPT !.pc = "recovering", !.again = TRUE]}
    BY DEF Lc!PostRefused
<1>3. LcFit(t') /\ t'.pc # "posted"
    <2>1. CASE t' = Lc!IdleTask
        BY <2>1, LcIdleFits
    <2>2. CASE t' = [t EXCEPT !.pc = "recovering", !.again = TRUE]
        <3>1. 0 \in Nat /\ "open" \in ConvStatus
            BY DEF ConvStatus
        <3> QED BY <1>1, <2>2, <3>1, FreshMoves DEF LcTask
    <2> QED BY <1>2, <2>1, <2>2
<1> QED BY <1>1, <1>3, LcQuiet

LEMMA LcRecoveredStep ==
    ASSUME ConvTypes, LcCore, Lc!Recovered
    PROVE  LcCore' /\ rows' \subseteq Nat /\ active' \subseteq Nat
<1>1. /\ TaskInv /\ t.pc = "recovering" /\ t \in LcTask /\ t.pc \in Fresh /\ "open" \in ConvStatus
      /\ UNCHANGED <<heard, posts, maps, lost, hooks, w, sent, spoiled, mapped>>
    BY DEF Lc!Recovered, Lc!outVars, LcCore, TaskInv, LcFit, Fresh, ConvStatus
<1>2. \/ \E c \in DOMAIN Lc!Listing : Lc!Upsert(c) /\ Lc!Ready(c, "open")
      \/ t' = [t EXCEPT !.pc = "creating"] /\ UNCHANGED Lc!rowVars
    BY DEF Lc!Recovered
<1>3. ASSUME NEW c \in DOMAIN Lc!Listing, Lc!Upsert(c), Lc!Ready(c, "open")
      PROVE  LcCore' /\ rows' \subseteq Nat /\ active' \subseteq Nat
    <2>1. c \in Nat
        BY DEF ConvTypes, Lc!Listing
    <2>2. LcFit(t') /\ t'.pc # "posted"
        BY <1>1, <1>3, <2>1, ReadyMoves
    <2>3. rows' \subseteq Nat /\ active' \subseteq Nat
        BY <1>3, <2>1 DEF ConvTypes, Lc!Upsert
    <2> QED BY <1>1, <2>2, <2>3, LcQuiet
<1>4. CASE t' = [t EXCEPT !.pc = "creating"] /\ UNCHANGED Lc!rowVars
    <2>1. 0 \in Nat
        OBVIOUS
    <2>2. LcFit(t') /\ t'.pc # "posted"
        BY <1>1, <1>4, <2>1, FreshMoves DEF LcTask, ConvStatus
    <2> QED BY <1>1, <1>4, <2>2, LcQuiet DEF ConvTypes, Lc!rowVars
<1> QED BY <1>2, <1>3, <1>4

\* An ingestion that ends, with the mapping of a customer's message or of an answer
\* that is mapped.
LEMMA TaskWrites ==
    ASSUME LcMsgs \cap LcAnswers = {}, LcCore, t' = Lc!IdleTask, SamePosts,
           NEW m \in LcMap, Lc!Write(m), t.pc = "posted" => m.p = t.e.p,
           m.p \in LcAnswers => IsMapped(m.p) /\ Placed(m.p, m.conv),
           UNCHANGED <<heard, lost, hooks, w, sent, spoiled>>
    PROVE  LcCore'
<1>1. SharedInv /\ TaskInv /\ RunInv /\ OwnAccounted
    BY DEF LcCore
<1>2. /\ maps' \subseteq LcMap /\ \A n \in maps' : n \in maps \/ n = m
      /\ \A p : IsMapped(p)' <=> IsMapped(p) \/ p = m.p
      /\ mapped \subseteq mapped'
    BY <1>1, Writes
<1>3. /\ \A p : Lc!PostOf(p)' = Lc!PostOf(p)
      /\ \A a, c : Placed(a, c)' <=> Placed(a, c)
    BY <1>1, SamePlaces
<1>4. SharedInv'
    <2>1. \A n \in maps' : n \in maps \/ (n.p \in LcAnswers => Placed(n.p, n.conv)')
        BY <1>2, <1>3
    <2>2. /\ posts' \in Seq(LcPost) /\ heard' \subseteq LcEvent /\ hooks' \subseteq LcHook
          /\ \A h \in hooks' : h \in hooks
          /\ \A e \in heard' : e \in heard
        BY <1>1 DEF SamePosts, SharedInv
    <2> QED BY <1>1, <1>2, <1>3, <2>1, <2>2, SharedKept
<1>5. TaskInv'
    <2>1. t'.pc = "idle" /\ LcFit(t')
        BY LcIdleFits
    <2>2. LcFit(t)'
        BY <2>1 DEF LcFit, Fresh, Rewriting
    <2>3. PostsCounted'
        <3> SUFFICES ASSUME NEW p \in LcMsgs
                     PROVE  Cardinality(Lc!PostOf(p)') <= lost[p] + (IF IsMapped(p)' THEN 1 ELSE 0)
            BY <2>1 DEF PostsCounted
        <3>1. Cardinality(Lc!PostOf(p)) <= lost[p]
                  + (IF IsMapped(p) \/ (t.pc = "posted" /\ t.e.p = p) THEN 1 ELSE 0)
            BY <1>1 DEF TaskInv, PostsCounted
        <3>2. /\ lost[p] \in Nat /\ Cardinality(Lc!PostOf(p)) \in Nat
              /\ Lc!PostOf(p)' = Lc!PostOf(p)
              /\ IsMapped(p) \/ (t.pc = "posted" /\ t.e.p = p) => IsMapped(p)'
            BY <1>1, <1>2, <1>3, PostOfFinite DEF TaskInv
        <3> QED BY <3>1, <3>2
    <2> QED BY <1>1, <2>2, <2>3 DEF TaskInv
<1>6. RunInv'
    <2>1. \A a \in LcAnswers : IsMapped(a)' <=> IsMapped(a)
        BY <1>2
    <2> QED BY <1>1, <1>3, <2>1, RunKept
<1>7. OwnAccounted'
    BY <1>1, <1>2, OwnKept
<1> QED BY <1>4, <1>5, <1>6, <1>7 DEF LcCore

LEMMA LcPostedStep ==
    ASSUME ConvTypes, LcMsgs \cap LcAnswers = {}, LcCore, Lc!Posted PROVE LcCore'
<1> DEFINE new == [conv |-> t.c, p |-> t.e.p, text |-> t.e.text, kind |-> "message",
                   gone |-> FALSE]
<1>1. /\ SharedInv /\ TaskInv /\ RunInv /\ OwnAccounted
      /\ t \in LcTask /\ t.pc = "posting" /\ t.e \in LcEvent
      /\ t.e.p \in LcMsgs /\ ~IsMapped(t.e.p) /\ t.saw # "resolved"
    BY DEF LcCore, Lc!Posted, TaskInv, LcFit, Fresh
<1>2. new \in LcPost /\ new.p = t.e.p /\ new.kind = "message"
    BY <1>1 DEF LcPost, LcEvent, LcTask
<1>3. /\ posts' = Append(posts, new) /\ t' = [t EXCEPT !.pc = "posted", !.post = Len(posts) + 1]
      /\ UNCHANGED <<heard, maps, lost, hooks, w, sent, spoiled, mapped>>
    BY DEF Lc!Posted, Lc!Post, Lc!outVars
<1> HIDE DEF new
<1>4. /\ posts' \in Seq(LcPost)
      /\ \A p : Lc!PostOf(p)' = IF new.p = p /\ new.kind = "message"
                                THEN Lc!PostOf(p) \union {Len(posts) + 1} ELSE Lc!PostOf(p)
      /\ \A p : \A k \in Lc!PostOf(p) : posts'[k] = posts[k]
    BY <1>1, <1>2, <1>3, PostAdded
<1>5. \A p : IsMapped(p)' <=> IsMapped(p)
    BY <1>3 DEF IsMapped, Lc!MappingsOf
<1>6. /\ \A a \in LcAnswers : Lc!PostOf(a)' = Lc!PostOf(a)
      /\ \A a \in LcAnswers : \A c : Placed(a, c) => Placed(a, c)'
    BY <1>1, <1>2, <1>4 DEF Placed
<1>7. SharedInv'
    BY <1>1, <1>3, <1>4, <1>5, <1>6, SharedKept DEF SharedInv
<1>8. TaskInv'
    <2>1. /\ t' \in LcTask /\ t'.pc = "posted" /\ t'.e = t.e
        <3>1. \A n \in Nat : LET s == [t EXCEPT !.pc = "posted", !.post = n]
                             IN s \in LcTask /\ s.pc = "posted" /\ s.e = t.e
            BY <1>1 DEF LcTask, Fresh
        <3>2. Len(posts) + 1 \in Nat
            BY <1>1 DEF SharedInv
        <3> QED BY <1>3, <3>1, <3>2
    <2>2. LcFit(t)'
        <3>1. PICK p : p = t.e.p
            OBVIOUS
        <3>2. ~IsMapped(p)' /\ p = t'.e.p /\ p \in LcMsgs
            BY <1>1, <1>5, <2>1, <3>1
        <3>3. ~IsMapped(t.e.p)'
            BY <3>2 DEF IsMapped, Lc!MappingsOf
        <3> QED BY <1>1, <2>1, <3>2, <3>3 DEF LcFit, Rewriting
    <2>3. PostsCounted'
        <3> SUFFICES ASSUME NEW p \in LcMsgs
                     PROVE  Cardinality(Lc!PostOf(p)') <= lost[p]
                                + (IF IsMapped(p)' \/ t.e.p = p THEN 1 ELSE 0)
            BY <1>3, <2>1 DEF PostsCounted
        <3>1. /\ Cardinality(Lc!PostOf(p)) <= lost[p] + (IF IsMapped(p) THEN 1 ELSE 0)
              /\ lost[p] \in Nat /\ IsFiniteSet(Lc!PostOf(p))
              /\ Cardinality(Lc!PostOf(p)) \in Nat
            BY <1>1, PostOfFinite DEF TaskInv, PostsCounted
        <3>2. CASE t.e.p = p
            <4>1. Lc!PostOf(p)' = Lc!PostOf(p) \union {Len(posts) + 1}
                BY <1>2, <1>4, <3>2
            <4>2. Cardinality(Lc!PostOf(p) \union {Len(posts) + 1})
                      = IF Len(posts) + 1 \in Lc!PostOf(p) THEN Cardinality(Lc!PostOf(p))
                        ELSE Cardinality(Lc!PostOf(p)) + 1
                BY <3>1, FS_AddElement
            <4>3. ~IsMapped(p)
                BY <1>1, <3>2
            <4> QED BY <3>1, <3>2, <4>1, <4>2, <4>3
        <3>3. CASE t.e.p # p
            <4>1. Lc!PostOf(p)' = Lc!PostOf(p) /\ (IsMapped(p)' <=> IsMapped(p))
                BY <1>2, <1>4, <1>5, <3>3
            <4> QED BY <3>1, <3>3, <4>1
        <3> QED BY <3>2, <3>3
    <2> QED BY <1>1, <1>3, <2>2, <2>3 DEF TaskInv
<1>9. RunInv'
    BY <1>1, <1>3, <1>5, <1>6, RunKept
<1>10. OwnAccounted'
    BY <1>1, <1>3, OwnKept
<1> QED BY <1>7, <1>8, <1>9, <1>10 DEF LcCore

LEMMA LcMappedStep ==
    ASSUME ConvTypes, LcMsgs \cap LcAnswers = {}, LcCore, Lc!Mapped PROVE LcCore'
<1> DEFINE m == [conv |-> t.c, p |-> t.e.p, post |-> t.post, text |-> t.e.text, gone |-> FALSE]
<1>1. t \in LcTask /\ t.pc = "posted" /\ t.e \in LcEvent /\ t.e.p \in LcMsgs /\ SharedInv
    BY DEF LcCore, Lc!Mapped, TaskInv, LcFit, Fresh
<1>2. m \in LcMap /\ m.p = t.e.p
    BY <1>1 DEF LcMap, LcEvent, LcTask
<1>3. /\ Lc!Write(m) /\ t' = Lc!IdleTask
      /\ UNCHANGED <<heard, posts, lost, hooks, w, sent, spoiled>>
    BY DEF Lc!Mapped, Lc!outVars
<1> HIDE DEF m
<1>4. SamePosts
    BY <1>1, <1>3 DEF SamePosts, SharedInv
<1>5. m.p \notin LcAnswers
    BY <1>1, <1>2
<1> QED BY <1>2, <1>3, <1>4, <1>5, TaskWrites

LEMMA LcEditMappedStep ==
    ASSUME ConvTypes, LcMsgs \cap LcAnswers = {}, LcCore, Lc!EditMapped PROVE LcCore'
<1>1. PICK n \in maps : Lc!SameRow(n, t.m) /\ Lc!Write([n EXCEPT !.text = t.e.text])
    BY DEF Lc!EditMapped
<1>2. /\ t.pc = "edited" /\ t.e \in LcEvent /\ SharedInv /\ t' = Lc!IdleTask
      /\ UNCHANGED <<heard, posts, lost, hooks, w, sent, spoiled>>
    BY DEF Lc!EditMapped, Lc!outVars, LcCore, TaskInv, LcFit
<1> DEFINE m == [n EXCEPT !.text = t.e.text]
<1>3. m \in LcMap /\ m.p = n.p /\ m.conv = n.conv
    BY <1>2 DEF SharedInv, LcMap, LcEvent
<1>4. Lc!Write(m)
    BY <1>1
<1> HIDE DEF m
<1>5. IsMapped(n.p) /\ (n.p \in LcAnswers => Placed(n.p, n.conv))
    BY <1>2 DEF SharedInv, IsMapped, Lc!MappingsOf
<1>6. SamePosts
    BY <1>2 DEF SamePosts, SharedInv
<1> QED BY <1>2, <1>3, <1>4, <1>5, <1>6, TaskWrites

LEMMA LcDeleteAnsweredStep ==
    ASSUME ConvTypes, LcMsgs \cap LcAnswers = {}, LcCore, Lc!DeleteAnswered PROVE LcCore'
<1>1. /\ t.pc = "deleting" /\ t.m \in LcMap /\ IsMapped(t.m.p)
      /\ t.m.p \in LcAnswers => Placed(t.m.p, t.m.conv)
      /\ SharedInv
    BY DEF Lc!DeleteAnswered, LcCore, TaskInv, LcFit, Rewriting
<1>2. /\ posts' = [posts EXCEPT ![t.m.post].gone = TRUE] /\ t' = Lc!IdleTask
      /\ UNCHANGED <<heard, lost, hooks, w, sent, spoiled>>
    BY DEF Lc!DeleteAnswered, Lc!outVars
<1> DEFINE m == [t.m EXCEPT !.gone = TRUE]
<1>3. m \in LcMap /\ m.p = t.m.p /\ m.conv = t.m.conv
    BY <1>1 DEF LcMap
<1>4. Lc!Write(m)
    BY DEF Lc!DeleteAnswered
<1> HIDE DEF m
<1>5. SamePosts
    <2>1. 0 \in Nat
        OBVIOUS
    <2> QED BY <1>1, <1>2, <2>1, PostChanges
<1> QED BY <1>1, <1>2, <1>3, <1>4, <1>5, TaskWrites

\* The post of an edit is not counted.
LEMMA LcEditPostedStep ==
    ASSUME ConvTypes, LcMsgs \cap LcAnswers = {}, LcCore, Lc!EditPosted PROVE LcCore'
<1> DEFINE new == [conv |-> t.m.conv, p |-> t.e.p, text |-> t.e.text, kind |-> "edit",
                   gone |-> FALSE]
<1>1. /\ SharedInv /\ TaskInv /\ RunInv /\ OwnAccounted
      /\ LcFit(t) /\ t.pc = "editing" /\ t.e \in LcEvent /\ t.m \in LcMap
    BY DEF LcCore, Lc!EditPosted, TaskInv, LcFit, Rewriting
<1>2. new \in LcPost /\ new.kind # "message"
    BY <1>1 DEF LcPost, LcEvent, LcMap
<1>3. /\ posts' = Append(posts, new) /\ t' = [t EXCEPT !.pc = "edited", !.post = Len(posts) + 1]
      /\ UNCHANGED <<heard, maps, lost, hooks, w, sent, spoiled, mapped>>
    BY DEF Lc!EditPosted, Lc!Post, Lc!outVars
<1> HIDE DEF new
<1>4. /\ posts' \in Seq(LcPost)
      /\ \A p : Lc!PostOf(p)' = Lc!PostOf(p)
      /\ \A p : \A k \in Lc!PostOf(p) : posts'[k] = posts[k]
    BY <1>1, <1>2, <1>3, PostAdded
<1>5. \A p : IsMapped(p)' <=> IsMapped(p)
    BY <1>3 DEF IsMapped, Lc!MappingsOf
<1>6. \A a, c : Placed(a, c) => Placed(a, c)'
    BY <1>4 DEF Placed
<1>7. SharedInv'
    BY <1>1, <1>3, <1>4, <1>5, <1>6, SharedKept DEF SharedInv
<1>8. TaskInv'
    <2>1. LcFit(t') /\ t'.pc = "edited"
        <3>1. \A n \in Nat : LcFit([t EXCEPT !.pc = "edited", !.post = n])
                             /\ [t EXCEPT !.pc = "edited", !.post = n].pc = "edited"
            BY <1>1 DEF LcFit, LcTask, Fresh, Rewriting
        <3>2. Len(posts) + 1 \in Nat
            BY <1>1 DEF SharedInv
        <3> QED BY <1>3, <3>1, <3>2
    <2>2. PICK s : s = t'
        OBVIOUS
    <2>3. LcFit(s)'
        BY <1>5, <1>6, <2>1, <2>2, FitKept
    <2>4. LcFit(t)'
        BY <2>2, <2>3
    <2>5. PostsCounted'
        BY <1>1, <1>3, <1>4, <1>5, <2>1 DEF TaskInv, PostsCounted
    <2> QED BY <1>1, <1>3, <2>4, <2>5 DEF TaskInv
<1>9. RunInv'
    BY <1>1, <1>3, <1>5, <1>6, RunKept
<1>10. OwnAccounted'
    BY <1>1, <1>3, OwnKept
<1> QED BY <1>7, <1>8, <1>9, <1>10 DEF LcCore

LEMMA LcIngestFailsStep ==
    ASSUME ConvTypes, LcMsgs \cap LcAnswers = {}, LcCore, Lc!IngestFails PROVE LcCore'
<1>1. /\ SharedInv /\ TaskInv /\ RunInv /\ OwnAccounted
      /\ lost \in [LcMsgs -> Nat] /\ (t.pc = "posted" => t.e.p \in LcMsgs)
      /\ t' = Lc!IdleTask /\ UNCHANGED <<heard, posts, maps, hooks, w, sent, spoiled, mapped>>
    BY DEF Lc!IngestFails, Lc!outVars, LcCore, TaskInv, LcFit, Fresh
<1>2. lost' = IF t.pc = "posted" THEN [lost EXCEPT ![t.e.p] = @ + 1] ELSE lost
    BY DEF Lc!IngestFails
<1>3. /\ \A p : Lc!PostOf(p)' = Lc!PostOf(p) /\ (IsMapped(p)' <=> IsMapped(p))
      /\ \A a, c : Placed(a, c)' <=> Placed(a, c)
    BY <1>1, NothingWritten
<1>4. TaskInv'
    <2>1. t'.pc = "idle" /\ LcFit(t')
        BY <1>1, LcIdleFits
    <2>2. LcFit(t)'
        BY <2>1 DEF LcFit, Fresh, Rewriting
    <2>3. lost' \in [LcMsgs -> Nat]
        BY <1>1, <1>2
    <2>4. PostsCounted'
        <3> SUFFICES ASSUME NEW p \in LcMsgs
                     PROVE  Cardinality(Lc!PostOf(p)) <= lost'[p] + (IF IsMapped(p) THEN 1 ELSE 0)
            BY <1>3, <2>1 DEF PostsCounted
        <3>1. /\ Cardinality(Lc!PostOf(p)) <= lost[p]
                  + (IF IsMapped(p) \/ (t.pc = "posted" /\ t.e.p = p) THEN 1 ELSE 0)
              /\ lost[p] \in Nat /\ Cardinality(Lc!PostOf(p)) \in Nat
            BY <1>1, PostOfFinite DEF TaskInv, PostsCounted
        <3>2. lost'[p] = IF t.pc = "posted" /\ t.e.p = p THEN lost[p] + 1 ELSE lost[p]
            BY <1>1, <1>2
        <3> QED BY <3>1, <3>2
    <2> QED BY <2>2, <2>3, <2>4 DEF TaskInv
<1>5. SharedInv'
    BY <1>1, <1>3, SharedKept DEF SharedInv
<1>6. RunInv'
    BY <1>1, <1>3, RunKept
<1>7. OwnAccounted'
    BY <1>1, OwnKept
<1> QED BY <1>4, <1>5, <1>6, <1>7 DEF LcCore

----------------------------------------------------------------------------
(* Agents and the customer, and the steps of a webhook run.                *)

LEMMA PeerActsStep ==
    ASSUME MaxText \in Nat, LcMsgs \cap LcAnswers = {}, LcCore, Lc!PeerActs PROVE LcCore'
<1>1. /\ SharedInv /\ TaskInv /\ RunInv /\ OwnAccounted
      /\ UNCHANGED <<posts, maps, t, lost, hooks, w, sent, spoiled, mapped>>
    BY DEF LcCore, Lc!PeerActs, Lc!outVars
<1>2. PICK p \in LcMsgs \union {m.p : m \in maps}, text \in 1 .. MaxText, gone \in BOOLEAN :
          heard' = heard \union {[p |-> p, text |-> text, gone |-> gone, own |-> FALSE]}
    BY DEF Lc!PeerActs
<1> DEFINE new == [p |-> p, text |-> text, gone |-> gone, own |-> FALSE]
<1>3. p \in LcMsgs \union LcAnswers /\ (p \in LcAnswers => IsMapped(p))
    BY <1>1 DEF SharedInv, LcMap, IsMapped, Lc!MappingsOf
<1>4. new \in LcEvent /\ new.own = FALSE /\ new.p = p
    BY <1>3 DEF LcEvent
<1>5. heard' = heard \union {new}
    BY <1>2
<1> HIDE DEF new
<1>6. /\ \A q : Lc!PostOf(q)' = Lc!PostOf(q) /\ (IsMapped(q)' <=> IsMapped(q))
      /\ \A a, c : Placed(a, c)' <=> Placed(a, c)
    BY <1>1, NothingWritten
<1>7. SharedInv'
    <2>1. heard' \subseteq LcEvent /\ \A e \in heard' : e \in heard \/ (e.p \in LcAnswers => IsMapped(e.p)')
        BY <1>1, <1>3, <1>4, <1>5, <1>6 DEF SharedInv
    <2> QED BY <1>1, <1>6, <2>1, SharedKept DEF SharedInv
<1>8. TaskInv'
    BY <1>1, <1>6, TaskKept
<1>9. RunInv'
    BY <1>1, <1>6, RunKept
<1>10. OwnAccounted'
    BY <1>1, <1>4, <1>5, OwnKept
<1> QED BY <1>7, <1>8, <1>9, <1>10 DEF LcCore

\* What an agent does in Chatwoot leaves what was placed where it is, and every
\* webhook it causes names the conversation of the answer.
AnswersPlaced ==
    /\ posts' \in Seq(LcPost) /\ hooks' \subseteq LcHook
    /\ \A p \in LcMsgs : Lc!PostOf(p)' = Lc!PostOf(p)
    /\ \A a \in LcAnswers : \A c : Placed(a, c) => Placed(a, c)'
    /\ \A a \in LcAnswers : Lc!PostOf(a)' = Lc!PostOf(a) \/ \E c : Placed(a, c)'
    /\ \A h \in hooks' : h \in hooks \/ (h.a \in LcAnswers /\ Placed(h.a, h.c)')

\* An answer that is written is in the one conversation it was written in.
LEMMA AnswerWritten ==
    ASSUME SharedInv, LcMsgs \cap LcAnswers = {}, NEW a \in LcAnswers, NEW c \in Nat, Lc!PostOf(a) = {},
           posts' = Append(posts, [conv |-> c, p |-> a, text |-> 1,
                                   kind |-> "message", gone |-> FALSE]),
           hooks' = hooks \union {Lc!Hook("created", a, c, 1)}
    PROVE  AnswersPlaced
<1> DEFINE new == [conv |-> c, p |-> a, text |-> 1, kind |-> "message", gone |-> FALSE]
<1>1. new \in LcPost /\ new.p = a /\ new.kind = "message" /\ new.conv = c
    BY DEF LcPost
<1>2. posts' = Append(posts, new)
    OBVIOUS
<1> HIDE DEF new
<1>3. /\ posts' \in Seq(LcPost)
      /\ \A p : Lc!PostOf(p)' = IF new.p = p /\ new.kind = "message"
                                THEN Lc!PostOf(p) \union {Len(posts) + 1} ELSE Lc!PostOf(p)
      /\ \A p : \A k \in Lc!PostOf(p) : posts'[k] = posts[k]
      /\ posts'[Len(posts) + 1] = new
    BY <1>1, <1>2, PostAdded
<1>4. Lc!PostOf(a)' = {Len(posts) + 1} /\ \A p : p # a => Lc!PostOf(p)' = Lc!PostOf(p)
    BY <1>1, <1>3
<1>5. Placed(a, c)'
    BY <1>1, <1>3, <1>4 DEF Placed
<1>6. \A b \in LcAnswers : \A d : Placed(b, d) => Placed(b, d)'
    <2>1. \A b \in LcAnswers : \A d : Placed(b, d) => b # a
        BY DEF Placed
    <2> QED BY <1>3, <1>4, <2>1 DEF Placed
<1>7. /\ hooks' \subseteq LcHook
      /\ \A h \in hooks' : h \in hooks \/ (h.a = a /\ h.c = c)
    BY DEF SharedInv, LcHook, Lc!Hook
<1>8. \A p \in LcMsgs : Lc!PostOf(p)' = Lc!PostOf(p)
    BY <1>4
<1>9. \A b \in LcAnswers : Lc!PostOf(b)' = Lc!PostOf(b) \/ \E d : Placed(b, d)'
    BY <1>4, <1>5
<1>10. \A h \in hooks' : h \in hooks \/ (h.a \in LcAnswers /\ Placed(h.a, h.c)')
    BY <1>5, <1>7
<1> QED BY <1>3, <1>6, <1>7, <1>8, <1>9, <1>10 DEF AnswersPlaced

\* An answer that is edited or deleted stays in its conversation.
LEMMA AnswerChanged ==
    ASSUME SharedInv, NEW a \in LcAnswers, NEW k \in Lc!PostOf(a), NEW text \in Nat,
           NEW kind \in {"edited", "deleted"},
           posts' \in {[posts EXCEPT ![k].text = text], [posts EXCEPT ![k].gone = TRUE]},
           \E n \in Nat : hooks' = hooks \union {Lc!Hook(kind, a, posts[k].conv, n)}
    PROVE  AnswersPlaced
<1>1. SamePosts
    BY PostChanges
<1>2. \A p : Lc!PostOf(p)' = Lc!PostOf(p) /\ \A c : Placed(p, c)' <=> Placed(p, c)
    BY <1>1, SamePlaces
<1>3. Placed(a, posts[k].conv)
    BY DEF SharedInv, Placed
<1>4. posts[k] \in LcPost
    BY DEF SharedInv, Lc!PostOf
<1>5. PICK n \in Nat : hooks' = hooks \union {Lc!Hook(kind, a, posts[k].conv, n)}
    OBVIOUS
<1>6. PICK c \in Nat : c = posts[k].conv
    BY <1>4 DEF LcPost
<1>7. /\ hooks' \subseteq LcHook
      /\ \A h \in hooks' : h \in hooks \/ (h.a = a /\ h.c = c)
    BY <1>5, <1>6 DEF SharedInv, LcHook, Lc!Hook
<1>8. Placed(a, c)'
    BY <1>2, <1>3, <1>6
<1> QED BY <1>1, <1>2, <1>7, <1>8 DEF AnswersPlaced, SamePosts

LEMMA AgentActsStep ==
    ASSUME ConvTypes, LcMsgs \cap LcAnswers = {}, LcCore, Lc!AgentActs PROVE LcCore'
<1>1. /\ SharedInv /\ TaskInv /\ RunInv /\ OwnAccounted
      /\ UNCHANGED <<heard, maps, t, lost, w, sent, spoiled, mapped>>
    BY DEF LcCore, Lc!AgentActs
<1>2. \A p : IsMapped(p)' <=> IsMapped(p)
    BY <1>1 DEF IsMapped, Lc!MappingsOf
<1>3. AnswersPlaced
    <2>1. PICK a \in LcAnswers :
              \/ /\ Lc!PostOf(a) = {}
                 /\ \E c \in DOMAIN convs :
                       /\ posts' = Append(posts, [conv |-> c, p |-> a, text |-> 1,
                                                  kind |-> "message", gone |-> FALSE])
                       /\ hooks' = hooks \union {Lc!Hook("created", a, c, 1)}
              \/ \E k \in Lc!PostOf(a) :
                    \/ /\ posts' = [posts EXCEPT ![k].text = @ + 1]
                       /\ hooks' = hooks \union {Lc!Hook("edited", a, posts[k].conv, posts[k].text + 1)}
                    \/ /\ posts' = [posts EXCEPT ![k].gone = TRUE]
                       /\ hooks' = hooks \union {Lc!Hook("deleted", a, posts[k].conv, posts[k].text)}
        BY DEF Lc!AgentActs
    <2>2. CASE Lc!PostOf(a) = {} /\ \E c \in DOMAIN convs :
                   /\ posts' = Append(posts, [conv |-> c, p |-> a, text |-> 1,
                                              kind |-> "message", gone |-> FALSE])
                   /\ hooks' = hooks \union {Lc!Hook("created", a, c, 1)}
        <3>1. \A c \in DOMAIN convs : c \in Nat
            BY DEF ConvTypes
        <3> QED BY <1>1, <2>2, <3>1, AnswerWritten
    <2>3. ASSUME NEW k \in Lc!PostOf(a), posts' = [posts EXCEPT ![k].text = @ + 1],
                 hooks' = hooks \union {Lc!Hook("edited", a, posts[k].conv, posts[k].text + 1)}
          PROVE  AnswersPlaced
        <3>1. posts[k].text \in Nat
            <4>1. posts[k] \in LcPost
                BY <1>1 DEF SharedInv, Lc!PostOf
            <4> QED BY <4>1 DEF LcPost
        <3>2. PICK text \in Nat : text = posts[k].text + 1
            BY <3>1
        <3>3. posts' = [posts EXCEPT ![k].text = text]
            BY <2>3, <3>2
        <3>4. \E n \in Nat : hooks' = hooks \union {Lc!Hook("edited", a, posts[k].conv, n)}
            BY <2>3, <3>2
        <3> QED BY <1>1, <3>3, <3>4, AnswerChanged
    <2>4. ASSUME NEW k \in Lc!PostOf(a), posts' = [posts EXCEPT ![k].gone = TRUE],
                 hooks' = hooks \union {Lc!Hook("deleted", a, posts[k].conv, posts[k].text)}
          PROVE  AnswersPlaced
        <3>1. posts[k].text \in Nat
            <4>1. posts[k] \in LcPost
                BY <1>1 DEF SharedInv, Lc!PostOf
            <4> QED BY <4>1 DEF LcPost
        <3>2. \E n \in Nat : hooks' = hooks \union {Lc!Hook("deleted", a, posts[k].conv, n)}
            BY <2>4, <3>1
        <3>3. 0 \in Nat
            OBVIOUS
        <3> QED BY <1>1, <2>4, <3>2, <3>3, AnswerChanged
    <2> QED BY <2>1, <2>2, <2>3, <2>4
<1>4. SharedInv'
    BY <1>1, <1>2, <1>3, SharedKept DEF SharedInv, AnswersPlaced
<1>5. TaskInv'
    BY <1>1, <1>2, <1>3, TaskKept DEF AnswersPlaced
<1>6. RunInv'
    BY <1>1, <1>2, <1>3, RunKept DEF AnswersPlaced
<1>7. OwnAccounted'
    BY <1>1, OwnKept
<1> QED BY <1>4, <1>5, <1>6, <1>7 DEF LcCore

\* What an agent does to conversations writes no message and no mapping.
LEMMA AgentSetsStatusStep == ASSUME ConvTypes, LcCore, Lc!AgentSetsStatus PROVE LcCore'
<1>1. /\ SharedInv /\ TaskInv /\ RunInv /\ OwnAccounted
      /\ UNCHANGED <<heard, posts, maps, t, lost, w, sent, spoiled, mapped>>
    BY DEF LcCore, Lc!AgentSetsStatus, Lc!inVars
<1>2. hooks' = hooks \union {Lc!Hook("resolved", "none", c, 0) :
                                c \in {d \in DOMAIN convs : convs'[d] = "resolved" /\ ~Lc!Resolved(d)}}
    BY DEF Lc!AgentSetsStatus
<1>3. \A c \in DOMAIN convs : Lc!Hook("resolved", "none", c, 0) \in LcHook
                              /\ Lc!Hook("resolved", "none", c, 0).kind = "resolved"
    BY DEF ConvTypes, LcHook, Lc!Hook
<1>4. hooks' \subseteq LcHook /\ \A h \in hooks' : h \in hooks \/ h.kind = "resolved"
    BY <1>1, <1>2, <1>3 DEF SharedInv
<1>5. /\ \A p : Lc!PostOf(p)' = Lc!PostOf(p) /\ (IsMapped(p)' <=> IsMapped(p))
      /\ \A a, c : Placed(a, c)' <=> Placed(a, c)
    BY <1>1, NothingWritten
<1>6. SharedInv'
    BY <1>1, <1>4, <1>5, SharedKept DEF SharedInv
<1>7. TaskInv'
    BY <1>1, <1>5, TaskKept
<1>8. RunInv'
    BY <1>1, <1>5, RunKept
<1>9. OwnAccounted'
    BY <1>1, OwnKept
<1> QED BY <1>6, <1>7, <1>8, <1>9 DEF LcCore

LEMMA LcIdleRunFits == RunFit(Lc!IdleRun) /\ Lc!IdleRun.pc = "idle"
BY DEF RunFit, LcRun, Changing, Lc!IdleRun

\* A run that goes on, or ends, and writes nothing.
LEMMA RunQuiet ==
    ASSUME LcCore, RunFit(w'), w.pc \notin {"sent", "edited"}, w'.pc # "sent", hooks' \subseteq hooks,
           UNCHANGED <<heard, posts, maps, t, lost, sent, spoiled, mapped>>
    PROVE  LcCore'
<1>1. /\ \A p : Lc!PostOf(p)' = Lc!PostOf(p) /\ (IsMapped(p)' <=> IsMapped(p))
      /\ \A a, c : Placed(a, c)' <=> Placed(a, c)
    BY NothingWritten
<1>2. PICK s : s = w'
    OBVIOUS
<1>3. RunFit(s)'
    BY <1>1, <1>2, RunFitKept
<1>4. RunFit(w)'
    BY <1>2, <1>3
<1>5. SendingsCounted'
    BY <1>1 DEF LcCore, RunInv, SendingsCounted
<1>6. RunInv'
    BY <1>4, <1>5 DEF LcCore, RunInv
<1>7. SharedInv'
    BY <1>1, SharedKept DEF LcCore, SharedInv
<1>8. TaskInv'
    BY <1>1, TaskKept DEF LcCore
<1>9. OwnAccounted'
    BY DEF LcCore, OwnAccounted
<1> QED BY <1>6, <1>7, <1>8, <1>9 DEF LcCore

LEMMA CreatedTakenStep ==
    ASSUME ConvTypes, LcCore, NEW h \in hooks, Lc!CreatedTaken(h)
    PROVE  LcCore' /\ rows' \subseteq Nat /\ active' \subseteq Nat
<1>1. /\ SharedInv /\ RunInv /\ h \in LcHook /\ h.kind = "created" /\ w.pc = "idle"
      /\ Lc!Upsert(h.c) /\ UNCHANGED <<heard, posts, maps, t, lost, sent, spoiled, mapped>>
    BY DEF Lc!CreatedTaken, Lc!Waiting, Lc!inVars, LcCore, SharedInv
<1>2. h.a \in LcAnswers /\ Placed(h.a, h.c) /\ h.c \in Nat
    BY <1>1 DEF SharedInv, LcHook
<1>3. hooks' \subseteq hooks
    BY DEF Lc!CreatedTaken, Lc!Dealt
<1>4. RunFit(w') /\ w'.pc # "sent"
    <2>1. CASE w' = w
        BY <1>1, <2>1 DEF RunInv
    <2>2. CASE ~Lc!AlreadySent(h) /\ w' = [Lc!IdleRun EXCEPT !.pc = "sending", !.h = h]
        <3>1. ~IsMapped(h.a)
            <4>1. \A m \in maps : m.p = h.a => m.conv = h.c
                BY <1>1, <1>2 DEF SharedInv, Placed
            <4> QED BY <2>2, <4>1 DEF Lc!AlreadySent, Lc!Mine, IsMapped, Lc!MappingsOf
        <3> QED BY <1>1, <1>2, <2>2, <3>1 DEF RunFit, LcRun, Changing, Lc!IdleRun
    <2> QED BY <2>1, <2>2 DEF Lc!CreatedTaken
<1>5. LcCore'
    BY <1>1, <1>3, <1>4, RunQuiet
<1>6. rows' \subseteq Nat /\ active' \subseteq Nat
    BY <1>1, <1>2 DEF ConvTypes, Lc!Upsert
<1> QED BY <1>5, <1>6

LEMMA ChangeTakenStep == ASSUME LcCore, NEW h \in hooks, Lc!ChangeTaken(h) PROVE LcCore'
<1>1. /\ SharedInv /\ RunInv /\ h \in LcHook /\ h.kind \in {"edited", "deleted"} /\ w.pc = "idle"
      /\ UNCHANGED <<heard, posts, maps, t, lost, sent, spoiled, mapped>>
    BY DEF Lc!ChangeTaken, Lc!Waiting, Lc!inVars, LcCore, SharedInv
<1>2. h.a \in LcAnswers /\ Placed(h.a, h.c)
    BY <1>1 DEF SharedInv
<1>3. hooks' \subseteq hooks
    BY DEF Lc!ChangeTaken, Lc!Dealt
<1>4. RunFit(w') /\ w'.pc # "sent"
    <2>1. CASE w' = w
        BY <1>1, <2>1 DEF RunInv
    <2>2. ASSUME NEW m \in Lc!Mine(h),
                 w' = [pc |-> IF h.kind = "edited" THEN "editing" ELSE "deleting", h |-> h, m |-> m]
          PROVE  RunFit(w') /\ w'.pc # "sent"
        <3>1. m \in LcMap /\ m.p = h.a /\ m.conv = h.c /\ IsMapped(h.a)
            BY <1>1 DEF SharedInv, Lc!Mine, IsMapped, Lc!MappingsOf
        <3> QED BY <1>1, <1>2, <2>2, <3>1 DEF RunFit, LcRun, Changing
    <2> QED BY <2>1, <2>2 DEF Lc!ChangeTaken
<1> QED BY <1>1, <1>3, <1>4, RunQuiet

LEMMA ResolvedTakenStep ==
    ASSUME ConvTypes, LcCore, NEW h \in hooks, Lc!ResolvedTaken(h)
    PROVE  LcCore' /\ active' \subseteq Nat
<1>1. /\ RunInv /\ w.pc = "idle" /\ hooks' \subseteq hooks /\ active' \subseteq active
      /\ UNCHANGED <<heard, posts, maps, t, lost, w, sent, spoiled, mapped>>
    BY DEF Lc!ResolvedTaken, Lc!Waiting, Lc!Dealt, Lc!inVars, LcCore
<1>2. RunFit(w') /\ w'.pc # "sent"
    BY <1>1 DEF RunInv
<1> QED BY <1>1, <1>2, RunQuiet DEF ConvTypes

\* A run that ends, with the mapping of its answer.
LEMMA RunWrites ==
    ASSUME LcMsgs \cap LcAnswers = {}, LcCore, w' = Lc!IdleRun, hooks' \subseteq hooks,
           NEW m \in LcMap, Lc!Write(m), w.pc # "idle", m.p = w.h.a, Placed(m.p, m.conv),
           w.pc = "edited" => m.text = w.h.text,
           \/ UNCHANGED <<sent, spoiled>>
           \/ w.pc = "sending" /\ sent' = [sent EXCEPT ![w.h.a] = @ + 1] /\ spoiled' = spoiled,
           UNCHANGED <<heard, posts, t, lost>>
    PROVE  LcCore'
<1>1. /\ SharedInv /\ TaskInv /\ RunInv /\ OwnAccounted /\ w.h.a \in LcAnswers /\ spoiled' = spoiled
      /\ posts \in Seq(LcPost)
    BY DEF LcCore, RunInv, RunFit, SharedInv
<1>2. /\ maps' \subseteq LcMap /\ \A n \in maps' : n \in maps \/ n = m
      /\ \A p : IsMapped(p)' <=> IsMapped(p) \/ p = m.p
      /\ mapped' = mapped \union {<<m.p, m.text>>}
    BY <1>1, Writes
<1>3. /\ \A p : Lc!PostOf(p)' = Lc!PostOf(p)
      /\ \A a, c : Placed(a, c)' <=> Placed(a, c)
    BY <1>1, SamePlaces DEF SamePosts
<1>4. SharedInv'
    <2>1. \A n \in maps' : n \in maps \/ (n.p \in LcAnswers => Placed(n.p, n.conv)')
        BY <1>2, <1>3
    <2>2. /\ posts' \in Seq(LcPost) /\ heard' \subseteq LcEvent /\ hooks' \subseteq LcHook
          /\ \A h \in hooks' : h \in hooks
          /\ \A e \in heard' : e \in heard
        BY <1>1 DEF SharedInv
    <2> QED BY <1>1, <1>2, <1>3, <2>1, <2>2, SharedKept
<1>5. TaskInv'
    <2>1. \A p \in LcMsgs : IsMapped(p)' <=> IsMapped(p)
        BY <1>1, <1>2
    <2> QED BY <1>1, <1>2, <1>3, <2>1, TaskKept
<1>6. RunInv'
    <2>1. w'.pc = "idle" /\ RunFit(w')
        BY LcIdleRunFits
    <2>2. RunFit(w)'
        BY <2>1 DEF RunFit, Changing
    <2>3. sent' \in [LcAnswers -> Nat]
        <3>1. sent \in [LcAnswers -> Nat] /\ sent[w.h.a] + 1 \in Nat
            BY <1>1 DEF RunInv
        <3>2. sent' = sent \/ sent' = [sent EXCEPT ![w.h.a] = sent[w.h.a] + 1]
            OBVIOUS
        <3> QED BY <3>1, <3>2
    <2>4. SendingsCounted'
        <3> SUFFICES ASSUME NEW a \in LcAnswers
                     PROVE  sent'[a] <= spoiled[a] + (IF IsMapped(a)' THEN 1 ELSE 0)
            BY <1>1, <2>1 DEF SendingsCounted
        <3>1. /\ sent[a] <= spoiled[a]
                    + (IF IsMapped(a) \/ (w.pc = "sent" /\ w.h.a = a) THEN 1 ELSE 0)
              /\ sent[a] \in Nat /\ spoiled[a] \in Nat
              /\ sent \in [LcAnswers -> Nat]
            BY <1>1 DEF RunInv, SendingsCounted
        <3>2. CASE a = w.h.a
            <4>1. IsMapped(a)'
                BY <1>2, <3>2
            <4>2. w.pc = "sending" => ~IsMapped(a)
                BY <1>1, <3>2 DEF RunInv, RunFit
            <4>3. w.pc = "sending" => sent'[a] <= sent[a] + 1
                BY <3>1, <3>2
            <4>4. w.pc # "sending" => sent'[a] = sent[a]
                OBVIOUS
            <4> QED BY <3>1, <4>1, <4>2, <4>3, <4>4
        <3>3. CASE a # w.h.a
            <4>1. IsMapped(a)' <=> IsMapped(a)
                BY <1>2, <3>3
            <4>2. sent'[a] = sent[a]
                BY <3>1, <3>3
            <4> QED BY <3>1, <3>3, <4>1, <4>2
        <3> QED BY <3>2, <3>3
    <2> QED BY <1>1, <2>2, <2>3, <2>4 DEF RunInv
<1>7. OwnAccounted'
    <2> SUFFICES ASSUME NEW e \in heard, e.own, ~e.gone
                 PROVE  /\ e.p \in LcAnswers
                        /\ <<e.p, e.text>> \in mapped' \/ spoiled[e.p] > 0
        BY <1>1 DEF OwnAccounted
    <2>1. /\ e.p \in LcAnswers
          /\ \/ w.pc = "edited" /\ w.h.a = e.p /\ w.h.text = e.text
             \/ <<e.p, e.text>> \in mapped
             \/ spoiled[e.p] > 0
        BY <1>1 DEF OwnAccounted
    <2> QED BY <1>2, <2>1
<1> QED BY <1>4, <1>5, <1>6, <1>7 DEF LcCore

\* The mapping of an answer that is in Chatwoot.
LEMMA AnswerMappings ==
    ASSUME SharedInv, NEW h \in LcHook, h.a \in LcAnswers, Placed(h.a, h.c)
    PROVE  /\ Lc!AnswerMapping(h) \in LcMap /\ Lc!AnswerMapping(h).p = h.a
           /\ Lc!AnswerMapping(h).conv = h.c
<1>1. (CHOOSE k \in Lc!PostOf(h.a) : TRUE) \in Lc!PostOf(h.a)
    BY DEF Placed
<1>2. \A k \in Lc!PostOf(h.a) : k \in Nat
    BY DEF SharedInv, Lc!PostOf
<1>3. h.c \in Nat
    BY DEF LcHook
<1> QED BY <1>1, <1>2, <1>3 DEF Lc!AnswerMapping, LcMap

LEMMA AnswerSentStep ==
    ASSUME LcMsgs \cap LcAnswers = {}, LcCore, Lc!AnswerSent PROVE LcCore'
<1>1. /\ SharedInv /\ TaskInv /\ RunInv /\ OwnAccounted
      /\ w.pc = "sending" /\ w \in LcRun /\ w.h \in LcHook /\ w.h.a \in LcAnswers
      /\ Placed(w.h.a, w.h.c) /\ ~IsMapped(w.h.a)
      /\ sent' = [sent EXCEPT ![w.h.a] = @ + 1]
      /\ UNCHANGED <<heard, posts, t, lost, spoiled>>
    BY DEF LcCore, Lc!AnswerSent, RunInv, RunFit
<1>2. CASE Mirrors
    <2>1. Lc!Write(Lc!AnswerMapping(w.h)) /\ w' = Lc!IdleRun /\ hooks' \subseteq hooks
        BY <1>2 DEF Lc!AnswerSent, Lc!Dealt
    <2>2. /\ Lc!AnswerMapping(w.h) \in LcMap /\ Lc!AnswerMapping(w.h).p = w.h.a
          /\ Lc!AnswerMapping(w.h).conv = w.h.c
        BY <1>1, AnswerMappings
    <2>3. PICK m \in LcMap : m = Lc!AnswerMapping(w.h)
        BY <2>2
    <2>4. Lc!Write(m) /\ m.p = w.h.a /\ Placed(m.p, m.conv)
        BY <1>1, <2>1, <2>2, <2>3
    <2> QED BY <1>1, <2>1, <2>4, RunWrites
<1>3. CASE ~Mirrors
    <2>1. w' = [w EXCEPT !.pc = "sent"] /\ UNCHANGED <<maps, mapped, hooks>>
        BY <1>3 DEF Lc!AnswerSent, Lc!KeepMaps
    <2>2. /\ \A p : Lc!PostOf(p)' = Lc!PostOf(p) /\ (IsMapped(p)' <=> IsMapped(p))
          /\ \A a, c : Placed(a, c)' <=> Placed(a, c)
        BY <1>1, <2>1, NothingWritten
    <2>3. RunFit(w') /\ w'.pc = "sent" /\ w'.h = w.h
        BY <1>1, <2>1 DEF RunInv, RunFit, LcRun, Changing
    <2>4. PICK s : s = w'
        OBVIOUS
    <2>5. RunFit(s)'
        BY <2>2, <2>3, <2>4, RunFitKept
    <2>6. RunFit(w)'
        BY <2>4, <2>5
    <2>7. RunInv'
        <3>1. sent \in [LcAnswers -> Nat] /\ sent[w.h.a] + 1 \in Nat /\ sent' \in [LcAnswers -> Nat]
            BY <1>1 DEF RunInv
        <3>2. SendingsCounted'
            <4> SUFFICES ASSUME NEW a \in LcAnswers
                         PROVE  sent'[a] <= spoiled[a]
                                    + (IF IsMapped(a) \/ w.h.a = a THEN 1 ELSE 0)
                BY <1>1, <2>2, <2>3 DEF SendingsCounted
            <4>1. /\ sent[a] <= spoiled[a] + (IF IsMapped(a) THEN 1 ELSE 0)
                  /\ sent[a] \in Nat /\ spoiled[a] \in Nat
                BY <1>1 DEF RunInv, SendingsCounted
            <4>2. sent'[a] = IF a = w.h.a THEN sent[a] + 1 ELSE sent[a]
                BY <1>1, <3>1
            <4> QED BY <1>1, <4>1, <4>2
        <3> QED BY <1>1, <2>6, <3>1, <3>2 DEF RunInv
    <2>8. SharedInv'
        BY <1>1, <2>1, <2>2, SharedKept DEF SharedInv
    <2>9. TaskInv'
        BY <1>1, <2>2, TaskKept
    <2>10. OwnAccounted'
        BY <1>1, <2>1 DEF OwnAccounted
    <2> QED BY <2>7, <2>8, <2>9, <2>10 DEF LcCore
<1> QED BY <1>2, <1>3

\* A run that ends without the mapping, told by the history.
LEMMA RunSpoils ==
    ASSUME LcCore, w.pc # "idle", w' = Lc!IdleRun, hooks' \subseteq hooks,
           spoiled' = IF w.pc \in {"sent", "edited", "deleted"}
                      THEN [spoiled EXCEPT ![w.h.a] = @ + 1] ELSE spoiled,
           UNCHANGED <<heard, posts, maps, t, lost, sent, mapped>>
    PROVE  LcCore'
<1>1. /\ SharedInv /\ TaskInv /\ RunInv /\ OwnAccounted /\ w.h.a \in LcAnswers
      /\ spoiled \in [LcAnswers -> Nat] /\ sent \in [LcAnswers -> Nat]
    BY DEF LcCore, RunInv, RunFit
<1>2. /\ \A p : Lc!PostOf(p)' = Lc!PostOf(p) /\ (IsMapped(p)' <=> IsMapped(p))
      /\ \A a, c : Placed(a, c)' <=> Placed(a, c)
    BY NothingWritten
<1>3. SharedInv'
    BY <1>1, <1>2, SharedKept DEF SharedInv
<1>4. TaskInv'
    BY <1>1, <1>2, TaskKept
<1>5. /\ spoiled' \in [LcAnswers -> Nat]
      /\ \A a \in LcAnswers : spoiled'[a] = IF w.pc \in {"sent", "edited", "deleted"} /\ a = w.h.a
                                          THEN spoiled[a] + 1 ELSE spoiled[a]
    BY <1>1
<1>6. RunInv'
    <2>1. w'.pc = "idle" /\ RunFit(w')
        BY LcIdleRunFits
    <2>2. RunFit(w)'
        BY <2>1 DEF RunFit, Changing
    <2>3. SendingsCounted'
        <3> SUFFICES ASSUME NEW a \in LcAnswers
                     PROVE  sent[a] <= spoiled'[a] + (IF IsMapped(a) THEN 1 ELSE 0)
            BY <1>2, <2>1 DEF SendingsCounted
        <3>1. /\ sent[a] <= spoiled[a]
                    + (IF IsMapped(a) \/ (w.pc = "sent" /\ w.h.a = a) THEN 1 ELSE 0)
              /\ sent[a] \in Nat /\ spoiled[a] \in Nat
            BY <1>1 DEF RunInv, SendingsCounted
        <3> QED BY <1>5, <3>1
    <2> QED BY <1>1, <1>5, <2>2, <2>3 DEF RunInv
<1>7. OwnAccounted'
    <2> SUFFICES ASSUME NEW e \in heard, e.own, ~e.gone
                 PROVE  e.p \in LcAnswers /\ (<<e.p, e.text>> \in mapped \/ spoiled'[e.p] > 0)
        BY DEF OwnAccounted
    <2>1. /\ e.p \in LcAnswers
          /\ \/ w.pc = "edited" /\ w.h.a = e.p /\ w.h.text = e.text
             \/ <<e.p, e.text>> \in mapped
             \/ spoiled[e.p] > 0
        BY <1>1 DEF OwnAccounted
    <2>2. spoiled[e.p] \in Nat
        BY <1>1, <2>1
    <2> QED BY <1>5, <2>1, <2>2
<1> QED BY <1>3, <1>4, <1>6, <1>7 DEF LcCore

LEMMA AnswerMappedStep ==
    ASSUME LcMsgs \cap LcAnswers = {}, LcCore, Lc!AnswerMapped PROVE LcCore'
<1>1. /\ SharedInv /\ w.pc = "sent" /\ w.h \in LcHook /\ w.h.a \in LcAnswers
      /\ Placed(w.h.a, w.h.c) /\ w' = Lc!IdleRun /\ hooks' \subseteq hooks
      /\ UNCHANGED <<heard, posts, t, lost, sent>>
    BY DEF LcCore, Lc!AnswerMapped, Lc!Dealt, RunInv, RunFit
<1>2. CASE Lc!Write(Lc!AnswerMapping(w.h)) /\ spoiled' = spoiled
    <2>1. /\ Lc!AnswerMapping(w.h) \in LcMap /\ Lc!AnswerMapping(w.h).p = w.h.a
          /\ Lc!AnswerMapping(w.h).conv = w.h.c
        BY <1>1, AnswerMappings
    <2>2. PICK m \in LcMap : m = Lc!AnswerMapping(w.h)
        BY <2>1
    <2>3. Lc!Write(m) /\ m.p = w.h.a /\ Placed(m.p, m.conv)
        BY <1>1, <1>2, <2>1, <2>2
    <2> QED BY <1>1, <1>2, <2>3, RunWrites
<1>3. CASE UNCHANGED <<maps, mapped>> /\ spoiled' = [spoiled EXCEPT ![w.h.a] = @ + 1]
    BY <1>1, <1>3, RunSpoils
<1> QED BY <1>2, <1>3 DEF Lc!AnswerMapped, Lc!KeepMaps

LEMMA LcRunFailsStep == ASSUME LcCore, Lc!RunFails PROVE LcCore'
<1>1. hooks' \subseteq hooks
    BY DEF Lc!RunFails
<1> QED BY <1>1, RunSpoils DEF Lc!RunFails, Lc!inVars

\* The platform has carried it out: what comes back is about a mapped answer, and
\* the run is about to map it.
LEMMA ChangeMadeStep ==
    ASSUME LcMsgs \cap LcAnswers = {}, LcCore, Lc!ChangeMade PROVE LcCore'
<1>1. /\ SharedInv /\ TaskInv /\ RunInv /\ OwnAccounted /\ RunFit(w) /\ w \in LcRun
      /\ w.pc \in {"editing", "deleting"} /\ w.h \in LcHook /\ w.h.a \in LcAnswers /\ IsMapped(w.h.a)
      /\ w' = [w EXCEPT !.pc = IF w.pc = "editing" THEN "edited" ELSE "deleted"]
      /\ UNCHANGED <<posts, maps, t, lost, hooks, sent, spoiled, mapped>>
    BY DEF LcCore, Lc!ChangeMade, RunInv, RunFit, Changing
<1> DEFINE new == [p |-> w.h.a, text |-> w.h.text, gone |-> w.pc = "deleting", own |-> TRUE]
<1>2. /\ new \in LcEvent /\ new.p = w.h.a /\ new.text = w.h.text
      /\ ~new.gone => w.pc = "editing"
    BY <1>1 DEF LcEvent, LcHook
<1>3. heard' = heard \/ heard' = heard \union {new}
    BY DEF Lc!ChangeMade
<1> HIDE DEF new
<1>4. /\ \A p : Lc!PostOf(p)' = Lc!PostOf(p) /\ (IsMapped(p)' <=> IsMapped(p))
      /\ \A a, c : Placed(a, c)' <=> Placed(a, c)
    BY <1>1, NothingWritten
<1>5. w'.h = w.h /\ w'.pc = (IF w.pc = "editing" THEN "edited" ELSE "deleted") /\ RunFit(w')
    BY <1>1 DEF RunFit, LcRun, Changing
<1>6. SharedInv'
    <2>1. heard' \subseteq LcEvent
          /\ \A e \in heard' : e \in heard \/ (e.p \in LcAnswers => IsMapped(e.p)')
        BY <1>1, <1>2, <1>3, <1>4 DEF SharedInv
    <2> QED BY <1>1, <1>4, <2>1, SharedKept DEF SharedInv
<1>7. TaskInv'
    BY <1>1, <1>4, TaskKept
<1>8. RunInv'
    <2>1. PICK s : s = w'
        OBVIOUS
    <2>2. RunFit(s)'
        BY <1>4, <1>5, <2>1, RunFitKept
    <2>3. RunFit(w)'
        BY <2>1, <2>2
    <2>4. SendingsCounted'
        BY <1>1, <1>4, <1>5 DEF RunInv, SendingsCounted
    <2> QED BY <1>1, <2>3, <2>4 DEF RunInv
<1>9. OwnAccounted'
    <2> SUFFICES ASSUME NEW e \in heard', e.own, ~e.gone
                 PROVE  /\ e.p \in LcAnswers
                        /\ \/ w'.pc = "edited" /\ w'.h.a = e.p /\ w'.h.text = e.text
                           \/ <<e.p, e.text>> \in mapped
                           \/ spoiled[e.p] > 0
        BY <1>1 DEF OwnAccounted
    <2>1. CASE e \in heard
        BY <1>1, <2>1 DEF OwnAccounted
    <2>2. CASE e = new
        BY <1>1, <1>2, <1>5, <2>2
    <2> QED BY <1>3, <2>1, <2>2
<1> QED BY <1>6, <1>7, <1>8, <1>9 DEF LcCore

LEMMA ChangeMappedStep ==
    ASSUME LcMsgs \cap LcAnswers = {}, LcCore, Lc!ChangeMapped PROVE LcCore'
<1>1. /\ w.pc \in {"edited", "deleted"} /\ w.h \in LcHook
      /\ w.m \in LcMap /\ w.m.p = w.h.a /\ Placed(w.m.p, w.m.conv)
      /\ w' = Lc!IdleRun /\ hooks' \subseteq hooks
      /\ UNCHANGED <<heard, posts, t, lost, sent, spoiled>>
    BY DEF LcCore, Lc!ChangeMapped, Lc!Dealt, RunInv, RunFit, Changing
<1>2. PICK m \in LcMap : /\ Lc!Write(m) /\ m.p = w.m.p /\ m.conv = w.m.conv
                         /\ w.pc = "edited" => m.text = w.h.text
    <2>1. CASE w.pc = "edited"
        <3>1. [w.m EXCEPT !.text = w.h.text] \in LcMap
              /\ [w.m EXCEPT !.text = w.h.text].p = w.m.p
              /\ [w.m EXCEPT !.text = w.h.text].conv = w.m.conv
              /\ [w.m EXCEPT !.text = w.h.text].text = w.h.text
            BY <1>1 DEF LcMap, LcHook
        <3>2. Lc!Write([w.m EXCEPT !.text = w.h.text])
            BY <2>1 DEF Lc!ChangeMapped
        <3> QED BY <3>1, <3>2
    <2>2. CASE w.pc = "deleted"
        <3>1. [w.m EXCEPT !.gone = TRUE] \in LcMap
              /\ [w.m EXCEPT !.gone = TRUE].p = w.m.p
              /\ [w.m EXCEPT !.gone = TRUE].conv = w.m.conv
            BY <1>1 DEF LcMap
        <3>2. Lc!Write([w.m EXCEPT !.gone = TRUE])
            BY <2>2 DEF Lc!ChangeMapped
        <3> QED BY <2>2, <3>1, <3>2
    <2> QED BY <1>1, <2>1, <2>2
<1> QED BY <1>1, <1>2, RunWrites

----------------------------------------------------------------------------
(* The invariant.                                                          *)

LEMMA LcConvsStep ==
    ASSUME ConvTypes, [Lc!LifecycleNext]_(Lc!lifecycleVars)
    PROVE  convs' \in Seq(ConvStatus) /\ reopen' = reopen
<1>1. convs \in Seq(ConvStatus) /\ {"open", "resolved", "deleted"} = ConvStatus
    BY DEF ConvTypes, ConvStatus
<1>2. \/ convs' = convs \/ convs' = Append(convs, "open")
      \/ \E c, s : s \in ConvStatus /\ c \in DOMAIN convs /\ convs' = [convs EXCEPT ![c] = s]
    BY <1>1 DEF Lc!LifecycleNext, Lc!lifecycleVars, Lc!mappingVars, Lc!Ingestion, Lc!Run,
       Lc!PeerActs, Lc!AgentActs, Lc!AgentSetsStatus, Lc!AgentSets, Lc!IngestBegins, Lc!Listed,
       Lc!ReopenAnswered, Lc!Opens, Lc!There, Lc!ConversationCreated, Lc!Creates, Lc!Posted,
       Lc!PostRefused, Lc!Recovered, Lc!Mapped, Lc!EditPosted, Lc!EditMapped, Lc!DeleteAnswered,
       Lc!IngestFails, Lc!CreatedTaken, Lc!ChangeTaken, Lc!ResolvedTaken, Lc!AnswerSent,
       Lc!AnswerMapped, Lc!ChangeMade, Lc!ChangeMapped, Lc!RunFails
<1>3. convs' \in Seq(ConvStatus)
    <2>1. "open" \in ConvStatus
        BY <1>1
    <2>2. CASE convs' = Append(convs, "open")
        BY <1>1, <2>1, <2>2, AppendProperties
    <2>3. ASSUME NEW c \in DOMAIN convs, NEW s \in ConvStatus, convs' = [convs EXCEPT ![c] = s]
          PROVE  convs' \in Seq(ConvStatus)
        BY <1>1, <2>3, ExceptSeq
    <2> QED BY <1>1, <1>2, <2>2, <2>3
<1>4. reopen' = reopen
    BY DEF Lc!LifecycleNext, Lc!lifecycleVars, Lc!mappingVars, Lc!Ingestion, Lc!Run,
       Lc!PeerActs, Lc!AgentActs, Lc!AgentSetsStatus, Lc!AgentSets, Lc!IngestBegins, Lc!Listed,
       Lc!ReopenAnswered, Lc!ConversationCreated, Lc!Posted,
       Lc!PostRefused, Lc!Recovered, Lc!Mapped, Lc!EditPosted, Lc!EditMapped, Lc!DeleteAnswered,
       Lc!IngestFails, Lc!CreatedTaken, Lc!ChangeTaken, Lc!ResolvedTaken, Lc!AnswerSent,
       Lc!AnswerMapped, Lc!ChangeMade, Lc!ChangeMapped, Lc!RunFails
<1> QED BY <1>3, <1>4

LEMMA LifecycleInvInit == ASSUME Lc!LifecycleInit PROVE LifecycleInv
<1>1. ConvTypes
    <2>1. <<>> \in Seq(ConvStatus) /\ <<"open">> \in Seq(ConvStatus)
        BY DEF ConvStatus
    <2>2. convs \in Seq(ConvStatus) /\ reopen \in BOOLEAN
        BY <2>1 DEF Lc!LifecycleInit, Lc!MappingInit
    <2>3. DOMAIN convs \subseteq Nat
        BY <2>2
    <2> QED BY <2>2, <2>3 DEF ConvTypes, Lc!LifecycleInit, Lc!MappingInit
<1>2. /\ heard = {} /\ posts = <<>> /\ maps = {} /\ t = Lc!IdleTask /\ hooks = {} /\ w = Lc!IdleRun
      /\ sent = [a \in LcAnswers |-> 0] /\ spoiled = [a \in LcAnswers |-> 0]
      /\ lost = [p \in LcMsgs |-> 0]
    BY DEF Lc!LifecycleInit
<1>3. \A p : Lc!PostOf(p) = {}
    BY <1>2 DEF Lc!PostOf
<1>4. SharedInv
    BY <1>2, <1>3 DEF SharedInv
<1>5. TaskInv
    <2>1. \A p \in LcMsgs : Cardinality(Lc!PostOf(p)) = 0 /\ lost[p] = 0
        BY <1>2, <1>3, FS_EmptySet
    <2>2. PostsCounted
        BY <2>1 DEF PostsCounted
    <2>3. lost \in [LcMsgs -> Nat] /\ LcFit(t)
        BY <1>2, LcIdleFits
    <2> QED BY <2>2, <2>3 DEF TaskInv
<1>6. RunInv
    BY <1>2, LcIdleRunFits DEF RunInv, SendingsCounted
<1>7. OwnAccounted
    BY <1>2 DEF OwnAccounted
<1> QED BY <1>1, <1>4, <1>5, <1>6, <1>7 DEF LifecycleInv

\* What neither side, nor anyone else, does anything to.
LEMMA LcNothing ==
    ASSUME LcCore, UNCHANGED <<heard, posts, maps, t, lost, hooks, w, sent, spoiled, mapped>>
    PROVE  LcCore'
<1>1. /\ \A p : Lc!PostOf(p)' = Lc!PostOf(p) /\ (IsMapped(p)' <=> IsMapped(p))
      /\ \A a, c : Placed(a, c)' <=> Placed(a, c)
    BY NothingWritten
<1>2. SharedInv'
    BY <1>1, SharedKept DEF LcCore, SharedInv
<1>3. TaskInv'
    BY <1>1, TaskKept DEF LcCore
<1>4. RunInv'
    BY <1>1, RunKept DEF LcCore
<1>5. OwnAccounted'
    BY OwnKept DEF LcCore
<1> QED BY <1>2, <1>3, <1>4, <1>5 DEF LcCore

LEMMA LifecycleInvStep ==
    ASSUME Lc!LifecycleAssumption, LifecycleInv, [Lc!LifecycleNext]_(Lc!lifecycleVars)
    PROVE  LifecycleInv'
<1>1. /\ ConvTypes /\ LcCore /\ MaxText \in Nat /\ LcMsgs \cap LcAnswers = {}
    BY DEF LifecycleInv, LcCore, Lc!LifecycleAssumption
<1>2. convs' \in Seq(ConvStatus) /\ reopen' \in BOOLEAN
    BY <1>1, LcConvsStep DEF ConvTypes
<1>3. SUFFICES LcCore' /\ rows' \subseteq Nat /\ active' \subseteq Nat
    BY <1>2 DEF LifecycleInv, LcCore, ConvTypes
<1> DEFINE Kept == UNCHANGED <<rows, active>>
<1>4. Kept => rows' \subseteq Nat /\ active' \subseteq Nat
    BY <1>1 DEF ConvTypes
<1>10. CASE UNCHANGED Lc!lifecycleVars
    <2>1. Kept /\ UNCHANGED <<heard, posts, maps, t, lost, hooks, w, sent, spoiled, mapped>>
        BY <1>10 DEF Lc!lifecycleVars, Lc!mappingVars, Lc!inVars, Lc!outVars
    <2> QED BY <1>1, <1>4, <2>1, LcNothing
<1>11. CASE Lc!PeerActs
    <2>1. Kept
        BY <1>11 DEF Lc!PeerActs, Lc!mappingVars
    <2> QED BY <1>1, <1>4, <1>11, <2>1, PeerActsStep
<1>12. CASE Lc!AgentActs
    <2>1. Kept
        BY <1>12 DEF Lc!AgentActs, Lc!mappingVars
    <2> QED BY <1>1, <1>4, <1>12, <2>1, AgentActsStep
<1>13. CASE Lc!AgentSetsStatus
    <2>1. Kept
        BY <1>13 DEF Lc!AgentSetsStatus, Lc!AgentSets
    <2> QED BY <1>1, <1>4, <1>13, <2>1, AgentSetsStatusStep
<1>14. CASE Lc!IngestBegins
    <2>1. Kept
        BY <1>14 DEF Lc!IngestBegins, Lc!mappingVars
    <2> QED BY <1>1, <1>4, <1>14, <2>1, LcIngestBeginsStep
<1>15. CASE Lc!Listed
    BY <1>1, <1>15, LcListedStep
<1>16. CASE Lc!ReopenAnswered
    BY <1>1, <1>16, LcReopenAnsweredStep
<1>17. CASE Lc!ConversationCreated
    BY <1>1, <1>17, LcConversationCreatedStep
<1>18. CASE Lc!Posted
    <2>1. Kept
        BY <1>18 DEF Lc!Posted, Lc!mappingVars
    <2> QED BY <1>1, <1>4, <1>18, <2>1, LcPostedStep
<1>19. CASE Lc!PostRefused
    <2>1. Kept
        BY <1>19 DEF Lc!PostRefused, Lc!mappingVars
    <2> QED BY <1>1, <1>4, <1>19, <2>1, LcPostRefusedStep
<1>20. CASE Lc!Recovered
    BY <1>1, <1>20, LcRecoveredStep
<1>21. CASE Lc!Mapped
    <2>1. Kept
        BY <1>21 DEF Lc!Mapped, Lc!mappingVars
    <2> QED BY <1>1, <1>4, <1>21, <2>1, LcMappedStep
<1>22. CASE Lc!EditPosted
    <2>1. Kept
        BY <1>22 DEF Lc!EditPosted, Lc!mappingVars
    <2> QED BY <1>1, <1>4, <1>22, <2>1, LcEditPostedStep
<1>23. CASE Lc!EditMapped
    <2>1. Kept
        BY <1>23 DEF Lc!EditMapped, Lc!mappingVars
    <2> QED BY <1>1, <1>4, <1>23, <2>1, LcEditMappedStep
<1>24. CASE Lc!DeleteAnswered
    <2>1. Kept
        BY <1>24 DEF Lc!DeleteAnswered, Lc!mappingVars
    <2> QED BY <1>1, <1>4, <1>24, <2>1, LcDeleteAnsweredStep
<1>25. CASE Lc!IngestFails
    <2>1. Kept
        BY <1>25 DEF Lc!IngestFails, Lc!mappingVars
    <2> QED BY <1>1, <1>4, <1>25, <2>1, LcIngestFailsStep
<1>26. ASSUME NEW h \in hooks, Lc!CreatedTaken(h)
       PROVE  LcCore' /\ rows' \subseteq Nat /\ active' \subseteq Nat
    BY <1>1, <1>26, CreatedTakenStep
<1>27. ASSUME NEW h \in hooks, Lc!ChangeTaken(h)
       PROVE  LcCore' /\ rows' \subseteq Nat /\ active' \subseteq Nat
    <2>1. Kept
        BY <1>27 DEF Lc!ChangeTaken, Lc!mappingVars
    <2> QED BY <1>1, <1>4, <1>27, <2>1, ChangeTakenStep
<1>28. ASSUME NEW h \in hooks, Lc!ResolvedTaken(h)
       PROVE  LcCore' /\ rows' \subseteq Nat /\ active' \subseteq Nat
    <2>1. rows' = rows /\ rows \subseteq Nat
        BY <1>1, <1>28 DEF Lc!ResolvedTaken, ConvTypes
    <2> QED BY <1>1, <1>28, <2>1, ResolvedTakenStep
<1>29. CASE Lc!AnswerSent
    <2>1. Kept
        BY <1>29 DEF Lc!AnswerSent, Lc!mappingVars
    <2> QED BY <1>1, <1>4, <1>29, <2>1, AnswerSentStep
<1>30. CASE Lc!AnswerMapped
    <2>1. Kept
        BY <1>30 DEF Lc!AnswerMapped, Lc!mappingVars
    <2> QED BY <1>1, <1>4, <1>30, <2>1, AnswerMappedStep
<1>31. CASE Lc!ChangeMade
    <2>1. Kept
        BY <1>31 DEF Lc!ChangeMade, Lc!mappingVars
    <2> QED BY <1>1, <1>4, <1>31, <2>1, ChangeMadeStep
<1>32. CASE Lc!ChangeMapped
    <2>1. Kept
        BY <1>32 DEF Lc!ChangeMapped, Lc!mappingVars
    <2> QED BY <1>1, <1>4, <1>32, <2>1, ChangeMappedStep
<1>33. CASE Lc!RunFails
    <2>1. Kept
        BY <1>33 DEF Lc!RunFails, Lc!mappingVars
    <2> QED BY <1>1, <1>4, <1>33, <2>1, LcRunFailsStep
<1> HIDE DEF Kept
<1> QED BY <1>10, <1>11, <1>12, <1>13, <1>14, <1>15, <1>16, <1>17, <1>18, <1>19, <1>20, <1>21,
           <1>22, <1>23, <1>24, <1>25, <1>26, <1>27, <1>28, <1>29, <1>30, <1>31, <1>32, <1>33
        DEF Lc!LifecycleNext, Lc!Ingestion, Lc!Run

\* What the invariant means.
LEMMA LifecycleInvMeans == LifecycleInv => Lc!CopiesExcused
<1> SUFFICES ASSUME LifecycleInv PROVE Lc!CopiesExcused
    OBVIOUS
<1>1. SharedInv /\ TaskInv /\ RunInv
    BY DEF LifecycleInv
<1>2. ASSUME NEW p \in LcMsgs PROVE Cardinality(Lc!PostOf(p)) <= 1 + lost[p]
    <2>1. /\ Cardinality(Lc!PostOf(p)) <= lost[p]
                + (IF IsMapped(p) \/ (t.pc = "posted" /\ t.e.p = p) THEN 1 ELSE 0)
          /\ Cardinality(Lc!PostOf(p)) \in Nat /\ lost[p] \in Nat
        BY <1>1, PostOfFinite DEF TaskInv, PostsCounted
    <2> QED BY <2>1
<1>3. ASSUME NEW a \in LcAnswers PROVE sent[a] <= 1 + spoiled[a]
    <2>1. /\ sent[a] <= spoiled[a]
                + (IF IsMapped(a) \/ (w.pc = "sent" /\ w.h.a = a) THEN 1 ELSE 0)
          /\ sent[a] \in Nat /\ spoiled[a] \in Nat
        BY <1>1 DEF RunInv, SendingsCounted
    <2> QED BY <2>1
<1> QED BY <1>2, <1>3, LcCardinality DEF Lc!CopiesExcused

\* The posts of a step are of the ingestion's message, of its edit or of an agent.
LEMMA LcPosts ==
    ASSUME LifecycleInv, LcMsgs \cap LcAnswers = {}, [Lc!LifecycleNext]_(Lc!lifecycleVars),
           Len(posts') > Len(posts)
    PROVE  LET new == posts'[Len(posts')]
           IN \/ new.kind = "message" /\ new.p \notin LcMsgs
              \/ new.kind = "message" /\ t.saw # "resolved"
              \/ new.kind = "edit" /\ t.excused = TRUE
<1>1. SharedInv /\ TaskInv /\ posts \in Seq(LcPost) /\ Len(posts) \in Nat
    BY DEF LifecycleInv, SharedInv
<1>2. ASSUME NEW post, posts' = Append(posts, post) PROVE posts'[Len(posts')] = post
    BY <1>1, <1>2
<1>3. CASE Lc!Posted
    <2>1. \E post : posts' = Append(posts, post) /\ post.kind = "message"
        BY <1>3 DEF Lc!Posted, Lc!Post
    <2>2. t.saw # "resolved"
        BY <1>1, <1>3 DEF TaskInv, LcFit, Lc!Posted
    <2> QED BY <1>2, <2>1, <2>2
<1>4. CASE Lc!EditPosted
    <2>1. \E post : posts' = Append(posts, post) /\ post.kind = "edit"
        BY <1>4 DEF Lc!EditPosted, Lc!Post
    <2>2. t.excused = TRUE
        BY <1>1, <1>4 DEF TaskInv, LcFit, Lc!EditPosted
    <2> QED BY <1>2, <2>1, <2>2
<1>5. CASE Lc!AgentActs
    <2>1. \/ \E post : posts' = Append(posts, post) /\ post.kind = "message" /\ post.p \in LcAnswers
          \/ \E k : posts' = [posts EXCEPT ![k].text = @ + 1]
          \/ \E k : posts' = [posts EXCEPT ![k].gone = TRUE]
        <3>1. \/ \E a \in LcAnswers, c \in DOMAIN convs :
                    posts' = Append(posts, [conv |-> c, p |-> a, text |-> 1,
                                            kind |-> "message", gone |-> FALSE])
              \/ \E k : posts' = [posts EXCEPT ![k].text = @ + 1]
              \/ \E k : posts' = [posts EXCEPT ![k].gone = TRUE]
            BY <1>5, Zenon DEF Lc!AgentActs
        <3>2. \A a \in LcAnswers : \A c :
                  LET post == [conv |-> c, p |-> a, text |-> 1, kind |-> "message", gone |-> FALSE]
                  IN post.kind = "message" /\ post.p \in LcAnswers
            OBVIOUS
        <3> QED BY <3>1, <3>2, Zenon
    <2>2. ASSUME NEW k, posts' = [posts EXCEPT ![k].text = @ + 1] PROVE FALSE
        <3>1. posts' = [posts EXCEPT ![k] = [posts[k] EXCEPT !.text = posts[k].text + 1]]
            BY <2>2
        <3>2. \A post : Len([posts EXCEPT ![k] = post]) = Len(posts)
            BY <1>1
        <3> QED BY <1>1, <3>1, <3>2
    <2>3. ASSUME NEW k, posts' = [posts EXCEPT ![k].gone = TRUE] PROVE FALSE
        <3>1. SamePosts
            <4>1. 0 \in Nat
                OBVIOUS
            <4> QED BY <1>1, <2>3, <4>1, PostChanges
        <3> QED BY <1>1, <3>1 DEF SamePosts
    <2> QED BY <1>2, <2>1, <2>2, <2>3
<1>6. CASE Lc!DeleteAnswered
    <2>1. SamePosts
        <3>1. 0 \in Nat
            OBVIOUS
        <3>2. posts' = [posts EXCEPT ![t.m.post].gone = TRUE]
            BY <1>6 DEF Lc!DeleteAnswered
        <3> QED BY <1>1, <3>1, <3>2, PostChanges
    <2> QED BY <1>1, <2>1 DEF SamePosts
<1>7. CASE ~Lc!Posted /\ ~Lc!EditPosted /\ ~Lc!AgentActs /\ ~Lc!DeleteAnswered
    <2>1. posts' = posts
        BY <1>7 DEF Lc!LifecycleNext, Lc!lifecycleVars, Lc!inVars, Lc!Ingestion, Lc!Run,
           Lc!PeerActs, Lc!AgentSetsStatus, Lc!IngestBegins, Lc!Listed,
           Lc!ReopenAnswered, Lc!ConversationCreated, Lc!PostRefused, Lc!Recovered, Lc!Mapped,
           Lc!EditMapped, Lc!IngestFails, Lc!CreatedTaken, Lc!ChangeTaken, Lc!ResolvedTaken,
           Lc!AnswerSent, Lc!AnswerMapped, Lc!ChangeMade, Lc!ChangeMapped, Lc!RunFails
    <2> QED BY <1>1, <2>1
<1> QED BY <1>3, <1>4, <1>5, <1>6, <1>7

LEMMA LifecycleLooks ==
    ASSUME Lc!LifecycleAssumption, LifecycleInv, [Lc!LifecycleNext]_(Lc!lifecycleVars)
    PROVE  Lc!LooksFirst /\ Lc!OwnEditStaysOut
<1>1. LcMsgs \cap LcAnswers = {}
    BY DEF Lc!LifecycleAssumption
<1> QED BY <1>1, LcPosts DEF Lc!LooksFirst, Lc!OwnEditStaysOut

LEMMA LifecycleInvariant == Lc!LifecycleAssumption => (Lc!LifecycleSpec => []LifecycleInv)
<1> SUFFICES ASSUME Lc!LifecycleAssumption PROVE Lc!LifecycleSpec => []LifecycleInv
    OBVIOUS
<1>1. Lc!LifecycleInit => LifecycleInv
    BY LifecycleInvInit
<1>2. LifecycleInv /\ [Lc!LifecycleNext]_(Lc!lifecycleVars) => LifecycleInv'
    BY LifecycleInvStep
<1> QED BY <1>1, <1>2, PTL DEF Lc!LifecycleSpec

\* In the bridge of the adapters a message is in Chatwoot again, and an answer on the
\* platform, only when a run ended between the request and the mapping; a message goes
\* into a resolved conversation only when that was not seen; and what comes back of an
\* agent's own edit is posted as the customer's only with one of the excuses
\* (chatwoot_bridge.py).
THEOREM LifecycleCopiesExcused ==
    Lc!LifecycleAssumption =>
        (Lc!LifecycleSpec =>
            /\ []Lc!CopiesExcused
            /\ [][Lc!LooksFirst /\ Lc!OwnEditStaysOut]_(Lc!lifecycleVars))
<1> SUFFICES ASSUME Lc!LifecycleAssumption
             PROVE  Lc!LifecycleSpec =>
                        /\ []Lc!CopiesExcused
                        /\ [][Lc!LooksFirst /\ Lc!OwnEditStaysOut]_(Lc!lifecycleVars)
    OBVIOUS
<1>1. LifecycleInv => Lc!CopiesExcused
    BY LifecycleInvMeans
<1>2. LifecycleInv /\ [Lc!LifecycleNext]_(Lc!lifecycleVars) => Lc!LooksFirst /\ Lc!OwnEditStaysOut
    BY LifecycleLooks
<1> QED BY <1>1, <1>2, LifecycleInvariant, PTL DEF Lc!LifecycleSpec

=============================================================================
