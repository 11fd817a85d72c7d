-------------------------- MODULE DeliveryQueueProofs -------------------------
(***************************************************************************)
(* Proofs about DeliveryQueue, for any number of jobs, retry identifiers,  *)
(* permits, attempts, clicks and faults.                                   *)
(*                                                                         *)
(* What a run may rely on is mutual exclusion in its conversation, and it  *)
(* rests on the dictionary of locks keeping the entry of every task that   *)
(* waits or runs.  The dictionary forgets its oldest entry when it is full *)
(* (Entry), whoever holds that lock, so the theorems that need exclusion   *)
(* assume what the code assumes: no more conversations than entries.       *)
(***************************************************************************)
EXTENDS DeliveryQueue, FiniteSetTheorems, SequenceTheorems, TLAPS

-------------------------------------------------------------------------------
(* The inductive invariant.                                                *)

FewConversations == Cardinality(Conversations) <= MaxLocks

\* A task that waits for a lock or holds one.
InLine(j) == task[j] \in Running \union {"lock", "locked"}
Holding(j) == task[j] \in Running \union {"locked"}

TaskTypes ==
    /\ row \in [Jobs -> {"none", "pending", "failed", "done"}]
    /\ cancelled \in [Jobs -> BOOLEAN]
    /\ task \in [Jobs -> {"none", "slot", "lock", "locked", "run", "report",
                          "settle", "exit"}]
    /\ ref \in [Jobs -> LockIds \union {NoLock}]

\* A job with a task is not scheduled again.
ActiveInv == \A j \in Jobs : task[j] /= "none" => j \in active

\* A list of dictionary entries: one for each conversation, each with a lock
\* of its own.
Entries(d) ==
    /\ d \in Seq([conv : Conversations, lock : LockIds])
    /\ \A x, y \in DOMAIN d : x /= y => /\ d[x].conv /= d[y].conv
                                        /\ d[x].lock /= d[y].lock

Has(d, c, l) == \E x \in DOMAIN d : d[x].conv = c /\ d[x].lock = l

\* The lock of a task is the one the dictionary has for its conversation.
LockInv ==
    /\ Entries(dict)
    /\ \A j \in Jobs : InLine(j) => Has(dict, Conversation[j], ref[j])
    /\ \A j \in Jobs : ~InLine(j) => ref[j] = NoLock

\* A lock has one holder.
HolderInv == \A j, k \in Jobs : Holding(j) /\ Holding(k) /\ ref[j] = ref[k] => j = k

MutexInv == TaskTypes /\ ActiveInv /\ LockInv /\ HolderInv

\* The job of a deleted message is over, and nobody runs it.
CancelInv == \A j \in Jobs :
    cancelled[j] => row[j] \in {"failed", "done"} /\ task[j] \notin Running

-------------------------------------------------------------------------------
(* The dictionary of locks.                                                *)

LEMMA ConstantsFinite ==
    /\ IsFiniteSet(Conversations)
    /\ LockIds \subseteq Nat /\ NoLock \notin LockIds
    /\ IsFiniteSet(LockIds) /\ Cardinality(LockIds) >= MaxLocks
    /\ Cardinality(LockIds) \in Nat
<1>1. IsFiniteSet(Jobs) /\ Cardinality(Jobs) \in Nat
  BY QueueAssumption, FS_CardinalityType
<1>2. IsFiniteSet(Conversations)
  <2> DEFINE f == [j \in Jobs |-> Conversation[j]]
  <2>1. f \in Surjection(Jobs, Conversations)
    BY DEF Surjection, Conversations
  <2> QED
    BY <1>1, <2>1, FS_Surjection
<1>3. Cardinality(Jobs) + MaxLocks \in Nat
  BY <1>1, QueueAssumption
<1>4. IsFiniteSet(LockIds) /\ Cardinality(LockIds) = Cardinality(Jobs) + MaxLocks
  BY <1>3, FS_Interval DEF LockIds
<1> QED
  BY <1>1, <1>2, <1>3, <1>4, QueueAssumption DEF LockIds, NoLock

\* A list that lacks a conversation has room for it.
LEMMA RoomForOne ==
  ASSUME FewConversations, NEW d, Entries(d), NEW c \in Conversations,
         \A x \in DOMAIN d : d[x].conv /= c
  PROVE  Len(d) < MaxLocks
<1>1. /\ IsFiniteSet(Conversations \ {c})
      /\ Cardinality(Conversations \ {c}) = Cardinality(Conversations) - 1
  BY ConstantsFinite, FS_RemoveElement
<1>2. Len(d) \in Nat /\ DOMAIN d = 1..Len(d)
  BY LenProperties DEF Entries
<1> DEFINE f == [x \in 1..Len(d) |-> d[x].conv]
<1>3. \A x \in 1..Len(d) : d[x] \in [conv : Conversations, lock : LockIds]
  BY <1>2, ElementOfSeq DEF Entries
<1>4. f \in Injection(1..Len(d), Conversations \ {c})
  BY <1>2, <1>3 DEF Injection, IsInjective, Entries
<1>5. Cardinality(1..Len(d)) = Len(d)
  BY <1>2, FS_Interval
<1>6. Len(d) <= Cardinality(Conversations) - 1
  BY <1>1, <1>4, <1>5, FS_Injection
<1> QED
  BY <1>2, <1>6, ConstantsFinite, FS_CardinalityType, QueueAssumption DEF FewConversations

\* There is a lock that no entry of a short list has.
LEMMA FreshLock ==
  ASSUME NEW d, Entries(d), Len(d) < MaxLocks
  PROVE  \E l \in LockIds : \A x \in DOMAIN d : d[x].lock /= l
<1> SUFFICES ASSUME \A l \in LockIds : \E x \in DOMAIN d : d[x].lock = l
             PROVE  FALSE
  OBVIOUS
<1>1. Len(d) \in Nat /\ DOMAIN d = 1..Len(d)
  BY LenProperties DEF Entries
<1> DEFINE g == [l \in LockIds |-> CHOOSE x \in 1..Len(d) : d[x].lock = l]
<1>2. \A l \in LockIds : g[l] \in 1..Len(d) /\ d[g[l]].lock = l
  BY <1>1
<1>3. g \in Injection(LockIds, 1..Len(d))
  BY <1>2 DEF Injection, IsInjective
<1>4. IsFiniteSet(1..Len(d)) /\ Cardinality(1..Len(d)) = Len(d)
  <2>1. 1 \in Int /\ Len(d) \in Int
    BY <1>1
  <2>2. /\ IsFiniteSet(1..Len(d))
        /\ Cardinality(1..Len(d)) = IF 1 > Len(d) THEN 0 ELSE Len(d) - 1 + 1
    BY ONLY <2>1, FS_Interval
  <2> QED
    BY ONLY <1>1, <2>2
<1>5. Cardinality(LockIds) <= Len(d)
  BY <1>3, <1>4, FS_Injection
<1> QED
  BY <1>1, <1>5, ConstantsFinite, QueueAssumption

\* Looking up a lock forgets nobody's and creates at most a fresh one.
LEMMA EntryKeeps ==
  ASSUME FewConversations, TaskTypes, LockInv, NEW c \in Conversations
  PROVE  /\ Entries(Entry(c))
         /\ \A e, l : Has(dict, e, l) => Has(Entry(c), e, l)
         /\ \E x \in DOMAIN Entry(c) : Entry(c)[x].conv = c
<1>1. CASE Known(c)
  BY <1>1 DEF Entry, Known, LockInv
<1>2. CASE ~Known(c)
  <2> DEFINE fresh == CHOOSE l \in LockIds : l \notin InUse
             E == [conv |-> c, lock |-> fresh]
  <2>1. Len(dict) \in Nat /\ DOMAIN dict = 1..Len(dict)
    BY LenProperties DEF LockInv, Entries
  <2>2. Len(dict) < MaxLocks
    BY <1>2, RoomForOne DEF Known, LockInv
  <2>3. Entry(c) = Append(dict, E)
    BY <1>2, <2>1, <2>2, QueueAssumption DEF Entry
  <2>4. PICK l \in LockIds : \A x \in DOMAIN dict : dict[x].lock /= l
    BY <2>2, FreshLock DEF LockInv
  <2>5. l \notin InUse
    <3>1. \A j \in Jobs : ref[j] /= l
      <4> TAKE j \in Jobs
      <4>1. CASE InLine(j)
        BY <2>4, <4>1 DEF LockInv, Has
      <4>2. CASE ~InLine(j)
        BY <4>2, ConstantsFinite DEF LockInv
      <4> QED
        BY <4>1, <4>2
    <3> QED
      BY <2>4, <3>1 DEF InUse
  <2>6. fresh \in LockIds /\ fresh \notin InUse
    BY <2>5
  <2>7. \A x \in DOMAIN dict : dict[x].lock /= fresh /\ dict[x].conv /= c
    BY <1>2, <2>6 DEF InUse, Known
  <2>8. /\ E \in [conv : Conversations, lock : LockIds]
        /\ E.conv = c /\ E.lock = fresh
    BY <2>6
  <2>9. /\ Append(dict, E) \in Seq([conv : Conversations, lock : LockIds])
        /\ Len(Append(dict, E)) = Len(dict) + 1
        /\ \A x \in 1..Len(dict) : Append(dict, E)[x] = dict[x]
        /\ Append(dict, E)[Len(dict) + 1] = E
    BY <2>8, AppendProperties DEF LockInv, Entries
  <2>10. DOMAIN Append(dict, E) = 1..(Len(dict) + 1)
    BY <2>9, LenProperties
  <2> HIDE DEF E, fresh
  <2>11. Entries(Append(dict, E))
    <3> SUFFICES ASSUME NEW x \in 1..(Len(dict) + 1), NEW y \in 1..(Len(dict) + 1),
                        x /= y
                 PROVE  /\ Append(dict, E)[x].conv /= Append(dict, E)[y].conv
                        /\ Append(dict, E)[x].lock /= Append(dict, E)[y].lock
      BY <2>9, <2>10 DEF Entries
    <3>1. CASE x \in 1..Len(dict) /\ y \in 1..Len(dict)
      BY <2>1, <2>9, <3>1 DEF LockInv, Entries
    <3>2. CASE x = Len(dict) + 1 /\ y \in 1..Len(dict)
      BY <2>1, <2>7, <2>8, <2>9, <3>2
    <3>3. CASE x \in 1..Len(dict) /\ y = Len(dict) + 1
      BY <2>1, <2>7, <2>8, <2>9, <3>3
    <3> QED
      BY <2>1, <3>1, <3>2, <3>3
  <2>12. \A e, m : Has(dict, e, m) => Has(Append(dict, E), e, m)
    BY <2>1, <2>9, <2>10 DEF Has
  <2>13. \E x \in DOMAIN Append(dict, E) : Append(dict, E)[x].conv = c
    BY <2>1, <2>8, <2>9, <2>10
  <2> QED
    BY <2>3, <2>11, <2>12, <2>13
<1> QED
  BY <1>1, <1>2

-------------------------------------------------------------------------------
(* Mutual exclusion in a conversation.                                     *)

\* Scheduling starts tasks only for jobs that have none.
LEMMA ScheduleKeeps ==
  ASSUME MutexInv, NEW js, Schedule(js), UNCHANGED <<ref, dict>>
  PROVE  /\ task' \in [Jobs -> {"none", "slot", "lock", "locked", "run",
                                "report", "settle", "exit"}]
         /\ ActiveInv' /\ LockInv' /\ HolderInv'
         /\ \A j \in Jobs : task'[j] = task[j] \/ task'[j] = "slot"
<1> USE DEF MutexInv, TaskTypes
<1>1. \A j \in Jobs : \/ task'[j] = task[j]
                      \/ task[j] = "none" /\ task'[j] = "slot"
  BY DEF Schedule, ActiveInv
<1>2. \A j \in Jobs : InLine(j)' = InLine(j) /\ Holding(j)' = Holding(j)
  BY <1>1 DEF InLine, Holding, Running
<1>3. ActiveInv'
  BY DEF Schedule, ActiveInv
<1>4. LockInv'
  BY <1>2 DEF LockInv
<1>5. HolderInv'
  BY <1>2 DEF HolderInv
<1> QED
  BY <1>1, <1>3, <1>4, <1>5 DEF Schedule

\* A task that keeps its place in line keeps its lock.
LEMMA StayInLine ==
  ASSUME MutexInv, UNCHANGED <<ref, dict>>,
         \A j \in Jobs : InLine(j)' = InLine(j),
         \A j \in Jobs : Holding(j)' => Holding(j)
  PROVE  LockInv' /\ HolderInv'
BY DEF MutexInv, LockInv, HolderInv

\* A task that lets its lock go leaves everybody else's as they are.
LEMMA LeaveKeeps ==
  ASSUME MutexInv, NEW j \in Jobs, Leave(j), UNCHANGED <<active, dict>>, InLine(j)
  PROVE  /\ task' \in [Jobs -> {"none", "slot", "lock", "locked", "run",
                                "report", "settle", "exit"}]
         /\ ref' \in [Jobs -> LockIds \union {NoLock}]
         /\ ActiveInv' /\ LockInv' /\ HolderInv'
<1> USE DEF MutexInv, TaskTypes, Leave
<1>1. \A k \in Jobs \ {j} : /\ InLine(k)' = InLine(k) /\ Holding(k)' = Holding(k)
                            /\ ref'[k] = ref[k]
  BY DEF InLine, Holding
<1>2. ~InLine(j)' /\ ~Holding(j)' /\ ref'[j] = NoLock
  BY DEF InLine, Holding, Running
<1>3. ActiveInv'
  BY DEF ActiveInv, InLine, Running
<1>4. LockInv'
  BY <1>1, <1>2 DEF LockInv
<1>5. HolderInv'
  BY <1>1, <1>2 DEF HolderInv
<1> QED
  BY <1>3, <1>4, <1>5

\* A permit takes its task to the lock of its conversation, which it gets at
\* once only if no task has it.
LEMMA TakeSlotKeeps ==
  ASSUME FewConversations, MutexInv, NEW j \in Jobs, TakeSlot(j)
  PROVE  MutexInv'
<1> DEFINE c == Conversation[j]
           at == CHOOSE x \in DOMAIN dict' : dict'[x].conv = c
           l == dict'[at].lock
           busy == \E k \in Jobs : ref[k] = l
<1>1. c \in Conversations
  BY DEF Conversations
<1>2. /\ Entries(dict')
      /\ \A e, m : Has(dict, e, m) => Has(dict', e, m)
      /\ \E x \in DOMAIN dict' : dict'[x].conv = c
  BY <1>1, EntryKeeps DEF TakeSlot, MutexInv
<1>3. at \in DOMAIN dict' /\ dict'[at].conv = c
  BY <1>2
<1>4. Has(dict', c, l) /\ l \in LockIds
  <2>1. dict'[at] \in [conv : Conversations, lock : LockIds]
    BY <1>2, <1>3, LenProperties, ElementOfSeq DEF Entries
  <2> QED
    BY <1>3, <2>1 DEF Has
<1>5. /\ ref' = [ref EXCEPT ![j] = l]
      /\ task' = [task EXCEPT ![j] = IF busy THEN "lock" ELSE "locked"]
      /\ task[j] = "slot" /\ UNCHANGED <<row, cancelled, active>>
  BY DEF TakeSlot, rowVars
<1> HIDE DEF at, l, busy
<1>6. /\ TaskTypes' /\ ref'[j] = l
      /\ task'[j] = IF busy THEN "lock" ELSE "locked"
  BY <1>4, <1>5 DEF MutexInv, TaskTypes
<1>7. \A k \in Jobs \ {j} : /\ InLine(k)' = InLine(k) /\ Holding(k)' = Holding(k)
                            /\ ref'[k] = ref[k]
  BY <1>5 DEF InLine, Holding, MutexInv, TaskTypes
<1>8. InLine(j)'
  BY <1>6 DEF InLine, Running
<1>9. ActiveInv'
  BY <1>5 DEF ActiveInv, MutexInv, TaskTypes
<1>10. LockInv'
  BY <1>2, <1>4, <1>6, <1>7, <1>8 DEF LockInv, MutexInv
<1>11. Holding(j)' => \A k \in Jobs : ref[k] /= l
  BY <1>6 DEF Holding, Running, busy
<1>12. HolderInv'
  BY <1>6, <1>7, <1>11 DEF HolderInv, MutexInv
<1> QED
  BY <1>6, <1>9, <1>10, <1>12 DEF MutexInv

\* A lock that is let go passes to one waiter.
LEMMA AcquireKeeps ==
  ASSUME MutexInv, NEW j \in Jobs, Acquire(j)
  PROVE  MutexInv'
<1>1. /\ task[j] = "lock" /\ task' = [task EXCEPT ![j] = "locked"]
      /\ \A k \in Jobs : ~Holds(k, ref[j])
      /\ UNCHANGED <<row, cancelled, active, ref, dict>>
  BY DEF Acquire, rowVars
<1>2. TaskTypes' /\ task'[j] = "locked"
  BY <1>1 DEF MutexInv, TaskTypes
<1>3. \A k \in Jobs : /\ InLine(k)' = InLine(k)
                      /\ k /= j => Holding(k)' = Holding(k)
  BY <1>1 DEF InLine, Holding, MutexInv, TaskTypes
<1>4. ActiveInv'
  BY <1>1 DEF ActiveInv, MutexInv, TaskTypes
<1>5. LockInv'
  BY <1>1, <1>3 DEF LockInv, MutexInv
<1>6. HolderInv'
  BY <1>1, <1>3 DEF HolderInv, Holds, Holding, MutexInv
<1> QED
  BY <1>2, <1>4, <1>5, <1>6 DEF MutexInv

\* What a run does inside its lock.
LEMMA RunKeeps ==
  ASSUME MutexInv, NEW j \in Jobs,
         Begin(j) \/ Return(j) \/ Report(j) \/ Reported(j) \/ Timeout(j)
  PROVE  MutexInv'
<1>1. /\ task[j] \in Running \union {"locked"}
      /\ task' \in {[task EXCEPT ![j] = s] : s \in Running}
      /\ UNCHANGED <<active, ref, dict>>
  BY DEF Begin, Return, Report, Reported, Timeout, Running, lockVars
<1>2. row' \in [Jobs -> {"none", "pending", "failed", "done"}]
      /\ cancelled' \in [Jobs -> BOOLEAN]
  BY DEF Begin, Return, Report, Reported, Timeout, Settled, Completed, Failed,
    rowVars, MutexInv, TaskTypes
<1>3. \A k \in Jobs : InLine(k)' = InLine(k) /\ Holding(k)' = Holding(k)
  BY <1>1 DEF InLine, Holding, Running, MutexInv, TaskTypes
<1>4. TaskTypes'
  BY <1>1, <1>2 DEF MutexInv, TaskTypes, Running
<1>5. ActiveInv'
  BY <1>1 DEF ActiveInv, MutexInv, TaskTypes, Running
<1>6. LockInv' /\ HolderInv'
  BY <1>1, <1>3, StayInLine
<1> QED
  BY <1>4, <1>5, <1>6 DEF MutexInv

LEMMA MutexStep == FewConversations /\ MutexInv /\ [Next]_vars => MutexInv'
<1> SUFFICES ASSUME FewConversations, MutexInv, [Next]_vars PROVE MutexInv'
  OBVIOUS
<1>1. ASSUME NEW j \in Jobs, Receive(j) PROVE MutexInv'
  <2>1. TaskTypes'
    BY <1>1, ScheduleKeeps DEF Receive, MutexInv, TaskTypes
  <2> QED
    BY <1>1, <2>1, ScheduleKeeps DEF Receive, MutexInv
<1>2. ASSUME NEW j \in Jobs, NEW r \in RetryIds, Click(j, r) PROVE MutexInv'
  <2>1. TaskTypes'
    BY <1>2, ScheduleKeeps DEF Click, MutexInv, TaskTypes
  <2> QED
    BY <1>2, <2>1, ScheduleKeeps DEF Click, MutexInv
<1>3. CASE ScheduleScan
  <2>1. TaskTypes'
    BY <1>3, ScheduleKeeps DEF ScheduleScan, MutexInv, TaskTypes, rowVars
  <2> QED
    BY <1>3, <2>1, ScheduleKeeps DEF ScheduleScan, MutexInv
<1>4. ASSUME NEW j \in Jobs, Tick(j) PROVE MutexInv'
  BY <1>4 DEF Tick, taskVars, lockVars, MutexInv, TaskTypes, ActiveInv, LockInv,
    HolderInv, InLine, Holding
<1>5. CASE Load \/ UNCHANGED vars
  BY <1>5 DEF Load, vars, rowVars, taskVars, lockVars, MutexInv, TaskTypes,
    ActiveInv, LockInv, HolderInv, InLine, Holding
<1>6. ASSUME NEW j \in Jobs, TakeSlot(j) PROVE MutexInv'
  BY <1>6, TakeSlotKeeps
<1>7. ASSUME NEW j \in Jobs, Acquire(j) PROVE MutexInv'
  BY <1>7, AcquireKeeps
<1>8. ASSUME NEW j \in Jobs, Skip(j) PROVE MutexInv'
  <2>1. InLine(j)
    BY <1>8 DEF Skip, InLine
  <2> QED
    BY <1>8, <2>1, LeaveKeeps DEF Skip, rowVars, MutexInv, TaskTypes
<1>9. ASSUME NEW j \in Jobs,
             Begin(j) \/ Return(j) \/ Report(j) \/ Reported(j) \/ Timeout(j)
      PROVE  MutexInv'
  BY <1>9, RunKeeps
<1>10. ASSUME NEW j \in Jobs, Settle(j) PROVE MutexInv'
  <2>1. InLine(j)
    BY <1>10 DEF Settle, InLine, Running
  <2>2. row' \in [Jobs -> {"none", "pending", "failed", "done"}]
        /\ UNCHANGED cancelled
    BY <1>10 DEF Settle, Settled, Completed, Failed, MutexInv, TaskTypes
  <2> QED
    BY <1>10, <2>1, <2>2, LeaveKeeps DEF Settle, MutexInv, TaskTypes
<1>11. ASSUME NEW j \in Jobs, Cleanup(j) PROVE MutexInv'
  <2>1. /\ task[j] = "exit" /\ task' = [task EXCEPT ![j] = "none"]
        /\ active' = active \ {j} /\ UNCHANGED <<row, cancelled, ref, dict>>
    BY <1>11 DEF Cleanup, rowVars, lockVars
  <2>2. TaskTypes' /\ ActiveInv'
    BY <2>1 DEF MutexInv, TaskTypes, ActiveInv
  <2>3. \A k \in Jobs : InLine(k)' = InLine(k) /\ Holding(k)' = Holding(k)
    BY <2>1 DEF InLine, Holding, Running, MutexInv, TaskTypes
  <2> QED
    BY <2>1, <2>2, <2>3, StayInLine DEF MutexInv
<1>12. CASE Restart
  BY <1>12, EmptySeq DEF Restart, rowVars, MutexInv, TaskTypes, ActiveInv, LockInv,
    HolderInv, InLine, Holding, Running, Entries
<1> QED
  BY <1>1, <1>2, <1>3, <1>4, <1>5, <1>6, <1>7, <1>8, <1>9, <1>10, <1>11, <1>12
    DEF Next, TaskStep, Recovery

LEMMA MutexInit == Init => MutexInv
<1> SUFFICES ASSUME Init PROVE MutexInv
  OBVIOUS
<1>1. Entries(dict)
  BY EmptySeq DEF Init, Entries
<1> QED
  BY <1>1 DEF Init, MutexInv, TaskTypes, ActiveInv, LockInv, HolderInv, InLine,
    Holding, Running

\* Tasks of one conversation have one lock, and a lock has one holder.
LEMMA MutexHolds == MutexInv => ConversationMutex
<1> SUFFICES ASSUME MutexInv, NEW j \in Jobs, NEW k \in Jobs,
                    j /= k, Conversation[j] = Conversation[k],
                    task[j] \in Running, task[k] \in Running
             PROVE  FALSE
  BY DEF ConversationMutex
<1>1. /\ Has(dict, Conversation[j], ref[j]) /\ Has(dict, Conversation[k], ref[k])
      /\ Holding(j) /\ Holding(k)
  BY DEF MutexInv, LockInv, InLine, Holding
<1>2. ref[j] = ref[k]
  BY <1>1 DEF Has, MutexInv, LockInv, Entries
<1> QED
  BY <1>1, <1>2 DEF MutexInv, HolderInv

\* Two runs of one conversation never overlap, as long as the dictionary of
\* locks has room for every conversation (_WEBHOOK_DELIVERY_LOCKS_MAX).
THEOREM RunsExclude == FewConversations => (Spec => []ConversationMutex)
<1> SUFFICES ASSUME FewConversations PROVE Spec => []ConversationMutex
  OBVIOUS
<1>1. Init => MutexInv
  BY MutexInit
<1>2. MutexInv /\ [Next]_vars => MutexInv'
  BY MutexStep
<1>3. MutexInv => ConversationMutex
  BY MutexHolds
<1> QED
  BY <1>1, <1>2, <1>3, PTL DEF Spec

-------------------------------------------------------------------------------
(* Deleted messages.                                                       *)

\* A deletion works in the conversation of its message, so when it begins
\* nobody runs the message's job.
LEMMA BeginCancels ==
  ASSUME MutexInv, CancelInv, NEW j \in Jobs, Begin(j)
  PROVE  CancelInv'
<1> DEFINE t == Target[j]
<1>1. task[j] = "locked" /\ row[j] = "pending" /\ task' = [task EXCEPT ![j] = "run"]
  BY DEF Begin
<1>2. CASE t /= NoJob /\ row[t] \in {"pending", "failed"}
  <2>1. t \in Jobs /\ Conversation[t] = Conversation[j] /\ Target[t] = NoJob
    BY <1>2, QueueAssumption
  <2>2. t /= j
    BY <1>2, <2>1
  <2>3. task[t] \notin Running
    <3> SUFFICES ASSUME task[t] \in Running PROVE FALSE
      OBVIOUS
    <3>1. /\ Has(dict, Conversation[t], ref[t]) /\ Has(dict, Conversation[j], ref[j])
          /\ Holding(t) /\ Holding(j)
      BY <1>1, <2>1 DEF MutexInv, LockInv, InLine, Holding
    <3>2. ref[t] = ref[j]
      BY <2>1, <3>1 DEF Has, MutexInv, LockInv, Entries
    <3> QED
      BY <2>1, <2>2, <3>1, <3>2 DEF MutexInv, HolderInv
  <2>4. /\ row' = [row EXCEPT ![t] = "failed"]
        /\ cancelled' = [cancelled EXCEPT ![t] = TRUE]
    BY <1>2 DEF Begin
  <2>5. \A k \in Jobs \ {j, t} : /\ row'[k] = row[k] /\ cancelled'[k] = cancelled[k]
                                 /\ task'[k] = task[k]
    BY <1>1, <2>4 DEF MutexInv, TaskTypes
  <2>6. row'[t] = "failed" /\ task'[t] = task[t]
    BY <1>1, <2>1, <2>2, <2>4 DEF MutexInv, TaskTypes
  <2>7. ~cancelled'[j]
    BY <1>1, <2>2, <2>4 DEF MutexInv, TaskTypes, CancelInv
  <2> QED
    BY <2>3, <2>5, <2>6, <2>7 DEF CancelInv
<1>3. CASE ~(t /= NoJob /\ row[t] \in {"pending", "failed"})
  BY <1>1, <1>3 DEF Begin, CancelInv, MutexInv, TaskTypes, Running
<1> QED
  BY <1>2, <1>3

\* A row that is settled belongs to a run, hence to no deleted message.
LEMMA SettledKeeps ==
  ASSUME MutexInv, CancelInv, NEW j \in Jobs, task[j] \in Running,
         Settled(j), UNCHANGED cancelled,
         \A k \in Jobs : k /= j => task'[k] = task[k]
  PROVE  CancelInv'
<1>1. ~cancelled[j]
  BY DEF CancelInv
<1>2. \A k \in Jobs : k /= j => row'[k] = row[k]
  BY DEF Settled, Completed, Failed, MutexInv, TaskTypes
<1> QED
  BY <1>1, <1>2 DEF CancelInv

LEMMA CancelStep ==
  MutexInv /\ CancelInv /\ [Next]_vars => CancelInv'
<1> SUFFICES ASSUME MutexInv, CancelInv, [Next]_vars PROVE CancelInv'
  OBVIOUS
<1> USE DEF CancelInv
<1>1. ASSUME NEW j \in Jobs, Receive(j) PROVE CancelInv'
  <2>1. ~cancelled[j]
    BY <1>1 DEF Receive
  <2>2. \A k \in Jobs : task'[k] = task[k] \/ task'[k] = "slot"
    BY <1>1, ScheduleKeeps DEF Receive
  <2> QED
    BY <1>1, <2>1, <2>2 DEF Receive, MutexInv, TaskTypes, Running
<1>2. ASSUME NEW j \in Jobs, NEW r \in RetryIds, Click(j, r) PROVE CancelInv'
  <2>1. \A k \in Jobs : task'[k] = task[k] \/ task'[k] = "slot"
    BY <1>2, ScheduleKeeps DEF Click
  <2> QED
    BY <1>2, <2>1 DEF Click, Ignored, MutexInv, TaskTypes, Running
<1>3. CASE ScheduleScan
  <2>1. \A k \in Jobs : task'[k] = task[k] \/ task'[k] = "slot"
    BY <1>3, ScheduleKeeps DEF ScheduleScan
  <2> QED
    BY <1>3, <2>1 DEF ScheduleScan, rowVars, Running
<1>4. ASSUME NEW j \in Jobs, Tick(j) PROVE CancelInv'
  BY <1>4 DEF Tick, taskVars
<1>5. CASE Load \/ UNCHANGED vars
  BY <1>5 DEF Load, vars, rowVars, taskVars
<1>6. ASSUME NEW j \in Jobs,
             TakeSlot(j) \/ Acquire(j) \/ Skip(j) \/ Cleanup(j)
      PROVE  CancelInv'
  <2>1. \A k \in Jobs : \/ task'[k] = task[k]
                        \/ task'[k] \in {"none", "lock", "locked", "exit"}
    BY <1>6 DEF TakeSlot, Acquire, Skip, Cleanup, Leave, MutexInv, TaskTypes
  <2>2. UNCHANGED <<row, cancelled>>
    BY <1>6 DEF TakeSlot, Acquire, Skip, Cleanup, rowVars
  <2> QED
    BY <2>1, <2>2 DEF Running
<1>7. ASSUME NEW j \in Jobs, Begin(j) PROVE CancelInv'
  BY <1>7, BeginCancels
<1>8. ASSUME NEW j \in Jobs, Return(j) \/ Report(j) \/ Reported(j)
      PROVE  CancelInv'
  <2>1. /\ task[j] \in Running /\ UNCHANGED <<row, cancelled>>
        /\ \A k \in Jobs : k /= j => task'[k] = task[k]
    BY <1>8 DEF Return, Report, Reported, rowVars, Running, MutexInv, TaskTypes
  <2> QED
    BY <2>1
<1>9. ASSUME NEW j \in Jobs, Settle(j) \/ Timeout(j) PROVE CancelInv'
  <2>1. /\ task[j] \in Running /\ UNCHANGED cancelled
        /\ \A k \in Jobs : k /= j => task'[k] = task[k]
    BY <1>9 DEF Settle, Timeout, Leave, Running, MutexInv, TaskTypes
  <2>2. Settled(j) \/ UNCHANGED row
    BY <1>9 DEF Settle, Timeout
  <2>3. CASE Settled(j)
    BY <2>1, <2>3, SettledKeeps
  <2>4. CASE UNCHANGED row
    BY <2>1, <2>4
  <2> QED
    BY <2>2, <2>3, <2>4
<1>10. CASE Restart
  BY <1>10 DEF Restart, rowVars, Running
<1> QED
  BY <1>1, <1>2, <1>3, <1>4, <1>5, <1>6, <1>7, <1>8, <1>9, <1>10
    DEF Next, TaskStep, Recovery

\* No run works on a message whose deletion has been recorded, and no click,
\* scan or late failure of a run revives its job.
THEOREM DeletedStaysDeleted == FewConversations => (Spec => []CancelledStaysOut)
<1> SUFFICES ASSUME FewConversations PROVE Spec => []CancelledStaysOut
  OBVIOUS
<1>1. Init => MutexInv /\ CancelInv
  BY MutexInit DEF Init, CancelInv
<1>2. MutexInv /\ CancelInv /\ [Next]_vars => (MutexInv /\ CancelInv)'
  BY MutexStep, CancelStep
<1>3. CancelInv => CancelledStaysOut
  BY DEF CancelInv, CancelledStaysOut
<1> QED
  BY <1>1, <1>2, <1>3, PTL DEF Spec

-------------------------------------------------------------------------------
(* Completed jobs: whatever the locks do, no assumption is needed.         *)

RowTypes ==
    /\ row \in [Jobs -> {"none", "pending", "failed", "done"}]
    /\ DOMAIN task = Jobs

\* What a step does to the row of a job that is done, and to its run.
LEMMA DoneStep ==
  ASSUME RowTypes, [Next]_vars
  PROVE  /\ RowTypes'
         /\ \A j \in Jobs : row[j] = "done" =>
               /\ row'[j] = "done"
               /\ task[j] = "locked" => task'[j] /= "run"
<1> USE DEF RowTypes
<1>1. ASSUME NEW j \in Jobs, Receive(j) \/ \E r \in RetryIds : Click(j, r)
      PROVE  /\ row' \in {row, [row EXCEPT ![j] = "pending"]}
             /\ row' /= row => row[j] /= "done"
             /\ DOMAIN task' = Jobs
             /\ \A k \in Jobs : task'[k] \in {task[k], "slot"}
  BY <1>1 DEF Receive, Click, Schedule
<1>2. CASE ScheduleScan
  BY <1>2 DEF ScheduleScan, Schedule, rowVars
<1>3. ASSUME NEW j \in Jobs, Tick(j) PROVE UNCHANGED <<row, task>>
  BY <1>3 DEF Tick, taskVars
<1>4. CASE Load \/ UNCHANGED vars
  BY <1>4 DEF Load, vars, rowVars, taskVars
<1>5. ASSUME NEW j \in Jobs,
             \/ TakeSlot(j) \/ Acquire(j) \/ Skip(j) \/ Cleanup(j)
             \/ Return(j) \/ Report(j) \/ Reported(j)
      PROVE  /\ UNCHANGED row /\ DOMAIN task' = Jobs
             /\ \A k \in Jobs : task'[k] /= "run" \/ task'[k] = task[k]
  BY <1>5 DEF TakeSlot, Acquire, Skip, Cleanup, Return, Report, Reported,
    Leave, rowVars
<1>6. ASSUME NEW j \in Jobs, Begin(j)
      PROVE  /\ row[j] = "pending" /\ task' = [task EXCEPT ![j] = "run"]
             /\ row' \in [Jobs -> {"none", "pending", "failed", "done"}]
             /\ \A k \in Jobs : row[k] = "done" => row'[k] = "done"
  BY <1>6 DEF Begin
<1>7. ASSUME NEW j \in Jobs, Settle(j) \/ Timeout(j)
      PROVE  /\ row' \in [Jobs -> {"none", "pending", "failed", "done"}]
             /\ \A k \in Jobs : row[k] = "done" => row'[k] = "done"
             /\ \E s \in {"exit", "report"} : task' = [task EXCEPT ![j] = s]
  <2>1. UNCHANGED row \/ Settled(j)
    BY <1>7 DEF Settle, Timeout
  <2>2. /\ row' \in [Jobs -> {"none", "pending", "failed", "done"}]
        /\ \A k \in Jobs : row[k] = "done" => row'[k] = "done"
    BY <2>1 DEF Settled, Completed, Failed
  <2> QED
    BY <1>7, <2>2 DEF Settle, Timeout, Leave
<1>8. CASE Restart
  BY <1>8 DEF Restart, rowVars
<1> QED
  BY <1>1, <1>2, <1>3, <1>4, <1>5, <1>6, <1>7, <1>8
    DEF Next, TaskStep, Recovery

\* A job that was completed is over: no scan loaded earlier runs it again, and
\* no late failure brings its row back.
THEOREM CompletedIsOver == Spec => DoneIsFinal
<1>1. Init => RowTypes
  BY DEF Init, RowTypes
<1>2. RowTypes /\ [Next]_vars => RowTypes'
  BY DoneStep
<1>3. RowTypes /\ [Next]_vars =>
        [\A j \in Jobs : row[j] = "done" =>
            /\ row'[j] = "done"
            /\ task[j] = "locked" => task'[j] /= "run"]_vars
  BY DoneStep
<1> QED
  BY <1>1, <1>2, <1>3, PTL DEF Spec, DoneIsFinal

===============================================================================
