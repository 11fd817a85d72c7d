------------------------ MODULE ConfirmedDeliveryProofs -----------------------
(***************************************************************************)
(* Proofs about ConfirmedDelivery, for every number of parts, either       *)
(* platform, every attempt budget, every set of failures and every bound.  *)
(* IInv is inductive (InvStep); the safety properties of the ledger follow *)
(* from it, and every step is a step of TruthfulDelivery or a stutter.     *)
(* NoteInv and RowInv add what the failure note needs, LockedInv what the  *)
(* late errors need.                                                       *)
(***************************************************************************)
EXTENDS ConfirmedDelivery, TLAPS

-------------------------------------------------------------------------------
(* The inductive invariant.                                                *)

\* A call that is interrupted leaves the job as it is, and shows the message
\* as sent only if it is complete.
LEMMA InterruptedKeeps ==
  ASSUME ShownInv, FlagsOK,
         Interrupted \/ (confirming /= NoPart /\ HalfFinalized)
  PROVE  /\ UNCHANGED <<jobStatus, attempts, terminal>>
         /\ noted' \in BOOLEAN /\ note' \in BOOLEAN
         /\ \/ bubble' = bubble \/ bubble' = "failed"
            \/ bubble' = "sent" /\ Complete
<1>1. CASE UNCHANGED <<jobVars, chatwootVars>>
  BY <1>1 DEF FlagsOK, jobVars, chatwootVars
<1>2. CASE pc \in {"mark", "notify"} /\ bubble' = "failed"
           /\ UNCHANGED <<note, jobVars>>
  BY <1>2 DEF FlagsOK, jobVars
<1>3. CASE HalfPosted /\ UNCHANGED bubble
  BY <1>3 DEF FlagsOK, HalfPosted, Mark, jobVars
<1>4. CASE /\ confirming /= NoPart \/ pc \in {"finalize", "sync", "confirm"}
           /\ HalfFinalized
  BY <1>4 DEF FlagsOK, HalfFinalized, ShownInv
<1> QED
  BY <1>1, <1>2, <1>3, <1>4 DEF Interrupted

\* The flags keep their type, whoever steps.
LEMMA FlagsStep == TypeOK /\ [Next]_vars => FlagsOK'
<1> SUFFICES ASSUME TypeOK, [Next]_vars PROVE FlagsOK'
  OBVIOUS
<1> USE DEF TypeOK, FlagsOK
<1>1. CASE MessageCreated \/ RetryClicked \/ Delete
  BY <1>1 DEF MessageCreated, RetryClicked, Delete, Arrives, FreshRow,
    ledgerVars, taskVars, pollerVars, platformVars, chatwootVars, boundVars
<1>2. CASE TaskStep
  BY <1>2 DEF TaskStep, StartCancelled, StartReport, StartSync, StartResolve,
    EnterDeliver, MarkUnconfirmed, Dispatch, AckArrives, Refused, AckLost,
    Finalize, LockReport, NotifyStatus, PostNote, NotePosted, Settle, Report,
    At, Starts, CanStart, TakeNext, Finalized, Unlocked, Mark, NoRow, Charge,
    Settled, Retryable, jobVars, ledgerVars, pollerVars, platformVars,
    chatwootVars, boundVars
<1>3. CASE PollerStep
  BY <1>3 DEF PollerStep, EchoArrives, EchoFinalized, Finalized, NoRow,
    Resumed, jobVars, ledgerVars, taskVars, pollerVars, chatwootVars,
    boundVars
<1>4. CASE PlatformStep
  BY <1>4 DEF PlatformStep, Accept, Refuse, Lose, Answered, jobVars,
    ledgerVars, taskVars, pollerVars, chatwootVars, boundVars
<1>5. CASE StartOffline \/ ResolveConflict \/ ResolveFails \/ MarkFails
  BY <1>5 DEF StartOffline, ResolveConflict, ResolveFails, MarkFails, Report,
    At, Starts, CanStart, Fault, Mark, jobVars, ledgerVars, pollerVars,
    platformVars, chatwootVars
<1>6. CASE PrepareFails \/ DispatchFails \/ AckCommitFails \/ FloodWait
  BY <1>6 DEF PrepareFails, DispatchFails, AckCommitFails, FloodWait, Report,
    At, Fault, jobVars, ledgerVars, pollerVars, platformVars, chatwootVars
<1>7. CASE FinalizeFails
  BY <1>7 DEF FinalizeFails, At, Fault, HalfFinalized, Unlocked, ledgerVars,
    platformVars
<1>8. CASE NotifyStatusFails
  BY <1>8 DEF NotifyStatusFails, At, Fault, jobVars, ledgerVars, pollerVars,
    platformVars
<1>9. CASE PostNoteFails
  BY <1>9 DEF PostNoteFails, HalfPosted, At, Fault, Unlocked, Mark, jobVars,
    ledgerVars, platformVars
<1>10. CASE Timeout \/ SettleThenTimeout \/ EchoFinalizeFails \/ Crash
  BY <1>10 DEF Timeout, SettleThenTimeout, EchoFinalizeFails, Crash, At,
    Interrupted, HalfPosted, Mark, Fault, HalfFinalized, Unlocked, NoRow,
    Charge, Settled, jobVars, ledgerVars, taskVars, pollerVars, platformVars,
    chatwootVars
<1>11. CASE UNCHANGED vars
  BY <1>11 DEF vars, jobVars, ledgerVars, taskVars, pollerVars, platformVars,
    chatwootVars, boundVars
<1> QED
  BY <1>1, <1>2, <1>3, <1>4, <1>5, <1>6, <1>7, <1>8, <1>9, <1>10, <1>11 DEF Next, Mishap

\* The counters keep their type, whoever steps.
LEMMA CountersStep == TypeOK /\ [Next]_vars => CountersOK'
<1> SUFFICES ASSUME TypeOK, [Next]_vars PROVE CountersOK'
  OBVIOUS
<1> USE DEF TypeOK, CountersOK
<1>1. CASE MessageCreated \/ RetryClicked \/ Delete
  BY <1>1 DEF MessageCreated, RetryClicked, Delete, Arrives, FreshRow,
    ledgerVars, taskVars, pollerVars, platformVars, chatwootVars, boundVars
<1>2. CASE TaskStep
  BY <1>2 DEF TaskStep, StartCancelled, StartReport, StartSync, StartResolve,
    EnterDeliver, MarkUnconfirmed, Dispatch, AckArrives, Refused, AckLost,
    Finalize, LockReport, NotifyStatus, PostNote, NotePosted, Settle, Report,
    At, Starts, CanStart, TakeNext, Finalized, Unlocked, Mark, NoRow, Charge,
    Settled, Retryable, jobVars, ledgerVars, pollerVars, platformVars,
    chatwootVars, boundVars
<1>3. CASE PollerStep
  BY <1>3 DEF PollerStep, EchoArrives, EchoFinalized, Finalized, NoRow,
    Resumed, jobVars, ledgerVars, taskVars, pollerVars, chatwootVars,
    boundVars
<1>4. CASE PlatformStep
  BY <1>4 DEF PlatformStep, Accept, Refuse, Lose, Answered, jobVars,
    ledgerVars, taskVars, pollerVars, chatwootVars, boundVars
<1>5. CASE StartOffline \/ ResolveConflict \/ ResolveFails \/ MarkFails
  BY <1>5 DEF StartOffline, ResolveConflict, ResolveFails, MarkFails, Report,
    At, Starts, CanStart, Fault, Mark, jobVars, ledgerVars, pollerVars,
    platformVars, chatwootVars
<1>6. CASE PrepareFails \/ DispatchFails \/ AckCommitFails \/ FloodWait
  BY <1>6 DEF PrepareFails, DispatchFails, AckCommitFails, FloodWait, Report,
    At, Fault, jobVars, ledgerVars, pollerVars, platformVars, chatwootVars
<1>7. CASE FinalizeFails
  BY <1>7 DEF FinalizeFails, At, Fault, HalfFinalized, Unlocked, ledgerVars,
    platformVars
<1>8. CASE NotifyStatusFails
  BY <1>8 DEF NotifyStatusFails, At, Fault, jobVars, ledgerVars, pollerVars,
    platformVars
<1>9. CASE PostNoteFails
  <2>1. UNCHANGED attempts
    BY <1>9 DEF PostNoteFails, HalfPosted, Mark, jobVars
  <2> QED
    BY <1>9, <2>1 DEF PostNoteFails, Fault
<1>10. CASE Timeout \/ SettleThenTimeout \/ EchoFinalizeFails \/ Crash
  <2>1. UNCHANGED attempts \/ attempts' = attempts + 1 \/ attempts' = 0
    BY <1>10 DEF Timeout, SettleThenTimeout, EchoFinalizeFails, Crash,
      Interrupted, HalfPosted, HalfFinalized, Mark, NoRow, Charge, Settled,
      jobVars
  <2>2. webhooks' = webhooks /\ faults' = faults + 1
    BY <1>10 DEF Timeout, SettleThenTimeout, EchoFinalizeFails, Crash, Fault
  <2> QED
    BY <2>1, <2>2
<1>11. CASE UNCHANGED vars
  BY <1>11 DEF vars, jobVars, ledgerVars, taskVars, pollerVars, platformVars,
    chatwootVars, boundVars
<1> QED
  BY <1>1, <1>2, <1>3, <1>4, <1>5, <1>6, <1>7, <1>8, <1>9, <1>10, <1>11 DEF Next, Mishap

\* A report clears the in-flight set only of requests the platform does not
\* hold, so the ledger still accounts for every copy.
LEMMA LedgerReport == ASSUME IInv, LockReport PROVE LedgerInv'
<1>1. /\ inflight' \subseteq inflight
      /\ \A p \in inflight \ inflight' : p \notin net /\ copies[p] = 0
  BY DEF LockReport, IInv, TaskInv, Mark, At
<1>2. UNCHANGED <<saved, receipts, net, copies, echoes>>
  BY DEF LockReport, platformVars
<1>3. inflight' = inflight \/ inflight' = {}
  BY DEF LockReport, Mark, At
<1>4. CASE inflight' = inflight
  BY <1>2, <1>4 DEF IInv, LedgerInv
<1>5. CASE inflight' = {}
  <2>1. \A p \in Parts : copies[p] = 1 => p \in receipts
    BY <1>1, <1>5 DEF IInv, LedgerInv, Parts
  <2>2. net = {}
    BY <1>1, <1>5 DEF IInv, LedgerInv
  <2> QED
    BY <1>1, <1>2, <1>5, <2>1, <2>2 DEF IInv, LedgerInv, TypeOK
<1> QED
  BY <1>3, <1>4, <1>5

\* A native confirmation moves its part from the in-flight set to the
\* receipts, or finds it there.
LEMMA LedgerEcho ==
  ASSUME IInv, NEW p \in Parts, EchoArrives(p) PROVE LedgerInv'
<1>1. /\ copies[p] = 1 /\ p \notin net
      /\ UNCHANGED <<saved, net, copies>>
      /\ echoes' \subseteq echoes
  BY DEF EchoArrives, IInv, LedgerInv
<1>2. CASE UNCHANGED <<inflight, receipts>>
  BY <1>1, <1>2 DEF IInv, LedgerInv
<1>3. CASE /\ p \in inflight \union receipts
           /\ inflight' = inflight \ {p} /\ receipts' = receipts \union {p}
  <2>1. inflight' \union receipts' = inflight \union receipts
    BY <1>3
  <2>2. saved
    BY <1>3 DEF IInv, LedgerInv
  <2>3. /\ inflight' \intersect receipts' = {}
        /\ net' \subseteq inflight'
    BY <1>1, <1>3 DEF IInv, LedgerInv
  <2> QED
    BY <1>1, <1>3, <2>1, <2>2, <2>3 DEF IInv, LedgerInv
<1> QED
  BY <1>2, <1>3 DEF EchoArrives

\* The types after a native confirmation.
LEMMA TypeEcho ==
  ASSUME IInv, NEW p \in Parts, EchoArrives(p), FlagsOK', CountersOK'
  PROVE  TypeOK'
<1>1. inflight' \in SUBSET Parts /\ receipts' \in SUBSET Parts
  BY DEF EchoArrives, IInv, TypeOK
<1>2. jobStatus' \in {"none", "pending", "failed", "cancelled"}
  BY DEF EchoArrives, IInv, TypeOK, Resumed, jobVars
<1>3. /\ echoes' \in SUBSET Parts /\ confirming' \in Parts \union {NoPart}
      /\ lock' \in {"free", "task", "poller"}
  BY DEF EchoArrives, IInv, TypeOK, pollerVars
<1> QED
  BY <1>1, <1>2, <1>3 DEF EchoArrives, IInv, TypeOK, taskVars, chatwootVars

\* Every step of every actor preserves the inductive invariant.
LEMMA InvStep == IInv /\ [Next]_vars => IInv'
<1> SUFFICES ASSUME IInv, [Next]_vars PROVE IInv'
  OBVIOUS
<1>0. FlagsOK' /\ CountersOK'
  BY FlagsStep, CountersStep DEF IInv
<1> USE <1>0, ConstantsAssumption
    DEF IInv, TypeOK, PcType, ErrType, LedgerInv, TaskInv, ShownInv,
        CancelInv, Complete, IsNext, Parts, NoPart
<1>1. CASE MessageCreated
  <2>1. TypeOK'
    BY <1>1 DEF MessageCreated, Arrives, FreshRow, ledgerVars, taskVars,
        pollerVars, platformVars, chatwootVars
  <2>2. LedgerInv'
    BY <1>1 DEF MessageCreated, Arrives, FreshRow, ledgerVars, taskVars,
        pollerVars, platformVars, chatwootVars
  <2>3. TaskInv'
    BY <1>1 DEF MessageCreated, Arrives, FreshRow, ledgerVars, taskVars,
        pollerVars, platformVars, chatwootVars
  <2>4. ShownInv'
    BY <1>1 DEF MessageCreated, Arrives, FreshRow, ledgerVars, taskVars,
        pollerVars, platformVars, chatwootVars
  <2>5. CancelInv'
    BY <1>1 DEF MessageCreated, Arrives, FreshRow, ledgerVars, taskVars,
        pollerVars, platformVars, chatwootVars
  <2> QED
    BY <2>1, <2>2, <2>3, <2>4, <2>5
<1>2. CASE RetryClicked
  <2>1. TypeOK'
    BY <1>2 DEF RetryClicked, Arrives, FreshRow, ledgerVars, taskVars,
        pollerVars, platformVars, chatwootVars
  <2>2. LedgerInv'
    BY <1>2 DEF RetryClicked, Arrives, FreshRow, ledgerVars, taskVars,
        pollerVars, platformVars, chatwootVars
  <2>3. TaskInv'
    BY <1>2 DEF RetryClicked, Arrives, FreshRow, ledgerVars, taskVars,
        pollerVars, platformVars, chatwootVars
  <2>4. ShownInv'
    BY <1>2 DEF RetryClicked, Arrives, FreshRow, ledgerVars, taskVars,
        pollerVars, platformVars, chatwootVars
  <2>5. CancelInv'
    BY <1>2 DEF RetryClicked, Arrives, FreshRow, ledgerVars, taskVars,
        pollerVars, platformVars, chatwootVars
  <2> QED
    BY <2>1, <2>2, <2>3, <2>4, <2>5
<1>3. CASE Delete
  BY <1>3 DEF Delete, taskVars, pollerVars, platformVars, chatwootVars,
    boundVars
<1>4. CASE StartCancelled
  BY <1>4 DEF StartCancelled, At, Starts, CanStart, jobVars, ledgerVars,
    pollerVars, platformVars, chatwootVars
<1>5. CASE StartReport
  BY <1>5 DEF StartReport, At, Starts, CanStart, jobVars, ledgerVars,
    pollerVars, platformVars, chatwootVars
<1>6. CASE StartSync
  BY <1>6 DEF StartSync, At, Starts, CanStart, jobVars, ledgerVars,
    pollerVars, platformVars, chatwootVars
<1>7. CASE StartResolve
  BY <1>7 DEF StartResolve, At, Starts, CanStart, jobVars, ledgerVars,
    pollerVars, platformVars, chatwootVars
<1>8. CASE EnterDeliver
  <2>1. TypeOK'
    BY <1>8 DEF EnterDeliver, Report, At, jobVars, pollerVars, platformVars,
        chatwootVars, boundVars
  <2>2. LedgerInv'
    BY <1>8 DEF EnterDeliver, Report, At, jobVars, pollerVars, platformVars,
        chatwootVars, boundVars
  <2>3. TaskInv'
    BY <1>8 DEF EnterDeliver, Report, At, jobVars, pollerVars, platformVars,
        chatwootVars, boundVars
  <2>4. ShownInv'
    BY <1>8 DEF EnterDeliver, Report, At, jobVars, pollerVars, platformVars,
        chatwootVars, boundVars
  <2>5. CancelInv'
    BY <1>8 DEF EnterDeliver, Report, At, jobVars, pollerVars, platformVars,
        chatwootVars, boundVars
  <2> QED
    BY <2>1, <2>2, <2>3, <2>4, <2>5
<1>9. CASE MarkUnconfirmed
  BY <1>9 DEF MarkUnconfirmed, TakeNext, jobVars, ledgerVars, pollerVars,
    platformVars, boundVars
<1>10. CASE Dispatch
  BY <1>10 DEF Dispatch, jobVars, pollerVars, chatwootVars, boundVars
<1>11. CASE AckArrives
  BY <1>11 DEF AckArrives, TakeNext, jobVars, pollerVars, platformVars,
    chatwootVars, boundVars
<1>12. CASE Refused
  BY <1>12 DEF Refused, Report, At, jobVars, ledgerVars, pollerVars,
    platformVars, chatwootVars, boundVars
<1>13. CASE AckLost
  BY <1>13 DEF AckLost, Report, At, TakeNext, jobVars, ledgerVars, pollerVars,
    platformVars, chatwootVars, boundVars
<1>14. CASE Finalize
  BY <1>14 DEF Finalize, At, Finalized, Unlocked, NoRow, jobVars, ledgerVars,
    platformVars, boundVars
<1>15. CASE LockReport
  <2>1. TypeOK'
    BY <1>15 DEF LockReport, At, Mark, Retryable, jobVars, platformVars,
        chatwootVars, boundVars
  <2>2. LedgerInv'
    BY <1>15, LedgerReport
  <2>3. TaskInv'
    BY <1>15 DEF LockReport, At, Mark, Retryable, jobVars, platformVars,
        chatwootVars, boundVars
  <2>4. ShownInv'
    BY <1>15 DEF LockReport, At, Mark, Retryable, jobVars, platformVars,
        chatwootVars, boundVars
  <2>5. CancelInv'
    BY <1>15 DEF LockReport, At, Mark, Retryable, jobVars, platformVars,
        chatwootVars, boundVars
  <2> QED
    BY <2>1, <2>2, <2>3, <2>4, <2>5
<1>16. CASE NotifyStatus
  BY <1>16 DEF NotifyStatus, jobVars, ledgerVars, pollerVars, platformVars,
    boundVars
<1>17. CASE PostNote
  BY <1>17 DEF PostNote, NotePosted, Unlocked, Mark, jobVars, ledgerVars,
    platformVars, boundVars
<1>18. CASE Settle
  BY <1>18 DEF Settle, At, NoRow, Charge, Settled, ledgerVars, pollerVars,
    platformVars, chatwootVars, boundVars
<1>19. CASE EchoFinalized
  BY <1>19 DEF EchoFinalized, Finalized, NoRow, ledgerVars, taskVars,
    boundVars
<1>20. CASE StartOffline
  BY <1>20 DEF StartOffline, At, Starts, CanStart, Fault, jobVars, ledgerVars,
    pollerVars, platformVars, chatwootVars
<1>21. CASE ResolveConflict
  BY <1>21 DEF ResolveConflict, At, Fault, Mark, ledgerVars, pollerVars,
    platformVars, chatwootVars
<1>22. CASE ResolveFails
  BY <1>22 DEF ResolveFails, Report, At, Fault, jobVars, ledgerVars,
    pollerVars, platformVars, chatwootVars
<1>23. CASE MarkFails
  BY <1>23 DEF MarkFails, Report, At, Fault, jobVars, ledgerVars, pollerVars,
    platformVars
<1>24. CASE PrepareFails
  BY <1>24 DEF PrepareFails, Report, At, Fault, jobVars, ledgerVars,
    pollerVars, platformVars, chatwootVars
<1>25. CASE DispatchFails
  BY <1>25 DEF DispatchFails, Report, At, Fault, jobVars, pollerVars,
    platformVars, chatwootVars
<1>26. CASE AckCommitFails
  BY <1>26 DEF AckCommitFails, Report, At, Fault, jobVars, ledgerVars,
    pollerVars, platformVars, chatwootVars
<1>27. CASE FloodWait
  BY <1>27 DEF FloodWait, Report, At, Fault, jobVars, ledgerVars, pollerVars,
    platformVars, chatwootVars
<1>28. CASE FinalizeFails
  BY <1>28 DEF FinalizeFails, At, Fault, HalfFinalized, Unlocked, ledgerVars,
    platformVars
<1>29. CASE NotifyStatusFails
  BY <1>29 DEF NotifyStatusFails, At, Fault, jobVars, ledgerVars, pollerVars,
    platformVars
<1>30. CASE PostNoteFails
  BY <1>30 DEF PostNoteFails, HalfPosted, At, Fault, Unlocked, Mark, jobVars,
    ledgerVars, platformVars
<1>31. CASE Timeout
  BY <1>31, InterruptedKeeps DEF Timeout, At, Fault, Unlocked, ledgerVars,
    platformVars
<1>32. CASE SettleThenTimeout
  BY <1>32 DEF SettleThenTimeout, At, Fault, NoRow, Charge, Settled,
    ledgerVars, pollerVars, platformVars, chatwootVars
<1>33. CASE EchoFinalizeFails
  BY <1>33 DEF EchoFinalizeFails, Fault, HalfFinalized, ledgerVars, taskVars,
    platformVars
<1>34. CASE Crash
  BY <1>34, InterruptedKeeps DEF Crash, At, Fault, ledgerVars, platformVars
<1>35. ASSUME NEW p \in Parts, EchoArrives(p) PROVE IInv'
  <2>1. TypeOK'
    BY <1>35, TypeEcho
  <2>2. LedgerInv'
    BY <1>35, LedgerEcho
  <2>3. TaskInv'
    BY <1>35 DEF EchoArrives, Resumed, jobVars, taskVars, pollerVars,
        chatwootVars, boundVars
  <2>4. ShownInv'
    BY <1>35 DEF EchoArrives, Resumed, jobVars, taskVars, pollerVars,
        chatwootVars, boundVars
  <2>5. CancelInv'
    BY <1>35 DEF EchoArrives, Resumed, jobVars, taskVars, pollerVars,
        chatwootVars, boundVars
  <2> QED
    BY <2>1, <2>2, <2>3, <2>4, <2>5
<1>36. ASSUME NEW p \in Parts, Accept(p) PROVE IInv'
  BY <1>36 DEF Accept, Answered, jobVars, ledgerVars, pollerVars,
    chatwootVars, boundVars
<1>37. ASSUME NEW p \in Parts, Refuse(p) PROVE IInv'
  BY <1>37 DEF Refuse, Answered, jobVars, ledgerVars, pollerVars,
    chatwootVars, boundVars
<1>38. ASSUME NEW p \in Parts, Lose(p) PROVE IInv'
  BY <1>38 DEF Lose, jobVars, ledgerVars, taskVars, pollerVars, chatwootVars,
    boundVars
<1>39. CASE UNCHANGED vars
  BY <1>39 DEF vars, jobVars, ledgerVars, taskVars, pollerVars, platformVars,
    chatwootVars, boundVars
<1> QED
  BY <1>1, <1>2, <1>3, <1>4, <1>5, <1>6, <1>7, <1>8, <1>9, <1>10, <1>11,
     <1>12, <1>13, <1>14, <1>15, <1>16, <1>17, <1>18, <1>19, <1>20, <1>21,
     <1>22, <1>23, <1>24, <1>25, <1>26, <1>27, <1>28, <1>29, <1>30, <1>31,
     <1>32, <1>33, <1>34, <1>35, <1>36, <1>37, <1>38, <1>39
    DEF Next, TaskStep, PollerStep, PlatformStep, Mishap

LEMMA InvInit == Init => IInv
<1> SUFFICES ASSUME Init PROVE IInv
  OBVIOUS
<1> USE DEF Init
<1>1. FlagsOK /\ CountersOK
  BY DEF FlagsOK, CountersOK
<1>2. TypeOK
  BY <1>1 DEF TypeOK, PcType, ErrType, Parts, NoPart
<1>3. LedgerInv /\ TaskInv
  BY DEF LedgerInv, TaskInv
<1>4. ShownInv /\ CancelInv
  BY DEF ShownInv, CancelInv, NoPart
<1> QED
  BY <1>2, <1>3, <1>4 DEF IInv

\* The inductive invariant holds in every reachable state.
THEOREM Invariance == Spec => []IInv
BY InvInit, InvStep, PTL DEF Spec

-------------------------------------------------------------------------------
(* The safety properties.                                                  *)

\* Type correctness.
THEOREM TypeCorrect == Spec => []TypeOK
<1>1. IInv => TypeOK
  BY DEF IInv
<1> QED
  BY <1>1, Invariance, PTL

\* The customer never receives a part twice.
THEOREM DeliveredAtMostOnce == Spec => []AtMostOnce
<1>1. IInv => AtMostOnce
  BY DEF IInv, LedgerInv, AtMostOnce
<1> QED
  BY <1>1, Invariance, PTL

\* A message shown as sent has reached the customer in full.
THEOREM SentMeansDelivered == Spec => []SentIsTruthful
<1>1. IInv => SentIsTruthful
  BY DEF IInv, LedgerInv, ShownInv, Complete, SentIsTruthful
<1> QED
  BY <1>1, Invariance, PTL

\* No part overtakes an earlier one.
THEOREM PartsInOrder == Spec => []DeliveredInOrder
<1>1. IInv => DeliveredInOrder
  <2> SUFFICES ASSUME IInv, NEW p \in Parts, NEW q \in Parts, q < p,
                      p \in net \/ copies[p] > 0
               PROVE  copies[q] > 0
    BY DEF DeliveredInOrder
  <2>1. p \in inflight \union receipts
    BY DEF IInv, LedgerInv
  <2>2. copies[q] = 1
    BY <2>1 DEF IInv, LedgerInv
  <2> QED
    BY <2>2
<1> QED
  BY <1>1, Invariance, PTL

-------------------------------------------------------------------------------
(* Action properties.                                                      *)

\* The steps that may shrink the in-flight set are an acknowledgement, a
\* report and a native confirmation.
LEMMA InflightGrows ==
  ASSUME [Next]_vars, ~AckArrives, ~LockReport,
         \A p \in Parts : ~EchoArrives(p)
  PROVE  inflight \subseteq inflight'
BY DEF Next, TaskStep, PollerStep, PlatformStep, Mishap, vars, MessageCreated,
  RetryClicked, Delete, StartCancelled, StartReport, StartSync, StartResolve,
  EnterDeliver, MarkUnconfirmed, Dispatch, Refused, AckLost, Finalize,
  NotifyStatus, PostNote, Settle, EchoFinalized, Accept, Refuse, Lose,
  StartOffline, ResolveConflict, ResolveFails, MarkFails, PrepareFails,
  DispatchFails, AckCommitFails, FloodWait, FinalizeFails, NotifyStatusFails,
  PostNoteFails, Timeout, SettleThenTimeout, EchoFinalizeFails, Crash,
  Arrives, Report, At, Starts, CanStart, Fault, TakeNext, Finalized,
  HalfFinalized, HalfPosted, Interrupted, Unlocked, Mark, NoRow, FreshRow,
  Charge, Settled, Answered, jobVars, ledgerVars, taskVars, pollerVars, platformVars, chatwootVars,
  boundVars

\* A part of unknown outcome is settled by a receipt, or forgotten when the
\* platform cannot deliver it any more.
THEOREM UncertaintyIsKept == Spec => UncertaintyKept
<1> DEFINE Kept == \A p \in inflight \ inflight' :
                     p \in receipts' \/ (p \notin net /\ copies[p] = 0)
<1>1. IInv /\ [Next]_vars => [Kept]_vars
  <2> SUFFICES ASSUME IInv, [Next]_vars PROVE Kept
    OBVIOUS
  <2>1. CASE AckArrives
    BY <2>1 DEF AckArrives
  <2>2. CASE LockReport
    BY <2>2 DEF LockReport, IInv, TaskInv, At, Mark
  <2>3. ASSUME NEW p \in Parts, EchoArrives(p) PROVE Kept
    BY <2>3 DEF EchoArrives
  <2> QED
    BY <2>1, <2>2, <2>3, InflightGrows
<1> QED
  BY <1>1, Invariance, PTL DEF Spec, UncertaintyKept

\* Only the dispatch of a part adds a request to the network.
LEMMA OnlyDispatchSends ==
  ASSUME [Next]_vars, ~Dispatch PROVE net' \subseteq net
BY DEF Next, TaskStep, PollerStep, PlatformStep, Mishap, vars, MessageCreated,
  RetryClicked, Delete, StartCancelled, StartReport, StartSync, StartResolve,
  EnterDeliver, MarkUnconfirmed, AckArrives, Refused, AckLost, Finalize,
  LockReport, NotifyStatus, PostNote, Settle, EchoArrives, EchoFinalized,
  Accept, Refuse, Lose, StartOffline, ResolveConflict, ResolveFails,
  MarkFails, PrepareFails, DispatchFails, AckCommitFails, FloodWait,
  FinalizeFails, NotifyStatusFails, PostNoteFails, Timeout, SettleThenTimeout,
  EchoFinalizeFails, Crash, Arrives, Report, At, Starts, CanStart, Fault,
  TakeNext, Finalized, HalfFinalized, Unlocked, Mark, NoRow, FreshRow, Charge,
  Settled, Answered, Resumed, Retryable, jobVars, ledgerVars, taskVars,
  pollerVars, platformVars, chatwootVars, boundVars

\* Nothing is sent for a message whose deletion is recorded.
THEOREM CancelledIsSilent == Spec => NoSendAfterCancel
<1> DEFINE Silent == cancelled \/ jobStatus = "cancelled" => net' \subseteq net
<1>1. IInv /\ [Next]_vars => [Silent]_vars
  <2> SUFFICES ASSUME IInv, [Next]_vars PROVE Silent
    OBVIOUS
  <2>1. CASE Dispatch
    BY <2>1 DEF Dispatch, IInv, CancelInv
  <2>2. CASE ~Dispatch
    BY <2>2, OnlyDispatchSends
  <2> QED
    BY <2>1, <2>2
<1> QED
  BY <1>1, Invariance, PTL DEF Spec, NoSendAfterCancel

-------------------------------------------------------------------------------
(* The failure note and the late errors.                                   *)

\* Nothing takes a receipt back: a complete message stays complete.
LEMMA CompleteStays ==
  ASSUME IInv, [Next]_vars PROVE Complete => Complete'
<1>1. receipts' \subseteq Parts
  BY InvStep DEF IInv, TypeOK
<1>2. CASE EnterDeliver
  BY <1>2 DEF EnterDeliver, Complete
<1>3. CASE AckArrives
  BY <1>1, <1>3 DEF AckArrives, Complete
<1>4. ASSUME NEW p \in Parts, EchoArrives(p) PROVE Complete => Complete'
  <2>1. receipts \subseteq receipts' /\ UNCHANGED saved
    BY <1>4 DEF EchoArrives
  <2> QED
    BY <1>1, <2>1 DEF Complete
<1>5. CASE ~(EnterDeliver \/ AckArrives \/ \E p \in Parts : EchoArrives(p))
  <2>1. UNCHANGED <<saved, receipts>>
    BY <1>5 DEF Next, TaskStep, PollerStep, PlatformStep, Mishap, vars,
      MessageCreated, RetryClicked, Delete, StartCancelled, StartReport,
      StartSync, StartResolve, MarkUnconfirmed, Dispatch, Refused, AckLost,
      Finalize, LockReport, NotifyStatus, PostNote, Settle, EchoFinalized,
      Accept, Refuse, Lose, StartOffline, ResolveConflict, ResolveFails,
      MarkFails, PrepareFails, DispatchFails, AckCommitFails, FloodWait,
      FinalizeFails, NotifyStatusFails, PostNoteFails, Timeout,
      SettleThenTimeout, EchoFinalizeFails, Crash, Arrives, Starts, ledgerVars
  <2> QED
    BY <2>1 DEF Complete
<1> QED
  BY <1>2, <1>3, <1>4, <1>5

\* A note that is posted is remembered by the row, if there is one.
LEMMA PostedNotes ==
  ASSUME IInv, NoteInv, RowInv, pc = "note", NotePosted \/ HalfPosted
  PROVE  /\ UNCHANGED jobStatus /\ (jobStatus = "none" => ~noted')
         /\ note' /\ ~cancelled => noted'
         /\ cancelled => confirming = NoPart /\ bubble /= "sent"
<1> USE DEF IInv, TypeOK, FlagsOK, NoteInv, RowInv
<1>1. cancelled => confirming = NoPart /\ bubble /= "sent"
  BY DEF ShownInv
<1>2. ~cancelled => jobStatus /= "none"
  OBVIOUS
<1>3. CASE UNCHANGED <<note, jobVars>>
  BY <1>1, <1>3 DEF jobVars
<1>4. CASE Mark(FALSE, TRUE)
  <2>1. UNCHANGED jobStatus /\ noted' = (noted \/ jobStatus /= "none")
    BY <1>4 DEF Mark
  <2> QED
    BY <1>1, <1>2, <2>1
<1> QED
  BY <1>3, <1>4 DEF NotePosted, HalfPosted

\* What becomes of the note and the row when a call to Chatwoot is interrupted.
LEMMA InterruptedNotes ==
  ASSUME IInv, NoteInv, RowInv,
         Interrupted \/ (confirming /= NoPart /\ HalfFinalized)
  PROVE  /\ UNCHANGED jobStatus /\ (jobStatus = "none" => ~noted')
         /\ note' /\ ~cancelled => noted'
         /\ note' /\ cancelled /\ jobStatus /= "cancelled" =>
               confirming = NoPart /\ bubble' /= "sent"
<1> USE DEF IInv, TypeOK, FlagsOK, NoteInv, RowInv
<1>1. CASE UNCHANGED <<jobVars, chatwootVars>>
  BY <1>1 DEF jobVars, chatwootVars
<1>2. CASE pc \in {"mark", "notify"} /\ bubble' = "failed"
           /\ UNCHANGED <<note, jobVars>>
  BY <1>2 DEF jobVars
<1>3. CASE pc = "note" /\ HalfPosted /\ UNCHANGED bubble
  BY <1>3, PostedNotes
<1>4. CASE /\ confirming /= NoPart \/ ~cancelled
           /\ HalfFinalized
  BY <1>4 DEF HalfFinalized
<1> QED
  BY <1>1, <1>2, <1>3, <1>4 DEF Interrupted

LEMMA NoteStep ==
  ASSUME IInv, NoteInv, RowInv, [Next]_vars PROVE NoteInv' /\ RowInv'
<1>0. /\ Complete => Complete'
      /\ IInv'
  BY CompleteStays, InvStep
<1> USE <1>0, ConstantsAssumption DEF IInv, NoteInv, RowInv
<1>1. CASE MessageCreated \/ RetryClicked \/ Delete
  BY <1>1 DEF MessageCreated, RetryClicked, Delete, Arrives, FreshRow,
    ledgerVars, taskVars, pollerVars, platformVars, chatwootVars, Complete,
    CancelInv, TypeOK, FlagsOK
<1>2. CASE StartCancelled \/ StartReport \/ StartSync \/ StartResolve \/ StartOffline
  BY <1>2 DEF StartCancelled, StartReport, StartSync, StartResolve,
    StartOffline, At, Starts, CanStart, jobVars, ledgerVars, pollerVars,
    platformVars, chatwootVars, Complete
<1>3. CASE EnterDeliver
  BY <1>3 DEF EnterDeliver, Report, At, jobVars, pollerVars, platformVars,
    chatwootVars, boundVars
<1>4. CASE MarkUnconfirmed \/ MarkFails
  BY <1>4 DEF MarkUnconfirmed, MarkFails, Report, At, TakeNext, jobVars,
    ledgerVars, pollerVars, Complete
<1>5. CASE \/ ResolveConflict \/ ResolveFails \/ PrepareFails \/ Dispatch
           \/ DispatchFails \/ AckArrives \/ AckCommitFails
  BY <1>5 DEF ResolveConflict, ResolveFails, PrepareFails, Dispatch,
    DispatchFails, AckArrives, AckCommitFails, Report, At, Mark, TakeNext,
    jobVars, ledgerVars, pollerVars, chatwootVars, CancelInv, TypeOK, FlagsOK
<1>6. CASE Refused \/ AckLost \/ FloodWait
  BY <1>6 DEF Refused, AckLost, FloodWait, Report, At, TakeNext, jobVars,
    ledgerVars, pollerVars, chatwootVars
<1>7. CASE Finalize \/ FinalizeFails
  BY <1>7 DEF Finalize, FinalizeFails, Finalized, HalfFinalized, NoRow, At,
    Unlocked, ledgerVars, jobVars, TypeOK, FlagsOK, ShownInv, Complete
<1>8. CASE LockReport
  BY <1>8 DEF LockReport, At, Mark, jobVars, chatwootVars, TypeOK, FlagsOK,
    CancelInv, Complete
<1>9. CASE NotifyStatus \/ NotifyStatusFails
  BY <1>9 DEF NotifyStatus, NotifyStatusFails, At, jobVars, ledgerVars,
    pollerVars, Complete, ShownInv
<1>10. CASE PostNote \/ PostNoteFails
  <2>1. /\ pc = "note" /\ (NotePosted \/ HalfPosted)
        /\ pc' = "settle" /\ err' \in {err, "retry"} /\ Unlocked
        /\ UNCHANGED <<ledgerVars, confirming, bubble>>
    BY <1>10 DEF PostNote, PostNoteFails, HalfPosted, At
  <2>2. /\ UNCHANGED <<jobStatus, cancelled>> /\ (jobStatus = "none" => ~noted')
        /\ note' /\ ~cancelled => noted'
        /\ cancelled => confirming = NoPart /\ bubble /= "sent"
    BY <2>1, PostedNotes DEF ledgerVars
  <2>3. NoteInv'
    BY <2>1, <2>2 DEF Unlocked
  <2>4. RowInv'
    BY <2>1, <2>2
  <2> QED
    BY <2>3, <2>4
<1>11. CASE Settle \/ SettleThenTimeout
  BY <1>11 DEF Settle, SettleThenTimeout, Settled, NoRow, Charge, At,
    ledgerVars, pollerVars, chatwootVars, TypeOK, FlagsOK, Complete, CancelInv
<1>12. CASE Timeout
  <2>1. /\ Interrupted /\ pc \notin {"idle", "settle"}
        /\ pc' = "wantLock" /\ UNCHANGED <<cancelled, confirming>> /\ Unlocked
    BY <1>12 DEF Timeout, At, ledgerVars
  <2>2. /\ UNCHANGED jobStatus /\ (jobStatus = "none" => ~noted')
        /\ note' /\ ~cancelled => noted'
        /\ note' /\ cancelled /\ jobStatus /= "cancelled" =>
              confirming = NoPart /\ bubble' /= "sent"
    BY <2>1, InterruptedNotes
  <2>3. ~cancelled /\ jobStatus = "none" => Complete
    BY <2>1 DEF TypeOK, PcType, ShownInv
  <2>4. RowInv'
    BY <2>1, <2>2, <2>3
  <2>5. NoteInv'
    BY <2>1, <2>2 DEF Unlocked
  <2> QED
    BY <2>4, <2>5
<1>13. CASE Crash
  <2>1. /\ Interrupted \/ (confirming /= NoPart /\ HalfFinalized)
        /\ pc' = "idle" /\ confirming' = NoPart /\ lock' = "free"
        /\ UNCHANGED cancelled
    BY <1>13 DEF Crash, At, ledgerVars
  <2>2. /\ UNCHANGED jobStatus /\ (jobStatus = "none" => ~noted')
        /\ note' /\ ~cancelled => noted'
        /\ note' /\ cancelled /\ jobStatus /= "cancelled" => bubble' /= "sent"
    BY <2>1, InterruptedNotes
  <2>3. RowInv'
    BY <2>1
  <2>4. NoteInv'
    BY <2>1, <2>2
  <2> QED
    BY <2>3, <2>4
<1>14. ASSUME NEW p \in Parts, EchoArrives(p) PROVE NoteInv' /\ RowInv'
  BY <1>14 DEF EchoArrives, Resumed, jobVars, taskVars, pollerVars,
    chatwootVars, NoPart, Parts, TypeOK, FlagsOK
<1>15. CASE EchoFinalized \/ EchoFinalizeFails
  BY <1>15 DEF EchoFinalized, EchoFinalizeFails, Finalized, HalfFinalized,
    NoRow, ledgerVars, taskVars, TypeOK, FlagsOK, ShownInv
<1>16. CASE PlatformStep
  <2>1. UNCHANGED <<jobVars, ledgerVars, pc, err, pollerVars, chatwootVars>>
    BY <1>16 DEF PlatformStep, Accept, Refuse, Lose, taskVars
  <2> QED
    BY <2>1 DEF jobVars, ledgerVars, pollerVars, chatwootVars, Complete
<1>17. CASE UNCHANGED vars
  BY <1>17 DEF vars, jobVars, ledgerVars, taskVars, pollerVars, chatwootVars,
    Complete
<1> QED
  BY <1>1, <1>2, <1>3, <1>4, <1>5, <1>6, <1>7, <1>8, <1>9, <1>10, <1>11,
     <1>12, <1>13, <1>14, <1>15, <1>16, <1>17
    DEF Next, TaskStep, PollerStep, Mishap

\* Once the job is gone and the message is shown as sent, no note still tells
\* the agent that its delivery failed.
THEOREM NoNoteStays == Spec => []NoStaleNote
<1>1. Init => IInv /\ NoteInv /\ RowInv
  BY InvInit DEF Init, NoteInv, RowInv, NoPart
<1>2. IInv /\ NoteInv /\ RowInv /\ [Next]_vars => (IInv /\ NoteInv /\ RowInv)'
  BY InvStep, NoteStep
<1>3. IInv /\ NoteInv /\ RowInv => NoStaleNote
  BY DEF NoteInv, NoStaleNote
<1> QED
  BY <1>1, <1>2, <1>3, PTL DEF Spec


\* While a message is marked, or reported as failed, its ledger stays
\* incomplete: no confirmation is handled in between.
LockedInv ==
    /\ pc = "mark" => ~Complete
    /\ pc = "notify" => lock = "task" /\ ~Complete

\* The two failures that are reported without the message lock.
ReportsLocked == "offline" \notin Failures /\ "conflict" \notin Failures

LEMMA LockedStep ==
  ASSUME ReportsLocked, IInv, LockedInv, [Next]_vars PROVE LockedInv'
<1> USE DEF LockedInv
<1>1. CASE MessageCreated \/ RetryClicked \/ Delete
  <2>1. UNCHANGED <<pc, lock, saved, receipts>>
    BY <1>1 DEF MessageCreated, RetryClicked, Delete, Arrives, ledgerVars,
      taskVars, pollerVars
  <2> QED
    BY <2>1 DEF Complete
<1>2. CASE StartCancelled \/ StartReport \/ StartSync \/ StartResolve
  BY <1>2 DEF StartCancelled, StartReport, StartSync, StartResolve, At, Starts
<1>3. CASE StartOffline \/ ResolveConflict
  BY <1>3 DEF StartOffline, ResolveConflict, Fault, ReportsLocked
<1>4. CASE EnterDeliver
  <2>1. CASE pc' = "mark"
    <3>1. ~Complete /\ UNCHANGED receipts
      BY <1>4, <2>1 DEF EnterDeliver, Report, At
    <3>2. receipts /= Parts
      <4>1. ~saved => receipts = {}
        BY DEF IInv, LedgerInv
      <4>2. 1 \in Parts
        BY ConstantsAssumption DEF Parts
      <4> QED
        BY <3>1, <4>1, <4>2 DEF Complete
    <3>3. pc' /= "notify"
      BY <2>1
    <3> QED
      BY <3>1, <3>2, <3>3 DEF Complete
  <2> QED
    BY <1>4, <2>1 DEF EnterDeliver, Report, At
<1>5. CASE \/ MarkUnconfirmed \/ MarkFails \/ ResolveFails \/ PrepareFails
           \/ Dispatch \/ DispatchFails \/ AckArrives \/ AckCommitFails
           \/ Refused \/ AckLost \/ FloodWait
  BY <1>5 DEF MarkUnconfirmed, MarkFails, ResolveFails, PrepareFails, Dispatch,
    DispatchFails, AckArrives, AckCommitFails, Refused, AckLost, FloodWait,
    Report, At, TakeNext
<1>6. CASE \/ Finalize \/ FinalizeFails \/ NotifyStatus \/ NotifyStatusFails
           \/ PostNote \/ PostNoteFails \/ Settle \/ SettleThenTimeout
           \/ Timeout \/ Crash
  BY <1>6 DEF Finalize, FinalizeFails, NotifyStatus, NotifyStatusFails,
    PostNote, PostNoteFails, Settle, SettleThenTimeout, Timeout, Crash, At
<1>7. CASE LockReport
  BY <1>7 DEF LockReport, At, Complete
<1>8. ASSUME NEW p \in Parts, EchoArrives(p) PROVE LockedInv'
  <2>1. /\ lock = "free" /\ UNCHANGED <<pc, saved>>
        /\ receipts' = receipts \/ p \in inflight \union receipts
        /\ receipts' \in {receipts, receipts \union {p}}
    BY <1>8 DEF EchoArrives, taskVars
  <2>2. pc = "mark" => inflight = {}
    BY DEF IInv, TaskInv
  <2> QED
    BY <2>1, <2>2 DEF Complete
<1>9. CASE EchoFinalized \/ EchoFinalizeFails
  <2>1. /\ confirming /= NoPart /\ UNCHANGED <<pc, saved, receipts>>
    BY <1>9 DEF EchoFinalized, EchoFinalizeFails, taskVars, ledgerVars
  <2>2. Complete
    BY <2>1 DEF IInv, ShownInv
  <2> QED
    BY <2>1, <2>2
<1>10. CASE PlatformStep
  <2>1. UNCHANGED <<pc, lock, saved, receipts>>
    BY <1>10 DEF PlatformStep, Accept, Refuse, Lose, taskVars, pollerVars,
      ledgerVars
  <2> QED
    BY <2>1 DEF Complete
<1>11. CASE UNCHANGED vars
  BY <1>11 DEF vars, taskVars, pollerVars, ledgerVars, Complete
<1> QED
  BY <1>1, <1>2, <1>3, <1>4, <1>5, <1>6, <1>7, <1>8, <1>9, <1>10, <1>11
    DEF Next, TaskStep, PollerStep, Mishap

\* Only a mark and a report take "sent" back.
LEMMA OnlyReportsUnsend ==
  ASSUME [Next]_vars, pc \notin {"mark", "notify"}, bubble = "sent"
  PROVE  bubble' = "sent"
BY DEF Next, TaskStep, PollerStep, PlatformStep, Mishap, vars, MessageCreated,
  RetryClicked, Delete, StartCancelled, StartReport, StartSync, StartResolve,
  EnterDeliver, MarkUnconfirmed, Dispatch, AckArrives, Refused, AckLost,
  Finalize, LockReport, NotifyStatus, PostNote, Settle, EchoArrives,
  EchoFinalized, Accept, Refuse, Lose, StartOffline, ResolveConflict,
  ResolveFails, MarkFails, PrepareFails, DispatchFails, AckCommitFails,
  FloodWait, FinalizeFails, NotifyStatusFails, PostNoteFails, Timeout,
  SettleThenTimeout, EchoFinalizeFails, Crash, Arrives, Starts, Finalized,
  HalfFinalized, HalfPosted, Interrupted, chatwootVars

\* A late error never overwrites a confirmed send, as long as every failure is
\* reported under the message lock; the two that are not break it.
THEOREM LateErrorsLose == ReportsLocked => (Spec => SentStays)
<1> SUFFICES ASSUME ReportsLocked PROVE Spec => SentStays
  OBVIOUS
<1>1. Init => IInv /\ LockedInv
  BY InvInit DEF Init, LockedInv
<1>2. IInv /\ LockedInv /\ [Next]_vars => (IInv /\ LockedInv)'
  BY InvStep, LockedStep
<1>3. IInv /\ LockedInv /\ [Next]_vars => [bubble = "sent" => bubble' = "sent"]_vars
  <2> SUFFICES ASSUME IInv, LockedInv, [Next]_vars, bubble = "sent"
               PROVE  bubble' = "sent"
    OBVIOUS
  <2>1. pc \notin {"mark", "notify"}
    BY DEF IInv, ShownInv, LockedInv
  <2> QED
    BY <2>1, OnlyReportsUnsend
<1> QED
  BY <1>1, <1>2, <1>3, PTL DEF Spec, SentStays

-------------------------------------------------------------------------------
(* Refinement.                                                             *)

\* The steps that neither send, nor reach the customer, nor change the bubble.
LEMMA OtherStepsStutter ==
  ASSUME [Next]_vars, ~Dispatch, ~PlatformStep,
         ~MarkUnconfirmed, ~MarkFails, ~NotifyStatus, ~NotifyStatusFails,
         ~Finalize, ~FinalizeFails, ~EchoFinalized, ~EchoFinalizeFails,
         ~Timeout, ~Crash
  PROVE  UNCHANGED <<net, copies, bubble>>
BY DEF Next, TaskStep, PollerStep, Mishap, vars, MessageCreated, RetryClicked,
  Delete, StartCancelled, StartReport, StartSync, StartResolve, EnterDeliver,
  AckArrives, Refused, AckLost, LockReport, PostNote, Settle, EchoArrives,
  StartOffline, ResolveConflict, ResolveFails, PrepareFails, DispatchFails,
  AckCommitFails, FloodWait, PostNoteFails, SettleThenTimeout,
  Arrives, Report, At, Starts, CanStart, Fault, TakeNext, Unlocked, Mark,
  NoRow, FreshRow, Charge, Settled, Resumed, Retryable, jobVars, ledgerVars,
  taskVars, pollerVars, platformVars, chatwootVars, boundVars

\* ConfirmedDelivery implements TruthfulDelivery: a dispatch offers a part,
\* the platform delivers or withdraws it, and the bubble is shown as sent
\* only for a complete ledger.
THEOREM Refinement == Spec => TruthfulSpec
<1>1. Init => Abstract!Init
  BY DEF Init, Abstract!Init, Abstract!Parts, Parts
<1>2. IInv /\ [Next]_vars => [Abstract!Next]_(Abstract!tdvars)
  <2> SUFFICES ASSUME IInv, [Next]_vars
               PROVE  Abstract!Next \/ UNCHANGED <<net, copies, bubble>>
    BY DEF Abstract!tdvars
  <2> USE DEF Abstract!Next, Abstract!Parts, Parts
  <2>1. CASE Dispatch
    <3>1. part \in Parts /\ part \notin net /\ copies[part] = 0
      BY <2>1 DEF Dispatch, IInv, LedgerInv, TaskInv, IsNext
    <3>2. \A q \in Parts : q < part => copies[q] = 1
      BY <2>1 DEF Dispatch, IInv, LedgerInv, TaskInv, IsNext
    <3>3. Abstract!Offer(part)
      BY <2>1, <3>1, <3>2 DEF Dispatch, Abstract!Offer, chatwootVars
    <3> QED
      BY <3>1, <3>3
  <2>2. ASSUME NEW p \in Parts, Accept(p) PROVE Abstract!Next
    <3>1. copies[p] = 0
      BY <2>2 DEF Accept, IInv, LedgerInv
    <3>2. Abstract!Deliver(p)
      BY <2>2, <3>1 DEF Accept, Abstract!Deliver, IInv, TypeOK, chatwootVars
    <3> QED
      BY <3>2
  <2>3. ASSUME NEW p \in Parts, Refuse(p) \/ Lose(p) PROVE Abstract!Next
    <3>1. Abstract!Withdraw(p)
      BY <2>3 DEF Refuse, Lose, Abstract!Withdraw, chatwootVars
    <3> QED
      BY <3>1
  <2>4. CASE MarkUnconfirmed \/ MarkFails \/ NotifyStatus \/ NotifyStatusFails
    BY <2>4 DEF MarkUnconfirmed, MarkFails, NotifyStatus, NotifyStatusFails,
      Abstract!ShowFailed, platformVars
  <2>5. CASE Finalize \/ FinalizeFails \/ EchoFinalized \/ EchoFinalizeFails
    <3>1. \A p \in Parts : copies[p] = 1
      BY <2>5 DEF Finalize, FinalizeFails, EchoFinalized, EchoFinalizeFails,
        IInv, LedgerInv, ShownInv, Complete
    <3>2. /\ bubble' = "sent" \/ bubble' = bubble
          /\ UNCHANGED <<net, copies>>
      BY <2>5 DEF Finalize, FinalizeFails, EchoFinalized, EchoFinalizeFails,
        Finalized, HalfFinalized, platformVars
    <3> QED
      BY <3>1, <3>2 DEF Abstract!ShowSent
  <2>6. CASE Timeout \/ Crash
    <3>1. /\ \/ bubble' = bubble \/ bubble' = "failed"
             \/ bubble' = "sent" /\ Complete
          /\ UNCHANGED <<net, copies>>
      BY <2>6, InterruptedKeeps DEF Timeout, Crash, IInv, TypeOK, platformVars
    <3>2. Complete => \A p \in Parts : copies[p] = 1
      BY DEF IInv, LedgerInv, Complete
    <3> QED
      BY <3>1, <3>2 DEF Abstract!ShowSent, Abstract!ShowFailed
  <2> QED
    BY <2>1, <2>2, <2>3, <2>4, <2>5, <2>6, OtherStepsStutter DEF PlatformStep
<1> QED
  BY <1>1, <1>2, Invariance, PTL DEF Spec, TruthfulSpec, Abstract!Spec

===============================================================================
