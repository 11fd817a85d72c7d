---------------------------- MODULE EnterpriseProofs ----------------------------
(***************************************************************************)
(* What EnterprisePartsProofs proves of the live conversations, the menus, *)
(* the settings and the documents holds of the composition that is         *)
(* model-checked: a step of one side leaves what belongs to the others as  *)
(* it was initialized.                                                     *)
(***************************************************************************)
EXTENDS MCEnterprise, TLAPS

SmsFiles == INSTANCE EnterprisePartsProofs WITH Syncs <- {"poll", "manual"},
                Creators <- {"operator"}, MaxSms <- 2, MaxInboxes <- 1, MaxEdits <- 1,
                MaxRows <- 3, Names <- {}, MaxChanges <- 0,
                Msgs <- {a1, a2}, MaxConvs <- 1, MaxOperator <- 1
InboxGroups == INSTANCE EnterprisePartsProofs WITH Syncs <- {"poll"},
                   Creators <- {"customer", "operator"}, MaxSms <- 1, MaxInboxes <- 2, MaxEdits <- 2,
                   MaxRows <- 1, Names <- {"x", "y"}, MaxChanges <- 3,
                   Msgs <- {b1}, MaxConvs <- 2, MaxOperator <- 2
Menus == INSTANCE EnterprisePartsProofs WITH Syncs <- {"poll"},
             Creators <- {"operator"}, MaxSms <- 1, MaxInboxes <- 1, MaxEdits <- 1,
             MaxRows <- 1, Names <- {}, MaxChanges <- 0,
             Msgs <- {b1}, MaxConvs <- 1, MaxOperator <- 1

----------------------------------------------------------------------------
(* The proofs' instances of the module are those of the composition: both  *)
(* definitions of each formula are the same once expanded.                 *)

\* Overlapping synchronizations.
LEMMA SmsProved ==
    /\ SmsFiles!SettingsInit <=> Sms!SettingsInit
    /\ SmsFiles!SettingsNext <=> Sms!SettingsNext
    /\ SmsFiles!NothingPassedOver <=> Sms!NothingPassedOver
    /\ SmsFiles!SmsRepeatsExcused <=> Sms!SmsRepeatsExcused
    /\ SmsFiles!SecondInboxIsRace <=> Sms!SecondInboxIsRace
    /\ SmsFiles!SettingsAssumption <=> Sms!SettingsAssumption
BY DEF
       SmsFiles!SettingsAssumption, Sms!SettingsAssumption, SmsFiles!Sms, Sms!Sms,
       SmsFiles!smsHistory, Sms!smsHistory, SmsFiles!NoSync, Sms!NoSync,
       SmsFiles!NoCreation, Sms!NoCreation, SmsFiles!SettingsInit, Sms!SettingsInit,
       SmsFiles!Written, Sms!Written, SmsFiles!SyncBegins, Sms!SyncBegins,
       SmsFiles!Unsent, Sms!Unsent, SmsFiles!SyncFetched, Sms!SyncFetched,
       SmsFiles!Dropped, Sms!Dropped, SmsFiles!SmsSent, Sms!SmsSent,
       SmsFiles!SyncSends, Sms!SyncSends, SmsFiles!SyncEnds, Sms!SyncEnds,
       SmsFiles!SyncAborts, Sms!SyncAborts, SmsFiles!Issued, Sms!Issued,
       SmsFiles!ConfigPatched, Sms!ConfigPatched, SmsFiles!CreationBegins,
       Sms!CreationBegins, SmsFiles!Found, Sms!Found, SmsFiles!InboxListed,
       Sms!InboxListed, SmsFiles!Linked, Sms!Linked, SmsFiles!InboxCreated,
       Sms!InboxCreated, SmsFiles!InboxRepaired, Sms!InboxRepaired,
       SmsFiles!CreationFails, Sms!CreationFails, SmsFiles!WebhookBroken,
       Sms!WebhookBroken, SmsFiles!Sync, Sms!Sync, SmsFiles!Creation, Sms!Creation,
       SmsFiles!SettingsNext, Sms!SettingsNext, SmsFiles!SmsRepeatsExcused,
       Sms!SmsRepeatsExcused, SmsFiles!NothingPassedOver, Sms!NothingPassedOver,
       SmsFiles!SecondInboxIsRace, Sms!SecondInboxIsRace

\* Overlapping creations of an inbox.
LEMMA InboxProved ==
    /\ InboxGroups!SettingsInit <=> Inbox!SettingsInit
    /\ InboxGroups!SettingsNext <=> Inbox!SettingsNext
    /\ InboxGroups!NothingPassedOver <=> Inbox!NothingPassedOver
    /\ InboxGroups!SmsRepeatsExcused <=> Inbox!SmsRepeatsExcused
    /\ InboxGroups!SecondInboxIsRace <=> Inbox!SecondInboxIsRace
    /\ InboxGroups!SettingsAssumption <=> Inbox!SettingsAssumption
BY DEF
       InboxGroups!SettingsAssumption, Inbox!SettingsAssumption, InboxGroups!Sms,
       Inbox!Sms, InboxGroups!smsHistory, Inbox!smsHistory, InboxGroups!NoSync,
       Inbox!NoSync, InboxGroups!NoCreation, Inbox!NoCreation,
       InboxGroups!SettingsInit, Inbox!SettingsInit, InboxGroups!Written,
       Inbox!Written, InboxGroups!SyncBegins, Inbox!SyncBegins, InboxGroups!Unsent,
       Inbox!Unsent, InboxGroups!SyncFetched, Inbox!SyncFetched, InboxGroups!Dropped,
       Inbox!Dropped, InboxGroups!SmsSent, Inbox!SmsSent, InboxGroups!SyncSends,
       Inbox!SyncSends, InboxGroups!SyncEnds, Inbox!SyncEnds, InboxGroups!SyncAborts,
       Inbox!SyncAborts, InboxGroups!Issued, Inbox!Issued, InboxGroups!ConfigPatched,
       Inbox!ConfigPatched, InboxGroups!CreationBegins, Inbox!CreationBegins,
       InboxGroups!Found, Inbox!Found, InboxGroups!InboxListed, Inbox!InboxListed,
       InboxGroups!Linked, Inbox!Linked, InboxGroups!InboxCreated, Inbox!InboxCreated,
       InboxGroups!InboxRepaired, Inbox!InboxRepaired, InboxGroups!CreationFails,
       Inbox!CreationFails, InboxGroups!WebhookBroken, Inbox!WebhookBroken,
       InboxGroups!Sync, Inbox!Sync, InboxGroups!Creation, Inbox!Creation,
       InboxGroups!SettingsNext, Inbox!SettingsNext, InboxGroups!SmsRepeatsExcused,
       Inbox!SmsRepeatsExcused, InboxGroups!NothingPassedOver, Inbox!NothingPassedOver,
       InboxGroups!SecondInboxIsRace, Inbox!SecondInboxIsRace

\* Documents.
LEMMA FilesProved ==
    /\ SmsFiles!AssetsInit <=> Files!AssetsInit
    /\ SmsFiles!AssetsNext <=> Files!AssetsNext
    /\ SmsFiles!ActiveIsReadable <=> Files!ActiveIsReadable
    /\ SmsFiles!GroupsConsistent <=> Files!GroupsConsistent
    /\ SmsFiles!AssetsAssumption <=> Files!AssetsAssumption
BY DEF
       SmsFiles!AssetsAssumption, Files!AssetsAssumption, SmsFiles!Uploads,
       Files!Uploads, SmsFiles!Threads, Files!Threads, SmsFiles!fileVars,
       Files!fileVars, SmsFiles!groupVars, Files!groupVars, SmsFiles!assetVars,
       Files!assetVars, SmsFiles!Gone, Files!Gone, SmsFiles!NoUpload, Files!NoUpload,
       SmsFiles!NoDeletion, Files!NoDeletion, SmsFiles!NoEdit, Files!NoEdit,
       SmsFiles!AssetsInit, Files!AssetsInit, SmsFiles!ActiveCatalogs,
       Files!ActiveCatalogs, SmsFiles!UploadBegins, Files!UploadBegins,
       SmsFiles!UploadCommits, Files!UploadCommits, SmsFiles!DeletionBegins,
       Files!DeletionBegins, SmsFiles!FileDeleted, Files!FileDeleted,
       SmsFiles!RowDeleted, Files!RowDeleted, SmsFiles!DeletionFails,
       Files!DeletionFails, SmsFiles!UploadFails, Files!UploadFails, SmsFiles!NoGroup,
       Files!NoGroup, SmsFiles!GroupIds, Files!GroupIds, SmsFiles!Named, Files!Named,
       SmsFiles!EditBegins, Files!EditBegins, SmsFiles!Allowed, Files!Allowed,
       SmsFiles!EditCommits, Files!EditCommits, SmsFiles!MemberRemoved,
       Files!MemberRemoved, SmsFiles!Documents, Files!Documents, SmsFiles!ManualGroups,
       Files!ManualGroups, SmsFiles!AssetsNext, Files!AssetsNext,
       SmsFiles!ActiveIsReadable, Files!ActiveIsReadable, SmsFiles!GroupsConsistent,
       Files!GroupsConsistent

\* Groups.
LEMMA GroupsProved ==
    /\ InboxGroups!AssetsInit <=> Files!AssetsInit
    /\ InboxGroups!AssetsNext <=> Groups!AssetsNext
    /\ InboxGroups!ActiveIsReadable <=> Files!ActiveIsReadable
    /\ InboxGroups!GroupsConsistent <=> Files!GroupsConsistent
    /\ InboxGroups!AssetsAssumption <=> Groups!AssetsAssumption
BY DEF
       InboxGroups!AssetsAssumption, Groups!AssetsAssumption, InboxGroups!Uploads,
       Groups!Uploads, InboxGroups!Threads, Groups!Threads, InboxGroups!fileVars,
       Groups!fileVars, InboxGroups!groupVars, Groups!groupVars, InboxGroups!assetVars,
       Groups!assetVars, InboxGroups!Gone, Groups!Gone, InboxGroups!NoUpload,
       Groups!NoUpload, InboxGroups!NoDeletion, Groups!NoDeletion, InboxGroups!NoEdit,
       Groups!NoEdit, InboxGroups!AssetsInit, Groups!AssetsInit,
       InboxGroups!ActiveCatalogs, Groups!ActiveCatalogs, InboxGroups!UploadBegins,
       Groups!UploadBegins, InboxGroups!UploadCommits, Groups!UploadCommits,
       InboxGroups!DeletionBegins, Groups!DeletionBegins, InboxGroups!FileDeleted,
       Groups!FileDeleted, InboxGroups!RowDeleted, Groups!RowDeleted,
       InboxGroups!DeletionFails, Groups!DeletionFails, InboxGroups!UploadFails,
       Groups!UploadFails, InboxGroups!NoGroup, Groups!NoGroup, InboxGroups!GroupIds,
       Groups!GroupIds, InboxGroups!Named, Groups!Named, InboxGroups!EditBegins,
       Groups!EditBegins, InboxGroups!Allowed, Groups!Allowed, InboxGroups!EditCommits,
       Groups!EditCommits, InboxGroups!MemberRemoved, Groups!MemberRemoved,
       InboxGroups!Documents, Groups!Documents, InboxGroups!ManualGroups,
       Groups!ManualGroups, InboxGroups!AssetsNext, Groups!AssetsNext,
       InboxGroups!ActiveIsReadable, Groups!ActiveIsReadable,
       InboxGroups!GroupsConsistent, Groups!GroupsConsistent,
       Files!AssetsInit, Files!NoUpload, Files!Uploads, Files!NoDeletion, Files!NoEdit,
       Files!Threads, Files!ActiveIsReadable, Files!ActiveCatalogs, Files!GroupsConsistent,
       Files!GroupIds, Files!NoGroup, Files!Gone

\* The live conversations behind the root menu alone: two messages.
LEMMA LiveProved ==
    /\ SmsFiles!LiveInit("root") <=> Live!LiveInit("root")
    /\ SmsFiles!LiveNext <=> Live!LiveNext
    /\ SmsFiles!RepeatsAreRetries <=> Live!RepeatsAreRetries
    /\ SmsFiles!LiveAssumption <=> Live!LiveAssumption
<1>1. \A S : SmsFiles!Cardinality(S) = Live!Cardinality(S)
    BY DEF
           SmsFiles!Cardinality, Live!Cardinality
<1>2. \A S, order : SmsFiles!First(S, order) = Live!First(S, order)
    BY DEF
           SmsFiles!First, Live!First
<1>3. \A hh : SmsFiles!Order(hh) = Live!Order(hh)
    BY <1>1 DEF
           SmsFiles!Ids, Live!Ids, SmsFiles!Order, Live!Order
<1>4. \A order : SmsFiles!Places(order) = Live!Places(order)
    BY <1>1 DEF
           SmsFiles!Places, Live!Places
<1>5. \A hh : SmsFiles!RouteSessionOf(hh) = Live!RouteSessionOf(hh)
    BY <1>2, <1>3 DEF
           SmsFiles!Ids, Live!Ids, SmsFiles!StatusOf, Live!StatusOf,
           SmsFiles!RouteSessionOf, Live!RouteSessionOf
<1>6. \A hh, c : SmsFiles!Reusing(hh, c) = Live!Reusing(hh, c)
    BY DEF
           SmsFiles!With, Live!With, SmsFiles!Load, Live!Load, SmsFiles!InboxOf,
           Live!InboxOf, SmsFiles!Creating, Live!Creating, SmsFiles!Verify, Live!Verify,
           SmsFiles!Reusing, Live!Reusing
<1>7. \A hh : SmsFiles!OpenRoute(hh) = Live!OpenRoute(hh)
    BY <1>6, <1>5 DEF
           SmsFiles!OpenRoute, Live!OpenRoute
<1>8. \A hh : SmsFiles!Forwardable(hh) = Live!Forwardable(hh)
    BY <1>7 DEF
           SmsFiles!Verify, Live!Verify, SmsFiles!Forwardable, Live!Forwardable
<1>9. \A hh, verified : SmsFiles!Chosen(hh, verified) = Live!Chosen(hh, verified)
    BY DEF
           SmsFiles!Live, Live!Live, SmsFiles!With, Live!With, SmsFiles!Save, Live!Save,
           SmsFiles!Entering, Live!Entering, SmsFiles!Chosen, Live!Chosen
<1>10. SmsFiles!ActiveSession = Live!ActiveSession
    BY <1>2 DEF
           SmsFiles!Live, Live!Live, SmsFiles!ActiveSession, Live!ActiveSession
<1>11. \A i : SmsFiles!Heard(i) = Live!Heard(i)
    BY DEF
           SmsFiles!NoHandler, Live!NoHandler, SmsFiles!With, Live!With, SmsFiles!Load,
           Live!Load, SmsFiles!Save, Live!Save, SmsFiles!Begin, Live!Begin,
           SmsFiles!Heard, Live!Heard
<1>12. \A hh, root : SmsFiles!Leaving(hh, root) = Live!Leaving(hh, root)
    BY DEF
           SmsFiles!Leaving, Live!Leaving
<1>13. \A hh : SmsFiles!Refusing(hh) = Live!Refusing(hh)
    BY DEF
           SmsFiles!Refusing, Live!Refusing
<1>13a. \A hh : SmsFiles!WritesSessions(hh) <=> Live!WritesSessions(hh)
    BY ZenonT(60), <1>3, <1>4 DEF
           SmsFiles!Ids, Live!Ids, SmsFiles!Merge, Live!Merge,
           SmsFiles!WritesSessions, Live!WritesSessions
<1>13b. \A hh : SmsFiles!Proceeds(hh) <=> Live!Proceeds(hh)
    BY ZenonT(60), <1>13a DEF
           SmsFiles!Proceeds, Live!Proceeds
<1>13c. \A hh : SmsFiles!Committed(hh) <=> Live!Committed(hh)
    BY ZenonT(60), <1>13a DEF
           SmsFiles!NoHandler, Live!NoHandler, SmsFiles!Committed, Live!Committed
<1>14. SmsFiles!EnterRoute <=> Live!EnterRoute
    BY ZenonT(60), <1>7, <1>13b DEF
           SmsFiles!rowVars, Live!rowVars, SmsFiles!seenVars, Live!seenVars,
           SmsFiles!agentVars, Live!agentVars, SmsFiles!NoHandler, Live!NoHandler,
           SmsFiles!Begin, Live!Begin, SmsFiles!EnterRoute, Live!EnterRoute
<1>15. \A text, root : SmsFiles!LiveUpdate(text, root) <=> Live!LiveUpdate(text, root)
    BY ZenonT(60), <1>10, <1>12, <1>11, <1>13, <1>8, <1>13b DEF
           SmsFiles!rowVars, Live!rowVars, SmsFiles!seenVars, Live!seenVars,
           SmsFiles!agentVars, Live!agentVars, SmsFiles!LiveUpdate, Live!LiveUpdate
<1>16. SmsFiles!StatusAnswered <=> Live!StatusAnswered
    BY ZenonT(60), <1>9, <1>7, <1>13b DEF
           SmsFiles!rowVars, Live!rowVars, SmsFiles!seenVars, Live!seenVars,
           SmsFiles!agentVars, Live!agentVars, SmsFiles!With, Live!With,
           SmsFiles!Save, Live!Save, SmsFiles!Creating, Live!Creating,
           SmsFiles!StatusAnswered, Live!StatusAnswered
<1>17. SmsFiles!Reopened <=> Live!Reopened
    BY <1>9 DEF
           SmsFiles!rowVars, Live!rowVars, SmsFiles!seenVars, Live!seenVars,
           SmsFiles!agentVars, Live!agentVars, SmsFiles!With, Live!With, SmsFiles!Save,
           Live!Save, SmsFiles!Reopened, Live!Reopened
<1>18. SmsFiles!Created <=> Live!Created
    BY <1>1, <1>9 DEF
           SmsFiles!rowVars, Live!rowVars, SmsFiles!seenVars, Live!seenVars,
           SmsFiles!agentVars, Live!agentVars, SmsFiles!With, Live!With, SmsFiles!Ids,
           Live!Ids, SmsFiles!Created, Live!Created
<1>19. SmsFiles!Posted <=> Live!Posted
    BY ZenonT(60), <1>13c DEF
           SmsFiles!seenVars, Live!seenVars, SmsFiles!agentVars, Live!agentVars,
           SmsFiles!Posted, Live!Posted
<1>20. SmsFiles!PostedNowhere <=> Live!PostedNowhere
    BY ZenonT(60), <1>7, <1>13b DEF
           SmsFiles!rowVars, Live!rowVars, SmsFiles!seenVars, Live!seenVars,
           SmsFiles!agentVars, Live!agentVars, SmsFiles!With, Live!With,
           SmsFiles!Save, Live!Save, SmsFiles!PostedNowhere, Live!PostedNowhere
<1>21. SmsFiles!Replied <=> Live!Replied
    BY ZenonT(60), <1>13c DEF
           SmsFiles!seenVars, Live!seenVars, SmsFiles!agentVars, Live!agentVars,
           SmsFiles!Replied, Live!Replied
<1>22. SmsFiles!HandoverEnds <=> Live!HandoverEnds
    BY ZenonT(60), <1>13c DEF
           SmsFiles!seenVars, Live!seenVars, SmsFiles!agentVars, Live!agentVars,
           SmsFiles!HandoverEnds, Live!HandoverEnds
<1>23. SmsFiles!Handler <=> Live!Handler
    BY <1>21, <1>16, <1>17, <1>18, <1>19, <1>20, <1>22 DEF
           SmsFiles!rowVars, Live!rowVars, SmsFiles!seenVars, Live!seenVars,
           SmsFiles!agentVars, Live!agentVars, SmsFiles!NoHandler, Live!NoHandler,
           SmsFiles!HandlerFails, Live!HandlerFails, SmsFiles!HandoverBegins,
           Live!HandoverBegins, SmsFiles!SentOnceMore, Live!SentOnceMore,
           SmsFiles!HandedOver, Live!HandedOver, SmsFiles!Handler, Live!Handler
<1>24. SmsFiles!Webhook <=> Live!Webhook
    BY ZenonT(60), <1>4 DEF
           SmsFiles!rowVars, Live!rowVars, SmsFiles!seenVars, Live!seenVars,
           SmsFiles!agentVars, Live!agentVars, SmsFiles!Live, Live!Live,
           SmsFiles!NoRun, Live!NoRun, SmsFiles!Merge, Live!Merge,
           SmsFiles!SentOnceMore, Live!SentOnceMore, SmsFiles!StatusEvent,
           Live!StatusEvent, SmsFiles!SessionOf, Live!SessionOf, SmsFiles!RunEnds,
           Live!RunEnds, SmsFiles!Requeued, Live!Requeued, SmsFiles!Blocked,
           Live!Blocked, SmsFiles!RunCommits, Live!RunCommits,
           SmsFiles!WebhookIgnored, Live!WebhookIgnored, SmsFiles!WebhookResolves,
           Live!WebhookResolves, SmsFiles!WebhookTaken, Live!WebhookTaken,
           SmsFiles!Kept, Live!Kept, SmsFiles!Accepted, Live!Accepted,
           SmsFiles!Delivered, Live!Delivered, SmsFiles!Abandoned, Live!Abandoned,
           SmsFiles!Belated, Live!Belated, SmsFiles!Webhook, Live!Webhook
<1>25. SmsFiles!Crash <=> Live!Crash
    BY DEF
           SmsFiles!rowVars, Live!rowVars, SmsFiles!agentVars, Live!agentVars,
           SmsFiles!NoHandler, Live!NoHandler, SmsFiles!NoRun, Live!NoRun,
           SmsFiles!Crash, Live!Crash
<1>26. SmsFiles!Agents <=> Live!Agents
    BY <1>1 DEF
           SmsFiles!rowVars, Live!rowVars, SmsFiles!seenVars, Live!seenVars,
           SmsFiles!Said, Live!Said, SmsFiles!AgentWrites, Live!AgentWrites,
           SmsFiles!AgentSets, Live!AgentSets, SmsFiles!Reconfigured, Live!Reconfigured,
           SmsFiles!Agents, Live!Agents
<1> QED BY <1>10, <1>14, <1>15, <1>23, <1>24, <1>25, <1>26 DEF
        SmsFiles!LiveAssumption, Live!LiveAssumption, SmsFiles!NoHandler,
        Live!NoHandler, SmsFiles!NoRun, Live!NoRun, SmsFiles!LiveInit, Live!LiveInit,
        SmsFiles!LiveNext, Live!LiveNext, SmsFiles!RepeatsAreRetries,
        Live!RepeatsAreRetries

\* Two conversations and two changes.
LEMMA AgentProved ==
    /\ InboxGroups!LiveInit("root") <=> Agent!LiveInit("root")
    /\ InboxGroups!LiveNext <=> Agent!LiveNext
    /\ InboxGroups!LiveAssumption <=> Agent!LiveAssumption
<1>1. \A S : InboxGroups!Cardinality(S) = Agent!Cardinality(S)
    BY DEF
           InboxGroups!Cardinality, Agent!Cardinality
<1>2. \A S, order : InboxGroups!First(S, order) = Agent!First(S, order)
    BY DEF
           InboxGroups!First, Agent!First
<1>3. \A hh : InboxGroups!Order(hh) = Agent!Order(hh)
    BY <1>1 DEF
           InboxGroups!Ids, Agent!Ids, InboxGroups!Order, Agent!Order
<1>4. \A order : InboxGroups!Places(order) = Agent!Places(order)
    BY <1>1 DEF
           InboxGroups!Places, Agent!Places
<1>5. \A hh : InboxGroups!RouteSessionOf(hh) = Agent!RouteSessionOf(hh)
    BY <1>2, <1>3 DEF
           InboxGroups!Ids, Agent!Ids, InboxGroups!StatusOf, Agent!StatusOf,
           InboxGroups!RouteSessionOf, Agent!RouteSessionOf
<1>6. \A hh, c : InboxGroups!Reusing(hh, c) = Agent!Reusing(hh, c)
    BY DEF
           InboxGroups!With, Agent!With, InboxGroups!Load, Agent!Load,
           InboxGroups!InboxOf, Agent!InboxOf, InboxGroups!Creating, Agent!Creating,
           InboxGroups!Verify, Agent!Verify, InboxGroups!Reusing, Agent!Reusing
<1>7. \A hh : InboxGroups!OpenRoute(hh) = Agent!OpenRoute(hh)
    BY <1>6, <1>5 DEF
           InboxGroups!OpenRoute, Agent!OpenRoute
<1>8. \A hh : InboxGroups!Forwardable(hh) = Agent!Forwardable(hh)
    BY <1>7 DEF
           InboxGroups!Verify, Agent!Verify, InboxGroups!Forwardable, Agent!Forwardable
<1>9. \A hh, verified : InboxGroups!Chosen(hh, verified) = Agent!Chosen(hh, verified)
    BY DEF
           InboxGroups!Live, Agent!Live, InboxGroups!With, Agent!With, InboxGroups!Save,
           Agent!Save, InboxGroups!Entering, Agent!Entering, InboxGroups!Chosen,
           Agent!Chosen
<1>10. InboxGroups!ActiveSession = Agent!ActiveSession
    BY <1>2 DEF
           InboxGroups!Live, Agent!Live, InboxGroups!ActiveSession, Agent!ActiveSession
<1>11. \A i : InboxGroups!Heard(i) = Agent!Heard(i)
    BY DEF
           InboxGroups!NoHandler, Agent!NoHandler, InboxGroups!With, Agent!With,
           InboxGroups!Load, Agent!Load, InboxGroups!Save, Agent!Save,
           InboxGroups!Begin, Agent!Begin, InboxGroups!Heard, Agent!Heard
<1>12. \A hh, root : InboxGroups!Leaving(hh, root) = Agent!Leaving(hh, root)
    BY DEF
           InboxGroups!Leaving, Agent!Leaving
<1>13. \A hh : InboxGroups!Refusing(hh) = Agent!Refusing(hh)
    BY DEF
           InboxGroups!Refusing, Agent!Refusing
<1>13a. \A hh : InboxGroups!WritesSessions(hh) <=> Agent!WritesSessions(hh)
    BY ZenonT(60), <1>3, <1>4 DEF
           InboxGroups!Ids, Agent!Ids, InboxGroups!Merge, Agent!Merge,
           InboxGroups!WritesSessions, Agent!WritesSessions
<1>13b. \A hh : InboxGroups!Proceeds(hh) <=> Agent!Proceeds(hh)
    BY ZenonT(60), <1>13a DEF
           InboxGroups!Proceeds, Agent!Proceeds
<1>13c. \A hh : InboxGroups!Committed(hh) <=> Agent!Committed(hh)
    BY ZenonT(60), <1>13a DEF
           InboxGroups!NoHandler, Agent!NoHandler, InboxGroups!Committed,
           Agent!Committed
<1>14. InboxGroups!EnterRoute <=> Agent!EnterRoute
    BY ZenonT(60), <1>7, <1>13b DEF
           InboxGroups!rowVars, Agent!rowVars, InboxGroups!seenVars, Agent!seenVars,
           InboxGroups!agentVars, Agent!agentVars, InboxGroups!NoHandler,
           Agent!NoHandler, InboxGroups!Begin, Agent!Begin, InboxGroups!EnterRoute,
           Agent!EnterRoute
<1>15. \A text, root : InboxGroups!LiveUpdate(text, root) <=> Agent!LiveUpdate(text, root)
    BY ZenonT(60), <1>10, <1>12, <1>11, <1>13, <1>8, <1>13b DEF
           InboxGroups!rowVars, Agent!rowVars, InboxGroups!seenVars, Agent!seenVars,
           InboxGroups!agentVars, Agent!agentVars, InboxGroups!LiveUpdate,
           Agent!LiveUpdate
<1>16. InboxGroups!StatusAnswered <=> Agent!StatusAnswered
    BY ZenonT(60), <1>9, <1>7, <1>13b DEF
           InboxGroups!rowVars, Agent!rowVars, InboxGroups!seenVars, Agent!seenVars,
           InboxGroups!agentVars, Agent!agentVars, InboxGroups!With, Agent!With,
           InboxGroups!Save, Agent!Save, InboxGroups!Creating, Agent!Creating,
           InboxGroups!StatusAnswered, Agent!StatusAnswered
<1>17. InboxGroups!Reopened <=> Agent!Reopened
    BY <1>9 DEF
           InboxGroups!rowVars, Agent!rowVars, InboxGroups!seenVars, Agent!seenVars,
           InboxGroups!agentVars, Agent!agentVars, InboxGroups!With, Agent!With,
           InboxGroups!Save, Agent!Save, InboxGroups!Reopened, Agent!Reopened
<1>18. InboxGroups!Created <=> Agent!Created
    BY <1>1, <1>9 DEF
           InboxGroups!rowVars, Agent!rowVars, InboxGroups!seenVars, Agent!seenVars,
           InboxGroups!agentVars, Agent!agentVars, InboxGroups!With, Agent!With,
           InboxGroups!Ids, Agent!Ids, InboxGroups!Created, Agent!Created
<1>19. InboxGroups!Posted <=> Agent!Posted
    BY ZenonT(60), <1>13c DEF
           InboxGroups!seenVars, Agent!seenVars, InboxGroups!agentVars,
           Agent!agentVars, InboxGroups!Posted, Agent!Posted
<1>20. InboxGroups!PostedNowhere <=> Agent!PostedNowhere
    BY ZenonT(60), <1>7, <1>13b DEF
           InboxGroups!rowVars, Agent!rowVars, InboxGroups!seenVars, Agent!seenVars,
           InboxGroups!agentVars, Agent!agentVars, InboxGroups!With, Agent!With,
           InboxGroups!Save, Agent!Save, InboxGroups!PostedNowhere,
           Agent!PostedNowhere
<1>21. InboxGroups!Replied <=> Agent!Replied
    BY ZenonT(60), <1>13c DEF
           InboxGroups!seenVars, Agent!seenVars, InboxGroups!agentVars,
           Agent!agentVars, InboxGroups!Replied, Agent!Replied
<1>22. InboxGroups!HandoverEnds <=> Agent!HandoverEnds
    BY ZenonT(60), <1>13c DEF
           InboxGroups!seenVars, Agent!seenVars, InboxGroups!agentVars,
           Agent!agentVars, InboxGroups!HandoverEnds, Agent!HandoverEnds
<1>23. InboxGroups!Handler <=> Agent!Handler
    BY <1>21, <1>16, <1>17, <1>18, <1>19, <1>20, <1>22 DEF
           InboxGroups!rowVars, Agent!rowVars, InboxGroups!seenVars, Agent!seenVars,
           InboxGroups!agentVars, Agent!agentVars, InboxGroups!NoHandler,
           Agent!NoHandler, InboxGroups!HandlerFails, Agent!HandlerFails,
           InboxGroups!HandoverBegins, Agent!HandoverBegins, InboxGroups!SentOnceMore,
           Agent!SentOnceMore, InboxGroups!HandedOver, Agent!HandedOver,
           InboxGroups!Handler, Agent!Handler
<1>24. InboxGroups!Webhook <=> Agent!Webhook
    BY ZenonT(60), <1>4 DEF
           InboxGroups!rowVars, Agent!rowVars, InboxGroups!seenVars, Agent!seenVars,
           InboxGroups!agentVars, Agent!agentVars, InboxGroups!Live, Agent!Live,
           InboxGroups!NoRun, Agent!NoRun, InboxGroups!Merge, Agent!Merge,
           InboxGroups!SentOnceMore, Agent!SentOnceMore, InboxGroups!StatusEvent,
           Agent!StatusEvent, InboxGroups!SessionOf, Agent!SessionOf,
           InboxGroups!RunEnds, Agent!RunEnds, InboxGroups!Requeued, Agent!Requeued,
           InboxGroups!Blocked, Agent!Blocked, InboxGroups!RunCommits,
           Agent!RunCommits, InboxGroups!WebhookIgnored, Agent!WebhookIgnored,
           InboxGroups!WebhookResolves, Agent!WebhookResolves,
           InboxGroups!WebhookTaken, Agent!WebhookTaken, InboxGroups!Kept,
           Agent!Kept, InboxGroups!Accepted, Agent!Accepted, InboxGroups!Delivered,
           Agent!Delivered, InboxGroups!Abandoned, Agent!Abandoned,
           InboxGroups!Belated, Agent!Belated, InboxGroups!Webhook, Agent!Webhook
<1>25. InboxGroups!Crash <=> Agent!Crash
    BY DEF
           InboxGroups!rowVars, Agent!rowVars, InboxGroups!agentVars, Agent!agentVars,
           InboxGroups!NoHandler, Agent!NoHandler, InboxGroups!NoRun, Agent!NoRun,
           InboxGroups!Crash, Agent!Crash
<1>26. InboxGroups!Agents <=> Agent!Agents
    BY <1>1 DEF
           InboxGroups!rowVars, Agent!rowVars, InboxGroups!seenVars, Agent!seenVars,
           InboxGroups!Said, Agent!Said, InboxGroups!AgentWrites, Agent!AgentWrites,
           InboxGroups!AgentSets, Agent!AgentSets, InboxGroups!Reconfigured,
           Agent!Reconfigured, InboxGroups!Agents, Agent!Agents
<1> QED BY <1>10, <1>14, <1>15, <1>23, <1>24, <1>25, <1>26 DEF
        InboxGroups!LiveAssumption, Agent!LiveAssumption, InboxGroups!NoHandler,
        Agent!NoHandler, InboxGroups!NoRun, Agent!NoRun, InboxGroups!LiveInit,
        Agent!LiveInit, InboxGroups!LiveNext, Agent!LiveNext

\* The menus of the Bale bot.
LEMMA BaleProved ==
    /\ Menus!BaleInit <=> Bale!BaleInit
    /\ Menus!BaleNext <=> Bale!BaleNext
    /\ Menus!MenusFitCustomer <=> Bale!MenusFitCustomer
    /\ Menus!LiveAssumption <=> Bale!LiveAssumption
<1>1. \A S : Menus!Cardinality(S) = Bale!Cardinality(S)
    BY DEF
           Menus!Cardinality, Bale!Cardinality
<1>2. \A S, order : Menus!First(S, order) = Bale!First(S, order)
    BY DEF
           Menus!First, Bale!First
<1>3. \A hh : Menus!Order(hh) = Bale!Order(hh)
    BY <1>1 DEF
           Menus!Ids, Bale!Ids, Menus!Order, Bale!Order
<1>4. \A order : Menus!Places(order) = Bale!Places(order)
    BY <1>1 DEF
           Menus!Places, Bale!Places
<1>5. \A hh : Menus!RouteSessionOf(hh) = Bale!RouteSessionOf(hh)
    BY <1>2, <1>3 DEF
           Menus!Ids, Bale!Ids, Menus!StatusOf, Bale!StatusOf, Menus!RouteSessionOf,
           Bale!RouteSessionOf
<1>6. \A hh, c : Menus!Reusing(hh, c) = Bale!Reusing(hh, c)
    BY DEF
           Menus!With, Bale!With, Menus!Load, Bale!Load, Menus!InboxOf, Bale!InboxOf,
           Menus!Creating, Bale!Creating, Menus!Verify, Bale!Verify, Menus!Reusing,
           Bale!Reusing
<1>7. \A hh : Menus!OpenRoute(hh) = Bale!OpenRoute(hh)
    BY <1>6, <1>5 DEF
           Menus!OpenRoute, Bale!OpenRoute
<1>8. \A hh : Menus!Forwardable(hh) = Bale!Forwardable(hh)
    BY <1>7 DEF
           Menus!Verify, Bale!Verify, Menus!Forwardable, Bale!Forwardable
<1>9. \A hh, verified : Menus!Chosen(hh, verified) = Bale!Chosen(hh, verified)
    BY DEF
           Menus!Live, Bale!Live, Menus!With, Bale!With, Menus!Save, Bale!Save,
           Menus!Entering, Bale!Entering, Menus!Chosen, Bale!Chosen
<1>10. Menus!ActiveSession = Bale!ActiveSession
    BY <1>2 DEF
           Menus!Live, Bale!Live, Menus!ActiveSession, Bale!ActiveSession
<1>11. \A i : Menus!Heard(i) = Bale!Heard(i)
    BY DEF
           Menus!NoHandler, Bale!NoHandler, Menus!With, Bale!With, Menus!Load,
           Bale!Load, Menus!Save, Bale!Save, Menus!Begin, Bale!Begin, Menus!Heard,
           Bale!Heard
<1>12. \A hh, root : Menus!Leaving(hh, root) = Bale!Leaving(hh, root)
    BY DEF
           Menus!Leaving, Bale!Leaving
<1>13. \A hh : Menus!Refusing(hh) = Bale!Refusing(hh)
    BY DEF
           Menus!Refusing, Bale!Refusing
<1>13a. \A hh : Menus!WritesSessions(hh) <=> Bale!WritesSessions(hh)
    BY ZenonT(60), <1>3, <1>4 DEF
           Menus!Ids, Bale!Ids, Menus!Merge, Bale!Merge, Menus!WritesSessions,
           Bale!WritesSessions
<1>13b. \A hh : Menus!Proceeds(hh) <=> Bale!Proceeds(hh)
    BY ZenonT(60), <1>13a DEF
           Menus!Proceeds, Bale!Proceeds
<1>13c. \A hh : Menus!Committed(hh) <=> Bale!Committed(hh)
    BY ZenonT(60), <1>13a DEF
           Menus!NoHandler, Bale!NoHandler, Menus!Committed, Bale!Committed
<1>14. Menus!EnterRoute <=> Bale!EnterRoute
    BY ZenonT(60), <1>7, <1>13b DEF
           Menus!rowVars, Bale!rowVars, Menus!seenVars, Bale!seenVars,
           Menus!agentVars, Bale!agentVars, Menus!NoHandler, Bale!NoHandler,
           Menus!Begin, Bale!Begin, Menus!EnterRoute, Bale!EnterRoute
<1>15. \A text, root : Menus!LiveUpdate(text, root) <=> Bale!LiveUpdate(text, root)
    BY ZenonT(60), <1>10, <1>12, <1>11, <1>13, <1>8, <1>13b DEF
           Menus!rowVars, Bale!rowVars, Menus!seenVars, Bale!seenVars,
           Menus!agentVars, Bale!agentVars, Menus!LiveUpdate, Bale!LiveUpdate
<1>16. Menus!StatusAnswered <=> Bale!StatusAnswered
    BY ZenonT(60), <1>9, <1>7, <1>13b DEF
           Menus!rowVars, Bale!rowVars, Menus!seenVars, Bale!seenVars,
           Menus!agentVars, Bale!agentVars, Menus!With, Bale!With, Menus!Save,
           Bale!Save, Menus!Creating, Bale!Creating, Menus!StatusAnswered,
           Bale!StatusAnswered
<1>17. Menus!Reopened <=> Bale!Reopened
    BY <1>9 DEF
           Menus!rowVars, Bale!rowVars, Menus!seenVars, Bale!seenVars, Menus!agentVars,
           Bale!agentVars, Menus!With, Bale!With, Menus!Save, Bale!Save, Menus!Reopened,
           Bale!Reopened
<1>18. Menus!Created <=> Bale!Created
    BY <1>1, <1>9 DEF
           Menus!rowVars, Bale!rowVars, Menus!seenVars, Bale!seenVars, Menus!agentVars,
           Bale!agentVars, Menus!With, Bale!With, Menus!Ids, Bale!Ids, Menus!Created,
           Bale!Created
<1>19. Menus!Posted <=> Bale!Posted
    BY ZenonT(60), <1>13c DEF
           Menus!seenVars, Bale!seenVars, Menus!agentVars, Bale!agentVars,
           Menus!Posted, Bale!Posted
<1>20. Menus!PostedNowhere <=> Bale!PostedNowhere
    BY ZenonT(60), <1>7, <1>13b DEF
           Menus!rowVars, Bale!rowVars, Menus!seenVars, Bale!seenVars,
           Menus!agentVars, Bale!agentVars, Menus!With, Bale!With, Menus!Save,
           Bale!Save, Menus!PostedNowhere, Bale!PostedNowhere
<1>21. Menus!Replied <=> Bale!Replied
    BY ZenonT(60), <1>13c DEF
           Menus!seenVars, Bale!seenVars, Menus!agentVars, Bale!agentVars,
           Menus!Replied, Bale!Replied
<1>22. Menus!HandoverEnds <=> Bale!HandoverEnds
    BY ZenonT(60), <1>13c DEF
           Menus!seenVars, Bale!seenVars, Menus!agentVars, Bale!agentVars,
           Menus!HandoverEnds, Bale!HandoverEnds
<1>23. Menus!Handler <=> Bale!Handler
    BY <1>21, <1>16, <1>17, <1>18, <1>19, <1>20, <1>22 DEF
           Menus!rowVars, Bale!rowVars, Menus!seenVars, Bale!seenVars, Menus!agentVars,
           Bale!agentVars, Menus!NoHandler, Bale!NoHandler, Menus!HandlerFails,
           Bale!HandlerFails, Menus!HandoverBegins, Bale!HandoverBegins,
           Menus!SentOnceMore, Bale!SentOnceMore, Menus!HandedOver, Bale!HandedOver,
           Menus!Handler, Bale!Handler
<1>24. Menus!Webhook <=> Bale!Webhook
    BY ZenonT(60), <1>4 DEF
           Menus!rowVars, Bale!rowVars, Menus!seenVars, Bale!seenVars,
           Menus!agentVars, Bale!agentVars, Menus!Live, Bale!Live, Menus!NoRun,
           Bale!NoRun, Menus!Merge, Bale!Merge, Menus!SentOnceMore,
           Bale!SentOnceMore, Menus!StatusEvent, Bale!StatusEvent, Menus!SessionOf,
           Bale!SessionOf, Menus!RunEnds, Bale!RunEnds, Menus!Requeued,
           Bale!Requeued, Menus!Blocked, Bale!Blocked, Menus!RunCommits,
           Bale!RunCommits, Menus!WebhookIgnored, Bale!WebhookIgnored,
           Menus!WebhookResolves, Bale!WebhookResolves, Menus!WebhookTaken,
           Bale!WebhookTaken, Menus!Kept, Bale!Kept, Menus!Accepted, Bale!Accepted,
           Menus!Delivered, Bale!Delivered, Menus!Abandoned, Bale!Abandoned,
           Menus!Belated, Bale!Belated, Menus!Webhook, Bale!Webhook
<1>25. Menus!Crash <=> Bale!Crash
    BY DEF
           Menus!rowVars, Bale!rowVars, Menus!agentVars, Bale!agentVars,
           Menus!NoHandler, Bale!NoHandler, Menus!NoRun, Bale!NoRun, Menus!Crash,
           Bale!Crash
<1>26. Menus!Agents <=> Bale!Agents
    BY <1>1 DEF
           Menus!rowVars, Bale!rowVars, Menus!seenVars, Bale!seenVars, Menus!Said,
           Bale!Said, Menus!AgentWrites, Bale!AgentWrites, Menus!AgentSets,
           Bale!AgentSets, Menus!Reconfigured, Bale!Reconfigured, Menus!Agents,
           Bale!Agents
<1>27. Menus!BaleInit <=> Bale!BaleInit
    BY DEF
           Menus!NoHandler, Bale!NoHandler, Menus!NoRun, Bale!NoRun, Menus!LiveInit,
           Bale!LiveInit, Menus!BaleInit, Bale!BaleInit
<1>28. Menus!BaleMenus <=> Bale!BaleMenus
    BY <1>10 DEF
           Menus!seenVars, Bale!seenVars, Menus!agentVars, Bale!agentVars,
           Menus!ManualStates, Bale!ManualStates, Menus!Root, Bale!Root, Menus!Menu,
           Bale!Menu, Menus!ToRoot, Bale!ToRoot, Menus!To, Bale!To, Menus!Back,
           Bale!Back, Menus!AtRoot, Bale!AtRoot, Menus!ValidatePhone,
           Bale!ValidatePhone, Menus!Start, Bale!Start, Menus!PhoneSubmitted,
           Bale!PhoneSubmitted, Menus!PhoneBack, Bale!PhoneBack, Menus!EligibleRoot,
           Bale!EligibleRoot, Menus!IneligibleRoot, Bale!IneligibleRoot,
           Menus!ManualMenu, Bale!ManualMenu, Menus!AddressMenu, Bale!AddressMenu,
           Menus!Catalog, Bale!Catalog, Menus!BaleMenus, Bale!BaleMenus
<1>29. Menus!RouteButton <=> Bale!RouteButton
    BY <1>10, <1>14 DEF
           Menus!menuVars, Bale!menuVars, Menus!ManualStates, Bale!ManualStates,
           Menus!AtRoot, Bale!AtRoot, Menus!RouteButton, Bale!RouteButton
<1>30. Menus!BaleLive <=> Bale!BaleLive
    BY <1>15 DEF
           Menus!menuVars, Bale!menuVars, Menus!Root, Bale!Root, Menus!BaleLive,
           Bale!BaleLive
<1>31. Menus!GroupsConfigured <=> Bale!GroupsConfigured
    BY DEF
           Menus!rowVars, Bale!rowVars, Menus!seenVars, Bale!seenVars,
           Menus!GroupsConfigured, Bale!GroupsConfigured
<1>32. Menus!MenusFitCustomer <=> Bale!MenusFitCustomer
    BY DEF
           Menus!ManualStates, Bale!ManualStates, Menus!MenusFitCustomer,
           Bale!MenusFitCustomer
<1> QED BY <1>23, <1>24, <1>25, <1>26, <1>28, <1>29, <1>30, <1>31 DEF
        Menus!LiveAssumption, Bale!LiveAssumption, Menus!NoHandler, Bale!NoHandler,
        Menus!NoRun, Bale!NoRun, Menus!LiveInit, Bale!LiveInit, Menus!menuVars,
        Bale!menuVars, Menus!ManualStates, Bale!ManualStates, Menus!BaleInit,
        Bale!BaleInit, Menus!BaleNext, Bale!BaleNext, Menus!MenusFitCustomer,
        Bale!MenusFitCustomer

\* The menus of the Telegram bot.
LEMMA TelegramProved ==
    /\ Menus!TelegramInit <=> Telegram!TelegramInit
    /\ Menus!TelegramNext <=> Telegram!TelegramNext
    /\ Menus!GroupFitsMenu <=> Telegram!GroupFitsMenu
    /\ Menus!LiveAssumption <=> Telegram!LiveAssumption
<1>1. \A S : Menus!Cardinality(S) = Telegram!Cardinality(S)
    BY DEF
           Menus!Cardinality, Telegram!Cardinality
<1>2. \A S, order : Menus!First(S, order) = Telegram!First(S, order)
    BY DEF
           Menus!First, Telegram!First
<1>3. \A hh : Menus!Order(hh) = Telegram!Order(hh)
    BY <1>1 DEF
           Menus!Ids, Telegram!Ids, Menus!Order, Telegram!Order
<1>4. \A order : Menus!Places(order) = Telegram!Places(order)
    BY <1>1 DEF
           Menus!Places, Telegram!Places
<1>5. \A hh : Menus!RouteSessionOf(hh) = Telegram!RouteSessionOf(hh)
    BY <1>2, <1>3 DEF
           Menus!Ids, Telegram!Ids, Menus!StatusOf, Telegram!StatusOf,
           Menus!RouteSessionOf, Telegram!RouteSessionOf
<1>6. \A hh, c : Menus!Reusing(hh, c) = Telegram!Reusing(hh, c)
    BY DEF
           Menus!With, Telegram!With, Menus!Load, Telegram!Load, Menus!InboxOf,
           Telegram!InboxOf, Menus!Creating, Telegram!Creating, Menus!Verify,
           Telegram!Verify, Menus!Reusing, Telegram!Reusing
<1>7. \A hh : Menus!OpenRoute(hh) = Telegram!OpenRoute(hh)
    BY <1>6, <1>5 DEF
           Menus!OpenRoute, Telegram!OpenRoute
<1>8. \A hh : Menus!Forwardable(hh) = Telegram!Forwardable(hh)
    BY <1>7 DEF
           Menus!Verify, Telegram!Verify, Menus!Forwardable, Telegram!Forwardable
<1>9. \A hh, verified : Menus!Chosen(hh, verified) = Telegram!Chosen(hh, verified)
    BY DEF
           Menus!Live, Telegram!Live, Menus!With, Telegram!With, Menus!Save,
           Telegram!Save, Menus!Entering, Telegram!Entering, Menus!Chosen,
           Telegram!Chosen
<1>10. Menus!ActiveSession = Telegram!ActiveSession
    BY <1>2 DEF
           Menus!Live, Telegram!Live, Menus!ActiveSession, Telegram!ActiveSession
<1>11. \A i : Menus!Heard(i) = Telegram!Heard(i)
    BY DEF
           Menus!NoHandler, Telegram!NoHandler, Menus!With, Telegram!With, Menus!Load,
           Telegram!Load, Menus!Save, Telegram!Save, Menus!Begin, Telegram!Begin,
           Menus!Heard, Telegram!Heard
<1>12. \A hh, root : Menus!Leaving(hh, root) = Telegram!Leaving(hh, root)
    BY DEF
           Menus!Leaving, Telegram!Leaving
<1>13. \A hh : Menus!Refusing(hh) = Telegram!Refusing(hh)
    BY DEF
           Menus!Refusing, Telegram!Refusing
<1>13a. \A hh : Menus!WritesSessions(hh) <=> Telegram!WritesSessions(hh)
    BY ZenonT(60), <1>3, <1>4 DEF
           Menus!Ids, Telegram!Ids, Menus!Merge, Telegram!Merge,
           Menus!WritesSessions, Telegram!WritesSessions
<1>13b. \A hh : Menus!Proceeds(hh) <=> Telegram!Proceeds(hh)
    BY ZenonT(60), <1>13a DEF
           Menus!Proceeds, Telegram!Proceeds
<1>13c. \A hh : Menus!Committed(hh) <=> Telegram!Committed(hh)
    BY ZenonT(60), <1>13a DEF
           Menus!NoHandler, Telegram!NoHandler, Menus!Committed, Telegram!Committed
<1>14. Menus!EnterRoute <=> Telegram!EnterRoute
    BY ZenonT(60), <1>7, <1>13b DEF
           Menus!rowVars, Telegram!rowVars, Menus!seenVars, Telegram!seenVars,
           Menus!agentVars, Telegram!agentVars, Menus!NoHandler, Telegram!NoHandler,
           Menus!Begin, Telegram!Begin, Menus!EnterRoute, Telegram!EnterRoute
<1>15. \A text, root : Menus!LiveUpdate(text, root) <=> Telegram!LiveUpdate(text, root)
    BY ZenonT(60), <1>10, <1>12, <1>11, <1>13, <1>8, <1>13b DEF
           Menus!rowVars, Telegram!rowVars, Menus!seenVars, Telegram!seenVars,
           Menus!agentVars, Telegram!agentVars, Menus!LiveUpdate, Telegram!LiveUpdate
<1>16. Menus!StatusAnswered <=> Telegram!StatusAnswered
    BY ZenonT(60), <1>9, <1>7, <1>13b DEF
           Menus!rowVars, Telegram!rowVars, Menus!seenVars, Telegram!seenVars,
           Menus!agentVars, Telegram!agentVars, Menus!With, Telegram!With,
           Menus!Save, Telegram!Save, Menus!Creating, Telegram!Creating,
           Menus!StatusAnswered, Telegram!StatusAnswered
<1>17. Menus!Reopened <=> Telegram!Reopened
    BY <1>9 DEF
           Menus!rowVars, Telegram!rowVars, Menus!seenVars, Telegram!seenVars,
           Menus!agentVars, Telegram!agentVars, Menus!With, Telegram!With, Menus!Save,
           Telegram!Save, Menus!Reopened, Telegram!Reopened
<1>18. Menus!Created <=> Telegram!Created
    BY <1>1, <1>9 DEF
           Menus!rowVars, Telegram!rowVars, Menus!seenVars, Telegram!seenVars,
           Menus!agentVars, Telegram!agentVars, Menus!With, Telegram!With, Menus!Ids,
           Telegram!Ids, Menus!Created, Telegram!Created
<1>19. Menus!Posted <=> Telegram!Posted
    BY ZenonT(60), <1>13c DEF
           Menus!seenVars, Telegram!seenVars, Menus!agentVars, Telegram!agentVars,
           Menus!Posted, Telegram!Posted
<1>20. Menus!PostedNowhere <=> Telegram!PostedNowhere
    BY ZenonT(60), <1>7, <1>13b DEF
           Menus!rowVars, Telegram!rowVars, Menus!seenVars, Telegram!seenVars,
           Menus!agentVars, Telegram!agentVars, Menus!With, Telegram!With,
           Menus!Save, Telegram!Save, Menus!PostedNowhere, Telegram!PostedNowhere
<1>21. Menus!Replied <=> Telegram!Replied
    BY ZenonT(60), <1>13c DEF
           Menus!seenVars, Telegram!seenVars, Menus!agentVars, Telegram!agentVars,
           Menus!Replied, Telegram!Replied
<1>22. Menus!HandoverEnds <=> Telegram!HandoverEnds
    BY ZenonT(60), <1>13c DEF
           Menus!seenVars, Telegram!seenVars, Menus!agentVars, Telegram!agentVars,
           Menus!HandoverEnds, Telegram!HandoverEnds
<1>23. Menus!WebhookResolves <=> Telegram!WebhookResolves
    BY <1>4 DEF
           Menus!seenVars, Telegram!seenVars, Menus!agentVars, Telegram!agentVars,
           Menus!NoRun, Telegram!NoRun, Menus!Merge, Telegram!Merge, Menus!StatusEvent,
           Telegram!StatusEvent, Menus!SessionOf, Telegram!SessionOf, Menus!RunEnds,
           Telegram!RunEnds, Menus!Requeued, Telegram!Requeued, Menus!Blocked,
           Telegram!Blocked, Menus!RunCommits, Telegram!RunCommits,
           Menus!WebhookResolves, Telegram!WebhookResolves
<1>24. Menus!Kept <=> Telegram!Kept
    BY ZenonT(60), <1>4 DEF
           Menus!seenVars, Telegram!seenVars, Menus!agentVars, Telegram!agentVars,
           Menus!Live, Telegram!Live, Menus!NoRun, Telegram!NoRun, Menus!Merge,
           Telegram!Merge, Menus!RunEnds, Telegram!RunEnds, Menus!Requeued,
           Telegram!Requeued, Menus!Blocked, Telegram!Blocked, Menus!RunCommits,
           Telegram!RunCommits, Menus!Abandoned, Telegram!Abandoned, Menus!Belated,
           Telegram!Belated, Menus!Kept, Telegram!Kept
<1>25. Menus!Delivered <=> Telegram!Delivered
    BY <1>4 DEF
           Menus!agentVars, Telegram!agentVars, Menus!NoRun, Telegram!NoRun,
           Menus!Merge, Telegram!Merge, Menus!SentOnceMore, Telegram!SentOnceMore,
           Menus!RunEnds, Telegram!RunEnds, Menus!Requeued, Telegram!Requeued,
           Menus!Blocked, Telegram!Blocked, Menus!RunCommits, Telegram!RunCommits,
           Menus!Delivered, Telegram!Delivered
<1>26. Menus!Agents <=> Telegram!Agents
    BY <1>1 DEF
           Menus!rowVars, Telegram!rowVars, Menus!seenVars, Telegram!seenVars,
           Menus!Said, Telegram!Said, Menus!AgentWrites, Telegram!AgentWrites,
           Menus!AgentSets, Telegram!AgentSets, Menus!Reconfigured,
           Telegram!Reconfigured, Menus!Agents, Telegram!Agents
<1>27. Menus!TelegramInit <=> Telegram!TelegramInit
    BY DEF
           Menus!NoHandler, Telegram!NoHandler, Menus!NoRun, Telegram!NoRun,
           Menus!LiveInit, Telegram!LiveInit, Menus!TelegramInit, Telegram!TelegramInit
<1>28. Menus!ShowRoot <=> Telegram!ShowRoot
    BY <1>10 DEF
           Menus!seenVars, Telegram!seenVars, Menus!agentVars, Telegram!agentVars,
           Menus!MenuTo, Telegram!MenuTo, Menus!ShowRoot, Telegram!ShowRoot
<1>29. Menus!RootActions <=> Telegram!RootActions
    BY <1>10 DEF
           Menus!seenVars, Telegram!seenVars, Menus!agentVars, Telegram!agentVars,
           Menus!MenuTo, Telegram!MenuTo, Menus!RootActions, Telegram!RootActions
<1>30. Menus!RouteChosen <=> Telegram!RouteChosen
    BY <1>10, <1>14 DEF
           Menus!RouteChosen, Telegram!RouteChosen
<1>31. Menus!ManualChoice <=> Telegram!ManualChoice
    BY <1>10 DEF
           Menus!seenVars, Telegram!seenVars, Menus!agentVars, Telegram!agentVars,
           Menus!MenuTo, Telegram!MenuTo, Menus!ManualChoice, Telegram!ManualChoice
<1>32. Menus!AddressChoice <=> Telegram!AddressChoice
    BY <1>10 DEF
           Menus!seenVars, Telegram!seenVars, Menus!agentVars, Telegram!agentVars,
           Menus!MenuTo, Telegram!MenuTo, Menus!AddressChoice, Telegram!AddressChoice
<1>33. Menus!GroupingSet <=> Telegram!GroupingSet
    BY DEF
           Menus!rowVars, Telegram!rowVars, Menus!seenVars, Telegram!seenVars,
           Menus!GroupingSet, Telegram!GroupingSet
<1>34. Menus!GroupFitsMenu <=> Telegram!GroupFitsMenu
    BY DEF
           Menus!GroupFitsMenu, Telegram!GroupFitsMenu
<1> QED BY <1>15, <1>16, <1>17, <1>18, <1>19, <1>20, <1>21, <1>22, <1>23, <1>24, <1>25, <1>26, <1>28, <1>29, <1>30, <1>31, <1>32, <1>33 DEF
        Menus!LiveAssumption, Telegram!LiveAssumption, Menus!rowVars, Telegram!rowVars,
        Menus!seenVars, Telegram!seenVars, Menus!agentVars, Telegram!agentVars,
        Menus!NoHandler, Telegram!NoHandler, Menus!NoRun, Telegram!NoRun,
        Menus!HandlerFails, Telegram!HandlerFails, Menus!HandoverBegins,
        Telegram!HandoverBegins, Menus!SentOnceMore, Telegram!SentOnceMore,
        Menus!HandedOver, Telegram!HandedOver, Menus!StatusEvent, Telegram!StatusEvent,
        Menus!SessionOf, Telegram!SessionOf, Menus!RunEnds, Telegram!RunEnds,
        Menus!WebhookIgnored, Telegram!WebhookIgnored, Menus!WebhookTaken,
        Telegram!WebhookTaken, Menus!Accepted, Telegram!Accepted, Menus!Crash,
        Telegram!Crash, Menus!LiveInit, Telegram!LiveInit, Menus!TelegramInit,
        Telegram!TelegramInit, Menus!Same, Telegram!Same, Menus!LeaveLiveRoute,
        Telegram!LeaveLiveRoute, Menus!LiveMenuInput, Telegram!LiveMenuInput,
        Menus!ForwardableSession, Telegram!ForwardableSession, Menus!RemoteStatus,
        Telegram!RemoteStatus, Menus!ReusableSession, Telegram!ReusableSession,
        Menus!RouteSession, Telegram!RouteSession, Menus!ForwardMessage,
        Telegram!ForwardMessage, Menus!RecreateSession, Telegram!RecreateSession,
        Menus!AcceptedNotice, Telegram!AcceptedNotice, Menus!DeliverPayload,
        Telegram!DeliverPayload, Menus!EnterLiveRoute, Telegram!EnterLiveRoute,
        Menus!ReceiveWebhook, Telegram!ReceiveWebhook, Menus!TelegramNext,
        Telegram!TelegramNext, Menus!GroupFitsMenu, Telegram!GroupFitsMenu

\* What the properties say does not depend on the constants.
LEMMA SameSaid ==
    /\ InboxGroups!NothingPassedOver <=> Sms!NothingPassedOver
    /\ InboxGroups!SmsRepeatsExcused <=> Sms!SmsRepeatsExcused
    /\ InboxGroups!SecondInboxIsRace <=> Sms!SecondInboxIsRace
    /\ InboxGroups!RepeatsAreRetries <=> Live!RepeatsAreRetries
    /\ Menus!RepeatsAreRetries <=> Live!RepeatsAreRetries
    /\ SmsFiles!HandedOverOnReturn <=> Live!HandedOverOnReturn
    /\ InboxGroups!HandedOverOnReturn <=> Live!HandedOverOnReturn
    /\ Menus!HandedOverOnReturn <=> Live!HandedOverOnReturn
BY DEF SmsFiles!HandedOverOnReturn, InboxGroups!HandedOverOnReturn, Menus!HandedOverOnReturn,
       Live!HandedOverOnReturn, InboxGroups!RepeatsAreRetries, Menus!RepeatsAreRetries, Live!RepeatsAreRetries,
       InboxGroups!NothingPassedOver, Sms!NothingPassedOver, InboxGroups!SmsRepeatsExcused,
       Sms!SmsRepeatsExcused, InboxGroups!SecondInboxIsRace, Sms!SecondInboxIsRace

----------------------------------------------------------------------------
(* The invariant, and the theorems.                                        *)

ProvedInv ==
    /\ side = "live" => SmsFiles!LiveInv /\ SmsFiles!ReturnInv
    /\ side = "bale" => Menus!BaleInv /\ Menus!ReturnInv
    /\ side = "telegram" => Menus!TelegramInv /\ Menus!ReturnInv
    /\ side \notin {"live", "bale", "telegram"} => InboxGroups!LiveInv /\ InboxGroups!ReturnInv
    /\ side # "inbox" => SmsFiles!SettingsInv
    /\ side = "inbox" => InboxGroups!SettingsInv
    /\ side # "groups" => SmsFiles!AssetsInv
    /\ side = "groups" => InboxGroups!AssetsInv

\* A step of the composition is a step of the side that moves, or leaves the
\* settings and the documents alone.
LEMMA Turns ==
    ASSUME [Next]_vars
    PROVE  /\ side' = side
           /\ side # "inbox" => [Sms!SettingsNext]_(SmsFiles!settingsVars)
           /\ side = "inbox" => [Inbox!SettingsNext]_(InboxGroups!settingsVars)
<1>1. CASE UNCHANGED vars
    BY <1>1 DEF vars, settingsVars, SmsFiles!settingsVars, InboxGroups!settingsVars
<1>2. CASE Next
    <2>1. \/ side = "sms" /\ side' = side /\ Sms!SettingsNext
          \/ side = "inbox" /\ side' = side /\ Inbox!SettingsNext
          \/ side \notin {"sms", "inbox"} /\ side' = side /\ UNCHANGED settingsVars
        BY <1>2 DEF Next, InLive, InAgent, InBale, InTelegram, InSms, InInbox, InFiles, InGroups
    <2> QED BY <2>1 DEF settingsVars, SmsFiles!settingsVars, InboxGroups!settingsVars
<1> QED BY <1>1, <1>2

LEMMA AssetTurns ==
    ASSUME [Next]_vars
    PROVE  /\ side # "groups" => [Files!AssetsNext]_(SmsFiles!assetVars)
           /\ side = "groups" => [Groups!AssetsNext]_(InboxGroups!assetVars)
<1>1. CASE UNCHANGED vars
    BY <1>1 DEF vars, assetVars, SmsFiles!assetVars, InboxGroups!assetVars, SmsFiles!fileVars,
                InboxGroups!fileVars, SmsFiles!groupVars, InboxGroups!groupVars
<1>2. CASE Next
    <2>1. \/ side = "files" /\ Files!AssetsNext
          \/ side = "groups" /\ Groups!AssetsNext
          \/ side \notin {"files", "groups"} /\ UNCHANGED assetVars
        BY <1>2 DEF Next, InLive, InAgent, InBale, InTelegram, InSms, InInbox, InFiles, InGroups
    <2> QED BY <2>1 DEF assetVars, SmsFiles!assetVars, InboxGroups!assetVars, SmsFiles!fileVars,
                        InboxGroups!fileVars, SmsFiles!groupVars, InboxGroups!groupVars
<1> QED BY <1>1, <1>2

LEMMA LiveTurns ==
    ASSUME [Next]_vars
    PROVE  /\ side = "live" => [Live!LiveNext]_(SmsFiles!liveVars)
           /\ side = "bale" => [Bale!BaleNext]_(Menus!baleVars)
           /\ side = "telegram" => [Telegram!TelegramNext]_(Menus!telegramVars)
           /\ side \notin {"live", "bale", "telegram"} => [Agent!LiveNext]_(InboxGroups!liveVars)
<1>1. CASE UNCHANGED vars
    BY <1>1 DEF vars, liveVars, menuVars, SmsFiles!liveVars, InboxGroups!liveVars,
                Menus!liveVars, Menus!menuVars, Menus!baleVars, Menus!telegramVars
<1>2. CASE Next
    <2>1. \/ side = "live" /\ Live!LiveNext
          \/ side = "bale" /\ Bale!BaleNext
          \/ side = "telegram" /\ Telegram!TelegramNext
          \/ side = "agent" /\ Agent!LiveNext
          \/ side \notin {"live", "bale", "telegram", "agent"} /\ UNCHANGED liveVars
        BY <1>2 DEF Next, InLive, InAgent, InBale, InTelegram, InSms, InInbox, InFiles, InGroups
    <2> QED BY <2>1 DEF liveVars, InboxGroups!liveVars
<1> QED BY <1>1, <1>2

LEMMA ProvedAssumption ==
    /\ SmsFiles!SettingsAssumption /\ InboxGroups!SettingsAssumption
    /\ SmsFiles!AssetsAssumption /\ InboxGroups!AssetsAssumption
    /\ SmsFiles!LiveAssumption /\ InboxGroups!LiveAssumption /\ Menus!LiveAssumption
BY EnterpriseAssumption, SmsProved, InboxProved, FilesProved, GroupsProved, LiveProved,
   AgentProved, BaleProved

LEMMA ProvedInit == Init => ProvedInv
<1> SUFFICES ASSUME Init PROVE ProvedInv
    OBVIOUS
<1>1. /\ side # "inbox" => Sms!SettingsInit
      /\ side = "inbox" => Inbox!SettingsInit
      /\ Files!AssetsInit
    BY DEF Init
<1>2. /\ side # "inbox" => SmsFiles!SettingsInv
      /\ side = "inbox" => InboxGroups!SettingsInv
    BY <1>1, ProvedAssumption, SmsProved, InboxProved, SmsFiles!SettingsInvInit,
       InboxGroups!SettingsInvInit
<1>3. SmsFiles!AssetsInv /\ InboxGroups!AssetsInv
    BY <1>1, FilesProved, GroupsProved, SmsFiles!AssetsInvInit, InboxGroups!AssetsInvInit
<1>4. /\ side = "live" => Live!LiveInit("root")
      /\ side = "bale" => Bale!BaleInit
      /\ side = "telegram" => Telegram!TelegramInit
      /\ side \notin {"live", "bale", "telegram"} => Agent!LiveInit("root")
    BY DEF Init, Quiet
<1>5. /\ side = "live" => SmsFiles!LiveInv /\ SmsFiles!ReturnInv
      /\ side = "bale" => Menus!BaleInv /\ Menus!ReturnInv
      /\ side = "telegram" => Menus!TelegramInv /\ Menus!ReturnInv
      /\ side \notin {"live", "bale", "telegram"} =>
            InboxGroups!LiveInv /\ InboxGroups!ReturnInv
    BY <1>4, ProvedAssumption, LiveProved, AgentProved, BaleProved, TelegramProved,
       SmsFiles!LiveInitially, InboxGroups!LiveInitially, SmsFiles!LiveReturnInitially,
       InboxGroups!LiveReturnInitially, Menus!BaleReturnInitially,
       Menus!TelegramReturnInitially
<1> QED BY <1>2, <1>3, <1>5 DEF ProvedInv

LEMMA ProvedStep ==
    ASSUME ProvedInv, [Next]_vars
    PROVE  ProvedInv'
<1>0. /\ SmsFiles!SettingsAssumption /\ InboxGroups!SettingsAssumption
      /\ SmsFiles!AssetsAssumption /\ InboxGroups!AssetsAssumption
    BY ProvedAssumption
<1>1. side' = side
    BY Turns
<1>2. side # "inbox" => SmsFiles!SettingsInv'
    <2> SUFFICES ASSUME side # "inbox" PROVE SmsFiles!SettingsInv'
        OBVIOUS
    <2>1. SmsFiles!SettingsInv /\ [SmsFiles!SettingsNext]_(SmsFiles!settingsVars)
        BY Turns, SmsProved DEF ProvedInv
    <2> QED BY <1>0, <2>1, SmsFiles!SettingsInvStep
<1>3. side = "inbox" => InboxGroups!SettingsInv'
    <2> SUFFICES ASSUME side = "inbox" PROVE InboxGroups!SettingsInv'
        OBVIOUS
    <2>1. InboxGroups!SettingsInv /\ [InboxGroups!SettingsNext]_(InboxGroups!settingsVars)
        BY Turns, InboxProved DEF ProvedInv
    <2> QED BY <1>0, <2>1, InboxGroups!SettingsInvStep
<1>4. side # "groups" => SmsFiles!AssetsInv'
    <2> SUFFICES ASSUME side # "groups" PROVE SmsFiles!AssetsInv'
        OBVIOUS
    <2>1. SmsFiles!AssetsInv /\ [SmsFiles!AssetsNext]_(SmsFiles!assetVars)
        BY AssetTurns, FilesProved DEF ProvedInv
    <2> QED BY <1>0, <2>1, SmsFiles!AssetsInvStep
<1>5. side = "groups" => InboxGroups!AssetsInv'
    <2> SUFFICES ASSUME side = "groups" PROVE InboxGroups!AssetsInv'
        OBVIOUS
    <2>1. InboxGroups!AssetsInv /\ [InboxGroups!AssetsNext]_(InboxGroups!assetVars)
        BY AssetTurns, GroupsProved DEF ProvedInv
    <2> QED BY <1>0, <2>1, InboxGroups!AssetsInvStep
<1>6. side = "live" =>
          SmsFiles!LiveInv' /\ SmsFiles!ReturnInv'
    <2> SUFFICES ASSUME side = "live"
                 PROVE  SmsFiles!LiveInv' /\ SmsFiles!ReturnInv'
        OBVIOUS
    <2>1. SmsFiles!LiveInv /\ SmsFiles!ReturnInv /\ [SmsFiles!LiveNext]_(SmsFiles!liveVars)
        BY LiveTurns, LiveProved DEF ProvedInv
    <2> QED BY ProvedAssumption, <2>1, SmsFiles!LiveSteps, SmsFiles!LiveReturnSteps
<1>7. side \notin {"live", "bale", "telegram"} =>
          InboxGroups!LiveInv' /\ InboxGroups!ReturnInv'
    <2> SUFFICES ASSUME side \notin {"live", "bale", "telegram"}
                 PROVE  InboxGroups!LiveInv' /\ InboxGroups!ReturnInv'
        OBVIOUS
    <2>1. InboxGroups!LiveInv /\ InboxGroups!ReturnInv /\ [InboxGroups!LiveNext]_(InboxGroups!liveVars)
        BY LiveTurns, AgentProved DEF ProvedInv
    <2> QED BY ProvedAssumption, <2>1, InboxGroups!LiveSteps, InboxGroups!LiveReturnSteps
<1>8. side = "bale" =>
          Menus!BaleInv' /\ Menus!ReturnInv'
    <2> SUFFICES ASSUME side = "bale"
                 PROVE  Menus!BaleInv' /\ Menus!ReturnInv'
        OBVIOUS
    <2>1. Menus!BaleInv /\ Menus!ReturnInv /\ [Menus!BaleNext]_(Menus!baleVars)
        BY LiveTurns, BaleProved DEF ProvedInv
    <2> QED BY ProvedAssumption, <2>1, Menus!BaleReturnSteps
<1>9. side = "telegram" =>
          Menus!TelegramInv' /\ Menus!ReturnInv'
    <2> SUFFICES ASSUME side = "telegram"
                 PROVE  Menus!TelegramInv' /\ Menus!ReturnInv'
        OBVIOUS
    <2>1. Menus!TelegramInv /\ Menus!ReturnInv /\ [Menus!TelegramNext]_(Menus!telegramVars)
        BY LiveTurns, TelegramProved DEF ProvedInv
    <2> QED BY ProvedAssumption, <2>1, Menus!TelegramReturnSteps
<1> QED BY <1>1, <1>2, <1>3, <1>4, <1>5, <1>6, <1>7, <1>8, <1>9 DEF ProvedInv

LEMMA ProvedInvariant == Spec => []ProvedInv
<1>1. ProvedInv /\ [Next]_vars => ProvedInv'
    BY ProvedStep
<1> QED BY <1>1, ProvedInit, PTL DEF Spec

LEMMA ProvedMeans ==
    ASSUME ProvedInv
    PROVE  /\ \/ SmsFiles!LiveInv /\ SmsFiles!RepeatsAreRetries
              \/ InboxGroups!LiveInv /\ InboxGroups!RepeatsAreRetries
              \/ Menus!LiveInv /\ Menus!RepeatsAreRetries
           /\ side = "bale" => Menus!MenusFitCustomer
           /\ side = "telegram" => Menus!GroupFitsMenu
BY SmsFiles!LiveInvMeans, InboxGroups!LiveInvMeans, Menus!LiveInvMeans, Menus!BaleInvMeans,
   Menus!TelegramInvMeans DEF ProvedInv

\* An agent's message reaches the customer twice only when the task that sent it
\* could not commit (bale.py, telegram.py).
THEOREM RepeatsAreRetriesInBoth == Spec => []RepeatsAreRetries
<1>1. ProvedInv => RepeatsAreRetries
    BY LiveProved, SameSaid, ProvedMeans DEF RepeatsAreRetries
<1> QED BY <1>1, ProvedInvariant, PTL

\* What was kept for a customer in the menus is not forgotten when he returns to
\* the conversation (bale.py, telegram.py).
THEOREM HandedOverInBoth == Spec => []HandedOverOnReturn
<1>1. ProvedInv => HandedOverOnReturn
    BY SameSaid, SmsFiles!ReturnInvMeans, InboxGroups!ReturnInvMeans, Menus!ReturnInvMeans
       DEF ProvedInv, HandedOverOnReturn
<1> QED BY <1>1, ProvedInvariant, PTL

\* A conversation that was resolved is posted to only after it was reopened under
\* the policy (bale.py, telegram.py).
THEOREM ResolvedIsReopenedFirst == Spec => ResolvedNotReused
<1>1. ASSUME ProvedInv, h.pc = "posting", h.mine[h.s].conv \in h.closed
      PROVE  h.verified = "blind" \/ (h.reopen /\ h.verified = "reopened")
    BY <1>1, ProvedMeans, SmsFiles!PostedFresh, InboxGroups!PostedFresh, Menus!PostedFresh
<1>2. ProvedInv => [Live!Posted /\ h.mine[h.s].conv \in h.closed =>
                        \/ h.verified = "blind"
                        \/ h.reopen /\ h.verified = "reopened"]_(Live!liveVars)
    BY <1>1 DEF Live!Posted
<1> QED BY <1>2, ProvedInvariant, PTL DEF ResolvedNotReused, Live!ResolvedNotReused

\* The menus a customer is in are those his phone number, his registration and
\* his groups allow (bale.py, telegram.py).
THEOREM MenusAlwaysFit == Spec => []MenusFitCustomer
<1>1. ProvedInv => MenusFitCustomer
    BY BaleProved, TelegramProved, ProvedMeans DEF MenusFitCustomer
<1> QED BY <1>1, ProvedInvariant, PTL

\* No text is behind the mark of the SMS synchronization untried, and one is
\* sent again only when runs overlapped or a run could not commit (bale.py).
THEOREM MarkHoldsInBoth == Spec => []SmsMarkHolds
<1>1. ProvedInv => SmsMarkHolds
    BY SmsProved, SameSaid, SmsFiles!SettingsInvMeans, InboxGroups!SettingsInvMeans
       DEF ProvedInv, SmsMarkHolds
<1> QED BY <1>1, ProvedInvariant, PTL

\* A route has a second inbox only when two creations overlapped (bale.py).
THEOREM OneInboxInBoth == Spec => []SecondInboxIsRace
<1>1. ProvedInv => SecondInboxIsRace
    BY SmsProved, SameSaid, SmsFiles!SettingsInvMeans, InboxGroups!SettingsInvMeans
       DEF ProvedInv, SecondInboxIsRace
<1> QED BY <1>1, ProvedInvariant, PTL

\* The catalog that is active is there to be sent, and the groups refer to what
\* exists (documents.py, manual_groups.py).
THEOREM AssetsStayConsistent == Spec => []AssetsConsistent
<1>1. ProvedInv => AssetsConsistent
    BY FilesProved, GroupsProved, SmsFiles!AssetsInvMeans, InboxGroups!AssetsInvMeans
       DEF ProvedInv, AssetsConsistent
<1> QED BY <1>1, ProvedInvariant, PTL
===============================================================================
