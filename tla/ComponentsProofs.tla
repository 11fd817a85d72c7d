---------------------------- MODULE ComponentsProofs ----------------------------
(***************************************************************************)
(* What ContactIdentityProofs proves of the contacts, of the routes that   *)
(* copy an account, of the answers' destinations and of the two bridges,   *)
(* and AccountsProofs of the Eitaa session and of Instagram, holds of the  *)
(* composition that is model-checked: a step of another component leaves   *)
(* this one's state alone.                                                 *)
(***************************************************************************)
EXTENDS MCComponents, TLAPS

TwoProofs == INSTANCE ContactIdentityProofs WITH Peers <- {peer1, peer2}, Resolvers <- {task1},
                 MaxContacts <- 3, MaxAdmin <- 1,
                 Contacts <- {task1, task2, task3}, Numbers <- {"number"}, None <- none,
                 Remembers <- TRUE, MaxMoves <- 2, MaxEdits <- 2, MaxAnswers <- 2, MaxEvents <- 1,
                 NumPeers <- 2, PageSize <- 1, Calls <- {task2, task3},
                 MaxCalls <- 2, MaxHand <- 1, MaxFaults <- 1,
                 Msgs <- {peer1}, Answers <- {}, MaxParts <- 1, MaxConvs <- 2, MaxAgent <- 2,
                 MaxIngests <- 3, MaxWebhooks <- 0,
                 LcMsgs <- {peer1}, LcAnswers <- {}, Mirrors <- TRUE, MaxText <- 2,
                 LcConvs <- 2, LcAgent <- 2, LcIngests <- 3, LcWebhooks <- 1
OneProofs == INSTANCE ContactIdentityProofs WITH Peers <- {peer3}, Resolvers <- {task2, task3},
                 MaxContacts <- 2, MaxAdmin <- 1,
                 Contacts <- {}, Numbers <- {}, None <- none,
                 Remembers <- TRUE, MaxMoves <- 0, MaxEdits <- 0, MaxAnswers <- 0, MaxEvents <- 0,
                 NumPeers <- 1, PageSize <- 1, Calls <- {}, MaxCalls <- 0, MaxHand <- 0,
                 MaxFaults <- 0,
                 Msgs <- {peer1}, Answers <- {answer1}, MaxParts <- 2, MaxConvs <- 2, MaxAgent <- 0,
                 MaxIngests <- 1, MaxWebhooks <- 2,
                 LcMsgs <- {}, LcAnswers <- {answer1}, Mirrors <- TRUE, MaxText <- 3,
                 LcConvs <- 1, LcAgent <- 0, LcIngests <- 1, LcWebhooks <- 3
EitaaNumbersProofs ==
             INSTANCE ContactIdentityProofs WITH Peers <- {peer1, peer2}, Resolvers <- {},
                 MaxContacts <- 0, MaxAdmin <- 0,
                 Contacts <- {task1, task2}, Numbers <- {"number"}, None <- none,
                 Remembers <- FALSE, MaxMoves <- 1, MaxEdits <- 2, MaxAnswers <- 2, MaxEvents <- 1,
                 NumPeers <- 1, PageSize <- 1, Calls <- {}, MaxCalls <- 0, MaxHand <- 0,
                 MaxFaults <- 0,
                 Msgs <- {}, Answers <- {}, MaxParts <- 0, MaxConvs <- 0, MaxAgent <- 0,
                 MaxIngests <- 0, MaxWebhooks <- 0,
                 LcMsgs <- {}, LcAnswers <- {answer1}, Mirrors <- FALSE, MaxText <- 1,
                 LcConvs <- 2, LcAgent <- 2, LcIngests <- 1, LcWebhooks <- 2
AccountProofs ==
             INSTANCE AccountsProofs WITH Requests <- {task2, task3}, MaxRenewals <- 2,
                 MaxTasks <- 3, MaxLogins <- 1, MaxFaults <- 3, MaxFlows <- 2, MaxTurns <- 4,
                 ThreadOf <- <<peer1, peer1>>, Silent <- {},
                 Faults <- {"login", "session", "delivery", "report", "file", "restart"},
                 MaxRuntimes <- 2, MaxCalls <- 2, MaxFailures <- 1
ThreadsProofs ==
             INSTANCE AccountsProofs WITH Requests <- {}, MaxRenewals <- 0,
                 MaxTasks <- 0, MaxLogins <- 0, MaxFaults <- 0, MaxFlows <- 0, MaxTurns <- 0,
                 ThreadOf <- <<peer1, peer2, peer1>>, Silent <- {2},
                 Faults <- {"login", "session", "delivery", "report", "file", "restart"},
                 MaxRuntimes <- 2, MaxCalls <- 0, MaxFailures <- 2

----------------------------------------------------------------------------
(* The proofs' instances of the modules are those of the composition: both *)
(* definitions of each formula are the same once expanded.                 *)

\* Two peers with one number.
LEMMA TwoProved ==
    /\ TwoProofs!IdentityInit <=> Two!IdentityInit
    /\ TwoProofs!IdentityNext <=> Two!IdentityNext
    /\ TwoProofs!OneContactPerPeer <=> Two!OneContactPerPeer
    /\ TwoProofs!KeepsPeer <=> Two!KeepsPeer
    /\ TwoProofs!ContactAssumption <=> Two!ContactAssumption
BY ZenonT(90) DEF
       TwoProofs!ContactAssumption, Two!ContactAssumption, TwoProofs!rowVars,
       Two!rowVars, TwoProofs!remoteVars, Two!remoteVars, TwoProofs!Idle, Two!Idle,
       TwoProofs!Live, Two!Live, TwoProofs!WithNumber, Two!WithNumber,
       TwoProofs!CreatedFor, Two!CreatedFor, TwoProofs!Owners, Two!Owners,
       TwoProofs!IdentityInit, Two!IdentityInit, TwoProofs!At, Two!At, TwoProofs!Goto,
       Two!Goto, TwoProofs!NextCandidate, Two!NextCandidate, TwoProofs!Started,
       Two!Started, TwoProofs!MaySave, Two!MaySave, TwoProofs!Finish, Two!Finish,
       TwoProofs!Invalidated, Two!Invalidated, TwoProofs!MappedAnswered,
       Two!MappedAnswered, TwoProofs!Repair, Two!Repair, TwoProofs!Preferred,
       Two!Preferred, TwoProofs!CandidateAnswered, Two!CandidateAnswered,
       TwoProofs!Reserved, Two!Reserved, TwoProofs!AnchorAnswered, Two!AnchorAnswered,
       TwoProofs!SourceAnswered, Two!SourceAnswered, TwoProofs!Searched, Two!Searched,
       TwoProofs!SourceId, Two!SourceId, TwoProofs!CreateSent, Two!CreateSent,
       TwoProofs!CreateAnswered, Two!CreateAnswered, TwoProofs!CreateFailed,
       Two!CreateFailed, TwoProofs!Returned, Two!Returned, TwoProofs!ResolutionFails,
       Two!ResolutionFails, TwoProofs!Accepts, Two!Accepts, TwoProofs!ChatwootCreates,
       Two!ChatwootCreates, TwoProofs!AgentEdits, Two!AgentEdits, TwoProofs!Resolution,
       Two!Resolution, TwoProofs!IdentityNext, Two!IdentityNext,
       TwoProofs!OneContactPerPeer, Two!OneContactPerPeer, TwoProofs!KeepsPeer,
       Two!KeepsPeer

\* Two resolutions of one peer.
LEMMA OneProved ==
    /\ OneProofs!IdentityInit <=> One!IdentityInit
    /\ OneProofs!IdentityNext <=> One!IdentityNext
    /\ OneProofs!OneContactPerPeer <=> One!OneContactPerPeer
    /\ OneProofs!KeepsPeer <=> One!KeepsPeer
    /\ OneProofs!ContactAssumption <=> One!ContactAssumption
BY ZenonT(90) DEF
       OneProofs!ContactAssumption, One!ContactAssumption, OneProofs!rowVars,
       One!rowVars, OneProofs!remoteVars, One!remoteVars, OneProofs!Idle, One!Idle,
       OneProofs!Live, One!Live, OneProofs!WithNumber, One!WithNumber,
       OneProofs!CreatedFor, One!CreatedFor, OneProofs!Owners, One!Owners,
       OneProofs!IdentityInit, One!IdentityInit, OneProofs!At, One!At, OneProofs!Goto,
       One!Goto, OneProofs!NextCandidate, One!NextCandidate, OneProofs!Started,
       One!Started, OneProofs!MaySave, One!MaySave, OneProofs!Finish, One!Finish,
       OneProofs!Invalidated, One!Invalidated, OneProofs!MappedAnswered,
       One!MappedAnswered, OneProofs!Repair, One!Repair, OneProofs!Preferred,
       One!Preferred, OneProofs!CandidateAnswered, One!CandidateAnswered,
       OneProofs!Reserved, One!Reserved, OneProofs!AnchorAnswered, One!AnchorAnswered,
       OneProofs!SourceAnswered, One!SourceAnswered, OneProofs!Searched, One!Searched,
       OneProofs!SourceId, One!SourceId, OneProofs!CreateSent, One!CreateSent,
       OneProofs!CreateAnswered, One!CreateAnswered, OneProofs!CreateFailed,
       One!CreateFailed, OneProofs!Returned, One!Returned, OneProofs!ResolutionFails,
       One!ResolutionFails, OneProofs!Accepts, One!Accepts, OneProofs!ChatwootCreates,
       One!ChatwootCreates, OneProofs!AgentEdits, One!AgentEdits, OneProofs!Resolution,
       One!Resolution, OneProofs!IdentityNext, One!IdentityNext,
       OneProofs!OneContactPerPeer, One!OneContactPerPeer, OneProofs!KeepsPeer,
       One!KeepsPeer

\* The Eitaa session.
LEMMA EitaaProved ==
    /\ AccountProofs!EitaaInit <=> Eitaa!EitaaInit
    /\ AccountProofs!EitaaNext <=> Eitaa!EitaaNext
    /\ AccountProofs!TokenKept <=> Eitaa!TokenKept
    /\ AccountProofs!AskedOnce <=> Eitaa!AskedOnce
    /\ AccountProofs!NewLoginStays <=> Eitaa!NewLoginStays
    /\ AccountProofs!SessionAssumption <=> Eitaa!SessionAssumption
BY ZenonT(90) DEF
       AccountProofs!SessionAssumption, Eitaa!SessionAssumption, AccountProofs!Tasks,
       Eitaa!Tasks, AccountProofs!None, Eitaa!None, AccountProofs!tokens, Eitaa!tokens,
       AccountProofs!flags, Eitaa!flags, AccountProofs!Idle, Eitaa!Idle,
       AccountProofs!Unused, Eitaa!Unused, AccountProofs!EitaaInit, Eitaa!EitaaInit,
       AccountProofs!Fault, Eitaa!Fault, AccountProofs!Running, Eitaa!Running,
       AccountProofs!Req, Eitaa!Req, AccountProofs!Ren, Eitaa!Ren, AccountProofs!Newer,
       Eitaa!Newer, AccountProofs!Issues, Eitaa!Issues, AccountProofs!Outdated,
       Eitaa!Outdated, AccountProofs!Recover, Eitaa!Recover, AccountProofs!Invoke,
       Eitaa!Invoke, AccountProofs!Begins, Eitaa!Begins, AccountProofs!Awaited,
       Eitaa!Awaited, AccountProofs!Answered, Eitaa!Answered, AccountProofs!Revoked,
       Eitaa!Revoked, AccountProofs!Rejected, Eitaa!Rejected, AccountProofs!Expired,
       Eitaa!Expired, AccountProofs!Rotated, Eitaa!Rotated, AccountProofs!Ended,
       Eitaa!Ended, AccountProofs!Defers, Eitaa!Defers, AccountProofs!RenewalBegins,
       Eitaa!RenewalBegins, AccountProofs!Served, Eitaa!Served, AccountProofs!RenewalRead,
       Eitaa!RenewalRead, AccountProofs!RenewalFails, Eitaa!RenewalFails,
       AccountProofs!RenewalRefused, Eitaa!RenewalRefused, AccountProofs!Saved,
       Eitaa!Saved, AccountProofs!NotSaved, Eitaa!NotSaved, AccountProofs!Renewed,
       Eitaa!Renewed, AccountProofs!BackoffEnds, Eitaa!BackoffEnds,
       AccountProofs!ValidateCode, Eitaa!ValidateCode, AccountProofs!Prepared,
       Eitaa!Prepared, AccountProofs!SignedIn, Eitaa!SignedIn, AccountProofs!Restarts,
       Eitaa!Restarts, AccountProofs!Requesting, Eitaa!Requesting, AccountProofs!Renewing,
       Eitaa!Renewing, AccountProofs!EitaaNext, Eitaa!EitaaNext, AccountProofs!Held,
       Eitaa!Held, AccountProofs!TokenKept, Eitaa!TokenKept, AccountProofs!AskedOnce,
       Eitaa!AskedOnce, AccountProofs!NewLoginStays, Eitaa!NewLoginStays

\* The numbers Bale resolves, and those Eitaa does.
LEMMA BaleNumbersProved ==
    /\ TwoProofs!Phone!PhoneAssumption <=> BaleNumbers!PhoneAssumption
    /\ TwoProofs!Phone!PhoneInit <=> BaleNumbers!PhoneInit
    /\ TwoProofs!Phone!PhoneNext <=> BaleNumbers!PhoneNext
    /\ TwoProofs!Phone!OnlyToOwners <=> BaleNumbers!OnlyToOwners
    /\ TwoProofs!Phone!OnePeerPerContact <=> BaleNumbers!OnePeerPerContact
BY ZenonT(90) DEF
       TwoProofs!Phone!Activated, BaleNumbers!Activated,
       TwoProofs!Phone!AliasAnswered, BaleNumbers!AliasAnswered,
       TwoProofs!Phone!AliasWanted, BaleNumbers!AliasWanted,
       TwoProofs!Phone!AnswerFails, BaleNumbers!AnswerFails,
       TwoProofs!Phone!Answered, BaleNumbers!Answered, TwoProofs!Phone!At,
       BaleNumbers!At, TwoProofs!Phone!ByContact, BaleNumbers!ByContact,
       TwoProofs!Phone!ByNumber, BaleNumbers!ByNumber, TwoProofs!Phone!ByRow,
       BaleNumbers!ByRow, TwoProofs!Phone!ConversationResolved,
       BaleNumbers!ConversationResolved, TwoProofs!Phone!Delivery,
       BaleNumbers!Delivery, TwoProofs!Phone!Fails, BaleNumbers!Fails,
       TwoProofs!Phone!Goto, BaleNumbers!Goto, TwoProofs!Phone!Mapped,
       BaleNumbers!Mapped, TwoProofs!Phone!NoJob, BaleNumbers!NoJob,
       TwoProofs!Phone!NumberAnswered, BaleNumbers!NumberAnswered,
       TwoProofs!Phone!NumberEdited, BaleNumbers!NumberEdited,
       TwoProofs!Phone!NumberMoves, BaleNumbers!NumberMoves,
       TwoProofs!Phone!OnePeerPerContact, BaleNumbers!OnePeerPerContact,
       TwoProofs!Phone!OnlyToOwners, BaleNumbers!OnlyToOwners,
       TwoProofs!Phone!Owners, BaleNumbers!Owners,
       TwoProofs!Phone!PhoneAssumption, BaleNumbers!PhoneAssumption,
       TwoProofs!Phone!PhoneInit, BaleNumbers!PhoneInit,
       TwoProofs!Phone!PhoneNext, BaleNumbers!PhoneNext, TwoProofs!Phone!Saved,
       BaleNumbers!Saved, TwoProofs!Phone!Sent, BaleNumbers!Sent,
       TwoProofs!Phone!Spend, BaleNumbers!Spend, TwoProofs!Phone!Verifies,
       BaleNumbers!Verifies, TwoProofs!Phone!Writes, BaleNumbers!Writes,
       TwoProofs!Phone!historyVars, BaleNumbers!historyVars,
       TwoProofs!Phone!remoteVars, BaleNumbers!remoteVars,
       TwoProofs!Phone!rowVars, BaleNumbers!rowVars, TwoProofs!Phone!AccountOf,
       BaleNumbers!AccountOf, TwoProofs!Phone!Cardinality, BaleNumbers!Cardinality

LEMMA EitaaNumbersProved ==
    /\ EitaaNumbersProofs!Phone!PhoneAssumption <=> EitaaNumbers!PhoneAssumption
    /\ EitaaNumbersProofs!Phone!PhoneInit <=> EitaaNumbers!PhoneInit
    /\ EitaaNumbersProofs!Phone!PhoneNext <=> EitaaNumbers!PhoneNext
    /\ EitaaNumbersProofs!Phone!OnlyToOwners <=> EitaaNumbers!OnlyToOwners
    /\ EitaaNumbersProofs!Phone!OnePeerPerContact <=> EitaaNumbers!OnePeerPerContact
BY ZenonT(90) DEF
       EitaaNumbersProofs!Phone!Activated, EitaaNumbers!Activated,
       EitaaNumbersProofs!Phone!AliasAnswered, EitaaNumbers!AliasAnswered,
       EitaaNumbersProofs!Phone!AliasWanted, EitaaNumbers!AliasWanted,
       EitaaNumbersProofs!Phone!AnswerFails, EitaaNumbers!AnswerFails,
       EitaaNumbersProofs!Phone!Answered, EitaaNumbers!Answered,
       EitaaNumbersProofs!Phone!At, EitaaNumbers!At,
       EitaaNumbersProofs!Phone!ByContact, EitaaNumbers!ByContact,
       EitaaNumbersProofs!Phone!ByNumber, EitaaNumbers!ByNumber,
       EitaaNumbersProofs!Phone!ByRow, EitaaNumbers!ByRow,
       EitaaNumbersProofs!Phone!ConversationResolved,
       EitaaNumbers!ConversationResolved, EitaaNumbersProofs!Phone!Delivery,
       EitaaNumbers!Delivery, EitaaNumbersProofs!Phone!Fails, EitaaNumbers!Fails,
       EitaaNumbersProofs!Phone!Goto, EitaaNumbers!Goto,
       EitaaNumbersProofs!Phone!Mapped, EitaaNumbers!Mapped,
       EitaaNumbersProofs!Phone!NoJob, EitaaNumbers!NoJob,
       EitaaNumbersProofs!Phone!NumberAnswered, EitaaNumbers!NumberAnswered,
       EitaaNumbersProofs!Phone!NumberEdited, EitaaNumbers!NumberEdited,
       EitaaNumbersProofs!Phone!NumberMoves, EitaaNumbers!NumberMoves,
       EitaaNumbersProofs!Phone!OnePeerPerContact, EitaaNumbers!OnePeerPerContact,
       EitaaNumbersProofs!Phone!OnlyToOwners, EitaaNumbers!OnlyToOwners,
       EitaaNumbersProofs!Phone!Owners, EitaaNumbers!Owners,
       EitaaNumbersProofs!Phone!PhoneAssumption, EitaaNumbers!PhoneAssumption,
       EitaaNumbersProofs!Phone!PhoneInit, EitaaNumbers!PhoneInit,
       EitaaNumbersProofs!Phone!PhoneNext, EitaaNumbers!PhoneNext,
       EitaaNumbersProofs!Phone!Saved, EitaaNumbers!Saved,
       EitaaNumbersProofs!Phone!Sent, EitaaNumbers!Sent,
       EitaaNumbersProofs!Phone!Spend, EitaaNumbers!Spend,
       EitaaNumbersProofs!Phone!Verifies, EitaaNumbers!Verifies,
       EitaaNumbersProofs!Phone!Writes, EitaaNumbers!Writes,
       EitaaNumbersProofs!Phone!historyVars, EitaaNumbers!historyVars,
       EitaaNumbersProofs!Phone!remoteVars, EitaaNumbers!remoteVars,
       EitaaNumbersProofs!Phone!rowVars, EitaaNumbers!rowVars,
       EitaaNumbersProofs!Phone!AccountOf, EitaaNumbers!AccountOf,
       EitaaNumbersProofs!Phone!Cardinality, EitaaNumbers!Cardinality

\* The logins of an Instagram account.
LEMMA ChallengeProved ==
    /\ AccountProofs!Login!ChallengeAssumption <=> Challenge!ChallengeAssumption
    /\ AccountProofs!Login!ChallengeInit <=> Challenge!ChallengeInit
    /\ AccountProofs!Login!ChallengeNext <=> Challenge!ChallengeNext
    /\ AccountProofs!Login!OneLogin <=> Challenge!OneLogin
    /\ AccountProofs!Login!ShutOutByFlow <=> Challenge!ShutOutByFlow
    /\ AccountProofs!Login!LoginsWait <=> Challenge!LoginsWait
BY ZenonT(90) DEF
       AccountProofs!Login!Adopted, Challenge!Adopted, AccountProofs!Login!Asked,
       Challenge!Asked, AccountProofs!Login!Callers, Challenge!Callers,
       AccountProofs!Login!ChallengeAssumption, Challenge!ChallengeAssumption,
       AccountProofs!Login!ChallengeInit, Challenge!ChallengeInit,
       AccountProofs!Login!ChallengeNext, Challenge!ChallengeNext,
       AccountProofs!Login!Check, Challenge!Check, AccountProofs!Login!CodeRead,
       Challenge!CodeRead, AccountProofs!Login!Connect, Challenge!Connect,
       AccountProofs!Login!Connecting, Challenge!Connecting,
       AccountProofs!Login!Edits, Challenge!Edits, AccountProofs!Login!Expires,
       Challenge!Expires, AccountProofs!Login!Failing, Challenge!Failing,
       AccountProofs!Login!FlowAdopts, Challenge!FlowAdopts,
       AccountProofs!Login!FlowFails, Challenge!FlowFails, AccountProofs!Login!Flows,
       Challenge!Flows, AccountProofs!Login!Frozen, Challenge!Frozen,
       AccountProofs!Login!Goes, Challenge!Goes, AccountProofs!Login!InProgress,
       Challenge!InProgress, AccountProofs!Login!Locks, Challenge!Locks,
       AccountProofs!Login!LoggedIn, Challenge!LoggedIn,
       AccountProofs!Login!LoggingIn, Challenge!LoggingIn,
       AccountProofs!Login!LoginsWait, Challenge!LoginsWait,
       AccountProofs!Login!NewSession, Challenge!NewSession,
       AccountProofs!Login!OneLogin, Challenge!OneLogin, AccountProofs!Login!Panel,
       Challenge!Panel, AccountProofs!Login!Passed, Challenge!Passed,
       AccountProofs!Login!Reconnect, Challenge!Reconnect, AccountProofs!Login!Resume,
       Challenge!Resume, AccountProofs!Login!Resumed, Challenge!Resumed,
       AccountProofs!Login!Runs, Challenge!Runs, AccountProofs!Login!ShutOutByFlow,
       Challenge!ShutOutByFlow, AccountProofs!Login!Start, Challenge!Start,
       AccountProofs!Login!StartLoaded, Challenge!StartLoaded,
       AccountProofs!Login!StartLocks, Challenge!StartLocks,
       AccountProofs!Login!StartReturns, Challenge!StartReturns,
       AccountProofs!Login!Submit, Challenge!Submit, AccountProofs!Login!Those,
       Challenge!Those, AccountProofs!Login!Thread, Challenge!Thread,
       AccountProofs!Login!Threads, Challenge!Threads, AccountProofs!Login!Turn,
       Challenge!Turn, AccountProofs!Login!Waiting, Challenge!Waiting,
       AccountProofs!Login!loginVars, Challenge!loginVars,
       AccountProofs!Login!Cardinality, Challenge!Cardinality

\* What an Instagram account with one thread receives, and one with two.
LEMMA AccountProved ==
    /\ AccountProofs!Inbox!InboxAssumption <=> Account!InboxAssumption
    /\ AccountProofs!Inbox!InboxInit <=> Account!InboxInit
    /\ AccountProofs!Inbox!InboxNext <=> Account!InboxNext
    /\ AccountProofs!Inbox!NothingForgotten <=> Account!NothingForgotten
    /\ AccountProofs!Inbox!InOrder <=> Account!InOrder
BY ZenonT(90) DEF
       AccountProofs!Inbox!Ahead, Account!Ahead, AccountProofs!Inbox!Calls,
       Account!Calls, AccountProofs!Inbox!Calm, Account!Calm,
       AccountProofs!Inbox!Check, Account!Check, AccountProofs!Inbox!Commits,
       Account!Commits, AccountProofs!Inbox!Connect, Account!Connect,
       AccountProofs!Inbox!Connecting, Account!Connecting,
       AccountProofs!Inbox!Delivered, Account!Delivered,
       AccountProofs!Inbox!Delivers, Account!Delivers, AccountProofs!Inbox!Disable,
       Account!Disable, AccountProofs!Inbox!Drained, Account!Drained,
       AccountProofs!Inbox!Drains, Account!Drains, AccountProofs!Inbox!Dumped,
       Account!Dumped, AccountProofs!Inbox!Enable, Account!Enable,
       AccountProofs!Inbox!Fails, Account!Fails, AccountProofs!Inbox!FaultKinds,
       Account!FaultKinds, AccountProofs!Inbox!FetchFails, Account!FetchFails,
       AccountProofs!Inbox!Fetched, Account!Fetched, AccountProofs!Inbox!GetUpdates,
       Account!GetUpdates, AccountProofs!Inbox!Goes, Account!Goes,
       AccountProofs!Inbox!InOrder, Account!InOrder,
       AccountProofs!Inbox!InboxAssumption, Account!InboxAssumption,
       AccountProofs!Inbox!InboxInit, Account!InboxInit,
       AccountProofs!Inbox!InboxNext, Account!InboxNext, AccountProofs!Inbox!Leaves,
       Account!Leaves, AccountProofs!Inbox!Live, Account!Live,
       AccountProofs!Inbox!LoginFails, Account!LoginFails,
       AccountProofs!Inbox!LoginSucceeds, Account!LoginSucceeds,
       AccountProofs!Inbox!ManagerStarts, Account!ManagerStarts,
       AccountProofs!Inbox!ManagerStops, Account!ManagerStops,
       AccountProofs!Inbox!Mark, Account!Mark, AccountProofs!Inbox!Merged,
       Account!Merged, AccountProofs!Inbox!MessageSent, Account!MessageSent,
       AccountProofs!Inbox!Messages, Account!Messages, AccountProofs!Inbox!Newer,
       Account!Newer, AccountProofs!Inbox!Newest, Account!Newest,
       AccountProofs!Inbox!Noted, Account!Noted,
       AccountProofs!Inbox!NothingForgotten, Account!NothingForgotten,
       AccountProofs!Inbox!Panel, Account!Panel, AccountProofs!Inbox!Passed,
       Account!Passed, AccountProofs!Inbox!Persists, Account!Persists,
       AccountProofs!Inbox!Polls, Account!Polls, AccountProofs!Inbox!Probed,
       Account!Probed, AccountProofs!Inbox!Reconnect, Account!Reconnect,
       AccountProofs!Inbox!Refused, Account!Refused, AccountProofs!Inbox!Registers,
       Account!Registers, AccountProofs!Inbox!Requeued, Account!Requeued,
       AccountProofs!Inbox!Restarts, Account!Restarts, AccountProofs!Inbox!Returned,
       Account!Returned, AccountProofs!Inbox!SessionObject, Account!SessionObject,
       AccountProofs!Inbox!Sorted, Account!Sorted, AccountProofs!Inbox!Task,
       Account!Task, AccountProofs!Inbox!Threads, Account!Threads,
       AccountProofs!Inbox!Undelivered, Account!Undelivered,
       AccountProofs!Inbox!Unread, Account!Unread, AccountProofs!Inbox!Works,
       Account!Works,
       AccountProofs!Inbox!Unlocked, Account!Unlocked, AccountProofs!Inbox!Other,
       Account!Other, AccountProofs!Inbox!Verified, Account!Verified,
       AccountProofs!Inbox!VerificationFails, Account!VerificationFails,
       AccountProofs!Inbox!Waited, Account!Waited, AccountProofs!Inbox!Writes,
       Account!Writes, AccountProofs!Inbox!Skipped, Account!Skipped,
       AccountProofs!Inbox!clientVars, Account!clientVars,
       AccountProofs!Inbox!spending, Account!spending, AccountProofs!Inbox!switches,
       Account!switches, AccountProofs!Inbox!taskVars, Account!taskVars,
       AccountProofs!Inbox!Range, Account!Range, AccountProofs!Inbox!Last,
       Account!Last, AccountProofs!Inbox!Cardinality, Account!Cardinality

LEMMA ThreadsProved ==
    /\ ThreadsProofs!Inbox!InboxAssumption <=> Threads!InboxAssumption
    /\ ThreadsProofs!Inbox!InboxInit <=> Threads!InboxInit
    /\ ThreadsProofs!Inbox!InboxNext <=> Threads!InboxNext
    /\ ThreadsProofs!Inbox!NothingForgotten <=> Threads!NothingForgotten
    /\ ThreadsProofs!Inbox!InOrder <=> Threads!InOrder
BY ZenonT(90) DEF
       ThreadsProofs!Inbox!Ahead, Threads!Ahead, ThreadsProofs!Inbox!Calls,
       Threads!Calls, ThreadsProofs!Inbox!Calm, Threads!Calm,
       ThreadsProofs!Inbox!Check, Threads!Check, ThreadsProofs!Inbox!Commits,
       Threads!Commits, ThreadsProofs!Inbox!Connect, Threads!Connect,
       ThreadsProofs!Inbox!Connecting, Threads!Connecting,
       ThreadsProofs!Inbox!Delivered, Threads!Delivered,
       ThreadsProofs!Inbox!Delivers, Threads!Delivers, ThreadsProofs!Inbox!Disable,
       Threads!Disable, ThreadsProofs!Inbox!Drained, Threads!Drained,
       ThreadsProofs!Inbox!Drains, Threads!Drains, ThreadsProofs!Inbox!Dumped,
       Threads!Dumped, ThreadsProofs!Inbox!Enable, Threads!Enable,
       ThreadsProofs!Inbox!Fails, Threads!Fails, ThreadsProofs!Inbox!FaultKinds,
       Threads!FaultKinds, ThreadsProofs!Inbox!FetchFails, Threads!FetchFails,
       ThreadsProofs!Inbox!Fetched, Threads!Fetched, ThreadsProofs!Inbox!GetUpdates,
       Threads!GetUpdates, ThreadsProofs!Inbox!Goes, Threads!Goes,
       ThreadsProofs!Inbox!InOrder, Threads!InOrder,
       ThreadsProofs!Inbox!InboxAssumption, Threads!InboxAssumption,
       ThreadsProofs!Inbox!InboxInit, Threads!InboxInit,
       ThreadsProofs!Inbox!InboxNext, Threads!InboxNext, ThreadsProofs!Inbox!Leaves,
       Threads!Leaves, ThreadsProofs!Inbox!Live, Threads!Live,
       ThreadsProofs!Inbox!LoginFails, Threads!LoginFails,
       ThreadsProofs!Inbox!LoginSucceeds, Threads!LoginSucceeds,
       ThreadsProofs!Inbox!ManagerStarts, Threads!ManagerStarts,
       ThreadsProofs!Inbox!ManagerStops, Threads!ManagerStops,
       ThreadsProofs!Inbox!Mark, Threads!Mark, ThreadsProofs!Inbox!Merged,
       Threads!Merged, ThreadsProofs!Inbox!MessageSent, Threads!MessageSent,
       ThreadsProofs!Inbox!Messages, Threads!Messages, ThreadsProofs!Inbox!Newer,
       Threads!Newer, ThreadsProofs!Inbox!Newest, Threads!Newest,
       ThreadsProofs!Inbox!Noted, Threads!Noted,
       ThreadsProofs!Inbox!NothingForgotten, Threads!NothingForgotten,
       ThreadsProofs!Inbox!Panel, Threads!Panel, ThreadsProofs!Inbox!Passed,
       Threads!Passed, ThreadsProofs!Inbox!Persists, Threads!Persists,
       ThreadsProofs!Inbox!Polls, Threads!Polls, ThreadsProofs!Inbox!Probed,
       Threads!Probed, ThreadsProofs!Inbox!Reconnect, Threads!Reconnect,
       ThreadsProofs!Inbox!Refused, Threads!Refused, ThreadsProofs!Inbox!Registers,
       Threads!Registers, ThreadsProofs!Inbox!Requeued, Threads!Requeued,
       ThreadsProofs!Inbox!Restarts, Threads!Restarts, ThreadsProofs!Inbox!Returned,
       Threads!Returned, ThreadsProofs!Inbox!SessionObject, Threads!SessionObject,
       ThreadsProofs!Inbox!Sorted, Threads!Sorted, ThreadsProofs!Inbox!Task,
       Threads!Task, ThreadsProofs!Inbox!Threads, Threads!Threads,
       ThreadsProofs!Inbox!Undelivered, Threads!Undelivered,
       ThreadsProofs!Inbox!Unread, Threads!Unread, ThreadsProofs!Inbox!Works,
       Threads!Works,
       ThreadsProofs!Inbox!Unlocked, Threads!Unlocked, ThreadsProofs!Inbox!Other,
       Threads!Other, ThreadsProofs!Inbox!Verified, Threads!Verified,
       ThreadsProofs!Inbox!VerificationFails, Threads!VerificationFails,
       ThreadsProofs!Inbox!Waited, Threads!Waited, ThreadsProofs!Inbox!Writes,
       Threads!Writes, ThreadsProofs!Inbox!Skipped, Threads!Skipped,
       ThreadsProofs!Inbox!clientVars, Threads!clientVars,
       ThreadsProofs!Inbox!spending, Threads!spending, ThreadsProofs!Inbox!switches,
       Threads!switches, ThreadsProofs!Inbox!taskVars, Threads!taskVars,
       ThreadsProofs!Inbox!Range, Threads!Range, ThreadsProofs!Inbox!Last,
       Threads!Last, ThreadsProofs!Inbox!Cardinality, Threads!Cardinality

\* The routes that copy an account.
LEMMA SyncProved ==
    /\ TwoProofs!Sync!SyncAssumption <=> Sync!SyncAssumption
    /\ TwoProofs!Sync!SyncInit <=> Sync!SyncInit
    /\ TwoProofs!Sync!SyncNext <=> Sync!SyncNext
    /\ TwoProofs!Sync!NamesStay <=> Sync!NamesStay
    /\ TwoProofs!Sync!RemovalLeavesMoved <=> Sync!RemovalLeavesMoved
BY ZenonT(90) DEF
       TwoProofs!Sync!SyncAssumption, Sync!SyncAssumption, TwoProofs!Sync!syncVars,
       Sync!syncVars, TwoProofs!Sync!remoteVars, Sync!remoteVars, TwoProofs!Sync!Peers,
       Sync!Peers, TwoProofs!Sync!There, Sync!There, TwoProofs!Sync!IsGeneric,
       Sync!IsGeneric, TwoProofs!Sync!NoCall, Sync!NoCall, TwoProofs!Sync!NoLook,
       Sync!NoLook, TwoProofs!Sync!Spend, Sync!Spend, TwoProofs!Sync!Set, Sync!Set,
       TwoProofs!Sync!At, Sync!At, TwoProofs!Sync!SyncInit, Sync!SyncInit,
       TwoProofs!Sync!Routes, Sync!Routes, TwoProofs!Sync!Begins, Sync!Begins,
       TwoProofs!Sync!Listed, Sync!Listed, TwoProofs!Sync!Labelled, Sync!Labelled,
       TwoProofs!Sync!Fetched, Sync!Fetched, TwoProofs!Sync!FetchedNameless,
       Sync!FetchedNameless, TwoProofs!Sync!FetchFails, Sync!FetchFails,
       TwoProofs!Sync!EndMarks, Sync!EndMarks, TwoProofs!Sync!NextPeer, Sync!NextPeer,
       TwoProofs!Sync!AfterContact, Sync!AfterContact, TwoProofs!Sync!Resolved,
       Sync!Resolved, TwoProofs!Sync!Renames, Sync!Renames, TwoProofs!Sync!ContactRead,
       Sync!ContactRead, TwoProofs!Sync!Written, Sync!Written,
       TwoProofs!Sync!ContactRenamed, Sync!ContactRenamed, TwoProofs!Sync!PeerFails,
       Sync!PeerFails, TwoProofs!Sync!Imported, Sync!Imported,
       TwoProofs!Sync!HookHandled, Sync!HookHandled, TwoProofs!Sync!Rank, Sync!Rank,
       TwoProofs!Sync!Page, Sync!Page, TwoProofs!Sync!Searched, Sync!Searched,
       TwoProofs!Sync!First, Sync!First, TwoProofs!Sync!NextOnPage, Sync!NextOnPage,
       TwoProofs!Sync!Deleted, Sync!Deleted, TwoProofs!Sync!DeleteFails,
       Sync!DeleteFails, TwoProofs!Sync!SearchFails, Sync!SearchFails,
       TwoProofs!Sync!Looks, Sync!Looks, TwoProofs!Sync!Looked, Sync!Looked,
       TwoProofs!Sync!Repaired, Sync!Repaired, TwoProofs!Sync!AgentNames,
       Sync!AgentNames, TwoProofs!Sync!ShowsAnother, Sync!ShowsAnother,
       TwoProofs!Sync!Call, Sync!Call, TwoProofs!Sync!SyncNext, Sync!SyncNext,
       TwoProofs!Sync!NamesStay, Sync!NamesStay, TwoProofs!Sync!RemovalLeavesMoved,
       Sync!RemovalLeavesMoved, TwoProofs!Sync!Cardinality, Sync!Cardinality

\* The generic bridge: repeated messages, and answers side by side.
LEMMA IntakeProved ==
    /\ TwoProofs!Br!BridgeInit <=> Intake!BridgeInit
    /\ TwoProofs!Br!BridgeNext <=> Intake!BridgeNext
    /\ TwoProofs!Br!CopiesExcused <=> Intake!CopiesExcused
    /\ TwoProofs!Br!LooksFirst <=> Intake!LooksFirst
    /\ TwoProofs!Br!BridgeAssumption <=> Intake!BridgeAssumption
BY ZenonT(90) DEF
       TwoProofs!Br!mappingVars, Intake!mappingVars, TwoProofs!Br!rowVars,
       Intake!rowVars, TwoProofs!Br!Resolved, Intake!Resolved, TwoProofs!Br!There,
       Intake!There, TwoProofs!Br!Listing, Intake!Listing, TwoProofs!Br!Newest,
       Intake!Newest, TwoProofs!Br!Select, Intake!Select, TwoProofs!Br!Current,
       Intake!Current, TwoProofs!Br!MappingInit, Intake!MappingInit,
       TwoProofs!Br!Creates, Intake!Creates, TwoProofs!Br!Opens, Intake!Opens,
       TwoProofs!Br!AgentSets, Intake!AgentSets, TwoProofs!Br!BridgeAssumption,
       Intake!BridgeAssumption, TwoProofs!Br!Parts, Intake!Parts, TwoProofs!Br!inVars,
       Intake!inVars, TwoProofs!Br!outVars, Intake!outVars, TwoProofs!Br!NoTx,
       Intake!NoTx, TwoProofs!Br!NoEvent, Intake!NoEvent, TwoProofs!Br!IdleTask,
       Intake!IdleTask, TwoProofs!Br!IdleRun, Intake!IdleRun, TwoProofs!Br!BridgeInit,
       Intake!BridgeInit, TwoProofs!Br!Locked, Intake!Locked, TwoProofs!Br!CanFlush,
       Intake!CanFlush, TwoProofs!Br!Flush, Intake!Flush, TwoProofs!Br!Commit,
       Intake!Commit, TwoProofs!Br!CustomerActs, Intake!CustomerActs,
       TwoProofs!Br!IngestBegins, Intake!IngestBegins, TwoProofs!Br!MappedIn,
       Intake!MappedIn, TwoProofs!Br!Remapped, Intake!Remapped, TwoProofs!Br!Decided,
       Intake!Decided, TwoProofs!Br!Settled, Intake!Settled, TwoProofs!Br!Opened,
       Intake!Opened, TwoProofs!Br!FirstConversation, Intake!FirstConversation,
       TwoProofs!Br!NextConversation, Intake!NextConversation, TwoProofs!Br!Listed,
       Intake!Listed, TwoProofs!Br!ReopenAnswered, Intake!ReopenAnswered,
       TwoProofs!Br!ConversationCreated, Intake!ConversationCreated,
       TwoProofs!Br!Posted, Intake!Posted, TwoProofs!Br!PostRefused, Intake!PostRefused,
       TwoProofs!Br!Recover, Intake!Recover, TwoProofs!Br!RecoveryListed,
       Intake!RecoveryListed, TwoProofs!Br!RecoveryReopened, Intake!RecoveryReopened,
       TwoProofs!Br!RecoveryCreated, Intake!RecoveryCreated, TwoProofs!Br!Mapped,
       Intake!Mapped, TwoProofs!Br!DeleteAnswered, Intake!DeleteAnswered,
       TwoProofs!Br!EditAnswered, Intake!EditAnswered, TwoProofs!Br!IngestFails,
       Intake!IngestFails, TwoProofs!Br!AgentWrites, Intake!AgentWrites,
       TwoProofs!Br!WebhookBegins, Intake!WebhookBegins, TwoProofs!Br!Connected,
       Intake!Connected, TwoProofs!Br!PartSent, Intake!PartSent, TwoProofs!Br!RunEnds,
       Intake!RunEnds, TwoProofs!Br!DeleteWebhook, Intake!DeleteWebhook,
       TwoProofs!Br!Recalled, Intake!Recalled, TwoProofs!Br!RunFails, Intake!RunFails,
       TwoProofs!Br!Ingestion, Intake!Ingestion, TwoProofs!Br!Run, Intake!Run,
       TwoProofs!Br!AgentSetsStatus, Intake!AgentSetsStatus, TwoProofs!Br!BridgeNext,
       Intake!BridgeNext, TwoProofs!Br!CopiesExcused, Intake!CopiesExcused,
       TwoProofs!Br!LooksFirst, Intake!LooksFirst, TwoProofs!Br!Cardinality,
       Intake!Cardinality

\* The second of them.
LEMMA AnswerProved ==
    /\ OneProofs!Br!BridgeInit <=> Answer!BridgeInit
    /\ OneProofs!Br!BridgeNext <=> Answer!BridgeNext
    /\ OneProofs!Br!CopiesExcused <=> Answer!CopiesExcused
    /\ OneProofs!Br!LooksFirst <=> Answer!LooksFirst
    /\ OneProofs!Br!BridgeAssumption <=> Answer!BridgeAssumption
BY ZenonT(90) DEF
       OneProofs!Br!mappingVars, Answer!mappingVars, OneProofs!Br!rowVars,
       Answer!rowVars, OneProofs!Br!Resolved, Answer!Resolved, OneProofs!Br!There,
       Answer!There, OneProofs!Br!Listing, Answer!Listing, OneProofs!Br!Newest,
       Answer!Newest, OneProofs!Br!Select, Answer!Select, OneProofs!Br!Current,
       Answer!Current, OneProofs!Br!MappingInit, Answer!MappingInit,
       OneProofs!Br!Creates, Answer!Creates, OneProofs!Br!Opens, Answer!Opens,
       OneProofs!Br!AgentSets, Answer!AgentSets, OneProofs!Br!BridgeAssumption,
       Answer!BridgeAssumption, OneProofs!Br!Parts, Answer!Parts, OneProofs!Br!inVars,
       Answer!inVars, OneProofs!Br!outVars, Answer!outVars, OneProofs!Br!NoTx,
       Answer!NoTx, OneProofs!Br!NoEvent, Answer!NoEvent, OneProofs!Br!IdleTask,
       Answer!IdleTask, OneProofs!Br!IdleRun, Answer!IdleRun, OneProofs!Br!BridgeInit,
       Answer!BridgeInit, OneProofs!Br!Locked, Answer!Locked, OneProofs!Br!CanFlush,
       Answer!CanFlush, OneProofs!Br!Flush, Answer!Flush, OneProofs!Br!Commit,
       Answer!Commit, OneProofs!Br!CustomerActs, Answer!CustomerActs,
       OneProofs!Br!IngestBegins, Answer!IngestBegins, OneProofs!Br!MappedIn,
       Answer!MappedIn, OneProofs!Br!Remapped, Answer!Remapped, OneProofs!Br!Decided,
       Answer!Decided, OneProofs!Br!Settled, Answer!Settled, OneProofs!Br!Opened,
       Answer!Opened, OneProofs!Br!FirstConversation, Answer!FirstConversation,
       OneProofs!Br!NextConversation, Answer!NextConversation, OneProofs!Br!Listed,
       Answer!Listed, OneProofs!Br!ReopenAnswered, Answer!ReopenAnswered,
       OneProofs!Br!ConversationCreated, Answer!ConversationCreated,
       OneProofs!Br!Posted, Answer!Posted, OneProofs!Br!PostRefused, Answer!PostRefused,
       OneProofs!Br!Recover, Answer!Recover, OneProofs!Br!RecoveryListed,
       Answer!RecoveryListed, OneProofs!Br!RecoveryReopened, Answer!RecoveryReopened,
       OneProofs!Br!RecoveryCreated, Answer!RecoveryCreated, OneProofs!Br!Mapped,
       Answer!Mapped, OneProofs!Br!DeleteAnswered, Answer!DeleteAnswered,
       OneProofs!Br!EditAnswered, Answer!EditAnswered, OneProofs!Br!IngestFails,
       Answer!IngestFails, OneProofs!Br!AgentWrites, Answer!AgentWrites,
       OneProofs!Br!WebhookBegins, Answer!WebhookBegins, OneProofs!Br!Connected,
       Answer!Connected, OneProofs!Br!PartSent, Answer!PartSent, OneProofs!Br!RunEnds,
       Answer!RunEnds, OneProofs!Br!DeleteWebhook, Answer!DeleteWebhook,
       OneProofs!Br!Recalled, Answer!Recalled, OneProofs!Br!RunFails, Answer!RunFails,
       OneProofs!Br!Ingestion, Answer!Ingestion, OneProofs!Br!Run, Answer!Run,
       OneProofs!Br!AgentSetsStatus, Answer!AgentSetsStatus, OneProofs!Br!BridgeNext,
       Answer!BridgeNext, OneProofs!Br!CopiesExcused, Answer!CopiesExcused,
       OneProofs!Br!LooksFirst, Answer!LooksFirst, OneProofs!Br!Cardinality,
       Answer!Cardinality

\* The bridge of the adapters: repeated messages, mirrored changes, and answers
\* sent without confirmation.
LEMMA RepeatsProved ==
    /\ TwoProofs!Lc!LifecycleInit <=> Repeats!LifecycleInit
    /\ TwoProofs!Lc!LifecycleNext <=> Repeats!LifecycleNext
    /\ TwoProofs!Lc!CopiesExcused <=> Repeats!CopiesExcused
    /\ TwoProofs!Lc!LooksFirst <=> Repeats!LooksFirst
    /\ TwoProofs!Lc!OwnEditStaysOut <=> Repeats!OwnEditStaysOut
    /\ TwoProofs!Lc!LifecycleAssumption <=> Repeats!LifecycleAssumption
BY ZenonT(90) DEF
       TwoProofs!Lc!mappingVars, Repeats!mappingVars, TwoProofs!Lc!rowVars,
       Repeats!rowVars, TwoProofs!Lc!Open, Repeats!Open, TwoProofs!Lc!Resolved,
       Repeats!Resolved, TwoProofs!Lc!There, Repeats!There, TwoProofs!Lc!Listing,
       Repeats!Listing, TwoProofs!Lc!Newest, Repeats!Newest, TwoProofs!Lc!Select,
       Repeats!Select, TwoProofs!Lc!Current, Repeats!Current, TwoProofs!Lc!Upsert,
       Repeats!Upsert, TwoProofs!Lc!MappingInit, Repeats!MappingInit,
       TwoProofs!Lc!Creates, Repeats!Creates, TwoProofs!Lc!Opens, Repeats!Opens,
       TwoProofs!Lc!AgentSets, Repeats!AgentSets, TwoProofs!Lc!LifecycleAssumption,
       Repeats!LifecycleAssumption, TwoProofs!Lc!inVars, Repeats!inVars,
       TwoProofs!Lc!outVars, Repeats!outVars, TwoProofs!Lc!NoMap, Repeats!NoMap,
       TwoProofs!Lc!NoEvent, Repeats!NoEvent, TwoProofs!Lc!IdleTask, Repeats!IdleTask,
       TwoProofs!Lc!IdleRun, Repeats!IdleRun, TwoProofs!Lc!LifecycleInit,
       Repeats!LifecycleInit, TwoProofs!Lc!MappingsOf, Repeats!MappingsOf,
       TwoProofs!Lc!SameRow, Repeats!SameRow, TwoProofs!Lc!Write, Repeats!Write,
       TwoProofs!Lc!KeepMaps, Repeats!KeepMaps, TwoProofs!Lc!PeerActs, Repeats!PeerActs,
       TwoProofs!Lc!Unsettled, Repeats!Unsettled, TwoProofs!Lc!Surprised,
       Repeats!Surprised, TwoProofs!Lc!Taken, Repeats!Taken, TwoProofs!Lc!IngestBegins,
       Repeats!IngestBegins, TwoProofs!Lc!Ready, Repeats!Ready, TwoProofs!Lc!Listed,
       Repeats!Listed, TwoProofs!Lc!ReopenAnswered, Repeats!ReopenAnswered,
       TwoProofs!Lc!ConversationCreated, Repeats!ConversationCreated, TwoProofs!Lc!Post,
       Repeats!Post, TwoProofs!Lc!Posted, Repeats!Posted, TwoProofs!Lc!PostRefused,
       Repeats!PostRefused, TwoProofs!Lc!Recovered, Repeats!Recovered,
       TwoProofs!Lc!Mapped, Repeats!Mapped, TwoProofs!Lc!EditPosted, Repeats!EditPosted,
       TwoProofs!Lc!EditMapped, Repeats!EditMapped, TwoProofs!Lc!DeleteAnswered,
       Repeats!DeleteAnswered, TwoProofs!Lc!IngestFails, Repeats!IngestFails,
       TwoProofs!Lc!Hook, Repeats!Hook, TwoProofs!Lc!PostOf, Repeats!PostOf,
       TwoProofs!Lc!AgentActs, Repeats!AgentActs, TwoProofs!Lc!AgentSetsStatus,
       Repeats!AgentSetsStatus, TwoProofs!Lc!Mine, Repeats!Mine, TwoProofs!Lc!Waiting,
       Repeats!Waiting, TwoProofs!Lc!Running, Repeats!Running, TwoProofs!Lc!Dealt,
       Repeats!Dealt, TwoProofs!Lc!AlreadySent, Repeats!AlreadySent,
       TwoProofs!Lc!CreatedTaken, Repeats!CreatedTaken, TwoProofs!Lc!AnswerMapping,
       Repeats!AnswerMapping, TwoProofs!Lc!AnswerSent, Repeats!AnswerSent,
       TwoProofs!Lc!AnswerMapped, Repeats!AnswerMapped, TwoProofs!Lc!ChangeTaken,
       Repeats!ChangeTaken, TwoProofs!Lc!ChangeMade, Repeats!ChangeMade,
       TwoProofs!Lc!ChangeMapped, Repeats!ChangeMapped, TwoProofs!Lc!RunFails,
       Repeats!RunFails, TwoProofs!Lc!ResolvedTaken, Repeats!ResolvedTaken,
       TwoProofs!Lc!Ingestion, Repeats!Ingestion, TwoProofs!Lc!Run, Repeats!Run,
       TwoProofs!Lc!LifecycleNext, Repeats!LifecycleNext, TwoProofs!Lc!CopiesExcused,
       Repeats!CopiesExcused, TwoProofs!Lc!LooksFirst, Repeats!LooksFirst,
       TwoProofs!Lc!OwnEditStaysOut, Repeats!OwnEditStaysOut, TwoProofs!Lc!Cardinality,
       Repeats!Cardinality

\* The second of them.
LEMMA MirrorProved ==
    /\ OneProofs!Lc!LifecycleInit <=> Mirror!LifecycleInit
    /\ OneProofs!Lc!LifecycleNext <=> Mirror!LifecycleNext
    /\ OneProofs!Lc!CopiesExcused <=> Mirror!CopiesExcused
    /\ OneProofs!Lc!LooksFirst <=> Mirror!LooksFirst
    /\ OneProofs!Lc!OwnEditStaysOut <=> Mirror!OwnEditStaysOut
    /\ OneProofs!Lc!LifecycleAssumption <=> Mirror!LifecycleAssumption
BY ZenonT(90) DEF
       OneProofs!Lc!mappingVars, Mirror!mappingVars, OneProofs!Lc!rowVars,
       Mirror!rowVars, OneProofs!Lc!Open, Mirror!Open, OneProofs!Lc!Resolved,
       Mirror!Resolved, OneProofs!Lc!There, Mirror!There, OneProofs!Lc!Listing,
       Mirror!Listing, OneProofs!Lc!Newest, Mirror!Newest, OneProofs!Lc!Select,
       Mirror!Select, OneProofs!Lc!Current, Mirror!Current, OneProofs!Lc!Upsert,
       Mirror!Upsert, OneProofs!Lc!MappingInit, Mirror!MappingInit,
       OneProofs!Lc!Creates, Mirror!Creates, OneProofs!Lc!Opens, Mirror!Opens,
       OneProofs!Lc!AgentSets, Mirror!AgentSets, OneProofs!Lc!LifecycleAssumption,
       Mirror!LifecycleAssumption, OneProofs!Lc!inVars, Mirror!inVars,
       OneProofs!Lc!outVars, Mirror!outVars, OneProofs!Lc!NoMap, Mirror!NoMap,
       OneProofs!Lc!NoEvent, Mirror!NoEvent, OneProofs!Lc!IdleTask, Mirror!IdleTask,
       OneProofs!Lc!IdleRun, Mirror!IdleRun, OneProofs!Lc!LifecycleInit,
       Mirror!LifecycleInit, OneProofs!Lc!MappingsOf, Mirror!MappingsOf,
       OneProofs!Lc!SameRow, Mirror!SameRow, OneProofs!Lc!Write, Mirror!Write,
       OneProofs!Lc!KeepMaps, Mirror!KeepMaps, OneProofs!Lc!PeerActs, Mirror!PeerActs,
       OneProofs!Lc!Unsettled, Mirror!Unsettled, OneProofs!Lc!Surprised,
       Mirror!Surprised, OneProofs!Lc!Taken, Mirror!Taken, OneProofs!Lc!IngestBegins,
       Mirror!IngestBegins, OneProofs!Lc!Ready, Mirror!Ready, OneProofs!Lc!Listed,
       Mirror!Listed, OneProofs!Lc!ReopenAnswered, Mirror!ReopenAnswered,
       OneProofs!Lc!ConversationCreated, Mirror!ConversationCreated, OneProofs!Lc!Post,
       Mirror!Post, OneProofs!Lc!Posted, Mirror!Posted, OneProofs!Lc!PostRefused,
       Mirror!PostRefused, OneProofs!Lc!Recovered, Mirror!Recovered,
       OneProofs!Lc!Mapped, Mirror!Mapped, OneProofs!Lc!EditPosted, Mirror!EditPosted,
       OneProofs!Lc!EditMapped, Mirror!EditMapped, OneProofs!Lc!DeleteAnswered,
       Mirror!DeleteAnswered, OneProofs!Lc!IngestFails, Mirror!IngestFails,
       OneProofs!Lc!Hook, Mirror!Hook, OneProofs!Lc!PostOf, Mirror!PostOf,
       OneProofs!Lc!AgentActs, Mirror!AgentActs, OneProofs!Lc!AgentSetsStatus,
       Mirror!AgentSetsStatus, OneProofs!Lc!Mine, Mirror!Mine, OneProofs!Lc!Waiting,
       Mirror!Waiting, OneProofs!Lc!Running, Mirror!Running, OneProofs!Lc!Dealt,
       Mirror!Dealt, OneProofs!Lc!AlreadySent, Mirror!AlreadySent,
       OneProofs!Lc!CreatedTaken, Mirror!CreatedTaken, OneProofs!Lc!AnswerMapping,
       Mirror!AnswerMapping, OneProofs!Lc!AnswerSent, Mirror!AnswerSent,
       OneProofs!Lc!AnswerMapped, Mirror!AnswerMapped, OneProofs!Lc!ChangeTaken,
       Mirror!ChangeTaken, OneProofs!Lc!ChangeMade, Mirror!ChangeMade,
       OneProofs!Lc!ChangeMapped, Mirror!ChangeMapped, OneProofs!Lc!RunFails,
       Mirror!RunFails, OneProofs!Lc!ResolvedTaken, Mirror!ResolvedTaken,
       OneProofs!Lc!Ingestion, Mirror!Ingestion, OneProofs!Lc!Run, Mirror!Run,
       OneProofs!Lc!LifecycleNext, Mirror!LifecycleNext, OneProofs!Lc!CopiesExcused,
       Mirror!CopiesExcused, OneProofs!Lc!LooksFirst, Mirror!LooksFirst,
       OneProofs!Lc!OwnEditStaysOut, Mirror!OwnEditStaysOut, OneProofs!Lc!Cardinality,
       Mirror!Cardinality

\* The third.
LEMMA UnconfirmedProved ==
    /\ EitaaNumbersProofs!Lc!LifecycleInit <=> Unconfirmed!LifecycleInit
    /\ EitaaNumbersProofs!Lc!LifecycleNext <=> Unconfirmed!LifecycleNext
    /\ EitaaNumbersProofs!Lc!CopiesExcused <=> Unconfirmed!CopiesExcused
    /\ EitaaNumbersProofs!Lc!LooksFirst <=> Unconfirmed!LooksFirst
    /\ EitaaNumbersProofs!Lc!OwnEditStaysOut <=> Unconfirmed!OwnEditStaysOut
    /\ EitaaNumbersProofs!Lc!LifecycleAssumption <=> Unconfirmed!LifecycleAssumption
BY ZenonT(90) DEF
       EitaaNumbersProofs!Lc!mappingVars, Unconfirmed!mappingVars,
       EitaaNumbersProofs!Lc!rowVars, Unconfirmed!rowVars, EitaaNumbersProofs!Lc!Open,
       Unconfirmed!Open, EitaaNumbersProofs!Lc!Resolved, Unconfirmed!Resolved,
       EitaaNumbersProofs!Lc!There, Unconfirmed!There, EitaaNumbersProofs!Lc!Listing,
       Unconfirmed!Listing, EitaaNumbersProofs!Lc!Newest, Unconfirmed!Newest,
       EitaaNumbersProofs!Lc!Select, Unconfirmed!Select, EitaaNumbersProofs!Lc!Current,
       Unconfirmed!Current, EitaaNumbersProofs!Lc!Upsert, Unconfirmed!Upsert,
       EitaaNumbersProofs!Lc!MappingInit, Unconfirmed!MappingInit,
       EitaaNumbersProofs!Lc!Creates, Unconfirmed!Creates, EitaaNumbersProofs!Lc!Opens,
       Unconfirmed!Opens, EitaaNumbersProofs!Lc!AgentSets, Unconfirmed!AgentSets,
       EitaaNumbersProofs!Lc!LifecycleAssumption, Unconfirmed!LifecycleAssumption,
       EitaaNumbersProofs!Lc!inVars, Unconfirmed!inVars, EitaaNumbersProofs!Lc!outVars,
       Unconfirmed!outVars, EitaaNumbersProofs!Lc!NoMap, Unconfirmed!NoMap,
       EitaaNumbersProofs!Lc!NoEvent, Unconfirmed!NoEvent,
       EitaaNumbersProofs!Lc!IdleTask, Unconfirmed!IdleTask,
       EitaaNumbersProofs!Lc!IdleRun, Unconfirmed!IdleRun,
       EitaaNumbersProofs!Lc!LifecycleInit, Unconfirmed!LifecycleInit,
       EitaaNumbersProofs!Lc!MappingsOf, Unconfirmed!MappingsOf,
       EitaaNumbersProofs!Lc!SameRow, Unconfirmed!SameRow, EitaaNumbersProofs!Lc!Write,
       Unconfirmed!Write, EitaaNumbersProofs!Lc!KeepMaps, Unconfirmed!KeepMaps,
       EitaaNumbersProofs!Lc!PeerActs, Unconfirmed!PeerActs,
       EitaaNumbersProofs!Lc!Unsettled, Unconfirmed!Unsettled,
       EitaaNumbersProofs!Lc!Surprised, Unconfirmed!Surprised,
       EitaaNumbersProofs!Lc!Taken, Unconfirmed!Taken,
       EitaaNumbersProofs!Lc!IngestBegins, Unconfirmed!IngestBegins,
       EitaaNumbersProofs!Lc!Ready, Unconfirmed!Ready, EitaaNumbersProofs!Lc!Listed,
       Unconfirmed!Listed, EitaaNumbersProofs!Lc!ReopenAnswered,
       Unconfirmed!ReopenAnswered, EitaaNumbersProofs!Lc!ConversationCreated,
       Unconfirmed!ConversationCreated, EitaaNumbersProofs!Lc!Post, Unconfirmed!Post,
       EitaaNumbersProofs!Lc!Posted, Unconfirmed!Posted,
       EitaaNumbersProofs!Lc!PostRefused, Unconfirmed!PostRefused,
       EitaaNumbersProofs!Lc!Recovered, Unconfirmed!Recovered,
       EitaaNumbersProofs!Lc!Mapped, Unconfirmed!Mapped,
       EitaaNumbersProofs!Lc!EditPosted, Unconfirmed!EditPosted,
       EitaaNumbersProofs!Lc!EditMapped, Unconfirmed!EditMapped,
       EitaaNumbersProofs!Lc!DeleteAnswered, Unconfirmed!DeleteAnswered,
       EitaaNumbersProofs!Lc!IngestFails, Unconfirmed!IngestFails,
       EitaaNumbersProofs!Lc!Hook, Unconfirmed!Hook, EitaaNumbersProofs!Lc!PostOf,
       Unconfirmed!PostOf, EitaaNumbersProofs!Lc!AgentActs, Unconfirmed!AgentActs,
       EitaaNumbersProofs!Lc!AgentSetsStatus, Unconfirmed!AgentSetsStatus,
       EitaaNumbersProofs!Lc!Mine, Unconfirmed!Mine, EitaaNumbersProofs!Lc!Waiting,
       Unconfirmed!Waiting, EitaaNumbersProofs!Lc!Running, Unconfirmed!Running,
       EitaaNumbersProofs!Lc!Dealt, Unconfirmed!Dealt,
       EitaaNumbersProofs!Lc!AlreadySent, Unconfirmed!AlreadySent,
       EitaaNumbersProofs!Lc!CreatedTaken, Unconfirmed!CreatedTaken,
       EitaaNumbersProofs!Lc!AnswerMapping, Unconfirmed!AnswerMapping,
       EitaaNumbersProofs!Lc!AnswerSent, Unconfirmed!AnswerSent,
       EitaaNumbersProofs!Lc!AnswerMapped, Unconfirmed!AnswerMapped,
       EitaaNumbersProofs!Lc!ChangeTaken, Unconfirmed!ChangeTaken,
       EitaaNumbersProofs!Lc!ChangeMade, Unconfirmed!ChangeMade,
       EitaaNumbersProofs!Lc!ChangeMapped, Unconfirmed!ChangeMapped,
       EitaaNumbersProofs!Lc!RunFails, Unconfirmed!RunFails,
       EitaaNumbersProofs!Lc!ResolvedTaken, Unconfirmed!ResolvedTaken,
       EitaaNumbersProofs!Lc!Ingestion, Unconfirmed!Ingestion,
       EitaaNumbersProofs!Lc!Run, Unconfirmed!Run, EitaaNumbersProofs!Lc!LifecycleNext,
       Unconfirmed!LifecycleNext, EitaaNumbersProofs!Lc!CopiesExcused,
       Unconfirmed!CopiesExcused, EitaaNumbersProofs!Lc!LooksFirst,
       Unconfirmed!LooksFirst, EitaaNumbersProofs!Lc!OwnEditStaysOut,
       Unconfirmed!OwnEditStaysOut, EitaaNumbersProofs!Lc!Cardinality,
       Unconfirmed!Cardinality

----------------------------------------------------------------------------
(* The invariant, and the theorems.                                        *)

\* The two bridges, and the rest.
BridgesInv ==
    /\ side = "intake" => TwoProofs!BridgeInv
    /\ side = "answer" => OneProofs!BridgeInv
    /\ side = "repeats" => TwoProofs!LifecycleInv
    /\ side = "mirror" => OneProofs!LifecycleInv
    /\ side = "unconfirmed" => EitaaNumbersProofs!LifecycleInv
OthersInv ==
    /\ side = "two" => TwoProofs!IdentityInv
    /\ side = "one" => OneProofs!IdentityInv
    /\ side = "eitaa" => AccountProofs!SessionTypes /\ AccountProofs!SessionInv
    /\ side = "challenge" => AccountProofs!ChallengeInv
    /\ side = "account" => AccountProofs!InboxInv
    /\ side = "threads" => ThreadsProofs!InboxInv
    /\ side = "bale numbers" => TwoProofs!PhoneInv
    /\ side = "eitaa numbers" => EitaaNumbersProofs!PhoneInv
    /\ side = "sync" => TwoProofs!SyncInv
ProvedInv == BridgesInv /\ OthersInv

\* A step of the composition is a step of the side that moves, or leaves its
\* variables alone.
LEMMA Turns ==
    ASSUME [Next]_vars
    PROVE  /\ side' = side
           /\ side = "two" => [Two!IdentityNext]_(TwoProofs!identityVars)
           /\ side = "one" => [One!IdentityNext]_(OneProofs!identityVars)
           /\ side = "eitaa" => [Eitaa!EitaaNext]_(AccountProofs!vars)
           /\ side = "challenge" => [Challenge!ChallengeNext]_(AccountProofs!Login!vars)
           /\ side = "account" => [Account!InboxNext]_(AccountProofs!Inbox!vars)
           /\ side = "threads" => [Threads!InboxNext]_(ThreadsProofs!Inbox!vars)
           /\ side = "bale numbers" => [BaleNumbers!PhoneNext]_(TwoProofs!Phone!phoneVars)
           /\ side = "eitaa numbers" =>
                  [EitaaNumbers!PhoneNext]_(EitaaNumbersProofs!Phone!phoneVars)
           /\ side = "sync" => [Sync!SyncNext]_(TwoProofs!Sync!syncVars)
           /\ side = "intake" => [Intake!BridgeNext]_(TwoProofs!Br!bridgeVars)
           /\ side = "answer" => [Answer!BridgeNext]_(OneProofs!Br!bridgeVars)
           /\ side = "repeats" => [Repeats!LifecycleNext]_(TwoProofs!Lc!lifecycleVars)
           /\ side = "mirror" => [Mirror!LifecycleNext]_(OneProofs!Lc!lifecycleVars)
           /\ side = "unconfirmed" =>
                  [Unconfirmed!LifecycleNext]_(EitaaNumbersProofs!Lc!lifecycleVars)
<1>1. CASE UNCHANGED vars
    BY <1>1 DEF vars, peerVars, bridges, mappingVars, lifecycleVars, accounts, challengeVars,
                eitaaVars, sharedVars, routing, phoneVars,
                syncVars, TwoProofs!Sync!syncVars,
                TwoProofs!identityVars, OneProofs!identityVars, AccountProofs!vars,
                AccountProofs!tokens, AccountProofs!flags,
                AccountProofs!Login!vars, AccountProofs!Login!loginVars, inboxVars,
                AccountProofs!Inbox!vars, AccountProofs!Inbox!clientVars,
                AccountProofs!Inbox!taskVars, AccountProofs!Inbox!switches,
                AccountProofs!Inbox!spending,
                ThreadsProofs!Inbox!vars, ThreadsProofs!Inbox!clientVars,
                ThreadsProofs!Inbox!taskVars, ThreadsProofs!Inbox!switches,
                ThreadsProofs!Inbox!spending,
                TwoProofs!Phone!phoneVars, EitaaNumbersProofs!Phone!phoneVars,
                bothVars, bridgeVars,
                TwoProofs!Br!bridgeVars, TwoProofs!Br!mappingVars, TwoProofs!Br!inVars,
                TwoProofs!Br!outVars, OneProofs!Br!bridgeVars, OneProofs!Br!mappingVars,
                OneProofs!Br!inVars, OneProofs!Br!outVars,
                TwoProofs!Lc!lifecycleVars, TwoProofs!Lc!mappingVars, TwoProofs!Lc!inVars,
                TwoProofs!Lc!outVars, OneProofs!Lc!lifecycleVars, OneProofs!Lc!mappingVars,
                OneProofs!Lc!inVars, OneProofs!Lc!outVars,
                EitaaNumbersProofs!Lc!lifecycleVars, EitaaNumbersProofs!Lc!mappingVars,
                EitaaNumbersProofs!Lc!inVars, EitaaNumbersProofs!Lc!outVars
<1>2. CASE Next
    BY <1>2 DEF Next, InContacts, InBridge, InLifecycle, InInstagram, InEitaa, InSync, InPhones
<1> QED BY <1>1, <1>2

LEMMA ProvedInit == Init => ProvedInv
<1> SUFFICES ASSUME Init PROVE ProvedInv
    OBVIOUS
<1>1. side = "two" => TwoProofs!IdentityInv
    BY TwoProved, TwoProofs!IdentityInvInit DEF Init
<1>2. side = "one" => OneProofs!IdentityInv
    BY OneProved, OneProofs!IdentityInvInit DEF Init
<1>3. side = "eitaa" => AccountProofs!SessionTypes /\ AccountProofs!SessionInv
    BY ComponentsAssumption, EitaaProved, AccountProofs!InvInit DEF Init
<1>4. side = "challenge" => AccountProofs!ChallengeInv
    BY ComponentsAssumption, ChallengeProved, AccountProofs!ChallengeInvInit DEF Init
<1>5. side = "bale numbers" => TwoProofs!PhoneInv
    BY ComponentsAssumption, BaleNumbersProved, TwoProofs!PhoneInvInit DEF Init
<1>6. side = "eitaa numbers" => EitaaNumbersProofs!PhoneInv
    BY ComponentsAssumption, EitaaNumbersProved, EitaaNumbersProofs!PhoneInvInit DEF Init
<1>7. side = "account" => AccountProofs!InboxInv
    BY ComponentsAssumption, AccountProved, AccountProofs!InboxInvInit DEF Init
<1>8. side = "threads" => ThreadsProofs!InboxInv
    BY ComponentsAssumption, ThreadsProved, ThreadsProofs!InboxInvInit DEF Init
<1>9. side = "sync" => TwoProofs!SyncInv
    BY ComponentsAssumption, SyncProved, TwoProofs!SyncInvInit DEF Init
<1>10. side = "intake" => TwoProofs!BridgeInv
    BY ComponentsAssumption, IntakeProved, TwoProofs!BridgeInvInit DEF Init
<1>11. side = "answer" => OneProofs!BridgeInv
    BY ComponentsAssumption, AnswerProved, OneProofs!BridgeInvInit DEF Init
<1>12. side = "repeats" => TwoProofs!LifecycleInv
    BY RepeatsProved, TwoProofs!LifecycleInvInit DEF Init
<1>13. side = "mirror" => OneProofs!LifecycleInv
    BY MirrorProved, OneProofs!LifecycleInvInit DEF Init
<1>14. side = "unconfirmed" => EitaaNumbersProofs!LifecycleInv
    BY UnconfirmedProved, EitaaNumbersProofs!LifecycleInvInit DEF Init
<1> QED BY <1>1, <1>2, <1>3, <1>4, <1>5, <1>6, <1>7, <1>8, <1>9, <1>10, <1>11, <1>12, <1>13,
           <1>14 DEF ProvedInv, BridgesInv, OthersInv

LEMMA OthersStep ==
    ASSUME OthersInv, [Next]_vars
    PROVE  /\ OthersInv'
           /\ side = "two" => Two!KeepsPeer
           /\ side = "one" => One!KeepsPeer
           /\ side = "account" => Account!InOrder
           /\ side = "threads" => Threads!InOrder
           /\ side = "sync" => Sync!NamesStay /\ Sync!RemovalLeavesMoved
<1>1. side = "two" => TwoProofs!IdentityInv' /\ Two!KeepsPeer
    BY ComponentsAssumption, Turns, TwoProved, TwoProofs!IdentityInvStep, TwoProofs!StepKeepsPeer
       DEF OthersInv
<1>2. side = "one" => OneProofs!IdentityInv' /\ One!KeepsPeer
    BY ComponentsAssumption, Turns, OneProved, OneProofs!IdentityInvStep, OneProofs!StepKeepsPeer
       DEF OthersInv
<1>3. side = "eitaa" => AccountProofs!SessionTypes' /\ AccountProofs!SessionInv'
    BY ComponentsAssumption, Turns, EitaaProved, AccountProofs!InvStep DEF OthersInv
<1>4. side = "challenge" => AccountProofs!ChallengeInv'
    BY ComponentsAssumption, Turns, ChallengeProved, AccountProofs!ChallengeInvStep DEF OthersInv
<1>5. side = "bale numbers" => TwoProofs!PhoneInv'
    BY ComponentsAssumption, Turns, BaleNumbersProved, TwoProofs!PhoneInvStep DEF OthersInv
<1>6. side = "eitaa numbers" => EitaaNumbersProofs!PhoneInv'
    BY ComponentsAssumption, Turns, EitaaNumbersProved, EitaaNumbersProofs!PhoneInvStep
       DEF OthersInv
<1>7. side = "account" => AccountProofs!InboxInv' /\ Account!InOrder
    BY ComponentsAssumption, Turns, AccountProved, AccountProofs!InboxInvStep,
       AccountProofs!InOrderStep DEF OthersInv
<1>8. side = "threads" => ThreadsProofs!InboxInv' /\ Threads!InOrder
    BY ComponentsAssumption, Turns, ThreadsProved, ThreadsProofs!InboxInvStep,
       ThreadsProofs!InOrderStep DEF OthersInv
<1>9. side = "sync" => TwoProofs!SyncInv' /\ Sync!NamesStay /\ Sync!RemovalLeavesMoved
    BY ComponentsAssumption, Turns, SyncProved, TwoProofs!SyncInvStep, TwoProofs!NamesStayStep,
       TwoProofs!RemovalLeavesStep DEF OthersInv
<1> QED BY Turns, <1>1, <1>2, <1>3, <1>4, <1>5, <1>6, <1>7, <1>8, <1>9 DEF OthersInv

LEMMA BridgesStep ==
    ASSUME BridgesInv, [Next]_vars
    PROVE  /\ BridgesInv'
           /\ side = "intake" => Intake!LooksFirst
           /\ side = "repeats" => Repeats!LooksFirst
           /\ side = "mirror" => Mirror!OwnEditStaysOut
<1>1. side = "intake" => TwoProofs!BridgeInv' /\ Intake!LooksFirst
    BY Turns, IntakeProved, TwoProofs!BridgeInvStep, TwoProofs!LooksFirstStep DEF BridgesInv
<1>2. side = "answer" => OneProofs!BridgeInv'
    BY Turns, AnswerProved, OneProofs!BridgeInvStep DEF BridgesInv
<1>3. side = "repeats" => TwoProofs!LifecycleInv' /\ Repeats!LooksFirst
    BY ComponentsAssumption, Turns, RepeatsProved, TwoProofs!LifecycleInvStep,
       TwoProofs!LifecycleLooks DEF BridgesInv
<1>4. side = "mirror" => OneProofs!LifecycleInv' /\ Mirror!OwnEditStaysOut
    BY ComponentsAssumption, Turns, MirrorProved, OneProofs!LifecycleInvStep,
       OneProofs!LifecycleLooks DEF BridgesInv
<1>5. side = "unconfirmed" => EitaaNumbersProofs!LifecycleInv'
    BY ComponentsAssumption, Turns, UnconfirmedProved, EitaaNumbersProofs!LifecycleInvStep
       DEF BridgesInv
<1> QED BY Turns, <1>1, <1>2, <1>3, <1>4, <1>5 DEF BridgesInv

LEMMA ProvedInvariant == Spec => []ProvedInv
<1>1. ProvedInv /\ [Next]_vars => ProvedInv'
    BY BridgesStep, OthersStep DEF ProvedInv
<1> QED BY <1>1, ProvedInit, PTL DEF Spec

\* However replies are lost or late and resolutions overlap, no peer has two
\* contacts in Chatwoot that the bridge created (contact_identity.py).
THEOREM OneContactInBoth == Spec => []OneContactPerPeer
<1>1. ProvedInv => OneContactPerPeer
    BY TwoProved, OneProved, TwoProofs!InvHasOneContact, OneProofs!InvHasOneContact
       DEF ProvedInv, OthersInv, OneContactPerPeer
<1> QED BY <1>1, ProvedInvariant, PTL

\* A contact stays its peer's while it is there, but for overlapping repairs
\* (contact_identity.py).
THEOREM ContactsStayInBoth == Spec => ContactKeepsPeer
<1>1. ProvedInv /\ [Next]_vars =>
          (side = "two" => Two!KeepsPeer) /\ (side = "one" => One!KeepsPeer)
    BY OthersStep DEF ProvedInv
<1> QED BY <1>1, ProvedInvariant, PTL DEF Spec, ContactKeepsPeer

\* The token an Eitaa session was given last is not lost, and one that was
\* renewed is not renewed again (session_client.py).
THEOREM TokenStaysKept == Spec => []TokenKept
<1>1. ProvedInv => TokenKept
    BY EitaaProved, AccountProofs!InvMeans DEF ProvedInv, OthersInv, TokenKept
<1> QED BY <1>1, ProvedInvariant, PTL

\* A renewal of the session before does not undo a login with a code
\* (session_client.py).
THEOREM LoginIsNotUndone == Spec => []NewLoginStays
<1>1. ProvedInv => NewLoginStays
    BY EitaaProved, AccountProofs!InvMeans DEF ProvedInv, OthersInv, NewLoginStays
<1> QED BY <1>1, ProvedInvariant, PTL

\* Logins of an Instagram account take turns, but for two that were let in side
\* by side, nobody is shut out for good, and the poll task waits for the panel
\* (connector.py, connect and start_challenge).
THEOREM LoginsTakeTurns == Spec => []LoginsInTurn
<1>1. ProvedInv => LoginsInTurn
    BY ChallengeProved, AccountProofs!ChallengeInvMeans DEF ProvedInv, OthersInv, LoginsInTurn
<1> QED BY <1>1, ProvedInvariant, PTL

\* An answer goes to a peer of the contact it is written to, and a contact's
\* answers all go to one peer, however its number moves (chatwoot_bridge.py).
THEOREM AnswersFindTheirPeer == Spec => []AnswersFindPeer
<1>1. ProvedInv => AnswersFindPeer
    BY BaleNumbersProved, EitaaNumbersProved, TwoProofs!PhoneInvMeans,
       EitaaNumbersProofs!PhoneInvMeans DEF ProvedInv, OthersInv, AnswersFindPeer
<1> QED BY <1>1, ProvedInvariant, PTL

\* What the watermark file of an Instagram account is past is in Chatwoot, but
\* for the named losses (polling_service.py, connector.py).
THEOREM PassedIsInChatwoot == Spec => []NothingForgotten
<1>0. AccountProofs!Inbox!InboxAssumption /\ ThreadsProofs!Inbox!InboxAssumption
    BY ComponentsAssumption, AccountProved, ThreadsProved
<1>1. ProvedInv => NothingForgotten
    BY <1>0, AccountProved, ThreadsProved, AccountProofs!InboxInvMeans,
       ThreadsProofs!InboxInvMeans DEF ProvedInv, OthersInv, NothingForgotten
<1> QED BY <1>1, ProvedInvariant, PTL

\* The messages of an Instagram thread come to Chatwoot in their order
\* (polling_service.py).
THEOREM ThreadsComeInOrder == Spec => OrderKept
<1>1. ProvedInv /\ [Next]_vars =>
          (side = "account" => Account!InOrder) /\ (side = "threads" => Threads!InOrder)
    BY OthersStep DEF ProvedInv
<1> QED BY <1>1, ProvedInvariant, PTL DEF Spec, OrderKept

\* The name an agent gave a contact stays, but for a synchronization of the
\* dialogs, one that began before the first had ended, or a name written on a look
\* at the one before (workflows.py, bridge.py).
THEOREM NamesStayGiven == Spec => NamesStay
<1>1. ProvedInv /\ [Next]_vars => (side = "sync" => Sync!NamesStay)
    BY OthersStep DEF ProvedInv
<1> QED BY <1>1, ProvedInvariant, PTL DEF Spec, NamesStay

\* A removal that meets no failure leaves only contacts that moved up a page
\* (bridge.py, remove_bale_pv_contacts_from_chatwoot).
THEOREM RemovalsLeaveTheMoved == Spec => RemovalLeavesMoved
<1>1. ProvedInv /\ [Next]_vars => (side = "sync" => Sync!RemovalLeavesMoved)
    BY OthersStep DEF ProvedInv
<1> QED BY <1>1, ProvedInvariant, PTL DEF Spec, RemovalLeavesMoved

\* A message is copied only by a run that ended between the request and the mapping,
\* and in the generic bridge also by a change of conversation; so is an answer
\* (bridge.py, chatwoot_bridge.py).
THEOREM CopiesHaveExcuses == Spec => []CopiesExcused
<1>1. ProvedInv => CopiesExcused
    BY IntakeProved, AnswerProved, RepeatsProved, UnconfirmedProved, TwoProofs!BridgeInvMeans,
       OneProofs!BridgeInvMeans, TwoProofs!LifecycleInvMeans,
       EitaaNumbersProofs!LifecycleInvMeans DEF ProvedInv, BridgesInv, CopiesExcused
<1> QED BY <1>1, ProvedInvariant, PTL

\* Neither bridge puts a message into a conversation it saw resolved (bridge.py,
\* chatwoot_bridge.py).
THEOREM ResolvedStaySo == Spec => NotIntoResolved
<1>1. ProvedInv /\ [Next]_vars =>
          (side = "intake" => Intake!LooksFirst) /\ (side = "repeats" => Repeats!LooksFirst)
    BY BridgesStep DEF ProvedInv
<1> QED BY <1>1, ProvedInvariant, PTL DEF Spec, NotIntoResolved

\* An agent's own edit is not shown to agents as the customer's, but for races
\* (chatwoot_bridge.py, _handle_chatwoot_message_updated).
THEOREM EditsStayOut == Spec => OwnEditsStayOut
<1>1. ProvedInv /\ [Next]_vars => (side = "mirror" => Mirror!OwnEditStaysOut)
    BY BridgesStep DEF ProvedInv
<1> QED BY <1>1, ProvedInvariant, PTL DEF Spec, OwnEditsStayOut

=============================================================================
