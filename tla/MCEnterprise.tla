----------------------------- MODULE MCEnterprise -----------------------------
(***************************************************************************)
(* The Enterprise modules for TLC, checked in one run: "side" says which   *)
(* instance of which module moves, and what belongs to the others stays as *)
(* it was initialized.                                                     *)
(***************************************************************************)
EXTENDS Naturals, Sequences, FiniteSets, TLC

CONSTANTS a1, a2, b1

VARIABLES side,
    ustate, sess, newest, pend, inbox, reopen, remote, jobs, h, w, sent, undone, spent,
    phone, gre, ingroup, grouped, chosen, grouping,
    meta, issued, run, creation, inboxes, edits, seen, tried, excused, raced,
    rows, files, upload, deletion, cut, groups, members, editor, changes

\* Two messages in one conversation; two conversations and two changes by
\* agents and operators; the menus.
Live == INSTANCE EnterpriseLive WITH Msgs <- {a1, a2}, MaxConvs <- 1, MaxOperator <- 1
Agent == INSTANCE EnterpriseLive WITH Msgs <- {b1}, MaxConvs <- 2, MaxOperator <- 2
Bale == INSTANCE EnterpriseBale WITH Msgs <- {b1}, MaxConvs <- 1, MaxOperator <- 1
Telegram == INSTANCE EnterpriseTelegram WITH Msgs <- {b1}, MaxConvs <- 1, MaxOperator <- 1

\* Overlapping synchronizations; overlapping creations; both at once.
Sms == INSTANCE EnterpriseSettings WITH Syncs <- {"poll", "manual"},
           Creators <- {"operator"}, MaxSms <- 2, MaxInboxes <- 1, MaxEdits <- 1
Inbox == INSTANCE EnterpriseSettings WITH Syncs <- {"poll"},
           Creators <- {"customer", "operator"}, MaxSms <- 1, MaxInboxes <- 2, MaxEdits <- 2

Files == INSTANCE EnterpriseAssets WITH MaxRows <- 3, Names <- {}, MaxChanges <- 0
Groups == INSTANCE EnterpriseAssets WITH MaxRows <- 1, Names <- {"x", "y"}, MaxChanges <- 3

ASSUME EnterpriseAssumption ==
    /\ Live!LiveAssumption /\ Agent!LiveAssumption /\ Bale!LiveAssumption /\ Telegram!LiveAssumption
    /\ Sms!SettingsAssumption /\ Inbox!SettingsAssumption
    /\ Files!AssetsAssumption /\ Groups!AssetsAssumption

menuVars == <<phone, gre, ingroup, grouped, chosen, grouping>>
liveVars == <<ustate, sess, newest, pend, inbox, reopen, remote, jobs, h, w,
              sent, undone, spent>>
settingsVars == <<meta, issued, run, creation, inboxes, edits,
                  seen, tried, excused, raced>>
assetVars == <<rows, files, upload, deletion, cut, groups, members, editor, changes>>
vars == <<side, liveVars, menuVars, settingsVars, assetVars>>

NoMenu == phone = FALSE /\ gre = "unknown" /\ ingroup = FALSE /\ grouped = FALSE
NoMenus == NoMenu /\ chosen = FALSE /\ grouping = FALSE
Quiet == reopen = FALSE /\ Agent!LiveInit("root")

Init ==
    \/ side = "live" /\ Live!LiveInit("root") /\ NoMenus /\ Sms!SettingsInit /\ Files!AssetsInit
    \/ side = "agent" /\ Agent!LiveInit("root") /\ NoMenus /\ Sms!SettingsInit /\ Files!AssetsInit
    \/ /\ side = "bale" /\ Bale!BaleInit /\ chosen = FALSE /\ grouping = FALSE
       /\ Sms!SettingsInit /\ Files!AssetsInit
    \/ side = "telegram" /\ Telegram!TelegramInit /\ NoMenu /\ Sms!SettingsInit /\ Files!AssetsInit
    \/ side = "sms" /\ Quiet /\ NoMenus /\ Sms!SettingsInit /\ Files!AssetsInit
    \/ side = "inbox" /\ Quiet /\ NoMenus /\ Inbox!SettingsInit /\ Files!AssetsInit
    \/ side \in {"files", "groups"} /\ Quiet /\ NoMenus /\ Sms!SettingsInit /\ Files!AssetsInit

InLive == side = "live" /\ Live!LiveNext /\ UNCHANGED <<side, menuVars, settingsVars, assetVars>>
InAgent == side = "agent" /\ Agent!LiveNext /\ UNCHANGED <<side, menuVars, settingsVars, assetVars>>
InBale ==
    /\ side = "bale" /\ Bale!BaleNext
    /\ UNCHANGED <<side, chosen, grouping, settingsVars, assetVars>>
InTelegram ==
    /\ side = "telegram" /\ Telegram!TelegramNext
    /\ UNCHANGED <<side, phone, gre, ingroup, grouped, settingsVars, assetVars>>
InSms == side = "sms" /\ Sms!SettingsNext /\ UNCHANGED <<side, liveVars, menuVars, assetVars>>
InInbox == side = "inbox" /\ Inbox!SettingsNext /\ UNCHANGED <<side, liveVars, menuVars, assetVars>>
InFiles == side = "files" /\ Files!AssetsNext /\ UNCHANGED <<side, liveVars, menuVars, settingsVars>>
InGroups == side = "groups" /\ Groups!AssetsNext /\ UNCHANGED <<side, liveVars, menuVars, settingsVars>>

Next ==
    \/ InLive \/ InAgent \/ InBale \/ InTelegram
    \/ InSms \/ InInbox \/ InFiles \/ InGroups

Spec == Init /\ [][Next]_vars

\* A conversation that was resolved is posted to only after it was reopened under
\* the policy (bale.py, telegram.py).
ResolvedNotReused == Live!ResolvedNotReused

\* What was kept for a customer in the menus is not forgotten when he returns to
\* the conversation (bale.py, telegram.py).
HandedOverOnReturn == Live!HandedOverOnReturn

\* An agent's message reaches the customer twice only when the task that sent it
\* could not commit (bale.py, telegram.py).
RepeatsAreRetries == Live!RepeatsAreRetries

\* The menus a customer is in are those his phone number, his registration and
\* his groups allow (bale.py, telegram.py).
MenusFitCustomer ==
    /\ side = "bale" => Bale!MenusFitCustomer
    /\ side = "telegram" => Telegram!GroupFitsMenu

\* No text is behind the mark of the SMS synchronization untried, and one is
\* sent again only when runs overlapped or a run could not commit (bale.py).
SmsMarkHolds == Sms!NothingPassedOver /\ Sms!SmsRepeatsExcused

\* A route has a second inbox only when two creations overlapped (bale.py).
SecondInboxIsRace == Sms!SecondInboxIsRace

\* The catalog that is active is there to be sent, and the groups refer to what
\* exists (documents.py, manual_groups.py).
AssetsConsistent == Files!ActiveIsReadable /\ Files!GroupsConsistent

Symmetry == Permutations({a1, a2})
=============================================================================
