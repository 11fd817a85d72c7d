-------------------------- MODULE EnterpriseTelegram --------------------------
(***************************************************************************)
(* The Telegram Enterprise bot (application/enterprise/telegram.py): menus *)
(* without phone numbers in front of the live conversations.  Its routes   *)
(* come from the instance's metadata, and the state of a customer in a     *)
(* route is the route's key.  Below, each function of telegram.py that     *)
(* repeats one of bale.py is the corresponding part of EnterpriseLive.     *)
(***************************************************************************)
EXTENDS EnterpriseLive

VARIABLES
    chosen,     \* current_group_id is set
    grouping    \* manual groups are configured

telegramVars == <<liveVars, chosen, grouping>>

TelegramStates == {"root", "manual_menu", "manual_group_menu", "address_menu", Live}

TelegramTypeOK ==
    /\ ustate \in TelegramStates
    /\ chosen \in BOOLEAN /\ grouping \in BOOLEAN
    /\ sess \in Seq(Row) /\ Len(sess) <= MaxConvs
    /\ h.locked \subseteq DOMAIN h.mine

\* _get_or_create_user.
TelegramInit ==
    /\ LiveInit("root")
    /\ chosen = FALSE /\ grouping \in BOOLEAN

MenuTo(state, group) ==
    /\ h.pc = "idle" /\ ActiveSession = 0
    /\ ustate' = state /\ chosen' = group
    /\ UNCHANGED <<sess, newest, pend, agentVars, remote, jobs, h, w, seenVars, grouping>>

\* _show_root_menu, which /start, Back, the catalog and unknown texts reach.
ShowRoot == MenuTo("root", FALSE)

\* _handle_root_actions; a route's display name enters it.
RootActions ==
    /\ ustate \notin {"manual_menu", "manual_group_menu", "address_menu"}
    /\ \/ MenuTo(IF grouping THEN "manual_group_menu" ELSE "manual_menu", chosen)
       \/ MenuTo("address_menu", chosen)
RouteChosen ==
    /\ ustate \notin {"manual_menu", "manual_group_menu", "address_menu"}
    /\ ActiveSession = 0 /\ EnterRoute
    /\ UNCHANGED <<chosen, grouping>>

\* _handle_manual_menu and _handle_address_menu: a choice that is none leaves
\* the customer where he is, anything else but a group ends in the root menu.
ManualChoice ==
    /\ ustate \in {"manual_menu", "manual_group_menu"}
    /\ \/ ustate = "manual_group_menu" /\ grouping /\ MenuTo("manual_menu", TRUE)
       \/ MenuTo(ustate, chosen)
AddressChoice == ustate = "address_menu" /\ MenuTo(ustate, chosen)

\* telegram.py's copies of the functions that EnterpriseLive translates from
\* bale.py.  First an update of a customer in the route ...
Same == UNCHANGED <<chosen, grouping>>
LeaveLiveRoute == LiveUpdate("back", "root") /\ Same
LiveMenuInput == LiveUpdate("label", "root") /\ Same
ForwardableSession == LiveUpdate("text", "root") /\ Same

\* ... then the session of the route, the handover and the webhooks.
RemoteStatus == StatusAnswered /\ Same
ReusableSession == Reopened /\ Same
RouteSession == Created /\ Same
ForwardMessage == Posted /\ Same
RecreateSession == PostedNowhere /\ Same
AcceptedNotice == (HandoverBegins \/ Accepted) /\ Same
DeliverPayload == (HandedOver \/ Delivered) /\ Same
EnterLiveRoute == (HandoverEnds \/ Replied) /\ Same
ReceiveWebhook == (WebhookIgnored \/ WebhookResolves \/ WebhookTaken \/ Kept) /\ Same

\* A group is added or deleted; current_group_id of a deleted one is NULL.
GroupingSet ==
    /\ spent < MaxOperator /\ spent' = spent + 1
    /\ \/ grouping' = TRUE /\ UNCHANGED chosen
       \/ /\ grouping /\ grouping' \in BOOLEAN
          /\ chosen' \in IF grouping' THEN {FALSE, chosen} ELSE {FALSE}
    /\ UNCHANGED <<rowVars, inbox, reopen, remote, jobs, h, w, seenVars>>

TelegramNext ==
    \/ ShowRoot \/ RootActions \/ RouteChosen \/ ManualChoice \/ AddressChoice
    \/ LeaveLiveRoute \/ LiveMenuInput \/ ForwardableSession
    \/ RemoteStatus \/ ReusableSession \/ RouteSession \/ ForwardMessage
    \/ RecreateSession \/ AcceptedNotice \/ DeliverPayload \/ EnterLiveRoute
    \/ ReceiveWebhook \/ GroupingSet
    \/ (HandlerFails \/ Crash \/ Agents) /\ Same

TelegramSpec == TelegramInit /\ [][TelegramNext]_telegramVars

\* A chosen group is forgotten with the manual menu it was chosen in, on
\* every way out of it.
GroupFitsMenu == chosen => ustate = "manual_menu"
=============================================================================
