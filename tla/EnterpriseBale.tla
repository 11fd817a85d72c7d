---------------------------- MODULE EnterpriseBale ----------------------------
(***************************************************************************)
(* The Bale Enterprise bot (application/enterprise/bale.py): the menus in  *)
(* front of the live conversations of EnterpriseLive.  A customer gives a  *)
(* phone number, the GRE service says whether it is eligible, and the root *)
(* menu, the manuals and the addresses follow from that.                   *)
(*                                                                         *)
(* A menu handler writes the user's row alone, and updates of one bot are  *)
(* handled one by one, so each menu input is one step; a handler that      *)
(* fails (a message that cannot be sent, a missing file) changes nothing.  *)
(***************************************************************************)
EXTENDS EnterpriseLive

VARIABLES
    phone,     \* a phone number is stored
    gre,       \* gre_status
    ingroup,   \* current_group_id is set
    grouped    \* manual groups are configured

menuVars == <<phone, gre, ingroup, grouped>>
baleVars == <<liveVars, menuVars>>

MenuStates == {"awaiting_phone_input", "eligible_root", "ineligible_root",
               "manual_menu", "manual_group_menu", "address_menu"}
ManualStates == {"manual_menu", "manual_group_menu"}

BaleTypeOK ==
    /\ ustate \in MenuStates \union {Live}
    /\ gre \in {"unknown", "eligible", "ineligible"}
    /\ phone \in BOOLEAN /\ ingroup \in BOOLEAN /\ grouped \in BOOLEAN
    /\ sess \in Seq(Row) /\ Len(sess) <= MaxConvs
    /\ newest \in [DOMAIN sess -> 1..MaxConvs]
    /\ \A i \in DOMAIN sess : sess[i].conv \in DOMAIN remote
    /\ h.locked \subseteq DOMAIN h.mine
    /\ h.pc \notin {"idle", "creating"} => h.s \in DOMAIN h.mine

\* Mutant: whoever is not known to be ineligible has the full menu.
RootUnlessRefused(status) ==
    IF status = "ineligible" THEN "ineligible_root" ELSE "eligible_root"

\* _prepare_root_menu and _show_root_menu, the root of a GRE status.
Root(status) == IF status = "eligible" THEN "eligible_root" ELSE "ineligible_root"

\* _get_or_create_user.
BaleInit ==
    /\ LiveInit("awaiting_phone_input")
    /\ phone = FALSE /\ gre = "unknown" /\ ingroup = FALSE /\ grouped \in BOOLEAN

\* A menu handler commits: the user's state, chosen group and eligibility.
Menu(state, group, status) ==
    /\ h.pc = "idle" /\ ActiveSession = 0
    /\ ustate' = state /\ ingroup' = group /\ gre' = status
    /\ UNCHANGED <<sess, newest, pend, agentVars, remote, jobs, h, w, seenVars, grouped>>
ToRoot(status) == Menu(Root(status), FALSE, status)
To(state) == Menu(state, ingroup, gre) /\ UNCHANGED phone
Back == ToRoot(gre) /\ UNCHANGED phone

\* No menu, prompt or live session takes the update.
AtRoot == ustate \notin ManualStates \union {"awaiting_phone_input", "address_menu"}

\* EnterpriseGreValidator.validate_phone: what the API says of the number,
\* and "unknown" without a number, an API or a format it takes.  When the API
\* fails it raises GreValidationError; both callers then name a class that
\* bale.py does not import, and the handler ends in a NameError.
ValidatePhone(known) ==
    IF known THEN {"eligible", "ineligible", "unknown"} ELSE {"unknown"}

\* /start: _refresh_gre_and_show_root.
Start ==
    /\ \E status \in ValidatePhone(phone) :
          IF status = "unknown" THEN Menu("awaiting_phone_input", ingroup, status)
          ELSE ToRoot(status)
    /\ UNCHANGED phone

\* _handle_phone_submission, and Back at the prompt.
PhoneSubmitted ==
    /\ ustate = "awaiting_phone_input"
    /\ \E status \in ValidatePhone(TRUE) :
          ToRoot(IF status = "unknown" THEN "ineligible" ELSE status)
    /\ phone' = TRUE
PhoneBack ==
    /\ ustate = "awaiting_phone_input"
    /\ Menu("ineligible_root", FALSE, gre) /\ UNCHANGED phone

\* _handle_eligible_root; any other text shows the root menu again.
EligibleRoot ==
    /\ AtRoot /\ gre = "eligible"
    /\ \/ To(IF grouped THEN "manual_group_menu" ELSE "manual_menu")
       \/ To("address_menu")
       \/ Back

\* _handle_ineligible_root: the manuals ask for a number first.
IneligibleRoot ==
    /\ AtRoot /\ gre # "eligible"
    /\ \/ To("awaiting_phone_input")
       \/ To("address_menu")
       \/ Back

\* _handle_manual_menu: Back or a manual sent, a group chosen, no such choice.
ManualMenu ==
    /\ ustate \in ManualStates /\ gre # "ineligible"
    /\ \/ Back
       \/ /\ ustate = "manual_group_menu" /\ grouped
          /\ Menu("manual_menu", TRUE, gre) /\ UNCHANGED phone
       \/ To(ustate)

\* _handle_address_menu: an address or anything else leads to the root.
AddressMenu == ustate = "address_menu" /\ Back

\* _send_catalog_and_root, and the route buttons.
Catalog == AtRoot /\ Back
RouteButton ==
    /\ AtRoot /\ ActiveSession = 0
    /\ EnterRoute
    /\ UNCHANGED menuVars

\* handle_platform_update of a customer in the route.
BaleLive ==
    /\ \E text \in {"back", "label", "text"} : LiveUpdate(text, Root(gre))
    /\ UNCHANGED menuVars

\* The operator adds a manual group, or deletes one: when it is the chosen
\* one, current_group_id becomes NULL.
GroupsConfigured ==
    /\ spent < MaxOperator /\ spent' = spent + 1
    /\ \/ grouped' = TRUE /\ UNCHANGED ingroup
       \/ /\ grouped /\ grouped' \in BOOLEAN
          /\ ingroup' \in IF grouped' THEN {FALSE, ingroup} ELSE {FALSE}
    /\ UNCHANGED <<rowVars, inbox, reopen, remote, jobs, h, w, seenVars, phone, gre>>

BaleMenus ==
    \/ Start \/ PhoneSubmitted \/ PhoneBack \/ EligibleRoot \/ IneligibleRoot
    \/ ManualMenu \/ AddressMenu \/ Catalog

BaleNext ==
    \/ BaleMenus \/ RouteButton \/ BaleLive \/ GroupsConfigured
    \/ (Handler \/ Webhook \/ Crash \/ Agents) /\ UNCHANGED menuVars

BaleSpec == BaleInit /\ [][BaleNext]_baleVars

\* The manuals are open to eligible customers alone: neither a menu, nor the
\* phone prompt, nor a live session left or resolved leads anyone else there,
\* and a chosen group is forgotten with the menu it was chosen in.
MenusFitCustomer ==
    /\ ustate \in ManualStates \union {"eligible_root"} => gre = "eligible"
    /\ ustate = "awaiting_phone_input" => gre # "eligible"
    /\ ingroup => ustate \in {"manual_menu", "awaiting_phone_input"}
=============================================================================
