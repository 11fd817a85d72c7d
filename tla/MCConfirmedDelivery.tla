-------------------------- MODULE MCConfirmedDelivery -------------------------
(***************************************************************************)
(* ConfirmedDelivery for TLC.  The counters of the specification are       *)
(* bounded by its own constants; the failures of a run are named here.     *)
(***************************************************************************)
EXTENDS ConfirmedDelivery

\* Every failure the code meets.
AllFailures == FailureKinds

\* A connector that stays open and a contact that is mapped: the failures
\* that are reported without the message lock do not happen.
LockedFailures == FailureKinds \ {"offline", "conflict"}
===============================================================================
