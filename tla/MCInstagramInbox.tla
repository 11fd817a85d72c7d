--------------------------- MODULE MCInstagramInbox ---------------------------
(***************************************************************************)
(* InstagramInbox for TLC: an account with one thread, whose first login   *)
(* fails.                                                                  *)
(***************************************************************************)
EXTENDS InstagramInbox

OneThread == <<"thread", "thread">>
===============================================================================
