--------------------------- MODULE TruthfulDelivery ---------------------------
(***************************************************************************)
(* What confirmed delivery promises about one Chatwoot message, seen only  *)
(* from outside: the copies the customer has received of each part of the  *)
(* message, and the status the agent sees on the message bubble.           *)
(*                                                                         *)
(*   - a part is offered to the platform only after every earlier part has *)
(*     reached the customer, and never while, or after, it was delivered;  *)
(*   - an offer ends in one copy (Deliver) or in none (Withdraw);          *)
(*   - the bubble turns to "sent" only when every part has arrived.        *)
(*                                                                         *)
(* ConfirmedDelivery implements this specification.                        *)
(***************************************************************************)
EXTENDS Naturals

CONSTANT NumParts   \* parts of the message: its attachments and its text

Parts == 1..NumParts

VARIABLES
    offered,   \* parts the platform may still accept
    copies,    \* copies of each part the customer holds
    bubble     \* delivery status of the message in Chatwoot

tdvars == <<offered, copies, bubble>>

Init ==
    /\ offered = {}
    /\ copies = [p \in Parts |-> 0]
    /\ bubble = "unset"

Offer(p) ==
    /\ p \notin offered
    /\ copies[p] = 0
    /\ \A q \in Parts : q < p => copies[q] = 1
    /\ offered' = offered \union {p}
    /\ UNCHANGED <<copies, bubble>>

Deliver(p) ==
    /\ p \in offered
    /\ copies[p] = 0
    /\ offered' = offered \ {p}
    /\ copies' = [copies EXCEPT ![p] = 1]
    /\ UNCHANGED bubble

Withdraw(p) ==
    /\ p \in offered
    /\ offered' = offered \ {p}
    /\ UNCHANGED <<copies, bubble>>

ShowSent ==
    /\ \A p \in Parts : copies[p] = 1
    /\ bubble' = "sent"
    /\ UNCHANGED <<offered, copies>>

\* Showing the message as failed claims nothing about the customer's copies.
ShowFailed ==
    /\ bubble' = "failed"
    /\ UNCHANGED <<offered, copies>>

Next ==
    \/ \E p \in Parts : Offer(p) \/ Deliver(p) \/ Withdraw(p)
    \/ ShowSent
    \/ ShowFailed

Spec == Init /\ [][Next]_tdvars
===============================================================================
