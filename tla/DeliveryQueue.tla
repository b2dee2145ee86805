--------------------------- MODULE DeliveryQueue ---------------------------
(***************************************************************************)
(* What the three leased queues promise (outbox_event, email_message,      *)
(* webhook_delivery), whoever drains them: an item is delivered or dies,   *)
(* its first death is told in the step that writes it, a dead item may     *)
(* still be delivered but never comes back to life, and only an item in a  *)
(* losable status leaves the queue.  Workers, leases, attempts and retries *)
(* are the business of the modules that implement it.                      *)
(***************************************************************************)
EXTENDS Naturals

CONSTANTS
    Items,
    Losable    \* the statuses in which an item may be removed

VARIABLES
    status,    \* "absent", "pending", "dead", "settled" or "gone"
    told       \* how often the death of an item was told

(* The items of S, each in one of the given statuses, all change together. *)
Move(S, from, to) ==
    /\ \A i \in S : status[i] \in from
    /\ status' = [i \in Items |-> IF i \in S THEN to ELSE status[i]]

Init ==
    /\ status = [i \in Items |-> "absent"]
    /\ told = [i \in Items |-> 0]

Enqueue(S) == Move(S, {"absent"}, "pending") /\ UNCHANGED told

Deliver(S) == Move(S, {"pending", "dead"}, "settled") /\ UNCHANGED told

(* The first death, and only the first, is told. *)
Die(S) ==
    /\ Move(S, {"pending"}, "dead")
    /\ told' = [i \in Items |-> IF i \in S THEN told[i] + 1 ELSE told[i]]

Remove(S) == Move(S, Losable, "gone") /\ UNCHANGED told

Next == \E S \in SUBSET Items : Enqueue(S) \/ Deliver(S) \/ Die(S) \/ Remove(S)

Spec == Init /\ [][Next]_<<status, told>>
=============================================================================
