-------------------------- MODULE ParseEnumeration --------------------------
(***************************************************************************)
(* What an order and a tree iterator promise together: from the moment the *)
(* iterator exists there is a fixed set of parses, which it hands out one  *)
(* by one, each once, in some order, and it reports its exhaustion when it *)
(* has handed out all of them, not before and not later.                   *)
(***************************************************************************)
EXTENDS Naturals

VARIABLES
    forest,      \* the parses there are to deliver
    delivered,   \* those delivered so far
    count,       \* how many times a parse was delivered
    status       \* "unopened", "open", "closed"

enumeration == <<forest, delivered, count, status>>

Init == forest = {} /\ delivered = {} /\ count = 0 /\ status = "unopened"

Open ==
    /\ status = "unopened" /\ status' = "open"
    /\ UNCHANGED <<delivered, count>>

Deliver ==
    /\ status = "open"
    /\ \E parse \in forest \ delivered : delivered' = delivered \cup {parse}
    /\ count' = count + 1
    /\ UNCHANGED <<forest, status>>

Close ==
    /\ status = "open" /\ delivered = forest
    /\ status' = "closed"
    /\ UNCHANGED <<forest, delivered, count>>

Next == Open \/ Deliver \/ Close

Spec == Init /\ [][Next]_enumeration
=============================================================================
