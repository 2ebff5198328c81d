-------------------------- MODULE QuestionOutcome --------------------------
(***************************************************************************)
(* What the chat panel promises its user: questions are asked one at a     *)
(* time, and every question gets one outcome, which never changes: an      *)
(* answer, a failure notice, or nothing when the page is left.             *)
(***************************************************************************)
CONSTANT Questions

VARIABLE outcome

Outcomes == {"unasked", "pending", "answered", "failed", "abandoned"}

TypeOK == outcome \in [Questions -> Outcomes]

Init == outcome = [q \in Questions |-> "unasked"]

Ask(q) ==
    /\ \A p \in Questions : outcome[p] # "pending"
    /\ outcome[q] = "unasked"
    /\ outcome' = [outcome EXCEPT ![q] = "pending"]

Resolve(q) ==
    /\ outcome[q] = "pending"
    /\ \E o \in {"answered", "failed", "abandoned"} :
        outcome' = [outcome EXCEPT ![q] = o]

Next == \E q \in Questions : Ask(q) \/ Resolve(q)

Safety == Init /\ [][Next]_outcome

Spec == Safety /\ \A q \in Questions : WF_outcome(Resolve(q))
============================================================================
