------------------------ MODULE PublicationContract ------------------------
(***************************************************************************)
(* What the workflow promises to the people who use it, free of runs,      *)
(* versions and snapshots: what is published is the candidate that passed  *)
(* inspection, unchanged since it was sent for review, and approved by a   *)
(* person other than its author.                                           *)
(***************************************************************************)
CONSTANTS
    Candidate,      \* what may be published: content, rules, glossary, author
    Person,
    Clean(_),       \* the candidate passes inspection
    Author(_),      \* who submitted the candidate
    None            \* neither a candidate nor a person

VARIABLES stage, candidate, approver, published

contractVars == <<stage, candidate, approver, published>>

Init ==
    /\ stage = "editing"
    /\ candidate = None
    /\ approver = None
    /\ published = None

\* Until it is sent for review the candidate may be replaced at will.
Edit ==
    /\ stage = "editing"
    /\ candidate' \in Candidate
    /\ UNCHANGED <<stage, approver, published>>

SendForReview ==
    /\ stage = "editing"
    /\ candidate # None /\ Clean(candidate)
    /\ stage' = "reviewing"
    /\ UNCHANGED <<candidate, approver, published>>

Return ==
    /\ stage = "reviewing"
    /\ stage' = "editing"
    /\ UNCHANGED <<candidate, approver, published>>

Approve(p) ==
    /\ stage = "reviewing"
    /\ p # Author(candidate)
    /\ stage' = "approved"
    /\ approver' = p
    /\ UNCHANGED <<candidate, published>>

Publish ==
    /\ stage = "approved"
    /\ stage' = "published"
    /\ published' = candidate
    /\ UNCHANGED <<candidate, approver>>

Next ==
    \/ Edit \/ SendForReview \/ Return \/ Publish
    \/ \E p \in Person : Approve(p)

Spec == Init /\ [][Next]_contractVars

=============================================================================
