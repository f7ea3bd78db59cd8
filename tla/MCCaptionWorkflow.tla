------------------------- MODULE MCCaptionWorkflow -------------------------
(***************************************************************************)
(* Instances of CaptionWorkflow.  The engine is a table with the shapes    *)
(* that matter: a cue list that always fails and reports one identifier    *)
(* twice, and one whose verdict depends on the rules and on the glossary.  *)
(***************************************************************************)
EXTENDS CaptionWorkflow, TLC

CONSTANTS t1, t2, f1, f2, p1, p2

MCFindings(content, rule, T) ==
    CASE content = "blank" -> <<f1, f1>>
      [] content = "brief" -> IF rule = "strict" \/ t2 \in T THEN <<f2>> ELSE <<>>

\* Both terms have the same source text: AddTerm accepts the second one, a batch
\* does not.
MCSourceOf == [t \in TermID |-> "source"]

People == Permutations({p1, p2})

\* A bound and a symmetry in one: keys are only compared within an operation, so
\* it is enough to use them in order, and each operation succeeds at most as
\* often as there are keys.
KeysInOrder ==
    \A op \in Operation : \A k \in Key :
        <<op, k>> \in idempotency =>
            \A j \in 1..(k - 1) : <<op, j>> \in idempotency

=============================================================================
