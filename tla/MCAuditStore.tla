----------------------------- MODULE MCAuditStore -----------------------------
(***************************************************************************)
(* AuditStore with three commands.  MaxEvents leaves each command room for *)
(* at least one attempt that is lost or fails.                             *)
(***************************************************************************)
EXTENDS AuditStore

CONSTANTS c1, c2, c3

Commands == {c1, c2, c3}

AllFaults == SUBSET {"io", "kill"}
OnlyFailures == {{"io"}}
OnlyCrashes == {{}}

Symmetry == Permutations(Commands)

=============================================================================
