-------------------------- MODULE MCRepositoryAccess --------------------------
(***************************************************************************)
(* RepositoryAccess with a few goroutines, each serving requests of its    *)
(* kinds again and again.                                                  *)
(***************************************************************************)
EXTENDS RepositoryAccess

CONSTANTS r1, r2, r3

\* An editor competes with another one for their project or freezes the subject;
\* the third previews, downloads and verifies.
Mixed == [r \in Request |->
    CASE r = r1 -> {"edit"} [] r = r2 -> {"edit", "freeze"}
      [] r = r3 -> {"preview", "item", "verify"}]

\* One freeze, two downloads of the audit records.
Downloads == [r \in Request |->
    CASE r = r1 -> {"freeze"} [] OTHER -> {"item"}]

\* The export of the whole bundle while another project is edited.
Bundle == [r \in Request |->
    CASE r = r1 -> {"freeze"} [] r = r2 -> {"export"} [] r = r3 -> {"edit"}]

=============================================================================
