----------------------------- MODULE MCPending -----------------------------
(* Small instances of Pending for TLC.                                     *)
EXTENDS Pending, TLC

CONSTANTS plain, chinese

\* Blanks become underscores, and of other characters nothing is left.
MCTitle == {plain, chinese}
MCFileTitle == [t \in MCTitle |-> IF t = chinese THEN "" ELSE "a_b"]
Symmetry == Permutations(Text) \cup Permutations(Request) \cup Permutations(Sync)
=============================================================================
