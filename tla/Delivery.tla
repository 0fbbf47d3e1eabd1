------------------------------ MODULE Delivery ------------------------------
(***************************************************************************)
(* What an archive promises (internal/archive/archive.go): the scripts of  *)
(* a release are delivered to the Git repository before the release is     *)
(* recorded as archived, and what was delivered is never taken back.       *)
(***************************************************************************)
CONSTANTS Script, Release, Linked
VARIABLES
  delivered,   \* scripts that have a file in the head of the remote
  recorded     \* releases that have an archive_log row

Init == delivered = {} /\ recorded = {}

Deliver ==
  /\ \E scripts \in SUBSET Script : delivered' = delivered \cup scripts
  /\ UNCHANGED recorded

Record(r) ==
  /\ Linked[r] \subseteq delivered
  /\ recorded' = recorded \cup {r}
  /\ UNCHANGED delivered

Next == Deliver \/ \E r \in Release : Record(r)

Spec == Init /\ [][Next]_<<delivered, recorded>>
=============================================================================
