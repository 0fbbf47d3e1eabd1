----------------------------- MODULE MCArchive -----------------------------
(* Small instances of Archive for TLC.                                     *)
EXTENDS Archive, TLC

CONSTANTS
  Edited,      \* the text that every edit saves
  Chooser,     \* the requests that make versions by hand
  LastVersion  \* bound: 1 is "0.0.1", and so on; this one stands for all later

MCCall == Request \cup Sync
MCPath == {"archived", "pending"} \X Script

\* Every release links every script.
MCLinked == [r \in Release |-> Script]

MCVersion == 1 .. LastVersion
MCBump == [v \in 0 .. LastVersion |-> IF v = LastVersion THEN v ELSE v + 1]

Symmetry == Permutations(Request) \cup Permutations(Sync) \cup Permutations(Script)
            \cup Permutations(Release)

\* The work directory: archives with and without a bump, edits to one new text
\* and saved configurations.  Versions made by hand are left to the other run.
\* With the constraint Serial, TLC takes no step to a state in which two users
\* overlap.
WorkStep ==
  \/ \E q \in Request : ArchiveStep(q) \/ LoseEdit(q)
                        \/ \E g \in Sync : SaveEdit(q, Edited, g)
  \/ \E q \in Request, r \in Release, bump \in BOOLEAN : BeginArchive(q, r, bump)
  \/ \E q \in Request, s \in Script : BeginEdit(q, s)
  \/ \E c \in Call : GitRuns(c)
  \/ \E g \in Sync : EndSync(g)
  \/ GitConfigured \/ GitPushedElsewhere
  \/ Crash
WorkNext == WorkStep /\ Remember
WorkSpec == Init /\ [][WorkNext]_vars

\* Versions: archives and versions made by hand, without edits, which touch none.
VersionStep ==
  \/ \E q \in Request, r \in Release, bump \in BOOLEAN :
       ArchiveStep(q) \/ BeginArchive(q, r, bump)
  \/ \E q \in Chooser :
       \/ SetCurrent(q)
       \/ \E current \in BOOLEAN : CreateVersion(q, LastVersion, current)
       \/ \E id \in {0} \cup {v.id : v \in versions}, clears \in BOOLEAN :
            BeginSetCurrent(q, id, clears)
  \/ \E c \in Call : GitRuns(c)
  \/ Crash
VersionNext == VersionStep /\ Remember
EmptyInit == Init /\ remote = {}
VersionSpec == EmptyInit /\ [][VersionNext]_vars /\ Fairness
=============================================================================
