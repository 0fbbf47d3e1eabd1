---------------------------- MODULE MCExecution ----------------------------
(* Small instances of Execution for TLC: which scripts a release has when  *)
(* the behaviour begins, and which requests users make.                    *)
EXTENDS Execution, TLC

Symmetry == Permutations(Script) \cup Permutations(Release) \cup Permutations(Content)
            \cup Permutations(Request)

\* Releases already composed: MaxLink rows, duplicates among them, and no
\* room for another one.
Composed ==
  /\ \E rows \in [1 .. MaxLink -> Release \X Script] :
       link = {[id |-> i, release |-> rows[i][1], script |-> rows[i][2]] :
                 i \in 1 .. MaxLink}
  /\ nextLink = MaxLink + 1
  /\ release = [r \in Release |-> "published"]

ComposedInit ==
  /\ Composed
  /\ script \in [Script -> [status : {"draft"}, content : Content]]
  /\ record = [i \in RecordId |-> NoRecord]
  /\ nextRecord = 1
  /\ req = [q \in Request |-> Idle]
  /\ ran = [i \in RecordId |-> NotRun]
  /\ vouched = {}

Running(q) == PushStep(q) \/ MarkStep(q) \/ OtherStep(q)

\* Pushes against edits, archives and marks of the same scripts.
RaceNext ==
  \/ \E q \in Request : Running(q) \/ PushRequest(q) \/ EditRequest(q)
                        \/ ReleaseRequest(q)
  \/ MarkRequest
  \/ Crash
RaceSpec == ComposedInit /\ [][RaceNext]_vars
=============================================================================
