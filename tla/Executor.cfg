SPECIFICATION FairSpec
CONSTANT Text <- MCText
INVARIANTS
  TypeOK
  RunsAsWritten
  KeptAsWritten
  FailureHasReason
PROPERTY
  Returns
\* The system stops: Execute has returned and the connection is closed.
CHECK_DEADLOCK FALSE
