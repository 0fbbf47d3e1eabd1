----------------------------- MODULE MCStorage -----------------------------
(* A small instance of Storage for TLC.                                    *)
EXTENDS Storage

\* One row of each table, but two environments: a datasource may then be moved
\* away from the environment that a record names.
MCBound == [t \in Table |-> IF t = "environment" THEN 2 ELSE 1]
=============================================================================
