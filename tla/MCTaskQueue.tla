---------------------------- MODULE MCTaskQueue ----------------------------
(* An instance of TaskQueue for TLC. *)
EXTENDS TaskQueue

\* Every worker process has a lease_owner of its own: one worker per host or
\* container group, since cmd/worker/main.go:50 names a process "worker-<pid>".
OwnIds == [w \in Worker |-> w]
=============================================================================
