-------------------------- MODULE DocumentedClaims --------------------------
(***************************************************************************)
(* Statements of the repository's comments about the process core, as       *)
(* properties of module Kernel.  The code does not keep them: each one has  *)
(* a run in which TLC exhibits the behaviour, and the README says what the  *)
(* behaviour is.                                                            *)
(***************************************************************************)
EXTENDS KernelProperties

\* "SIGKILL always terminates" (signal.rs sys_kill, process.rs
\* deliver_signal_to): a process marked Dead stays Dead until it is reaped.
DeadIsFinal == [][\A p \in Pids : state[p] = "Dead" => state'[p] \in {"Dead", "Free"}]_vars

\* "... calls this each tick so a fault-killed slot does not leak" (process.rs
\* reap_dead_children): a dead process's slot is freed, whoever its parent was,
\* once every process that could collect it is gone.
OrphansReaped ==
    \A p \in Pids : (state[p] = "Dead" /\ parent[p] # NoPid /\ state[parent[p]] = "Free") ~> state[p] = "Free"

\* "A report dropped on a full ring still costs nothing but the notification"
\* (supervisor.rs): a crash never takes a supervised service down for good by
\* itself.
DropCostsOnlyNotification == [][Fault => \A s \in Services : Claimed(s) => ~ Down(s)']_vars

\* "A plain VFS fd has kind 0; pipe is 1" (socket.rs) and "pipe
\* close-notification [is] correct only at refcount zero" (fd.rs): the read end
\* of a pipe is marked closed only when no description of it is left.
EndClosedByLast ==
    [][\A k \in Pipes : files.pipe[k].owner # NoPid /\ ~ files.pipe[k].readClosed /\ files'.pipe[k].readClosed
                          => PipeFlags(k, 0) \notin LiveFlags']_vars
=============================================================================
