--------------------------- MODULE SandboxStatus ---------------------------
(***************************************************************************)
(* What the status file of each sandbox's state directory promises, seen   *)
(* from `matchlock list`: the lifecycle of the specification (section 2:   *)
(* creating, running, stopping, then stopped or crashed) together with     *)
(* the operations of other CLI processes (`kill` records stopped; `rm` and *)
(* `prune` remove the directory of a sandbox that is not running).  One    *)
(* status file changes per step, except for `prune`, which removes a whole *)
(* set of them at once.                                                    *)
(***************************************************************************)
CONSTANT Sandboxes

VARIABLE status   \* the status file of each sandbox, or "absent"

Status == {"creating", "running", "stopping", "stopped", "crashed"}

Init == status = [s \in Sandboxes |-> "absent"]

\* The controller creates the state directory.
Create(s) ==
    /\ status[s] = "absent"
    /\ status' = [status EXCEPT ![s] = "creating"]

\* The VMM is up and the ready handshake done.  The specification's
\* lifecycle boots only a creating sandbox; a sandbox that `kill` recorded
\* stopped before its VMM was spawned boots all the same, since sb.Start
\* writes "running" without reading the status (see KilledStaysStopped in
\* SandboxLifecycle).
Boot(s) ==
    /\ status[s] \in {"creating", "stopped"}
    /\ status' = [status EXCEPT ![s] = "running"]

\* A stop request or a boot failure: teardown begins.
Stop(s) ==
    /\ status[s] \in {"creating", "running"}
    /\ status' = [status EXCEPT ![s] = "stopping"]

\* The guest or the VMM went away under a running sandbox.
Crash(s) ==
    /\ status[s] = "running"
    /\ status' = [status EXCEPT ![s] = "crashed"]

\* Teardown completed, or `kill` stopped the sandbox, in whatever state.
Stopped(s) ==
    /\ status[s] \in Status
    /\ status' = [status EXCEPT ![s] = "stopped"]

\* The directories of the sandboxes in S are removed; none is running.
Remove(S) ==
    /\ \A s \in S : status[s] \in Status \ {"running"}
    /\ status' = [s \in Sandboxes |-> IF s \in S THEN "absent" ELSE status[s]]

Next ==
    \/ \E s \in Sandboxes : Create(s) \/ Boot(s) \/ Stop(s) \/ Crash(s) \/ Stopped(s)
    \/ \E S \in SUBSET Sandboxes : Remove(S)

Spec == Init /\ [][Next]_status

=============================================================================
