-------------------------- MODULE SandboxLifecycle --------------------------
(***************************************************************************)
(* The life of a sandbox as the `matchlock run` process drives it          *)
(* (runRun, cmd/matchlock main.go), against the per-sandbox state          *)
(* directory that other `matchlock kill`, `rm` and `prune` invocations     *)
(* read and change concurrently.                                           *)
(*                                                                         *)
(* One `run` process per sandbox.  Its control flow (validation, rootfs    *)
(* build, sandbox.New, sb.Start, the exec relay, the interactive or        *)
(* buffered exec, the wait for a signal, sb.Close and the exit code) is    *)
(* translated from runRun.  sandbox.New/Start/Close, the exec relay and    *)
(* the state manager are not in the source tree: they are modelled from    *)
(* the specification (sections 3, 4.1, 4.6) and the state manager's tests. *)
(***************************************************************************)
EXTENDS Integers, FiniteSets

CONSTANTS
    Sandboxes,   \* one `matchlock run` invocation per sandbox
    Admins,      \* concurrent `matchlock kill/rm/prune` invocations
    GuestCodes,  \* exit codes the guest command may return
    CliCrash     \* whether the `run` process may be SIGKILLed

ASSUME SandboxesAssumption == Sandboxes # {} /\ IsFiniteSet(Sandboxes)
ASSUME GuestCodesAssumption == GuestCodes \subseteq 0..255
ASSUME CliCrashAssumption == CliCrash \in BOOLEAN

VARIABLES
    flags,      \* the `run` flags: --rm, a command, -it, --timeout
    pc,         \* where each `run` process is in runRun
    status,     \* the status file of the state directory, or "absent"
    vm,         \* the VMM process: "none", "alive", "dead"
    relay,      \* whether the exec relay of the sandbox is listening
    ctxDone,    \* whether runRun's context is cancelled
    cause,      \* what cancelled it: "none", "signal", "timeout"
    guestCode,  \* exit code of the guest command once it completed
    exitAfter,  \* exit code runRun uses once sb.Close returns
    exitCode,   \* exit code of the `run` process once it exited
    apc,        \* where each admin invocation is
    asnap       \* the ids an admin invocation still has to process

runVars == <<pc, status, vm, relay, ctxDone, cause, guestCode, exitAfter, exitCode>>
adminVars == <<apc, asnap>>
vars == <<flags, runVars, adminVars>>

NoCode == -1
Status == {"creating", "running", "stopping", "stopped", "crashed"}
Flags == [rm : BOOLEAN, cmd : BOOLEAN, it : BOOLEAN, timeout : BOOLEAN]
RunPc == {"init", "build", "new", "spawn", "ready", "relay", "itexec",
          "exec", "wait", "close", "closing", "exited", "killed"}
Gone == {"exited", "killed"}

\* The VMM after a SIGKILL.
Killed(v) == IF v = "alive" THEN "dead" ELSE v

-----------------------------------------------------------------------------
(* Steps shared by several exit paths of runRun.                           *)

\* The process ends (return to main, or os.Exit): the relay's listener dies
\* with it; the VMM child dies with it or not, depending on the backend.
Exit(s, code) ==
    /\ pc' = [pc EXCEPT ![s] = "exited"]
    /\ exitCode' = [exitCode EXCEPT ![s] = code]
    /\ relay' = [relay EXCEPT ![s] = FALSE]
    /\ \E v \in {vm[s], Killed(vm[s])} : vm' = [vm EXCEPT ![s] = v]

\* runRun calls sb.Close() and then exits with `code`.
CloseThenExit(s, code) ==
    /\ pc' = [pc EXCEPT ![s] = "close"]
    /\ exitAfter' = [exitAfter EXCEPT ![s] = code]
    /\ UNCHANGED <<relay, vm, exitCode>>

-----------------------------------------------------------------------------
(* The `run` process.                                                      *)

\* Mutant: the usage error exits with cobra's usage status 2 instead of
\* going through main's os.Exit(1).
ValidateUsageExit(s) ==
    /\ pc[s] = "init"
    /\ IF flags[s].rm /\ ~flags[s].cmd /\ ~flags[s].it
         THEN Exit(s, 2)
         ELSE /\ pc' = [pc EXCEPT ![s] = "build"]
              /\ UNCHANGED <<relay, vm, exitCode>>
    /\ UNCHANGED <<status, ctxDone, cause, guestCode, exitAfter>>

\* `--rm` with neither a command nor -it is refused before anything starts.
Validate(s) ==
    /\ pc[s] = "init"
    /\ IF flags[s].rm /\ ~flags[s].cmd /\ ~flags[s].it
         THEN Exit(s, 1)
         ELSE /\ pc' = [pc EXCEPT ![s] = "build"]
              /\ UNCHANGED <<relay, vm, exitCode>>
    /\ UNCHANGED <<status, ctxDone, cause, guestCode, exitAfter>>

\* builder.Build: the rootfs comes from the cache or a pull, or the build fails.
BuildRootfs(s) ==
    /\ pc[s] = "build"
    /\ \/ /\ pc' = [pc EXCEPT ![s] = "new"]
          /\ UNCHANGED <<relay, vm, exitCode>>
       \/ Exit(s, 1)
    /\ UNCHANGED <<status, ctxDone, cause, guestCode, exitAfter>>

\* Volume and secret parsing, then sandbox.New, which registers the state
\* directory with status "creating" (spec 3: created by controller).
NewSandbox(s) ==
    /\ pc[s] = "new"
    /\ \/ /\ pc' = [pc EXCEPT ![s] = "spawn"]
          /\ status' = [status EXCEPT ![s] = "creating"]
          /\ UNCHANGED <<relay, vm, exitCode>>
       \/ /\ Exit(s, 1)
          /\ UNCHANGED status
    /\ UNCHANGED <<ctxDone, cause, guestCode, exitAfter>>

\* sb.Start, steps (i)-(v): frame transport, stack, VMM spawn.  A failure
\* makes runRun call sb.Close() and return the error.
StartSpawn(s) ==
    /\ pc[s] = "spawn"
    /\ \/ /\ vm' = [vm EXCEPT ![s] = "alive"]
          /\ pc' = [pc EXCEPT ![s] = "ready"]
          /\ UNCHANGED <<relay, exitCode, exitAfter>>
       \/ CloseThenExit(s, 1)
    /\ UNCHANGED <<status, ctxDone, cause, guestCode>>

\* Mutant: the "running" write does not fail when `rm` has removed the
\* state directory meanwhile, and recreates it.
StartReadyAnyStatus(s) ==
    /\ pc[s] = "ready"
    /\ \/ /\ vm[s] = "alive"
          /\ ~ctxDone[s]
          /\ status' = [status EXCEPT ![s] = "running"]
          /\ pc' = [pc EXCEPT ![s] = "relay"]
          /\ UNCHANGED <<relay, vm, exitCode, exitAfter>>
       \/ /\ CloseThenExit(s, 1)
          /\ UNCHANGED status
    /\ UNCHANGED <<ctxDone, cause, guestCode>>

\* sb.Start, steps (vi)-(ix): the ready handshake, bounded by the context
\* and the boot deadline, then the status file is written "running".
StartReady(s) ==
    /\ pc[s] = "ready"
    /\ \/ /\ vm[s] = "alive"
          /\ ~ctxDone[s]
          /\ status[s] # "absent"
          /\ status' = [status EXCEPT ![s] = "running"]
          /\ pc' = [pc EXCEPT ![s] = "relay"]
          /\ UNCHANGED <<relay, vm, exitCode, exitAfter>>
       \/ /\ CloseThenExit(s, 1)
          /\ UNCHANGED status
    /\ UNCHANGED <<ctxDone, cause, guestCode>>

\* The exec relay is started after sb.Start; a failure is only a warning.
RelayStart(s) ==
    /\ pc[s] = "relay"
    /\ \E up \in BOOLEAN : relay' = [relay EXCEPT ![s] = up]
    /\ pc' = [pc EXCEPT ![s] = IF flags[s].it THEN "itexec"
                               ELSE IF flags[s].cmd THEN "exec"
                               ELSE "wait"]
    /\ UNCHANGED <<status, vm, ctxDone, cause, guestCode, exitAfter, exitCode>>

\* Mutant: the `if rm { sb.Close() }` before returning is dropped.
EndRunNoClose(s, code) == Exit(s, code) /\ UNCHANGED exitAfter

\* How runRun ends after an exec: with --rm it closes the sandbox first; the
\* -it path and the error return skip sb.Close() under --rm=false.
EndRun(s, code) ==
    IF flags[s].rm
      THEN CloseThenExit(s, code)
      ELSE Exit(s, code) /\ UNCHANGED exitAfter

\* runInteractive returns the guest's exit code, or 1 on any error; with
\* --rm the sandbox is closed, then os.Exit (no deferred relay Stop).
ExecInteractive(s) ==
    /\ pc[s] = "itexec"
    /\ \/ /\ vm[s] = "alive"
          /\ ~ctxDone[s]
          /\ \E c \in GuestCodes :
                /\ guestCode' = [guestCode EXCEPT ![s] = c]
                /\ EndRun(s, c)
       \/ /\ UNCHANGED guestCode
          /\ EndRun(s, 1)
    /\ UNCHANGED <<status, ctxDone, cause>>

\* sb.Exec: the guest command completes, or Exec returns an error (the
\* context was cancelled, the VM is gone, or the protocol failed).
ExecBuffered(s) ==
    /\ pc[s] = "exec"
    /\ \/ /\ vm[s] = "alive"
          /\ ~ctxDone[s]
          /\ \E c \in GuestCodes :
                /\ guestCode' = [guestCode EXCEPT ![s] = c]
                /\ IF flags[s].rm
                     THEN CloseThenExit(s, c)
                     ELSE /\ pc' = [pc EXCEPT ![s] = "wait"]
                          /\ UNCHANGED <<relay, vm, exitCode, exitAfter>>
       \/ /\ UNCHANGED guestCode
          /\ EndRun(s, 1)
    /\ UNCHANGED <<status, ctxDone, cause>>

\* Mutant: the --rm=false wait blocks on the VM's exit instead of ctx.Done().
WaitDoneOnVmExit(s) ==
    /\ pc[s] = "wait"
    /\ vm[s] = "dead"
    /\ CloseThenExit(s, 0)
    /\ UNCHANGED <<status, ctxDone, cause, guestCode>>

\* With --rm=false runRun blocks on <-ctx.Done(), then closes and returns nil.
WaitDone(s) ==
    /\ pc[s] = "wait"
    /\ ctxDone[s]
    /\ CloseThenExit(s, 0)
    /\ UNCHANGED <<status, ctxDone, cause, guestCode>>

\* sb.Close, first half: status "stopping", the VMM is SIGKILLed.
CloseBegin(s) ==
    /\ pc[s] = "close"
    /\ status' = [status EXCEPT ![s] = IF @ \in {"creating", "running"}
                                       THEN "stopping" ELSE @]
    /\ vm' = [vm EXCEPT ![s] = Killed(@)]
    /\ pc' = [pc EXCEPT ![s] = "closing"]
    /\ UNCHANGED <<relay, ctxDone, cause, guestCode, exitAfter, exitCode>>

\* Mutant: Close writes no final status when the sandbox is kept.
CloseEndNoStopped(s) ==
    /\ pc[s] = "closing"
    /\ status' = [status EXCEPT ![s] = IF @ = "absent" \/ flags[s].rm THEN "absent" ELSE @]
    /\ Exit(s, exitAfter[s])
    /\ UNCHANGED <<ctxDone, cause, guestCode, exitAfter>>

\* sb.Close, second half: status "stopped" (a crash stays "crashed"), or the
\* state directory removed under --rm; runRun then exits.  A status write
\* into a directory already removed fails and leaves it absent.
CloseEnd(s) ==
    /\ pc[s] = "closing"
    /\ status' = [status EXCEPT ![s] =
                    IF @ = "absent" \/ flags[s].rm THEN "absent"
                    ELSE IF @ = "crashed" THEN "crashed" ELSE "stopped"]
    /\ Exit(s, exitAfter[s])
    /\ UNCHANGED <<ctxDone, cause, guestCode, exitAfter>>

RunStep(s) ==
    /\ \/ Validate(s) \/ BuildRootfs(s) \/ NewSandbox(s) \/ StartSpawn(s)
       \/ StartReady(s) \/ RelayStart(s) \/ ExecInteractive(s)
       \/ ExecBuffered(s) \/ WaitDone(s) \/ CloseBegin(s) \/ CloseEnd(s)
    /\ UNCHANGED <<flags, adminVars>>

-----------------------------------------------------------------------------
(* What happens to a `run` process from outside.                           *)

\* SIGINT/SIGTERM reach the goroutine installed after validation: cancel().
Signal(s) ==
    /\ pc[s] \notin {"init"} \cup Gone
    /\ ~ctxDone[s]
    /\ ctxDone' = [ctxDone EXCEPT ![s] = TRUE]
    /\ cause' = [cause EXCEPT ![s] = "signal"]
    /\ UNCHANGED <<flags, pc, status, vm, relay, guestCode, exitAfter, exitCode, adminVars>>

\* The context.WithTimeout deadline, set only when --timeout was given.
Timeout(s) ==
    /\ flags[s].timeout
    /\ pc[s] \notin {"init"} \cup Gone
    /\ ~ctxDone[s]
    /\ ctxDone' = [ctxDone EXCEPT ![s] = TRUE]
    /\ cause' = [cause EXCEPT ![s] = "timeout"]
    /\ UNCHANGED <<flags, pc, status, vm, relay, guestCode, exitAfter, exitCode, adminVars>>

\* The guest exits or the VMM dies; a live controller records "crashed".
GuestExit(s) ==
    /\ vm[s] = "alive"
    /\ vm' = [vm EXCEPT ![s] = "dead"]
    /\ status' = [status EXCEPT ![s] =
                    IF @ = "running" /\ pc[s] \notin Gone THEN "crashed" ELSE @]
    /\ UNCHANGED <<flags, pc, relay, ctxDone, cause, guestCode, exitAfter, exitCode, adminVars>>

\* The `run` process is SIGKILLed: no deferred call and no Close runs.
CliKilled(s) ==
    /\ CliCrash
    /\ pc[s] \notin Gone
    /\ pc' = [pc EXCEPT ![s] = "killed"]
    /\ relay' = [relay EXCEPT ![s] = FALSE]
    /\ \E v \in {vm[s], Killed(vm[s])} : vm' = [vm EXCEPT ![s] = v]
    /\ UNCHANGED <<flags, status, ctxDone, cause, guestCode, exitAfter, exitCode, adminVars>>

-----------------------------------------------------------------------------
(* Other CLI invocations working on the state directory.                   *)

\* state.Manager.Kill: SIGKILL the recorded VMM pid and record "stopped";
\* an unknown id is an error and changes nothing.
KillVM(s) ==
    /\ vm' = [vm EXCEPT ![s] = IF status[s] = "absent" THEN @ ELSE Killed(@)]
    /\ status' = [status EXCEPT ![s] = IF @ = "absent" THEN @ ELSE "stopped"]

\* state.Manager.Remove: an unknown id and a running sandbox are refused,
\* anything else has its directory removed.
RemoveState(s) ==
    status' = [status EXCEPT ![s] = IF @ \in {"absent", "running"} THEN @ ELSE "absent"]

\* `matchlock kill <id>`.
Kill(a, s) ==
    /\ apc[a] = "idle"
    /\ KillVM(s)
    /\ UNCHANGED <<flags, pc, relay, ctxDone, cause, guestCode, exitAfter, exitCode, adminVars>>

\* `matchlock kill --all`: list, then kill each sandbox listed as running.
KillAllList(a) ==
    /\ apc[a] = "idle"
    /\ apc' = [apc EXCEPT ![a] = "killAll"]
    /\ asnap' = [asnap EXCEPT ![a] = {s \in Sandboxes : status[s] = "running"}]
    /\ UNCHANGED <<flags, runVars>>

\* `matchlock rm <id>`.
Remove(a, s) ==
    /\ apc[a] = "idle"
    /\ RemoveState(s)
    /\ UNCHANGED <<flags, pc, vm, relay, ctxDone, cause, guestCode, exitAfter, exitCode, adminVars>>

\* `matchlock rm --stopped`: list, then remove each sandbox not listed running.
RmStoppedList(a) ==
    /\ apc[a] = "idle"
    /\ apc' = [apc EXCEPT ![a] = "rmStopped"]
    /\ asnap' = [asnap EXCEPT ![a] =
                    {s \in Sandboxes : status[s] \notin {"absent", "running"}}]
    /\ UNCHANGED <<flags, runVars>>

\* One iteration of the kill --all or rm --stopped loop over the listed ids;
\* a failing call is reported and the loop goes on.
LoopNext(a) ==
    /\ apc[a] \in {"killAll", "rmStopped"}
    /\ \/ /\ asnap[a] = {}
          /\ apc' = [apc EXCEPT ![a] = "idle"]
          /\ UNCHANGED <<asnap, runVars>>
       \/ \E s \in asnap[a] :
             /\ asnap' = [asnap EXCEPT ![a] = @ \ {s}]
             /\ UNCHANGED apc
             /\ IF apc[a] = "killAll"
                  THEN KillVM(s) /\ UNCHANGED <<pc, relay, ctxDone, cause, guestCode, exitAfter, exitCode>>
                  ELSE RemoveState(s) /\ UNCHANGED <<pc, vm, relay, ctxDone, cause, guestCode, exitAfter, exitCode>>
    /\ UNCHANGED flags

\* `matchlock prune`: remove the state of every stopped or crashed sandbox.
Prune(a) ==
    /\ apc[a] = "idle"
    /\ status' = [s \in Sandboxes |->
                    IF status[s] \in {"stopped", "crashed"} THEN "absent" ELSE status[s]]
    /\ UNCHANGED <<flags, pc, vm, relay, ctxDone, cause, guestCode, exitAfter, exitCode, adminVars>>

-----------------------------------------------------------------------------
Init ==
    /\ flags \in [Sandboxes -> Flags]
    /\ pc = [s \in Sandboxes |-> "init"]
    /\ status = [s \in Sandboxes |-> "absent"]
    /\ vm = [s \in Sandboxes |-> "none"]
    /\ relay = [s \in Sandboxes |-> FALSE]
    /\ ctxDone = [s \in Sandboxes |-> FALSE]
    /\ cause = [s \in Sandboxes |-> "none"]
    /\ guestCode = [s \in Sandboxes |-> NoCode]
    /\ exitAfter = [s \in Sandboxes |-> NoCode]
    /\ exitCode = [s \in Sandboxes |-> NoCode]
    /\ apc = [a \in Admins |-> "idle"]
    /\ asnap = [a \in Admins |-> {}]

Environment(s) ==
    Signal(s) \/ Timeout(s) \/ GuestExit(s) \/ CliKilled(s)

Admin(a) ==
    \/ \E s \in Sandboxes : Kill(a, s) \/ Remove(a, s)
    \/ KillAllList(a) \/ RmStoppedList(a) \/ LoopNext(a) \/ Prune(a)

Next ==
    \/ \E s \in Sandboxes : RunStep(s) \/ Environment(s)
    \/ \E a \in Admins : Admin(a)

\* Each `run` goroutine keeps running; every call it blocks in honours the
\* context (spec 5), so a step of it that is enabled is eventually taken.
Fairness == \A s \in Sandboxes : WF_vars(RunStep(s))

Spec == Init /\ [][Next]_vars /\ Fairness

-----------------------------------------------------------------------------
(* Properties.                                                             *)

TypeOK ==
    /\ flags \in [Sandboxes -> Flags]
    /\ pc \in [Sandboxes -> RunPc]
    /\ status \in [Sandboxes -> Status \cup {"absent"}]
    /\ vm \in [Sandboxes -> {"none", "alive", "dead"}]
    /\ relay \in [Sandboxes -> BOOLEAN]
    /\ ctxDone \in [Sandboxes -> BOOLEAN]
    /\ cause \in [Sandboxes -> {"none", "signal", "timeout"}]
    /\ guestCode \in [Sandboxes -> GuestCodes \cup {NoCode}]
    /\ exitAfter \in [Sandboxes -> GuestCodes \cup {0, 1, NoCode}]
    /\ exitCode \in [Sandboxes -> GuestCodes \cup {0, 1, NoCode}]
    /\ apc \in [Admins -> {"idle", "killAll", "rmStopped"}]
    /\ asnap \in [Admins -> SUBSET Sandboxes]

\* Spec 3(c) and release note #12: once a `run --rm` process has exited on
\* its own (every exit path of runRun: validation, build, start failure,
\* exec error, -it, completion), its state directory is gone and its VMM
\* is not running.
RmRunLeavesNoState ==
    \A s \in Sandboxes :
        (pc[s] = "exited" /\ flags[s].rm) => (status[s] = "absent" /\ vm[s] # "alive")

\* Spec P7: after sb.Close has returned and the `run` process exited, the
\* sandbox is listed as stopped (crashed when the guest died first), or not
\* at all, and its VMM is dead, whatever kill, rm, prune or the guest do
\* afterwards or did while Close ran.
ClosedStaysDown ==
    \A s \in Sandboxes :
        (pc[s] = "exited" /\ exitAfter[s] # NoCode)
            => (status[s] \in {"stopped", "crashed", "absent"} /\ vm[s] # "alive")

\* Spec 5 (cancellation): after SIGINT/SIGTERM or the --timeout deadline,
\* every `run` process eventually exits, whatever stage runRun was in.
CancelLeadsToExit ==
    \A s \in Sandboxes : ctxDone[s] ~> pc[s] \in Gone

\* Spec 3(b): an exec relay listens while the sandbox is running or
\* stopping (`matchlock exec` checks for "running", then dials the relay).
RelayWhileRunning ==
    \A s \in Sandboxes : status[s] \in {"running", "stopping"} => relay[s]

\* Spec 3(a): a sandbox recorded as running has a live VMM and a live
\* frame transport, which the `run` process holds.
RunningIsLive ==
    \A s \in Sandboxes :
        status[s] = "running" => (vm[s] = "alive" /\ pc[s] \notin Gone)

\* Spec 6: `run` exits with the guest command's exit code when the command
\* completed.
ExitCodePropagated ==
    \A s \in Sandboxes :
        (pc[s] = "exited" /\ guestCode[s] # NoCode) => exitCode[s] = guestCode[s]

\* Spec 3(a): `kill` stops a sandbox for good: a sandbox recorded as stopped
\* is never recorded as running again, not even when the kill came while
\* its `run` process was still booting it.
KilledStaysStopped ==
    [][\A s \in Sandboxes : status[s] = "stopped" => status'[s] # "running"]_vars

-----------------------------------------------------------------------------
(* Refinement: the status files behave as SandboxStatus describes.         *)

\* The refinement mapping: the abstract status file of each sandbox is the
\* status file the run process and the admin commands write.
StatusFile == INSTANCE SandboxStatus WITH Sandboxes <- Sandboxes, status <- status

\* Every step of every `run` process, of the guest and of every admin
\* process changes the status files only as the lifecycle of the spec
\* (section 2), `kill`, `rm` and `prune` allow: no status is written into
\* a removed directory, no running sandbox is removed, nothing but a boot
\* makes a sandbox running.
StatusFileSpec == StatusFile!Init /\ [][StatusFile!Next]_status

=============================================================================
