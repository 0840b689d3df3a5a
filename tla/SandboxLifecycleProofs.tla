----------------------- MODULE SandboxLifecycleProofs -----------------------
(***************************************************************************)
(* Proofs about SandboxLifecycle, for every set of sandboxes, admins and   *)
(* guest exit codes.                                                       *)
(***************************************************************************)
EXTENDS SandboxLifecycle, TLAPS

(***************************************************************************)
(* The inductive invariant behind RmRunLeavesNoState.  Before sandbox.New  *)
(* a `run` process owns no state directory and no VMM; while it is inside  *)
(* the second half of sb.Close its VMM is already dead; and after it       *)
(* exited under --rm nothing brings the directory or the VMM back, since   *)
(* only NewSandbox creates a directory and only StartSpawn starts a VMM,   *)
(* both of them steps of the owning process.                               *)
(***************************************************************************)
NothingBeforeNew ==
    \A s \in Sandboxes :
        pc[s] \in {"init", "build", "new"} => (status[s] = "absent" /\ vm[s] = "none")

DeadWhileClosing ==
    \A s \in Sandboxes : pc[s] = "closing" => vm[s] # "alive"

\* sb.Close has already moved a "running" status to "stopping" when it
\* reaches its second half, and nothing but StartReady writes "running".
NotRunningWhileClosing ==
    \A s \in Sandboxes : pc[s] = "closing" => status[s] # "running"

IInv == /\ TypeOK /\ NothingBeforeNew /\ DeadWhileClosing
        /\ NotRunningWhileClosing /\ RmRunLeavesNoState

-----------------------------------------------------------------------------
(* Type correctness.                                                       *)

\* What the exit of a `run` process leaves in the variables it writes.
LEMMA ExitType ==
    ASSUME TypeOK, NEW s \in Sandboxes,
           NEW code \in GuestCodes \cup {0, 1, NoCode}, Exit(s, code)
    PROVE  /\ pc' \in [Sandboxes -> RunPc]
           /\ exitCode' \in [Sandboxes -> GuestCodes \cup {0, 1, NoCode}]
           /\ relay' \in [Sandboxes -> BOOLEAN]
           /\ vm' \in [Sandboxes -> {"none", "alive", "dead"}]
<1>1. PICK v \in {vm[s], Killed(vm[s])} : vm' = [vm EXCEPT ![s] = v]
  BY DEF Exit
<1>2. v \in {"none", "alive", "dead"}
  BY <1>1 DEF TypeOK, Killed
<1>3. QED
  BY <1>1, <1>2 DEF Exit, TypeOK, RunPc

\* How runRun ends after an exec leaves the variables it writes in their type.
LEMMA EndRunType ==
    ASSUME TypeOK, NEW s \in Sandboxes,
           NEW code \in GuestCodes \cup {0, 1, NoCode}, EndRun(s, code)
    PROVE  /\ pc' \in [Sandboxes -> RunPc]
           /\ exitCode' \in [Sandboxes -> GuestCodes \cup {0, 1, NoCode}]
           /\ exitAfter' \in [Sandboxes -> GuestCodes \cup {0, 1, NoCode}]
           /\ relay' \in [Sandboxes -> BOOLEAN]
           /\ vm' \in [Sandboxes -> {"none", "alive", "dead"}]
<1>1. CASE flags[s].rm
  BY <1>1 DEF EndRun, CloseThenExit, TypeOK, RunPc
<1>2. CASE ~flags[s].rm
  <2>1. Exit(s, code) /\ UNCHANGED exitAfter
    BY <1>2 DEF EndRun
  <2>2. QED
    BY <2>1, ExitType DEF TypeOK
<1>3. QED
  BY <1>1, <1>2


\* Every step of the system, of any actor, keeps TypeOK.
LEMMA TypeOKStep == TypeOK /\ [Next]_vars => TypeOK'
<1> SUFFICES ASSUME TypeOK, [Next]_vars PROVE TypeOK'
  OBVIOUS
<1> USE DEF TypeOK, RunPc, Killed, CloseThenExit, NoCode, Status
<1>1. ASSUME NEW s \in Sandboxes, RunStep(s) PROVE TypeOK'
  <2>0. UNCHANGED <<flags, adminVars>>
    BY <1>1 DEF RunStep
  <2> USE <2>0 DEF adminVars
  <2>1. CASE Validate(s)
    <3>1. CASE flags[s].rm /\ ~flags[s].cmd /\ ~flags[s].it
      BY <2>1, <3>1, ExitType DEF Validate
    <3>2. CASE ~(flags[s].rm /\ ~flags[s].cmd /\ ~flags[s].it)
      BY <2>1, <3>2 DEF Validate
    <3>3. QED
      BY <3>1, <3>2
  <2>2. CASE BuildRootfs(s)
    <3>1. CASE Exit(s, 1)
      BY <2>2, <3>1, ExitType DEF BuildRootfs
    <3>2. CASE ~Exit(s, 1)
      BY <2>2, <3>2 DEF BuildRootfs
    <3>3. QED
      BY <3>1, <3>2
  <2>3. CASE NewSandbox(s)
    <3>1. CASE Exit(s, 1)
      BY <2>3, <3>1, ExitType DEF NewSandbox
    <3>2. CASE ~Exit(s, 1)
      BY <2>3, <3>2 DEF NewSandbox
    <3>3. QED
      BY <3>1, <3>2
  <2>4. CASE StartSpawn(s)
    BY <2>4 DEF StartSpawn
  <2>5. CASE StartReady(s)
    BY <2>5 DEF StartReady
  <2>6. CASE RelayStart(s)
    BY <2>6 DEF RelayStart
  <2>7. CASE ExecInteractive(s)
    <3>1. CASE \E c \in GuestCodes : guestCode' = [guestCode EXCEPT ![s] = c]
                                    /\ EndRun(s, c)
      <4>1. PICK c \in GuestCodes : guestCode' = [guestCode EXCEPT ![s] = c]
                                    /\ EndRun(s, c)
        BY <3>1
      <4>2. QED
        BY <2>7, <4>1, EndRunType DEF ExecInteractive
    <3>2. CASE UNCHANGED guestCode /\ EndRun(s, 1)
      BY <2>7, <3>2, EndRunType DEF ExecInteractive
    <3>3. QED
      BY <2>7, <3>1, <3>2 DEF ExecInteractive
  <2>8. CASE ExecBuffered(s)
    <3>1. CASE \E c \in GuestCodes :
                 /\ guestCode' = [guestCode EXCEPT ![s] = c]
                 /\ IF flags[s].rm
                      THEN CloseThenExit(s, c)
                      ELSE /\ pc' = [pc EXCEPT ![s] = "wait"]
                           /\ UNCHANGED <<relay, vm, exitCode, exitAfter>>
      BY <2>8, <3>1 DEF ExecBuffered
    <3>2. CASE UNCHANGED guestCode /\ EndRun(s, 1)
      BY <2>8, <3>2, EndRunType DEF ExecBuffered
    <3>3. QED
      BY <2>8, <3>1, <3>2 DEF ExecBuffered
  <2>9. CASE WaitDone(s)
    BY <2>9 DEF WaitDone
  <2>10. CASE CloseBegin(s)
    BY <2>10 DEF CloseBegin
  <2>11. CASE CloseEnd(s)
    BY <2>11, ExitType DEF CloseEnd
  <2>12. QED
    BY <1>1, <2>1, <2>2, <2>3, <2>4, <2>5, <2>6, <2>7, <2>8, <2>9, <2>10, <2>11
    DEF RunStep
<1>2. ASSUME NEW s \in Sandboxes, Environment(s) PROVE TypeOK'
  <2>1. CASE Signal(s)
    BY <2>1 DEF Signal, adminVars
  <2>5. CASE Timeout(s)
    BY <2>5 DEF Timeout, adminVars
  <2>4. CASE GuestExit(s)
    BY <2>4 DEF GuestExit, adminVars
  <2>2. CASE CliKilled(s)
    <3>1. PICK v \in {vm[s], Killed(vm[s])} : vm' = [vm EXCEPT ![s] = v]
      BY <2>2 DEF CliKilled
    <3>2. QED
      BY <2>2, <3>1 DEF CliKilled, adminVars
  <2>3. QED
    BY <1>2, <2>1, <2>2, <2>4, <2>5 DEF Environment
<1>3. ASSUME NEW a \in Admins, NEW s \in Sandboxes, Kill(a, s) \/ Remove(a, s)
       PROVE TypeOK'
  BY <1>3 DEF Kill, Remove, KillVM, RemoveState, adminVars
<1>4. ASSUME NEW a \in Admins, KillAllList(a) \/ RmStoppedList(a) PROVE TypeOK'
  BY <1>4 DEF KillAllList, RmStoppedList, runVars
<1>5. ASSUME NEW a \in Admins, LoopNext(a) PROVE TypeOK'
  BY <1>5 DEF LoopNext, KillVM, RemoveState, runVars
<1>6. ASSUME NEW a \in Admins, Prune(a) PROVE TypeOK'
  BY <1>6 DEF Prune, adminVars
<1>7. CASE UNCHANGED vars
  BY <1>7 DEF vars, runVars, adminVars
<1>8. QED
  BY <1>1, <1>2, <1>3, <1>4, <1>5, <1>6, <1>7 DEF Next, Admin

\* Every step of every actor keeps each variable in its type: the exit code
\* runRun exits with is always a guest code, 0, 1 or not yet set, and the
\* admin loops only ever hold sandbox ids.
THEOREM TypeCorrect == Spec => []TypeOK
<1>1. Init => TypeOK
  BY DEF Init, TypeOK, NoCode, RunPc, Status
<1>2. QED
  BY <1>1, TypeOKStep, PTL DEF Spec

-----------------------------------------------------------------------------
(* The --rm cleanup invariant.                                             *)

LEMMA IInvInit == Init => IInv
BY DEF Init, IInv, TypeOK, NothingBeforeNew, DeadWhileClosing, NotRunningWhileClosing,
       RmRunLeavesNoState, NoCode, RunPc, Status

\* Every step keeps the three conjuncts of IInv beyond TypeOK.
LEMMA IInvStep == IInv /\ [Next]_vars => IInv'
<1> SUFFICES ASSUME IInv, [Next]_vars
             PROVE  (NothingBeforeNew /\ DeadWhileClosing /\ NotRunningWhileClosing /\ RmRunLeavesNoState)'
  BY TypeOKStep DEF IInv
<1> USE DEF IInv, TypeOK, NothingBeforeNew, DeadWhileClosing, NotRunningWhileClosing,
            RmRunLeavesNoState,
            RunPc, Killed, CloseThenExit, NoCode, Status
<1>1. ASSUME NEW s \in Sandboxes, RunStep(s)
      PROVE  (NothingBeforeNew /\ DeadWhileClosing /\ NotRunningWhileClosing /\ RmRunLeavesNoState)'
  <2>0. UNCHANGED <<flags, adminVars>>
    BY <1>1 DEF RunStep
  <2> USE <2>0 DEF adminVars
  <2>1. CASE Validate(s)
    BY <2>1 DEF Validate, Exit
  <2>2. CASE BuildRootfs(s)
    BY <2>2 DEF BuildRootfs, Exit
  <2>3. CASE NewSandbox(s)
    BY <2>3 DEF NewSandbox, Exit
  <2>4. CASE StartSpawn(s)
    BY <2>4 DEF StartSpawn
  <2>5. CASE StartReady(s)
    BY <2>5 DEF StartReady
  <2>6. CASE RelayStart(s)
    BY <2>6 DEF RelayStart
  <2>7. CASE ExecInteractive(s)
    BY <2>7 DEF ExecInteractive, EndRun, Exit
  <2>8. CASE ExecBuffered(s)
    BY <2>8 DEF ExecBuffered, EndRun, Exit
  <2>9. CASE WaitDone(s)
    BY <2>9 DEF WaitDone
  <2>10. CASE CloseBegin(s)
    BY <2>10 DEF CloseBegin
  <2>11. CASE CloseEnd(s)
    BY <2>11 DEF CloseEnd, Exit
  <2>12. QED
    BY <1>1, <2>1, <2>2, <2>3, <2>4, <2>5, <2>6, <2>7, <2>8, <2>9, <2>10, <2>11
    DEF RunStep
<1>2. ASSUME NEW s \in Sandboxes, Environment(s)
      PROVE  (NothingBeforeNew /\ DeadWhileClosing /\ NotRunningWhileClosing /\ RmRunLeavesNoState)'
  <2>1. CASE Signal(s)
    BY <2>1 DEF Signal
  <2>2. CASE Timeout(s)
    BY <2>2 DEF Timeout
  <2>3. CASE GuestExit(s)
    BY <2>3 DEF GuestExit
  <2>4. CASE CliKilled(s)
    BY <2>4 DEF CliKilled
  <2>5. QED
    BY <1>2, <2>1, <2>2, <2>3, <2>4 DEF Environment
<1>3. ASSUME NEW a \in Admins, NEW s \in Sandboxes, Kill(a, s) \/ Remove(a, s)
      PROVE  (NothingBeforeNew /\ DeadWhileClosing /\ NotRunningWhileClosing /\ RmRunLeavesNoState)'
  BY <1>3 DEF Kill, Remove, KillVM, RemoveState
<1>4. ASSUME NEW a \in Admins, KillAllList(a) \/ RmStoppedList(a)
      PROVE  (NothingBeforeNew /\ DeadWhileClosing /\ NotRunningWhileClosing /\ RmRunLeavesNoState)'
  BY <1>4 DEF KillAllList, RmStoppedList, runVars
<1>5. ASSUME NEW a \in Admins, LoopNext(a)
      PROVE  (NothingBeforeNew /\ DeadWhileClosing /\ NotRunningWhileClosing /\ RmRunLeavesNoState)'
  BY <1>5 DEF LoopNext, KillVM, RemoveState, runVars
<1>6. ASSUME NEW a \in Admins, Prune(a)
      PROVE  (NothingBeforeNew /\ DeadWhileClosing /\ NotRunningWhileClosing /\ RmRunLeavesNoState)'
  BY <1>6 DEF Prune
<1>7. CASE UNCHANGED vars
  BY <1>7 DEF vars, runVars, adminVars
<1>8. QED
  BY <1>1, <1>2, <1>3, <1>4, <1>5, <1>6, <1>7 DEF Next, Admin

\* Spec 3(c) and release note #12, for any number of sandboxes and admins:
\* a `run --rm` process that exited on its own has removed its state
\* directory and killed its VMM, whatever `kill`, `rm` and `prune` do
\* concurrently.
THEOREM RmRunLeavesNoStateHolds == Spec => []RmRunLeavesNoState
<1>1. IInv => RmRunLeavesNoState
  BY DEF IInv
<1>2. QED
  BY <1>1, IInvInit, IInvStep, PTL DEF Spec

-----------------------------------------------------------------------------
(* Refinement: the status files implement SandboxStatus.                  *)

\* While its `run` process boots it, a sandbox's status is what
\* sandbox.New wrote, what a concurrent `kill` recorded, or gone after a
\* concurrent `rm`: sb.Start's "running" write follows no other status.
BootingStatus ==
    \A s \in Sandboxes :
        pc[s] \in {"spawn", "ready"} => status[s] \in {"creating", "stopped", "absent"}

RInv == IInv /\ BootingStatus

LEMMA RInvInit == Init => RInv
BY IInvInit DEF RInv, BootingStatus, Init

\* Every step keeps BootingStatus.
LEMMA BootingStatusStep == IInv /\ BootingStatus /\ [Next]_vars => BootingStatus'
<1> SUFFICES ASSUME IInv, BootingStatus, [Next]_vars PROVE BootingStatus'
  OBVIOUS
<1> USE DEF IInv, TypeOK, NothingBeforeNew, BootingStatus, RunPc, Status, CloseThenExit
<1>1. ASSUME NEW s \in Sandboxes, RunStep(s) PROVE BootingStatus'
  BY <1>1 DEF RunStep, Validate, BuildRootfs, NewSandbox, StartSpawn, StartReady,
     RelayStart, ExecInteractive, ExecBuffered, EndRun, WaitDone, CloseBegin,
     CloseEnd, Exit
<1>2. ASSUME NEW s \in Sandboxes, Environment(s) PROVE BootingStatus'
  BY <1>2 DEF Environment, Signal, Timeout, GuestExit, CliKilled
<1>3. ASSUME NEW a \in Admins, Admin(a) PROVE BootingStatus'
  BY <1>3 DEF Admin, Kill, Remove, KillVM, RemoveState, KillAllList, RmStoppedList,
     LoopNext, Prune, runVars
<1>4. CASE UNCHANGED vars
  BY <1>4 DEF vars, runVars
<1>5. QED
  BY <1>1, <1>2, <1>3, <1>4 DEF Next

LEMMA RInvStep == RInv /\ [Next]_vars => RInv'
BY IInvStep, BootingStatusStep DEF RInv

\* A status file left alone is a stutter of SandboxStatus.
LEMMA StatusKept ==
    ASSUME status' = status
    PROVE  [StatusFile!Next]_status
OBVIOUS

\* state.Manager.Kill is SandboxStatus's Stopped, or changes nothing.
LEMMA KillVMMaps ==
    ASSUME TypeOK, NEW s \in Sandboxes, KillVM(s)
    PROVE  [StatusFile!Next]_status
<1>1. CASE status[s] = "absent"
  BY <1>1, StatusKept DEF KillVM, TypeOK
<1>2. CASE status[s] # "absent"
  <2>1. StatusFile!Stopped(s)
    BY <1>2 DEF KillVM, TypeOK, Status, StatusFile!Stopped, StatusFile!Status
  <2>2. QED
    BY <2>1 DEF StatusFile!Next
<1>3. QED
  BY <1>1, <1>2

\* Removing one directory is SandboxStatus's Remove of that sandbox.
LEMMA RemoveOneMaps ==
    ASSUME TypeOK, NEW s \in Sandboxes, status[s] \in Status \ {"running"},
           status' = [status EXCEPT ![s] = "absent"]
    PROVE  [StatusFile!Next]_status
<1>1. StatusFile!Remove({s})
  BY DEF TypeOK, Status, StatusFile!Remove, StatusFile!Status
<1>2. QED
  BY <1>1 DEF StatusFile!Next

\* state.Manager.Remove is SandboxStatus's Remove, or changes nothing.
LEMMA RemoveStateMaps ==
    ASSUME TypeOK, NEW s \in Sandboxes, RemoveState(s)
    PROVE  [StatusFile!Next]_status
<1>1. CASE status[s] \in {"absent", "running"}
  BY <1>1, StatusKept DEF RemoveState, TypeOK
<1>2. CASE status[s] \notin {"absent", "running"}
  BY <1>2, RemoveOneMaps DEF RemoveState, TypeOK, Status
<1>3. QED
  BY <1>1, <1>2

\* Each step of a `run` process is a step of SandboxStatus or leaves the
\* status files alone: New creates, sb.Start boots, the two halves of
\* sb.Close stop and then record stopped or remove.
LEMMA RunStepMaps ==
    ASSUME RInv, NEW s \in Sandboxes, RunStep(s)
    PROVE  [StatusFile!Next]_status
<1> USE DEF RInv, IInv, TypeOK, Status
<1>1. CASE Validate(s) \/ BuildRootfs(s) \/ StartSpawn(s) \/ RelayStart(s)
           \/ ExecInteractive(s) \/ ExecBuffered(s) \/ WaitDone(s)
  BY <1>1, StatusKept DEF Validate, BuildRootfs, StartSpawn, RelayStart,
     ExecInteractive, ExecBuffered, WaitDone
<1>2. CASE NewSandbox(s)
  <2>1. CASE status' = [status EXCEPT ![s] = "creating"] /\ pc[s] = "new"
    <3>1. StatusFile!Create(s)
      BY <2>1 DEF NothingBeforeNew, StatusFile!Create
    <3>2. QED
      BY <3>1 DEF StatusFile!Next
  <2>2. QED
    BY <1>2, <2>1, StatusKept DEF NewSandbox
<1>3. CASE StartReady(s)
  <2>1. CASE status' = [status EXCEPT ![s] = "running"] /\ pc[s] = "ready"
             /\ status[s] # "absent"
    <3>1. StatusFile!Boot(s)
      BY <2>1 DEF BootingStatus, StatusFile!Boot
    <3>2. QED
      BY <3>1 DEF StatusFile!Next
  <2>2. QED
    BY <1>3, <2>1, StatusKept DEF StartReady
<1>4. CASE CloseBegin(s)
  <2>1. CASE status[s] \in {"creating", "running"}
    <3>1. StatusFile!Stop(s)
      BY <1>4, <2>1 DEF CloseBegin, StatusFile!Stop
    <3>2. QED
      BY <3>1 DEF StatusFile!Next
  <2>2. CASE status[s] \notin {"creating", "running"}
    BY <1>4, <2>2, StatusKept DEF CloseBegin
  <2>3. QED
    BY <2>1, <2>2
<1>5. CASE CloseEnd(s)
  <2>1. pc[s] = "closing" /\ status[s] # "running"
    BY <1>5 DEF CloseEnd, NotRunningWhileClosing
  <2>2. CASE status[s] = "absent"
    BY <1>5, <2>2, StatusKept DEF CloseEnd
  <2>3. CASE status[s] # "absent" /\ flags[s].rm
    BY <1>5, <2>1, <2>3, RemoveOneMaps DEF CloseEnd
  <2>4. CASE status[s] = "crashed" /\ ~flags[s].rm
    BY <1>5, <2>4, StatusKept DEF CloseEnd
  <2>5. CASE status[s] \notin {"absent", "crashed"} /\ ~flags[s].rm
    <3>1. StatusFile!Stopped(s)
      BY <1>5, <2>5 DEF CloseEnd, StatusFile!Stopped, StatusFile!Status
    <3>2. QED
      BY <3>1 DEF StatusFile!Next
  <2>6. QED
    BY <2>2, <2>3, <2>4, <2>5
<1>6. QED
  BY <1>1, <1>2, <1>3, <1>4, <1>5 DEF RunStep

\* The guest and signals: only a crash under a live controller changes a
\* status file.
LEMMA EnvironmentMaps ==
    ASSUME RInv, NEW s \in Sandboxes, Environment(s)
    PROVE  [StatusFile!Next]_status
<1>1. CASE Signal(s) \/ Timeout(s) \/ CliKilled(s)
  BY <1>1, StatusKept DEF Signal, Timeout, CliKilled
<1>2. CASE GuestExit(s) /\ status[s] = "running" /\ pc[s] \notin Gone
  <2>1. StatusFile!Crash(s)
    BY <1>2 DEF GuestExit, StatusFile!Crash
  <2>2. QED
    BY <2>1 DEF StatusFile!Next
<1>3. CASE GuestExit(s) /\ ~(status[s] = "running" /\ pc[s] \notin Gone)
  BY <1>3, StatusKept DEF GuestExit, RInv, IInv, TypeOK
<1>4. QED
  BY <1>1, <1>2, <1>3 DEF Environment

\* `kill`, `rm`, their list-then-act loops and `prune`.
LEMMA AdminMaps ==
    ASSUME RInv, NEW a \in Admins, Admin(a)
    PROVE  [StatusFile!Next]_status
<1> USE DEF RInv, IInv
<1>1. ASSUME NEW s \in Sandboxes, Kill(a, s) PROVE [StatusFile!Next]_status
  BY <1>1, KillVMMaps DEF Kill
<1>2. ASSUME NEW s \in Sandboxes, Remove(a, s) PROVE [StatusFile!Next]_status
  BY <1>2, RemoveStateMaps DEF Remove
<1>3. CASE KillAllList(a) \/ RmStoppedList(a)
  BY <1>3, StatusKept DEF KillAllList, RmStoppedList, runVars
<1>4. CASE LoopNext(a)
  <2>1. CASE asnap[a] = {} /\ UNCHANGED runVars
    BY <2>1, StatusKept DEF runVars
  <2>2. ASSUME NEW s \in asnap[a], KillVM(s) PROVE [StatusFile!Next]_status
    BY <2>2, KillVMMaps DEF TypeOK
  <2>3. ASSUME NEW s \in asnap[a], RemoveState(s) PROVE [StatusFile!Next]_status
    BY <2>3, RemoveStateMaps DEF TypeOK
  <2>4. QED
    BY <1>4, <2>1, <2>2, <2>3 DEF LoopNext
<1>5. CASE Prune(a)
  <2>1. StatusFile!Remove({t \in Sandboxes : status[t] \in {"stopped", "crashed"}})
    BY <1>5 DEF Prune, TypeOK, StatusFile!Remove, StatusFile!Status
  <2>2. QED
    BY <2>1 DEF StatusFile!Next
<1>6. QED
  BY <1>1, <1>2, <1>3, <1>4, <1>5 DEF Admin

\* Every step of the system maps to a step of SandboxStatus or a stutter.
LEMMA StatusStep == RInv /\ [Next]_vars => [StatusFile!Next]_status
<1> SUFFICES ASSUME RInv, [Next]_vars PROVE [StatusFile!Next]_status
  OBVIOUS
<1>1. CASE UNCHANGED vars
  BY <1>1, StatusKept DEF vars, runVars
<1>2. QED
  BY <1>1, RunStepMaps, EnvironmentMaps, AdminMaps DEF Next

\* The status files of every sandbox, under any number of `run`, `kill`,
\* `rm` and `prune` processes, behave as SandboxStatus says: each change
\* is a creation by sandbox.New, a boot by sb.Start, a stop or crash, a
\* stopped record by sb.Close or `kill`, or the removal of directories
\* that are not running; no status is written into a removed directory.
THEOREM StatusFileRefinement == Spec => StatusFileSpec
<1>1. Init => StatusFile!Init
  BY DEF Init, StatusFile!Init
<1>2. QED
  BY <1>1, RInvInit, RInvStep, StatusStep, PTL DEF Spec, StatusFileSpec

-----------------------------------------------------------------------------
(* A closed sandbox stays down.                                            *)

(***************************************************************************)
(* ClosedStaysDown is not inductive by itself: a `run` process that exits *)
(* through EndRun without Close must not carry an exit code of a later     *)
(* Close.  CloseOnlyAfter says runRun's deferred exit code is set only on  *)
(* the way into sb.Close, so an exit with it set went through CloseEnd,    *)
(* where IInv gives a dead VMM and a status other than running.            *)
(***************************************************************************)
CloseOnlyAfter ==
    \A s \in Sandboxes :
        exitAfter[s] # NoCode => pc[s] \in {"close", "closing", "exited", "killed"}

DInv == IInv /\ CloseOnlyAfter /\ ClosedStaysDown

LEMMA DInvInit == Init => DInv
BY IInvInit DEF Init, DInv, CloseOnlyAfter, ClosedStaysDown

\* Every step keeps CloseOnlyAfter and ClosedStaysDown.
LEMMA DInvStep == DInv /\ [Next]_vars => DInv'
<1> SUFFICES ASSUME DInv, [Next]_vars
             PROVE  (CloseOnlyAfter /\ ClosedStaysDown)'
  BY IInvStep DEF DInv
<1> USE DEF DInv, IInv, TypeOK, DeadWhileClosing, NotRunningWhileClosing,
            CloseOnlyAfter, ClosedStaysDown, RunPc, Killed, CloseThenExit, NoCode, Status
<1>1. ASSUME NEW s \in Sandboxes, RunStep(s)
      PROVE  (CloseOnlyAfter /\ ClosedStaysDown)'
  <2>0. UNCHANGED <<flags, adminVars>>
    BY <1>1 DEF RunStep
  <2> USE <2>0 DEF adminVars
  <2>1. CASE Validate(s)
    BY <2>1 DEF Validate, Exit
  <2>2. CASE BuildRootfs(s)
    BY <2>2 DEF BuildRootfs, Exit
  <2>3. CASE NewSandbox(s)
    BY <2>3 DEF NewSandbox, Exit
  <2>4. CASE StartSpawn(s)
    BY <2>4 DEF StartSpawn
  <2>5. CASE StartReady(s)
    BY <2>5 DEF StartReady
  <2>6. CASE RelayStart(s)
    BY <2>6 DEF RelayStart
  <2>7. CASE ExecInteractive(s)
    BY <2>7 DEF ExecInteractive, EndRun, Exit
  <2>8. CASE ExecBuffered(s)
    BY <2>8 DEF ExecBuffered, EndRun, Exit
  <2>9. CASE WaitDone(s)
    BY <2>9 DEF WaitDone
  <2>10. CASE CloseBegin(s)
    BY <2>10 DEF CloseBegin
  <2>11. CASE CloseEnd(s)
    BY <2>11 DEF CloseEnd, Exit
  <2>12. QED
    BY <1>1, <2>1, <2>2, <2>3, <2>4, <2>5, <2>6, <2>7, <2>8, <2>9, <2>10, <2>11
    DEF RunStep
<1>2. ASSUME NEW s \in Sandboxes, Environment(s)
      PROVE  (CloseOnlyAfter /\ ClosedStaysDown)'
  <2>1. CASE Signal(s)
    BY <2>1 DEF Signal
  <2>2. CASE Timeout(s)
    BY <2>2 DEF Timeout
  <2>3. CASE GuestExit(s)
    BY <2>3 DEF GuestExit
  <2>4. CASE CliKilled(s)
    BY <2>4 DEF CliKilled
  <2>5. QED
    BY <1>2, <2>1, <2>2, <2>3, <2>4 DEF Environment
<1>3. ASSUME NEW a \in Admins, NEW s \in Sandboxes, Kill(a, s) \/ Remove(a, s)
      PROVE  (CloseOnlyAfter /\ ClosedStaysDown)'
  BY <1>3 DEF Kill, Remove, KillVM, RemoveState
<1>4. ASSUME NEW a \in Admins, KillAllList(a) \/ RmStoppedList(a)
      PROVE  (CloseOnlyAfter /\ ClosedStaysDown)'
  BY <1>4 DEF KillAllList, RmStoppedList, runVars
<1>5. ASSUME NEW a \in Admins, LoopNext(a)
      PROVE  (CloseOnlyAfter /\ ClosedStaysDown)'
  BY <1>5 DEF LoopNext, KillVM, RemoveState, runVars
<1>6. ASSUME NEW a \in Admins, Prune(a)
      PROVE  (CloseOnlyAfter /\ ClosedStaysDown)'
  BY <1>6 DEF Prune
<1>7. CASE UNCHANGED vars
  BY <1>7 DEF vars, runVars, adminVars
<1>8. QED
  BY <1>1, <1>2, <1>3, <1>4, <1>5, <1>6, <1>7 DEF Next, Admin

\* Spec P7, for any number of sandboxes and admins: once sb.Close has
\* returned and the `run` process exited, its sandbox is listed as stopped,
\* crashed or not at all and its VMM is dead, whatever `kill`, `rm`,
\* `prune` or the guest do afterwards.
THEOREM ClosedStaysDownHolds == Spec => []ClosedStaysDown
<1>1. DInv => ClosedStaysDown
  BY DEF DInv
<1>2. QED
  BY <1>1, DInvInit, DInvStep, PTL DEF Spec

=============================================================================
