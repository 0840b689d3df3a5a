# A TLA+ verification of matchlock

matchlock runs commands in micro-VM sandboxes. A CLI process (`matchlock run`)
builds a root filesystem from an OCI image, creates and starts a sandbox, and
records it in a per-sandbox state directory with a status file. Other CLI
processes (`kill`, `rm`, `prune`, `list`, `exec`) act on that state directory.
A Go SDK drives a `matchlock rpc` process over JSON-RPC on stdin and stdout.

This directory holds TLA+ modules that model the parts of the code that have
state and concurrency, TLC configurations that check them on small instances,
and TLAPS proofs of the main safety properties for every size of instance.

## Inventory

The source is in `src/`. Several files are concatenations of more than one Go
file. The table names each part by what it holds.

| Part | Source | What it does | Status |
|---|---|---|---|
| run lifecycle | `src/unnamed/part_000` `runRun` 226-391, `runInteractive` 696-749, `main` 219-224 | validate flags, build, `sandbox.New`, `sb.Start`, exec relay, exec or `-it`, wait, `sb.Close`, exit code | modelled: `SandboxLifecycle`; abstract view `SandboxStatus` |
| kill / rm / prune | `src/unnamed/part_000` 790-860 | list the state directory, then kill or remove each match; prune stopped and crashed ones | modelled: `SandboxLifecycle` |
| state manager, `sandbox.Close` | not under `src/`; spec 3 and 4.1; tests in `src/pkg/state/state_test.go` 1-49 | status file, Kill, Remove (refuses running), Prune, Close | partly, spec-modelled in `SandboxLifecycle` |
| exec relay | `src/unnamed/part_000` 339-346 | a socket that `matchlock exec` connects to | partly: only whether it listens |
| list / get / exec / build commands | `src/unnamed/part_000` | read-only views, I/O forwarding, image build front-end | not modelled: read-only, or covered by other modules |
| rpc command and server | `src/cmd/matchlock/sysinfo_linux.go` 41-68 (`runRPC`); `rpc.RunRPC` is not under `src/` | a factory that builds and creates the VM, then one answer per request line; signals cancel it | partly, in `RpcClient`: the server's replies are spec-modelled |
| SDK client | `src/unnamed/part_001` 191-245 | `sendRequest`: check closed, take an id, write a line, read lines until the id matches | partly, in `RpcClient`: `sendRequest` and `Close`, not the decoding of results; abstract view `RpcCalls` |
| example SDK program | `src/examples/go/main.go` | `NewClient`, `Create`, two `Exec`, `WriteFile`, `ExecStream`, `Close`; `os.Exit(1)` on any error | modelled: `RpcClient` |
| image builder and cache | `src/unnamed/part_002` 53-161 | cache lookup, directory scan for `*.ext4`, pull, extract, `createExt4` in place, `metadata.json` | planned: `ImageCache` |
| layer extraction | `src/unnamed/part_002` 169-239 | tar entries to files, symlinks and hard links, with a `..` filter | planned: `TarExtract` |
| host memory | `src/cmd/matchlock/sysinfo_darwin.go`, `sysinfo_linux.go` 1-13, `part_000` 901-914 | sysctl `hw.memsize` decoding, sysinfo(2) | modelled: `MemSize`, `MemSizeProofs` |
| error wrapping | `src/internal/errx/errx.go`; its tests in `sysinfo_linux.go` 70-126 | `With` and `Wrap` chains | modelled: `ErrWrap`, `ErrIs` |
| network stack, MITM, policy, VFS, vsock, guest agent | not under `src/` | packet and TLS handling, file serving | not modelled: data transformations, not in `src/` |
| firewalld D-Bus helpers | `src/pkg/state/state_test.go` 50-110 | calls to an external service | not modelled: no state of their own |

### How the parts interact

- A `run` process owns one sandbox. It creates the state directory (status
  `creating`), starts the VMM, and sets the status to `running`. It ends in
  `sb.Close`, which sets `stopping`, kills the VMM, and then sets `stopped` or
  removes the directory under `--rm`.
- `kill`, `rm`, `rm --stopped`, `kill --all` and `prune` are other processes.
  They act on the same state directory at any time. The `--all` and
  `--stopped` forms first list the directory and then act on each listed id.
- A signal (SIGINT or SIGTERM) or the `--timeout` deadline cancels the
  `run` process's context, and the step in progress returns.
- The guest may exit, or the VMM may die, at any time.

## The module `SandboxLifecycle`

State, one entry per sandbox id:

| Variable | Meaning |
|---|---|
| `flags` | the `--rm`, command, `-it` and `--timeout` choices |
| `pc` | where `runRun` is |
| `status` | the state directory's status, or `"absent"` |
| `vm` | the VMM: `none`, `alive` or `dead` |
| `relay` | whether the exec relay listens |
| `ctxDone`, `cause` | whether the context was cancelled, and by what |
| `guestCode` | the guest command's exit code once it has one |
| `exitAfter` | the code `runRun` will exit with after `sb.Close` |
| `exitCode` | the code the process exited with |
| `apc`, `asnap` | for each admin process: which loop it is in, and the ids still to act on |

Actions:

- One action per step of `runRun`: `Validate`, `BuildRootfs`, `NewSandbox`,
  `StartSpawn`, `StartReady`, `RelayStart`, `ExecInteractive`,
  `ExecBuffered`, `WaitDone`.
- `sb.Close` is split into two steps, `CloseBegin` and `CloseEnd`, because
  other processes can act between its status writes.
- Each action includes its error return. Every exit goes through `Exit`
  (`main` exits 1 on an error) or through `CloseThenExit`.
- Environment steps: `Signal`, `Timeout`, `GuestExit`, and `CliKilled` (the
  CLI is SIGKILLed: no `Close` and no defer runs).
- Admin steps: `Kill`, `Remove`, `Prune`, and the list-then-act loops
  `KillAllList`/`RmStoppedList` followed by `LoopNext`.

Fairness: `WF_vars(RunStep(s))` for each sandbox. A `run` process that can
take a step eventually does; nothing else is fair. The guest, signals, the
deadline and admins may do nothing.

### Runs

| Run | Config | Result | What it shows |
|---|---|---|---|
| `lifecycle` | `MCSandboxLifecycle.cfg`: 1 sandbox, 1 admin, guest codes {0,3}, CLI crash on | pass | `TypeOK`; `RmRunLeavesNoState`; `ClosedStaysDown`; `CancelLeadsToExit` (liveness); `StatusFileSpec` (refinement of `SandboxStatus`) |
| `lifecycle_two` | `MCSandboxLifecycle2.cfg`: 2 sandboxes, no `-it` and no `--timeout` (`MCFlags`) | pass | `RmRunLeavesNoState` and `StatusFileSpec`, with admin loops acting on several sandboxes from stale lists |
| `relay_before_running` | `MC_RelayWhileRunning.cfg` | violation | status is `running` before the relay listens, and the relay may never listen |
| `orphan_running` | `MC_RunningIsLive.cfg` | violation | `run -it --rm=false` exits without `sb.Close`, leaving `running` with no owner |
| `exit_code_lost` | `MC_ExitCodePropagated.cfg` | violation | with `--rm=false` and a command, the CLI exits 0 whatever the guest returned |
| `killed_stays_stopped` | `MC_KilledStaysStopped.cfg` | violation | a `kill` before the VMM is spawned records `stopped`, then `sb.Start` writes `running` over it |

The findings section of `PROJECT.json` gives the source line of each of the
four violations.

The model also gives a timed-out `run` its real exit code: 1, or 0 after
`--rm=false`, where spec 6 says 124. One step of `runRun` decides that code,
so a unit test reaches it, and no run checks it.

No property states that `rm`, `rm --stopped` and `prune` never remove a
running sandbox. The state manager's `Remove` re-checks the status and
refuses a running sandbox in the same atomic step that deletes. `Prune`
removes only stopped or crashed ones. Both are modelled from the spec,
because that code is not under `src/`. Such a property would hold by those
two guards, whatever `runRemove`'s list does. What `runRemove` decides
itself (826-829) is the filter `Status != "running"`. That filter also
takes sandboxes still `creating` or `stopping`, and removes their
directories under a `run` process that is booting or closing them. The
`lifecycle` runs reach this:
- `StatusFileSpec` shows that no status is then written into the removed
  directory;
- `RmRunLeavesNoState` and `ClosedStaysDown` show that the process still
  ends with its VMM dead.

Why these bounds are enough:

- One sandbox covers every path of `runRun` for every flag combination. With
  two guest codes, a lost exit code can be told from a propagated one.
- Two sandboxes (about 2.1 million states) are what make `prune` and the
  `--all`/`--stopped` loops act on more than one id. Dropping `-it` and
  `--timeout` there keeps the run in reach. Those two flags only add exit
  paths of a single process, and the one-sandbox run already covers them.

### Proofs (`SandboxLifecycleProofs`)

Each theorem holds for any finite non-empty set of sandboxes, any set of
admins, and any set of guest codes within 0..255.

- `TypeCorrect`: `Spec => []TypeOK`. It rests on two lemmas: `TypeOKStep`,
  and `ExitType`/`EndRunType` for the exit helpers.
- `RmRunLeavesNoStateHolds`: `Spec => []RmRunLeavesNoState`.
- `ClosedStaysDownHolds`: `Spec => []ClosedStaysDown` (spec P7). After
  `sb.Close` has returned and the process exited, the sandbox is `stopped`,
  `crashed` or gone, and its VMM is dead. Later `kill`, `rm`, `prune` or a
  guest exit cannot change that.

`RmRunLeavesNoState` is not inductive on its own. The proof uses the
inductive invariant `IInv`, which adds three conjuncts to `TypeOK` and the
property itself:

- `NothingBeforeNew`: before `sandbox.New` a process has no directory and no
  VMM. This is why an early exit under `--rm` leaves nothing behind.
- `DeadWhileClosing`: during the second half of `Close` the VMM is dead. This
  is why `CloseEnd` exits with no live VMM.
- `NotRunningWhileClosing`: `Close` has already replaced `running`. This is
  why `CloseEnd`'s removal under `--rm` is not the removal of a running
  sandbox.

`IInvInit` and `IInvStep` prove that `IInv` is inductive. The theorem then
follows by PTL.

`ClosedStaysDown` is not inductive on its own either. A process that exits
through `EndRun` without `Close` must not already carry the exit code of a
later `Close`. The invariant `DInv == IInv /\ CloseOnlyAfter /\
ClosedStaysDown` adds `CloseOnlyAfter`: `exitAfter` is set only on the way
into `sb.Close`. So an exit with it set went through `CloseEnd`, where
`DeadWhileClosing` and `NotRunningWhileClosing` give a dead VMM and a final
status. TLC checked `DInv` as an invariant of both lifecycle
configurations before it was proved. `DInvInit` and `DInvStep` prove it
inductive.

### The abstract status lifecycle (`SandboxStatus`)

`SandboxStatus` is the lifecycle that `matchlock list` shows: one status
file per sandbox, `absent` until created, then the steps `Create`, `Boot`,
`Stop`, `Crash`, `Stopped` and `Remove(S)`. `Remove` takes a set because
`prune` removes every stopped or crashed directory in one call, and it never
removes a running sandbox. `SandboxLifecycle` instantiates it with
the refinement mapping written out: `StatusFile == INSTANCE SandboxStatus WITH
Sandboxes <- Sandboxes, status <- status`. The abstract status file is the
concrete one, with `absent` for a missing directory.
`StatusFileSpec` asserts its specification, and the `lifecycle` runs check it.

`Boot` is allowed from `stopped` as well as from `creating`. Spec 3(a)
boots only a creating sandbox. The code does not: `kill` can mark a sandbox
stopped before its VMM is spawned, and `sb.Start` then writes `running`
without reading the status. The run `killed_stays_stopped` shows this trace.
The abstract spec states what the code guarantees, and the finding records
where it differs from the spec.

`StatusFileRefinement` proves `Spec => StatusFileSpec` for every set of
sandboxes and admins. It uses the invariant `RInv == IInv /\ BootingStatus`.
`BootingStatus` says that a process between spawning and the ready handshake
sees its status as `creating`, `stopped` or `absent`. This is why `StartReady`
maps to `Boot` or to a stutter. There is one lemma per kind of step:

- `KillVMMaps`, `RemoveOneMaps`, `RemoveStateMaps`, `AdminMaps`: the
  admin's steps.
- `RunStepMaps`: the run process's steps.
- `EnvironmentMaps`: crashes and signals.

`StatusStep` combines them.

Only model-checked, because TLAPS cannot prove liveness or reason about
`ENABLED`:

- `CancelLeadsToExit`.
- The violations, which are counterexamples.

## The module `RpcClient`

This module models the Go SDK's client (`sendRequest` in
`src/unnamed/part_001` 191-245) as the example program
(`src/examples/go/main.go`) drives it, talking to a `matchlock rpc` process
(`runRPC`, `sysinfo_linux.go` 41-68). Each caller is one goroutine that
runs a program of calls (`Program[c]`), for instance `create, exec, exec,
write_file, exec_stream` in the example.

| Variable | Meaning |
|---|---|
| `proc` | the program: `starting`, `running`, `closing`, `exit0`, `exit1` |
| `closed`, `requestID` | the client's `closed` flag and its atomic id counter |
| `pc`, `todo`, `id` | per caller: where it is in `sendRequest`, the calls left, the id it took |
| `got` | per caller, the `for` tag (caller, call number) of every reply it accepted |
| `stdin`, `stdinOpen` | the request lines in the pipe, and whether the client's end is open |
| `stdout` | the lines the rpc process wrote and nobody has read yet |
| `srv`, `vm` | the rpc process (`running` or `exited`) and whether it has a VM |

These are the actions of `sendRequest`, one per step between which another
goroutine can act:

- `CheckClosed`: the locked `closed` test.
- `AddId`: `requestID.Add(1)`.
- `WriteRequest`: `Fprintln` of the request line. A write to a closed pipe
  fails.
- `ReadResponse`: `ReadBytes('\n')` with its loop. A line with no id, or
  another caller's id, is dropped. The caller's own reply ends the call
  with a result or an error. EOF fails the call.

`Fail` is `os.Exit(1)` in `main` after a failed call. `Succeed` moves on to
the next call. `CloseBegin`/`CloseEnd` are the deferred `client.Close`.

The rpc process is modelled from the spec, because `rpc.RunRPC` is not
under `src/`:

- `Serve` answers the first line. `create` calls the factory, which may
  fail. `exec_stream` first writes a notification with no id.
- `ServerEOF` is the exit on EOF.
- `Signal` is SIGINT or SIGTERM.

Fairness: each caller, the program's `NewClient`/`Close`, and the rpc
process's reading loop are weakly fair. Each is a goroutine or a process
that the Go scheduler and the OS run whenever they can proceed. Signals are
not fair: nothing makes one arrive.

## The module `MemSize`

`MemSize` models `totalMemoryMB` in its three versions:

- `sysinfo_darwin.go`: `DarwinTotalMemoryMB`.
- The darwin version in `part_000` 901-914: `DarwinTotalMemoryMBPadded`.
- `sysinfo_linux.go` 1-13: `LinuxTotalMemoryMB`.

A uint64 is held as the eight little-endian bytes the kernel copies out
(`LEBytes`). `syscall.Sysctl`'s removal of a trailing NUL byte (`Sysctl`) and
`binary.LittleEndian.Uint64` (`LittleEndianUint64`) are modelled by what
they do. They are not treated as the identity. The state is one host and
one call of each version.

## The module `ErrWrap`

`ErrWrap` models `errx.With` and `errx.Wrap`, on top of `fmt.Errorf`'s `%w`
and `errors.Is`. The last two are not under `src/` and are spec-modelled as
recursive operators.

- A format string becomes its sequence of pieces: text, `%v`, `%w`.
- An error made by `Errorf` becomes the record of the errors it wraps.

The state is one error that climbs a stack of up to `MaxDepth` layers. Each
layer either `Wrap`s it or fails `With` a sentinel, a format and operands.
The operands are the error from below, a fresh cause, a string or nil.
`wanted` is what the layers meant `errors.Is` to find, as the tests in
`sysinfo_linux.go` 70-126 state it.

`errors.Is` and the recursive error values live in `ErrIs`, which extends
`ErrWrap`. `ErrIs` also holds `IsFindsWanted`. This keeps `ErrWrap` itself
free of RECURSIVE declarations. `MCErrWrap` extends `ErrIs`. `wanted` is
the property's oracle and is not mapped to code.

## Runs of the later modules

| Run | Config | Result | What it shows |
|---|---|---|---|
| `memsize` | `MCMemSize.cfg`: six sizes, among them 1 GiB, one with a non-zero low byte and 2^31-1; three `Totalram`s and two units | pass | `TypeOK`; `PaddedMemExact` |
| `darwin_memsize_fallback` | `MC_DarwinMemExact.cfg` | violation | `sysinfo_darwin.go` reports 2048 MiB for any host below 2^56 bytes |
| `errx_chains` | `MCErrWrap.cfg`: two sentinels, one cause, the six format shapes of errx's tests, three layers | pass | `IsFindsWanted` |
| `rpc_example` | `MCRpcClient.cfg`: the example program, one caller, signals on | pass | `TypeOK`; `ProgramExits` (liveness) |
| `rpc_two_callers` | `MCRpcClient2.cfg`: two callers, `create, exec` and `exec_stream`, close early allowed | pass | `ReplyIsOwn` |
| `rpc_two_callers_hang` | `MC_ProgramExits.cfg` | violation | two concurrent calls each drop the other's reply and both wait forever |

Why these bounds are enough:

- Every size in `MCMemSizes` has a zero top byte, so `Sysctl` drops a byte
  for each of them. That is the case the darwin bug needs. TLC's integers
  stop at 2^31, so larger sizes are left to the proof.
- Three layers give every order of `Wrap` and `With` over an error that has
  already been wrapped twice.
- Two callers are enough to interleave two requests and their replies.
  `exec_stream` adds a notification with no id between them.

## Findings of the later modules

- `sysinfo_darwin.go:12`: `syscall.Sysctl` strips a zero last byte, so
  `val` has 7 bytes, and the code returns the 2048 fallback. The
  `val + "\x00"` meant to undo the strip is never reached.
- `part_001:233`: the client serialises nothing between callers. Two
  goroutines in `sendRequest` at once read each other's replies, drop them,
  and block forever.
- `part_000:334`: see `killed_stays_stopped` above. A killed sandbox whose
  run process is still booting comes back `running`.

## Proofs of the later modules

`MemSizeProofs.PaddedMemExactHolds` proves `Spec => []PaddedMemExact` for
every set of uint64 sizes, where TLC only reaches sizes below 2^31. It
rests on two lemmas:

- `DecodeEncode`: the little-endian bytes of a uint64 decode back to it.
- `PadUndoesTrim`: zero-padding undoes `Sysctl`'s strip.

`RpcClientProofs.ReplyIsOwnHolds` proves `Spec => []ReplyIsOwn` for every
finite set of callers and every program. `ReplyIsOwn` is not inductive on
its own: a step that reads a line has to know whose line it is. The
inductive invariant `IInv` adds the following conjuncts:

- `TypeInv`.
- `IdsIssued`: every id on a line or held by a caller is at most
  `requestID`. This is why `AddId`'s new id is held by nobody.
- `IdsDistinct`: calls in flight hold distinct, non-zero ids.
- `LinesOwned`: a line carrying the id of a call in flight was made for
  that call. This is what makes the accepted reply the caller's own.
- `CallsCounted` and `BusyHasCall`: a caller in `sendRequest` has a call
  left, and its call number is one past its replies. This is why the
  request carries the right call number.

There is one lemma per action (`AddIdInv`, `WriteRequestInv`,
`ReadResponseInv`, `ServeInv`, ...). They use the sequence lemmas
`RangeTail`, `RangeAppend` and `RepliesLines`.

`RpcCalls` is what the client promises the goroutines that call it. Each
step hands one caller the reply to its next call, in program order, and
never a reply beyond its last call. `RpcClient` instantiates it
(`Calls == INSTANCE RpcCalls WITH Callers <- Callers, Program <- Program,
got <- got`: a caller's accepted replies are its calls done), and `CallsSpec` asserts it.
`RpcClientProofs.CallsRefinement` proves `Spec => CallsSpec` from the same
`IInv`, for every set of callers. No run checks `CallsSpec`. On the
instances TLC reaches, it adds to `ReplyIsOwn` only the bound of the
program, which `StartCall`'s guard gives directly. The proof is:

- `ReadResponseMaps`: the accepted reply is a `Reply` step. `LinesOwned`
  gives its `for` tag, and `CallsCounted` with `BusyHasCall` show the
  caller has a call left.
- `StepMaps`: every other step leaves `got` unchanged.

`MemSizeProofs.DarwinOutcomeHolds` states the darwin finding exactly, for
every uint64 size. The unpadded `totalMemoryMB` returns the 2048 fallback
when `hw.memsize < 2^56`, and the exact MiB otherwise. The proof rests on
two lemmas:

- `TopByteZero`: the top little-endian byte is zero exactly below 2^56.
- `DarwinResult`: the function's value on `Sysctl(n)`.

TLC only reaches sizes below 2^31. This theorem tells us that the fallback
hits every real Mac, and that only sizes of 64 PiB and more escape it.

Type correctness is proved for every module whose `TypeOK` does not rest on
recursion:

- `RpcClientProofs.TypeCorrect`: `IInv` together with `FlagsType`.
- `MemSizeProofs.TypeCorrect`: inductive as it stands. It uses the lemmas
  `SysctlBytes`, `DecodeNat` and `DarwinNat`, and the assumptions on the
  sizes and on sysinfo.

Only model-checked:

- `ProgramExits`, `CancelLeadsToExit`: liveness, out of TLAPS's reach.
- `IsFindsWanted`. `errors.Is` and the error values are recursive over the
  wrap tree. A proof needs induction over that data,
  which the installed provers cannot do. `ErrIs` also declares RECURSIVE
  operators. `ErrWrap`'s `Errorf` counts `%w` verbs with `SelectSeq`,
  whose library definition is a recursive function with no lemmas, so the
  provers cannot evaluate it either.

Not modelled:

- Whether a request can reach the rpc process after `Client.Close`. This
  depends on `Close`'s body, which is not under `src/`. The model makes
  `Close` set `closed` and shut stdin in one step, so no property of
  `sendRequest`'s own steps decides it.
- The data race on the shared `bufio.Reader` when two goroutines call
  `ReadBytes` at once. The model lets each read take a whole line.

## Plan

Next, in order:

1. `ImageCache`: `Build`'s cache scan, pull, in-place ext4 write and
   metadata, with crashes and two concurrent builds.
2. `TarExtract`: the path filter over a small tree of entries, symlinks and
   hard links, against the property "nothing is written outside the
   destination".
