----------------------------- MODULE RpcClient -----------------------------
(***************************************************************************)
(* A Go program driving "matchlock rpc" through the SDK client.           *)
(*   - Callers are goroutines of the program; each makes the calls of its  *)
(*     Program in order through Client.sendRequest (part_001 190-246), and *)
(*     on an error logs and calls os.Exit(1), as examples/go/main.go does. *)
(*     With one caller and the example's calls this is that program.       *)
(*   - When every caller is done, main returns and its deferred            *)
(*     client.Close runs (spec: the SDK is not under src/).               *)
(*   - The rpc process (runRPC, sysinfo_linux.go 41-68) answers the lines  *)
(*     of its stdin in order (spec 5: replies follow requests); exec_stream*)
(*     writes a notification, a line with no id, before its reply.  Its    *)
(*     create builds the VM through runRPC's factory.  SIGINT or SIGTERM   *)
(*     cancels its context and RunRPC returns.                             *)
(* stdin and stdout are the two pipes, as sequences of lines.  A line     *)
(* carries, besides its JSON-RPC id, the caller and call it was made for  *)
(* ("for"), which no code reads: the properties use it.                   *)
(***************************************************************************)
EXTENDS Integers, Sequences, FiniteSets

CONSTANTS
    Callers,       \* the goroutines that call the client
    Program,       \* Program[c]: the methods caller c calls, in order
    ImageGiven,    \* whether the create's config names an image
    Signals,       \* whether SIGINT/SIGTERM may reach the rpc process
    CloseEarly     \* whether Close may run while callers are still calling

Methods == {"create", "exec", "write_file", "exec_stream"}

ASSUME RpcClientAssumption ==
    /\ IsFiniteSet(Callers) /\ Callers # {}
    /\ Program \in [Callers -> Seq(Methods)]
    /\ ImageGiven \in BOOLEAN /\ Signals \in BOOLEAN /\ CloseEarly \in BOOLEAN

NoId == 0       \* a notification: the "id" member is absent

VARIABLES
    proc,       \* the program: "starting", "running", "closing", "exit0", "exit1"
    closed,     \* Client.closed
    requestID,  \* Client.requestID, the last id handed out
    pc,         \* pc[c]: where caller c is in its calls
    todo,       \* todo[c]: the calls caller c has still to make
    id,         \* id[c]: the id of caller c's request in flight
    got,        \* got[c]: the "for" of each reply caller c's calls returned
    stdin,      \* lines written to the rpc process and not yet read by it
    stdinOpen,  \* the write end of the stdin pipe is open
    stdout,     \* lines the rpc process wrote and no caller has read yet
    srv,        \* the rpc process: "running" or "exited"
    vm          \* whether a create has made a sandbox

vars == <<proc, closed, requestID, pc, todo, id, got, stdin, stdinOpen, stdout, srv, vm>>

CallerVars == <<pc, todo, id, got>>
ServerVars == <<stdin, stdout, srv, vm>>

\* Goroutines run until the process exits, also while main is in Close.
Live == proc \in {"running", "closing"}

\* Which call of caller c is in flight: its index in Program[c].
CallIndex(c) == Len(Program[c]) - Len(todo[c]) + 1

Init ==
    /\ proc = "starting"
    /\ closed = FALSE
    /\ requestID = 0
    /\ pc = [c \in Callers |-> "idle"]
    /\ todo = Program
    /\ id = [c \in Callers |-> NoId]
    /\ got = [c \in Callers |-> <<>>]
    /\ stdin = <<>> /\ stdinOpen = TRUE /\ stdout = <<>>
    /\ srv = "running"
    /\ vm = FALSE

-----------------------------------------------------------------------------
(* The program (examples/go/main.go).                                      *)

\* os.Exit: deferred calls do not run; the kernel closes the stdin pipe.
Exit(code) ==
    /\ proc' = code
    /\ stdinOpen' = FALSE

\* sdk.NewClient starts "matchlock rpc"; on an error, os.Exit(1).
NewClient ==
    /\ proc = "starting"
    /\ \/ proc' = "running" /\ UNCHANGED <<stdinOpen, srv>>
       \/ Exit("exit1") /\ srv' = "exited"
    /\ UNCHANGED <<closed, requestID, CallerVars, stdin, stdout, vm>>

\* A caller begins its next call: Launch, run (Exec), WriteFile or
\* ExecStream, each one sendRequest.
StartCall(c) ==
    /\ Live /\ pc[c] = "idle" /\ todo[c] # <<>>
    /\ pc' = [pc EXCEPT ![c] = "check"]
    /\ UNCHANGED <<proc, closed, requestID, todo, id, got, stdin, stdinOpen, ServerVars>>

\* The caller's call returned an error: slog.Error, then os.Exit(1).
Fail(c) ==
    /\ Exit("exit1")
    /\ pc' = [pc EXCEPT ![c] = "idle"]

\* The caller's call returned a result: on to the next call.
Succeed(c) ==
    /\ pc' = [pc EXCEPT ![c] = "idle"]
    /\ todo' = [todo EXCEPT ![c] = Tail(@)]
    /\ UNCHANGED <<proc, stdinOpen>>

\* main returns once every caller is done (or, with CloseEarly, without
\* waiting for them); the deferred client.Close sets closed and closes
\* stdin, then waits for the rpc process to exit.
CloseBegin ==
    /\ proc = "running"
    /\ CloseEarly \/ \A c \in Callers : pc[c] = "idle" /\ todo[c] = <<>>
    /\ proc' = "closing" /\ closed' = TRUE /\ stdinOpen' = FALSE
    /\ UNCHANGED <<requestID, CallerVars, stdin, stdout, srv, vm>>

CloseEnd ==
    /\ proc = "closing" /\ srv = "exited"
    /\ proc' = "exit0"
    /\ UNCHANGED <<closed, requestID, CallerVars, stdin, stdinOpen, stdout, srv, vm>>

-----------------------------------------------------------------------------
(* Client.sendRequest (part_001 190-246).                                  *)

\* Lock; if closed, unlock and return "client is closed"; unlock.
CheckClosed(c) ==
    /\ Live /\ pc[c] = "check"
    /\ IF closed
         THEN Fail(c) /\ UNCHANGED <<closed, requestID, todo, id, got, ServerVars>>
         ELSE /\ pc' = [pc EXCEPT ![c] = "add"]
              /\ UNCHANGED <<proc, closed, requestID, todo, id, got, stdinOpen, ServerVars>>

\* Mutant: the id is read and never incremented (requestID.Load()).
AddIdNoIncrement(c) ==
    /\ Live /\ pc[c] = "add"
    /\ id' = [id EXCEPT ![c] = requestID + 1]
    /\ pc' = [pc EXCEPT ![c] = "write"]
    /\ UNCHANGED <<proc, closed, requestID, todo, got, stdinOpen, ServerVars>>

\* id := c.requestID.Add(1); the request is marshalled (it cannot fail).
AddId(c) ==
    /\ Live /\ pc[c] = "add"
    /\ requestID' = requestID + 1
    /\ id' = [id EXCEPT ![c] = requestID + 1]
    /\ pc' = [pc EXCEPT ![c] = "write"]
    /\ UNCHANGED <<proc, closed, todo, got, stdinOpen, ServerVars>>

\* fmt.Fprintln(c.stdin, data): fails once the pipe is closed or the rpc
\* process has gone (EPIPE); the error is returned.
WriteRequest(c) ==
    /\ Live /\ pc[c] = "write"
    /\ IF stdinOpen /\ srv = "running"
         THEN /\ stdin' = Append(stdin, [id |-> id[c], method |-> Head(todo[c]),
                                         for |-> <<c, CallIndex(c)>>])
              /\ pc' = [pc EXCEPT ![c] = "read"]
              /\ UNCHANGED <<proc, stdinOpen>>
         ELSE Fail(c) /\ UNCHANGED stdin
    /\ UNCHANGED <<closed, requestID, todo, id, got, stdout, srv, vm>>

\* Mutant: a reply is taken whatever its id (line 233's check dropped).
ReadNoIdCheck(c) ==
    /\ Live /\ pc[c] = "read"
    /\ \/ /\ stdout # <<>>
          /\ LET line == Head(stdout) IN
             /\ stdout' = Tail(stdout)
             /\ IF line.id = NoId
                  THEN UNCHANGED <<proc, pc, todo, got, stdinOpen>>
                ELSE /\ got' = [got EXCEPT ![c] = Append(@, line.for)]
                     /\ IF line.error THEN Fail(c) /\ UNCHANGED todo ELSE Succeed(c)
       \/ /\ stdout = <<>> /\ srv = "exited"
          /\ Fail(c) /\ UNCHANGED <<stdout, todo, got>>
    /\ UNCHANGED <<closed, requestID, id, stdin, srv, vm>>

\* Mutant: a read error is treated like a notification and the loop goes on.
ReadRetryOnEOF(c) ==
    /\ Live /\ pc[c] = "read"
    /\ \/ /\ stdout # <<>>
          /\ LET line == Head(stdout) IN
             /\ stdout' = Tail(stdout)
             /\ IF line.id = NoId \/ line.id # id[c]
                  THEN UNCHANGED <<proc, pc, todo, got, stdinOpen>>
                ELSE /\ got' = [got EXCEPT ![c] = Append(@, line.for)]
                     /\ IF line.error THEN Fail(c) /\ UNCHANGED todo ELSE Succeed(c)
       \/ /\ stdout = <<>> /\ srv = "exited"
          /\ UNCHANGED <<proc, pc, todo, got, stdinOpen, stdout>>
    /\ UNCHANGED <<closed, requestID, id, stdin, srv, vm>>

\* One turn of the read loop: c.stdout.ReadBytes('\n').  A read error (EOF
\* once the rpc process has exited) is returned.  A line with no id is
\* skipped, so is a line whose id is not this call's; an error member
\* becomes an *RPCError; otherwise the result is returned.
ReadResponse(c) ==
    /\ Live /\ pc[c] = "read"
    /\ \/ /\ stdout # <<>>
          /\ LET line == Head(stdout) IN
             /\ stdout' = Tail(stdout)
             /\ IF line.id = NoId \/ line.id # id[c]
                  THEN UNCHANGED <<proc, pc, todo, got, stdinOpen>>
                ELSE /\ got' = [got EXCEPT ![c] = Append(@, line.for)]
                     /\ IF line.error THEN Fail(c) /\ UNCHANGED todo ELSE Succeed(c)
       \/ /\ stdout = <<>> /\ srv = "exited"
          /\ Fail(c) /\ UNCHANGED <<stdout, todo, got>>
    /\ UNCHANGED <<closed, requestID, id, stdin, srv, vm>>

-----------------------------------------------------------------------------
(* The rpc process: runRPC (sysinfo_linux.go 41-68) and rpc.RunRPC.        *)

\* runRPC's factory: "image is required" when config.Image is empty, then
\* builder.Build, then sandbox.New; either of the two may fail.
Factory(buildOk, newOk) == ImageGiven /\ buildOk /\ newOk

\* The reply lines for one request: exec_stream's output notification,
\* then the response with the request's id.
Replies(req, failed) ==
    LET reply == [id |-> req.id, error |-> failed, for |-> req.for]
        note  == [id |-> NoId, error |-> FALSE, for |-> req.for]
    IN  IF req.method = "exec_stream" THEN <<note, reply>> ELSE <<reply>>

\* RunRPC reads one line and answers it.  create calls the factory; the
\* other methods fail without a VM (-32000) and may fail with one.
Serve ==
    /\ srv = "running" /\ stdin # <<>>
    /\ LET req == Head(stdin) IN
       \E buildOk, newOk, opOk \in BOOLEAN :
          IF req.method = "create"
            THEN /\ stdout' = stdout \o Replies(req, ~Factory(buildOk, newOk))
                 /\ vm' = (vm \/ Factory(buildOk, newOk))
            ELSE /\ stdout' = stdout \o Replies(req, ~(vm /\ opOk))
                 /\ UNCHANGED vm
    /\ stdin' = Tail(stdin)
    /\ UNCHANGED <<proc, closed, requestID, CallerVars, stdinOpen, srv>>

\* EOF on stdin: RunRPC returns and the process exits, closing stdout.
ServerEOF ==
    /\ srv = "running" /\ stdin = <<>> /\ ~stdinOpen
    /\ srv' = "exited"
    /\ UNCHANGED <<proc, closed, requestID, CallerVars, stdin, stdinOpen, stdout, vm>>

\* SIGINT/SIGTERM: the goroutine cancels ctx and RunRPC returns; what it
\* has written stays readable, what it has not read is lost.
Signal ==
    /\ Signals /\ srv = "running"
    /\ srv' = "exited"
    /\ UNCHANGED <<proc, closed, requestID, CallerVars, stdin, stdinOpen, stdout, vm>>

\* The program has exited and the rpc process with it.
Terminated ==
    /\ proc \in {"exit0", "exit1"} /\ srv = "exited"
    /\ UNCHANGED vars

-----------------------------------------------------------------------------
CallerStep(c) ==
    StartCall(c) \/ CheckClosed(c) \/ AddId(c) \/ WriteRequest(c) \/ ReadResponse(c)

Next ==
    \/ NewClient \/ CloseBegin \/ CloseEnd
    \/ \E c \in Callers : CallerStep(c)
    \/ Serve \/ ServerEOF \/ Signal
    \/ Terminated

\* Goroutines that can run do, and the rpc process keeps reading; nothing
\* makes a signal arrive.
Fairness ==
    /\ WF_vars(NewClient) /\ WF_vars(CloseBegin) /\ WF_vars(CloseEnd)
    /\ \A c \in Callers : WF_vars(CallerStep(c))
    /\ WF_vars(Serve) /\ WF_vars(ServerEOF)

Spec == Init /\ [][Next]_vars /\ Fairness

-----------------------------------------------------------------------------
Line == [id : Nat, error : BOOLEAN, for : Callers \X Nat]

TypeOK ==
    /\ proc \in {"starting", "running", "closing", "exit0", "exit1"}
    /\ closed \in BOOLEAN /\ stdinOpen \in BOOLEAN /\ vm \in BOOLEAN
    /\ requestID \in Nat
    /\ pc \in [Callers -> {"idle", "check", "add", "write", "read"}]
    /\ \A c \in Callers : id[c] \in 0..requestID /\ got[c] \in Seq(Callers \X Nat)
    /\ stdin \in Seq([id : Nat, method : Methods, for : Callers \X Nat])
    /\ stdout \in Seq(Line)
    /\ srv \in {"running", "exited"}

\* sendRequest's id check (part_001 229-235) with concurrent callers on one
\* Client: the i-th call of a caller that returns, returns the reply to that
\* caller's own i-th request, never to another goroutine's request or to an
\* earlier one of its own.
ReplyIsOwn == \A c \in Callers : \A i \in DOMAIN got[c] : got[c][i] = <<c, i>>

\* The program always ends (exit 0 after Close, or exit 1 on an error):
\* no call of sendRequest waits forever for its reply, also when the rpc
\* process is killed by a signal or Close races a call.
ProgramExits == <>[](proc \in {"exit0", "exit1"})

-----------------------------------------------------------------------------
(* Refinement: the client behaves, to its callers, as RpcCalls describes.  *)

\* The refinement mapping: the callers and their programs are the same, and
\* the replies a caller got are the "for" tags of the lines it accepted.
Calls == INSTANCE RpcCalls WITH Callers <- Callers, Program <- Program, got <- got

\* sendRequest (part_001 191-245) with its callers and the rpc process, as
\* its callers see it: each call that returns gets the reply to that very
\* call, in program order, one call at a time, never a reply beyond the
\* caller's last call, whatever the other goroutines read and drop.
CallsSpec == Calls!Init /\ [][Calls!Next]_got

=============================================================================
