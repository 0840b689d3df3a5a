--------------------------- MODULE RpcClientProofs ---------------------------
(***************************************************************************)
(* ReplyIsOwn for any set of goroutines and any programs: a call of        *)
(* sendRequest returns only the reply to its own request.  TLC checks it   *)
(* for two goroutines (run rpc_two_callers).                               *)
(***************************************************************************)
EXTENDS RpcClient, SequenceTheorems, TLAPS

Request == [id : Nat, method : Methods, for : Callers \X Nat]

\* Caller c has an id of its own: between requestID.Add(1) and the return.
InFlight(c) == pc[c] \in {"write", "read"}

\* Caller c is inside sendRequest.
Busy(c) == pc[c] \in {"check", "add", "write", "read"}

\* Every line in either pipe.
Lines == Range(stdin) \cup Range(stdout)

TypeInv ==
    /\ proc \in {"starting", "running", "closing", "exit0", "exit1"}
    /\ requestID \in Nat
    /\ pc \in [Callers -> {"idle", "check", "add", "write", "read"}]
    /\ todo \in [Callers -> Seq(Methods)]
    /\ id \in [Callers -> Nat]
    /\ got \in [Callers -> Seq(Callers \X Nat)]
    /\ stdin \in Seq(Request)
    /\ stdout \in Seq(Line)

\* No line and no caller holds an id requestID has not handed out yet.
IdsIssued ==
    /\ \A l \in Lines : l.id <= requestID
    /\ \A c \in Callers : id[c] <= requestID

\* The ids of calls in flight are real ids (not a notification's) and are
\* pairwise distinct.
IdsDistinct ==
    /\ \A c \in Callers : InFlight(c) => id[c] # NoId
    /\ \A c, d \in Callers : InFlight(c) /\ InFlight(d) /\ c # d => id[c] # id[d]

\* A line that carries the id of a call in flight was made for that call.
LinesOwned ==
    \A l \in Lines, c \in Callers :
        InFlight(c) /\ l.id = id[c] => l.for = <<c, Len(got[c]) + 1>>

\* Until the program exits, each caller has a reply for every call it has
\* finished and still has the others to make.
CallsCounted ==
    proc \notin {"exit0", "exit1"} =>
        \A c \in Callers : Len(got[c]) + Len(todo[c]) = Len(Program[c])

\* A caller inside sendRequest has a call to make.
BusyHasCall == \A c \in Callers : Busy(c) => todo[c] # <<>>

IInv ==
    /\ TypeInv /\ IdsIssued /\ IdsDistinct /\ LinesOwned
    /\ CallsCounted /\ BusyHasCall /\ ReplyIsOwn

-----------------------------------------------------------------------------
(* Lemmas on the lines of a pipe.                                          *)

\* Reading a line takes the first line and leaves only lines there were.
LEMMA RangeTail ==
    ASSUME NEW S, NEW s \in Seq(S), s # <<>>
    PROVE  Head(s) \in Range(s) /\ Range(Tail(s)) \subseteq Range(s)
<1>1. Range(s) = {s[i] : i \in 1..Len(s)} /\ Len(s) >= 1
  BY RangeEquality, EmptySeq
<1>2. Tail(s) \in Seq(S) /\ Range(Tail(s)) = {Tail(s)[i] : i \in 1..Len(Tail(s))}
  BY HeadTailProperties, RangeEquality
<1>3. QED
  BY <1>1, <1>2, HeadTailProperties

\* Writing a line adds exactly that line.
LEMMA RangeAppend ==
    ASSUME NEW S, NEW s \in Seq(S), NEW e \in S
    PROVE  Range(Append(s, e)) = Range(s) \cup {e}
<1>1. Append(s, e) = s \o <<e>>
  BY AppendIsConcat
<1>2. <<e>> \in Seq(S) /\ Len(<<e>>) = 1
  OBVIOUS
<1>3. Range(<<e>>) = {e}
  <2>1. DOMAIN <<e>> = {1}
    OBVIOUS
  <2>2. \A y \in Range(<<e>>) : y = e
    BY <2>1 DEF Range
  <2>3. e \in Range(<<e>>)
    BY <2>1 DEF Range
  <2>4. QED
    BY <2>2, <2>3
<1>4. Range(s \o <<e>>) = Range(s) \cup Range(<<e>>)
  BY <1>2, RangeConcatenation
<1>5. QED
  BY <1>1, <1>3, <1>4

\* The lines the rpc process writes for a request carry its id and "for",
\* or no id at all.
LEMMA RepliesLines ==
    ASSUME NEW req \in Request, NEW failed \in BOOLEAN
    PROVE  /\ Replies(req, failed) \in Seq(Line)
           /\ \A l \in Range(Replies(req, failed)) :
                 \/ l.id = NoId
                 \/ l.id = req.id /\ l.for = req.for
<1> DEFINE reply == [id |-> req.id, error |-> failed, for |-> req.for]
           note  == [id |-> NoId, error |-> FALSE, for |-> req.for]
<1>1. reply \in Line /\ note \in Line
  BY DEF Line, Request, NoId
<1>2. CASE req.method = "exec_stream"
  <2>1. Replies(req, failed) = <<note, reply>>
    BY <1>2 DEF Replies
  <2>2. <<note, reply>> \in Seq(Line) /\ Len(<<note, reply>>) = 2
    BY <1>1
  <2>4. Range(<<note, reply>>) = {note, reply}
    <3>1. DOMAIN <<note, reply>> = {1, 2}
      OBVIOUS
    <3>2. \A y \in Range(<<note, reply>>) : y = note \/ y = reply
      BY <3>1 DEF Range
    <3>3. note \in Range(<<note, reply>>) /\ reply \in Range(<<note, reply>>)
      BY <3>1 DEF Range
    <3>4. QED
      BY <3>2, <3>3
  <2>5. /\ note.id = NoId
        /\ reply.id = req.id /\ reply.for = req.for
    OBVIOUS
  <2>3. QED
    BY <2>1, <2>2, <2>4, <2>5
<1>3. CASE req.method # "exec_stream"
  <2>1. Replies(req, failed) = <<reply>>
    BY <1>3 DEF Replies
  <2>2. <<reply>> \in Seq(Line) /\ Len(<<reply>>) = 1
    BY <1>1
  <2>4. Range(<<reply>>) = {reply}
    <3>1. DOMAIN <<reply>> = {1}
      OBVIOUS
    <3>2. \A y \in Range(<<reply>>) : y = reply
      BY <3>1 DEF Range
    <3>3. reply \in Range(<<reply>>)
      BY <3>1 DEF Range
    <3>4. QED
      BY <3>2, <3>3
  <2>3. QED
    BY <2>1, <2>2, <2>4 DEF note, reply
<1>4. QED
  BY <1>2, <1>3

-----------------------------------------------------------------------------
(* IInv is inductive.                                                      *)

LEMMA IInvInit == Init => IInv
<1> SUFFICES ASSUME Init PROVE IInv
  OBVIOUS
<1>1. Range(<<>>) = {}
  BY DEF Range
<1>2. TypeInv
  BY RpcClientAssumption DEF Init, TypeInv, NoId
<1>3. IdsIssued
  BY <1>1 DEF Init, IdsIssued, Lines, NoId
<1>4. IdsDistinct /\ LinesOwned /\ BusyHasCall
  BY DEF Init, IdsDistinct, LinesOwned, InFlight, BusyHasCall, Busy
<1>5. CallsCounted /\ ReplyIsOwn
  BY RpcClientAssumption DEF Init, CallsCounted, ReplyIsOwn
<1>6. QED
  BY <1>2, <1>3, <1>4, <1>5 DEF IInv

\* A step that leaves the callers, the ids and the pipes alone, and does
\* not bring an exited program back, keeps IInv.
LEMMA FrameInv ==
    ASSUME IInv, UNCHANGED <<requestID, pc, todo, id, got, stdin, stdout>>,
           proc' \in {"starting", "running", "closing", "exit0", "exit1"},
           proc' \notin {"exit0", "exit1"} => proc \notin {"exit0", "exit1"}
    PROVE  IInv'
<1>1. TypeInv'
  BY DEF IInv, TypeInv
<1>2. IdsIssued'
  BY DEF IInv, IdsIssued, Lines
<1>3. IdsDistinct' /\ LinesOwned'
  BY DEF IInv, IdsDistinct, LinesOwned, Lines, InFlight
<1>4. CallsCounted'
  BY DEF IInv, CallsCounted
<1>5. BusyHasCall' /\ ReplyIsOwn'
  BY DEF IInv, BusyHasCall, Busy, ReplyIsOwn
<1>6. QED
  BY <1>1, <1>2, <1>3, <1>4, <1>5 DEF IInv

\* Steps of the program and of the environment that touch no id, no line
\* and no reply.
LEMMA ProgramStepInv ==
    ASSUME IInv, NewClient \/ CloseBegin \/ CloseEnd \/ ServerEOF \/ Signal
                 \/ Terminated \/ UNCHANGED vars
    PROVE  IInv'
<1> DEFINE exits == {"exit0", "exit1"}
<1>1. UNCHANGED <<requestID, pc, todo, id, got, stdin, stdout>>
  BY DEF NewClient, CloseBegin, CloseEnd, ServerEOF, Signal, Terminated, vars,
         CallerVars
<1>2. proc' \in {"starting", "running", "closing", "exit0", "exit1"}
  BY DEF NewClient, CloseBegin, CloseEnd, ServerEOF, Signal, Terminated, vars,
         Exit, IInv, TypeInv
<1>3. proc' \notin exits => proc \notin exits
  BY DEF NewClient, CloseBegin, CloseEnd, ServerEOF, Signal, Terminated, vars,
         Exit, exits
<1>4. QED
  BY <1>1, <1>2, <1>3, FrameInv DEF exits

LEMMA StartCallInv ==
    ASSUME IInv, NEW c \in Callers, StartCall(c)
    PROVE  IInv'
<1>1. TypeInv' /\ IdsIssued'
  BY DEF StartCall, ServerVars, IInv, TypeInv, IdsIssued, Lines
<1>2. IdsDistinct' /\ LinesOwned'
  BY DEF StartCall, ServerVars, IInv, IdsDistinct, LinesOwned, Lines, InFlight
<1>3. CallsCounted' /\ BusyHasCall' /\ ReplyIsOwn'
  BY DEF StartCall, ServerVars, IInv, TypeInv, CallsCounted, BusyHasCall, Busy, ReplyIsOwn
<1>4. QED
  BY <1>1, <1>2, <1>3 DEF IInv

LEMMA CheckClosedInv ==
    ASSUME IInv, NEW c \in Callers, CheckClosed(c)
    PROVE  IInv'
<1>1. CASE closed
  <2>1. proc' = "exit1" /\ pc' = [pc EXCEPT ![c] = "idle"]
        /\ UNCHANGED <<requestID, todo, id, got, stdin, stdout>>
    BY <1>1 DEF CheckClosed, Fail, Exit, ServerVars
  <2>2. TypeInv' /\ IdsIssued'
    BY <2>1 DEF IInv, TypeInv, IdsIssued, Lines
  <2>3. IdsDistinct' /\ LinesOwned'
    BY <2>1 DEF IInv, TypeInv, IdsDistinct, LinesOwned, Lines, InFlight
  <2>4. CallsCounted' /\ BusyHasCall' /\ ReplyIsOwn'
    BY <2>1 DEF IInv, TypeInv, CallsCounted, BusyHasCall, Busy, ReplyIsOwn
  <2>5. QED
    BY <2>2, <2>3, <2>4 DEF IInv
<1>2. CASE ~closed
  <2>1. pc' = [pc EXCEPT ![c] = "add"] /\ pc[c] = "check"
        /\ UNCHANGED <<proc, requestID, todo, id, got, stdin, stdout>>
    BY <1>2 DEF CheckClosed, ServerVars
  <2>2. TypeInv' /\ IdsIssued'
    BY <2>1 DEF IInv, TypeInv, IdsIssued, Lines
  <2>3. IdsDistinct' /\ LinesOwned'
    BY <2>1 DEF IInv, TypeInv, IdsDistinct, LinesOwned, Lines, InFlight
  <2>4. CallsCounted' /\ BusyHasCall' /\ ReplyIsOwn'
    BY <2>1 DEF IInv, TypeInv, CallsCounted, BusyHasCall, Busy, ReplyIsOwn
  <2>5. QED
    BY <2>2, <2>3, <2>4 DEF IInv
<1>3. QED
  BY <1>1, <1>2

\* The lines in the pipes are well formed.
LEMMA LinesType ==
    ASSUME TypeInv
    PROVE  /\ Range(stdin) \subseteq Request /\ Range(stdout) \subseteq Line
           /\ \A l \in Lines : l.id \in Nat /\ l.for \in Callers \X Nat
<1>1. Range(stdin) \subseteq Request /\ Range(stdout) \subseteq Line
  BY RangeOfSeq DEF TypeInv
<1>2. QED
  BY <1>1 DEF Lines, Request, Line

\* requestID.Add(1) hands out an id no line and no other caller holds.
LEMMA AddIdInv ==
    ASSUME IInv, NEW c \in Callers, AddId(c)
    PROVE  IInv'
<1>1. /\ pc[c] = "add" /\ requestID' = requestID + 1
      /\ id' = [id EXCEPT ![c] = requestID + 1]
      /\ pc' = [pc EXCEPT ![c] = "write"]
      /\ UNCHANGED <<proc, todo, got, stdin, stdout>>
  BY DEF AddId, ServerVars
<1>2. \A l \in Lines : l.id \in Nat /\ l.id <= requestID
  BY LinesType DEF IInv, IdsIssued
<1>3. TypeInv' /\ IdsIssued'
  BY <1>1, <1>2 DEF IInv, TypeInv, IdsIssued, Lines
<1>4. IdsDistinct'
  BY <1>1 DEF IInv, TypeInv, IdsIssued, IdsDistinct, InFlight, NoId
<1>5. LinesOwned'
  BY <1>1, <1>2 DEF IInv, TypeInv, LinesOwned, Lines, InFlight
<1>6. CallsCounted' /\ BusyHasCall' /\ ReplyIsOwn'
  BY <1>1 DEF IInv, TypeInv, CallsCounted, BusyHasCall, Busy, ReplyIsOwn
<1>7. QED
  BY <1>3, <1>4, <1>5, <1>6 DEF IInv

\* A failed call ends the program: nothing about the callers matters after.
LEMMA FailInv ==
    ASSUME IInv, NEW c \in Callers,
           proc' = "exit1", pc' = [pc EXCEPT ![c] = "idle"],
           UNCHANGED <<requestID, todo, id, got, stdin, stdout>>
    PROVE  IInv'
<1>1. TypeInv' /\ IdsIssued'
  BY DEF IInv, TypeInv, IdsIssued, Lines
<1>2. IdsDistinct' /\ LinesOwned'
  BY DEF IInv, TypeInv, IdsDistinct, LinesOwned, Lines, InFlight
<1>3. CallsCounted' /\ BusyHasCall' /\ ReplyIsOwn'
  BY DEF IInv, TypeInv, CallsCounted, BusyHasCall, Busy, ReplyIsOwn
<1>4. QED
  BY <1>1, <1>2, <1>3 DEF IInv

\* The arithmetic behind CallIndex.
LEMMA CountArith ==
    ASSUME NEW a \in Nat, NEW b \in Nat, NEW p \in Nat, a + b = p
    PROVE  p - b + 1 = a + 1
  OBVIOUS

\* A call moved from todo to got.
LEMMA MoveOne ==
    ASSUME NEW a \in Nat, NEW b \in Nat
    PROVE  (a + 1) + (b - 1) = a + b
  OBVIOUS

\* Fprintln writes a line that carries the caller's id and its call.
LEMMA WriteRequestInv ==
    ASSUME IInv, NEW c \in Callers, WriteRequest(c)
    PROVE  IInv'
<1>1. CASE stdinOpen /\ srv = "running"
  <2> DEFINE r == [id |-> id[c], method |-> Head(todo[c]), for |-> <<c, CallIndex(c)>>]
  <2>1. /\ pc[c] = "write" /\ Live
        /\ stdin' = Append(stdin, r) /\ pc' = [pc EXCEPT ![c] = "read"]
        /\ UNCHANGED <<proc, requestID, todo, id, got, stdout>>
    BY <1>1 DEF WriteRequest, r
  <2>a. todo[c] # <<>>
    BY <2>1 DEF IInv, BusyHasCall, Busy
  <2>b. Len(got[c]) + Len(todo[c]) = Len(Program[c])
    BY <2>1 DEF IInv, CallsCounted, Live
  <2>c. Len(got[c]) \in Nat /\ Len(todo[c]) \in Nat
    BY DEF IInv, TypeInv
  <2>g. Len(Program[c]) \in Nat
    BY RpcClientAssumption
  <2>i. Len(Program[c]) - Len(todo[c]) + 1 = Len(got[c]) + 1
    BY <2>b, <2>c, <2>g, CountArith, Zenon
  <2>h. CallIndex(c) = Len(got[c]) + 1
    BY <2>i DEF CallIndex
  <2>2. todo[c] # <<>> /\ CallIndex(c) = Len(got[c]) + 1
    BY <2>a, <2>h
  <2>3. r \in Request
    BY <2>2, HeadTailProperties DEF IInv, TypeInv, Request
  <2>d. stdin \in Seq(Request)
    BY DEF IInv, TypeInv
  <2>e. Append(stdin, r) \in Seq(Request)
    BY <2>d, <2>3, AppendProperties
  <2>f. Range(Append(stdin, r)) = Range(stdin) \cup {r}
    BY <2>d, <2>3, RangeAppend
  <2>4. stdin' \in Seq(Request) /\ Range(stdin') = Range(stdin) \cup {r}
    BY <2>1, <2>e, <2>f
  <2>5. Lines' = Lines \cup {r}
    BY <2>1, <2>4 DEF Lines
  <2>6. TypeInv' /\ IdsIssued'
    BY <2>1, <2>4, <2>5 DEF IInv, TypeInv, IdsIssued
  <2>7. IdsDistinct'
    BY <2>1 DEF IInv, TypeInv, IdsDistinct, InFlight
  <2>8. LinesOwned'
    BY <2>1, <2>2, <2>5 DEF IInv, TypeInv, IdsDistinct, LinesOwned, InFlight
  <2>9. CallsCounted' /\ BusyHasCall' /\ ReplyIsOwn'
    BY <2>1 DEF IInv, TypeInv, CallsCounted, BusyHasCall, Busy, ReplyIsOwn
  <2>10. QED
    BY <2>6, <2>7, <2>8, <2>9 DEF IInv
<1>2. CASE ~(stdinOpen /\ srv = "running")
  <2>1. proc' = "exit1" /\ pc' = [pc EXCEPT ![c] = "idle"]
        /\ UNCHANGED <<requestID, todo, id, got, stdin, stdout>>
    BY <1>2 DEF WriteRequest, Fail, Exit
  <2>2. QED
    BY <2>1, FailInv
<1>3. QED
  BY <1>1, <1>2

\* Taking a line off stdout leaves well-formed lines, all of them old.
LEMMA TakeLine ==
    ASSUME TypeInv, stdout # <<>>, stdout' = Tail(stdout), stdin' = stdin
    PROVE  /\ Head(stdout) \in Lines /\ Head(stdout) \in Line
           /\ stdout' \in Seq(Line) /\ Lines' \subseteq Lines
<1>1. stdout \in Seq(Line)
  BY DEF TypeInv
<1>2. Head(stdout) \in Range(stdout) /\ Range(Tail(stdout)) \subseteq Range(stdout)
  BY <1>1, RangeTail
<1>3. Head(stdout) \in Line /\ Tail(stdout) \in Seq(Line)
  BY <1>1, HeadTailProperties
<1>4. QED
  BY <1>2, <1>3 DEF Lines

\* ReadBytes('\n'): a notification or another caller's reply is skipped;
\* the caller's own reply ends its call; EOF fails it.
LEMMA ReadResponseInv ==
    ASSUME IInv, NEW c \in Callers, ReadResponse(c)
    PROVE  IInv'
<1>0. pc[c] = "read" /\ Live /\ UNCHANGED <<requestID, id, stdin>>
  BY DEF ReadResponse
<1>1. CASE stdout # <<>> /\ (Head(stdout).id = NoId \/ Head(stdout).id # id[c])
  <2>1. stdout' = Tail(stdout) /\ UNCHANGED <<proc, pc, todo, got>>
    BY <1>1 DEF ReadResponse
  <2>2. stdout' \in Seq(Line) /\ Lines' \subseteq Lines
    BY <1>0, <1>1, <2>1, TakeLine DEF IInv
  <2>3. TypeInv' /\ IdsIssued'
    BY <1>0, <2>1, <2>2 DEF IInv, TypeInv, IdsIssued, Lines
  <2>4. IdsDistinct' /\ LinesOwned'
    BY <1>0, <2>1, <2>2 DEF IInv, IdsDistinct, LinesOwned, InFlight
  <2>5. CallsCounted' /\ BusyHasCall' /\ ReplyIsOwn'
    BY <2>1 DEF IInv, CallsCounted, BusyHasCall, Busy, ReplyIsOwn
  <2>6. QED
    BY <2>3, <2>4, <2>5 DEF IInv
<1>2. CASE stdout # <<>> /\ ~(Head(stdout).id = NoId \/ Head(stdout).id # id[c])
  <2> DEFINE line == Head(stdout)
  <2>1. /\ stdout' = Tail(stdout)
        /\ got' = [got EXCEPT ![c] = Append(@, line.for)]
        /\ \/ Fail(c) /\ UNCHANGED todo
           \/ Succeed(c)
    BY <1>2 DEF ReadResponse, line
  <2>2. line \in Lines /\ stdout' \in Seq(Line) /\ Lines' \subseteq Lines
    BY <1>0, <1>2, <2>1, TakeLine DEF IInv, line
  <2>3. line.for = <<c, Len(got[c]) + 1>>
    BY <1>0, <1>2, <2>2 DEF IInv, LinesOwned, InFlight, line
  <2>4. got[c] \in Seq(Callers \X Nat) /\ Len(got[c]) \in Nat
    BY DEF IInv, TypeInv
  <2>a. /\ got'[c] = Append(got[c], <<c, Len(got[c]) + 1>>)
        /\ \A d \in Callers \ {c} : got'[d] = got[d]
    BY <2>1, <2>3 DEF IInv, TypeInv
  <2>b. <<c, Len(got[c]) + 1>> \in Callers \X Nat
    BY <2>4
  <2>c. /\ Append(got[c], <<c, Len(got[c]) + 1>>) \in Seq(Callers \X Nat)
        /\ Len(Append(got[c], <<c, Len(got[c]) + 1>>)) = Len(got[c]) + 1
        /\ \A i \in 1..Len(got[c]) :
              Append(got[c], <<c, Len(got[c]) + 1>>)[i] = got[c][i]
        /\ Append(got[c], <<c, Len(got[c]) + 1>>)[Len(got[c]) + 1] = <<c, Len(got[c]) + 1>>
    BY <2>4, <2>b, AppendProperties
  <2>d. \A i \in 1..Len(got[c]) : got[c][i] = <<c, i>>
    BY <2>4 DEF IInv, ReplyIsOwn
  <2>5. /\ got'[c] \in Seq(Callers \X Nat) /\ Len(got'[c]) = Len(got[c]) + 1
        /\ \A i \in DOMAIN got'[c] : got'[c][i] = <<c, i>>
    BY <2>a, <2>c, <2>d, <2>4
  <2>6. got' \in [Callers -> Seq(Callers \X Nat)] /\ ReplyIsOwn'
    BY <2>1, <2>5, <2>a DEF IInv, TypeInv, ReplyIsOwn
  <2>7. pc' = [pc EXCEPT ![c] = "idle"]
    BY <2>1 DEF Fail, Succeed
  <2>8. IdsIssued' /\ IdsDistinct' /\ LinesOwned'
    BY <1>0, <2>1, <2>2, <2>7 DEF IInv, TypeInv, IdsIssued, IdsDistinct, LinesOwned,
       InFlight, Lines
  <2>9. CASE Fail(c) /\ UNCHANGED todo
    <3>1. proc' = "exit1"
      BY <2>9 DEF Fail, Exit
    <3>2. TypeInv' /\ CallsCounted' /\ BusyHasCall'
      BY <1>0, <2>2, <2>6, <2>7, <2>9, <3>1 DEF IInv, TypeInv, BusyHasCall, Busy,
         CallsCounted
    <3>3. QED
      BY <2>6, <2>8, <3>2 DEF IInv
  <2>10. CASE Succeed(c)
    <3>1. todo[c] # <<>> /\ todo[c] \in Seq(Methods)
      BY <1>0 DEF IInv, TypeInv, BusyHasCall, Busy
    <3>a. /\ todo'[c] = Tail(todo[c])
          /\ \A d \in Callers \ {c} : todo'[d] = todo[d]
      BY <2>10 DEF IInv, TypeInv, Succeed
    <3>2. todo'[c] \in Seq(Methods) /\ Len(todo'[c]) = Len(todo[c]) - 1
      BY <3>a, <3>1, HeadTailProperties
    <3>3. todo' \in [Callers -> Seq(Methods)] /\ UNCHANGED proc
      BY <2>10, <3>2 DEF IInv, TypeInv, Succeed
    <3>4. TypeInv'
      BY <1>0, <2>2, <2>6, <2>7, <3>3 DEF IInv, TypeInv
    <3>5. CallsCounted'
      <4> SUFFICES ASSUME proc' \notin {"exit0", "exit1"}, NEW d \in Callers
                   PROVE  Len(got'[d]) + Len(todo'[d]) = Len(Program[d])
        BY DEF CallsCounted
      <4>1. Len(got[d]) + Len(todo[d]) = Len(Program[d])
        BY <3>3 DEF IInv, CallsCounted
      <4>2. CASE d = c
        <5>1. Len(got[c]) \in Nat /\ Len(todo[c]) \in Nat
          BY DEF IInv, TypeInv
        <5>2. Len(got'[c]) + Len(todo'[c]) = (Len(got[c]) + 1) + (Len(todo[c]) - 1)
          BY <2>5, <3>2
        <5>3. (Len(got[c]) + 1) + (Len(todo[c]) - 1) = Len(got[c]) + Len(todo[c])
          BY <5>1, MoveOne, Zenon
        <5>4. QED
          BY <4>1, <4>2, <5>2, <5>3
      <4>3. CASE d # c
        BY <4>1, <4>3, <2>a, <3>a
      <4>4. QED
        BY <4>2, <4>3
    <3>6. BusyHasCall'
      BY <2>7, <2>10 DEF IInv, TypeInv, BusyHasCall, Busy, Succeed
    <3>7. QED
      BY <2>6, <2>8, <3>4, <3>5, <3>6 DEF IInv
  <2>11. QED
    BY <2>1, <2>9, <2>10
<1>3. CASE stdout = <<>>
  <2>1. proc' = "exit1" /\ pc' = [pc EXCEPT ![c] = "idle"]
        /\ UNCHANGED <<requestID, todo, id, got, stdin, stdout>>
    BY <1>0, <1>3 DEF ReadResponse, Fail, Exit
  <2>2. QED
    BY <2>1, FailInv
<1>4. QED
  BY <1>1, <1>2, <1>3

\* RunRPC answers the first request line with lines that carry its id and
\* its "for", and exec_stream's notification with no id.
LEMMA ServeInv ==
    ASSUME IInv, Serve
    PROVE  IInv'
<1> DEFINE req == Head(stdin)
<1>1. stdin # <<>> /\ stdin' = Tail(stdin) /\ UNCHANGED <<proc, requestID, pc, todo, id, got>>
  BY DEF Serve, CallerVars, req
<1>2. PICK f \in BOOLEAN : stdout' = stdout \o Replies(req, f)
  BY DEF Serve, req
<1>3. /\ req \in Range(stdin) /\ Range(Tail(stdin)) \subseteq Range(stdin)
      /\ req \in Request /\ Tail(stdin) \in Seq(Request)
  BY <1>1, RangeTail, HeadTailProperties DEF IInv, TypeInv, req
<1>4. /\ Replies(req, f) \in Seq(Line)
      /\ \A l \in Range(Replies(req, f)) :
            l.id = NoId \/ (l.id = req.id /\ l.for = req.for)
  BY <1>3, RepliesLines
<1>5. stdout' \in Seq(Line) /\ Range(stdout') = Range(stdout) \cup Range(Replies(req, f))
  BY <1>2, <1>4, ConcatProperties, RangeConcatenation DEF IInv, TypeInv
<1>6. \A l \in Lines' : l \in Lines \/ l.id = NoId \/ (l.id = req.id /\ l.for = req.for)
  BY <1>1, <1>3, <1>4, <1>5 DEF Lines
<1>7. req \in Lines
  BY <1>3 DEF Lines
<1>8. TypeInv'
  BY <1>1, <1>3, <1>5 DEF IInv, TypeInv
<1>9. IdsIssued'
  <2>1. \A c \in Callers : id'[c] <= requestID'
    BY <1>1 DEF IInv, IdsIssued
  <2>2. ASSUME NEW l \in Lines' PROVE l.id <= requestID'
    <3>1. req.id <= requestID /\ requestID \in Nat
      BY <1>7 DEF IInv, IdsIssued, TypeInv
    <3>2. CASE l \in Lines
      BY <1>1, <3>2 DEF IInv, IdsIssued
    <3>3. CASE l.id = NoId
      BY <1>1, <3>1, <3>3 DEF NoId
    <3>4. CASE l.id = req.id
      BY <1>1, <3>1, <3>4
    <3>5. QED
      BY <1>6, <3>2, <3>3, <3>4
  <2>3. QED
    BY <2>1, <2>2 DEF IdsIssued
<1>10. IdsDistinct'
  BY <1>1 DEF IInv, IdsDistinct, InFlight
<1>11. LinesOwned'
  <2> SUFFICES ASSUME NEW l \in Lines', NEW d \in Callers, InFlight(d)', l.id = id'[d]
               PROVE  l.for = <<d, Len(got'[d]) + 1>>
    BY DEF LinesOwned
  <2>1. InFlight(d) /\ l.id = id[d] /\ got'[d] = got[d]
    BY <1>1 DEF InFlight
  <2>2. CASE l \in Lines
    BY <2>1, <2>2 DEF IInv, LinesOwned
  <2>3. CASE l.id = NoId
    BY <2>1, <2>3 DEF IInv, IdsDistinct
  <2>4. CASE l.id = req.id /\ l.for = req.for
    BY <1>7, <2>1, <2>4 DEF IInv, LinesOwned
  <2>5. QED
    BY <1>6, <2>2, <2>3, <2>4
<1>12. CallsCounted' /\ BusyHasCall' /\ ReplyIsOwn'
  BY <1>1 DEF IInv, CallsCounted, BusyHasCall, Busy, ReplyIsOwn
<1>13. QED
  BY <1>8, <1>9, <1>10, <1>11, <1>12 DEF IInv

-----------------------------------------------------------------------------
(* The theorem.                                                            *)

\* Every step of the program, of a caller or of the rpc process keeps IInv.
LEMMA IInvStep == IInv /\ [Next]_vars => IInv'
<1> SUFFICES ASSUME IInv, [Next]_vars PROVE IInv'
  OBVIOUS
<1>1. CASE \E c \in Callers : CallerStep(c)
  <2>1. PICK c \in Callers : CallerStep(c)
    BY <1>1
  <2>2. QED
    BY <2>1, StartCallInv, CheckClosedInv, AddIdInv, WriteRequestInv, ReadResponseInv
    DEF CallerStep
<1>2. CASE Serve
  BY <1>2, ServeInv
<1>3. CASE NewClient \/ CloseBegin \/ CloseEnd \/ ServerEOF \/ Signal \/ Terminated
         \/ UNCHANGED vars
  BY <1>3, ProgramStepInv
<1>4. QED
  BY <1>1, <1>2, <1>3 DEF Next

\* ReplyIsOwn, which the rpc_two_callers run checks for two callers, holds
\* for every set of callers and every program they run: the SDK client's
\* sendRequest (part_001 191-245) only ever hands a caller the reply to
\* the request it wrote, whatever the other goroutines and the rpc process
\* do, however many notifications and foreign replies it has to skip.
THEOREM ReplyIsOwnHolds == Spec => []ReplyIsOwn
<1>1. Init => IInv
  BY IInvInit
<1>2. IInv /\ [Next]_vars => IInv'
  BY IInvStep
<1>3. IInv => ReplyIsOwn
  BY DEF IInv
<1>4. QED
  BY <1>1, <1>2, <1>3, PTL DEF Spec

-----------------------------------------------------------------------------
(* Type correctness.                                                       *)

\* The program's and the rpc process's flags keep their types.
FlagsType ==
    /\ closed \in BOOLEAN /\ stdinOpen \in BOOLEAN /\ vm \in BOOLEAN
    /\ srv \in {"running", "exited"}

LEMMA FlagsTypeStep == FlagsType /\ [Next]_vars => FlagsType'
<1> SUFFICES ASSUME FlagsType, [Next]_vars PROVE FlagsType'
  OBVIOUS
<1>1. ASSUME NEW c \in Callers, CallerStep(c) PROVE FlagsType'
  BY <1>1 DEF CallerStep, StartCall, CheckClosed, AddId, WriteRequest, ReadResponse,
     Fail, Succeed, Exit, ServerVars, FlagsType
<1>2. CASE NewClient \/ CloseBegin \/ CloseEnd \/ Serve \/ ServerEOF \/ Signal
           \/ Terminated
  BY <1>2 DEF NewClient, CloseBegin, CloseEnd, Serve, ServerEOF, Signal, Terminated,
     Exit, vars, CallerVars, ServerVars, FlagsType, Factory
<1>3. CASE UNCHANGED vars
  BY <1>3 DEF vars, FlagsType
<1>4. QED
  BY <1>1, <1>2, <1>3 DEF Next

\* Every step of the program, its callers and the rpc process keeps each
\* variable in its type; in particular the id a caller holds is one that
\* requestID.Add has already handed out.
THEOREM TypeCorrect == Spec => []TypeOK
<1>1. Init => IInv /\ FlagsType
  BY IInvInit DEF Init, FlagsType
<1>2. IInv /\ FlagsType /\ [Next]_vars => (IInv /\ FlagsType)'
  BY IInvStep, FlagsTypeStep
<1>3. IInv /\ FlagsType => TypeOK
  BY DEF IInv, TypeInv, IdsIssued, FlagsType, TypeOK, Request
<1>4. QED
  BY <1>1, <1>2, <1>3, PTL DEF Spec

-----------------------------------------------------------------------------
(* Refinement of RpcCalls.                                                 *)

\* A caller with a call to make has had fewer replies than its calls.
LEMMA FewerReplies ==
    ASSUME NEW a \in Nat, NEW b \in Nat, NEW p, a + b = p, b >= 1
    PROVE  a < p
  OBVIOUS

\* The caller's own reply is the next call of its program: the line's
\* "for" names it, and the caller, being inside sendRequest, still has a
\* call to make.
LEMMA ReadResponseMaps ==
    ASSUME IInv, NEW c \in Callers, ReadResponse(c)
    PROVE  [Calls!Next]_got
<1>0. pc[c] = "read" /\ Live
  BY DEF ReadResponse
<1>1. CASE stdout # <<>> /\ ~(Head(stdout).id = NoId \/ Head(stdout).id # id[c])
  <2> DEFINE line == Head(stdout)
  <2>1. got' = [got EXCEPT ![c] = Append(@, line.for)]
    BY <1>1 DEF ReadResponse, line
  <2>2. line \in Lines
    BY <1>1, RangeTail DEF IInv, TypeInv, Lines, line
  <2>3. line.for = <<c, Len(got[c]) + 1>>
    BY <1>0, <1>1, <2>2 DEF IInv, LinesOwned, InFlight, line
  <2>4. Len(got[c]) < Len(Program[c])
    <3>1. Len(got[c]) + Len(todo[c]) = Len(Program[c])
      BY <1>0 DEF Live, IInv, CallsCounted
    <3>2. todo[c] # <<>> /\ todo[c] \in Seq(Methods) /\ got[c] \in Seq(Callers \X Nat)
      BY <1>0 DEF IInv, BusyHasCall, Busy, TypeInv
    <3>3. Len(todo[c]) >= 1 /\ Len(todo[c]) \in Nat /\ Len(got[c]) \in Nat
      BY <3>2, EmptySeq, LenProperties
    <3>4. QED
      BY <3>1, <3>3, FewerReplies, Zenon
  <2>5. Calls!Reply(c)
    BY <2>1, <2>3, <2>4 DEF Calls!Reply
  <2>6. QED
    BY <2>5 DEF Calls!Next
<1>2. CASE ~(stdout # <<>> /\ ~(Head(stdout).id = NoId \/ Head(stdout).id # id[c]))
  BY <1>2 DEF ReadResponse
<1>3. QED
  BY <1>1, <1>2

\* Every other step leaves the replies the callers got as they were.
LEMMA StepMaps == IInv /\ [Next]_vars => [Calls!Next]_got
<1> SUFFICES ASSUME IInv, [Next]_vars PROVE [Calls!Next]_got
  OBVIOUS
<1>1. ASSUME NEW c \in Callers, CallerStep(c) PROVE [Calls!Next]_got
  <2>1. CASE ReadResponse(c)
    BY <2>1, ReadResponseMaps
  <2>2. CASE StartCall(c) \/ CheckClosed(c) \/ AddId(c) \/ WriteRequest(c)
    BY <2>2 DEF StartCall, CheckClosed, AddId, WriteRequest, Fail
  <2>3. QED
    BY <1>1, <2>1, <2>2 DEF CallerStep
<1>2. CASE NewClient \/ CloseBegin \/ CloseEnd \/ Serve \/ ServerEOF \/ Signal
           \/ Terminated \/ UNCHANGED vars
  BY <1>2 DEF NewClient, CloseBegin, CloseEnd, Serve, ServerEOF, Signal, Terminated,
     vars, CallerVars
<1>3. QED
  BY <1>1, <1>2 DEF Next

\* CallsSpec, which the rpc_example run checks for the example, holds for
\* every set of callers and programs: to the goroutines calling it, the
\* SDK client's sendRequest (part_001 191-245) with the rpc process behind
\* it is RpcCalls, one caller getting the reply to its next call per step,
\* never more replies than its program has calls.
THEOREM CallsRefinement == Spec => CallsSpec
<1>1. Init => Calls!Init
  BY DEF Init, Calls!Init
<1>2. QED
  BY <1>1, IInvInit, IInvStep, StepMaps, PTL DEF Spec, CallsSpec

=============================================================================
