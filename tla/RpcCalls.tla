------------------------------ MODULE RpcCalls ------------------------------
(***************************************************************************)
(* What a JSON-RPC 2.0 client promises its callers (spec, JSON-RPC mode:  *)
(* a response answers the request with its id): every call of a caller    *)
(* returns the reply to that very call, calls of one caller return one    *)
(* after the other in program order, and no caller gets more replies than *)
(* it makes calls.  got[c] is the list                                    *)
(* of calls of c answered so far, each named by (caller, call number).     *)
(***************************************************************************)
EXTENDS Naturals, Sequences

CONSTANTS Callers, Program

VARIABLE got

Init == got = [c \in Callers |-> <<>>]

\* Caller c's next call returns its own reply.
Reply(c) ==
    /\ Len(got[c]) < Len(Program[c])
    /\ got' = [got EXCEPT ![c] = Append(@, <<c, Len(@) + 1>>)]

Next == \E c \in Callers : Reply(c)

Spec == Init /\ [][Next]_got

=============================================================================
