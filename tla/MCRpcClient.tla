---------------------------- MODULE MCRpcClient ----------------------------
(* RpcClient for TLC.  MCExample is examples/go/main.go: one goroutine,    *)
(* Launch, two Exec, WriteFile, ExecStream.  MCTwo is two goroutines that   *)
(* share one Client: the first launches and execs, the second execs.       *)
EXTENDS RpcClient

CONSTANTS c1, c2

MCExample == [c \in {c1} |-> <<"create", "exec", "exec", "write_file", "exec_stream">>]
MCTwo == [c \in {c1, c2} |-> IF c = c1 THEN <<"create", "exec">> ELSE <<"exec_stream">>]
============================================================================
