------------------------- MODULE MCSandboxLifecycle -------------------------
(* Model-checking instance of SandboxLifecycle: the constants are given    *)
(* in the .cfg files as model values and small sets.                       *)
EXTENDS SandboxLifecycle

\* For the runs with two sandboxes: no -it and no --timeout, so that the
\* product of two `run` processes stays within reach of TLC.  Both flags
\* only add exit paths of a single process, which the one-sandbox run has.
MCFlags == [rm : BOOLEAN, cmd : BOOLEAN, it : {FALSE}, timeout : {FALSE}]

=============================================================================
