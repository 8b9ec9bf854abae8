--------------------------- MODULE MCReqProcessor ---------------------------
(***************************************************************************)
(* Instances of ReqProcessor for TLC.                                      *)
(***************************************************************************)
EXTENDS ReqProcessor, TLC

\* One of each way through the processor.  A trim is handled like an aligned
\* write (under the read lock), an unknown type like a misaligned read (refused
\* without one); a misaligned write is refused and keeps its read lock.
OneOfEach == [kind : {"read", "flush", "trim", "unknown"}, aligned : {TRUE}]
             \cup {[kind |-> "write", aligned |-> FALSE]}

\* What the flush protocol is about.
FlushInputs == [kind : {"write", "flush"}, aligned : {TRUE}]

\* A misaligned write, and a flush behind it.
LeakInputs == {[kind |-> "write", aligned |-> FALSE], [kind |-> "flush", aligned |-> TRUE]}

ReadInputs == [kind : {"read"}, aligned : BOOLEAN]

Symmetry == Permutations(Worker) \cup Permutations(ReqObj) \cup Permutations(RespObj)
=============================================================================
