----------------------------- MODULE DurableCell -----------------------------
(***************************************************************************)
(* What a block device promises of one region of its contents: a read      *)
(* returns the last write, a flush makes what was written before it        *)
(* survive, and a crash brings back either what the last flush covered or  *)
(* something written after that.                                           *)
(***************************************************************************)
CONSTANTS Val, Zero

VARIABLES
    content,    \* what a read returns
    safe        \* what a crash may bring back

Init == content = Zero /\ safe = {Zero}

Write(v) == content' = v /\ safe' = safe \cup {v}

\* A flush forgets older contents, never the current one.
Flush == /\ safe' \in SUBSET safe /\ content \in safe'
         /\ UNCHANGED content

Crash == \E v \in safe : content' = v /\ safe' = {v}

Next == Flush \/ Crash \/ \E v \in Val : Write(v)

Spec == Init /\ [][Next]_<<content, safe>>
=============================================================================
