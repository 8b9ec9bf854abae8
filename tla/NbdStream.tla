------------------------------ MODULE NbdStream ------------------------------
(***************************************************************************)
(* One NBD stream from its setup to its end (pkg/usbdlib/nbdstrm.go and    *)
(* nbdkern_linux.go): the choice of a device node, the system calls that   *)
(* give the kernel one end of a socket pair, the worker that sits in the   *)
(* "do it" ioctl, the worker that scans the partition table and cleans up, *)
(* the caller of NewNbdHandler, the callers of Close, and the request      *)
(* processor at the other end of the socket (its inside is ReqProcessor).  *)
(*                                                                         *)
(* The kernel and the device are external: the kernel serves until it is   *)
(* told to disconnect or loses its socket, and sends a disconnect request  *)
(* when it stops; the device can be closed.                                *)
(***************************************************************************)
EXTENDS Integers, Sequences, FiniteSetsExt

CONSTANTS
    Node,           \* the device nodes, in the order sysfs lists them
    NoNode,
    Given,          \* the names the caller may ask for: a set of sequences
    Fault,          \* what may fail: "setup", "load", "doit", "scan", "ioctl",
                    \* "clearSock", "close"
    SecondCloseErrs \* what a second Close of the device may answer: TRUE, an error
                    \* (FileDisk), FALSE, nothing

NodeSet == {Node[i] : i \in DOMAIN Node}

ASSUME NodeAssumption == /\ Node \in Seq(NodeSet) /\ NoNode \notin NodeSet
                         /\ Given \subseteq Seq(NodeSet)
ASSUME FaultAssumption ==
    /\ Fault \subseteq {"setup", "load", "doit", "scan", "ioctl", "clearSock", "close"}
    /\ SecondCloseErrs \subseteq BOOLEAN /\ SecondCloseErrs # {}

VARIABLES
    \* the machine
    loaded, usable, \* the nbd module, the nodes validateDevPath accepts
    serving,        \* the kernel is inside the "do it" ioctl
    sock,           \* the kernel holds its end of the socket pair
    disc,           \* a disconnect request is on the wire
    fds,            \* descriptors this process holds
    devClosed,      \* the device was closed
    \* NewNbdHandler
    given, node,    \* what was asked for, what was chosen
    new, step,      \* the caller, and its place in setupSycalls
    \* the stream
    ctxDone,
    full, chClosed, \* errCh: it holds an error, it is closed
    wgRunning, wgDone,
    doit, clean,    \* the two workers
    user,           \* a caller of Close
    proc, busy,     \* processRequests, and a request one of its workers executes
    procErr,        \* ProcessRequests returned an error
    \* for the properties
    failed          \* which kinds of calls have failed

machine == <<loaded, usable, serving, sock, disc, fds, devClosed>>
setup == <<given, node, new, step>>
chan == <<full, chClosed>>
vars == <<machine, setup, ctxDone, chan, wgRunning, wgDone, doit, clean, user, proc, busy, procErr, failed>>

Init ==
    /\ loaded \in BOOLEAN /\ usable \in SUBSET NodeSet
    /\ serving = FALSE /\ sock = FALSE /\ disc = FALSE /\ fds = {} /\ devClosed = FALSE
    /\ given \in Given /\ node = NoNode /\ new = "pick" /\ step = 1
    /\ ctxDone = FALSE /\ full = FALSE /\ chClosed = FALSE
    /\ wgRunning = 1 /\ wgDone = 2 /\ doit = "off" /\ clean = "off"
    /\ user = "idle" /\ proc = "off" /\ busy = FALSE /\ procErr = FALSE
    /\ failed = {}

\* sendErr never waits: the first error is kept.
SendErr == full' = TRUE
Fails(kind) == kind \in Fault /\ failed' = failed \cup {kind}

-----------------------------------------------------------------------------
(* Choosing a node: useNbdDev and makeNbdDev *)

\* nbdLoaded: /proc/modules lists the module as live.
NbdLoaded == loaded

\* validateDevPath: the path is a device node with nbd's major number, and of size
\* zero (a larger one "may be in use").
ValidDevPath(n) == n \in usable

FirstUsable(names) == LET ok == {i \in DOMAIN names : ValidDevPath(names[i])}
                      IN IF ok = {} THEN NoNode ELSE names[Min(ok)]

Picked(n) == /\ node' = n /\ new' = IF n = NoNode THEN "error" ELSE "setup"
             /\ UNCHANGED <<given, step, usable, serving, sock, disc, fds, devClosed, ctxDone, chan,
                            wgRunning, wgDone, doit, clean, user, proc, busy, procErr>>

\* One of the names that were asked for; the module must be there.
UseNbdDev ==
    /\ new = "pick" /\ given # <<>>
    /\ Picked(IF NbdLoaded THEN FirstUsable(given) ELSE NoNode)
    /\ UNCHANGED <<loaded, failed>>

\* The first node that is free; the module is loaded if it is not there.
MakeNbdDev ==
    /\ new = "pick" /\ given = <<>>
    /\ loaded' = TRUE
    /\ Picked(FirstUsable(Node))
    /\ UNCHANGED failed

LoadNbdFails ==
    /\ new = "pick" /\ given = <<>> /\ ~NbdLoaded
    /\ Fails("load") /\ Picked(NoNode)
    /\ UNCHANGED loaded

-----------------------------------------------------------------------------
(* setupSycalls, then the command socket *)

SetupStep == <<"socketpair", "open", "blockSize", "sizeBlocks", "clearSock",
               "setSock", "flags", "fileConn">>

Setup ==
    /\ new = "setup"
    /\ fds' = fds \cup CASE SetupStep[step] = "socketpair" -> {"user", "kernel"}
                         [] SetupStep[step] = "open"       -> {"devFile"}
                         [] SetupStep[step] = "fileConn"   -> {"conn"}
                         [] OTHER                          -> {}
    /\ sock' = (sock \/ SetupStep[step] = "setSock")
    /\ IF step = Len(SetupStep)
       THEN new' = "launched" /\ doit' = "start" /\ clean' = "scan" /\ UNCHANGED step
       ELSE step' = step + 1 /\ UNCHANGED <<new, doit, clean>>
    /\ UNCHANGED <<loaded, usable, serving, disc, devClosed, given, node, ctxDone, chan,
                   wgRunning, wgDone, user, proc, busy, procErr, failed>>

\* The ioctls' error paths close the device file; nothing closes the sockets.
SetupFails ==
    /\ new = "setup" /\ Fails("setup")
    /\ new' = "error"
    /\ fds' = IF SetupStep[step] = "fileConn" THEN fds ELSE fds \ {"devFile"}
    /\ UNCHANGED <<loaded, usable, serving, sock, disc, devClosed, given, node, step, ctxDone, chan,
                   wgRunning, wgDone, doit, clean, user, proc, busy, procErr>>

\* wgRunning.Wait(), then a look into errCh: an error aborts, and a closed
\* channel looks like no error.
ReadyUnchecked == "ready"
Ready == IF full THEN "error" ELSE "ready"
NewChecks ==
    /\ new = "launched" /\ wgRunning = 0
    /\ new' = Ready
    /\ full' = FALSE /\ ctxDone' = (ctxDone \/ full)
    /\ UNCHANGED <<machine, given, node, step, chClosed, wgRunning, wgDone, doit, clean,
                   user, proc, busy, procErr, failed>>

-----------------------------------------------------------------------------
(* nbdDoItWorker, and the kernel *)

DoItBegins ==
    /\ doit = "start"
    /\ doit' = "in" /\ serving' = sock
    /\ UNCHANGED <<loaded, usable, sock, disc, fds, devClosed, setup, ctxDone, chan,
                   wgRunning, wgDone, clean, user, proc, busy, procErr, failed>>

\* wgDone.Done(), cancel()
DoItExits ==
    /\ doit' = "end" /\ wgDone' = wgDone - 1 /\ ctxDone' = TRUE
    /\ UNCHANGED <<loaded, usable, disc, fds, devClosed, setup, chClosed,
                   wgRunning, clean, user, proc, busy, procErr>>
DoItReturns == /\ doit = "in" /\ ~serving /\ DoItExits
               /\ UNCHANGED <<serving, sock, full, failed>>
DoItFails == /\ doit \in {"start", "in"} /\ Fails("doit") /\ SendErr /\ DoItExits
             /\ serving' = FALSE /\ sock' = FALSE

\* The kernel stops by itself: another process disconnected the device.
KernelEnds ==
    /\ serving
    /\ serving' = FALSE /\ sock' = FALSE /\ disc' = TRUE
    /\ UNCHANGED <<loaded, usable, fds, devClosed, setup, ctxDone, chan, wgRunning, wgDone,
                   doit, clean, user, proc, busy, procErr, failed>>

-----------------------------------------------------------------------------
(* scanPartTableThenCleanupWorker *)

Scan ==
    /\ clean = "scan"
    /\ clean' = "wait" /\ wgRunning' = 0
    /\ UNCHANGED <<machine, setup, ctxDone, chan, wgDone, doit, user, proc, busy, procErr, failed>>

ScanFails ==
    /\ clean = "scan" /\ Fails("scan") /\ SendErr
    /\ clean' = "done" /\ wgRunning' = 0
    /\ UNCHANGED <<machine, setup, ctxDone, chClosed, wgDone, doit, user, proc, busy, procErr>>

\* <-ctx.Done(), then the ioctls in order; an error is only noted.
AfterIoctlStops == [wait |-> "clearQueue", clearQueue |-> "done",
                    disconnect |-> "clearSock", clearSock |-> "done"]
AfterIoctl == [wait |-> "clearQueue", clearQueue |-> "disconnect",
               disconnect |-> "clearSock", clearSock |-> "done"]

Wait ==
    /\ clean = "wait" /\ ctxDone
    /\ clean' = AfterIoctl[clean]
    /\ UNCHANGED <<machine, setup, ctxDone, chan, wgRunning, wgDone, doit, user, proc, busy, procErr, failed>>

\* Disconnect stops the service and sends a disconnect request, clearing the
\* socket takes it from the kernel.
Ioctl ==
    /\ clean \in {"clearQueue", "disconnect", "clearSock"}
    /\ serving' = (serving /\ clean = "clearQueue")
    /\ disc' = (disc \/ (clean = "disconnect" /\ sock))
    /\ sock' = (sock /\ clean # "clearSock")
    /\ clean' = AfterIoctl[clean]
    /\ UNCHANGED <<loaded, usable, fds, devClosed, setup, ctxDone, chan, wgRunning, wgDone,
                   doit, user, proc, busy, procErr, failed>>

\* A call that fails has no effect.  One that fails to clear the socket leaves it,
\* and the service, to the kernel, and is told apart.
IoctlFails ==
    /\ clean \in {"clearQueue", "disconnect", "clearSock"} /\ SendErr
    /\ Fails(IF clean = "clearSock" THEN "clearSock" ELSE "ioctl")
    /\ clean' = AfterIoctl[clean]
    /\ UNCHANGED <<machine, setup, ctxDone, chClosed, wgRunning, wgDone, doit, user, proc, busy, procErr>>

\* The deferred part: wgDone.Done(), wgDone.Wait() ...
Done ==
    /\ clean = "done"
    /\ wgDone' = wgDone - 1 /\ clean' = "waitDone"
    /\ UNCHANGED <<machine, setup, ctxDone, chan, wgRunning, doit, user, proc, busy, procErr, failed>>

\* ... then the device file (a descriptor whose close fails is released all the
\* same) ...
WaitsNot == TRUE
WaitsDone == wgDone = 0
ClosesFile ==
    /\ clean = "waitDone" /\ WaitsDone
    /\ fds' = fds \ {"devFile"} /\ clean' = "closeDev"
    /\ UNCHANGED <<full, failed>> \/ (Fails("close") /\ SendErr)
    /\ UNCHANGED <<loaded, usable, serving, sock, disc, devClosed, setup, ctxDone, chClosed,
                   wgRunning, wgDone, doit, user, proc, busy, procErr>>

\* ... the device ...
CloseErrs == IF devClosed THEN SecondCloseErrs ELSE {FALSE}
ClosesDevice ==
    /\ clean = "closeDev"
    /\ devClosed' = TRUE /\ clean' = "closeFds"
    /\ \/ (\E err \in CloseErrs : full' = (full \/ err)) /\ UNCHANGED failed
       \/ ~devClosed /\ Fails("close") /\ SendErr
    /\ UNCHANGED <<loaded, usable, serving, sock, disc, fds, setup, ctxDone, chClosed,
                   wgRunning, wgDone, doit, user, proc, busy, procErr>>

\* ... the sockets (the command socket is a duplicate, and stays), and errCh.
ClosesFds ==
    /\ clean = "closeFds"
    /\ fds' = fds \ {"kernel", "user"} /\ chClosed' = TRUE /\ clean' = "end"
    /\ UNCHANGED <<full, failed>> \/ (Fails("close") /\ SendErr)
    /\ UNCHANGED <<loaded, usable, serving, sock, disc, devClosed, setup, ctxDone,
                   wgRunning, wgDone, doit, user, proc, busy, procErr>>

-----------------------------------------------------------------------------
(* Close, and the context it was given *)

ParentCancels ==
    /\ new \in {"launched", "ready"} /\ ~ctxDone
    /\ ctxDone' = TRUE
    /\ UNCHANGED <<machine, setup, chan, wgRunning, wgDone, doit, clean, user, proc, busy, procErr, failed>>

UserCloses ==
    /\ user = "idle" /\ new = "ready"
    /\ user' = "waits" /\ ctxDone' = TRUE
    /\ UNCHANGED <<machine, setup, chan, wgRunning, wgDone, doit, clean, proc, busy, procErr, failed>>

\* <-errCh: a closed channel still hands out the error it holds.
Receives == (full \/ chClosed) /\ full' = FALSE
ReceivedUnlessClosed == IF full /\ ~chClosed THEN "err" ELSE "nil"
Received == IF full THEN "err" ELSE "nil"
UserReturns ==
    /\ user = "waits" /\ Receives
    /\ user' = Received
    /\ UNCHANGED <<machine, setup, ctxDone, chClosed, wgRunning, wgDone, doit, clean, proc, busy, procErr, failed>>

-----------------------------------------------------------------------------
(* processRequests on the stream *)

ProcStarts ==
    /\ proc = "off" /\ new = "ready" /\ proc' = "reads"
    /\ UNCHANGED <<machine, setup, ctxDone, chan, wgRunning, wgDone, doit, clean, user, busy, procErr, failed>>

RequestBegins ==
    /\ proc = "reads" /\ serving /\ ~busy /\ busy' = TRUE
    /\ UNCHANGED <<machine, setup, ctxDone, chan, wgRunning, wgDone, doit, clean, user, proc, procErr, failed>>
RequestEnds ==
    /\ busy /\ busy' = FALSE
    /\ UNCHANGED <<machine, setup, ctxDone, chan, wgRunning, wgDone, doit, clean, user, proc, procErr, failed>>

\* A disconnect request ends the processor; the stream is not told.
ReadsDisc ==
    /\ proc = "reads" /\ disc /\ proc' = "drains"
    /\ UNCHANGED <<machine, setup, ctxDone, chan, wgRunning, wgDone, doit, clean, user, busy, procErr, failed>>

\* The other end is gone once nobody holds it: Decode fails and the reader
\* closes the command stream, which is this one.  It only logs what Close answers.
ReadsEOF ==
    /\ proc = "reads" /\ ~disc /\ ~sock /\ "kernel" \notin fds
    /\ proc' = "closes" /\ ctxDone' = TRUE
    /\ UNCHANGED <<machine, setup, chan, wgRunning, wgDone, doit, clean, user, busy, procErr, failed>>
ReaderClosed ==
    /\ proc = "closes" /\ Receives
    /\ proc' = "drains"
    /\ UNCHANGED <<machine, setup, ctxDone, chClosed, wgRunning, wgDone, doit, clean, user, busy, procErr, failed>>

\* workersWg.Wait(), dev.Close()
ProcEnds ==
    /\ proc = "drains" /\ ~busy
    /\ proc' = "end" /\ devClosed' = TRUE
    /\ \/ procErr' \in CloseErrs /\ UNCHANGED failed
       \/ ~devClosed /\ Fails("close") /\ procErr' = TRUE
    /\ UNCHANGED <<loaded, usable, serving, sock, disc, fds, setup, ctxDone, chan,
                   wgRunning, wgDone, doit, clean, user, busy>>

-----------------------------------------------------------------------------
CleanContinues ==
    \/ Scan \/ ScanFails \/ Wait \/ Ioctl \/ IoctlFails \/ Done
    \/ ClosesFile \/ ClosesDevice \/ ClosesFds
ProcContinues == ReadsDisc \/ ReadsEOF \/ ReaderClosed \/ ProcEnds
NewContinues ==
    UseNbdDev \/ MakeNbdDev \/ LoadNbdFails \/ Setup \/ SetupFails \/ NewChecks
DoItContinues == DoItBegins \/ DoItReturns

Next == \/ NewContinues \/ CleanContinues \/ DoItContinues \/ DoItFails \/ KernelEnds
        \/ ParentCancels \/ UserCloses \/ UserReturns
        \/ ProcStarts \/ RequestBegins \/ RequestEnds \/ ProcContinues

Spec == Init /\ [][Next]_vars

(***************************************************************************)
(* Goroutines that can run do, and a request that runs ends.  The kernel   *)
(* has to return from the "do it" ioctl once it has stopped serving (part  *)
(* of DoItContinues); that it ever stops by itself, that a signal comes or *)
(* that anybody calls Close is not assumed.                                *)
(***************************************************************************)
Fairness == /\ WF_vars(NewContinues) /\ WF_vars(CleanContinues) /\ WF_vars(DoItContinues)
            /\ WF_vars(ProcContinues) /\ WF_vars(RequestEnds) /\ WF_vars(UserReturns)

FairSpec == Spec /\ Fairness

-----------------------------------------------------------------------------
(* Properties *)

TypeOK ==
    /\ loaded \in BOOLEAN /\ usable \subseteq NodeSet
    /\ given \in Given /\ node \in NodeSet \cup {NoNode}
    /\ serving \in BOOLEAN /\ sock \in BOOLEAN /\ disc \in BOOLEAN /\ devClosed \in BOOLEAN
    /\ fds \subseteq {"user", "kernel", "devFile", "conn"}
    /\ new \in {"pick", "setup", "launched", "ready", "error"} /\ step \in DOMAIN SetupStep
    /\ ctxDone \in BOOLEAN /\ full \in BOOLEAN /\ chClosed \in BOOLEAN
    /\ wgRunning \in 0 .. 1 /\ wgDone \in 0 .. 2
    /\ doit \in {"off", "start", "in", "end"}
    /\ clean \in {"off", "scan", "wait", "clearQueue", "disconnect", "clearSock", "done",
                  "waitDone", "closeDev", "closeFds", "end"}
    /\ user \in {"idle", "waits", "nil", "err"}
    /\ proc \in {"off", "reads", "closes", "drains", "end"}
    /\ busy \in BOOLEAN /\ procErr \in BOOLEAN /\ failed \subseteq Fault

\* NewNbdHandler never hands out a stream whose partition scan failed, although
\* the scan runs in a goroutine that also outlives the call.
ReadyIsScanned == new = "ready" => "scan" \notin failed

\* When Close returns nil everything is over: the kernel has left the ioctl, the
\* device is closed, and the device file and both sockets are.
ReleasedWhenClosed ==
    user = "nil" => /\ doit = "end" /\ ~serving /\ devClosed
                    /\ fds \subseteq {"conn"}

\* A failure is not lost between the two workers, the one place of errCh and its
\* receivers: a Close that returns nil knows that every call since the setup has
\* worked, unless ProcessRequests returned the error (it had closed the device) or
\* its reader, whose own Close of the stream was first, has logged it.
ReaderTookError == proc \in {"drains", "end"} /\ ~disc
FailureReported ==
    user = "nil" => failed \subseteq {"setup", "load"} \/ procErr \/ ReaderTookError

\* A shutdown in which no call failed is silent, whichever of the two closes the
\* device first: Close and ProcessRequests return nil.
QuietShutdown == failed = {} => user # "err" /\ ~procErr

\* The kernel still serves, and the code could not stop it: a failed scan skips the
\* ioctls, and a failed NBD_CLEAR_SOCK is the last of them.
StillServed == serving /\ ("scan" \in failed \/ "clearSock" \in failed)

\* Once the context is done, by Close, by a signal or by the kernel, the stream is
\* cleaned up and the processor ends, or the kernel still has its socket because
\* the scan or NBD_CLEAR_SOCK failed: the cleanup then waits for it at wgDone.  A
\* caller of Close returns in either case.
StreamEnds ==
    /\ ctxDone ~> clean = "end" \/ StillServed
    /\ user = "waits" ~> user \in {"nil", "err"}
    /\ proc = "reads" /\ ctxDone ~> proc = "end" \/ StillServed

\* What StreamEnds rests on, without time: who can go on, from the guards.
CleanReady ==
    \/ clean \in {"scan", "clearQueue", "disconnect", "clearSock", "done", "closeDev", "closeFds"}
    \/ clean = "wait" /\ ctxDone
    \/ clean = "waitDone" /\ WaitsDone
DoItReady == doit = "start" \/ (doit = "in" /\ ~serving)
ReceiveReady == full \/ chClosed
ProcReady ==
    \/ proc = "reads" /\ (disc \/ (~sock /\ "kernel" \notin fds))
    \/ proc = "closes" /\ ReceiveReady
    \/ proc = "drains" /\ ~busy

\* A shutdown is never stuck half-way.  Once the context is done one of the two
\* workers can go on until the cleanup is over, so that neither waits for the
\* other for ever at wgDone, unless the kernel is still served; the processor
\* whose stream is gone has something to wait for or can go on itself, and so can
\* a caller of Close even then.
ShutdownNeverStuck ==
    /\ ctxDone /\ clean # "end" => CleanReady \/ DoItReady \/ StillServed
    /\ user = "waits" => CleanReady \/ DoItReady \/ ReceiveReady
    /\ ctxDone /\ proc \in {"reads", "closes", "drains"} =>
           CleanReady \/ DoItReady \/ ProcReady \/ busy \/ StillServed

\* The guards say what they mean.
ReadyCanStep ==
    /\ CleanReady => ENABLED CleanContinues
    /\ DoItReady => ENABLED DoItContinues
    /\ ProcReady => ENABLED ProcContinues
    /\ user = "waits" /\ ReceiveReady => ENABLED UserReturns
    /\ busy => ENABLED RequestEnds

\* What the two workers have left to do.
CleanLeft == [off |-> 10, scan |-> 9, wait |-> 8, clearQueue |-> 7, disconnect |-> 6,
              clearSock |-> 5, done |-> 4, waitDone |-> 3, closeDev |-> 2, closeFds |-> 1,
              end |-> 0]
DoItLeft == [off |-> 3, start |-> 2, in |-> 1, end |-> 0]
Remaining == CleanLeft[clean] + DoItLeft[doit]

\* The workers never start anything again: each of their steps leaves less to do,
\* and nothing that the kernel, the callers or the processor do adds to it.
WorkersFinish ==
    [][/\ Remaining' <= Remaining
       /\ CleanContinues \/ DoItContinues \/ DoItFails => Remaining' < Remaining]_vars

\* The device is not closed under a request that runs.
OpsEndBeforeClose == devClosed => ~busy

\* A failed setup leaves no descriptor behind.
FailureLeavesNothing == new = "error" /\ clean \in {"off", "end"} => fds = {}
=============================================================================
