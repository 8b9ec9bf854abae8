--------------------------- MODULE NbdStreamProofs ---------------------------
(***************************************************************************)
(* Proofs about NbdStream, for any list of nodes, any names asked for and  *)
(* any set of calls that may fail.                                         *)
(***************************************************************************)
EXTENDS NbdStream, WellFoundedInduction, TLAPS

\* The two halves of TypeOK.
Flags ==
    /\ loaded \in BOOLEAN /\ serving \in BOOLEAN /\ sock \in BOOLEAN /\ disc \in BOOLEAN
    /\ devClosed \in BOOLEAN /\ ctxDone \in BOOLEAN /\ full \in BOOLEAN
    /\ chClosed \in BOOLEAN /\ busy \in BOOLEAN /\ procErr \in BOOLEAN
Places ==
    /\ usable \subseteq NodeSet /\ given \in Given /\ node \in NodeSet \cup {NoNode}
    /\ fds \subseteq {"user", "kernel", "devFile", "conn"}
    /\ new \in {"pick", "setup", "launched", "ready", "error"} /\ step \in DOMAIN SetupStep
    /\ wgRunning \in 0 .. 1 /\ wgDone \in 0 .. 2
    /\ doit \in {"off", "start", "in", "end"}
    /\ clean \in {"off", "scan", "wait", "clearQueue", "disconnect", "clearSock", "done",
                  "waitDone", "closeDev", "closeFds", "end"}
    /\ user \in {"idle", "waits", "nil", "err"}
    /\ proc \in {"off", "reads", "closes", "drains", "end"}
    /\ failed \subseteq Fault

\* The workers exist once the setup is through, and nobody else is there before
\* NewNbdHandler has returned.
Phases ==
    /\ clean = "off" <=> new \in {"pick", "setup"} \/ (new = "error" /\ doit = "off")
    /\ doit = "off" <=> clean = "off"
    /\ wgRunning = IF clean \in {"off", "scan"} THEN 1 ELSE 0
    /\ clean = "scan" => new = "launched"
    /\ user # "idle" \/ proc # "off" => new = "ready"

\* wgDone counts the workers that have not called Done.
WgDoneCounts ==
    wgDone = (IF doit = "end" THEN 0 ELSE 1)
             + (IF clean \in {"waitDone", "closeDev", "closeFds", "end"} THEN 0 ELSE 1)

\* A failed scan is in errCh until NewNbdHandler has looked.
ScanErrorKept == "scan" \in failed => (new = "launched" /\ full) \/ new = "error"

\* How far the cleanup has come.
CleanedUp ==
    /\ serving => doit = "in"
    /\ clean \in {"closeDev", "closeFds", "end"} => doit = "end" /\ "devFile" \notin fds
    /\ clean \in {"closeFds", "end"} => devClosed
    /\ clean = "end" => "kernel" \notin fds /\ "user" \notin fds
    /\ chClosed => clean = "end"

IInv == Flags /\ Places /\ Phases /\ WgDoneCounts /\ ScanErrorKept /\ CleanedUp
        /\ ReleasedWhenClosed

-----------------------------------------------------------------------------
\* A list of names has a first usable one, if it has a usable one.
LEMMA FirstUsableType ==
    ASSUME NEW names \in Seq(NodeSet)
    PROVE  FirstUsable(names) \in NodeSet \cup {NoNode}
<1> DEFINE ok == {i \in DOMAIN names : ValidDevPath(names[i])}
<1>1. CASE ok = {}
  BY <1>1 DEF FirstUsable
<1>2. CASE ok # {}
  <2>1. ok \subseteq 1 .. Len(names) /\ ok \subseteq Nat
    OBVIOUS
  <2>2. \E x \in ok : \A y \in ok : ~ (<<y, x>> \in OpToRel(<, Nat))
    <3> HIDE DEF ok
    <3> QED BY <1>2, <2>1, WFMin, NatLessThanWellFounded
  <2>3. \E x \in ok : \A y \in ok : x =< y
    <3>1. PICK x \in ok : \A y \in ok : ~ (<<y, x>> \in OpToRel(<, Nat))
      BY <2>2
    <3>2. ASSUME NEW y \in ok PROVE x =< y
      <4>1. <<y, x>> \in Nat \X Nat => ~ (y < x)
        BY <3>1 DEF OpToRel
      <4> QED BY <2>1, <4>1
    <3> QED BY <3>2
  <2>4. Min(ok) \in ok
    <3> HIDE DEF ok
    <3> QED BY <2>3 DEF Min
  <2>5. names[Min(ok)] \in NodeSet
    BY <2>1, <2>4
  <2> QED BY <1>2, <2>5 DEF FirstUsable
<1> QED BY <1>1, <1>2

\* Before NewNbdHandler is called nothing has happened.
LEMMA InitInv == Init => IInv
<1> SUFFICES ASSUME Init PROVE IInv
    OBVIOUS
<1>1. Flags
  BY DEF Init, Flags
<1>2. Places
  <2>1. 1 \in DOMAIN SetupStep
    BY DEF SetupStep
  <2> QED BY <2>1 DEF Init, Places
<1>3. Phases /\ WgDoneCounts
  BY DEF Init, Phases, WgDoneCounts
<1>4. ScanErrorKept /\ CleanedUp /\ ReleasedWhenClosed
  BY DEF Init, ScanErrorKept, CleanedUp, ReleasedWhenClosed
<1> QED BY <1>1, <1>2, <1>3, <1>4 DEF IInv

\* Where the cleanup goes after each of its waits and ioctls.
LEMMA NextIoctl ==
    /\ AfterIoctl["wait"] = "clearQueue" /\ AfterIoctl["clearQueue"] = "disconnect"
    /\ AfterIoctl["disconnect"] = "clearSock" /\ AfterIoctl["clearSock"] = "done"
BY DEF AfterIoctl

\* Every step of NewNbdHandler keeps the invariant.
LEMMA NewStep ==
    ASSUME IInv, NewContinues
    PROVE  IInv'
<1> USE DEF IInv, machine, setup, chan
<1>1. ASSUME NEW n \in NodeSet \cup {NoNode}, Picked(n), new = "pick",
             loaded' \in BOOLEAN, failed' \in SUBSET Fault, "scan" \in failed' => "scan" \in failed
      PROVE  IInv'
  <2>1. Flags'
    BY <1>1 DEF Picked, Flags
  <2>2. Places'
    BY <1>1 DEF Picked, Places
  <2>3. Phases' /\ WgDoneCounts' /\ ScanErrorKept' /\ CleanedUp' /\ ReleasedWhenClosed'
    BY <1>1 DEF Picked, Phases, WgDoneCounts, ScanErrorKept, CleanedUp, ReleasedWhenClosed
  <2> QED BY <2>1, <2>2, <2>3
<1>2. CASE UseNbdDev
  <2>1. given \in Seq(NodeSet)
    BY NodeAssumption DEF Places
  <2>2. (IF NbdLoaded THEN FirstUsable(given) ELSE NoNode) \in NodeSet \cup {NoNode}
    BY <2>1, FirstUsableType
  <2> QED BY <1>1, <1>2, <2>2 DEF UseNbdDev, Flags, Places
<1>3. CASE MakeNbdDev
  <2>1. FirstUsable(Node) \in NodeSet \cup {NoNode}
    BY FirstUsableType, NodeAssumption
  <2> QED BY <1>1, <1>3, <2>1 DEF MakeNbdDev, Places
<1>4. CASE LoadNbdFails
  BY <1>1, <1>4 DEF LoadNbdFails, Fails, Flags, Places
<1>5. CASE Setup
  <2>6. step' \in DOMAIN SetupStep /\ fds' \subseteq {"user", "kernel", "devFile", "conn"}
    BY <1>5 DEF Setup, SetupStep, Places
  <2>1. Flags'
    BY <1>5, <2>6 DEF Setup, Flags
  <2>2. Places'
    BY <1>5, <2>6 DEF Setup, Places
  <2>3. Phases' /\ WgDoneCounts'
    BY <1>5, <2>6 DEF Setup, Places, Phases, WgDoneCounts
  <2>4. ScanErrorKept'
    BY <1>5 DEF Setup, Phases, ScanErrorKept
  <2>5. CleanedUp' /\ ReleasedWhenClosed'
    BY <1>5, <2>6 DEF Setup, Flags, Places, Phases, WgDoneCounts, CleanedUp, ReleasedWhenClosed
  <2> QED BY <2>1, <2>2, <2>3, <2>4, <2>5
<1>6. CASE SetupFails
  <2>1. Flags'
    BY <1>6 DEF SetupFails, Fails, Flags
  <2>2. Places'
    BY <1>6 DEF SetupFails, Fails, Places
  <2>3. Phases' /\ WgDoneCounts'
    BY <1>6 DEF SetupFails, Fails, Places, Phases, WgDoneCounts
  <2>4. ScanErrorKept'
    BY <1>6 DEF SetupFails, Fails, Phases, ScanErrorKept
  <2>5. CleanedUp' /\ ReleasedWhenClosed'
    BY <1>6 DEF SetupFails, Fails, Flags, Places, Phases, WgDoneCounts, CleanedUp, ReleasedWhenClosed
  <2> QED BY <2>1, <2>2, <2>3, <2>4, <2>5
<1>7. CASE NewChecks
  <2>1. Flags'
    BY <1>7 DEF NewChecks, Ready, Flags
  <2>2. Places'
    BY <1>7 DEF NewChecks, Ready, Places
  <2>3. Phases' /\ WgDoneCounts'
    BY <1>7 DEF NewChecks, Ready, Places, Phases, WgDoneCounts
  <2>4. ScanErrorKept'
    BY <1>7 DEF NewChecks, Ready, Places, Phases, ScanErrorKept
  <2>5. CleanedUp' /\ ReleasedWhenClosed'
    BY <1>7 DEF NewChecks, Ready, Flags, Places, Phases, WgDoneCounts, CleanedUp, ReleasedWhenClosed
  <2> QED BY <2>1, <2>2, <2>3, <2>4, <2>5
<1> QED BY <1>2, <1>3, <1>4, <1>5, <1>6, <1>7 DEF NewContinues

\* The worker in the "do it" ioctl, and the kernel.
LEMMA DoItStep ==
    ASSUME IInv, DoItContinues \/ DoItFails \/ KernelEnds
    PROVE  IInv'
<1> USE DEF IInv, machine, setup, chan
<1>1. CASE DoItBegins
  <2>1. Flags'
    BY <1>1 DEF DoItBegins, Flags
  <2>2. Places'
    BY <1>1 DEF DoItBegins, Places
  <2>3. Phases' /\ WgDoneCounts'
    BY <1>1 DEF DoItBegins, Places, Phases, WgDoneCounts
  <2>4. ScanErrorKept'
    BY <1>1 DEF DoItBegins, Phases, ScanErrorKept
  <2>5. CleanedUp' /\ ReleasedWhenClosed'
    BY <1>1 DEF DoItBegins, Flags, Places, Phases, WgDoneCounts, CleanedUp, ReleasedWhenClosed
  <2> QED BY <2>1, <2>2, <2>3, <2>4, <2>5
<1>2. CASE DoItReturns
  <2>1. Flags'
    BY <1>2 DEF DoItReturns, DoItExits, Flags
  <2>2. Places'
    BY <1>2 DEF DoItReturns, DoItExits, Places, WgDoneCounts
  <2>3. Phases' /\ WgDoneCounts'
    BY <1>2 DEF DoItReturns, DoItExits, Places, Phases, WgDoneCounts
  <2>4. ScanErrorKept'
    BY <1>2 DEF DoItReturns, DoItExits, Phases, ScanErrorKept
  <2>5. CleanedUp' /\ ReleasedWhenClosed'
    BY <1>2 DEF DoItReturns, DoItExits, Flags, Places, Phases, WgDoneCounts, CleanedUp, ReleasedWhenClosed
  <2> QED BY <2>1, <2>2, <2>3, <2>4, <2>5
<1>3. CASE DoItFails
  <2>1. Flags'
    BY <1>3 DEF DoItFails, DoItExits, Fails, SendErr, Flags
  <2>2. Places'
    BY <1>3 DEF DoItFails, DoItExits, Fails, SendErr, Places, WgDoneCounts
  <2>3. Phases' /\ WgDoneCounts'
    BY <1>3 DEF DoItFails, DoItExits, Fails, SendErr, Places, Phases, WgDoneCounts
  <2>4. ScanErrorKept'
    BY <1>3 DEF DoItFails, DoItExits, Fails, SendErr, Phases, ScanErrorKept
  <2>5. CleanedUp' /\ ReleasedWhenClosed'
    BY <1>3 DEF DoItFails, DoItExits, Fails, SendErr, Flags, Places, Phases, WgDoneCounts, CleanedUp, ReleasedWhenClosed
  <2> QED BY <2>1, <2>2, <2>3, <2>4, <2>5
<1>4. CASE KernelEnds
  <2>1. Flags'
    BY <1>4 DEF KernelEnds, Flags
  <2>2. Places'
    BY <1>4 DEF KernelEnds, Places
  <2>3. Phases' /\ WgDoneCounts'
    BY <1>4 DEF KernelEnds, Places, Phases, WgDoneCounts
  <2>4. ScanErrorKept'
    BY <1>4 DEF KernelEnds, Phases, ScanErrorKept
  <2>5. CleanedUp' /\ ReleasedWhenClosed'
    BY <1>4 DEF KernelEnds, Flags, Places, Phases, WgDoneCounts, CleanedUp, ReleasedWhenClosed
  <2> QED BY <2>1, <2>2, <2>3, <2>4, <2>5
<1> QED BY <1>1, <1>2, <1>3, <1>4 DEF DoItContinues

\* The worker that scans and cleans up.
LEMMA CleanStep ==
    ASSUME IInv, CleanContinues
    PROVE  IInv'
<1> USE DEF IInv, machine, setup, chan
<1>1. CASE Scan
  <2>1. Flags'
    BY <1>1 DEF Scan, Flags
  <2>2. Places'
    BY <1>1 DEF Scan, Places
  <2>3. Phases' /\ WgDoneCounts'
    BY <1>1 DEF Scan, Places, Phases, WgDoneCounts
  <2>4. ScanErrorKept'
    BY <1>1 DEF Scan, Phases, ScanErrorKept
  <2>5. CleanedUp' /\ ReleasedWhenClosed'
    BY <1>1 DEF Scan, Flags, Places, Phases, WgDoneCounts, CleanedUp, ReleasedWhenClosed
  <2> QED BY <2>1, <2>2, <2>3, <2>4, <2>5
<1>2. CASE ScanFails
  <2>1. Flags'
    BY <1>2 DEF ScanFails, Fails, SendErr, Flags
  <2>2. Places'
    BY <1>2 DEF ScanFails, Fails, SendErr, Places
  <2>3. Phases' /\ WgDoneCounts'
    BY <1>2 DEF ScanFails, Fails, SendErr, Places, Phases, WgDoneCounts
  <2>4. ScanErrorKept'
    BY <1>2 DEF ScanFails, Fails, SendErr, Phases, ScanErrorKept
  <2>5. CleanedUp' /\ ReleasedWhenClosed'
    BY <1>2 DEF ScanFails, Fails, SendErr, Flags, Places, Phases, WgDoneCounts, CleanedUp, ReleasedWhenClosed
  <2> QED BY <2>1, <2>2, <2>3, <2>4, <2>5
<1>3. CASE Wait
  <2>1. Flags'
    BY <1>3, NextIoctl DEF Wait, Flags
  <2>2. Places'
    BY <1>3, NextIoctl DEF Wait, Places
  <2>3. Phases' /\ WgDoneCounts'
    BY <1>3, NextIoctl DEF Wait, Places, Phases, WgDoneCounts
  <2>4. ScanErrorKept'
    BY <1>3, NextIoctl DEF Wait, Phases, ScanErrorKept
  <2>5. CleanedUp' /\ ReleasedWhenClosed'
    BY <1>3, NextIoctl DEF Wait, Flags, Places, Phases, WgDoneCounts, CleanedUp, ReleasedWhenClosed
  <2> QED BY <2>1, <2>2, <2>3, <2>4, <2>5
<1>4. CASE Ioctl
  <2>1. Flags'
    BY <1>4, NextIoctl DEF Ioctl, Flags
  <2>2. Places'
    BY <1>4, NextIoctl DEF Ioctl, Places
  <2>3. Phases' /\ WgDoneCounts'
    BY <1>4, NextIoctl DEF Ioctl, Places, Phases, WgDoneCounts
  <2>4. ScanErrorKept'
    BY <1>4, NextIoctl DEF Ioctl, Phases, ScanErrorKept
  <2>5. CleanedUp' /\ ReleasedWhenClosed'
    BY <1>4, NextIoctl DEF Ioctl, Flags, Places, Phases, WgDoneCounts, CleanedUp, ReleasedWhenClosed
  <2> QED BY <2>1, <2>2, <2>3, <2>4, <2>5
<1>5. CASE IoctlFails
  <2>1. Flags'
    BY <1>5, NextIoctl DEF IoctlFails, Fails, SendErr, Flags
  <2>2. Places'
    BY <1>5, NextIoctl DEF IoctlFails, Fails, SendErr, Places
  <2>3. Phases' /\ WgDoneCounts'
    BY <1>5, NextIoctl DEF IoctlFails, Fails, SendErr, Places, Phases, WgDoneCounts
  <2>4. ScanErrorKept'
    BY <1>5, NextIoctl DEF IoctlFails, Fails, SendErr, Phases, ScanErrorKept
  <2>5. CleanedUp' /\ ReleasedWhenClosed'
    BY <1>5, NextIoctl DEF IoctlFails, Fails, SendErr, Flags, Places, Phases, WgDoneCounts, CleanedUp, ReleasedWhenClosed
  <2> QED BY <2>1, <2>2, <2>3, <2>4, <2>5
<1>6. CASE Done
  <2>1. Flags'
    BY <1>6 DEF Done, Flags
  <2>2. Places'
    BY <1>6 DEF Done, Places, WgDoneCounts
  <2>3. Phases' /\ WgDoneCounts'
    BY <1>6 DEF Done, Places, Phases, WgDoneCounts
  <2>4. ScanErrorKept'
    BY <1>6 DEF Done, Phases, ScanErrorKept
  <2>5. CleanedUp' /\ ReleasedWhenClosed'
    BY <1>6 DEF Done, Flags, Places, Phases, WgDoneCounts, CleanedUp, ReleasedWhenClosed
  <2> QED BY <2>1, <2>2, <2>3, <2>4, <2>5
<1>7. CASE ClosesFile
  <2>1. Flags'
    BY <1>7 DEF ClosesFile, Fails, SendErr, WaitsDone, Flags
  <2>2. Places'
    BY <1>7 DEF ClosesFile, Fails, SendErr, WaitsDone, Places
  <2>3. Phases' /\ WgDoneCounts'
    BY <1>7 DEF ClosesFile, Fails, SendErr, WaitsDone, Places, Phases, WgDoneCounts
  <2>4. ScanErrorKept'
    BY <1>7 DEF ClosesFile, Fails, SendErr, WaitsDone, Phases, ScanErrorKept
  <2>5. CleanedUp' /\ ReleasedWhenClosed'
    BY <1>7 DEF ClosesFile, Fails, SendErr, WaitsDone, Flags, Places, Phases, WgDoneCounts, CleanedUp, ReleasedWhenClosed
  <2> QED BY <2>1, <2>2, <2>3, <2>4, <2>5
<1>8. CASE ClosesDevice
  <2>1. Flags'
    BY <1>8 DEF ClosesDevice, Fails, SendErr, CloseErrs, Flags
  <2>2. Places'
    BY <1>8 DEF ClosesDevice, Fails, SendErr, CloseErrs, Places
  <2>3. Phases' /\ WgDoneCounts'
    BY <1>8 DEF ClosesDevice, Fails, SendErr, CloseErrs, Places, Phases, WgDoneCounts
  <2>4. ScanErrorKept'
    <3>1. "scan" \in failed' => "scan" \in failed
      BY <1>8 DEF ClosesDevice, Fails
    <3>2. new' = new /\ (full => full')
      BY <1>8 DEF ClosesDevice, SendErr
    <3> QED BY <3>1, <3>2 DEF ScanErrorKept
  <2>5. CleanedUp' /\ ReleasedWhenClosed'
    BY <1>8 DEF ClosesDevice, Fails, SendErr, CloseErrs, Flags, Places, Phases, WgDoneCounts, CleanedUp, ReleasedWhenClosed
  <2> QED BY <2>1, <2>2, <2>3, <2>4, <2>5
<1>9. CASE ClosesFds
  <2>1. Flags'
    BY <1>9 DEF ClosesFds, Fails, SendErr, Flags
  <2>2. Places'
    BY <1>9 DEF ClosesFds, Fails, SendErr, Places
  <2>3. Phases' /\ WgDoneCounts'
    BY <1>9 DEF ClosesFds, Fails, SendErr, Places, Phases, WgDoneCounts
  <2>4. ScanErrorKept'
    BY <1>9 DEF ClosesFds, Fails, SendErr, Phases, ScanErrorKept
  <2>5. CleanedUp' /\ ReleasedWhenClosed'
    BY <1>9 DEF ClosesFds, Fails, SendErr, Flags, Places, Phases, WgDoneCounts, CleanedUp, ReleasedWhenClosed
  <2> QED BY <2>1, <2>2, <2>3, <2>4, <2>5
<1> QED BY <1>1, <1>2, <1>3, <1>4, <1>5, <1>6, <1>7, <1>8, <1>9 DEF CleanContinues

\* Close, its context, and the request processor.
LEMMA CallerStep ==
    ASSUME IInv, \/ ParentCancels \/ UserCloses \/ UserReturns
                 \/ ProcStarts \/ RequestBegins \/ RequestEnds \/ ProcContinues
    PROVE  IInv'
<1> USE DEF IInv, machine, setup, chan
<1>1. CASE ParentCancels
  <2>1. Flags'
    BY <1>1 DEF ParentCancels, Flags
  <2>2. Places'
    BY <1>1 DEF ParentCancels, Places
  <2>3. Phases' /\ WgDoneCounts'
    BY <1>1 DEF ParentCancels, Places, Phases, WgDoneCounts
  <2>4. ScanErrorKept'
    BY <1>1 DEF ParentCancels, Phases, ScanErrorKept
  <2>5. CleanedUp' /\ ReleasedWhenClosed'
    BY <1>1 DEF ParentCancels, Flags, Places, Phases, WgDoneCounts, CleanedUp, ReleasedWhenClosed
  <2> QED BY <2>1, <2>2, <2>3, <2>4, <2>5
<1>2. CASE UserCloses
  <2>1. Flags'
    BY <1>2 DEF UserCloses, Flags
  <2>2. Places'
    BY <1>2 DEF UserCloses, Places
  <2>3. Phases' /\ WgDoneCounts'
    BY <1>2 DEF UserCloses, Places, Phases, WgDoneCounts
  <2>4. ScanErrorKept'
    BY <1>2 DEF UserCloses, Phases, ScanErrorKept
  <2>5. CleanedUp' /\ ReleasedWhenClosed'
    BY <1>2 DEF UserCloses, Flags, Places, Phases, WgDoneCounts, CleanedUp, ReleasedWhenClosed
  <2> QED BY <2>1, <2>2, <2>3, <2>4, <2>5
<1>3. CASE UserReturns
  <2>1. Flags'
    BY <1>3 DEF UserReturns, Receives, Received, Flags
  <2>2. Places'
    BY <1>3 DEF UserReturns, Receives, Received, Places
  <2>3. Phases' /\ WgDoneCounts'
    BY <1>3 DEF UserReturns, Receives, Received, Places, Phases, WgDoneCounts
  <2>4. ScanErrorKept'
    BY <1>3 DEF UserReturns, Receives, Received, Phases, ScanErrorKept
  <2>5. CleanedUp' /\ ReleasedWhenClosed'
    BY <1>3 DEF UserReturns, Receives, Received, Flags, Places, Phases, WgDoneCounts, CleanedUp, ReleasedWhenClosed
  <2> QED BY <2>1, <2>2, <2>3, <2>4, <2>5
<1>4. CASE ProcStarts
  <2>1. Flags'
    BY <1>4 DEF ProcStarts, Flags
  <2>2. Places'
    BY <1>4 DEF ProcStarts, Places
  <2>3. Phases' /\ WgDoneCounts'
    BY <1>4 DEF ProcStarts, Places, Phases, WgDoneCounts
  <2>4. ScanErrorKept'
    BY <1>4 DEF ProcStarts, Phases, ScanErrorKept
  <2>5. CleanedUp' /\ ReleasedWhenClosed'
    BY <1>4 DEF ProcStarts, Flags, Places, Phases, WgDoneCounts, CleanedUp, ReleasedWhenClosed
  <2> QED BY <2>1, <2>2, <2>3, <2>4, <2>5
<1>5. CASE RequestBegins
  <2>1. Flags'
    BY <1>5 DEF RequestBegins, Flags
  <2>2. Places'
    BY <1>5 DEF RequestBegins, Places
  <2>3. Phases' /\ WgDoneCounts'
    BY <1>5 DEF RequestBegins, Places, Phases, WgDoneCounts
  <2>4. ScanErrorKept'
    BY <1>5 DEF RequestBegins, Phases, ScanErrorKept
  <2>5. CleanedUp' /\ ReleasedWhenClosed'
    BY <1>5 DEF RequestBegins, Flags, Places, Phases, WgDoneCounts, CleanedUp, ReleasedWhenClosed
  <2> QED BY <2>1, <2>2, <2>3, <2>4, <2>5
<1>6. CASE RequestEnds
  <2>1. Flags'
    BY <1>6 DEF RequestEnds, Flags
  <2>2. Places'
    BY <1>6 DEF RequestEnds, Places
  <2>3. Phases' /\ WgDoneCounts'
    BY <1>6 DEF RequestEnds, Places, Phases, WgDoneCounts
  <2>4. ScanErrorKept'
    BY <1>6 DEF RequestEnds, Phases, ScanErrorKept
  <2>5. CleanedUp' /\ ReleasedWhenClosed'
    BY <1>6 DEF RequestEnds, Flags, Places, Phases, WgDoneCounts, CleanedUp, ReleasedWhenClosed
  <2> QED BY <2>1, <2>2, <2>3, <2>4, <2>5
<1>7. CASE ReadsDisc
  <2>1. Flags'
    BY <1>7 DEF ReadsDisc, Flags
  <2>2. Places'
    BY <1>7 DEF ReadsDisc, Places
  <2>3. Phases' /\ WgDoneCounts'
    BY <1>7 DEF ReadsDisc, Places, Phases, WgDoneCounts
  <2>4. ScanErrorKept'
    BY <1>7 DEF ReadsDisc, Phases, ScanErrorKept
  <2>5. CleanedUp' /\ ReleasedWhenClosed'
    BY <1>7 DEF ReadsDisc, Flags, Places, Phases, WgDoneCounts, CleanedUp, ReleasedWhenClosed
  <2> QED BY <2>1, <2>2, <2>3, <2>4, <2>5
<1>8. CASE ReadsEOF
  <2>1. Flags'
    BY <1>8 DEF ReadsEOF, Flags
  <2>2. Places'
    BY <1>8 DEF ReadsEOF, Places
  <2>3. Phases' /\ WgDoneCounts'
    BY <1>8 DEF ReadsEOF, Places, Phases, WgDoneCounts
  <2>4. ScanErrorKept'
    BY <1>8 DEF ReadsEOF, Phases, ScanErrorKept
  <2>5. CleanedUp' /\ ReleasedWhenClosed'
    BY <1>8 DEF ReadsEOF, Flags, Places, Phases, WgDoneCounts, CleanedUp, ReleasedWhenClosed
  <2> QED BY <2>1, <2>2, <2>3, <2>4, <2>5
<1>9. CASE ReaderClosed
  <2>1. Flags'
    BY <1>9 DEF ReaderClosed, Receives, Flags
  <2>2. Places'
    BY <1>9 DEF ReaderClosed, Receives, Places
  <2>3. Phases' /\ WgDoneCounts'
    BY <1>9 DEF ReaderClosed, Receives, Places, Phases, WgDoneCounts
  <2>4. ScanErrorKept'
    BY <1>9 DEF ReaderClosed, Receives, Phases, ScanErrorKept
  <2>5. CleanedUp' /\ ReleasedWhenClosed'
    BY <1>9 DEF ReaderClosed, Receives, Flags, Places, Phases, WgDoneCounts, CleanedUp, ReleasedWhenClosed
  <2> QED BY <2>1, <2>2, <2>3, <2>4, <2>5
<1>10. CASE ProcEnds
  <2>1. Flags'
    <3>1. procErr' \in BOOLEAN
      BY <1>10, FaultAssumption DEF ProcEnds, CloseErrs
    <3> QED BY <1>10, <3>1 DEF ProcEnds, Flags
  <2>2. Places'
    <3>1. failed' \subseteq Fault
      BY <1>10 DEF ProcEnds, Fails, Places
    <3> QED BY <1>10, <3>1 DEF ProcEnds, Places
  <2>3. Phases' /\ WgDoneCounts'
    BY <1>10 DEF ProcEnds, Fails, CloseErrs, Places, Phases, WgDoneCounts
  <2>4. ScanErrorKept'
    <3>1. "scan" \in failed' => "scan" \in failed
      BY <1>10 DEF ProcEnds, Fails
    <3>2. UNCHANGED <<new, full>>
      BY <1>10 DEF ProcEnds
    <3> QED BY <3>1, <3>2 DEF ScanErrorKept
  <2>5. CleanedUp' /\ ReleasedWhenClosed'
    BY <1>10 DEF ProcEnds, Fails, CloseErrs, Flags, Places, Phases, WgDoneCounts, CleanedUp, ReleasedWhenClosed
  <2> QED BY <2>1, <2>2, <2>3, <2>4, <2>5
<1> QED BY <1>1, <1>2, <1>3, <1>4, <1>5, <1>6, <1>7, <1>8, <1>9, <1>10 DEF ProcContinues

\* Every state of a stream satisfies the invariant.
THEOREM Inductive == Spec => []IInv
<1>1. IInv /\ [Next]_vars => IInv'
  <2> SUFFICES ASSUME IInv, [Next]_vars PROVE IInv'
      OBVIOUS
  <2>1. CASE Next
    BY <2>1, NewStep, DoItStep, CleanStep, CallerStep DEF Next
  <2>2. CASE UNCHANGED vars
    BY <2>2 DEF vars, machine, setup, chan, IInv, Phases, WgDoneCounts, ScanErrorKept,
                CleanedUp, ReleasedWhenClosed, Flags, Places
  <2> QED BY <2>1, <2>2
<1> QED BY <1>1, InitInv, PTL DEF Spec

\* The states are well typed: neither wait group is ever taken below zero, which
\* would be a panic.
THEOREM TypeCorrect == Spec => []TypeOK
<1>1. IInv => TypeOK
  BY DEF IInv, Flags, Places, TypeOK
<1> QED BY <1>1, Inductive, PTL

\* A stream whose partition scan failed is never handed out.
THEOREM Scanned == Spec => []ReadyIsScanned
<1>1. IInv => ReadyIsScanned
  BY DEF IInv, ScanErrorKept, ReadyIsScanned
<1> QED BY <1>1, Inductive, PTL

\* Close returns nil only when the kernel is out of the ioctl, the device is closed
\* and the descriptors are released.
THEOREM Released == Spec => []ReleasedWhenClosed
<1>1. IInv => ReleasedWhenClosed
  BY DEF IInv
<1> QED BY <1>1, Inductive, PTL

-----------------------------------------------------------------------------
\* Where the error of a failed call is: in errCh until somebody has taken it, who
\* is the caller of Close, NewNbdHandler or the reader of the request processor,
\* and the last only when the cleanup is over, for it waits for the kernel's end of
\* the socket to be closed.
Told == full \/ user = "err" \/ new = "error" \/ ReaderTookError
ErrorsKept ==
    /\ failed \cap {"doit", "scan", "ioctl", "clearSock"} # {} => Told
    /\ "close" \in failed => Told \/ procErr
    /\ procErr => proc = "end"
    /\ step > 1 \/ clean # "off" => clean = "end" \/ "kernel" \in fds
    /\ proc = "closes" => ~ disc
    /\ proc = "closes" \/ ReaderTookError => clean = "end"
    /\ user = "nil" => clean = "end" /\ ~ full

\* Every step keeps it.
LEMMA ErrorsKeptStep ==
    ASSUME IInv, ErrorsKept, [Next]_vars
    PROVE  ErrorsKept'
<1> USE DEF IInv, ErrorsKept, Told, ReaderTookError, machine, setup, chan
<1>1. CASE UseNbdDev \/ MakeNbdDev \/ LoadNbdFails
  BY <1>1 DEF UseNbdDev, MakeNbdDev, LoadNbdFails, Picked, Fails, Phases, Flags, Places
<1>2. CASE Setup
  BY <1>2 DEF Setup, SetupStep, Phases, Flags, Places
<1>3. CASE SetupFails
  BY <1>3 DEF SetupFails, Fails, Phases, Flags, Places
<1>4. CASE NewChecks
  BY <1>4 DEF NewChecks, Ready, Phases, Flags, Places
<1>5. CASE DoItBegins
  BY <1>5 DEF DoItBegins, Phases, Flags
<1>6. CASE DoItReturns
  BY <1>6 DEF DoItReturns, DoItExits, Phases, Flags
<1>7. CASE DoItFails
  BY <1>7 DEF DoItFails, DoItExits, Fails, SendErr, Phases, Flags, CleanedUp
<1>8. CASE KernelEnds
  BY <1>8 DEF KernelEnds, Phases, Flags, CleanedUp
<1>9. CASE Scan \/ ScanFails
  BY <1>9 DEF Scan, ScanFails, Fails, SendErr, Phases, Flags
<1>10. CASE Wait
  BY <1>10, NextIoctl DEF Wait, Flags
<1>11. CASE Ioctl
  BY <1>11, NextIoctl DEF Ioctl, Flags
<1>12. CASE IoctlFails
  BY <1>12, NextIoctl DEF IoctlFails, Fails, SendErr, Flags
<1>13. CASE Done
  BY <1>13 DEF Done, Flags
<1>14. CASE ClosesFile
  BY <1>14 DEF ClosesFile, Fails, SendErr, Flags
<1>15. CASE ClosesDevice
  BY <1>15 DEF ClosesDevice, Fails, SendErr, Flags
<1>16. CASE ClosesFds
  BY <1>16 DEF ClosesFds, Fails, SendErr, Flags
<1>17. CASE ParentCancels \/ UserCloses
  BY <1>17 DEF ParentCancels, UserCloses, Flags
<1>18. CASE UserReturns
  BY <1>18 DEF UserReturns, Receives, Received, Flags, CleanedUp
<1>19. CASE ProcStarts \/ RequestBegins \/ RequestEnds \/ ReadsDisc
  BY <1>19 DEF ProcStarts, RequestBegins, RequestEnds, ReadsDisc, Flags
<1>20. CASE ReadsEOF
  BY <1>20 DEF ReadsEOF, Phases, Flags
<1>21. CASE ReaderClosed
  BY <1>21 DEF ReaderClosed, Receives, Flags
<1>22. CASE ProcEnds
  <2>1. \/ UNCHANGED failed
        \/ failed' = failed \cup {"close"} /\ procErr'
    BY <1>22 DEF ProcEnds, Fails
  <2>2. /\ proc = "drains" /\ proc' = "end"
        /\ UNCHANGED <<disc, fds, new, step, full, clean, user>>
    BY <1>22 DEF ProcEnds
  <2>3. ~ procErr
    BY <2>2
  <2> QED BY <2>1, <2>2, <2>3 DEF Flags
<1>23. CASE UNCHANGED vars
  BY <1>23 DEF vars
<1> QED
  BY <1>1, <1>2, <1>3, <1>4, <1>5, <1>6, <1>7, <1>8, <1>9, <1>10, <1>11, <1>12, <1>13, <1>14,
     <1>15, <1>16, <1>17, <1>18, <1>19, <1>20, <1>21, <1>22, <1>23
     DEF Next, NewContinues, CleanContinues, DoItContinues, ProcContinues

\* Every state of a stream satisfies it.
LEMMA ErrorsAreKept == Spec => []ErrorsKept
<1>1. Init => ErrorsKept
  BY DEF Init, ErrorsKept, ReaderTookError
<1>2. IInv /\ ErrorsKept /\ [Next]_vars => ErrorsKept'
  BY ErrorsKeptStep
<1> QED BY <1>1, <1>2, Inductive, PTL DEF Spec

\* Close returns nil only if no call since the setup has failed, or if the request
\* processor was told: errCh keeps the first error for as long as nobody took it.
THEOREM Reported == Spec => []FailureReported
<1>1. IInv /\ ErrorsKept => FailureReported
  <2> SUFFICES ASSUME IInv, ErrorsKept, user = "nil", ~ procErr, ~ ReaderTookError
               PROVE  failed \subseteq {"setup", "load"}
      BY DEF FailureReported
  <2>1. ~ Told
    BY DEF IInv, Phases, ErrorsKept, Told
  <2> QED BY <2>1, FaultAssumption DEF IInv, Places, ErrorsKept
<1> QED BY <1>1, Inductive, ErrorsAreKept, PTL

-----------------------------------------------------------------------------
\* Why a shutdown goes on: the kernel serves only while it has its socket, which
\* the cleanup of a scanned stream has taken from it before it waits for the other
\* worker, if the call did not fail; whoever waits for errCh has cancelled the context, and a cleanup that
\* is over has closed errCh.  A kernel that has left the ioctl with its socket has
\* sent a disconnect request.
Ending ==
    /\ serving => sock
    /\ ctxDone => clean # "off"
    /\ user = "waits" \/ proc = "closes" => ctxDone
    /\ clean \in {"done", "waitDone", "closeDev", "closeFds", "end"} =>
           "scan" \in failed \/ "clearSock" \in failed \/ ~sock
    /\ doit \in {"in", "end"} => serving \/ ~ sock \/ disc
    /\ clean = "end" => chClosed

\* Every step keeps it.
LEMMA EndingStep ==
    ASSUME IInv, Ending, [Next]_vars
    PROVE  Ending'
<1> USE DEF IInv, Ending, machine, setup, chan
<1>1. CASE UseNbdDev \/ MakeNbdDev \/ LoadNbdFails
  BY <1>1 DEF UseNbdDev, MakeNbdDev, LoadNbdFails, Picked, Phases, Flags
<1>2. CASE Setup
  BY <1>2 DEF Setup, Phases, Flags, CleanedUp
<1>3. CASE SetupFails
  BY <1>3 DEF SetupFails, Phases, Flags
<1>4. CASE NewChecks
  BY <1>4 DEF NewChecks, Phases, Flags
<1>5. CASE DoItBegins
  BY <1>5 DEF DoItBegins, Flags
<1>6. CASE DoItReturns
  BY <1>6 DEF DoItReturns, DoItExits, Phases, Flags
<1>7. CASE DoItFails
  BY <1>7 DEF DoItFails, DoItExits, Fails, Phases, Flags
<1>8. CASE KernelEnds
  BY <1>8 DEF KernelEnds, Flags
<1>9. CASE Scan \/ ScanFails
  BY <1>9 DEF Scan, ScanFails, Fails, Flags
<1>10. CASE Wait
  BY <1>10, NextIoctl DEF Wait, Flags
<1>11. CASE Ioctl
  BY <1>11, NextIoctl DEF Ioctl, Flags
<1>12. CASE IoctlFails
  BY <1>12, NextIoctl DEF IoctlFails, Fails, Flags
<1>13. CASE Done \/ ClosesFile \/ ClosesFds
  BY <1>13 DEF Done, ClosesFile, ClosesFds, Fails, Flags
<1>14. CASE ClosesDevice
  <2>1. failed \subseteq failed'
    BY <1>14 DEF ClosesDevice, Fails
  <2> QED BY <1>14, <2>1 DEF ClosesDevice, Flags
<1>15. CASE ParentCancels \/ UserCloses
  BY <1>15 DEF ParentCancels, UserCloses, Phases, Flags
<1>16. CASE UserReturns
  BY <1>16 DEF UserReturns, Flags
<1>17. CASE ProcStarts \/ RequestBegins \/ RequestEnds \/ ReadsDisc
  BY <1>17 DEF ProcStarts, RequestBegins, RequestEnds, ReadsDisc, Flags
<1>18. CASE ReadsEOF
  BY <1>18 DEF ReadsEOF, Phases, Flags
<1>19. CASE ReaderClosed
  BY <1>19 DEF ReaderClosed, Flags
<1>20. CASE ProcEnds
  <2>1. failed \subseteq failed'
    BY <1>20 DEF ProcEnds, Fails
  <2> QED BY <1>20, <2>1 DEF ProcEnds, Flags
<1>21. CASE UNCHANGED vars
  BY <1>21 DEF vars
<1> QED
  BY <1>1, <1>2, <1>3, <1>4, <1>5, <1>6, <1>7, <1>8, <1>9, <1>10, <1>11, <1>12, <1>13, <1>14,
     <1>15, <1>16, <1>17, <1>18, <1>19, <1>20, <1>21
     DEF Next, NewContinues, CleanContinues, DoItContinues, ProcContinues

\* A worker can go on as long as there is something to clean up: if the cleanup
\* waits for the other worker, the kernel has let that one go, or still serves
\* because the calls that would have stopped it failed or were skipped.
LEMMA WorkersGoOn ==
    ASSUME IInv, Ending, ctxDone, clean # "end"
    PROVE  CleanReady \/ DoItReady \/ StillServed
<1>1. CASE clean # "waitDone"
  BY <1>1 DEF IInv, Places, Ending, CleanReady
<1>2. CASE clean = "waitDone" /\ doit = "end"
  BY <1>2 DEF IInv, WgDoneCounts, CleanReady, WaitsDone
<1>3. CASE clean = "waitDone" /\ doit # "end"
  <2>1. ~ serving \/ StillServed
    BY <1>3 DEF Ending, StillServed
  <2>2. doit \in {"start", "in"}
    BY <1>3 DEF IInv, Places, Phases
  <2> QED BY <2>1, <2>2 DEF DoItReady
<1> QED BY <1>1, <1>2, <1>3

\* A shutdown is never stuck half-way, whatever the kernel, a signal, the callers
\* and the request processor have done and whichever of the calls has failed,
\* unless the kernel still serves after a failed scan or a failed NBD_CLEAR_SOCK;
\* and a caller of Close is not stuck then, for the failure is in errCh.
THEOREM ShutdownGoesOn == Spec => []ShutdownNeverStuck
<1>1. Init => Ending
  BY DEF Init, Ending
<1>2. IInv /\ Ending /\ [Next]_vars => Ending'
  BY EndingStep
<1>3. IInv /\ Ending /\ ErrorsKept => ShutdownNeverStuck
  <2> SUFFICES ASSUME IInv, Ending, ErrorsKept PROVE ShutdownNeverStuck
      OBVIOUS
  <2>1. new = "ready" => "scan" \notin failed
    BY DEF IInv, ScanErrorKept
  <2>2. ASSUME user = "waits" PROVE CleanReady \/ DoItReady \/ ReceiveReady
    <3>1. new = "ready" /\ ctxDone
      BY <2>2 DEF IInv, Phases, Ending
    <3>2. CASE clean = "end"
      BY <3>2 DEF Ending, ReceiveReady
    <3>3. CASE clean # "end" /\ StillServed
      <4>1. "clearSock" \in failed
        BY <2>1, <3>1, <3>3 DEF StillServed
      <4>2. full
        BY <2>2, <3>1, <3>3, <4>1 DEF ErrorsKept, Told
      <4> QED BY <4>2 DEF ReceiveReady
    <3> QED BY <3>1, <3>2, <3>3, WorkersGoOn
  <2>3. ASSUME ctxDone, proc \in {"reads", "closes", "drains"}
        PROVE  CleanReady \/ DoItReady \/ ProcReady \/ busy \/ StillServed
    <3>1. "scan" \notin failed
      BY <2>1, <2>3 DEF IInv, Phases
    <3>2. CASE clean # "end"
      BY <2>3, <3>2, WorkersGoOn
    <3>3. CASE clean = "end"
      <4>1. chClosed /\ "kernel" \notin fds /\ (~ sock \/ disc)
        BY <3>1, <3>3 DEF IInv, CleanedUp, Ending
      <4> QED BY <2>3, <4>1 DEF ProcReady, ReceiveReady
    <3> QED BY <3>2, <3>3
  <2> QED BY <2>2, <2>3, WorkersGoOn DEF ShutdownNeverStuck
<1> QED BY <1>1, <1>2, <1>3, Inductive, ErrorsAreKept, PTL DEF Spec

\* The two workers have a bounded number of steps to take, and nobody adds to
\* them: no worker starts anything again.
THEOREM Finishing == Spec => WorkersFinish
<1>1. ASSUME IInv, [Next]_vars
      PROVE  /\ Remaining' <= Remaining
             /\ CleanContinues \/ DoItContinues \/ DoItFails => Remaining' < Remaining
  <2> USE DEF IInv, machine, setup, chan
  <2>1. Remaining \in Nat
    BY <1>1 DEF Places, Remaining, CleanLeft, DoItLeft
  <2>2. CASE CleanContinues
    <3>1. doit' = doit /\ DoItLeft[doit] \in Nat
      BY <1>1, <2>2 DEF CleanContinues, Scan, ScanFails, Wait, Ioctl, IoctlFails, Done, ClosesFile,
                  ClosesDevice, ClosesFds, Places, DoItLeft
    <3>2. CleanLeft[clean'] < CleanLeft[clean] /\ CleanLeft[clean] \in Nat /\ CleanLeft[clean'] \in Nat
      <4>1. CASE Scan \/ ScanFails
        BY <4>1 DEF Scan, ScanFails, CleanLeft
      <4>2. CASE Wait \/ Ioctl \/ IoctlFails
        BY <4>2, NextIoctl DEF Wait, Ioctl, IoctlFails, CleanLeft
      <4>3. CASE Done \/ ClosesFile \/ ClosesDevice \/ ClosesFds
        BY <4>3 DEF Done, ClosesFile, ClosesDevice, ClosesFds, CleanLeft
      <4> QED BY <2>2, <4>1, <4>2, <4>3 DEF CleanContinues
    <3> QED BY <3>1, <3>2 DEF Remaining
  <2>3. CASE DoItContinues \/ DoItFails
    <3>1. clean' = clean /\ CleanLeft[clean] \in Nat
      BY <1>1, <2>3 DEF DoItContinues, DoItBegins, DoItReturns, DoItFails, DoItExits, Places, CleanLeft
    <3>2. DoItLeft[doit'] < DoItLeft[doit] /\ DoItLeft[doit] \in Nat /\ DoItLeft[doit'] \in Nat
      BY <2>3 DEF DoItContinues, DoItBegins, DoItReturns, DoItFails, DoItExits, DoItLeft
    <3> QED BY <3>1, <3>2 DEF Remaining
  <2>4. CASE UNCHANGED <<clean, doit>>
    BY <2>1, <2>2, <2>3, <2>4 DEF Remaining
  <2>5. CASE Setup
    <3>1. clean = "off" /\ doit = "off"
      BY <1>1, <2>5 DEF Setup, Phases
    <3>2. (clean' = "scan" /\ doit' = "start") \/ UNCHANGED <<clean, doit>>
      BY <2>5 DEF Setup
    <3>3. Remaining' <= Remaining
      BY <2>1, <3>1, <3>2 DEF Remaining, CleanLeft, DoItLeft
    <3> QED BY <2>2, <2>3, <3>3
  <2>6. CASE UseNbdDev \/ MakeNbdDev \/ LoadNbdFails \/ SetupFails \/ NewChecks
    BY <2>4, <2>6 DEF UseNbdDev, MakeNbdDev, LoadNbdFails, Picked, SetupFails, NewChecks
  <2>7. CASE \/ KernelEnds \/ ParentCancels \/ UserCloses \/ UserReturns \/ ProcStarts
             \/ RequestBegins \/ RequestEnds \/ ProcContinues
    BY <2>4, <2>7 DEF KernelEnds, ParentCancels, UserCloses, UserReturns, ProcStarts, RequestBegins,
                RequestEnds, ProcContinues, ReadsDisc, ReadsEOF, ReaderClosed, ProcEnds
  <2>8. CASE UNCHANGED vars
    BY <2>4, <2>8 DEF vars
  <2> QED BY <1>1, <2>2, <2>3, <2>5, <2>6, <2>7, <2>8 DEF Next, NewContinues
<1> QED BY <1>1, Inductive, PTL DEF Spec, WorkersFinish
=============================================================================
