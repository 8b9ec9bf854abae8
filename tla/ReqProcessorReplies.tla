------------------------- MODULE ReqProcessorReplies -------------------------
(***************************************************************************)
(* Proofs about ReqProcessor, continued: what becomes of a request once it *)
(* is decoded.  Its handle is in one request object until a worker has     *)
(* executed it, then in one response object until the reply is written.    *)
(***************************************************************************)
EXTENDS ReqProcessorProofs

\* The request objects that are still to execute, and the responses that are
\* built and still to write.
Unexecuted(o) ==
    \/ rdPc = "queue" /\ o = rdReq
    \/ \E i \in 1..Len(reqQueue) : reqQueue[i] = o
    \/ \E w \in Worker : wPc[w] \in {"execute", "lock", "device"} /\ wReq[w] = o
Built(x) ==
    \/ wrPc = "write" /\ x = wrResp
    \/ \E i \in 1..Len(respQueue) : respQueue[i] = x
    \/ \E w \in Worker : wPc[w] \in {"reply", "blocked"} /\ wResp[w] = x

\* The ledger: a handle is in one object, in a reply on the wire or lost with one,
\* and every handle decoded is somewhere.
HandlesDistinct ==
    \A o, p \in ReqObj : Unexecuted(o) /\ Unexecuted(p) /\ reqObj[o].handle = reqObj[p].handle
                           => o = p
RepliesDistinct ==
    \A x, y \in RespObj : Built(x) /\ Built(y) /\ respObj[x].handle = respObj[y].handle
                            => x = y
KeptApart ==
    /\ \A o \in ReqObj, x \in RespObj :
          Unexecuted(o) /\ Built(x) => reqObj[o].handle # respObj[x].handle
    /\ \A r \in wire : /\ \A o \in ReqObj : Unexecuted(o) => reqObj[o].handle # r.handle
                       /\ \A x \in RespObj : Built(x) => respObj[x].handle # r.handle
                       /\ r.handle \notin lost
    /\ \A h \in lost : /\ \A o \in ReqObj : Unexecuted(o) => reqObj[o].handle # h
                       /\ \A x \in RespObj : Built(x) => respObj[x].handle # h
Decoded ==
    /\ \A x \in RespObj : Built(x) => respObj[x].handle \in 1..Len(issued)
    /\ \A r \in wire : r.handle \in 1..Len(issued)
    /\ \A h \in lost : h \in 1..Len(issued)
NoneDropped ==
    \A h \in 1..Len(issued) :
        \/ \E o \in ReqObj : Unexecuted(o) /\ reqObj[o].handle = h
        \/ \E x \in RespObj : Built(x) /\ respObj[x].handle = h
        \/ \E r \in wire : r.handle = h
        \/ h \in lost
Ledger == HandlesDistinct /\ RepliesDistinct /\ KeptApart /\ Decoded /\ NoneDropped

\* A write or a trim that is not executed yet holds its read lock.
LocksHeld ==
    \A o \in ReqObj : Unexecuted(o) /\ reqObj[o].kind \in {"write", "trim"}
                        => <<reqObj[o].handle, reqObj[o].mu>> \in rlocks

\* The mutexes of decoded flushes are behind the reader's.
MutexesBehind ==
    /\ \A g \in 1..Len(issued) : issued[g].kind = "flush" => issued[g].mu < flushMu
    /\ \A p \in rlocks : p[2] <= flushMu

\* Who has stopped, and what that took.
StopsInOrder ==
    /\ reqClosed => rdPc = "stopped"
    /\ \A w \in Worker : wPc[w] = "stopped" => reqQueue = <<>> /\ reqClosed
    /\ respClosed => \A w \in Worker : wPc[w] = "stopped"

\* A worker in the device has a request that execute does not refuse, and a read
\* has its own buffer there.
WorkerRight(w) ==
    wPc[w] \in {"lock", "device"} =>
        /\ ~Refused(reqObj[wReq[w]])
        /\ wPc[w] = "device" /\ reqObj[wReq[w]].kind = "read"
              => respObj[wResp[w]].buf = reqObj[wReq[w]].handle
        /\ wPc[w] = "lock" => reqObj[wReq[w]].kind = "flush"
WorkersRight == \A w \in Worker : WorkerRight(w)

\* A response reports what happened to its request.
Right(x) ==
    LET h == respObj[x].handle
        q == issued[h] IN
    /\ respObj[x].kind = q.kind
    /\ respObj[x].err = "ok" /\ q.kind = "read" => respObj[x].buf = h
    /\ respObj[x].err = "ok" /\ IsUpdate(h) => h \in finished
    /\ respObj[x].err = "EINVAL" <=> Refused(q)
BuiltRight == \A x \in RespObj : Built(x) => Right(x)

JInv == /\ ResponsesNotShared /\ Ledger /\ LocksHeld /\ MutexesBehind
        /\ StopsInOrder /\ WorkersRight /\ BuiltRight /\ RepliesAreOwn

-----------------------------------------------------------------------------
\* A new processor has nothing to answer.
LEMMA InitReplies == Init => JInv
<1> SUFFICES ASSUME Init PROVE JInv
    OBVIOUS
<1> USE DEF Init, Nil
<1>1. ResponsesNotShared /\ StopsInOrder /\ WorkersRight /\ RepliesAreOwn
  BY DEF ResponsesNotShared, StopsInOrder, WorkersRight, WorkerRight, RepliesAreOwn,
         HoldsReq, HoldsResp
<1>2. (\A o : ~Unexecuted(o)) /\ (\A x : ~Built(x))
  BY DEF Unexecuted, Built
<1>3. Ledger /\ LocksHeld /\ BuiltRight
  BY <1>2 DEF Ledger, HandlesDistinct, RepliesDistinct, KeptApart, Decoded, NoneDropped,
              LocksHeld, BuiltRight
<1>4. MutexesBehind
  BY DEF MutexesBehind
<1> QED BY <1>1, <1>3, <1>4 DEF JInv

\* Every step keeps the ownership of the response objects: an object leaves the
\* pool for one worker, passes through the queue to the writer, and goes back.
LEMMA ResponsesStep ==
    ASSUME IInv, ResponsesNotShared, [Next]_vars
    PROVE  ResponsesNotShared'
<1> USE DEF IInv, rdVars, poolVars, chanVars, wVars, wrVars, obsVars, HoldsReq, HoldsResp
<1>1. CASE \/ \E o \in ReqObj, in \in Input : Decode(o, in)
           \/ QueueReq \/ DecodeFails \/ StreamClosed \/ Disconnect \/ WriterExits
           \/ MainSeesDone \/ WorkersDone \/ CloseDevice \/ UNCHANGED vars
  <2>1. UNCHANGED <<wPc, wResp, respPool, respQueue, wrResp>> /\ (wrPc' = "write" => wrPc = "write")
    BY <1>1 DEF Decode, QueueReq, DecodeFails, StreamClosed, Disconnect, WriterExits,
                MainSeesDone, WorkersDone, CloseDevice, vars
  <2> QED BY <2>1 DEF ResponsesNotShared
<1>2. ASSUME NEW w \in Worker, NEW o \in RespObj, ReceiveReq(w, o) PROVE ResponsesNotShared'
  BY <1>2 DEF ReceiveReq, ResponsesNotShared, TypeOK
<1>3. ASSUME NEW w \in Worker,
             Refuse(w) \/ CallDevice(w) \/ WantLock(w) \/ LockThenFlush(w) \/ RecycleReq(w)
             \/ \E err \in DevResult : DeviceReturns(w, err)
      PROVE  ResponsesNotShared'
  <2>1. HoldsResp(w) /\ HoldsResp(w)' /\ \A v \in Worker \ {w} : wPc'[v] = wPc[v]
    BY <1>3 DEF Refuse, CallDevice, WantLock, LockThenFlush, RecycleReq, DeviceReturns, TypeOK
  <2>2. UNCHANGED <<wrPc, wrResp, respPool, respQueue, wResp>>
    BY <1>3 DEF Refuse, CallDevice, WantLock, LockThenFlush, RecycleReq, DeviceReturns
  <2> QED BY <2>1, <2>2 DEF ResponsesNotShared
<1>4. ASSUME NEW w \in Worker, SendResp(w) \/ SendBlocked(w) PROVE ResponsesNotShared'
  <2>1. /\ HoldsResp(w) /\ wResp[w] \in RespObj /\ ~HoldsResp(w)'
        /\ \A v \in Worker \ {w} : wPc'[v] = wPc[v] /\ wResp'[v] = wResp[v]
        /\ respQueue' = Append(respQueue, wResp[w])
        /\ UNCHANGED <<respPool, wrPc, wrResp>>
    BY <1>4 DEF SendResp, SendBlocked, RepliesBuilt, TypeOK
  <2>2. respQueue \in Seq(RespObj)
    BY DEF TypeOK
  <2> QED BY <2>1, <2>2 DEF ResponsesNotShared
<1>5. ASSUME NEW w \in Worker, WorkerExits(w) PROVE ResponsesNotShared'
  BY <1>5 DEF WorkerExits, ResponsesNotShared, TypeOK
<1>6. CASE ReceiveResp
  BY <1>6 DEF ReceiveResp, ResponsesNotShared, TypeOK
<1>7. CASE WriteReply
  BY <1>7 DEF WriteReply, PutResp, ResponsesNotShared
<1> QED BY <1>1, <1>2, <1>3, <1>4, <1>5, <1>6, <1>7, NextSplits

-----------------------------------------------------------------------------
\* The goroutines stop one after the other.
LEMMA StopsStep ==
    ASSUME IInv, StopsInOrder, [Next]_vars
    PROVE  StopsInOrder'
<1> USE DEF rdVars, poolVars, chanVars, wVars, wrVars, obsVars
<1>1. CASE \E o \in ReqObj, in \in Input : Decode(o, in)
  BY <1>1 DEF Decode, StopsInOrder
<1>2. CASE QueueReq
  BY <1>2 DEF QueueReq, StopsInOrder
<1>3. CASE DecodeFails \/ StreamClosed \/ Disconnect
  BY <1>3 DEF DecodeFails, StreamClosed, Disconnect, StopReader, StopsInOrder
<1>4. ASSUME NEW w \in Worker, NEW o \in RespObj, ReceiveReq(w, o) PROVE StopsInOrder'
  <2>1. /\ wPc[w] = "receive" /\ reqQueue # <<>> /\ wPc'[w] = "execute"
        /\ UNCHANGED <<rdPc, reqClosed, respClosed>>
    BY <1>4 DEF ReceiveReq, IInv, TypeOK
  <2>2. \A v \in Worker : wPc[v] # "stopped"
    BY <2>1 DEF StopsInOrder
  <2>3. \A v \in Worker : wPc'[v] # "stopped"
    BY <1>4, <2>2 DEF ReceiveReq, IInv, TypeOK
  <2> QED BY <2>1, <2>2, <2>3 DEF StopsInOrder
<1>5. ASSUME NEW w \in Worker,
             \/ Refuse(w) \/ CallDevice(w) \/ WantLock(w) \/ LockThenFlush(w) \/ RecycleReq(w)
             \/ SendResp(w) \/ SendBlocked(w) \/ \E err \in DevResult : DeviceReturns(w, err)
      PROVE  StopsInOrder'
  <2>1. UNCHANGED <<rdPc, reqClosed, respClosed, reqQueue>> /\ wPc[w] # "stopped"
    BY <1>5 DEF Refuse, CallDevice, WantLock, LockThenFlush, RecycleReq, SendResp, SendBlocked,
                DeviceReturns
  <2>2. \A v \in Worker : wPc'[v] = "stopped" => wPc[v] = "stopped"
    BY <1>5 DEF Refuse, CallDevice, WantLock, LockThenFlush, RecycleReq, SendResp, SendBlocked,
                DeviceReturns, IInv, TypeOK
  <2> QED BY <2>1, <2>2 DEF StopsInOrder
<1>6. ASSUME NEW w \in Worker, WorkerExits(w) PROVE StopsInOrder'
  BY <1>6 DEF WorkerExits, RangeEnds, StopsInOrder, IInv, TypeOK
<1>7. CASE WorkersDone
  BY <1>7 DEF WorkersDone, WorkersWaited, StopsInOrder
<1>8. CASE \/ ReceiveResp \/ WriteReply \/ WriterExits \/ MainSeesDone \/ CloseDevice
           \/ UNCHANGED vars
  <2>1. UNCHANGED <<rdPc, reqClosed, respClosed, reqQueue, wPc>>
    BY <1>8 DEF ReceiveResp, WriteReply, WriterExits, MainSeesDone, CloseDevice, vars
  <2> QED BY <2>1 DEF StopsInOrder
<1> QED BY <1>1, <1>2, <1>3, <1>4, <1>5, <1>6, <1>7, <1>8, NextSplits

\* The reader gives a mutex up before a flush that locks it can run.
LEMMA MutexesStep ==
    ASSUME IInv, MutexesBehind, [Next]_vars
    PROVE  MutexesBehind'
<1>0. flushMu \in Nat /\ Len(issued) \in Nat /\ rlocks \subseteq Handle \X Nat
      /\ \A g \in 1..Len(issued) : issued[g].mu \in Nat
  <2>1. /\ flushMu \in Nat /\ issued \in Seq([kind : Kind, aligned : BOOLEAN, mu : Nat])
        /\ rlocks \subseteq Handle \X Nat
    BY DEF IInv, TypeOK
  <2>2. \A g \in 1..Len(issued) : issued[g] \in [kind : Kind, aligned : BOOLEAN, mu : Nat]
    BY <2>1, ElementOfSeq
  <2> QED BY <2>1, <2>2
<1>1. ASSUME NEW o \in ReqObj, NEW in \in Input, Decode(o, in) PROVE MutexesBehind'
  <2>1. flushMu' = NextMutex(in.kind) /\ flushMu' >= flushMu /\ flushMu' \in Nat
    BY <1>0, <1>1 DEF Decode, NextMutex
  <2>2. ASSUME NEW g \in 1..Len(issued'), issued'[g].kind = "flush"
        PROVE  issued'[g].mu < flushMu'
    <3>1. CASE g = Len(issued) + 1
      <4>1. in.kind = "flush" /\ issued'[g].mu = MutexFor(o, in.kind)
        BY <1>1, <2>2, <3>1, DecodeKeeps
      <4>2. flushMu' = flushMu + 1 /\ issued'[g].mu = flushMu
        BY <2>1, <4>1 DEF NextMutex, MutexFor
      <4> QED BY <1>0, <4>2
    <3>2. CASE g \in 1..Len(issued)
      <4>1. issued'[g] = issued[g]
        BY <1>1, <3>2, DecodeKeeps
      <4>2. issued[g].mu < flushMu /\ issued[g].mu \in Nat
        BY <1>0, <2>2, <3>2, <4>1 DEF MutexesBehind
      <4> QED BY <1>0, <2>1, <4>1, <4>2
    <3>3. Len(issued') = Len(issued) + 1
      BY <1>1, DecodeKeeps
    <3> QED BY <1>0, <3>1, <3>2, <3>3
  <2>3. ASSUME NEW p \in rlocks' PROVE p[2] <= flushMu'
    <3>1. p \in rlocks \/ p = <<Len(issued) + 1, flushMu>>
      BY <1>1, <2>3 DEF Decode
    <3>2. p[2] <= flushMu /\ p[2] \in Nat
      BY <1>0, <3>1 DEF MutexesBehind
    <3> QED BY <1>0, <2>1, <3>2
  <2> QED BY <2>2, <2>3 DEF MutexesBehind
<1>2. ASSUME UNCHANGED <<reqObj, issued, flushMu>> PROVE MutexesBehind'
  <2>1. rlocks' \subseteq rlocks
    <3>1. ASSUME NEW w \in Worker, NEW err \in DevResult, DeviceReturns(w, err)
          PROVE  rlocks' \subseteq rlocks
      BY <3>1 DEF DeviceReturns
    <3>2. ASSUME NEW o \in ReqObj, NEW in \in Input, Decode(o, in) PROVE FALSE
      <4>1. Len(issued') = Len(issued) + 1 /\ issued' = issued
        BY <1>2, <3>2, DecodeKeeps
      <4> QED BY <1>0, <4>1
    <3> QED BY <3>1, <3>2, OnlyDecodeOrReturn
  <2> QED BY <1>2, <2>1 DEF MutexesBehind
<1> QED BY <1>1, <1>2, OnlyDecode

-----------------------------------------------------------------------------
\* How a step moves handles.  The reader decodes a request into an idle object,
Decodes(o) ==
    /\ \A p \in ReqObj : Unexecuted(p)' <=> Unexecuted(p) \/ p = o
    /\ \A x \in RespObj : Built(x)' <=> Built(x)
    /\ ~Unexecuted(o) /\ UNCHANGED <<respObj, wire, lost>>

\* a worker executes one and builds its reply,
Executes(w) ==
    /\ \A p \in ReqObj : Unexecuted(p)' <=> Unexecuted(p) /\ p # wReq[w]
    /\ \A x \in RespObj : Built(x)' <=> Built(x) \/ x = wResp[w]
    /\ wPc[w] \in {"execute", "device"}
    /\ wReq[w] \in ReqObj /\ wResp[w] \in RespObj
    /\ Unexecuted(wReq[w]) /\ ~Built(wResp[w])
    /\ \A x \in RespObj : x # wResp[w] => respObj'[x] = respObj[x]
    /\ UNCHANGED <<reqObj, issued, wire, lost>>

\* the writer writes a reply,
Writes ==
    /\ \A p \in ReqObj : Unexecuted(p)' <=> Unexecuted(p)
    /\ \A x \in RespObj : Built(x)' <=> Built(x) /\ x # wrResp
    /\ wrResp \in RespObj /\ Built(wrResp)
    /\ \/ wire' = wire \cup {ReplyOf(respObj[wrResp])} /\ lost' = lost
       \/ wire' = wire /\ lost' = lost \cup {respObj[wrResp].handle}
    /\ UNCHANGED <<reqObj, issued, respObj, finished>>

\* and every other step leaves them where they are.
Keeps ==
    /\ \A p \in ReqObj : Unexecuted(p)' <=> Unexecuted(p)
    /\ \A x \in RespObj : /\ Built(x)' <=> Built(x)
                          /\ Built(x) => respObj'[x] = respObj[x]
    /\ UNCHANGED <<reqObj, issued, wire, lost, finished>>

\* The moves of Decode, of the end of execute, of WriteReply and of everything.
LEMMA DecodeMoves ==
    ASSUME IInv, NEW o \in ReqObj, NEW in \in Input, Decode(o, in)
    PROVE  Decodes(o)
<1> USE DEF IInv, chanVars, wVars, wrVars
<1>1. /\ rdPc = "decode" /\ o \in reqPool /\ rdPc' = "queue" /\ rdReq' = o
      /\ UNCHANGED <<reqQueue, wPc, wReq, respObj, respQueue, wResp, wrPc, wrResp, wire, lost>>
  BY DEF Decode
<1>2. ~Unexecuted(o)
  BY <1>1 DEF Unexecuted, RequestsNotShared, HoldsReq
<1> QED BY <1>1, <1>2 DEF Decodes, Unexecuted, Built

\* A worker that has executed a request has built its reply, and changes nothing else.
LEMMA ExecuteMoves ==
    ASSUME IInv, ResponsesNotShared, NEW w \in Worker,
           Refuse(w) \/ \E err \in DevResult : DeviceReturns(w, err)
    PROVE  Executes(w)
<1> USE DEF IInv, HoldsReq, HoldsResp
<1>1. /\ wPc[w] \in {"execute", "device"} /\ wPc' = [wPc EXCEPT ![w] = "reply"]
      /\ UNCHANGED <<rdPc, rdReq, reqQueue, wReq, wResp, respQueue, wrPc, wrResp, reqObj,
                     issued, wire, lost>>
  BY DEF Refuse, DeviceReturns, rdVars, chanVars, wrVars, obsVars
<1>2. wPc'[w] = "reply" /\ \A v \in Worker : v # w => wPc'[v] = wPc[v]
  BY <1>1 DEF TypeOK
<1>3. wReq[w] \in ReqObj /\ wResp[w] \in RespObj /\ Unexecuted(wReq[w])
  BY <1>1 DEF RequestsNotShared, RepliesBuilt, Unexecuted
<1>4. ~Built(wResp[w])
  BY <1>1 DEF Built, ResponsesNotShared
<1>5. \A x \in RespObj : x # wResp[w] => respObj'[x] = respObj[x]
  BY DEF Refuse, DeviceReturns, TypeOK
<1>6. \A p \in ReqObj : Unexecuted(p)' <=> Unexecuted(p) /\ p # wReq[w]
  BY <1>1, <1>2 DEF Unexecuted, RequestsNotShared
<1>7. \A x \in RespObj : Built(x)' <=> Built(x) \/ x = wResp[w]
  BY <1>1, <1>2 DEF Built
<1> QED BY <1>1, <1>3, <1>4, <1>5, <1>6, <1>7 DEF Executes

\* The writer sends the reply it holds, and changes nothing else.
LEMMA WriteMoves ==
    ASSUME IInv, ResponsesNotShared, WriteReply
    PROVE  Writes
<1> USE DEF IInv, HoldsReq, HoldsResp
<1>1. /\ wrPc = "write" /\ wrPc' = "receive"
      /\ UNCHANGED <<rdPc, rdReq, reqQueue, wPc, wReq, wResp, respQueue, reqObj, issued,
                     respObj, finished>>
  BY DEF WriteReply, rdVars, chanVars, wVars
<1>2. \A x \in RespObj : Built(x)' <=> Built(x) /\ x # wrResp
  BY <1>1 DEF Built, ResponsesNotShared
<1> QED BY <1>1, <1>2 DEF Writes, WriteReply, Unexecuted, Built, RepliesBuilt

\* Every step decodes a request, executes one, writes a reply, or keeps them all.
LEMMA OthersMove ==
    ASSUME IInv, ResponsesNotShared, [Next]_vars
    PROVE  \/ \E o \in ReqObj, in \in Input : Decode(o, in) /\ Decodes(o)
           \/ \E w \in Worker : /\ Refuse(w) \/ \E err \in DevResult : DeviceReturns(w, err)
                                /\ Executes(w)
           \/ WriteReply /\ Writes
           \/ Keeps
<1> USE DEF IInv, rdVars, poolVars, chanVars, wVars, wrVars, obsVars
<1>1. CASE QueueReq
  <2>1. /\ rdPc = "queue" /\ rdReq \in ReqObj /\ rdPc' = "decode"
        /\ reqQueue' = Append(reqQueue, rdReq) /\ reqQueue \in Seq(ReqObj)
        /\ UNCHANGED <<wPc, wReq, wResp, respQueue, wrPc, wrResp, reqObj, respObj, issued, wire,
                       finished, lost>>
    BY <1>1 DEF QueueReq, RequestsNotShared, TypeOK
  <2>2. \A p \in ReqObj : (\E i \in 1..Len(reqQueue') : reqQueue'[i] = p)
                            <=> (\E i \in 1..Len(reqQueue) : reqQueue[i] = p) \/ p = rdReq
    BY <2>1
  <2> QED BY <2>1, <2>2 DEF Keeps, Unexecuted, Built
<1>2. CASE \/ DecodeFails \/ StreamClosed \/ Disconnect \/ WriterExits
           \/ MainSeesDone \/ WorkersDone \/ CloseDevice \/ UNCHANGED vars
  <2>1. /\ UNCHANGED <<reqQueue, wPc, wReq, wResp, respQueue, wrResp, rdReq, reqObj, respObj,
                       issued, wire, lost, finished>>
        /\ (rdPc' = "queue") <=> (rdPc = "queue")
        /\ (wrPc' = "write") <=> (wrPc = "write")
    BY <1>2 DEF DecodeFails, StreamClosed, Disconnect, StopReader, WriterExits, MainSeesDone,
                WorkersDone, CloseDevice, vars
  <2> QED BY <2>1 DEF Keeps, Unexecuted, Built
<1>3. ASSUME NEW w \in Worker, NEW o \in RespObj, ReceiveReq(w, o) PROVE Keeps
  <2>1. /\ wPc[w] = "receive" /\ reqQueue # <<>> /\ reqQueue \in Seq(ReqObj)
        /\ wPc'[w] = "execute" /\ wReq'[w] = Head(reqQueue) /\ reqQueue' = Tail(reqQueue)
        /\ \A v \in Worker : v # w => wPc'[v] = wPc[v] /\ wReq'[v] = wReq[v] /\ wResp'[v] = wResp[v]
        /\ UNCHANGED <<rdPc, rdReq, respQueue, wrPc, wrResp, reqObj, respObj, issued, wire,
                       finished, lost>>
    BY <1>3 DEF ReceiveReq, TypeOK
  <2>2. \A p \in ReqObj : (\E i \in 1..Len(reqQueue) : reqQueue[i] = p)
                            <=> (\E i \in 1..Len(reqQueue') : reqQueue'[i] = p)
                                \/ p = Head(reqQueue)
    BY <2>1
  <2>3. \A p \in ReqObj : Unexecuted(p)' <=> Unexecuted(p)
    BY <2>1, <2>2 DEF Unexecuted
  <2>4. \A x \in RespObj : Built(x)' <=> Built(x)
    BY <2>1 DEF Built
  <2> QED BY <2>1, <2>3, <2>4 DEF Keeps
<1>4. ASSUME NEW w \in Worker, CallDevice(w) \/ WantLock(w) \/ LockThenFlush(w) PROVE Keeps
  <2>1. /\ wPc[w] \in {"execute", "lock"} /\ wPc'[w] \in {"lock", "device"}
        /\ \A v \in Worker : v # w => wPc'[v] = wPc[v]
        /\ UNCHANGED <<rdPc, rdReq, reqQueue, wReq, wResp, respQueue, wrPc, wrResp, reqObj,
                       issued, wire, finished, lost>>
    BY <1>4 DEF CallDevice, WantLock, LockThenFlush, TypeOK
  <2>2. ~Built(wResp[w])
    BY <2>1 DEF Built, ResponsesNotShared, HoldsReq, HoldsResp
  <2>3. \A x \in RespObj : x # wResp[w] => respObj'[x] = respObj[x]
    BY <1>4 DEF CallDevice, WantLock, LockThenFlush, TypeOK
  <2>4. \A p \in ReqObj : Unexecuted(p)' <=> Unexecuted(p)
    BY <2>1 DEF Unexecuted
  <2>5. \A x \in RespObj : Built(x)' <=> Built(x)
    BY <2>1 DEF Built
  <2> QED BY <2>1, <2>2, <2>3, <2>4, <2>5 DEF Keeps
<1>5. ASSUME NEW w \in Worker, SendResp(w) \/ SendBlocked(w) PROVE Keeps
  <2>1. /\ wPc[w] \in {"reply", "blocked"} /\ wPc'[w] = "receive"
        /\ \A v \in Worker : v # w => wPc'[v] = wPc[v] /\ wReq'[v] = wReq[v] /\ wResp'[v] = wResp[v]
        /\ respQueue' = Append(respQueue, wResp[w]) /\ respQueue \in Seq(RespObj)
        /\ UNCHANGED <<rdPc, rdReq, reqQueue, wrPc, wrResp, reqObj, respObj, issued, wire,
                       finished, lost>>
    BY <1>5 DEF SendResp, SendBlocked, TypeOK
  <2>2. wResp[w] \in RespObj
    BY <2>1 DEF RepliesBuilt, HoldsReq, HoldsResp
  <2>3. \A x \in RespObj : (\E i \in 1..Len(respQueue') : respQueue'[i] = x)
                             <=> (\E i \in 1..Len(respQueue) : respQueue[i] = x) \/ x = wResp[w]
    BY <2>1, <2>2
  <2>4. \A p \in ReqObj : Unexecuted(p)' <=> Unexecuted(p)
    BY <2>1 DEF Unexecuted
  <2>5. \A x \in RespObj : Built(x)' <=> Built(x)
    BY <2>1, <2>3 DEF Built
  <2> QED BY <2>1, <2>4, <2>5 DEF Keeps
<1>6. ASSUME NEW w \in Worker, RecycleReq(w) \/ WorkerExits(w) PROVE Keeps
  <2>1. /\ \/ wPc[w] = "reply" /\ wPc'[w] = "blocked"
           \/ wPc[w] = "receive" /\ wPc'[w] = "stopped"
        /\ \A v \in Worker : v # w => wPc'[v] = wPc[v] /\ wReq'[v] = wReq[v]
        /\ UNCHANGED <<rdPc, rdReq, reqQueue, wResp, respQueue, wrPc, wrResp, reqObj, respObj,
                       issued, wire, finished, lost>>
    BY <1>6 DEF RecycleReq, WorkerExits, TypeOK
  <2>2. \A p \in ReqObj : Unexecuted(p)' <=> Unexecuted(p)
    BY <2>1 DEF Unexecuted
  <2>3. \A x \in RespObj : Built(x)' <=> Built(x)
    BY <2>1 DEF Built
  <2> QED BY <2>1, <2>2, <2>3 DEF Keeps
<1>7. CASE ReceiveResp
  <2>1. /\ wrPc = "receive" /\ wrPc' = "write" /\ wrResp' = Head(respQueue)
        /\ respQueue # <<>> /\ respQueue \in Seq(RespObj) /\ respQueue' = Tail(respQueue)
        /\ UNCHANGED <<rdPc, rdReq, reqQueue, wPc, wReq, wResp, reqObj, respObj, issued, wire,
                       finished, lost>>
    BY <1>7 DEF ReceiveResp, TypeOK
  <2>2. \A x \in RespObj : (\E i \in 1..Len(respQueue) : respQueue[i] = x)
                             <=> (\E i \in 1..Len(respQueue') : respQueue'[i] = x)
                                 \/ x = Head(respQueue)
    BY <2>1
  <2>3. \A x \in RespObj : Built(x)' <=> Built(x)
    BY <2>1, <2>2 DEF Built
  <2> QED BY <2>1, <2>3 DEF Keeps, Unexecuted
<1> QED
  BY <1>1, <1>2, <1>3, <1>4, <1>5, <1>6, <1>7, NextSplits, DecodeMoves, ExecuteMoves, WriteMoves

\* A request that is still to execute is what the reader decoded, outside the pool.
LEMMA UnexecutedMatch ==
    ASSUME IInv, NEW p \in ReqObj, Unexecuted(p)
    PROVE  Matches(p) /\ p \notin reqPool /\ reqObj[p].handle \in 1..Len(issued)
BY DEF IInv, Unexecuted, InFlightMatch, Matches, RequestsNotShared, HoldsReq

\* What Decode adds.
LEMMA DecodeAdds ==
    ASSUME IInv, NEW o \in ReqObj, NEW in \in Input, Decode(o, in)
    PROVE  /\ Len(issued) \in Nat /\ Len(issued') = Len(issued) + 1
           /\ \A p \in ReqObj : Unexecuted(p) => reqObj'[p] = reqObj[p]
           /\ reqObj'[o].handle = Len(issued) + 1
           /\ \A g \in 1..Len(issued) : g # Len(issued) + 1 /\ issued'[g] = issued[g]
<1>1. Len(issued) \in Nat
  BY DEF IInv, TypeOK
<1>2. \A p \in ReqObj : Unexecuted(p) => p \in ReqObj \ reqPool
  BY UnexecutedMatch
<1>3. reqObj'[o] = [handle |-> Len(issued) + 1, kind |-> in.kind,
                    aligned |-> in.aligned, mu |-> MutexFor(o, in.kind)]
  BY DecodeKeeps
<1>4. reqObj'[o].handle = Len(issued) + 1
  BY <1>3
<1>5. /\ Len(issued') = Len(issued) + 1
      /\ \A g \in 1..Len(issued) : issued'[g] = issued[g]
      /\ \A x \in ReqObj \ reqPool : reqObj'[x] = reqObj[x]
  BY DecodeKeeps
<1>6. \A g \in 1..Len(issued) : g # Len(issued) + 1
  BY <1>1
<1> QED BY <1>1, <1>2, <1>4, <1>5, <1>6

\* The handle of the reply that execute builds.
LEMMA ExecuteHandle ==
    ASSUME IInv, NEW w \in Worker, Executes(w),
           Refuse(w) \/ \E err \in DevResult : DeviceReturns(w, err)
    PROVE  respObj'[wResp[w]].handle = reqObj[wReq[w]].handle
<1>1. wResp[w] \in RespObj /\ respObj \in [RespObj -> Response]
  BY DEF Executes, IInv, TypeOK
<1>2. PICK err : respObj' = [respObj EXCEPT ![wResp[w]] = Set(@, reqObj[wReq[w]], err)]
  BY DEF Refuse, DeviceReturns
<1>3. respObj'[wResp[w]] = Set(respObj[wResp[w]], reqObj[wReq[w]], err)
  BY <1>1, <1>2
<1> QED BY <1>3 DEF Set

\* Every step keeps the ledger.
LEMMA LedgerStep ==
    ASSUME IInv, ResponsesNotShared, Ledger, [Next]_vars
    PROVE  Ledger'
<1> USE DEF Ledger
<1>1. ASSUME NEW o \in ReqObj, NEW in \in Input, Decode(o, in), Decodes(o)
      PROVE  Ledger'
  <2>1. /\ Len(issued) \in Nat /\ Len(issued') = Len(issued) + 1
        /\ \A p \in ReqObj : Unexecuted(p) => reqObj'[p] = reqObj[p]
        /\ reqObj'[o].handle = Len(issued) + 1
    BY <1>1, DecodeAdds
  <2>2. \A p \in ReqObj : Unexecuted(p) => /\ reqObj[p].handle \in 1..Len(issued)
                                           /\ reqObj[p].handle # Len(issued) + 1
    BY <2>1, UnexecutedMatch
  <2>3. /\ \A x \in RespObj : Built(x) => respObj[x].handle # Len(issued) + 1
        /\ \A r \in wire : r.handle # Len(issued) + 1
        /\ Len(issued) + 1 \notin lost
    BY <2>1 DEF Decoded
  <2>4. HandlesDistinct' /\ RepliesDistinct'
    BY <1>1, <2>1, <2>2 DEF HandlesDistinct, RepliesDistinct, Decodes
  <2>5. KeptApart'
    BY <1>1, <2>1, <2>2, <2>3 DEF KeptApart, Decodes
  <2>6. Decoded'
    <3>1. 1..Len(issued) \subseteq 1..Len(issued')
      BY <2>1
    <3> QED BY <1>1, <3>1 DEF Decoded, Decodes
  <2>7. NoneDropped'
    <3> SUFFICES ASSUME NEW h \in 1..Len(issued')
                 PROVE  \/ \E p \in ReqObj : Unexecuted(p)' /\ reqObj'[p].handle = h
                        \/ \E x \in RespObj : Built(x) /\ respObj[x].handle = h
                        \/ \E r \in wire : r.handle = h
                        \/ h \in lost
        BY <1>1 DEF NoneDropped, Decodes
    <3>1. CASE h = Len(issued) + 1
      BY <1>1, <2>1, <3>1 DEF Decodes
    <3>2. CASE h \in 1..Len(issued)
      BY <1>1, <2>1, <3>2 DEF NoneDropped, Decodes
    <3> QED BY <2>1, <3>1, <3>2
  <2> QED BY <2>4, <2>5, <2>6, <2>7
<1>2. ASSUME NEW w \in Worker, Refuse(w) \/ \E err \in DevResult : DeviceReturns(w, err),
             Executes(w)
      PROVE  Ledger'
  <2> DEFINE o == wReq[w]
             y == wResp[w]
  <2>1. respObj'[y].handle = reqObj[o].handle
    BY <1>2, ExecuteHandle
  <2>2. /\ o \in ReqObj /\ y \in RespObj /\ Unexecuted(o) /\ ~Built(y)
        /\ \A p \in ReqObj : Unexecuted(p)' <=> Unexecuted(p) /\ p # o
        /\ \A x \in RespObj : Built(x)' <=> Built(x) \/ x = y
        /\ \A x \in RespObj : x # y => respObj'[x] = respObj[x]
        /\ UNCHANGED <<reqObj, issued, wire, lost>>
    BY <1>2 DEF Executes
  <2>3. reqObj[o].handle \in 1..Len(issued)
    BY <2>2, UnexecutedMatch
  <2> HIDE DEF o, y
  <2>4. HandlesDistinct'
    BY <2>2 DEF HandlesDistinct
  <2>5. RepliesDistinct'
    BY <2>1, <2>2 DEF RepliesDistinct, KeptApart
  <2>6. KeptApart'
    <3>1. \A p \in ReqObj, x \in RespObj :
              Unexecuted(p)' /\ Built(x)' => reqObj'[p].handle # respObj'[x].handle
      BY <2>1, <2>2 DEF KeptApart, HandlesDistinct
    <3>2. \A r \in wire : /\ \A p \in ReqObj : Unexecuted(p)' => reqObj'[p].handle # r.handle
                          /\ \A x \in RespObj : Built(x)' => respObj'[x].handle # r.handle
      BY <2>1, <2>2 DEF KeptApart
    <3>3. \A h \in lost : /\ \A p \in ReqObj : Unexecuted(p)' => reqObj'[p].handle # h
                          /\ \A x \in RespObj : Built(x)' => respObj'[x].handle # h
      BY <2>1, <2>2 DEF KeptApart
    <3> QED BY <2>2, <3>1, <3>2, <3>3 DEF KeptApart
  <2>7. Decoded'
    BY <2>1, <2>2, <2>3 DEF Decoded
  <2>8. NoneDropped'
    BY <2>1, <2>2 DEF NoneDropped
  <2> QED BY <2>4, <2>5, <2>6, <2>7, <2>8
<1>3. CASE Writes
  <2>1. ReplyOf(respObj[wrResp]).handle = respObj[wrResp].handle
    BY DEF ReplyOf
  <2>2. /\ \A r \in wire' : r \in wire \/ (r.handle = respObj[wrResp].handle /\ lost' = lost)
        /\ \A h \in lost' : h \in lost \/ (h = respObj[wrResp].handle /\ wire' = wire)
    BY <1>3, <2>1 DEF Writes
  <2>3. HandlesDistinct' /\ RepliesDistinct'
    BY <1>3 DEF Writes, HandlesDistinct, RepliesDistinct
  <2>4. KeptApart'
    BY <1>3, <2>2 DEF Writes, KeptApart, RepliesDistinct
  <2>5. Decoded'
    BY <1>3, <2>2 DEF Writes, Decoded
  <2>6. NoneDropped'
    <3> SUFFICES ASSUME NEW h \in 1..Len(issued)
                 PROVE  \/ \E p \in ReqObj : Unexecuted(p) /\ reqObj[p].handle = h
                        \/ \E x \in RespObj : Built(x)' /\ respObj[x].handle = h
                        \/ \E r \in wire' : r.handle = h
                        \/ h \in lost'
        BY <1>3 DEF NoneDropped, Writes
    <3>1. CASE \E x \in RespObj : Built(x) /\ respObj[x].handle = h
      BY <1>3, <2>1, <3>1 DEF Writes
    <3>2. CASE ~ \E x \in RespObj : Built(x) /\ respObj[x].handle = h
      BY <1>3, <3>2 DEF Writes, NoneDropped
    <3> QED BY <3>1, <3>2
  <2> QED BY <2>3, <2>4, <2>5, <2>6
<1>4. CASE Keeps
  <2>1. HandlesDistinct' /\ RepliesDistinct'
    BY <1>4 DEF Keeps, HandlesDistinct, RepliesDistinct
  <2>2. KeptApart' /\ Decoded'
    BY <1>4 DEF Keeps, KeptApart, Decoded
  <2>3. NoneDropped'
    BY <1>4 DEF Keeps, NoneDropped
  <2> QED BY <2>1, <2>2, <2>3
<1> QED BY <1>1, <1>2, <1>3, <1>4, OthersMove

\* A read lock is given back by the request that holds it, and by no other.
LEMMA LocksStep ==
    ASSUME IInv, ResponsesNotShared, Ledger, LocksHeld, [Next]_vars
    PROVE  LocksHeld'
<1>1. ASSUME NEW o \in ReqObj, NEW in \in Input, Decode(o, in), Decodes(o)
      PROVE  LocksHeld'
  <2>1. \A p \in ReqObj : Unexecuted(p) => reqObj'[p] = reqObj[p]
    BY <1>1, DecodeAdds
  <2>2. reqObj'[o] = [handle |-> Len(issued) + 1, kind |-> in.kind,
                      aligned |-> in.aligned, mu |-> MutexFor(o, in.kind)]
    BY <1>1, DecodeKeeps
  <2>3. /\ rlocks \subseteq rlocks'
        /\ TakesLock(in.kind) => <<Len(issued) + 1, flushMu>> \in rlocks'
    BY <1>1 DEF Decode
  <2>4. reqObj'[o].kind \in {"write", "trim"} => <<reqObj'[o].handle, reqObj'[o].mu>> \in rlocks'
    BY <2>2, <2>3 DEF TakesLock, MutexFor
  <2> QED BY <1>1, <2>1, <2>3, <2>4 DEF LocksHeld, Decodes
<1>2. ASSUME NEW w \in Worker, Refuse(w), Executes(w) PROVE LocksHeld'
  BY <1>2 DEF Refuse, Executes, LocksHeld
<1>3. ASSUME NEW w \in Worker, NEW err \in DevResult, DeviceReturns(w, err), Executes(w)
      PROVE  LocksHeld'
  <2>1. \A q \in rlocks \ rlocks' : q = <<reqObj[wReq[w]].handle, reqObj[wReq[w]].mu>>
    BY <1>3 DEF DeviceReturns
  <2>2. \A p \in ReqObj : Unexecuted(p)' =>
            Unexecuted(p) /\ reqObj[p].handle # reqObj[wReq[w]].handle /\ reqObj'[p] = reqObj[p]
    BY <1>3 DEF Executes, Ledger, HandlesDistinct
  <2> QED BY <2>1, <2>2 DEF LocksHeld
<1>4. CASE (WriteReply /\ Writes) \/ Keeps
  <2>1. \A p \in ReqObj : Unexecuted(p)' <=> Unexecuted(p)
    BY <1>4 DEF Writes, Keeps
  <2>2. reqObj' = reqObj /\ finished' = finished /\ issued' = issued
    BY <1>4 DEF Writes, Keeps
  <2>3. CASE UNCHANGED rlocks
    BY <2>1, <2>2, <2>3 DEF LocksHeld
  <2>4. ASSUME NEW o \in ReqObj, NEW in \in Input, Decode(o, in) PROVE FALSE
    <3>1. Len(issued') = Len(issued) + 1 /\ Len(issued) \in Nat
      BY <2>4, DecodeAdds
    <3> QED BY <2>2, <3>1
  <2>5. ASSUME NEW w \in Worker, NEW err \in DevResult, DeviceReturns(w, err) PROVE LocksHeld'
    BY <2>5, <1>3, ExecuteMoves
  <2> QED BY <2>3, <2>4, <2>5, OnlyDecodeOrReturn
<1> QED BY <1>1, <1>2, <1>3, <1>4, OthersMove

-----------------------------------------------------------------------------
\* A worker's request and response stay its own while it is in the device.
LEMMA WorkersStep ==
    ASSUME IInv, ResponsesNotShared, WorkersRight, [Next]_vars
    PROVE  WorkersRight'
<1> USE DEF IInv, rdVars, poolVars, chanVars, wVars, wrVars, obsVars, HoldsReq, HoldsResp
<1>1. ASSUME NEW v \in Worker, wPc'[v] = wPc[v],
             wPc[v] \in {"lock", "device"} => /\ reqObj'[wReq'[v]] = reqObj[wReq[v]]
                                              /\ respObj'[wResp'[v]] = respObj[wResp[v]]
      PROVE  WorkerRight(v)'
  BY <1>1 DEF WorkersRight, WorkerRight
<1>2. ASSUME NEW o \in ReqObj, NEW in \in Input, Decode(o, in) PROVE WorkersRight'
  <2>1. /\ UNCHANGED <<wPc, wReq, wResp, respObj>>
        /\ \A x \in ReqObj \ reqPool : reqObj'[x] = reqObj[x]
    BY <1>2, DecodeKeeps DEF Decode
  <2>2. \A v \in Worker : wPc[v] \in {"lock", "device"} => wReq[v] \in ReqObj \ reqPool
    BY DEF RequestsNotShared
  <2> QED BY <1>1, <2>1, <2>2 DEF WorkersRight
<1>3. CASE \/ QueueReq \/ DecodeFails \/ StreamClosed \/ Disconnect
           \/ ReceiveResp \/ WriteReply \/ WriterExits
           \/ MainSeesDone \/ WorkersDone \/ CloseDevice \/ UNCHANGED vars
  <2>1. UNCHANGED <<wPc, wReq, wResp, reqObj, respObj>>
    BY <1>3 DEF QueueReq, DecodeFails, StreamClosed, Disconnect, ReceiveResp, WriteReply,
                WriterExits, MainSeesDone, WorkersDone, CloseDevice, vars
  <2> QED BY <1>1, <2>1 DEF WorkersRight
<1>4. ASSUME NEW w \in Worker, wPc'[w] \notin {"lock", "device"}, reqObj' = reqObj,
             \A v \in Worker : v # w => /\ wPc'[v] = wPc[v] /\ wReq'[v] = wReq[v]
                                        /\ wResp'[v] = wResp[v],
             HoldsResp(w) => \A x \in RespObj : x # wResp[w] => respObj'[x] = respObj[x],
             ~HoldsResp(w) => respObj' = respObj
      PROVE  WorkersRight'
  <2>1. WorkerRight(w)'
    BY <1>4 DEF WorkerRight
  <2>2. ASSUME NEW v \in Worker, v # w PROVE WorkerRight(v)'
    <3>1. ASSUME wPc[v] \in {"lock", "device"} PROVE respObj'[wResp[v]] = respObj[wResp[v]]
      <4>1. wResp[v] \in RespObj /\ (HoldsResp(w) => wResp[v] # wResp[w])
        BY <2>2, <3>1 DEF ResponsesNotShared
      <4> QED BY <1>4, <4>1
    <3> QED BY <1>1, <1>4, <2>2, <3>1
  <2> QED BY <2>1, <2>2 DEF WorkersRight
<1>5. ASSUME NEW w \in Worker, Refuse(w) \/ \E err \in DevResult : DeviceReturns(w, err)
      PROVE  WorkersRight'
  <2>1. /\ HoldsResp(w) /\ wPc'[w] = "reply" /\ UNCHANGED <<reqObj, wReq, wResp>>
        /\ \A v \in Worker : v # w => wPc'[v] = wPc[v]
    BY <1>5 DEF Refuse, DeviceReturns, TypeOK
  <2>2. \A x \in RespObj : x # wResp[w] => respObj'[x] = respObj[x]
    BY <1>5 DEF Refuse, DeviceReturns, TypeOK
  <2> QED BY <1>4, <2>1, <2>2
<1>6. ASSUME NEW w \in Worker,
             \/ SendResp(w) \/ RecycleReq(w) \/ SendBlocked(w) \/ WorkerExits(w)
             \/ \E o \in RespObj : ReceiveReq(w, o)
      PROVE  WorkersRight'
  <2>1. /\ wPc'[w] \in {"receive", "blocked", "stopped", "execute"}
        /\ UNCHANGED <<reqObj, respObj>>
        /\ \A v \in Worker : v # w => wPc'[v] = wPc[v] /\ wReq'[v] = wReq[v] /\ wResp'[v] = wResp[v]
    BY <1>6 DEF SendResp, RecycleReq, SendBlocked, WorkerExits, ReceiveReq, TypeOK
  <2> QED BY <1>4, <2>1
<1>7. ASSUME NEW w \in Worker, WantLock(w) \/ LockThenFlush(w) PROVE WorkersRight'
  <2>1. /\ wPc'[w] \in {"lock", "device"} /\ UNCHANGED <<reqObj, respObj, wReq, wResp>>
        /\ \A v \in Worker : v # w => wPc'[v] = wPc[v]
        /\ WantLock(w) \/ wPc[w] = "lock"
    BY <1>7 DEF WantLock, LockThenFlush, TypeOK
  <2>2. reqObj[wReq[w]].kind = "flush"
    BY <2>1 DEF WantLock, WorkersRight, WorkerRight
  <2>3. WorkerRight(w)'
    BY <2>1, <2>2 DEF WorkerRight, Refused
  <2> QED BY <1>1, <2>1, <2>3 DEF WorkersRight
<1>8. ASSUME NEW w \in Worker, CallDevice(w) PROVE WorkersRight'
  <2>1. /\ wPc[w] = "execute" /\ wPc'[w] = "device" /\ UNCHANGED <<reqObj, wReq, wResp>>
        /\ \A v \in Worker : v # w => wPc'[v] = wPc[v]
        /\ ~Refused(reqObj[wReq[w]])
    BY <1>8 DEF CallDevice, TypeOK
  <2>2. wResp[w] \in RespObj
    BY <2>1 DEF RepliesBuilt
  <2>3. /\ respObj'[wResp[w]] = WithBuffer(respObj[wResp[w]], reqObj[wReq[w]])
        /\ \A x \in RespObj : x # wResp[w] => respObj'[x] = respObj[x]
    BY <1>8, <2>2 DEF CallDevice, TypeOK
  <2>4. reqObj[wReq[w]].kind = "read" => respObj'[wResp[w]].buf = reqObj[wReq[w]].handle
    BY <2>3 DEF WithBuffer
  <2>5. WorkerRight(w)'
    BY <2>1, <2>4 DEF WorkerRight
  <2>6. ASSUME NEW v \in Worker, v # w PROVE WorkerRight(v)'
    <3>1. wPc[v] \in {"lock", "device"} => wResp[v] \in RespObj /\ wResp[v] # wResp[w]
      BY <2>1, <2>6 DEF ResponsesNotShared
    <3> QED BY <1>1, <2>1, <2>3, <2>6, <3>1
  <2> QED BY <2>5, <2>6 DEF WorkersRight
<1> QED BY <1>2, <1>3, <1>5, <1>6, <1>7, <1>8, NextSplits

\* What the device has completed stays completed.
LEMMA FinishedGrows ==
    ASSUME [Next]_vars
    PROVE  finished \subseteq finished'
<1>1. ASSUME NEW o \in ReqObj, NEW in \in Input, Decode(o, in) PROVE finished' = finished
  BY <1>1 DEF Decode
<1>2. ASSUME NEW w \in Worker, NEW err \in DevResult, DeviceReturns(w, err)
      PROVE  finished \subseteq finished'
  BY <1>2 DEF DeviceReturns
<1> QED BY <1>1, <1>2, OnlyDecodeOrReturn

\* The requests decoded before a step are what they were.
LEMMA IssuedKept ==
    ASSUME IInv, [Next]_vars, NEW h \in 1..Len(issued)
    PROVE  issued'[h] = issued[h]
BY OnlyDecode, DecodeKeeps

\* The reply that execute builds is right.
LEMMA ExecutesRight ==
    ASSUME IInv, WorkersRight, NEW w \in Worker, Executes(w),
           Refuse(w) \/ \E err \in DevResult : DeviceReturns(w, err)
    PROVE  Right(wResp[w])'
<1> DEFINE r == reqObj[wReq[w]]
           y == wResp[w]
<1>1. /\ y \in RespObj /\ respObj \in [RespObj -> Response]
      /\ UNCHANGED <<reqObj, issued, wReq, wResp>>
      /\ wPc[w] \in {"execute", "device"}
  BY DEF Executes, IInv, TypeOK, Refuse, DeviceReturns
<1>2. Matches(wReq[w])
  BY <1>1 DEF IInv, InFlightMatch, HoldsReq
<1>3. /\ r.kind = issued[r.handle].kind /\ r.aligned = issued[r.handle].aligned
      /\ Refused(r) <=> Refused(issued[r.handle])
  BY <1>2 DEF Matches, Refused
<1>4. CASE Refuse(w)
  <2>1. respObj'[y] = Set(respObj[y], r, "EINVAL") /\ Refused(r)
    BY <1>1, <1>4 DEF Refuse
  <2>2. respObj'[y].handle = r.handle /\ respObj'[y].kind = r.kind /\ respObj'[y].err = "EINVAL"
    BY <2>1 DEF Set
  <2> QED BY <1>1, <1>3, <2>1, <2>2 DEF Right
<1>5. ASSUME NEW err \in DevResult, DeviceReturns(w, err) PROVE Right(wResp[w])'
  <2>1. respObj'[y] = Set(respObj[y], r, err) /\ wPc[w] = "device"
    BY <1>1, <1>5 DEF DeviceReturns
  <2>2. /\ respObj'[y].handle = r.handle /\ respObj'[y].kind = r.kind
        /\ respObj'[y].err = err /\ respObj'[y].buf = respObj[y].buf
    BY <2>1 DEF Set
  <2>3. err # "EINVAL" /\ ~Refused(r) /\ (r.kind = "read" => respObj[y].buf = r.handle)
    BY <2>1, ResultAssumption DEF WorkersRight, WorkerRight
  <2>4. r.kind \in {"write", "trim"} => r.handle \in finished'
    BY <1>5 DEF DeviceReturns
  <2>5. y' = y
    BY <1>1
  <2> HIDE DEF r, y
  <2>6. Right(y)'
    BY <1>1, <1>3, <2>2, <2>3, <2>4, <2>5 DEF Right, IsUpdate
  <2> QED BY <2>6 DEF y
<1> QED BY <1>4, <1>5

\* Replies that are built stay right.
LEMMA RightStep ==
    ASSUME IInv, ResponsesNotShared, Ledger, WorkersRight, BuiltRight, [Next]_vars
    PROVE  BuiltRight'
<1>1. ASSUME NEW x \in RespObj, Built(x), respObj'[x] = respObj[x] PROVE Right(x)'
  <2>1. respObj[x].handle \in 1..Len(issued) /\ Right(x)
    BY <1>1 DEF Ledger, Decoded, BuiltRight
  <2>2. issued'[respObj[x].handle] = issued[respObj[x].handle]
    BY <2>1, IssuedKept
  <2> QED BY <1>1, <2>1, <2>2, FinishedGrows DEF Right, IsUpdate
<1>2. ASSUME NEW w \in Worker, Refuse(w) \/ \E err \in DevResult : DeviceReturns(w, err),
             Executes(w)
      PROVE  BuiltRight'
  <2>1. wResp' = wResp
    BY <1>2 DEF Refuse, DeviceReturns
  <2>2. Right(wResp[w])'
    BY <1>2, ExecutesRight
  <2> QED BY <1>1, <1>2, <2>1, <2>2 DEF Executes, BuiltRight, Right
<1>3. CASE (\E o \in ReqObj, in \in Input : Decode(o, in) /\ Decodes(o)) \/ Writes \/ Keeps
  <2>1. \A x \in RespObj : Built(x)' => Built(x) /\ respObj'[x] = respObj[x]
    BY <1>3 DEF Decodes, Writes, Keeps
  <2> QED BY <1>1, <2>1 DEF BuiltRight
<1> QED BY <1>2, <1>3, OthersMove

\* Replies on the wire stay right, and the writer adds a right one.
LEMMA OwnStep ==
    ASSUME IInv, ResponsesNotShared, Ledger, BuiltRight, RepliesAreOwn, [Next]_vars
    PROVE  RepliesAreOwn'
<1> DEFINE Own(r) == LET q == issued[r.handle] IN
              /\ r.err = "ok" /\ q.kind = "read" => r.payload = r.handle
              /\ r.err = "ok" /\ IsUpdate(r.handle) => r.handle \in finished
              /\ r.err = "EINVAL" <=> Refused(q)
<1>1. ASSUME NEW r, r.handle \in 1..Len(issued), Own(r) PROVE Own(r)'
  <2>1. issued'[r.handle] = issued[r.handle]
    BY <1>1, IssuedKept
  <2> QED BY <1>1, <2>1, FinishedGrows DEF IsUpdate
<1>2. \A r \in wire : r.handle \in 1..Len(issued) /\ Own(r)
  BY DEF Ledger, Decoded, RepliesAreOwn
<1>3. CASE Writes
  <2>1. wrResp \in RespObj /\ Built(wrResp)
    BY <1>3 DEF Writes
  <2>2. Right(wrResp) /\ respObj[wrResp].handle \in 1..Len(issued)
    BY <2>1 DEF BuiltRight, Ledger, Decoded
  <2> DEFINE r == ReplyOf(respObj[wrResp])
  <2>3. /\ r.handle = respObj[wrResp].handle /\ r.err = respObj[wrResp].err
        /\ r.payload = IF respObj[wrResp].kind = "read" THEN respObj[wrResp].buf ELSE Nil
    BY DEF ReplyOf
  <2> HIDE DEF r
  <2>4. r.handle \in 1..Len(issued) /\ Own(r)
    BY <2>2, <2>3 DEF Right
  <2>5. \A a \in wire' : a \in wire \/ a = r
    BY <1>3 DEF Writes, r
  <2>6. \A a \in wire' : Own(a)'
    BY <1>1, <1>2, <2>4, <2>5
  <2> QED BY <2>6 DEF RepliesAreOwn
<1>4. CASE UNCHANGED wire
  <2>1. \A a \in wire' : Own(a)'
    BY <1>1, <1>2, <1>4
  <2> QED BY <2>1 DEF RepliesAreOwn
<1> QED BY <1>3, <1>4, OthersMove DEF Decodes, Executes, Keeps

-----------------------------------------------------------------------------
\* The invariant of the replies, which rests on the one of the requests.
THEOREM RepliesInductive == Spec => []JInv
<1>1. IInv /\ JInv /\ [Next]_vars => JInv'
  <2> SUFFICES ASSUME IInv, JInv, [Next]_vars PROVE JInv'
      OBVIOUS
  <2>1. ResponsesNotShared' /\ Ledger'
    BY ResponsesStep, LedgerStep DEF JInv
  <2>2. LocksHeld' /\ MutexesBehind' /\ StopsInOrder'
    BY LocksStep, MutexesStep, StopsStep DEF JInv
  <2>3. WorkersRight' /\ BuiltRight' /\ RepliesAreOwn'
    BY WorkersStep, RightStep, OwnStep DEF JInv
  <2> QED BY <2>1, <2>2, <2>3 DEF JInv
<1> QED BY <1>1, InitReplies, Inductive, PTL DEF Spec

\* A pooled response belongs to one party at a time, whatever the workers, the
\* full queue and the shutdown do.
THEOREM ResponsesOwned == Spec => []ResponsesNotShared
<1>1. JInv => ResponsesNotShared
  BY DEF JInv
<1> QED BY <1>1, RepliesInductive, PTL

\* Every request decoded is in one place: to execute, with its reply on the way,
\* answered, or with a reply whose write failed.  None is dropped, not by the
\* shutdown either, and none is answered twice.
THEOREM AnsweredOnce == Spec => []EachRequestOnce
<1>1. IInv /\ JInv => EachRequestOnce
  <2> SUFFICES ASSUME IInv, JInv PROVE EachRequestOnce
      OBVIOUS
  <2>1. \A h : h \in Waiting <=> \E o \in ReqObj : Unexecuted(o) /\ reqObj[o].handle = h
    <3>1. /\ rdPc = "queue" => rdReq \in ReqObj
          /\ \A i \in 1..Len(reqQueue) : reqQueue[i] \in ReqObj
          /\ \A w \in Worker : wPc[w] \in {"execute", "lock", "device"} => wReq[w] \in ReqObj
      BY DEF IInv, TypeOK, RequestsNotShared, HoldsReq
    <3> QED BY <3>1 DEF Waiting, Unexecuted
  <2>2. \A h : h \in Pending <=> \E x \in RespObj : Built(x) /\ respObj[x].handle = h
    <3>1. /\ wrPc = "write" => wrResp \in RespObj
          /\ \A i \in 1..Len(respQueue) : respQueue[i] \in RespObj
          /\ \A w \in Worker : wPc[w] \in {"reply", "blocked"} => wResp[w] \in RespObj
      BY DEF IInv, TypeOK, RepliesBuilt, HoldsReq, HoldsResp
    <3> QED BY <3>1 DEF Pending, Built
  <2>3. \A h : h \in Replied <=> \E r \in wire : r.handle = h
    BY DEF Replied
  <2>4. Waiting \subseteq 1..Len(issued)
    BY <2>1, UnexecutedMatch
  <2>5. /\ Waiting \cap Pending = {} /\ Replied \cap lost = {}
        /\ (Replied \cup lost) \cap (Waiting \cup Pending) = {}
    BY <2>1, <2>2, <2>3 DEF JInv, Ledger, KeptApart
  <2>6. Replied \cup lost \cup Waiting \cup Pending \subseteq 1..Len(issued)
    BY <2>2, <2>3, <2>4 DEF JInv, Ledger, Decoded
  <2>7. 1..Len(issued) \subseteq Replied \cup lost \cup Waiting \cup Pending
    BY <2>1, <2>2, <2>3 DEF JInv, Ledger, NoneDropped
  <2> QED BY <2>5, <2>6, <2>7 DEF EachRequestOnce
<1> QED BY <1>1, Inductive, RepliesInductive, PTL

\* A reply reports what happened to its own request: the data of a read, the
\* completion of a write or a trim, the refusal of what execute refuses.
THEOREM OwnReplies == Spec => []RepliesAreOwn
<1>1. JInv => RepliesAreOwn
  BY DEF JInv
<1> QED BY <1>1, RepliesInductive, PTL

\* execute's RUnlock is never one of a lock that is not held.
THEOREM UpdatesLocked == Spec => []UpdateHoldsLock
<1>1. IInv /\ JInv => UpdateHoldsLock
  <2> SUFFICES ASSUME IInv, JInv, NEW w \in Worker, wPc[w] \in {"execute", "device"},
                      reqObj[wReq[w]].kind \in {"write", "trim"}
               PROVE  <<reqObj[wReq[w]].handle, reqObj[wReq[w]].mu>> \in rlocks
      BY DEF UpdateHoldsLock
  <2>1. wReq[w] \in ReqObj /\ Unexecuted(wReq[w])
    BY DEF IInv, RequestsNotShared, HoldsReq, Unexecuted
  <2> QED BY <2>1 DEF JInv, LocksHeld
<1> QED BY <1>1, Inductive, RepliesInductive, PTL

\* The reader never waits for a flush that waits for its lock.
THEOREM ReaderFree == Spec => []ReaderNeverLocksOut
<1>1. IInv /\ JInv => ReaderNeverLocksOut
  <2> SUFFICES ASSUME IInv, JInv PROVE ReaderNeverLocksOut
      OBVIOUS
  <2>1. ASSUME NEW w \in Worker, HoldsReq(w), reqObj[wReq[w]].kind = "flush"
        PROVE  reqObj[wReq[w]].mu # flushMu
    <3>1. Matches(wReq[w])
      BY <2>1 DEF IInv, InFlightMatch
    <3>2. reqObj[wReq[w]].mu < flushMu
      BY <2>1, <3>1 DEF Matches, JInv, MutexesBehind
    <3>3. flushMu \in Nat
      BY DEF IInv, TypeOK
    <3> QED BY <3>2, <3>3
  <2> QED BY <2>1 DEF ReaderNeverLocksOut, JInv, MutexesBehind
<1> QED BY <1>1, Inductive, RepliesInductive, PTL

\* The device and respQueue are closed only when no request is queued or executing
\* and none can come.
THEOREM ClosedIdle == Spec => []ClosedWhenIdle
<1>1. JInv => ClosedWhenIdle
  BY WorkerAssumption DEF JInv, StopsInOrder, ClosedWhenIdle
<1> QED BY <1>1, RepliesInductive, PTL

-----------------------------------------------------------------------------
(***************************************************************************)
(* Nobody waits for ever: the requests leave reqQueue in the order of      *)
(* their handles, so the updates whose read locks a flush waits for have   *)
(* left it before the flush did.                                           *)
(***************************************************************************)

HandleOf(o) == reqObj[o].handle

\* What is queued is younger than what the workers have, what the reader has is
\* younger still.
QueueInOrder ==
    /\ \A i, j \in 1..Len(reqQueue) : i < j => HandleOf(reqQueue[i]) < HandleOf(reqQueue[j])
    /\ \A w \in Worker, i \in 1..Len(reqQueue) :
          HoldsReq(w) => HandleOf(wReq[w]) < HandleOf(reqQueue[i])
    /\ rdPc = "queue" =>
          /\ \A i \in 1..Len(reqQueue) : HandleOf(reqQueue[i]) < HandleOf(rdReq)
          /\ \A w \in Worker : HoldsReq(w) => HandleOf(wReq[w]) < HandleOf(rdReq)

\* A read lock is one of an update that is not executed yet, or is lost.
LockOwned(p) ==
    /\ p[1] \in 1..Len(issued) /\ IsUpdate(p[1]) /\ issued[p[1]].mu = p[2]
    /\ \/ issued[p[1]].kind = "write" /\ ~issued[p[1]].aligned
       \/ \E o \in ReqObj : Unexecuted(o) /\ HandleOf(o) = p[1]
LocksOwned == \A p \in rlocks : LockOwned(p)

\* An update that is decoded after a flush has a later mutex.
MutexesRise ==
    \A g, h \in 1..Len(issued) :
        g < h /\ issued[g].kind = "flush" /\ IsUpdate(h) => issued[g].mu < issued[h].mu

\* What the shutdown has done, and who did it.
ShutdownOrder ==
    /\ ctxDone <=> rdPc = "stopped"
    /\ reqClosed <=> rdPc = "stopped"
    /\ respClosed <=> mainPc \in {"close", "returned"}
    /\ mainPc # "serve" => ctxDone
    /\ wrPc = "stopped" => respClosed /\ respQueue = <<>>

KInv == QueueInOrder /\ LocksOwned /\ MutexesRise /\ ShutdownOrder

\* A new processor holds no lock and has decoded nothing.
LEMMA InitOrder == Init => KInv
<1> SUFFICES ASSUME Init PROVE KInv
    OBVIOUS
<1>1. QueueInOrder /\ LocksOwned /\ MutexesRise
  BY DEF Init, QueueInOrder, LocksOwned, MutexesRise, HoldsReq
<1>2. ShutdownOrder
  BY DEF Init, ShutdownOrder
<1> QED BY <1>1, <1>2 DEF KInv

\* What is in flight has the handle of a decoded request.
LEMMA HandlesIssued ==
    ASSUME IInv
    PROVE  /\ Len(issued) \in Nat
           /\ \A i \in 1..Len(reqQueue) : /\ HandleOf(reqQueue[i]) \in 1..Len(issued)
                                          /\ reqQueue[i] \in ReqObj \ reqPool
           /\ \A w \in Worker : HoldsReq(w) => /\ HandleOf(wReq[w]) \in 1..Len(issued)
                                               /\ wReq[w] \in ReqObj \ reqPool
           /\ rdPc = "queue" => HandleOf(rdReq) \in 1..Len(issued) /\ rdReq \in ReqObj
<1>1. Len(issued) \in Nat /\ reqQueue \in Seq(ReqObj)
  BY DEF IInv, TypeOK
<1> QED BY <1>1 DEF IInv, InFlightMatch, Matches, RequestsNotShared, HandleOf

\* Decode gives the next handle to the object it takes, and the others keep theirs.
LEMMA DecodeHandles ==
    ASSUME IInv, NEW o \in ReqObj, NEW in \in Input, Decode(o, in)
    PROVE  /\ \A x \in ReqObj \ reqPool : HandleOf(x)' = HandleOf(x)
           /\ HandleOf(o)' = Len(issued) + 1
           /\ UNCHANGED <<wPc, wReq, reqQueue>>
<1>1. /\ \A x \in ReqObj \ reqPool : reqObj'[x] = reqObj[x]
      /\ UNCHANGED <<wPc, wReq, reqQueue>>
  BY DecodeKeeps
<1>2. reqObj'[o] = [handle |-> Len(issued) + 1, kind |-> in.kind,
                    aligned |-> in.aligned, mu |-> MutexFor(o, in.kind)]
  BY DecodeKeeps
<1>3. reqObj'[o].handle = Len(issued) + 1
  BY <1>2
<1> QED BY <1>1, <1>3 DEF HandleOf

\* The queue is first in, first out, and the reader fills it with ever younger
\* requests.
LEMMA OrderStep ==
    ASSUME IInv, QueueInOrder, [Next]_vars
    PROVE  QueueInOrder'
<1> USE DEF rdVars, poolVars, chanVars, wVars, wrVars, obsVars
<1>0. reqQueue \in Seq(ReqObj)
  BY DEF IInv, TypeOK
<1>1. ASSUME NEW o \in ReqObj, NEW in \in Input, Decode(o, in) PROVE QueueInOrder'
  <2>1. /\ \A x \in ReqObj \ reqPool : HandleOf(x)' = HandleOf(x)
        /\ HandleOf(o)' = Len(issued) + 1
        /\ UNCHANGED <<wPc, wReq, reqQueue>>
    BY <1>1, DecodeHandles
  <2>2. rdPc' = "queue" /\ rdReq' = o
    BY <1>1 DEF Decode
  <2>3. HandleOf(rdReq)' = Len(issued) + 1
    BY <2>1, <2>2 DEF HandleOf
  <2>4. \A i \in 1..Len(reqQueue') : /\ HandleOf(reqQueue[i])' = HandleOf(reqQueue[i])
                                     /\ HandleOf(reqQueue[i]) \in 1..Len(issued)
    BY <2>1, HandlesIssued DEF HandleOf
  <2>5. \A w \in Worker : HoldsReq(w)' => /\ HandleOf(wReq[w])' = HandleOf(wReq[w])
                                          /\ HoldsReq(w) /\ HandleOf(wReq[w]) \in 1..Len(issued)
    BY <2>1, HandlesIssued DEF HandleOf, HoldsReq
  <2>6. Len(issued) \in Nat
    BY HandlesIssued
  <2>7. \A i, j \in 1..Len(reqQueue') : i < j => HandleOf(reqQueue[i])' < HandleOf(reqQueue[j])'
    BY <2>1, <2>4 DEF QueueInOrder
  <2>8. \A w \in Worker, i \in 1..Len(reqQueue') :
            HoldsReq(w)' => HandleOf(wReq[w])' < HandleOf(reqQueue[i])'
    BY <2>1, <2>4, <2>5 DEF QueueInOrder
  <2>9. /\ \A i \in 1..Len(reqQueue') : HandleOf(reqQueue[i])' < HandleOf(rdReq)'
        /\ \A w \in Worker : HoldsReq(w)' => HandleOf(wReq[w])' < HandleOf(rdReq)'
    BY <2>3, <2>4, <2>5, <2>6
  <2> QED BY <2>7, <2>8, <2>9 DEF QueueInOrder
<1>2. CASE QueueReq
  <2>1. /\ rdPc = "queue" /\ rdPc' = "decode" /\ reqQueue' = Append(reqQueue, rdReq)
        /\ UNCHANGED <<reqObj, wPc, wReq>>
    BY <1>2 DEF QueueReq
  <2>2. /\ Len(reqQueue') = Len(reqQueue) + 1 /\ Len(reqQueue) \in Nat
        /\ \A i \in 1..Len(reqQueue) : reqQueue'[i] = reqQueue[i]
        /\ reqQueue'[Len(reqQueue) + 1] = rdReq
    BY <1>0, <2>1, HandlesIssued
  <2>3. \A x : HandleOf(x)' = HandleOf(x)
    BY <2>1 DEF HandleOf
  <2> QED BY <2>1, <2>2, <2>3 DEF QueueInOrder, HoldsReq
<1>3. ASSUME NEW w \in Worker, NEW o \in RespObj, ReceiveReq(w, o) PROVE QueueInOrder'
  <2>1. /\ ~HoldsReq(w) /\ reqQueue # <<>> /\ reqQueue' = Tail(reqQueue)
        /\ wReq'[w] = reqQueue[1] /\ UNCHANGED <<reqObj, rdPc, rdReq>>
        /\ \A v \in Worker : v # w => wPc'[v] = wPc[v] /\ wReq'[v] = wReq[v]
    BY <1>3 DEF ReceiveReq, HoldsReq, IInv, TypeOK
  <2>2. /\ Len(reqQueue') = Len(reqQueue) - 1 /\ Len(reqQueue) \in Nat \ {0}
        /\ \A i \in 1..Len(reqQueue') : reqQueue'[i] = reqQueue[i + 1]
    BY <1>0, <2>1
  <2>3. \A x : HandleOf(x)' = HandleOf(x)
    BY <2>1 DEF HandleOf
  <2>4. \A i \in 1..Len(reqQueue') : i + 1 \in 1..Len(reqQueue) /\ 1 < i + 1
    BY <2>2
  <2>5. 1 \in 1..Len(reqQueue)
    BY <2>2
  <2>6. \A i, j \in 1..Len(reqQueue') : i < j => HandleOf(reqQueue'[i]) < HandleOf(reqQueue'[j])
    BY <2>2, <2>4 DEF QueueInOrder
  <2>7. \A v \in Worker, i \in 1..Len(reqQueue') :
            HoldsReq(v)' => HandleOf(wReq'[v]) < HandleOf(reqQueue'[i])
    BY <2>1, <2>2, <2>4, <2>5 DEF QueueInOrder, HoldsReq
  <2>8. rdPc = "queue" =>
            /\ \A i \in 1..Len(reqQueue') : HandleOf(reqQueue'[i]) < HandleOf(rdReq)
            /\ \A v \in Worker : HoldsReq(v)' => HandleOf(wReq'[v]) < HandleOf(rdReq)
    BY <2>1, <2>2, <2>4, <2>5 DEF QueueInOrder, HoldsReq
  <2> QED BY <2>1, <2>3, <2>6, <2>7, <2>8 DEF QueueInOrder, HandleOf
<1>4. ASSUME UNCHANGED <<reqObj, reqQueue>>, rdPc' = "queue" => rdPc = "queue" /\ rdReq' = rdReq,
             \A v \in Worker : HoldsReq(v)' => HoldsReq(v) /\ wReq'[v] = wReq[v]
      PROVE  QueueInOrder'
  <2>1. \A x : HandleOf(x)' = HandleOf(x)
    BY <1>4 DEF HandleOf
  <2> QED BY <1>4, <2>1 DEF QueueInOrder, HandleOf
<1>5. ASSUME NEW w \in Worker,
             \/ Refuse(w) \/ CallDevice(w) \/ WantLock(w) \/ LockThenFlush(w)
             \/ \E err \in DevResult : DeviceReturns(w, err)
             \/ SendResp(w) \/ RecycleReq(w) \/ SendBlocked(w) \/ WorkerExits(w)
      PROVE  QueueInOrder'
  <2>1. UNCHANGED <<reqObj, reqQueue, rdPc, rdReq>>
    BY <1>5 DEF Refuse, CallDevice, WantLock, LockThenFlush, DeviceReturns, SendResp, RecycleReq,
                SendBlocked, WorkerExits
  <2>2. /\ \A v \in Worker : v # w => wPc'[v] = wPc[v] /\ wReq'[v] = wReq[v]
        /\ HoldsReq(w)' => HoldsReq(w) /\ wReq'[w] = wReq[w]
    BY <1>5 DEF Refuse, CallDevice, WantLock, LockThenFlush, DeviceReturns, SendResp, RecycleReq,
                SendBlocked, WorkerExits, HoldsReq, IInv, TypeOK
  <2> QED BY <1>4, <2>1, <2>2 DEF HoldsReq
<1>6. CASE \/ DecodeFails \/ StreamClosed \/ Disconnect \/ ReceiveResp \/ WriteReply \/ WriterExits
           \/ MainSeesDone \/ WorkersDone \/ CloseDevice \/ UNCHANGED vars
  <2>1. UNCHANGED <<reqObj, reqQueue, wPc, wReq, rdReq>> /\ (rdPc' = "queue" => rdPc = "queue")
    BY <1>6 DEF DecodeFails, StreamClosed, Disconnect, StopReader, ReceiveResp, WriteReply,
                WriterExits, MainSeesDone, WorkersDone, CloseDevice, vars
  <2> QED BY <1>4, <2>1 DEF HoldsReq
<1> QED BY <1>1, <1>2, <1>3, <1>5, <1>6, NextSplits

\* Every lock belongs to an update that is still to execute: the update gives it back
\* when it is executed, unless execute refuses it.
LEMMA OwnedStep ==
    ASSUME IInv, ResponsesNotShared, Ledger, LocksOwned, [Next]_vars
    PROVE  LocksOwned'
<1>0. Len(issued) \in Nat
  BY DEF IInv, TypeOK
<1>1. ASSUME NEW o \in ReqObj, NEW in \in Input, Decode(o, in), Decodes(o)
      PROVE  LocksOwned'
  <2> DEFINE n == Len(issued)
  <2>1. /\ Len(issued') = n + 1 /\ \A g \in 1..n : issued'[g] = issued[g]
        /\ issued'[n + 1].kind = in.kind /\ issued'[n + 1].mu = MutexFor(o, in.kind)
        /\ HandleOf(o)' = n + 1
    BY <1>1, DecodeKeeps, DecodeHandles
  <2>2. \A x \in ReqObj : Unexecuted(x) => Unexecuted(x)' /\ HandleOf(x)' = HandleOf(x)
    BY <1>1, DecodeAdds DEF Decodes, HandleOf
  <2>3. Unexecuted(o)'
    BY <1>1 DEF Decodes
  <2>4. ASSUME NEW p \in rlocks PROVE LockOwned(p)'
    <3>1. LockOwned(p) /\ p[1] \in 1..n
      BY <2>4 DEF LocksOwned, LockOwned
    <3>2. p[1] \in 1..(n + 1) /\ issued'[p[1]] = issued[p[1]]
      BY <1>0, <2>1, <3>1
    <3> HIDE DEF n
    <3> QED BY <2>1, <2>2, <3>1, <3>2 DEF LockOwned, IsUpdate
  <2>5. ASSUME NEW p, p = <<n + 1, flushMu>>, TakesLock(in.kind) PROVE LockOwned(p)'
    <3>1. in.kind \in {"write", "trim"} /\ MutexFor(o, in.kind) = flushMu
      BY <2>5 DEF TakesLock, MutexFor
    <3>2. n + 1 \in 1..(n + 1) /\ p[1] = n + 1 /\ p[2] = flushMu
      BY <1>0, <2>5
    <3> HIDE DEF n
    <3>3. p[1] \in 1..Len(issued') /\ IsUpdate(p[1])' /\ issued'[p[1]].mu = p[2]
      BY <2>1, <3>1, <3>2 DEF IsUpdate
    <3>4. Unexecuted(o)' /\ HandleOf(o)' = p[1]
      BY <2>1, <2>3, <3>2
    <3> QED BY <3>3, <3>4 DEF LockOwned
  <2>6. \A p \in rlocks' : p \in rlocks \/ (p = <<n + 1, flushMu>> /\ TakesLock(in.kind))
    BY <1>1 DEF Decode
  <2> HIDE DEF n
  <2> QED BY <2>4, <2>5, <2>6 DEF LocksOwned
<1>2. ASSUME NEW w \in Worker, Executes(w),
             Refuse(w) \/ \E err \in DevResult : DeviceReturns(w, err)
      PROVE  LocksOwned'
  <2> DEFINE h == HandleOf(wReq[w])
  <2>1. UNCHANGED <<reqObj, issued>>
    BY <1>2 DEF Executes
  <2>2. Matches(wReq[w])
    BY <1>2 DEF Executes, IInv, InFlightMatch, HoldsReq
  <2>3. ASSUME NEW p \in rlocks' PROVE LockOwned(p)'
    <3>1. p \in rlocks
      BY <1>2, <2>3 DEF Refuse, DeviceReturns
    <3>2. LockOwned(p)
      BY <3>1 DEF LocksOwned
    <3>3. ASSUME p[1] = h PROVE issued[h].kind = "write" /\ ~issued[h].aligned
      <4>1. IsUpdate(h) /\ p[2] = issued[h].mu
        BY <3>2, <3>3 DEF LockOwned
      <4>2. reqObj[wReq[w]].kind \in {"write", "trim"} /\ reqObj[wReq[w]].mu = p[2]
        BY <2>2, <4>1 DEF Matches, IsUpdate, HandleOf
      <4>3. CASE Refuse(w)
        BY <2>2, <4>2, <4>3 DEF Refuse, Refused, Matches, HandleOf
      <4>4. ASSUME NEW err \in DevResult, DeviceReturns(w, err) PROVE FALSE
        <5>1. <<h, p[2]>> \notin rlocks'
          BY <4>2, <4>4 DEF DeviceReturns, HandleOf
        <5>2. p = <<p[1], p[2]>>
          BY <3>1 DEF IInv, TypeOK
        <5> QED BY <2>3, <3>3, <5>1, <5>2
      <4> QED BY <1>2, <4>3, <4>4
    <3>4. ASSUME p[1] # h, NEW x \in ReqObj, Unexecuted(x), HandleOf(x) = p[1]
          PROVE  Unexecuted(x)' /\ HandleOf(x)' = p[1]
      BY <1>2, <2>1, <3>4 DEF Executes, HandleOf
    <3> QED BY <2>1, <3>2, <3>3, <3>4 DEF LockOwned, IsUpdate
  <2> QED BY <2>3 DEF LocksOwned
<1>3. CASE (WriteReply /\ Writes) \/ Keeps
  <2>1. /\ \A p \in ReqObj : Unexecuted(p)' <=> Unexecuted(p)
        /\ reqObj' = reqObj /\ issued' = issued
    BY <1>3 DEF Writes, Keeps
  <2>2. CASE UNCHANGED rlocks
    BY <2>1, <2>2 DEF LocksOwned, LockOwned, IsUpdate, HandleOf
  <2>3. ASSUME NEW o \in ReqObj, NEW in \in Input, Decode(o, in) PROVE FALSE
    <3>1. Len(issued') = Len(issued) + 1
      BY <2>3, DecodeAdds
    <3> QED BY <1>0, <2>1, <3>1
  <2>4. ASSUME NEW w \in Worker, NEW err \in DevResult, DeviceReturns(w, err) PROVE LocksOwned'
    BY <2>4, <1>2, ExecuteMoves
  <2> QED BY <2>2, <2>3, <2>4, OnlyDecodeOrReturn
<1> QED BY <1>1, <1>2, <1>3, OthersMove

\* An update gets the reader's mutex, which is later than those of the flushes before it.
LEMMA RiseStep ==
    ASSUME IInv, MutexesBehind, MutexesRise, [Next]_vars
    PROVE  MutexesRise'
<1>1. ASSUME NEW o \in ReqObj, NEW in \in Input, Decode(o, in) PROVE MutexesRise'
  <2> DEFINE n == Len(issued)
  <2>1. /\ Len(issued') = n + 1 /\ \A g \in 1..n : issued'[g] = issued[g]
        /\ issued'[n + 1].kind = in.kind /\ issued'[n + 1].mu = MutexFor(o, in.kind)
    BY <1>1, DecodeKeeps
  <2>2. n \in Nat
    BY DEF IInv, TypeOK
  <2>3. ASSUME NEW g \in 1..(n + 1), NEW h \in 1..(n + 1), g < h,
               issued'[g].kind = "flush", IsUpdate(h)'
        PROVE  issued'[g].mu < issued'[h].mu
    <3>1. g \in 1..n /\ issued'[g] = issued[g]
      BY <2>1, <2>2, <2>3
    <3>2. CASE h = n + 1
      <4>1. issued'[h].mu = flushMu
        BY <2>1, <2>3, <3>2 DEF IsUpdate, MutexFor
      <4> QED BY <2>3, <3>1, <4>1 DEF MutexesBehind
    <3>3. CASE h \in 1..n
      <4>1. issued'[h] = issued[h]
        BY <2>1, <3>3
      <4> QED BY <2>3, <3>1, <3>3, <4>1 DEF MutexesRise, IsUpdate
    <3> QED BY <2>2, <3>2, <3>3
  <2> HIDE DEF n
  <2> QED BY <2>1, <2>3 DEF MutexesRise
<1>2. CASE UNCHANGED <<reqObj, issued, flushMu>>
  BY <1>2 DEF MutexesRise, IsUpdate
<1> QED BY <1>1, <1>2, OnlyDecode

\* The reader ends the requests and the context together, processRequests closes the
\* responses behind the workers, and the writer leaves last.
LEMMA ShutdownStep ==
    ASSUME IInv, StopsInOrder, ShutdownOrder, [Next]_vars
    PROVE  ShutdownOrder'
<1> USE DEF rdVars, poolVars, chanVars, wVars, wrVars, obsVars
<1>1. CASE (\E o \in ReqObj, in \in Input : Decode(o, in)) \/ QueueReq \/ DecodeFails
  <2>1. /\ UNCHANGED <<ctxDone, reqClosed, respClosed, mainPc, wrPc, respQueue>>
        /\ rdPc # "stopped" /\ rdPc' # "stopped"
    BY <1>1 DEF Decode, QueueReq, DecodeFails
  <2> QED BY <2>1 DEF ShutdownOrder
<1>2. CASE StreamClosed \/ Disconnect
  BY <1>2 DEF StreamClosed, Disconnect, StopReader, ShutdownOrder
<1>3. ASSUME NEW w \in Worker, SendResp(w) \/ SendBlocked(w) PROVE ShutdownOrder'
  <2>1. wPc[w] # "stopped" /\ UNCHANGED <<ctxDone, rdPc, reqClosed, respClosed, mainPc, wrPc>>
    BY <1>3 DEF SendResp, SendBlocked
  <2>2. ~respClosed
    BY <2>1 DEF StopsInOrder
  <2> QED BY <2>1, <2>2 DEF ShutdownOrder
<1>4. ASSUME NEW w \in Worker,
             \/ Refuse(w) \/ CallDevice(w) \/ WantLock(w) \/ LockThenFlush(w)
             \/ \E err \in DevResult : DeviceReturns(w, err)
             \/ RecycleReq(w) \/ WorkerExits(w) \/ \E o \in RespObj : ReceiveReq(w, o)
      PROVE  ShutdownOrder'
  <2>1. UNCHANGED <<ctxDone, rdPc, reqClosed, respClosed, mainPc, wrPc, respQueue>>
    BY <1>4 DEF Refuse, CallDevice, WantLock, LockThenFlush, DeviceReturns, RecycleReq,
                WorkerExits, ReceiveReq
  <2> QED BY <2>1 DEF ShutdownOrder
<1>5. CASE ReceiveResp \/ WriteReply \/ WriterExits
  BY <1>5 DEF ReceiveResp, WriteReply, WriterExits, ShutdownOrder
<1>6. CASE MainSeesDone \/ WorkersDone \/ CloseDevice \/ UNCHANGED vars
  BY <1>6 DEF MainSeesDone, WorkersDone, CloseDevice, vars, ShutdownOrder
<1> QED BY <1>1, <1>2, <1>3, <1>4, <1>5, <1>6, NextSplits

\* The invariant of the order and of the shutdown, which rests on the two before.
THEOREM OrderInductive == Spec => []KInv
<1>1. IInv /\ JInv /\ KInv /\ [Next]_vars => KInv'
  BY OrderStep, OwnedStep, RiseStep, ShutdownStep DEF JInv, KInv
<1> QED BY <1>1, InitOrder, Inductive, RepliesInductive, PTL DEF Spec

\* Those who hold the mutex that a flush waits for are executing.
LEMMA WaitsForWorkers ==
    ASSUME IInv, JInv, KInv
    PROVE  FlushWaitsForWorkers
<1> SUFFICES ASSUME NEW w \in Worker, wPc[w] = "lock", NEW p \in rlocks,
                    p[2] = reqObj[wReq[w]].mu,
                    ~(issued[p[1]].kind = "write" /\ ~issued[p[1]].aligned)
             PROVE  \E v \in Worker : /\ wPc[v] \in {"execute", "device"}
                                      /\ reqObj[wReq[v]].handle = p[1]
    BY DEF FlushWaitsForWorkers
<1> DEFINE f == HandleOf(wReq[w])
<1>1. HoldsReq(w) /\ Matches(wReq[w]) /\ reqObj[wReq[w]].kind = "flush"
  BY DEF HoldsReq, IInv, InFlightMatch, JInv, WorkersRight, WorkerRight
<1>2. f \in 1..Len(issued) /\ issued[f].kind = "flush" /\ issued[f].mu = p[2]
  BY <1>1 DEF Matches, HandleOf
<1>3. /\ p[1] \in 1..Len(issued) /\ IsUpdate(p[1]) /\ issued[p[1]].mu = p[2]
      /\ \E o \in ReqObj : Unexecuted(o) /\ HandleOf(o) = p[1]
  BY DEF KInv, LocksOwned, LockOwned
<1>4. p[1] < f
  <2>1. p[1] # f
    BY <1>2, <1>3 DEF IsUpdate
  <2>2. ~(f < p[1])
    <3>1. flushMu \in Nat /\ Len(issued) \in Nat /\ rlocks \subseteq Handle \X Nat
      BY DEF IInv, TypeOK
    <3>2. p[2] \in Nat
      BY <3>1
    <3>3. f < p[1] => issued[f].mu < issued[p[1]].mu
      BY <1>2, <1>3 DEF KInv, MutexesRise
    <3> QED BY <1>2, <1>3, <3>2, <3>3
  <2>3. Len(issued) \in Nat
    BY DEF IInv, TypeOK
  <2> QED BY <1>2, <1>3, <2>1, <2>2, <2>3
<1> HIDE DEF f
<1>5. PICK o \in ReqObj : Unexecuted(o) /\ HandleOf(o) = p[1]
  BY <1>3
<1>6. p[1] \in Nat /\ f \in Nat
  BY <1>2, <1>3
<1>7. ~(rdPc = "queue" /\ o = rdReq)
  <2>1. rdPc = "queue" => f < HandleOf(rdReq) /\ HandleOf(rdReq) \in Nat
    BY <1>1, HandlesIssued DEF KInv, QueueInOrder, f
  <2> QED BY <1>4, <1>5, <1>6, <2>1
<1>8. ~ \E i \in 1..Len(reqQueue) : reqQueue[i] = o
  <2>1. \A i \in 1..Len(reqQueue) : f < HandleOf(reqQueue[i]) /\ HandleOf(reqQueue[i]) \in Nat
    BY <1>1, HandlesIssued DEF KInv, QueueInOrder, f
  <2> QED BY <1>4, <1>5, <1>6, <2>1
<1>9. PICK v \in Worker : wPc[v] \in {"execute", "lock", "device"} /\ wReq[v] = o
  BY <1>5, <1>7, <1>8 DEF Unexecuted
<1>10. wPc[v] # "lock"
  <2>1. Matches(o)
    BY <1>9 DEF HoldsReq, IInv, InFlightMatch
  <2>2. reqObj[o].kind # "flush"
    BY <1>3, <1>5, <2>1 DEF Matches, IsUpdate, HandleOf
  <2> QED BY <1>9, <2>2 DEF JInv, WorkersRight, WorkerRight
<1> QED BY <1>5, <1>9, <1>10 DEF HandleOf

\* A flush waits only for updates that workers execute at the moment, so that reqQueue
\* may be of any length and the workers of any number.
THEOREM FlushesWaitForWorkers == Spec => []FlushWaitsForWorkers
BY WaitsForWorkers, Inductive, RepliesInductive, OrderInductive, PTL

\* The bounded queues, the flush mutexes and the shutdown never make everyone wait,
\* whatever the capacities.
THEOREM SomeoneGoesOn == Spec => []NeverStuck
<1>1. IInv /\ JInv /\ KInv => NeverStuck
  <2> SUFFICES ASSUME IInv, JInv, KInv, ~LockLost, ~SomeoneReady,
                      Waiting \cup Pending # {} \/ (ctxDone /\ ~Ended)
               PROVE  FALSE
      BY DEF NeverStuck
  <2>0. /\ wPc \in [Worker -> {"receive", "execute", "lock", "device", "reply", "blocked", "stopped"}]
        /\ wrPc \in {"receive", "write", "stopped"}
        /\ mainPc \in {"serve", "drain", "close", "returned"}
        /\ reqClosed \in BOOLEAN /\ respClosed \in BOOLEAN /\ ctxDone \in BOOLEAN
        /\ rlocks \subseteq Handle \X Nat
    BY DEF IInv, TypeOK
  <2>1. respQueue = <<>> /\ wrPc # "write" /\ (wrPc = "receive" => ~respClosed)
    BY <2>0 DEF SomeoneReady, WriterReady, KInv, ShutdownOrder
  <2>2. \A w \in Worker : ~WorkerReady(w)
    BY DEF SomeoneReady
  <2>3. \A w \in Worker : wPc[w] # "blocked"
    <3>1. Len(respQueue) < RespCap
      BY <2>1, BoundAssumption
    <3> QED BY <2>2, <3>1 DEF WorkerReady
  <2>4. \A w \in Worker : wPc[w] # "lock"
    <3> SUFFICES ASSUME NEW w \in Worker, wPc[w] = "lock" PROVE FALSE
        OBVIOUS
    <3>1. PICK p \in rlocks : p[2] = reqObj[wReq[w]].mu
      BY <2>2 DEF WorkerReady, Unlocked
    <3>2. \A v \in Worker : wPc[v] \notin {"execute", "device"}
      BY <2>2 DEF WorkerReady
    <3>3. issued[p[1]].kind = "write" /\ ~issued[p[1]].aligned
      BY <3>1, <3>2, WaitsForWorkers DEF FlushWaitsForWorkers
    <3>4. p[1] \in 1..Len(issued)
      BY <3>1 DEF KInv, LocksOwned, LockOwned
    <3> QED BY <3>3, <3>4 DEF LockLost
  <2>5. \A w \in Worker : wPc[w] \in {"receive", "stopped"}
    BY <2>0, <2>2, <2>3, <2>4 DEF WorkerReady
  <2>6. reqQueue = <<>>
    <3>1. PICK w \in Worker : TRUE
      BY WorkerAssumption
    <3> QED BY <2>2, <2>5, <3>1 DEF WorkerReady, JInv, StopsInOrder
  <2>7. rdPc # "queue"
    BY <2>6, BoundAssumption DEF SomeoneReady, ReaderReady, QueueHasRoom
  <2>8. Waiting = {} /\ Pending = {}
    BY <2>1, <2>5, <2>6, <2>7 DEF Waiting, Pending
  <2>9. ctxDone /\ ~Ended /\ rdPc = "stopped" /\ reqClosed
    BY <2>8 DEF KInv, ShutdownOrder
  <2>10. \A w \in Worker : wPc[w] = "stopped"
    BY <2>2, <2>5, <2>6, <2>9 DEF WorkerReady, RangeEnds
  <2>11. mainPc = "returned"
    BY <2>0, <2>9, <2>10 DEF SomeoneReady, MainReady, WorkersWaited
  <2>12. wrPc = "stopped"
    BY <2>0, <2>1, <2>11 DEF KInv, ShutdownOrder
  <2> QED BY <2>9, <2>11, <2>12 DEF Ended
<1> QED BY <1>1, Inductive, RepliesInductive, OrderInductive, PTL
=============================================================================
