------------------------- MODULE ReqProcessorProofs -------------------------
(***************************************************************************)
(* Proofs about ReqProcessor, for any number of workers, pooled objects    *)
(* and requests and any queue capacities.                                  *)
(***************************************************************************)
EXTENDS ReqProcessor, SequenceTheorems, TLAPS

\* The steps of one worker, and everybody's, one action at a time.
LEMMA NextSplits ==
    ASSUME [Next]_vars
    PROVE  \/ \E o \in ReqObj, in \in Input : Decode(o, in)
           \/ QueueReq \/ DecodeFails \/ StreamClosed \/ Disconnect
           \/ \E w \in Worker :
                \/ \E o \in RespObj : ReceiveReq(w, o)
                \/ Refuse(w) \/ CallDevice(w) \/ WantLock(w) \/ LockThenFlush(w)
                \/ \E err \in DevResult : DeviceReturns(w, err)
                \/ SendResp(w) \/ RecycleReq(w) \/ SendBlocked(w) \/ WorkerExits(w)
           \/ ReceiveResp \/ WriteReply \/ WriterExits
           \/ MainSeesDone \/ WorkersDone \/ CloseDevice
           \/ UNCHANGED vars
BY DEF Next, readStrmWorker, reqIOWorker, writeStrmWorker, processRequests, AllStopped

\* The processor starts in a state that satisfies the invariant.
LEMMA InitInv == Init => IInv
<1> SUFFICES ASSUME Init PROVE IInv
    OBVIOUS
<1> USE DEF Init, Nil
<1>1. TypeOK
  <2>1. newRequest \in Request /\ newResponse \in Response
    BY DEF Request, Response, newRequest, newResponse, Kind, Errno
  <2>2. reqObj \in [ReqObj -> Request] /\ respObj \in [RespObj -> Response]
    BY <2>1
  <2>3. /\ wPc \in [Worker -> {"receive", "execute", "lock", "device", "reply",
                              "blocked", "stopped"}]
        /\ wReq \in [Worker -> ReqObj \cup {Nil}]
        /\ wResp \in [Worker -> RespObj \cup {Nil}]
    OBVIOUS
  <2>4. /\ reqQueue \in Seq(ReqObj) /\ Len(reqQueue) <= ReqCap
        /\ respQueue \in Seq(RespObj) /\ Len(respQueue) <= RespCap
        /\ issued \in Seq([kind : Kind, aligned : BOOLEAN, mu : Nat])
        /\ Len(issued) <= MaxReqs
    BY BoundAssumption
  <2>5. /\ rdPc \in {"decode", "queue", "closing", "stopped"}
        /\ rdReq \in ReqObj \cup {Nil} /\ flushMu \in Nat \ {0}
        /\ rlocks \subseteq Handle \X Nat
        /\ reqPool \subseteq ReqObj /\ respPool \subseteq RespObj
        /\ wrPc \in {"receive", "write", "stopped"} /\ wrResp \in RespObj \cup {Nil}
        /\ mainPc \in {"serve", "drain", "close", "returned"}
        /\ finished \subseteq Handle /\ wire \subseteq Reply /\ lost \subseteq Handle
    OBVIOUS
  <2>6. /\ reqClosed \in BOOLEAN /\ respClosed \in BOOLEAN
        /\ ctxDone \in BOOLEAN /\ strmOpen \in BOOLEAN
    OBVIOUS
  <2> QED BY <2>2, <2>3, <2>4, <2>5, <2>6 DEF TypeOK
<1>2. RequestsNotShared /\ InFlightMatch /\ RepliesBuilt
  BY DEF RequestsNotShared, InFlightMatch, RepliesBuilt, HoldsReq, HoldsResp
<1>3. EpochSharesMutex /\ UnfinishedIsLocked /\ FlushCoversEpoch
  BY DEF EpochSharesMutex, UnfinishedIsLocked, FlushCoversEpoch, Flushing
<1> QED  BY <1>1, <1>2, <1>3 DEF IInv

-----------------------------------------------------------------------------
\* Every step keeps the types: a worker only uses objects it has been handed,
\* so the handles it copies are handles of decoded requests.
LEMMA TypeStep ==
    ASSUME IInv, [Next]_vars
    PROVE  TypeOK'
<1> USE InputAssumption, ResultAssumption, BoundAssumption
<1> USE DEF IInv, Request, Response, Reply, Kind, Errno, Handle, rdVars, poolVars,
            chanVars, wVars, wrVars, obsVars
<1>1. ASSUME NEW o \in ReqObj, NEW in \in Input, Decode(o, in) PROVE TypeOK'
  <2>1. in \in [kind : Kind, aligned : BOOLEAN]
    OBVIOUS
  <2>2. Len(issued) + 1 \in 1..MaxReqs
    BY <1>1 DEF Decode, TypeOK
  <2>3. MutexFor(o, in.kind) \in Nat
    BY DEF MutexFor, TypeOK
  <2>4. reqObj' \in [ReqObj -> Request]
    BY <1>1, <2>1, <2>2, <2>3 DEF Decode, TypeOK
  <2>5. issued' \in Seq([kind : Kind, aligned : BOOLEAN, mu : Nat]) /\ Len(issued') <= MaxReqs
    BY <1>1, <2>1, <2>2, <2>3 DEF Decode, TypeOK
  <2>6. rlocks' \subseteq Handle \X Nat /\ flushMu' \in Nat \ {0}
    BY <1>1, <2>2 DEF Decode, TypeOK, NextMutex
  <2> HIDE DEF Request, Response, Reply, Kind, Errno, Handle
  <2> QED BY <1>1, <2>4, <2>5, <2>6 DEF Decode, TypeOK
<1>2. CASE QueueReq
  BY <1>2 DEF QueueReq, QueueHasRoom, TypeOK, RequestsNotShared, Nil
<1>3. CASE DecodeFails \/ StreamClosed \/ Disconnect
  <2> HIDE DEF Request, Response, Reply, Kind, Errno, Handle
  <2>1. CASE DecodeFails
    BY <2>1 DEF DecodeFails, StopReader, TypeOK
  <2>2. CASE StreamClosed
    BY <2>2 DEF StreamClosed, StopReader, TypeOK
  <2>3. CASE Disconnect
    BY <2>3 DEF Disconnect, StopReader, TypeOK
  <2> QED BY <1>3, <2>1, <2>2, <2>3
<1>4. ASSUME NEW w \in Worker, NEW o \in RespObj, ReceiveReq(w, o) PROVE TypeOK'
  <2> HIDE DEF Request, Response, Reply, Kind, Errno, Handle
  <2> QED BY <1>4 DEF ReceiveReq, TypeOK
<1>5. ASSUME NEW w \in Worker, Refuse(w) PROVE TypeOK'
  <2>1. wReq[w] \in ReqObj /\ wResp[w] \in RespObj
    BY <1>5 DEF Refuse, RequestsNotShared, RepliesBuilt, HoldsReq, HoldsResp
  <2>2. Set(respObj[wResp[w]], reqObj[wReq[w]], "EINVAL") \in Response
    BY <2>1 DEF Set, TypeOK
  <2>3. respObj' \in [RespObj -> Response]
    BY <1>5, <2>2 DEF Refuse, TypeOK
  <2> HIDE DEF Request, Response, Reply, Kind, Errno, Handle
  <2> QED BY <1>5, <2>3 DEF Refuse, TypeOK
<1>6. ASSUME NEW w \in Worker, CallDevice(w) PROVE TypeOK'
  <2>1. wReq[w] \in ReqObj /\ wResp[w] \in RespObj
    BY <1>6 DEF CallDevice, RequestsNotShared, RepliesBuilt, HoldsReq, HoldsResp
  <2>2. WithBuffer(respObj[wResp[w]], reqObj[wReq[w]]) \in Response
    BY <2>1 DEF WithBuffer, TypeOK
  <2>3. respObj' \in [RespObj -> Response]
    BY <1>6, <2>2 DEF CallDevice, TypeOK
  <2> QED BY SMTT(30), <1>6, <2>3 DEF CallDevice, TypeOK
<1>7. ASSUME NEW w \in Worker, WantLock(w) \/ LockThenFlush(w) \/ WorkerExits(w) PROVE TypeOK'
  <2> HIDE DEF Request, Response, Reply, Kind, Errno, Handle
  <2>1. CASE WantLock(w)
    BY <2>1 DEF WantLock, TypeOK
  <2>2. CASE LockThenFlush(w)
    BY <2>2 DEF LockThenFlush, TypeOK
  <2>3. CASE WorkerExits(w)
    BY <2>3 DEF WorkerExits, TypeOK
  <2> QED BY <1>7, <2>1, <2>2, <2>3
<1>8. ASSUME NEW w \in Worker, NEW err \in DevResult, DeviceReturns(w, err) PROVE TypeOK'
  <2>1. wReq[w] \in ReqObj /\ reqObj[wReq[w]].handle \in 1..Len(issued)
    BY <1>8 DEF DeviceReturns, RequestsNotShared, InFlightMatch, Matches, HoldsReq
  <2>2. reqObj[wReq[w]] \in Request /\ reqObj[wReq[w]].handle \in Handle
    BY <2>1 DEF TypeOK
  <2>3. Set(respObj[wResp[w]], reqObj[wReq[w]], err) \in Response
    <3>1. wResp[w] \in RespObj
      BY <1>8 DEF DeviceReturns, RepliesBuilt, HoldsReq, HoldsResp
    <3> QED BY <2>2, <3>1 DEF Set, TypeOK
  <2>5. respObj' \in [RespObj -> Response]
    BY <1>8, <2>3 DEF DeviceReturns, TypeOK
  <2>4. rlocks' \subseteq Handle \X Nat /\ finished' \subseteq Handle
    <3>1. rlocks' \subseteq rlocks /\ finished' \subseteq finished \cup {reqObj[wReq[w]].handle}
      BY <1>8 DEF DeviceReturns
    <3> QED BY <2>2, <3>1 DEF TypeOK
  <2> HIDE DEF Request, Response, Reply, Kind, Errno, Handle
  <2> QED BY <1>8, <2>4, <2>5 DEF DeviceReturns, TypeOK
<1>9. ASSUME NEW w \in Worker, SendResp(w) \/ RecycleReq(w) \/ SendBlocked(w) PROVE TypeOK'
  <2>1. wPc[w] = "reply" => wReq[w] \in ReqObj
    BY DEF RequestsNotShared, HoldsReq
  <2>2. wPc[w] \in {"reply", "blocked"} => wResp[w] \in RespObj
    BY DEF RepliesBuilt, HoldsReq, HoldsResp
  <2> HIDE DEF Request, Response, Reply, Kind, Errno, Handle
  <2>3. CASE SendResp(w)
    BY <2>1, <2>2, <2>3 DEF SendResp, TypeOK
  <2>4. CASE RecycleReq(w)
    BY <2>1, <2>4 DEF RecycleReq, TypeOK
  <2>5. CASE SendBlocked(w)
    BY <2>2, <2>5 DEF SendBlocked, TypeOK
  <2> QED BY <1>9, <2>3, <2>4, <2>5
<1>10. CASE ReceiveResp
  <2> HIDE DEF Request, Response, Reply, Kind, Errno, Handle
  <2> QED BY <1>10 DEF ReceiveResp, TypeOK
<1>11. CASE WriteReply
  <2>1. wrResp \in RespObj /\ respObj[wrResp].handle \in Handle
    BY <1>11 DEF WriteReply, RepliesBuilt, TypeOK, Nil
  <2>2. ReplyOf(respObj[wrResp]) \in Reply
    BY <2>1 DEF ReplyOf, TypeOK, Nil
  <2> HIDE DEF Request, Response, Reply, Kind, Errno, Handle
  <2> QED BY <1>11, <2>1, <2>2 DEF WriteReply, PutResp, TypeOK
<1>12. CASE WriterExits \/ MainSeesDone \/ WorkersDone \/ CloseDevice
  <2> HIDE DEF Request, Response, Reply, Kind, Errno, Handle
  <2>1. CASE WriterExits
    BY <2>1 DEF WriterExits, TypeOK
  <2>2. CASE MainSeesDone
    BY <2>2 DEF MainSeesDone, TypeOK
  <2>3. CASE WorkersDone
    BY <2>3 DEF WorkersDone, TypeOK
  <2>4. CASE CloseDevice
    BY <2>4 DEF CloseDevice, TypeOK
  <2> QED BY <1>12, <2>1, <2>2, <2>3, <2>4
<1>13. CASE UNCHANGED vars
  <2> HIDE DEF Request, Response, Reply, Kind, Errno, Handle
  <2> QED BY <1>13 DEF vars, TypeOK
<1> QED
  BY <1>1, <1>2, <1>3, <1>4, <1>5, <1>6, <1>7, <1>8, <1>9, <1>10, <1>11, <1>12,
     <1>13, NextSplits

-----------------------------------------------------------------------------
\* Every step keeps the ownership of the request objects: an object leaves the
\* pool for the reader, passes through the queue to one worker, and goes back.
LEMMA OwnershipStep ==
    ASSUME IInv, [Next]_vars
    PROVE  RequestsNotShared'
<1> USE DEF IInv, rdVars, poolVars, chanVars, wVars, wrVars, obsVars, HoldsReq
<1>1. ASSUME NEW o \in ReqObj, NEW in \in Input, Decode(o, in) PROVE RequestsNotShared'
  BY <1>1 DEF Decode, RequestsNotShared, TypeOK
<1>2. CASE QueueReq
  BY SMTT(30), <1>2 DEF QueueReq, RequestsNotShared, TypeOK
<1>3. CASE DecodeFails \/ StreamClosed \/ Disconnect
  BY <1>3 DEF DecodeFails, StreamClosed, Disconnect, StopReader, RequestsNotShared
<1>4. ASSUME NEW w \in Worker, NEW o \in RespObj, ReceiveReq(w, o) PROVE RequestsNotShared'
  BY <1>4 DEF ReceiveReq, RequestsNotShared, TypeOK
<1>5. ASSUME NEW w \in Worker,
             Refuse(w) \/ CallDevice(w) \/ WantLock(w) \/ LockThenFlush(w)
             \/ \E err \in DevResult : DeviceReturns(w, err)
      PROVE  RequestsNotShared'
  <2>1. HoldsReq(w) /\ HoldsReq(w)' /\ \A v \in Worker \ {w} : wPc'[v] = wPc[v]
    BY <1>5 DEF Refuse, CallDevice, WantLock, LockThenFlush, DeviceReturns, TypeOK
  <2>2. UNCHANGED <<rdPc, rdReq, reqPool, reqQueue, wReq>>
    BY <1>5 DEF Refuse, CallDevice, WantLock, LockThenFlush, DeviceReturns
  <2> QED BY <2>1, <2>2 DEF RequestsNotShared
<1>6. ASSUME NEW w \in Worker, SendResp(w) \/ RecycleReq(w) PROVE RequestsNotShared'
  <2>1. /\ HoldsReq(w) /\ reqPool' = reqPool \cup {wReq[w]} /\ ~HoldsReq(w)'
        /\ \A v \in Worker \ {w} : wPc'[v] = wPc[v] /\ wReq'[v] = wReq[v]
        /\ UNCHANGED <<rdPc, rdReq, reqQueue>>
    BY <1>6 DEF SendResp, RecycleReq, TypeOK
  <2> QED BY <2>1 DEF RequestsNotShared
<1>7. ASSUME NEW w \in Worker, SendBlocked(w) \/ WorkerExits(w) PROVE RequestsNotShared'
  BY <1>7 DEF SendBlocked, WorkerExits, RequestsNotShared, TypeOK
<1>8. CASE \/ ReceiveResp \/ WriteReply \/ WriterExits
           \/ MainSeesDone \/ WorkersDone \/ CloseDevice \/ UNCHANGED vars
  <2>1. UNCHANGED <<rdPc, rdReq, reqPool, reqQueue, wPc, wReq>>
    BY <1>8 DEF ReceiveResp, WriteReply, PutResp, WriterExits, MainSeesDone, WorkersDone,
                CloseDevice, vars
  <2> QED BY <2>1 DEF RequestsNotShared
<1> QED
  BY <1>1, <1>2, <1>3, <1>4, <1>5, <1>6, <1>7, <1>8, NextSplits

-----------------------------------------------------------------------------
\* Only the reader's Decode changes the contents of request objects, its list of
\* requests and its mutex.
LEMMA OnlyDecode ==
    ASSUME [Next]_vars
    PROVE  \/ \E o \in ReqObj, in \in Input : Decode(o, in)
           \/ UNCHANGED <<reqObj, issued, flushMu>>
<1> USE DEF rdVars, poolVars, chanVars, wVars, wrVars, obsVars
<1>1. ASSUME NEW w \in Worker, reqIOWorker(w) PROVE UNCHANGED <<reqObj, issued, flushMu>>
  BY <1>1 DEF reqIOWorker, ReceiveReq, Refuse, CallDevice, WantLock, LockThenFlush,
              DeviceReturns, SendResp, RecycleReq, SendBlocked, WorkerExits
<1>2. ASSUME QueueReq \/ DecodeFails \/ StreamClosed \/ Disconnect
      PROVE  UNCHANGED <<reqObj, issued, flushMu>>
  BY <1>2 DEF QueueReq, DecodeFails, StreamClosed, Disconnect
<1>3. ASSUME writeStrmWorker \/ processRequests \/ AllStopped \/ UNCHANGED vars
      PROVE  UNCHANGED <<reqObj, issued, flushMu>>
  BY <1>3 DEF writeStrmWorker, ReceiveResp, WriteReply, WriterExits, processRequests,
              MainSeesDone, WorkersDone, CloseDevice, AllStopped, vars
<1> QED BY <1>1, <1>2, <1>3 DEF Next, readStrmWorker

\* What Decode leaves: the requests decoded before and the objects outside the
\* pool as they were, the new request's object matching it.
LEMMA DecodeKeeps ==
    ASSUME IInv, NEW o \in ReqObj, NEW in \in Input, Decode(o, in)
    PROVE  /\ Len(issued') = Len(issued) + 1
           /\ \A g \in 1..Len(issued) : issued'[g] = issued[g]
           /\ issued'[Len(issued) + 1]
                = [kind |-> in.kind, aligned |-> in.aligned, mu |-> MutexFor(o, in.kind)]
           /\ issued'[Len(issued) + 1].kind = in.kind
           /\ issued'[Len(issued) + 1].mu = MutexFor(o, in.kind)
           /\ \A x \in ReqObj \ reqPool : reqObj'[x] = reqObj[x]
           /\ reqObj'[o] = [handle |-> Len(issued) + 1, kind |-> in.kind,
                            aligned |-> in.aligned, mu |-> MutexFor(o, in.kind)]
           /\ UNCHANGED <<wPc, wReq, finished, reqQueue>>
<1>1. issued' = Append(issued, [kind |-> in.kind, aligned |-> in.aligned,
                                mu |-> MutexFor(o, in.kind)])
  BY DEF Decode
<1>2. issued \in Seq([kind : Kind, aligned : BOOLEAN, mu : Nat])
  BY DEF IInv, TypeOK
<1>3. /\ Len(issued') = Len(issued) + 1
      /\ \A g \in 1..Len(issued) : issued'[g] = issued[g]
      /\ issued'[Len(issued) + 1]
           = [kind |-> in.kind, aligned |-> in.aligned, mu |-> MutexFor(o, in.kind)]
  BY <1>1, <1>2
<1>4. /\ \A x \in ReqObj \ reqPool : reqObj'[x] = reqObj[x]
      /\ reqObj'[o] = [handle |-> Len(issued) + 1, kind |-> in.kind,
                       aligned |-> in.aligned, mu |-> MutexFor(o, in.kind)]
      /\ UNCHANGED <<wPc, wReq, finished, reqQueue>>
  BY DEF Decode, IInv, TypeOK, wVars, chanVars
<1> QED BY <1>3, <1>4

\* Requests in flight stay what the reader decoded: Decode only writes an idle
\* object.
LEMMA MatchStep ==
    ASSUME IInv, [Next]_vars
    PROVE  InFlightMatch'
<1> USE DEF IInv, rdVars, poolVars, chanVars, wVars, wrVars, obsVars, HoldsReq
<1>1. ASSUME NEW o \in ReqObj, NEW in \in Input, Decode(o, in) PROVE InFlightMatch'
  <2>1. Matches(o)' /\ rdReq' = o
    BY <1>1, DecodeKeeps DEF Matches, Decode, TypeOK
  <2>2. ASSUME NEW x \in ReqObj \ reqPool, Matches(x) PROVE Matches(x)'
    <3>1. reqObj'[x] = reqObj[x] /\ reqObj[x].handle \in 1..Len(issued)
      BY <1>1, <2>2, DecodeKeeps DEF Matches
    <3>2. /\ issued'[reqObj[x].handle] = issued[reqObj[x].handle]
          /\ reqObj[x].handle \in 1..Len(issued')
      <4>1. \A g \in 1..Len(issued) : g \in 1..Len(issued') /\ issued'[g] = issued[g]
        <5>1. Len(issued) \in Nat
          BY DEF TypeOK
        <5>2. /\ Len(issued') = Len(issued) + 1
              /\ \A g \in 1..Len(issued) : issued'[g] = issued[g]
          BY <1>1, DecodeKeeps
        <5> QED BY <5>1, <5>2
      <4> QED BY <3>1, <4>1
    <3> QED BY <2>2, <3>1, <3>2 DEF Matches
  <2>3. \A i \in 1..Len(reqQueue') : Matches(reqQueue[i])'
    <3>1. \A i \in 1..Len(reqQueue) : reqQueue[i] \in ReqObj \ reqPool /\ Matches(reqQueue[i])
      BY DEF RequestsNotShared, InFlightMatch, TypeOK
    <3>2. reqQueue' = reqQueue
      BY <1>1, DecodeKeeps
    <3> QED BY <2>2, <3>1, <3>2
  <2>4. \A w \in Worker : HoldsReq(w)' => Matches(wReq[w])'
    BY <1>1, <2>2, DecodeKeeps DEF RequestsNotShared, InFlightMatch
  <2> QED BY <2>1, <2>3, <2>4 DEF InFlightMatch
<1>2. ASSUME UNCHANGED <<reqObj, issued>> PROVE \A x : Matches(x)' = Matches(x)
  BY <1>2 DEF Matches
<1>3. CASE QueueReq
  BY <1>2, <1>3 DEF QueueReq, InFlightMatch, TypeOK, RequestsNotShared
<1>4. CASE DecodeFails \/ StreamClosed \/ Disconnect
  BY <1>2, <1>4 DEF DecodeFails, StreamClosed, Disconnect, StopReader, InFlightMatch
<1>5. ASSUME NEW w \in Worker, NEW o \in RespObj, ReceiveReq(w, o) PROVE InFlightMatch'
  BY <1>2, <1>5 DEF ReceiveReq, InFlightMatch, TypeOK
<1>6. ASSUME NEW w \in Worker,
             Refuse(w) \/ CallDevice(w) \/ WantLock(w) \/ LockThenFlush(w)
             \/ \E err \in DevResult : DeviceReturns(w, err)
      PROVE  InFlightMatch'
  <2>1. HoldsReq(w) /\ \A v \in Worker \ {w} : wPc'[v] = wPc[v]
    BY <1>6 DEF Refuse, CallDevice, WantLock, LockThenFlush, DeviceReturns, TypeOK
  <2>2. UNCHANGED <<rdPc, rdReq, reqObj, issued, reqQueue, wReq>>
    BY <1>6 DEF Refuse, CallDevice, WantLock, LockThenFlush, DeviceReturns
  <2> QED BY <1>2, <2>1, <2>2 DEF InFlightMatch
<1>7. ASSUME NEW w \in Worker, SendResp(w) \/ RecycleReq(w) \/ SendBlocked(w) \/ WorkerExits(w)
      PROVE  InFlightMatch'
  <2>1. /\ ~HoldsReq(w)'
        /\ \A v \in Worker \ {w} : wPc'[v] = wPc[v] /\ wReq'[v] = wReq[v]
        /\ UNCHANGED <<rdPc, rdReq, reqObj, issued, reqQueue>>
    BY <1>7 DEF SendResp, RecycleReq, SendBlocked, WorkerExits, TypeOK
  <2> QED BY <1>2, <2>1 DEF InFlightMatch
<1>8. CASE \/ ReceiveResp \/ WriteReply \/ WriterExits
           \/ MainSeesDone \/ WorkersDone \/ CloseDevice \/ UNCHANGED vars
  <2>1. UNCHANGED <<rdPc, rdReq, reqObj, issued, reqQueue, wPc, wReq>>
    BY <1>8 DEF ReceiveResp, WriteReply, WriterExits, MainSeesDone, WorkersDone,
                CloseDevice, vars
  <2> QED BY <1>2, <2>1 DEF InFlightMatch
<1> QED
  BY <1>1, <1>3, <1>4, <1>5, <1>6, <1>7, <1>8, NextSplits

\* A reply in the response queue or with the writer has been built.
LEMMA RepliesStep ==
    ASSUME IInv, [Next]_vars
    PROVE  RepliesBuilt'
<1> USE DEF IInv, rdVars, poolVars, chanVars, wVars, wrVars, obsVars, HoldsReq, HoldsResp
<1>1. CASE \/ \E o \in ReqObj, in \in Input : Decode(o, in)
           \/ QueueReq \/ DecodeFails \/ StreamClosed \/ Disconnect
           \/ MainSeesDone \/ WorkersDone \/ CloseDevice \/ UNCHANGED vars
  <2>1. UNCHANGED <<wPc, wResp, respObj, respQueue, wrPc, wrResp>>
    BY <1>1 DEF Decode, QueueReq, DecodeFails, StreamClosed, Disconnect,
                MainSeesDone, WorkersDone, CloseDevice, vars
  <2> QED BY <2>1 DEF RepliesBuilt
<1>2. ASSUME NEW w \in Worker, NEW o \in RespObj, ReceiveReq(w, o) PROVE RepliesBuilt'
  BY <1>2 DEF ReceiveReq, RepliesBuilt, TypeOK
<1>3. ASSUME NEW w \in Worker, Refuse(w) \/ \E err \in DevResult : DeviceReturns(w, err)
      PROVE  RepliesBuilt'
  <2>1. /\ HoldsReq(w) /\ UNCHANGED <<wResp, respQueue, wrPc, wrResp>>
        /\ wPc' = [wPc EXCEPT ![w] = "reply"]
    BY <1>3 DEF Refuse, DeviceReturns
  <2>2. wResp[w] \in RespObj /\ reqObj[wReq[w]].handle # Nil
    BY <2>1 DEF RepliesBuilt, InFlightMatch, Matches, Nil
  <2>3. \A x \in RespObj \ {wResp[w]} : respObj'[x] = respObj[x]
    BY <1>3 DEF Refuse, DeviceReturns, TypeOK
  <2>4. respObj'[wResp[w]].handle = reqObj[wReq[w]].handle
    BY <1>3, <2>2 DEF Refuse, DeviceReturns, Set, TypeOK
  <2>5. \A x \in RespObj : respObj[x].handle # Nil => respObj'[x].handle # Nil
    BY <2>2, <2>3, <2>4
  <2>6. \A v \in Worker : v # w => wPc'[v] = wPc[v]
    BY <2>1 DEF TypeOK
  <2>7. \A i \in 1..Len(respQueue) : respQueue[i] \in RespObj
    BY DEF TypeOK
  <2> QED BY <2>1, <2>2, <2>4, <2>5, <2>6, <2>7 DEF RepliesBuilt
<1>4. ASSUME NEW w \in Worker, CallDevice(w) PROVE RepliesBuilt'
  <2>1. wResp[w] \in RespObj
    BY <1>4 DEF CallDevice, RepliesBuilt
  <2>2. \A x \in RespObj : respObj'[x].handle = respObj[x].handle
    BY <1>4, <2>1 DEF CallDevice, WithBuffer, TypeOK
  <2>3. /\ HoldsReq(w) /\ UNCHANGED <<wResp, respQueue, wrPc, wrResp>>
        /\ wPc' = [wPc EXCEPT ![w] = "device"]
    BY <1>4 DEF CallDevice
  <2>4. wPc'[w] = "device" /\ \A v \in Worker : v # w => wPc'[v] = wPc[v]
    BY <2>3 DEF TypeOK
  <2>5. \A i \in 1..Len(respQueue) : respQueue[i] \in RespObj
    BY DEF TypeOK
  <2> QED BY <2>1, <2>2, <2>3, <2>4, <2>5 DEF RepliesBuilt
<1>5. ASSUME NEW w \in Worker, WantLock(w) \/ LockThenFlush(w) \/ WorkerExits(w)
      PROVE  RepliesBuilt'
  BY <1>5 DEF WantLock, LockThenFlush, WorkerExits, RepliesBuilt, TypeOK
<1>6. ASSUME NEW w \in Worker, SendResp(w) \/ SendBlocked(w) PROVE RepliesBuilt'
  <2>1. /\ wPc[w] \in {"reply", "blocked"} /\ wPc'[w] = "receive"
        /\ \A v \in Worker : v # w => wPc'[v] = wPc[v] /\ wResp'[v] = wResp[v]
        /\ respQueue' = Append(respQueue, wResp[w])
        /\ UNCHANGED <<respObj, wrPc, wrResp>>
    BY <1>6 DEF SendResp, SendBlocked, TypeOK
  <2>2. wResp[w] \in RespObj /\ respObj[wResp[w]].handle # Nil
    BY <2>1 DEF RepliesBuilt
  <2>3. \A i \in 1..Len(respQueue') : respObj[respQueue'[i]].handle # Nil
    BY <2>1, <2>2 DEF RepliesBuilt, TypeOK
  <2> QED BY <2>1, <2>3 DEF RepliesBuilt
<1>7. ASSUME NEW w \in Worker, RecycleReq(w) PROVE RepliesBuilt'
  BY <1>7 DEF RecycleReq, RepliesBuilt, TypeOK
<1>8. CASE ReceiveResp
  BY <1>8 DEF ReceiveResp, RepliesBuilt, TypeOK
<1>9. CASE WriteReply \/ WriterExits
  BY <1>9 DEF WriteReply, WriterExits, RepliesBuilt
<1> QED
  BY <1>1, <1>2, <1>3, <1>4, <1>5, <1>6, <1>7, <1>8, <1>9, NextSplits

-----------------------------------------------------------------------------
\* The updates between two flushes carry the mutex the second flush locks.
LEMMA EpochStep ==
    ASSUME IInv, [Next]_vars
    PROVE  EpochSharesMutex'
<1>1. ASSUME NEW o \in ReqObj, NEW in \in Input, Decode(o, in) PROVE EpochSharesMutex'
  <2> DEFINE n == Len(issued)
  <2>1. n \in Nat
    BY DEF IInv, TypeOK
  <2>2. /\ Len(issued') = n + 1
        /\ \A g \in 1..n : issued'[g] = issued[g]
        /\ issued'[n + 1].kind = in.kind
        /\ issued'[n + 1].mu = MutexFor(o, in.kind)
    BY <1>1, DecodeKeeps
  <2>3. flushMu' = NextMutex(in.kind)
    BY <1>1 DEF Decode
  <2> HIDE DEF n
  <2>4. ASSUME NEW g \in 1..Len(issued'), IsUpdate(g)',
               \A k \in g..Len(issued') : issued'[k].kind # "flush"
        PROVE  issued'[g].mu = flushMu'
    <3>1. in.kind # "flush" /\ flushMu' = flushMu
      BY <2>1, <2>2, <2>3, <2>4 DEF NextMutex
    <3>2. CASE g = n + 1
      BY <2>2, <2>4, <3>1, <3>2 DEF IsUpdate, MutexFor
    <3>3. CASE g \in 1..n
      <4>1. IsUpdate(g) /\ \A k \in g..n : issued[k].kind # "flush"
        BY <2>1, <2>2, <2>4, <3>3 DEF IsUpdate
      <4>2. issued[g].mu = flushMu
        BY <3>3, <4>1 DEF IInv, EpochSharesMutex, n
      <4> QED BY <2>2, <3>1, <3>3, <4>2
    <3> QED BY <2>1, <2>2, <3>2, <3>3
  <2>5. ASSUME NEW g \in 1..Len(issued'), NEW h \in 1..Len(issued'),
               IsUpdate(g)', issued'[h].kind = "flush", SameEpoch(g, h)'
        PROVE  issued'[g].mu = issued'[h].mu
    <3>1. g \in 1..n /\ issued'[g] = issued[g] /\ IsUpdate(g)
      BY <2>1, <2>2, <2>5 DEF SameEpoch, IsUpdate
    <3>2. g < h /\ \A k \in g..(h - 1) : issued[k].kind # "flush"
      BY <2>1, <2>2, <2>5 DEF SameEpoch
    <3>3. CASE h = n + 1
      <4>1. issued[g].mu = flushMu
        BY <2>1, <3>1, <3>2, <3>3 DEF IInv, EpochSharesMutex, n
      <4>2. issued'[h].mu = flushMu
        BY <2>2, <2>5, <3>3 DEF MutexFor
      <4> QED BY <3>1, <4>1, <4>2
    <3>4. CASE h \in 1..n
      <4>1. issued'[h] = issued[h]
        BY <2>2, <3>4
      <4> QED BY <2>5, <3>1, <3>2, <3>4, <4>1 DEF IInv, EpochSharesMutex, SameEpoch, n
    <3> QED BY <2>1, <2>2, <3>3, <3>4
  <2> QED BY <2>4, <2>5 DEF EpochSharesMutex
<1>2. CASE UNCHANGED <<reqObj, issued, flushMu>>
  BY <1>2 DEF IInv, EpochSharesMutex, IsUpdate, SameEpoch
<1> QED BY <1>1, <1>2, OnlyDecode

\* Only Decode and the end of a device call touch the read locks and what is
\* finished.
LEMMA OnlyDecodeOrReturn ==
    ASSUME [Next]_vars
    PROVE  \/ \E o \in ReqObj, in \in Input : Decode(o, in)
           \/ \E w \in Worker, err \in DevResult : DeviceReturns(w, err)
           \/ UNCHANGED <<rlocks, finished>>
<1> USE DEF rdVars, poolVars, chanVars, wVars, wrVars, obsVars
<1>1. ASSUME NEW w \in Worker, reqIOWorker(w)
      PROVE  \/ \E err \in DevResult : DeviceReturns(w, err)
             \/ UNCHANGED <<rlocks, finished>>
  BY <1>1 DEF reqIOWorker, ReceiveReq, Refuse, CallDevice, WantLock, LockThenFlush,
              SendResp, RecycleReq, SendBlocked, WorkerExits
<1>2. ASSUME QueueReq \/ DecodeFails \/ StreamClosed \/ Disconnect
      PROVE  UNCHANGED <<rlocks, finished>>
  BY <1>2 DEF QueueReq, DecodeFails, StreamClosed, Disconnect
<1>3. ASSUME writeStrmWorker \/ processRequests \/ AllStopped \/ UNCHANGED vars
      PROVE  UNCHANGED <<rlocks, finished>>
  BY <1>3 DEF writeStrmWorker, ReceiveResp, WriteReply, WriterExits, processRequests,
              MainSeesDone, WorkersDone, CloseDevice, AllStopped, vars
<1> QED BY <1>1, <1>2, <1>3 DEF Next, readStrmWorker

\* An update keeps its read lock until the device has completed it.
LEMMA LockedStep ==
    ASSUME IInv, [Next]_vars
    PROVE  UnfinishedIsLocked'
<1>1. ASSUME NEW o \in ReqObj, NEW in \in Input, Decode(o, in) PROVE UnfinishedIsLocked'
  <2> DEFINE n == Len(issued)
  <2>1. n \in Nat
    BY DEF IInv, TypeOK
  <2>2. /\ Len(issued') = n + 1 /\ finished' = finished
        /\ \A g \in 1..n : issued'[g] = issued[g]
        /\ issued'[n + 1].kind = in.kind
        /\ issued'[n + 1].mu = MutexFor(o, in.kind)
    BY <1>1, DecodeKeeps
  <2>3. /\ rlocks \subseteq rlocks'
        /\ TakesLock(in.kind) => <<n + 1, flushMu>> \in rlocks'
    BY <1>1 DEF Decode
  <2> HIDE DEF n
  <2>4. ASSUME NEW g \in 1..(n + 1), IsUpdate(g)'
        PROVE  g \in finished' \/ <<g, issued'[g].mu>> \in rlocks'
    <3>1. CASE g = n + 1
      BY <2>2, <2>3, <2>4, <3>1 DEF IsUpdate, TakesLock, MutexFor
    <3>2. CASE g \in 1..n
      BY <2>2, <2>3, <2>4, <3>2 DEF IsUpdate, IInv, UnfinishedIsLocked, n
    <3> QED BY <2>1, <3>1, <3>2
  <2> QED BY <2>2, <2>4 DEF UnfinishedIsLocked
<1>2. ASSUME NEW w \in Worker, NEW err \in DevResult, DeviceReturns(w, err)
      PROVE  UnfinishedIsLocked'
  <2> DEFINE r == reqObj[wReq[w]]
  <2>1. r.mu = issued[r.handle].mu
    BY <1>2 DEF DeviceReturns, IInv, InFlightMatch, Matches, HoldsReq
  <2>2. /\ \A p \in rlocks \ rlocks' : p = <<r.handle, r.mu>> /\ r.handle \in finished'
        /\ finished \subseteq finished' /\ issued' = issued
    BY <1>2 DEF DeviceReturns
  <2> HIDE DEF r
  <2> QED BY <2>1, <2>2 DEF IInv, UnfinishedIsLocked, IsUpdate
<1>3. CASE UNCHANGED <<rlocks, finished>> /\ UNCHANGED <<reqObj, issued, flushMu>>
  BY <1>3 DEF IInv, UnfinishedIsLocked, IsUpdate
<1> QED BY <1>1, <1>2, <1>3, OnlyDecode, OnlyDecodeOrReturn

\* A worker enters dev.Flush() only when no read lock of its mutex is left, and
\* then every update of its epoch is finished.
LEMMA FlushStep ==
    ASSUME IInv, [Next]_vars
    PROVE  FlushCoversEpoch'
<1> DEFINE Covered(h) == \A g \in 1..Len(issued) :
                            IsUpdate(g) /\ SameEpoch(g, h) => g \in finished
<1>1. ASSUME NEW o \in ReqObj, NEW in \in Input, Decode(o, in), NEW w \in Worker, Flushing(w)'
      PROVE  Covered(reqObj[wReq[w]].handle)'
  <2> DEFINE n == Len(issued)
             h == reqObj[wReq[w]].handle
  <2>1. n \in Nat
    BY DEF IInv, TypeOK
  <2>2. /\ Len(issued') = n + 1 /\ \A g \in 1..n : issued'[g] = issued[g]
        /\ finished' = finished /\ wPc' = wPc /\ wReq' = wReq
        /\ \A x \in ReqObj \ reqPool : reqObj'[x] = reqObj[x]
    BY <1>1, DecodeKeeps
  <2>3. wReq[w] \in ReqObj \ reqPool /\ Matches(wReq[w])
    BY <1>1, <2>2 DEF Flushing, IInv, RequestsNotShared, InFlightMatch, HoldsReq
  <2>4. h' = h /\ h \in 1..n /\ Flushing(w)
    BY <1>1, <2>2, <2>3 DEF Flushing, Matches
  <2>5. Covered(h)
    BY <2>4 DEF IInv, FlushCoversEpoch
  <2> HIDE DEF n, h
  <2>6. ASSUME NEW g \in 1..(n + 1), IsUpdate(g)', SameEpoch(g, h)' PROVE g \in finished
    <3>1. g \in 1..n /\ g < h
      BY <2>1, <2>4, <2>6 DEF SameEpoch
    <3>2. IsUpdate(g)
      BY <2>2, <2>6, <3>1 DEF IsUpdate
    <3>3. \A k \in g..(h - 1) : k \in 1..n /\ issued'[k].kind # "flush"
      BY <2>1, <2>4, <2>6, <3>1 DEF SameEpoch
    <3>4. SameEpoch(g, h)
      BY <2>2, <3>1, <3>3 DEF SameEpoch
    <3> QED BY <2>5, <3>1, <3>2, <3>4 DEF n
  <2> QED BY <2>2, <2>4, <2>6 DEF h
<1>2. ASSUME UNCHANGED <<reqObj, issued>>, finished \subseteq finished', NEW w \in Worker,
             wReq'[w] = wReq[w], Flushing(w)
      PROVE  Covered(reqObj[wReq[w]].handle)'
  <2>1. Covered(reqObj[wReq[w]].handle)
    BY <1>2 DEF IInv, FlushCoversEpoch
  <2> QED BY <1>2, <2>1 DEF IsUpdate, SameEpoch
<1>3. ASSUME NEW w \in Worker, LockThenFlush(w), Flushing(w)'
      PROVE  Covered(reqObj[wReq[w]].handle)'
  <2> DEFINE r == reqObj[wReq[w]]
  <2>1. /\ wPc[w] = "lock" /\ Unlocked(r.mu)
        /\ UNCHANGED <<reqObj, wReq, issued, finished>>
    BY <1>3 DEF LockThenFlush, poolVars, wVars, obsVars
  <2>2. Matches(wReq[w]) /\ r.kind = "flush"
    BY <1>3, <2>1 DEF IInv, InFlightMatch, HoldsReq, Flushing
  <2>3. /\ r.handle \in 1..Len(issued)
        /\ issued[r.handle].kind = "flush" /\ issued[r.handle].mu = r.mu
    BY <2>2 DEF Matches
  <2>4. ASSUME NEW g \in 1..Len(issued), IsUpdate(g), SameEpoch(g, r.handle)
        PROVE  g \in finished
    <3>1. issued[g].mu = r.mu
      BY <2>3, <2>4 DEF IInv, EpochSharesMutex
    <3>2. <<g, issued[g].mu>> \notin rlocks
      BY <2>1, <3>1 DEF Unlocked
    <3> QED BY <2>4, <3>2 DEF IInv, UnfinishedIsLocked
  <2>5. Covered(r.handle)
    BY <2>4
  <2> QED BY <2>1, <2>5 DEF IsUpdate, SameEpoch
<1>4. ASSUME NEW w \in Worker, Flushing(w)', UNCHANGED reqObj
      PROVE  LockThenFlush(w) \/ (Flushing(w) /\ wReq'[w] = wReq[w])
  <2> USE DEF rdVars, poolVars, chanVars, wVars, wrVars, obsVars
  <2>1. ASSUME NEW v \in Worker, reqIOWorker(v)
        PROVE  \/ LockThenFlush(w)
               \/ wPc'[w] # "device" \/ reqObj[wReq'[w]].kind # "flush"
               \/ wPc[w] = "device" /\ wReq'[w] = wReq[w]
    <3>1. CASE CallDevice(v)
      BY <3>1 DEF CallDevice, IInv, TypeOK
    <3>2. CASE \/ \E o \in RespObj : ReceiveReq(v, o)
               \/ SendResp(v) \/ RecycleReq(v)
      BY <3>2 DEF ReceiveReq, SendResp, RecycleReq, IInv, TypeOK
    <3>3. CASE \/ Refuse(v) \/ WantLock(v) \/ SendBlocked(v) \/ WorkerExits(v)
               \/ \E err \in DevResult : DeviceReturns(v, err)
      BY <3>3 DEF Refuse, WantLock, SendBlocked, WorkerExits, DeviceReturns, IInv, TypeOK
    <3>4. CASE LockThenFlush(v)
      BY <3>4 DEF LockThenFlush, IInv, TypeOK
    <3> QED BY <2>1, <3>1, <3>2, <3>3, <3>4 DEF reqIOWorker
  <2>2. CASE \A v \in Worker : ~reqIOWorker(v)
    <3>1. ASSUME readStrmWorker PROVE UNCHANGED <<wPc, wReq>>
      BY <3>1 DEF readStrmWorker, Decode, QueueReq, DecodeFails, StreamClosed, Disconnect
    <3>2. ASSUME writeStrmWorker \/ processRequests \/ AllStopped \/ UNCHANGED vars
          PROVE  UNCHANGED <<wPc, wReq>>
      BY <3>2 DEF writeStrmWorker, ReceiveResp, WriteReply, WriterExits, processRequests,
                  MainSeesDone, WorkersDone, CloseDevice, AllStopped, vars
    <3>3. UNCHANGED <<wPc, wReq>>
      BY <2>2, <3>1, <3>2 DEF Next
    <3> QED BY <1>4, <3>3 DEF Flushing
  <2> QED BY <1>4, <2>1, <2>2 DEF Flushing
<1>5. UNCHANGED issued => finished \subseteq finished'
  <2>1. ASSUME NEW o \in ReqObj, NEW in \in Input, Decode(o, in) PROVE finished' = finished
    BY <2>1 DEF Decode
  <2>2. ASSUME NEW w \in Worker, NEW err \in DevResult, DeviceReturns(w, err)
        PROVE  finished \subseteq finished'
    BY <2>2 DEF DeviceReturns
  <2> QED BY <2>1, <2>2, OnlyDecodeOrReturn
<1>6. ASSUME NEW w \in Worker, Flushing(w)'
      PROVE  Covered(reqObj[wReq[w]].handle)'
  <2>1. CASE \E o \in ReqObj, in \in Input : Decode(o, in)
    BY <1>1, <1>6, <2>1
  <2>2. CASE UNCHANGED <<reqObj, issued, flushMu>>
    BY <1>2, <1>3, <1>4, <1>5, <1>6, <2>2
  <2> QED BY <2>1, <2>2, OnlyDecode
<1> QED BY <1>6 DEF FlushCoversEpoch

-----------------------------------------------------------------------------
\* The conjunction is inductive.
THEOREM Inductive == Spec => []IInv
<1>1. IInv /\ [Next]_vars => IInv'
  BY TypeStep, OwnershipStep, MatchStep, RepliesStep, EpochStep, LockedStep, FlushStep
     DEF IInv
<1> QED BY <1>1, InitInv, PTL DEF Spec

\* Every state of the processor is well typed: neither queue exceeds its
\* capacity, however the reader, the workers and the writer interleave, and every
\* reply written has the handle of a request.
THEOREM TypeCorrect == Spec => []TypeOK
<1>1. IInv => TypeOK
  BY DEF IInv
<1> QED BY <1>1, Inductive, PTL

\* A pooled request is never in two hands: reqPool.Put is always the last use.
THEOREM RequestsOwned == Spec => []RequestsNotShared
<1>1. IInv => RequestsNotShared
  BY DEF IInv
<1> QED BY <1>1, Inductive, PTL

\* While dev.Flush() runs, the writes and trims decoded since the flush before
\* have all been completed by the device.
THEOREM FlushCovers == Spec => []FlushCoversEpoch
<1>1. IInv => FlushCoversEpoch
  BY DEF IInv
<1> QED BY <1>1, Inductive, PTL
=============================================================================
