---------------------------- MODULE ReqProcessor ----------------------------
(***************************************************************************)
(* The request processor of usbdlib (pkg/usbdlib/reqproc.go, with the      *)
(* pooled objects of req.go and resp.go): one goroutine decodes NBD        *)
(* requests and queues them, a pool of I/O workers executes them against   *)
(* the Device, one goroutine writes the replies, and processRequests waits *)
(* for the shutdown.  All of them share two object pools, two bounded      *)
(* channels, a cancellable context and the per-epoch flush mutexes.        *)
(*                                                                         *)
(* A request is known by its handle: the h-th request decoded has handle   *)
(* h.  Buffers are abstracted to the handle they were last sized for.      *)
(***************************************************************************)
EXTENDS Naturals, Sequences

CONSTANTS
    Worker,     \* the I/O worker goroutines
    ReqObj,     \* the *request objects the pool can ever hold
    RespObj,    \* the *response objects the pool can ever hold
    Input,      \* what the kernel may send: records [kind, aligned]
    DevResult,  \* what a device call may return: "ok", "EIO"
    ReqCap,     \* capacity of reqQueue (64 in the code)
    RespCap,    \* capacity of respQueue (32 in the code)
    MaxReqs     \* bound: how many requests the kernel sends

Kind  == {"read", "write", "flush", "trim", "unknown"}
Errno == {"ok", "EINVAL", "EIO"}
Nil   == 0      \* no request, no mutex, empty buffer
Handle == 1..MaxReqs

ASSUME InputAssumption == Input \subseteq [kind : Kind, aligned : BOOLEAN]
ASSUME ResultAssumption == DevResult \subseteq {"ok", "EIO"} /\ DevResult # {}
ASSUME BoundAssumption == /\ ReqCap \in Nat \ {0}
                          /\ RespCap \in Nat \ {0}
                          /\ MaxReqs \in Nat
ASSUME NilAssumption   == Nil \notin ReqObj /\ Nil \notin RespObj
ASSUME WorkerAssumption == Worker # {}  \* workerCount is at least 1

VARIABLES
    \* readStrmWorker
    rdPc,       \* "decode", "queue" (sending on reqQueue), "closing", "stopped"
    rdReq,      \* the request it holds
    flushMu,    \* its current flush mutex (mutexes are numbered from 1)
    rlocks,     \* the read locks held: pairs <<handle, mutex>>
    \* shared between the goroutines
    reqObj,     \* contents of the request objects
    reqPool,    \* idle request objects
    reqQueue, reqClosed,
    respObj,    \* contents of the response objects
    respPool,   \* idle response objects
    respQueue, respClosed,
    ctxDone,    \* the context is cancelled
    strmOpen,   \* the command stream has not been closed
    \* reqIOWorker
    wPc,        \* see the worker actions
    wReq, wResp,\* the objects a worker holds, Nil when it holds none
    \* writeStrmWorker
    wrPc, wrResp,
    \* processRequests
    mainPc,     \* "serve", "drain", "close", "returned"
    \* what was observed, for the properties
    issued,     \* the requests decoded, by handle
    finished,   \* handles of the writes and trims the device has completed
    wire,       \* the replies written to the command stream
    lost        \* handles of the replies whose write failed

rdVars   == <<rdPc, rdReq, flushMu>>
poolVars == <<reqObj, reqPool, respObj, respPool>>
chanVars == <<reqQueue, reqClosed, respQueue, respClosed>>
wVars    == <<wPc, wReq, wResp>>
wrVars   == <<wrPc, wrResp>>
obsVars  == <<issued, finished, wire, lost>>
vars == <<rdVars, rlocks, poolVars, chanVars, ctxDone, strmOpen, wVars,
          wrVars, mainPc, obsVars>>

Request  == [handle : Handle \cup {Nil}, kind : Kind, aligned : BOOLEAN,
             mu : Nat]
Response == [handle : Handle \cup {Nil}, kind : Kind, err : Errno,
             buf : Handle \cup {Nil}]
Reply    == [handle : Handle, err : Errno, payload : Handle \cup {Nil}]

(***************************************************************************)
(* sync.Pool's New: a fresh request has no mutex, a fresh response no read *)
(* buffer.  An object that was never created and an idle one are both      *)
(* members of the pool.                                                    *)
(***************************************************************************)
newRequest  == [handle |-> Nil, kind |-> "unknown", aligned |-> TRUE, mu |-> Nil]
newResponse == [handle |-> Nil, kind |-> "unknown", err |-> "ok", buf |-> Nil]

Init ==
    /\ rdPc = "decode" /\ rdReq = Nil /\ flushMu = 1 /\ rlocks = {}
    /\ reqObj = [o \in ReqObj |-> newRequest] /\ reqPool = ReqObj
    /\ respObj = [o \in RespObj |-> newResponse] /\ respPool = RespObj
    /\ reqQueue = <<>> /\ reqClosed = FALSE
    /\ respQueue = <<>> /\ respClosed = FALSE
    /\ ctxDone = FALSE /\ strmOpen = TRUE
    /\ wPc = [w \in Worker |-> "receive"]
    /\ wReq = [w \in Worker |-> Nil] /\ wResp = [w \in Worker |-> Nil]
    /\ wrPc = "receive" /\ wrResp = Nil
    /\ mainPc = "serve"
    /\ issued = <<>> /\ finished = {} /\ wire = {} /\ lost = {}

-----------------------------------------------------------------------------
(* readStrmWorker *)

\* A worker inside flushMu.Lock() makes every later RLock of that mutex wait
\* (sync.RWMutex prefers the writer).
LockWanted(m) == \E w \in Worker : wPc[w] = "lock" /\ reqObj[wReq[w]].mu = m

\* The mutex a decoded request of this kind carries: writes, trims and flushes
\* get the current one, other requests keep what the pooled object had.
MutexForSwapped(o, kind) ==
    IF kind = "flush" THEN flushMu + 1
    ELSE IF kind \in {"write", "trim"} THEN flushMu ELSE reqObj[o].mu
MutexFor(o, kind) == IF kind \in {"write", "trim", "flush"} THEN flushMu
                     ELSE reqObj[o].mu

\* A write or a trim read-locks the current flush mutex ...
TakesLockWriteOnly(kind) == kind = "write"
TakesLock(kind) == kind \in {"write", "trim"}

\* ... and a flush leaves a new mutex to the requests that follow it.
NextMutexKept(kind) == flushMu
NextMutex(kind) == IF kind = "flush" THEN flushMu + 1 ELSE flushMu

\* reqPool.Get, Decode, and the switch on the type.
Decode(o, in) ==
    LET h == Len(issued) + 1
        m == MutexFor(o, in.kind)
    IN  /\ rdPc = "decode"
        /\ Len(issued) < MaxReqs
        /\ o \in reqPool
        /\ TakesLock(in.kind) => ~LockWanted(flushMu)
        /\ reqPool' = reqPool \ {o}
        /\ reqObj' = [reqObj EXCEPT ![o] = [handle |-> h, kind |-> in.kind,
                                            aligned |-> in.aligned, mu |-> m]]
        /\ rlocks' = IF TakesLock(in.kind)
                     THEN rlocks \cup {<<h, flushMu>>} ELSE rlocks
        /\ flushMu' = NextMutex(in.kind)
        /\ issued' = Append(issued, [kind |-> in.kind, aligned |-> in.aligned,
                                     mu |-> m])
        /\ rdPc' = "queue" /\ rdReq' = o
        /\ UNCHANGED <<respObj, respPool, chanVars, ctxDone, strmOpen, wVars,
                       wrVars, mainPc, finished, wire, lost>>

QueueHasRoomUnbounded == TRUE
QueueHasRoom == Len(reqQueue) < ReqCap

\* reqQueue <- req, which blocks while the queue is full.
QueueReq ==
    /\ rdPc = "queue" /\ QueueHasRoom
    /\ reqQueue' = Append(reqQueue, rdReq)
    /\ rdPc' = "decode" /\ rdReq' = Nil
    /\ UNCHANGED <<flushMu, rlocks, poolVars, reqClosed, respQueue, respClosed,
                   ctxDone, strmOpen, wVars, wrVars, mainPc, obsVars>>

\* The deferred close(reqQueue) of every return.
StopReaderNoClose == rdPc' = "stopped" /\ UNCHANGED reqClosed
StopReader == rdPc' = "stopped" /\ reqClosed' = TRUE

\* Decode fails (end of stream, bad magic number): the reader closes the
\* command stream and waits for that; nothing written afterwards arrives.
DecodeFails ==
    /\ rdPc = "decode"
    /\ strmOpen' = FALSE
    /\ rdPc' = "closing"
    /\ UNCHANGED <<rdReq, flushMu, rlocks, poolVars, chanVars, ctxDone, wVars,
                   wrVars, mainPc, obsVars>>

\* cmdStrm.Close() has returned: the context is cancelled.
StreamClosed ==
    /\ rdPc = "closing"
    /\ ctxDone' = TRUE
    /\ StopReader
    /\ UNCHANGED <<rdReq, flushMu, rlocks, poolVars, reqQueue, respQueue,
                   respClosed, strmOpen, wVars, wrVars, mainPc, obsVars>>

\* The kernel asks to disconnect.
Disconnect ==
    /\ rdPc = "decode"
    /\ ctxDone' = TRUE
    /\ StopReader
    /\ UNCHANGED <<rdReq, flushMu, rlocks, poolVars, reqQueue, respQueue,
                   respClosed, strmOpen, wVars, wrVars, mainPc, obsVars>>

readStrmWorker == \/ \E o \in ReqObj, in \in Input : Decode(o, in)
                  \/ QueueReq \/ DecodeFails \/ StreamClosed \/ Disconnect

-----------------------------------------------------------------------------
(* reqIOWorker and execute *)

\* req := <-reqQueue; respPool.Get().
ReceiveReq(w, o) ==
    /\ wPc[w] = "receive" /\ reqQueue # <<>>
    /\ o \in respPool
    /\ reqQueue' = Tail(reqQueue)
    /\ respPool' = respPool \ {o}
    /\ wReq' = [wReq EXCEPT ![w] = Head(reqQueue)]
    /\ wResp' = [wResp EXCEPT ![w] = o]
    /\ wPc' = [wPc EXCEPT ![w] = "execute"]
    /\ UNCHANGED <<rdVars, rlocks, reqObj, reqPool, respObj, reqClosed,
                   respQueue, respClosed, ctxDone, strmOpen, wrVars, mainPc, obsVars>>

\* execute refuses a request before it reaches the device.
Refused(r) == \/ r.kind \in {"read", "write"} /\ ~r.aligned
              \/ r.kind = "unknown"

\* resp.Set: the reply takes the request's handle and type, the read buffer is
\* left as it is.
Set(resp, r, err) == [handle |-> r.handle, kind |-> r.kind, err |-> err,
                      buf |-> resp.buf]

\* A misaligned read or write, or an unknown type.  The write returns before
\* its deferred RUnlock is registered: the read lock stays held.
Refuse(w) ==
    /\ wPc[w] = "execute" /\ Refused(reqObj[wReq[w]])
    /\ respObj' = [respObj EXCEPT ![wResp[w]] = Set(@, reqObj[wReq[w]], "EINVAL")]
    /\ wPc' = [wPc EXCEPT ![w] = "reply"]
    /\ UNCHANGED <<rdVars, rlocks, reqObj, reqPool, respPool, chanVars, ctxDone,
                   strmOpen, wReq, wResp, wrVars, mainPc, obsVars>>

\* GetReadBuffer: a read sizes the response's buffer for itself.
WithBufferUnsized(resp, r) == resp
WithBuffer(resp, r) ==
    [handle |-> resp.handle, kind |-> resp.kind, err |-> resp.err,
     buf |-> IF r.kind = "read" THEN r.handle ELSE resp.buf]

\* The device call starts.
CallDevice(w) ==
    LET r == reqObj[wReq[w]] IN
    /\ wPc[w] = "execute" /\ ~Refused(r) /\ r.kind # "flush"
    /\ respObj' = [respObj EXCEPT ![wResp[w]] = WithBuffer(@, r)]
    /\ wPc' = [wPc EXCEPT ![w] = "device"]
    /\ UNCHANGED <<rdVars, rlocks, reqObj, reqPool, respPool, chanVars, ctxDone,
                   strmOpen, wReq, wResp, wrVars, mainPc, obsVars>>

WantLockRecycles(w) ==
    /\ wPc[w] = "execute" /\ reqObj[wReq[w]].kind = "flush"
    /\ wPc' = [wPc EXCEPT ![w] = "lock"]
    /\ reqPool' = reqPool \cup {wReq[w]}
    /\ UNCHANGED <<rdVars, rlocks, reqObj, respObj, respPool, chanVars, ctxDone,
                   strmOpen, wReq, wResp, wrVars, mainPc, obsVars>>

\* A flush calls flushMu.Lock() ...
WantLock(w) ==
    /\ wPc[w] = "execute" /\ reqObj[wReq[w]].kind = "flush"
    /\ wPc' = [wPc EXCEPT ![w] = "lock"]
    /\ UNCHANGED <<rdVars, rlocks, poolVars, chanVars, ctxDone, strmOpen, wReq,
                   wResp, wrVars, mainPc, obsVars>>

\* No read lock of mutex m is held.
Unlocked(m) == \A p \in rlocks : p[2] # m

\* ... gets it once no read lock is left, unlocks it and calls dev.Flush().
LockThenFlush(w) ==
    /\ wPc[w] = "lock" /\ Unlocked(reqObj[wReq[w]].mu)
    /\ wPc' = [wPc EXCEPT ![w] = "device"]
    /\ UNCHANGED <<rdVars, rlocks, poolVars, chanVars, ctxDone, strmOpen, wReq,
                   wResp, wrVars, mainPc, obsVars>>

\* The device call returns, with or without an error; resp.Set; a write or a
\* trim releases its read lock.
DeviceReturns(w, err) ==
    LET r == reqObj[wReq[w]] IN
    /\ wPc[w] = "device"
    /\ respObj' = [respObj EXCEPT ![wResp[w]] = Set(@, r, err)]
    /\ IF r.kind \in {"write", "trim"}
       THEN /\ rlocks' = rlocks \ {<<r.handle, r.mu>>}
            /\ finished' = finished \cup {r.handle}
       ELSE UNCHANGED <<rlocks, finished>>
    /\ wPc' = [wPc EXCEPT ![w] = "reply"]
    /\ UNCHANGED <<rdVars, reqObj, reqPool, respPool, chanVars, ctxDone,
                   strmOpen, wReq, wResp, wrVars, mainPc, issued, wire, lost>>

\* select: respQueue has room, so the reply is sent and the request recycled.
SendResp(w) ==
    /\ wPc[w] = "reply" /\ Len(respQueue) < RespCap
    /\ respQueue' = Append(respQueue, wResp[w])
    /\ reqPool' = reqPool \cup {wReq[w]}
    /\ wReq' = [wReq EXCEPT ![w] = Nil] /\ wResp' = [wResp EXCEPT ![w] = Nil]
    /\ wPc' = [wPc EXCEPT ![w] = "receive"]
    /\ UNCHANGED <<rdVars, rlocks, reqObj, respObj, respPool, reqQueue,
                   reqClosed, respClosed, ctxDone, strmOpen, wrVars, mainPc, obsVars>>

RecycleReqDrops(w) ==
    /\ wPc[w] = "reply" /\ Len(respQueue) = RespCap
    /\ reqPool' = reqPool \cup {wReq[w]} /\ respPool' = respPool \cup {wResp[w]}
    /\ wReq' = [wReq EXCEPT ![w] = Nil] /\ wResp' = [wResp EXCEPT ![w] = Nil]
    /\ wPc' = [wPc EXCEPT ![w] = "receive"]
    /\ UNCHANGED <<rdVars, rlocks, reqObj, respObj, chanVars, ctxDone,
                   strmOpen, wrVars, mainPc, obsVars>>

\* default: respQueue is full, so the request is recycled before the blocking
\* send.
RecycleReq(w) ==
    /\ wPc[w] = "reply" /\ Len(respQueue) = RespCap
    /\ reqPool' = reqPool \cup {wReq[w]}
    /\ wReq' = [wReq EXCEPT ![w] = Nil]
    /\ wPc' = [wPc EXCEPT ![w] = "blocked"]
    /\ UNCHANGED <<rdVars, rlocks, reqObj, respObj, respPool, chanVars, ctxDone,
                   strmOpen, wResp, wrVars, mainPc, obsVars>>

SendBlocked(w) ==
    /\ wPc[w] = "blocked" /\ Len(respQueue) < RespCap
    /\ respQueue' = Append(respQueue, wResp[w])
    /\ wResp' = [wResp EXCEPT ![w] = Nil]
    /\ wPc' = [wPc EXCEPT ![w] = "receive"]
    /\ UNCHANGED <<rdVars, rlocks, poolVars, reqQueue, reqClosed, respClosed,
                   ctxDone, strmOpen, wReq, wrVars, mainPc, obsVars>>

\* The range over reqQueue ends: closed and drained.
RangeEndsUndrained == reqClosed
RangeEnds == reqQueue = <<>> /\ reqClosed

WorkerExits(w) ==
    /\ wPc[w] = "receive" /\ RangeEnds
    /\ wPc' = [wPc EXCEPT ![w] = "stopped"]
    /\ UNCHANGED <<rdVars, rlocks, poolVars, chanVars, ctxDone, strmOpen, wReq,
                   wResp, wrVars, mainPc, obsVars>>

reqIOWorker(w) ==
    \/ \E o \in RespObj : ReceiveReq(w, o)
    \/ Refuse(w) \/ CallDevice(w) \/ WantLock(w) \/ LockThenFlush(w)
    \/ \E err \in DevResult : DeviceReturns(w, err)
    \/ SendResp(w) \/ RecycleReq(w) \/ SendBlocked(w) \/ WorkerExits(w)

-----------------------------------------------------------------------------
(* writeStrmWorker *)

ReceiveRespRecycles ==
    /\ wrPc = "receive" /\ respQueue # <<>>
    /\ wrResp' = Head(respQueue) /\ respQueue' = Tail(respQueue)
    /\ respPool' = respPool \cup {Head(respQueue)}
    /\ wrPc' = "write"
    /\ UNCHANGED <<rdVars, rlocks, reqObj, reqPool, respObj, reqQueue, reqClosed,
                   respClosed, ctxDone, strmOpen, wVars, mainPc, obsVars>>

ReceiveResp ==
    /\ wrPc = "receive" /\ respQueue # <<>>
    /\ wrResp' = Head(respQueue) /\ respQueue' = Tail(respQueue)
    /\ wrPc' = "write"
    /\ UNCHANGED <<rdVars, rlocks, poolVars, reqQueue, reqClosed, respClosed,
                   ctxDone, strmOpen, wVars, mainPc, obsVars>>

\* resp.Write: the header, then the read buffer whenever the request was a read.
ReplyOf(resp) ==
    [handle |-> resp.handle, err |-> resp.err,
     payload |-> IF resp.kind = "read" THEN resp.buf ELSE Nil]

\* respPool.Put(resp)
PutResp == respPool' = respPool \cup {wrResp}

\* The write may fail at any time, and does on a stream that was closed.  Its error
\* is dropped (the test that follows reads an older err): the reply is lost and the
\* context is not cancelled.
WriteReply ==
    /\ wrPc = "write"
    /\ \/ strmOpen /\ wire' = wire \cup {ReplyOf(respObj[wrResp])} /\ UNCHANGED lost
       \/ lost' = lost \cup {respObj[wrResp].handle} /\ UNCHANGED wire
    /\ PutResp
    /\ wrPc' = "receive" /\ wrResp' = Nil
    /\ UNCHANGED <<rdVars, rlocks, reqObj, reqPool, respObj, chanVars, ctxDone,
                   strmOpen, wVars, mainPc, issued, finished>>

WriterExits ==
    /\ wrPc = "receive" /\ respQueue = <<>> /\ respClosed
    /\ wrPc' = "stopped"
    /\ UNCHANGED <<rdVars, rlocks, poolVars, chanVars, ctxDone, strmOpen, wVars,
                   wrResp, mainPc, obsVars>>

writeStrmWorker == ReceiveResp \/ WriteReply \/ WriterExits

-----------------------------------------------------------------------------
(* processRequests *)

\* <-ctx.Done()
MainSeesDone ==
    /\ mainPc = "serve" /\ ctxDone
    /\ mainPc' = "drain"
    /\ UNCHANGED <<rdVars, rlocks, poolVars, chanVars, ctxDone, strmOpen, wVars,
                   wrVars, obsVars>>

\* workersWg.Wait() returns.
WorkersWaitedOne == \E w \in Worker : wPc[w] = "stopped"
WorkersWaited == \A w \in Worker : wPc[w] = "stopped"

\* ... close(respQueue)
WorkersDone ==
    /\ mainPc = "drain" /\ WorkersWaited
    /\ respClosed' = TRUE
    /\ mainPc' = "close"
    /\ UNCHANGED <<rdVars, rlocks, poolVars, reqQueue, reqClosed, respQueue,
                   ctxDone, strmOpen, wVars, wrVars, obsVars>>

\* dev.Close(); return
CloseDevice ==
    /\ mainPc = "close"
    /\ mainPc' = "returned"
    /\ UNCHANGED <<rdVars, rlocks, poolVars, chanVars, ctxDone, strmOpen, wVars,
                   wrVars, obsVars>>

processRequests == MainSeesDone \/ WorkersDone \/ CloseDevice

\* All goroutines have ended.
AllStopped ==
    /\ mainPc = "returned" /\ rdPc = "stopped" /\ wrPc = "stopped"
    /\ UNCHANGED vars

Next == \/ readStrmWorker
        \/ \E w \in Worker : reqIOWorker(w)
        \/ writeStrmWorker
        \/ processRequests
        \/ AllStopped

Spec == Init /\ [][Next]_vars

(***************************************************************************)
(* Goroutines run, device calls return and the closing of the command      *)
(* stream ends; the kernel need not send anything.                         *)
(***************************************************************************)
Fairness ==
    /\ WF_vars(QueueReq) /\ WF_vars(StreamClosed)
    /\ \A w \in Worker : WF_vars(reqIOWorker(w))
    /\ WF_vars(writeStrmWorker)
    /\ WF_vars(processRequests)

FairSpec == Spec /\ Fairness

-----------------------------------------------------------------------------
(* Properties *)

TypeOK ==
    /\ rdPc \in {"decode", "queue", "closing", "stopped"}
    /\ rdReq \in ReqObj \cup {Nil}
    /\ flushMu \in Nat \ {0}
    /\ rlocks \subseteq Handle \X Nat
    /\ reqObj \in [ReqObj -> Request] /\ reqPool \subseteq ReqObj
    /\ respObj \in [RespObj -> Response] /\ respPool \subseteq RespObj
    /\ reqQueue \in Seq(ReqObj) /\ Len(reqQueue) <= ReqCap
    /\ respQueue \in Seq(RespObj) /\ Len(respQueue) <= RespCap
    /\ reqClosed \in BOOLEAN /\ respClosed \in BOOLEAN
    /\ ctxDone \in BOOLEAN /\ strmOpen \in BOOLEAN
    /\ wPc \in [Worker -> {"receive", "execute", "lock", "device", "reply",
                           "blocked", "stopped"}]
    /\ wReq \in [Worker -> ReqObj \cup {Nil}]
    /\ wResp \in [Worker -> RespObj \cup {Nil}]
    /\ wrPc \in {"receive", "write", "stopped"} /\ wrResp \in RespObj \cup {Nil}
    /\ mainPc \in {"serve", "drain", "close", "returned"}
    /\ issued \in Seq([kind : Kind, aligned : BOOLEAN, mu : Nat])
    /\ Len(issued) <= MaxReqs
    /\ finished \subseteq Handle
    /\ wire \subseteq Reply /\ lost \subseteq Handle

\* The states in which a worker holds a request, and a response.
HoldsReq(w)  == wPc[w] \in {"execute", "lock", "device", "reply"}
HoldsResp(w) == HoldsReq(w) \/ wPc[w] = "blocked"

\* A pooled request belongs to one party at a time: the idle pool, the reader,
\* one slot of reqQueue or one worker.  An early or a double reqPool.Put would
\* let the reader decode over a request that is still executing.
RequestsNotShared ==
    LET q == 1..Len(reqQueue) IN
    /\ rdPc = "queue" => rdReq \in ReqObj \ reqPool
    /\ \A i \in q : reqQueue[i] \notin reqPool
    /\ \A i, j \in q : reqQueue[i] = reqQueue[j] => i = j
    /\ \A w \in Worker : HoldsReq(w) =>
          /\ wReq[w] \in ReqObj \ reqPool
          /\ \A i \in q : reqQueue[i] # wReq[w]
          /\ \A v \in Worker : HoldsReq(v) /\ wReq[v] = wReq[w] => v = w
    /\ rdPc = "queue" => /\ \A i \in q : reqQueue[i] # rdReq
                         /\ \A w \in Worker : HoldsReq(w) => wReq[w] # rdReq

\* The same of a pooled response: the idle pool, one worker, one slot of
\* respQueue or the writer.  A response recycled before its last use would send
\* one request's buffer under another one's handle.
ResponsesNotShared ==
    LET q == 1..Len(respQueue) IN
    /\ wrPc = "write" => wrResp \in RespObj \ respPool
    /\ \A i \in q : respQueue[i] \notin respPool
    /\ \A i, j \in q : respQueue[i] = respQueue[j] => i = j
    /\ \A w \in Worker : HoldsResp(w) =>
          /\ wResp[w] \in RespObj \ respPool
          /\ \A i \in q : respQueue[i] # wResp[w]
          /\ \A v \in Worker : HoldsResp(v) /\ wResp[v] = wResp[w] => v = w
    /\ wrPc = "write" => /\ \A i \in q : respQueue[i] # wrResp
                         /\ \A w \in Worker : HoldsResp(w) => wResp[w] # wrResp

IsUpdate(h) == issued[h].kind \in {"write", "trim"}

\* Flush h closes the epoch that holds g: no other flush was decoded between.
SameEpoch(g, h) == g < h /\ \A k \in g..(h - 1) : issued[k].kind # "flush"

Flushing(w) == wPc[w] = "device" /\ reqObj[wReq[w]].kind = "flush"

\* While dev.Flush() runs for a flush, every write and trim decoded since the
\* flush before it has been completed by the device, however the workers were
\* scheduled.
FlushCoversEpoch ==
    \A w \in Worker : Flushing(w) =>
        \A g \in 1..Len(issued) :
            IsUpdate(g) /\ SameEpoch(g, reqObj[wReq[w]].handle) => g \in finished

\* The request object o holds the request it was decoded from.
Matches(o) ==
    LET h == reqObj[o].handle IN
    /\ h \in 1..Len(issued)
    /\ reqObj[o].kind = issued[h].kind
    /\ reqObj[o].aligned = issued[h].aligned
    /\ reqObj[o].mu = issued[h].mu

\* Every request in flight is still what the reader decoded.
InFlightMatch ==
    /\ rdPc = "queue" => Matches(rdReq)
    /\ \A i \in 1..Len(reqQueue) : Matches(reqQueue[i])
    /\ \A w \in Worker : HoldsReq(w) => Matches(wReq[w])

\* Whoever handles a response has one, and a reply that was built has a handle.
RepliesBuilt ==
    /\ \A w \in Worker : HoldsResp(w) => wResp[w] \in RespObj
    /\ \A w \in Worker : wPc[w] \in {"reply", "blocked"} => respObj[wResp[w]].handle # Nil
    /\ \A i \in 1..Len(respQueue) : respObj[respQueue[i]].handle # Nil
    /\ wrPc = "write" => wrResp \in RespObj /\ respObj[wrResp].handle # Nil

\* The updates of one epoch share its flush's mutex.
EpochSharesMutex ==
    /\ \A g \in 1..Len(issued) :
          IsUpdate(g) /\ (\A k \in g..Len(issued) : issued[k].kind # "flush")
              => issued[g].mu = flushMu
    /\ \A g, h \in 1..Len(issued) :
          IsUpdate(g) /\ issued[h].kind = "flush" /\ SameEpoch(g, h)
              => issued[g].mu = issued[h].mu

\* An update that the device has not completed holds its read lock.
UnfinishedIsLocked ==
    \A g \in 1..Len(issued) :
        IsUpdate(g) => g \in finished \/ <<g, issued[g].mu>> \in rlocks

\* The inductive invariant behind FlushCoversEpoch.
IInv == /\ TypeOK /\ RequestsNotShared /\ InFlightMatch /\ RepliesBuilt
        /\ EpochSharesMutex /\ UnfinishedIsLocked /\ FlushCoversEpoch

\* What the comment on request.flushMu says: flushes "ensure all previous writes
\* are committed before flushing", the ones before an earlier flush that is
\* still waiting included.
FlushCoversAllPrevious ==
    \A w \in Worker : Flushing(w) =>
        \A g \in 1..(reqObj[wReq[w]].handle - 1) : IsUpdate(g) => g \in finished

\* The handles of the replies that are built and not yet written.
Pending == {respObj[wResp[w]].handle : w \in {v \in Worker : wPc[v] \in {"reply", "blocked"}}}
           \cup {respObj[respQueue[i]].handle : i \in 1..Len(respQueue)}
           \cup (IF wrPc = "write" THEN {respObj[wrResp].handle} ELSE {})

\* The handles of the requests that are not executed yet.
Waiting == {reqObj[wReq[w]].handle : w \in {v \in Worker : wPc[v] \in {"execute", "lock", "device"}}}
           \cup {reqObj[reqQueue[i]].handle : i \in 1..Len(reqQueue)}
           \cup (IF rdPc = "queue" THEN {reqObj[rdReq].handle} ELSE {})

Replied == {r.handle : r \in wire}

\* Every request decoded is in exactly one place: still to execute, with its
\* reply on the way, answered, or with a reply whose write failed.  None is dropped
\* by a full queue or by the shutdown, none is answered twice, and no reply carries
\* a handle that is not outstanding.
EachRequestOnce ==
    /\ Waiting \cap Pending = {} /\ Replied \cap lost = {}
    /\ (Replied \cup lost) \cap (Waiting \cup Pending) = {}
    /\ Replied \cup lost \cup Waiting \cup Pending = 1..Len(issued)

\* A reply reports what happened to its own request: a read that succeeded
\* carries the buffer that was filled for it, a write or trim acknowledged as
\* successful has been completed by the device, and exactly the requests that
\* execute refuses are answered EINVAL.
RepliesAreOwn ==
    \A r \in wire :
        LET q == issued[r.handle] IN
        /\ r.err = "ok" /\ q.kind = "read" => r.payload = r.handle
        /\ r.err = "ok" /\ IsUpdate(r.handle) => r.handle \in finished
        /\ r.err = "EINVAL" <=> Refused(q)

\* A simple reply carries data only for a read that succeeded (the protocol
\* document the comment on response points to).
ErrorReplyHasNoPayload == \A r \in wire : r.err # "ok" => r.payload = Nil

\* The reader never has to wait for a flush to take its lock: a flush that is
\* in flight always carries a mutex the reader has given up.
ReaderNeverLocksOut ==
    /\ \A w \in Worker : HoldsReq(w) /\ reqObj[wReq[w]].kind = "flush"
          => reqObj[wReq[w]].mu # flushMu
    /\ \A p \in rlocks : p[2] <= flushMu

\* A worker releases a read lock only if its request holds it (RUnlock of an
\* unlocked RWMutex is a fatal error), and holds it while the device writes.
UpdateHoldsLock ==
    \A w \in Worker :
        LET r == reqObj[wReq[w]] IN
        wPc[w] \in {"execute", "device"} /\ r.kind \in {"write", "trim"}
            => <<r.handle, r.mu>> \in rlocks

\* The device is closed, and respQueue too, only when nobody can use them any
\* more: no request is queued or executing and none can come.
ClosedWhenIdle ==
    respClosed => /\ rdPc = "stopped" /\ reqQueue = <<>>
                  /\ \A w \in Worker : wPc[w] = "stopped"

\* A misaligned write was decoded: its read lock is never released, and a flush
\* that comes after it waits for ever.
LockLost == \E h \in 1..Len(issued) : issued[h].kind = "write" /\ ~issued[h].aligned

Ended == mainPc = "returned" /\ rdPc = "stopped" /\ wrPc = "stopped"

\* A flush that waits for its mutex waits only for updates that workers execute at
\* the moment (and for lost locks): never for one that is still in reqQueue, where
\* it would stay if every worker waited for such a mutex.
FlushWaitsForWorkers ==
    \A w \in Worker : wPc[w] = "lock" =>
        \A p \in rlocks : p[2] = reqObj[wReq[w]].mu =>
            \/ issued[p[1]].kind = "write" /\ ~issued[p[1]].aligned
            \/ \E v \in Worker : wPc[v] \in {"execute", "device"} /\ reqObj[wReq[v]].handle = p[1]

\* What each goroutine has to wait for; the kernel need not send anything, and a pool
\* always has an object.
ReaderReady == rdPc = "closing" \/ (rdPc = "queue" /\ QueueHasRoom)
WorkerReady(w) ==
    \/ wPc[w] \in {"execute", "device", "reply"}
    \/ wPc[w] = "receive" /\ (reqQueue # <<>> \/ RangeEnds)
    \/ wPc[w] = "lock" /\ Unlocked(reqObj[wReq[w]].mu)
    \/ wPc[w] = "blocked" /\ Len(respQueue) < RespCap
WriterReady == wrPc = "write" \/ (wrPc = "receive" /\ (respQueue # <<>> \/ respClosed))
MainReady == \/ mainPc = "serve" /\ ctxDone
             \/ mainPc = "drain" /\ WorkersWaited
             \/ mainPc = "close"
SomeoneReady == ReaderReady \/ (\E w \in Worker : WorkerReady(w)) \/ WriterReady \/ MainReady

\* The bounded queues, the flush mutexes and the shutdown never make everyone wait:
\* while a request is not answered, or the shutdown is not over, somebody can go on,
\* unless a lock was lost.
NeverStuck ==
    (Waiting \cup Pending # {} \/ (ctxDone /\ ~Ended)) /\ ~LockLost => SomeoneReady

\* Who is ready can take a step.
ReadyCanStep ==
    SomeoneReady /\ respPool # {} =>
        ENABLED (QueueReq \/ StreamClosed \/ (\E w \in Worker : reqIOWorker(w))
                 \/ writeStrmWorker \/ processRequests)

\* Every request decoded is answered, or its reply was tried and could not be
\* written, unless a lock is lost; the shutdown does not cut it off.
EveryRequestAnswered ==
    \A h \in Handle : Len(issued) >= h ~> (h \in Replied \cup lost \/ LockLost)

\* Once the context is done every goroutine ends: "readStrmWorker is checking
\* this and will close this.reqQueue killing IO workers".
ShutdownCompletes == ctxDone ~> (Ended \/ LockLost)

\* The same, although a lock may be lost.
ShutdownAlwaysCompletes == ctxDone ~> Ended
=============================================================================
