----------------------------- MODULE BufMgrCore -----------------------------
(***************************************************************************)
(* rtl/buf_mgr/buf_mgr_core.sv: the free list and the queue manager wired  *)
(* together, driven by the port front ends that use them                   *)
(* (rtl/dma/ingress_port_wr.sv, rtl/dma/egress_port_rd.sv) and by the      *)
(* link/flush inputs that rtl/common/port_link_ctrl.sv produces.           *)
(*                                                                         *)
(* Every FSM transition is one step.  All FSMs run off one clock and       *)
(* interact only through registered requests and same-cycle grants, so a   *)
(* clock cycle is a sequence of these steps: the free list's, then the     *)
(* queue manager's, then the ports'.  A granted handshake is a joint step. *)
(***************************************************************************)
EXTENDS QueueMgr

CONSTANTS
  Senders,   \* the ports on which frames arrive
  Toggling   \* the ports whose link changes

ASSUME TrafficAssumption == Senders \subseteq Ports /\ Toggling \subseteq Ports

VARIABLES
  ingState,  \* per ingress front end: state_q, S_DMA_REQ and S_DMA_SERVE as DMA
  ingBuf,    \* bufid_q while the front end holds a buffer
  ingInfo,   \* length_q and the port's tag
  egrState,  \* per egress front end: state_q, S_DMA_* as DMA, S_RD_*/S_STREAM as STREAM
  egrBuf,    \* bufid_q while the front end holds a buffer
  egrInfo,   \* length_q and the dequeue_meta that came with it
  linkUp,    \* link_up_i, as a set of ports
  flushDue   \* ports whose flush pulse is still in port_link_ctrl's delay line

ingVars == <<ingState, ingBuf, ingInfo>>
egrVars == <<egrState, egrBuf, egrInfo>>
linkVars == <<linkUp, flushDue>>
vars == <<flVars, qmVars, ingVars, egrVars, linkVars>>

Init ==
  /\ FreeListInit
  /\ QueueInit
  /\ ingState = [i \in Ports |-> "RECV"]
  /\ ingBuf = [i \in Ports |-> None]
  /\ ingInfo = [i \in Ports |-> None]
  /\ egrState = [p \in Ports |-> "DEQ_WAIT"]
  /\ egrBuf = [p \in Ports |-> None]
  /\ egrInfo = [p \in Ports |-> None]
  /\ linkUp = {}
  /\ flushDue = {}

PortType ==
  /\ ingState \in [Ports -> {"RECV", "ALLOC_WAIT", "DMA", "ENQ_WAIT"}]
  /\ ingBuf \in [Ports -> OrNone(Buffers)]
  /\ ingInfo \in [Ports -> OrNone(Infos)]
  /\ egrState \in [Ports -> {"DEQ_WAIT", "DMA", "RELEASE_WAIT", "STREAM"}]
  /\ egrBuf \in [Ports -> OrNone(Buffers)]
  /\ egrInfo \in [Ports -> OrNone(Infos)]
  /\ linkUp \subseteq Ports
  /\ flushDue \subseteq Ports

-----------------------------------------------------------------------------
EnqRequests == {i \in Ports : ingState[i] = "ENQ_WAIT"}
DeqRequests == {p \in Ports : egrState[p] = "DEQ_WAIT"}
PortReleases == {p \in Ports : egrState[p] = "RELEASE_WAIT"}

\* The requests that the free list serves before a release.
QueueMgrWaits == qmState \in {"ENQ_REF_WAIT", "ENQ_DROP_WAIT"}
ReleasePending == PortReleases # {} \/ qmState = "FL_REL"

-----------------------------------------------------------------------------
(* Ingress front end *)

\* S_RECV, the last word of a good frame.  An errored frame leaves the state
\* as it was.
ReceiveFrame(i) ==
  /\ ingState[i] = "RECV"
  /\ ingState' = [ingState EXCEPT ![i] = "ALLOC_WAIT"]
  /\ \E f \in Infos : ingInfo' = [ingInfo EXCEPT ![i] = f]
  /\ UNCHANGED <<flVars, qmVars, ingBuf, egrVars, linkVars>>

AllocBlocked == QueueMgrWaits \/ ReleasePending

Alloc(i) ==
  /\ ingState[i] = "ALLOC_WAIT"
  /\ ~AllocBlocked
  /\ AllocPop
  /\ ingState' = [ingState EXCEPT ![i] = "DMA"]
  /\ ingBuf' = [ingBuf EXCEPT ![i] = Head(freeFifo)]
  /\ UNCHANGED <<qmVars, ingInfo, egrVars, linkVars>>

\* The write DMA engine has moved the frame to DDR and the lookup result is in.
DmaWrite(i) ==
  /\ ingState[i] = "DMA"
  /\ ingState' = [ingState EXCEPT ![i] = "ENQ_WAIT"]
  /\ UNCHANGED <<flVars, qmVars, ingBuf, ingInfo, egrVars, linkVars>>

\* The resolver may hand over any mask, the empty one included.
StartEnqueue(i) ==
  /\ \E mask \in SUBSET Ports :
        EnqPick(i, ingBuf[i], ingInfo[i], mask, linkUp, EnqRequests, DeqRequests)
  /\ UNCHANGED <<flVars, ingVars, egrVars, linkVars>>

CompleteEnqueue ==
  /\ EnqAck
  /\ ingState' = [ingState EXCEPT ![enqPort] = "RECV"]
  /\ ingBuf' = [ingBuf EXCEPT ![enqPort] = None]
  /\ ingInfo' = [ingInfo EXCEPT ![enqPort] = None]
  /\ UNCHANGED <<flVars, egrVars, linkVars>>

-----------------------------------------------------------------------------
(* Egress front end *)

StartDequeue(p) ==
  /\ DeqPick(p, EnqRequests, DeqRequests)
  /\ UNCHANGED <<flVars, ingVars, egrVars, linkVars>>

CompleteDequeue ==
  /\ DeqComplete
  /\ egrState' = [egrState EXCEPT ![deqPort] = "DMA"]
  /\ egrBuf' = [egrBuf EXCEPT ![deqPort] = head[deqPort]]
  /\ egrInfo' = [egrInfo EXCEPT ![deqPort] = infoRead]
  /\ UNCHANGED <<flVars, ingVars, linkVars>>

\* The read DMA engine has copied the frame out of DDR.
DmaRead(p) ==
  /\ egrState[p] = "DMA"
  /\ egrState' = [egrState EXCEPT ![p] = "RELEASE_WAIT"]
  /\ UNCHANGED <<flVars, qmVars, ingVars, egrBuf, egrInfo, linkVars>>

\* S_STREAM, the last word is taken by the MAC.
FrameSent(p) ==
  /\ egrState[p] = "STREAM"
  /\ egrState' = [egrState EXCEPT ![p] = "DEQ_WAIT"]
  /\ UNCHANGED <<flVars, qmVars, ingVars, egrBuf, egrInfo, linkVars>>

-----------------------------------------------------------------------------
(* Handshakes between the free list and its requesters *)

FillStep ==
  /\ Fill
  /\ UNCHANGED <<qmVars, ingVars, egrVars, linkVars>>

GrantSetRef ==
  /\ SetRefGranted
  /\ SetRef(bufid, Cardinality(destmask))
  /\ UNCHANGED <<ingVars, egrVars, linkVars>>

GrantDirectFree ==
  /\ DirectFreeGranted
  /\ DirectFree(bufid)
  /\ UNCHANGED <<ingVars, egrVars, linkVars>>

StartPortRelease(p) ==
  /\ p \in PortReleases
  /\ ~QueueMgrWaits
  /\ ReleaseRead(p, egrBuf[p])
  /\ UNCHANGED <<qmVars, ingVars, egrVars, linkVars>>

StartFlushRelease ==
  /\ qmState = "FL_REL"
  /\ ReleaseRead(FlushSlot, flBuf)
  /\ UNCHANGED <<qmVars, ingVars, egrVars, linkVars>>

GrantPortRelease ==
  /\ relSlot # FlushSlot
  /\ ReleaseWrite
  /\ egrState' = [egrState EXCEPT ![relSlot] = "STREAM"]
  /\ egrBuf' = [egrBuf EXCEPT ![relSlot] = None]
  /\ egrInfo' = [egrInfo EXCEPT ![relSlot] = None]
  /\ UNCHANGED <<qmVars, ingVars, linkVars>>

GrantFlushRelease ==
  /\ relSlot = FlushSlot
  /\ ReleaseWrite
  /\ FlushReleased
  /\ UNCHANGED <<ingVars, egrVars, linkVars>>

-----------------------------------------------------------------------------
(* Queue manager steps that involve nobody else *)

QueueStep ==
  /\ \/ IdleStep(EnqRequests, DeqRequests)
     \/ EnqLen
     \/ EnqFindNone
     \/ \E p \in Ports : EnqFind(p)
     \/ EnqLinkOldTail
     \/ EnqLinkNew
     \/ DeqRead
     \/ \E p \in Ports : FlushPick(p)
     \/ FlushRead
     \/ FlushComplete
  /\ UNCHANGED <<flVars, ingVars, egrVars, linkVars>>

-----------------------------------------------------------------------------
(* Link inputs: port_link_ctrl drops link_up_i before it sends the flush    *)
(* pulse of a LINK_CLR write.  FWD_CLR and LEARN_CLR also flush, whatever   *)
(* the link.  The link may come up again at any time: the firmware's wait   *)
(* for flush_busy_o is not relied on.                                       *)

LinkDown(p) ==
  /\ p \in linkUp
  /\ linkUp' = linkUp \ {p}
  /\ flushDue' = flushDue \cup {p}
  /\ UNCHANGED <<flVars, qmVars, ingVars, egrVars>>

AskFlush(p) ==
  /\ p \notin flushDue
  /\ flushDue' = flushDue \cup {p}
  /\ UNCHANGED <<flVars, qmVars, ingVars, egrVars, linkUp>>

FlushPulse(p) ==
  /\ p \in flushDue
  /\ flushDue' = flushDue \ {p}
  /\ FlushRequest(p)
  /\ UNCHANGED <<flVars, ingVars, egrVars, linkUp>>

LinkSet(p) ==
  /\ p \notin linkUp
  /\ linkUp' = linkUp \cup {p}
  /\ UNCHANGED <<flVars, qmVars, ingVars, egrVars, flushDue>>

-----------------------------------------------------------------------------
Next ==
  \/ FillStep \/ GrantSetRef \/ GrantDirectFree
  \/ StartFlushRelease \/ GrantPortRelease \/ GrantFlushRelease
  \/ QueueStep \/ CompleteEnqueue \/ CompleteDequeue
  \/ \E i \in Senders : ReceiveFrame(i)
  \/ \E p \in Ports :
        \/ Alloc(p) \/ DmaWrite(p) \/ StartEnqueue(p)
        \/ StartDequeue(p) \/ DmaRead(p) \/ FrameSent(p) \/ StartPortRelease(p)
        \/ FlushPulse(p) \/ LinkSet(p)
  \/ \E p \in Toggling : LinkDown(p) \/ AskFlush(p)

Spec == Init /\ [][Next]_vars

-----------------------------------------------------------------------------
(* Scheduling: every FSM takes an enabled transition on the next clock      *)
(* edge, so each engine is weakly fair; the DMA engines and the MACs finish *)
(* what they start.  Nothing is assumed about which requester an arbiter    *)
(* picks.                                                                   *)

FreeListEngine ==
  \/ FillStep \/ GrantSetRef \/ GrantDirectFree
  \/ StartFlushRelease \/ GrantPortRelease \/ GrantFlushRelease
  \/ \E p \in Ports : Alloc(p) \/ StartPortRelease(p)

QueueEngine ==
  \/ QueueStep \/ CompleteEnqueue \/ CompleteDequeue
  \/ \E p \in Ports : StartEnqueue(p) \/ StartDequeue(p)

Fairness ==
  /\ WF_vars(FreeListEngine)
  /\ WF_vars(QueueEngine)
  /\ \A p \in Ports :
        /\ WF_vars(DmaWrite(p))
        /\ WF_vars(DmaRead(p))
        /\ WF_vars(FrameSent(p))

FairSpec == Spec /\ Fairness

-----------------------------------------------------------------------------
(* Who uses a buffer *)

QueuedAt(p, b) == \E k \in 1 .. Len(q[p]) : q[p][k].buf = b

\* The enqueue in progress has handed its buffer over to the queues, or back
\* to the free list.
HandedOver(i) ==
  enqPort = i /\ qmState \in {"ENQ_FIND", "ENQ_LINK_OLDTAIL", "ENQ_LINK_NEW", "ENQ_ACK"}
IngressHolds(i, b) == ingBuf[i] = b /\ ~HandedOver(i)

Linking == qmState \in {"ENQ_FIND", "ENQ_LINK_OLDTAIL", "ENQ_LINK_NEW"}
LinkingTo(p, b) == Linking /\ bufid = b /\ p \in Unlinked
FlushHolds(p, b) == qmState = "FL_REL" /\ flPort = p /\ flBuf = b

\* The ports that still have a reference to b.
Holders(b) ==
  {p \in Ports : QueuedAt(p, b) \/ LinkingTo(p, b) \/ egrBuf[p] = b \/ FlushHolds(p, b)}

IsFree(b) == b \in RangeOf(freeFifo) \/ (flState = "FILL" /\ b >= fillCnt)
FillInOrder == flState = "FILL" => RangeOf(freeFifo) = 0 .. fillCnt - 1

-----------------------------------------------------------------------------
(* Safety *)

\* Every register and memory of the buffer manager and its front ends holds a
\* value of its type.
TypeOK == FreeListType /\ QueueType /\ PortType

\* A front end knows its buffer and frame exactly in the states that use them.
FrontEndsAgree ==
  \A i \in Ports :
    /\ ingState[i] \in {"DMA", "ENQ_WAIT"} <=> ingBuf[i] # None
    /\ ingState[i] # "RECV" <=> ingInfo[i] # None
    /\ egrState[i] \in {"DMA", "RELEASE_WAIT"} <=> egrBuf[i] # None
    /\ egrBuf[i] # None <=> egrInfo[i] # None

EnqueueAgrees ==
  /\ IF qmState \in EnqStates
     THEN /\ enqPort # None /\ bufid # None
          /\ ingState[enqPort] = "ENQ_WAIT"
          /\ ingBuf[enqPort] = bufid /\ ingInfo[enqPort] = enqInfo
     ELSE enqPort = None /\ destmask = {}
  /\ qmState \in {"ENQ_LEN", "ENQ_REF_WAIT"} => portIdx = 0
  /\ qmState = "ENQ_REF_WAIT" => destmask # {}
  /\ qmState = "ENQ_DROP_WAIT" => destmask = {}
  /\ qmState \in {"ENQ_LINK_OLDTAIL", "ENQ_LINK_NEW"} => portIdx \in destmask
  /\ qmState = "ENQ_LINK_OLDTAIL" => portIdx \notin queueEmpty
  /\ qmState = "ENQ_REF_WAIT" \/ Linking => infoMem[bufid] = enqInfo

DequeueAgrees ==
  /\ qmState \in {"DEQ_READ", "DEQ_COMPLETE"} =>
        deqPort # None /\ egrState[deqPort] = "DEQ_WAIT" /\ deqPort \notin queueEmpty
  /\ qmState = "DEQ_COMPLETE" =>
        lnkRead = link[deqPort][head[deqPort]] /\ infoRead = infoMem[head[deqPort]]

FlushAgrees ==
  /\ qmState \in {"FL_READ", "FL_COMPLETE", "FL_REL"} => flPort \in flushPend
  /\ qmState \in {"FL_READ", "FL_COMPLETE"} => flPort \notin queueEmpty
  /\ qmState = "FL_COMPLETE" => flBuf = head[flPort] /\ lnkRead = link[flPort][flBuf]
  /\ qmState = "FL_REL" => flBuf # None

ReleaseAgrees ==
  flState = "RELEASE_WRITE" =>
    /\ relBuf # None /\ rcRead = refcount[relBuf]
    /\ \/ relSlot = FlushSlot /\ qmState = "FL_REL" /\ flBuf = relBuf
       \/ relSlot \in Ports /\ egrState[relSlot] = "RELEASE_WAIT" /\ egrBuf[relSlot] = relBuf

\* An engine in the middle of an operation and the front end it serves agree: the
\* requester is still waiting, with the buffer and frame that were captured, when
\* the grant comes, and what was read for the operation is still current.
HandshakesAgree ==
  FrontEndsAgree /\ EnqueueAgrees /\ DequeueAgrees /\ FlushAgrees /\ ReleaseAgrees

\* A port refers to a buffer at most once: queued, about to be linked, being read
\* by its egress front end, or being flushed.
OneReferencePerPort ==
  \A p \in Ports, b \in Buffers :
    /\ ~(QueuedAt(p, b) /\ (LinkingTo(p, b) \/ egrBuf[p] = b \/ FlushHolds(p, b)))
    /\ ~(egrBuf[p] = b /\ (LinkingTo(p, b) \/ FlushHolds(p, b)))

\* The reference count of a buffer is the number of ports that still hold it:
\* it never wraps, is never left behind by a flush that races a release, and is
\* complete before the first destination can see the frame.
RefcountExact == \A b \in Buffers : refcount[b] = Cardinality(Holders(b))

\* No buffer is lost, freed twice or in use while it is free: each one is
\* exactly once in the free list, or with one ingress front end, or referenced
\* by queues and egress front ends.
BufferAccounting ==
  /\ FillInOrder
  /\ \A j, k \in 1 .. Len(freeFifo) : freeFifo[j] = freeFifo[k] => j = k
  /\ \A b \in Buffers :
        LET users == {i \in Ports : IngressHolds(i, b)} IN
        \/ IsFree(b) /\ users = {} /\ Holders(b) = {}
        \/ ~IsFree(b) /\ users = {} /\ Holders(b) # {}
        \/ ~IsFree(b) /\ Holders(b) = {} /\ \E i \in Ports : users = {i}

\* What the link entry of the k-th buffer in port p's list must say.  Between
\* S_ENQ_LINK_OLDTAIL and S_ENQ_LINK_NEW the last one already names the new tail.
NextOf(p, k) ==
  IF k < Len(q[p]) THEN q[p][k + 1].buf
  ELSE IF qmState = "ENQ_LINK_NEW" /\ portIdx = p THEN bufid ELSE None

ListSound(p) ==
  /\ p \in queueEmpty <=> q[p] = <<>>
  /\ q[p] # <<>> => head[p] = q[p][1].buf /\ tail[p] = q[p][Len(q[p])].buf
  /\ \A k \in 1 .. Len(q[p]) :
        link[p][q[p][k].buf] = NextOf(p, k) /\ infoMem[q[p][k].buf] = q[p][k].info
  /\ \A j, k \in 1 .. Len(q[p]) : q[p][j].buf = q[p][k].buf => j = k

\* The linked list of every port threads exactly the buffers enqueued to it, in
\* order and once each, with the length and tag they were enqueued with, however
\* flooded frames share buffers between lists.
ListsSound == \A p \in Ports : ListSound(p)

\* Once the flush of a port whose link is down has run, nothing is queued to it
\* and the enqueue in progress is not about to: an enqueue that captured the old
\* link mask is finished, and drained, before flush_busy_o falls.
DownMeansDrained ==
  \A p \in Ports :
    p \notin linkUp \cup flushDue \cup flushPend => q[p] = <<>> /\ p \notin destmask

-----------------------------------------------------------------------------
(* The inductive invariant *)

\* Buffers, counts, lists and handshakes are right together.  None of these is
\* inductive alone: the lists stay sound because an enqueued buffer is in no list
\* yet, which is what the accounts say; the counts stay exact because a release
\* still owns what it names, which is what the handshakes say; and the handshakes
\* read heads that the lists make real.
IndInv ==
  /\ TypeOK
  /\ HandshakesAgree
  /\ ListsSound
  /\ OneReferencePerPort
  /\ BufferAccounting
  /\ RefcountExact

-----------------------------------------------------------------------------
(* Implementation of the abstract pool *)

FlushedFrame(p) ==
  IF qmState = "FL_REL" /\ flPort = p THEN <<[buf |-> flBuf, info |-> infoMem[flBuf]]>> ELSE <<>>
FrameToLink(p) ==
  IF Linking /\ p \in Unlinked THEN <<[buf |-> bufid, info |-> enqInfo]>> ELSE <<>>

poolFree == {b \in Buffers : IsFree(b)}
poolHeld ==
  [i \in Ports |-> IF ingBuf[i] = None \/ HandedOver(i) THEN {}
                   ELSE {[buf |-> ingBuf[i], info |-> ingInfo[i]]}]
poolQueue == [p \in Ports |-> FlushedFrame(p) \o q[p] \o FrameToLink(p)]
poolOut ==
  [p \in Ports |-> IF egrBuf[p] = None THEN {} ELSE {[buf |-> egrBuf[p], info |-> egrInfo[p]]}]

Pool == INSTANCE BufferPool
          WITH free <- poolFree, held <- poolHeld, queue <- poolQueue, out <- poolOut

\* Seen from the ports, the FSMs, linked lists and reference counts implement
\* the abstract pool: per-port FIFO order, each destination exactly once, and a
\* buffer freed exactly when its last reference goes.
PoolSpec == Pool!Spec

-----------------------------------------------------------------------------
(* Liveness *)

\* A flush that has been asked for runs to its end, although its releases share
\* the free list with every egress port and it goes one buffer at a time.
FlushCompletes == \A p \in Ports : p \in flushPend ~> p \notin flushPend

\* Some waiting enqueue is always served: dequeues, flushes and releases cannot
\* keep the enqueue side of the queue manager out for ever.
EnqueueProgress == EnqRequests # {} ~> qmState = "ENQ_ACK"

\* An exhausted pool recovers: a front end waits for a buffer only while the
\* frames that use them are sent, and some front end gets the next one.
AllocProgress ==
  (\E i \in Ports : ingState[i] = "ALLOC_WAIT") ~> (\E i \in Ports : ingState[i] = "DMA")

\* When frames stop arriving every buffer finds its way back to the free list.
PoolRefills ==
  (<>[][\A i \in Ports : ~ReceiveFrame(i)]_vars) => <>[](Len(freeFifo) = NumBuffers)

\* Traffic flows through the shared engines and the shared pool: a waiting
\* enqueue is answered, a waiting front end gets a buffer, and all buffers
\* return.
TrafficFlows == EnqueueProgress /\ AllocProgress /\ PoolRefills
=============================================================================
