------------------------------ MODULE QueueMgr ------------------------------
(***************************************************************************)
(* rtl/buf_mgr/queue_mgr.sv: one FIFO of buffer ids per egress port, kept  *)
(* as linked lists threaded through link_mem[port, buffer], with the one   *)
(* FSM that serves enqueue, dequeue and link-down flush.  Each action is   *)
(* one transition of that FSM.                                             *)
(*                                                                         *)
(* q[p] is an auxiliary variable: the buffers that the list of port p is   *)
(* meant to hold, each with the length and ingress tag it was enqueued     *)
(* with.  No guard and no other variable depends on it.                    *)
(***************************************************************************)
EXTENDS FreeListMgr, FiniteSets

CONSTANT Infos   \* the values of a frame's {length, meta} pair

ASSUME InfosAssumption == None \notin Infos

VARIABLES
  qmState,     \* state_q
  lastWasDeq,  \* last_was_deq_q
  enqPort,     \* enq_grant_q
  bufid,       \* bufid_q
  enqInfo,     \* length_q, meta_q
  destmask,    \* destmask_q, as a set of ports
  portIdx,     \* port_idx_q (3 bits hold 0 .. NUM_PORTS = 6 without wrapping)
  deqPort,     \* deq_port_q, deq_grant_q
  flPort,      \* fl_port_q
  flBuf,       \* fl_buf_q
  flushPend,   \* flush_pend_q, as a set of ports
  head, tail,  \* head_ptr, tail_ptr
  queueEmpty,  \* queue_empty, as a set of ports
  link,        \* link_mem: the next buffer, None when the valid bit is 0
  lnkRead,     \* lnk_rdata_q as S_DEQ_READ and S_FL_READ leave it
  infoMem,     \* length_mem, meta_mem
  infoRead,    \* len_rdata_q, meta_rdata_q as S_DEQ_READ leaves them
  q            \* auxiliary

enqRegs  == <<enqPort, bufid, enqInfo, destmask>>
listVars == <<head, tail, queueEmpty, link, q>>
infoVars == <<infoMem, infoRead>>
flushRegs == <<flPort, flBuf>>
qmVars == <<qmState, lastWasDeq, enqRegs, portIdx, deqPort, flushRegs,
            flushPend, listVars, lnkRead, infoVars>>

QmStates == {"IDLE", "ENQ_LEN", "ENQ_REF_WAIT", "ENQ_DROP_WAIT", "ENQ_FIND",
             "ENQ_LINK_OLDTAIL", "ENQ_LINK_NEW", "ENQ_ACK", "DEQ_READ",
             "DEQ_COMPLETE", "FL_READ", "FL_COMPLETE", "FL_REL"}

EnqStates == {"ENQ_LEN", "ENQ_REF_WAIT", "ENQ_DROP_WAIT", "ENQ_FIND",
              "ENQ_LINK_OLDTAIL", "ENQ_LINK_NEW", "ENQ_ACK"}

Frames == [buf : Buffers, info : Infos]

QueueType ==
  /\ qmState \in QmStates
  /\ lastWasDeq \in BOOLEAN
  /\ enqPort \in OrNone(Ports)
  /\ bufid \in OrNone(Buffers)
  /\ enqInfo \in OrNone(Infos)
  /\ destmask \subseteq Ports
  /\ portIdx \in 0 .. NumPorts
  /\ deqPort \in OrNone(Ports)
  /\ flPort \in OrNone(Ports)
  /\ flBuf \in OrNone(Buffers)
  /\ flushPend \subseteq Ports
  /\ head \in [Ports -> OrNone(Buffers)]
  /\ tail \in [Ports -> OrNone(Buffers)]
  /\ queueEmpty \subseteq Ports
  /\ link \in [Ports -> [Buffers -> OrNone(Buffers)]]
  /\ lnkRead \in OrNone(Buffers)
  /\ infoMem \in [Buffers -> OrNone(Infos)]
  /\ infoRead \in OrNone(Infos)
  /\ q \in [Ports -> Seq(Frames)]

QueueInit ==
  /\ qmState = "IDLE"
  /\ lastWasDeq = FALSE
  /\ enqPort = None /\ bufid = None /\ enqInfo = None /\ destmask = {}
  /\ portIdx = 0
  /\ deqPort = None
  /\ flPort = None /\ flBuf = None
  /\ flushPend = {}
  /\ head = [p \in Ports |-> None]
  /\ tail = [p \in Ports |-> None]
  /\ queueEmpty = Ports
  /\ link = [p \in Ports |-> [b \in Buffers |-> None]]
  /\ lnkRead = None
  /\ infoMem = [b \in Buffers |-> None]
  /\ infoRead = None
  /\ q = [p \in Ports |-> <<>>]

-----------------------------------------------------------------------------
IsLowest(p, S) == p \in S /\ \A r \in S : p <= r

\* flush_busy_o
FlushBusy == flushPend # {} \/ qmState \in {"FL_READ", "FL_COMPLETE", "FL_REL"}

\* The ports fl_port is taken from; fl_valid is FlushPorts # {}.
FlushPorts == flushPend \ queueEmpty

\* The requests the dequeue arbiter sees.
DeqEligible(requests) == (requests \ queueEmpty) \ flushPend

\* In QM_S_IDLE the pending ports whose queue is empty are done.
PendAfterIdle_kept == flushPend
PendAfterIdle == flushPend \ queueEmpty

\* QM_S_IDLE with nothing to start.
IdleStep(enqRequests, deqRequests) ==
  /\ qmState = "IDLE"
  /\ FlushPorts = {} /\ enqRequests = {} /\ DeqEligible(deqRequests) = {}
  /\ flushPend # {}
  /\ flushPend' = PendAfterIdle
  /\ UNCHANGED <<qmState, lastWasDeq, enqRegs, portIdx, deqPort, flushRegs,
                 listVars, lnkRead, infoVars>>

\* QM_S_IDLE -> S_FL_READ: a flush goes before enqueues and dequeues.
FlushPick(p) ==
  /\ qmState = "IDLE"
  /\ IsLowest(p, FlushPorts)
  /\ qmState' = "FL_READ"
  /\ flPort' = p
  /\ flushPend' = PendAfterIdle
  /\ UNCHANGED <<lastWasDeq, enqRegs, portIdx, deqPort, flBuf, listVars,
                 lnkRead, infoVars>>

AdmitMask_unmasked(mask, up) == mask
AdmitMask(mask, up) == mask \cap up

\* QM_S_IDLE -> S_ENQ_LEN: enqueues and dequeues take turns.
EnqPick(i, b, info, mask, up, enqRequests, deqRequests) ==
  /\ qmState = "IDLE"
  /\ FlushPorts = {}
  /\ i \in enqRequests
  /\ DeqEligible(deqRequests) = {} \/ lastWasDeq
  /\ qmState' = "ENQ_LEN"
  /\ enqPort' = i
  /\ bufid' = b
  /\ enqInfo' = info
  /\ destmask' = AdmitMask(mask, up)
  /\ portIdx' = 0
  /\ lastWasDeq' = FALSE
  /\ flushPend' = PendAfterIdle
  /\ UNCHANGED <<deqPort, flushRegs, listVars, lnkRead, infoVars>>

\* QM_S_IDLE -> S_DEQ_READ
DeqPick(p, enqRequests, deqRequests) ==
  /\ qmState = "IDLE"
  /\ FlushPorts = {}
  /\ enqRequests = {} \/ ~lastWasDeq
  /\ p \in DeqEligible(deqRequests)
  /\ qmState' = "DEQ_READ"
  /\ deqPort' = p
  /\ lastWasDeq' = TRUE
  /\ flushPend' = PendAfterIdle
  /\ UNCHANGED <<enqRegs, portIdx, flushRegs, listVars, lnkRead, infoVars>>

-----------------------------------------------------------------------------
(* Enqueue *)

\* S_ENQ_LEN
EnqLen ==
  /\ qmState = "ENQ_LEN"
  /\ infoMem' = [infoMem EXCEPT ![bufid] = enqInfo]
  /\ qmState' = IF destmask = {} THEN "ENQ_DROP_WAIT" ELSE "ENQ_REF_WAIT"
  /\ UNCHANGED <<lastWasDeq, enqRegs, portIdx, deqPort, flushRegs, flushPend,
                 listVars, lnkRead, infoRead>>

\* A wait state is left when the free list grants the request.
Granted(from, to) ==
  /\ qmState = from
  /\ qmState' = to
  /\ UNCHANGED <<lastWasDeq, enqRegs, portIdx, deqPort, flushRegs, flushPend,
                 listVars, lnkRead, infoVars>>

\* S_ENQ_REF_WAIT, S_ENQ_DROP_WAIT
SetRefGranted == Granted("ENQ_REF_WAIT", "ENQ_FIND")
DirectFreeGranted == Granted("ENQ_DROP_WAIT", "ENQ_ACK")

\* The destinations still to be linked.
Unlinked == {p \in destmask : p >= portIdx}

\* S_ENQ_FIND with no destination left
EnqFindNone ==
  /\ Unlinked = {}
  /\ Granted("ENQ_FIND", "ENQ_ACK")

\* S_ENQ_FIND
EnqFind(p) ==
  /\ qmState = "ENQ_FIND"
  /\ IsLowest(p, Unlinked)
  /\ portIdx' = p
  /\ qmState' = IF p \in queueEmpty THEN "ENQ_LINK_NEW" ELSE "ENQ_LINK_OLDTAIL"
  /\ UNCHANGED <<lastWasDeq, enqRegs, deqPort, flushRegs, flushPend, listVars,
                 lnkRead, infoVars>>

\* S_ENQ_LINK_OLDTAIL
EnqLinkOldTail ==
  /\ qmState = "ENQ_LINK_OLDTAIL"
  /\ qmState' = "ENQ_LINK_NEW"
  /\ link' = [link EXCEPT ![portIdx][tail[portIdx]] = bufid]
  /\ UNCHANGED <<lastWasDeq, enqRegs, portIdx, deqPort, flushRegs, flushPend,
                 head, tail, queueEmpty, q, lnkRead, infoVars>>

LinkNewEntry(lk, p, b) == [lk EXCEPT ![p][b] = None]

HeadAfterLink(p, b) == IF p \in queueEmpty THEN [head EXCEPT ![p] = b] ELSE head

NextPort(p) == p + 1

\* S_ENQ_LINK_NEW
EnqLinkNew ==
  /\ qmState = "ENQ_LINK_NEW"
  /\ qmState' = "ENQ_FIND"
  /\ link' = LinkNewEntry(link, portIdx, bufid)
  /\ head' = HeadAfterLink(portIdx, bufid)
  /\ tail' = [tail EXCEPT ![portIdx] = bufid]
  /\ queueEmpty' = queueEmpty \ {portIdx}
  /\ portIdx' = NextPort(portIdx)
  /\ q' = [q EXCEPT ![portIdx] = Append(@, [buf |-> bufid, info |-> enqInfo])]
  /\ UNCHANGED <<lastWasDeq, enqRegs, deqPort, flushRegs, flushPend, lnkRead, infoVars>>

\* S_ENQ_ACK: enqueue_gnt_o goes to enqPort.
EnqAck ==
  /\ qmState = "ENQ_ACK"
  /\ qmState' = "IDLE"
  /\ enqPort' = None /\ bufid' = None /\ enqInfo' = None /\ destmask' = {}
  /\ portIdx' = 0
  /\ UNCHANGED <<lastWasDeq, deqPort, flushRegs, flushPend, listVars, lnkRead, infoVars>>

-----------------------------------------------------------------------------
(* Dequeue and flush *)

\* Take the head off the list of port p, as S_DEQ_COMPLETE and S_FL_COMPLETE do.
PopHead(p) ==
  /\ head' = IF lnkRead # None THEN [head EXCEPT ![p] = lnkRead] ELSE head
  /\ queueEmpty' = IF lnkRead # None THEN queueEmpty ELSE queueEmpty \cup {p}
  /\ q' = [q EXCEPT ![p] = Tail(@)]
  /\ UNCHANGED <<tail, link>>

\* S_DEQ_READ
DeqRead ==
  /\ qmState = "DEQ_READ"
  /\ qmState' = "DEQ_COMPLETE"
  /\ infoRead' = infoMem[head[deqPort]]
  /\ lnkRead' = link[deqPort][head[deqPort]]
  /\ UNCHANGED <<lastWasDeq, enqRegs, portIdx, deqPort, flushRegs, flushPend,
                 listVars, infoMem>>

\* S_DEQ_COMPLETE: head[deqPort] and infoRead go out with dequeue_valid_o.
DeqComplete ==
  /\ qmState = "DEQ_COMPLETE"
  /\ qmState' = "IDLE"
  /\ PopHead(deqPort)
  /\ deqPort' = None /\ lnkRead' = None /\ infoRead' = None
  /\ UNCHANGED <<lastWasDeq, enqRegs, portIdx, flushRegs, flushPend, infoMem>>

\* S_FL_READ
FlushRead ==
  /\ qmState = "FL_READ"
  /\ qmState' = "FL_COMPLETE"
  /\ flBuf' = head[flPort]
  /\ lnkRead' = link[flPort][head[flPort]]
  /\ UNCHANGED <<lastWasDeq, enqRegs, portIdx, deqPort, flPort, flushPend,
                 listVars, infoVars>>

\* S_FL_COMPLETE
FlushComplete ==
  /\ qmState = "FL_COMPLETE"
  /\ qmState' = "FL_REL"
  /\ PopHead(flPort)
  /\ lnkRead' = None
  /\ UNCHANGED <<lastWasDeq, enqRegs, portIdx, deqPort, flushRegs, flushPend, infoVars>>

\* S_FL_REL: left when the free list grants the release of flBuf.
FlushReleased ==
  /\ qmState = "FL_REL"
  /\ qmState' = "IDLE"
  /\ flPort' = None /\ flBuf' = None
  /\ UNCHANGED <<lastWasDeq, enqRegs, portIdx, deqPort, flushPend, listVars,
                 lnkRead, infoVars>>

\* flush_req_i
FlushRequest(p) ==
  /\ flushPend' = flushPend \cup {p}
  /\ UNCHANGED <<qmState, lastWasDeq, enqRegs, portIdx, deqPort, flushRegs,
                 listVars, lnkRead, infoVars>>
=============================================================================
