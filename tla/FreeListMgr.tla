----------------------------- MODULE FreeListMgr -----------------------------
(***************************************************************************)
(* rtl/buf_mgr/free_list_mgr.sv: the FIFO of free buffer ids and the       *)
(* per-buffer reference counts, with the one FSM that serves, in this      *)
(* priority, setref, direct_free, release and alloc.                       *)
(*                                                                         *)
(* Each action is one FSM transition and speaks only of this component's   *)
(* registers.  A request/grant handshake is completed by the module that   *)
(* conjoins the requester's half (BufMgrCore).  The arbiters' rotating     *)
(* pointers advance on every clock cycle with a request pending, so at the *)
(* granularity of FSM transitions the winner may be any requester.         *)
(*                                                                         *)
(* Here and in the modules built on this one, the registers that hold an   *)
(* operation in progress go back to None when the operation ends: they are *)
(* written again before they are next read.  Memories and list pointers    *)
(* keep their stale contents, as in the code.                              *)
(*                                                                         *)
(* A definition whose name ends in _word is a faulty variant of the one it *)
(* precedes: no specification uses it, and PROJECT.json names the property *)
(* that tells the two apart.                                               *)
(***************************************************************************)
EXTENDS Integers, Sequences

CONSTANTS
  NumPorts,    \* NUM_PORTS
  NumBuffers,  \* NUM_BUFFERS
  RefMod       \* 2 ^ REFCNT_W: reference counts are kept modulo RefMod

ASSUME GeometryAssumption ==
  /\ NumPorts \in Nat \ {0}
  /\ NumBuffers \in Nat \ {0}
  /\ RefMod \in Nat
  /\ RefMod > NumPorts          \* REFCNT_W = $clog2(NUM_PORTS + 1)

Ports == 0 .. NumPorts - 1
Buffers == 0 .. NumBuffers - 1

\* A register or memory word nothing has been written to yet.
None == -1

\* The queue manager's slot NUM_PORTS of the release arbiter.
FlushSlot == NumPorts

VARIABLES
  flState,   \* state_q
  fillCnt,   \* fill_cnt_q
  freeFifo,  \* u_fifo, oldest entry first
  refcount,  \* refcount_mem
  relBuf,    \* release_bufid_q
  relSlot,   \* release_grant_q / flush_grant_q: who is being released for
  rcRead     \* rc_rdata_q: the count read for relBuf

flVars == <<flState, fillCnt, freeFifo, refcount, relBuf, relSlot, rcRead>>

OrNone(S) == S \cup {None}
RangeOf(s) == {s[k] : k \in 1 .. Len(s)}

FreeListType ==
  /\ flState \in {"FILL", "IDLE", "RELEASE_WRITE"}
  /\ fillCnt \in Buffers
  /\ freeFifo \in Seq(Buffers)
  /\ refcount \in [Buffers -> 0 .. RefMod - 1]
  /\ relBuf \in OrNone(Buffers)
  /\ relSlot \in OrNone(Ports \cup {FlushSlot})
  /\ rcRead \in OrNone(0 .. RefMod - 1)

FreeListInit ==
  /\ flState = "FILL"
  /\ fillCnt = 0
  /\ freeFifo = <<>>
  /\ refcount = [b \in Buffers |-> 0]
  /\ relBuf = None
  /\ relSlot = None
  /\ rcRead = None

-----------------------------------------------------------------------------
\* sync_fifo drops a write while it is full.
Pushed(fifo, b) == IF Len(fifo) = NumBuffers THEN fifo ELSE Append(fifo, b)

FillLast(n) == n = NumBuffers - 1

\* S_FILL: after reset every buffer id is pushed once.
Fill ==
  /\ flState = "FILL"
  /\ freeFifo' = Pushed(freeFifo, fillCnt)
  /\ fillCnt' = IF FillLast(fillCnt) THEN fillCnt ELSE fillCnt + 1
  /\ flState' = IF FillLast(fillCnt) THEN "IDLE" ELSE "FILL"
  /\ UNCHANGED <<refcount, relBuf, relSlot, rcRead>>

\* S_IDLE, setref_req_i: a buffer that has just been given its destinations
\* gets its reference count.
SetRef(b, n) ==
  /\ flState = "IDLE"
  /\ refcount' = [refcount EXCEPT ![b] = n % RefMod]
  /\ UNCHANGED <<flState, fillCnt, freeFifo, relBuf, relSlot, rcRead>>

DirectFree_lost(b) == flState = "IDLE" /\ UNCHANGED flVars

\* S_IDLE, direct_free_req_i: a frame with no destination left.
DirectFree(b) ==
  /\ flState = "IDLE"
  /\ freeFifo' = Pushed(freeFifo, b)
  /\ UNCHANGED <<flState, fillCnt, refcount, relBuf, relSlot, rcRead>>

\* S_IDLE, release_valid: read the count of the released buffer.
ReleaseRead(slot, b) ==
  /\ flState = "IDLE"
  /\ flState' = "RELEASE_WRITE"
  /\ relBuf' = b
  /\ relSlot' = slot
  /\ rcRead' = refcount[b]
  /\ UNCHANGED <<fillCnt, freeFifo, refcount>>

Decremented_missing(rc) == rc
Decremented(rc) == (rc - 1) % RefMod

LastReference_late(rc) == rc = 0
LastReference(rc) == rc = 1

\* S_RELEASE_WRITE: write the count back, free the buffer on its last
\* reference, and grant the release that was captured.
ReleaseWrite ==
  /\ flState = "RELEASE_WRITE"
  /\ flState' = "IDLE"
  /\ refcount' = [refcount EXCEPT ![relBuf] = Decremented(rcRead)]
  /\ freeFifo' = IF LastReference(rcRead) THEN Pushed(freeFifo, relBuf) ELSE freeFifo
  /\ relBuf' = None /\ relSlot' = None /\ rcRead' = None
  /\ UNCHANGED fillCnt

\* S_IDLE, alloc_valid: pop the FIFO.  Head(freeFifo) is alloc_bufid_o.
AllocPop ==
  /\ flState = "IDLE"
  /\ freeFifo # <<>>
  /\ freeFifo' = Tail(freeFifo)
  /\ UNCHANGED <<flState, fillCnt, refcount, relBuf, relSlot, rcRead>>
=============================================================================
