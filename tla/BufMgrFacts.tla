---------------------------- MODULE BufMgrFacts -----------------------------
(***************************************************************************)
(* The facts the buffer manager's proofs share: sequences, the inductive   *)
(* invariant IndInv, and what it says in the states that use it; and that  *)
(* every step keeps the types and the two sides of each handshake.         *)
(***************************************************************************)
EXTENDS BufMgrCore, TLAPS

USE DEF None
\* The empty FIFO or list is a sequence over any set.
LEMMA EmptyFacts ==
  ASSUME NEW S
  PROVE  /\ << >> \in Seq(S)
         /\ Len(<< >>) = 0
         /\ \A seq \in Seq(S) : (seq # << >>) => (Len(seq) \in Nat \ {0})
OBVIOUS

\* What pushing one entry does to a FIFO.
LEMMA AppendFacts ==
  ASSUME NEW S, NEW seq \in Seq(S), NEW elt \in S
  PROVE  /\ Append(seq, elt) \in Seq(S)
         /\ Append(seq, elt) # << >>
         /\ Len(Append(seq, elt)) = Len(seq) + 1
         /\ \A i \in 1 .. Len(seq) : Append(seq, elt)[i] = seq[i]
         /\ Append(seq, elt)[Len(seq) + 1] = elt
OBVIOUS

\* What popping does to a nonempty FIFO.
LEMMA HeadTailFacts ==
  ASSUME NEW S, NEW s \in Seq(S), s # << >>
  PROVE  /\ Head(s) \in S
         /\ Tail(s) \in Seq(S)
         /\ Len(Tail(s)) = Len(s) - 1
         /\ \A i \in 1 .. Len(Tail(s)) : Tail(s)[i] = s[i + 1]
OBVIOUS

\* The entries of two lists read one after the other.
LEMMA ConcatFacts ==
  ASSUME NEW S, NEW s1 \in Seq(S), NEW s2 \in Seq(S)
  PROVE  /\ s1 \o s2 \in Seq(S)
         /\ Len(s1 \o s2) = Len(s1) + Len(s2)
         /\ \A i \in 1 .. Len(s1) + Len(s2) :
              (s1 \o s2)[i] = IF i <= Len(s1) THEN s1[i] ELSE s2[i - Len(s1)]
OBVIOUS

\* An empty list adds nothing on either side.
LEMMA ConcatEmptyFacts ==
  ASSUME NEW S, NEW seq \in Seq(S)
  PROVE  seq \o << >> = seq /\ << >> \o seq = seq
OBVIOUS

\* A list stays one when more entries are allowed.
LEMMA WiderSeq ==
  ASSUME NEW S, NEW T, NEW s \in Seq(S), S \subseteq T PROVE s \in Seq(T)
OBVIOUS

\* Pushing one entry is concatenating a list of one.
LEMMA AppendAsConcat ==
  ASSUME NEW S, NEW seq \in Seq(S), NEW elt \in S PROVE Append(seq, elt) = seq \o <<elt>>
OBVIOUS

\* Two lists of the same length with the same entries are the same list.
LEMMA SameSeq ==
  ASSUME NEW S, NEW s \in Seq(S), NEW t \in Seq(S), Len(s) = Len(t),
         \A i \in 1 .. Len(s) : s[i] = t[i]
  PROVE  s = t
OBVIOUS

\* The numeric facts about the configured geometry (buf_mgr_pkg.sv) that proofs use.
LEMMA Geometry ==
  /\ NumPorts \in Nat /\ NumPorts >= 1
  /\ NumBuffers \in Nat /\ NumBuffers >= 1
  /\ RefMod \in Nat /\ RefMod > NumPorts
BY GeometryAssumption

\* A sequence is empty exactly when its length is 0.
LEMMA EmptyIffLen ==
  ASSUME NEW S, NEW s \in Seq(S) PROVE s = <<>> <=> Len(s) = 0
BY Zenon, EmptyFacts

\* What Tail does to a nonempty sequence.
LEMMA TailFacts ==
  ASSUME NEW S, NEW s \in Seq(S), s # <<>>
  PROVE  /\ Len(s) \in Nat /\ Len(s) >= 1
         /\ Tail(s) \in Seq(S) /\ Len(Tail(s)) = Len(s) - 1
         /\ \A k \in 1 .. Len(s) - 1 : Tail(s)[k] = s[k + 1]
         /\ Tail(s) = <<>> <=> Len(s) = 1
<1>1. /\ Tail(s) \in Seq(S) /\ Len(Tail(s)) = Len(s) - 1
      /\ \A k \in 1 .. Len(s) - 1 : Tail(s)[k] = s[k + 1]
  BY Zenon, HeadTailFacts
<1>2. Len(s) \in Nat /\ Len(s) >= 1
  BY EmptyFacts
<1>3. Tail(s) = <<>> <=> Len(Tail(s)) = 0
  BY Zenon, <1>1, EmptyIffLen
<1>4. QED
  BY <1>1, <1>2, <1>3

\* A list of at least one element that is not a singleton has a second one.
LEMMA AtLeastTwo ==
  ASSUME NEW n \in Nat, n >= 1, n # 1 PROVE 2 \in 1 .. n /\ 1 < n
OBVIOUS

-----------------------------------------------------------------------------
(* What the inductive invariant says of a step *)

\* In the states that use them, a front end's buffer and frame are real ones.
LEMMA FrontEndFacts ==
  ASSUME IndInv, NEW i \in Ports
  PROVE  /\ ingState[i] \in {"DMA", "ENQ_WAIT"} => ingBuf[i] \in Buffers
         /\ ingState[i] # "RECV" => ingInfo[i] \in Infos
         /\ egrState[i] \in {"DMA", "RELEASE_WAIT"} => egrBuf[i] \in Buffers
BY Zenon DEF IndInv, TypeOK, PortType, HandshakesAgree, FrontEndsAgree, OrNone

\* During an enqueue the captured port, buffer and frame are real ones.
LEMMA EnqueueFacts ==
  ASSUME IndInv, qmState \in EnqStates
  PROVE  /\ enqPort \in Ports
         /\ bufid \in Buffers
         /\ enqInfo \in Infos
         /\ qmState \in {"ENQ_LINK_OLDTAIL", "ENQ_LINK_NEW"} => portIdx \in Ports
<1>1. enqPort \in Ports /\ bufid \in Buffers /\ ingState[enqPort] = "ENQ_WAIT" /\ ingInfo[enqPort] = enqInfo
  BY Zenon DEF IndInv, TypeOK, QueueType, HandshakesAgree, EnqueueAgrees, OrNone
<1>2. enqInfo \in Infos
  BY Zenon, <1>1, FrontEndFacts
<1>3. QED
  BY Zenon, <1>1, <1>2 DEF IndInv, TypeOK, QueueType, HandshakesAgree, EnqueueAgrees

\* A list that is not marked empty has a first and a last buffer, and its
\* pointers name them.
LEMMA HeadFacts ==
  ASSUME IndInv, NEW p \in Ports, p \notin queueEmpty
  PROVE  /\ q[p] # <<>>
         /\ Len(q[p]) \in Nat /\ Len(q[p]) >= 1
         /\ q[p][1] \in Frames
         /\ head[p] = q[p][1].buf
         /\ head[p] \in Buffers
         /\ tail[p] = q[p][Len(q[p])].buf
         /\ tail[p] \in Buffers
<1>1. q[p] \in Seq(Frames) /\ q[p] # <<>> /\ head[p] = q[p][1].buf /\ tail[p] = q[p][Len(q[p])].buf
  BY Zenon DEF IndInv, TypeOK, QueueType, ListsSound, ListSound
<1>2. Len(q[p]) \in Nat /\ Len(q[p]) >= 1 /\ q[p][1] \in Frames /\ q[p][Len(q[p])] \in Frames
  BY <1>1
<1>3. q[p][1].buf \in Buffers /\ q[p][Len(q[p])].buf \in Buffers
  BY Zenon, <1>2 DEF Frames
<1>4. QED
  BY Zenon, <1>1, <1>2, <1>3

\* A dequeue in progress is for a port whose list is not empty.
LEMMA DequeueFacts ==
  ASSUME IndInv, qmState \in {"DEQ_READ", "DEQ_COMPLETE"}
  PROVE  deqPort \in Ports /\ deqPort \notin queueEmpty
BY Zenon DEF IndInv, TypeOK, QueueType, HandshakesAgree, DequeueAgrees, OrNone

\* A flush in progress is for a port, and pops only from a list that is not empty.
LEMMA FlushFacts ==
  ASSUME IndInv, qmState \in {"FL_READ", "FL_COMPLETE", "FL_REL"}
  PROVE  /\ flPort \in Ports
         /\ qmState \in {"FL_READ", "FL_COMPLETE"} => flPort \notin queueEmpty
         /\ qmState = "FL_REL" => flBuf \in Buffers
BY Zenon DEF IndInv, TypeOK, QueueType, HandshakesAgree, FlushAgrees, OrNone

\* A release being written names a real buffer and a real requester.
LEMMA ReleaseFacts ==
  ASSUME IndInv, flState = "RELEASE_WRITE"
  PROVE  relBuf \in Buffers /\ (relSlot # FlushSlot => relSlot \in Ports)
BY Zenon DEF IndInv, TypeOK, FreeListType, HandshakesAgree, ReleaseAgrees, OrNone

\* The queued entries are frames in real buffers.
LEMMA QueuedFacts ==
  ASSUME IndInv, NEW p \in Ports
  PROVE  /\ q[p] \in Seq(Frames)
         /\ Len(q[p]) \in Nat
         /\ \A k \in 1 .. Len(q[p]) : q[p][k] \in Frames /\ q[p][k].buf \in Buffers
<1>1. q[p] \in Seq(Frames)
  BY Zenon DEF IndInv, TypeOK, QueueType
<1>2. \A fr \in Frames : fr.buf \in Buffers
  BY Zenon DEF Frames
<1>3. QED
  BY <1>1, <1>2

\* S_ENQ_FIND moves port_idx_q to the next destination without skipping one.
LEMMA FindKeeps ==
  ASSUME IndInv, NEW r \in Ports, EnqFind(r)
  PROVE  Linking /\ Linking' /\ Unlinked' = Unlinked
<1>1. destmask \subseteq Ports /\ portIdx \in 0 .. NumPorts
  BY Zenon DEF IndInv, TypeOK, QueueType
<1>2. destmask' = destmask /\ portIdx' = r /\ Linking /\ Linking'
  BY Zenon DEF EnqFind, enqRegs, Linking
<1>3. r \in Unlinked /\ \A x \in Unlinked : r <= x
  BY Zenon DEF EnqFind, IsLowest
<1>4. Unlinked' = {x \in destmask : x >= r}
  BY Zenon, <1>2 DEF Unlinked
<1>5. ASSUME NEW x \in destmask PROVE x >= r <=> x >= portIdx
  <2>1. x \in Int /\ r \in Int /\ portIdx \in Int /\ r >= portIdx
    BY <1>1, <1>3, Geometry DEF Unlinked, Ports
  <2>2. x >= portIdx => r <= x
    BY Zenon, <1>3 DEF Unlinked
  <2>3. QED
    BY <2>1, <2>2
<1>6. QED
  BY Zenon, <1>2, <1>4, <1>5 DEF Unlinked

\* S_ENQ_LINK_NEW takes exactly the port it links off the destinations to come.
LEMMA LinkNewKeeps ==
  ASSUME IndInv, EnqLinkNew
  PROVE  /\ portIdx \in Ports /\ bufid \in Buffers /\ portIdx \in Unlinked
         /\ Linking /\ Linking' /\ Unlinked' = Unlinked \ {portIdx}
<1>1. portIdx \in Ports /\ bufid \in Buffers /\ portIdx \in destmask /\ destmask \subseteq Ports
  BY Zenon, EnqueueFacts DEF EnqLinkNew, EnqStates, IndInv, HandshakesAgree, EnqueueAgrees, TypeOK,
     QueueType
<1>2. destmask' = destmask /\ portIdx' = portIdx + 1 /\ Linking /\ Linking'
  BY Zenon DEF EnqLinkNew, NextPort, enqRegs, Linking
<1>3. \A r \in destmask : r >= portIdx + 1 <=> r >= portIdx /\ r # portIdx
  BY <1>1, Geometry DEF Ports
<1>4. portIdx \in Unlinked
  BY <1>1, Geometry DEF Unlinked, Ports
<1>5. QED
  BY Zenon, <1>1, <1>2, <1>3, <1>4 DEF Unlinked

-----------------------------------------------------------------------------
(* Who holds a buffer *)

Distinct(s) == \A j, k \in 1 .. Len(s) : s[j] = s[k] => j = k
Users(b) == {i \in Ports : IngressHolds(i, b)}
Balanced(b) ==
  \/ IsFree(b) /\ Users(b) = {} /\ Holders(b) = {}
  \/ ~IsFree(b) /\ Users(b) = {} /\ Holders(b) # {}
  \/ ~IsFree(b) /\ Holders(b) = {} /\ \E i \in Ports : Users(b) = {i}

\* BufferAccounting, buffer by buffer.
LEMMA AccountingSplit ==
  BufferAccounting <=> FillInOrder /\ Distinct(freeFifo) /\ \A b \in Buffers : Balanced(b)
BY Zenon DEF BufferAccounting, Distinct, Balanced, Users

\* The same in the next state.
LEMMA AccountingSplitPrime ==
  BufferAccounting' <=> FillInOrder' /\ Distinct(freeFifo') /\ \A b \in Buffers : Balanced(b)'
BY Zenon DEF BufferAccounting, Distinct, Balanced, Users

\* Popping the FIFO removes exactly the buffer handed out.
LEMMA PoppedFacts ==
  ASSUME NEW f \in Seq(Buffers), Distinct(f), f # <<>>
  PROVE  /\ Head(f) \in Buffers /\ Head(f) \in RangeOf(f)
         /\ Distinct(Tail(f))
         /\ RangeOf(Tail(f)) = RangeOf(f) \ {Head(f)}
<1>1. /\ Len(f) \in Nat /\ Len(f) >= 1 /\ Tail(f) \in Seq(Buffers) /\ Len(Tail(f)) = Len(f) - 1
      /\ \A k \in 1 .. Len(f) - 1 : Tail(f)[k] = f[k + 1]
  BY Zenon, TailFacts
<1>2. Head(f) = f[1] /\ 1 \in 1 .. Len(f) /\ f[1] \in Buffers
  BY <1>1
<1>3. \A k \in 1 .. Len(f) - 1 : k + 1 \in 1 .. Len(f) /\ k + 1 # 1
  BY <1>1
<1>4. Distinct(Tail(f))
  <2>1. SUFFICES ASSUME NEW j \in 1 .. Len(f) - 1, NEW k \in 1 .. Len(f) - 1, Tail(f)[j] = Tail(f)[k]
                 PROVE  j = k
    BY Zenon, <1>1 DEF Distinct
  <2>2. j + 1 = k + 1
    BY Zenon, <2>1, <1>1, <1>3 DEF Distinct
  <2>3. QED
    BY <2>2, <1>1
<1>5. ASSUME NEW x \in RangeOf(Tail(f)) PROVE x \in RangeOf(f) \ {Head(f)}
  <2>1. PICK k \in 1 .. Len(f) - 1 : x = Tail(f)[k]
    BY Zenon, <1>5, <1>1 DEF RangeOf
  <2>2. x = f[k + 1]
    BY Zenon, <2>1, <1>1
  <2>3. f[k + 1] # f[1]
    BY Zenon, <1>2, <1>3 DEF Distinct
  <2>4. QED
    BY Zenon, <2>2, <2>3, <1>2, <1>3 DEF RangeOf
<1>6. ASSUME NEW x \in RangeOf(f) \ {Head(f)} PROVE x \in RangeOf(Tail(f))
  <2>1. PICK k \in 1 .. Len(f) : x = f[k]
    BY Zenon, <1>6 DEF RangeOf
  <2>2. k # 1
    BY Zenon, <2>1, <1>2, <1>6
  <2>3. k - 1 \in 1 .. Len(f) - 1 /\ (k - 1) + 1 = k
    BY <2>2, <1>1
  <2>4. x = Tail(f)[k - 1]
    BY Zenon, <2>1, <2>3, <1>1
  <2>5. QED
    BY Zenon, <2>3, <2>4, <1>1 DEF RangeOf
<1>7. QED
  BY Zenon, <1>2, <1>4, <1>5, <1>6 DEF RangeOf

\* Until setref or direct_free, the buffer of an enqueue belongs to its ingress front
\* end alone.
LEMMA EnqueueOwner ==
  ASSUME IndInv, qmState \in {"ENQ_LEN", "ENQ_REF_WAIT", "ENQ_DROP_WAIT"}
  PROVE  /\ enqPort \in Ports /\ bufid \in Buffers
         /\ Users(bufid) = {enqPort} /\ Holders(bufid) = {} /\ ~IsFree(bufid)
<1>1. qmState \in EnqStates
  BY Zenon DEF EnqStates
<1>2. enqPort \in Ports /\ bufid \in Buffers /\ ingBuf[enqPort] = bufid
  BY Zenon, <1>1, EnqueueFacts DEF IndInv, HandshakesAgree, EnqueueAgrees
<1>3. enqPort \in Users(bufid)
  BY Zenon, <1>2 DEF Users, IngressHolds, HandedOver
<1>4. Balanced(bufid)
  BY Zenon, <1>2, AccountingSplit DEF IndInv
<1>5. QED
  BY Zenon, <1>2, <1>3, <1>4 DEF Balanced

(***************************************************************************)
(* Every step keeps the types, and drains a port whose link is down.       *)
(***************************************************************************)
\* A push to the free list FIFO, dropped or not, leaves a sequence of buffers.
LEMMA PushedType ==
  ASSUME NEW f \in Seq(Buffers), NEW b \in Buffers PROVE Pushed(f, b) \in Seq(Buffers)
BY DEF Pushed

\* S_FILL keeps the free list's types: fill_cnt_q stops at the last buffer.
LEMMA FillType == FreeListType /\ Fill => FreeListType'
<1> SUFFICES ASSUME FreeListType, Fill PROVE FreeListType'
  BY Zenon
<1>1. fillCnt' \in Buffers
  BY Geometry DEF FreeListType, Fill, FillLast, Buffers
<1>2. freeFifo' \in Seq(Buffers)
  BY Zenon, PushedType DEF FreeListType, Fill
<1>3. QED
  BY Zenon, <1>1, <1>2 DEF FreeListType, Fill

\* setref keeps the free list's types.
LEMMA SetRefType ==
  ASSUME FreeListType, NEW b, NEW n \in Nat, SetRef(b, n) PROVE FreeListType'
<1>1. n % RefMod \in 0 .. RefMod - 1
  BY Geometry
<1>2. refcount' \in [Buffers -> 0 .. RefMod - 1]
  BY Zenon, <1>1 DEF FreeListType, SetRef
<1>3. QED
  BY Zenon, <1>2 DEF FreeListType, SetRef

\* direct_free keeps the free list's types.
LEMMA DirectFreeType ==
  ASSUME FreeListType, NEW b \in Buffers, DirectFree(b) PROVE FreeListType'
BY Zenon, PushedType DEF FreeListType, DirectFree

\* The read half of a release keeps the free list's types.
LEMMA ReleaseReadType ==
  ASSUME FreeListType, NEW b \in Buffers, NEW slot \in Ports \cup {FlushSlot},
         ReleaseRead(slot, b)
  PROVE  FreeListType'
BY Zenon DEF FreeListType, ReleaseRead, OrNone

\* The write half of a release keeps the free list's types.
LEMMA ReleaseWriteType ==
  ASSUME FreeListType, ReleaseWrite, relBuf \in Buffers PROVE FreeListType'
<1>1. Decremented(rcRead) \in 0 .. RefMod - 1
  BY Geometry DEF FreeListType, Decremented, OrNone
<1>2. refcount' \in [Buffers -> 0 .. RefMod - 1]
  BY Zenon, <1>1 DEF FreeListType, ReleaseWrite
<1>3. freeFifo' \in Seq(Buffers)
  BY Zenon, PushedType DEF FreeListType, ReleaseWrite
<1>4. QED
  BY Zenon, <1>2, <1>3 DEF FreeListType, ReleaseWrite, OrNone

\* An alloc keeps the free list's types.
LEMMA AllocPopType ==
  ASSUME FreeListType, AllocPop PROVE FreeListType' /\ Head(freeFifo) \in Buffers
<1>1. freeFifo \in Seq(Buffers) /\ freeFifo # <<>>
  BY Zenon DEF FreeListType, AllocPop
<1>2. Tail(freeFifo) \in Seq(Buffers) /\ Head(freeFifo) \in Buffers
  BY <1>1
<1>3. QED
  BY Zenon, <1>2 DEF FreeListType, AllocPop

\* Accepting an enqueue keeps the queue manager's types.
LEMMA EnqPickType ==
  ASSUME QueueType, NEW i \in Ports, NEW b \in Buffers, NEW f \in Infos,
         NEW m \in SUBSET Ports, NEW up, NEW er, NEW dr, EnqPick(i, b, f, m, up, er, dr)
  PROVE  QueueType'
<1>1. destmask' \subseteq Ports /\ flushPend' \subseteq Ports
  BY Zenon DEF QueueType, EnqPick, AdmitMask, PendAfterIdle
<1>2. enqPort' \in OrNone(Ports) /\ bufid' \in OrNone(Buffers) /\ enqInfo' \in OrNone(Infos)
  BY Zenon DEF EnqPick, OrNone
<1>3. portIdx' \in 0 .. NumPorts /\ qmState' \in QmStates
  BY Geometry DEF EnqPick, QmStates
<1>b. lastWasDeq' \in BOOLEAN
  BY Zenon DEF EnqPick
<1>4. QED
  BY Zenon, <1>1, <1>2, <1>3, <1>b DEF QueueType, EnqPick, flushRegs, listVars, infoVars

\* Accepting a dequeue keeps the queue manager's types.
LEMMA DeqPickType ==
  ASSUME QueueType, NEW p, NEW er, NEW dr \in SUBSET Ports, DeqPick(p, er, dr)
  PROVE  QueueType'
BY Zenon DEF QueueType, DeqPick, DeqEligible, PendAfterIdle, OrNone, QmStates,
   enqRegs, flushRegs, listVars, infoVars

\* An idle cycle that retires finished flushes keeps the queue manager's types.
LEMMA IdleStepType ==
  ASSUME QueueType, NEW er, NEW dr, IdleStep(er, dr) PROVE QueueType'
BY Zenon DEF QueueType, IdleStep, PendAfterIdle, enqRegs, flushRegs, listVars, infoVars

\* Leaving a wait state keeps the queue manager's types.
LEMMA GrantedType ==
  ASSUME QueueType, NEW from, NEW to \in QmStates, Granted(from, to) PROVE QueueType'
BY Zenon DEF QueueType, Granted, enqRegs, flushRegs, listVars, infoVars

\* S_ENQ_LEN keeps the queue manager's types.
LEMMA EnqLenType ==
  ASSUME QueueType, EnqLen PROVE QueueType'
BY ZenonT(30) DEF QueueType, EnqLen, OrNone, QmStates, enqRegs, flushRegs, listVars, infoVars

\* S_ENQ_FIND keeps the queue manager's types.
LEMMA EnqFindType ==
  ASSUME QueueType, NEW p, EnqFind(p) PROVE QueueType'
BY Geometry DEF QueueType, EnqFind, IsLowest, Unlinked, Ports, QmStates,
   enqRegs, flushRegs, listVars, infoVars

\* S_ENQ_LINK_OLDTAIL keeps the queue manager's types.
LEMMA EnqLinkOldTailType ==
  ASSUME QueueType, EnqLinkOldTail PROVE QueueType'
<1>1. link' \in [Ports -> [Buffers -> OrNone(Buffers)]]
  BY Zenon DEF QueueType, EnqLinkOldTail
<1>2. QED
  BY Zenon, <1>1 DEF QueueType, EnqLinkOldTail, QmStates, enqRegs, flushRegs, infoVars

\* S_ENQ_LINK_NEW keeps the queue manager's types; port_idx_q ends at NUM_PORTS.
LEMMA EnqLinkNewType ==
  ASSUME QueueType, EnqLinkNew, portIdx \in Ports, bufid \in Buffers, enqInfo \in Infos
  PROVE  QueueType'
<1>0. None \in OrNone(Buffers)
  BY Zenon DEF OrNone
<1>1. link' \in [Ports -> [Buffers -> OrNone(Buffers)]]
  BY Zenon, <1>0 DEF QueueType, EnqLinkNew, LinkNewEntry
<1>2. head' \in [Ports -> OrNone(Buffers)] /\ tail' \in [Ports -> OrNone(Buffers)]
  BY Zenon DEF QueueType, EnqLinkNew, HeadAfterLink, OrNone
<1>3. q' \in [Ports -> Seq(Frames)]
  <2>1. [buf |-> bufid, info |-> enqInfo] \in Frames
    BY Zenon DEF Frames
  <2>2. q \in [Ports -> Seq(Frames)]
    BY Zenon DEF QueueType
  <2>3. Append(q[portIdx], [buf |-> bufid, info |-> enqInfo]) \in Seq(Frames)
    BY <2>1, <2>2
  <2>4. QED
    BY Zenon, <2>2, <2>3 DEF EnqLinkNew
<1>4. portIdx' \in 0 .. NumPorts
  BY Geometry DEF EnqLinkNew, NextPort, Ports
<1>5. QED
  BY Zenon, <1>1, <1>2, <1>3, <1>4 DEF QueueType, EnqLinkNew, QmStates, enqRegs, flushRegs, infoVars

\* S_ENQ_ACK keeps the queue manager's types.
LEMMA EnqAckType ==
  ASSUME QueueType, EnqAck PROVE QueueType'
BY Geometry DEF QueueType, EnqAck, QmStates, OrNone, flushRegs, listVars, infoVars

\* Taking the head off a list keeps the types of the list pointers.
LEMMA PopHeadType ==
  ASSUME QueueType, NEW p \in Ports, q[p] # <<>>, PopHead(p)
  PROVE  /\ head' \in [Ports -> OrNone(Buffers)]
         /\ queueEmpty' \subseteq Ports
         /\ q' \in [Ports -> Seq(Frames)]
BY DEF QueueType, PopHead

\* S_DEQ_READ keeps the queue manager's types.
LEMMA DeqReadType ==
  ASSUME QueueType, DeqRead, deqPort \in Ports, head[deqPort] \in Buffers PROVE QueueType'
<1>1. infoRead' \in OrNone(Infos) /\ lnkRead' \in OrNone(Buffers)
  BY Zenon DEF QueueType, DeqRead
<1>2. QED
  BY Zenon, <1>1 DEF QueueType, DeqRead, QmStates, enqRegs, flushRegs, listVars

\* S_DEQ_COMPLETE keeps the queue manager's types.
LEMMA DeqCompleteType ==
  ASSUME QueueType, DeqComplete, deqPort \in Ports, q[deqPort] # <<>> PROVE QueueType'
<1>1. PopHead(deqPort)
  BY Zenon DEF DeqComplete
<1>2. QED
  BY Zenon, <1>1, PopHeadType DEF QueueType, DeqComplete, PopHead, QmStates, OrNone, enqRegs,
     flushRegs

\* Starting to flush a port keeps the queue manager's types.
LEMMA FlushPickType ==
  ASSUME QueueType, NEW p, FlushPick(p) PROVE QueueType'
BY ZenonT(30) DEF QueueType, FlushPick, IsLowest, FlushPorts, PendAfterIdle, OrNone, QmStates,
   enqRegs, listVars, infoVars

\* S_FL_READ keeps the queue manager's types.
LEMMA FlushReadType ==
  ASSUME QueueType, FlushRead, flPort \in Ports, head[flPort] \in Buffers PROVE QueueType'
<1>1. flBuf' \in OrNone(Buffers) /\ lnkRead' \in OrNone(Buffers)
  BY Zenon DEF QueueType, FlushRead
<1>2. QED
  BY Zenon, <1>1 DEF QueueType, FlushRead, QmStates, enqRegs, infoVars, listVars

\* S_FL_COMPLETE keeps the queue manager's types.
LEMMA FlushCompleteType ==
  ASSUME QueueType, FlushComplete, flPort \in Ports, q[flPort] # <<>> PROVE QueueType'
<1>1. PopHead(flPort)
  BY Zenon DEF FlushComplete
<1>2. QED
  BY ZenonT(30), <1>1, PopHeadType DEF QueueType, FlushComplete, PopHead, QmStates, OrNone,
     enqRegs, flushRegs, infoVars

\* Leaving S_FL_REL keeps the queue manager's types.
LEMMA FlushReleasedType ==
  ASSUME QueueType, FlushReleased PROVE QueueType'
BY Zenon DEF QueueType, FlushReleased, QmStates, OrNone, enqRegs, listVars, infoVars

\* A flush request keeps the queue manager's types.
LEMMA FlushRequestType ==
  ASSUME QueueType, NEW p \in Ports, FlushRequest(p) PROVE QueueType'
BY Zenon DEF QueueType, FlushRequest, enqRegs, flushRegs, listVars, infoVars

\* Every step of the queue manager alone keeps its types.
LEMMA QueueStepType ==
  ASSUME IndInv, QueueStep PROVE QueueType'
<1> USE DEF IndInv, TypeOK
<1>1. CASE IdleStep(EnqRequests, DeqRequests)
  BY Zenon, <1>1, IdleStepType
<1>2. CASE EnqLen
  BY Zenon, <1>2, EnqLenType
<1>3. CASE EnqFindNone
  BY Zenon, <1>3, GrantedType DEF EnqFindNone, QmStates
<1>4. CASE \E p \in Ports : EnqFind(p)
  BY Zenon, <1>4, EnqFindType
<1>5. CASE EnqLinkOldTail
  BY Zenon, <1>5, EnqLinkOldTailType
<1>6. CASE EnqLinkNew
  BY Zenon, <1>6, EnqLinkNewType, EnqueueFacts DEF EnqLinkNew, EnqStates
<1>7. CASE DeqRead
  BY Zenon, <1>7, DeqReadType, DequeueFacts, HeadFacts DEF DeqRead
<1>8. CASE \E p \in Ports : FlushPick(p)
  BY Zenon, <1>8, FlushPickType
<1>9. CASE FlushRead
  BY Zenon, <1>9, FlushReadType, FlushFacts, HeadFacts DEF FlushRead
<1>10. CASE FlushComplete
  BY Zenon, <1>10, FlushCompleteType, FlushFacts, HeadFacts DEF FlushComplete
<1>11. QED
  BY Zenon, <1>1, <1>2, <1>3, <1>4, <1>5, <1>6, <1>7, <1>8, <1>9, <1>10 DEF QueueStep

\* Every step keeps the types, the count of a destination mask being a number.
LEMMA TypeStep ==
  ASSUME IndInv, [Next]_vars, Cardinality(destmask) \in Nat PROVE TypeOK'
<1> SUFFICES FreeListType' /\ QueueType' /\ PortType'
  BY Zenon DEF TypeOK
<1>t. FreeListType /\ QueueType /\ PortType
  BY Zenon DEF IndInv, TypeOK
<1>fl. ASSUME UNCHANGED flVars PROVE FreeListType'
  BY Zenon, <1>t, <1>fl DEF FreeListType, flVars
<1>qm. ASSUME UNCHANGED qmVars PROVE QueueType'
  BY Zenon, <1>t, <1>qm DEF QueueType, qmVars, enqRegs, flushRegs, listVars, infoVars
<1>po. ASSUME UNCHANGED <<ingVars, egrVars, linkVars>> PROVE PortType'
  BY Zenon, <1>t, <1>po DEF PortType, ingVars, egrVars, linkVars
<1>n. None \in OrNone(Buffers) /\ None \in OrNone(Infos)
  BY Zenon DEF OrNone
<1>1. CASE FillStep
  BY Zenon, <1>1, <1>t, <1>qm, <1>po, FillType DEF FillStep
<1>2. CASE GrantSetRef
  <2>1. SetRef(bufid, Cardinality(destmask)) /\ SetRefGranted /\ UNCHANGED <<ingVars, egrVars, linkVars>>
    BY Zenon, <1>2 DEF GrantSetRef
  <2>2. QED
    BY Zenon, <2>1, <1>t, <1>po, SetRefType, GrantedType DEF SetRefGranted, QmStates
<1>3. CASE GrantDirectFree
  BY Zenon, <1>3, <1>t, <1>po, DirectFreeType, GrantedType, EnqueueFacts
     DEF GrantDirectFree, DirectFreeGranted, Granted, QmStates, EnqStates
<1>4. CASE StartFlushRelease
  BY Zenon, <1>4, <1>t, <1>qm, <1>po, ReleaseReadType, FlushFacts DEF StartFlushRelease
<1>5. CASE GrantPortRelease
  <2>1. ReleaseWrite /\ relSlot \in Ports /\ relBuf \in Buffers
    BY Zenon, <1>5, ReleaseFacts DEF GrantPortRelease, ReleaseWrite
  <2>2. PortType'
    BY Zenon, <1>5, <1>t, <2>1, <1>n DEF GrantPortRelease, PortType, ingVars, linkVars
  <2>3. QED
    BY Zenon, <1>5, <2>1, <2>2, <1>t, <1>qm, ReleaseWriteType DEF GrantPortRelease
<1>6. CASE GrantFlushRelease
  BY Zenon, <1>6, <1>t, <1>po, ReleaseFacts, ReleaseWriteType, FlushReleasedType
     DEF GrantFlushRelease, ReleaseWrite
<1>7. CASE QueueStep
  BY Zenon, <1>7, <1>fl, <1>po, QueueStepType DEF QueueStep
<1>8. CASE CompleteEnqueue
  <2>1. PortType'
    BY Zenon, <1>8, <1>t, <1>n DEF CompleteEnqueue, PortType, egrVars, linkVars
  <2>2. QED
    BY Zenon, <1>8, <2>1, <1>t, <1>fl, EnqAckType DEF CompleteEnqueue
<1>9. CASE CompleteDequeue
  <2>1. DeqComplete /\ deqPort \in Ports /\ q[deqPort] # <<>>
    BY Zenon, <1>9, DequeueFacts, HeadFacts DEF CompleteDequeue, DeqComplete
  <2>2. head[deqPort] \in OrNone(Buffers) /\ infoRead \in OrNone(Infos)
    BY Zenon, <2>1, <1>t DEF QueueType
  <2>3. PortType'
    BY Zenon, <1>9, <1>t, <2>2 DEF CompleteDequeue, PortType, ingVars, linkVars
  <2>4. QED
    BY Zenon, <1>9, <2>1, <2>3, <1>t, <1>fl, DeqCompleteType DEF CompleteDequeue
<1>10. ASSUME NEW i \in Ports, ReceiveFrame(i) PROVE FreeListType' /\ QueueType' /\ PortType'
  <2>1. PortType'
    BY ZenonT(30), <1>10, <1>t DEF ReceiveFrame, PortType, egrVars, linkVars, OrNone
  <2>2. QED
    BY Zenon, <1>10, <2>1, <1>fl, <1>qm DEF ReceiveFrame
<1>11. ASSUME NEW i \in Ports, Alloc(i) PROVE FreeListType' /\ QueueType' /\ PortType'
  <2>1. FreeListType' /\ Head(freeFifo) \in Buffers
    BY Zenon, <1>11, <1>t, AllocPopType DEF Alloc
  <2>2. PortType'
    BY Zenon, <1>11, <1>t, <2>1 DEF Alloc, PortType, egrVars, linkVars, OrNone
  <2>3. QED
    BY Zenon, <1>11, <2>1, <2>2, <1>qm DEF Alloc
<1>12. ASSUME NEW i \in Ports, DmaWrite(i) PROVE FreeListType' /\ QueueType' /\ PortType'
  <2>1. PortType'
    BY Zenon, <1>12, <1>t DEF DmaWrite, PortType, egrVars, linkVars
  <2>2. QED
    BY Zenon, <1>12, <2>1, <1>fl, <1>qm DEF DmaWrite
<1>13. ASSUME NEW i \in Ports, StartEnqueue(i) PROVE FreeListType' /\ QueueType' /\ PortType'
  <2>1. PICK m \in SUBSET Ports : EnqPick(i, ingBuf[i], ingInfo[i], m, linkUp, EnqRequests, DeqRequests)
    BY Zenon, <1>13 DEF StartEnqueue
  <2>2. ingBuf[i] \in Buffers /\ ingInfo[i] \in Infos
    BY Zenon, <2>1, FrontEndFacts DEF EnqPick, EnqRequests
  <2>3. QueueType'
    BY Zenon, <2>1, <2>2, <1>t, EnqPickType
  <2>4. QED
    BY Zenon, <1>13, <2>3, <1>fl, <1>po DEF StartEnqueue
<1>14. ASSUME NEW p \in Ports, StartDequeue(p) PROVE FreeListType' /\ QueueType' /\ PortType'
  <2>1. DeqRequests \in SUBSET Ports
    BY Zenon DEF DeqRequests
  <2>2. QED
    BY Zenon, <1>14, <2>1, <1>t, <1>fl, <1>po, DeqPickType DEF StartDequeue
<1>15. ASSUME NEW p \in Ports, DmaRead(p) \/ FrameSent(p) PROVE FreeListType' /\ QueueType' /\ PortType'
  <2>1. PortType'
    BY Zenon, <1>15, <1>t DEF DmaRead, FrameSent, PortType, ingVars, linkVars
  <2>2. QED
    BY Zenon, <1>15, <2>1, <1>fl, <1>qm DEF DmaRead, FrameSent
<1>16. ASSUME NEW p \in Ports, StartPortRelease(p) PROVE FreeListType' /\ QueueType' /\ PortType'
  <2>1. egrBuf[p] \in Buffers
    BY Zenon, <1>16, FrontEndFacts DEF StartPortRelease, PortReleases
  <2>2. QED
    BY Zenon, <1>16, <2>1, <1>t, <1>qm, <1>po, ReleaseReadType DEF StartPortRelease
<1>17. ASSUME NEW p \in Ports, FlushPulse(p) PROVE FreeListType' /\ QueueType' /\ PortType'
  <2>1. PortType'
    BY Zenon, <1>17, <1>t DEF FlushPulse, PortType, ingVars, egrVars
  <2>2. QED
    BY Zenon, <1>17, <2>1, <1>t, <1>fl, FlushRequestType DEF FlushPulse
<1>18. ASSUME NEW p \in Ports, LinkDown(p) \/ AskFlush(p) \/ LinkSet(p)
       PROVE  FreeListType' /\ QueueType' /\ PortType'
  <2>1. PortType'
    BY Zenon, <1>18, <1>t DEF LinkDown, AskFlush, LinkSet, PortType, ingVars, egrVars
  <2>2. QED
    BY Zenon, <1>18, <2>1, <1>fl, <1>qm DEF LinkDown, AskFlush, LinkSet
<1>19. CASE UNCHANGED vars
  BY Zenon, <1>19, <1>fl, <1>qm, <1>po DEF vars
<1>20. QED
  BY Zenon, TrafficAssumption, <1>1, <1>2, <1>3, <1>4, <1>5, <1>6, <1>7, <1>8, <1>9, <1>10, <1>11,
     <1>12, <1>13, <1>14, <1>15, <1>16, <1>17, <1>18, <1>19 DEF Next

-----------------------------------------------------------------------------
(* Links and flushes *)

\* A step that changes neither links, flushes, queues nor the destination mask keeps
\* the drained ports drained.
LEMMA DrainedFrame ==
  ASSUME DownMeansDrained, UNCHANGED <<linkUp, flushDue, flushPend, q, destmask>>
  PROVE  DownMeansDrained'
BY Zenon DEF DownMeansDrained

\* Every step keeps the drained ports drained.
LEMMA DrainedStep ==
  IndInv /\ DownMeansDrained /\ [Next]_vars => DownMeansDrained'
<1> SUFFICES ASSUME IndInv, DownMeansDrained, [Next]_vars PROVE DownMeansDrained'
  BY Zenon
<1>e. \A p \in Ports : p \in queueEmpty => q[p] = <<>>
  BY Zenon DEF IndInv, ListsSound, ListSound
<1>m. qmState \notin EnqStates => destmask = {}
  BY Zenon DEF IndInv, HandshakesAgree, EnqueueAgrees
<1>1. CASE \/ FillStep \/ GrantSetRef \/ GrantDirectFree \/ StartFlushRelease \/ GrantPortRelease
           \/ GrantFlushRelease
  BY Zenon, <1>1, DrainedFrame DEF FillStep, GrantSetRef, SetRefGranted, GrantDirectFree,
     DirectFreeGranted,
     Granted, StartFlushRelease, GrantPortRelease, GrantFlushRelease, FlushReleased, linkVars, qmVars,
     enqRegs, listVars
<1>2. ASSUME NEW p \in Ports,
             \/ ReceiveFrame(p) \/ Alloc(p) \/ DmaWrite(p) \/ DmaRead(p) \/ FrameSent(p) \/ StartPortRelease(p)
      PROVE  DownMeansDrained'
  BY Zenon, <1>2, DrainedFrame DEF ReceiveFrame, Alloc, DmaWrite, DmaRead, FrameSent,
     StartPortRelease,
     linkVars, qmVars, enqRegs, listVars
<1>3. ASSUME NEW p \in Ports, LinkSet(p) \/ LinkDown(p) \/ AskFlush(p) PROVE DownMeansDrained'
  <2>1. UNCHANGED <<q, destmask, flushPend>>
    BY Zenon, <1>3 DEF LinkSet, LinkDown, AskFlush, qmVars, enqRegs, listVars
  <2>2. linkUp \cup flushDue \subseteq linkUp' \cup flushDue'
    BY Zenon, <1>3 DEF LinkSet, LinkDown, AskFlush
  <2>3. QED
    BY Zenon, <2>1, <2>2 DEF DownMeansDrained
<1>4. ASSUME NEW p \in Ports, FlushPulse(p) PROVE DownMeansDrained'
  <2>1. UNCHANGED <<q, destmask, linkUp>>
    BY Zenon, <1>4 DEF FlushPulse, FlushRequest, enqRegs, listVars
  <2>2. flushDue \cup flushPend = flushDue' \cup flushPend'
    BY Zenon, <1>4 DEF FlushPulse, FlushRequest
  <2>3. QED
    BY Zenon, <2>1, <2>2 DEF DownMeansDrained
<1>5. ASSUME qmState = "IDLE", flushPend' = PendAfterIdle, UNCHANGED <<q, linkUp, flushDue>>,
             destmask' \subseteq linkUp
      PROVE  DownMeansDrained'
  BY Zenon, <1>5, <1>e DEF DownMeansDrained, PendAfterIdle
<1>6. ASSUME NEW p \in Ports, StartEnqueue(p) \/ StartDequeue(p) PROVE DownMeansDrained'
  <2>1. qmState = "IDLE" /\ flushPend' = PendAfterIdle /\ UNCHANGED <<q, linkUp, flushDue>>
    BY Zenon, <1>6 DEF StartEnqueue, EnqPick, StartDequeue, DeqPick, listVars, linkVars
  <2>2. destmask' \subseteq linkUp
    BY Zenon, <1>6, <1>m DEF StartEnqueue, EnqPick, AdmitMask, StartDequeue, DeqPick, enqRegs,
       EnqStates
  <2>3. QED
    BY Zenon, <2>1, <2>2, <1>5
<1>7. ASSUME UNCHANGED <<linkUp, flushDue, flushPend, destmask>>,
             \A p \in Ports : q[p] = <<>> /\ p \notin destmask => q'[p] = <<>>
      PROVE  DownMeansDrained'
  BY Zenon, <1>7 DEF DownMeansDrained
<1>8. CASE QueueStep
  <2>u. UNCHANGED <<linkUp, flushDue>>
    BY Zenon, <1>8 DEF QueueStep, linkVars
  <2>1. CASE IdleStep(EnqRequests, DeqRequests) \/ \E p \in Ports : FlushPick(p)
    <3>1. qmState = "IDLE" /\ flushPend' = PendAfterIdle /\ UNCHANGED <<q, destmask>>
      BY Zenon, <2>1 DEF IdleStep, FlushPick, listVars, enqRegs
    <3>2. destmask' \subseteq linkUp
      BY Zenon, <3>1, <1>m DEF EnqStates
    <3>3. QED
      BY Zenon, <3>1, <3>2, <2>u, <1>5
  <2>2. CASE EnqLen \/ EnqFindNone \/ (\E p \in Ports : EnqFind(p)) \/ EnqLinkOldTail \/ DeqRead \/ FlushRead
    BY Zenon, <2>2, <2>u, DrainedFrame DEF EnqLen, EnqFindNone, Granted, EnqFind, EnqLinkOldTail,
       DeqRead,
       FlushRead, listVars, enqRegs
  <2>3. CASE EnqLinkNew
    <3>1. portIdx \in destmask
      BY Zenon, <2>3 DEF EnqLinkNew, IndInv, HandshakesAgree, EnqueueAgrees
    <3>2. \A p \in Ports : p \notin destmask => q'[p] = q[p]
      BY Zenon, <3>1, <2>3 DEF EnqLinkNew, IndInv, TypeOK, QueueType
    <3>3. UNCHANGED <<linkUp, flushDue, flushPend, destmask>>
      BY Zenon, <2>3, <2>u DEF EnqLinkNew, enqRegs
    <3>4. QED
      BY Zenon, <3>2, <3>3, <1>7
  <2>4. CASE FlushComplete
    <3>1. flPort \in Ports /\ q[flPort] # <<>>
      BY Zenon, <2>4, FlushFacts, HeadFacts DEF FlushComplete, IndInv, HandshakesAgree, FlushAgrees
    <3>2. \A p \in Ports : p # flPort => q'[p] = q[p]
      BY Zenon, <2>4 DEF FlushComplete, PopHead, IndInv, TypeOK, QueueType
    <3>3. UNCHANGED <<linkUp, flushDue, flushPend, destmask>>
      BY Zenon, <2>4, <2>u DEF FlushComplete, enqRegs
    <3>4. QED
      BY Zenon, <3>1, <3>2, <3>3, <1>7
  <2>5. QED
    BY Zenon, <1>8, <2>1, <2>2, <2>3, <2>4 DEF QueueStep
<1>9. CASE CompleteEnqueue
  <2>1. UNCHANGED <<linkUp, flushDue, flushPend, q>> /\ destmask' = {}
    BY Zenon, <1>9 DEF CompleteEnqueue, EnqAck, linkVars, listVars
  <2>2. QED
    BY Zenon, <2>1 DEF DownMeansDrained
<1>10. CASE CompleteDequeue
  <2>1. deqPort \in Ports /\ q[deqPort] # <<>>
    BY Zenon, <1>10, DequeueFacts, HeadFacts
       DEF CompleteDequeue, DeqComplete, IndInv, HandshakesAgree, DequeueAgrees
  <2>2. \A p \in Ports : p # deqPort => q'[p] = q[p]
    BY Zenon, <1>10 DEF CompleteDequeue, DeqComplete, PopHead, IndInv, TypeOK, QueueType
  <2>3. UNCHANGED <<linkUp, flushDue, flushPend, destmask>>
    BY Zenon, <1>10 DEF CompleteDequeue, DeqComplete, enqRegs, linkVars
  <2>4. QED
    BY Zenon, <2>1, <2>2, <2>3, <1>7
<1>11. CASE UNCHANGED vars
  BY Zenon, <1>11, DrainedFrame DEF vars, linkVars, qmVars, enqRegs, listVars
<1>12. QED
  BY Zenon, TrafficAssumption, <1>1, <1>2, <1>3, <1>4, <1>6, <1>8, <1>9, <1>10, <1>11 DEF Next

(***************************************************************************)
(* Every step keeps the two sides of each handshake in agreement.          *)
(***************************************************************************)
\* Every step keeps the front ends' buffer registers in agreement with their states.
LEMMA FrontEndsStep == IndInv /\ [Next]_vars => FrontEndsAgree'
<1> SUFFICES ASSUME IndInv, [Next]_vars PROVE FrontEndsAgree'
  BY Zenon
<1>t. PortType /\ FrontEndsAgree
  BY Zenon DEF IndInv, TypeOK, HandshakesAgree
<1>u. ASSUME UNCHANGED <<ingVars, egrVars>> PROVE FrontEndsAgree'
  BY Zenon, <1>t, <1>u DEF FrontEndsAgree, ingVars, egrVars
<1>1. CASE FillStep \/ GrantSetRef \/ GrantDirectFree \/ StartFlushRelease \/ GrantFlushRelease \/ QueueStep
  BY Zenon, <1>1, <1>u DEF FillStep, GrantSetRef, GrantDirectFree, StartFlushRelease,
     GrantFlushRelease, QueueStep
<1>2. ASSUME NEW p \in Ports,
             \/ StartEnqueue(p) \/ StartDequeue(p) \/ StartPortRelease(p) \/ FlushPulse(p)
             \/ LinkSet(p) \/ LinkDown(p) \/ AskFlush(p)
      PROVE  FrontEndsAgree'
  BY Zenon, <1>2, <1>u DEF StartEnqueue, StartDequeue, StartPortRelease, FlushPulse, LinkSet,
     LinkDown, AskFlush
<1>3. CASE GrantPortRelease
  <2>1. relSlot \in Ports
    BY Zenon, <1>3, ReleaseFacts DEF GrantPortRelease, ReleaseWrite
  <2>2. QED
    BY Zenon, <1>3, <1>t, <2>1 DEF GrantPortRelease, FrontEndsAgree, PortType, ingVars
<1>4. CASE CompleteEnqueue
  BY Zenon, <1>4, <1>t DEF CompleteEnqueue, FrontEndsAgree, PortType, egrVars
<1>5. CASE CompleteDequeue
  <2>1. qmState = "DEQ_COMPLETE" /\ deqPort \in Ports /\ deqPort \notin queueEmpty
    BY Zenon, <1>5, DequeueFacts DEF CompleteDequeue, DeqComplete
  <2>2. head[deqPort] \in Buffers
    BY Zenon, <2>1, HeadFacts
  <2>3. infoRead \in Infos
    <3>1. infoRead = infoMem[head[deqPort]]
      BY Zenon, <2>1 DEF IndInv, HandshakesAgree, DequeueAgrees
    <3>2. infoMem[q[deqPort][1].buf] = q[deqPort][1].info
      BY <2>1, HeadFacts DEF IndInv, ListsSound, ListSound
    <3>3. QED
      BY Zenon, <2>1, <3>1, <3>2, HeadFacts DEF Frames
  <2>4. head[deqPort] # None /\ infoRead # None
    BY <2>2, <2>3, InfosAssumption, Geometry DEF Buffers
  <2>5. QED
    BY Zenon, <1>5, <1>t, <2>1, <2>4 DEF CompleteDequeue, FrontEndsAgree, PortType, ingVars
<1>6. ASSUME NEW i \in Ports, ReceiveFrame(i) PROVE FrontEndsAgree'
  BY ZenonT(30), <1>6, <1>t, InfosAssumption DEF ReceiveFrame, FrontEndsAgree, PortType, egrVars
<1>7. ASSUME NEW i \in Ports, Alloc(i) PROVE FrontEndsAgree'
  <2>1. Head(freeFifo) \in Buffers
    BY Zenon, <1>7, HeadTailFacts DEF Alloc, AllocPop, IndInv, TypeOK, FreeListType
  <2>2. Head(freeFifo) # None
    BY <2>1, Geometry DEF Buffers
  <2>3. QED
    BY Zenon, <1>7, <1>t, <2>2 DEF Alloc, FrontEndsAgree, PortType, egrVars
<1>8. ASSUME NEW i \in Ports, DmaWrite(i) PROVE FrontEndsAgree'
  BY Zenon, <1>8, <1>t DEF DmaWrite, FrontEndsAgree, PortType, egrVars
<1>9. ASSUME NEW p \in Ports, DmaRead(p) \/ FrameSent(p) PROVE FrontEndsAgree'
  BY ZenonT(30), <1>9, <1>t DEF DmaRead, FrameSent, FrontEndsAgree, PortType, ingVars
<1>10. CASE UNCHANGED vars
  BY Zenon, <1>10, <1>u DEF vars
<1>11. QED
  BY Zenon, TrafficAssumption, <1>1, <1>2, <1>3, <1>4, <1>5, <1>6, <1>7, <1>8, <1>9, <1>10 DEF Next

\* Every step keeps the enqueue in progress and its ingress front end in agreement:
\* the request waits, unchanged, until enqueue_gnt.
LEMMA EnqueueStep == IndInv /\ [Next]_vars => EnqueueAgrees'
<1> SUFFICES ASSUME IndInv, [Next]_vars PROVE EnqueueAgrees'
  BY Zenon
<1> USE DEF EnqStates, Linking
<1>t. PortType /\ QueueType /\ EnqueueAgrees
  BY Zenon DEF IndInv, TypeOK, HandshakesAgree
<1>u. ASSUME UNCHANGED <<qmState, enqRegs, portIdx, queueEmpty, infoMem, ingVars>> PROVE EnqueueAgrees'
  BY Zenon, <1>t, <1>u DEF EnqueueAgrees, enqRegs, ingVars
<1>1. CASE FillStep \/ StartFlushRelease \/ GrantPortRelease
  BY Zenon, <1>1, <1>u DEF FillStep, StartFlushRelease, GrantPortRelease, qmVars, listVars, infoVars
<1>2. ASSUME NEW p \in Ports,
             \/ StartPortRelease(p) \/ FlushPulse(p) \/ DmaRead(p) \/ FrameSent(p)
             \/ LinkSet(p) \/ LinkDown(p) \/ AskFlush(p)
      PROVE  EnqueueAgrees'
  BY Zenon, <1>2, <1>u DEF StartPortRelease, FlushPulse, FlushRequest, DmaRead, FrameSent,
     LinkSet, LinkDown, AskFlush, qmVars, listVars, infoVars
<1>3. CASE GrantSetRef
  BY Zenon, <1>3, <1>t DEF GrantSetRef, SetRefGranted, Granted, EnqueueAgrees, enqRegs, listVars,
     infoVars, ingVars
<1>4. CASE GrantDirectFree
  BY Zenon, <1>4, <1>t DEF GrantDirectFree, DirectFreeGranted, Granted, EnqueueAgrees, enqRegs,
     listVars, infoVars, ingVars
<1>5. CASE GrantFlushRelease
  BY Zenon, <1>5, <1>t DEF GrantFlushRelease, FlushReleased, EnqueueAgrees, enqRegs, listVars,
     infoVars, ingVars
<1>6. CASE QueueStep
  <2>u. UNCHANGED ingVars
    BY Zenon, <1>6 DEF QueueStep
  <2>1. CASE IdleStep(EnqRequests, DeqRequests)
    BY Zenon, <2>1, <2>u, <1>u DEF IdleStep, listVars, infoVars
  <2>2. CASE EnqLen
    BY Zenon, <2>2, <2>u, <1>t, EnqueueFacts DEF EnqLen, EnqueueAgrees, QueueType, enqRegs,
       listVars, ingVars
  <2>3. CASE EnqFindNone
    BY Zenon, <2>3, <2>u, <1>t DEF EnqFindNone, Granted, EnqueueAgrees, enqRegs, listVars,
       infoVars, ingVars
  <2>4. CASE \E p \in Ports : EnqFind(p)
    BY Zenon, <2>4, <2>u, <1>t DEF EnqFind, IsLowest, Unlinked, EnqueueAgrees, enqRegs, listVars,
       infoVars, ingVars
  <2>5. CASE EnqLinkOldTail
    BY Zenon, <2>5, <2>u, <1>t DEF EnqLinkOldTail, EnqueueAgrees, enqRegs, infoVars, ingVars
  <2>6. CASE EnqLinkNew
    BY Zenon, <2>6, <2>u, <1>t DEF EnqLinkNew, EnqueueAgrees, enqRegs, infoVars, ingVars
  <2>7. CASE DeqRead
    BY Zenon, <2>7, <2>u, <1>t DEF DeqRead, EnqueueAgrees, enqRegs, listVars, infoVars, ingVars
  <2>8. CASE \E p \in Ports : FlushPick(p)
    BY Zenon, <2>8, <2>u, <1>t DEF FlushPick, EnqueueAgrees, enqRegs, listVars, infoVars, ingVars
  <2>9. CASE FlushRead
    BY Zenon, <2>9, <2>u, <1>t DEF FlushRead, EnqueueAgrees, enqRegs, listVars, infoVars, ingVars
  <2>10. CASE FlushComplete
    BY Zenon, <2>10, <2>u, <1>t DEF FlushComplete, EnqueueAgrees, enqRegs, infoVars, ingVars
  <2>11. QED
    BY Zenon, <1>6, <2>1, <2>2, <2>3, <2>4, <2>5, <2>6, <2>7, <2>8, <2>9, <2>10 DEF QueueStep
<1>7. CASE CompleteEnqueue
  BY Zenon, <1>7, <1>t DEF CompleteEnqueue, EnqAck, EnqueueAgrees
<1>8. CASE CompleteDequeue
  BY Zenon, <1>8, <1>t DEF CompleteDequeue, DeqComplete, EnqueueAgrees, enqRegs
<1>9. ASSUME NEW i \in Ports, ReceiveFrame(i) PROVE EnqueueAgrees'
  BY Zenon, <1>9, <1>t, EnqueueFacts DEF ReceiveFrame, EnqueueAgrees, PortType, qmVars, enqRegs,
     listVars, infoVars
<1>10. ASSUME NEW i \in Ports, Alloc(i) PROVE EnqueueAgrees'
  BY Zenon, <1>10, <1>t, EnqueueFacts DEF Alloc, EnqueueAgrees, PortType, qmVars, enqRegs,
     listVars, infoVars
<1>11. ASSUME NEW i \in Ports, DmaWrite(i) PROVE EnqueueAgrees'
  BY Zenon, <1>11, <1>t, EnqueueFacts DEF DmaWrite, EnqueueAgrees, PortType, qmVars, enqRegs,
     listVars, infoVars
<1>12. ASSUME NEW i \in Ports, StartEnqueue(i) PROVE EnqueueAgrees'
  <2>1. PICK m \in SUBSET Ports : EnqPick(i, ingBuf[i], ingInfo[i], m, linkUp, EnqRequests, DeqRequests)
    BY Zenon, <1>12 DEF StartEnqueue
  <2>2. ingState[i] = "ENQ_WAIT" /\ ingBuf[i] # None
    BY Zenon, <2>1 DEF EnqPick, EnqRequests, IndInv, HandshakesAgree, FrontEndsAgree
  <2>3. i # None
    BY Geometry DEF Ports
  <2>4. UNCHANGED ingVars
    BY Zenon, <1>12 DEF StartEnqueue
  <2>5. QED
    BY Zenon, <2>1, <2>2, <2>3, <2>4 DEF EnqPick, EnqueueAgrees, ingVars
<1>13. ASSUME NEW p \in Ports, StartDequeue(p) PROVE EnqueueAgrees'
  BY Zenon, <1>13, <1>t DEF StartDequeue, DeqPick, EnqueueAgrees, enqRegs
<1>14. CASE UNCHANGED vars
  BY Zenon, <1>14, <1>u DEF vars, qmVars, listVars, infoVars
<1>15. QED
  BY Zenon, TrafficAssumption, <1>1, <1>2, <1>3, <1>4, <1>5, <1>6, <1>7, <1>8, <1>9, <1>10, <1>11,
     <1>12, <1>13, <1>14 DEF Next

\* Every step keeps the dequeue in progress in agreement with the list it reads: what
\* S_DEQ_READ read is still current in S_DEQ_COMPLETE.
LEMMA DequeueStep == IndInv /\ [Next]_vars => DequeueAgrees'
<1> SUFFICES ASSUME IndInv, [Next]_vars PROVE DequeueAgrees'
  BY Zenon
<1>t. PortType /\ QueueType /\ DequeueAgrees
  BY Zenon DEF IndInv, TypeOK, HandshakesAgree
<1>u. ASSUME UNCHANGED <<qmVars, egrState>> PROVE DequeueAgrees'
  BY Zenon, <1>t, <1>u DEF DequeueAgrees, qmVars, listVars, infoVars
<1>o. ASSUME qmState' \notin {"DEQ_READ", "DEQ_COMPLETE"} PROVE DequeueAgrees'
  BY Zenon, <1>o DEF DequeueAgrees
<1>1. CASE FillStep \/ StartFlushRelease
  BY Zenon, <1>1, <1>u DEF FillStep, StartFlushRelease, egrVars
<1>2. ASSUME NEW p \in Ports,
             \/ ReceiveFrame(p) \/ Alloc(p) \/ DmaWrite(p) \/ StartPortRelease(p)
             \/ LinkSet(p) \/ LinkDown(p) \/ AskFlush(p)
      PROVE  DequeueAgrees'
  BY Zenon, <1>2, <1>u DEF ReceiveFrame, Alloc, DmaWrite, StartPortRelease, LinkSet, LinkDown,
     AskFlush, egrVars
<1>3. CASE GrantSetRef \/ GrantDirectFree \/ GrantFlushRelease \/ CompleteEnqueue \/ CompleteDequeue
  BY Zenon, <1>3, <1>o DEF GrantSetRef, SetRefGranted, GrantDirectFree, DirectFreeGranted, Granted,
     GrantFlushRelease, FlushReleased, CompleteEnqueue, EnqAck, CompleteDequeue, DeqComplete
<1>4. ASSUME NEW p \in Ports, FlushPulse(p) PROVE DequeueAgrees'
  BY Zenon, <1>4, <1>t DEF FlushPulse, FlushRequest, DequeueAgrees, listVars, infoVars, egrVars
<1>5. CASE QueueStep
  <2>1. CASE IdleStep(EnqRequests, DeqRequests)
    BY Zenon, <2>1, <1>o DEF IdleStep
  <2>2. CASE \/ EnqLen \/ EnqFindNone \/ (\E p \in Ports : EnqFind(p)) \/ EnqLinkOldTail \/ EnqLinkNew
             \/ (\E p \in Ports : FlushPick(p)) \/ FlushRead \/ FlushComplete
    BY Zenon, <2>2, <1>o DEF EnqLen, EnqFindNone, Granted, EnqFind, EnqLinkOldTail, EnqLinkNew,
       FlushPick, FlushRead, FlushComplete
  <2>3. CASE DeqRead
    BY Zenon, <1>5, <2>3, <1>t DEF QueueStep, DeqRead, DequeueAgrees, listVars, egrVars
  <2>4. QED
    BY Zenon, <1>5, <2>1, <2>2, <2>3 DEF QueueStep
<1>6. CASE GrantPortRelease
  <2>1. relSlot \in Ports /\ egrState[relSlot] = "RELEASE_WAIT"
    BY Zenon, <1>6, ReleaseFacts DEF GrantPortRelease, ReleaseWrite, IndInv, HandshakesAgree,
       ReleaseAgrees
  <2>2. QED
    BY <1>6, <2>1, <1>t DEF GrantPortRelease, DequeueAgrees, PortType, qmVars, listVars, infoVars
<1>7. ASSUME NEW i \in Ports, StartEnqueue(i) PROVE DequeueAgrees'
  BY Zenon, <1>7, <1>o DEF StartEnqueue, EnqPick
<1>8. ASSUME NEW p \in Ports, StartDequeue(p) PROVE DequeueAgrees'
  <2>1. p # None
    BY Geometry DEF Ports
  <2>2. QED
    BY Zenon, <1>8, <2>1 DEF StartDequeue, DeqPick, DeqEligible, DeqRequests, DequeueAgrees,
       egrVars, listVars
<1>9. ASSUME NEW p \in Ports, DmaRead(p) \/ FrameSent(p) PROVE DequeueAgrees'
  <2>1. egrState[p] # "DEQ_WAIT" /\ UNCHANGED qmVars
    BY Zenon, <1>9 DEF DmaRead, FrameSent
  <2>2. \A r \in Ports : r # p => egrState'[r] = egrState[r]
    BY Zenon, <1>9, <1>t DEF DmaRead, FrameSent, PortType
  <2>3. qmState \in {"DEQ_READ", "DEQ_COMPLETE"} => deqPort \in Ports /\ egrState'[deqPort] = egrState[deqPort]
    BY Zenon, <2>1, <2>2, <1>t, DequeueFacts DEF DequeueAgrees
  <2>4. QED
    BY Zenon, <2>1, <2>3, <1>t DEF DequeueAgrees, qmVars, listVars, infoVars
<1>10. CASE UNCHANGED vars
  BY Zenon, <1>10, <1>u DEF vars, egrVars
<1>11. QED
  BY Zenon, TrafficAssumption, <1>1, <1>2, <1>3, <1>4, <1>5, <1>6, <1>7, <1>8, <1>9, <1>10 DEF Next

\* Every step keeps the flush in progress in agreement with the list it drains.
LEMMA FlushStep == IndInv /\ [Next]_vars => FlushAgrees'
<1> SUFFICES ASSUME IndInv, [Next]_vars PROVE FlushAgrees'
  BY Zenon
<1>t. QueueType /\ FlushAgrees
  BY Zenon DEF IndInv, TypeOK, HandshakesAgree
<1>u. ASSUME UNCHANGED qmVars PROVE FlushAgrees'
  BY Zenon, <1>t, <1>u DEF FlushAgrees, qmVars, flushRegs, listVars
<1>o. ASSUME qmState' \notin {"FL_READ", "FL_COMPLETE", "FL_REL"} PROVE FlushAgrees'
  BY Zenon, <1>o DEF FlushAgrees
<1>1. CASE FillStep \/ StartFlushRelease \/ GrantPortRelease
  BY Zenon, <1>1, <1>u DEF FillStep, StartFlushRelease, GrantPortRelease
<1>2. ASSUME NEW p \in Ports,
             \/ ReceiveFrame(p) \/ Alloc(p) \/ DmaWrite(p) \/ StartPortRelease(p)
             \/ DmaRead(p) \/ FrameSent(p) \/ LinkSet(p) \/ LinkDown(p) \/ AskFlush(p)
      PROVE  FlushAgrees'
  BY Zenon, <1>2, <1>u DEF ReceiveFrame, Alloc, DmaWrite, StartPortRelease, DmaRead, FrameSent,
     LinkSet, LinkDown, AskFlush
<1>3. CASE GrantSetRef \/ GrantDirectFree \/ GrantFlushRelease \/ CompleteEnqueue \/ CompleteDequeue
  BY Zenon, <1>3, <1>o DEF GrantSetRef, SetRefGranted, GrantDirectFree, DirectFreeGranted, Granted,
     GrantFlushRelease, FlushReleased, CompleteEnqueue, EnqAck, CompleteDequeue, DeqComplete
<1>4. ASSUME NEW p \in Ports, FlushPulse(p) PROVE FlushAgrees'
  BY Zenon, <1>4, <1>t DEF FlushPulse, FlushRequest, FlushAgrees, flushRegs, listVars
<1>5. CASE QueueStep
  <2>1. CASE IdleStep(EnqRequests, DeqRequests)
    BY Zenon, <2>1, <1>o DEF IdleStep
  <2>2. CASE \/ EnqLen \/ EnqFindNone \/ (\E p \in Ports : EnqFind(p)) \/ EnqLinkOldTail \/ EnqLinkNew
             \/ DeqRead
    BY Zenon, <2>2, <1>o DEF EnqLen, EnqFindNone, Granted, EnqFind, EnqLinkOldTail, EnqLinkNew,
       DeqRead
  <2>3. CASE \E p \in Ports : FlushPick(p)
    BY Zenon, <2>3 DEF FlushPick, IsLowest, FlushPorts, PendAfterIdle, FlushAgrees, listVars
  <2>4. CASE FlushRead
    BY Zenon, <2>4, <1>t DEF FlushRead, FlushAgrees, listVars
  <2>5. CASE FlushComplete
    <3>1. flBuf = head[flPort] /\ flPort \in Ports /\ flPort \notin queueEmpty
      BY Zenon, <2>5, FlushFacts DEF FlushComplete, IndInv, HandshakesAgree, FlushAgrees
    <3>2. flBuf # None
      BY SMTT(60), <3>1, HeadFacts, Geometry DEF Buffers
    <3>3. QED
      BY Zenon, <2>5, <3>2, <1>t DEF FlushComplete, FlushAgrees, flushRegs
  <2>6. QED
    BY Zenon, <1>5, <2>1, <2>2, <2>3, <2>4, <2>5 DEF QueueStep
<1>6. ASSUME NEW p \in Ports, StartEnqueue(p) \/ StartDequeue(p) PROVE FlushAgrees'
  BY Zenon, <1>6, <1>o DEF StartEnqueue, EnqPick, StartDequeue, DeqPick
<1>7. CASE UNCHANGED vars
  BY Zenon, <1>7, <1>u DEF vars
<1>8. QED
  BY Zenon, TrafficAssumption, <1>1, <1>2, <1>3, <1>4, <1>5, <1>6, <1>7 DEF Next

\* Every step keeps the release in progress in agreement with its requester, and the
\* count that was read is still the buffer's count when it is written back.
LEMMA ReleaseStep == IndInv /\ [Next]_vars => ReleaseAgrees'
<1> SUFFICES ASSUME IndInv, [Next]_vars PROVE ReleaseAgrees'
  BY Zenon
<1>t. PortType /\ FreeListType /\ QueueType /\ ReleaseAgrees
  BY Zenon DEF IndInv, TypeOK, HandshakesAgree
<1>u. ASSUME UNCHANGED <<flVars, qmState, flBuf, egrState, egrBuf>> PROVE ReleaseAgrees'
  BY Zenon, <1>t, <1>u DEF ReleaseAgrees, flVars
<1>o. ASSUME flState' # "RELEASE_WRITE" PROVE ReleaseAgrees'
  BY Zenon, <1>o DEF ReleaseAgrees
<1>1. CASE FillStep \/ GrantSetRef \/ GrantDirectFree \/ GrantPortRelease \/ GrantFlushRelease
  BY Zenon, <1>1, <1>o DEF FillStep, Fill, GrantSetRef, SetRef, GrantDirectFree, DirectFree,
     GrantPortRelease, GrantFlushRelease, ReleaseWrite
<1>2. CASE StartFlushRelease
  BY SMTT(60), <1>2, <1>t, FlushFacts, Geometry
     DEF StartFlushRelease, ReleaseRead, ReleaseAgrees, Buffers, qmVars, flushRegs
<1>3. ASSUME NEW p \in Ports, StartPortRelease(p) PROVE ReleaseAgrees'
  <2>1. egrBuf[p] \in Buffers
    BY Zenon, <1>3, FrontEndFacts DEF StartPortRelease, PortReleases
  <2>2. egrBuf[p] # None
    BY SMTT(60), <2>1, Geometry DEF Buffers
  <2>3. QED
    BY Zenon, <1>3, <2>2 DEF StartPortRelease, PortReleases, ReleaseRead, ReleaseAgrees, egrVars
<1>4. ASSUME NEW p \in Ports,
             \/ ReceiveFrame(p) \/ DmaWrite(p) \/ LinkSet(p) \/ LinkDown(p) \/ AskFlush(p) \/ FlushPulse(p)
      PROVE  ReleaseAgrees'
  BY Zenon, <1>4, <1>u DEF ReceiveFrame, DmaWrite, LinkSet, LinkDown, AskFlush, FlushPulse,
     FlushRequest,
     qmVars, flushRegs, egrVars
<1>5. ASSUME NEW i \in Ports, Alloc(i) PROVE ReleaseAgrees'
  BY Zenon, <1>5, <1>o DEF Alloc, AllocPop
<1>6. ASSUME qmState # "FL_REL", flBuf' = flBuf \/ flState # "RELEASE_WRITE" \/ relSlot # FlushSlot,
             UNCHANGED <<flVars, egrState, egrBuf>>
      PROVE  ReleaseAgrees'
  BY Zenon, <1>6, <1>t DEF ReleaseAgrees, flVars
<1>7. CASE QueueStep
  <2>1. qmState # "FL_REL"
    BY Zenon, <1>7 DEF QueueStep, IdleStep, EnqLen, EnqFindNone, Granted, EnqFind, EnqLinkOldTail,
       EnqLinkNew,
       DeqRead, FlushPick, FlushRead, FlushComplete
  <2>2. UNCHANGED <<flVars, egrState, egrBuf>>
    BY Zenon, <1>7 DEF QueueStep, egrVars
  <2>3. flState # "RELEASE_WRITE" \/ relSlot # FlushSlot
    BY <2>1, <1>t, Geometry DEF ReleaseAgrees, FlushSlot, Ports
  <2>4. QED
    BY Zenon, <2>1, <2>2, <2>3, <1>6
<1>8. CASE CompleteEnqueue
  BY Zenon, <1>8, <1>6 DEF CompleteEnqueue, EnqAck, flushRegs, egrVars
<1>9. ASSUME NEW p \in Ports, StartEnqueue(p) \/ StartDequeue(p) PROVE ReleaseAgrees'
  BY Zenon, <1>9, <1>6 DEF StartEnqueue, EnqPick, StartDequeue, DeqPick, flushRegs, egrVars
<1>10. CASE CompleteDequeue
  <2>1. deqPort \in Ports /\ egrState[deqPort] = "DEQ_WAIT"
    BY Zenon, <1>10, DequeueFacts DEF CompleteDequeue, DeqComplete, IndInv, HandshakesAgree,
       DequeueAgrees
  <2>2. QED
    BY Zenon, <1>10, <2>1, <1>t DEF CompleteDequeue, DeqComplete, ReleaseAgrees, PortType, flVars
<1>11. ASSUME NEW p \in Ports, DmaRead(p) \/ FrameSent(p) PROVE ReleaseAgrees'
  BY Zenon, <1>11, <1>t DEF DmaRead, FrameSent, ReleaseAgrees, PortType, flVars, qmVars, flushRegs
<1>12. CASE UNCHANGED vars
  BY Zenon, <1>12, <1>u DEF vars, qmVars, flushRegs, egrVars
<1>13. QED
  BY Zenon, TrafficAssumption, <1>1, <1>2, <1>3, <1>4, <1>5, <1>7, <1>8, <1>9, <1>10, <1>11,
     <1>12 DEF Next

(***************************************************************************)
(* Every step keeps the linked lists in link_mem sound.                     *)
(***************************************************************************)
\* The buffer of an enqueue is not yet in the list it is about to be linked to.
LEMMA FreshBuffer ==
  ASSUME IndInv, NEW p \in Ports,
         \/ qmState \in {"ENQ_LEN", "ENQ_REF_WAIT", "ENQ_DROP_WAIT"}
         \/ Linking /\ p \in Unlinked
  PROVE  ~QueuedAt(p, bufid)
<1>e. qmState \in EnqStates
  BY Zenon DEF Linking, EnqStates
<1>b. enqPort \in Ports /\ bufid \in Buffers
  BY Zenon, <1>e, EnqueueFacts
<1>1. CASE qmState \in {"ENQ_LEN", "ENQ_REF_WAIT", "ENQ_DROP_WAIT"}
  <2>1. IngressHolds(enqPort, bufid)
    BY Zenon, <1>1, <1>e DEF IndInv, HandshakesAgree, EnqueueAgrees, IngressHolds, HandedOver
  <2>2. Holders(bufid) = {}
    BY Zenon, <1>b, <2>1 DEF IndInv, BufferAccounting
  <2>3. QED
    BY Zenon, <2>2 DEF Holders
<1>2. CASE Linking /\ p \in Unlinked
  BY Zenon, <1>2, <1>b DEF IndInv, OneReferencePerPort, LinkingTo
<1>3. QED
  BY Zenon, <1>1, <1>2

\* A step that touches neither the list of port p nor the enqueue linking to it keeps
\* that list sound.
LEMMA ListFrame ==
  ASSUME NEW p, ListSound(p),
         p \in queueEmpty' <=> p \in queueEmpty,
         q'[p] = q[p], head'[p] = head[p], tail'[p] = tail[p], link'[p] = link[p],
         infoMem' = infoMem,
         \/ ~(qmState = "ENQ_LINK_NEW" /\ portIdx = p) /\ ~(qmState' = "ENQ_LINK_NEW" /\ portIdx' = p)
         \/ UNCHANGED <<qmState, portIdx, bufid>>
         \/ q[p] = <<>>
  PROVE  ListSound(p)'
BY DEF ListSound, NextOf

\* Taking the head off a list leaves every list sound.
LEMMA PopList ==
  ASSUME IndInv, NEW p \in Ports, p \notin queueEmpty, PopHead(p), infoMem' = infoMem,
         lnkRead = link[p][head[p]], qmState # "ENQ_LINK_NEW", qmState' # "ENQ_LINK_NEW"
  PROVE  ListsSound'
<1>t. q \in [Ports -> Seq(Frames)] /\ queueEmpty \subseteq Ports /\ head \in [Ports -> OrNone(Buffers)]
  BY Zenon DEF IndInv, TypeOK, QueueType
<1>l. ListSound(p)
  BY Zenon DEF IndInv, ListsSound
<1>s. DEFINE s == q[p]
<1>1. s \in Seq(Frames) /\ s # <<>> /\ Len(s) \in Nat /\ Len(s) >= 1 /\ head[p] = s[1].buf
  BY Zenon, HeadFacts, <1>t
<1>2. /\ Tail(s) \in Seq(Frames) /\ Len(Tail(s)) = Len(s) - 1
      /\ \A k \in 1 .. Len(s) - 1 : Tail(s)[k] = s[k + 1]
  BY <1>1
<1>3. lnkRead = (IF 1 < Len(s) THEN s[2].buf ELSE None)
  BY <1>1, <1>l DEF ListSound, NextOf
<1>4. \A k \in 1 .. Len(s) : s[k] \in Frames /\ s[k].buf \in Buffers /\ s[k].buf # None
  <2>1. \A k \in 1 .. Len(s) : s[k] \in Frames
    BY <1>1
  <2>2. \A fr \in Frames : fr.buf \in Buffers
    BY Zenon DEF Frames
  <2>3. \A b \in Buffers : b # None
    BY Geometry DEF Buffers
  <2>4. QED
    BY Zenon, <2>1, <2>2, <2>3
<1>5. q'[p] = Tail(s)
  BY Zenon, <1>t DEF PopHead
<1>6. ListSound(p)'
  <2>1. p \in queueEmpty' <=> Len(s) = 1
    <3>1. lnkRead = None <=> Len(s) = 1
      <4> HIDE DEF s
      <4>1. Len(s) # 1 => 2 \in 1 .. Len(s) /\ 1 < Len(s)
        BY ZenonT(30), <1>1, AtLeastTwo
      <4>2. Len(s) # 1 => s[2].buf # None
        BY Zenon, <4>1, <1>4
      <4>3. Len(s) = 1 => ~(1 < Len(s))
        BY <1>1
      <4>4. QED
        BY ZenonT(30), <4>1, <4>2, <4>3, <1>3
    <3>2. p \in queueEmpty' <=> lnkRead = None
      BY Zenon DEF PopHead
    <3>3. QED
      BY Zenon, <3>1, <3>2
  <2>2. (p \in queueEmpty <=> q[p] = <<>>)'
    <3>1. Tail(s) = <<>> <=> Len(s) = 1
      BY ZenonT(30), <1>1, TailFacts
    <3>2. QED
      BY ZenonT(30), <2>1, <3>1, <1>5
  <2>3. Len(s) > 1 => head'[p] = s[2].buf /\ tail'[p] = s[Len(s)].buf
    BY <1>1, <1>3, <1>4, <1>t, <1>l DEF PopHead, ListSound
  <2>4. q'[p] # <<>> => head'[p] = q'[p][1].buf /\ tail'[p] = q'[p][Len(q'[p])].buf
    BY <2>3, <1>1, <1>2, <1>5
  <2>5. ASSUME NEW k \in 1 .. Len(q'[p])
        PROVE  link'[p][q'[p][k].buf] = NextOf(p, k)' /\ infoMem'[q'[p][k].buf] = q'[p][k].info
    <3>1. k + 1 \in 1 .. Len(s) /\ q'[p][k] = s[k + 1]
      BY <1>1, <1>2, <1>5
    <3>2. link[p][s[k + 1].buf] = (IF k + 1 < Len(s) THEN s[k + 2].buf ELSE None) /\ infoMem[s[k + 1].buf] = s[k + 1].info
      BY <3>1, <1>l, <1>1 DEF ListSound, NextOf
    <3>3. NextOf(p, k)' = (IF k + 1 < Len(s) THEN s[k + 2].buf ELSE None)
      BY <1>1, <1>2, <1>5, <3>1 DEF NextOf
    <3>4. QED
      BY Zenon, <3>1, <3>2, <3>3 DEF PopHead
  <2>6. \A j, k \in 1 .. Len(q'[p]) : q'[p][j].buf = q'[p][k].buf => j = k
    <3>1. SUFFICES ASSUME NEW j \in 1 .. Len(q'[p]), NEW k \in 1 .. Len(q'[p]), q'[p][j].buf = q'[p][k].buf
                   PROVE  j = k
      BY Zenon
    <3>2. j + 1 \in 1 .. Len(s) /\ k + 1 \in 1 .. Len(s) /\ s[j + 1].buf = s[k + 1].buf
      BY <1>1, <1>2, <1>5, <3>1
    <3>3. j + 1 = k + 1
      BY Zenon, <3>2, <1>l DEF ListSound
    <3>4. QED
      BY <3>3, <1>1, <1>2, <1>5
  <2>7. QED
    BY ZenonT(30), <2>2, <2>4, <2>5, <2>6 DEF ListSound
<1>7. ASSUME NEW r \in Ports, r # p PROVE ListSound(r)'
  <2>1. ListSound(r) /\ q'[r] = q[r] /\ head'[r] = head[r] /\ tail'[r] = tail[r] /\ link'[r] = link[r]
    BY Zenon, <1>7, <1>t DEF PopHead, IndInv, ListsSound
  <2>2. r \in queueEmpty' <=> r \in queueEmpty
    BY Zenon, <1>7 DEF PopHead
  <2>3. QED
    BY Zenon, <2>1, <2>2, ListFrame
<1>8. QED
  BY Zenon, <1>6, <1>7 DEF ListsSound

\* S_ENQ_LINK_OLDTAIL, which makes the old tail name a buffer that is not yet in the
\* list, leaves every list sound.
LEMMA OldTailList ==
  ASSUME IndInv, EnqLinkOldTail PROVE ListsSound'
<1>t. q \in [Ports -> Seq(Frames)] /\ link \in [Ports -> [Buffers -> OrNone(Buffers)]]
  BY Zenon DEF IndInv, TypeOK, QueueType
<1>1. portIdx \in Ports /\ portIdx \notin queueEmpty
  BY Zenon, EnqueueFacts DEF EnqLinkOldTail, EnqStates, IndInv, HandshakesAgree, EnqueueAgrees
<1>p. PICK p \in Ports : p = portIdx
  BY Zenon, <1>1
<1>2. ListSound(p) /\ tail[p] \in Buffers /\ tail[p] = q[p][Len(q[p])].buf /\ Len(q[p]) \in 1 .. Len(q[p])
  BY SMTT(60), <1>1, <1>p, HeadFacts DEF IndInv, ListsSound
<1>3. ListSound(p)'
  <2>1. ASSUME NEW k \in 1 .. Len(q[p]) PROVE link'[p][q[p][k].buf] = NextOf(p, k)'
    <3>1. q[p][k].buf \in Buffers /\ Len(q[p]) \in Nat
      BY Zenon, <1>1, <1>p, QueuedFacts
    <3>2. CASE k = Len(q[p])
      <4>1. link'[p][tail[p]] = bufid
        BY Zenon, <1>1, <1>p, <1>2, <1>t DEF EnqLinkOldTail
      <4>2. NextOf(p, k)' = bufid
        BY <3>2, <3>1, <1>p DEF EnqLinkOldTail, NextOf, enqRegs
      <4>3. QED
        BY Zenon, <3>2, <4>1, <4>2, <1>2
    <3>3. CASE k # Len(q[p])
      <4>1. q[p][k].buf # tail[p]
        BY ZenonT(30), <3>3, <1>2 DEF ListSound
      <4>2. link'[p][q[p][k].buf] = link[p][q[p][k].buf]
        BY Zenon, <4>1, <3>1, <1>1, <1>p, <1>t DEF EnqLinkOldTail
      <4>3. k < Len(q[p])
        BY <3>3, <3>1
      <4>4. NextOf(p, k)' = q[p][k + 1].buf /\ NextOf(p, k) = q[p][k + 1].buf
        BY Zenon, <4>3 DEF NextOf, EnqLinkOldTail
      <4>5. link[p][q[p][k].buf] = NextOf(p, k)
        BY Zenon, <1>2 DEF ListSound
      <4>6. QED
        BY Zenon, <4>2, <4>4, <4>5
    <3>4. QED
      BY Zenon, <3>2, <3>3
  <2>2. QED
    BY <1>2, <2>1 DEF ListSound, EnqLinkOldTail, infoVars
<1>4. ASSUME NEW r \in Ports, r # p PROVE ListSound(r)'
  <2>1. ListSound(r) /\ link'[r] = link[r]
    BY Zenon, <1>4, <1>p, <1>t DEF EnqLinkOldTail, IndInv, ListsSound
  <2>2. portIdx # r /\ portIdx' # r /\ infoMem' = infoMem /\ UNCHANGED <<q, head, tail, queueEmpty>>
    BY Zenon, <1>4, <1>p DEF EnqLinkOldTail, infoVars
  <2>3. QED
    BY Zenon, <2>1, <2>2, ListFrame
<1>5. QED
  BY ZenonT(30), <1>1, <1>p, <1>3, <1>4 DEF ListsSound

\* S_ENQ_LINK_NEW, which completes an append, leaves every list sound.
LEMMA LinkNewList ==
  ASSUME IndInv, EnqLinkNew PROVE ListsSound'
<1>t. /\ q \in [Ports -> Seq(Frames)] /\ link \in [Ports -> [Buffers -> OrNone(Buffers)]]
      /\ head \in [Ports -> OrNone(Buffers)] /\ tail \in [Ports -> OrNone(Buffers)]
      /\ queueEmpty \subseteq Ports
  BY Zenon DEF IndInv, TypeOK, QueueType
<1>1. portIdx \in Ports /\ bufid \in Buffers /\ enqInfo \in Infos
  BY Zenon, EnqueueFacts DEF EnqLinkNew, EnqStates
<1>p. PICK p \in Ports : p = portIdx
  BY Zenon, <1>1
<1>s. DEFINE s == q[p]
<1>f. DEFINE fr == [buf |-> bufid, info |-> enqInfo]
<1>n. DEFINE n == Len(s) + 1
<1>2. ~QueuedAt(p, bufid)
  <2>1. Linking /\ p \in Unlinked
    BY <1>1, <1>p, Geometry DEF EnqLinkNew, NextPort, Linking, Unlinked, IndInv, HandshakesAgree,
       EnqueueAgrees, Ports
  <2>2. QED
    BY ZenonT(30), <1>1, <1>p, <2>1, FreshBuffer
<1>3. infoMem[bufid] = enqInfo
  BY Zenon DEF EnqLinkNew, Linking, IndInv, HandshakesAgree, EnqueueAgrees
<1>4. fr \in Frames /\ fr.buf = bufid /\ fr.info = enqInfo
  BY Zenon, <1>1, <1>p DEF Frames
<1>5. s \in Seq(Frames) /\ Len(s) \in Nat /\ ListSound(p)
  BY ZenonT(30), <1>1, <1>p, QueuedFacts DEF IndInv, ListsSound
<1>6. /\ Append(s, fr) \in Seq(Frames) /\ Append(s, fr) # <<>>
      /\ Len(Append(s, fr)) = n
      /\ \A k \in 1 .. Len(s) : Append(s, fr)[k] = s[k]
      /\ Append(s, fr)[n] = fr
  BY <1>4, <1>5, AppendFacts
<1>7. q'[p] = Append(s, fr)
  BY Zenon, <1>1, <1>p, <1>t DEF EnqLinkNew
<1>8. link'[p] = [link[p] EXCEPT ![bufid] = None]
  BY Zenon, <1>1, <1>p, <1>t DEF EnqLinkNew, LinkNewEntry
<1>9. \A k \in 1 .. Len(s) : s[k].buf # bufid /\ s[k].buf \in Buffers
  BY ZenonT(30), <1>1, <1>p, <1>2, QueuedFacts DEF QueuedAt
<1>10. ListSound(p)'
  <2>1. p \notin queueEmpty' /\ q'[p] # <<>>
    BY Zenon, <1>6, <1>7, <1>p DEF EnqLinkNew
  <2>2. tail'[p] = q'[p][Len(q'[p])].buf
    BY ZenonT(30), <1>1, <1>p, <1>t, <1>4, <1>6, <1>7 DEF EnqLinkNew
  <2>3. head'[p] = q'[p][1].buf
    <3>1. CASE p \in queueEmpty
      <4>1. s = <<>> /\ Len(s) = 0
        BY Zenon, <3>1, <1>5 DEF ListSound
      <4>2. head'[p] = bufid
        BY Zenon, <3>1, <1>1, <1>p, <1>t DEF EnqLinkNew, HeadAfterLink
      <4>3. QED
        BY SMTT(60), <4>1, <4>2, <1>4, <1>6, <1>7
    <3>2. CASE p \notin queueEmpty
      <4>1. head'[p] = head[p]
        BY Zenon, <3>2, <1>p DEF EnqLinkNew, HeadAfterLink
      <4>2. 1 \in 1 .. Len(s) /\ head[p] = s[1].buf
        BY <3>2, <1>1, <1>p, HeadFacts
      <4>3. QED
        BY Zenon, <4>1, <4>2, <1>6, <1>7
    <3>3. QED
      BY ZenonT(30), <3>1, <3>2
  <2>4. ASSUME NEW k \in 1 .. Len(q'[p])
        PROVE  link'[p][q'[p][k].buf] = NextOf(p, k)' /\ infoMem'[q'[p][k].buf] = q'[p][k].info
    <3>i. infoMem' = infoMem /\ qmState' # "ENQ_LINK_NEW"
      BY Zenon DEF EnqLinkNew, infoVars
    <3>1. CASE k = n
      <4>1. q'[p][k] = fr
        BY Zenon, <3>1, <1>6, <1>7
      <4>2. link'[p][bufid] = None
        BY Zenon, <1>1, <1>p, <1>8, <1>t
      <4>l. ~(k < Len(q'[p]))
        BY <3>1, <1>5, <1>6, <1>7
      <4>3. NextOf(p, k)' = None
        BY Zenon, <4>l, <3>i DEF NextOf
      <4>4. QED
        BY Zenon, <4>1, <4>2, <4>3, <3>i, <1>3, <1>4
    <3>2. CASE k # n
      <4>1. k \in 1 .. Len(s) /\ k < n
        BY <3>2, <1>5, <1>6, <1>7
      <4>2. q'[p][k] = s[k]
        BY Zenon, <4>1, <1>6, <1>7
      <4>3. link'[p][s[k].buf] = link[p][s[k].buf]
        BY <4>1, <1>8, <1>9, <1>1, <1>p, <1>t
      <4>4. link[p][s[k].buf] = NextOf(p, k) /\ infoMem[s[k].buf] = s[k].info
        BY Zenon, <4>1, <1>5 DEF ListSound
      <4>5. NextOf(p, k)' = q'[p][k + 1].buf
        BY Zenon, <4>1, <1>6, <1>7 DEF NextOf
      <4>6. NextOf(p, k) = q'[p][k + 1].buf
        <5>1. CASE k = Len(s)
          <6>1. NextOf(p, k) = bufid
            BY <5>1, <1>p DEF NextOf, EnqLinkNew
          <6>2. QED
            BY ZenonT(30), <5>1, <6>1, <1>4, <1>6, <1>7
        <5>2. CASE k # Len(s)
          <6>1. k < Len(s) /\ k + 1 \in 1 .. Len(s)
            BY <5>2, <4>1, <1>5
          <6>2. NextOf(p, k) = s[k + 1].buf
            BY Zenon, <6>1 DEF NextOf
          <6>3. QED
            BY ZenonT(30), <6>1, <6>2, <1>6, <1>7
        <5>3. QED
          BY Zenon, <5>1, <5>2
      <4>7. QED
        BY ZenonT(30), <4>2, <4>3, <4>4, <4>5, <4>6, <3>i
    <3>3. QED
      BY Zenon, <3>1, <3>2
  <2>5. ASSUME NEW j \in 1 .. Len(q'[p]), NEW k \in 1 .. Len(q'[p]), q'[p][j].buf = q'[p][k].buf
        PROVE  j = k
    <3>1. (j = n \/ j \in 1 .. Len(s)) /\ (k = n \/ k \in 1 .. Len(s))
      BY <1>5, <1>6, <1>7
    <3>2. q'[p][n].buf = bufid /\ \A m \in 1 .. Len(s) : q'[p][m].buf = s[m].buf
      BY Zenon, <1>4, <1>6, <1>7
    <3>3. CASE j \in 1 .. Len(s) /\ k \in 1 .. Len(s)
      BY ZenonT(30), <3>2, <3>3, <2>5, <1>5 DEF ListSound
    <3>4. QED
      BY ZenonT(30), <3>1, <3>2, <3>3, <2>5, <1>9
  <2>6. QED
    BY ZenonT(30), <2>1, <2>2, <2>3, <2>4, <2>5 DEF ListSound
<1>11. ASSUME NEW r \in Ports, r # p PROVE ListSound(r)'
  <2>1. ListSound(r) /\ q'[r] = q[r] /\ head'[r] = head[r] /\ tail'[r] = tail[r] /\ link'[r] = link[r]
    BY Zenon, <1>11, <1>p, <1>t DEF EnqLinkNew, LinkNewEntry, HeadAfterLink, IndInv, ListsSound
  <2>2. (r \in queueEmpty' <=> r \in queueEmpty) /\ infoMem' = infoMem /\ qmState' # "ENQ_LINK_NEW"
    BY Zenon, <1>11, <1>p DEF EnqLinkNew, infoVars
  <2>3. portIdx # r
    BY Zenon, <1>11, <1>p
  <2>4. QED
    BY Zenon, <2>1, <2>2, <2>3, ListFrame
<1>12. QED
  BY Zenon, <1>10, <1>11 DEF ListsSound

\* Every step keeps every list sound.
LEMMA ListsStep == IndInv /\ [Next]_vars => ListsSound'
<1> SUFFICES ASSUME IndInv, [Next]_vars PROVE ListsSound'
  BY Zenon
<1>l. \A p \in Ports : ListSound(p)
  BY Zenon DEF IndInv, ListsSound
<1>u. ASSUME UNCHANGED qmVars PROVE ListsSound'
  <2>1. UNCHANGED <<queueEmpty, q, head, tail, link, infoMem, qmState, portIdx, bufid>>
    BY Zenon, <1>u DEF qmVars, listVars, infoVars, enqRegs
  <2>2. QED
    BY Zenon, <1>l, <2>1, ListFrame DEF ListsSound
<1>f. ASSUME UNCHANGED listVars, infoMem' = infoMem, qmState # "ENQ_LINK_NEW", qmState' # "ENQ_LINK_NEW"
      PROVE  ListsSound'
  <2>1. UNCHANGED <<queueEmpty, q, head, tail, link>>
    BY Zenon, <1>f DEF listVars
  <2>2. QED
    BY Zenon, <1>l, <1>f, <2>1, ListFrame DEF ListsSound
<1>1. CASE FillStep \/ StartFlushRelease \/ GrantPortRelease
  BY Zenon, <1>1, <1>u DEF FillStep, StartFlushRelease, GrantPortRelease
<1>2. ASSUME NEW p \in Ports,
             \/ ReceiveFrame(p) \/ Alloc(p) \/ DmaWrite(p) \/ DmaRead(p) \/ FrameSent(p)
             \/ StartPortRelease(p) \/ LinkSet(p) \/ LinkDown(p) \/ AskFlush(p)
      PROVE  ListsSound'
  BY Zenon, <1>2, <1>u DEF ReceiveFrame, Alloc, DmaWrite, DmaRead, FrameSent, StartPortRelease,
     LinkSet,
     LinkDown, AskFlush
<1>3. CASE GrantSetRef \/ GrantDirectFree \/ GrantFlushRelease \/ CompleteEnqueue
  BY Zenon, <1>3, <1>f DEF GrantSetRef, SetRefGranted, GrantDirectFree, DirectFreeGranted, Granted,
     GrantFlushRelease, FlushReleased, CompleteEnqueue, EnqAck, infoVars
<1>4. ASSUME NEW p \in Ports, StartEnqueue(p) \/ StartDequeue(p) PROVE ListsSound'
  BY Zenon, <1>4, <1>f DEF StartEnqueue, EnqPick, StartDequeue, DeqPick, infoVars
<1>5. ASSUME NEW p \in Ports, FlushPulse(p) PROVE ListsSound'
  <2>1. UNCHANGED <<queueEmpty, q, head, tail, link, infoMem, qmState, portIdx, bufid>>
    BY Zenon, <1>5 DEF FlushPulse, FlushRequest, listVars, infoVars, enqRegs
  <2>2. QED
    BY Zenon, <1>l, <2>1, ListFrame DEF ListsSound
<1>6. CASE CompleteDequeue
  <2>1. /\ deqPort \in Ports /\ deqPort \notin queueEmpty
        /\ lnkRead = link[deqPort][head[deqPort]]
    BY Zenon, <1>6, DequeueFacts DEF CompleteDequeue, DeqComplete, IndInv, HandshakesAgree,
       DequeueAgrees
  <2>2. PopHead(deqPort) /\ infoMem' = infoMem /\ qmState # "ENQ_LINK_NEW" /\ qmState' # "ENQ_LINK_NEW"
    BY Zenon, <1>6 DEF CompleteDequeue, DeqComplete
  <2>3. QED
    BY Zenon, <2>1, <2>2, PopList
<1>7. CASE QueueStep
  <2>1. CASE \/ IdleStep(EnqRequests, DeqRequests) \/ EnqFindNone \/ DeqRead
             \/ (\E p \in Ports : FlushPick(p)) \/ FlushRead
    BY ZenonT(30), <2>1, <1>f DEF IdleStep, EnqFindNone, Granted, DeqRead, FlushPick, FlushRead,
       infoVars
  <2>2. CASE FlushComplete
    <3>1. /\ flPort \in Ports /\ flPort \notin queueEmpty
          /\ lnkRead = link[flPort][head[flPort]]
      BY Zenon, <2>2, FlushFacts DEF FlushComplete, IndInv, HandshakesAgree, FlushAgrees
    <3>2. PopHead(flPort) /\ infoMem' = infoMem /\ qmState # "ENQ_LINK_NEW" /\ qmState' # "ENQ_LINK_NEW"
      BY Zenon, <2>2 DEF FlushComplete, infoVars
    <3>3. QED
      BY Zenon, <3>1, <3>2, PopList
  <2>3. CASE EnqLen
    <3>1. UNCHANGED listVars /\ qmState # "ENQ_LINK_NEW" /\ qmState' # "ENQ_LINK_NEW"
      BY Zenon, <2>3 DEF EnqLen
    <3>2. UNCHANGED <<queueEmpty, q, head, tail, link>>
      BY Zenon, <3>1 DEF listVars
    <3>3. bufid \in Buffers /\ infoMem \in [Buffers -> OrNone(Infos)]
      BY ZenonT(30), <2>3, EnqueueFacts DEF EnqLen, EnqStates, IndInv, TypeOK, QueueType
    <3>4. ASSUME NEW p \in Ports PROVE ListSound(p)'
      <4>1. \A k \in 1 .. Len(q[p]) : q[p][k].buf # bufid
        BY Zenon, <2>3, FreshBuffer DEF EnqLen, QueuedAt
      <4>2. \A k \in 1 .. Len(q[p]) : infoMem'[q[p][k].buf] = infoMem[q[p][k].buf]
        BY Zenon, <2>3, <4>1, <3>3, QueuedFacts DEF EnqLen
      <4>3. \A k \in 1 .. Len(q[p]) : NextOf(p, k)' = NextOf(p, k)
        BY Zenon, <3>1, <3>2 DEF NextOf
      <4>4. QED
        BY SMTT(60), <4>2, <4>3, <3>2, <1>l DEF ListSound
    <3>5. QED
      BY Zenon, <3>4 DEF ListsSound
  <2>4. ASSUME NEW p \in Ports, EnqFind(p) PROVE ListsSound'
    <3>1. UNCHANGED <<queueEmpty, q, head, tail, link, infoMem>> /\ qmState # "ENQ_LINK_NEW" /\ portIdx' = p
      BY Zenon, <2>4 DEF EnqFind, listVars, infoVars
    <3>2. qmState' # "ENQ_LINK_NEW" \/ q[p] = <<>>
      BY Zenon, <2>4, <1>l DEF EnqFind, ListSound
    <3>3. \A r \in Ports : r = p \/ portIdx' # r
      BY Zenon, <3>1
    <3>4. QED
      BY ZenonT(30), <3>1, <3>2, <3>3, <1>l, ListFrame DEF ListsSound
  <2>5. QED
    BY ZenonT(30), <1>7, <2>1, <2>2, <2>3, <2>4, OldTailList, LinkNewList DEF QueueStep
<1>8. CASE UNCHANGED vars
  BY Zenon, <1>8, <1>u DEF vars
<1>9. QED
  BY ZenonT(30), TrafficAssumption, <1>1, <1>2, <1>3, <1>4, <1>5, <1>6, <1>7, <1>8 DEF Next
=============================================================================
