--------------------------- MODULE BufMgrAccounts ---------------------------
(***************************************************************************)
(* Every step of the buffer manager keeps the books (who holds which       *)
(* buffer, and how many references it has) and is a step of the abstract   *)
(* pool of BufferPool or leaves that pool alone.  Hence the theorems about *)
(* the buffer manager, for every number of ports and buffers: IndInv is    *)
(* inductive, what follows from it, and that the buffer manager implements *)
(* BufferPool.                                                             *)
(***************************************************************************)
EXTENDS BufMgrFacts

USE DEF None

(***************************************************************************)
(* Holders and reference counts.                                           *)
(***************************************************************************)
\* What the accounts use of counting: a set of ports has a size, at most NUM_PORTS, that
\* a removal takes one off; and a FIFO without duplicates that misses a buffer has
\* room for it.  It is proved at the end, from the theorems on finite sets.
Counting ==
    /\ \A S \in SUBSET Ports :
          /\ Cardinality(S) \in Nat /\ Cardinality(S) <= NumPorts
          /\ Cardinality(S) = 0 <=> S = {}
          /\ \A p \in S : Cardinality(S \ {p}) = Cardinality(S) - 1
    /\ \A f \in Seq(Buffers), b \in Buffers :
          Distinct(f) /\ b \notin RangeOf(f) => Len(f) < NumBuffers

\* Pushing a buffer that is not in the FIFO adds exactly that buffer.
LEMMA PushedFacts ==
  ASSUME Counting, NEW f \in Seq(Buffers), Distinct(f), NEW b \in Buffers, b \notin RangeOf(f)
  PROVE  /\ Distinct(Pushed(f, b))
         /\ RangeOf(Pushed(f, b)) = RangeOf(f) \cup {b}
<1>1. Len(f) \in Nat /\ Pushed(f, b) = Append(f, b)
  <2>1. Len(f) \in Nat /\ Len(f) < NumBuffers
    BY DEF Counting
  <2>2. QED
    BY <2>1, Geometry DEF Pushed
<1>2. /\ Len(Append(f, b)) = Len(f) + 1
      /\ \A k \in 1 .. Len(f) : Append(f, b)[k] = f[k]
      /\ Append(f, b)[Len(f) + 1] = b
  BY AppendFacts
<1>3. 1 .. Len(f) + 1 = (1 .. Len(f)) \cup {Len(f) + 1}
  BY <1>1
<1>4. \A k \in 1 .. Len(f) : f[k] # b
  BY Zenon DEF RangeOf
<1>5. Distinct(Append(f, b))
  BY <1>2, <1>3, <1>4 DEF Distinct
<1>6. RangeOf(Append(f, b)) = RangeOf(f) \cup {b}
  BY ZenonT(30), <1>2, <1>3 DEF RangeOf
<1>7. QED
  BY Zenon, <1>1, <1>5, <1>6

-----------------------------------------------------------------------------
(* Steps that move no buffer *)

\* A step that adds no reference keeps the references of a port disjoint.
LEMMA ReferenceFrame ==
  ASSUME IndInv, UNCHANGED <<q, egrBuf>>,
         \A p \in Ports, b \in Buffers : LinkingTo(p, b)' => LinkingTo(p, b),
         \A p \in Ports, b \in Buffers : FlushHolds(p, b)' => FlushHolds(p, b)
  PROVE  OneReferencePerPort'
<1>1. \A p \in Ports, b \in Buffers : QueuedAt(p, b)' <=> QueuedAt(p, b)
  BY Zenon DEF QueuedAt
<1>2. QED
  BY Zenon, <1>1 DEF IndInv, OneReferencePerPort

\* A step that changes no reference keeps the holders of every buffer.
LEMMA HoldersFrame ==
  ASSUME UNCHANGED <<q, egrBuf>>,
         \A p \in Ports, b \in Buffers : LinkingTo(p, b)' <=> LinkingTo(p, b),
         \A p \in Ports, b \in Buffers : FlushHolds(p, b)' <=> FlushHolds(p, b)
  PROVE  \A b \in Buffers : Holders(b)' = Holders(b)
<1>1. \A p \in Ports, b \in Buffers : QueuedAt(p, b)' <=> QueuedAt(p, b)
  BY Zenon DEF QueuedAt
<1>2. QED
  BY Zenon, <1>1 DEF Holders

\* A step that changes neither holders, ingress owners, the FIFO nor the counts keeps
\* the accounts.
LEMMA AccountingFrame ==
  ASSUME IndInv, UNCHANGED <<freeFifo, refcount, fillCnt>>,
         flState' = "FILL" <=> flState = "FILL",
         \A b \in Buffers : Holders(b)' = Holders(b),
         \A i \in Ports, b \in Buffers : IngressHolds(i, b)' <=> IngressHolds(i, b)
  PROVE  BufferAccounting' /\ RefcountExact'
<1>1. \A b \in Buffers : IsFree(b)' <=> IsFree(b)
  BY Zenon DEF IsFree, RangeOf
<1>2. FillInOrder' <=> FillInOrder
  BY Zenon DEF FillInOrder, RangeOf
<1>3. \A b \in Buffers : Users(b)' = Users(b)
  BY Zenon DEF Users
<1>4. FillInOrder /\ Distinct(freeFifo) /\ \A b \in Buffers : Balanced(b)
  BY Zenon, AccountingSplit DEF IndInv
<1>5. \A b \in Buffers : Balanced(b)'
  BY Zenon, <1>1, <1>3, <1>4 DEF Balanced
<1>6. BufferAccounting'
  BY Zenon, <1>2, <1>4, <1>5, AccountingSplitPrime
<1>7. RefcountExact'
  BY Zenon DEF IndInv, RefcountExact
<1>8. QED
  BY Zenon, <1>6, <1>7

Accounts == OneReferencePerPort /\ BufferAccounting /\ RefcountExact

\* A step that touches no buffer reference keeps the accounts.
LEMMA QuietStep ==
  ASSUME IndInv, UNCHANGED <<freeFifo, refcount, fillCnt, q, egrBuf, ingBuf>>,
         flState' = "FILL" <=> flState = "FILL",
         \A p \in Ports, b \in Buffers : LinkingTo(p, b)' <=> LinkingTo(p, b),
         \A p \in Ports, b \in Buffers : FlushHolds(p, b)' <=> FlushHolds(p, b),
         \A i \in Ports : HandedOver(i)' <=> HandedOver(i)
  PROVE  Accounts'
<1>1. OneReferencePerPort'
  BY Zenon, ReferenceFrame
<1>2. \A b \in Buffers : Holders(b)' = Holders(b)
  BY Zenon, HoldersFrame
<1>3. \A i \in Ports, b \in Buffers : IngressHolds(i, b)' <=> IngressHolds(i, b)
  BY Zenon DEF IngressHolds
<1>4. QED
  BY Zenon, <1>1, <1>2, <1>3, AccountingFrame DEF Accounts

\* A step that leaves the queue manager's operation registers alone keeps the accounts.
LEMMA QueueIdleStep ==
  ASSUME IndInv, UNCHANGED <<freeFifo, refcount, fillCnt, q, egrBuf, ingBuf>>,
         flState' = "FILL" <=> flState = "FILL",
         UNCHANGED <<qmState, enqPort, bufid, destmask, portIdx, flPort, flBuf>>
  PROVE  Accounts'
<1>1. \A p \in Ports, b \in Buffers : LinkingTo(p, b)' <=> LinkingTo(p, b)
  BY Zenon DEF LinkingTo, Linking, Unlinked
<1>2. \A p \in Ports, b \in Buffers : FlushHolds(p, b)' <=> FlushHolds(p, b)
  BY Zenon DEF FlushHolds
<1>3. \A i \in Ports : HandedOver(i)' <=> HandedOver(i)
  BY Zenon DEF HandedOver
<1>4. QED
  BY Zenon, <1>1, <1>2, <1>3, QuietStep

\* A queue manager step outside linking and S_FL_REL keeps the accounts.
LEMMA QueueEasyStep ==
  ASSUME IndInv, UNCHANGED <<flVars, q, egrBuf, ingBuf>>,
         qmState \notin {"ENQ_FIND", "ENQ_LINK_OLDTAIL", "ENQ_LINK_NEW", "ENQ_ACK", "FL_REL"},
         qmState' \notin {"ENQ_FIND", "ENQ_LINK_OLDTAIL", "ENQ_LINK_NEW", "ENQ_ACK", "FL_REL"}
  PROVE  Accounts'
<1>1. \A p \in Ports, b \in Buffers : LinkingTo(p, b)' <=> LinkingTo(p, b)
  BY Zenon DEF LinkingTo, Linking
<1>2. \A p \in Ports, b \in Buffers : FlushHolds(p, b)' <=> FlushHolds(p, b)
  BY Zenon DEF FlushHolds
<1>3. \A i \in Ports : HandedOver(i)' <=> HandedOver(i)
  BY Zenon DEF HandedOver
<1>4. QED
  BY Zenon, <1>1, <1>2, <1>3, QuietStep DEF flVars

\* The linking states that append nothing keep the accounts.
LEMMA LinkingStep ==
  ASSUME IndInv, UNCHANGED <<flVars, q, egrBuf, ingBuf, enqPort, bufid>>,
         EnqLinkOldTail \/ EnqFindNone \/ (\E p \in Ports : EnqFind(p))
  PROVE  Accounts'
<1>1. \A p \in Ports, b \in Buffers : LinkingTo(p, b)' <=> LinkingTo(p, b)
  <2>1. CASE EnqLinkOldTail
    BY Zenon, <2>1 DEF EnqLinkOldTail, enqRegs, LinkingTo, Linking, Unlinked
  <2>2. CASE EnqFindNone
    BY Zenon, <2>2 DEF EnqFindNone, Granted, LinkingTo, Linking
  <2>3. ASSUME NEW r \in Ports, EnqFind(r)
        PROVE  \A p \in Ports, b \in Buffers : LinkingTo(p, b)' <=> LinkingTo(p, b)
    BY Zenon, <2>3, FindKeeps DEF LinkingTo
  <2>4. QED
    BY Zenon, <2>1, <2>2, <2>3
<1>2. \A p \in Ports, b \in Buffers : FlushHolds(p, b)' <=> FlushHolds(p, b)
  BY Zenon DEF FlushHolds, EnqLinkOldTail, EnqFindNone, Granted, EnqFind
<1>3. \A i \in Ports : HandedOver(i)' <=> HandedOver(i)
  BY Zenon DEF HandedOver, EnqLinkOldTail, EnqFindNone, Granted, EnqFind
<1>4. QED
  BY Zenon, <1>1, <1>2, <1>3, QuietStep DEF flVars

-----------------------------------------------------------------------------
(* Steps of the queues *)

\* S_ENQ_ACK keeps the accounts: the front end had given its buffer away before.
LEMMA AckStep ==
  ASSUME IndInv, CompleteEnqueue PROVE Accounts'
<1>1. /\ enqPort \in Ports /\ qmState = "ENQ_ACK" /\ qmState' = "IDLE"
      /\ ingBuf \in [Ports -> OrNone(Buffers)]
  BY Zenon, EnqueueFacts DEF CompleteEnqueue, EnqAck, EnqStates, IndInv, TypeOK, PortType
<1>2. UNCHANGED <<flVars, q, egrBuf>>
  BY Zenon DEF CompleteEnqueue, EnqAck, listVars, egrVars
<1>3. /\ \A p \in Ports, b \in Buffers : LinkingTo(p, b)' <=> LinkingTo(p, b)
      /\ \A p \in Ports, b \in Buffers : FlushHolds(p, b)' <=> FlushHolds(p, b)
  BY Zenon, <1>1 DEF LinkingTo, Linking, FlushHolds
<1>4. ASSUME NEW i \in Ports, NEW b \in Buffers PROVE IngressHolds(i, b)' <=> IngressHolds(i, b)
  <2>1. b # None
    BY Geometry DEF Buffers
  <2>2. ingBuf'[i] = IF i = enqPort THEN None ELSE ingBuf[i]
    BY Zenon, <1>1 DEF CompleteEnqueue
  <2>3. (HandedOver(i) <=> enqPort = i) /\ ~HandedOver(i)'
    BY Zenon, <1>1 DEF HandedOver
  <2>4. QED
    BY Zenon, <2>1, <2>2, <2>3 DEF IngressHolds
<1>5. OneReferencePerPort'
  BY Zenon, <1>2, <1>3, ReferenceFrame
<1>6. \A b \in Buffers : Holders(b)' = Holders(b)
  BY Zenon, <1>2, <1>3, HoldersFrame
<1>7. QED
  BY Zenon, <1>2, <1>4, <1>5, <1>6, AccountingFrame DEF Accounts, flVars

\* S_ENQ_LINK_NEW turns a pending reference into a queued one.
LEMMA LinkNewStep ==
  ASSUME IndInv, EnqLinkNew, UNCHANGED <<flVars, ingVars, egrVars>> PROVE Accounts'
<1>1. portIdx \in Ports /\ bufid \in Buffers
  BY Zenon, LinkNewKeeps
<1>p. PICK p \in Ports : p = portIdx
  BY Zenon, <1>1
<1>2. /\ qmState = "ENQ_LINK_NEW" /\ qmState' = "ENQ_FIND" /\ bufid' = bufid /\ enqPort' = enqPort
      /\ egrBuf' = egrBuf /\ ingBuf' = ingBuf /\ Linking /\ Linking'
  BY Zenon, <1>p DEF EnqLinkNew, NextPort, enqRegs, ingVars, egrVars, Linking
<1>3. p \in Unlinked
  BY Zenon, <1>p, LinkNewKeeps
<1>4. Unlinked' = Unlinked \ {p}
  BY Zenon, <1>p, LinkNewKeeps
<1>5. ASSUME NEW r \in Ports, NEW b \in Buffers
      PROVE  QueuedAt(r, b)' <=> QueuedAt(r, b) \/ (r = p /\ b = bufid)
  <2>1. q \in [Ports -> Seq(Frames)]
    BY Zenon DEF IndInv, TypeOK, QueueType
  <2>2. q' = [q EXCEPT ![p] = Append(@, [buf |-> bufid, info |-> enqInfo])]
    BY Zenon, <1>p DEF EnqLinkNew
  <2>3. CASE r # p
    BY Zenon, <2>1, <2>2, <2>3 DEF QueuedAt
  <2>4. CASE r = p
    <3>d. DEFINE fr == [buf |-> bufid, info |-> enqInfo]
    <3>1. fr \in Frames /\ fr.buf = bufid
      BY Zenon, <1>1, EnqueueFacts, <1>2 DEF Frames, EnqStates
    <3>2. /\ Len(Append(q[p], fr)) = Len(q[p]) + 1 /\ Len(q[p]) \in Nat
          /\ \A k \in 1 .. Len(q[p]) : Append(q[p], fr)[k] = q[p][k]
          /\ Append(q[p], fr)[Len(q[p]) + 1] = fr
      BY <3>1, <2>1, AppendFacts
    <3>3. q'[p] = Append(q[p], fr)
      BY Zenon, <2>1, <2>2
    <3>4. 1 .. Len(q[p]) + 1 = (1 .. Len(q[p])) \cup {Len(q[p]) + 1}
      BY <3>2
    <3> HIDE DEF fr
    <3>5. QueuedAt(p, b)' <=> \E k \in 1 .. Len(q[p]) + 1 : Append(q[p], fr)[k].buf = b
      BY Zenon, <3>2, <3>3 DEF QueuedAt
    <3>6. QED
      BY ZenonT(30), <3>1, <3>2, <3>4, <3>5, <2>4 DEF QueuedAt
  <2>5. QED
    BY Zenon, <2>3, <2>4
<1>6. \A r \in Ports, b \in Buffers : LinkingTo(r, b) <=> (b = bufid /\ r \in Unlinked)
  BY Zenon, <1>2 DEF LinkingTo
<1>7. \A r \in Ports, b \in Buffers : LinkingTo(r, b)' <=> (b = bufid /\ r \in Unlinked /\ r # p)
  BY Zenon, <1>2, <1>4 DEF LinkingTo
<1>8. \A r \in Ports, b \in Buffers : ~FlushHolds(r, b) /\ ~FlushHolds(r, b)'
  BY Zenon, <1>2 DEF FlushHolds
<1>9. OneReferencePerPort'
  BY ZenonT(30), <1>2, <1>3, <1>5, <1>6, <1>7, <1>8 DEF IndInv, OneReferencePerPort
<1>10. \A b \in Buffers : Holders(b)' = Holders(b)
  BY ZenonT(30), <1>2, <1>3, <1>5, <1>6, <1>7, <1>8 DEF Holders
<1>11. \A i \in Ports, b \in Buffers : IngressHolds(i, b)' <=> IngressHolds(i, b)
  BY Zenon, <1>2 DEF IngressHolds, HandedOver
<1>12. QED
  BY Zenon, <1>9, <1>10, <1>11, AccountingFrame DEF Accounts, flVars

\* Taking the head off a list removes exactly that buffer from that list.
LEMMA PopQueued ==
  ASSUME IndInv, NEW p \in Ports, p \notin queueEmpty, PopHead(p)
  PROVE  /\ QueuedAt(p, head[p])
         /\ \A r \in Ports, b \in Buffers : QueuedAt(r, b)' <=> QueuedAt(r, b) /\ ~(r = p /\ b = head[p])
<1>1. q \in [Ports -> Seq(Frames)]
  BY Zenon DEF IndInv, TypeOK, QueueType
<1>2. q' = [q EXCEPT ![p] = Tail(@)]
  BY Zenon DEF PopHead
<1>d. DEFINE s == q[p]
<1>3. s \in Seq(Frames) /\ s # <<>> /\ head[p] = s[1].buf
  BY Zenon, HeadFacts, <1>1
<1>4. /\ Len(s) \in Nat /\ Len(s) >= 1 /\ Len(Tail(s)) = Len(s) - 1
      /\ \A k \in 1 .. Len(s) - 1 : Tail(s)[k] = s[k + 1]
  BY Zenon, <1>3, TailFacts
<1>5. \A j, k \in 1 .. Len(s) : s[j].buf = s[k].buf => j = k
  BY Zenon DEF IndInv, ListsSound, ListSound
<1>6. 1 \in 1 .. Len(s)
  BY <1>4
<1>7. ASSUME NEW b \in Buffers PROVE QueuedAt(p, b)' <=> QueuedAt(p, b) /\ b # head[p]
  <2>1. q'[p] = Tail(s)
    BY Zenon, <1>1, <1>2
  <2>2. ASSUME QueuedAt(p, b)' PROVE QueuedAt(p, b) /\ b # head[p]
    <3>1. PICK k \in 1 .. Len(s) - 1 : Tail(s)[k].buf = b
      BY Zenon, <2>1, <2>2, <1>4 DEF QueuedAt
    <3>2. k + 1 \in 1 .. Len(s) /\ k + 1 # 1
      BY <1>4
    <3>3. s[k + 1].buf = b
      BY Zenon, <3>1, <1>4
    <3>4. QED
      BY Zenon, <3>2, <3>3, <1>3, <1>5, <1>6 DEF QueuedAt
  <2>3. ASSUME QueuedAt(p, b), b # head[p] PROVE QueuedAt(p, b)'
    <3>1. PICK k \in 1 .. Len(s) : s[k].buf = b
      BY Zenon, <2>3 DEF QueuedAt
    <3>2. k # 1
      BY Zenon, <3>1, <2>3, <1>3
    <3>3. k - 1 \in 1 .. Len(s) - 1 /\ (k - 1) + 1 = k
      BY <3>2, <1>4
    <3>4. Tail(s)[k - 1].buf = b
      BY Zenon, <3>1, <3>3, <1>4
    <3>5. QED
      BY Zenon, <3>3, <3>4, <2>1, <1>4 DEF QueuedAt
  <2>4. QED
    BY Zenon, <2>2, <2>3
<1>8. ASSUME NEW r \in Ports, r # p, NEW b \in Buffers PROVE QueuedAt(r, b)' <=> QueuedAt(r, b)
  BY Zenon, <1>1, <1>2, <1>8 DEF QueuedAt
<1>9. QueuedAt(p, head[p])
  BY Zenon, <1>3, <1>6 DEF QueuedAt
<1>10. ASSUME NEW r \in Ports, NEW b \in Buffers
       PROVE  QueuedAt(r, b)' <=> QueuedAt(r, b) /\ ~(r = p /\ b = head[p])
  BY Zenon, <1>7, <1>8
<1>11. QED
  BY ZenonT(30), <1>9, <1>10

\* S_DEQ_COMPLETE turns a queued reference into the egress front end's.
LEMMA DequeueStepAccounts ==
  ASSUME IndInv, CompleteDequeue PROVE Accounts'
<1>1. /\ deqPort \in Ports /\ deqPort \notin queueEmpty /\ egrState[deqPort] = "DEQ_WAIT"
  BY Zenon, DequeueFacts DEF CompleteDequeue, DeqComplete, IndInv, HandshakesAgree, DequeueAgrees
<1>p. PICK p \in Ports : p = deqPort
  BY Zenon, <1>1
<1>2. /\ PopHead(p) /\ qmState = "DEQ_COMPLETE" /\ qmState' = "IDLE"
      /\ egrBuf' = [egrBuf EXCEPT ![p] = head[p]]
      /\ UNCHANGED <<flVars, ingBuf>>
  BY Zenon, <1>p DEF CompleteDequeue, DeqComplete, ingVars
<1>3. egrBuf \in [Ports -> OrNone(Buffers)] /\ egrBuf[p] = None /\ head[p] \in Buffers
  BY Zenon, <1>1, <1>p, HeadFacts DEF IndInv, TypeOK, PortType, HandshakesAgree, FrontEndsAgree
<1>4. \A b \in Buffers : b # None
  BY Geometry DEF Buffers
<1>5. /\ QueuedAt(p, head[p])
      /\ \A r \in Ports, b \in Buffers : QueuedAt(r, b)' <=> QueuedAt(r, b) /\ ~(r = p /\ b = head[p])
  BY Zenon, <1>1, <1>p, <1>2, PopQueued
<1>6. \A r \in Ports, b \in Buffers :
         /\ ~LinkingTo(r, b) /\ ~LinkingTo(r, b)'
         /\ ~FlushHolds(r, b) /\ ~FlushHolds(r, b)'
  BY Zenon, <1>2 DEF LinkingTo, Linking, FlushHolds
<1>7. \A r \in Ports, b \in Buffers : egrBuf'[r] = b <=> egrBuf[r] = b \/ (r = p /\ b = head[p])
  BY Zenon, <1>2, <1>3, <1>4
<1>8. OneReferencePerPort'
  BY ZenonT(30), <1>5, <1>6, <1>7 DEF IndInv, OneReferencePerPort
<1>9. \A b \in Buffers : Holders(b)' = Holders(b)
  BY ZenonT(30), <1>5, <1>6, <1>7 DEF Holders
<1>10. \A i \in Ports, b \in Buffers : IngressHolds(i, b)' <=> IngressHolds(i, b)
  BY Zenon, <1>2 DEF IngressHolds, HandedOver
<1>11. QED
  BY Zenon, <1>2, <1>8, <1>9, <1>10, AccountingFrame DEF Accounts, flVars

\* S_FL_COMPLETE turns a queued reference into the flush's own.
LEMMA FlushCompleteStep ==
  ASSUME IndInv, FlushComplete, UNCHANGED <<flVars, ingVars, egrVars>> PROVE Accounts'
<1>1. flPort \in Ports /\ flPort \notin queueEmpty /\ flBuf = head[flPort]
  BY Zenon, FlushFacts DEF FlushComplete, IndInv, HandshakesAgree, FlushAgrees
<1>p. PICK p \in Ports : p = flPort
  BY Zenon, <1>1
<1>2. /\ PopHead(p) /\ qmState = "FL_COMPLETE" /\ qmState' = "FL_REL"
      /\ flPort' = p /\ flBuf' = head[p] /\ UNCHANGED <<egrBuf, ingBuf>>
  BY Zenon, <1>1, <1>p DEF FlushComplete, flushRegs, ingVars, egrVars
<1>3. /\ QueuedAt(p, head[p])
      /\ \A r \in Ports, b \in Buffers : QueuedAt(r, b)' <=> QueuedAt(r, b) /\ ~(r = p /\ b = head[p])
  BY Zenon, <1>1, <1>p, <1>2, PopQueued
<1>4. \A r \in Ports, b \in Buffers :
         /\ ~LinkingTo(r, b) /\ ~LinkingTo(r, b)' /\ ~FlushHolds(r, b)
         /\ FlushHolds(r, b)' <=> r = p /\ b = head[p]
  BY Zenon, <1>2 DEF LinkingTo, Linking, FlushHolds
<1>5. OneReferencePerPort'
  BY Zenon, <1>2, <1>3, <1>4 DEF IndInv, OneReferencePerPort
<1>6. \A b \in Buffers : Holders(b)' = Holders(b)
  BY Zenon, <1>2, <1>3, <1>4 DEF Holders
<1>7. \A i \in Ports, b \in Buffers : IngressHolds(i, b)' <=> IngressHolds(i, b)
  BY Zenon, <1>2 DEF IngressHolds, HandedOver
<1>8. QED
  BY Zenon, <1>5, <1>6, <1>7, AccountingFrame DEF Accounts, flVars

-----------------------------------------------------------------------------
(* Steps of the free list *)

\* S_FILL pushes a buffer nobody uses and that was not pushed before.
LEMMA FillAccounts ==
  ASSUME Counting, IndInv, FillStep PROVE Accounts'
<1>t. fillCnt \in Buffers /\ freeFifo \in Seq(Buffers) /\ flState = "FILL"
  BY Zenon DEF IndInv, TypeOK, FreeListType, FillStep, Fill
<1>0. FillInOrder /\ Distinct(freeFifo) /\ \A b \in Buffers : Balanced(b)
  BY Zenon, AccountingSplit DEF IndInv
<1>1. RangeOf(freeFifo) = 0 .. fillCnt - 1 /\ fillCnt \notin RangeOf(freeFifo)
  BY <1>0, <1>t, Geometry DEF FillInOrder, Buffers
<1>2. Distinct(freeFifo') /\ RangeOf(freeFifo') = RangeOf(freeFifo) \cup {fillCnt}
  BY Zenon, <1>0, <1>1, <1>t, PushedFacts DEF FillStep, Fill
<1>3. FillInOrder'
  <2>1. (0 .. fillCnt - 1) \cup {fillCnt} = 0 .. fillCnt
    BY <1>t, Geometry DEF Buffers
  <2>2. flState' = "FILL" => fillCnt' - 1 = fillCnt
    BY <1>t, Geometry DEF FillStep, Fill, FillLast, Buffers
  <2>3. flState' = "FILL" => RangeOf(freeFifo') = 0 .. fillCnt' - 1
    BY Zenon, <2>1, <2>2, <1>1, <1>2
  <2>4. QED
    BY Zenon, <2>3 DEF FillInOrder, RangeOf
<1>4. ASSUME NEW b \in Buffers PROVE IsFree(b)' <=> IsFree(b)
  <2>1. IsFree(b)
    BY <1>1, <1>t, Geometry DEF IsFree, Buffers
  <2>2. CASE FillLast(fillCnt)
    <3>1. b \in 0 .. fillCnt - 1 \/ b = fillCnt
      BY <2>2, <1>t, Geometry DEF FillLast, Buffers
    <3>2. QED
      BY Zenon, <3>1, <2>1, <1>1, <1>2 DEF IsFree, RangeOf
  <2>3. CASE ~FillLast(fillCnt)
    <3>1. flState' = "FILL" /\ fillCnt' = fillCnt + 1
      BY Zenon, <2>3 DEF FillStep, Fill
    <3>2. b \in 0 .. fillCnt - 1 \/ b = fillCnt \/ b >= fillCnt + 1
      BY <1>t, Geometry DEF Buffers
    <3>3. b \in RangeOf(freeFifo') \/ b >= fillCnt'
      BY Zenon, <3>1, <3>2, <1>1, <1>2
    <3>4. QED
      BY Zenon, <3>1, <3>3, <2>1 DEF IsFree, RangeOf
  <2>4. QED
    BY Zenon, <2>2, <2>3
<1>5. UNCHANGED <<refcount, q, egrBuf, ingBuf, qmState, enqPort, bufid, destmask, portIdx, flPort, flBuf>>
  BY Zenon DEF FillStep, Fill, qmVars, listVars, enqRegs, flushRegs, ingVars, egrVars
<1>6. \A r \in Ports, b \in Buffers :
         (LinkingTo(r, b)' <=> LinkingTo(r, b)) /\ (FlushHolds(r, b)' <=> FlushHolds(r, b))
  BY Zenon, <1>5 DEF LinkingTo, Linking, Unlinked, FlushHolds
<1>7. \A b \in Buffers : Holders(b)' = Holders(b)
  BY Zenon, <1>5, <1>6, HoldersFrame
<1>8. \A b \in Buffers : Users(b)' = Users(b)
  BY Zenon, <1>5 DEF Users, IngressHolds, HandedOver
<1>9. \A b \in Buffers : Balanced(b)'
  BY Zenon, <1>0, <1>4, <1>7, <1>8 DEF Balanced
<1>10. BufferAccounting'
  BY Zenon, <1>2, <1>3, <1>9, AccountingSplitPrime
<1>11. RefcountExact'
  BY Zenon, <1>5, <1>7 DEF IndInv, RefcountExact
<1>12. OneReferencePerPort'
  BY Zenon, <1>5, <1>6, ReferenceFrame
<1>13. QED
  BY Zenon, <1>10, <1>11, <1>12 DEF Accounts

\* An alloc gives a free buffer to one ingress front end.
LEMMA AllocAccounts ==
  ASSUME IndInv, NEW i \in Ports, Alloc(i) PROVE Accounts'
<1>t. /\ freeFifo \in Seq(Buffers) /\ freeFifo # <<>> /\ flState = "IDLE" /\ flState' = "IDLE"
      /\ freeFifo' = Tail(freeFifo) /\ ingBuf' = [ingBuf EXCEPT ![i] = Head(freeFifo)]
      /\ ingBuf \in [Ports -> OrNone(Buffers)] /\ ingState[i] = "ALLOC_WAIT"
  BY Zenon DEF IndInv, TypeOK, FreeListType, PortType, Alloc, AllocPop
<1>u. UNCHANGED <<refcount, q, egrBuf, qmState, enqPort, bufid, destmask, portIdx, flPort, flBuf>>
  BY Zenon DEF Alloc, AllocPop, qmVars, listVars, enqRegs, flushRegs, egrVars
<1>0. FillInOrder /\ Distinct(freeFifo) /\ \A b \in Buffers : Balanced(b)
  BY Zenon, AccountingSplit DEF IndInv
<1>1. /\ Head(freeFifo) \in Buffers /\ Head(freeFifo) \in RangeOf(freeFifo) /\ Distinct(freeFifo')
      /\ RangeOf(freeFifo') = RangeOf(freeFifo) \ {Head(freeFifo)}
  BY Zenon, <1>0, <1>t, PoppedFacts
<1>a. PICK a \in Buffers : a = Head(freeFifo)
  BY Zenon, <1>1
<1>2. ingBuf[i] = None /\ ~HandedOver(i)
  BY Zenon, <1>t DEF IndInv, HandshakesAgree, FrontEndsAgree, EnqueueAgrees, HandedOver, EnqStates
<1>3. \A b \in Buffers : b # None
  BY Geometry DEF Buffers
<1>4. \A r \in Ports, b \in Buffers :
         (LinkingTo(r, b)' <=> LinkingTo(r, b)) /\ (FlushHolds(r, b)' <=> FlushHolds(r, b))
  BY Zenon, <1>u DEF LinkingTo, Linking, Unlinked, FlushHolds
<1>5. \A b \in Buffers : Holders(b)' = Holders(b)
  BY Zenon, <1>u, <1>4, HoldersFrame
<1>6. \A j \in Ports, b \in Buffers :
         IngressHolds(j, b)' <=> IF j = i THEN b = a ELSE IngressHolds(j, b)
  BY Zenon, <1>u, <1>t, <1>a, <1>2, <1>3 DEF IngressHolds, HandedOver
<1>7. \A b \in Buffers : ~IngressHolds(i, b)
  BY Zenon, <1>2, <1>3 DEF IngressHolds
<1>8. \A b \in Buffers : IsFree(b) <=> b \in RangeOf(freeFifo)
  BY Zenon, <1>t DEF IsFree
<1>9. \A b \in Buffers : IsFree(b)' <=> b \in RangeOf(freeFifo) /\ b # a
  BY Zenon, <1>t, <1>1, <1>a DEF IsFree, RangeOf
<1>10. Balanced(a)'
  <2>1. Users(a) = {} /\ Holders(a) = {}
    BY Zenon, <1>0, <1>1, <1>a, <1>8 DEF Balanced
  <2>2. Users(a)' = {i}
    BY Zenon, <2>1, <1>6 DEF Users
  <2>3. QED
    BY Zenon, <2>1, <2>2, <1>5, <1>9 DEF Balanced
<1>11. ASSUME NEW b \in Buffers, b # a PROVE Balanced(b)'
  <2>1. Users(b)' = Users(b)
    BY Zenon, <1>6, <1>7, <1>11 DEF Users
  <2>2. QED
    BY ZenonT(30), <2>1, <1>0, <1>5, <1>8, <1>9, <1>11 DEF Balanced
<1>12. FillInOrder'
  BY Zenon, <1>t DEF FillInOrder
<1>13. BufferAccounting'
  BY Zenon, <1>1, <1>10, <1>11, <1>12, AccountingSplitPrime
<1>14. RefcountExact'
  BY Zenon, <1>u, <1>5 DEF IndInv, RefcountExact
<1>15. OneReferencePerPort'
  BY Zenon, <1>u, <1>4, ReferenceFrame
<1>16. QED
  BY Zenon, <1>13, <1>14, <1>15 DEF Accounts

\* setref hands the buffer to all its destinations at once, with their number as its
\* reference count.
LEMMA SetRefAccounts ==
  ASSUME Counting, IndInv, GrantSetRef PROVE Accounts'
<1>t. /\ qmState = "ENQ_REF_WAIT" /\ qmState' = "ENQ_FIND" /\ flState = "IDLE"
      /\ destmask \subseteq Ports /\ destmask # {} /\ portIdx = 0
      /\ refcount \in [Buffers -> 0 .. RefMod - 1]
      /\ refcount' = [refcount EXCEPT ![bufid] = Cardinality(destmask) % RefMod]
  BY Zenon DEF GrantSetRef, SetRefGranted, Granted, SetRef, IndInv, TypeOK, QueueType, FreeListType,
     HandshakesAgree, EnqueueAgrees
<1>u. UNCHANGED <<freeFifo, fillCnt, flState, q, egrBuf, ingBuf, enqPort, bufid, destmask, portIdx>>
  BY Zenon DEF GrantSetRef, SetRefGranted, Granted, SetRef, listVars, enqRegs, ingVars, egrVars
<1>0. FillInOrder /\ Distinct(freeFifo) /\ \A b \in Buffers : Balanced(b)
  BY Zenon, AccountingSplit DEF IndInv
<1>1. /\ enqPort \in Ports /\ bufid \in Buffers
      /\ Users(bufid) = {enqPort} /\ Holders(bufid) = {} /\ ~IsFree(bufid)
  BY Zenon, <1>t, EnqueueOwner
<1>a. PICK a \in Buffers : a = bufid
  BY Zenon, <1>1
<1>2. Unlinked' = destmask /\ Linking'
  <2>1. \A r \in destmask : r >= 0
    BY <1>t, Geometry DEF Ports
  <2>2. QED
    BY Zenon, <2>1, <1>t, <1>u DEF Unlinked, Linking
<1>3. \A r \in Ports, b \in Buffers :
         /\ QueuedAt(r, b)' <=> QueuedAt(r, b)
         /\ ~LinkingTo(r, b) /\ (LinkingTo(r, b)' <=> b = a /\ r \in destmask)
         /\ ~FlushHolds(r, b) /\ ~FlushHolds(r, b)'
  BY Zenon, <1>2, <1>t, <1>u, <1>a DEF QueuedAt, LinkingTo, Linking, FlushHolds
<1>4. \A r \in Ports : ~QueuedAt(r, a) /\ egrBuf[r] # a
  BY Zenon, <1>1, <1>a DEF Holders
<1>5. OneReferencePerPort'
  BY Zenon, <1>3, <1>4, <1>u DEF IndInv, OneReferencePerPort
<1>6. Holders(a)' = destmask /\ \A b \in Buffers : b # a => Holders(b)' = Holders(b)
  BY Zenon, <1>3, <1>4, <1>t, <1>u DEF Holders
<1>7. \A i \in Ports, b \in Buffers : IngressHolds(i, b)' <=> IngressHolds(i, b) /\ i # enqPort
  BY Zenon, <1>t, <1>u DEF IngressHolds, HandedOver
<1>8. Users(a)' = {}
  BY Zenon, <1>1, <1>a, <1>7 DEF Users
<1>9. ASSUME NEW b \in Buffers, b # a PROVE Users(b)' = Users(b)
  <2>1. ingBuf[enqPort] = bufid
    BY Zenon, <1>t DEF IndInv, HandshakesAgree, EnqueueAgrees, EnqStates
  <2>2. ~IngressHolds(enqPort, b)
    BY Zenon, <2>1, <1>9, <1>a DEF IngressHolds
  <2>3. QED
    BY Zenon, <2>2, <1>7 DEF Users
<1>10. \A b \in Buffers : IsFree(b)' <=> IsFree(b)
  BY Zenon, <1>u DEF IsFree, RangeOf
<1>11. \A b \in Buffers : Balanced(b)'
  BY Zenon, <1>0, <1>1, <1>a, <1>6, <1>8, <1>9, <1>10, <1>t DEF Balanced
<1>12. FillInOrder'
  BY Zenon, <1>0, <1>u DEF FillInOrder, RangeOf
<1>13. BufferAccounting'
  BY Zenon, <1>0, <1>u, <1>11, <1>12, AccountingSplitPrime
<1>14. RefcountExact'
  <2>1. Cardinality(destmask) \in Nat /\ Cardinality(destmask) < RefMod
    <3>1. Cardinality(destmask) \in Nat /\ Cardinality(destmask) <= NumPorts
      BY Zenon, <1>t DEF Counting
    <3>2. QED
      BY <3>1, Geometry
  <2>2. Cardinality(destmask) % RefMod = Cardinality(destmask)
    BY <2>1, Geometry
  <2>3. QED
    BY Zenon, <2>2, <1>t, <1>a, <1>6 DEF IndInv, RefcountExact
<1>15. QED
  BY ZenonT(30), <1>5, <1>13, <1>14 DEF Accounts

\* direct_free gives the buffer of a frame without destinations back.
LEMMA DirectFreeAccounts ==
  ASSUME Counting, IndInv, GrantDirectFree PROVE Accounts'
<1>t. /\ qmState = "ENQ_DROP_WAIT" /\ qmState' = "ENQ_ACK" /\ flState = "IDLE" /\ flState' = "IDLE"
      /\ freeFifo \in Seq(Buffers) /\ freeFifo' = Pushed(freeFifo, bufid)
  BY Zenon DEF GrantDirectFree, DirectFreeGranted, Granted, DirectFree, IndInv, TypeOK, FreeListType
<1>u. UNCHANGED <<refcount, q, egrBuf, ingBuf, enqPort, bufid>>
  BY Zenon DEF GrantDirectFree, DirectFreeGranted, Granted, DirectFree, listVars, enqRegs, ingVars,
     egrVars
<1>0. FillInOrder /\ Distinct(freeFifo) /\ \A b \in Buffers : Balanced(b)
  BY Zenon, AccountingSplit DEF IndInv
<1>1. /\ enqPort \in Ports /\ bufid \in Buffers
      /\ Users(bufid) = {enqPort} /\ Holders(bufid) = {} /\ ~IsFree(bufid)
  BY Zenon, <1>t, EnqueueOwner
<1>a. PICK a \in Buffers : a = bufid
  BY Zenon, <1>1
<1>2. a \notin RangeOf(freeFifo)
  BY Zenon, <1>1, <1>a DEF IsFree
<1>3. Distinct(freeFifo') /\ RangeOf(freeFifo') = RangeOf(freeFifo) \cup {a}
  BY Zenon, <1>0, <1>2, <1>a, <1>t, PushedFacts
<1>4. \A r \in Ports, b \in Buffers :
         /\ ~LinkingTo(r, b) /\ ~LinkingTo(r, b)'
         /\ ~FlushHolds(r, b) /\ ~FlushHolds(r, b)'
  BY Zenon, <1>t DEF LinkingTo, Linking, FlushHolds
<1>5. OneReferencePerPort'
  BY Zenon, <1>4, <1>u, ReferenceFrame
<1>6. \A b \in Buffers : Holders(b)' = Holders(b)
  BY Zenon, <1>4, <1>u, HoldersFrame
<1>7. \A i \in Ports, b \in Buffers : IngressHolds(i, b)' <=> IngressHolds(i, b) /\ i # enqPort
  BY Zenon, <1>t, <1>u DEF IngressHolds, HandedOver
<1>8. Users(a)' = {}
  BY Zenon, <1>1, <1>a, <1>7 DEF Users
<1>9. ASSUME NEW b \in Buffers, b # a PROVE Users(b)' = Users(b)
  <2>1. ingBuf[enqPort] = bufid
    BY Zenon, <1>t DEF IndInv, HandshakesAgree, EnqueueAgrees, EnqStates
  <2>2. ~IngressHolds(enqPort, b)
    BY Zenon, <2>1, <1>9, <1>a DEF IngressHolds
  <2>3. QED
    BY Zenon, <2>2, <1>7 DEF Users
<1>10. \A b \in Buffers : (IsFree(b) <=> b \in RangeOf(freeFifo)) /\ (IsFree(b)' <=> b \in RangeOf(freeFifo'))
  BY Zenon, <1>t DEF IsFree, RangeOf
<1>11. \A b \in Buffers : Balanced(b)'
  BY SMTT(60), <1>0, <1>1, <1>a, <1>3, <1>6, <1>8, <1>9, <1>10 DEF Balanced
<1>12. FillInOrder'
  BY Zenon, <1>t DEF FillInOrder
<1>13. BufferAccounting'
  BY Zenon, <1>3, <1>11, <1>12, AccountingSplitPrime
<1>14. RefcountExact'
  BY Zenon, <1>u, <1>6 DEF IndInv, RefcountExact
<1>15. QED
  BY Zenon, <1>5, <1>13, <1>14 DEF Accounts

\* Writing a release back takes one holder off the count, and frees the buffer exactly
\* when that was the last one.
LEMMA ReleasedAccounts ==
  ASSUME Counting, IndInv, ReleaseWrite, NEW p \in Ports, p \in Holders(relBuf), relBuf \in Buffers,
         \A b \in Buffers : Holders(b)' = IF b = relBuf THEN Holders(b) \ {p} ELSE Holders(b),
         \A i \in Ports, b \in Buffers : IngressHolds(i, b)' <=> IngressHolds(i, b)
  PROVE  BufferAccounting' /\ RefcountExact'
<1>t. /\ flState = "RELEASE_WRITE" /\ flState' = "IDLE" /\ freeFifo \in Seq(Buffers)
      /\ refcount \in [Buffers -> 0 .. RefMod - 1]
      /\ rcRead = refcount[relBuf]
      /\ refcount' = [refcount EXCEPT ![relBuf] = Decremented(rcRead)]
      /\ freeFifo' = IF LastReference(rcRead) THEN Pushed(freeFifo, relBuf) ELSE freeFifo
  BY Zenon DEF ReleaseWrite, IndInv, TypeOK, FreeListType, HandshakesAgree, ReleaseAgrees
<1>a. PICK a \in Buffers : a = relBuf
  BY Zenon
<1>0. FillInOrder /\ Distinct(freeFifo) /\ \A b \in Buffers : Balanced(b)
  BY Zenon, AccountingSplit DEF IndInv
<1>1. ~IsFree(a) /\ Users(a) = {} /\ a \notin RangeOf(freeFifo)
  BY Zenon, <1>0, <1>a DEF Balanced, IsFree
<1>2. Users(a)' = {} /\ \A b \in Buffers : Users(b)' = Users(b)
  BY Zenon, <1>1 DEF Users
<1>h. DEFINE H == Holders(a)
<1>3. /\ H \subseteq Ports /\ p \in H
      /\ Cardinality(H) \in Nat /\ Cardinality(H) <= NumPorts /\ rcRead = Cardinality(H)
  <2>1. H \subseteq Ports
    BY Zenon DEF Holders
  <2>2. QED
    BY Zenon, <2>1, <1>a, <1>t DEF Counting, IndInv, RefcountExact
<1>4. Holders(a)' = H \ {p} /\ \A b \in Buffers : b # a => Holders(b)' = Holders(b)
  BY Zenon, <1>a
<1> HIDE DEF H
<1>5. H \ {p} \subseteq Ports /\ Cardinality(H \ {p}) = Cardinality(H) - 1
  BY Zenon, <1>3 DEF Counting
<1>6. Cardinality(H) >= 1
  <2>1. H # {}
    BY Zenon, <1>3
  <2>2. Cardinality(H) # 0
    BY Zenon, <2>1, <1>3 DEF Counting
  <2>3. QED
    BY <2>2, <1>3
<1>7. H \ {p} = {} <=> LastReference(rcRead)
  <2>1. Cardinality(H \ {p}) = 0 <=> H \ {p} = {}
    BY Zenon, <1>5 DEF Counting
  <2>2. QED
    BY <2>1, <1>3, <1>5, <1>6 DEF LastReference
<1>8. /\ Distinct(freeFifo')
      /\ RangeOf(freeFifo') = IF H \ {p} = {} THEN RangeOf(freeFifo) \cup {a} ELSE RangeOf(freeFifo)
  <2>1. Distinct(Pushed(freeFifo, a)) /\ RangeOf(Pushed(freeFifo, a)) = RangeOf(freeFifo) \cup {a}
    BY Zenon, <1>0, <1>1, <1>t, PushedFacts
  <2>2. QED
    BY Zenon, <2>1, <1>0, <1>7, <1>a, <1>t
<1>9. \A b \in Buffers : (IsFree(b) <=> b \in RangeOf(freeFifo)) /\ (IsFree(b)' <=> b \in RangeOf(freeFifo'))
  BY Zenon, <1>t DEF IsFree, RangeOf
<1>10. Balanced(a)'
  BY Zenon, <1>1, <1>2, <1>4, <1>8, <1>9 DEF Balanced
<1>11. \A b \in Buffers : b # a => Balanced(b)'
  BY ZenonT(30), <1>0, <1>2, <1>4, <1>8, <1>9 DEF Balanced
<1>12. FillInOrder'
  BY Zenon, <1>t DEF FillInOrder
<1>13. BufferAccounting'
  BY Zenon, <1>8, <1>10, <1>11, <1>12, AccountingSplitPrime
<1>14. Decremented(rcRead) = Cardinality(H \ {p})
  <2>1. rcRead - 1 \in 0 .. RefMod - 1
    BY <1>3, <1>6, Geometry
  <2>2. (rcRead - 1) % RefMod = rcRead - 1
    BY <2>1, Geometry
  <2>3. QED
    BY Zenon, <2>2, <1>3, <1>5 DEF Decremented
<1>15. RefcountExact'
  BY Zenon, <1>14, <1>4, <1>a, <1>t DEF IndInv, RefcountExact
<1>16. QED
  BY Zenon, <1>13, <1>15

\* The release of an egress front end keeps the accounts.
LEMMA PortReleaseAccounts ==
  ASSUME Counting, IndInv, GrantPortRelease PROVE Accounts'
<1>t. /\ flState = "RELEASE_WRITE" /\ relSlot # FlushSlot /\ ReleaseWrite
      /\ egrBuf \in [Ports -> OrNone(Buffers)] /\ egrBuf' = [egrBuf EXCEPT ![relSlot] = None]
  BY Zenon DEF GrantPortRelease, ReleaseWrite, IndInv, TypeOK, PortType
<1>u. UNCHANGED <<q, ingBuf, qmState, enqPort, bufid, destmask, portIdx, flPort, flBuf>>
  BY Zenon DEF GrantPortRelease, qmVars, listVars, enqRegs, flushRegs, ingVars
<1>1. relSlot \in Ports /\ relBuf \in Buffers /\ egrBuf[relSlot] = relBuf
  BY Zenon, <1>t, ReleaseFacts DEF IndInv, HandshakesAgree, ReleaseAgrees
<1>p. PICK p \in Ports : p = relSlot
  BY Zenon, <1>1
<1>2. \A b \in Buffers : b # None
  BY Geometry DEF Buffers
<1>3. \A r \in Ports, b \in Buffers : egrBuf'[r] = b <=> egrBuf[r] = b /\ r # p
  BY Zenon, <1>t, <1>p, <1>2
<1>4. \A r \in Ports, b \in Buffers :
         /\ QueuedAt(r, b)' <=> QueuedAt(r, b)
         /\ LinkingTo(r, b)' <=> LinkingTo(r, b)
         /\ FlushHolds(r, b)' <=> FlushHolds(r, b)
  BY Zenon, <1>u DEF QueuedAt, LinkingTo, Linking, Unlinked, FlushHolds
<1>5. OneReferencePerPort'
  BY Zenon, <1>3, <1>4 DEF IndInv, OneReferencePerPort
<1>6. ~QueuedAt(p, relBuf) /\ ~LinkingTo(p, relBuf) /\ ~FlushHolds(p, relBuf)
  BY Zenon, <1>1, <1>p DEF IndInv, OneReferencePerPort
<1>7. p \in Holders(relBuf)
  BY Zenon, <1>1, <1>p DEF Holders
<1>8. ASSUME NEW b \in Buffers
      PROVE  Holders(b)' = IF b = relBuf THEN Holders(b) \ {p} ELSE Holders(b)
  BY Zenon, <1>1, <1>p, <1>3, <1>4, <1>6 DEF Holders
<1>9. \A i \in Ports, b \in Buffers : IngressHolds(i, b)' <=> IngressHolds(i, b)
  BY Zenon, <1>u DEF IngressHolds, HandedOver
<1>10. BufferAccounting' /\ RefcountExact'
  BY Zenon, <1>t, <1>1, <1>7, <1>8, <1>9, ReleasedAccounts
<1>11. QED
  BY Zenon, <1>5, <1>10 DEF Accounts

\* The release of a flushed buffer keeps the accounts.
LEMMA FlushReleaseAccounts ==
  ASSUME Counting, IndInv, GrantFlushRelease PROVE Accounts'
<1>t. flState = "RELEASE_WRITE" /\ relSlot = FlushSlot /\ ReleaseWrite /\ qmState = "FL_REL" /\ qmState' = "IDLE"
  BY Zenon DEF GrantFlushRelease, ReleaseWrite, FlushReleased
<1>u. UNCHANGED <<q, ingBuf, egrBuf>>
  BY Zenon DEF GrantFlushRelease, FlushReleased, listVars, ingVars, egrVars
<1>1. relBuf \in Buffers /\ flBuf = relBuf /\ flPort \in Ports
  <2>1. FlushSlot \notin Ports
    BY Geometry DEF FlushSlot, Ports
  <2>2. QED
    BY Zenon, <2>1, <1>t, ReleaseFacts, FlushFacts DEF IndInv, HandshakesAgree, ReleaseAgrees
<1>p. PICK p \in Ports : p = flPort
  BY Zenon, <1>1
<1>2. \A r \in Ports, b \in Buffers :
         /\ QueuedAt(r, b)' <=> QueuedAt(r, b)
         /\ ~LinkingTo(r, b) /\ ~LinkingTo(r, b)'
         /\ FlushHolds(r, b) <=> r = p /\ b = relBuf
         /\ ~FlushHolds(r, b)'
  BY Zenon, <1>t, <1>u, <1>p, <1>1 DEF QueuedAt, LinkingTo, Linking, FlushHolds
<1>3. OneReferencePerPort'
  BY Zenon, <1>u, <1>2, ReferenceFrame
<1>4. ~QueuedAt(p, relBuf) /\ egrBuf[p] # relBuf
  BY Zenon, <1>1, <1>2 DEF IndInv, OneReferencePerPort
<1>5. p \in Holders(relBuf)
  BY Zenon, <1>1, <1>2 DEF Holders
<1>6. ASSUME NEW b \in Buffers
      PROVE  Holders(b)' = IF b = relBuf THEN Holders(b) \ {p} ELSE Holders(b)
  BY Zenon, <1>2, <1>4, <1>u DEF Holders
<1>7. \A i \in Ports, b \in Buffers : IngressHolds(i, b)' <=> IngressHolds(i, b)
  BY Zenon, <1>t, <1>u DEF IngressHolds, HandedOver
<1>8. BufferAccounting' /\ RefcountExact'
  BY Zenon, <1>t, <1>1, <1>5, <1>6, <1>7, ReleasedAccounts
<1>9. QED
  BY Zenon, <1>3, <1>8 DEF Accounts

\* Every step keeps the accounts.
LEMMA AccountsStep == Counting /\ IndInv /\ [Next]_vars => Accounts'
<1> SUFFICES ASSUME Counting, IndInv, [Next]_vars PROVE Accounts'
  BY Zenon
<1>1. ASSUME NEW p \in Ports,
             \/ ReceiveFrame(p) \/ DmaWrite(p) \/ DmaRead(p) \/ FrameSent(p)
             \/ LinkSet(p) \/ LinkDown(p) \/ AskFlush(p) \/ FlushPulse(p)
      PROVE  Accounts'
  <2>1. UNCHANGED <<flVars, q, egrBuf, ingBuf, qmState, enqPort, bufid, destmask, portIdx, flPort, flBuf>>
    BY Zenon, <1>1 DEF ReceiveFrame, DmaWrite, DmaRead, FrameSent, LinkSet, LinkDown, AskFlush,
       FlushPulse,
       FlushRequest, qmVars, listVars, enqRegs, flushRegs, ingVars, egrVars
  <2>2. QED
    BY Zenon, <2>1, QueueIdleStep DEF flVars
<1>2. ASSUME NEW slot, NEW b, ReleaseRead(slot, b), UNCHANGED <<qmVars, ingVars, egrVars>> PROVE Accounts'
  <2>1. UNCHANGED <<freeFifo, refcount, fillCnt>> /\ flState = "IDLE" /\ flState' = "RELEASE_WRITE"
    BY Zenon, <1>2 DEF ReleaseRead
  <2>2. UNCHANGED <<q, egrBuf, ingBuf, qmState, enqPort, bufid, destmask, portIdx, flPort, flBuf>>
    BY Zenon, <1>2 DEF qmVars, listVars, enqRegs, flushRegs, ingVars, egrVars
  <2>3. QED
    BY Zenon, <2>1, <2>2, QueueIdleStep
<1>3. CASE StartFlushRelease
  BY Zenon, <1>3, <1>2 DEF StartFlushRelease
<1>4. ASSUME NEW p \in Ports, StartPortRelease(p) PROVE Accounts'
  BY Zenon, <1>4, <1>2 DEF StartPortRelease
<1>5. ASSUME NEW p \in Ports, StartEnqueue(p) \/ StartDequeue(p) PROVE Accounts'
  <2>1. UNCHANGED <<flVars, q, egrBuf, ingBuf>> /\ qmState = "IDLE" /\ qmState' \in {"ENQ_LEN", "DEQ_READ"}
    BY Zenon, <1>5 DEF StartEnqueue, EnqPick, StartDequeue, DeqPick, listVars, ingVars, egrVars
  <2>2. QED
    BY Zenon, <2>1, QueueEasyStep
<1>6. CASE QueueStep
  <2>u. UNCHANGED <<flVars, ingVars, egrVars>>
    BY Zenon, <1>6 DEF QueueStep
  <2>1. CASE IdleStep(EnqRequests, DeqRequests)
    <3>1. UNCHANGED <<flVars, q, egrBuf, ingBuf, qmState, enqPort, bufid, destmask, portIdx, flPort, flBuf>>
      BY Zenon, <2>u, <2>1 DEF IdleStep, listVars, enqRegs, flushRegs, ingVars, egrVars
    <3>2. QED
      BY Zenon, <3>1, QueueIdleStep DEF flVars
  <2>2. CASE EnqLen \/ DeqRead \/ (\E p \in Ports : FlushPick(p)) \/ FlushRead
    <3>1. /\ UNCHANGED <<flVars, q, egrBuf, ingBuf>>
          /\ qmState \in {"ENQ_LEN", "DEQ_READ", "IDLE", "FL_READ"}
          /\ qmState' \in {"ENQ_DROP_WAIT", "ENQ_REF_WAIT", "DEQ_COMPLETE", "FL_READ", "FL_COMPLETE"}
      BY Zenon, <2>u, <2>2 DEF EnqLen, DeqRead, FlushPick, FlushRead, listVars, ingVars, egrVars
    <3>2. QED
      BY Zenon, <3>1, QueueEasyStep
  <2>3. CASE EnqLinkOldTail \/ EnqFindNone \/ (\E p \in Ports : EnqFind(p))
    <3>1. UNCHANGED <<flVars, q, egrBuf, ingBuf, enqPort, bufid>>
      BY Zenon, <2>u, <2>3 DEF EnqLinkOldTail, EnqFindNone, Granted, EnqFind, listVars, enqRegs,
         ingVars, egrVars
    <3>2. QED
      BY Zenon, <3>1, <2>3, LinkingStep
  <2>4. CASE EnqLinkNew
    BY Zenon, <2>u, <2>4, LinkNewStep
  <2>5. CASE FlushComplete
    BY Zenon, <2>u, <2>5, FlushCompleteStep
  <2>6. QED
    BY Zenon, <1>6, <2>1, <2>2, <2>3, <2>4, <2>5 DEF QueueStep
<1>7. CASE UNCHANGED vars
  <2>1. UNCHANGED <<flVars, q, egrBuf, ingBuf, qmState, enqPort, bufid, destmask, portIdx, flPort, flBuf>>
    BY Zenon, <1>7 DEF vars, qmVars, listVars, enqRegs, flushRegs, ingVars, egrVars
  <2>2. QED
    BY Zenon, <2>1, QueueIdleStep DEF flVars
<1>8. QED
  BY ZenonT(30), TrafficAssumption, <1>1, <1>3, <1>4, <1>5, <1>6, <1>7, AckStep,
     DequeueStepAccounts, FillAccounts,
     AllocAccounts, SetRefAccounts, DirectFreeAccounts, PortReleaseAccounts, FlushReleaseAccounts DEF Next

(***************************************************************************)
(* The inductive invariant.                                                *)
(***************************************************************************)
\* The state after reset satisfies the inductive invariant.
LEMMA IndInvInit == Counting /\ Init => IndInv
<1> SUFFICES ASSUME Counting, Init PROVE IndInv
  BY Zenon
<1> USE DEF Init, FreeListInit, QueueInit
<1>1. FreeListType
  <2>1. 0 \in Buffers /\ 0 \in 0 .. RefMod - 1
    BY Geometry DEF Buffers
  <2>2. QED
    BY <2>1 DEF FreeListType, OrNone
<1>2. QueueType
  <2>1. 0 \in 0 .. NumPorts
    BY Geometry
  <2>2. q \in [Ports -> Seq(Frames)]
    OBVIOUS
  <2>3. lastWasDeq \in BOOLEAN
    BY Zenon
  <2>4. link \in [Ports -> [Buffers -> OrNone(Buffers)]]
    BY Zenon DEF OrNone
  <2>5. QED
    BY ZenonT(30), <2>1, <2>2, <2>3, <2>4 DEF QueueType, QmStates, OrNone
<1>3. PortType
  BY Zenon DEF PortType, OrNone
<1>4. HandshakesAgree
  BY Zenon DEF HandshakesAgree, FrontEndsAgree, EnqueueAgrees, DequeueAgrees, FlushAgrees,
     ReleaseAgrees,
     EnqStates, Linking
<1>5. \A p \in Ports : q[p] = <<>> /\ Len(q[p]) = 0
  BY Zenon
<1>6. ListsSound
  BY <1>5 DEF ListsSound, ListSound
<1>7. \A p \in Ports, b \in Buffers :
         ~QueuedAt(p, b) /\ ~LinkingTo(p, b) /\ egrBuf[p] # b /\ ~FlushHolds(p, b)
  <2>1. \A b \in Buffers : b # None
    BY Geometry DEF Buffers
  <2>2. QED
    BY <2>1, <1>5 DEF QueuedAt, LinkingTo, Linking, FlushHolds
<1>8. OneReferencePerPort
  BY Zenon, <1>7 DEF OneReferencePerPort
<1>9. \A b \in Buffers : Holders(b) = {}
  BY Zenon, <1>7 DEF Holders
<1>10. RefcountExact
  <2>1. Cardinality({}) = 0
    BY Zenon DEF Counting
  <2>2. QED
    BY Zenon, <2>1, <1>9 DEF RefcountExact
<1>11. BufferAccounting
  <2>1. RangeOf(freeFifo) = {} /\ 0 .. fillCnt - 1 = {}
    BY DEF RangeOf
  <2>2. FillInOrder /\ Distinct(freeFifo)
    BY <2>1 DEF FillInOrder, Distinct
  <2>3. \A b \in Buffers : b >= 0 /\ b # None
    BY Geometry DEF Buffers
  <2>4. \A b \in Buffers : IsFree(b) /\ Users(b) = {}
    BY Zenon, <2>3 DEF IsFree, Users, IngressHolds
  <2>5. QED
    BY Zenon, <2>2, <2>4, <1>9, AccountingSplit DEF Balanced
<1>12. QED
  BY ZenonT(30), <1>1, <1>2, <1>3, <1>4, <1>6, <1>8, <1>10, <1>11 DEF IndInv, TypeOK

\* Every step preserves the inductive invariant.
LEMMA IndInvStep == Counting /\ IndInv /\ [Next]_vars => IndInv'
<1> SUFFICES ASSUME Counting, IndInv, [Next]_vars PROVE IndInv'
  BY Zenon
<1>c. Cardinality(destmask) \in Nat
  BY Zenon DEF Counting, IndInv, TypeOK, QueueType
<1>1. TypeOK' /\ HandshakesAgree'
  BY Zenon, <1>c, TypeStep, FrontEndsStep, EnqueueStep, DequeueStep, FlushStep, ReleaseStep
     DEF HandshakesAgree
<1>2. ListsSound'
  BY Zenon, ListsStep
<1>3. Accounts'
  BY Zenon, AccountsStep
<1>4. QED
  BY Zenon, <1>1, <1>2, <1>3 DEF IndInv, Accounts

(***************************************************************************)
(* What each step does to the abstract pool.                               *)
(***************************************************************************)
WideFrames == [buf : Buffers, info : OrNone(Infos)]
EnqFrame == [buf |-> bufid, info |-> enqInfo]
FlFrame == [buf |-> flBuf, info |-> infoMem[flBuf]]
FlushingFrom(p) == qmState = "FL_REL" /\ flPort = p

\* What a sequence with a new first element looks like.
LEMMA ConsFacts ==
  ASSUME NEW S, NEW s \in Seq(S), NEW x \in S
  PROVE  /\ <<x>> \o s \in Seq(S) /\ <<x>> \o s # <<>>
         /\ Len(<<x>> \o s) = Len(s) + 1
         /\ (<<x>> \o s)[1] = x
         /\ \A k \in 1 .. Len(s) : (<<x>> \o s)[k + 1] = s[k]
         /\ Head(<<x>> \o s) = x
         /\ Tail(<<x>> \o s) = s
<1>1. <<x>> \in Seq(S) /\ Len(<<x>>) = 1 /\ <<x>>[1] = x /\ Len(s) \in Nat
  OBVIOUS
<1>d. DEFINE t == <<x>> \o s
<1>2. /\ t \in Seq(S) /\ Len(t) = Len(s) + 1
      /\ \A k \in 1 .. 1 + Len(s) : t[k] = IF k <= 1 THEN <<x>>[k] ELSE s[k - 1]
  BY <1>1, ConcatFacts
<1> HIDE DEF t
<1>3. t[1] = x
  BY <1>1, <1>2
<1>4. ASSUME NEW k \in 1 .. Len(s) PROVE t[k + 1] = s[k]
  <2>1. k + 1 \in 1 .. 1 + Len(s) /\ ~(k + 1 <= 1) /\ (k + 1) - 1 = k
    BY <1>1
  <2>2. QED
    BY Zenon, <2>1, <1>2
<1>5. t # <<>>
  BY <1>1, <1>2
<1>6. Head(t) = x
  BY <1>3, <1>5, <1>2
<1>7. Tail(t) = s
  <2>1. Tail(t) \in Seq(S) /\ Len(Tail(t)) = Len(s)
    BY <1>1, <1>2, <1>5, HeadTailFacts
  <2>2. \A k \in 1 .. Len(s) : Tail(t)[k] = s[k]
    BY <1>4, <1>5, <1>2, <2>1, HeadTailFacts
  <2>3. QED
    BY Zenon, <2>1, <2>2, SameSeq
<1>8. QED
  BY Zenon, <1>2, <1>3, <1>4, <1>5, <1>6, <1>7 DEF t

\* A nonempty sequence is its first element followed by its tail.
LEMMA HeadThenTail ==
  ASSUME NEW S, NEW s \in Seq(S), s # <<>> PROVE <<s[1]>> \o Tail(s) = s /\ Head(s) = s[1] /\ s[1] \in S
<1>1. /\ Len(s) \in Nat /\ Len(s) >= 1 /\ Tail(s) \in Seq(S) /\ Len(Tail(s)) = Len(s) - 1
      /\ \A k \in 1 .. Len(s) - 1 : Tail(s)[k] = s[k + 1]
  BY Zenon, TailFacts
<1>2. 1 \in 1 .. Len(s) /\ s[1] \in S /\ Head(s) = s[1]
  BY <1>1
<1>d. DEFINE t == <<s[1]>> \o Tail(s)
<1>3. /\ t \in Seq(S) /\ Len(t) = Len(Tail(s)) + 1 /\ t[1] = s[1]
      /\ \A k \in 1 .. Len(Tail(s)) : t[k + 1] = Tail(s)[k]
  BY <1>1, <1>2, ConsFacts
<1> HIDE DEF t
<1>4. Len(t) = Len(s)
  BY <1>1, <1>3
<1>5. ASSUME NEW k \in 1 .. Len(s) PROVE t[k] = s[k]
  <2>1. CASE k = 1
    BY Zenon, <2>1, <1>3
  <2>2. CASE k # 1
    <3>1. k - 1 \in 1 .. Len(s) - 1 /\ (k - 1) + 1 = k
      BY <2>2, <1>1
    <3>2. t[(k - 1) + 1] = Tail(s)[k - 1] /\ Tail(s)[k - 1] = s[(k - 1) + 1]
      BY Zenon, <3>1, <1>1, <1>3
    <3>3. QED
      BY Zenon, <3>1, <3>2
  <2>3. QED
    BY Zenon, <2>1, <2>2
<1>6. t = s
  BY Zenon, <1>3, <1>4, <1>5, SameSeq
<1>7. QED
  BY Zenon, <1>2, <1>6 DEF t

-----------------------------------------------------------------------------
(* The abstract state, as the invariant shapes it *)

QueueShape ==
  \A p \in Ports :
    /\ q[p] \in Seq(Frames) /\ q[p] \in Seq(WideFrames)
    /\ ~(Linking /\ p \in Unlinked) /\ ~FlushingFrom(p) => poolQueue[p] = q[p]
    /\ Linking /\ p \in Unlinked => EnqFrame \in Frames /\ poolQueue[p] = Append(q[p], EnqFrame)
    /\ FlushingFrom(p) => FlFrame \in WideFrames /\ poolQueue[p] = <<FlFrame>> \o q[p]

\* The abstract queue of a port is its linked list, plus the frame that is being linked
\* to it, or the frame that a flush has popped and not yet released.
LEMMA Shaped == IndInv => QueueShape
<1> SUFFICES ASSUME IndInv, NEW p \in Ports
             PROVE  /\ q[p] \in Seq(Frames) /\ q[p] \in Seq(WideFrames)
                    /\ ~(Linking /\ p \in Unlinked) /\ ~FlushingFrom(p) => poolQueue[p] = q[p]
                    /\ Linking /\ p \in Unlinked =>
                          EnqFrame \in Frames /\ poolQueue[p] = Append(q[p], EnqFrame)
                    /\ FlushingFrom(p) => FlFrame \in WideFrames /\ poolQueue[p] = <<FlFrame>> \o q[p]
  BY Zenon DEF QueueShape
<1>1. q[p] \in Seq(Frames)
  BY Zenon DEF IndInv, TypeOK, QueueType
<1>2. q[p] \in Seq(WideFrames)
  <2>1. Frames \subseteq WideFrames
    BY Zenon DEF Frames, WideFrames, OrNone
  <2>2. QED
    BY Zenon, <1>1, <2>1, WiderSeq
<1>3. poolQueue[p] = FlushedFrame(p) \o q[p] \o FrameToLink(p)
  BY Zenon DEF poolQueue
<1>4. ASSUME ~(Linking /\ p \in Unlinked), ~FlushingFrom(p) PROVE poolQueue[p] = q[p]
  <2>1. FlushedFrame(p) = <<>> /\ FrameToLink(p) = <<>>
    BY Zenon, <1>4 DEF FlushedFrame, FrameToLink, FlushingFrom
  <2>2. QED
    BY Zenon, <1>1, <1>3, <2>1, ConcatEmptyFacts
<1>5. ASSUME Linking, p \in Unlinked
      PROVE  EnqFrame \in Frames /\ poolQueue[p] = Append(q[p], EnqFrame)
  <2>1. bufid \in Buffers /\ enqInfo \in Infos
    BY Zenon, <1>5, EnqueueFacts DEF Linking, EnqStates
  <2>2. EnqFrame \in Frames
    BY Zenon, <2>1 DEF EnqFrame, Frames
  <2>3. FlushedFrame(p) = <<>> /\ FrameToLink(p) = <<EnqFrame>>
    BY Zenon, <1>5 DEF FlushedFrame, FrameToLink, EnqFrame, Linking
  <2>4. QED
    BY ZenonT(30), <1>1, <1>3, <2>2, <2>3, ConcatEmptyFacts, AppendAsConcat
<1>6. ASSUME FlushingFrom(p) PROVE FlFrame \in WideFrames /\ poolQueue[p] = <<FlFrame>> \o q[p]
  <2>1. flBuf \in Buffers /\ infoMem[flBuf] \in OrNone(Infos)
    BY ZenonT(30), <1>6, FlushFacts DEF FlushingFrom, IndInv, TypeOK, QueueType
  <2>2. FlFrame \in WideFrames
    BY Zenon, <2>1 DEF FlFrame, WideFrames
  <2>3. FlushedFrame(p) = <<FlFrame>> /\ FrameToLink(p) = <<>>
    BY Zenon, <1>6 DEF FlushedFrame, FrameToLink, FlFrame, Linking, FlushingFrom
  <2>4. <<FlFrame>> \o q[p] \in Seq(WideFrames)
    BY Zenon, <1>2, <2>2, ConsFacts
  <2>5. QED
    BY Zenon, <1>3, <2>2, <2>3, <2>4, ConcatEmptyFacts
<1>7. QED
  BY Zenon, <1>1, <1>2, <1>4, <1>5, <1>6

\* The same in the next state.
LEMMA ShapedNext == IndInv' => QueueShape'
BY Shaped, PTL

\* A buffer is in the abstract queue of a port exactly when the port has a queued,
\* pending or flushing reference to it.
LEMMA AbstractlyQueued ==
  ASSUME IndInv, NEW p \in Ports, NEW b \in Buffers
  PROVE  (\E k \in 1 .. Len(poolQueue[p]) : poolQueue[p][k].buf = b)
           <=> QueuedAt(p, b) \/ LinkingTo(p, b) \/ FlushHolds(p, b)
<1>1. QueueShape
  BY Zenon, Shaped
<1>2. q[p] \in Seq(Frames) /\ q[p] \in Seq(WideFrames) /\ Len(q[p]) \in Nat
  BY <1>1 DEF QueueShape
<1>3. 1 .. Len(q[p]) + 1 = (1 .. Len(q[p])) \cup {Len(q[p]) + 1}
  BY <1>2
<1>4. CASE ~(Linking /\ p \in Unlinked) /\ ~FlushingFrom(p)
  BY Zenon, <1>1, <1>4 DEF QueueShape, QueuedAt, LinkingTo, FlushHolds, FlushingFrom
<1>5. CASE Linking /\ p \in Unlinked
  <2>1. EnqFrame \in Frames /\ poolQueue[p] = Append(q[p], EnqFrame)
    BY Zenon, <1>1, <1>5 DEF QueueShape
  <2>2. /\ Len(poolQueue[p]) = Len(q[p]) + 1 /\ poolQueue[p][Len(q[p]) + 1] = EnqFrame
        /\ \A k \in 1 .. Len(q[p]) : poolQueue[p][k] = q[p][k]
    BY <2>1, <1>2, AppendFacts
  <2>3. ~FlushHolds(p, b) /\ (LinkingTo(p, b) <=> b = bufid) /\ EnqFrame.buf = bufid
    BY Zenon, <1>5 DEF FlushHolds, Linking, LinkingTo, EnqFrame
  <2>4. QED
    BY SMTT(60), <2>2, <2>3, <1>3 DEF QueuedAt
<1>6. CASE FlushingFrom(p)
  <2>1. FlFrame \in WideFrames /\ poolQueue[p] = <<FlFrame>> \o q[p]
    BY Zenon, <1>1, <1>6 DEF QueueShape
  <2>2. /\ Len(poolQueue[p]) = Len(q[p]) + 1 /\ poolQueue[p][1] = FlFrame
        /\ \A k \in 1 .. Len(q[p]) : poolQueue[p][k + 1] = q[p][k]
    BY <2>1, <1>2, ConsFacts
  <2>3. ~LinkingTo(p, b) /\ (FlushHolds(p, b) <=> b = flBuf) /\ FlFrame.buf = flBuf
    BY Zenon, <1>6 DEF FlushHolds, FlushingFrom, Linking, LinkingTo, FlFrame
  <2>4. ASSUME NEW k \in 1 .. Len(q[p]) + 1, k # 1 PROVE k - 1 \in 1 .. Len(q[p]) /\ (k - 1) + 1 = k
    BY <2>4, <1>2
  <2>5. \A k \in 1 .. Len(q[p]) : k + 1 \in 1 .. Len(q[p]) + 1
    BY <1>2
  <2>6. 1 \in 1 .. Len(q[p]) + 1
    BY <1>2
  <2>7. ASSUME NEW k \in 1 .. Len(poolQueue[p]), poolQueue[p][k].buf = b
        PROVE  QueuedAt(p, b) \/ FlushHolds(p, b)
    <3>1. CASE k = 1
      BY Zenon, <3>1, <2>2, <2>3, <2>7
    <3>2. CASE k # 1
      <4>1. k - 1 \in 1 .. Len(q[p]) /\ (k - 1) + 1 = k
        BY Zenon, <3>2, <2>2, <2>4
      <4>2. poolQueue[p][(k - 1) + 1] = q[p][k - 1]
        BY Zenon, <4>1, <2>2
      <4>3. q[p][k - 1].buf = b
        BY Zenon, <4>1, <4>2, <2>7
      <4>4. QED
        BY Zenon, <4>1, <4>3 DEF QueuedAt
    <3>3. QED
      BY Zenon, <3>1, <3>2
  <2>8. ASSUME QueuedAt(p, b) PROVE \E k \in 1 .. Len(poolQueue[p]) : poolQueue[p][k].buf = b
    BY Zenon, <2>2, <2>5, <2>8 DEF QueuedAt
  <2>9. ASSUME FlushHolds(p, b) PROVE \E k \in 1 .. Len(poolQueue[p]) : poolQueue[p][k].buf = b
    BY Zenon, <2>2, <2>3, <2>6, <2>9
  <2>10. QED
    BY Zenon, <2>3, <2>7, <2>8, <2>9
<1>7. QED
  BY Zenon, <1>4, <1>5, <1>6

IsHeld(b) == \E i \in Ports : \E fr \in poolHeld[i] : fr.buf = b
FreeIsRest ==
  \A b \in Buffers :
    /\ b \in poolFree <=> ~IsHeld(b) /\ ~Pool!Queued(poolQueue, b) /\ ~Pool!Reading(poolOut, b)
    /\ Pool!Queued(poolQueue, b) \/ Pool!Reading(poolOut, b) => ~IsHeld(b)
    /\ \A i, j \in Ports : (\E fr \in poolHeld[i] : fr.buf = b) /\ (\E fr \in poolHeld[j] : fr.buf = b) => i = j

\* The abstract free set is what the abstract holders, queues and readers leave over.
LEMMA Rested == IndInv => FreeIsRest
<1> SUFFICES ASSUME IndInv, NEW b \in Buffers
             PROVE  /\ b \in poolFree <=>
                         ~IsHeld(b) /\ ~Pool!Queued(poolQueue, b) /\ ~Pool!Reading(poolOut, b)
                    /\ Pool!Queued(poolQueue, b) \/ Pool!Reading(poolOut, b) => ~IsHeld(b)
                    /\ \A i, j \in Ports :
                         (\E fr \in poolHeld[i] : fr.buf = b) /\ (\E fr \in poolHeld[j] : fr.buf = b) => i = j
  BY Zenon DEF FreeIsRest
<1>1. b # None
  BY Geometry DEF Buffers
<1>2. ASSUME NEW i \in Ports PROVE (\E fr \in poolHeld[i] : fr.buf = b) <=> i \in Users(b)
  <2>1. poolHeld[i] = IF ingBuf[i] = None \/ HandedOver(i) THEN {}
                      ELSE {[buf |-> ingBuf[i], info |-> ingInfo[i]]}
    BY Zenon DEF poolHeld
  <2>2. CASE ingBuf[i] = None \/ HandedOver(i)
    BY Zenon, <2>1, <2>2, <1>1 DEF Users, IngressHolds
  <2>3. CASE ~(ingBuf[i] = None \/ HandedOver(i))
    <3>1. [buf |-> ingBuf[i], info |-> ingInfo[i]].buf = ingBuf[i]
      BY Zenon
    <3>2. (\E fr \in poolHeld[i] : fr.buf = b) <=> ingBuf[i] = b
      BY Zenon, <2>1, <2>3, <3>1, Zenon
    <3>3. QED
      BY Zenon, <3>2, <2>3 DEF Users, IngressHolds
  <2>4. QED
    BY Zenon, <2>2, <2>3
<1>3. ASSUME NEW p \in Ports PROVE (\E fr \in poolOut[p] : fr.buf = b) <=> egrBuf[p] = b
  <2>1. poolOut[p] = IF egrBuf[p] = None THEN {} ELSE {[buf |-> egrBuf[p], info |-> egrInfo[p]]}
    BY Zenon DEF poolOut
  <2>2. CASE egrBuf[p] = None
    BY Zenon, <2>1, <2>2, <1>1
  <2>3. CASE egrBuf[p] # None
    <3>1. [buf |-> egrBuf[p], info |-> egrInfo[p]].buf = egrBuf[p]
      BY Zenon
    <3>2. QED
      BY Zenon, <2>1, <2>3, <3>1, Zenon
  <2>4. QED
    BY Zenon, <2>2, <2>3
<1>4. IsHeld(b) <=> Users(b) # {}
  BY Zenon, <1>2 DEF IsHeld, Users
<1>5. Pool!Queued(poolQueue, b) \/ Pool!Reading(poolOut, b) <=> Holders(b) # {}
  <2>1. Pool!Queued(poolQueue, b) <=> \E p \in Ports : QueuedAt(p, b) \/ LinkingTo(p, b) \/ FlushHolds(p, b)
    BY Zenon, AbstractlyQueued DEF Pool!Queued
  <2>2. Pool!Reading(poolOut, b) <=> \E p \in Ports : egrBuf[p] = b
    BY Zenon, <1>3 DEF Pool!Reading
  <2>3. QED
    BY Zenon, <2>1, <2>2 DEF Holders
<1>6. Balanced(b)
  BY Zenon, AccountingSplit DEF IndInv
<1>7. b \in poolFree <=> IsFree(b)
  BY Zenon DEF poolFree
<1>8. QED
  BY Zenon, <1>2, <1>4, <1>5, <1>6, <1>7 DEF Balanced

\* The same in the next state.
LEMMA RestedNext == IndInv' => FreeIsRest'
BY Rested, PTL

-----------------------------------------------------------------------------
(* Steps that leave the pool alone *)

\* A function that differs from another at one port is that other with one update.
LEMMA PointUpdate ==
  ASSUME NEW f, NEW g, f = [x \in Ports |-> f[x]], g = [x \in Ports |-> g[x]],
         NEW p \in Ports, NEW v, g[p] = v, \A r \in Ports : r # p => g[r] = f[r]
  PROVE  g = [f EXCEPT ![p] = v]
BY Zenon

\* The abstract variables are functions on the ports.
LEMMA PoolFunctions ==
  /\ poolHeld = [i \in Ports |-> poolHeld[i]] /\ poolHeld' = [i \in Ports |-> poolHeld'[i]]
  /\ poolQueue = [p \in Ports |-> poolQueue[p]] /\ poolQueue' = [p \in Ports |-> poolQueue'[p]]
  /\ poolOut = [p \in Ports |-> poolOut[p]] /\ poolOut' = [p \in Ports |-> poolOut'[p]]
BY Zenon DEF poolHeld, poolQueue, poolOut

\* If nobody's use of a buffer changes, the abstract free set does not.
LEMMA PoolFreeNext ==
  ASSUME IndInv, IndInv',
         \A b \in Buffers : IsHeld(b)' <=> IsHeld(b),
         \A b \in Buffers :
            Pool!Queued(poolQueue', b) \/ Pool!Reading(poolOut', b) <=> Pool!Queued(poolQueue, b) \/ Pool!Reading(poolOut, b)
  PROVE  poolFree' = poolFree
<1>1. FreeIsRest /\ FreeIsRest'
  BY Zenon, Rested, RestedNext
<1>2. \A b \in Buffers : b \in poolFree <=> ~IsHeld(b) /\ ~Pool!Queued(poolQueue, b) /\ ~Pool!Reading(poolOut, b)
  BY Zenon, <1>1 DEF FreeIsRest
<1>3. \A b \in Buffers : b \in poolFree' <=> ~IsHeld(b)' /\ ~Pool!Queued(poolQueue', b) /\ ~Pool!Reading(poolOut', b)
  BY Zenon, <1>1 DEF FreeIsRest, Pool!Queued, Pool!Reading
<1>4. poolFree \subseteq Buffers /\ poolFree' \subseteq Buffers
  BY Zenon DEF poolFree
<1>5. QED
  BY Zenon, <1>2, <1>3, <1>4

\* If no port's abstract state changes, the abstract pool does not.
LEMMA StutterFrame ==
  ASSUME IndInv, IndInv',
         \A i \in Ports : poolHeld'[i] = poolHeld[i],
         \A p \in Ports : poolQueue'[p] = poolQueue[p],
         \A p \in Ports : poolOut'[p] = poolOut[p]
  PROVE  UNCHANGED Pool!poolVars
<1>1. poolHeld' = poolHeld /\ poolQueue' = poolQueue /\ poolOut' = poolOut
  BY Zenon, PoolFunctions
<1>2. \A b \in Buffers : IsHeld(b)' <=> IsHeld(b)
  BY Zenon, <1>1 DEF IsHeld
<1>3. poolFree' = poolFree
  BY Zenon, <1>1, <1>2, PoolFreeNext
<1>4. QED
  BY Zenon, <1>1, <1>3 DEF Pool!poolVars

\* What an ingress front end holds changes only with its buffer or its hand-over.
LEMMA HeldFrame ==
  ASSUME UNCHANGED ingBuf, \A i \in Ports : HandedOver(i)' <=> HandedOver(i),
         \A i \in Ports : ingBuf[i] # None => ingInfo'[i] = ingInfo[i]
  PROVE  \A i \in Ports : poolHeld'[i] = poolHeld[i]
BY Zenon DEF poolHeld

\* Steps that leave the operation registers alone are invisible to the pool.
LEMMA QuietPool ==
  ASSUME IndInv, IndInv', \A i \in Ports : ingBuf[i] # None => ingInfo'[i] = ingInfo[i],
         UNCHANGED <<ingBuf, egrBuf, egrInfo, q, qmState, enqPort, bufid, enqInfo, destmask, portIdx,
                     flPort, flBuf, infoMem>>
  PROVE  UNCHANGED Pool!poolVars
<1>1. \A i \in Ports : HandedOver(i)' <=> HandedOver(i)
  BY Zenon DEF HandedOver
<1>2. \A p \in Ports : poolOut'[p] = poolOut[p]
  BY Zenon DEF poolOut
<1>3. \A p \in Ports : poolQueue'[p] = poolQueue[p]
  BY Zenon DEF poolQueue, FlushedFrame, FrameToLink, Linking, Unlinked
<1>4. QED
  BY Zenon, <1>1, <1>2, <1>3, HeldFrame, StutterFrame

\* Queue manager steps outside linking and S_FL_REL are invisible to the pool.
LEMMA EasyPool ==
  ASSUME IndInv, IndInv', UNCHANGED <<q, ingVars, egrVars>>,
         qmState \notin {"ENQ_FIND", "ENQ_LINK_OLDTAIL", "ENQ_LINK_NEW", "ENQ_ACK", "FL_REL"},
         qmState' \notin {"ENQ_FIND", "ENQ_LINK_OLDTAIL", "ENQ_LINK_NEW", "ENQ_ACK", "FL_REL"}
  PROVE  UNCHANGED Pool!poolVars
<1>1. \A i \in Ports : HandedOver(i)' <=> HandedOver(i)
  BY Zenon DEF HandedOver
<1>2. \A p \in Ports : poolOut'[p] = poolOut[p]
  BY Zenon DEF poolOut, egrVars
<1>3. ~Linking /\ ~Linking' /\ \A p \in Ports : ~FlushingFrom(p) /\ ~FlushingFrom(p)'
  BY Zenon DEF Linking, FlushingFrom
<1>4. \A p \in Ports : poolQueue'[p] = poolQueue[p]
  BY Zenon, <1>3, Shaped, ShapedNext DEF QueueShape
<1>5. QED
  BY Zenon, <1>1, <1>2, <1>4, HeldFrame, StutterFrame DEF ingVars

\* Linking a frame to its destinations one by one is invisible: the abstract enqueue
\* happened at setref.
LEMMA LinkingPool ==
  ASSUME IndInv, IndInv', UNCHANGED <<ingVars, egrVars>>,
         EnqLinkOldTail \/ EnqFindNone \/ (\E p \in Ports : EnqFind(p)) \/ EnqLinkNew
  PROVE  UNCHANGED Pool!poolVars
<1>1. /\ enqPort' = enqPort /\ EnqFrame' = EnqFrame
      /\ qmState \in {"ENQ_FIND", "ENQ_LINK_OLDTAIL", "ENQ_LINK_NEW"}
      /\ qmState' \in {"ENQ_FIND", "ENQ_LINK_OLDTAIL", "ENQ_LINK_NEW", "ENQ_ACK"}
  BY Zenon DEF EnqLinkOldTail, EnqFindNone, Granted, EnqFind, EnqLinkNew, enqRegs, EnqFrame
<1>2. \A i \in Ports : HandedOver(i)' <=> HandedOver(i)
  BY Zenon, <1>1 DEF HandedOver
<1>3. \A p \in Ports : poolOut'[p] = poolOut[p]
  BY Zenon DEF poolOut, egrVars
<1>4. \A p \in Ports : ~FlushingFrom(p) /\ ~FlushingFrom(p)'
  BY Zenon, <1>1 DEF FlushingFrom
<1>5. QueueShape /\ QueueShape'
  BY Zenon, Shaped, ShapedNext
<1>6. ASSUME UNCHANGED q, \A p \in Ports : (Linking /\ p \in Unlinked)' <=> (Linking /\ p \in Unlinked)
      PROVE  \A p \in Ports : poolQueue'[p] = poolQueue[p]
  BY Zenon, <1>1, <1>4, <1>5, <1>6 DEF QueueShape
<1>7. ASSUME EnqLinkOldTail PROVE \A p \in Ports : poolQueue'[p] = poolQueue[p]
  BY Zenon, <1>7, <1>6 DEF EnqLinkOldTail, enqRegs, Linking, Unlinked
<1>8. ASSUME EnqFindNone PROVE \A p \in Ports : poolQueue'[p] = poolQueue[p]
  <2>1. UNCHANGED q /\ Unlinked = {} /\ ~Linking'
    BY Zenon, <1>8 DEF EnqFindNone, Granted, listVars, Linking
  <2>2. QED
    BY Zenon, <2>1, <1>6
<1>9. ASSUME NEW r \in Ports, EnqFind(r) PROVE \A p \in Ports : poolQueue'[p] = poolQueue[p]
  <2>1. UNCHANGED q
    BY Zenon, <1>9 DEF EnqFind, listVars
  <2>2. QED
    BY Zenon, <2>1, <1>6, <1>9, FindKeeps
<1>10. ASSUME EnqLinkNew, NEW p \in Ports PROVE poolQueue'[p] = poolQueue[p]
  <2>1. /\ portIdx \in Ports /\ portIdx \in Unlinked /\ Linking /\ Linking'
        /\ Unlinked' = Unlinked \ {portIdx} /\ q \in [Ports -> Seq(Frames)]
    BY ZenonT(30), <1>10, LinkNewKeeps DEF IndInv, TypeOK, QueueType
  <2>2. q' = [q EXCEPT ![portIdx] = Append(@, EnqFrame)]
    BY Zenon, <1>10 DEF EnqLinkNew, EnqFrame
  <2>3. CASE p = portIdx
    <3>1. poolQueue[p] = Append(q[p], EnqFrame) /\ poolQueue'[p] = q'[p]
      BY Zenon, <2>1, <2>3, <1>4, <1>5 DEF QueueShape
    <3>2. QED
      BY Zenon, <3>1, <2>1, <2>2, <2>3
  <2>4. CASE p # portIdx
    <3>1. q'[p] = q[p] /\ (p \in Unlinked' <=> p \in Unlinked)
      BY Zenon, <2>1, <2>2, <2>4
    <3>2. QED
      BY Zenon, <3>1, <2>1, <1>1, <1>4, <1>5 DEF QueueShape
  <2>5. QED
    BY Zenon, <2>3, <2>4
<1>11. QED
  BY ZenonT(30), <1>2, <1>3, <1>7, <1>8, <1>9, <1>10, HeldFrame, StutterFrame DEF ingVars

\* The pop of a flush is invisible: the abstract flush happens at the release.
LEMMA FlushCompletePool ==
  ASSUME IndInv, IndInv', FlushComplete, UNCHANGED <<ingVars, egrVars>> PROVE UNCHANGED Pool!poolVars
<1>1. flPort \in Ports /\ flPort \notin queueEmpty /\ flBuf = head[flPort]
  BY Zenon, FlushFacts DEF FlushComplete, IndInv, HandshakesAgree, FlushAgrees
<1>p. PICK p \in Ports : p = flPort
  BY Zenon, <1>1
<1>2. /\ PopHead(p) /\ qmState = "FL_COMPLETE" /\ qmState' = "FL_REL"
      /\ flPort' = p /\ flBuf' = flBuf /\ infoMem' = infoMem
  BY Zenon, <1>p DEF FlushComplete, flushRegs, infoVars
<1>3. q \in [Ports -> Seq(Frames)] /\ q[p] # <<>> /\ head[p] = q[p][1].buf
  BY ZenonT(30), <1>1, <1>p, HeadFacts DEF IndInv, TypeOK, QueueType
<1>4. QueueShape /\ QueueShape'
  BY Zenon, Shaped, ShapedNext
<1>5. ~Linking /\ ~Linking' /\ \A r \in Ports : ~FlushingFrom(r) /\ (FlushingFrom(r)' <=> r = p)
  BY Zenon, <1>2 DEF Linking, FlushingFrom
<1>6. ASSUME NEW r \in Ports PROVE poolQueue'[r] = poolQueue[r]
  <2>1. CASE r # p
    <3>1. q'[r] = q[r]
      BY Zenon, <2>1, <1>2, <1>3 DEF PopHead
    <3>2. QED
      BY Zenon, <3>1, <2>1, <1>4, <1>5 DEF QueueShape
  <2>2. CASE r = p
    <3>1. poolQueue[p] = q[p] /\ poolQueue'[p] = <<FlFrame'>> \o q'[p]
      BY Zenon, <1>4, <1>5 DEF QueueShape
    <3>2. q'[p] = Tail(q[p])
      BY Zenon, <1>2, <1>3 DEF PopHead
    <3>3. 1 \in 1 .. Len(q[p]) /\ q[p][1] \in Frames
      BY SMTT(60), <1>1, <1>p, <1>3, HeadFacts, QueuedFacts
    <3>4. infoMem[q[p][1].buf] = q[p][1].info
      BY ZenonT(30), <3>3 DEF IndInv, ListsSound, ListSound
    <3>5. FlFrame' = [buf |-> q[p][1].buf, info |-> q[p][1].info]
      BY Zenon, <3>4, <1>1, <1>2, <1>3, <1>p DEF FlFrame
    <3>6. FlFrame' = q[p][1]
      <4>1. \A fr \in Frames : fr = [buf |-> fr.buf, info |-> fr.info]
        BY DEF Frames
      <4>2. QED
        BY Zenon, <3>3, <3>5, <4>1
    <3>7. <<q[p][1]>> \o Tail(q[p]) = q[p]
      BY Zenon, <1>3, HeadThenTail
    <3>8. QED
      BY Zenon, <2>2, <3>1, <3>2, <3>6, <3>7
  <2>3. QED
    BY Zenon, <2>1, <2>2
<1>7. \A i \in Ports : HandedOver(i)' <=> HandedOver(i)
  BY Zenon, <1>2 DEF HandedOver
<1>8. \A r \in Ports : poolOut'[r] = poolOut[r]
  BY Zenon DEF poolOut, egrVars
<1>9. QED
  BY Zenon, <1>6, <1>7, <1>8, HeldFrame, StutterFrame DEF ingVars

\* The enqueue grant is invisible to the pool.
LEMMA AckPool ==
  ASSUME IndInv, IndInv', CompleteEnqueue PROVE UNCHANGED Pool!poolVars
<1>1. /\ enqPort \in Ports /\ qmState = "ENQ_ACK" /\ qmState' = "IDLE"
      /\ ingBuf \in [Ports -> OrNone(Buffers)] /\ ingInfo \in [Ports -> OrNone(Infos)]
  BY Zenon, EnqueueFacts DEF CompleteEnqueue, EnqAck, EnqStates, IndInv, TypeOK, PortType
<1>2. UNCHANGED <<q, egrVars>>
  BY Zenon DEF CompleteEnqueue, EnqAck, listVars
<1>3. ~Linking /\ ~Linking' /\ \A p \in Ports : ~FlushingFrom(p) /\ ~FlushingFrom(p)'
  BY Zenon, <1>1 DEF Linking, FlushingFrom
<1>4. \A p \in Ports : poolQueue'[p] = poolQueue[p]
  BY Zenon, <1>2, <1>3, Shaped, ShapedNext DEF QueueShape
<1>5. \A p \in Ports : poolOut'[p] = poolOut[p]
  BY Zenon, <1>2 DEF poolOut, egrVars
<1>6. ASSUME NEW i \in Ports PROVE poolHeld'[i] = poolHeld[i]
  <2>1. ~HandedOver(i)' /\ (HandedOver(i) <=> i = enqPort)
    BY Zenon, <1>1 DEF HandedOver
  <2>2. ingBuf'[i] = (IF i = enqPort THEN None ELSE ingBuf[i]) /\ (i # enqPort => ingInfo'[i] = ingInfo[i])
    BY Zenon, <1>1 DEF CompleteEnqueue
  <2>3. QED
    BY Zenon, <2>1, <2>2 DEF poolHeld
<1>7. QED
  BY Zenon, <1>4, <1>5, <1>6, StutterFrame

-----------------------------------------------------------------------------
(* Steps of the pool *)

\* An alloc is an abstract alloc.
LEMMA AllocPool ==
  ASSUME IndInv, IndInv', NEW i \in Ports, Alloc(i) PROVE Pool!Alloc(i)
<1>1. /\ freeFifo \in Seq(Buffers) /\ freeFifo # <<>> /\ flState = "IDLE" /\ flState' = "IDLE"
      /\ freeFifo' = Tail(freeFifo) /\ ingBuf' = [ingBuf EXCEPT ![i] = Head(freeFifo)]
      /\ ingBuf \in [Ports -> OrNone(Buffers)] /\ ingInfo' = ingInfo /\ ingState[i] = "ALLOC_WAIT"
  BY Zenon DEF IndInv, TypeOK, FreeListType, PortType, Alloc, AllocPop
<1>2. UNCHANGED <<egrVars, q, qmState, enqPort, bufid, enqInfo, destmask, portIdx, flPort, flBuf, infoMem>>
  BY Zenon DEF Alloc, qmVars, enqRegs, flushRegs, listVars, infoVars
<1>3. Distinct(freeFifo)
  BY Zenon, AccountingSplit DEF IndInv
<1>4. /\ Head(freeFifo) \in Buffers /\ Head(freeFifo) \in RangeOf(freeFifo)
      /\ RangeOf(freeFifo') = RangeOf(freeFifo) \ {Head(freeFifo)}
  BY Zenon, <1>1, <1>3, PoppedFacts
<1>a. PICK a \in Buffers : a = Head(freeFifo)
  BY Zenon, <1>4
<1>5. poolFree = {b \in Buffers : b \in RangeOf(freeFifo)}
  BY Zenon, <1>1 DEF poolFree, IsFree
<1>6. poolFree' = {b \in Buffers : b \in RangeOf(freeFifo')}
  BY Zenon, <1>1 DEF poolFree, IsFree, RangeOf
<1>7. a \in poolFree /\ poolFree' = poolFree \ {a}
  BY Zenon, <1>4, <1>5, <1>6, <1>a
<1>8. /\ ingBuf[i] = None /\ ingInfo[i] \in Infos
      /\ \A j \in Ports : (HandedOver(j)' <=> HandedOver(j)) /\ ~HandedOver(i)
  <2>1. ingBuf[i] = None /\ ~HandedOver(i)
    BY ZenonT(30), <1>1 DEF IndInv, HandshakesAgree, FrontEndsAgree, EnqueueAgrees, HandedOver,
       EnqStates
  <2>2. ingInfo[i] \in Infos
    BY SMTT(60), <1>1 DEF IndInv, TypeOK, PortType, HandshakesAgree, FrontEndsAgree, OrNone
  <2>3. QED
    BY ZenonT(30), <2>1, <2>2, <1>2 DEF HandedOver
<1>9. poolHeld[i] = {}
  BY Zenon, <1>8 DEF poolHeld
<1>10. poolHeld'[i] = {[buf |-> a, info |-> ingInfo[i]]}
  <2>1. ingBuf'[i] = a /\ a # None
    BY SMTT(60), <1>1, <1>a, Geometry DEF Buffers
  <2>2. QED
    BY Zenon, <2>1, <1>1, <1>8 DEF poolHeld
<1>11. \A j \in Ports : j # i => poolHeld'[j] = poolHeld[j]
  BY Zenon, <1>1, <1>8 DEF poolHeld
<1>12. poolHeld' = [poolHeld EXCEPT ![i] = {[buf |-> a, info |-> ingInfo[i]]}]
  BY Zenon, <1>10, <1>11, PoolFunctions, PointUpdate
<1>13. poolQueue' = poolQueue /\ poolOut' = poolOut
  BY Zenon, <1>2 DEF poolQueue, FlushedFrame, FrameToLink, Linking, Unlinked, poolOut, egrVars
<1>14. QED
  BY ZenonT(30), <1>7, <1>8, <1>9, <1>12, <1>13 DEF Pool!Alloc

\* setref is the abstract enqueue to all destinations.
LEMMA SetRefPool ==
  ASSUME IndInv, IndInv', GrantSetRef PROVE \E i \in Ports : Pool!Enqueue(i)
<1>1. /\ qmState = "ENQ_REF_WAIT" /\ qmState' = "ENQ_FIND"
      /\ destmask \subseteq Ports /\ destmask # {} /\ portIdx = 0
  BY Zenon DEF GrantSetRef, SetRefGranted, Granted, IndInv, TypeOK, QueueType, HandshakesAgree,
     EnqueueAgrees
<1>2. UNCHANGED <<freeFifo, fillCnt, flState, q, egrVars, ingVars, enqPort, bufid, enqInfo, destmask, portIdx>>
  BY Zenon DEF GrantSetRef, SetRefGranted, Granted, SetRef, listVars, enqRegs
<1>3. enqPort \in Ports /\ bufid \in Buffers /\ ingBuf[enqPort] = bufid /\ ingInfo[enqPort] = enqInfo
  BY ZenonT(30), <1>1, EnqueueFacts DEF EnqStates, IndInv, HandshakesAgree, EnqueueAgrees
<1>i. PICK i \in Ports : i = enqPort
  BY Zenon, <1>3
<1>4. Unlinked' = destmask /\ Linking' /\ ~Linking /\ EnqFrame' = EnqFrame
  <2>1. \A r \in destmask : r >= 0
    BY <1>1, Geometry DEF Ports
  <2>2. QED
    BY Zenon, <2>1, <1>1, <1>2 DEF Unlinked, Linking, EnqFrame
<1>5. QueueShape /\ QueueShape'
  BY Zenon, Shaped, ShapedNext
<1>6. \A p \in Ports : ~FlushingFrom(p) /\ ~FlushingFrom(p)'
  BY Zenon, <1>1 DEF FlushingFrom
<1>7. \A p \in Ports :
         poolQueue'[p] = IF p \in destmask THEN Append(poolQueue[p], EnqFrame) ELSE poolQueue[p]
  BY Zenon, <1>2, <1>4, <1>5, <1>6 DEF QueueShape
<1>8. poolQueue' = [p \in Ports |-> IF p \in destmask THEN Append(poolQueue[p], EnqFrame) ELSE poolQueue[p]]
  BY Zenon, <1>7, PoolFunctions
<1>9. poolFree' = poolFree /\ poolOut' = poolOut
  BY Zenon, <1>2 DEF poolFree, IsFree, RangeOf, poolOut, egrVars
<1>10. \A j \in Ports : ~HandedOver(j) /\ (HandedOver(j)' <=> j = i)
  BY Zenon, <1>1, <1>2, <1>i DEF HandedOver
<1>11. EnqFrame \in poolHeld[i]
  <2>1. ingBuf[i] # None
    BY SMTT(60), <1>3, <1>i, Geometry DEF Buffers
  <2>2. QED
    BY Zenon, <2>1, <1>3, <1>i, <1>10 DEF poolHeld, EnqFrame
<1>12. poolHeld'[i] = {} /\ \A j \in Ports : j # i => poolHeld'[j] = poolHeld[j]
  BY Zenon, <1>2, <1>10 DEF poolHeld, ingVars
<1>13. poolHeld' = [poolHeld EXCEPT ![i] = {}]
  BY Zenon, <1>12, PoolFunctions, PointUpdate
<1>14. Pool!Enqueue(i)
  BY ZenonT(30), <1>1, <1>8, <1>9, <1>11, <1>13 DEF Pool!Enqueue
<1>15. QED
  BY ZenonT(30), <1>14

\* S_DEQ_COMPLETE is the abstract dequeue of the oldest frame, with its length and tag.
LEMMA DequeuePool ==
  ASSUME IndInv, IndInv', CompleteDequeue PROVE \E p \in Ports : Pool!Dequeue(p)
<1>1. /\ deqPort \in Ports /\ deqPort \notin queueEmpty /\ egrState[deqPort] = "DEQ_WAIT"
      /\ infoRead = infoMem[head[deqPort]]
  BY Zenon, DequeueFacts DEF CompleteDequeue, DeqComplete, IndInv, HandshakesAgree, DequeueAgrees
<1>p. PICK p \in Ports : p = deqPort
  BY Zenon, <1>1
<1>2. /\ PopHead(p) /\ qmState = "DEQ_COMPLETE" /\ qmState' = "IDLE" /\ UNCHANGED <<flVars, ingVars>>
      /\ egrBuf' = [egrBuf EXCEPT ![p] = head[p]] /\ egrInfo' = [egrInfo EXCEPT ![p] = infoRead]
  BY ZenonT(30), <1>p DEF CompleteDequeue, DeqComplete
<1>3. /\ q \in [Ports -> Seq(Frames)] /\ q[p] # <<>> /\ head[p] = q[p][1].buf /\ head[p] \in Buffers
      /\ egrBuf \in [Ports -> OrNone(Buffers)] /\ egrInfo \in [Ports -> OrNone(Infos)] /\ egrBuf[p] = None
  BY ZenonT(60), <1>1, <1>p, HeadFacts DEF IndInv, TypeOK, QueueType, PortType, HandshakesAgree,
     FrontEndsAgree
<1>4. QueueShape /\ QueueShape'
  BY Zenon, Shaped, ShapedNext
<1>5. ~Linking /\ ~Linking' /\ \A r \in Ports : ~FlushingFrom(r) /\ ~FlushingFrom(r)'
  BY Zenon, <1>2 DEF Linking, FlushingFrom
<1>6. \A r \in Ports : poolQueue[r] = q[r] /\ poolQueue'[r] = q'[r]
  BY Zenon, <1>4, <1>5 DEF QueueShape
<1>7. q'[p] = Tail(q[p]) /\ \A r \in Ports : r # p => q'[r] = q[r]
  BY Zenon, <1>2, <1>3 DEF PopHead
<1>8. poolQueue' = [poolQueue EXCEPT ![p] = Tail(poolQueue[p])]
  <2>1. poolQueue'[p] = Tail(poolQueue[p]) /\ \A r \in Ports : r # p => poolQueue'[r] = poolQueue[r]
    BY Zenon, <1>6, <1>7
  <2>2. QED
    BY Zenon, <2>1, PoolFunctions, PointUpdate
<1>9. 1 \in 1 .. Len(q[p]) /\ q[p][1] \in Frames /\ Head(q[p]) = q[p][1]
  BY <1>1, <1>p, <1>3, HeadFacts, QueuedFacts
<1>10. [buf |-> head[p], info |-> infoRead] = q[p][1]
  <2>1. infoRead = q[p][1].info
    <3>1. infoMem[q[p][1].buf] = q[p][1].info
      BY ZenonT(30), <1>9 DEF IndInv, ListsSound, ListSound
    <3>2. infoRead = infoMem[q[p][1].buf]
      BY Zenon, <1>1, <1>p, <1>3
    <3>3. QED
      BY Zenon, <3>1, <3>2
  <2>2. \A fr \in Frames : fr = [buf |-> fr.buf, info |-> fr.info]
    BY DEF Frames
  <2>3. QED
    BY Zenon, <2>1, <2>2, <1>3, <1>9
<1>11. poolOut[p] = {} /\ poolOut'[p] = {Head(poolQueue[p])}
  <2>1. egrBuf'[p] = head[p] /\ egrInfo'[p] = infoRead /\ head[p] # None
    BY <1>2, <1>3, Geometry DEF Buffers
  <2>2. poolOut'[p] = {[buf |-> head[p], info |-> infoRead]}
    BY Zenon, <2>1 DEF poolOut
  <2>3. poolOut[p] = {}
    BY Zenon, <1>3 DEF poolOut
  <2>4. QED
    BY Zenon, <2>2, <2>3, <1>6, <1>9, <1>10
<1>12. \A r \in Ports : r # p => poolOut'[r] = poolOut[r]
  BY Zenon, <1>2, <1>3 DEF poolOut
<1>13. poolOut' = [poolOut EXCEPT ![p] = {Head(poolQueue[p])}]
  BY Zenon, <1>11, <1>12, PoolFunctions, PointUpdate
<1>14. \A i \in Ports : HandedOver(i)' <=> HandedOver(i)
  BY Zenon, <1>2 DEF HandedOver
<1>15. poolHeld' = poolHeld
  BY Zenon, <1>2, <1>14, HeldFrame, PoolFunctions DEF ingVars
<1>16. poolFree' = poolFree
  BY Zenon, <1>2 DEF poolFree, IsFree, RangeOf, flVars
<1>17. Pool!Dequeue(p)
  BY ZenonT(30), <1>3, <1>6, <1>8, <1>11, <1>13, <1>15, <1>16 DEF Pool!Dequeue
<1>18. QED
  BY Zenon, <1>17

\* Dropping one reference to a buffer frees it exactly when no other is left.
LEMMA FreedPool ==
  ASSUME IndInv, IndInv', NEW a \in Buffers,
         Pool!Queued(poolQueue, a) \/ Pool!Reading(poolOut, a),
         UNCHANGED poolHeld,
         \A b \in Buffers : b # a =>
           (Pool!Queued(poolQueue', b) \/ Pool!Reading(poolOut', b) <=> Pool!Queued(poolQueue, b) \/ Pool!Reading(poolOut, b))
  PROVE  poolFree' = Pool!FreeAfter(a, poolQueue', poolOut')
<1>1. FreeIsRest /\ FreeIsRest'
  BY Zenon, Rested, RestedNext
<1>2. \A b \in Buffers : b \in poolFree <=> ~IsHeld(b) /\ ~Pool!Queued(poolQueue, b) /\ ~Pool!Reading(poolOut, b)
  BY Zenon, <1>1 DEF FreeIsRest
<1>3. \A b \in Buffers : b \in poolFree' <=> ~IsHeld(b)' /\ ~Pool!Queued(poolQueue', b) /\ ~Pool!Reading(poolOut', b)
  BY Zenon, <1>1 DEF FreeIsRest, Pool!Queued, Pool!Reading
<1>4. ~IsHeld(a) /\ \A b \in Buffers : IsHeld(b)' <=> IsHeld(b)
  BY Zenon, <1>1 DEF FreeIsRest, IsHeld
<1>5. poolFree \subseteq Buffers /\ poolFree' \subseteq Buffers /\ a \notin poolFree
  BY Zenon, <1>2 DEF poolFree
<1>6. \A b \in Buffers : b # a => (b \in poolFree' <=> b \in poolFree)
  BY Zenon, <1>2, <1>3, <1>4
<1>7. a \in poolFree' <=> ~(Pool!Queued(poolQueue', a) \/ Pool!Reading(poolOut', a))
  BY Zenon, <1>3, <1>4
<1>8. QED
  BY <1>5, <1>6, <1>7 DEF Pool!FreeAfter

\* The grant of a port's release is the abstract release.
LEMMA ReleasePool ==
  ASSUME IndInv, IndInv', GrantPortRelease PROVE \E p \in Ports : Pool!Release(p)
<1>1. /\ egrBuf \in [Ports -> OrNone(Buffers)] /\ egrInfo \in [Ports -> OrNone(Infos)]
      /\ egrBuf' = [egrBuf EXCEPT ![relSlot] = None] /\ egrInfo' = [egrInfo EXCEPT ![relSlot] = None]
      /\ UNCHANGED <<qmVars, ingVars>>
  BY Zenon DEF GrantPortRelease, IndInv, TypeOK, PortType
<1>2. relSlot \in Ports /\ relBuf \in Buffers /\ egrBuf[relSlot] = relBuf
  BY Zenon, ReleaseFacts DEF GrantPortRelease, ReleaseWrite, IndInv, HandshakesAgree, ReleaseAgrees
<1>p. PICK p \in Ports : p = relSlot
  BY Zenon, <1>2
<1>a. PICK a \in Buffers : a = relBuf
  BY Zenon, <1>2
<1>d. DEFINE fr == [buf |-> a, info |-> egrInfo[p]]
<1>3. poolOut[p] = {fr} /\ fr.buf = a
  <2>1. egrBuf[p] = a /\ a # None
    BY SMTT(60), <1>2, <1>p, <1>a, Geometry DEF Buffers
  <2>2. QED
    BY Zenon, <2>1 DEF poolOut
<1>4. poolOut'[p] = {} /\ \A r \in Ports : r # p => poolOut'[r] = poolOut[r]
  BY Zenon, <1>1, <1>p DEF poolOut
<1>5. poolOut' = [poolOut EXCEPT ![p] = {}]
  BY Zenon, <1>4, PoolFunctions, PointUpdate
<1>6. poolQueue' = poolQueue
  BY Zenon, <1>1 DEF poolQueue, FlushedFrame, FrameToLink, Linking, Unlinked, qmVars, listVars,
     enqRegs, flushRegs, infoVars
<1>7. poolHeld' = poolHeld
  BY Zenon, <1>1 DEF poolHeld, HandedOver, qmVars, enqRegs, ingVars
<1> HIDE DEF fr
<1>8. Pool!Reading(poolOut, a)
  BY Zenon, <1>3 DEF Pool!Reading
<1>9. \A b \in Buffers : b # a => (Pool!Reading(poolOut', b) <=> Pool!Reading(poolOut, b))
  BY Zenon, <1>3, <1>4 DEF Pool!Reading
<1>10. poolFree' = Pool!FreeAfter(a, poolQueue', poolOut')
  BY Zenon, <1>6, <1>7, <1>8, <1>9, FreedPool
<1>11. Pool!Release(p)
  BY ZenonT(30), <1>3, <1>5, <1>6, <1>7, <1>10 DEF Pool!Release
<1>12. QED
  BY Zenon, <1>11

\* The grant of a flush's release is the abstract flush of the oldest frame.
LEMMA FlushPool ==
  ASSUME IndInv, IndInv', GrantFlushRelease PROVE \E p \in Ports : Pool!Flush(p)
<1>1. qmState = "FL_REL" /\ qmState' = "IDLE" /\ UNCHANGED <<q, ingVars, egrVars>>
  BY Zenon DEF GrantFlushRelease, FlushReleased, listVars
<1>2. flPort \in Ports /\ flBuf \in Buffers
  BY Zenon, <1>1, FlushFacts
<1>p. PICK p \in Ports : p = flPort
  BY Zenon, <1>2
<1>a. PICK a \in Buffers : a = flBuf
  BY Zenon, <1>2
<1>3. QueueShape /\ QueueShape'
  BY Zenon, Shaped, ShapedNext
<1>4. ~Linking /\ ~Linking' /\ \A r \in Ports : (FlushingFrom(r) <=> r = p) /\ ~FlushingFrom(r)'
  BY Zenon, <1>1, <1>p DEF Linking, FlushingFrom
<1>5. /\ FlFrame \in WideFrames /\ q[p] \in Seq(WideFrames)
      /\ poolQueue[p] = <<FlFrame>> \o q[p] /\ poolQueue'[p] = q[p]
      /\ \A r \in Ports : r # p => poolQueue'[r] = poolQueue[r]
  BY Zenon, <1>1, <1>3, <1>4 DEF QueueShape
<1>6. /\ poolQueue[p] # <<>> /\ Head(poolQueue[p]) = FlFrame /\ Tail(poolQueue[p]) = q[p]
      /\ Len(poolQueue[p]) = Len(q[p]) + 1 /\ poolQueue[p][1] = FlFrame /\ Len(q[p]) \in Nat
      /\ \A k \in 1 .. Len(q[p]) : poolQueue[p][k + 1] = q[p][k]
  BY SMTT(60), <1>5, ConsFacts
<1>7. FlFrame.buf = a
  BY Zenon, <1>a DEF FlFrame
<1>8. poolQueue' = [poolQueue EXCEPT ![p] = Tail(poolQueue[p])]
  BY Zenon, <1>5, <1>6, PoolFunctions, PointUpdate
<1>9. poolOut' = poolOut
  BY Zenon, <1>1 DEF poolOut, egrVars
<1>10. poolHeld' = poolHeld
  <2>1. \A i \in Ports : HandedOver(i)' <=> HandedOver(i)
    BY Zenon, <1>1 DEF HandedOver
  <2>2. QED
    BY Zenon, <2>1, <1>1, HeldFrame, PoolFunctions DEF ingVars
<1>11. Pool!Queued(poolQueue, a)
  <2>1. 1 \in 1 .. Len(poolQueue[p])
    BY SMTT(60), <1>6
  <2>2. QED
    BY Zenon, <2>1, <1>6, <1>7 DEF Pool!Queued
<1>12. ASSUME NEW b \in Buffers, b # a PROVE Pool!Queued(poolQueue', b) <=> Pool!Queued(poolQueue, b)
  <2>1. (\E k \in 1 .. Len(poolQueue'[p]) : poolQueue'[p][k].buf = b)
          <=> (\E k \in 1 .. Len(poolQueue[p]) : poolQueue[p][k].buf = b)
    <3>1. ASSUME NEW k \in 1 .. Len(q[p]), q[p][k].buf = b
          PROVE  \E m \in 1 .. Len(poolQueue[p]) : poolQueue[p][m].buf = b
      <4>1. k + 1 \in 1 .. Len(poolQueue[p]) /\ poolQueue[p][k + 1] = q[p][k]
        BY <1>6
      <4>2. QED
        BY Zenon, <4>1, <3>1
    <3>2. ASSUME NEW k \in 1 .. Len(poolQueue[p]), poolQueue[p][k].buf = b
          PROVE  \E m \in 1 .. Len(q[p]) : q[p][m].buf = b
      <4>1. k # 1
        BY Zenon, <3>2, <1>6, <1>7, <1>12
      <4>2. k - 1 \in 1 .. Len(q[p]) /\ (k - 1) + 1 = k
        BY <4>1, <1>6
      <4>3. poolQueue[p][(k - 1) + 1] = q[p][k - 1]
        BY Zenon, <4>2, <1>6
      <4>4. q[p][k - 1].buf = b
        BY Zenon, <4>2, <4>3, <3>2
      <4>5. QED
        BY Zenon, <4>2, <4>4
    <3>3. QED
      BY Zenon, <3>1, <3>2, <1>5
  <2>2. ASSUME NEW r \in Ports
        PROVE  (\E k \in 1 .. Len(poolQueue'[r]) : poolQueue'[r][k].buf = b)
                 <=> (\E k \in 1 .. Len(poolQueue[r]) : poolQueue[r][k].buf = b)
    <3>1. CASE r = p
      BY Zenon, <3>1, <2>1
    <3>2. CASE r # p
      BY Zenon, <3>2, <1>5
    <3>3. QED
      BY Zenon, <3>1, <3>2
  <2>3. QED
    BY Zenon, <2>2 DEF Pool!Queued
<1>13. poolFree' = Pool!FreeAfter(a, poolQueue', poolOut')
  BY Zenon, <1>9, <1>10, <1>11, <1>12, FreedPool
<1>14. Pool!Flush(p)
  BY Zenon, <1>6, <1>7, <1>8, <1>9, <1>10, <1>13 DEF Pool!Flush
<1>15. QED
  BY Zenon, <1>14

\* direct_free is the abstract drop.
LEMMA DropPool ==
  ASSUME Counting, IndInv, IndInv', GrantDirectFree PROVE \E i \in Ports : Pool!Drop(i)
<1>1. /\ qmState = "ENQ_DROP_WAIT" /\ qmState' = "ENQ_ACK" /\ flState = "IDLE" /\ flState' = "IDLE"
      /\ freeFifo \in Seq(Buffers) /\ freeFifo' = Pushed(freeFifo, bufid)
  BY Zenon DEF GrantDirectFree, DirectFreeGranted, Granted, DirectFree, IndInv, TypeOK, FreeListType
<1>2. UNCHANGED <<q, egrVars, ingVars, enqPort, bufid>>
  BY Zenon DEF GrantDirectFree, DirectFreeGranted, Granted, listVars, enqRegs
<1>3. /\ enqPort \in Ports /\ bufid \in Buffers /\ ~IsFree(bufid)
      /\ ingBuf[enqPort] = bufid /\ ingInfo[enqPort] = enqInfo
  BY ZenonT(30), <1>1, EnqueueOwner DEF IndInv, HandshakesAgree, EnqueueAgrees, EnqStates
<1>i. PICK i \in Ports : i = enqPort
  BY Zenon, <1>3
<1>4. Distinct(freeFifo) /\ bufid \notin RangeOf(freeFifo)
  BY Zenon, <1>3, AccountingSplit DEF IndInv, IsFree
<1>5. RangeOf(freeFifo') = RangeOf(freeFifo) \cup {bufid}
  BY Zenon, <1>1, <1>3, <1>4, PushedFacts
<1>6. poolFree = {b \in Buffers : b \in RangeOf(freeFifo)} /\ poolFree' = {b \in Buffers : b \in RangeOf(freeFifo')}
  BY Zenon, <1>1 DEF poolFree, IsFree, RangeOf
<1>7. poolFree' = poolFree \cup {bufid}
  BY Zenon, <1>3, <1>5, <1>6
<1>8. ~Linking /\ ~Linking' /\ \A p \in Ports : ~FlushingFrom(p) /\ ~FlushingFrom(p)'
  BY Zenon, <1>1 DEF Linking, FlushingFrom
<1>9. \A p \in Ports : poolQueue'[p] = poolQueue[p]
  BY Zenon, <1>2, <1>8, Shaped, ShapedNext DEF QueueShape
<1>10. poolQueue' = poolQueue /\ poolOut' = poolOut
  BY Zenon, <1>9, <1>2, PoolFunctions DEF poolOut, egrVars
<1>11. \A j \in Ports : ~HandedOver(j) /\ (HandedOver(j)' <=> j = i)
  BY Zenon, <1>1, <1>2, <1>i DEF HandedOver
<1>12. EnqFrame \in poolHeld[i] /\ EnqFrame.buf = bufid
  <2>1. ingBuf[i] # None
    BY SMTT(60), <1>3, <1>i, Geometry DEF Buffers
  <2>2. QED
    BY Zenon, <2>1, <1>3, <1>i, <1>11 DEF poolHeld, EnqFrame
<1>13. poolHeld'[i] = {} /\ \A j \in Ports : j # i => poolHeld'[j] = poolHeld[j]
  BY Zenon, <1>2, <1>11 DEF poolHeld, ingVars
<1>14. poolHeld' = [poolHeld EXCEPT ![i] = {}]
  BY Zenon, <1>13, PoolFunctions, PointUpdate
<1>15. Pool!Drop(i)
  BY Zenon, <1>7, <1>10, <1>12, <1>14 DEF Pool!Drop
<1>16. QED
  BY Zenon, <1>15

\* Every step is an abstract step or invisible.
LEMMA PoolStep == Counting /\ IndInv /\ IndInv' /\ [Next]_vars => [Pool!Next]_(Pool!poolVars)
<1> SUFFICES ASSUME Counting, IndInv, IndInv', [Next]_vars PROVE Pool!Next \/ UNCHANGED Pool!poolVars
  BY Zenon
<1>q. ASSUME UNCHANGED <<qmVars, egrBuf, egrInfo, ingBuf>>,
             \A i \in Ports : ingBuf[i] # None => ingInfo'[i] = ingInfo[i]
      PROVE  UNCHANGED Pool!poolVars
  <2>1. UNCHANGED <<ingBuf, egrBuf, egrInfo, q, qmState, enqPort, bufid, enqInfo, destmask, portIdx,
                    flPort, flBuf, infoMem>>
    BY Zenon, <1>q DEF qmVars, listVars, enqRegs, flushRegs, infoVars
  <2>2. QED
    BY Zenon, <1>q, <2>1, QuietPool
<1>1. CASE FillStep \/ StartFlushRelease \/ UNCHANGED vars
  BY Zenon, <1>1, <1>q DEF FillStep, StartFlushRelease, vars, ingVars, egrVars
<1>2. ASSUME NEW p \in Ports,
             \/ DmaWrite(p) \/ DmaRead(p) \/ FrameSent(p) \/ StartPortRelease(p)
             \/ LinkSet(p) \/ LinkDown(p) \/ AskFlush(p)
      PROVE  UNCHANGED Pool!poolVars
  BY Zenon, <1>2, <1>q DEF DmaWrite, DmaRead, FrameSent, StartPortRelease, LinkSet, LinkDown,
     AskFlush,
     ingVars, egrVars
<1>3. ASSUME NEW i \in Ports, ReceiveFrame(i) PROVE UNCHANGED Pool!poolVars
  <2>1. ingBuf[i] = None /\ ingInfo \in [Ports -> OrNone(Infos)]
    BY ZenonT(30), <1>3 DEF ReceiveFrame, IndInv, HandshakesAgree, FrontEndsAgree, TypeOK, PortType
  <2>2. \A j \in Ports : j # i => ingInfo'[j] = ingInfo[j]
    BY Zenon, <1>3, <2>1 DEF ReceiveFrame
  <2>3. \A j \in Ports : ingBuf[j] # None => ingInfo'[j] = ingInfo[j]
    BY Zenon, <2>1, <2>2
  <2>4. QED
    BY ZenonT(30), <1>3, <1>q, <2>3 DEF ReceiveFrame, egrVars
<1>4. ASSUME NEW p \in Ports, FlushPulse(p) PROVE UNCHANGED Pool!poolVars
  <2>1. UNCHANGED <<ingBuf, ingInfo, egrBuf, egrInfo, q, qmState, enqPort, bufid, enqInfo, destmask, portIdx,
                    flPort, flBuf, infoMem>>
    BY Zenon, <1>4 DEF FlushPulse, FlushRequest, listVars, enqRegs, flushRegs, infoVars, ingVars,
       egrVars
  <2>2. QED
    BY Zenon, <2>1, QuietPool
<1>5. ASSUME NEW p \in Ports, StartEnqueue(p) \/ StartDequeue(p) PROVE UNCHANGED Pool!poolVars
  <2>1. UNCHANGED <<q, ingVars, egrVars>> /\ qmState = "IDLE" /\ qmState' \in {"ENQ_LEN", "DEQ_READ"}
    BY Zenon, <1>5 DEF StartEnqueue, EnqPick, StartDequeue, DeqPick, listVars
  <2>2. QED
    BY Zenon, <2>1, EasyPool
<1>6. CASE QueueStep
  <2>u. UNCHANGED <<ingVars, egrVars>>
    BY Zenon, <1>6 DEF QueueStep
  <2>1. CASE IdleStep(EnqRequests, DeqRequests)
    <3>1. UNCHANGED <<ingBuf, ingInfo, egrBuf, egrInfo, q, qmState, enqPort, bufid, enqInfo, destmask, portIdx,
                      flPort, flBuf, infoMem>>
      BY Zenon, <2>u, <2>1 DEF IdleStep, listVars, enqRegs, flushRegs, infoVars, ingVars, egrVars
    <3>2. QED
      BY Zenon, <3>1, QuietPool
  <2>2. CASE EnqLen \/ DeqRead \/ (\E p \in Ports : FlushPick(p)) \/ FlushRead
    <3>1. /\ UNCHANGED q
          /\ qmState \in {"ENQ_LEN", "DEQ_READ", "IDLE", "FL_READ"}
          /\ qmState' \in {"ENQ_DROP_WAIT", "ENQ_REF_WAIT", "DEQ_COMPLETE", "FL_READ", "FL_COMPLETE"}
      BY Zenon, <2>2 DEF EnqLen, DeqRead, FlushPick, FlushRead, listVars
    <3>2. QED
      BY Zenon, <2>u, <3>1, EasyPool
  <2>3. QED
    BY Zenon, <1>6, <2>u, <2>1, <2>2, LinkingPool, FlushCompletePool DEF QueueStep
<1>7. CASE \/ GrantSetRef \/ GrantDirectFree \/ GrantPortRelease \/ GrantFlushRelease \/ CompleteDequeue
           \/ \E i \in Ports : Alloc(i)
  BY Zenon, <1>7, SetRefPool, DropPool, ReleasePool, FlushPool, DequeuePool, AllocPool DEF Pool!Next
<1>8. QED
  BY ZenonT(30), TrafficAssumption, <1>1, <1>2, <1>3, <1>4, <1>5, <1>6, <1>7, AckPool DEF Next

\* After reset the pool is full and nothing is queued.
LEMMA PoolInit == Init => Pool!Init
<1> SUFFICES ASSUME Init PROVE Pool!Init
  BY Zenon
<1>1. poolFree = Buffers
  <2>1. \A b \in Buffers : b >= 0
    BY Geometry DEF Buffers
  <2>2. QED
    BY Zenon, <2>1 DEF Init, FreeListInit, poolFree, IsFree
<1>2. poolHeld = [i \in Ports |-> {}] /\ poolOut = [p \in Ports |-> {}]
  BY Zenon DEF Init, poolHeld, poolOut
<1>3. poolQueue = [p \in Ports |-> <<>>]
  <2>1. \A p \in Ports : FlushedFrame(p) = <<>> /\ FrameToLink(p) = <<>> /\ q[p] = <<>>
    BY Zenon DEF Init, QueueInit, FlushedFrame, FrameToLink, Linking
  <2>2. QED
    BY <2>1 DEF poolQueue
<1>4. QED
  BY Zenon, <1>1, <1>2, <1>3 DEF Pool!Init

(***************************************************************************)
(* Counting.                                                               *)
(***************************************************************************)
INSTANCE FiniteSetTheorems

\* A set of ports is finite and no larger than NUM_PORTS, so a destination mask
\* fits a reference count.
LEMMA PortSets ==
  ASSUME NEW S \in SUBSET Ports
  PROVE  IsFiniteSet(S) /\ Cardinality(S) \in Nat /\ Cardinality(S) <= NumPorts
<1>1. IsFiniteSet(Ports) /\ Cardinality(Ports) = NumPorts
  BY Geometry, FS_Interval DEF Ports
<1>2. QED
  BY Zenon, <1>1, FS_Subset, FS_CardinalityType

\* A FIFO without duplicates that misses a buffer is not full, so the push of that
\* buffer is not dropped.
LEMMA RoomForOneMore ==
  ASSUME NEW f \in Seq(Buffers), Distinct(f), NEW b \in Buffers, b \notin RangeOf(f)
  PROVE  Len(f) \in Nat /\ Len(f) < NumBuffers
<1>1. Len(f) \in Nat
  OBVIOUS
<1>2. IsFiniteSet(Buffers) /\ Cardinality(Buffers) = NumBuffers
  BY Geometry, FS_Interval DEF Buffers
<1>3. IsFiniteSet(Buffers \ {b}) /\ Cardinality(Buffers \ {b}) = NumBuffers - 1
  BY Zenon, <1>2, FS_RemoveElement
<1>4. IsFiniteSet(1 .. Len(f)) /\ Cardinality(1 .. Len(f)) = Len(f)
  BY SMTT(60), <1>1, FS_Interval
<1>5. \A k \in 1 .. Len(f) : f[k] \in Buffers \ {b}
  BY DEF RangeOf
<1>6. DEFINE g == [k \in 1 .. Len(f) |-> f[k]]
<1>7. g \in [1 .. Len(f) -> Buffers \ {b}]
  BY Zenon, <1>5
<1>8. ~(NumBuffers - 1 < Len(f))
  <2>1. SUFFICES ASSUME NumBuffers - 1 < Len(f) PROVE FALSE
    BY Zenon
  <2>2. \E x, y \in 1 .. Len(f) : x # y /\ g[x] = g[y]
    <3> HIDE DEF g
    <3>1. Cardinality(Buffers \ {b}) < Cardinality(1 .. Len(f))
      BY Zenon, <2>1, <1>3, <1>4
    <3>2. QED
      BY Zenon, <3>1, <1>3, <1>4, <1>7, FS_PigeonHole
  <2>3. QED
    BY Zenon, <2>2 DEF Distinct
<1>9. QED
  BY SMTT(30), <1>1, <1>8, Geometry

\* What the accounts use of counting holds.
LEMMA CountingHolds == Counting
<1>1. ASSUME NEW S \in SUBSET Ports
      PROVE  /\ Cardinality(S) \in Nat /\ Cardinality(S) <= NumPorts
             /\ Cardinality(S) = 0 <=> S = {}
             /\ \A p \in S : Cardinality(S \ {p}) = Cardinality(S) - 1
  <2>1. IsFiniteSet(S) /\ Cardinality(S) \in Nat /\ Cardinality(S) <= NumPorts
    BY PortSets
  <2>2. Cardinality(S) = 0 <=> S = {}
    BY Zenon, <2>1, FS_EmptySet
  <2>3. \A p \in S : Cardinality(S \ {p}) = Cardinality(S) - 1
    BY Zenon, <2>1, FS_RemoveElement
  <2>4. QED
    BY Zenon, <2>1, <2>2, <2>3
<1>2. ASSUME NEW f \in Seq(Buffers), NEW b \in Buffers, Distinct(f), b \notin RangeOf(f)
      PROVE  Len(f) < NumBuffers
  BY <1>2, RoomForOneMore
<1>3. QED
  BY Zenon, <1>1, <1>2 DEF Counting

(***************************************************************************)
(* The theorems.                                                           *)
(***************************************************************************)
\* The inductive invariant holds in every reachable state of the buffer manager, for
\* every number of ports and buffers and every pattern of traffic and link changes.
THEOREM Inductive == Spec => []IndInv
<1>1. Init => IndInv
  BY Zenon, IndInvInit, CountingHolds
<1>2. IndInv /\ [Next]_vars => IndInv'
  BY Zenon, IndInvStep, CountingHolds
<1>3. QED
  BY <1>1, <1>2, PTL DEF Spec

\* Every register and memory always holds a value of its type.
THEOREM TypeCorrect == Spec => []TypeOK
BY Inductive, PTL DEF IndInv

\* A requester is never granted something it is not waiting for, and what an engine
\* read or captured is current when it is used.
THEOREM HandshakesCorrect == Spec => []HandshakesAgree
BY Inductive, PTL DEF IndInv

\* A port never has two references to one buffer.
THEOREM ReferencesUnique == Spec => []OneReferencePerPort
BY Inductive, PTL DEF IndInv

\* refcount_mem is always the exact number of ports that hold the buffer, so it
\* neither wraps nor frees a buffer early or never.
THEOREM ReferencesCounted == Spec => []RefcountExact
BY Inductive, PTL DEF IndInv

\* No buffer is ever lost, freed twice, or allocated while it is in use.
THEOREM BuffersAccounted == Spec => []BufferAccounting
BY Inductive, PTL DEF IndInv

\* The linked lists always thread exactly the enqueued frames, in order.
THEOREM ListsThreaded == Spec => []ListsSound
BY Inductive, PTL DEF IndInv

\* Once flush_busy_o has fallen for a port whose link is down, nothing is queued to it.
THEOREM FlushDrains == Spec => []DownMeansDrained
<1>1. Init => DownMeansDrained
  BY DEF Init, QueueInit, DownMeansDrained
<1>2. IndInv /\ DownMeansDrained /\ [Next]_vars => DownMeansDrained'
  BY DrainedStep
<1>3. QED
  BY <1>1, <1>2, Inductive, PTL DEF Spec

-----------------------------------------------------------------------------
(* The abstract pool *)

\* The FSMs, linked lists and reference counts implement the abstract pool: per-port
\* FIFO order, each destination exactly once, each buffer freed with its last
\* reference.
THEOREM ImplementsPool == Spec => PoolSpec
<1>1. Init => Pool!Init
  BY PoolInit
<1>2. IndInv /\ IndInv' /\ [Next]_vars => [Pool!Next]_(Pool!poolVars)
  BY Zenon, PoolStep, CountingHolds
<1>3. QED
  BY <1>1, <1>2, Inductive, PTL DEF Spec, PoolSpec, Pool!Spec
=============================================================================
