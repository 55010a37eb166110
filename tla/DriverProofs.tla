--------------------------- MODULE DriverProofs -----------------------------
(***************************************************************************)
(* Two drivers: the rings of the fabric DMA, and the I2C bus with the      *)
(* sensors and the card reader on it.                                      *)
(***************************************************************************)
EXTENDS FabricDma, SensorBus, FiniteSetTheorems, TLAPS

(***************************************************************************)
(* The fabric DMA, for any number of senders, ports and descriptors, any   *)
(* tag FIFO depth and any load.  DmaInv is inductive where a frame fills   *)
(* one descriptor, as every frame the fabric forwards does; without that,  *)
(* the transmit half still is (TxInv).                                     *)
(***************************************************************************)

SenderStates == {"idle", "lock", "fill", "kick", "wait", "look", "end"}
IntTypes ==
    /\ failed \in BOOLEAN /\ irqOn \in BOOLEAN /\ txDone \in BOOLEAN /\ notified \in BOOLEAN
    /\ irq \in [Channels -> SUBSET {"ioc", "err"}]
    /\ isr \in {None} \union [ch : Channels, seen : SUBSET {"ioc", "err"}]
BdType == [status : {"clear", "done", "error"}, frame : {None} \union Frames]
SndType == [pc : SenderStates, n : Nat, ok : BOOLEAN]
TxTypes ==
    /\ load \in Loads /\ early \in 0..load.early
    /\ txBd \in [0..1 -> BdType] /\ txIndex \in 0..1 /\ lock \in Senders \union {None}
    /\ hwTx \in [owns : {None, 0, 1}, tail : {None, 0, 1}, halted : BOOLEAN]
    /\ snd \in [Senders -> SndType]
    /\ sent \subseteq Frames /\ wire \in Seq(Frames)
RxTypes ==
    /\ rxBd \in [Rx -> [done : BOOLEAN, port : Ports \union {None}, good : BOOLEAN]]
    /\ rxIndex \in Rx /\ hwRx \in [cur : Rx, left : 0..RxCount, halted : BOOLEAN]
    /\ svc \in [pc : {"wait", "drain", "recv", "copy", "tail", "fault", "again"}, drain : BOOLEAN,
                j : 0..DrainMax, tag : Ports \union {None}, reported : BOOLEAN]
    /\ pipe \in Seq([port : Ports, whole : BOOLEAN])
    /\ tags \in Seq(Ports) /\ Len(tags) <= TagDepth

\* What is said of the two directions.
TxInv == IntTypes /\ TxTypes /\ TxOwnership /\ WireExact /\ WaitHasWaker
RxInv == RxTypes /\ RingOwnership /\ TagsInStep /\ TagLockstep

\* The parts of the type invariant.
LEMMA TypeParts == TypeOK <=> IntTypes /\ TxTypes /\ RxTypes
BY Zenon DEF TypeOK, IntTypes, TxTypes, RxTypes, BdType, SndType, SenderStates

\* The parts of the invariant.
LEMMA DmaParts == DmaInv <=> TxInv /\ RxInv
BY Zenon, TypeParts DEF DmaInv, TxInv, RxInv

\* The sizes are positive.
LEMMA Sizes ==
  /\ RxCount \in Nat /\ RxCount >= 1 /\ DrainMax \in Nat /\ DrainMax >= 1
  /\ TagDepth \in Nat /\ TagDepth >= 1 /\ MaxDescs \in Nat /\ MaxDescs >= 1
BY DmaAssumption

\* None is no sender, port, descriptor or handler.
LEMMA NoneApart ==
  /\ None \notin Senders /\ None \notin Ports /\ None # 0 /\ None # 1
  /\ \A c \in Channels, seen \in SUBSET {"ioc", "err"} : [ch |-> c, seen |-> seen] # None
<1>1. None \notin Senders /\ None \notin Ports /\ None \notin 0..1
  BY Zenon, DmaAssumption
<1>2. None \notin [ch : Channels, seen : SUBSET {"ioc", "err"}]
  BY Zenon, DmaAssumption DEF Channels
<1>3. \A c \in Channels, seen \in SUBSET {"ioc", "err"} :
        [ch |-> c, seen |-> seen] \in [ch : Channels, seen : SUBSET {"ioc", "err"}]
  BY Zenon
<1>4. None # 0 /\ None # 1
  BY <1>1
<1> QED  BY <1>1, <1>2, <1>3, <1>4

\* A load's sends and premature interrupts are numbers.
LEMMA LoadNumbers ==
  ASSUME load \in Loads
  PROVE  load.sends \in [Senders -> Nat] /\ load.early \in Nat /\ load.ports \subseteq Ports
BY Zenon, DmaAssumption

\* The frames of a load.
LEMMA FrameOf ==
  ASSUME NEW t \in Senders, NEW m PROVE <<t, m>> \in Frames <=> m \in 1..load.sends[t]
BY DEF Frames

\* A frame is of some sender.
LEMMA FrameShape ==
  ASSUME NEW f \in Frames PROVE \E t \in Senders : \E m \in 1..load.sends[t] : f = <<t, m>>
BY DEF Frames

(***************************************************************************)
(* Interrupt state.                                                        *)
(***************************************************************************)
\* Every step keeps the interrupt state's types.
LEMMA IntKept == ASSUME IntTypes, [Next]_vars PROVE IntTypes'
<1>1. CASE UNCHANGED intVars
  BY Zenon, <1>1 DEF IntTypes, intVars
<1>2. ASSUME NEW c \in Channels, IsrRead(c) PROVE IntTypes'
  BY Zenon, <1>2 DEF IsrRead, IntTypes
<1>3. CASE IsrServe
  BY Zenon, <1>3 DEF IsrServe, IntTypes
<1>4. CASE /\ UNCHANGED <<failed, irqOn, isr, txDone, notified>>
           /\ \E c \in Channels, b \in {"ioc", "err"} : irq' = [irq EXCEPT ![c] = @ \union {b}]
  BY <1>4 DEF IntTypes
<1>5. ASSUME NEW t \in Senders, SendKick(t) \/ SendWake(t) \/ SendEnd(t) PROVE IntTypes'
  BY Zenon, <1>5 DEF SendKick, SendWake, SendEnd, IntTypes
<1>6. CASE SvcWake
  BY Zenon, <1>6 DEF SvcWake, IntTypes
<1>7. "tx" \in Channels /\ "rx" \in Channels
  BY Zenon DEF Channels
<1> QED
  BY Zenon, <1>1, <1>2, <1>3, <1>4, <1>5, <1>6, <1>7
  DEF Next, vars, HwDequeue, HwReceive, HwTransmit, HwEarlyIrq, HwError, Send, SendStart, SendLock,
      SendFill, SendTimeout, SendLook, Service, SvcDrain, SvcReceive, SvcCopy, SvcTail, SvcFault, SvcAgain

(***************************************************************************)
(* Transmission.                                                           *)
(***************************************************************************)
\* A step that leaves the transmit side alone: the engine may halt and the
\* driver may fail, nothing else.
TxQuiet ==
    /\ UNCHANGED <<txBd, txIndex, snd, lock, wire, sent, load>>
    /\ hwTx'.owns = hwTx.owns /\ hwTx'.tail = hwTx.tail
    /\ hwTx' = hwTx \/ hwTx' = [hwTx EXCEPT !.halted = TRUE]
    /\ failed => failed'

\* Every step is a sender's, the engine's, or quiet.
LEMMA TxCases ==
  ASSUME TxInv, [Next]_vars
  PROVE  TxQuiet \/ (\E t \in Senders : Send(t)) \/ \E status \in {"done", "error"} : HwTransmit(status)
<1>1. hwTx = [owns |-> hwTx.owns, tail |-> hwTx.tail, halted |-> hwTx.halted]
  BY Zenon DEF TxInv, TxTypes
<1>2. ASSUME NEW c \in Channels, HwError(c) PROVE TxQuiet
  BY Zenon, <1>1, <1>2 DEF HwError, TxQuiet
<1>3. CASE UNCHANGED <<txBd, txIndex, hwTx, snd, lock, wire, sent, load>> /\ (failed => failed')
  BY Zenon, <1>3 DEF TxQuiet
<1>4. CASE IsrServe
  BY Zenon, <1>3, <1>4 DEF IsrServe, txVars
<1>5. CASE UNCHANGED vars
  BY Zenon, <1>3, <1>5 DEF vars, intVars, txVars
<1>6. ASSUME NEW p, NEW n, HwDequeue(p, n) PROVE TxQuiet
  <2>1. UNCHANGED <<txVars, failed>>
    BY Zenon, <1>6 DEF HwDequeue, intVars
  <2>2. UNCHANGED <<txBd, txIndex, hwTx, snd, lock, wire, sent, load>> /\ failed' = failed
    BY Zenon, <2>1 DEF txVars
  <2> QED  BY Zenon, <2>2 DEF TxQuiet
<1>7. ASSUME NEW good, HwReceive(good) PROVE TxQuiet
  <2>1. UNCHANGED <<txVars, failed>>
    BY Zenon, <1>7 DEF HwReceive, intVars
  <2>2. UNCHANGED <<txBd, txIndex, hwTx, snd, lock, wire, sent, load>> /\ failed' = failed
    BY Zenon, <2>1 DEF txVars
  <2> QED  BY Zenon, <2>2 DEF TxQuiet
<1>8. CASE HwEarlyIrq
  BY Zenon, <1>3, <1>8 DEF HwEarlyIrq
<1>9. ASSUME NEW c, IsrRead(c) PROVE TxQuiet
  <2>1. UNCHANGED <<txVars, failed>>
    BY Zenon, <1>9 DEF IsrRead, intVars
  <2>2. UNCHANGED <<txBd, txIndex, hwTx, snd, lock, wire, sent, load>> /\ failed' = failed
    BY Zenon, <2>1 DEF txVars
  <2> QED  BY Zenon, <2>2 DEF TxQuiet
<1>10. CASE Service
  BY Zenon, <1>3, <1>10 DEF Service, SvcWake, SvcDrain, SvcReceive, SvcCopy, SvcTail, SvcFault,
     SvcAgain, intVars, txVars
<1> QED  BY Zenon, <1>2, <1>4, <1>5, <1>6, <1>7, <1>8, <1>9, <1>10 DEF Next

\* A step that leaves the transmit side alone keeps what is said of it.
LEMMA QuietKeeps ==
  ASSUME TxInv, TxQuiet PROVE TxOwnership' /\ WireExact'
<1>1. TxOwnership'
  BY ZenonT(30) DEF TxInv, TxQuiet, TxOwnership, EngineFree, Frame, healthy
<1>2. Given' = Given /\ Frames' = Frames
  BY Zenon DEF TxQuiet, Given, Frames
<1>3. WireExact'
  BY ZenonT(30), <1>2 DEF TxInv, TxQuiet, WireExact, Frame, Fresh
<1> QED  BY Zenon, <1>1, <1>3

\* The engine finishes the descriptor it was given.
LEMMA TransmitKeeps ==
  ASSUME TxInv, NEW status \in {"done", "error"}, HwTransmit(status)
  PROVE  TxTypes' /\ TxOwnership' /\ WireExact'
<1> DEFINE i == hwTx.owns
          f == txBd[i].frame
<1>1. /\ i \in 0..1 /\ hwTx = [owns |-> i, tail |-> hwTx.tail, halted |-> hwTx.halted]
      /\ txBd \in [0..1 -> BdType] /\ txIndex \in 0..1 /\ wire \in Seq(Frames)
      /\ UNCHANGED <<failed, txIndex, snd, lock, sent, early, load>>
  BY DEF HwTransmit, TxInv, TxTypes
<1>2. /\ f \in Frames /\ \A k \in DOMAIN wire : wire[k] # f
  BY Zenon, <1>1, NoneApart DEF HwTransmit, TxInv, WireExact
<1>3. txBd[i] = [status |-> txBd[i].status, frame |-> f]
  BY Zenon, <1>1 DEF BdType
<1>4. /\ hwTx' = [owns |-> None, tail |-> hwTx.tail, halted |-> hwTx.halted]
      /\ txBd' = [txBd EXCEPT ![i] = [status |-> status, frame |-> f]]
      /\ wire' = IF status = "done" THEN Append(wire, f) ELSE wire
  <2>1. /\ hwTx' = [hwTx EXCEPT !.owns = None] /\ txBd' = [txBd EXCEPT ![i] = [txBd[i] EXCEPT !.status = status]]
        /\ wire' = IF status = "done" THEN Append(wire, f) ELSE wire
    BY Zenon DEF HwTransmit
  <2>2. [txBd[i] EXCEPT !.status = status] = [status |-> status, frame |-> f]
    BY <1>3
  <2>3. hwTx' = [owns |-> None, tail |-> hwTx.tail, halted |-> hwTx.halted]
    BY Zenon, <1>1, <2>1
  <2> QED  BY Zenon, <2>1, <2>2, <2>3
<1>5. Frames' = Frames
  BY Zenon, <1>1 DEF Frames
<1>6. TxTypes'
  <2>1. [status |-> status, frame |-> f] \in BdType
    BY Zenon, <1>2 DEF BdType
  <2>2. txBd' \in [0..1 -> BdType] /\ BdType' = BdType
    BY Zenon, <1>1, <1>4, <1>5, <2>1 DEF BdType
  <2>3. wire' \in Seq(Frames)
    BY <1>1, <1>2, <1>4
  <2>4. hwTx' \in [owns : {None, 0, 1}, tail : {None, 0, 1}, halted : BOOLEAN]
    BY Zenon, <1>4 DEF TxInv, TxTypes
  <2> QED  BY Zenon, <1>1, <1>5, <2>2, <2>3, <2>4 DEF TxInv, TxTypes
<1>7. /\ txBd'[i].status = status /\ txBd'[i].frame = f
      /\ \A j \in 0..1 : txBd'[j].frame = txBd[j].frame /\ (j # i => txBd'[j].status = txBd[j].status)
  BY Zenon, <1>1, <1>3, <1>4
<1>8. TxOwnership'
  <2>1. lock # None \/ failed
    BY <1>1, NoneApart DEF TxInv, TxOwnership, EngineFree, healthy
  <2> SUFFICES ASSUME NEW t \in Senders
               PROVE  LET st == snd[t]
                          bd == txBd'[txIndex] IN
                      /\ st.pc # "kick" /\ ~(st.pc = "fill" /\ healthy) /\ ~(st.pc = "end" /\ st.ok)
                      /\ st.pc \in {"wait", "look"} => /\ bd.frame = Frame(t) /\ hwTx'.tail = txIndex
                                                       /\ hwTx'.owns = IF bd.status = "clear" THEN txIndex ELSE None
    BY ZenonT(30), <1>1, <2>1 DEF TxInv, TxOwnership, EngineFree, Frame, healthy
  <2>2. ~EngineFree
    BY <1>1, NoneApart DEF EngineFree
  <2>3. snd[t].pc # "kick" /\ ~(snd[t].pc = "fill" /\ healthy) /\ ~(snd[t].pc = "end" /\ snd[t].ok)
    BY Zenon, <2>2 DEF TxInv, TxOwnership
  <2>4. ASSUME snd[t].pc \in {"wait", "look"}
        PROVE  txBd[txIndex].frame = Frame(t) /\ hwTx.tail = txIndex /\ i = txIndex
    BY <1>1, <2>4, NoneApart DEF TxInv, TxOwnership
  <2> QED  BY Zenon, <1>1, <1>4, <1>7, <2>3, <2>4
<1>9. WireExact'
  <2>1. /\ \A k \in DOMAIN wire : k \in DOMAIN wire' /\ wire'[k] = wire[k]
        /\ \A k \in DOMAIN wire' : k \in DOMAIN wire \/ (k = Len(wire) + 1 /\ wire'[k] = f)
        /\ status = "done" => \E k \in DOMAIN wire' : wire'[k] = f
    BY <1>1, <1>4
  <2>2. \A j, k \in DOMAIN wire' : wire'[j] = wire'[k] => j = k
    BY ZenonT(30), <1>2, <2>1 DEF TxInv, WireExact
  <2>3. hwTx'.owns = None
    BY Zenon, <1>4
  <2>4. Given' \subseteq Given
    BY <1>1, <2>1, <2>3, NoneApart DEF Given
  <2>5. \A t \in Senders : \A m \in 1..load.sends[t] :
          <<t, m>> \in Given' => m <= snd[t].n /\ (Fresh(t) => m # snd[t].n)
    BY Zenon, <2>4 DEF TxInv, WireExact
  <2>6. ASSUME NEW t \in Senders, snd[t].pc \in {"wait", "look"}, txBd'[txIndex].status = "done"
        PROVE  \E k \in DOMAIN wire' : wire'[k] = Frame(t)
    <3>1. i = txIndex /\ f = Frame(t)
      BY <1>1, <2>6, NoneApart DEF TxInv, TxOwnership
    <3> QED  BY Zenon, <1>7, <2>1, <2>6, <3>1
  <2>7. \A g \in sent : \E k \in DOMAIN wire' : wire'[k] = g
    BY <2>1 DEF TxInv, WireExact
  <2> QED  BY Zenon, <1>1, <2>2, <2>3, <2>5, <2>6, <2>7 DEF WireExact, Fresh, Frame
<1> QED  BY Zenon, <1>6, <1>8, <1>9

\* What the invariant says of one sender.
LEMMA SenderFacts ==
  ASSUME TxInv, NEW t \in Senders
  PROVE  /\ snd[t] \in SndType /\ snd[t] = [pc |-> snd[t].pc, n |-> snd[t].n, ok |-> snd[t].ok]
         /\ snd[t].pc # "idle" => Frame(t) \in Frames
         /\ snd[t].n \in Nat /\ load.sends[t] \in Nat
<1>1. snd[t] \in SndType
  BY Zenon DEF TxInv, TxTypes
<1>2. load.sends[t] \in Nat
  BY Zenon, LoadNumbers DEF TxInv, TxTypes
<1>3. snd[t].n \in Nat /\ snd[t].n <= load.sends[t] /\ (snd[t].pc # "idle" => snd[t].n > 0)
  BY Zenon, <1>1 DEF TxInv, TxOwnership, SndType
<1>4. snd[t].pc # "idle" => snd[t].n \in 1..load.sends[t]
  BY <1>2, <1>3
<1> QED  BY Zenon, <1>1, <1>2, <1>3, <1>4, FrameOf DEF SndType, Frame

\* A send begins, or is refused.
LEMMA StartKeeps ==
  ASSUME TxInv, NEW t \in Senders, SendStart(t)
  PROVE  TxTypes' /\ TxOwnership' /\ WireExact'
<1> DEFINE st == [pc |-> IF healthy THEN "lock" ELSE "idle", n |-> snd[t].n + 1, ok |-> FALSE]
<1>1. /\ snd[t].pc = "idle" /\ snd[t].n < load.sends[t] /\ snd' = [snd EXCEPT ![t] = st]
      /\ UNCHANGED <<failed, txBd, txIndex, hwTx, lock, wire, sent, early, load>>
  BY Zenon DEF SendStart, intVars
<1>2. snd \in [Senders -> SndType] /\ snd[t].n \in Nat /\ load.sends[t] \in Nat
  BY Zenon, SenderFacts DEF TxInv, TxTypes
<1>3. Frames' = Frames /\ Given' = Given /\ BdType' = BdType
  BY Zenon, <1>1 DEF Frames, Given, BdType
<1>4. snd'[t] = st /\ \A u \in Senders \ {t} : snd'[u] = snd[u]
  BY Zenon, <1>1, <1>2
<1>5. TxTypes'
  <2>1. st \in SndType
    BY <1>2 DEF SndType, SenderStates
  <2>2. snd' \in [Senders -> SndType]
    BY Zenon, <1>1, <1>2, <2>1
  <2> QED  BY Zenon, <1>1, <1>3, <2>2 DEF TxInv, TxTypes
<1>6. TxOwnership'
  BY <1>1, <1>2, <1>4 DEF TxInv, TxOwnership, EngineFree, Frame, healthy
<1>7. WireExact'
  BY <1>1, <1>2, <1>3, <1>4 DEF TxInv, WireExact, Frame, Fresh
<1> QED  BY Zenon, <1>5, <1>6, <1>7

\* Moving a sender on changes nothing else of it.
LEMMA GotoFacts ==
  ASSUME TxInv, NEW t \in Senders, NEW pc \in SenderStates, Goto(t, pc)
  PROVE  /\ snd' \in [Senders -> SndType]
         /\ snd'[t].pc = pc /\ snd'[t].n = snd[t].n /\ snd'[t].ok = snd[t].ok
         /\ \A u \in Senders \ {t} : snd'[u] = snd[u]
         /\ \A u \in Senders : snd'[u].n = snd[u].n
<1> DEFINE st == [pc |-> pc, n |-> snd[t].n, ok |-> snd[t].ok]
<1>1. snd[t] = [pc |-> snd[t].pc, n |-> snd[t].n, ok |-> snd[t].ok] /\ snd[t] \in SndType
  BY Zenon, SenderFacts
<1>2. snd' = [snd EXCEPT ![t] = [snd[t] EXCEPT !.pc = pc]]
  BY Zenon DEF Goto
<1>3. [snd[t] EXCEPT !.pc = pc] = st
  BY <1>1
<1>4. st \in SndType
  BY Zenon, <1>1 DEF SndType
<1>5. snd \in [Senders -> SndType] /\ snd' = [snd EXCEPT ![t] = st]
  BY Zenon, <1>2, <1>3 DEF TxInv, TxTypes
<1>6. snd' \in [Senders -> SndType] /\ snd'[t] = st /\ \A u \in Senders \ {t} : snd'[u] = snd[u]
  BY Zenon, <1>4, <1>5
<1> QED  BY <1>6

\* A sender takes the mutex.
LEMMA LockKeeps ==
  ASSUME TxInv, NEW t \in Senders, SendLock(t)
  PROVE  TxTypes' /\ TxOwnership' /\ WireExact'
<1>1. /\ snd[t].pc = "lock" /\ lock = None /\ lock' = t /\ Goto(t, "fill")
      /\ UNCHANGED <<failed, txBd, txIndex, hwTx, wire, sent, early, load>>
  BY Zenon DEF SendLock, intVars
<1>2. /\ snd' \in [Senders -> SndType]
      /\ snd'[t].pc = "fill" /\ snd'[t].n = snd[t].n /\ snd'[t].ok = snd[t].ok
      /\ \A u \in Senders \ {t} : snd'[u] = snd[u]
      /\ \A u \in Senders : snd'[u].n = snd[u].n
  BY Zenon, <1>1, GotoFacts DEF SenderStates
<1>3. Frames' = Frames /\ Given' = Given /\ BdType' = BdType
  BY ZenonT(30), <1>1 DEF Frames, Given, BdType
<1>4. TxTypes'
  BY Zenon, <1>1, <1>2, <1>3 DEF TxInv, TxTypes
<1>5. TxOwnership'
  BY <1>1, <1>2, NoneApart DEF TxInv, TxOwnership, EngineFree, Frame, healthy
<1>6. WireExact'
  BY <1>1, <1>2, <1>3 DEF TxInv, WireExact, Frame, Fresh
<1> QED  BY Zenon, <1>4, <1>5, <1>6

\* A sender that waits takes the semaphore, or gives up after the timeout.
LEMMA LeaveKeeps ==
  ASSUME TxInv, NEW t \in Senders, SendWake(t) \/ SendTimeout(t)
  PROVE  TxTypes' /\ TxOwnership' /\ WireExact'
<1> PICK pc \in {"look", "end"} : Goto(t, pc)
  BY Zenon DEF SendWake, SendTimeout
<1>1. /\ snd[t].pc = "wait"
      /\ UNCHANGED <<failed, txBd, txIndex, hwTx, lock, wire, sent, early, load>>
  BY Zenon DEF SendWake, SendTimeout, intVars
<1>2. /\ snd' \in [Senders -> SndType]
      /\ snd'[t].pc = pc /\ snd'[t].n = snd[t].n /\ snd'[t].ok = snd[t].ok
      /\ \A u \in Senders \ {t} : snd'[u] = snd[u]
      /\ \A u \in Senders : snd'[u].n = snd[u].n
  BY Zenon, <1>1, GotoFacts DEF SenderStates
<1>3. Frames' = Frames /\ Given' = Given /\ BdType' = BdType
  BY Zenon, <1>1 DEF Frames, Given, BdType
<1>4. TxTypes'
  BY Zenon, <1>1, <1>2, <1>3 DEF TxInv, TxTypes
<1>5. TxOwnership'
  BY <1>1, <1>2, NoneApart DEF TxInv, TxOwnership, EngineFree, Frame, healthy
<1>6. WireExact'
  BY <1>1, <1>2, <1>3 DEF TxInv, WireExact, Frame, Fresh
<1> QED  BY Zenon, <1>4, <1>5, <1>6

\* A sender unlocks; one that did not succeed has failed the driver.
LEMMA EndKeeps ==
  ASSUME TxInv, NEW t \in Senders, SendEnd(t)
  PROVE  TxTypes' /\ TxOwnership' /\ WireExact'
<1>1. /\ snd[t].pc = "end" /\ lock' = None /\ Goto(t, "idle")
      /\ failed' = (failed \/ ~snd[t].ok)
      /\ UNCHANGED <<txBd, txIndex, hwTx, wire, sent, early, load>>
  BY Zenon DEF SendEnd
<1>2. /\ snd' \in [Senders -> SndType]
      /\ snd'[t].pc = "idle" /\ snd'[t].n = snd[t].n /\ snd'[t].ok = snd[t].ok
      /\ \A u \in Senders \ {t} : snd'[u] = snd[u]
      /\ \A u \in Senders : snd'[u].n = snd[u].n
  BY Zenon, <1>1, GotoFacts DEF SenderStates
<1>3. Frames' = Frames /\ Given' = Given /\ BdType' = BdType
  BY ZenonT(30), <1>1 DEF Frames, Given, BdType
<1>4. TxTypes'
  BY Zenon, <1>1, <1>2, <1>3 DEF TxInv, TxTypes
<1>5. TxOwnership'
  <2>1. lock = t /\ \A u \in Senders \ {t} : snd[u].pc \in {"idle", "lock"}
    BY ZenonT(30), <1>1 DEF TxInv, TxOwnership, TxTypes, SndType, SenderStates
  <2>2. ~failed' => EngineFree
    BY Zenon, <1>1 DEF TxInv, TxOwnership
  <2> QED  BY <1>1, <1>2, <2>1, <2>2, NoneApart DEF TxInv, TxOwnership, EngineFree, Frame, healthy
<1>6. WireExact'
  BY <1>1, <1>2, <1>3 DEF TxInv, WireExact, Frame, Fresh
<1> QED  BY Zenon, <1>4, <1>5, <1>6

\* A sender fills the free descriptor, unless the driver failed meanwhile.
LEMMA FillKeeps ==
  ASSUME TxInv, NEW t \in Senders, SendFill(t)
  PROVE  TxTypes' /\ TxOwnership' /\ WireExact'
<1> DEFINE bd == [status |-> "clear", frame |-> Frame(t)]
           to == IF healthy THEN "kick" ELSE "idle"
<1>1. /\ snd[t].pc = "fill" /\ Goto(t, to)
      /\ IF healthy THEN txBd' = [txBd EXCEPT ![txIndex] = bd] /\ lock' = lock
         ELSE lock' = None /\ txBd' = txBd
      /\ UNCHANGED <<failed, txIndex, hwTx, wire, sent, early, load>>
  BY Zenon DEF SendFill, Fill, intVars, Frame
<1>2. /\ snd' \in [Senders -> SndType]
      /\ snd'[t].pc = to /\ snd'[t].n = snd[t].n /\ snd'[t].ok = snd[t].ok
      /\ \A u \in Senders \ {t} : snd'[u] = snd[u]
      /\ \A u \in Senders : snd'[u].n = snd[u].n
  BY Zenon, <1>1, GotoFacts DEF SenderStates
<1>3. Frames' = Frames /\ BdType' = BdType
  BY Zenon, <1>1 DEF Frames, BdType
<1>4. Frame(t) \in Frames /\ txIndex \in 0..1 /\ txBd \in [0..1 -> BdType] /\ bd \in BdType
  BY Zenon, <1>1, SenderFacts DEF BdType, TxInv, TxTypes
<1>5. TxTypes'
  <2>1. txBd' \in [0..1 -> BdType]
    BY Zenon, <1>1, <1>4
  <2> QED  BY Zenon, <1>1, <1>2, <1>3, <2>1 DEF TxInv, TxTypes
<1>6. healthy => EngineFree
  BY Zenon, <1>1 DEF TxInv, TxOwnership
<1>7. healthy => txBd'[txIndex].status = "clear" /\ txBd'[txIndex].frame = Frame(t)
  BY <1>1, <1>4
<1>8. lock = t /\ \A u \in Senders \ {t} : snd[u].pc \in {"idle", "lock"}
  BY Zenon, <1>1 DEF TxInv, TxOwnership, TxTypes, SndType, SenderStates
<1>9. TxOwnership'
  <2>1. snd'[t].pc \in {"kick", "idle"} /\ (snd'[t].pc = "kick" <=> healthy)
    BY Zenon, <1>2
  <2>2. \A u \in Senders \ {t} : snd'[u].pc \in {"idle", "lock"}
    BY Zenon, <1>2, <1>8
  <2>3. EngineFree' <=> EngineFree
    BY Zenon, <1>1 DEF EngineFree
  <2>4. healthy' <=> healthy
    BY Zenon, <1>1 DEF healthy
  <2> HIDE DEF to, bd
  <2>5. lock' = IF healthy THEN t ELSE None
    BY Zenon, <1>1, <1>8
  <2>6. \A u \in Senders : /\ snd'[u].n <= load'.sends[u] /\ (snd'[u].pc # "idle" => snd'[u].n > 0)
                           /\ snd'[u].pc \in {"lock", "fill", "kick", "wait"} => ~snd'[u].ok
    BY Zenon, <1>1, <1>2, <2>1 DEF TxInv, TxOwnership
  <2>7. (lock' = None /\ healthy') => EngineFree'
    BY Zenon, <1>6, <2>3, <2>4, <2>5, NoneApart
  <2>8. \A u \in Senders : lock' = u <=> snd'[u].pc \in {"fill", "kick", "wait", "look", "end"}
    BY Zenon, <2>1, <2>2, <2>5, NoneApart
  <2>9. \A u \in Senders : /\ snd'[u].pc \notin {"fill", "wait", "look", "end"}
                           /\ snd'[u].pc = "kick" => EngineFree'
    BY Zenon, <1>6, <2>1, <2>2, <2>3
  <2>10. \A u \in Senders : snd'[u].pc = "kick" => txBd'[txIndex'].status = "clear" /\ txBd'[txIndex'].frame = Frame(u)'
    BY Zenon, <1>1, <1>2, <1>7, <2>1, <2>2 DEF Frame
  <2> QED  BY Zenon, <2>6, <2>7, <2>8, <2>9, <2>10 DEF TxOwnership
<1>10. WireExact'
  <2>1. Given' = Given /\ (hwTx'.owns # None => txBd' = txBd)
    BY Zenon, <1>1, <1>6 DEF Given, EngineFree
  <2> QED  BY <1>1, <1>2, <1>3, <1>8, <2>1 DEF TxInv, WireExact, Frame, Fresh
<1> QED  BY Zenon, <1>5, <1>9, <1>10

\* The tail write gives the filled descriptor to the engine.
LEMMA KickKeeps ==
  ASSUME TxInv, NEW t \in Senders, SendKick(t)
  PROVE  TxTypes' /\ TxOwnership' /\ WireExact' /\ hwTx'.owns = txIndex'
<1>1. /\ snd[t].pc = "kick" /\ Goto(t, "wait")
      /\ hwTx' = [hwTx EXCEPT !.tail = txIndex, !.owns = IF hwTx.tail = txIndex THEN @ ELSE txIndex]
      /\ UNCHANGED <<failed, txBd, txIndex, lock, wire, sent, early, load>>
  BY Zenon DEF SendKick
<1>2. /\ snd' \in [Senders -> SndType]
      /\ snd'[t].pc = "wait" /\ snd'[t].n = snd[t].n /\ snd'[t].ok = snd[t].ok
      /\ \A u \in Senders \ {t} : snd'[u] = snd[u]
      /\ \A u \in Senders : snd'[u].n = snd[u].n
  BY Zenon, <1>1, GotoFacts DEF SenderStates
<1>3. Frames' = Frames /\ BdType' = BdType
  BY Zenon, <1>1 DEF Frames, BdType
<1>4. EngineFree /\ txIndex \in 0..1 /\ txBd[txIndex].status = "clear" /\ txBd[txIndex].frame = Frame(t)
  BY Zenon, <1>1 DEF TxInv, TxOwnership, TxTypes
<1>5. /\ hwTx'.owns = txIndex /\ hwTx'.tail = txIndex
      /\ hwTx' \in [owns : {None, 0, 1}, tail : {None, 0, 1}, halted : BOOLEAN]
  <2>1. hwTx \in [owns : {None, 0, 1}, tail : {None, 0, 1}, halted : BOOLEAN]
    BY Zenon DEF TxInv, TxTypes
  <2>2. hwTx' = [owns |-> txIndex, tail |-> txIndex, halted |-> hwTx.halted]
    BY Zenon, <1>1, <1>4, <2>1 DEF EngineFree
  <2> QED  BY <1>4, <2>1, <2>2
<1>6. TxTypes'
  BY Zenon, <1>1, <1>2, <1>3, <1>5 DEF TxInv, TxTypes
<1>7. lock = t /\ \A u \in Senders \ {t} : snd[u].pc \in {"idle", "lock"}
  BY Zenon, <1>1 DEF TxInv, TxOwnership, TxTypes, SndType, SenderStates
<1>8. TxOwnership'
  BY <1>1, <1>2, <1>4, <1>5, <1>7, NoneApart DEF TxInv, TxOwnership, EngineFree, Frame, healthy
<1>9. WireExact'
  <2>1. Frame(t) \in Frames /\ snd[t].n \in 1..load.sends[t]
    BY Zenon, <1>1, SenderFacts, FrameOf DEF Frame
  <2>2. Given = {wire[k] : k \in DOMAIN wire} /\ Given' = Given \union {Frame(t)}
    BY <1>1, <1>4, <1>5, NoneApart DEF Given, EngineFree
  <2>3. Frame(t) \notin Given
    BY Zenon, <1>1, <2>1 DEF TxInv, WireExact, Frame, Fresh
  <2>4. \A k \in DOMAIN wire' : wire'[k] # Frame(t)
    BY Zenon, <1>1, <2>2, <2>3
  <2>5. ASSUME NEW u \in Senders, NEW m \in 1..load.sends[u], <<u, m>> \in Given'
        PROVE  m <= snd'[u].n /\ (snd'[u].pc \in {"lock", "fill", "kick"} => m # snd'[u].n)
    <3>1. CASE <<u, m>> \in Given
      <4>1. m <= snd[u].n /\ (snd[u].pc \in {"lock", "fill", "kick"} => m # snd[u].n)
        BY Zenon, <3>1 DEF TxInv, WireExact, Fresh
      <4> QED  BY Zenon, <1>2, <4>1
    <3>2. CASE <<u, m>> = Frame(t)
      BY <1>2, <2>1, <3>2 DEF Frame
    <3> QED  BY Zenon, <2>2, <2>5, <3>1, <3>2
  <2> QED
    BY <1>1, <1>2, <1>3, <1>4, <1>5, <1>7, <2>1, <2>4, <2>5 DEF TxInv, WireExact, Frame, Fresh
<1> QED  BY Zenon, <1>1, <1>5, <1>6, <1>8, <1>9

\* A sender looks at the descriptor: it waits again, succeeds or fails.
LEMMA LookKeeps ==
  ASSUME TxInv, NEW t \in Senders, SendLook(t)
  PROVE  TxTypes' /\ TxOwnership' /\ WireExact'
<1> DEFINE status == txBd[txIndex].status
           ok == healthy /\ status = "done"
           pc == IF healthy /\ status = "clear" THEN "wait" ELSE "end"
           st == [pc |-> pc, n |-> snd[t].n, ok |-> ok]
<1>1. /\ snd[t].pc = "look" /\ snd' = [snd EXCEPT ![t].pc = pc, ![t].ok = ok]
      /\ txIndex' = IF ok THEN (txIndex + 1) % 2 ELSE txIndex
      /\ sent' = IF ok THEN sent \union {Frame(t)} ELSE sent
      /\ UNCHANGED <<failed, txBd, hwTx, lock, wire, early, load>>
  BY Zenon DEF SendLook, intVars, Frame
<1>2. snd[t] = [pc |-> snd[t].pc, n |-> snd[t].n, ok |-> snd[t].ok] /\ snd[t] \in SndType
  BY Zenon, SenderFacts
<1>3. snd \in [Senders -> SndType] /\ txIndex \in 0..1 /\ failed \in BOOLEAN /\ ok \in BOOLEAN
  BY Zenon DEF TxInv, TxTypes, IntTypes, healthy
<1>4. st \in SndType
  BY Zenon, <1>2, <1>3 DEF SndType, SenderStates
<1>5. snd' = [snd EXCEPT ![t] = st]
  <2> DEFINE mid == [snd EXCEPT ![t] = [snd[t] EXCEPT !.pc = pc]]
  <2>1. snd' = [mid EXCEPT ![t] = [mid[t] EXCEPT !.ok = ok]]
    BY Zenon, <1>1, <1>3
  <2> HIDE DEF ok, pc
  <2>2. mid[t] = [pc |-> pc, n |-> snd[t].n, ok |-> snd[t].ok]
    BY Zenon, <1>2, <1>3
  <2>3. [mid[t] EXCEPT !.ok = ok] = st
    BY <2>2
  <2>4. [mid EXCEPT ![t] = st] = [snd EXCEPT ![t] = st]
    BY Zenon, <1>3
  <2> QED  BY Zenon, <2>1, <2>3, <2>4
<1>6. snd' \in [Senders -> SndType] /\ snd'[t] = st /\ \A u \in Senders \ {t} : snd'[u] = snd[u]
  BY Zenon, <1>3, <1>4, <1>5
<1>7. \A u \in Senders : snd'[u].n = snd[u].n
  BY <1>6
<1>8. Frames' = Frames /\ BdType' = BdType /\ Given' = Given
  BY Zenon, <1>1 DEF Frames, BdType, Given
<1>9. Frame(t) \in Frames
  BY Zenon, <1>1, SenderFacts
<1>10. txIndex' \in 0..1 /\ (ok => txIndex' = 1 - txIndex)
  BY <1>1, <1>3
<1>11. TxTypes'
  <2>1. sent' \subseteq Frames
    BY Zenon, <1>1, <1>9 DEF TxInv, TxTypes
  <2> QED  BY Zenon, <1>1, <1>6, <1>8, <1>10, <2>1 DEF TxInv, TxTypes
<1>12. lock = t /\ \A u \in Senders \ {t} : snd[u].pc \in {"idle", "lock"}
  BY Zenon, <1>1 DEF TxInv, TxOwnership, TxTypes, SndType, SenderStates
<1>13. /\ txBd[txIndex].frame = Frame(t) /\ hwTx.tail = txIndex
       /\ hwTx.owns = IF status = "clear" THEN txIndex ELSE None
  BY Zenon, <1>1 DEF TxInv, TxOwnership
<1>14. ok => (hwTx'.owns = None /\ hwTx'.tail # txIndex')
  BY <1>1, <1>3, <1>10, <1>13
<1>15. TxOwnership'
  <2>1. /\ snd'[t].n = snd[t].n /\ snd'[t].ok = ok
        /\ snd'[t].pc = "wait" => status = "clear" /\ ~ok /\ txIndex' = txIndex
        /\ snd'[t].pc \in {"wait", "end"}
    BY <1>1, <1>6
  <2>2. \A u \in Senders \ {t} : snd'[u].pc \in {"idle", "lock"}
    BY Zenon, <1>6, <1>12
  <2> HIDE DEF ok, status
  <2>3. lock' = t /\ lock' # None
    BY Zenon, <1>1, <1>12, NoneApart
  <2>4. snd'[t].pc = "wait" => /\ txBd'[txIndex'].frame = <<t, snd'[t].n>> /\ hwTx'.tail = txIndex'
                              /\ hwTx'.owns = IF txBd'[txIndex'].status = "clear" THEN txIndex' ELSE None
    BY Zenon, <1>1, <1>13, <2>1 DEF Frame, status
  <2>5. \A u \in Senders : snd'[u].n <= load.sends[u] /\ (snd'[u].pc # "idle" => snd'[u].n > 0)
    BY Zenon, <1>1, <1>6, <1>7 DEF TxInv, TxOwnership
  <2>6. \A u \in Senders : snd'[u].pc \in {"lock", "fill", "kick", "wait"} => ~snd'[u].ok
    BY ZenonT(30), <1>6, <2>1 DEF TxInv, TxOwnership
  <2> QED  BY ZenonT(30), <1>1, <1>14, <2>1, <2>2, <2>3, <2>4, <2>5, <2>6 DEF TxOwnership,
              EngineFree, Frame, healthy
<1>16. WireExact'
  <2>1. ok => \E k \in DOMAIN wire : wire[k] = Frame(t)
    BY Zenon, <1>1 DEF TxInv, WireExact
  <2>2. \A f \in sent' : \E k \in DOMAIN wire' : wire'[k] = f
    BY Zenon, <1>1, <2>1 DEF TxInv, WireExact
  <2>3. \A u \in Senders : snd'[u].pc \in {"wait", "look"} => txBd'[txIndex'].status # "done"
    BY <1>1, <1>6, <1>12
  <2>4. \A u \in Senders : snd'[u].pc \in {"lock", "fill", "kick"} => snd[u].pc \in {"lock", "fill", "kick"}
    BY <1>6
  <2> HIDE DEF ok, status, pc, st
  <2>5. \A u \in Senders : \A m \in 1..load.sends[u] :
          <<u, m>> \in Given => m <= snd'[u].n /\ (snd'[u].pc \in {"lock", "fill", "kick"} => m # snd'[u].n)
    BY Zenon, <1>7, <2>4 DEF TxInv, WireExact, Fresh
  <2>6. wire' = wire /\ hwTx' = hwTx /\ txBd' = txBd /\ load' = load /\ Given' = Given /\ Frames' = Frames
    BY Zenon, <1>1, <1>8
  <2>7. /\ \A j, k \in DOMAIN wire' : wire'[j] = wire'[k] => j = k
        /\ hwTx'.owns # None => /\ txBd'[hwTx'.owns].frame \in Frames'
                                /\ \A k \in DOMAIN wire' : wire'[k] # txBd'[hwTx'.owns].frame
    BY Zenon, <2>6 DEF TxInv, WireExact
  <2>8. \A u \in Senders : \A m \in 1..load'.sends[u] :
          <<u, m>> \in Given' => m <= snd'[u].n /\ (Fresh(u)' => m # snd'[u].n)
    BY Zenon, <2>5, <2>6 DEF Fresh
  <2> QED  BY Zenon, <2>2, <2>3, <2>7, <2>8 DEF WireExact
<1> QED  BY Zenon, <1>11, <1>15, <1>16

(***************************************************************************)
(* The waker.                                                              *)
(***************************************************************************)
\* Nobody waits without a waker after any step.
LEMMA WakerKept ==
  ASSUME TxInv, [Next]_vars, TxTypes', TxOwnership'
  PROVE  WaitHasWaker'
<1> SUFFICES ASSUME NEW t \in Senders, snd'[t].pc = "wait"
             PROVE  \/ hwTx'.owns = txIndex'
                    \/ /\ txBd'[txIndex'].status # "clear"
                       /\ txDone' \/ irq'["tx"] # {} \/ (isr' # None /\ isr'.ch = "tx")
  BY Zenon DEF WaitHasWaker
<1> DEFINE Coming == txDone \/ irq["tx"] # {} \/ (isr # None /\ isr.ch = "tx")
<1>1. hwTx'.owns = IF txBd'[txIndex'].status = "clear" THEN txIndex' ELSE None
  BY Zenon DEF TxOwnership
<1> SUFFICES ASSUME txBd'[txIndex'].status # "clear"
             PROVE  Coming'
  BY Zenon, <1>1
<1>2. txIndex' # None /\ hwTx'.owns # txIndex'
  BY <1>1, NoneApart DEF TxTypes
<1>3. ASSUME snd[t].pc = "wait", txBd[txIndex].status # "clear" PROVE Coming
  <2>1. hwTx.owns = None /\ txIndex # None
    BY <1>3, NoneApart DEF TxInv, TxTypes, TxOwnership
  <2> QED  BY Zenon, <1>3, <2>1 DEF TxInv, WaitHasWaker
<1>4. ASSUME NEW u \in Senders, Send(u) PROVE Coming'
  <2>1. snd \in [Senders -> SndType]
    BY Zenon DEF TxInv, TxTypes
  <2>2. CASE u = t
    <3>1. ~SendKick(u)
      BY Zenon, <1>2, KickKeeps
    <3>2. ~SendLook(u)
      <4> SUFFICES ASSUME SendLook(u) PROVE FALSE
        BY Zenon
      <4>1. snd'[t].pc = IF healthy /\ txBd[txIndex].status = "clear" THEN "wait" ELSE "end"
        BY ZenonT(30), <2>1, <2>2 DEF SendLook, SndType
      <4>2. txBd' = txBd /\ (txBd[txIndex].status = "clear" => txIndex' = txIndex)
        BY Zenon DEF SendLook
      <4> QED  BY Zenon, <4>1, <4>2
    <3>3. ~SendStart(u)
      BY <2>1, <2>2 DEF SendStart, SndType
    <3>4. ~SendLock(u) /\ ~SendFill(u)
      BY <2>1, <2>2 DEF SendLock, SendFill, Fill, Goto, SndType
    <3>5. ~SendWake(u) /\ ~SendTimeout(u) /\ ~SendEnd(u)
      BY <2>1, <2>2 DEF SendWake, SendTimeout, SendEnd, Goto, SndType
    <3> QED  BY Zenon, <1>4, <3>1, <3>2, <3>3, <3>4, <3>5 DEF Send
  <2>3. CASE u # t
    <3>1. snd'[t] = snd[t]
      BY Zenon, <1>4, <2>1, <2>3
      DEF Send, SendStart, SendLock, SendFill, Fill, SendKick, SendWake, SendTimeout, SendLook,
          SendEnd, Goto
    <3>2. lock = t /\ lock # None /\ lock # u
      BY ZenonT(30), <2>3, <3>1, NoneApart DEF TxInv, TxOwnership
    <3>3. snd[u].pc \notin {"fill", "kick", "wait", "look", "end"}
      BY Zenon, <3>2 DEF TxInv, TxOwnership
    <3>4. SendStart(u)
      BY Zenon, <1>4, <3>2, <3>3
      DEF Send, SendLock, SendFill, SendKick, SendWake, SendTimeout, SendLook, SendEnd
    <3>5. UNCHANGED <<irq, isr, txDone, txBd, txIndex>>
      BY Zenon, <3>4 DEF SendStart, intVars
    <3> QED  BY Zenon, <1>3, <3>1, <3>5
  <2> QED  BY Zenon, <2>2, <2>3
<1>5. ASSUME NEW status, HwTransmit(status) PROVE Coming'
  <2>1. irq'["tx"] = irq["tx"] \union {"ioc"}
    BY Zenon, <1>5 DEF HwTransmit, TxInv, IntTypes, Channels
  <2> QED  BY Zenon, <2>1
<1>6. CASE TxQuiet
  <2>1. Coming
    BY Zenon, <1>3, <1>6 DEF TxQuiet
  <2>2. CASE UNCHANGED <<irq, isr, txDone>>
    BY Zenon, <2>1, <2>2
  <2>3. ASSUME NEW c \in Channels, IsrRead(c) PROVE Coming'
    <3>1. isr = None /\ irq' = irq /\ txDone' = txDone
      BY Zenon, <2>3 DEF IsrRead
    <3> QED  BY Zenon, <2>1, <3>1
  <2>4. CASE IsrServe
    <3>1. /\ irq \in [Channels -> SUBSET {"ioc", "err"}] /\ irq' = [irq EXCEPT ![isr.ch] = @ \ isr.seen]
          /\ isr.ch = "tx" => txDone'
          /\ txDone => txDone'
      BY Zenon, <2>4 DEF IsrServe, TxInv, IntTypes
    <3>2. isr.ch # "tx" => irq'["tx"] = irq["tx"]
      BY Zenon, <3>1 DEF Channels
    <3> QED  BY Zenon, <2>1, <3>1, <3>2
  <2>5. ASSUME NEW c \in Channels, NEW b, irq' = [irq EXCEPT ![c] = @ \union {b}], UNCHANGED <<isr, txDone>>
        PROVE  Coming'
    <3>1. irq["tx"] \subseteq irq'["tx"]
      BY Zenon, <2>5 DEF TxInv, IntTypes, Channels
    <3> QED  BY Zenon, <2>1, <2>5, <3>1
  <2>6. ASSUME NEW good, HwReceive(good) PROVE Coming'
    BY Zenon, <2>5, <2>6 DEF HwReceive, Channels
  <2>7. CASE HwEarlyIrq
    BY Zenon, <2>5, <2>7 DEF HwEarlyIrq, Channels
  <2>8. ASSUME NEW c \in Channels, HwError(c) PROVE Coming'
    BY Zenon, <2>5, <2>8 DEF HwError
  <2>9. ASSUME NEW p, NEW n, HwDequeue(p, n) PROVE Coming'
    BY Zenon, <2>2, <2>9 DEF HwDequeue, intVars
  <2>10. CASE Service
    BY Zenon, <2>2, <2>10
    DEF Service, SvcWake, SvcDrain, SvcReceive, SvcCopy, SvcTail, SvcFault, SvcAgain, intVars
  <2>11. CASE UNCHANGED vars
    BY ZenonT(30), <2>2, <2>11 DEF vars, intVars
  <2> QED
    BY ZenonT(30), <1>4, <1>5, <2>3, <2>4, <2>6, <2>7, <2>8, <2>9, <2>10, <2>11 DEF Next
<1> QED  BY Zenon, <1>4, <1>5, <1>6, TxCases

\* Premature interrupts are counted up to the load's bound.
LEMMA EarlyStep ==
  ASSUME [Next]_vars PROVE early' = early \/ (early < load.early /\ early' = early + 1)
BY ZenonT(30) DEF Next, vars, txVars, HwDequeue, HwReceive, HwTransmit, HwEarlyIrq, HwError, IsrRead,
   IsrServe, Send,
       SendStart, SendLock, SendFill, SendKick, SendWake, SendTimeout, SendLook, SendEnd, Service, SvcWake,
       SvcDrain, SvcReceive, SvcCopy, SvcTail, SvcFault, SvcAgain

\* The transmit half is inductive.
LEMMA TxKept == ASSUME TxInv, [Next]_vars PROVE TxInv'
<1>1. IntTypes'
  BY Zenon, IntKept DEF TxInv
<1>2. TxTypes' /\ TxOwnership' /\ WireExact'
  <2>1. ASSUME NEW t \in Senders, Send(t) PROVE TxTypes' /\ TxOwnership' /\ WireExact'
    BY Zenon, <2>1, StartKeeps, LockKeeps, FillKeeps, KickKeeps, LeaveKeeps, LookKeeps,
       EndKeeps DEF Send
  <2>2. CASE TxQuiet
    <3>1. TxTypes'
      <4>1. Frames' = Frames /\ BdType' = BdType
        BY <2>2 DEF TxQuiet, Frames, BdType
      <4>2. early' \in 0..load.early
        BY EarlyStep, LoadNumbers DEF TxInv, TxTypes
      <4>3. hwTx' \in [owns : {None, 0, 1}, tail : {None, 0, 1}, halted : BOOLEAN]
        BY Zenon, <2>2 DEF TxQuiet, TxInv, TxTypes
      <4> QED  BY Zenon, <2>2, <4>1, <4>2, <4>3 DEF TxInv, TxTypes, TxQuiet
    <3> QED  BY Zenon, <2>2, <3>1, QuietKeeps
  <2> QED  BY Zenon, <2>1, <2>2, TransmitKeeps, TxCases
<1> QED  BY Zenon, <1>1, <1>2, WakerKept DEF TxInv

\* It holds at the start.
LEMMA TxStarts == ASSUME Init PROVE TxInv
<1>1. IntTypes
  BY Zenon DEF Init, IntTypes
<1>2. load \in Loads /\ load.early \in Nat /\ load.sends \in [Senders -> Nat]
  BY Zenon, LoadNumbers DEF Init
<1>3. TxTypes
  BY <1>2 DEF Init, TxTypes, BdType, SndType, SenderStates
<1>4. /\ \A t \in Senders : snd[t] = [pc |-> "idle", n |-> 0, ok |-> FALSE]
      /\ DOMAIN wire = {} /\ hwTx.owns = None /\ sent = {} /\ lock = None /\ EngineFree
  BY NoneApart DEF Init, EngineFree
<1>5. TxOwnership
  BY <1>2, <1>4, NoneApart DEF TxOwnership
<1>6. WireExact
  BY <1>4 DEF WireExact, Given
<1>7. WaitHasWaker
  BY <1>4 DEF WaitHasWaker
<1> QED  BY Zenon, <1>1, <1>3, <1>5, <1>6, <1>7 DEF TxInv

\* The transmit half of the driver is correct for every load: one owner of
\* the ring, no frame given to the engine twice, no wait without a waker.
THEOREM TransmitCorrect == Spec => []TxInv
<1>1. TxInv /\ [Next]_vars => TxInv'
  BY Zenon, TxKept
<1> QED  BY <1>1, TxStarts, PTL DEF Spec

\* A send that returned true put its own frame on the wire exactly once
\* (SentIsOnWire), for any number of senders and any interleaving of the
\* engine, its interrupts, premature interrupts and timeouts.
THEOREM SentOnce == Spec => []SentIsOnWire
<1>1. TxInv => SentIsOnWire
  <2> SUFFICES ASSUME TxInv, NEW f \in sent
               PROVE  Cardinality({k \in DOMAIN wire : wire[k] = f}) = 1
    BY Zenon DEF SentIsOnWire
  <2>1. PICK k \in DOMAIN wire : wire[k] = f
    BY Zenon DEF TxInv, WireExact
  <2>2. {j \in DOMAIN wire : wire[j] = f} = {k}
    BY <2>1 DEF TxInv, WireExact
  <2> QED  BY Zenon, <2>2, FS_Singleton
<1> QED  BY <1>1, TransmitCorrect, PTL

\* A sender never writes a descriptor the engine was given and has not
\* written back (fabric_dma.c:4, "never reuse a buffer hardware might own").
THEOREM OwnedUntouched == Spec => NeverReuseOwned
<1>1. TxInv /\ [Next]_vars => [\A i \in 0..1 : hwTx.owns = i => txBd'[i].frame = txBd[i].frame]_vars
  <2> SUFFICES ASSUME TxInv, [Next]_vars, NEW i \in 0..1, hwTx.owns = i
               PROVE  txBd'[i].frame = txBd[i].frame
    BY Zenon
  <2>1. CASE TxQuiet
    BY Zenon, <2>1 DEF TxQuiet
  <2>2. ASSUME NEW status, HwTransmit(status) PROVE txBd'[i].frame = txBd[i].frame
    BY ZenonT(30), <2>2 DEF HwTransmit, TxInv, TxTypes, BdType
  <2>3. ASSUME NEW t \in Senders, Send(t) PROVE txBd'[i].frame = txBd[i].frame
    <3>1. CASE SendFill(t)
      <4>1. ~healthy
        BY <3>1, NoneApart DEF SendFill, TxInv, TxOwnership, EngineFree
      <4> QED  BY Zenon, <3>1, <4>1 DEF SendFill
    <3>2. CASE ~SendFill(t)
      BY Zenon, <2>3, <3>2
      DEF Send, SendStart, SendLock, SendKick, SendWake, SendTimeout, SendLook, SendEnd
    <3> QED  BY Zenon, <3>1, <3>2
  <2> QED  BY Zenon, <2>1, <2>2, <2>3, TxCases
<1> QED  BY <1>1, TransmitCorrect, PTL DEF Spec, NeverReuseOwned

(***************************************************************************)
(* Reception.  Positions in the ring are counted from the driver's index.  *)
(***************************************************************************)
At(i, k) == (i + k) % RxCount

\* A sum of two positions wraps at most once.
LEMMA WrapOnce ==
  ASSUME NEW a \in Nat, a < 2 * RxCount
  PROVE  a % RxCount = IF a < RxCount THEN a ELSE a - RxCount
BY Sizes

\* Positions name the descriptors one to one, and the ring closes.
LEMMA AtFacts ==
  ASSUME NEW i \in Rx
  PROVE  /\ At(i, 0) = i /\ At(i, RxCount) = i
         /\ \A k \in 0..RxCount : At(i, k) \in Rx
         /\ \A j, k \in Rx : At(i, j) = At(i, k) => j = k
         /\ \A k \in Rx : At(i, k + 1) = Next_(At(i, k)) /\ At(Next_(i), k) = At(i, k + 1)
<1>1. RxCount \in Nat /\ RxCount >= 1 /\ i \in Nat /\ i < RxCount
  BY Sizes DEF Rx
<1>2. \A k \in 0..RxCount : At(i, k) = IF i + k < RxCount THEN i + k ELSE i + k - RxCount
  BY <1>1, WrapOnce DEF At
<1>3. At(i, 0) = i /\ At(i, RxCount) = i /\ \A k \in 0..RxCount : At(i, k) \in Rx
  BY <1>1, <1>2 DEF Rx
<1>4. \A j, k \in Rx : At(i, j) = At(i, k) => j = k
  BY <1>1, <1>2 DEF Rx
<1>5. \A k \in Rx : Next_(k) = IF k + 1 < RxCount THEN k + 1 ELSE 0
  BY <1>1, WrapOnce DEF Next_, Rx
<1>6. ASSUME NEW k \in Rx PROVE At(i, k + 1) = Next_(At(i, k)) /\ At(Next_(i), k) = At(i, k + 1)
  <2>1. k \in 0..RxCount /\ k + 1 \in 0..RxCount /\ k \in Nat /\ k < RxCount
    BY <1>1 DEF Rx
  <2>2. At(i, k) = IF i + k < RxCount THEN i + k ELSE i + k - RxCount
    BY Zenon, <1>2, <2>1
  <2>3. At(i, k + 1) = IF i + k + 1 < RxCount THEN i + k + 1 ELSE i + k + 1 - RxCount
    BY <1>1, <1>2, <2>1
  <2>4. Next_(At(i, k)) = IF At(i, k) + 1 < RxCount THEN At(i, k) + 1 ELSE 0
    BY Zenon, <1>3, <1>5, <2>1
  <2>5. Next_(i) = IF i + 1 < RxCount THEN i + 1 ELSE 0
    BY Zenon, <1>5
  <2>6. At(Next_(i), k) = IF Next_(i) + k < RxCount THEN Next_(i) + k ELSE Next_(i) + k - RxCount
    BY SMTT(30), <1>1, <2>1, <2>5, WrapOnce DEF At
  <2>7. At(i, k + 1) = Next_(At(i, k))
    BY <1>1, <2>1, <2>2, <2>3, <2>4
  <2>8. At(Next_(i), k) = At(i, k + 1)
    BY <1>1, <2>1, <2>3, <2>5, <2>6
  <2> QED  BY Zenon, <2>7, <2>8
<1> QED  BY Zenon, <1>3, <1>4, <1>6

RxBdType == [done : BOOLEAN, port : Ports \union {None}, good : BOOLEAN]
HwRxType == [cur : Rx, left : 0..RxCount, halted : BOOLEAN]
SvcStates == {"wait", "drain", "recv", "copy", "tail", "fault", "again"}
SvcType == [pc : SvcStates, drain : BOOLEAN, j : 0..DrainMax, tag : Ports \union {None}, reported : BOOLEAN]
PartType == [port : Ports, whole : BOOLEAN]

\* The receive side's types, with the record sets named.
LEMMA RxParts ==
  RxTypes <=> /\ rxBd \in [Rx -> RxBdType] /\ rxIndex \in Rx /\ hwRx \in HwRxType /\ svc \in SvcType
              /\ pipe \in Seq(PartType) /\ tags \in Seq(Ports) /\ Len(tags) <= TagDepth
BY Zenon DEF RxTypes, RxBdType, HwRxType, SvcType, SvcStates, PartType

\* What the invariant says of the ring, position by position.
LEMMA RingFacts ==
  ASSUME RxTypes, RingOwnership
  PROVE  /\ held \in 0..RxCount /\ hwRx.left = RxCount - held
         /\ hwRx.cur = At(rxIndex, held)
         /\ svc.pc # "tail" => \A k \in Rx : rxBd[At(rxIndex, k)].done <=> k < held
         /\ svc.pc = "tail" => \A k \in Rx : rxBd[At(rxIndex, k)].done <=> (k >= 1 /\ k < held)
<1>1. held \in 0..RxCount /\ hwRx.left = RxCount - held
  BY Sizes, RxParts DEF HwRxType, held
<1>2. Rx = 0..RxCount - 1 /\ \A k \in Rx : k >= 0
  BY Sizes DEF Rx
<1> QED  BY Zenon, <1>1, <1>2 DEF RingOwnership, At

RingInv == RxTypes /\ RingOwnership

\* The fabric adds a frame to the engine's input.
LEMMA DequeueKeepsRing ==
  ASSUME RingInv, load \in Loads, NEW p \in load.ports, NEW n \in 1..MaxDescs, HwDequeue(p, n)
  PROVE  RingInv'
<1>1. /\ Len(tags) < TagDepth /\ tags' = Append(tags, p)
      /\ pipe' = pipe \o [k \in 1..n |-> [port |-> p, whole |-> n = 1]]
      /\ UNCHANGED <<rxBd, rxIndex, hwRx, svc>>
  BY Zenon DEF HwDequeue
<1>2. p \in Ports /\ n \in Nat
  BY LoadNumbers, Sizes
<1>3. [k \in 1..n |-> [port |-> p, whole |-> n = 1]] \in Seq(PartType)
  <2>1. [port |-> p, whole |-> n = 1] \in PartType
    BY Zenon, <1>2 DEF PartType
  <2> QED  BY <1>2, <2>1
<1>4. RxTypes'
  <2>1. pipe' \in Seq(PartType)
    <3> DEFINE parts == [k \in 1..n |-> [port |-> p, whole |-> n = 1]]
    <3>1. pipe \in Seq(PartType) /\ parts \in Seq(PartType) /\ pipe' = pipe \o parts
      BY Zenon, <1>1, <1>3, RxParts DEF RingInv
    <3> HIDE DEF parts
    <3> QED  BY <3>1
  <2>2. tags' \in Seq(Ports) /\ Len(tags') <= TagDepth
    BY <1>1, <1>2, Sizes, RxParts DEF RingInv
  <2> QED  BY Zenon, <1>1, <2>1, <2>2 DEF RingInv, RxTypes, PartType
<1>5. RingOwnership'
  BY Zenon, <1>1 DEF RingInv, RingOwnership, held
<1> QED  BY Zenon, <1>4, <1>5 DEF RingInv

\* The engine completes the next descriptor.
LEMMA ReceiveKeepsRing ==
  ASSUME RingInv, NEW good \in BOOLEAN, HwReceive(good)
  PROVE  /\ RingInv' /\ held < RxCount /\ held' = held + 1
         /\ rxBd'[At(rxIndex, held)].port = Head(pipe).port
         /\ \A k \in Rx \ {held} : rxBd'[At(rxIndex, k)] = rxBd[At(rxIndex, k)]
<1> DEFINE part == Head(pipe)
           bd == [done |-> TRUE, port |-> part.port, good |-> good]
<1>1. /\ pipe # <<>> /\ hwRx.left > 0
      /\ rxBd' = [rxBd EXCEPT ![hwRx.cur] = bd]
      /\ hwRx' = [hwRx EXCEPT !.cur = Next_(@), !.left = @ - 1]
      /\ pipe' = Tail(pipe) /\ UNCHANGED <<rxIndex, tags, svc>>
  BY Zenon DEF HwReceive
<1>2. /\ rxBd \in [Rx -> RxBdType] /\ rxIndex \in Rx /\ hwRx \in HwRxType /\ svc \in SvcType
      /\ pipe \in Seq(PartType) /\ tags \in Seq(Ports) /\ Len(tags) <= TagDepth
  BY Zenon, RxParts DEF RingInv
<1>3. /\ held \in 0..RxCount /\ hwRx.left = RxCount - held /\ hwRx.cur = At(rxIndex, held)
      /\ svc.pc # "tail" => \A k \in Rx : rxBd[At(rxIndex, k)].done <=> k < held
      /\ svc.pc = "tail" => \A k \in Rx : rxBd[At(rxIndex, k)].done <=> (k >= 1 /\ k < held)
  BY Zenon, RingFacts DEF RingInv
<1>4. held \in Rx /\ held < RxCount /\ held \in Nat /\ hwRx.cur \in Rx
  <2>1. hwRx.cur \in Rx
    BY Zenon, <1>2 DEF HwRxType
  <2> QED  BY <1>1, <1>3, <2>1, Sizes DEF Rx
<1>5. part \in PartType /\ pipe' \in Seq(PartType)
  BY <1>1, <1>2
<1>6. bd \in RxBdType /\ bd.done /\ bd.port = part.port
  BY Zenon, <1>5 DEF PartType, RxBdType
<1>7. hwRx' = [cur |-> At(rxIndex, held + 1), left |-> hwRx.left - 1, halted |-> hwRx.halted]
  <2>1. Next_(hwRx.cur) = At(rxIndex, held + 1)
    BY <1>2, <1>3, <1>4, AtFacts
  <2> QED  BY Zenon, <1>1, <1>2, <2>1 DEF HwRxType
<1>8. hwRx' \in HwRxType /\ held' = held + 1 /\ hwRx'.cur = At(rxIndex, held')
  <2>1. At(rxIndex, held + 1) \in Rx
    BY <1>2, <1>4, AtFacts, Sizes
  <2>2. hwRx.left - 1 \in 0..RxCount
    BY <1>3, <1>4, Sizes
  <2>3. held' = held + 1
    BY <1>3, <1>4, <1>7, Sizes DEF held
  <2> QED  BY Zenon, <1>2, <1>7, <2>1, <2>2, <2>3 DEF HwRxType
<1> HIDE DEF bd, part
<1>9. rxBd' \in [Rx -> RxBdType] /\ rxBd'[hwRx.cur] = bd
      /\ \A i \in Rx \ {hwRx.cur} : rxBd'[i] = rxBd[i]
  BY Zenon, <1>1, <1>2, <1>4, <1>6
<1>10. \A k \in Rx \ {held} : At(rxIndex, k) \in Rx \ {hwRx.cur}
  <2>1. \A k \in Rx : k \in 0..RxCount
    BY Sizes DEF Rx
  <2> QED  BY <1>2, <1>3, <1>4, <2>1, AtFacts
<1>11. \A k \in Rx \ {held} : rxBd'[At(rxIndex, k)] = rxBd[At(rxIndex, k)]
  BY Zenon, <1>9, <1>10
<1>12. RxTypes'
  BY Zenon, <1>1, <1>2, <1>5, <1>8, <1>9 DEF RxTypes, RxBdType, HwRxType, SvcType, SvcStates,
     PartType
<1>13. RingOwnership'
  <2>1. held >= 1 \/ svc.pc # "tail"
    BY <1>4 DEF RingInv, RingOwnership
  <2>2. ASSUME NEW k \in Rx
        PROVE  rxBd'[At(rxIndex, k)].done <=> (k >= (IF svc.pc = "tail" THEN 1 ELSE 0) /\ k < held + 1)
    <3>1. CASE k = held
      BY <1>3, <1>4, <1>6, <1>9, <2>1, <3>1
    <3>2. CASE k # held
      <4>1. k \in Nat /\ (k < held + 1 <=> k < held)
        BY <1>4, <3>2 DEF Rx
      <4>2. rxBd'[At(rxIndex, k)].done = rxBd[At(rxIndex, k)].done
        BY Zenon, <1>11, <3>2
      <4> QED  BY <1>3, <4>1, <4>2
    <3> QED  BY Zenon, <3>1, <3>2
  <2>3. \A k \in 0..RxCount - 1 :
          rxBd'[(rxIndex' + k) % RxCount].done <=> (k >= (IF svc'.pc = "tail" THEN 1 ELSE 0) /\ k < held')
    BY Zenon, <1>1, <1>8, <2>2 DEF At, Rx
  <2>4. hwRx'.cur = (rxIndex' + held') % RxCount
    BY Zenon, <1>1, <1>8 DEF At
  <2>5. /\ svc'.pc \in {"copy", "tail"} => held' > 0
        /\ svc'.pc \in {"recv", "copy", "tail"} => svc'.j < DrainMax
    BY <1>1, <1>4, <1>8 DEF RingInv, RingOwnership
  <2> QED  BY Zenon, <2>3, <2>4, <2>5 DEF RingOwnership
<1>14. rxBd'[At(rxIndex, held)].port = part.port
  BY Zenon, <1>3, <1>6, <1>9
<1> QED  BY Zenon, <1>4, <1>8, <1>11, <1>12, <1>13, <1>14 DEF RingInv, part

\* The service task moves on without touching the ring.
LEMMA ServiceKeepsRing ==
  ASSUME RingInv, IntTypes, SvcWake \/ SvcDrain \/ SvcReceive \/ SvcFault \/ SvcAgain
  PROVE  /\ RingInv' /\ UNCHANGED <<rxBd, rxIndex, hwRx, pipe>>
         /\ svc.pc \notin {"copy", "tail"} /\ svc'.pc # "tail"
         /\ svc'.pc = "copy" => SvcReceive /\ held > 0
<1>1. /\ rxBd \in [Rx -> RxBdType] /\ rxIndex \in Rx /\ hwRx \in HwRxType /\ svc \in SvcType
      /\ pipe \in Seq(PartType) /\ tags \in Seq(Ports) /\ Len(tags) <= TagDepth
  BY Zenon, RxParts DEF RingInv
<1>2. UNCHANGED <<rxBd, rxIndex, hwRx, pipe>> /\ svc.pc \notin {"copy", "tail"}
  BY Zenon DEF SvcWake, SvcDrain, SvcReceive, SvcFault, SvcAgain
<1>3. rx_pending => held > 0
  <2>1. At(rxIndex, 0) = rxIndex /\ 0 \in Rx
    BY <1>1, AtFacts, Sizes DEF Rx
  <2>2. rxBd[rxIndex].done => 0 < held
    BY Zenon, <1>2, <2>1, RingFacts DEF RingInv
  <2> QED  BY Zenon, <2>2 DEF rx_pending, held
<1>4. rx_pending \in BOOLEAN
  BY Zenon, <1>1 DEF rx_pending, healthy, RxBdType
<1> HIDE DEF rx_pending
<1>5. /\ tags' \in Seq(Ports) /\ Len(tags') <= TagDepth
      /\ ~SvcReceive => tags' = tags
  <2>1. tags' = tags \/ (SvcReceive /\ tags # <<>> /\ tags' = Tail(tags))
    BY Zenon DEF SvcWake, SvcDrain, SvcReceive, SvcFault, SvcAgain
  <2>2. tags # <<>> => Tail(tags) \in Seq(Ports) /\ Len(Tail(tags)) <= TagDepth
    BY <1>1, Sizes
  <2> QED  BY Zenon, <1>1, <2>1, <2>2
<1>6. /\ svc' \in SvcType /\ svc'.pc # "tail"
      /\ svc'.pc = "copy" => SvcReceive /\ held > 0
      /\ svc'.pc \in {"recv", "copy"} => svc'.j < DrainMax
  <2>1. /\ svc = [pc |-> svc.pc, drain |-> svc.drain, j |-> svc.j, tag |-> svc.tag, reported |-> svc.reported]
        /\ svc.pc \in SvcStates /\ svc.drain \in BOOLEAN /\ svc.j \in 0..DrainMax
        /\ svc.tag \in Ports \union {None} /\ svc.reported \in BOOLEAN
    BY Zenon, <1>1 DEF SvcType
  <2>2. CASE SvcWake
    <3>1. svc' = [pc |-> "drain", drain |-> svc.drain \/ notified, j |-> 0, tag |-> svc.tag, reported |-> svc.reported]
      BY Zenon, <2>1, <2>2 DEF SvcWake
    <3> QED  BY <2>1, <3>1, Sizes DEF SvcType, SvcStates
  <2>3. CASE SvcDrain
    <3>1. \E pc \in {"recv", "fault"} :
            /\ svc' = [pc |-> pc, drain |-> svc.drain, j |-> svc.j, tag |-> svc.tag, reported |-> svc.reported]
            /\ pc = "recv" => svc.j < DrainMax
      BY Zenon, <2>1, <2>3 DEF SvcDrain, Svc
    <3> QED  BY <2>1, <3>1 DEF SvcType, SvcStates
  <2>4. CASE SvcReceive
    <3>1. svc.pc = "recv" /\ svc.j < DrainMax
      BY Zenon, <2>4 DEF SvcReceive, RingInv, RingOwnership
    <3>2. CASE rx_pending
      <4> DEFINE tag == IF tags = <<>> THEN None ELSE Head(tags)
      <4>1. tag \in Ports \union {None}
        BY <1>1
      <4>2. svc' = [svc EXCEPT !.pc = "copy", !.tag = tag]
        BY Zenon, <2>4, <3>2 DEF SvcReceive
      <4> HIDE DEF tag
      <4>3. svc' = [pc |-> "copy", drain |-> svc.drain, j |-> svc.j, tag |-> tag, reported |-> svc.reported]
        BY Zenon, <2>1, <4>2
      <4> QED  BY Zenon, <1>3, <2>1, <2>4, <3>1, <3>2, <4>1, <4>3 DEF SvcType, SvcStates
    <3>3. CASE ~rx_pending
      <4>1. svc' = [pc |-> "drain", drain |-> svc.drain, j |-> svc.j + 1, tag |-> svc.tag, reported |-> svc.reported]
        BY Zenon, <2>1, <2>4, <3>3 DEF SvcReceive
      <4>2. svc.j + 1 \in 0..DrainMax
        BY <2>1, <3>1, Sizes
      <4> QED  BY Zenon, <2>1, <4>1, <4>2 DEF SvcType, SvcStates
    <3> QED  BY Zenon, <3>2, <3>3
  <2>5. CASE SvcFault
    <3>1. svc' = [pc |-> "again", drain |-> svc.drain, j |-> svc.j, tag |-> svc.tag,
                  reported |-> svc.reported \/ ~healthy]
      BY Zenon, <2>1, <2>5 DEF SvcFault
    <3> QED  BY Zenon, <2>1, <3>1 DEF SvcType, SvcStates
  <2>6. CASE SvcAgain
    <3>1. svc' = [pc |-> "wait", drain |-> svc.drain /\ rx_pending, j |-> svc.j, tag |-> svc.tag,
                  reported |-> svc.reported]
      BY Zenon, <2>1, <2>6 DEF SvcAgain
    <3> QED  BY Zenon, <2>1, <3>1 DEF SvcType, SvcStates
  <2> QED  BY Zenon, <2>2, <2>3, <2>4, <2>5, <2>6
<1>7. RxTypes'
  BY Zenon, <1>1, <1>2, <1>5, <1>6 DEF RxTypes, RxBdType, HwRxType, SvcType, SvcStates, PartType
<1>8. RingOwnership'
  BY Zenon, <1>2, <1>6 DEF RingInv, RingOwnership, held
<1> QED  BY Zenon, <1>2, <1>6, <1>7, <1>8 DEF RingInv

\* The driver copies a frame out and clears its descriptor.
LEMMA CopyKeepsRing ==
  ASSUME RingInv, SvcCopy
  PROVE  /\ RingInv' /\ svc'.pc = "tail" /\ held' = held
         /\ \A k \in Rx \ {0} : rxBd'[At(rxIndex, k)] = rxBd[At(rxIndex, k)]
<1> DEFINE bd == [done |-> FALSE, port |-> None, good |-> FALSE]
<1>1. /\ svc.pc = "copy" /\ rxBd' = [rxBd EXCEPT ![rxIndex] = bd]
      /\ svc' = [svc EXCEPT !.pc = "tail", !.tag = None]
      /\ UNCHANGED <<rxIndex, hwRx, pipe, tags>>
  BY Zenon DEF SvcCopy
<1>2. /\ rxBd \in [Rx -> RxBdType] /\ rxIndex \in Rx /\ hwRx \in HwRxType /\ svc \in SvcType
      /\ pipe \in Seq(PartType) /\ tags \in Seq(Ports) /\ Len(tags) <= TagDepth
  BY Zenon, RxParts DEF RingInv
<1>3. bd \in RxBdType /\ ~bd.done
  BY Zenon DEF RxBdType
<1> HIDE DEF bd
<1>4. svc' \in SvcType /\ svc'.pc = "tail" /\ svc'.j = svc.j
  BY Zenon, <1>1, <1>2 DEF SvcType, SvcStates
<1>5. /\ rxBd' \in [Rx -> RxBdType] /\ rxBd'[rxIndex] = bd
      /\ \A i \in Rx \ {rxIndex} : rxBd'[i] = rxBd[i]
  BY Zenon, <1>1, <1>2, <1>3
<1>6. RxTypes'
  BY ZenonT(30), <1>1, <1>2, <1>4, <1>5 DEF RxTypes, RxBdType, HwRxType, SvcType, SvcStates, PartType
<1>7. 0 \in Rx /\ At(rxIndex, 0) = rxIndex /\ \A k \in Rx : k \in Nat /\ k \in 0..RxCount
  <2>1. 0 \in Rx /\ \A k \in Rx : k \in Nat /\ k \in 0..RxCount
    BY Sizes DEF Rx
  <2>2. At(rxIndex, 0) = rxIndex
    BY Zenon, <1>2, AtFacts
  <2> QED  BY Zenon, <2>1, <2>2
<1>8. \A k \in Rx \ {0} : rxBd'[At(rxIndex, k)] = rxBd[At(rxIndex, k)]
  <2>1. \A k \in Rx \ {0} : At(rxIndex, k) \in Rx \ {rxIndex}
    BY <1>2, <1>7, AtFacts
  <2> QED  BY Zenon, <1>5, <2>1
<1>9. held' = held /\ held > 0 /\ held \in Nat /\ svc.j < DrainMax
  BY <1>1, RingFacts DEF RingInv, RingOwnership, held
<1>10. RingOwnership'
  <2>1. ASSUME NEW k \in Rx PROVE rxBd'[At(rxIndex, k)].done <=> (k >= 1 /\ k < held)
    <3>1. CASE k = 0
      BY <1>3, <1>5, <1>7, <3>1
    <3>2. CASE k # 0
      <4>1. rxBd[At(rxIndex, k)].done <=> k < held
        BY Zenon, <1>1, RingFacts DEF RingInv
      <4>2. k \in Nat /\ k >= 1
        BY <1>7, <3>2
      <4> QED  BY Zenon, <1>8, <3>2, <4>1, <4>2
    <3> QED  BY Zenon, <3>1, <3>2
  <2>2. \A k \in 0..RxCount - 1 :
          rxBd'[(rxIndex' + k) % RxCount].done <=> (k >= (IF svc'.pc = "tail" THEN 1 ELSE 0) /\ k < held')
    BY Zenon, <1>1, <1>4, <1>9, <2>1 DEF At, Rx
  <2> QED  BY Zenon, <1>1, <1>4, <1>9, <2>2 DEF RingInv, RingOwnership
<1> QED  BY Zenon, <1>4, <1>6, <1>8, <1>9, <1>10 DEF RingInv

\* The tail write gives the cleared descriptor back.
LEMMA TailKeepsRing ==
  ASSUME RingInv, SvcTail
  PROVE  /\ RingInv' /\ svc.pc = "tail" /\ svc'.pc = "drain" /\ held > 0 /\ held' = held - 1
         /\ \A k \in Rx : At(rxIndex', k) = At(rxIndex, k + 1)
<1>1. /\ svc.pc = "tail" /\ hwRx' = [hwRx EXCEPT !.left = @ + 1]
      /\ rxIndex' = Next_(rxIndex)
      /\ svc' = [svc EXCEPT !.pc = "drain", !.j = @ + 1]
      /\ UNCHANGED <<rxBd, pipe, tags>>
  BY Zenon DEF SvcTail
<1>2. /\ rxBd \in [Rx -> RxBdType] /\ rxIndex \in Rx /\ hwRx \in HwRxType /\ svc \in SvcType
      /\ pipe \in Seq(PartType) /\ tags \in Seq(Ports) /\ Len(tags) <= TagDepth
  BY Zenon, RxParts DEF RingInv
<1>3. /\ held \in 0..RxCount /\ hwRx.left = RxCount - held /\ hwRx.cur = At(rxIndex, held)
      /\ \A k \in Rx : rxBd[At(rxIndex, k)].done <=> (k >= 1 /\ k < held)
      /\ held > 0 /\ svc.j < DrainMax
  BY Zenon, <1>1, RingFacts DEF RingInv, RingOwnership
<1>4. \A k \in Rx : At(rxIndex', k) = At(rxIndex, k + 1)
  BY ZenonT(30), <1>1, <1>2, AtFacts
<1>5. rxIndex' \in Rx
  <2>1. 0 \in Rx /\ 1 \in 0..RxCount
    BY Sizes DEF Rx
  <2>2. Next_(rxIndex) = At(rxIndex, 0 + 1)
    BY <1>2, <2>1, AtFacts
  <2> QED  BY <1>1, <1>2, <2>1, <2>2, AtFacts
<1>6. svc' \in SvcType /\ svc'.pc = "drain"
  <2>1. svc.j + 1 \in 0..DrainMax
    BY <1>2, <1>3, Sizes DEF SvcType
  <2> QED  BY Zenon, <1>1, <1>2, <2>1 DEF SvcType, SvcStates
<1>7. hwRx' \in HwRxType /\ held' = held - 1 /\ hwRx'.cur = hwRx.cur
  <2>1. hwRx.left + 1 \in 0..RxCount
    BY <1>3, Sizes
  <2>2. hwRx' = [cur |-> hwRx.cur, left |-> hwRx.left + 1, halted |-> hwRx.halted]
    BY Zenon, <1>1, <1>2 DEF HwRxType
  <2>3. held' = held - 1
    BY <1>3, <2>2, Sizes DEF held
  <2> QED  BY Zenon, <1>2, <2>1, <2>2, <2>3 DEF HwRxType
<1>8. RxTypes'
  BY Zenon, <1>1, <1>2, <1>5, <1>6, <1>7 DEF RxTypes, RxBdType, HwRxType, SvcType, SvcStates,
     PartType
<1>9. RingOwnership'
  <2>1. ASSUME NEW k \in Rx PROVE rxBd[At(rxIndex', k)].done <=> k < held - 1
    <3>1. k \in Nat /\ k < RxCount
      BY Sizes DEF Rx
    <3>2. CASE k + 1 < RxCount
      <4>1. k + 1 \in Rx
        BY <3>1, <3>2, Sizes DEF Rx
      <4> QED  BY <1>3, <1>4, <3>1, <4>1
    <3>3. CASE k + 1 = RxCount
      <4>1. At(rxIndex', k) = At(rxIndex, 0)
        BY ZenonT(30), <1>2, <1>4, <3>3, AtFacts
      <4>2. 0 \in Rx
        BY Sizes DEF Rx
      <4> QED  BY <1>3, <3>1, <3>3, <4>1, <4>2
    <3> QED  BY <3>1, <3>2, <3>3, Sizes
  <2>2. \A k \in 0..RxCount - 1 :
          rxBd'[(rxIndex' + k) % RxCount].done <=> (k >= (IF svc'.pc = "tail" THEN 1 ELSE 0) /\ k < held')
    BY <1>1, <1>6, <1>7, <2>1, Sizes DEF At, Rx
  <2>3. hwRx'.cur = (rxIndex' + held') % RxCount
    <3>1. held - 1 \in Rx /\ (held - 1) + 1 = held
      BY <1>3, Sizes DEF Rx
    <3>2. At(rxIndex', held - 1) = At(rxIndex, held)
      BY Zenon, <1>4, <3>1
    <3> QED  BY Zenon, <1>3, <1>7, <3>2 DEF At
  <2> QED  BY Zenon, <1>6, <2>2, <2>3 DEF RingOwnership
<1> QED  BY Zenon, <1>1, <1>3, <1>4, <1>6, <1>7, <1>8, <1>9 DEF RingInv

\* A step outside the service task and the engine's receive channel leaves
\* the ring alone; that channel may halt.
RxQuiet ==
    /\ UNCHANGED <<rxBd, rxIndex, pipe, tags, svc, got>>
    /\ hwRx' = hwRx \/ hwRx' = [hwRx EXCEPT !.halted = TRUE]

\* Every step is one of the receive side's, or quiet.
LEMMA RxCases ==
  ASSUME [Next]_vars
  PROVE  \/ RxQuiet
         \/ \E p \in load.ports, n \in 1..MaxDescs : HwDequeue(p, n)
         \/ \E good \in BOOLEAN : HwReceive(good)
         \/ SvcWake \/ SvcDrain \/ SvcReceive \/ SvcFault \/ SvcAgain \/ SvcCopy \/ SvcTail
<1>1. CASE UNCHANGED rxVars
  BY Zenon, <1>1 DEF rxVars, RxQuiet
<1>2. ASSUME NEW c, HwError(c) PROVE RxQuiet
  BY Zenon, <1>2 DEF HwError, RxQuiet
<1>3. ASSUME NEW t, Send(t) PROVE UNCHANGED rxVars
  BY Zenon, <1>3
  DEF Send, SendStart, SendLock, SendFill, SendKick, SendWake, SendTimeout, SendLook, SendEnd
<1>4. ASSUME NEW status, HwTransmit(status) PROVE UNCHANGED rxVars
  BY Zenon, <1>4 DEF HwTransmit
<1>5. ASSUME NEW c, IsrRead(c) PROVE UNCHANGED rxVars
  BY Zenon, <1>5 DEF IsrRead
<1>6. IsrServe \/ HwEarlyIrq \/ UNCHANGED vars => UNCHANGED rxVars
  BY Zenon DEF IsrServe, HwEarlyIrq, vars
<1> QED  BY Zenon, <1>1, <1>2, <1>3, <1>4, <1>5, <1>6 DEF Next, Service

\* A quiet step keeps the ring.
LEMMA QuietKeepsRing == ASSUME RingInv, RxQuiet PROVE RingInv' /\ held' = held
<1>1. hwRx \in HwRxType
  BY Zenon, RxParts DEF RingInv
<1>2. hwRx' \in HwRxType /\ hwRx'.cur = hwRx.cur /\ hwRx'.left = hwRx.left
  BY Zenon, <1>1 DEF RxQuiet, HwRxType
<1>3. RxTypes'
  BY Zenon, <1>2 DEF RingInv, RxQuiet, RxTypes, HwRxType
<1>4. held' = held
  BY Zenon, <1>2 DEF held
<1>5. RingOwnership'
  BY Zenon, <1>2, <1>4 DEF RingInv, RxQuiet, RingOwnership
<1> QED  BY Zenon, <1>3, <1>4, <1>5 DEF RingInv

\* The ring's invariant is inductive.
LEMMA RingKept == ASSUME RingInv, IntTypes, load \in Loads, [Next]_vars PROVE RingInv'
BY ZenonT(30), RxCases, QuietKeepsRing, DequeueKeepsRing, ReceiveKeepsRing, ServiceKeepsRing,
   CopyKeepsRing, TailKeepsRing

\* It holds at the start.
LEMMA RingStarts == ASSUME Init PROVE RingInv
<1>1. /\ rxIndex = 0 /\ svc.pc = "wait" /\ hwRx.cur = 0 /\ hwRx.left = RxCount
      /\ \A i \in Rx : ~rxBd[i].done
  BY Zenon DEF Init
<1>2. 0 \in Rx /\ RxCount \in 0..RxCount /\ 0 \in 0..DrainMax
  BY Sizes DEF Rx
<1>3. RxTypes
  BY <1>2, Sizes DEF Init, RxTypes
<1>4. held = 0
  BY <1>1, Sizes DEF held
<1>5. \A k \in 0..RxCount - 1 : (0 + k) % RxCount = k /\ k \in Rx /\ ~(k < 0)
  BY Sizes DEF Rx
<1>6. (0 + 0) % RxCount = 0
  BY Sizes
<1>7. RingOwnership
  BY ZenonT(30), <1>1, <1>4, <1>5, <1>6 DEF RingOwnership
<1> QED  BY Zenon, <1>3, <1>7 DEF RingInv

\* The receive ring is never overrun or read too early, for every number of
\* descriptors and however many descriptors a frame fills.
THEOREM RingCorrect == Spec => [](RxTypes /\ RingOwnership)
<1>1. TxInv /\ RingInv /\ [Next]_vars => RingInv'
  BY Zenon, RingKept DEF TxInv, TxTypes
<1>2. Spec => []RingInv
  BY <1>1, RingStarts, TransmitCorrect, PTL DEF Spec
<1> QED  BY Zenon, <1>2 DEF RingInv

(***************************************************************************)
(* The tag FIFO.                                                           *)
(***************************************************************************)
Popped(pc) == IF pc \in {"copy", "tail"} THEN 1 ELSE 0

Behind == held - Popped(svc.pc)

\* TagsInStep by ring positions.
TagForm ==
    /\ Len(tags) = Behind + Len(pipe)
    /\ \A k \in 1..Behind : tags[k] = rxBd[At(rxIndex, Popped(svc.pc) + k - 1)].port
    /\ \A k \in 1..Len(pipe) : tags[Behind + k] = pipe[k].port
    /\ svc.pc = "copy" => svc.tag = rxBd[rxIndex].port

\* Both say the same.
LEMMA TagFacts ==
  RingInv => /\ Behind \in Nat /\ held \in Nat /\ held <= RxCount
             /\ TagsInStep <=> TagForm
<1> SUFFICES ASSUME RingInv
             PROVE  Behind \in Nat /\ held \in Nat /\ held <= RxCount /\ (TagsInStep <=> TagForm)
  BY Zenon
<1>1. held \in Nat /\ held <= RxCount /\ rxIndex \in Nat
  BY RingFacts, RxParts, Sizes DEF RingInv, Rx
<1>2. svc.pc \in {"copy", "tail"} => held > 0
  BY Zenon DEF RingInv, RingOwnership
<1>3. Behind \in Nat /\ Popped(svc.pc) \in Nat
  BY <1>1, <1>2 DEF Popped, Behind
<1>4. \A k \in 1..Behind :
        (rxIndex + Popped(svc.pc) + k - 1) % RxCount = At(rxIndex, Popped(svc.pc) + k - 1)
  <2> SUFFICES ASSUME NEW k \in 1..Behind
               PROVE  rxIndex + Popped(svc.pc) + k - 1 = rxIndex + (Popped(svc.pc) + k - 1)
    BY Zenon DEF At
  <2> QED  BY <1>1, <1>3
<1> QED  BY Zenon, <1>1, <1>3, <1>4 DEF TagsInStep, TagForm, Popped, Behind

TagInv == RingInv /\ TagForm

\* The fabric stores one tag for the one descriptor a frame fills.
LEMMA DequeueKeepsTags ==
  ASSUME TagInv, NEW p, HwDequeue(p, 1)
  PROVE  TagForm'
<1>1. /\ tags' = Append(tags, p) /\ pipe' = pipe \o [k \in 1..1 |-> [port |-> p, whole |-> 1 = 1]]
      /\ UNCHANGED <<rxBd, rxIndex, hwRx, svc>>
  BY Zenon DEF HwDequeue
<1>2. pipe \in Seq(PartType) /\ tags \in Seq(Ports)
  BY Zenon, RxParts DEF TagInv, RingInv
<1>3. Behind' = Behind /\ Behind \in Nat
  BY Zenon, <1>1, TagFacts DEF TagInv, Behind, held
<1>4. /\ Len(pipe') = Len(pipe) + 1 /\ pipe'[Len(pipe) + 1].port = p
      /\ \A k \in 1..Len(pipe) : pipe'[k] = pipe[k]
  <2> DEFINE part == [k \in 1..1 |-> [port |-> p, whole |-> 1 = 1]]
  <2>1. part \in Seq({part[1]}) /\ Len(part) = 1 /\ part[1].port = p
    OBVIOUS
  <2> HIDE DEF part
  <2>2. pipe' = pipe \o part
    BY Zenon, <1>1 DEF part
  <2> DEFINE S == PartType \union {part[1]}
  <2>3. pipe \in Seq(S) /\ part \in Seq(S) /\ Len(pipe) \in Nat
    BY <1>2, <2>1
  <2> HIDE DEF S
  <2>4. Len(pipe') = Len(pipe) + 1
    <3>1. Len(part) = 1
      BY Zenon, <2>1
    <3>2. Len(pipe \o part) = Len(pipe) + Len(part)
      BY <2>3
    <3> QED  BY Zenon, <2>2, <3>1, <3>2
  <2>5. \A k \in 1..Len(pipe) : pipe'[k] = pipe[k]
    BY <2>1, <2>2, <2>3
  <2>6. pipe'[Len(pipe) + 1] = part[1]
    <3>1. Len(part) = 1
      BY Zenon, <2>1
    <3>2. (pipe \o part)[Len(pipe) + 1] = part[Len(pipe) + 1 - Len(pipe)]
      BY <2>3, <3>1
    <3> QED  BY <2>2, <2>3, <3>2
  <2> QED  BY Zenon, <2>1, <2>4, <2>5, <2>6
<1>5. /\ Len(tags') = Len(tags) + 1 /\ tags'[Len(tags) + 1] = p
      /\ \A k \in 1..Len(tags) : tags'[k] = tags[k]
  BY <1>1, <1>2
<1>6. Len(tags) = Behind + Len(pipe) /\ Len(pipe) \in Nat
  BY <1>2 DEF TagInv, TagForm
<1>7. \A k \in 1..Behind : tags'[k] = tags[k]
  BY <1>3, <1>5, <1>6
<1>8. ASSUME NEW k \in 1..Len(pipe') PROVE tags'[Behind + k] = pipe'[k].port
  <2>1. CASE k = Len(pipe) + 1
    BY <1>3, <1>4, <1>5, <1>6, <2>1
  <2>2. CASE k # Len(pipe) + 1
    <3>1. k \in 1..Len(pipe) /\ Behind + k \in 1..Len(tags)
      BY <1>3, <1>4, <1>6, <2>2
    <3> QED  BY Zenon, <1>4, <1>5, <3>1 DEF TagInv, TagForm
  <2> QED  BY Zenon, <2>1, <2>2
<1>9. Len(tags') = Behind + Len(pipe')
  BY <1>3, <1>4, <1>5, <1>6
<1> QED  BY ZenonT(30), <1>1, <1>3, <1>7, <1>8, <1>9 DEF TagInv, TagForm

\* The engine completes a descriptor: its tag is next behind those complete.
LEMMA ReceiveKeepsTags ==
  ASSUME TagInv, NEW good \in BOOLEAN, HwReceive(good)
  PROVE  TagForm'
<1>1. pipe # <<>> /\ pipe' = Tail(pipe) /\ UNCHANGED <<rxIndex, tags, svc>>
  BY Zenon DEF HwReceive
<1>2. pipe \in Seq(PartType) /\ rxIndex \in Rx
  BY Zenon, RxParts DEF TagInv, RingInv
<1>3. /\ held < RxCount /\ held' = held + 1 /\ held \in Nat /\ Behind \in Nat /\ Popped(svc.pc) \in Nat
      /\ rxBd'[At(rxIndex, held)].port = Head(pipe).port
      /\ \A k \in Rx \ {held} : rxBd'[At(rxIndex, k)] = rxBd[At(rxIndex, k)]
  BY Zenon, ReceiveKeepsRing, TagFacts DEF TagInv, Popped
<1>4. Behind' = Behind + 1 /\ held = Popped(svc.pc) + (Behind + 1) - 1
  BY <1>1, <1>3 DEF Behind
<1>5. /\ Len(pipe) \in Nat /\ Len(pipe) >= 1 /\ Len(pipe') = Len(pipe) - 1 /\ Head(pipe) = pipe[1]
      /\ \A k \in 1..Len(pipe') : pipe'[k] = pipe[k + 1]
  BY <1>1, <1>2
<1>6. Len(tags') = Behind' + Len(pipe')
  <2>1. Len(tags) = Behind + Len(pipe)
    BY Zenon DEF TagInv, TagForm
  <2> QED  BY <1>1, <1>3, <1>4, <1>5, <2>1
<1>7. ASSUME NEW k \in 1..Behind' PROVE tags'[k] = rxBd'[At(rxIndex', Popped(svc'.pc) + k - 1)].port
  <2>1. CASE k = Behind + 1
    <3>1. tags[Behind + 1] = pipe[1].port
      BY <1>5 DEF TagInv, TagForm
    <3> QED  BY Zenon, <1>1, <1>3, <1>4, <1>5, <2>1, <3>1
  <2>2. CASE k # Behind + 1
    <3>1. k \in 1..Behind /\ Popped(svc.pc) + k - 1 \in Rx \ {held}
      BY <1>3, <1>4, <2>2, Sizes DEF Rx
    <3> QED  BY Zenon, <1>1, <1>3, <3>1 DEF TagInv, TagForm
  <2> QED  BY Zenon, <2>1, <2>2
<1>8. ASSUME NEW k \in 1..Len(pipe') PROVE tags'[Behind' + k] = pipe'[k].port
  <2>1. k + 1 \in 1..Len(pipe) /\ Behind' + k = Behind + (k + 1)
    BY <1>3, <1>4, <1>5
  <2> QED  BY Zenon, <1>1, <1>5, <2>1 DEF TagInv, TagForm
<1>9. svc.pc = "copy" => rxBd'[rxIndex] = rxBd[rxIndex]
  <2>1. svc.pc = "copy" => 0 \in Rx \ {held}
    BY Sizes DEF TagInv, RingInv, RingOwnership, Rx
  <2>2. At(rxIndex, 0) = rxIndex
    BY Zenon, <1>2, AtFacts
  <2> QED  BY Zenon, <1>3, <2>1, <2>2
<1> QED  BY Zenon, <1>1, <1>6, <1>7, <1>8, <1>9 DEF TagInv, TagForm

\* The driver pops the tag of the descriptor it is about to read.
LEMMA PopKeepsTags ==
  ASSUME TagInv, IntTypes, SvcReceive, rx_pending
  PROVE  TagForm'
<1>1. /\ svc.pc = "recv" /\ svc' = [svc EXCEPT !.pc = "copy", !.tag = IF tags = <<>> THEN None ELSE Head(tags)]
      /\ tags' = IF tags = <<>> THEN tags ELSE Tail(tags)
      /\ UNCHANGED <<rxBd, rxIndex, hwRx, pipe>>
  BY Zenon DEF SvcReceive
<1>2. pipe \in Seq(PartType) /\ tags \in Seq(Ports) /\ rxIndex \in Rx /\ svc \in SvcType
  BY Zenon, RxParts DEF TagInv, RingInv
<1>3. svc'.pc = "copy" /\ svc'.tag = IF tags = <<>> THEN None ELSE Head(tags)
  BY Zenon, <1>1, <1>2 DEF SvcType
<1>4. held > 0 /\ held \in Nat /\ held <= RxCount /\ held' = held
  BY Zenon, <1>1, <1>3, ServiceKeepsRing, TagFacts DEF TagInv, held
<1>5. Behind = held /\ Behind' = held - 1 /\ Popped(svc.pc) = 0 /\ Popped(svc'.pc) = 1
  BY <1>1, <1>3, <1>4 DEF Behind, Popped
<1>6. Len(tags) = held + Len(pipe) /\ Len(pipe) \in Nat
  BY <1>2, <1>5 DEF TagInv, TagForm
<1>7. /\ tags # <<>> /\ Head(tags) = tags[1] /\ Len(tags') = Len(tags) - 1
      /\ \A k \in 1..Len(tags') : tags'[k] = tags[k + 1]
  BY <1>1, <1>2, <1>4, <1>6
<1>8. ASSUME NEW k \in 1..Behind' PROVE tags'[k] = rxBd[At(rxIndex, 1 + k - 1)].port
  <2>1. k \in 1..Len(tags') /\ k + 1 \in 1..Behind /\ 0 + (k + 1) - 1 = 1 + k - 1
    BY <1>4, <1>5, <1>6, <1>7
  <2>2. tags[k + 1] = rxBd[At(rxIndex, 0 + (k + 1) - 1)].port
    BY Zenon, <1>5, <2>1 DEF TagInv, TagForm
  <2> QED  BY Zenon, <1>7, <2>1, <2>2
<1>9. ASSUME NEW k \in 1..Len(pipe) PROVE tags'[Behind' + k] = pipe[k].port
  <2>1. Behind' + k \in 1..Len(tags') /\ (Behind' + k) + 1 = Behind + k
    BY <1>4, <1>5, <1>6, <1>7
  <2>2. tags[Behind + k] = pipe[k].port
    BY Zenon DEF TagInv, TagForm
  <2> QED  BY Zenon, <1>7, <2>1, <2>2
<1>10. svc'.tag = rxBd[rxIndex].port
  <2>1. 1 \in 1..Behind /\ 0 + 1 - 1 = 0
    BY <1>4, <1>5
  <2>2. tags[1] = rxBd[At(rxIndex, 0)].port
    BY ZenonT(30), <1>5, <2>1 DEF TagInv, TagForm
  <2> QED  BY Zenon, <1>2, <1>3, <1>7, <2>2, AtFacts
<1>11. Len(tags') = Behind' + Len(pipe)
  BY <1>4, <1>5, <1>6, <1>7
<1>12. \A k \in 1..Behind' : tags'[k] = rxBd'[At(rxIndex', Popped(svc'.pc) + k - 1)].port
  <2>1. rxBd' = rxBd /\ rxIndex' = rxIndex
    BY Zenon, <1>1
  <2> QED  BY Zenon, <2>1, <1>5, <1>8
<1> QED  BY Zenon, <1>1, <1>9, <1>10, <1>11, <1>12 DEF TagForm

\* Copying clears the descriptor whose tag was popped, and no other.
LEMMA CopyKeepsTags ==
  ASSUME TagInv, SvcCopy
  PROVE  TagForm'
<1>1. svc.pc = "copy" /\ svc'.pc = "tail" /\ held' = held /\ UNCHANGED <<rxIndex, pipe, tags>>
  BY Zenon, CopyKeepsRing DEF TagInv, SvcCopy
<1>2. Popped(svc.pc) = 1 /\ Popped(svc'.pc) = 1 /\ Behind' = Behind /\ Behind = held - 1
  BY Zenon, <1>1 DEF Popped, Behind
<1>3. Behind \in Nat /\ held \in Nat /\ held <= RxCount
  BY Zenon, TagFacts DEF TagInv
<1>4. ASSUME NEW k \in 1..Behind PROVE tags'[k] = rxBd'[At(rxIndex', Popped(svc'.pc) + k - 1)].port
  <2>1. 1 + k - 1 \in Rx \ {0}
    BY <1>2, <1>3, Sizes DEF Rx
  <2>2. rxBd'[At(rxIndex, 1 + k - 1)] = rxBd[At(rxIndex, 1 + k - 1)]
    BY Zenon, <2>1, CopyKeepsRing DEF TagInv
  <2>3. tags[k] = rxBd[At(rxIndex, 1 + k - 1)].port
    BY Zenon, <1>2 DEF TagInv, TagForm
  <2> QED  BY Zenon, <1>1, <1>2, <2>2, <2>3
<1> QED  BY Zenon, <1>1, <1>2, <1>4 DEF TagInv, TagForm

\* After the tail write positions are counted from the next descriptor.
LEMMA TailKeepsTags ==
  ASSUME TagInv, SvcTail
  PROVE  TagForm'
<1>1. /\ svc.pc = "tail" /\ svc'.pc = "drain" /\ held > 0 /\ held' = held - 1
      /\ \A k \in Rx : At(rxIndex', k) = At(rxIndex, k + 1)
      /\ UNCHANGED <<rxBd, pipe, tags>>
  BY Zenon, TailKeepsRing DEF TagInv, SvcTail
<1>2. Behind \in Nat /\ held \in Nat /\ held <= RxCount
  BY Zenon, TagFacts DEF TagInv
<1>3. Popped(svc.pc) = 1 /\ Popped(svc'.pc) = 0 /\ Behind' = Behind /\ Behind = held - 1
  BY <1>1, <1>2 DEF Popped, Behind
<1>4. ASSUME NEW k \in 1..Behind PROVE tags'[k] = rxBd'[At(rxIndex', Popped(svc'.pc) + k - 1)].port
  <2>1. 0 + k - 1 \in Rx /\ (0 + k - 1) + 1 = 1 + k - 1
    BY <1>2, <1>3, Sizes DEF Rx
  <2>2. At(rxIndex', 0 + k - 1) = At(rxIndex, 1 + k - 1)
    BY Zenon, <1>1, <2>1
  <2>3. tags[k] = rxBd[At(rxIndex, 1 + k - 1)].port
    BY ZenonT(30), <1>3 DEF TagInv, TagForm
  <2> QED  BY Zenon, <1>1, <1>3, <2>2, <2>3
<1> QED  BY Zenon, <1>1, <1>3, <1>4 DEF TagInv, TagForm

\* With one descriptor per frame, every step keeps FIFO and ring in step.
LEMMA TagsKept ==
  ASSUME MaxDescs = 1, TagInv, IntTypes, load \in Loads, [Next]_vars
  PROVE  TagForm'
<1>1. CASE RxQuiet
  <2>1. held' = held /\ Behind' = Behind
    BY Zenon, <1>1, QuietKeepsRing DEF TagInv, RxQuiet, Behind
  <2> QED  BY Zenon, <1>1, <2>1 DEF TagInv, TagForm, RxQuiet
<1>2. ASSUME NEW p \in load.ports, NEW n \in 1..MaxDescs, HwDequeue(p, n) PROVE TagForm'
  <2>1. n = 1
    OBVIOUS
  <2> QED  BY Zenon, <1>2, <2>1, DequeueKeepsTags
<1>3. CASE SvcWake \/ SvcDrain \/ SvcReceive \/ SvcFault \/ SvcAgain
  <2>1. CASE SvcReceive /\ rx_pending
    BY Zenon, <2>1, PopKeepsTags
  <2>2. CASE ~(SvcReceive /\ rx_pending)
    <3>1. /\ UNCHANGED <<rxBd, rxIndex, hwRx, pipe>> /\ svc \in SvcType
          /\ svc.pc \notin {"copy", "tail"} /\ svc'.pc # "tail" /\ (svc'.pc = "copy" => SvcReceive)
      BY Zenon, <1>3, ServiceKeepsRing, RxParts DEF TagInv, RingInv
    <3>2. tags' = tags /\ (SvcReceive => svc'.pc # "copy")
      BY Zenon, <1>3, <2>2, <3>1 DEF SvcWake, SvcDrain, SvcReceive, SvcFault, SvcAgain, SvcType
    <3>3. Popped(svc.pc) = 0 /\ Popped(svc'.pc) = 0 /\ Behind' = Behind /\ svc'.pc # "copy"
      BY Zenon, <3>1, <3>2 DEF Popped, Behind, held
    <3> QED  BY <3>1, <3>2, <3>3 DEF TagInv, TagForm
  <2> QED  BY Zenon, <2>1, <2>2
<1> QED  BY Zenon, <1>1, <1>2, <1>3, RxCases, ReceiveKeepsTags, CopyKeepsTags, TailKeepsTags

\* The frame handed to the stack carries the tag of its descriptor.
LEMMA GotKept ==
  ASSUME TagInv, TagLockstep, [Next]_vars PROVE TagLockstep'
<1>1. CASE SvcCopy
  <2>1. svc.tag = rxBd[rxIndex].port
    BY Zenon, <1>1 DEF SvcCopy, TagInv, TagForm
  <2> QED  BY Zenon, <1>1, <2>1 DEF SvcCopy, TagLockstep
<1>2. CASE got' = got
  BY Zenon, <1>2 DEF TagLockstep
<1>3. SvcCopy \/ got' = got
  BY Zenon, RxCases DEF RxQuiet, HwDequeue, HwReceive, SvcWake, SvcDrain, SvcReceive, SvcFault,
     SvcAgain, SvcTail
<1> QED  BY Zenon, <1>1, <1>2, <1>3

\* Where a frame fills one descriptor, driver, interrupts and engine agree on
\* who owns what in every reachable state, and every frame reaches the stack
\* with the tag of the port it came in on: DmaInv for any number of senders,
\* ports and descriptors, any drain limit, tag FIFO depth and load.
THEOREM DmaCorrect == ASSUME MaxDescs = 1 PROVE Spec => []DmaInv
<1> DEFINE IInv == TxInv /\ TagInv /\ TagLockstep
<1>1. Init => IInv
  <2> SUFFICES ASSUME Init PROVE TagForm /\ TagLockstep
    BY Zenon, TxStarts, RingStarts DEF TagInv
  <2>1. svc.pc = "wait" /\ hwRx.left = RxCount /\ tags = <<>> /\ pipe = <<>> /\ got = None
    BY Zenon DEF Init
  <2>2. Behind = 0 /\ Len(tags) = 0 /\ Len(pipe) = 0
    <3>1. held = 0 /\ Popped(svc.pc) = 0
      BY <2>1, Sizes DEF held, Popped
    <3> QED  BY <2>1, <3>1 DEF Behind
  <2> QED  BY <2>1, <2>2 DEF TagForm, TagLockstep
<1>2. IInv /\ [Next]_vars => IInv'
  BY Zenon, TxKept, RingKept, TagsKept, GotKept DEF TagInv, TxInv, TxTypes
<1>3. IInv => DmaInv
  BY Zenon, TagFacts, DmaParts DEF TagInv, RingInv, RxInv
<1> QED  BY <1>1, <1>2, <1>3, PTL DEF Spec

(***************************************************************************)
(* The I2C bus.  The startup task, the web interface and the sensor task   *)
(* exclude each other in time, and a power reading counts only after the   *)
(* device was configured in the same pass.                                 *)
(***************************************************************************)

\* The states of carrier_init.
Probes == [by : {Unset, "startup", "web"}, at : 0..9, wire : BOOLEAN, ok : BOOLEAN]

\* The states of the board's reader.
Carriers == [reset : BOOLEAN, mux : {"open", "closed"}, hub : BOOLEAN]

\* The states of a pass of sensors_task.
Passes == [pc : {"off", "wait", "point", "read", "configure"}, k : 1..7, wire : BOOLEAN,
           got : SUBSET Readings, valid : SUBSET Blocks]

\* The states of the INA260.
Inas == [pointer : {Registers[k] : k \in 1..7}, configured : BOOLEAN, ready : BOOLEAN, good : BOOLEAN]

\* The transfers of carrier_init and the registers of a pass, one by one.
LEMMA Steps ==
  /\ Len(Setup) = 9 /\ Setup[1] = "select" /\ Setup[2] = "read" /\ Setup[3] = "assert" /\ Setup[4] = "release"
  /\ Setup[5] = "open" /\ Setup[6] = "bypass" /\ Setup[7] = "access" /\ Setup[8] = "attach" /\ Setup[9] = "close"
BY Zenon DEF Setup

\* The registers of the INA260 in the order of a pass.
LEMMA Regs ==
  /\ Len(Registers) = 7 /\ Registers[1] = "manufacturer" /\ Registers[2] = "device" /\ Registers[3] = "config"
  /\ Registers[4] = "flags" /\ Registers[5] = "current" /\ Registers[6] = "voltage" /\ Registers[7] = "power"
BY Zenon DEF Registers

\* The types as the records above.
LEMMA SensorTyped ==
  SensorTypeOK <=> /\ {tasks, attempted, bus, iic_ready} \subseteq BOOLEAN /\ usb \in {Unset, "failed", "up"}
             /\ probe \in Probes /\ carrier \in Carriers /\ monitor_mask \subseteq Blocks /\ sensor \in Passes /\ ina \in Inas
BY ZenonT(30), Steps, Regs DEF SensorTypeOK, Probes, Carriers, Passes, Inas

\* What the setup of the reader leaves to its next step.
LEMMA EffectStep ==
  ASSUME carrier \in Carriers, probe \in Probes, probe.by # Unset, ProbeSound
  PROVE  /\ Effect(Setup[probe.at]) \in Carriers
         /\ probe.at > 3 /\ probe.ok => ~Effect(Setup[probe.at]).reset
         /\ probe.at > 4 /\ probe.at < 9 /\ probe.ok => Effect(Setup[probe.at]).mux = "open"
         /\ probe.at > 7 /\ probe.ok => Effect(Setup[probe.at]).hub
         /\ probe.at = 9 /\ probe.ok => Effect(Setup[probe.at]) = [reset |-> FALSE, mux |-> "closed", hub |-> TRUE]
<1>a. probe.at \in 1..9 /\ probe.ok \in BOOLEAN
  BY DEF Probes, ProbeSound
<1>c. /\ probe.ok /\ probe.at > 4 => ~carrier.reset
      /\ probe.ok /\ probe.at > 5 => carrier.mux = "open"
      /\ probe.ok /\ probe.at > 8 => carrier.hub
  BY Zenon DEF ProbeSound
<1>t. carrier.reset \in BOOLEAN /\ carrier.hub \in BOOLEAN /\ carrier.mux \in {"open", "closed"}
  BY Zenon DEF Carriers
<1>1. CASE probe.at \in {1, 2, 6, 7}
  <2>1. Effect(Setup[probe.at]) = carrier
    BY Zenon, <1>1, Steps DEF Effect
  <2> QED  BY <1>1, <1>a, <1>c, <2>1
<1>2. CASE probe.at = 3
  <2>1. Effect(Setup[probe.at]) = [carrier EXCEPT !.reset = TRUE, !.hub = FALSE]
    BY Zenon, <1>2, Steps DEF Effect
  <2>2. [carrier EXCEPT !.reset = TRUE, !.hub = FALSE] \in Carriers
    BY Zenon DEF Carriers
  <2>3. ~(probe.at > 3) /\ ~(probe.at > 4) /\ ~(probe.at > 7) /\ ~(probe.at = 9)
    BY <1>2
  <2> QED  BY Zenon, <2>1, <2>2, <2>3
<1>3. CASE probe.at = 4
  <2>1. Effect(Setup[probe.at]) = [carrier EXCEPT !.reset = FALSE]
    BY Zenon, <1>3, Steps DEF Effect
  <2>2. [carrier EXCEPT !.reset = FALSE] \in Carriers /\ ~[carrier EXCEPT !.reset = FALSE].reset
    BY Zenon DEF Carriers
  <2>3. ~(probe.at > 4) /\ ~(probe.at > 7) /\ ~(probe.at = 9)
    BY <1>3
  <2> QED  BY ZenonT(30), <2>1, <2>2, <2>3
<1>4. CASE probe.at = 5
  <2>1. Effect(Setup[probe.at]) = [carrier EXCEPT !.mux = "open"]
    BY Zenon, <1>4, Steps DEF Effect
  <2> QED  BY <1>4, <1>c, <2>1 DEF Carriers
<1>5. CASE probe.at = 8
  <2> DEFINE h == (carrier.mux = "open" /\ ~carrier.reset)
  <2>1. Effect(Setup[probe.at]) = [carrier EXCEPT !.hub = h]
    BY Zenon, <1>5, Steps DEF Effect
  <2>2. h \in BOOLEAN /\ (probe.ok => h)
    BY <1>5, <1>c
  <2> HIDE DEF h
  <2>3. [carrier EXCEPT !.hub = h] \in Carriers /\ [carrier EXCEPT !.hub = h].hub = h
        /\ [carrier EXCEPT !.hub = h].mux = carrier.mux /\ [carrier EXCEPT !.hub = h].reset = carrier.reset
    BY Zenon, <2>2 DEF Carriers
  <2> QED  BY SMTT(30), <1>5, <1>c, <2>1, <2>2, <2>3
<1>6. CASE probe.at = 9
  <2>1. Effect(Setup[probe.at]) = [carrier EXCEPT !.mux = "closed"]
    BY Zenon, <1>6, Steps DEF Effect
  <2>2. /\ [carrier EXCEPT !.mux = "closed"] \in Carriers
        /\ [carrier EXCEPT !.mux = "closed"] = [reset |-> carrier.reset, mux |-> "closed", hub |-> carrier.hub]
    BY DEF Carriers
  <2>3. [carrier EXCEPT !.mux = "closed"].reset = carrier.reset /\ [carrier EXCEPT !.mux = "closed"].hub = carrier.hub
    BY Zenon DEF Carriers
  <2>4. probe.ok => carrier.reset = FALSE /\ carrier.hub = TRUE
    BY <1>6, <1>c, <1>t
  <2>5. ~(probe.at < 9)
    BY <1>6
  <2>6. probe.ok => ~carrier.reset /\ carrier.hub
    BY Zenon, <2>4
  <2> QED  BY ZenonT(30), <2>1, <2>2, <2>3, <2>4, <2>5, <2>6
<1>7. probe.at \in {1, 2, 6, 7} \/ probe.at = 3 \/ probe.at = 4 \/ probe.at = 5 \/ probe.at = 8 \/ probe.at = 9
  BY <1>a
<1> QED  BY Zenon, <1>1, <1>2, <1>3, <1>4, <1>5, <1>6, <1>7

\* Values the probe and the sensor task are reset to.
LEMMA Resets ==
  /\ NoProbe \in Probes /\ NoProbe.by = Unset /\ Waiting \in Passes /\ Waiting.pc = "wait" /\ Waiting.k = 1
  /\ Waiting.got = {} /\ Waiting.valid = {} /\ Taken(1) = {}
<1>1. NoProbe \in Probes /\ NoProbe.by = Unset
  BY DEF NoProbe, Probes, Unset
<1>2. Waiting \in Passes /\ Waiting.pc = "wait" /\ Waiting.k = 1 /\ Waiting.got = {} /\ Waiting.valid = {}
  BY DEF Waiting, Passes
<1>3. Taken(1) = {}
  BY DEF Taken
<1> QED  BY ZenonT(30), <1>1, <1>2, <1>3

\* A step of the setup, in the variables it changes.
ProbeGood == /\ probe' \in Probes /\ usb' \in {Unset, "failed", "up"}
             /\ probe'.by # Unset => probe'.by = probe.by /\ usb' = Unset /\ probe'.at # 0

\* A transfer of carrier_init that fails ends the call, or goes on to the next with the
\* hub marked as not set up.
LEMMA AfterFailureStep ==
  ASSUME probe \in Probes, probe.by # Unset, ProbeSound, AfterFailure
  PROVE  ProbeGood /\ usb' # "up" /\ (probe'.by # Unset => ~probe'.ok)
<1>u. usb = Unset /\ Unset # "up" /\ Unset # "failed"
  BY Zenon DEF ProbeSound, Unset
<1>1. CASE probe' = [probe EXCEPT !.at = Len(Setup), !.wire = FALSE, !.ok = FALSE] /\ usb' = usb
  <2>1. probe' = [probe EXCEPT !.at = 9, !.wire = FALSE, !.ok = FALSE]
    BY ZenonT(30), <1>1, Steps
  <2>2. probe' \in Probes /\ probe'.by = probe.by /\ probe'.at = 9 /\ probe'.ok = FALSE
    <3>1. probe.by \in {Unset, "startup", "web"} /\ 9 \in 0..9 /\ FALSE \in BOOLEAN
      BY DEF Probes
    <3>2. probe' = [by |-> probe.by, at |-> 9, wire |-> FALSE, ok |-> FALSE]
      BY Zenon, <2>1 DEF Probes
    <3>3. probe' \in Probes
      BY Zenon, <3>1, <3>2 DEF Probes
    <3> QED  BY Zenon, <3>2, <3>3
  <2>3. probe'.at # 0
    BY <2>2
  <2> QED  BY ZenonT(30), <1>1, <1>u, <2>2, <2>3 DEF ProbeGood
<1>2. CASE usb' = "failed" /\ probe' = NoProbe
  BY Zenon, <1>2, <1>u, Resets DEF ProbeGood
<1> QED  BY Zenon, <1>1, <1>2 DEF AfterFailure

\* A transfer of carrier_init that succeeds goes on to the next one, and only the last
\* of them, with all before it successful, reports the reader set up.
LEMMA AfterSuccessStep ==
  ASSUME probe \in Probes, probe.by # Unset, ProbeSound, AfterSuccess
  PROVE  /\ ProbeGood
         /\ probe'.by # Unset => probe.at \in 1..8 /\ probe'.at = probe.at + 1 /\ probe'.ok = probe.ok
         /\ usb' = "up" => probe.ok /\ probe.at = 9
<1>u. usb = Unset /\ Unset # "up" /\ Unset # "failed"
  BY Zenon DEF ProbeSound, Unset
<1>a. probe.at \in 1..9
  BY DEF Probes, ProbeSound
<1>1. CASE probe.at = 9 /\ usb' = (IF probe.ok THEN "up" ELSE "failed") /\ probe' = NoProbe
  BY Zenon, <1>1, <1>u, Resets DEF ProbeGood
<1>2. CASE probe.at # 9 /\ probe' = [probe EXCEPT !.at = @ + 1, !.wire = FALSE] /\ usb' = usb
  <2> DEFINE n == probe.at + 1
  <2>1. n \in 0..9 /\ n # 0 /\ probe.at \in 1..8
    BY <1>2, <1>a
  <2>2. probe' = [probe EXCEPT !.at = n, !.wire = FALSE]
    BY Zenon, <1>2
  <2>n. n = probe.at + 1
    BY Zenon
  <2> HIDE DEF n
  <2>3. probe' \in Probes /\ probe'.by = probe.by /\ probe'.at = n /\ probe'.ok = probe.ok
    BY ZenonT(30), <2>1, <2>2 DEF Probes
  <2> QED  BY Zenon, <2>1, <2>3, <2>n, <1>2, <1>u DEF ProbeGood
<1> QED  BY ZenonT(30), <1>1, <1>2, Steps DEF AfterSuccess

\* The sensor task, once there, stays.
LEMMA PassKeeps ==
  ASSUME sensor \in Passes, PassSound, Wake \/ TransferStart \/ TransferEnd \/ Convert \/ Release \/ UNCHANGED sensorVars
  PROVE  sensor'.pc = "off" <=> sensor.pc = "off"
<1>w. Waiting.pc = "wait" /\ Waiting \in Passes
  BY Zenon, Resets
<1>x. \A ok : [Waiting EXCEPT !.pc = "point", !.valid = ok].pc = "point"
  BY Zenon DEF Waiting
<1>1. CASE Wake
  BY Zenon, <1>1, <1>x DEF Wake
<1>2. CASE TransferStart
  <2>1. sensor.pc # "off" /\ (sensor' = Waiting \/ sensor' = [sensor EXCEPT !.wire = TRUE])
    BY Zenon, <1>2 DEF TransferStart, Failed, PublishSample
  <2>2. [sensor EXCEPT !.wire = TRUE].pc = sensor.pc
    BY Zenon DEF Passes
  <2> QED  BY ZenonT(30), <2>1, <2>2, <1>w
<1>4. CASE Convert \/ Release \/ UNCHANGED sensorVars
  BY Zenon, <1>4 DEF Convert, Release, sensorVars
<1>3. CASE TransferEnd
  <2>1. sensor.pc \in {"point", "read", "configure"}
    BY Zenon, <1>3 DEF TransferEnd, PassSound
  <2>2. \/ sensor' = Waiting
        \/ \E n, g, q : /\ q \in {"point", "read", "configure"}
                        /\ \/ sensor' = [sensor EXCEPT !.pc = q, !.wire = FALSE, !.k = n, !.got = g]
                           \/ sensor' = [sensor EXCEPT !.pc = q, !.wire = FALSE]
    BY Zenon, <1>3 DEF TransferEnd, AfterRead, Failed, PublishSample
  <2>4. sensor'.pc \in {"wait", "point", "read", "configure"}
    <3>1. CASE sensor' = Waiting
      BY Zenon, <3>1, <1>w
    <3>2. CASE sensor' # Waiting
      <4>1. PICK n, g, q :
              /\ q \in {"point", "read", "configure"}
              /\ \/ sensor' = [sensor EXCEPT !.pc = q, !.wire = FALSE, !.k = n, !.got = g]
                 \/ sensor' = [sensor EXCEPT !.pc = q, !.wire = FALSE]
        BY Zenon, <3>2, <2>2
      <4>2. sensor'.pc = q
        <5>1. CASE sensor' = [sensor EXCEPT !.pc = q, !.wire = FALSE, !.k = n, !.got = g]
          BY Zenon, <5>1 DEF Passes
        <5>2. CASE sensor' = [sensor EXCEPT !.pc = q, !.wire = FALSE]
          BY Zenon, <5>2 DEF Passes
        <5> QED  BY ZenonT(30), <4>1, <5>1, <5>2
      <4> QED  BY Zenon, <4>1, <4>2
    <3> QED  BY Zenon, <3>1, <3>2
  <2> QED  BY Zenon, <2>1, <2>4
<1> QED  BY ZenonT(30), <1>1, <1>2, <1>3, <1>4
\* The one who probes keeps the setup in order; nobody else touches the board.
LEMMA ProbeStep ==
  ASSUME SensorTypeOK, ProbeSound, PassSound, CarrierReady, [SensorNext]_sensorVars
  PROVE  /\ ProbeSound' /\ CarrierReady' /\ probe' \in Probes /\ carrier' \in Carriers /\ usb' \in {Unset, "failed", "up"}
         /\ {tasks', attempted', bus'} \subseteq BOOLEAN
<1> DEFINE Good == /\ ProbeSound' /\ CarrierReady' /\ probe' \in Probes /\ carrier' \in Carriers
                   /\ usb' \in {Unset, "failed", "up"} /\ {tasks', attempted', bus'} \subseteq BOOLEAN
<1>t. /\ tasks \in BOOLEAN /\ attempted \in BOOLEAN /\ bus \in BOOLEAN /\ probe \in Probes /\ carrier \in Carriers
      /\ usb \in {Unset, "failed", "up"} /\ sensor \in Passes
  BY Zenon, SensorTyped
<1>n. Unset # "startup" /\ Unset # "web" /\ Unset # "up" /\ Unset # "failed"
  BY Zenon DEF Unset
<1>1. ASSUME NEW t \in {"startup", "web"}, usb_storage_probe(t) PROVE Good
  <2>1. UNCHANGED <<tasks, carrier, bus, sensor>> /\ attempted' = TRUE /\ ~attempted /\ probe.by = Unset
    BY Zenon, <1>1 DEF usb_storage_probe, FirstProbe
  <2>2. usb = Unset /\ ~tasks
    BY Zenon, <2>1 DEF ProbeSound
  <2>3. CASE probe' = [NoProbe EXCEPT !.by = t, !.at = 1] /\ usb' = usb
    <3>1. probe' \in Probes /\ probe'.by = t /\ probe'.at = 1
      <4>1. probe' = [by |-> t, at |-> 1, wire |-> FALSE, ok |-> TRUE]
        BY Zenon, <2>3 DEF NoProbe
      <4> QED  BY <4>1 DEF Probes
    <3>2. ProbeSound'
      BY <2>1, <2>2, <2>3, <3>1 DEF ProbeSound
    <3>3. CarrierReady'
      BY Zenon, <2>2, <2>3, <1>n DEF CarrierReady
    <3> QED  BY ZenonT(30), <2>1, <2>3, <3>1, <3>2, <3>3, <1>t
  <2>4. CASE usb' = "failed" /\ probe' = probe
    <3>1. ProbeSound'
      BY ZenonT(30), <2>1, <2>2, <2>4 DEF ProbeSound
    <3>2. CarrierReady'
      BY Zenon, <2>4 DEF CarrierReady
    <3> QED  BY Zenon, <2>1, <2>4, <3>1, <3>2, <1>t
  <2> QED  BY Zenon, <1>1, <2>3, <2>4 DEF usb_storage_probe
<1>2. CASE ProbeStart
  <2>0. UNCHANGED <<tasks, attempted, carrier, bus, sensor>> /\ probe.by # Unset
    BY Zenon, <1>2 DEF ProbeStart
  <2>1. attempted /\ ~tasks /\ usb = Unset
    BY Zenon, <2>0 DEF ProbeSound
  <2>2. CASE AfterFailure
    <3>1. ProbeGood /\ usb' # "up" /\ (probe'.by # Unset => ~probe'.ok)
      BY ZenonT(30), <2>0, <2>2, <1>t, AfterFailureStep
    <3>2. ProbeSound'
      BY Zenon, <2>0, <2>1, <3>1 DEF ProbeSound, ProbeGood
    <3> QED  BY ZenonT(30), <2>0, <3>1, <3>2, <1>t DEF ProbeGood, CarrierReady
  <2>3. CASE probe' = [probe EXCEPT !.wire = TRUE] /\ usb' = usb
    <3>1. probe' \in Probes /\ probe'.by = probe.by /\ probe'.at = probe.at /\ probe'.ok = probe.ok
      BY Zenon, <2>3, <1>t DEF Probes
    <3>2. ProbeSound' /\ CarrierReady'
      BY Zenon, <2>0, <2>3, <3>1 DEF ProbeSound, CarrierReady
    <3> QED  BY ZenonT(30), <2>0, <2>3, <3>1, <3>2, <1>t
  <2> QED  BY ZenonT(30), <1>2, <2>2, <2>3 DEF ProbeStart
<1>3. CASE ProbeEnd
  <2>0. UNCHANGED <<tasks, attempted, sensor>> /\ probe.by # Unset /\ bus' \in BOOLEAN
    BY Zenon, <1>3 DEF ProbeEnd
  <2>1. attempted /\ ~tasks /\ usb = Unset
    BY Zenon, <2>0 DEF ProbeSound
  <2>e. Effect(Setup[probe.at]) \in Carriers
    BY Zenon, <1>t, <2>0, EffectStep
  <2>2. CASE AfterFailure /\ carrier' \in {Effect(Setup[probe.at]), carrier}
    <3>1. ProbeGood /\ usb' # "up" /\ (probe'.by # Unset => ~probe'.ok)
      BY ZenonT(30), <2>0, <2>2, <1>t, AfterFailureStep
    <3>2. ProbeSound'
      BY ZenonT(30), <2>0, <2>1, <3>1 DEF ProbeSound, ProbeGood
    <3>3. carrier' \in Carriers
      BY ZenonT(30), <2>2, <2>e, <1>t
    <3> QED  BY ZenonT(30), <2>0, <3>1, <3>2, <3>3, <1>t DEF ProbeGood, CarrierReady
  <2>3. CASE AfterSuccess /\ carrier' = Effect(Setup[probe.at])
    <3>1. /\ ProbeGood /\ (usb' = "up" => probe.ok /\ probe.at = 9)
          /\ probe'.by # Unset => probe.at \in 1..8 /\ probe'.at = probe.at + 1 /\ probe'.ok = probe.ok
      BY ZenonT(30), <2>0, <2>3, <1>t, AfterSuccessStep
    <3>2. CarrierReady'
      BY ZenonT(30), <2>0, <2>3, <3>1, <1>t, EffectStep DEF CarrierReady
    <3>3. ASSUME probe'.by # Unset, probe'.ok
          PROVE  /\ probe'.at > 4 => ~carrier'.reset
                 /\ probe'.at > 5 => carrier'.mux = "open"
                 /\ probe'.at > 8 => carrier'.hub
      <4>1. /\ probe'.at > 4 => probe.at > 3
            /\ probe'.at > 5 => probe.at > 4 /\ probe.at < 9
            /\ probe'.at > 8 => probe.at > 7
        <5>1. probe.at \in 1..8 /\ probe'.at = probe.at + 1
          BY Zenon, <3>1, <3>3
        <5> QED  BY <5>1
      <4>2. probe.ok
        BY Zenon, <3>1, <3>3
      <4> QED  BY ZenonT(30), <4>1, <4>2, <2>0, <2>3, <1>t, EffectStep
    <3>4. ProbeSound'
      BY ZenonT(30), <2>0, <2>1, <3>1, <3>3 DEF ProbeSound, ProbeGood
    <3>5. carrier' \in Carriers
      BY Zenon, <2>3, <2>e
    <3> QED  BY ZenonT(30), <2>0, <3>1, <3>2, <3>4, <3>5, <1>t DEF ProbeGood
  <2>4. PICK out \in Outcomes :
          /\ IF out = "done" THEN AfterSuccess ELSE AfterFailure
          /\ carrier' \in {Effect(Setup[probe.at])} \union (IF out = "done" THEN {} ELSE {carrier})
    BY Zenon, <1>3 DEF ProbeEnd
  <2> QED  BY ZenonT(30), <2>2, <2>3, <2>4
<1>4. CASE Startup
  <2>1. /\ ~tasks /\ attempted /\ probe.by = Unset /\ tasks' = TRUE /\ sensor' = Waiting
        /\ UNCHANGED <<attempted, probe, carrier, usb, bus>>
    BY Zenon, <1>4 DEF Startup
  <2>2. sensor'.pc # "off"
    BY Zenon, <2>1, Resets
  <2>3. ProbeSound'
    BY Zenon, <2>1, <2>2 DEF ProbeSound
  <2> QED  BY ZenonT(30), <2>1, <2>3, <1>t DEF CarrierReady
<1>5. CASE Wake \/ TransferStart \/ TransferEnd \/ Convert \/ Release \/ UNCHANGED sensorVars
  <2>1. UNCHANGED <<tasks, attempted, probe, carrier, usb>> /\ bus' \in BOOLEAN
    BY Zenon, <1>5, <1>t DEF Wake, TransferStart, TransferEnd, Convert,
        Release, sensorVars
  <2>2. sensor'.pc = "off" <=> sensor.pc = "off"
    BY ZenonT(30), <1>5, <1>t, PassKeeps
  <2>3. ProbeSound'
    BY Zenon, <2>1, <2>2 DEF ProbeSound
  <2> QED  BY ZenonT(30), <2>1, <2>3, <1>t DEF CarrierReady
<1> QED  BY ZenonT(30), <1>1, <1>2, <1>3, <1>4, <1>5 DEF SensorNext

\* The readings gathered, register by register.
LEMMA TakenSteps ==
  /\ \A k \in 1..5 : Taken(k) = {}
  /\ \A k \in 5..7 : Taken(k + 1) = Taken(k) \union {<<Registers[k], Registers[k], TRUE>>}
  /\ Taken(6) = {<<"current", "current", TRUE>>}
  /\ Taken(7) = {<<"current", "current", TRUE>>, <<"voltage", "voltage", TRUE>>}
  /\ Taken(8) = Readings
<1> DEFINE T(k) == <<Registers[k], Registers[k], TRUE>>
<1>1. ASSUME NEW k \in 1..5 PROVE Taken(k) = {}
  <2>1. 5..(k - 1) = {}
    OBVIOUS
  <2> QED  BY Zenon, <2>1 DEF Taken
<1>2. ASSUME NEW k \in 5..7 PROVE Taken(k + 1) = Taken(k) \union {T(k)}
  <2>1. 5..((k + 1) - 1) = 5..(k - 1) \union {k}
    OBVIOUS
  <2> QED  BY Zenon, <2>1 DEF Taken
<1>3. T(5) = <<"current", "current", TRUE>> /\ T(6) = <<"voltage", "voltage", TRUE>> /\ T(7) = <<"power", "power", TRUE>>
  BY Zenon, Regs
<1>4. Taken(5) = {} /\ 5 \in 5..7 /\ 6 \in 5..7 /\ 7 \in 5..7 /\ 5 + 1 = 6 /\ 6 + 1 = 7 /\ 7 + 1 = 8
  BY <1>1
<1> HIDE DEF T
<1>5. Taken(6) = {T(5)}
  BY Zenon, <1>2, <1>4
<1>6. Taken(7) = {T(5), T(6)}
  BY ZenonT(30), <1>2, <1>4, <1>5
<1>7. Taken(8) = {T(5), T(6), T(7)}
  BY ZenonT(30), <1>2, <1>4, <1>6
<1>8. Taken(8) = Readings
  BY Zenon, <1>7, <1>3 DEF Readings
<1> QED  BY ZenonT(30), <1>1, <1>2, <1>3, <1>5, <1>6, <1>8 DEF T

\* What a pass has read by register k are readings.
LEMMA TakenTyped == \A k \in 1..7 : Taken(k) \in SUBSET Readings
<1>1. \A k \in 1..7 : k \in 1..5 \/ k = 6 \/ k = 7
  OBVIOUS
<1> QED  BY Zenon, <1>1, TakenSteps DEF Readings

\* The complete set of readings is genuine.
LEMMA ReadingsGenuine ==
  /\ Readings # {} /\ {g[1] : g \in Readings} = {"current", "voltage", "power"}
  /\ \A g \in Readings : g[2] = g[1] /\ g[3]
<1> DEFINE S == {"current", "voltage", "power"}
           T(r) == <<r, r, TRUE>>
<1>1. \A r \in S : T(r)[1] = r /\ T(r)[2] = r /\ T(r)[3] = TRUE
  BY Zenon
<1>2. Readings = {T(r) : r \in S}
  BY Zenon DEF Readings
<1> HIDE DEF T
<1>3. "current" \in S
  BY Zenon
<1> HIDE DEF S
<1>4. Readings # {}
  BY Zenon, <1>2, <1>3
<1>5. ASSUME NEW g \in Readings PROVE g[1] \in S /\ g[2] = g[1] /\ g[3]
  <2>1. PICK r \in S : g = T(r)
    BY Zenon, <1>2
  <2>2. g[1] = r /\ g[2] = r /\ g[3] = TRUE
    BY Zenon, <1>1, <2>1
  <2> QED  BY Zenon, <2>2
<1>6. ASSUME NEW r \in S PROVE \E g \in Readings : r = g[1]
  BY Zenon, <1>1, <1>2
<1>7. {g[1] : g \in Readings} = S
  BY Zenon, <1>5, <1>6
<1> QED  BY ZenonT(30), <1>4, <1>5, <1>7 DEF S

\* What a transfer leaves in the INA260.
LEMMA ReachedStep ==
  ASSUME ina \in Inas, sensor \in Passes, PassSound
  PROVE  /\ Reached \in Inas
         /\ sensor.pc = "point" => Reached.pointer = Reg
         /\ ina.configured => Reached.configured
         /\ Reached.configured /\ Reached.ready => Reached.good
         /\ sensor.pc # "configure" /\ ina.good => Reached.good
<1>k. sensor.k \in 1..7 /\ Reg \in {Registers[j] : j \in 1..7}
  BY Zenon DEF Passes, Reg
<1>t. ina.ready \in BOOLEAN
  BY Zenon DEF Inas
<1>1. CASE sensor.pc = "point"
  <2>1. Reached = [ina EXCEPT !.pointer = Reg]
    BY Zenon, <1>1 DEF Reached
  <2>2. Reached \in Inas /\ Reached.pointer = Reg /\ Reached.configured = ina.configured /\ Reached.ready = ina.ready /\ Reached.good = ina.good
    BY Zenon, <2>1, <1>k DEF Inas
  <2> QED  BY Zenon, <2>2 DEF PassSound
<1>2. CASE sensor.pc = "configure"
  <2>1. Reached = [ina EXCEPT !.pointer = "config", !.configured = TRUE, !.ready = FALSE, !.good = FALSE]
    BY Zenon, <1>2 DEF Reached
  <2>2. "config" \in {Registers[j] : j \in 1..7}
    BY Regs
  <2>3. Reached = [pointer |-> "config", configured |-> TRUE, ready |-> FALSE, good |-> FALSE]
    BY Zenon, <2>1 DEF Inas
  <2>4. Reached \in Inas
    BY Zenon, <2>2, <2>3 DEF Inas
  <2> QED  BY ZenonT(30), <1>2, <2>3, <2>4
<1>3. CASE sensor.pc # "point" /\ sensor.pc # "configure"
  <2> DEFINE r == ina.ready /\ ina.pointer # "flags"
  <2>1. Reached = [ina EXCEPT !.ready = r]
    BY Zenon, <1>3 DEF Reached
  <2>2. r \in BOOLEAN /\ (r => ina.ready)
    BY Zenon
  <2> HIDE DEF r
  <2>3. Reached \in Inas /\ Reached.configured = ina.configured /\ Reached.ready = r /\ Reached.good = ina.good
    BY Zenon, <2>1, <2>2 DEF Inas
  <2> QED  BY ZenonT(30), <1>3, <2>2, <2>3 DEF PassSound
<1> QED  BY ZenonT(30), <1>1, <1>2, <1>3

\* What a pass must keep, of the task, the device and what it publishes.
PassGood == PassSound' /\ PowerGenuine' /\ sensor' \in Passes /\ ina' \in Inas

\* A pass that ends without a reading.
LEMMA FailedStep ==
  ASSUME SensorAssumption, sensor \in Passes, PassSound, PowerGenuine, Failed, ina' \in Inas,
         ina'.configured /\ ina'.ready => ina'.good
  PROVE  PassGood
<1>1. /\ sensor' = Waiting /\ latest' = [valid |-> sensor.valid, power |-> latest.power]
  BY Zenon DEF Failed, PublishSample
<1>2. latest'.valid = sensor.valid /\ latest'.power = latest.power /\ sensor.valid \in SUBSET Blocks
  BY Zenon, <1>1 DEF Passes
<1>3. PowerGenuine'
  BY Zenon, <1>2 DEF PowerGenuine, SensorAssumption
<1>4. PassSound'
  <2>1. sensor'.pc = "wait" /\ sensor'.k = 1 /\ sensor'.got = Taken(1) /\ sensor'.wire = FALSE
    BY Zenon, <1>1, Resets DEF Waiting
  <2>2. sensor'.got = Taken(sensor'.k) /\ ~(sensor'.k > 3) /\ ~(sensor'.k > 4) /\ sensor'.pc # "read" /\ sensor'.pc # "configure"
    BY <2>1
  <2> QED  BY Zenon, <2>1, <2>2 DEF PassSound
<1> QED  BY ZenonT(30), <1>1, <1>3, <1>4, Resets DEF PassGood

\* A register has been read.
LEMMA AfterReadStep ==
  ASSUME SensorAssumption, sensor \in Passes, ina \in Inas, PassSound, PowerGenuine, sensor.pc = "read", AfterRead,
         ina' = Reached
  PROVE  PassGood
<1> DEFINE k == sensor.k
           read == IF k > 4 THEN sensor.got \union {<<Reg, ina.pointer, ina.good>>} ELSE {}
<1>t. k \in 1..7 /\ sensor.valid \in SUBSET Blocks /\ ina.good \in BOOLEAN /\ sensor.got \in SUBSET Readings
  BY Zenon DEF Passes, Inas
<1>i. /\ ina' \in Inas /\ (ina'.configured /\ ina'.ready => ina'.good)
      /\ (ina.configured => ina'.configured) /\ (ina.good => ina'.good)
  <2>1. sensor.pc # "configure"
    BY Zenon
  <2> QED  BY Zenon, <2>1, ReachedStep
<1>g. read = Taken(k + 1)
  <2>1. CASE k > 4
    <3>1. k \in 5..7 /\ ina.good = TRUE
      BY <2>1, <1>t DEF PassSound
    <3>2. read = Taken(k) \union {<<Registers[k], Registers[k], TRUE>>}
      BY Zenon, <2>1, <3>1 DEF PassSound, Reg
    <3> QED  BY Zenon, <3>1, <3>2, TakenSteps
  <2>2. CASE ~(k > 4)
    <3>1. k + 1 \in 1..5
      BY <2>2, <1>t
    <3> QED  BY Zenon, <2>2, <3>1, TakenSteps
  <2> QED  BY Zenon, <2>1, <2>2
<1>1. CASE Failed
  BY ZenonT(30), <1>1, <1>i, FailedStep
<1>2. CASE Reg = "config" /\ ~ina.configured /\ sensor' = [sensor EXCEPT !.pc = "configure", !.wire = FALSE] /\ latest' = latest
  <2>1. k = 3
    <3>1. Registers[k] = "config"
      BY ZenonT(30), <1>2 DEF Reg
    <3> QED  BY <3>1, <1>t, Regs
  <2>2. sensor' \in Passes /\ sensor'.pc = "configure" /\ sensor'.k = 3 /\ sensor'.got = sensor.got
    BY Zenon, <1>2, <2>1 DEF Passes
  <2>3. ~(sensor'.k > 3) /\ ~(sensor'.k > 4) /\ sensor'.pc # "read"
    BY <2>2
  <2>4. PassSound'
    BY ZenonT(30), <2>1, <2>2, <2>3, <1>i DEF PassSound
  <2> QED  BY ZenonT(30), <1>2, <1>i, <2>2, <2>4 DEF PassGood, PowerGenuine
<1>3. CASE k = 7 /\ PublishSample(sensor.valid \union {"ina"}, read)
  <2>1. read = Readings
    <3>1. k + 1 = 8
      BY <1>3
    <3> QED  BY Zenon, <1>g, <3>1, TakenSteps
  <2>2. sensor' = Waiting /\ latest' = [valid |-> sensor.valid \union {"ina"}, power |-> Readings]
    BY Zenon, <1>3, <2>1 DEF PublishSample
  <2>3. latest'.power = Readings
    BY Zenon, <2>2
  <2>4. PowerGenuine'
    BY Zenon, <2>3, ReadingsGenuine DEF PowerGenuine
  <2>5. sensor'.pc = "wait" /\ sensor'.k = 1 /\ sensor'.got = Taken(1) /\ sensor'.wire = FALSE
    BY Zenon, <2>2, Resets DEF Waiting
  <2>6. sensor'.got = Taken(sensor'.k) /\ ~(sensor'.k > 3) /\ ~(sensor'.k > 4) /\ sensor'.pc # "read" /\ sensor'.pc # "configure"
    BY <2>5
  <2>7. PassSound'
    BY Zenon, <2>5, <2>6, <1>i DEF PassSound
  <2> QED  BY Zenon, <2>2, <2>4, <2>7, <1>i, Resets DEF PassGood
<1>4. CASE /\ Reg = "config" => ina.configured
           /\ Reg = "flags" => ina.ready
           /\ k < 7
           /\ sensor' = [sensor EXCEPT !.pc = "point", !.wire = FALSE, !.k = @ + 1, !.got = read] /\ latest' = latest
  <2> DEFINE n == k + 1
             g == Taken(n)
  <2>1. n \in 1..7 /\ g \in SUBSET Readings
    <3>1. n \in 1..7
      BY <1>4, <1>t
    <3> QED  BY Zenon, <3>1, TakenTyped
  <2>2. sensor' = [sensor EXCEPT !.pc = "point", !.wire = FALSE, !.k = n, !.got = g]
    BY Zenon, <1>4, <1>g
  <2>3. (n > 3 => ina.configured) /\ (n > 4 => ina.good)
    <3>1. CASE k > 4
      <4>1. k > 3
        BY <3>1, <1>t
      <4> QED  BY Zenon, <3>1, <4>1 DEF PassSound
    <3>2. CASE k = 4
      <4>1. Reg = "flags" /\ k > 3
        BY <3>2, Regs DEF Reg
      <4> QED  BY Zenon, <1>4, <4>1 DEF PassSound
    <3>3. CASE k = 3
      <4>1. Reg = "config" /\ ~(n > 4)
        BY <3>3, Regs DEF Reg
      <4> QED  BY Zenon, <1>4, <4>1
    <3>4. CASE k < 3
      BY <3>4, <1>t
    <3>5. k > 4 \/ k = 4 \/ k = 3 \/ k < 3
      BY <1>t
    <3> QED  BY Zenon, <3>1, <3>2, <3>3, <3>4, <3>5
  <2> HIDE DEF n
  <2>4. sensor' \in Passes /\ sensor'.pc = "point" /\ sensor'.wire = FALSE /\ sensor'.k = n /\ sensor'.got = g
    <3> HIDE DEF g
    <3> QED  BY Zenon, <2>1, <2>2 DEF Passes
  <2>5. sensor'.pc # "read" /\ sensor'.pc # "configure"
    BY Zenon, <2>4
  <2>6. PassSound'
    BY ZenonT(30), <2>3, <2>4, <2>5, <1>i DEF PassSound
  <2> QED  BY ZenonT(30), <1>4, <2>4, <2>6, <1>i DEF PassGood, PowerGenuine
<1> QED  BY ZenonT(30), <1>1, <1>2, <1>3, <1>4, Regs DEF AfterRead

\* Every step keeps the pass sound and the power reading genuine.
LEMMA PassStep ==
  ASSUME SensorAssumption, SensorTypeOK, ProbeSound, PassSound, PowerGenuine, [SensorNext]_sensorVars
  PROVE  PassGood /\ monitor_mask' \subseteq Blocks /\ iic_ready' \in BOOLEAN
<1>t. sensor \in Passes /\ ina \in Inas /\ iic_ready \in BOOLEAN /\ monitor_mask \subseteq Blocks
  BY Zenon, SensorTyped
<1>k. UNCHANGED <<sensor, ina, latest>> => PassGood
  BY Zenon, <1>t DEF PassGood, PassSound, PowerGenuine, Reg
<1>w. Waiting.pc = "wait" /\ Waiting.k = 1 /\ Waiting.got = Taken(1) /\ Waiting.wire = FALSE
  BY Zenon, Resets DEF Waiting
<1>1. CASE ProbeStart \/ ProbeEnd \/ Release \/ UNCHANGED sensorVars \/ \E t \in {"startup", "web"} : usb_storage_probe(t)
  <2>1. UNCHANGED <<sensor, ina, latest, monitor_mask, iic_ready>>
    BY Zenon, <1>1 DEF ProbeStart, ProbeEnd, Release, usb_storage_probe,
        sensorVars
  <2> QED  BY Zenon, <2>1, <1>k, <1>t
<1>2. CASE Startup
  <2>1. sensor' = Waiting /\ UNCHANGED <<ina, latest, monitor_mask>> /\ iic_ready' \in BOOLEAN
    BY Zenon, <1>2 DEF Startup
  <2>2. sensor'.got = Taken(sensor'.k) /\ ~(sensor'.k > 3) /\ ~(sensor'.k > 4) /\ sensor'.pc # "read" /\ sensor'.pc # "configure"
    BY <2>1, <1>w
  <2>3. PassSound'
    BY Zenon, <2>1, <2>2, <1>w DEF PassSound
  <2> QED  BY ZenonT(30), <2>1, <2>3, <1>t, Resets DEF PassGood, PowerGenuine
<1>3. CASE Wake
  <2>1. monitor_mask' \subseteq Blocks /\ UNCHANGED <<ina, latest, iic_ready>>
    BY Zenon, <1>3, <1>t DEF Wake
  <2>2. PICK ok \in SUBSET monitor_mask' : sensor' = [Waiting EXCEPT !.pc = "point", !.valid = ok]
    BY Zenon, <1>3 DEF Wake
  <2>3. ok \in SUBSET Blocks
    BY Zenon, <2>1
  <2>4. sensor' \in Passes /\ sensor'.pc = "point" /\ sensor'.k = 1 /\ sensor'.got = Taken(1)
    BY Zenon, <2>2, <2>3, Resets DEF Passes
  <2>5. sensor'.got = Taken(sensor'.k) /\ ~(sensor'.k > 3) /\ ~(sensor'.k > 4) /\ sensor'.pc # "read" /\ sensor'.pc # "configure"
    BY <2>4
  <2>6. PassSound'
    BY ZenonT(30), <2>1, <2>4, <2>5 DEF PassSound
  <2> QED  BY Zenon, <2>1, <2>4, <2>6, <1>t DEF PassGood, PowerGenuine
<1>4. CASE TransferStart
  <2>1. UNCHANGED <<ina, monitor_mask, iic_ready>> /\ sensor.pc \in {"point", "read", "configure"}
    BY Zenon, <1>4 DEF TransferStart
  <2>2. CASE Failed
    BY ZenonT(30), <2>1, <2>2, <1>t, FailedStep DEF PassSound
  <2>3. CASE sensor' = [sensor EXCEPT !.wire = TRUE] /\ latest' = latest
    <3>1. sensor' \in Passes /\ sensor'.pc = sensor.pc /\ sensor'.k = sensor.k /\ sensor'.got = sensor.got
      BY Zenon, <2>3, <1>t DEF Passes
    <3>2. PassSound'
      BY Zenon, <2>1, <3>1 DEF PassSound, Reg
    <3> QED  BY ZenonT(30), <2>1, <2>3, <3>1, <3>2, <1>t DEF PassGood, PowerGenuine
  <2> QED  BY Zenon, <1>4, <2>2, <2>3 DEF TransferStart
<1>5. CASE TransferEnd
  <2>1. UNCHANGED <<monitor_mask, iic_ready>> /\ sensor.pc \in {"point", "read", "configure"}
    BY Zenon, <1>5 DEF TransferEnd, PassSound
  <2>2. PICK out \in Outcomes :
          /\ IF ~Proceeds(out) \/ sensor.pc = "configure" THEN Failed
             ELSE IF sensor.pc = "point" THEN sensor' = [sensor EXCEPT !.pc = "read", !.wire = FALSE] /\ UNCHANGED latest
             ELSE AfterRead
          /\ ina' \in {Reached} \union (IF out = "done" THEN {} ELSE {ina})
    BY Zenon, <1>5 DEF TransferEnd
  <2>3. ina' \in Inas /\ (ina'.configured /\ ina'.ready => ina'.good)
    BY Zenon, <2>2, <1>t, ReachedStep DEF PassSound
  <2>4. CASE Failed
    BY ZenonT(30), <2>1, <2>3, <2>4, <1>t, FailedStep
  <2>5. CASE ~Failed /\ sensor.pc = "point"
    <3>1. sensor' = [sensor EXCEPT !.pc = "read", !.wire = FALSE] /\ latest' = latest /\ ina' = Reached
      BY ZenonT(30), <2>2, <2>5 DEF Proceeds
    <3>2. sensor' \in Passes /\ sensor'.pc = "read" /\ sensor'.k = sensor.k /\ sensor'.got = sensor.got /\ sensor'.wire = FALSE
      BY Zenon, <3>1, <1>t DEF Passes
    <3>3. /\ Reached.pointer = Reg /\ (ina.configured => Reached.configured) /\ (ina.good => Reached.good)
          /\ sensor'.pc # "configure"
      <4>1. sensor.pc # "configure" /\ sensor'.pc # "configure"
        BY Zenon, <2>5, <3>2
      <4> QED  BY ZenonT(30), <4>1, <2>5, <1>t, ReachedStep
    <3>4. PassSound'
      BY ZenonT(30), <2>3, <3>1, <3>2, <3>3 DEF PassSound, Reg
    <3> QED  BY Zenon, <2>1, <2>3, <3>1, <3>2, <3>4, <1>t DEF PassGood, PowerGenuine
  <2>6. CASE ~Failed /\ sensor.pc # "point"
    <3>1. AfterRead /\ ina' = Reached /\ sensor.pc # "configure"
      BY Zenon, <2>2, <2>6 DEF Proceeds
    <3>2. sensor.pc = "read"
      BY Zenon, <2>1, <2>6, <3>1
    <3> QED  BY ZenonT(30), <2>1, <3>1, <3>2, <1>t, AfterReadStep
  <2> QED  BY Zenon, <2>4, <2>5, <2>6
<1>6. CASE Convert
  <2>1. UNCHANGED <<sensor, latest, monitor_mask, iic_ready>> /\ ina' = [ina EXCEPT !.ready = TRUE, !.good = ina.configured]
    BY Zenon, <1>6 DEF Convert
  <2>2. ina' \in Inas /\ ina'.pointer = ina.pointer /\ ina'.configured = ina.configured /\ ina'.good = ina.configured
    BY Zenon, <2>1, <1>t DEF Inas
  <2>3. sensor.k > 4 => sensor.k > 3
    BY <1>t DEF Passes
  <2>4. PassSound'
    BY Zenon, <2>1, <2>2, <2>3 DEF PassSound, Reg
  <2> QED  BY ZenonT(30), <2>1, <2>2, <2>4, <1>t DEF PassGood, PowerGenuine
<1> QED  BY ZenonT(30), <1>1, <1>2, <1>3, <1>4, <1>5, <1>6 DEF SensorNext

\* One user of the bus, because the probe is over when there is a sensor task.
LEMMA OneUser == ASSUME ProbeSound PROVE OneMaster
BY Zenon DEF ProbeSound, OneMaster

\* SensorInv holds at reset.
LEMMA SensorStart == ASSUME SensorInit PROVE SensorInv
<1> USE DEF SensorInit
<1>s. sensor \in Passes /\ sensor.pc = "off" /\ sensor.k = 1 /\ sensor.got = {} /\ sensor.wire = FALSE
  <2>1. sensor = [pc |-> "off", k |-> 1, wire |-> FALSE, got |-> {}, valid |-> {}]
    BY Zenon DEF Waiting
  <2>2. \A x \in Passes : [x EXCEPT !.pc = "off"] \in Passes
    BY Zenon DEF Passes
  <2>3. sensor \in Passes
    BY Zenon, <2>2, Resets
  <2> QED  BY <2>1, <2>3
<1>i. ina \in Inas /\ ina.ready = FALSE
  <2>1. "config" \in {Registers[j] : j \in 1..7}
    BY Regs
  <2>2. /\ ina = [pointer |-> "config", configured |-> ina.configured, ready |-> FALSE, good |-> FALSE]
        /\ ina.configured \in BOOLEAN
    BY Zenon
  <2> QED  BY Zenon, <2>1, <2>2 DEF Inas
<1>c. carrier \in Carriers
  BY Zenon DEF Carriers
<1>1. SensorTypeOK
  BY Zenon, <1>s, <1>i, <1>c, Resets, SensorTyped
<1>2. ProbeSound
  BY Zenon, <1>s, Resets DEF ProbeSound
<1>3. PassSound
  <2>1. sensor.got = Taken(sensor.k) /\ ~(sensor.k > 3) /\ ~(sensor.k > 4) /\ sensor.pc # "read" /\ sensor.pc # "configure"
    BY Zenon, <1>s, Resets
  <2> QED  BY Zenon, <1>s, <1>i, <2>1 DEF PassSound
<1>4. PowerGenuine /\ CarrierReady
  BY Zenon DEF PowerGenuine, CarrierReady, Unset
<1> QED  BY Zenon, <1>1, <1>2, <1>3, <1>4, OneUser DEF SensorInv

\* Every step keeps SensorInv.
LEMMA SensorStep ==
  ASSUME SensorAssumption, SensorInv, [SensorNext]_sensorVars
  PROVE  SensorInv'
<1>1. /\ ProbeSound' /\ CarrierReady' /\ probe' \in Probes /\ carrier' \in Carriers /\ usb' \in {Unset, "failed", "up"}
      /\ {tasks', attempted', bus'} \subseteq BOOLEAN
  BY Zenon, ProbeStep DEF SensorInv
<1>2. PassGood /\ monitor_mask' \subseteq Blocks /\ iic_ready' \in BOOLEAN
  BY Zenon, PassStep DEF SensorInv
<1>3. SensorTypeOK'
  BY ZenonT(30), <1>1, <1>2, Steps, Regs DEF SensorTypeOK, PassGood, Probes, Carriers, Passes, Inas
<1>4. OneMaster'
  BY Zenon, <1>1 DEF ProbeSound, OneMaster
<1> QED  BY Zenon, <1>1, <1>2, <1>3, <1>4 DEF SensorInv, PassGood

\* usb_storage_probe and sensors_task never use the I2C bus at once, a power reading
\* comes from the right registers measured as configured, and a reader is reported set
\* up only when it is, whichever transfers time out and however the two interleave.
THEOREM SensorSound == ASSUME SensorAssumption PROVE SensorSpec => []SensorInv
<1>1. SensorInit => SensorInv
  BY Zenon, SensorStart
<1>2. SensorInv /\ [SensorNext]_sensorVars => SensorInv'
  BY Zenon, SensorStep
<1> QED  BY <1>1, <1>2, PTL DEF SensorSpec
=============================================================================
