------------------------------ MODULE FabricDma ------------------------------
(***************************************************************************)
(* The R5's view of the CPU port: the AXI DMA driver (fabric_dma.c), its   *)
(* interrupt, and the part of network_service (network.c) that drains the  *)
(* receive ring and reports a dead DMA.                                    *)
(*                                                                         *)
(* Two tasks send (the IP task and stp_task) through one mutex and two     *)
(* descriptors; one task receives from a ring of RxCount descriptors.      *)
(* Each received frame has its ingress port in a FIFO of its own, which    *)
(* the driver pops once per descriptor.  Interrupts preempt tasks; the     *)
(* hardware runs beside both.                                              *)
(*                                                                         *)
(* fabric_dma_init runs before any other task exists and enables the       *)
(* interrupts last; a failure halts the firmware (configASSERT,            *)
(* network.c:158).  Behaviours therefore begin where it returned TRUE.     *)
(***************************************************************************)
EXTENDS Naturals, Sequences, FiniteSets

CONSTANTS
    Ports,       \* ingress ports
    Senders,     \* tasks that call fabric_dma_send*
    RxCount,     \* receive descriptors (16 in the code)
    DrainMax,    \* descriptors per service pass (16 in the code)
    TagDepth,    \* entries of the ingress-tag FIFO (16 in the RTL)
    MaxDescs,    \* descriptors one frame may fill (1 unless it exceeds 1536 bytes)
    Loads,       \* bounds: what happens on one board (see load)
    None

ASSUME DmaAssumption ==
    /\ {RxCount, DrainMax, TagDepth, MaxDescs} \subseteq Nat \ {0}
    /\ \A l \in Loads : l.ports \subseteq Ports /\ l.errors \subseteq {"tx", "rx"}
                        /\ l.sends \in [Senders -> Nat] /\ l.early \in Nat
    /\ None \notin Ports \union Senders /\ None \notin 0..1
    /\ None \notin [ch : {"tx", "rx"}, seen : SUBSET {"ioc", "err"}]

VARIABLES
    load,      \* a member of Loads: ports that deliver, sends per task,
               \* premature TX interrupts, channels that may halt
    failed,    \* driver state: never cleared
    irqOn,     \* DMACR interrupt enables (cleared by fail_closed)
    irq,       \* [channel -> pending status bits]
    isr,       \* None, or the status word the running handler has read
    txDone,    \* binary semaphore
    notified,  \* bit 4 of the service task's notification value
    txBd, txIndex, hwTx, snd, lock,
    rxBd, rxIndex, hwRx, pipe, tags, svc,
    early,     \* premature interrupts so far
    wire, sent, got  \* history: frames on the wire, sends that returned
                     \* true, last frame handed to the stack with its tag

txVars == <<txBd, txIndex, hwTx, snd, lock, wire, sent, early, load>>
rxVars == <<rxBd, rxIndex, hwRx, pipe, tags, svc, got>>
intVars == <<failed, irqOn, irq, isr, txDone, notified>>
vars == <<intVars, txVars, rxVars>>

Channels == {"tx", "rx"}
Rx == 0..RxCount - 1
Next_(i) == (i + 1) % RxCount
Frames == UNION {{t} \X (1..load.sends[t]) : t \in Senders}

healthy == ~failed

Init ==
    /\ load \in Loads
    /\ failed = FALSE /\ irqOn = TRUE /\ isr = None
    /\ irq = [c \in Channels |-> {}]
    /\ txDone = FALSE /\ notified = FALSE
    /\ txBd = [i \in 0..1 |-> [status |-> "clear", frame |-> None]]
    /\ txIndex = 0
    /\ hwTx = [owns |-> None, tail |-> None, halted |-> FALSE]
    /\ snd = [t \in Senders |-> [pc |-> "idle", n |-> 0, ok |-> FALSE]]
    /\ lock = None
    /\ rxBd = [i \in Rx |-> [done |-> FALSE, port |-> None, good |-> FALSE]]
    /\ rxIndex = 0
    /\ hwRx = [cur |-> 0, left |-> RxCount, halted |-> FALSE]
    /\ pipe = <<>> /\ tags = <<>>
    /\ svc = [pc |-> "wait", drain |-> TRUE, j |-> 0, tag |-> None, reported |-> FALSE]
    /\ early = 0 /\ wire = <<>> /\ sent = {} /\ got = None

(***************************************************************************)
(* Hardware (external: AXI DMA and the CPU port's egress path).            *)
(***************************************************************************)
\* The fabric dequeues a frame for the CPU and stores its ingress port; a
\* full tag FIFO holds the dequeue back.
HwDequeue(p, n) ==
    /\ Len(tags) < TagDepth
    /\ tags' = Append(tags, p)
    /\ pipe' = pipe \o [k \in 1..n |-> [port |-> p, whole |-> n = 1]]
    /\ UNCHANGED <<intVars, txVars, rxBd, rxIndex, hwRx, svc, got>>

\* S2MM fills the next descriptor it was given and writes it back.  A part
\* of a larger frame lacks SOF or EOF; a whole one may be malformed too.
HwReceive(good) ==
    /\ pipe # <<>> /\ hwRx.left > 0 /\ ~hwRx.halted
    /\ good => Head(pipe).whole
    /\ rxBd' = [rxBd EXCEPT ![hwRx.cur] = [done |-> TRUE, port |-> Head(pipe).port, good |-> good]]
    /\ hwRx' = [hwRx EXCEPT !.cur = Next_(@), !.left = @ - 1]
    /\ pipe' = Tail(pipe)
    /\ irq' = [irq EXCEPT !["rx"] = @ \union {"ioc"}]
    /\ UNCHANGED <<failed, irqOn, isr, txDone, notified, txVars, rxIndex, tags, svc, got>>

\* MM2S finishes the descriptor it owns, possibly with an error in its status.
HwTransmit(status) ==
    /\ hwTx.owns # None /\ ~hwTx.halted
    /\ txBd' = [txBd EXCEPT ![hwTx.owns].status = status]
    /\ wire' = IF status = "done" THEN Append(wire, txBd[hwTx.owns].frame) ELSE wire
    /\ hwTx' = [hwTx EXCEPT !.owns = None]
    /\ irq' = [irq EXCEPT !["tx"] = @ \union {"ioc"}]
    /\ UNCHANGED <<failed, irqOn, isr, txDone, notified, txIndex, snd, lock, sent, early, load, rxVars>>

\* An interrupt before the write-back is visible (test_dma.c, mode 6).
HwEarlyIrq ==
    /\ hwTx.owns # None /\ early < load.early
    /\ early' = early + 1
    /\ irq' = [irq EXCEPT !["tx"] = @ \union {"ioc"}]
    /\ UNCHANGED <<failed, irqOn, isr, txDone, notified, txBd, txIndex, hwTx, snd, lock, wire, sent, load, rxVars>>

\* A channel halts with an error.
HwError(c) ==
    /\ c \in load.errors
    /\ \/ c = "tx" /\ ~hwTx.halted /\ hwTx' = [hwTx EXCEPT !.halted = TRUE] /\ UNCHANGED hwRx
       \/ c = "rx" /\ ~hwRx.halted /\ hwRx' = [hwRx EXCEPT !.halted = TRUE] /\ UNCHANGED hwTx
    /\ irq' = [irq EXCEPT ![c] = @ \union {"err"}]
    /\ UNCHANGED <<failed, irqOn, isr, txDone, notified, txBd, txIndex, snd, lock, wire, sent,
                   early, load, rxBd, rxIndex, pipe, tags, svc, got>>

(***************************************************************************)
(* fabric_dma_interrupt: read the status, then clear what was read and     *)
(* wake the tasks.  No task runs in between, the hardware does.            *)
(***************************************************************************)
IsrRead(c) ==
    /\ isr = None /\ irqOn /\ irq[c] # {}
    /\ isr' = [ch |-> c, seen |-> irq[c]]
    /\ UNCHANGED <<failed, irqOn, irq, txDone, notified, txVars, rxVars>>

IsrServe ==
    /\ isr # None
    /\ LET error == "err" \in isr.seen IN
       /\ irq' = [irq EXCEPT ![isr.ch] = @ \ isr.seen]
       /\ failed' = (failed \/ error)
       /\ irqOn' = (irqOn /\ ~error)
       /\ txDone' = (txDone \/ isr.ch = "tx" \/ error)
       /\ notified' = (notified \/ isr.ch = "rx" \/ error)
    /\ isr' = None
    /\ UNCHANGED <<txVars, rxVars>>

(***************************************************************************)
(* send_frame, one task at a time between the points where it can be       *)
(* preempted.                                                              *)
(***************************************************************************)
Goto(t, pc) == snd' = [snd EXCEPT ![t].pc = pc]

\* Line 105: refuse when unhealthy, else queue for tx_lock.
SendStart(t) ==
    /\ isr = None /\ snd[t].pc = "idle" /\ snd[t].n < load.sends[t]
    /\ snd' = [snd EXCEPT ![t] = [pc |-> IF healthy THEN "lock" ELSE "idle", n |-> @.n + 1, ok |-> FALSE]]
    /\ UNCHANGED <<intVars, txBd, txIndex, hwTx, lock, wire, sent, early, load, rxVars>>

SendLock(t) ==
    /\ isr = None /\ snd[t].pc = "lock" /\ lock = None
    /\ lock' = t /\ Goto(t, "fill")
    /\ UNCHANGED <<intVars, txBd, txIndex, hwTx, wire, sent, early, load, rxVars>>

Fill(t, status) ==
    /\ txBd' = [txBd EXCEPT ![txIndex] = [status |-> status, frame |-> <<t, snd[t].n>>]]
    /\ Goto(t, "kick") /\ UNCHANGED lock

\* Mutant: the sender does not look again after it waited for the lock.
SendFill_norecheck(t) ==
    /\ isr = None /\ snd[t].pc = "fill"
    /\ Fill(t, "clear")
    /\ UNCHANGED <<intVars, txIndex, hwTx, wire, sent, early, load, rxVars>>

\* Mutant: the descriptor keeps the status of its previous use.
SendFill_stale(t) ==
    /\ isr = None /\ snd[t].pc = "fill"
    /\ IF healthy THEN Fill(t, txBd[txIndex].status)
       ELSE lock' = None /\ Goto(t, "idle") /\ UNCHANGED txBd
    /\ UNCHANGED <<intVars, txIndex, hwTx, wire, sent, early, load, rxVars>>

SendFill(t) ==
    /\ isr = None /\ snd[t].pc = "fill"
    /\ IF healthy THEN Fill(t, "clear")
       ELSE lock' = None /\ Goto(t, "idle") /\ UNCHANGED txBd
    /\ UNCHANGED <<intVars, txIndex, hwTx, wire, sent, early, load, rxVars>>

\* Discard a stale wake, then write the tail.  The engine only starts for a
\* tail that differs from the last one (the reason for two descriptors).
SendKick(t) ==
    /\ isr = None /\ snd[t].pc = "kick"
    /\ txDone' = FALSE
    /\ hwTx' = [hwTx EXCEPT !.tail = txIndex, !.owns = IF hwTx.tail = txIndex THEN @ ELSE txIndex]
    /\ Goto(t, "wait")
    /\ UNCHANGED <<failed, irqOn, irq, isr, notified, txBd, txIndex, lock, wire, sent, early, load, rxVars>>

\* xSemaphoreTake(tx_done) succeeded.
SendWake(t) ==
    /\ isr = None /\ snd[t].pc = "wait" /\ txDone
    /\ txDone' = FALSE /\ Goto(t, "look")
    /\ UNCHANGED <<failed, irqOn, irq, isr, notified, txBd, txIndex, hwTx, lock, wire, sent, early, load, rxVars>>

\* 100 ms have passed since the tail write.
SendTimeout(t) ==
    /\ isr = None /\ snd[t].pc = "wait"
    /\ Goto(t, "end")
    /\ UNCHANGED <<intVars, txBd, txIndex, hwTx, lock, wire, sent, early, load, rxVars>>

\* Lines 129-137: stop when unhealthy, wait again when not complete.
SendLook(t) ==
    /\ isr = None /\ snd[t].pc = "look"
    /\ LET status == txBd[txIndex].status
           ok == healthy /\ status = "done" IN
       /\ snd' = [snd EXCEPT ![t].pc = IF healthy /\ status = "clear" THEN "wait" ELSE "end",
                             ![t].ok = ok]
       /\ txIndex' = IF ok THEN (txIndex + 1) % 2 ELSE txIndex
       /\ sent' = IF ok THEN sent \union {<<t, snd[t].n>>} ELSE sent
    /\ UNCHANGED <<intVars, txBd, hwTx, lock, wire, early, load, rxVars>>

\* A send that did not succeed fails the driver closed before it unlocks.
SendEnd(t) ==
    /\ isr = None /\ snd[t].pc = "end"
    /\ failed' = (failed \/ ~snd[t].ok)
    /\ irqOn' = (irqOn /\ snd[t].ok)
    /\ notified' = (notified \/ ~snd[t].ok)
    /\ lock' = None /\ Goto(t, "idle")
    /\ UNCHANGED <<irq, isr, txDone, txBd, txIndex, hwTx, wire, sent, early, load, rxVars>>

(***************************************************************************)
(* network_service: the receive drain and the fault report.                *)
(***************************************************************************)
rx_pending == healthy /\ rxBd[rxIndex].done
Svc(pc) == svc' = [svc EXCEPT !.pc = pc]

\* xTaskNotifyWait returned: an event, no wait because drain is set, or the
\* 1000 ms timeout.
SvcWake ==
    /\ isr = None /\ svc.pc = "wait"
    /\ svc' = [svc EXCEPT !.pc = "drain", !.drain = @ \/ notified, !.j = 0]
    /\ notified' = FALSE
    /\ UNCHANGED <<failed, irqOn, irq, isr, txDone, txVars, rxBd, rxIndex, hwRx, pipe, tags, got>>

SvcDrain ==
    /\ isr = None /\ svc.pc = "drain"
    /\ Svc(IF svc.drain /\ svc.j < DrainMax /\ rx_pending THEN "recv" ELSE "fault")
    /\ UNCHANGED <<intVars, txVars, rxBd, rxIndex, hwRx, pipe, tags, got>>

\* Mutant: no tag read for a malformed frame.
SvcReceive_goodonly ==
    /\ isr = None /\ svc.pc = "recv"
    /\ IF rx_pending
       THEN LET pop == tags # <<>> /\ rxBd[rxIndex].good IN
            /\ svc' = [svc EXCEPT !.pc = "copy", !.tag = IF pop THEN Head(tags) ELSE None]
            /\ tags' = IF pop THEN Tail(tags) ELSE tags
       ELSE svc' = [svc EXCEPT !.pc = "drain", !.j = @ + 1] /\ UNCHANGED tags
    /\ UNCHANGED <<intVars, txVars, rxBd, rxIndex, hwRx, pipe, got>>

\* fabric_dma_receive up to the tag read, which pops the FIFO (an empty one
\* reads as invalid).
SvcReceive ==
    /\ isr = None /\ svc.pc = "recv"
    /\ IF rx_pending
       THEN /\ svc' = [svc EXCEPT !.pc = "copy", !.tag = IF tags = <<>> THEN None ELSE Head(tags)]
            /\ tags' = IF tags = <<>> THEN tags ELSE Tail(tags)
       ELSE svc' = [svc EXCEPT !.pc = "drain", !.j = @ + 1] /\ UNCHANGED tags
    /\ UNCHANGED <<intVars, txVars, rxBd, rxIndex, hwRx, pipe, got>>

\* Copy a well-formed frame out, then clear the descriptor.
SvcCopy ==
    /\ isr = None /\ svc.pc = "copy"
    /\ got' = IF rxBd[rxIndex].good THEN [port |-> rxBd[rxIndex].port, tag |-> svc.tag] ELSE got
    /\ rxBd' = [rxBd EXCEPT ![rxIndex] = [done |-> FALSE, port |-> None, good |-> FALSE]]
    /\ svc' = [svc EXCEPT !.pc = "tail", !.tag = None]
    /\ UNCHANGED <<intVars, txVars, rxIndex, hwRx, pipe, tags>>

\* The tail write gives the descriptor back to the engine.
SvcTail ==
    /\ isr = None /\ svc.pc = "tail"
    /\ hwRx' = [hwRx EXCEPT !.left = @ + 1]
    /\ rxIndex' = Next_(rxIndex)
    /\ svc' = [svc EXCEPT !.pc = "drain", !.j = @ + 1]
    /\ UNCHANGED <<intVars, txVars, rxBd, pipe, tags, got>>

\* First pass after a fault: every port is taken out of the link mask.
SvcFault ==
    /\ isr = None /\ svc.pc = "fault"
    /\ svc' = [svc EXCEPT !.pc = "again", !.reported = @ \/ ~healthy]
    /\ UNCHANGED <<intVars, txVars, rxBd, rxIndex, hwRx, pipe, tags, got>>

\* Mutant: a pass never continues by itself.
SvcAgain_once ==
    /\ isr = None /\ svc.pc = "again"
    /\ svc' = [svc EXCEPT !.pc = "wait", !.drain = FALSE]
    /\ UNCHANGED <<intVars, txVars, rxBd, rxIndex, hwRx, pipe, tags, got>>

SvcAgain ==
    /\ isr = None /\ svc.pc = "again"
    /\ svc' = [svc EXCEPT !.pc = "wait", !.drain = @ /\ rx_pending]
    /\ UNCHANGED <<intVars, txVars, rxBd, rxIndex, hwRx, pipe, tags, got>>

Send(t) ==
    \/ SendStart(t) \/ SendLock(t) \/ SendFill(t) \/ SendKick(t)
    \/ SendWake(t) \/ SendTimeout(t) \/ SendLook(t) \/ SendEnd(t)

Service ==
    \/ SvcWake \/ SvcDrain \/ SvcReceive \/ SvcCopy \/ SvcTail \/ SvcFault \/ SvcAgain

Next ==
    \/ \E p \in load.ports, n \in 1..MaxDescs : HwDequeue(p, n)
    \/ \E good \in BOOLEAN : HwReceive(good)
    \/ \E status \in {"done", "error"} : HwTransmit(status)
    \/ HwEarlyIrq
    \/ \E c \in Channels : HwError(c) \/ IsrRead(c)
    \/ IsrServe
    \/ \E t \in Senders : Send(t)
    \/ Service

Spec == Init /\ [][Next]_vars

\* The scheduler runs a ready task in the end, the tick that ends a wait
\* keeps coming, and an asserted interrupt is taken.  Senders need strong
\* fairness: interrupts and the service task preempt them again and again,
\* but the service task sleeps a tick after every pass (line 143).  Nothing
\* is asked of the DMA engine, nor of the tasks to send again.
Fairness ==
    /\ WF_vars(Service)
    /\ \A c \in Channels : WF_vars(IsrRead(c))
    /\ WF_vars(IsrServe)
    /\ \A t \in Senders : SF_vars(snd[t].pc # "idle" /\ Send(t))

FairSpec == Spec /\ Fairness

(***************************************************************************)
(* Properties.                                                             *)
(***************************************************************************)
\* Every variable has its type.
TypeOK ==
    /\ load \in Loads
    /\ failed \in BOOLEAN /\ irqOn \in BOOLEAN /\ txDone \in BOOLEAN /\ notified \in BOOLEAN
    /\ irq \in [Channels -> SUBSET {"ioc", "err"}]
    /\ isr \in {None} \union [ch : Channels, seen : SUBSET {"ioc", "err"}]
    /\ txBd \in [0..1 -> [status : {"clear", "done", "error"}, frame : {None} \union Frames]]
    /\ txIndex \in 0..1 /\ lock \in Senders \union {None}
    /\ hwTx \in [owns : {None, 0, 1}, tail : {None, 0, 1}, halted : BOOLEAN]
    /\ snd \in [Senders -> [pc : {"idle", "lock", "fill", "kick", "wait", "look", "end"},
                            n : Nat, ok : BOOLEAN]]
    /\ rxBd \in [Rx -> [done : BOOLEAN, port : Ports \union {None}, good : BOOLEAN]]
    /\ rxIndex \in Rx /\ hwRx \in [cur : Rx, left : 0..RxCount, halted : BOOLEAN]
    /\ svc \in [pc : {"wait", "drain", "recv", "copy", "tail", "fault", "again"}, drain : BOOLEAN,
                j : 0..DrainMax, tag : Ports \union {None}, reported : BOOLEAN]
    /\ pipe \in Seq([port : Ports, whole : BOOLEAN])
    /\ tags \in Seq(Ports) /\ Len(tags) <= TagDepth /\ early \in 0..load.early
    /\ sent \subseteq Frames /\ wire \in Seq(Frames)

\* "Fail closed: never reuse a buffer hardware might own" (fabric_dma.c:4).
\* A send never writes the transmit descriptor or bounce buffer that the
\* engine was given and has not written back, not even after a timeout let
\* the next task in.
NeverReuseOwned ==
    [][\A i \in 0..1 : hwTx.owns = i => txBd'[i].frame = txBd[i].frame]_vars

\* A send that returns true put exactly its own frame on the wire, once; no
\* premature, late or stale completion is taken for another frame's.
SentIsOnWire ==
    \A f \in sent : Cardinality({k \in DOMAIN wire : wire[k] = f}) = 1

\* The engine has nothing of the driver's, and the next tail starts it.
EngineFree == hwTx.owns = None /\ hwTx.tail # txIndex
Frame(t) == <<t, snd[t].n>>
Fresh(t) == snd[t].pc \in {"lock", "fill", "kick"}

\* Who may touch the transmit ring: one sender holds the mutex; while the
\* driver is healthy the engine has given everything back before the next
\* sender fills a descriptor; and a sender that waits has exactly its own
\* frame in the engine's hands or in a descriptor written back.
TxOwnership ==
    /\ lock = None /\ healthy => EngineFree
    /\ \A t \in Senders :
        LET s == snd[t]
            bd == txBd[txIndex] IN
        /\ lock = t <=> s.pc \in {"fill", "kick", "wait", "look", "end"}
        /\ s.n <= load.sends[t] /\ (s.pc # "idle" => s.n > 0)
        /\ s.pc \in {"lock", "fill", "kick", "wait"} => ~s.ok
        /\ (s.pc = "fill" /\ healthy) \/ s.pc = "kick" \/ (s.pc = "end" /\ s.ok) => EngineFree
        /\ s.pc = "kick" => bd.status = "clear"
        /\ s.pc \in {"kick", "wait", "look"} => bd.frame = Frame(t)
        /\ s.pc \in {"wait", "look"} => /\ hwTx.tail = txIndex
                                        /\ hwTx.owns = IF bd.status = "clear" THEN txIndex ELSE None

\* The frames the engine was given: on the wire, or still to be sent.
Given == {wire[k] : k \in DOMAIN wire} \union (IF hwTx.owns = None THEN {} ELSE {txBd[hwTx.owns].frame})

\* Every frame is given to the engine at most once, and a completed
\* descriptor is one whose frame is on the wire.
WireExact ==
    /\ \A j, k \in DOMAIN wire : wire[j] = wire[k] => j = k
    /\ hwTx.owns # None => txBd[hwTx.owns].frame \in Frames /\ \A k \in DOMAIN wire : wire[k] # txBd[hwTx.owns].frame
    /\ \A t \in Senders : \A m \in 1..load.sends[t] :
         <<t, m>> \in Given => m <= snd[t].n /\ (Fresh(t) => m # snd[t].n)
    /\ \A t \in Senders : snd[t].pc \in {"wait", "look"} /\ txBd[txIndex].status = "done"
         => \E k \in DOMAIN wire : wire[k] = Frame(t)
    /\ \A f \in sent : \E k \in DOMAIN wire : wire[k] = f

\* A task waiting in send_frame always has something but the timeout to wait
\* for: the engine owns the descriptor, or its completion is on the way as a
\* pending interrupt, a running handler or a given semaphore, unless the
\* channel or the driver has failed.
WaitHasWaker ==
    \A t \in Senders : snd[t].pc = "wait" =>
        \/ hwTx.owns = txIndex
        \/ txBd[txIndex].status # "clear" /\ (txDone \/ irq["tx"] # {} \/ (isr # None /\ isr.ch = "tx"))

\* Received descriptors the driver has not given back.
held == RxCount - hwRx.left

\* The ring is split between its two owners: the descriptors the engine may
\* fill are cleared, those between the driver's index and the engine's are
\* complete, and the one being recycled belongs to the driver alone.
RingOwnership ==
    LET clear == IF svc.pc = "tail" THEN 1 ELSE 0 IN
    /\ \A k \in 0..RxCount - 1 :
         rxBd[(rxIndex + k) % RxCount].done <=> (k >= clear /\ k < held)
    /\ hwRx.cur = (rxIndex + held) % RxCount
    /\ svc.pc \in {"copy", "tail"} => held > 0
    /\ svc.pc \in {"recv", "copy", "tail"} => svc.j < DrainMax

\* The tag FIFO against what it describes: behind the tag the driver has
\* popped, one entry for each complete descriptor and then one for each part
\* of a frame the engine has yet to receive, in order.
TagsInStep ==
    LET popped == IF svc.pc \in {"copy", "tail"} THEN 1 ELSE 0
        n == held - popped IN
    /\ Len(tags) = n + Len(pipe)
    /\ \A k \in 1..n : tags[k] = rxBd[(rxIndex + popped + k - 1) % RxCount].port
    /\ \A k \in 1..Len(pipe) : tags[n + k] = pipe[k].port
    /\ svc.pc = "copy" => svc.tag = rxBd[rxIndex].port

\* Every well-formed frame reaches the stack with the tag of the port it
\* came in on (stp_task files a BPDU under that port): one FIFO entry per
\* descriptor keeps both in step through malformed frames, drops, bounded
\* passes and faults.
TagLockstep == got # None => got.tag = got.port

\* No lost wake-up: a completed receive descriptor is consumed in the end,
\* although a pass stops after DrainMax frames and the interrupt may come
\* between the last look at the ring and the wait -- unless the DMA fails.
RxDrained ==
    \A i \in Rx : rxBd[i].done ~> (~rxBd[i].done \/ failed)

\* Every call of fabric_dma_send returns, whatever the engine does.
SendersReturn ==
    \A t \in Senders : snd[t].pc # "idle" ~> snd[t].pc = "idle"

\* A failure seen by an interrupt or by a sender reaches the service task,
\* which takes the ports down.
FaultReported == failed ~> svc.reported

\* The driver, its interrupts and the engine agree on who owns what: ring,
\* tags and the semaphore a sender waits for.
DmaInv ==
    TypeOK /\ TxOwnership /\ WireExact /\ WaitHasWaker /\ RingOwnership /\ TagsInStep /\ TagLockstep

\* Nothing is waited for in vain: sends return, received frames are taken and
\* a failure is reported.
TransfersEnd == SendersReturn /\ RxDrained /\ FaultReported
=============================================================================
