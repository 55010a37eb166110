----------------------------- MODULE PortControl -----------------------------
(***************************************************************************)
(* How the firmware opens and closes ports.  Three FreeRTOS tasks write    *)
(* the port registers of rtl/board/rx_diag_regs.sv:                        *)
(*   "link"  board_link_task, links.c and policy.c, polls the PHYs and     *)
(*           writes LINK_CLR (through pstate.c) and LINK_SET (directly);   *)
(*   "stp"   startup, then stp_task, stp_task.c, writes FWD and LEARN      *)
(*           through pstate.c on behalf of the protocol engine;            *)
(*   network_service, network.c, writes LINK_CLR once after a DMA fault.   *)
(* Every clear also starts a flush of the ports it names.  pstate.c writes *)
(* one clear at a time under a mutex and polls the busy flag before and    *)
(* after it; a flush that outlasts 100 polls latches control_failed.       *)
(*                                                                         *)
(* A step is what a task does between two points where another task or the *)
(* fabric can act on the same state.  Port ids stand for mask bits; the    *)
(* CPU port's bit, which only a DMA fault clears, is left out.             *)
(***************************************************************************)
EXTENDS Integers, Sequences

CONSTANTS
  Phys,     \* the physical ports, PHYSICAL_PORT_MASK
  Boards,   \* the fabrics the firmware may find, each with what may go wrong
  Modes,    \* stp_enabled and stp_version: "off", "stp" or "rstp"
  NoTask    \* the mutex is free

ASSUME ControlAssumption ==
  /\ "off" \in Modes /\ Modes \subseteq {"off", "stp", "rstp"}
  /\ \A b \in Boards : b.abi \in BOOLEAN /\ b.faults \subseteq {"flush", "dma"}
  /\ NoTask \notin {"link", "stp"}

Tasks == {"link", "stp"}

VARIABLES
  board,      \* the fabric of this boot, a member of Boards
  linkReg, fwdReg, learnReg,  \* link_up_o, fwd_en_o, learn_en_o
  inCdc,      \* flush toggles that have not reached the fabric: port, register
  flushing,   \* ports the fabric is flushing: the busy flag is flushing # {}
  linkDirty,  \* ports closed by LINK_CLR and not flushed since
  fwdDirty,   \* ports closed by FWD_CLR and not flushed since
  failed,     \* control_failed
  lock,       \* the owner of control_lock
  healthy,    \* fabric_dma_healthy()
  reported,   \* fault_reported
  pc,         \* where each task is
  busySeen,   \* link_poll: busy
  desired,    \* link_poll: desired
  enabled,    \* link_state.enabled
  settled,    \* 250 ms have passed since link_state.last_clear_ms
  linkMask,   \* the clear or set link_poll is carrying out
  cfg,        \* the configuration settings_get returns
  mode,       \* stp_task: enabled and version
  engine,     \* stp_task: engine is not NULL
  desFwd, desLearn,  \* desired_fwd, desired_learn
  ops         \* the register operations the STP task has still to perform

regVars == <<linkReg, fwdReg, learnReg>>
fabricVars == <<inCdc, flushing, linkDirty, fwdDirty>>
pollVars == <<busySeen, desired, enabled, settled>>
linkVars == <<pollVars, linkMask>>
stpVars == <<mode, engine, desFwd, desLearn, ops>>
controlVars == <<failed, lock, healthy, reported>>
cfgVars == <<cfg, board>>
vars == <<regVars, fabricVars, controlVars, pc, linkVars, cfgVars, stpVars>>

\* pstate_stp_supported(): the fabric implements STP gating.
StpAbi == board.abi
\* "flush": one may outlast the polls; "dma": the DMA engine may fault.
Faults == board.faults

\* One call of pstate.c made by the STP task.  tracked: the caller also
\* updates desired_fwd or desired_learn when the call returns.
Op(kind, mask, tracked) == [kind |-> kind, mask |-> mask, tracked |-> tracked]
ClearKinds == {"fwd_clear", "learn_clear"}
ClearRegs == ClearKinds \cup {"link_clear"}
SetKinds == {"fwd_set", "learn_set"}
Ops == [kind : ClearKinds \cup SetKinds \cup {"latch"} \cup Modes,
        mask : SUBSET Phys, tracked : BOOLEAN]

CalleePcs == {"take", "delay1", "read1", "write", "delay2", "read2", "check", "close"}
LinkPcs == CalleePcs \cup {"boot", "idle", "poll", "decide", "set"}
StpPcs == CalleePcs \cup {"run", "first", "top", "store", "latched"}

PortControlType ==
  /\ linkReg \subseteq Phys /\ fwdReg \subseteq Phys /\ learnReg \subseteq Phys
  /\ desired \subseteq Phys /\ enabled \subseteq Phys /\ linkMask \subseteq Phys
  /\ desFwd \subseteq Phys /\ desLearn \subseteq Phys
  /\ flushing \subseteq Phys /\ linkDirty \subseteq Phys /\ fwdDirty \subseteq Phys
  /\ inCdc \subseteq Phys \X ClearRegs
  /\ failed \in BOOLEAN /\ healthy \in BOOLEAN /\ reported \in BOOLEAN
  /\ busySeen \in BOOLEAN /\ settled \in BOOLEAN /\ engine \in BOOLEAN
  /\ lock \in Tasks \cup {NoTask}
  /\ pc \in [Tasks -> LinkPcs \cup StpPcs] /\ pc["link"] \in LinkPcs /\ pc["stp"] \in StpPcs
  /\ cfg \in Modes /\ mode \in Modes /\ board \in Boards
  /\ ops \in Seq(Ops)

\* stp_prepare, called by settings_init before any of the tasks exists.
Prepare(m) ==
  IF m = "off" THEN <<>>
  ELSE (IF StpAbi THEN <<>> ELSE <<Op("latch", Phys, FALSE)>>)
       \o <<Op("fwd_clear", Phys, FALSE), Op("learn_clear", Phys, FALSE)>>

\* Reset values of the registers and of the static variables.
Init ==
  /\ board \in Boards
  /\ linkReg = {} /\ fwdReg = Phys /\ learnReg = Phys
  /\ inCdc = {} /\ flushing = {} /\ linkDirty = {} /\ fwdDirty = {}
  /\ failed = FALSE /\ lock = NoTask /\ healthy = TRUE /\ reported = FALSE
  /\ pc = [t \in Tasks |-> IF t = "link" THEN "boot" ELSE "run"]
  /\ busySeen = FALSE /\ desired = {} /\ enabled = {} /\ settled = FALSE /\ linkMask = {}
  /\ cfg \in Modes
  /\ mode = "off" /\ engine = FALSE /\ desFwd = {} /\ desLearn = {}
  /\ ops = Prepare(cfg)

Goto(t, label) == pc' = [pc EXCEPT ![t] = label]
OnlyPc == UNCHANGED <<regVars, fabricVars, controlVars, linkVars, cfgVars, stpVars>>
-----------------------------------------------------------------------------
FlushBits(reg, mask) == mask

\* The registers.  A write to a clear register toggles the flush bits of the
\* ports it names, whether or not they were open.
WriteClear(reg, mask) ==
  /\ linkReg' = IF reg = "link_clear" THEN linkReg \ mask ELSE linkReg
  /\ fwdReg' = IF reg = "fwd_clear" THEN fwdReg \ mask ELSE fwdReg
  /\ learnReg' = IF reg = "learn_clear" THEN learnReg \ mask ELSE learnReg
  /\ linkDirty' = IF reg = "link_clear" THEN linkDirty \cup mask ELSE linkDirty
  /\ fwdDirty' = IF reg = "fwd_clear" THEN fwdDirty \cup mask ELSE fwdDirty
  /\ inCdc' = inCdc \cup (FlushBits(reg, mask) \X {reg})
  /\ UNCHANGED flushing

\* The toggle crosses into the fabric and the flush begins, or joins the one
\* in progress on the same port.
FlushArrives(p, reg) ==
  /\ <<p, reg>> \in inCdc
  /\ inCdc' = inCdc \ {<<p, reg>>}
  /\ flushing' = flushing \cup {p}
  /\ UNCHANGED <<regVars, linkDirty, fwdDirty, controlVars, pc, linkVars, cfgVars, stpVars>>

\* Queue and MAC-table flush of the port end.  If the toggle of a clear is
\* still on its way, the flush that clear asks for has yet to begin.
FlushEnds(p) ==
  /\ p \in flushing
  /\ flushing' = flushing \ {p}
  /\ linkDirty' = IF <<p, "link_clear">> \in inCdc THEN linkDirty ELSE linkDirty \ {p}
  /\ fwdDirty' = IF <<p, "fwd_clear">> \in inCdc THEN fwdDirty ELSE fwdDirty \ {p}
  /\ UNCHANGED <<regVars, inCdc, controlVars, pc, linkVars, cfgVars, stpVars>>
-----------------------------------------------------------------------------
\* pstate.c, clear_and_flush, run by either task.
Target(t) == IF t = "link" THEN [kind |-> "link_clear", mask |-> linkMask] ELSE Head(ops)

\* The STP task's call has returned: it updates its shadow of the registers.
OpDone ==
  LET op == Head(ops)
      Track(ports, clear, set) ==
        IF op.tracked /\ op.kind = clear THEN ports \ op.mask
        ELSE IF op.tracked /\ op.kind = set THEN ports \cup op.mask
        ELSE ports
  IN /\ desFwd' = Track(desFwd, "fwd_clear", "fwd_set")
     /\ desLearn' = Track(desLearn, "learn_clear", "learn_set")
     /\ ops' = Tail(ops)
     /\ UNCHANGED <<mode, engine>>

Return(t) ==
  IF t = "link"
  THEN Goto("link", "idle") /\ linkMask' = {} /\ UNCHANGED stpVars
  ELSE Goto("stp", "run") /\ OpDone /\ UNCHANGED linkMask

LockFree == lock = NoTask

TakeLock(t) ==
  /\ pc[t] = "take"
  /\ LockFree
  /\ lock' = t
  /\ Goto(t, "delay1")
  /\ UNCHANGED <<regVars, fabricVars, failed, healthy, reported, linkVars, cfgVars, stpVars>>

\* wait_flush: a millisecond, in which every toggle written so far arrives.
FlushDelay(t) ==
  /\ pc[t] \in {"delay1", "delay2"}
  /\ inCdc = {}
  /\ Goto(t, IF pc[t] = "delay1" THEN "read1" ELSE "read2")
  /\ OnlyPc

FlushIdle == flushing = {}

\* wait_flush: the busy flag is clear, or one more round of the loop.
FlushRead(t) ==
  /\ pc[t] \in {"read1", "read2"}
  /\ Goto(t, IF FlushIdle
             THEN IF pc[t] = "read1" THEN "write" ELSE "check"
             ELSE IF pc[t] = "read1" THEN "delay1" ELSE "delay2")
  /\ OnlyPc

\* wait_flush: the hundredth poll still reads busy.
FlushTimeout(t) ==
  /\ "flush" \in Faults
  /\ pc[t] \in {"read1", "read2"}
  /\ flushing # {}
  /\ failed' = TRUE
  /\ Goto(t, "check")
  /\ UNCHANGED <<regVars, fabricVars, lock, healthy, reported, linkVars, cfgVars, stpVars>>

AfterWrite == "delay2"

WriteTarget(t) ==
  /\ pc[t] = "write"
  /\ WriteClear(Target(t).kind, Target(t).mask)
  /\ Goto(t, AfterWrite)
  /\ UNCHANGED <<controlVars, linkVars, cfgVars, stpVars>>

\* control_failed is read after the wait, whoever has set it.
CheckFailed(t) ==
  /\ pc[t] = "check"
  /\ IF failed
     THEN Goto(t, "close") /\ UNCHANGED <<lock, linkMask, stpVars>>
     ELSE lock' = NoTask /\ Return(t)
  /\ UNCHANGED <<regVars, fabricVars, failed, healthy, reported, pollVars, cfgVars>>

CloseAll == WriteClear("fwd_clear", Phys)

\* A flush did not complete: stop forwarding everywhere, for good.
CloseFwd(t) ==
  /\ pc[t] = "close"
  /\ CloseAll
  /\ lock' = NoTask
  /\ Return(t)
  /\ UNCHANGED <<failed, healthy, reported, pollVars, cfgVars>>
-----------------------------------------------------------------------------
\* The 250 ms between two polls, in which every toggle written so far arrives.
LinkDelay ==
  /\ pc["link"] = "idle"
  /\ inCdc = {}
  /\ Goto("link", "poll")
  /\ OnlyPc

\* link_poll, up to the point where busy is read.  What the PHYs, the
\* administrator and a pending reconfiguration let through is any set of
\* ports.  The 250 ms of link_update may have passed since the last clear.
LinkSample ==
  /\ pc["link"] = "poll"
  /\ \E up \in SUBSET Phys : desired' = up
  /\ busySeen' = (flushing # {})
  /\ settled' \in {settled, TRUE}
  /\ Goto("link", "decide")
  /\ UNCHANGED <<regVars, fabricVars, controlVars, enabled, linkMask, cfgVars, stpVars>>

Want_unguarded(ports) == ports
Want(ports) == IF healthy THEN ports ELSE {}

NowEnabled(want, set) == (enabled \cap want) \cup set

MaySet_hasty == settled
MaySet == ~busySeen /\ settled

\* fabric_dma_healthy and link_update: either a clear, and then no set in
\* the same poll, or a set.
LinkDecide ==
  LET want == Want(desired)
      clear == enabled \ want
      set == IF clear = {} /\ MaySet THEN want \ enabled ELSE {}
  IN /\ pc["link"] = "decide"
     /\ enabled' = NowEnabled(want, set)
     /\ settled' = (settled /\ clear = {})
     /\ linkMask' = IF clear # {} THEN clear ELSE set
     /\ desired' = {} /\ busySeen' = FALSE
     /\ Goto("link", IF clear # {} THEN "take" ELSE IF set # {} THEN "set" ELSE "idle")
     /\ UNCHANGED <<regVars, fabricVars, controlVars, cfgVars, stpVars>>

LinkSet ==
  /\ pc["link"] = "set"
  /\ linkReg' = linkReg \cup linkMask
  /\ linkMask' = {}
  /\ Goto("link", "idle")
  /\ UNCHANGED <<fwdReg, learnReg, fabricVars, controlVars, pollVars, cfgVars, stpVars>>
-----------------------------------------------------------------------------
\* The STP task's next call: a clear, ...
CallClear ==
  /\ pc["stp"] = "run" /\ ops # <<>>
  /\ Head(ops).kind \in ClearKinds
  /\ Goto("stp", "take")
  /\ OnlyPc

\* ... pstate_fwd_set or pstate_learn_set, which test control_failed ...
CallSet ==
  /\ pc["stp"] = "run" /\ ops # <<>>
  /\ Head(ops).kind \in SetKinds
  /\ IF failed
     THEN OpDone /\ UNCHANGED pc
     ELSE Goto("stp", "store") /\ UNCHANGED stpVars
  /\ UNCHANGED <<regVars, fabricVars, controlVars, linkVars, cfgVars>>

\* ... and then write, without the mutex, ...
StoreSet ==
  LET op == Head(ops)
  IN /\ pc["stp"] = "store"
     /\ fwdReg' = IF op.kind = "fwd_set" THEN fwdReg \cup op.mask ELSE fwdReg
     /\ learnReg' = IF op.kind = "learn_set" THEN learnReg \cup op.mask ELSE learnReg
     /\ OpDone
     /\ Goto("stp", "run")
     /\ UNCHANGED <<linkReg, fabricVars, controlVars, linkVars, cfgVars>>

\* ... pstate_latch_fault, which sets control_failed ...
CallLatch ==
  /\ pc["stp"] = "run" /\ ops # <<>>
  /\ Head(ops).kind = "latch"
  /\ failed' = TRUE
  /\ Goto("stp", "latched")
  /\ UNCHANGED <<regVars, fabricVars, lock, healthy, reported, linkVars, cfgVars, stpVars>>

\* ... and clears FWD without the mutex, ...
StoreLatch ==
  /\ pc["stp"] = "latched"
  /\ CloseAll
  /\ OpDone
  /\ Goto("stp", "run")
  /\ UNCHANGED <<controlVars, linkVars, cfgVars>>

\* ... or, all ports closed, the new mode: create the engine, or reopen.
Adopt ==
  LET new == Head(ops).kind
  IN /\ pc["stp"] = "run" /\ ops # <<>>
     /\ new \in Modes
     /\ mode' = new
     /\ engine' = (new # "off" /\ StpAbi /\ ~failed)
     /\ ops' = IF new = "off"
               THEN <<Op("learn_set", Phys, TRUE), Op("fwd_set", Phys, TRUE)>>
               ELSE IF StpAbi THEN <<>> ELSE <<Op("latch", Phys, FALSE)>>
     /\ UNCHANGED <<regVars, fabricVars, controlVars, pc, linkVars, cfgVars, desFwd, desLearn>>

\* Back at the top of the loop.  The first time, startup has ended and the
\* tasks begin.
OpsDone ==
  /\ pc["stp"] = "run" /\ ops = <<>>
  /\ IF pc["link"] = "boot"
     THEN pc' = [t \in Tasks |-> IF t = "link" THEN "idle" ELSE "first"]
     ELSE Goto("stp", "top")
  /\ OnlyPc

ReconfigureOps ==
  <<Op("fwd_clear", Phys, TRUE), Op("learn_clear", Phys, TRUE), Op(cfg, Phys, FALSE)>>

\* The configuration is read at the top of the loop.
StpIterate ==
  /\ pc["stp"] \in {"first", "top"}
  /\ \/ /\ mode = "off" /\ cfg = "off"
        /\ desFwd' = Phys /\ desLearn' = Phys
        /\ Goto("stp", "top")
        /\ UNCHANGED <<mode, engine, ops>>
     \/ /\ cfg # mode
        /\ ops' = ReconfigureOps
        /\ Goto("stp", "run")
        /\ UNCHANGED <<mode, engine, desFwd, desLearn>>
  /\ UNCHANGED <<regVars, fabricVars, controlVars, linkVars, cfgVars>>

\* state: the engine moves port p.  Block first, then reopen.
StateOps(p, learn, forward) ==
  LET When(cond, kind) == IF cond THEN <<Op(kind, {p}, TRUE)>> ELSE <<>>
  IN When(~forward /\ p \in desFwd, "fwd_clear")
     \o When(~learn /\ p \in desLearn, "learn_clear")
     \o When(learn /\ p \notin desLearn, "learn_set")
     \o When(forward /\ p \notin desFwd, "fwd_set")

StpState(p, learn, forward) ==
  /\ pc["stp"] = "top" /\ engine
  /\ ops' = StateOps(p, learn, forward)
  /\ ops' # <<>>
  /\ Goto("stp", "run")
  /\ UNCHANGED <<regVars, fabricVars, controlVars, linkVars, cfgVars, mode, engine, desFwd, desLearn>>

FlushOps_unrestored(p) == <<Op("fwd_clear", {p}, FALSE)>>
FlushOps(p) ==
  <<Op("fwd_clear", {p}, FALSE)>>
  \o (IF p \in desFwd THEN <<Op("fwd_set", {p}, FALSE)>> ELSE <<>>)

\* flush: the engine wants what was learned on p forgotten.
StpFlush(p) ==
  /\ pc["stp"] = "top" /\ engine
  /\ ops' = FlushOps(p)
  /\ Goto("stp", "run")
  /\ UNCHANGED <<regVars, fabricVars, controlVars, linkVars, cfgVars, mode, engine, desFwd, desLearn>>
-----------------------------------------------------------------------------
\* settings_save, from the web task: STP is refused without fabric support.
\* The web task has a lower priority than stp_task, which reaches its first
\* settings_get without blocking.
SaveConfig(m) ==
  /\ pc["link"] # "boot" /\ pc["stp"] # "first"
  /\ m # cfg
  /\ m # "off" => StpAbi
  /\ cfg' = m
  /\ UNCHANGED <<regVars, fabricVars, controlVars, pc, linkVars, stpVars, board>>

\* The DMA fails closed (fabric_dma.c, fail_closed).
DmaFault ==
  /\ "dma" \in Faults
  /\ pc["link"] # "boot"
  /\ healthy
  /\ healthy' = FALSE
  /\ UNCHANGED <<regVars, fabricVars, failed, lock, reported, pc, linkVars, cfgVars, stpVars>>

\* network_service notices the fault and removes every port, once, without
\* the mutex.
NetworkFault ==
  /\ pc["link"] # "boot"
  /\ ~healthy /\ ~reported
  /\ reported' = TRUE
  /\ WriteClear("link_clear", Phys)
  /\ UNCHANGED <<failed, lock, healthy, pc, linkVars, cfgVars, stpVars>>
-----------------------------------------------------------------------------
TaskStep(t) ==
  \/ TakeLock(t) \/ FlushDelay(t) \/ FlushRead(t) \/ WriteTarget(t)
  \/ CheckFailed(t) \/ CloseFwd(t)

LinkStep == TaskStep("link") \/ LinkDelay \/ LinkSample \/ LinkDecide \/ LinkSet

StpStep ==
  \/ TaskStep("stp")
  \/ CallClear \/ CallSet \/ StoreSet \/ CallLatch \/ StoreLatch \/ Adopt \/ OpsDone
  \/ StpIterate

FabricStep ==
  \/ \E p \in Phys, reg \in ClearRegs : FlushArrives(p, reg)
  \/ \E p \in Phys : FlushEnds(p)

Next ==
  \/ LinkStep \/ StpStep \/ NetworkFault
  \/ \E t \in Tasks : FlushTimeout(t)
  \/ FabricStep
  \/ \E p \in Phys : StpFlush(p)
  \/ \E p \in Phys, learn, forward \in BOOLEAN : StpState(p, learn, forward)
  \/ \E m \in Modes : SaveConfig(m)
  \/ DmaFault

Spec == Init /\ [][Next]_vars

\* Each task runs: they block only on the mutex, on delays and at the end of
\* an iteration.  FreeRTOS hands a mutex to the waiter, so a task that wants
\* it is not passed over for ever; and 250 ms end although other tasks' writes
\* keep crossing.  Toggles cross and flushes end (the
\* buffer manager's FlushCompletes); that a flush outlasts the hundred polls
\* is always possible and never assumed.
Fairness ==
  /\ WF_vars(LinkStep) /\ WF_vars(StpStep) /\ WF_vars(NetworkFault)
  /\ SF_vars(LinkDelay) /\ \A t \in Tasks : SF_vars(TakeLock(t))
  /\ WF_vars(FabricStep)

FairSpec == Spec /\ Fairness
-----------------------------------------------------------------------------
\* Ports whose toggle from a clear register is still on its way.
Crossing(reg) == {p \in Phys : <<p, reg>> \in inCdc}

\* A port counts as closed and unflushed only while its flush is
\* outstanding: each of the clear registers starts one.
FlushOwed ==
  /\ linkDirty \subseteq Crossing("link_clear") \cup flushing
  /\ fwdDirty \subseteq Crossing("fwd_clear") \cup flushing

\* The mutex is held from the first wait to the return, and the STP task is
\* inside the call at the head of its queue.
CallOrder ==
  /\ \A t \in Tasks : lock = t <=> pc[t] \in CalleePcs \ {"take"}
  /\ (\E t \in Tasks : pc[t] = "close") \/ pc["stp"] = "latched" => failed
  /\ pc["stp"] \in CalleePcs => ops # <<>> /\ Head(ops).kind \in ClearKinds
  /\ pc["stp"] = "store" => ops # <<>> /\ Head(ops).kind \in SetKinds
  /\ pc["stp"] = "latched" => ops # <<>> /\ Head(ops).kind = "latch"
  /\ pc["stp"] \in {"first", "top"} => ops = <<>> /\ pc["link"] # "boot"
  /\ pc["link"] = "boot" => healthy

\* What the first wait of clear_and_flush has established, until the write.
FlushOrder ==
  ~failed /\ healthy =>
    \A t \in Tasks : /\ pc[t] \in {"read1", "write"} => inCdc = {}
                     /\ pc[t] = "write" => flushing = {}

\* Outside the second wait of its clear no port closed by FWD_CLR is
\* unflushed, and none closed by LINK_CLR once a poll read the flag clear.
Flushed ==
  /\ ~failed => /\ pc["stp"] # "delay2" => Crossing("fwd_clear") = {}
                /\ pc["stp"] \notin {"delay2", "read2"} => fwdDirty = {}
  /\ healthy => /\ pc["link"] \in {"poll", "decide", "set"} => Crossing("link_clear") = {}
                /\ pc["link"] = "set" \/ (pc["link"] = "decide" /\ ~busySeen) => linkDirty = {}

\* stp_task is in its loop and has read the configuration.
Started == pc["link"] # "boot" /\ pc["stp"] # "first"

Opening == {Op("learn_set", Phys, TRUE), Op("fwd_set", Phys, TRUE)}

\* The calls the STP task still has to make: a mode comes last, LEARN calls
\* are tracked, an untracked FWD_CLR is followed by the FWD_SET that restores
\* the port if it was open, and in mode "off" every port is open or about to
\* be.
OpQueue ==
  IF Started
  THEN /\ \A k \in DOMAIN ops :
            /\ ops[k].kind \in Modes => k = Len(ops)
            /\ ops[k].kind \in {"learn_clear", "learn_set"} => ops[k].tracked
            /\ ops[k].kind = "fwd_clear" /\ ~ops[k].tracked
                 => k = 1 /\ IF Len(ops) = 1 THEN ops[1].mask \cap desFwd = {}
                             ELSE Len(ops) = 2 /\ ops[2] = Op("fwd_set", ops[1].mask, FALSE)
            /\ ops[k].kind = "fwd_set" /\ ~ops[k].tracked
                 => /\ k = Len(ops) /\ ops[k].mask \subseteq desFwd
                    /\ k = 1 \/ (k = 2 /\ ops[1] = Op("fwd_clear", ops[k].mask, FALSE))
       /\ mode = "off" =>
            /\ ~engine
            /\ \/ \E k \in DOMAIN ops : ops[k].kind \in Modes
               \/ /\ \A k \in DOMAIN ops : ops[k] \in Opening
                  /\ desFwd = Phys \/ \E k \in DOMAIN ops : ops[k].kind = "fwd_set"
                  /\ desLearn = Phys \/ \E k \in DOMAIN ops : ops[k].kind = "learn_set"
  ELSE /\ mode = "off" /\ ~engine /\ (cfg = "off" => ops = <<>>)
       /\ \A k \in DOMAIN ops : ops[k].kind \in ClearKinds \cup {"latch"} /\ ~ops[k].tracked

\* The STP task's clear is in its register, the call has not returned.
Written == pc["stp"] \in {"delay2", "read2", "check"}

\* A clear of every port is yet to be written.
Awaited(kind) ==
  \E k \in DOMAIN ops : ops[k] = Op(kind, Phys, TRUE) /\ ~(k = 1 /\ Written)

FwdShadow ==
  IF ops # <<>> /\ \/ Head(ops).kind = "fwd_clear" /\ Written
                   \/ Head(ops).kind = "fwd_set" /\ ~Head(ops).tracked
  THEN desFwd \ Head(ops).mask ELSE desFwd
LearnShadow ==
  IF ops # <<>> /\ Head(ops).kind = "learn_clear" /\ Written
  THEN desLearn \ Head(ops).mask ELSE desLearn

\* When the STP task is between calls, the FWD and LEARN registers are what
\* the engine last asked for, whatever the link task did meanwhile; within
\* one they are ahead of it by that call.  The failure latch is the one
\* exception.
StpApplied ==
  ~failed =>
    IF Started THEN /\ Awaited("fwd_clear") \/ fwdReg = FwdShadow
                    /\ Awaited("learn_clear") \/ learnReg = LearnShadow
    ELSE cfg = "off" => fwdReg = Phys /\ learnReg = Phys

\* Between polls LINK_UP is what the link task believes it is, and within one
\* it differs by the ports about to be cleared or set, unless a flush timed
\* out before LINK_CLR was written or a DMA fault intervened.
LinkApplied ==
  ~failed /\ healthy =>
    /\ pc["link"] \in {"boot", "idle", "poll", "decide", "delay2", "read2", "check"} => linkReg = enabled
    /\ pc["link"] \in {"take", "delay1", "read1", "write"} => enabled = linkReg \ linkMask
    /\ pc["link"] = "set" => enabled = linkReg \cup linkMask

\* The variables have their types, and the registers are what the tasks asked
\* for, up to the call in progress.
ControlInv ==
  /\ PortControlType /\ FlushOwed /\ CallOrder /\ FlushOrder /\ Flushed
  /\ OpQueue /\ StpApplied /\ LinkApplied

\* A port is reopened only after the flush that its closing started has
\* ended: LINK_SET relies on the busy flag read at the start of the poll and
\* FWD_SET on the wait inside pstate_fwd_clear.
ReopenedClean ==
  /\ \A p \in linkReg' \ linkReg : p \in linkDirty => ~healthy
  /\ \A p \in fwdReg' \ fwdReg : p \in fwdDirty => failed

\* Flushes are serialised: no clear is written while an earlier flush is
\* outstanding, except in the two failure paths.
FlushSerialised ==
  inCdc' \ inCdc # {} => (inCdc = {} /\ flushing = {}) \/ failed \/ ~healthy

\* Closing, flushing and reopening never overtake each other, whichever task
\* or path writes the registers.
FlushesOrdered == [][ReopenedClean /\ FlushSerialised]_vars

\* A latched failure reaches the hardware: FWD is cleared on every port.
\* (NoSetAfterFault below is about what may follow.)
FaultCloses == <>failed => <>(failed /\ fwdReg = {})

\* After a DMA fault the physical ports go down and stay down, although the
\* link task may still be about to add one; or the failure latch stops
\* forwarding instead.
DmaFaultDisables == ~healthy ~> (failed \/ [](linkReg = {}))

\* The STP task is never stuck in a call: it returns to the top of its loop.
StpReturns == pc["stp"] # "top" ~> pc["stp"] = "top"

\* Both faults reach the hardware, and no call waits for ever for it.
FaultsTakeEffect == FaultCloses /\ DmaFaultDisables /\ StpReturns

\* The comment in clear_and_flush: once the failure is latched, nothing is
\* opened again until restart.
NothingOpened == failed => fwdReg' \subseteq fwdReg /\ learnReg' \subseteq learnReg
NoSetAfterFault == [][NothingOpened]_vars

=============================================================================
