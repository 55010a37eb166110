-------------------------- MODULE PortControlProofs --------------------------
(***************************************************************************)
(* The port control invariant for every set of ports, every fabric and     *)
(* every set of STP modes.  ControlInv is inductive as it stands.          *)
(***************************************************************************)
EXTENDS PortControl, TLAPS

\* The type invariant by owner of the variables.
RegTypes == linkReg \subseteq Phys /\ fwdReg \subseteq Phys /\ learnReg \subseteq Phys
LinkTypes ==
    /\ desired \subseteq Phys /\ enabled \subseteq Phys /\ linkMask \subseteq Phys
    /\ busySeen \in BOOLEAN /\ settled \in BOOLEAN
FabricTypes ==
    /\ flushing \subseteq Phys /\ linkDirty \subseteq Phys /\ fwdDirty \subseteq Phys
    /\ inCdc \subseteq Phys \X ClearRegs
CtlTypes ==
    failed \in BOOLEAN /\ healthy \in BOOLEAN /\ reported \in BOOLEAN /\ lock \in Tasks \cup {NoTask}
PcTypes == pc \in [Tasks -> LinkPcs \cup StpPcs] /\ pc["link"] \in LinkPcs /\ pc["stp"] \in StpPcs
ShadowTypes == desFwd \subseteq Phys /\ desLearn \subseteq Phys /\ engine \in BOOLEAN
ModeTypes == cfg \in Modes /\ mode \in Modes /\ board \in Boards
OpsType == ops \in Seq(Ops)

\* The parts of the type invariant.
LEMMA TypeParts ==
  PortControlType <=> /\ RegTypes /\ LinkTypes /\ FabricTypes /\ CtlTypes /\ PcTypes
                      /\ ShadowTypes /\ ModeTypes /\ OpsType
BY Zenon DEF PortControlType, RegTypes, LinkTypes, FabricTypes, CtlTypes, PcTypes, ShadowTypes,
   ModeTypes, OpsType

\* Groups of variables left alone, one by one.
LEMMA Same ==
  /\ UNCHANGED regVars => linkReg' = linkReg /\ fwdReg' = fwdReg /\ learnReg' = learnReg
  /\ UNCHANGED fabricVars => /\ inCdc' = inCdc /\ flushing' = flushing
                             /\ linkDirty' = linkDirty /\ fwdDirty' = fwdDirty
  /\ UNCHANGED pollVars => /\ busySeen' = busySeen /\ desired' = desired
                           /\ enabled' = enabled /\ settled' = settled
  /\ UNCHANGED linkVars => UNCHANGED pollVars /\ linkMask' = linkMask
  /\ UNCHANGED stpVars => /\ mode' = mode /\ engine' = engine /\ desFwd' = desFwd
                          /\ desLearn' = desLearn /\ ops' = ops
  /\ UNCHANGED controlVars => /\ failed' = failed /\ lock' = lock /\ healthy' = healthy
                              /\ reported' = reported
  /\ UNCHANGED cfgVars => cfg' = cfg /\ board' = board
BY Zenon DEF regVars, fabricVars, pollVars, linkVars, stpVars, controlVars, cfgVars

\* The mutex is a task or free, and a mode is not the name of a call.
LEMMA Names ==
  /\ Tasks = {"link", "stp"} /\ NoTask # "link" /\ NoTask # "stp"
  /\ \A m \in Modes : m \notin ClearKinds \cup SetKinds \cup {"latch"}
  /\ "off" \in Modes
BY Zenon, ControlAssumption DEF Tasks, ClearKinds, SetKinds

\* Where a task goes, and that the other one stays.
LEMMA GotoFacts ==
  ASSUME PcTypes, NEW t \in Tasks, NEW l, Goto(t, l)
  PROVE  pc'[t] = l /\ \A u \in Tasks : u # t => pc'[u] = pc[u]
BY Zenon DEF Goto, PcTypes

\* The same for each of the two tasks.
LEMMA GotoLink ==
  ASSUME PcTypes, NEW l, Goto("link", l) PROVE pc'["link"] = l /\ pc'["stp"] = pc["stp"]
BY Zenon, GotoFacts, Names

\* ... and the STP task.
LEMMA GotoStp ==
  ASSUME PcTypes, NEW l, Goto("stp", l) PROVE pc'["stp"] = l /\ pc'["link"] = pc["link"]
BY Zenon, GotoFacts, Names

\* A task stays in its own code.
LEMMA GotoTyped ==
  ASSUME PcTypes, NEW t \in Tasks, NEW l, Goto(t, l),
         t = "link" => l \in LinkPcs, t = "stp" => l \in StpPcs
  PROVE  PcTypes'
<1>1. pc' \in [Tasks -> LinkPcs \cup StpPcs]
  BY Zenon, Names DEF Goto, PcTypes
<1>2. CASE t = "link"
  BY Zenon, <1>1, <1>2, GotoLink DEF PcTypes
<1>3. CASE t = "stp"
  BY Zenon, <1>1, <1>3, GotoStp DEF PcTypes
<1> QED  BY Zenon, <1>2, <1>3, Names

\* The first of the calls that remain, and the rest.
LEMMA HeadFacts ==
  ASSUME OpsType, ops # <<>>
  PROVE  /\ Head(ops) \in Ops /\ Head(ops) = ops[1] /\ Head(ops).mask \subseteq Phys
         /\ Len(ops) \in Nat /\ Len(ops) >= 1 /\ DOMAIN ops = 1..Len(ops)
         /\ Tail(ops) \in Seq(Ops) /\ Len(Tail(ops)) = Len(ops) - 1
         /\ \A k \in 1..(Len(ops) - 1) : Tail(ops)[k] = ops[k + 1]
<1> USE DEF OpsType
<1>1. Len(ops) \in Nat /\ Len(ops) >= 1 /\ DOMAIN ops = 1..Len(ops) /\ Head(ops) = ops[1]
  OBVIOUS
<1>2. Head(ops) \in Ops
  BY <1>1
<1>3. Head(ops).mask \subseteq Phys
  BY Zenon, <1>2 DEF Ops
<1>4. Tail(ops) \in Seq(Ops) /\ Len(Tail(ops)) = Len(ops) - 1
  OBVIOUS
<1>5. \A k \in 1..(Len(ops) - 1) : Tail(ops)[k] = ops[k + 1]
  OBVIOUS
<1> QED  BY Zenon, <1>1, <1>2, <1>3, <1>4, <1>5

\* A call's record.
LEMMA OpFields ==
  ASSUME NEW kind, NEW mask, NEW tracked
  PROVE  /\ Op(kind, mask, tracked).kind = kind /\ Op(kind, mask, tracked).mask = mask
         /\ Op(kind, mask, tracked).tracked = tracked
         /\ kind \in ClearKinds \cup SetKinds \cup {"latch"} \cup Modes /\ mask \subseteq Phys
              /\ tracked \in BOOLEAN => Op(kind, mask, tracked) \in Ops
BY Zenon DEF Op, Ops

\* A clear that a task is inside of.
LEMMA TargetFacts ==
  ASSUME LinkTypes, OpsType, CallOrder, NEW t \in Tasks, pc[t] \in CalleePcs
  PROVE  /\ Target(t).kind \in ClearRegs /\ Target(t).mask \subseteq Phys
         /\ t = "link" => Target(t).kind = "link_clear" /\ Target(t).mask = linkMask
         /\ t = "stp" => Target(t) = Head(ops) /\ Target(t).kind \in ClearKinds
<1>1. CASE t = "link"
  BY Zenon, <1>1 DEF Target, LinkTypes, ClearRegs
<1>2. CASE t = "stp"
  BY Zenon, <1>2, HeadFacts DEF Target, CallOrder, ClearRegs
<1> QED  BY Zenon, <1>1, <1>2, Names

\* A write to a clear register starts a flush of the ports it names.
LEMMA WriteFacts ==
  ASSUME FabricTypes, NEW reg \in ClearRegs, NEW mask \in SUBSET Phys, WriteClear(reg, mask)
  PROVE  /\ Crossing(reg)' = Crossing(reg) \cup mask
         /\ \A r : r # reg => Crossing(r)' = Crossing(r)
         /\ flushing' = flushing
<1>1. \A p, r : <<p, r>> \in inCdc' <=> <<p, r>> \in inCdc \/ (p \in mask /\ r = reg)
  BY Zenon DEF WriteClear, FlushBits
<1>2. \A r : Crossing(r)' = {p \in Phys : <<p, r>> \in inCdc'}
  BY Zenon DEF Crossing
<1> QED  BY Zenon, <1>1, <1>2 DEF Crossing, WriteClear

\* It keeps the types of what it writes.
LEMMA WriteTyped ==
  ASSUME RegTypes, FabricTypes, NEW reg \in ClearRegs, NEW mask \in SUBSET Phys, WriteClear(reg, mask)
  PROVE  RegTypes' /\ FabricTypes'
<1>1. RegTypes'
  BY Zenon DEF WriteClear, RegTypes
<1>2. inCdc' \subseteq Phys \X ClearRegs
  BY Zenon DEF WriteClear, FabricTypes, FlushBits
<1>3. FabricTypes'
  BY Zenon, <1>2 DEF WriteClear, FabricTypes
<1> QED  BY Zenon, <1>1, <1>3


(***************************************************************************)
(* Types.                                                                  *)
(***************************************************************************)
\* Startup's calls, and the STP task's, are calls.
LEMMA CallsTyped ==
  ASSUME ShadowTypes, ModeTypes
  PROVE  /\ \A m \in Modes : Prepare(m) \in Seq(Ops)
         /\ ReconfigureOps \in Seq(Ops)
         /\ <<Op("learn_set", Phys, TRUE), Op("fwd_set", Phys, TRUE)>> \in Seq(Ops)
         /\ <<Op("latch", Phys, FALSE)>> \in Seq(Ops)
         /\ \A p \in Phys : FlushOps(p) \in Seq(Ops)
         /\ \A p \in Phys : \A learn, forward \in BOOLEAN :
              StateOps(p, learn, forward) \in Seq({o \in Ops : o.tracked /\ o.mask = {p} /\ o.kind \notin Modes})
<1>1. ASSUME NEW mask \in SUBSET Phys, NEW tracked \in BOOLEAN
      PROVE  /\ Op("fwd_clear", mask, tracked) \in Ops /\ Op("learn_clear", mask, tracked) \in Ops
             /\ Op("fwd_set", mask, tracked) \in Ops /\ Op("learn_set", mask, tracked) \in Ops
             /\ Op("latch", mask, tracked) \in Ops /\ \A m \in Modes : Op(m, mask, tracked) \in Ops
  BY Zenon, OpFields DEF ClearKinds, SetKinds
<1>s. ASSUME NEW S
      PROVE  /\ <<>> \in Seq(S) /\ \A a \in S : <<a>> \in Seq(S)
             /\ \A a, b \in S : <<a, b>> \in Seq(S)
             /\ \A a, b, c \in S : <<a, b, c>> \in Seq(S)
             /\ \A a, b \in Seq(S) : a \o b \in Seq(S)
  OBVIOUS
<1>p. Phys \in SUBSET Phys /\ TRUE \in BOOLEAN /\ FALSE \in BOOLEAN
  BY Zenon
<1>2. \A m \in Modes : Prepare(m) \in Seq(Ops)
  <2>1. Op("latch", Phys, FALSE) \in Ops /\ Op("fwd_clear", Phys, FALSE) \in Ops /\ Op("learn_clear", Phys, FALSE) \in Ops
    BY Zenon, <1>1, <1>p
  <2>2. /\ <<Op("latch", Phys, FALSE)>> \in Seq(Ops)
        /\ <<Op("fwd_clear", Phys, FALSE), Op("learn_clear", Phys, FALSE)>> \in Seq(Ops)
    BY Zenon, <2>1, <1>s
  <2> QED  BY Zenon, <2>2, <1>s DEF Prepare
<1>3. ReconfigureOps \in Seq(Ops)
  <2>1. Op(cfg, Phys, FALSE) \in Ops /\ Op("fwd_clear", Phys, TRUE) \in Ops /\ Op("learn_clear", Phys, TRUE) \in Ops
    BY Zenon, <1>1, <1>p DEF ModeTypes
  <2> QED  BY Zenon, <2>1, <1>s DEF ReconfigureOps
<1>4. /\ <<Op("learn_set", Phys, TRUE), Op("fwd_set", Phys, TRUE)>> \in Seq(Ops)
      /\ <<Op("latch", Phys, FALSE)>> \in Seq(Ops)
  <2>1. Op("latch", Phys, FALSE) \in Ops /\ Op("fwd_set", Phys, TRUE) \in Ops /\ Op("learn_set", Phys, TRUE) \in Ops
    BY Zenon, <1>1, <1>p
  <2> QED  BY Zenon, <2>1, <1>s
<1>5. ASSUME NEW p \in Phys PROVE FlushOps(p) \in Seq(Ops)
  <2>1. Op("fwd_clear", {p}, FALSE) \in Ops /\ Op("fwd_set", {p}, FALSE) \in Ops
    BY Zenon, <1>1, <1>p
  <2>2. <<Op("fwd_clear", {p}, FALSE)>> \in Seq(Ops) /\ <<Op("fwd_set", {p}, FALSE)>> \in Seq(Ops)
    BY Zenon, <2>1, <1>s
  <2> QED  BY Zenon, <2>2, <1>s DEF FlushOps
<1>6. ASSUME NEW p \in Phys, NEW learn \in BOOLEAN, NEW forward \in BOOLEAN
      PROVE  StateOps(p, learn, forward) \in Seq({o \in Ops : o.tracked /\ o.mask = {p} /\ o.kind \notin Modes})
  <2> DEFINE S == {o \in Ops : o.tracked /\ o.mask = {p} /\ o.kind \notin Modes}
  <2>1. /\ Op("fwd_clear", {p}, TRUE) \in S /\ Op("learn_clear", {p}, TRUE) \in S
        /\ Op("learn_set", {p}, TRUE) \in S /\ Op("fwd_set", {p}, TRUE) \in S
    <3>1. /\ "fwd_clear" \notin Modes /\ "learn_clear" \notin Modes
          /\ "fwd_set" \notin Modes /\ "learn_set" \notin Modes
      BY Zenon, Names DEF ClearKinds, SetKinds
    <3>2. ASSUME NEW kind, Op(kind, {p}, TRUE) \in Ops, kind \notin Modes PROVE Op(kind, {p}, TRUE) \in S
      <4> DEFINE o == Op(kind, {p}, TRUE)
      <4>1. o.tracked /\ o.mask = {p} /\ o.kind \notin Modes
        BY Zenon, <3>2 DEF Op
      <4> HIDE DEF o
      <4>2. o \in Ops
        BY Zenon, <3>2 DEF o
      <4>3. o \in S
        BY Zenon, <4>1, <4>2
      <4> QED  BY Zenon, <4>3 DEF o
    <3>3. /\ Op("fwd_clear", {p}, TRUE) \in Ops /\ Op("learn_clear", {p}, TRUE) \in Ops
          /\ Op("learn_set", {p}, TRUE) \in Ops /\ Op("fwd_set", {p}, TRUE) \in Ops
      BY Zenon, <1>1, <1>p
    <3> HIDE DEF S
    <3> QED  BY Zenon, <3>1, <3>2, <3>3
  <2> HIDE DEF S
  <2>2. /\ <<Op("fwd_clear", {p}, TRUE)>> \in Seq(S) /\ <<Op("learn_clear", {p}, TRUE)>> \in Seq(S)
        /\ <<Op("learn_set", {p}, TRUE)>> \in Seq(S) /\ <<Op("fwd_set", {p}, TRUE)>> \in Seq(S)
        /\ <<>> \in Seq(S)
    BY Zenon, <1>s, <2>1
  <2>4. StateOps(p, learn, forward) \in Seq(S)
    BY Zenon, <1>s, <2>2 DEF StateOps
  <2> QED  BY Zenon, <2>4 DEF S
<1> QED  BY Zenon, <1>2, <1>3, <1>4, <1>5, <1>6

\* The call that returns leaves calls and sets of ports.
LEMMA PopTyped ==
  ASSUME ShadowTypes, OpsType, ops # <<>>, OpDone PROVE ShadowTypes' /\ OpsType' /\ mode' = mode
<1>1. Head(ops).mask \subseteq Phys /\ Tail(ops) \in Seq(Ops)
  BY Zenon, HeadFacts
<1>2. desFwd' \subseteq Phys
  BY Zenon, <1>1 DEF OpDone, ShadowTypes
<1>3. desLearn' \subseteq Phys
  BY Zenon, <1>1 DEF OpDone, ShadowTypes
<1>4. engine' = engine /\ ops' = Tail(ops) /\ mode' = mode
  BY Zenon DEF OpDone
<1> QED  BY Zenon, <1>1, <1>2, <1>3, <1>4 DEF ShadowTypes, OpsType

\* Every step keeps the register and fabric types.
LEMMA RegsTyped ==
  ASSUME PortControlType, CallOrder, [Next]_vars PROVE RegTypes' /\ FabricTypes'
<1> USE TypeParts, Same
<1>1. CASE UNCHANGED <<regVars, fabricVars>>
  BY Zenon, <1>1 DEF RegTypes, FabricTypes
<1>2. ASSUME NEW t \in Tasks, WriteTarget(t) PROVE RegTypes' /\ FabricTypes'
  <2>1. Target(t).kind \in ClearRegs /\ Target(t).mask \subseteq Phys
    BY Zenon, <1>2, TargetFacts DEF WriteTarget, CalleePcs
  <2> QED  BY Zenon, <1>2, <2>1, WriteTyped DEF WriteTarget
<1>3. ASSUME CloseAll PROVE RegTypes' /\ FabricTypes'
  BY Zenon, <1>3, WriteTyped DEF CloseAll, ClearRegs, ClearKinds
<1>4. CASE NetworkFault
  BY Zenon, <1>4, WriteTyped DEF NetworkFault, ClearRegs
<1>5. CASE LinkSet
  BY Zenon, <1>5 DEF LinkSet, RegTypes, LinkTypes, FabricTypes
<1>6. CASE StoreSet
  <2>1. Head(ops).mask \subseteq Phys
    BY Zenon, <1>6, HeadFacts DEF StoreSet, CallOrder
  <2> QED  BY Zenon, <1>6, <2>1 DEF StoreSet, RegTypes, FabricTypes
<1>7. ASSUME NEW p \in Phys, NEW reg, FlushArrives(p, reg) PROVE RegTypes' /\ FabricTypes'
  BY Zenon, <1>7 DEF FlushArrives, RegTypes, FabricTypes
<1>8. ASSUME NEW p, FlushEnds(p) PROVE RegTypes' /\ FabricTypes'
  BY Zenon, <1>8 DEF FlushEnds, RegTypes, FabricTypes
<1>9. ASSUME NEW t \in Tasks, TaskStep(t) PROVE RegTypes' /\ FabricTypes'
  BY Zenon, <1>1, <1>2, <1>3, <1>9
  DEF TaskStep, TakeLock, FlushDelay, FlushRead, CheckFailed, CloseFwd, OnlyPc
<1>10. CASE LinkStep
  BY Zenon, <1>1, <1>5, <1>9, <1>10, Names DEF LinkStep, LinkDelay, LinkSample, LinkDecide, OnlyPc
<1>11. CASE StpStep
  BY Zenon, <1>1, <1>3, <1>6, <1>9, <1>11, Names
  DEF StpStep, CallClear, CallSet, CallLatch, StoreLatch, Adopt, OpsDone, StpIterate, OnlyPc
<1>12. CASE FabricStep
  BY Zenon, <1>7, <1>8, <1>12 DEF FabricStep
<1>13. ASSUME NEW t, FlushTimeout(t) PROVE RegTypes' /\ FabricTypes'
  BY Zenon, <1>1, <1>13 DEF FlushTimeout
<1>14. ASSUME NEW p, StpFlush(p) PROVE RegTypes' /\ FabricTypes'
  BY Zenon, <1>1, <1>14 DEF StpFlush
<1>15. ASSUME NEW p, NEW learn, NEW forward, StpState(p, learn, forward) PROVE RegTypes' /\ FabricTypes'
  BY Zenon, <1>1, <1>15 DEF StpState
<1>16. CASE DmaFault \/ UNCHANGED vars \/ \E m \in Modes : SaveConfig(m)
  BY Zenon, <1>1, <1>16 DEF DmaFault, SaveConfig, vars
<1> QED  BY Zenon, <1>4, <1>10, <1>11, <1>12, <1>13, <1>14, <1>15, <1>16 DEF Next


\* A call returns: the link task is idle again, or the STP task has one call
\* less to make.
LEMMA ReturnFacts ==
  ASSUME PcTypes, NEW t \in Tasks, Return(t)
  PROVE  /\ t = "link" => /\ pc'["link"] = "idle" /\ pc'["stp"] = pc["stp"] /\ linkMask' = {}
                          /\ UNCHANGED stpVars
         /\ t = "stp" => /\ pc'["stp"] = "run" /\ pc'["link"] = pc["link"] /\ linkMask' = linkMask
                         /\ OpDone
         /\ PcTypes'
<1>1. CASE t = "link"
  <2>1. Goto("link", "idle") /\ linkMask' = {} /\ UNCHANGED stpVars
    BY Zenon, <1>1 DEF Return
  <2> QED  BY Zenon, <1>1, <2>1, GotoLink, GotoTyped, Names DEF LinkPcs
<1>2. CASE t = "stp"
  <2>1. Goto("stp", "run") /\ OpDone /\ linkMask' = linkMask
    BY Zenon, <1>2 DEF Return
  <2> QED  BY Zenon, <1>2, <2>1, GotoStp, GotoTyped, Names DEF StpPcs
<1> QED  BY Zenon, <1>1, <1>2, Names

\* The link task's variables keep their types.
LEMMA LinkTyped ==
  ASSUME PortControlType, [Next]_vars PROVE LinkTypes'
<1> USE TypeParts, Same
<1>1. CASE UNCHANGED linkVars
  BY Zenon, <1>1 DEF LinkTypes
<1>2. ASSUME NEW t \in Tasks, UNCHANGED pollVars, Return(t) \/ linkMask' = linkMask PROVE LinkTypes'
  <2>1. linkMask' = {} \/ linkMask' = linkMask
    BY Zenon, <1>2, ReturnFacts, Names
  <2> QED  BY Zenon, <1>2, <2>1 DEF LinkTypes
<1>3. ASSUME NEW t \in Tasks, TaskStep(t) PROVE LinkTypes'
  BY Zenon, <1>1, <1>2, <1>3 DEF TaskStep, TakeLock, FlushDelay, FlushRead, WriteTarget,
     CheckFailed, CloseFwd, OnlyPc
<1>4. CASE LinkSample
  BY Zenon, <1>4 DEF LinkSample, LinkTypes
<1>5. CASE LinkDecide
  <2>1. Want(desired) \subseteq Phys
    BY Zenon DEF Want, LinkTypes
  <2>2. /\ enabled' \subseteq Phys /\ linkMask' \subseteq Phys
    BY Zenon, <1>5, <2>1 DEF LinkDecide, LinkTypes, NowEnabled
  <2>3. settled' \in BOOLEAN /\ busySeen' \in BOOLEAN /\ desired' = {}
    BY Zenon, <1>5 DEF LinkDecide, LinkTypes
  <2> QED  BY Zenon, <2>2, <2>3 DEF LinkTypes
<1>6. CASE LinkSet
  BY Zenon, <1>6 DEF LinkSet, LinkTypes
<1>7. CASE LinkStep
  BY Zenon, <1>1, <1>3, <1>4, <1>5, <1>6, <1>7, Names DEF LinkStep, LinkDelay, OnlyPc
<1>8. CASE StpStep
  BY Zenon, <1>1, <1>3, <1>8, Names
  DEF StpStep, CallClear, CallSet, StoreSet, CallLatch, StoreLatch, Adopt, OpsDone, StpIterate, OnlyPc
<1>9. CASE FabricStep
  BY Zenon, <1>1, <1>9 DEF FabricStep, FlushArrives, FlushEnds
<1>10. ASSUME NEW t, FlushTimeout(t) PROVE LinkTypes'
  BY Zenon, <1>1, <1>10 DEF FlushTimeout
<1>11. ASSUME NEW p, StpFlush(p) PROVE LinkTypes'
  BY Zenon, <1>1, <1>11 DEF StpFlush
<1>12. ASSUME NEW p, NEW learn, NEW forward, StpState(p, learn, forward) PROVE LinkTypes'
  BY Zenon, <1>1, <1>12 DEF StpState
<1>13. CASE NetworkFault \/ DmaFault \/ UNCHANGED vars \/ \E m \in Modes : SaveConfig(m)
  BY Zenon, <1>1, <1>13 DEF NetworkFault, DmaFault, SaveConfig, vars
<1> QED  BY Zenon, <1>7, <1>8, <1>9, <1>10, <1>11, <1>12, <1>13 DEF Next

\* The mutex and the fault flags keep their types.  A failure stays, and so
\* does an unhealthy DMA engine.
LEMMA ControlTyped ==
  ASSUME PortControlType, [Next]_vars PROVE CtlTypes' /\ (failed => failed') /\ (healthy' => healthy)
<1> DEFINE Goal == CtlTypes' /\ (failed => failed') /\ (healthy' => healthy)
<1> USE TypeParts, Same
<1>1. CASE UNCHANGED controlVars
  BY <1>1 DEF CtlTypes
<1>2. ASSUME NEW t \in Tasks, TakeLock(t) PROVE Goal
  BY Zenon, <1>2 DEF TakeLock, CtlTypes
<1>3. ASSUME NEW t \in Tasks, CheckFailed(t) \/ CloseFwd(t) PROVE Goal
  BY <1>3 DEF CheckFailed, CloseFwd, CtlTypes
<1>4. ASSUME NEW t \in Tasks, TaskStep(t) PROVE Goal
  BY Zenon, <1>1, <1>2, <1>3, <1>4 DEF TaskStep, FlushDelay, FlushRead, WriteTarget, OnlyPc
<1>5. CASE LinkStep
  BY Zenon, <1>1, <1>4, <1>5, Names DEF LinkStep, LinkDelay, LinkSample, LinkDecide, LinkSet, OnlyPc
<1>6. CASE CallLatch
  BY Zenon, <1>6 DEF CallLatch, CtlTypes
<1>7. CASE StpStep
  BY Zenon, <1>1, <1>4, <1>6, <1>7, Names
  DEF StpStep, CallClear, CallSet, StoreSet, StoreLatch, Adopt, OpsDone, StpIterate, OnlyPc
<1>8. CASE FabricStep
  BY Zenon, <1>1, <1>8 DEF FabricStep, FlushArrives, FlushEnds
<1>9. ASSUME NEW t, FlushTimeout(t) PROVE Goal
  BY Zenon, <1>9 DEF FlushTimeout, CtlTypes
<1>10. ASSUME NEW p, StpFlush(p) PROVE Goal
  BY Zenon, <1>1, <1>10 DEF StpFlush
<1>11. ASSUME NEW p, NEW learn, NEW forward, StpState(p, learn, forward) PROVE Goal
  BY Zenon, <1>1, <1>11 DEF StpState
<1>12. CASE NetworkFault
  BY Zenon, <1>12 DEF NetworkFault, CtlTypes
<1>14. CASE DmaFault
  BY Zenon, <1>14 DEF DmaFault, CtlTypes
<1>13. CASE UNCHANGED vars \/ \E m \in Modes : SaveConfig(m)
  BY Zenon, <1>1, <1>13 DEF SaveConfig, vars
<1> QED  BY Zenon, <1>5, <1>7, <1>8, <1>9, <1>10, <1>11, <1>12, <1>13, <1>14 DEF Next


\* What a task does inside clear_and_flush, before it returns.
LEMMA CalleeMoves ==
  ASSUME PcTypes, NEW t \in Tasks,
         TakeLock(t) \/ FlushDelay(t) \/ FlushRead(t) \/ WriteTarget(t) \/ FlushTimeout(t)
  PROVE  /\ pc[t] \in CalleePcs /\ pc'[t] \in CalleePcs \ {"take"} /\ PcTypes'
         /\ \A u \in Tasks : u # t => pc'[u] = pc[u]
<1>1. PICK l \in CalleePcs \ {"take"} : Goto(t, l)
  BY Zenon DEF TakeLock, FlushDelay, FlushRead, WriteTarget, FlushTimeout, AfterWrite, CalleePcs
<1>2. PcTypes'
  BY Zenon, <1>1, GotoTyped DEF LinkPcs, StpPcs
<1>3. pc[t] \in CalleePcs
  BY Zenon DEF TakeLock, FlushDelay, FlushRead, WriteTarget, FlushTimeout, CalleePcs
<1> QED  BY Zenon, <1>1, <1>2, <1>3, GotoFacts

\* Each task stays in its own code.
LEMMA PcTyped ==
  ASSUME PortControlType, [Next]_vars PROVE PcTypes'
<1> USE TypeParts, Same
<1>1. CASE UNCHANGED pc
  BY Zenon, <1>1 DEF PcTypes
<1>2. ASSUME NEW t \in Tasks, Return(t) PROVE PcTypes'
  BY Zenon, <1>2, ReturnFacts
<1>3. ASSUME NEW t \in Tasks, Goto(t, "close") PROVE PcTypes'
  BY Zenon, <1>3, GotoTyped DEF LinkPcs, StpPcs, CalleePcs
<1>4. ASSUME NEW t \in Tasks, TaskStep(t) PROVE PcTypes'
  BY Zenon, <1>2, <1>3, <1>4, CalleeMoves DEF TaskStep, CheckFailed, CloseFwd
<1>5. ASSUME NEW l \in {"poll", "decide", "set", "take", "idle"}, Goto("link", l) PROVE PcTypes'
  <2>1. l \in LinkPcs /\ "link" \in Tasks
    BY Zenon, Names DEF LinkPcs, CalleePcs
  <2> QED  BY Zenon, <1>5, <2>1, GotoTyped
<1>6. ASSUME NEW l \in {"take", "store", "run", "latched", "top"}, Goto("stp", l) PROVE PcTypes'
  <2>1. l \in StpPcs /\ "stp" \in Tasks
    BY Zenon, Names DEF StpPcs, CalleePcs
  <2> QED  BY Zenon, <1>6, <2>1, GotoTyped
<1>7. CASE LinkStep
  <2>1. CASE LinkDecide
    BY Zenon, <1>5, <2>1 DEF LinkDecide
  <2>2. CASE LinkDelay \/ LinkSample \/ LinkSet
    BY Zenon, <1>5, <2>2 DEF LinkDelay, LinkSample, LinkSet
  <2> QED  BY Zenon, <1>4, <1>7, <2>1, <2>2, Names DEF LinkStep
<1>8. CASE StpStep
  <2>1. CASE OpsDone
    <3>1. CASE pc' = [t \in Tasks |-> IF t = "link" THEN "idle" ELSE "first"]
      BY Zenon, <3>1, Names DEF PcTypes, LinkPcs, StpPcs
    <3> QED  BY Zenon, <1>6, <2>1, <3>1 DEF OpsDone
  <2>2. CASE CallClear \/ CallSet \/ StoreSet \/ CallLatch
    BY Zenon, <1>1, <1>6, <2>2 DEF CallClear, CallSet, StoreSet, CallLatch
  <2>3. CASE StoreLatch \/ Adopt \/ StpIterate
    BY Zenon, <1>1, <1>6, <2>3 DEF StoreLatch, Adopt, StpIterate
  <2> QED  BY Zenon, <1>4, <1>8, <2>1, <2>2, <2>3, Names DEF StpStep
<1>9. CASE FabricStep
  BY Zenon, <1>1, <1>9 DEF FabricStep, FlushArrives, FlushEnds
<1>10. ASSUME NEW t \in Tasks, FlushTimeout(t) PROVE PcTypes'
  BY Zenon, <1>10, CalleeMoves
<1>11. ASSUME NEW p, StpFlush(p) PROVE PcTypes'
  BY Zenon, <1>6, <1>11 DEF StpFlush
<1>12. ASSUME NEW p, NEW learn, NEW forward, StpState(p, learn, forward) PROVE PcTypes'
  BY Zenon, <1>6, <1>12 DEF StpState
<1>13. CASE NetworkFault \/ DmaFault \/ UNCHANGED vars \/ \E m \in Modes : SaveConfig(m)
  BY Zenon, <1>1, <1>13 DEF NetworkFault, DmaFault, SaveConfig, vars
<1> QED  BY Zenon, <1>7, <1>8, <1>9, <1>10, <1>11, <1>12, <1>13 DEF Next

\* What the STP task remembers keeps its type.
LEMMA StpTyped ==
  ASSUME PortControlType, CallOrder, [Next]_vars PROVE ShadowTypes' /\ ModeTypes' /\ OpsType'
<1> USE TypeParts, Same
<1>1. CASE UNCHANGED stpVars /\ UNCHANGED cfgVars
  BY Zenon, <1>1 DEF ShadowTypes, ModeTypes, OpsType
<1>2. ASSUME ops # <<>>, OpDone, UNCHANGED cfgVars PROVE ShadowTypes' /\ ModeTypes' /\ OpsType'
  BY Zenon, <1>2, PopTyped DEF ModeTypes
<1>3. ASSUME NEW t \in Tasks, pc[t] \in CalleePcs, Return(t), UNCHANGED cfgVars
      PROVE  ShadowTypes' /\ ModeTypes' /\ OpsType'
  <2>1. t = "stp" => ops # <<>>
    BY Zenon, <1>3 DEF CallOrder
  <2>2. UNCHANGED stpVars \/ (ops # <<>> /\ OpDone)
    BY Zenon, <1>3, <2>1, ReturnFacts, Names
  <2> QED  BY Zenon, <1>1, <1>2, <1>3, <2>2
<1>4. ASSUME NEW t \in Tasks, TaskStep(t) PROVE ShadowTypes' /\ ModeTypes' /\ OpsType'
  <2>1. CASE CheckFailed(t) \/ CloseFwd(t)
    BY Zenon, <1>1, <1>3, <2>1 DEF CheckFailed, CloseFwd, CalleePcs
  <2> QED  BY Zenon, <1>1, <1>4, <2>1 DEF TaskStep, TakeLock, FlushDelay, FlushRead, WriteTarget,
              OnlyPc
<1>5. CASE LinkStep
  BY Zenon, <1>1, <1>4, <1>5, Names DEF LinkStep, LinkDelay, LinkSample, LinkDecide, LinkSet, OnlyPc
<1>6. CASE CallSet \/ StoreSet \/ StoreLatch
  BY Zenon, <1>1, <1>2, <1>6 DEF CallSet, StoreSet, StoreLatch, CallOrder
<1>7. CASE Adopt
  <2>1. UNCHANGED cfgVars /\ UNCHANGED <<desFwd, desLearn>> /\ engine' \in BOOLEAN /\ mode' \in Modes
    BY Zenon, <1>7 DEF Adopt
  <2>2. ops' \in Seq(Ops)
    <3>1. <<>> \in Seq(Ops)
      OBVIOUS
    <3> QED  BY Zenon, <1>7, <3>1, CallsTyped DEF Adopt
  <2> QED  BY Zenon, <2>1, <2>2 DEF ShadowTypes, ModeTypes, OpsType
<1>8. CASE StpIterate
  <2>1. UNCHANGED cfgVars /\ UNCHANGED <<mode, engine>>
    BY Zenon, <1>8 DEF StpIterate
  <2>2. ops' = ops \/ ops' = ReconfigureOps
    BY Zenon, <1>8 DEF StpIterate
  <2>3. desFwd' \subseteq Phys /\ desLearn' \subseteq Phys
    BY Zenon, <1>8 DEF StpIterate, ShadowTypes
  <2> QED  BY Zenon, <2>1, <2>2, <2>3, CallsTyped DEF ShadowTypes, ModeTypes, OpsType
<1>9. CASE StpStep
  BY Zenon, <1>1, <1>4, <1>6, <1>7, <1>8, <1>9, Names DEF StpStep, CallClear, CallLatch, OpsDone,
     OnlyPc
<1>10. ASSUME NEW p \in Phys, StpFlush(p) PROVE ShadowTypes' /\ ModeTypes' /\ OpsType'
  BY Zenon, <1>10, CallsTyped DEF StpFlush, ShadowTypes, ModeTypes, OpsType
<1>11. ASSUME NEW p \in Phys, NEW learn \in BOOLEAN, NEW forward \in BOOLEAN, StpState(p, learn, forward)
       PROVE  ShadowTypes' /\ ModeTypes' /\ OpsType'
  <2>1. ops' \in Seq({o \in Ops : o.tracked /\ o.mask = {p} /\ o.kind \notin Modes})
    BY Zenon, <1>11, CallsTyped DEF StpState
  <2>2. ops' \in Seq(Ops)
    BY <2>1
  <2> QED  BY Zenon, <1>11, <2>2 DEF StpState, ShadowTypes, ModeTypes, OpsType
<1>12. ASSUME NEW m \in Modes, SaveConfig(m) PROVE ShadowTypes' /\ ModeTypes' /\ OpsType'
  BY Zenon, <1>12 DEF SaveConfig, ShadowTypes, ModeTypes, OpsType
<1>13. CASE FabricStep \/ \E t \in Tasks : FlushTimeout(t)
  BY Zenon, <1>1, <1>13 DEF FabricStep, FlushArrives, FlushEnds, FlushTimeout
<1>14. CASE NetworkFault \/ DmaFault \/ UNCHANGED vars
  BY Zenon, <1>1, <1>14 DEF NetworkFault, DmaFault, vars
<1> QED  BY Zenon, <1>5, <1>9, <1>10, <1>11, <1>12, <1>13, <1>14 DEF Next

\* Every step keeps the types.
LEMMA TypesKept ==
  ASSUME PortControlType, CallOrder, [Next]_vars PROVE PortControlType'
<1>1. /\ RegTypes' /\ LinkTypes' /\ FabricTypes' /\ CtlTypes' /\ PcTypes'
      /\ ShadowTypes' /\ ModeTypes' /\ OpsType'
  BY Zenon, RegsTyped, LinkTyped, ControlTyped, PcTyped, StpTyped
<1> QED  BY Zenon, <1>1 DEF PortControlType, RegTypes, LinkTypes, FabricTypes, CtlTypes, PcTypes,
            ShadowTypes, ModeTypes, OpsType


(***************************************************************************)
(* Flushes outstanding.                                                    *)
(***************************************************************************)
\* Every step writes a clear register, belongs to the fabric, or leaves the
\* flushes alone.
LEMMA FabricCases ==
  ASSUME PortControlType, CallOrder, [Next]_vars
  PROVE  \/ UNCHANGED fabricVars
         \/ \E reg \in ClearRegs, mask \in SUBSET Phys : WriteClear(reg, mask)
         \/ \E p \in Phys : FlushEnds(p) \/ \E reg \in ClearRegs : FlushArrives(p, reg)
<1> USE TypeParts
<1>1. ASSUME NEW t \in Tasks, WriteTarget(t)
      PROVE  \E reg \in ClearRegs, mask \in SUBSET Phys : WriteClear(reg, mask)
  <2>1. Target(t).kind \in ClearRegs /\ Target(t).mask \in SUBSET Phys
    BY Zenon, <1>1, TargetFacts DEF WriteTarget, CalleePcs
  <2> QED  BY Zenon, <1>1, <2>1 DEF WriteTarget
<1>2. CloseAll => \E reg \in ClearRegs, mask \in SUBSET Phys : WriteClear(reg, mask)
  <2>1. "fwd_clear" \in ClearRegs /\ Phys \in SUBSET Phys
    BY Zenon DEF ClearRegs, ClearKinds
  <2> QED  BY Zenon, <2>1 DEF CloseAll
<1>3. NetworkFault => \E reg \in ClearRegs, mask \in SUBSET Phys : WriteClear(reg, mask)
  <2>1. "link_clear" \in ClearRegs /\ Phys \in SUBSET Phys
    BY Zenon DEF ClearRegs
  <2> QED  BY Zenon, <2>1 DEF NetworkFault
<1>4. ASSUME NEW t \in Tasks, TaskStep(t)
      PROVE  UNCHANGED fabricVars \/ WriteTarget(t) \/ CloseAll
  BY Zenon, <1>4 DEF TaskStep, TakeLock, FlushDelay, FlushRead, CheckFailed, CloseFwd, OnlyPc
<1>5. LinkStep => TaskStep("link") \/ UNCHANGED fabricVars
  BY Zenon DEF LinkStep, LinkDelay, LinkSample, LinkDecide, LinkSet, OnlyPc
<1>6. StpStep => TaskStep("stp") \/ UNCHANGED fabricVars \/ CloseAll
  BY Zenon DEF StpStep, CallClear, CallSet, StoreSet, CallLatch, StoreLatch, Adopt, OpsDone,
     StpIterate, OnlyPc
<1>7. FabricStep => \E p \in Phys : FlushEnds(p) \/ \E reg \in ClearRegs : FlushArrives(p, reg)
  BY Zenon DEF FabricStep
<1>8. \/ \E t \in Tasks : FlushTimeout(t)
      \/ \E p \in Phys : StpFlush(p)
      \/ \E p \in Phys, learn, forward \in BOOLEAN : StpState(p, learn, forward)
      => UNCHANGED fabricVars
  BY Zenon DEF FlushTimeout, StpFlush, StpState
<1>9. DmaFault \/ UNCHANGED vars \/ (\E m \in Modes : SaveConfig(m)) => UNCHANGED fabricVars
  BY Zenon DEF DmaFault, SaveConfig, vars
<1> QED  BY Zenon, <1>1, <1>2, <1>3, <1>4, <1>5, <1>6, <1>7, <1>8, <1>9, Names DEF Next

\* A toggle that arrives leaves the crossing and joins the flushes.
LEMMA ArriveFacts ==
  ASSUME FabricTypes, NEW p \in Phys, NEW reg \in ClearRegs, FlushArrives(p, reg)
  PROVE  /\ \A r : /\ Crossing(r)' \subseteq Crossing(r)
                   /\ Crossing(r) \cup flushing \subseteq Crossing(r)' \cup flushing'
         /\ linkDirty' = linkDirty /\ fwdDirty' = fwdDirty /\ inCdc # {} /\ inCdc' \subseteq inCdc
<1>1. /\ inCdc' = inCdc \ {<<p, reg>>} /\ flushing' = flushing \cup {p}
      /\ linkDirty' = linkDirty /\ fwdDirty' = fwdDirty /\ <<p, reg>> \in inCdc
  BY Zenon DEF FlushArrives
<1>2. \A r : Crossing(r)' = {q \in Phys : <<q, r>> \in inCdc'}
  BY Zenon DEF Crossing
<1>3. ASSUME NEW r, NEW q \in Crossing(r) PROVE q \in Crossing(r)' \cup flushing'
  BY Zenon, <1>1, <1>2, <1>3 DEF Crossing
<1>4. \A r : Crossing(r)' \subseteq Crossing(r)
  BY Zenon, <1>1, <1>2 DEF Crossing
<1> QED  BY Zenon, <1>1, <1>3, <1>4

\* A flush that ends takes its port from the unflushed ones, unless another
\* is on its way.
LEMMA EndFacts ==
  ASSUME FabricTypes, NEW p \in Phys, FlushEnds(p)
  PROVE  /\ \A r : Crossing(r)' = Crossing(r)
         /\ flushing' = flushing \ {p} /\ inCdc' = inCdc
         /\ linkDirty' \subseteq linkDirty /\ (p \in linkDirty' => p \in Crossing("link_clear"))
         /\ fwdDirty' \subseteq fwdDirty /\ (p \in fwdDirty' => p \in Crossing("fwd_clear"))
<1>1. flushing' = flushing \ {p} /\ inCdc' = inCdc
  BY Zenon DEF FlushEnds
<1>2. \A r : Crossing(r)' = Crossing(r)
  BY Zenon, <1>1 DEF Crossing
<1>3. linkDirty' \subseteq linkDirty /\ fwdDirty' \subseteq fwdDirty
  BY Zenon DEF FlushEnds
<1>4. (p \in linkDirty' => p \in Crossing("link_clear")) /\ (p \in fwdDirty' => p \in Crossing("fwd_clear"))
  BY Zenon DEF FlushEnds, Crossing
<1> QED  BY Zenon, <1>1, <1>2, <1>3, <1>4

\* Every unflushed port has its flush outstanding.
LEMMA OwedKept ==
  ASSUME PortControlType, CallOrder, FlushOwed, [Next]_vars PROVE FlushOwed'
<1> USE TypeParts
<1>1. CASE UNCHANGED fabricVars
  BY Zenon, <1>1 DEF FlushOwed, Crossing, fabricVars
<1>2. ASSUME NEW reg \in ClearRegs, NEW mask \in SUBSET Phys, WriteClear(reg, mask) PROVE FlushOwed'
  <2>1. /\ linkDirty' = IF reg = "link_clear" THEN linkDirty \cup mask ELSE linkDirty
        /\ fwdDirty' = IF reg = "fwd_clear" THEN fwdDirty \cup mask ELSE fwdDirty
    BY Zenon, <1>2 DEF WriteClear
  <2>2. linkDirty' \subseteq Crossing("link_clear")' \cup flushing'
    BY <1>2, <2>1, WriteFacts DEF FlushOwed
  <2>3. fwdDirty' \subseteq Crossing("fwd_clear")' \cup flushing'
    BY <1>2, <2>1, WriteFacts DEF FlushOwed
  <2> QED  BY Zenon, <2>2, <2>3 DEF FlushOwed
<1>3. ASSUME NEW p \in Phys, NEW reg \in ClearRegs, FlushArrives(p, reg) PROVE FlushOwed'
  <2>1. /\ linkDirty' \subseteq Crossing("link_clear")' \cup flushing'
        /\ fwdDirty' \subseteq Crossing("fwd_clear")' \cup flushing'
    BY Zenon, <1>3, ArriveFacts DEF FlushOwed
  <2> QED  BY Zenon, <2>1 DEF FlushOwed
<1>4. ASSUME NEW p \in Phys, FlushEnds(p) PROVE FlushOwed'
  <2>1. /\ linkDirty' \subseteq Crossing("link_clear")' \cup flushing'
        /\ fwdDirty' \subseteq Crossing("fwd_clear")' \cup flushing'
    BY Zenon, <1>4, EndFacts DEF FlushOwed
  <2> QED  BY Zenon, <2>1 DEF FlushOwed
<1> QED  BY Zenon, <1>1, <1>2, <1>3, <1>4, FabricCases


(***************************************************************************)
(* The mutex and the calls.                                                *)
(***************************************************************************)
\* The conjuncts of CallOrder: who holds the mutex, ...
MutexHeld == \A t \in Tasks : lock = t <=> pc[t] \in CalleePcs \ {"take"}
\* ... which call the STP task is inside of, ...
InCall ==
  /\ pc["stp"] \in CalleePcs => ops # <<>> /\ Head(ops).kind \in ClearKinds
  /\ pc["stp"] = "store" => ops # <<>> /\ Head(ops).kind \in SetKinds
  /\ pc["stp"] = "latched" => ops # <<>> /\ Head(ops).kind = "latch"
  /\ pc["stp"] \in {"first", "top"} => ops = <<>> /\ pc["link"] # "boot"
\* ... and what the failure paths know.
Failing ==
  /\ (\E t \in Tasks : pc[t] = "close") \/ pc["stp"] = "latched" => failed
  /\ pc["link"] = "boot" => healthy

\* They are all of it.
LEMMA OrderParts == CallOrder <=> MutexHeld /\ InCall /\ Failing
BY Zenon DEF CallOrder, MutexHeld, InCall, Failing

\* The same of the next state.
LEMMA OrderPartsNext == MutexHeld' /\ InCall' /\ Failing' => CallOrder'
BY Zenon DEF CallOrder, MutexHeld, InCall, Failing

\* Only one task is inside clear_and_flush past the mutex.
LEMMA OneInside ==
  ASSUME MutexHeld, NEW t \in Tasks, NEW u \in Tasks, u # t, pc[t] \in CalleePcs \ {"take"}
  PROVE  lock = t /\ pc[u] \notin CalleePcs \ {"take"}
BY Zenon DEF MutexHeld

\* Steps that take, keep and release the mutex.
LEMMA MutexKept ==
  ASSUME PortControlType, MutexHeld, [Next]_vars PROVE MutexHeld'
<1> USE TypeParts, Same
<1>1. CASE UNCHANGED <<pc, lock>>
  BY Zenon, <1>1 DEF MutexHeld
<1>2. ASSUME NEW t \in Tasks, TakeLock(t) PROVE MutexHeld'
  <2>1. lock = NoTask /\ lock' = t /\ pc'[t] \in CalleePcs \ {"take"} /\ \A u \in Tasks : u # t => pc'[u] = pc[u]
    BY Zenon, <1>2, CalleeMoves DEF TakeLock, LockFree
  <2> QED  BY Zenon, <2>1, Names DEF MutexHeld
<1>3. ASSUME NEW t \in Tasks, FlushDelay(t) \/ FlushRead(t) \/ WriteTarget(t) \/ FlushTimeout(t) PROVE MutexHeld'
  <2>1. pc'[t] \in CalleePcs \ {"take"} /\ \A u \in Tasks : u # t => pc'[u] = pc[u]
    BY Zenon, <1>3, CalleeMoves
  <2>2. lock' = lock /\ pc[t] \in CalleePcs \ {"take"}
    BY Zenon, <1>3 DEF FlushDelay, FlushRead, WriteTarget, FlushTimeout, OnlyPc, CalleePcs
  <2> QED  BY Zenon, <2>1, <2>2 DEF MutexHeld
<1>4. ASSUME NEW t \in Tasks, pc[t] \in {"check", "close"}, lock' = NoTask, Return(t) PROVE MutexHeld'
  <2>1. pc'[t] \in {"idle", "run"} /\ \A u \in Tasks : u # t => pc'[u] = pc[u]
    BY Zenon, <1>4, ReturnFacts, Names
  <2>2. \A u \in Tasks : u # t => pc[u] \notin CalleePcs \ {"take"}
    BY Zenon, <1>4, OneInside DEF CalleePcs
  <2> QED  BY Zenon, <1>4, <2>1, <2>2, Names DEF MutexHeld, CalleePcs
<1>5. ASSUME NEW t \in Tasks, pc[t] = "check", lock' = lock, Goto(t, "close") PROVE MutexHeld'
  BY Zenon, <1>5, GotoFacts DEF MutexHeld, CalleePcs
<1>6. ASSUME NEW t \in Tasks, TaskStep(t) PROVE MutexHeld'
  BY Zenon, <1>2, <1>3, <1>4, <1>5, <1>6 DEF TaskStep, CheckFailed, CloseFwd
<1>7. ASSUME NEW t \in Tasks, NEW l, Goto(t, l), pc[t] \notin CalleePcs, l \notin CalleePcs \ {"take"}, lock' = lock
      PROVE  MutexHeld'
  BY Zenon, <1>7, GotoFacts DEF MutexHeld
<1>8. CASE LinkStep
  <2>1. CASE LinkDecide
    BY Zenon, <1>7, <2>1, Names DEF LinkDecide, CalleePcs
  <2>2. CASE LinkDelay \/ LinkSample \/ LinkSet
    BY Zenon, <1>7, <2>2, Names DEF LinkDelay, LinkSample, LinkSet, OnlyPc, CalleePcs
  <2> QED  BY Zenon, <1>6, <1>8, <2>1, <2>2, Names DEF LinkStep
<1>9. CASE StpStep
  <2>1. CASE OpsDone
    <3>1. CASE pc["link"] = "boot"
      BY ZenonT(30), <2>1, <3>1, Names DEF OpsDone, OnlyPc, MutexHeld, CalleePcs
    <3>2. CASE Goto("stp", "top")
      BY Zenon, <1>7, <2>1, <3>2, Names DEF OpsDone, OnlyPc, CalleePcs
    <3> QED  BY Zenon, <2>1, <3>1, <3>2 DEF OpsDone
  <2>2. CASE CallClear \/ CallSet \/ StoreSet \/ CallLatch
    BY Zenon, <1>1, <1>7, <2>2, Names DEF CallClear, CallSet, StoreSet, CallLatch, OnlyPc, CalleePcs
  <2>3. CASE StoreLatch \/ Adopt \/ StpIterate
    BY Zenon, <1>1, <1>7, <2>3, Names DEF StoreLatch, Adopt, StpIterate, CalleePcs
  <2> QED  BY Zenon, <1>6, <1>9, <2>1, <2>2, <2>3, Names DEF StpStep
<1>10. CASE FabricStep
  BY Zenon, <1>1, <1>10 DEF FabricStep, FlushArrives, FlushEnds
<1>11. ASSUME NEW p, StpFlush(p) PROVE MutexHeld'
  BY Zenon, <1>7, <1>11, Names DEF StpFlush, CalleePcs
<1>12. ASSUME NEW p, NEW learn, NEW forward, StpState(p, learn, forward) PROVE MutexHeld'
  BY Zenon, <1>7, <1>12, Names DEF StpState, CalleePcs
<1>13. CASE NetworkFault \/ DmaFault \/ UNCHANGED vars \/ \E m \in Modes : SaveConfig(m)
  BY Zenon, <1>1, <1>13 DEF NetworkFault, DmaFault, SaveConfig, vars
<1> QED  BY Zenon, <1>3, <1>8, <1>9, <1>10, <1>11, <1>12, <1>13 DEF Next

\* The STP task is inside the call at the head of its queue.
LEMMA InCallKept ==
  ASSUME PortControlType, InCall, [Next]_vars PROVE InCall'
<1> USE TypeParts, Same
<1>1. CASE pc'["stp"] = pc["stp"] /\ ops' = ops /\ (pc'["link"] = "boot" => pc["link"] = "boot")
  BY Zenon, <1>1 DEF InCall
<1>2. CASE pc'["stp"] = "run"
  BY Zenon, <1>2 DEF InCall, CalleePcs
<1>3. ASSUME NEW t \in Tasks, TakeLock(t) \/ FlushDelay(t) \/ FlushRead(t) \/ WriteTarget(t) \/ FlushTimeout(t)
      PROVE  InCall'
  <2>1. /\ pc[t] \in CalleePcs /\ pc'[t] \in CalleePcs \ {"take"}
        /\ \A u \in Tasks : u # t => pc'[u] = pc[u]
    BY Zenon, <1>3, CalleeMoves
  <2>2. ops' = ops
    BY Zenon, <1>3 DEF TakeLock, FlushDelay, FlushRead, WriteTarget, FlushTimeout, OnlyPc
  <2>3. CASE t = "stp"
    BY Zenon, <2>1, <2>2, <2>3 DEF InCall, CalleePcs
  <2>4. CASE t = "link"
    BY Zenon, <1>1, <2>1, <2>2, <2>4, Names DEF CalleePcs
  <2> QED  BY Zenon, <2>3, <2>4, Names
<1>4. ASSUME NEW t \in Tasks, Return(t) PROVE InCall'
  BY Zenon, <1>1, <1>2, <1>4, ReturnFacts, Names
<1>5. ASSUME NEW t \in Tasks, pc[t] = "check", UNCHANGED stpVars, Goto(t, "close") PROVE InCall'
  <2>1. CASE t = "link"
    BY <1>1, <1>5, <2>1, GotoLink
  <2>2. CASE t = "stp"
    BY <1>5, <2>2, GotoStp DEF InCall, CalleePcs
  <2> QED  BY Zenon, <2>1, <2>2, Names
<1>6. ASSUME NEW t \in Tasks, TaskStep(t) PROVE InCall'
  BY Zenon, <1>3, <1>4, <1>5, <1>6 DEF TaskStep, CheckFailed, CloseFwd
<1>7. CASE LinkStep
  <2>1. ASSUME NEW l, l # "boot", Goto("link", l), ops' = ops PROVE InCall'
    BY <1>1, <2>1, GotoLink
  <2>2. CASE LinkDecide
    BY Zenon, <2>1, <2>2 DEF LinkDecide
  <2>3. CASE LinkDelay \/ LinkSample \/ LinkSet
    BY Zenon, <2>1, <2>3 DEF LinkDelay, LinkSample, LinkSet, OnlyPc
  <2> QED  BY <1>6, <1>7, <2>2, <2>3, Names DEF LinkStep
<1>8. CASE StpStep
  <2>1. CASE OpsDone
    <3>1. CASE pc["link"] = "boot"
      BY Zenon, <2>1, <3>1, Names DEF OpsDone, OnlyPc, InCall, CalleePcs
    <3>2. CASE pc["link"] # "boot"
      BY <2>1, <3>2, GotoStp DEF OpsDone, OnlyPc, InCall, CalleePcs
    <3> QED  BY Zenon, <3>1, <3>2
  <2>2. CASE CallClear
    BY <2>2, GotoStp DEF CallClear, OnlyPc, InCall, CalleePcs
  <2>3. CASE CallSet
    <3>1. CASE failed
      BY Zenon, <1>2, <2>3, <3>1 DEF CallSet
    <3>2. CASE ~failed
      BY <2>3, <3>2, GotoStp DEF CallSet, InCall, CalleePcs
    <3> QED  BY Zenon, <3>1, <3>2
  <2>4. CASE StoreSet \/ StoreLatch
    BY Zenon, <1>2, <2>4, GotoStp DEF StoreSet, StoreLatch
  <2>5. CASE CallLatch
    BY <2>5, GotoStp DEF CallLatch, InCall, CalleePcs
  <2>6. CASE Adopt
    BY Zenon, <1>2, <2>6 DEF Adopt
  <2>7. CASE StpIterate
    <3>1. CASE pc'["stp"] = "top" /\ pc'["link"] = pc["link"] /\ ops' = ops
      BY Zenon, <2>7, <3>1 DEF StpIterate, InCall, CalleePcs
    <3> QED  BY Zenon, <1>2, <2>7, <3>1, GotoStp DEF StpIterate
  <2> QED  BY Zenon, <1>6, <1>8, <2>1, <2>2, <2>3, <2>4, <2>5, <2>6, <2>7, Names DEF StpStep
<1>9. ASSUME UNCHANGED <<pc, stpVars>> PROVE InCall'
  BY Zenon, <1>1, <1>9
<1>10. CASE FabricStep
  BY Zenon, <1>9, <1>10 DEF FabricStep, FlushArrives, FlushEnds
<1>11. ASSUME NEW p, StpFlush(p) PROVE InCall'
  BY Zenon, <1>2, <1>11, GotoStp DEF StpFlush
<1>12. ASSUME NEW p, NEW learn, NEW forward, StpState(p, learn, forward) PROVE InCall'
  BY Zenon, <1>2, <1>12, GotoStp DEF StpState
<1>13. CASE NetworkFault \/ DmaFault \/ UNCHANGED vars \/ \E m \in Modes : SaveConfig(m)
  BY Zenon, <1>9, <1>13 DEF NetworkFault, DmaFault, SaveConfig, vars
<1> QED  BY Zenon, <1>3, <1>7, <1>8, <1>10, <1>11, <1>12, <1>13 DEF Next


\* A task on a failure path has seen the failure.
LEMMA FailingKept ==
  ASSUME PortControlType, Failing, [Next]_vars PROVE Failing'
<1> USE TypeParts, Same
<1>0. failed => failed'
  BY Zenon, ControlTyped
<1>1. ASSUME \A t \in Tasks : pc'[t] = "close" => pc[t] = "close" \/ failed,
             pc'["stp"] = "latched" => pc["stp"] = "latched" \/ failed',
             pc'["link"] = "boot" => pc["link"] = "boot" /\ healthy' = healthy
      PROVE  Failing'
  BY <1>0, <1>1 DEF Failing
<1>2. ASSUME NEW t \in Tasks, NEW l, Goto(t, l), l \notin {"boot", "latched"}, l = "close" => failed,
             healthy' = healthy
      PROVE  Failing'
  BY ZenonT(30), <1>1, <1>2, GotoFacts, Names
<1>3. ASSUME UNCHANGED pc, healthy' = healthy \/ pc["link"] # "boot" PROVE Failing'
  BY Zenon, <1>1, <1>3
<1>4. ASSUME NEW t \in Tasks, Return(t), healthy' = healthy PROVE Failing'
  BY Zenon, <1>1, <1>4, ReturnFacts, Names
<1>5. ASSUME NEW t \in Tasks, TaskStep(t) PROVE Failing'
  <2>1. CASE TakeLock(t) \/ FlushDelay(t) \/ FlushRead(t) \/ WriteTarget(t)
    BY Zenon, <1>2, <2>1 DEF TakeLock, FlushDelay, FlushRead, WriteTarget, AfterWrite, OnlyPc
  <2>2. CASE CheckFailed(t) \/ CloseFwd(t)
    BY Zenon, <1>2, <1>4, <2>2 DEF CheckFailed, CloseFwd
  <2> QED  BY Zenon, <1>5, <2>1, <2>2 DEF TaskStep
<1>6. CASE LinkStep
  <2>1. CASE LinkDecide
    BY Zenon, <1>2, <2>1, Names DEF LinkDecide
  <2>2. CASE LinkDelay \/ LinkSample \/ LinkSet
    BY Zenon, <1>2, <2>2, Names DEF LinkDelay, LinkSample, LinkSet, OnlyPc
  <2> QED  BY <1>5, <1>6, <2>1, <2>2, Names DEF LinkStep
<1>7. CASE StpStep
  <2>1. CASE OpsDone
    <3>1. CASE pc["link"] = "boot"
      BY Zenon, <1>1, <2>1, <3>1, Names DEF OpsDone, OnlyPc
    <3>2. CASE pc["link"] # "boot"
      BY Zenon, <1>2, <2>1, <3>2, Names DEF OpsDone, OnlyPc
    <3> QED  BY <3>1, <3>2
  <2>2. CASE CallClear \/ CallSet \/ StoreSet
    BY Zenon, <1>2, <1>3, <2>2, Names DEF CallClear, CallSet, StoreSet, OnlyPc
  <2>3. CASE CallLatch
    BY <1>1, <2>3, GotoStp, Names DEF CallLatch
  <2>4. CASE StoreLatch \/ Adopt \/ StpIterate
    BY Zenon, <1>2, <1>3, <2>4, Names DEF StoreLatch, Adopt, StpIterate
  <2> QED  BY Zenon, <1>5, <1>7, <2>1, <2>2, <2>3, <2>4, Names DEF StpStep
<1>8. CASE FabricStep
  BY Zenon, <1>3, <1>8 DEF FabricStep, FlushArrives, FlushEnds
<1>9. ASSUME NEW t \in Tasks, FlushTimeout(t) PROVE Failing'
  BY Zenon, <1>2, <1>9 DEF FlushTimeout
<1>10. ASSUME NEW p, StpFlush(p) PROVE Failing'
  BY Zenon, <1>2, <1>10, Names DEF StpFlush
<1>11. ASSUME NEW p, NEW learn, NEW forward, StpState(p, learn, forward) PROVE Failing'
  BY Zenon, <1>2, <1>11, Names DEF StpState
<1>12. CASE NetworkFault \/ DmaFault \/ UNCHANGED vars \/ \E m \in Modes : SaveConfig(m)
  BY Zenon, <1>3, <1>12 DEF NetworkFault, DmaFault, SaveConfig, vars
<1> QED  BY Zenon, <1>6, <1>7, <1>8, <1>9, <1>10, <1>11, <1>12 DEF Next

\* Every step keeps the order of the calls.
LEMMA OrderKept ==
  ASSUME PortControlType, CallOrder, [Next]_vars PROVE CallOrder'
BY Zenon, OrderParts, MutexKept, InCallKept, FailingKept, OrderPartsNext

(***************************************************************************)
(* Flushes in order.                                                       *)
(***************************************************************************)
\* Unless something failed, a task that is past the first wait finds no
\* flush outstanding when it writes.
LEMMA FlushOrderKept ==
  ASSUME PortControlType, CallOrder, FlushOrder, [Next]_vars PROVE FlushOrder'
<1> USE TypeParts, Same
<1>0. (failed => failed') /\ (healthy' => healthy)
  BY Zenon, ControlTyped
<1> SUFFICES ASSUME ~failed', healthy' PROVE FlushOrder'
  BY Zenon DEF FlushOrder
<1>1. /\ ~failed /\ healthy
      /\ \A t \in Tasks : /\ pc[t] \in {"read1", "write"} => inCdc = {}
                          /\ pc[t] = "write" => flushing = {}
  BY Zenon, <1>0 DEF FlushOrder
<1> DEFINE Clear == \A t \in Tasks : /\ pc'[t] \in {"read1", "write"} => inCdc' = {}
                                     /\ pc'[t] = "write" => flushing' = {}
<1>2. Clear => FlushOrder'
  BY Zenon DEF FlushOrder
<1> SUFFICES Clear
  BY Zenon, <1>2
<1> HIDE DEF Clear
<1>3. ASSUME NEW t \in Tasks, NEW l, Goto(t, l), UNCHANGED fabricVars,
             l \in {"read1", "write"} => inCdc = {}, l = "write" => flushing = {}
      PROVE  Clear
  BY Zenon, <1>1, <1>3, GotoFacts DEF Clear
<1>4. ASSUME UNCHANGED pc, UNCHANGED fabricVars PROVE Clear
  BY Zenon, <1>1, <1>4 DEF Clear
<1>5. ASSUME NEW t \in Tasks, Return(t), UNCHANGED fabricVars PROVE Clear
  BY Zenon, <1>1, <1>5, ReturnFacts, Names DEF Clear
<1>6. ASSUME NEW t \in Tasks, TaskStep(t) PROVE Clear
  <2>1. CASE TakeLock(t)
    BY Zenon, <1>3, <2>1 DEF TakeLock
  <2>2. CASE FlushDelay(t)
    BY Zenon, <1>3, <2>2 DEF FlushDelay, OnlyPc
  <2>3. CASE FlushRead(t)
    BY Zenon, <1>1, <1>3, <2>3 DEF FlushRead, FlushIdle, OnlyPc
  <2>4. CASE WriteTarget(t)
    <3>1. pc'[t] = "delay2" /\ \A u \in Tasks : u # t => pc'[u] = pc[u]
      BY Zenon, <2>4, GotoFacts DEF WriteTarget, AfterWrite
    <3>2. \A u \in Tasks : u # t => pc[u] \notin CalleePcs \ {"take"}
      BY Zenon, <2>4, OneInside, OrderParts DEF WriteTarget, CalleePcs
    <3> QED  BY Zenon, <3>1, <3>2 DEF Clear, CalleePcs
  <2>5. CASE CheckFailed(t)
    BY Zenon, <1>1, <1>5, <2>5 DEF CheckFailed
  <2>6. ~CloseFwd(t)
    BY Zenon, <1>1 DEF CloseFwd, CallOrder
  <2> QED  BY Zenon, <1>6, <2>1, <2>2, <2>3, <2>4, <2>5, <2>6 DEF TaskStep
<1>7. CASE LinkStep
  <2>1. CASE LinkDecide
    BY Zenon, <1>3, <2>1, Names DEF LinkDecide
  <2>2. CASE LinkDelay \/ LinkSample \/ LinkSet
    BY Zenon, <1>3, <2>2, Names DEF LinkDelay, LinkSample, LinkSet, OnlyPc
  <2> QED  BY Zenon, <1>6, <1>7, <2>1, <2>2, Names DEF LinkStep
<1>8. CASE StpStep
  <2>1. CASE OpsDone
    <3>1. CASE pc["link"] = "boot"
      BY Zenon, <1>1, <2>1, <3>1, Names DEF OpsDone, OnlyPc, Clear
    <3>2. CASE pc["link"] # "boot"
      BY Zenon, <1>3, <2>1, <3>2, Names DEF OpsDone, OnlyPc
    <3> QED  BY Zenon, <3>1, <3>2
  <2>2. CASE CallClear \/ CallSet \/ StoreSet \/ CallLatch
    BY Zenon, <1>3, <1>4, <2>2, Names DEF CallClear, CallSet, StoreSet, CallLatch, OnlyPc
  <2>3. ~StoreLatch
    BY Zenon, <1>1 DEF StoreLatch, CallOrder
  <2>4. CASE Adopt \/ StpIterate
    BY Zenon, <1>3, <1>4, <2>4, Names DEF Adopt, StpIterate
  <2> QED  BY Zenon, <1>6, <1>8, <2>1, <2>2, <2>3, <2>4, Names DEF StpStep
<1>9. CASE FabricStep
  <2>1. ASSUME NEW p \in Phys, NEW reg \in ClearRegs, FlushArrives(p, reg) PROVE Clear
    <3>1. inCdc # {} /\ pc' = pc
      BY Zenon, <2>1 DEF FlushArrives
    <3> QED  BY Zenon, <1>1, <3>1 DEF Clear
  <2>2. ASSUME NEW p \in Phys, FlushEnds(p) PROVE Clear
    <3>1. inCdc' = inCdc /\ flushing' \subseteq flushing /\ pc' = pc
      BY Zenon, <2>2 DEF FlushEnds
    <3> QED  BY Zenon, <1>1, <3>1 DEF Clear
  <2> QED  BY Zenon, <1>9, <2>1, <2>2 DEF FabricStep
<1>10. \A t \in Tasks : ~FlushTimeout(t)
  BY Zenon DEF FlushTimeout
<1>11. ASSUME NEW p, StpFlush(p) PROVE Clear
  BY Zenon, <1>3, <1>11, Names DEF StpFlush
<1>12. ASSUME NEW p, NEW learn, NEW forward, StpState(p, learn, forward) PROVE Clear
  BY Zenon, <1>3, <1>12, Names DEF StpState
<1>13. CASE UNCHANGED vars \/ \E m \in Modes : SaveConfig(m)
  BY Zenon, <1>4, <1>13 DEF SaveConfig, vars
<1>14. ~NetworkFault /\ ~DmaFault
  BY Zenon, <1>1 DEF NetworkFault, DmaFault
<1> QED  BY Zenon, <1>7, <1>8, <1>9, <1>10, <1>11, <1>12, <1>13, <1>14 DEF Next


\* The two halves of Flushed: FWD_CLR, ...
FwdClean ==
  /\ pc["stp"] # "delay2" => Crossing("fwd_clear") = {}
  /\ pc["stp"] \notin {"delay2", "read2"} => fwdDirty = {}
\* ... and LINK_CLR.
LinkClean ==
  /\ pc["link"] \in {"poll", "decide", "set"} => Crossing("link_clear") = {}
  /\ pc["link"] = "set" \/ (pc["link"] = "decide" /\ ~busySeen) => linkDirty = {}

\* They are all of it.
LEMMA FlushedParts == Flushed <=> (~failed => FwdClean) /\ (healthy => LinkClean)
BY Zenon DEF Flushed, FwdClean, LinkClean

\* The same of the next state.
LEMMA FlushedNext == (~failed' => FwdClean') /\ (healthy' => LinkClean') => Flushed'
BY Zenon DEF Flushed, FwdClean, LinkClean

\* What is on its way stays so while the fabric does nothing.
LEMMA SameCrossing == UNCHANGED fabricVars => \A r : Crossing(r)' = Crossing(r)
BY Zenon DEF fabricVars, Crossing

\* Outside the second wait of its clear, the STP task finds every port closed
\* by FWD_CLR flushed.
LEMMA FwdCleanKept ==
  ASSUME PortControlType, CallOrder, FlushOwed, Flushed, [Next]_vars, ~failed' PROVE FwdClean'
<1> USE TypeParts, Same
<1>0. ~failed /\ FwdClean
  BY Zenon, ControlTyped, FlushedParts
<1>1. ASSUME UNCHANGED fabricVars, pc'["stp"] = pc["stp"] \/ pc["stp"] \notin {"delay2", "read2"} PROVE FwdClean'
  <2>1. Crossing("fwd_clear")' = Crossing("fwd_clear") /\ fwdDirty' = fwdDirty
    BY Zenon, <1>1, SameCrossing
  <2> QED  BY Zenon, <1>0, <1>1, <2>1 DEF FwdClean
<1>2. ASSUME Crossing("fwd_clear")' \subseteq Crossing("fwd_clear"), fwdDirty' \subseteq fwdDirty,
             pc'["stp"] = pc["stp"]
      PROVE  FwdClean'
  BY Zenon, <1>0, <1>2 DEF FwdClean
<1>3. ASSUME NEW t \in Tasks, NEW l, Goto(t, l), UNCHANGED fabricVars,
             t = "stp" => pc["stp"] \notin {"delay2", "read2"}
      PROVE  FwdClean'
  BY Zenon, <1>1, <1>3, GotoLink, Names
<1>4. ASSUME NEW t \in Tasks, Return(t), UNCHANGED fabricVars, pc[t] = "check" PROVE FwdClean'
  BY Zenon, <1>1, <1>4, ReturnFacts, Names
<1>5. ASSUME NEW t \in Tasks, WriteTarget(t) PROVE FwdClean'
  <2>1. CASE t = "stp"
    BY Zenon, <1>5, <2>1, GotoStp DEF WriteTarget, AfterWrite, FwdClean
  <2>2. CASE t = "link"
    <3>1. WriteClear("link_clear", linkMask) /\ pc'["stp"] = pc["stp"]
      BY Zenon, <1>5, <2>2, GotoLink DEF WriteTarget, Target
    <3>2. Crossing("fwd_clear")' = Crossing("fwd_clear")
      BY Zenon, <3>1, WriteFacts DEF LinkTypes, ClearRegs
    <3>3. fwdDirty' = fwdDirty
      BY Zenon, <3>1 DEF WriteClear
    <3> QED  BY Zenon, <1>2, <3>1, <3>2, <3>3
  <2> QED  BY Zenon, <2>1, <2>2, Names
<1>6. ASSUME NEW t \in Tasks, TaskStep(t) PROVE FwdClean'
  <2>1. CASE TakeLock(t)
    BY Zenon, <1>3, <2>1 DEF TakeLock
  <2>2. CASE FlushDelay(t) \/ FlushRead(t)
    <3>1. CASE t = "link"
      BY Zenon, <1>3, <2>2, <3>1, Names DEF FlushDelay, FlushRead, OnlyPc
    <3>2. CASE t = "stp" /\ pc["stp"] \in {"delay1", "read1"}
      BY Zenon, <1>3, <2>2, <3>2 DEF FlushDelay, FlushRead, OnlyPc
    <3>3. CASE t = "stp" /\ pc["stp"] = "delay2"
      <4>1. inCdc = {} /\ UNCHANGED fabricVars /\ Goto("stp", "read2")
        BY Zenon, <2>2, <3>3 DEF FlushDelay, FlushRead, OnlyPc
      <4>2. Crossing("fwd_clear")' = {}
        BY Zenon, <4>1 DEF Crossing
      <4> QED  BY Zenon, <4>1, <4>2, GotoStp DEF FwdClean
    <3>4. CASE t = "stp" /\ pc["stp"] = "read2"
      <4>1. UNCHANGED fabricVars /\ (Goto("stp", "delay2") \/ (flushing = {} /\ Goto("stp", "check")))
        BY Zenon, <2>2, <3>4 DEF FlushDelay, FlushRead, FlushIdle, OnlyPc
      <4>2. Crossing("fwd_clear") = {} /\ Crossing("fwd_clear")' = {} /\ fwdDirty' = fwdDirty
        BY Zenon, <1>0, <3>4, <4>1, SameCrossing DEF FwdClean
      <4>3. flushing = {} => fwdDirty = {}
        BY Zenon, <4>2 DEF FlushOwed
      <4> QED  BY Zenon, <4>1, <4>2, <4>3, GotoStp DEF FwdClean
    <3> QED  BY Zenon, <2>2, <3>1, <3>2, <3>3, <3>4, Names DEF FlushDelay, FlushRead
  <2>3. CASE CheckFailed(t)
    BY Zenon, <1>0, <1>4, <2>3 DEF CheckFailed
  <2>4. ~CloseFwd(t)
    BY Zenon, <1>0 DEF CloseFwd, CallOrder
  <2> QED  BY Zenon, <1>5, <1>6, <2>1, <2>2, <2>3, <2>4 DEF TaskStep
<1>7. CASE LinkStep
  <2>1. CASE LinkDecide
    BY Zenon, <1>3, <2>1, Names DEF LinkDecide
  <2>2. CASE LinkDelay \/ LinkSample \/ LinkSet
    BY Zenon, <1>3, <2>2, Names DEF LinkDelay, LinkSample, LinkSet, OnlyPc
  <2> QED  BY Zenon, <1>6, <1>7, <2>1, <2>2, Names DEF LinkStep
<1>8. CASE StpStep
  <2>1. CASE OpsDone
    BY Zenon, <1>1, <2>1 DEF OpsDone, OnlyPc
  <2>2. CASE CallClear \/ CallSet \/ StoreSet \/ CallLatch
    BY Zenon, <1>1, <2>2 DEF CallClear, CallSet, StoreSet, CallLatch, OnlyPc
  <2>3. ~StoreLatch
    BY Zenon, <1>0 DEF StoreLatch, CallOrder
  <2>4. CASE Adopt \/ StpIterate
    BY Zenon, <1>1, <2>4 DEF Adopt, StpIterate
  <2> QED  BY Zenon, <1>6, <1>8, <2>1, <2>2, <2>3, <2>4, Names DEF StpStep
<1>9. CASE FabricStep
  <2>1. ASSUME NEW p \in Phys, NEW reg \in ClearRegs, FlushArrives(p, reg) PROVE FwdClean'
    BY Zenon, <1>2, <2>1, ArriveFacts DEF FlushArrives
  <2>2. ASSUME NEW p \in Phys, FlushEnds(p) PROVE FwdClean'
    BY Zenon, <1>2, <2>2, EndFacts DEF FlushEnds
  <2> QED  BY Zenon, <1>9, <2>1, <2>2 DEF FabricStep
<1>10. \A t \in Tasks : ~FlushTimeout(t)
  BY Zenon DEF FlushTimeout
<1>11. ASSUME NEW p, StpFlush(p) PROVE FwdClean'
  BY Zenon, <1>1, <1>11 DEF StpFlush
<1>12. ASSUME NEW p, NEW learn, NEW forward, StpState(p, learn, forward) PROVE FwdClean'
  BY Zenon, <1>1, <1>12 DEF StpState
<1>13. CASE DmaFault \/ UNCHANGED vars \/ \E m \in Modes : SaveConfig(m)
  BY Zenon, <1>1, <1>13 DEF DmaFault, SaveConfig, vars
<1>14. CASE NetworkFault
  <2>1. WriteClear("link_clear", Phys) /\ pc' = pc
    BY Zenon, <1>14 DEF NetworkFault
  <2>2. Crossing("fwd_clear")' = Crossing("fwd_clear")
    BY Zenon, <2>1, WriteFacts DEF ClearRegs
  <2>3. fwdDirty' = fwdDirty
    BY Zenon, <2>1 DEF WriteClear
  <2> QED  BY Zenon, <1>2, <2>1, <2>2, <2>3
<1> QED  BY Zenon, <1>7, <1>8, <1>9, <1>10, <1>11, <1>12, <1>13, <1>14 DEF Next


\* Once a poll has read the busy flag clear, the link task finds every port
\* closed by LINK_CLR flushed.
LEMMA LinkCleanKept ==
  ASSUME PortControlType, CallOrder, FlushOwed, Flushed, [Next]_vars, healthy' PROVE LinkClean'
<1> USE TypeParts, Same
<1>0. healthy /\ LinkClean
  BY Zenon, ControlTyped, FlushedParts
<1>1. ASSUME UNCHANGED fabricVars, pc'["link"] = pc["link"], busySeen' = busySeen PROVE LinkClean'
  <2>1. Crossing("link_clear")' = Crossing("link_clear") /\ linkDirty' = linkDirty
    BY Zenon, <1>1, SameCrossing
  <2> QED  BY Zenon, <1>0, <1>1, <2>1 DEF LinkClean
<1>2. ASSUME Crossing("link_clear")' \subseteq Crossing("link_clear"), linkDirty' \subseteq linkDirty,
             pc'["link"] = pc["link"], busySeen' = busySeen
      PROVE  LinkClean'
  BY Zenon, <1>0, <1>2 DEF LinkClean
<1>3. CASE pc'["link"] \notin {"poll", "decide", "set"}
  BY Zenon, <1>3 DEF LinkClean
<1>4. ASSUME NEW t \in Tasks, TakeLock(t) \/ FlushDelay(t) \/ FlushRead(t) \/ FlushTimeout(t) PROVE LinkClean'
  <2>1. pc'[t] \in CalleePcs /\ \A u \in Tasks : u # t => pc'[u] = pc[u]
    BY Zenon, <1>4, CalleeMoves
  <2>2. UNCHANGED fabricVars /\ busySeen' = busySeen
    BY Zenon, <1>4 DEF TakeLock, FlushDelay, FlushRead, FlushTimeout, OnlyPc
  <2>3. CASE t = "link"
    BY Zenon, <1>3, <2>1, <2>3 DEF CalleePcs
  <2>4. CASE t = "stp"
    BY Zenon, <1>1, <2>1, <2>2, <2>4, Names
  <2> QED  BY Zenon, <2>3, <2>4, Names
<1>5. ASSUME NEW reg \in ClearKinds, NEW mask \in SUBSET Phys, WriteClear(reg, mask),
             busySeen' = busySeen, pc'["link"] = pc["link"]
      PROVE  LinkClean'
  <2>1. reg \in ClearRegs /\ reg # "link_clear"
    BY Zenon DEF ClearRegs, ClearKinds
  <2>2. Crossing("link_clear")' = Crossing("link_clear")
    BY Zenon, <1>5, <2>1, WriteFacts
  <2>3. linkDirty' = linkDirty
    BY Zenon, <1>5, <2>1 DEF WriteClear
  <2> QED  BY Zenon, <1>2, <1>5, <2>2, <2>3
<1>6. ASSUME NEW t \in Tasks, TaskStep(t) PROVE LinkClean'
  <2>1. CASE WriteTarget(t)
    <3>1. CASE t = "link"
      BY <1>3, <2>1, <3>1, GotoLink DEF WriteTarget, AfterWrite
    <3>2. CASE t = "stp"
      <4>1. Target(t).kind \in ClearKinds /\ Target(t).mask \in SUBSET Phys
        BY Zenon, <2>1, <3>2, TargetFacts DEF WriteTarget, CalleePcs
      <4> QED  BY Zenon, <1>5, <2>1, <3>2, <4>1, GotoStp DEF WriteTarget
    <3> QED  BY <3>1, <3>2, Names
  <2>2. CASE CheckFailed(t)
    <3>1. UNCHANGED fabricVars /\ busySeen' = busySeen /\ (Goto(t, "close") \/ Return(t))
      BY Zenon, <2>2 DEF CheckFailed
    <3>2. CASE t = "link"
      BY <1>3, <3>1, <3>2, GotoLink, ReturnFacts
    <3>3. CASE t = "stp"
      BY Zenon, <1>1, <3>1, <3>3, GotoStp, ReturnFacts
    <3> QED  BY <3>2, <3>3, Names
  <2>3. CASE CloseFwd(t)
    <3>1. WriteClear("fwd_clear", Phys) /\ busySeen' = busySeen /\ Return(t)
      BY Zenon, <2>3 DEF CloseFwd, CloseAll
    <3>2. CASE t = "link"
      BY Zenon, <1>3, <3>1, <3>2, ReturnFacts
    <3>3. CASE t = "stp"
      BY Zenon, <1>5, <3>1, <3>3, ReturnFacts DEF ClearKinds
    <3> QED  BY <3>2, <3>3, Names
  <2> QED  BY Zenon, <1>4, <1>6, <2>1, <2>2, <2>3 DEF TaskStep
<1>7. CASE LinkStep
  <2>1. CASE LinkDelay
    <3>1. inCdc = {} /\ UNCHANGED fabricVars /\ pc'["link"] = "poll"
      BY Zenon, <2>1, GotoLink DEF LinkDelay, OnlyPc
    <3>2. Crossing("link_clear")' = {}
      BY Zenon, <3>1 DEF Crossing
    <3> QED  BY Zenon, <3>1, <3>2 DEF LinkClean
  <2>2. CASE LinkSample
    <3>1. UNCHANGED fabricVars /\ busySeen' = (flushing # {}) /\ pc'["link"] = "decide" /\ pc["link"] = "poll"
      BY Zenon, <2>2, GotoLink DEF LinkSample
    <3>2. Crossing("link_clear") = {} /\ Crossing("link_clear")' = {}
      BY Zenon, <1>0, <3>1, SameCrossing DEF LinkClean
    <3>3. ~busySeen' => linkDirty' = {}
      BY Zenon, <3>1, <3>2 DEF FlushOwed
    <3> QED  BY Zenon, <3>1, <3>2, <3>3 DEF LinkClean
  <2>3. CASE LinkDecide
    <3>1. UNCHANGED fabricVars /\ pc["link"] = "decide" /\ busySeen' = FALSE
      BY Zenon, <2>3 DEF LinkDecide
    <3>2. CASE busySeen
      <4>1. pc'["link"] \in {"take", "idle"}
        BY Zenon, <2>3, <3>2, GotoLink DEF LinkDecide, MaySet
      <4> QED  BY Zenon, <1>3, <4>1
    <3>3. CASE ~busySeen
      <4>1. Crossing("link_clear")' = {} /\ linkDirty' = {}
        BY Zenon, <1>0, <3>1, <3>3, SameCrossing DEF LinkClean
      <4> QED  BY Zenon, <4>1 DEF LinkClean
    <3> QED  BY Zenon, <3>2, <3>3
  <2>4. CASE LinkSet
    BY <1>3, <2>4, GotoLink DEF LinkSet
  <2> QED  BY Zenon, <1>6, <1>7, <2>1, <2>2, <2>3, <2>4, Names DEF LinkStep
<1>8. CASE StpStep
  <2>1. CASE OpsDone
    <3>1. CASE pc["link"] = "boot"
      BY Zenon, <1>3, <2>1, <3>1, Names DEF OpsDone
    <3>2. CASE pc["link"] # "boot"
      BY Zenon, <1>1, <2>1, <3>2, GotoStp DEF OpsDone, OnlyPc
    <3> QED  BY Zenon, <3>1, <3>2
  <2>2. CASE CallClear \/ CallSet \/ StoreSet \/ CallLatch
    BY Zenon, <1>1, <2>2, GotoStp DEF CallClear, CallSet, StoreSet, CallLatch, OnlyPc
  <2>3. CASE StoreLatch
    BY Zenon, <1>5, <2>3, GotoStp DEF StoreLatch, CloseAll, ClearKinds
  <2>4. CASE Adopt \/ StpIterate
    BY Zenon, <1>1, <2>4, GotoStp DEF Adopt, StpIterate
  <2> QED  BY Zenon, <1>6, <1>8, <2>1, <2>2, <2>3, <2>4, Names DEF StpStep
<1>9. CASE FabricStep
  <2>1. ASSUME NEW p \in Phys, NEW reg \in ClearRegs, FlushArrives(p, reg) PROVE LinkClean'
    BY Zenon, <1>2, <2>1, ArriveFacts DEF FlushArrives
  <2>2. ASSUME NEW p \in Phys, FlushEnds(p) PROVE LinkClean'
    BY Zenon, <1>2, <2>2, EndFacts DEF FlushEnds
  <2> QED  BY Zenon, <1>9, <2>1, <2>2 DEF FabricStep
<1>10. ASSUME NEW p, StpFlush(p) PROVE LinkClean'
  BY Zenon, <1>1, <1>10, GotoStp DEF StpFlush
<1>11. ASSUME NEW p, NEW learn, NEW forward, StpState(p, learn, forward) PROVE LinkClean'
  BY Zenon, <1>1, <1>11, GotoStp DEF StpState
<1>12. CASE UNCHANGED vars \/ \E m \in Modes : SaveConfig(m)
  BY Zenon, <1>1, <1>12 DEF SaveConfig, vars
<1>13. ~DmaFault /\ ~NetworkFault
  BY Zenon, <1>0 DEF DmaFault, NetworkFault
<1> QED  BY Zenon, <1>4, <1>7, <1>8, <1>9, <1>10, <1>11, <1>12, <1>13 DEF Next

\* Every step keeps closed ports flushed where it matters.
LEMMA FlushedKept ==
  ASSUME PortControlType, CallOrder, FlushOwed, Flushed, [Next]_vars PROVE Flushed'
BY Zenon, FwdCleanKept, LinkCleanKept, FlushedNext


(***************************************************************************)
(* The registers are what the tasks asked for: LINK_UP.                    *)
(***************************************************************************)
\* LINK_UP, what the link task believes it is and the write it is making, by
\* where the link task is.
LinkIn(l, reg, on, mask) ==
  /\ l \in {"boot", "idle", "poll", "decide", "delay2", "read2", "check"} => reg = on
  /\ l \in {"take", "delay1", "read1", "write"} => on = reg \ mask
  /\ l = "set" => on = reg \cup mask

\* Short of a failure, LINK_UP differs from what the link task believes only
\* by the ports of the write it is about to make.
LEMMA LinkAppliedKept ==
  ASSUME PortControlType, CallOrder, LinkApplied, [Next]_vars PROVE LinkApplied'
<1> USE TypeParts, Same
<1> SUFFICES ASSUME ~failed', healthy' PROVE LinkApplied'
  BY Zenon DEF LinkApplied
<1>0. ~failed /\ healthy
  BY Zenon, ControlTyped
<1>1. LinkIn(pc["link"], linkReg, enabled, linkMask)
  BY Zenon, <1>0 DEF LinkApplied, LinkIn
<1>2. LinkIn(pc'["link"], linkReg', enabled', linkMask') => LinkApplied'
  BY Zenon DEF LinkApplied, LinkIn
<1>3. ASSUME linkReg' = linkReg, enabled' = enabled, linkMask' = linkMask, pc'["link"] = pc["link"]
      PROVE  LinkApplied'
  BY Zenon, <1>1, <1>2, <1>3
<1>4. ASSUME NEW l, Goto("link", l), linkReg' = linkReg, enabled' = enabled, linkMask' = linkMask,
             LinkIn(pc["link"], linkReg, enabled, linkMask) => LinkIn(l, linkReg, enabled, linkMask)
      PROVE  LinkApplied'
  <2>1. pc'["link"] = l
    BY Zenon, <1>4, GotoLink
  <2> QED  BY Zenon, <1>1, <1>2, <1>4, <2>1
<1>5. ASSUME NEW t \in Tasks, TaskStep(t) PROVE LinkApplied'
  <2>1. CASE t = "link"
    <3>1. CASE TakeLock(t) \/ FlushDelay(t) \/ FlushRead(t)
      BY Zenon, <1>4, <2>1, <3>1 DEF TakeLock, FlushDelay, FlushRead, OnlyPc, LinkIn
    <3>2. CASE WriteTarget(t)
      <4>1. /\ linkReg' = linkReg \ linkMask /\ enabled' = enabled /\ pc'["link"] = "delay2"
            /\ pc["link"] = "write"
        BY Zenon, <2>1, <3>2, GotoLink DEF WriteTarget, Target, WriteClear, AfterWrite
      <4> QED  BY Zenon, <1>1, <1>2, <4>1 DEF LinkIn
    <3>3. CASE CheckFailed(t)
      <4>1. linkReg' = linkReg /\ enabled' = enabled /\ pc'["link"] = "idle" /\ pc["link"] = "check"
        BY Zenon, <1>0, <2>1, <3>3, ReturnFacts DEF CheckFailed
      <4> QED  BY Zenon, <1>1, <1>2, <4>1 DEF LinkIn
    <3>4. ~CloseFwd(t)
      BY Zenon, <1>0 DEF CloseFwd, CallOrder
    <3> QED  BY Zenon, <1>5, <3>1, <3>2, <3>3, <3>4 DEF TaskStep
  <2>2. CASE t = "stp"
    <3>1. CASE TakeLock(t) \/ FlushDelay(t) \/ FlushRead(t)
      BY Zenon, <1>3, <2>2, <3>1, GotoStp DEF TakeLock, FlushDelay, FlushRead, OnlyPc
    <3>2. CASE WriteTarget(t)
      <4>1. Target(t).kind \in ClearKinds
        BY Zenon, <2>2, <3>2, TargetFacts DEF WriteTarget, CalleePcs
      <4>2. linkReg' = linkReg
        BY Zenon, <3>2, <4>1 DEF WriteTarget, WriteClear, ClearKinds
      <4> QED  BY Zenon, <1>3, <2>2, <3>2, <4>2, GotoStp DEF WriteTarget
    <3>3. CASE CheckFailed(t)
      BY Zenon, <1>0, <1>3, <2>2, <3>3, ReturnFacts DEF CheckFailed
    <3>4. ~CloseFwd(t)
      BY <1>0 DEF CloseFwd, CallOrder
    <3> QED  BY <1>5, <3>1, <3>2, <3>3, <3>4 DEF TaskStep
  <2> QED  BY Zenon, <2>1, <2>2, Names
<1>6. CASE LinkStep
  <2>1. CASE LinkDelay
    BY Zenon, <1>4, <2>1 DEF LinkDelay, OnlyPc, LinkIn
  <2>2. CASE LinkSample
    BY Zenon, <1>4, <2>2 DEF LinkSample, LinkIn
  <2>3. CASE LinkDecide
    <3> DEFINE want == Want(desired)
               clear == enabled \ want
               set == IF clear = {} /\ MaySet THEN want \ enabled ELSE {}
    <3>1. /\ linkReg = enabled /\ linkReg' = linkReg
          /\ enabled' = (enabled \cap want) \cup set
          /\ linkMask' = IF clear # {} THEN clear ELSE set
          /\ pc'["link"] = IF clear # {} THEN "take" ELSE IF set # {} THEN "set" ELSE "idle"
      BY Zenon, <1>1, <2>3, GotoLink DEF LinkDecide, NowEnabled, LinkIn
    <3> HIDE DEF want
    <3>2. CASE clear # {}
      <4>1. set = {} /\ pc'["link"] = "take" /\ linkMask' = clear /\ enabled' = enabled \cap want
        BY Zenon, <3>1, <3>2
      <4>2. enabled' = linkReg' \ linkMask'
        BY Zenon, <3>1, <4>1
      <4> QED  BY Zenon, <1>2, <4>1, <4>2 DEF LinkIn
    <3>3. CASE clear = {} /\ set # {}
      <4>1. pc'["link"] = "set" /\ linkMask' = set /\ enabled \cap want = enabled
        BY Zenon, <3>1, <3>3
      <4>2. enabled' = linkReg' \cup linkMask'
        BY Zenon, <3>1, <4>1
      <4> QED  BY Zenon, <1>2, <4>1, <4>2 DEF LinkIn
    <3>4. CASE clear = {} /\ set = {}
      <4>1. pc'["link"] = "idle" /\ enabled \cap want = enabled
        BY Zenon, <3>1, <3>4
      <4>2. linkReg' = enabled'
        BY Zenon, <3>1, <3>4, <4>1
      <4> QED  BY Zenon, <1>2, <4>1, <4>2 DEF LinkIn
    <3> QED  BY Zenon, <3>2, <3>3, <3>4
  <2>4. CASE LinkSet
    <3>1. pc["link"] = "set" /\ linkReg' = linkReg \cup linkMask /\ enabled' = enabled /\ pc'["link"] = "idle"
      BY Zenon, <2>4, GotoLink DEF LinkSet
    <3> QED  BY Zenon, <1>1, <1>2, <3>1 DEF LinkIn
  <2> QED  BY Zenon, <1>5, <1>6, <2>1, <2>2, <2>3, <2>4, Names DEF LinkStep
<1>7. CASE StpStep
  <2>1. CASE OpsDone
    <3>1. CASE pc["link"] = "boot"
      <4>1. linkReg' = linkReg /\ enabled' = enabled /\ pc'["link"] = "idle"
        BY Zenon, <2>1, <3>1, Names DEF OpsDone, OnlyPc
      <4> QED  BY Zenon, <1>1, <1>2, <3>1, <4>1 DEF LinkIn
    <3>2. CASE pc["link"] # "boot"
      BY Zenon, <1>3, <2>1, <3>2, GotoStp DEF OpsDone, OnlyPc
    <3> QED  BY Zenon, <3>1, <3>2
  <2>2. CASE CallClear \/ CallSet \/ StoreSet \/ CallLatch
    BY Zenon, <1>3, <2>2, GotoStp DEF CallClear, CallSet, StoreSet, CallLatch, OnlyPc
  <2>3. ~StoreLatch
    BY Zenon, <1>0 DEF StoreLatch, CallOrder
  <2>4. CASE Adopt \/ StpIterate
    BY Zenon, <1>3, <2>4, GotoStp DEF Adopt, StpIterate
  <2> QED  BY Zenon, <1>5, <1>7, <2>1, <2>2, <2>3, <2>4, Names DEF StpStep
<1>8. CASE FabricStep
  BY Zenon, <1>3, <1>8 DEF FabricStep, FlushArrives, FlushEnds
<1>9. \A t \in Tasks : ~FlushTimeout(t)
  BY Zenon DEF FlushTimeout
<1>10. ASSUME NEW p, StpFlush(p) PROVE LinkApplied'
  BY Zenon, <1>3, <1>10, GotoStp DEF StpFlush
<1>11. ASSUME NEW p, NEW learn, NEW forward, StpState(p, learn, forward) PROVE LinkApplied'
  BY Zenon, <1>3, <1>11, GotoStp DEF StpState
<1>12. CASE UNCHANGED vars \/ \E m \in Modes : SaveConfig(m)
  BY Zenon, <1>3, <1>12 DEF SaveConfig, vars
<1>13. ~DmaFault /\ ~NetworkFault
  BY Zenon, <1>0 DEF DmaFault, NetworkFault
<1> QED  BY Zenon, <1>6, <1>7, <1>8, <1>9, <1>10, <1>11, <1>12, <1>13 DEF Next


(***************************************************************************)
(* The STP task's queue of calls.                                          *)
(***************************************************************************)
\* The parts of OpQueue: what may be in the queue, ...
CallShape ==
  \A k \in DOMAIN ops :
    /\ ops[k].kind \in Modes => k = Len(ops)
    /\ ops[k].kind \in {"learn_clear", "learn_set"} => ops[k].tracked
    /\ ops[k].kind = "fwd_clear" /\ ~ops[k].tracked
         => k = 1 /\ IF Len(ops) = 1 THEN ops[1].mask \cap desFwd = {}
                     ELSE Len(ops) = 2 /\ ops[2] = Op("fwd_set", ops[1].mask, FALSE)
    /\ ops[k].kind = "fwd_set" /\ ~ops[k].tracked
         => /\ k = Len(ops) /\ ops[k].mask \subseteq desFwd
            /\ k = 1 \/ (k = 2 /\ ops[1] = Op("fwd_clear", ops[k].mask, FALSE))
\* ... that without STP every port is open or about to be, ...
OffOpen ==
  mode = "off" =>
    /\ ~engine
    /\ \/ \E k \in DOMAIN ops : ops[k].kind \in Modes
       \/ /\ \A k \in DOMAIN ops : ops[k] \in Opening
          /\ desFwd = Phys \/ \E k \in DOMAIN ops : ops[k].kind = "fwd_set"
          /\ desLearn = Phys \/ \E k \in DOMAIN ops : ops[k].kind = "learn_set"
\* ... and what startup does.
Starting ==
  /\ mode = "off" /\ ~engine /\ (cfg = "off" => ops = <<>>)
  /\ \A k \in DOMAIN ops : ops[k].kind \in ClearKinds \cup {"latch"} /\ ~ops[k].tracked

\* They are all of it.
LEMMA QueueParts == OpQueue <=> IF Started THEN CallShape /\ OffOpen ELSE Starting
BY Zenon DEF OpQueue, CallShape, OffOpen, Starting

\* The same of the next state.
LEMMA QueueNext == (IF Started' THEN CallShape' /\ OffOpen' ELSE Starting') => OpQueue'
BY Zenon DEF OpQueue, CallShape, OffOpen, Starting

\* The queue after its first call has returned.
LEMMA PopFacts ==
  ASSUME OpsType, ops # <<>>, OpDone
  PROVE  /\ Len(ops) \in Nat /\ Len(ops') = Len(ops) - 1 /\ 1 \in DOMAIN ops /\ Head(ops) = ops[1]
         /\ \A k \in DOMAIN ops' : /\ k \in Nat /\ k >= 1 /\ k <= Len(ops')
                                   /\ k + 1 \in DOMAIN ops /\ ops'[k] = ops[k + 1]
         /\ \A j \in DOMAIN ops : j # 1 => \E k \in DOMAIN ops' : j = k + 1
         /\ ops' # <<>> => 1 \in DOMAIN ops' /\ Head(ops') = ops'[1]
<1>1. /\ ops' = Tail(ops) /\ ops' \in Seq(Ops) /\ Len(ops) \in Nat /\ Len(ops) >= 1
      /\ DOMAIN ops = 1..Len(ops) /\ Len(ops') = Len(ops) - 1 /\ Head(ops) = ops[1]
      /\ \A k \in 1..(Len(ops) - 1) : ops'[k] = ops[k + 1]
  BY Zenon, HeadFacts DEF OpDone
<1>2. DOMAIN ops' = 1..(Len(ops) - 1)
  BY <1>1
<1>3. ops' # <<>> => Len(ops') >= 1 /\ Head(ops') = ops'[1]
  BY <1>1
<1>4. \A k \in DOMAIN ops' : /\ k \in Nat /\ k >= 1 /\ k <= Len(ops')
                             /\ k + 1 \in DOMAIN ops /\ ops'[k] = ops[k + 1]
  BY <1>1, <1>2
<1>5. ASSUME NEW j \in DOMAIN ops, j # 1 PROVE \E k \in DOMAIN ops' : j = k + 1
  <2>1. j - 1 \in DOMAIN ops' /\ j = (j - 1) + 1
    BY <1>1, <1>2, <1>5
  <2> QED  BY Zenon, <2>1
<1>6. 1 \in DOMAIN ops /\ (ops' # <<>> => 1 \in DOMAIN ops')
  BY <1>1, <1>2, <1>3
<1> QED  BY Zenon, <1>1, <1>3, <1>4, <1>5, <1>6

\* What the shadow of the registers becomes.
LEMMA PopShadow ==
  ASSUME OpDone
  PROVE  /\ mode' = mode /\ engine' = engine
         /\ desFwd' = IF Head(ops).tracked /\ Head(ops).kind = "fwd_clear" THEN desFwd \ Head(ops).mask
                      ELSE IF Head(ops).tracked /\ Head(ops).kind = "fwd_set" THEN desFwd \cup Head(ops).mask
                      ELSE desFwd
         /\ desLearn' = IF Head(ops).tracked /\ Head(ops).kind = "learn_clear" THEN desLearn \ Head(ops).mask
                        ELSE IF Head(ops).tracked /\ Head(ops).kind = "learn_set" THEN desLearn \cup Head(ops).mask
                        ELSE desLearn
BY Zenon DEF OpDone

\* The queue keeps its shape when a call returns.
LEMMA PopShape ==
  ASSUME OpsType, ops # <<>>, OpDone, CallShape PROVE CallShape'
<1>1. /\ Len(ops) \in Nat /\ Len(ops') = Len(ops) - 1 /\ 1 \in DOMAIN ops /\ Head(ops) = ops[1]
      /\ \A k \in DOMAIN ops' : /\ k \in Nat /\ k >= 1 /\ k <= Len(ops')
                                /\ k + 1 \in DOMAIN ops /\ ops'[k] = ops[k + 1]
  BY Zenon, PopFacts
<1> SUFFICES ASSUME NEW k \in DOMAIN ops'
             PROVE  /\ ops'[k].kind \in Modes => k = Len(ops')
                    /\ ops'[k].kind \in {"learn_clear", "learn_set"} => ops'[k].tracked
                    /\ ~(ops'[k].kind = "fwd_clear" /\ ~ops'[k].tracked)
                    /\ ops'[k].kind = "fwd_set" /\ ~ops'[k].tracked
                         => k = Len(ops') /\ ops'[k].mask \subseteq desFwd' /\ k = 1
  BY Zenon DEF CallShape
<1> DEFINE j == k + 1
           o == ops[j]
<1>2. /\ k \in Nat /\ k >= 1 /\ j \in DOMAIN ops /\ ops'[k] = o
      /\ j # 1 /\ (j = Len(ops) <=> k = Len(ops')) /\ (j = 2 <=> k = 1)
  BY <1>1
<1> HIDE DEF j, o
<1>3. /\ o.kind \in Modes => j = Len(ops)
      /\ o.kind \in {"learn_clear", "learn_set"} => o.tracked
      /\ ~(o.kind = "fwd_clear" /\ ~o.tracked)
      /\ o.kind = "fwd_set" /\ ~o.tracked
           => j = Len(ops) /\ o.mask \subseteq desFwd /\ j = 2 /\ ops[1] = Op("fwd_clear", o.mask, FALSE)
  BY Zenon, <1>2 DEF CallShape, o
<1>4. ops[1] = Op("fwd_clear", o.mask, FALSE) => desFwd' = desFwd
  <2>1. ASSUME ops[1] = Op("fwd_clear", o.mask, FALSE) PROVE ~Head(ops).tracked
    BY <1>1, <2>1 DEF Op
  <2>2. ~Head(ops).tracked => desFwd' = desFwd
    BY Zenon, PopShadow
  <2> QED  BY Zenon, <2>1, <2>2
<1> QED  BY Zenon, <1>2, <1>3, <1>4

\* Without STP the ports stay open, or on their way to it, when a call returns.
LEMMA PopOpen ==
  ASSUME ShadowTypes, OpsType, ops # <<>>, Head(ops).kind \notin Modes, OpDone, OffOpen PROVE OffOpen'
<1>1. /\ 1 \in DOMAIN ops /\ Head(ops) = ops[1]
      /\ \A k \in DOMAIN ops' : k + 1 \in DOMAIN ops /\ ops'[k] = ops[k + 1]
      /\ \A j \in DOMAIN ops : j # 1 => \E k \in DOMAIN ops' : j = k + 1
  BY Zenon, PopFacts
<1>2. mode' = mode /\ engine' = engine
  BY Zenon, PopShadow
<1> SUFFICES ASSUME mode = "off"
             PROVE  \/ \E k \in DOMAIN ops' : ops'[k].kind \in Modes
                    \/ /\ \A k \in DOMAIN ops' : ops'[k] \in Opening
                       /\ desFwd' = Phys \/ \E k \in DOMAIN ops' : ops'[k].kind = "fwd_set"
                       /\ desLearn' = Phys \/ \E k \in DOMAIN ops' : ops'[k].kind = "learn_set"
  BY Zenon, <1>2 DEF OffOpen, Opening
<1>3. CASE \E j \in DOMAIN ops : ops[j].kind \in Modes
  <2>1. PICK j \in DOMAIN ops : ops[j].kind \in Modes
    BY Zenon, <1>3
  <2>2. PICK k \in DOMAIN ops' : j = k + 1
    BY Zenon, <1>1, <2>1
  <2> QED  BY Zenon, <1>1, <2>1, <2>2
<1>4. CASE /\ \A k \in DOMAIN ops : ops[k] \in Opening
           /\ desFwd = Phys \/ \E k \in DOMAIN ops : ops[k].kind = "fwd_set"
           /\ desLearn = Phys \/ \E k \in DOMAIN ops : ops[k].kind = "learn_set"
  <2>1. \A k \in DOMAIN ops' : ops'[k] \in Opening
    BY Zenon, <1>1, <1>4
  <2>2. /\ ops[1].tracked /\ ops[1].mask = Phys /\ ops[1].kind \in {"learn_set", "fwd_set"}
    BY <1>1, <1>4 DEF Opening, Op
  <2>3. /\ ops[1].kind = "fwd_set" => desFwd' = Phys /\ desLearn' = desLearn
        /\ ops[1].kind = "learn_set" => desLearn' = Phys /\ desFwd' = desFwd
    BY Zenon, <1>1, <2>2, PopShadow DEF ShadowTypes
  <2>4. desFwd' = Phys \/ \E k \in DOMAIN ops' : ops'[k].kind = "fwd_set"
    <3>1. CASE ops[1].kind = "fwd_set"
      BY Zenon, <2>3, <3>1
    <3>2. CASE ops[1].kind = "learn_set" /\ desFwd # Phys
      <4>1. PICK j \in DOMAIN ops : ops[j].kind = "fwd_set"
        BY Zenon, <1>4, <3>2
      <4>2. PICK k \in DOMAIN ops' : j = k + 1
        BY Zenon, <1>1, <3>2, <4>1
      <4> QED  BY Zenon, <1>1, <4>1, <4>2
    <3> QED  BY Zenon, <2>2, <2>3, <3>1, <3>2
  <2>5. desLearn' = Phys \/ \E k \in DOMAIN ops' : ops'[k].kind = "learn_set"
    <3>1. CASE ops[1].kind = "learn_set"
      BY Zenon, <2>3, <3>1
    <3>2. CASE ops[1].kind = "fwd_set" /\ desLearn # Phys
      <4>1. PICK j \in DOMAIN ops : ops[j].kind = "learn_set"
        BY Zenon, <1>4, <3>2
      <4>2. PICK k \in DOMAIN ops' : j = k + 1
        BY Zenon, <1>1, <3>2, <4>1
      <4> QED  BY Zenon, <1>1, <4>1, <4>2
    <3> QED  BY Zenon, <2>2, <2>3, <3>1, <3>2
  <2> QED  BY Zenon, <2>1, <2>4, <2>5
<1> QED  BY Zenon, <1>3, <1>4 DEF OffOpen

\* The queue after a call of pstate.c has returned.
LEMMA PopQueue ==
  ASSUME PortControlType, OpQueue, ops # <<>>, Head(ops).kind \notin Modes, OpDone,
         Started' <=> Started, cfg' = cfg
  PROVE  OpQueue'
<1> USE TypeParts
<1>1. CASE Started
  BY Zenon, <1>1, PopShape, PopOpen, QueueParts, QueueNext
<1>2. CASE ~Started
  <2>1. Starting
    BY Zenon, <1>2, QueueParts
  <2>2. \A k \in DOMAIN ops' : ops'[k].kind \in ClearKinds \cup {"latch"} /\ ~ops'[k].tracked
    BY Zenon, <2>1, PopFacts DEF Starting
  <2>3. Starting'
    BY <2>1, <2>2, PopShadow DEF Starting
  <2> QED  BY Zenon, <1>2, <2>3, QueueNext
<1> QED  BY Zenon, <1>1, <1>2


\* Neither the end of startup nor the first look at the configuration.
LEMMA StartedSame ==
  ASSUME pc'["link"] = "boot" <=> pc["link"] = "boot", pc'["stp"] = "first" <=> pc["stp"] = "first"
  PROVE  Started' <=> Started
BY Zenon DEF Started

\* What can happen to the STP task's calls and registers: nothing, or its
\* clear is written; a call returns; or the queue is refilled.
Idle ==
  /\ UNCHANGED <<stpVars, cfg>> /\ (Started' <=> Started)
  /\ \/ failed' \/ WriteTarget("stp")
     \/ fwdReg' = fwdReg /\ learnReg' = learnReg /\ (Written' <=> Written)
Returns ==
  /\ OpDone /\ ops # <<>> /\ Head(ops).kind \notin Modes /\ cfg' = cfg /\ (Started' <=> Started)
  /\ failed' \/ StoreSet \/ (CheckFailed("stp") /\ ~failed)
Refills ==
  \/ Adopt \/ StpIterate
  \/ \E p \in Phys : StpFlush(p)
  \/ \E p \in Phys, learn, forward \in BOOLEAN : StpState(p, learn, forward)
  \/ \E m \in Modes : SaveConfig(m)

\* Every step is one of these.
LEMMA StpCases ==
  ASSUME PortControlType, CallOrder, [Next]_vars PROVE Idle \/ Returns \/ Refills
<1> USE TypeParts, Same
<1>0. failed => failed'
  BY Zenon, ControlTyped
<1>1. ASSUME UNCHANGED <<pc, stpVars, cfgVars>>, fwdReg' = fwdReg, learnReg' = learnReg PROVE Idle
  BY Zenon, <1>1 DEF Idle, Started, Written
<1>2. ASSUME NEW l, Goto("link", l), l # "boot", pc["link"] # "boot", UNCHANGED <<stpVars, cfgVars>>,
             (fwdReg' = fwdReg /\ learnReg' = learnReg) \/ failed'
      PROVE  Idle
  BY Zenon, <1>2, GotoLink DEF Idle, Started, Written
<1>3. ASSUME NEW l, Goto("stp", l), l # "first", pc["stp"] # "first", UNCHANGED <<stpVars, cfgVars>>,
             \/ failed' \/ WriteTarget("stp")
             \/ /\ fwdReg' = fwdReg /\ learnReg' = learnReg
                /\ l \in {"delay2", "read2", "check"} <=> pc["stp"] \in {"delay2", "read2", "check"}
      PROVE  Idle
  <2>1. pc'["stp"] = l /\ pc'["link"] = pc["link"]
    BY Zenon, <1>3, GotoStp
  <2>2. Started' <=> Started
    BY Zenon, <1>3, <2>1, StartedSame
  <2>3. (l \in {"delay2", "read2", "check"} <=> pc["stp"] \in {"delay2", "read2", "check"}) => (Written' <=> Written)
    BY Zenon, <2>1 DEF Written
  <2> QED  BY Zenon, <1>3, <2>2, <2>3 DEF Idle
<1>4. ASSUME TaskStep("link") \/ FlushTimeout("link") PROVE Idle
  <2>1. CASE TakeLock("link") \/ FlushDelay("link") \/ FlushRead("link") \/ FlushTimeout("link")
    BY Zenon, <1>2, <2>1 DEF TakeLock, FlushDelay, FlushRead, FlushTimeout, OnlyPc
  <2>2. CASE WriteTarget("link")
    BY Zenon, <1>2, <2>2 DEF WriteTarget, WriteClear, Target, AfterWrite
  <2>3. CASE CheckFailed("link")
    BY Zenon, <1>2, <2>3 DEF CheckFailed, Return
  <2>4. CASE CloseFwd("link")
    <3>1. failed
      BY Zenon, <2>4, Names DEF CloseFwd, CallOrder
    <3> QED  BY Zenon, <1>0, <1>2, <2>4, <3>1 DEF CloseFwd, Return
  <2> QED  BY Zenon, <1>4, <2>1, <2>2, <2>3, <2>4 DEF TaskStep
<1>5. CASE LinkStep
  <2>1. CASE LinkDecide
    BY Zenon, <1>2, <2>1 DEF LinkDecide
  <2>2. CASE LinkDelay \/ LinkSample \/ LinkSet
    BY Zenon, <1>2, <2>2 DEF LinkDelay, LinkSample, LinkSet, OnlyPc
  <2> QED  BY Zenon, <1>4, <1>5, <2>1, <2>2 DEF LinkStep
<1>6. ASSUME OpDone, ops # <<>>, Head(ops).kind \notin Modes, UNCHANGED cfgVars,
             pc'["stp"] = "run", pc["stp"] # "first", pc'["link"] = pc["link"],
             failed' \/ StoreSet \/ (CheckFailed("stp") /\ ~failed)
      PROVE  Returns
  <2>1. Started' <=> Started
    BY Zenon, <1>6, StartedSame
  <2> QED  BY Zenon, <1>6, <2>1 DEF Returns
<1>7. ASSUME TaskStep("stp") \/ FlushTimeout("stp") PROVE Idle \/ Returns
  <2>0. pc["stp"] \in CalleePcs => ops # <<>> /\ Head(ops).kind \notin Modes
    BY Zenon, Names DEF CallOrder
  <2>1. CASE TakeLock("stp") \/ FlushDelay("stp") \/ FlushTimeout("stp")
    BY <1>3, <2>1 DEF TakeLock, FlushDelay, FlushTimeout, OnlyPc
  <2>2. CASE FlushRead("stp")
    BY Zenon, <1>3, <2>2 DEF FlushRead, OnlyPc
  <2>3. CASE WriteTarget("stp")
    BY Zenon, <1>3, <2>3 DEF WriteTarget, AfterWrite
  <2>4. CASE CheckFailed("stp")
    <3>1. CASE failed
      BY Zenon, <1>0, <1>3, <2>4, <3>1 DEF CheckFailed
    <3>2. CASE ~failed
      <4>1. Return("stp") /\ UNCHANGED cfgVars /\ pc["stp"] = "check"
        BY Zenon, <2>4, <3>2 DEF CheckFailed
      <4> QED  BY Zenon, <1>6, <2>0, <2>4, <3>2, <4>1, ReturnFacts, Names DEF CalleePcs
    <3> QED  BY Zenon, <3>1, <3>2
  <2>5. CASE CloseFwd("stp")
    <3>1. failed' /\ Return("stp") /\ UNCHANGED cfgVars /\ pc["stp"] = "close"
      BY Zenon, <1>0, <2>5, Names DEF CloseFwd, CallOrder
    <3> QED  BY Zenon, <1>6, <2>0, <3>1, ReturnFacts, Names DEF CalleePcs
  <2> QED  BY Zenon, <1>7, <2>1, <2>2, <2>3, <2>4, <2>5 DEF TaskStep
<1>8. CASE StpStep
  <2>0. \A kind \in SetKinds \cup {"latch"} : kind \notin Modes
    BY Zenon, Names
  <2>1. CASE OpsDone
    <3>1. CASE pc["link"] = "boot"
      <4>1. pc'["link"] = "idle" /\ pc'["stp"] = "first" /\ UNCHANGED <<stpVars, cfgVars, regVars>> /\ pc["stp"] = "run"
        BY Zenon, <2>1, <3>1, Names DEF OpsDone, OnlyPc
      <4> QED  BY Zenon, <3>1, <4>1 DEF Idle, Started, Written
    <3>2. CASE pc["link"] # "boot"
      BY Zenon, <1>3, <2>1, <3>2 DEF OpsDone, OnlyPc
    <3> QED  BY Zenon, <3>1, <3>2
  <2>2. CASE CallClear \/ CallLatch
    BY Zenon, <1>3, <2>2 DEF CallClear, CallLatch, OnlyPc
  <2>3. CASE CallSet
    <3>1. CASE failed
      BY Zenon, <1>0, <1>6, <2>0, <2>3, <3>1 DEF CallSet
    <3>2. CASE ~failed
      BY Zenon, <1>3, <2>3, <3>2 DEF CallSet
    <3> QED  BY Zenon, <3>1, <3>2
  <2>4. CASE StoreSet
    <3>1. OpDone /\ UNCHANGED cfgVars /\ pc["stp"] = "store" /\ Goto("stp", "run")
      BY Zenon, <2>4 DEF StoreSet
    <3>2. ops # <<>> /\ Head(ops).kind \notin Modes
      BY Zenon, <2>0, <3>1 DEF CallOrder
    <3> QED  BY Zenon, <1>6, <2>4, <3>1, <3>2, GotoStp
  <2>5. CASE StoreLatch
    <3>1. OpDone /\ UNCHANGED cfgVars /\ pc["stp"] = "latched" /\ Goto("stp", "run")
      BY Zenon, <2>5 DEF StoreLatch
    <3>2. ops # <<>> /\ Head(ops).kind \notin Modes /\ failed'
      BY Zenon, <1>0, <2>0, <3>1 DEF CallOrder
    <3> QED  BY Zenon, <1>6, <3>1, <3>2, GotoStp
  <2>6. CASE Adopt \/ StpIterate
    BY Zenon, <2>6 DEF Refills
  <2> QED  BY Zenon, <1>7, <1>8, <2>1, <2>2, <2>3, <2>4, <2>5, <2>6 DEF StpStep
<1>9. CASE FabricStep
  BY Zenon, <1>1, <1>9 DEF FabricStep, FlushArrives, FlushEnds
<1>10. CASE DmaFault \/ UNCHANGED vars
  BY Zenon, <1>1, <1>10 DEF DmaFault, vars
<1>11. CASE NetworkFault
  BY Zenon, <1>1, <1>11 DEF NetworkFault, WriteClear
<1>12. ASSUME NEW t \in Tasks, FlushTimeout(t) PROVE Idle \/ Returns
  BY Zenon, <1>4, <1>7, <1>12, Names
<1> QED  BY Zenon, <1>5, <1>8, <1>9, <1>10, <1>11, <1>12 DEF Next, Refills


\* Forgetting what was learned on a port: one call, or two if it is open.
LEMMA FlushList ==
  ASSUME NEW p \in Phys
  PROVE  FlushOps(p) = IF p \in desFwd THEN <<Op("fwd_clear", {p}, FALSE), Op("fwd_set", {p}, FALSE)>>
                       ELSE <<Op("fwd_clear", {p}, FALSE)>>
<1>1. ASSUME NEW S, NEW s \in Seq(S), NEW t \in Seq(S), Len(s) = Len(t), \A k \in 1..Len(s) : s[k] = t[k]
      PROVE  s = t
  BY <1>1
<1>2. ASSUME NEW a, NEW b PROVE <<a>> \o <<b>> = <<a, b>> /\ <<a>> \o <<>> = <<a>>
  <2> DEFINE S == {a, b}
             ab == <<a>> \o <<b>>
             a0 == <<a>> \o <<>>
  <2>1. <<a>> \in Seq(S) /\ <<b>> \in Seq(S) /\ <<>> \in Seq(S) /\ <<a, b>> \in Seq(S)
    OBVIOUS
  <2>2. ab \in Seq(S) /\ Len(ab) = 2 /\ ab[1] = a /\ ab[2] = b
    BY <2>1
  <2>3. a0 \in Seq(S) /\ Len(a0) = 1 /\ a0[1] = a
    BY <2>1
  <2>4. Len(<<a, b>>) = 2 /\ <<a, b>>[1] = a /\ <<a, b>>[2] = b /\ Len(<<a>>) = 1 /\ <<a>>[1] = a
    BY Zenon
  <2> HIDE DEF S, ab, a0
  <2>5. \A k \in 1..2 : ab[k] = <<a, b>>[k]
    BY <2>2, <2>4
  <2>6. \A k \in 1..1 : a0[k] = <<a>>[k]
    BY <2>3, <2>4
  <2>7. ab = <<a, b>> /\ a0 = <<a>>
    BY <1>1, <2>1, <2>2, <2>3, <2>4, <2>5, <2>6
  <2> QED  BY Zenon, <2>7 DEF ab, a0
<1> QED  BY Zenon, <1>2 DEF FlushOps

\* An empty queue has the right shape, with every port open if STP is off.
LEMMA EmptyQueue ==
  ASSUME PortControlType, CallOrder, OpQueue, pc["stp"] \in {"first", "top"}
  PROVE  /\ ops = <<>> /\ pc["link"] # "boot" /\ (mode = "off" => ~engine)
         /\ pc["stp"] = "top" => Started /\ (mode = "off" => desFwd = Phys /\ desLearn = Phys)
         /\ pc["stp"] = "first" => ~Started /\ mode = "off"
<1>1. ops = <<>> /\ pc["link"] # "boot" /\ DOMAIN ops = {}
  BY DEF CallOrder
<1>2. CASE pc["stp"] = "top"
  <2>1. Started /\ OffOpen
    BY Zenon, <1>1, <1>2, QueueParts DEF Started
  <2> QED  BY Zenon, <1>1, <1>2, <2>1 DEF OffOpen
<1>3. CASE pc["stp"] = "first"
  <2>1. ~Started /\ Starting
    BY Zenon, <1>3, QueueParts DEF Started
  <2> QED  BY Zenon, <1>1, <1>3, <2>1 DEF Starting
<1> QED  BY Zenon, <1>2, <1>3

\* A mode is adopted when it is the only call left, past startup.
LEMMA AdoptAlone ==
  ASSUME PortControlType, CallOrder, OpQueue, Adopt
  PROVE  Started /\ Started' /\ Len(ops) = 1 /\ DOMAIN ops = {1} /\ Head(ops) = ops[1] /\ pc["stp"] = "run"
<1> USE TypeParts
<1>1. /\ ops # <<>> /\ Head(ops).kind \in Modes /\ pc["stp"] = "run" /\ pc' = pc
  BY Zenon DEF Adopt
<1>2. /\ Head(ops) = ops[1] /\ Len(ops) \in Nat /\ Len(ops) >= 1 /\ DOMAIN ops = 1..Len(ops)
  BY Zenon, <1>1, HeadFacts
<1>3. 1 \in DOMAIN ops /\ ops[1].kind \in Modes
  BY <1>1, <1>2
<1>4. Started
  <2>1. ASSUME Starting PROVE FALSE
    <3>1. ops[1].kind \in ClearKinds \cup {"latch"}
      BY Zenon, <1>3, <2>1 DEF Starting
    <3> QED  BY Zenon, <1>3, <3>1, Names
  <2> QED  BY Zenon, <2>1, QueueParts
<1>5. Len(ops) = 1
  BY Zenon, <1>3, <1>4, QueueParts DEF CallShape
<1> QED  BY <1>1, <1>2, <1>4, <1>5 DEF Started

\* Every step keeps the queue's shape.
LEMMA QueueKept ==
  ASSUME PortControlType, CallOrder, OpQueue, [Next]_vars PROVE OpQueue'
<1> USE TypeParts, Same
<1>k. \A m \in Modes : m \notin {"fwd_clear", "learn_clear", "fwd_set", "learn_set", "latch"}
  BY Zenon, Names DEF ClearKinds, SetKinds
<1>1. CASE Idle
  <2>1. /\ mode' = mode /\ engine' = engine /\ desFwd' = desFwd /\ desLearn' = desLearn /\ ops' = ops
        /\ cfg' = cfg /\ (Started' <=> Started)
    BY Zenon, <1>1 DEF Idle
  <2>2. (CallShape => CallShape') /\ (OffOpen => OffOpen') /\ (Starting => Starting')
    BY Zenon, <2>1 DEF CallShape, OffOpen, Starting, Opening
  <2> QED  BY Zenon, <2>1, <2>2, QueueParts, QueueNext
<1>2. CASE Returns
  BY Zenon, <1>2, PopQueue DEF Returns
<1>3. CASE Adopt
  <2>1. /\ Started' /\ Head(ops).kind \in Modes /\ mode' = Head(ops).kind
        /\ mode' = "off" => ~engine' /\ ops' = <<Op("learn_set", Phys, TRUE), Op("fwd_set", Phys, TRUE)>>
        /\ mode' # "off" => ops' = <<>> \/ ops' = <<Op("latch", Phys, FALSE)>>
    BY Zenon, <1>3, AdoptAlone DEF Adopt
  <2>2. CASE mode' # "off"
    <3>1. \A k \in DOMAIN ops' : ops'[k].kind = "latch"
      <4>1. CASE ops' = <<>>
        BY <4>1
      <4>2. CASE ops' = <<Op("latch", Phys, FALSE)>>
        <5>1. DOMAIN ops' = {1} /\ ops'[1] = Op("latch", Phys, FALSE)
          BY <4>2
        <5> QED  BY <5>1 DEF Op
      <4> QED  BY Zenon, <2>1, <2>2, <4>1, <4>2
    <3>2. CallShape'
      BY Zenon, <1>k, <3>1 DEF CallShape
    <3>3. OffOpen'
      BY Zenon, <2>2 DEF OffOpen
    <3> QED  BY Zenon, <2>1, <3>2, <3>3, QueueNext
  <2>3. CASE mode' = "off"
    <3>1. /\ DOMAIN ops' = {1, 2} /\ ops'[1] = Op("learn_set", Phys, TRUE) /\ ops'[2] = Op("fwd_set", Phys, TRUE)
      <4>1. ops' = <<Op("learn_set", Phys, TRUE), Op("fwd_set", Phys, TRUE)>>
        BY Zenon, <2>1, <2>3
      <4> QED  BY <4>1
    <3>2. /\ ops'[1].kind = "learn_set" /\ ops'[1].tracked /\ ops'[2].kind = "fwd_set" /\ ops'[2].tracked
      BY <3>1 DEF Op
    <3>3. CallShape'
      BY Zenon, <1>k, <3>1, <3>2 DEF CallShape
    <3>4. \A k \in DOMAIN ops' : ops'[k] \in Opening
      BY Zenon, <3>1 DEF Opening
    <3>5. OffOpen'
      <4>1. /\ \E k \in DOMAIN ops' : ops'[k].kind = "fwd_set"
            /\ \E k \in DOMAIN ops' : ops'[k].kind = "learn_set"
        BY Zenon, <3>1, <3>2
      <4> QED  BY Zenon, <2>1, <2>3, <3>4, <4>1 DEF OffOpen, Opening
    <3> QED  BY <2>1, <3>3, <3>5, QueueNext
  <2> QED  BY Zenon, <2>2, <2>3
<1>4. CASE StpIterate
  <2>1. /\ ops = <<>> /\ pc["link"] # "boot" /\ (mode = "off" => ~engine) /\ mode' = mode /\ engine' = engine
    BY Zenon, <1>4, EmptyQueue DEF StpIterate
  <2>2. Started'
    BY <1>4, <2>1, GotoStp DEF StpIterate, Started
  <2>3. CASE desFwd' = Phys /\ desLearn' = Phys /\ ops' = ops
    <3>1. DOMAIN ops' = {}
      BY <2>1, <2>3
    <3>2. CallShape' /\ OffOpen'
      BY Zenon, <2>1, <2>3, <3>1 DEF CallShape, OffOpen
    <3> QED  BY Zenon, <2>2, <3>2, QueueNext
  <2>4. CASE ops' = ReconfigureOps
    <3>1. /\ DOMAIN ops' = {1, 2, 3} /\ Len(ops') = 3
          /\ ops'[1] = Op("fwd_clear", Phys, TRUE) /\ ops'[2] = Op("learn_clear", Phys, TRUE)
          /\ ops'[3] = Op(cfg, Phys, FALSE)
      BY <2>4 DEF ReconfigureOps
    <3>2. /\ ops'[1].kind = "fwd_clear" /\ ops'[1].tracked /\ ops'[2].kind = "learn_clear" /\ ops'[2].tracked
          /\ ops'[3].kind \in Modes
      BY <3>1 DEF Op, ModeTypes
    <3>3. CallShape'
      BY Zenon, <1>k, <3>1, <3>2 DEF CallShape
    <3>4. \E k \in DOMAIN ops' : ops'[k].kind \in Modes
      BY Zenon, <3>1, <3>2
    <3>5. OffOpen'
      BY Zenon, <2>1, <3>4 DEF OffOpen
    <3> QED  BY Zenon, <2>2, <3>3, <3>5, QueueNext
  <2> QED  BY Zenon, <1>4, <2>3, <2>4 DEF StpIterate
<1>5. ASSUME NEW p \in Phys, StpFlush(p) PROVE OpQueue'
  <2>1. /\ pc["stp"] = "top" /\ engine /\ ops' = FlushOps(p) /\ mode' = mode /\ desFwd' = desFwd
        /\ pc'["stp"] = "run" /\ pc'["link"] = pc["link"]
    BY Zenon, <1>5, GotoStp DEF StpFlush
  <2>2. Started' /\ mode' # "off"
    BY Zenon, <2>1, EmptyQueue DEF Started
  <2>3. CASE p \in desFwd
    <3>1. /\ DOMAIN ops' = {1, 2} /\ Len(ops') = 2
          /\ ops'[1] = Op("fwd_clear", {p}, FALSE) /\ ops'[2] = Op("fwd_set", {p}, FALSE)
      <4>1. ops' = <<Op("fwd_clear", {p}, FALSE), Op("fwd_set", {p}, FALSE)>>
        BY Zenon, <2>1, <2>3, FlushList
      <4> QED  BY <4>1
    <3>2. /\ ops'[1].kind = "fwd_clear" /\ ops'[1].mask = {p} /\ ops'[2].kind = "fwd_set" /\ ops'[2].mask = {p}
      BY <3>1 DEF Op
    <3>3. CallShape'
      BY ZenonT(30), <1>k, <2>1, <2>3, <3>1, <3>2 DEF CallShape
    <3> QED  BY Zenon, <2>2, <3>3, QueueNext DEF OffOpen
  <2>4. CASE p \notin desFwd
    <3>1. DOMAIN ops' = {1} /\ Len(ops') = 1 /\ ops'[1] = Op("fwd_clear", {p}, FALSE)
      <4>1. ops' = <<Op("fwd_clear", {p}, FALSE)>>
        BY Zenon, <2>1, <2>4, FlushList
      <4> QED  BY <4>1
    <3>2. ops'[1].kind = "fwd_clear" /\ ops'[1].mask = {p}
      BY <3>1 DEF Op
    <3>3. CallShape'
      BY Zenon, <1>k, <2>1, <2>4, <3>1, <3>2 DEF CallShape
    <3> QED  BY <2>2, <3>3, QueueNext DEF OffOpen
  <2> QED  BY Zenon, <2>3, <2>4
<1>6. ASSUME NEW p \in Phys, NEW learn \in BOOLEAN, NEW forward \in BOOLEAN, StpState(p, learn, forward)
      PROVE  OpQueue'
  <2>1. /\ pc["stp"] = "top" /\ engine /\ mode' = mode /\ pc'["stp"] = "run" /\ pc'["link"] = pc["link"]
    BY Zenon, <1>6, GotoStp DEF StpState
  <2>2. Started' /\ mode' # "off"
    BY Zenon, <2>1, EmptyQueue DEF Started
  <2>3. ops' \in Seq({o \in Ops : o.tracked /\ o.mask = {p} /\ o.kind \notin Modes})
    BY Zenon, <1>6, CallsTyped DEF StpState
  <2>4. \A k \in DOMAIN ops' : ops'[k].tracked /\ ops'[k].kind \notin Modes
    BY <2>3
  <2>5. CallShape'
    BY Zenon, <2>4 DEF CallShape
  <2> QED  BY Zenon, <2>2, <2>5, QueueNext DEF OffOpen
<1>7. ASSUME NEW m \in Modes, SaveConfig(m) PROVE OpQueue'
  <2>1. /\ Started /\ Started' /\ mode' = mode /\ engine' = engine /\ desFwd' = desFwd
        /\ desLearn' = desLearn /\ ops' = ops
    BY Zenon, <1>7 DEF SaveConfig, Started
  <2>2. (CallShape => CallShape') /\ (OffOpen => OffOpen')
    BY Zenon, <2>1 DEF CallShape, OffOpen, Opening
  <2> QED  BY Zenon, <2>1, <2>2, QueueParts, QueueNext
<1> QED  BY Zenon, <1>1, <1>2, <1>3, <1>4, <1>5, <1>6, <1>7, StpCases DEF Refills


(***************************************************************************)
(* The registers are what the tasks asked for: FWD and LEARN.              *)
(***************************************************************************)
\* The two registers in the loop.
FwdApplied == Awaited("fwd_clear") \/ fwdReg = FwdShadow
LearnApplied == Awaited("learn_clear") \/ learnReg = LearnShadow

\* They are all of StpApplied, with startup.
LEMMA AppliedParts ==
  StpApplied <=> (~failed => IF Started THEN FwdApplied /\ LearnApplied
                             ELSE cfg = "off" => fwdReg = Phys /\ learnReg = Phys)
BY Zenon DEF StpApplied, FwdApplied, LearnApplied

\* The same of the next state.
LEMMA AppliedNext ==
  (~failed' => IF Started' THEN FwdApplied' /\ LearnApplied'
               ELSE cfg' = "off" => fwdReg' = Phys /\ learnReg' = Phys)
  => StpApplied'
BY Zenon DEF StpApplied, FwdApplied, LearnApplied

\* A clear of every port that is awaited still is when another call returns.
LEMMA AwaitedPop ==
  ASSUME OpsType, ops # <<>>, OpDone, ~Written', NEW kind, Written \/ Head(ops).kind # kind, Awaited(kind)
  PROVE  Awaited(kind)'
<1>1. PICK j \in DOMAIN ops : ops[j] = Op(kind, Phys, TRUE) /\ ~(j = 1 /\ Written)
  BY Zenon DEF Awaited
<1>2. j # 1
  <2>1. j = 1 => Head(ops).kind = kind
    BY <1>1, PopFacts DEF Op
  <2> QED  BY Zenon, <1>1, <2>1
<1>3. PICK k \in DOMAIN ops' : j = k + 1
  BY Zenon, <1>1, <1>2, PopFacts
<1>4. ops'[k] = Op(kind, Phys, TRUE)
  BY Zenon, <1>1, <1>3, PopFacts
<1> QED  BY Zenon, <1>4 DEF Awaited

\* What the shape of the queue says of its first two calls.
LEMMA FirstCalls ==
  ASSUME CallShape
  PROVE  /\ 1 \in DOMAIN ops /\ ops[1].kind \in {"learn_clear", "learn_set"} => ops[1].tracked
         /\ 1 \in DOMAIN ops /\ ops[1].kind = "fwd_clear" /\ ~ops[1].tracked
              => IF Len(ops) = 1 THEN ops[1].mask \cap desFwd = {}
                 ELSE Len(ops) = 2 /\ ops[2] = Op("fwd_set", ops[1].mask, FALSE)
         /\ 1 \in DOMAIN ops /\ ops[1].kind = "fwd_set" /\ ~ops[1].tracked
              => 1 = Len(ops) /\ ops[1].mask \subseteq desFwd
         /\ 2 \in DOMAIN ops /\ ops[2].kind = "fwd_set" /\ ~ops[2].tracked
              => 2 = Len(ops) /\ ops[1] = Op("fwd_clear", ops[2].mask, FALSE)
<1>1. 2 # 1
  OBVIOUS
<1>2. 1 \in DOMAIN ops /\ ops[1].kind \in {"learn_clear", "learn_set"} => ops[1].tracked
  BY Zenon DEF CallShape
<1>3. 1 \in DOMAIN ops /\ ops[1].kind = "fwd_clear" /\ ~ops[1].tracked
        => IF Len(ops) = 1 THEN ops[1].mask \cap desFwd = {}
           ELSE Len(ops) = 2 /\ ops[2] = Op("fwd_set", ops[1].mask, FALSE)
  BY Zenon DEF CallShape
<1>4. 1 \in DOMAIN ops /\ ops[1].kind = "fwd_set" /\ ~ops[1].tracked
        => 1 = Len(ops) /\ ops[1].mask \subseteq desFwd
  BY Zenon DEF CallShape
<1>5. 2 \in DOMAIN ops /\ ops[2].kind = "fwd_set" /\ ~ops[2].tracked
        => 2 = Len(ops) /\ ops[1] = Op("fwd_clear", ops[2].mask, FALSE)
  BY Zenon, <1>1 DEF CallShape
<1> QED  BY Zenon, <1>2, <1>3, <1>4, <1>5

\* Between calls FWD lags behind only if the call that restores a port is next.
LEMMA ShadowPop ==
  ASSUME OpsType, CallShape, ops # <<>>, OpDone, ~Written'
  PROVE  /\ LearnShadow' = desLearn'
         /\ FwdShadow' = desFwd' \/ /\ ops[1] = Op("fwd_clear", ops[1].mask, FALSE) /\ Len(ops) = 2
                                    /\ FwdShadow' = desFwd' \ ops[1].mask
         /\ ops[1].kind = "fwd_clear" /\ ~ops[1].tracked /\ Len(ops) = 2 => FwdShadow' = desFwd' \ ops[1].mask
<1>1. /\ Len(ops) \in Nat /\ Len(ops') = Len(ops) - 1 /\ 1 \in DOMAIN ops
      /\ \A k \in DOMAIN ops' : k + 1 \in DOMAIN ops /\ ops'[k] = ops[k + 1]
      /\ ops' # <<>> => 1 \in DOMAIN ops' /\ Head(ops') = ops'[1]
  BY Zenon, PopFacts
<1>2. LearnShadow' = desLearn'
  BY Zenon DEF LearnShadow
<1>3. ASSUME ops' # <<>>, Head(ops').kind = "fwd_set", ~Head(ops').tracked
      PROVE  ops[1] = Op("fwd_clear", Head(ops').mask, FALSE) /\ Len(ops) = 2
  <2>1. 2 \in DOMAIN ops /\ Head(ops') = ops[2]
    BY <1>1, <1>3
  <2> QED  BY Zenon, <1>3, <2>1, FirstCalls
<1>4. CASE ops' # <<>> /\ Head(ops').kind = "fwd_set" /\ ~Head(ops').tracked
  <2>1. ops[1] = Op("fwd_clear", Head(ops').mask, FALSE) /\ Len(ops) = 2
    BY Zenon, <1>3, <1>4
  <2>2. ops[1].mask = Head(ops').mask
    BY <2>1 DEF Op
  <2>3. FwdShadow' = desFwd' \ Head(ops').mask
    BY Zenon, <1>4 DEF FwdShadow
  <2> QED  BY Zenon, <1>2, <2>1, <2>2, <2>3
<1>5. CASE ~(ops' # <<>> /\ Head(ops').kind = "fwd_set" /\ ~Head(ops').tracked)
  <2>1. FwdShadow' = desFwd'
    BY Zenon, <1>5 DEF FwdShadow
  <2>2. ~(ops[1].kind = "fwd_clear" /\ ~ops[1].tracked /\ Len(ops) = 2)
    <3> SUFFICES ASSUME ops[1].kind = "fwd_clear", ~ops[1].tracked, Len(ops) = 2 PROVE FALSE
      BY Zenon
    <3>1. ops[2] = Op("fwd_set", ops[1].mask, FALSE)
      <4>1. Len(ops) # 1
        OBVIOUS
      <4> QED  BY Zenon, <1>1, <4>1, FirstCalls
    <3>2. Len(ops') = 1 /\ ops' # <<>>
      BY <1>1
    <3>3. Head(ops') = ops[2]
      BY <1>1, <3>2
    <3>4. Head(ops').kind = "fwd_set" /\ ~Head(ops').tracked
      BY <3>1, <3>3 DEF Op
    <3> QED  BY Zenon, <1>5, <3>2, <3>4
  <2> QED  BY Zenon, <1>2, <2>1, <2>2
<1> QED  BY Zenon, <1>4, <1>5

\* A clear returns: the shadow catches up with the register.
LEMMA ClearReturns ==
  ASSUME PortControlType, CallOrder, OpQueue, Started, FwdApplied, LearnApplied, CheckFailed("stp"), ~failed
  PROVE  FwdApplied' /\ LearnApplied'
<1> USE TypeParts, Same
<1>1. /\ pc["stp"] = "check" /\ pc'["stp"] = "run" /\ OpDone /\ fwdReg' = fwdReg /\ learnReg' = learnReg
  BY Zenon, ReturnFacts, Names DEF CheckFailed
<1>2. Written /\ ~Written'
  BY Zenon, <1>1 DEF Written
<1>3. ops # <<>> /\ Head(ops).kind \in ClearKinds
  BY Zenon, <1>1 DEF CallOrder, CalleePcs
<1>4. CallShape /\ Head(ops) = ops[1] /\ 1 \in DOMAIN ops /\ Len(ops) \in Nat /\ Len(ops) >= 1
  BY <1>3, QueueParts, HeadFacts
<1>5. (Awaited("fwd_clear") => Awaited("fwd_clear")') /\ (Awaited("learn_clear") => Awaited("learn_clear")')
  BY Zenon, <1>1, <1>2, <1>3, AwaitedPop
<1>6. LearnApplied'
  <2>1. desLearn' = LearnShadow
    <3>1. CASE Head(ops).kind = "learn_clear"
      <4>1. Head(ops).tracked
        BY Zenon, <1>4, <3>1, FirstCalls
      <4> QED  BY Zenon, <1>1, <1>2, <1>3, <3>1, <4>1, PopShadow DEF LearnShadow
    <3>2. CASE Head(ops).kind = "fwd_clear"
      BY Zenon, <1>1, <3>2, PopShadow DEF LearnShadow
    <3> QED  BY Zenon, <1>3, <3>1, <3>2 DEF ClearKinds
  <2>2. LearnShadow' = desLearn'
    BY Zenon, <1>1, <1>2, <1>3, <1>4, ShadowPop
  <2> QED  BY Zenon, <1>1, <1>5, <2>1, <2>2 DEF LearnApplied
<1>7. FwdApplied'
  <2>1. CASE Head(ops).kind = "learn_clear"
    <3>1. FwdShadow = desFwd /\ desFwd' = desFwd
      BY Zenon, <1>1, <2>1, PopShadow DEF FwdShadow
    <3>2. ops[1] # Op("fwd_clear", ops[1].mask, FALSE)
      BY <1>4, <2>1 DEF Op
    <3>3. FwdShadow' = desFwd'
      BY Zenon, <1>1, <1>2, <1>3, <1>4, <3>2, ShadowPop
    <3> QED  BY Zenon, <1>1, <1>5, <3>1, <3>3 DEF FwdApplied
  <2>2. CASE Head(ops).kind = "fwd_clear" /\ Head(ops).tracked
    <3>1. FwdShadow = desFwd \ Head(ops).mask /\ desFwd' = desFwd \ Head(ops).mask
      BY Zenon, <1>1, <1>2, <1>3, <2>2, PopShadow DEF FwdShadow
    <3>2. ops[1] # Op("fwd_clear", ops[1].mask, FALSE)
      BY <1>4, <2>2 DEF Op
    <3>3. FwdShadow' = desFwd'
      BY Zenon, <1>1, <1>2, <1>3, <1>4, <3>2, ShadowPop
    <3> QED  BY Zenon, <1>1, <1>5, <3>1, <3>3 DEF FwdApplied
  <2>3. CASE Head(ops).kind = "fwd_clear" /\ ~Head(ops).tracked
    <3>1. FwdShadow = desFwd \ ops[1].mask /\ desFwd' = desFwd
      BY Zenon, <1>1, <1>2, <1>3, <1>4, <2>3, PopShadow DEF FwdShadow
    <3>2. CASE Len(ops) = 2
      <4>1. FwdShadow' = desFwd' \ ops[1].mask
        BY Zenon, <1>1, <1>2, <1>3, <1>4, <2>3, <3>2, ShadowPop
      <4> QED  BY Zenon, <1>1, <1>5, <3>1, <4>1 DEF FwdApplied
    <3>3. CASE Len(ops) # 2
      <4>1. ops[1].mask \cap desFwd = {}
        BY Zenon, <1>4, <2>3, <3>3, FirstCalls
      <4>2. FwdShadow' = desFwd'
        BY Zenon, <1>1, <1>2, <1>3, <1>4, <3>3, ShadowPop
      <4>3. desFwd \ ops[1].mask = desFwd
        BY Zenon, <4>1
      <4> QED  BY Zenon, <1>1, <1>5, <3>1, <4>2, <4>3 DEF FwdApplied
    <3> QED  BY Zenon, <3>2, <3>3
  <2> QED  BY Zenon, <1>3, <2>1, <2>2, <2>3 DEF ClearKinds
<1> QED  BY Zenon, <1>6, <1>7

\* A set is written and returns.
LEMMA SetReturns ==
  ASSUME PortControlType, CallOrder, OpQueue, Started, FwdApplied, LearnApplied, StoreSet
  PROVE  FwdApplied' /\ LearnApplied'
<1> USE TypeParts, Same
<1> DEFINE op == Head(ops)
<1>1. /\ pc["stp"] = "store" /\ pc'["stp"] = "run" /\ OpDone
      /\ fwdReg' = IF op.kind = "fwd_set" THEN fwdReg \cup op.mask ELSE fwdReg
      /\ learnReg' = IF op.kind = "learn_set" THEN learnReg \cup op.mask ELSE learnReg
  BY Zenon, GotoStp DEF StoreSet
<1>2. ~Written /\ ~Written'
  BY Zenon, <1>1 DEF Written
<1>3. ops # <<>> /\ op.kind \in SetKinds
  BY Zenon, <1>1 DEF CallOrder
<1>4. CallShape /\ op = ops[1] /\ 1 \in DOMAIN ops /\ Len(ops) \in Nat /\ Len(ops) >= 1 /\ DOMAIN ops = 1..Len(ops)
  BY <1>3, QueueParts, HeadFacts
<1> HIDE DEF op
<1>5. (Awaited("fwd_clear") => Awaited("fwd_clear")') /\ (Awaited("learn_clear") => Awaited("learn_clear")')
  BY Zenon, <1>1, <1>2, <1>3, AwaitedPop DEF op, SetKinds
<1>6. /\ desFwd' = IF op.tracked /\ op.kind = "fwd_set" THEN desFwd \cup op.mask ELSE desFwd
      /\ desLearn' = IF op.tracked /\ op.kind = "learn_set" THEN desLearn \cup op.mask ELSE desLearn
  BY Zenon, <1>1, <1>3, PopShadow DEF op, SetKinds
<1>7. ops[1] # Op("fwd_clear", ops[1].mask, FALSE)
  BY <1>3, <1>4 DEF Op, SetKinds
<1>8. LearnShadow' = desLearn' /\ FwdShadow' = desFwd'
  BY Zenon, <1>1, <1>2, <1>3, <1>4, <1>7, ShadowPop
<1>9. LearnShadow = desLearn
  BY Zenon, <1>2 DEF LearnShadow
<1>10. op.kind = "learn_set" => op.tracked
  BY Zenon, <1>4, FirstCalls
<1>11. LearnApplied'
  BY Zenon, <1>1, <1>5, <1>6, <1>8, <1>9, <1>10 DEF LearnApplied
<1>12. CASE op.kind = "fwd_set" /\ ~op.tracked
  <2>1. Len(ops) = 1 /\ op.mask \subseteq desFwd
    BY Zenon, <1>4, <1>12, FirstCalls
  <2>2. ~Awaited("fwd_clear")
    <3>1. \A k \in DOMAIN ops : ops[k].kind = "fwd_set"
      BY <1>4, <1>12, <2>1
    <3>2. Op("fwd_clear", Phys, TRUE).kind # "fwd_set"
      BY Zenon DEF Op
    <3> QED  BY Zenon, <3>1, <3>2 DEF Awaited
  <2>3. FwdShadow = desFwd \ op.mask
    BY Zenon, <1>3, <1>12 DEF FwdShadow, op
  <2>4. fwdReg' = (desFwd \ op.mask) \cup op.mask
    BY Zenon, <1>1, <1>12, <2>2, <2>3 DEF FwdApplied, op
  <2>5. fwdReg' = desFwd'
    BY Zenon, <1>6, <1>12, <2>1, <2>4
  <2> QED  BY Zenon, <1>8, <1>11, <2>5 DEF FwdApplied
<1>13. CASE ~(op.kind = "fwd_set" /\ ~op.tracked)
  <2>1. FwdShadow = desFwd
    BY Zenon, <1>2, <1>13 DEF FwdShadow, op
  <2>2. FwdApplied'
    BY Zenon, <1>1, <1>5, <1>6, <1>8, <1>13, <2>1 DEF FwdApplied, op
  <2> QED  BY Zenon, <1>11, <2>2
<1> QED  BY Zenon, <1>12, <1>13


\* A clear is written: the register is ahead of the shadow by this call.
LEMMA ClearWritten ==
  ASSUME PortControlType, CallOrder, FwdApplied, LearnApplied, WriteTarget("stp"), UNCHANGED stpVars
  PROVE  FwdApplied' /\ LearnApplied'
<1> USE TypeParts, Same
<1> DEFINE op == Head(ops)
<1>1. /\ pc["stp"] = "write" /\ pc'["stp"] = "delay2" /\ WriteClear(op.kind, op.mask)
      /\ ops' = ops /\ desFwd' = desFwd /\ desLearn' = desLearn
  BY Zenon, GotoStp DEF WriteTarget, Target, AfterWrite
<1>2. ~Written /\ Written'
  BY Zenon, <1>1 DEF Written
<1>3. ops # <<>> /\ op.kind \in ClearKinds
  BY Zenon, <1>1 DEF CallOrder, CalleePcs
<1>4. op = ops[1]
  BY Zenon, <1>3, HeadFacts
<1>5. /\ fwdReg' = IF op.kind = "fwd_clear" THEN fwdReg \ op.mask ELSE fwdReg
      /\ learnReg' = IF op.kind = "learn_clear" THEN learnReg \ op.mask ELSE learnReg
  BY Zenon, <1>1 DEF WriteClear
<1>6. /\ FwdShadow = desFwd /\ FwdShadow' = IF op.kind = "fwd_clear" THEN desFwd \ op.mask ELSE desFwd
      /\ LearnShadow = desLearn
      /\ LearnShadow' = IF op.kind = "learn_clear" THEN desLearn \ op.mask ELSE desLearn
  BY Zenon, <1>1, <1>2, <1>3 DEF FwdShadow, LearnShadow, ClearKinds
<1> HIDE DEF op
<1>7. ASSUME NEW kind, Awaited(kind), ~Awaited(kind)' PROVE op.kind = kind /\ op.mask = Phys
  <2>1. PICK j \in DOMAIN ops : ops[j] = Op(kind, Phys, TRUE)
    BY Zenon, <1>7 DEF Awaited
  <2>2. j = 1
    BY Zenon, <1>1, <1>7, <2>1 DEF Awaited
  <2> QED  BY <1>4, <2>1, <2>2 DEF Op
<1>8. FwdApplied'
  <2>1. CASE Awaited("fwd_clear") /\ ~Awaited("fwd_clear")'
    <3>1. op.kind = "fwd_clear" /\ op.mask = Phys
      BY Zenon, <1>7, <2>1
    <3>2. fwdReg' = {} /\ FwdShadow' = {}
      BY Zenon, <1>5, <1>6, <3>1 DEF RegTypes, ShadowTypes
    <3> QED  BY Zenon, <3>2 DEF FwdApplied
  <2>2. CASE fwdReg = FwdShadow
    BY Zenon, <1>5, <1>6, <2>2 DEF FwdApplied
  <2> QED  BY Zenon, <2>1, <2>2 DEF FwdApplied
<1>9. LearnApplied'
  <2>1. CASE Awaited("learn_clear") /\ ~Awaited("learn_clear")'
    <3>1. op.kind = "learn_clear" /\ op.mask = Phys
      BY Zenon, <1>7, <2>1
    <3>2. learnReg' = {} /\ LearnShadow' = {}
      BY Zenon, <1>5, <1>6, <3>1 DEF RegTypes, ShadowTypes
    <3> QED  BY Zenon, <3>2 DEF LearnApplied
  <2>2. CASE learnReg = LearnShadow
    BY Zenon, <1>5, <1>6, <2>2 DEF LearnApplied
  <2> QED  BY Zenon, <2>1, <2>2 DEF LearnApplied
<1> QED  BY Zenon, <1>8, <1>9

\* With nothing left to call, the registers are what was asked for.
LEMMA NothingLeft ==
  ASSUME FwdApplied, LearnApplied,
         ops = <<>> \/ (DOMAIN ops = {1} /\ Head(ops) = ops[1] /\ ops[1].kind \in Modes)
  PROVE  fwdReg = desFwd /\ learnReg = desLearn
<1>1. \A m \in Modes : m \notin {"fwd_clear", "learn_clear", "fwd_set"}
  BY Zenon, Names DEF ClearKinds, SetKinds
<1>2. ~Awaited("fwd_clear") /\ ~Awaited("learn_clear")
  BY <1>1 DEF Awaited, Op
<1>3. FwdShadow = desFwd /\ LearnShadow = desLearn
  BY Zenon, <1>1 DEF FwdShadow, LearnShadow
<1> QED  BY Zenon, <1>2, <1>3 DEF FwdApplied, LearnApplied

\* The queue is refilled while the registers are what was asked for.
LEMMA RefillApplied ==
  ASSUME fwdReg' = desFwd', learnReg' = desLearn', ~Written',
         ops' = <<>> \/ Head(ops').kind # "fwd_set" \/ Head(ops').tracked
  PROVE  FwdApplied' /\ LearnApplied'
<1>1. FwdShadow' = desFwd' /\ LearnShadow' = desLearn'
  BY Zenon DEF FwdShadow, LearnShadow
<1> QED  BY Zenon, <1>1 DEF FwdApplied, LearnApplied

\* Every step keeps FWD and LEARN what the engine asked for, up to the call
\* in progress.
LEMMA StpAppliedKept ==
  ASSUME PortControlType, CallOrder, OpQueue, StpApplied, [Next]_vars PROVE StpApplied'
<1> USE TypeParts, Same
<1> SUFFICES ASSUME ~failed' PROVE StpApplied'
  BY Zenon, AppliedNext
<1>0. ~failed
  BY Zenon, ControlTyped
<1>1. /\ Started => FwdApplied /\ LearnApplied
      /\ ~Started /\ cfg = "off" => fwdReg = Phys /\ learnReg = Phys
  BY Zenon, <1>0, AppliedParts
<1>2. Started' /\ FwdApplied' /\ LearnApplied' => StpApplied'
  BY Zenon, AppliedNext
<1>3. CASE Idle
  <2>1. CASE WriteTarget("stp")
    <3>1. ~Started => cfg' # "off"
      <4>1. ops # <<>>
        BY Zenon, <2>1 DEF WriteTarget, CallOrder, CalleePcs
      <4> QED  BY Zenon, <1>3, <4>1, QueueParts DEF Starting, Idle
    <3>2. Started => FwdApplied' /\ LearnApplied'
      BY Zenon, <1>1, <1>3, <2>1, ClearWritten DEF Idle
    <3> QED  BY Zenon, <1>3, <3>1, <3>2, AppliedNext DEF Idle
  <2>2. CASE fwdReg' = fwdReg /\ learnReg' = learnReg /\ (Written' <=> Written)
    <3>1. ops' = ops /\ desFwd' = desFwd /\ desLearn' = desLearn /\ cfg' = cfg /\ (Started' <=> Started)
      BY Zenon, <1>3 DEF Idle
    <3>2. (FwdApplied => FwdApplied') /\ (LearnApplied => LearnApplied')
      BY Zenon, <2>2, <3>1 DEF FwdApplied, LearnApplied, Awaited, FwdShadow, LearnShadow
    <3> QED  BY Zenon, <1>1, <2>2, <3>1, <3>2, AppliedNext
  <2> QED  BY Zenon, <1>3, <2>1, <2>2 DEF Idle
<1>4. CASE Returns
  <2>1. ~Started => cfg' # "off"
    BY Zenon, <1>4, QueueParts DEF Starting, Returns
  <2>2. Started => FwdApplied' /\ LearnApplied'
    BY Zenon, <1>1, <1>4, ClearReturns, SetReturns DEF Returns
  <2> QED  BY Zenon, <1>4, <2>1, <2>2, AppliedNext DEF Returns
<1>5. CASE Adopt
  <2>1. /\ Started /\ Started' /\ DOMAIN ops = {1} /\ Head(ops) = ops[1] /\ Head(ops).kind \in Modes
        /\ pc["stp"] = "run" /\ pc' = pc
        /\ fwdReg' = fwdReg /\ learnReg' = learnReg /\ desFwd' = desFwd /\ desLearn' = desLearn
    BY Zenon, <1>5, AdoptAlone DEF Adopt
  <2>2. fwdReg' = desFwd' /\ learnReg' = desLearn' /\ ~Written'
    BY Zenon, <1>1, <2>1, NothingLeft DEF Written
  <2>3. ops' = <<>> \/ Head(ops').kind # "fwd_set"
    <3>1. CASE ops' = <<Op("learn_set", Phys, TRUE), Op("fwd_set", Phys, TRUE)>>
      BY <3>1 DEF Op
    <3>2. CASE ops' = <<Op("latch", Phys, FALSE)>>
      BY <3>2 DEF Op
    <3> QED  BY Zenon, <1>5, <3>1, <3>2 DEF Adopt
  <2> QED  BY Zenon, <1>2, <2>1, <2>2, <2>3, RefillApplied
<1>6. CASE StpIterate
  <2>1. /\ ops = <<>> /\ pc["link"] # "boot" /\ fwdReg' = fwdReg /\ learnReg' = learnReg
        /\ pc["stp"] = "top" => Started /\ (mode = "off" => desFwd = Phys /\ desLearn = Phys)
        /\ pc["stp"] = "first" => ~Started
    BY Zenon, <1>6, EmptyQueue DEF StpIterate
  <2>2. pc'["stp"] \in {"top", "run"} /\ pc'["link"] = pc["link"] /\ pc["stp"] \in {"first", "top"}
    BY Zenon, <1>6, GotoStp DEF StpIterate
  <2>3. Started' /\ ~Written'
    BY Zenon, <2>1, <2>2 DEF Started, Written
  <2>4. CASE mode = "off" /\ cfg = "off" /\ desFwd' = Phys /\ desLearn' = Phys /\ ops' = ops
    <3>1. fwdReg = Phys /\ learnReg = Phys
      BY Zenon, <1>1, <2>1, <2>2, <2>4, NothingLeft
    <3> QED  BY Zenon, <1>2, <2>1, <2>3, <2>4, <3>1, RefillApplied
  <2>5. CASE ops' = ReconfigureOps
    <3>1. /\ 1 \in DOMAIN ops' /\ ops'[1] = Op("fwd_clear", Phys, TRUE)
          /\ 2 \in DOMAIN ops' /\ ops'[2] = Op("learn_clear", Phys, TRUE)
      BY <2>5 DEF ReconfigureOps
    <3>2. Awaited("fwd_clear")' /\ Awaited("learn_clear")'
      BY Zenon, <2>3, <3>1 DEF Awaited
    <3> QED  BY Zenon, <1>2, <2>3, <3>2 DEF FwdApplied, LearnApplied
  <2> QED  BY Zenon, <1>6, <2>4, <2>5 DEF StpIterate
<1>7. ASSUME pc["stp"] = "top", pc'["stp"] = "run", pc'["link"] = pc["link"],
             UNCHANGED <<regVars, desFwd, desLearn>>,
             ops' = <<>> \/ Head(ops').kind # "fwd_set" \/ Head(ops').tracked
      PROVE  StpApplied'
  <2>1. Started /\ ops = <<>> /\ pc["link"] # "boot"
    BY Zenon, <1>7, EmptyQueue
  <2>2. fwdReg = desFwd /\ learnReg = desLearn
    BY Zenon, <1>1, <2>1, NothingLeft
  <2>3. Started' /\ ~Written'
    BY Zenon, <1>7, <2>1 DEF Started, Written
  <2> QED  BY Zenon, <1>2, <1>7, <2>2, <2>3, RefillApplied
<1>8. ASSUME NEW p \in Phys, StpFlush(p) PROVE StpApplied'
  <2>1. Head(ops') = Op("fwd_clear", {p}, FALSE)
    <3>1. CASE ops' = <<Op("fwd_clear", {p}, FALSE), Op("fwd_set", {p}, FALSE)>>
      BY <3>1
    <3>2. CASE ops' = <<Op("fwd_clear", {p}, FALSE)>>
      BY <3>2
    <3>3. ops' = FlushOps(p)
      BY Zenon, <1>8 DEF StpFlush
    <3> QED  BY Zenon, <3>1, <3>2, <3>3, FlushList
  <2>2. Head(ops').kind = "fwd_clear"
    BY <2>1 DEF Op
  <2> QED  BY Zenon, <1>7, <1>8, <2>2, GotoStp DEF StpFlush
<1>9. ASSUME NEW p \in Phys, NEW learn \in BOOLEAN, NEW forward \in BOOLEAN, StpState(p, learn, forward)
      PROVE  StpApplied'
  <2> DEFINE S == {o \in Ops : o.tracked /\ o.mask = {p} /\ o.kind \notin Modes}
  <2>1. ops' \in Seq(S) /\ ops' # <<>>
    BY Zenon, <1>9, CallsTyped DEF StpState
  <2> HIDE DEF S
  <2>2. Head(ops') \in S
    BY <2>1
  <2>3. Head(ops').tracked
    BY Zenon, <2>2 DEF S
  <2> QED  BY Zenon, <1>7, <1>9, <2>3, GotoStp DEF StpState
<1>10. ASSUME NEW m \in Modes, SaveConfig(m) PROVE StpApplied'
  <2>1. Started /\ UNCHANGED <<regVars, pc, stpVars>>
    BY Zenon, <1>10 DEF SaveConfig, Started
  <2>2. Started' /\ (Written' <=> Written)
    BY Zenon, <2>1 DEF Started, Written
  <2>3. (FwdApplied => FwdApplied') /\ (LearnApplied => LearnApplied')
    BY Zenon, <2>1, <2>2 DEF FwdApplied, LearnApplied, Awaited, FwdShadow, LearnShadow
  <2> QED  BY Zenon, <1>1, <1>2, <2>1, <2>2, <2>3
<1> QED  BY Zenon, <1>3, <1>4, <1>5, <1>6, <1>8, <1>9, <1>10, StpCases DEF Refills

(***************************************************************************)
(* The theorems.                                                           *)
(***************************************************************************)
\* Startup's calls are clears and the latch, none tracked.
LEMMA PrepareShape ==
  ASSUME NEW m \in Modes
  PROVE  \A k \in DOMAIN Prepare(m) :
           Prepare(m)[k].kind \in ClearKinds \cup {"latch"} /\ ~Prepare(m)[k].tracked
<1> DEFINE S == {Op("latch", Phys, FALSE), Op("fwd_clear", Phys, FALSE), Op("learn_clear", Phys, FALSE)}
           two == <<Op("fwd_clear", Phys, FALSE), Op("learn_clear", Phys, FALSE)>>
           first == IF StpAbi THEN <<>> ELSE <<Op("latch", Phys, FALSE)>>
<1>1. \A o \in S : o.kind \in ClearKinds \cup {"latch"} /\ ~o.tracked
  BY DEF Op, ClearKinds
<1>2. two \in Seq(S) /\ <<>> \in Seq(S) /\ first \in Seq(S)
  <2>1. /\ Op("latch", Phys, FALSE) \in S /\ Op("fwd_clear", Phys, FALSE) \in S
        /\ Op("learn_clear", Phys, FALSE) \in S
    BY Zenon
  <2> HIDE DEF S
  <2>2. \A a, b \in S : <<a>> \in Seq(S) /\ <<a, b>> \in Seq(S) /\ <<>> \in Seq(S)
    OBVIOUS
  <2> QED  BY Zenon, <2>1, <2>2
<1>3. Prepare(m) = IF m = "off" THEN <<>> ELSE first \o two
  BY Zenon DEF Prepare
<1> HIDE DEF S, two, first
<1>4. first \o two \in Seq(S)
  BY <1>2
<1>5. Prepare(m) \in Seq(S)
  BY Zenon, <1>2, <1>3, <1>4
<1>6. \A k \in DOMAIN Prepare(m) : Prepare(m)[k] \in S
  BY <1>5
<1> QED  BY Zenon, <1>1, <1>6

\* The invariant holds at reset.
LEMMA InitControl == Init => ControlInv
<1> SUFFICES ASSUME Init PROVE ControlInv
  BY Zenon
<1>1. pc["link"] = "boot" /\ pc["stp"] = "run" /\ pc \in [Tasks -> LinkPcs \cup StpPcs]
  BY Zenon, Names DEF Init, LinkPcs, StpPcs
<1>2. PortControlType
  <2>1. RegTypes /\ LinkTypes /\ FabricTypes /\ CtlTypes
    BY Zenon DEF Init, RegTypes, LinkTypes, FabricTypes, CtlTypes
  <2>2. PcTypes
    BY Zenon, <1>1 DEF PcTypes, LinkPcs, StpPcs
  <2>3. ShadowTypes /\ ModeTypes
    BY Zenon, Names DEF Init, ShadowTypes, ModeTypes
  <2>4. OpsType
    BY Zenon, <2>3, CallsTyped DEF Init, OpsType, ModeTypes
  <2> QED  BY Zenon, <2>1, <2>2, <2>3, <2>4, TypeParts
<1>3. inCdc = {} /\ linkDirty = {} /\ fwdDirty = {} /\ flushing = {}
  BY Zenon DEF Init
<1>4. FlushOwed /\ FlushOrder
  BY Zenon, <1>3 DEF FlushOwed, FlushOrder
<1>5. CallOrder
  <2>1. MutexHeld
    BY Zenon, <1>1, Names DEF MutexHeld, Init, CalleePcs
  <2>2. InCall
    BY Zenon, <1>1 DEF InCall, CalleePcs
  <2>3. Failing
    BY Zenon, <1>1, Names DEF Failing, Init
  <2> QED  BY Zenon, <2>1, <2>2, <2>3, OrderParts
<1>6. Flushed
  <2>1. \A r : Crossing(r) = {}
    BY Zenon, <1>3 DEF Crossing
  <2> QED  BY Zenon, <1>3, <2>1 DEF Flushed
<1>7. ~Started
  BY Zenon, <1>1 DEF Started
<1>8. OpQueue
  <2>1. cfg \in Modes /\ ops = Prepare(cfg) /\ mode = "off" /\ ~engine
    BY Zenon DEF Init
  <2>2. cfg = "off" => ops = <<>>
    BY Zenon, <2>1 DEF Prepare
  <2>3. Starting
    BY Zenon, <2>1, <2>2, PrepareShape DEF Starting
  <2> QED  BY Zenon, <1>7, <2>3, QueueParts
<1>9. StpApplied
  BY Zenon, <1>7, AppliedParts DEF Init
<1>10. LinkApplied
  BY Zenon, <1>1 DEF Init, LinkApplied
<1> QED  BY Zenon, <1>2, <1>4, <1>5, <1>6, <1>8, <1>9, <1>10 DEF ControlInv

\* Every step keeps it.
LEMMA ControlKept == ControlInv /\ [Next]_vars => ControlInv'
<1> SUFFICES ASSUME ControlInv, [Next]_vars PROVE ControlInv'
  BY Zenon
<1>1. /\ PortControlType /\ FlushOwed /\ CallOrder /\ FlushOrder /\ Flushed
      /\ OpQueue /\ StpApplied /\ LinkApplied
  BY Zenon DEF ControlInv
<1>2. PortControlType' /\ CallOrder'
  BY Zenon, <1>1, TypesKept, OrderKept
<1>3. FlushOwed' /\ FlushOrder' /\ Flushed'
  BY Zenon, <1>1, OwedKept, FlushOrderKept, FlushedKept
<1>4. OpQueue' /\ StpApplied' /\ LinkApplied'
  BY Zenon, <1>1, QueueKept, StpAppliedKept, LinkAppliedKept
<1> QED  BY Zenon, <1>2, <1>3, <1>4 DEF ControlInv

\* The registers are what the link task and the STP engine last asked for, up
\* to the call in progress, for any number of ports and any interleaving of
\* the tasks, the fabric and the two faults; a flush is started, waited for
\* and ended in that order, and the mutex of pstate.c is held throughout.
THEOREM ControlCorrect == Spec => []ControlInv
BY InitControl, ControlKept, PTL DEF Spec

\* Where a register is opened its port was flushed, and where a clear is
\* written no flush is outstanding.
LEMMA StepsOrdered ==
  ASSUME ControlInv, [Next]_vars PROVE ReopenedClean /\ FlushSerialised
<1> USE Same
<1>0. /\ PortControlType /\ CallOrder /\ FlushOrder /\ (~failed => FwdClean) /\ (healthy => LinkClean)
  BY Zenon, FlushedParts DEF ControlInv
<1> USE TypeParts
<1>1. ASSUME linkReg' \subseteq linkReg, fwdReg' \subseteq fwdReg, inCdc' \subseteq inCdc \/ failed \/ ~healthy
      PROVE  ReopenedClean /\ FlushSerialised
  BY Zenon, <1>1 DEF ReopenedClean, FlushSerialised
<1>2. \A reg, mask : WriteClear(reg, mask) => linkReg' \subseteq linkReg /\ fwdReg' \subseteq fwdReg
  BY Zenon DEF WriteClear
<1>3. CASE UNCHANGED <<regVars, fabricVars>>
  BY Zenon, <1>1, <1>3
<1>4. ASSUME NEW t \in Tasks, WriteTarget(t) PROVE ReopenedClean /\ FlushSerialised
  <2>1. linkReg' \subseteq linkReg /\ fwdReg' \subseteq fwdReg
    BY Zenon, <1>2, <1>4 DEF WriteTarget
  <2>2. ~failed /\ healthy => inCdc = {} /\ flushing = {}
    BY Zenon, <1>0, <1>4 DEF WriteTarget, FlushOrder
  <2> QED  BY Zenon, <2>1, <2>2 DEF ReopenedClean, FlushSerialised
<1>5. ASSUME CloseAll, failed PROVE ReopenedClean /\ FlushSerialised
  BY Zenon, <1>1, <1>2, <1>5 DEF CloseAll
<1>6. ASSUME NEW t \in Tasks, TaskStep(t) PROVE ReopenedClean /\ FlushSerialised
  <2>1. CASE CloseFwd(t)
    BY Zenon, <1>0, <1>5, <2>1 DEF CloseFwd, CallOrder
  <2> QED
    BY Zenon, <1>3, <1>4, <1>6, <2>1 DEF TaskStep, TakeLock, FlushDelay, FlushRead, CheckFailed,
       OnlyPc
<1>7. CASE LinkStep
  <2>1. CASE LinkSet
    <3>1. pc["link"] = "set" /\ fwdReg' = fwdReg /\ inCdc' = inCdc
      BY Zenon, <2>1 DEF LinkSet
    <3>2. healthy => linkDirty = {}
      BY Zenon, <1>0, <3>1 DEF LinkClean
    <3> QED  BY Zenon, <3>1, <3>2 DEF ReopenedClean, FlushSerialised
  <2> QED  BY Zenon, <1>3, <1>6, <1>7, <2>1, Names DEF LinkStep, LinkDelay, LinkSample, LinkDecide,
              OnlyPc
<1>8. CASE StpStep
  <2>1. CASE StoreSet
    <3>1. pc["stp"] = "store" /\ linkReg' = linkReg /\ inCdc' = inCdc
      BY Zenon, <2>1 DEF StoreSet
    <3>2. ~failed => fwdDirty = {}
      BY Zenon, <1>0, <3>1 DEF FwdClean
    <3> QED  BY Zenon, <3>1, <3>2 DEF ReopenedClean, FlushSerialised
  <2>2. CASE StoreLatch
    BY Zenon, <1>0, <1>5, <2>2 DEF StoreLatch, CallOrder
  <2> QED
    BY Zenon, <1>3, <1>6, <1>8, <2>1, <2>2, Names
    DEF StpStep, CallClear, CallSet, CallLatch, Adopt, OpsDone, StpIterate, OnlyPc
<1>9. CASE FabricStep
  BY Zenon, <1>1, <1>9 DEF FabricStep, FlushArrives, FlushEnds
<1>10. CASE NetworkFault
  BY Zenon, <1>1, <1>2, <1>10 DEF NetworkFault
<1>11. ASSUME NEW t, FlushTimeout(t) PROVE ReopenedClean /\ FlushSerialised
  BY Zenon, <1>3, <1>11 DEF FlushTimeout
<1>12. ASSUME NEW p, StpFlush(p) PROVE ReopenedClean /\ FlushSerialised
  BY Zenon, <1>3, <1>12 DEF StpFlush
<1>13. ASSUME NEW p, NEW learn, NEW forward, StpState(p, learn, forward) PROVE ReopenedClean /\ FlushSerialised
  BY Zenon, <1>3, <1>13 DEF StpState
<1>14. CASE DmaFault \/ UNCHANGED vars \/ \E m \in Modes : SaveConfig(m)
  BY Zenon, <1>3, <1>14 DEF DmaFault, SaveConfig, vars
<1> QED  BY Zenon, <1>7, <1>8, <1>9, <1>10, <1>11, <1>12, <1>13, <1>14 DEF Next

\* No step opens a port whose closing has not been flushed, and none writes a
\* clear while a flush is outstanding, unless a flush has timed out or the DMA
\* engine has failed.
THEOREM ReopenedInOrder == Spec => FlushesOrdered
<1>1. ControlInv /\ [Next]_vars => [ReopenedClean /\ FlushSerialised]_vars
  BY Zenon, StepsOrdered
<1> QED  BY <1>1, ControlCorrect, PTL DEF Spec, FlushesOrdered
=============================================================================
