--------------------------- MODULE LinkStoreProofs ---------------------------
(***************************************************************************)
(* Four parts of the firmware, each proved correct for every instance.     *)
(*                                                                         *)
(* A port the link task has put into the fabric is set up as its records   *)
(* say, and nothing is reconfigured under a port in the fabric or before   *)
(* its queue is flushed, for any board: any ports, speeds and rates, and   *)
(* any pattern of MDIO failures.  The task's steps use a sample that may   *)
(* be stale, so the inductive invariant says what holds at each place of   *)
(* a poll.                                                                 *)
(*                                                                         *)
(* The configuration store's type correctness and crash safety, for every  *)
(* set of configurations and every range of generation numbers.  What a    *)
(* restart loads depends on both files, so the inductive invariant says    *)
(* what a save in progress has done to them: the file of the current       *)
(* generation is untouched, and the other one is where pc says it is.      *)
(*                                                                         *)
(* The network policy and the spanning tree task, which follow the links   *)
(* and the configuration.                                                  *)
(***************************************************************************)
EXTENDS LinkPoll, ConfigStore, NetworkPolicy, StpBpdu, Sequences, TLAPS

SfpStates == [request : Rates \union {0, None}, target : Rates, pending : BOOLEAN, probe : 0..ProbeTicks]
Modules == [partner : Partners, rate : Rates, ready : BOOLEAN]
Places == {"idle", "decide", "clear", "wait", "set", "tune"}
PollStates ==
    [at : Places, adv : [Copper -> Abilities], busy : BOOLEAN,
     want : SUBSET Ports, clear : SUBSET Ports, set : SUBSET Ports]

\* A copper port that is in the fabric, or on its way out of it.
Sound(p) ==
    /\ phy[p].adv = applied[p] /\ configured[p] # 0
    /\ p \in macOn => p \in ready /\ speed[p] \in applied[p] /\ configured[p] = speed[p]

\* What holds at each place of a poll, besides the records: the locals of
\* other places are empty, what the fabric has not flushed yet is still
\* enabled or being removed, and until the network task interferes a flush
\* that goes on stops any reconfiguration.
Along ==
    /\ \A p \in (enabled \union poll.clear) \ {Sfp} : Sound(p)
    /\ poll.at = "decide" => macOn = poll.want \ {Sfp}
    /\ poll.at \notin {"clear", "wait"} => poll.clear = {}
    /\ poll.at \in {"clear", "wait"} => sinceClear = 0
    /\ poll.at # "set" => poll.set = {}
    /\ poll.set \subseteq enabled /\ poll.clear \intersect enabled = {}
    /\ ~ctlFailed => owed \subseteq enabled \union poll.clear
    /\ ~fault_reported /\ owed # {} => poll.at = "idle" \/ sinceClear = 0 \/ poll.busy
    /\ ~fault_reported => \A p \in owed \ {Sfp} : configured[p] # 0

LinkIInv == TypeOK /\ RecordsTrue /\ Along

(***************************************************************************)
(* The board.                                                              *)
(***************************************************************************)
\* The steps of the web tasks, the PHYs, the SFP cage and the fabric.
EnvironmentStep ==
    \/ ConfigurePorts \/ ConfigureSfp \/ SfpChange \/ SfpReady \/ Flush \/ Flushed \/ DmaFail \/ ReportFault \/ Settle
    \/ \E p \in AllCopper : PhyUp(p) \/ PhyDown(p)
    \/ UNCHANGED vars

\* A step is one of a poll or the environment's.
LEMMA StepCases ==
  ASSUME [Next]_vars
  PROVE  \/ \E bad \in SUBSET Copper, dt \in 0..1 : Sample(bad, dt)
         \/ Decide \/ ClearWrite \/ ClearDone \/ ClearStuck \/ AddLinks
         \/ \E res \in [Restarted -> Results] : Tune(res)
         \/ EnvironmentStep
<1> QED  BY Zenon DEF Next, EnvironmentStep, AnySample, AnyTune, PollStep

\* The board never changes.
LEMMA BoardFixed ==
  ASSUME [Next]_vars
  PROVE  /\ board' = board /\ Copper' = Copper /\ Ports' = Ports /\ Speeds' = Speeds
         /\ Rates' = Rates /\ Partners' = Partners /\ Abilities' = Abilities
<1>1. ASSUME NEW bad, NEW dt, Sample(bad, dt) PROVE board' = board
  BY Zenon, <1>1 DEF Sample
<1>2. ASSUME NEW res, Tune(res) PROVE board' = board
  BY Zenon, <1>2 DEF Tune
<1>3. EnvironmentStep => board' = board
  BY Zenon DEF EnvironmentStep, ConfigurePorts, ConfigureSfp, SfpChange, SfpReady, Flush, Flushed, DmaFail, ReportFault,
               Settle, PhyUp, PhyDown, vars
<1>4. board' = board
  BY Zenon, <1>1, <1>2, <1>3, StepCases DEF Decide, ClearWrite, ClearDone, ClearStuck, AddLinks
<1> QED  BY Zenon, <1>4 DEF Copper, Ps, Pl, Ports, Speeds, Rates, Partners, Abilities

\* What the board's description promises.
LEMMA BoardShape ==
  ASSUME TypeOK
  PROVE  /\ Speeds \subseteq Nat \ {0} /\ Rates \subseteq Nat \ {0} /\ Sfp \notin Copper
         /\ Top(Speeds) \in Speeds /\ Low(Speeds) \in Speeds /\ Top(Rates) \in Rates
         /\ Ports = Copper \union {Sfp} /\ Masks \subseteq SUBSET Ports
         /\ Abilities \subseteq SUBSET Speeds /\ Speeds \in Abilities
         /\ ProbeTicks \in Nat \ {0}
<1>1. board \in Boards
  BY Zenon DEF TypeOK
<1>2. Copper \subseteq AllCopper
  BY Zenon, <1>1 DEF Copper, Ps, Pl, AllCopper
<1> QED
  BY Zenon, <1>1, <1>2, LinkAssumption DEF Speeds, Rates, Masks, Ports, Copper, Ps, Pl, Abilities

\* The locals of a poll, field by field.
LEMMA PollFields ==
  ASSUME TypeOK
  PROVE  /\ poll \in PollStates /\ poll.at \in Places /\ poll.adv \in [Copper -> Abilities] /\ poll.busy \in BOOLEAN
         /\ poll.want \subseteq Ports /\ poll.clear \subseteq Ports /\ poll.set \subseteq Ports
         /\ poll = [at |-> poll.at, adv |-> poll.adv, busy |-> poll.busy, want |-> poll.want,
                    clear |-> poll.clear, set |-> poll.set]
<1>1. poll \in PollStates
  BY Zenon DEF TypeOK, PollStates, Places
<1> QED  BY Zenon, <1>1 DEF PollStates

(***************************************************************************)
(* What the sample computes.                                               *)
(***************************************************************************)
\* The speed a poll sees is none, or one of the applied abilities of a port
\* that is ready.
LEMMA SeenShape ==
  ASSUME TypeOK, NEW bad, NEW p \in Copper
  PROVE  /\ Seen(bad)[p] \in Speeds \union {0}
         /\ Seen(bad)[p] # 0 => p \in StillReady(bad) /\ Seen(bad)[p] \in applied[p]
<1>1. phy[p].link \in Speeds \union {0} /\ StillReady(bad) \subseteq ready
  BY Zenon DEF TypeOK, StillReady
<1> QED  BY Zenon, <1>1 DEF Seen

\* A usable port needs no reconfiguration, and its PHY reports the speed its
\* MAC is configured for.
LEMMA UsableShape ==
  ASSUME TypeOK, NEW bad, NEW dt
  PROVE  /\ Usable(bad, dt) \subseteq Ports
         /\ \A p \in Usable(bad, dt) \ {Sfp} :
              /\ p \in Copper /\ p \in StillReady(bad)
              /\ Seen(bad)[p] \in applied[p] /\ configured[p] = Seen(bad)[p]
<1>1. Usable(bad, dt) \subseteq Ports
  BY Zenon DEF Usable, Observed, Ports
<1>2. ASSUME NEW p \in Usable(bad, dt) \ {Sfp}
      PROVE  p \in Copper /\ Seen(bad)[p] # 0 /\ p \notin Changed(bad)
  BY Zenon DEF Usable, Observed
<1>3. ASSUME NEW p \in Copper, p \notin Changed(bad) PROVE configured[p] = Seen(bad)[p]
  BY Zenon, <1>3 DEF Changed
<1> QED  BY Zenon, <1>1, <1>2, <1>3, SeenShape

\* The rate request stays well formed.
LEMMA RequestTyped ==
  ASSUME TypeOK, NEW dt \in 0..1
  PROVE  SfpDecide(dt) \in SfpStates
<1>1. /\ sfp = [request |-> sfp.request, target |-> sfp.target, pending |-> sfp.pending, probe |-> sfp.probe]
      /\ sfp.request \in Rates \union {0, None} /\ sfp.target \in Rates /\ sfp.pending \in BOOLEAN
      /\ sfp.probe \in 0..ProbeTicks /\ cfg.sfp \in Rates \union {0} /\ sfp \in SfpStates
  BY Zenon DEF TypeOK, SfpStates
<1>2. \A q \in Rates \union {0, None}, t \in Rates, b \in BOOLEAN, n \in 0..ProbeTicks :
        [request |-> q, target |-> t, pending |-> b, probe |-> n] \in SfpStates
  BY Zenon DEF SfpStates
<1>3. SfpRequested(dt) \in SfpStates
  <2>1. CASE sfp.request # cfg.sfp
    <3>1. SfpRequested(dt) =
            [request |-> cfg.sfp, target |-> IF cfg.sfp \in Rates THEN cfg.sfp ELSE Top(Rates),
             pending |-> TRUE, probe |-> 0]
      BY Zenon, <2>1 DEF SfpRequested
    <3>2. (IF cfg.sfp \in Rates THEN cfg.sfp ELSE Top(Rates)) \in Rates /\ 0 \in 0..ProbeTicks
      BY BoardShape
    <3>3. cfg.sfp \in Rates \union {0, None}
      BY Zenon, <1>1
    <3> QED  BY ZenonT(30), <1>2, <3>1, <3>2, <3>3
  <2>2. CASE sfp.request = cfg.sfp
    <3> DEFINE n == IF sfpUp THEN 0 ELSE Capped(sfp.probe + dt, ProbeTicks)
    <3>1. SfpRequested(dt) = [sfp EXCEPT !.probe = n]
      BY Zenon, <2>2 DEF SfpRequested
    <3>2. n \in 0..ProbeTicks
      BY <1>1, BoardShape DEF Capped
    <3> HIDE DEF n
    <3>3. SfpRequested(dt) =
            [request |-> sfp.request, target |-> sfp.target, pending |-> sfp.pending, probe |-> n]
      BY Zenon, <1>1, <3>1
    <3> QED  BY <1>1, <1>2, <3>2, <3>3
  <2> QED  BY Zenon, <2>1, <2>2
<1>4. CASE SfpDecide(dt) \in {sfp, SfpRequested(dt)}
  BY Zenon, <1>1, <1>3, <1>4
<1>5. CASE SfpDecide(dt) \notin {sfp, SfpRequested(dt)}
  <2> DEFINE s == SfpRequested(dt)
             r == CHOOSE r \in Rates : r # s.target \/ Rates = {s.target}
  <2>1. SfpDecide(dt) = [s EXCEPT !.target = r, !.pending = TRUE]
    BY Zenon, <1>5 DEF SfpDecide
  <2>2. s.target \in Rates /\ s.request \in Rates \union {0, None} /\ s.probe \in 0..ProbeTicks
    BY Zenon, <1>3 DEF SfpStates
  <2>3. r \in Rates
    <3>1. \E q \in Rates : q # s.target \/ Rates = {s.target}
      BY Zenon, <2>2
    <3> QED  BY Zenon, <3>1
  <2>4. s = [request |-> s.request, target |-> s.target, pending |-> s.pending, probe |-> s.probe]
    BY Zenon, <1>3 DEF SfpStates
  <2> HIDE DEF s, r
  <2>5. SfpDecide(dt) = [request |-> s.request, target |-> r, pending |-> TRUE, probe |-> s.probe]
    BY Zenon, <2>1, <2>4
  <2> QED  BY Zenon, <1>2, <2>2, <2>3, <2>5
<1> QED  BY Zenon, <1>4, <1>5

(***************************************************************************)
(* The types.                                                              *)
(***************************************************************************)
\* What the steps below leave alone of the board's description.
SameBoard ==
    /\ board' = board /\ Copper' = Copper /\ Ports' = Ports /\ Speeds' = Speeds
    /\ Rates' = Rates /\ Partners' = Partners /\ Abilities' = Abilities

\* The locals a sample leaves.
LEMMA SampleLocals ==
  ASSUME TypeOK, NEW bad, NEW dt, Sample(bad, dt)
  PROVE  /\ poll.at = "idle" /\ poll' \in PollStates
         /\ poll'.at = "decide" /\ poll'.clear = {} /\ poll'.set = {} /\ poll'.want = Usable(bad, dt)
         /\ poll'.busy \/ ~Busy \/ fault_reported
<1>1. PICK busy \in {Busy} \union (IF fault_reported THEN {FALSE} ELSE {}) :
        poll' = [Idle EXCEPT !.at = "decide", !.adv = cfg.adv, !.busy = busy, !.want = Usable(bad, dt)]
  BY Zenon DEF Sample
<1>2. poll' = [at |-> "decide", adv |-> cfg.adv, busy |-> busy, want |-> Usable(bad, dt), clear |-> {}, set |-> {}]
  BY Zenon, <1>1 DEF Idle
<1>3. busy \in BOOLEAN /\ (busy \/ ~Busy \/ fault_reported)
  BY Zenon, <1>1 DEF Busy, TypeOK
<1>4. cfg.adv \in [Copper -> Abilities] /\ Usable(bad, dt) \subseteq Ports
  BY Zenon, UsableShape DEF TypeOK
<1>5. poll' \in PollStates
  BY Zenon, <1>2, <1>3, <1>4 DEF PollStates, Places
<1>6. /\ poll'.at = "decide" /\ poll'.clear = {} /\ poll'.set = {} /\ poll'.want = Usable(bad, dt)
      /\ poll'.busy = busy
  BY Zenon, <1>2
<1> QED  BY Zenon, <1>3, <1>5, <1>6 DEF Sample

\* The modes a sample leaves: a PL MAC is written to what is configured.
LEMMA SampleModes ==
  ASSUME TypeOK, NEW bad, NEW dt, Sample(bad, dt)
  PROVE  /\ mac' \in [Copper -> Speeds]
         /\ \A p \in Copper : mac'[p] = mac[p] \/ mac'[p] = MacMode(p, configured[p])
<1>1. mac' = [p \in Copper |-> IF p \in Pl THEN MacMode(p, configured[p]) ELSE mac[p]]
  BY Zenon DEF Sample
<1>2. \A p \in Copper : mac[p] \in Speeds /\ configured[p] \in Speeds \union {0}
  BY Zenon DEF TypeOK
<1>3. \A p \in Copper : MacMode(p, configured[p]) \in Speeds
  BY Zenon, <1>2, BoardShape DEF MacMode
<1> QED  BY Zenon, <1>1, <1>2, <1>3

\* A sample keeps the types.
LEMMA SampleTyped ==
  ASSUME TypeOK, SameBoard, NEW bad, NEW dt \in 0..1, Sample(bad, dt)
  PROVE  TypeOK'
<1>1. ready' \subseteq Copper /\ macOn' \subseteq Copper
  BY Zenon, UsableShape DEF Sample, StillReady, TypeOK
<1>2. speed' \in [Copper -> Speeds \union {0}]
  <2>1. speed' = Seen(bad)
    BY Zenon DEF Sample
  <2> QED  BY Zenon, <2>1, SeenShape DEF Seen
<1>3. sfp' \in SfpStates
  BY Zenon, RequestTyped DEF Sample
<1>4. sinceClear' \in 0..1
  <2>1. sinceClear' = Capped(sinceClear + dt, 1) /\ sinceClear \in 0..1
    BY Zenon DEF Sample, TypeOK
  <2> QED  BY <2>1 DEF Capped
<1>5. poll' \in PollStates /\ mac' \in [Copper -> Speeds]
  BY Zenon, SampleLocals, SampleModes
<1>6. UNCHANGED <<board, cfg, phy, module, fabric, applied, configured, enabled, faults, settled>>
  BY Zenon DEF Sample
<1> QED
  BY Zenon, <1>1, <1>2, <1>3, <1>4, <1>5, <1>6
  DEF TypeOK, SameBoard, SfpStates, PollStates, Places, fabric, faults

\* The locals link_update leaves.
LEMMA DecideLocals ==
  ASSUME TypeOK, Decide
  PROVE  /\ poll.at = "decide" /\ poll' \in PollStates /\ poll'.busy = poll.busy
         /\ poll'.clear = Cleared /\ poll'.set = Added
         /\ Cleared # {} => poll'.at = "clear" /\ Added = {} /\ sinceClear' = 0
         /\ Cleared = {} => poll'.at \in {"set", "tune"} /\ sinceClear' = sinceClear
         /\ poll'.at # "set" => Added = {}
<1> DEFINE at == IF Cleared # {} THEN "clear" ELSE IF Added # {} THEN "set" ELSE "tune"
<1>1. poll' = [poll EXCEPT !.at = at, !.want = {}, !.clear = Cleared, !.set = Added]
  BY Zenon DEF Decide
<1> HIDE DEF at
<1>2. poll' = [at |-> at, adv |-> poll.adv, busy |-> poll.busy, want |-> {}, clear |-> Cleared, set |-> Added]
  <2> DEFINE q == poll
  <2>1. q = [at |-> q.at, adv |-> q.adv, busy |-> q.busy, want |-> q.want, clear |-> q.clear, set |-> q.set]
    BY Zenon, PollFields
  <2>2. poll' = [q EXCEPT !.at = at, !.want = {}, !.clear = Cleared, !.set = Added]
    BY Zenon, <1>1
  <2> HIDE DEF q
  <2>3. poll' = [at |-> at, adv |-> q.adv, busy |-> q.busy, want |-> {}, clear |-> Cleared, set |-> Added]
    BY Zenon, <2>1, <2>2
  <2> QED  BY Zenon, <2>3 DEF q
<1>3. Cleared \subseteq Ports /\ Added \subseteq Ports
  BY Zenon, PollFields DEF Cleared, Added, Desired, TypeOK
<1>4. at \in Places
  BY Zenon DEF at, Places
<1>5. poll' \in PollStates
  BY Zenon, <1>2, <1>3, <1>4, PollFields DEF PollStates
<1>6. poll'.at = at /\ poll'.busy = poll.busy /\ poll'.clear = Cleared /\ poll'.set = Added
  BY Zenon, <1>2
<1>7. Cleared # {} => Added = {}
  BY DEF Added, Age
<1>8. sinceClear' = Age
  BY Zenon DEF Decide
<1>9. Added # {} => Cleared # {} \/ at = "set"
  BY Zenon DEF at
<1> QED  BY Zenon, <1>5, <1>6, <1>7, <1>8, <1>9 DEF Decide, Age, at

\* link_update keeps the types.
LEMMA DecideTyped ==
  ASSUME TypeOK, SameBoard, Decide PROVE TypeOK'
<1>1. enabled' \subseteq Ports
  BY Zenon, PollFields DEF Decide, Desired, Added, TypeOK
<1>2. sinceClear' \in 0..1
  <2>1. sinceClear' = Age /\ sinceClear \in 0..1
    BY Zenon DEF Decide, TypeOK
  <2> QED  BY <2>1 DEF Age
<1>3. poll' \in PollStates
  BY Zenon, DecideLocals
<1>4. UNCHANGED <<board, cfg, phy, module, macs, fabric, records, sfp, faults, settled>>
  BY Zenon DEF Decide
<1> QED
  BY Zenon, <1>1, <1>2, <1>3, <1>4 DEF TypeOK, SameBoard, PollStates, Places, fabric, faults, macs, records

\* The writes of link_update and their waits.
LinkWrites == ClearWrite \/ ClearDone \/ ClearStuck \/ AddLinks

\* The locals after a write.
LEMMA WriteLocals ==
  ASSUME TypeOK, LinkWrites
  PROVE  /\ poll' \in PollStates /\ poll'.busy = poll.busy
         /\ ClearWrite => poll'.at = "wait" /\ poll'.clear = poll.clear /\ poll'.set = poll.set
         /\ ClearDone \/ ClearStuck => poll'.at = "tune" /\ poll'.clear = {} /\ poll'.set = poll.set
         /\ AddLinks => poll'.at = "tune" /\ poll'.clear = poll.clear /\ poll'.set = {}
<1> DEFINE q == poll
<1>1. /\ q = [at |-> q.at, adv |-> q.adv, busy |-> q.busy, want |-> q.want, clear |-> q.clear, set |-> q.set]
      /\ q.adv \in [Copper -> Abilities] /\ q.busy \in BOOLEAN
      /\ q.want \subseteq Ports /\ q.clear \subseteq Ports /\ q.set \subseteq Ports
  BY Zenon, PollFields
<1>2. /\ ClearWrite => poll' = [q EXCEPT !.at = "wait"]
      /\ ClearDone \/ ClearStuck => poll' = [q EXCEPT !.at = "tune", !.clear = {}]
      /\ AddLinks => poll' = [q EXCEPT !.at = "tune", !.set = {}]
  BY Zenon DEF ClearWrite, ClearDone, ClearStuck, AddLinks
<1> HIDE DEF q
<1>3. ClearWrite =>
        poll' = [at |-> "wait", adv |-> q.adv, busy |-> q.busy, want |-> q.want, clear |-> q.clear, set |-> q.set]
  BY Zenon, <1>1, <1>2
<1>c. ClearDone \/ ClearStuck =>
        poll' = [at |-> "tune", adv |-> q.adv, busy |-> q.busy, want |-> q.want, clear |-> {}, set |-> q.set]
  BY Zenon, <1>1, <1>2
<1>a. AddLinks =>
        poll' = [at |-> "tune", adv |-> q.adv, busy |-> q.busy, want |-> q.want, clear |-> q.clear, set |-> {}]
  BY Zenon, <1>1, <1>2
<1>4. ASSUME ClearWrite
      PROVE  /\ poll' \in PollStates /\ poll'.busy = q.busy
             /\ poll'.at = "wait" /\ poll'.clear = q.clear /\ poll'.set = q.set
  <2>1. poll' = [at |-> "wait", adv |-> q.adv, busy |-> q.busy, want |-> q.want, clear |-> q.clear, set |-> q.set]
    BY Zenon, <1>3, <1>4
  <2>2. poll' \in PollStates
    BY Zenon, <1>1, <2>1 DEF PollStates, Places
  <2> QED  BY Zenon, <2>1, <2>2
<1>5. ASSUME ClearDone \/ ClearStuck
      PROVE  /\ poll' \in PollStates /\ poll'.busy = q.busy
             /\ poll'.at = "tune" /\ poll'.clear = {} /\ poll'.set = q.set
  <2>1. poll' = [at |-> "tune", adv |-> q.adv, busy |-> q.busy, want |-> q.want, clear |-> {}, set |-> q.set]
    BY Zenon, <1>c, <1>5
  <2>2. poll' \in PollStates
    BY Zenon, <1>1, <2>1 DEF PollStates, Places
  <2> QED  BY Zenon, <2>1, <2>2
<1>6. ASSUME AddLinks
      PROVE  /\ poll' \in PollStates /\ poll'.busy = q.busy
             /\ poll'.at = "tune" /\ poll'.clear = q.clear /\ poll'.set = {}
  <2>1. poll' = [at |-> "tune", adv |-> q.adv, busy |-> q.busy, want |-> q.want, clear |-> q.clear, set |-> {}]
    BY Zenon, <1>a, <1>6
  <2>2. poll' \in PollStates
    BY Zenon, <1>1, <2>1 DEF PollStates, Places
  <2> QED  BY Zenon, <2>1, <2>2
<1>7. poll' \in PollStates /\ poll'.busy = q.busy
  BY Zenon, <1>4, <1>5, <1>6 DEF LinkWrites
<1> QED  BY Zenon, <1>4, <1>5, <1>6, <1>7 DEF q

\* So do its writes.
LEMMA WriteTyped ==
  ASSUME TypeOK, SameBoard, LinkWrites PROVE TypeOK'
<1>1. poll' \in PollStates
  BY Zenon, WriteLocals
<1>2. /\ UNCHANGED <<board, cfg, phy, module, macs, records, enabled, sinceClear, sfp, settled>>
      /\ UNCHANGED <<dmaOk, fault_reported>>
  BY Zenon DEF LinkWrites, ClearWrite, ClearDone, ClearStuck, AddLinks, faults
<1>3. hwLink' \subseteq Ports /\ owed' \subseteq Ports
  <2>1. hwLink \subseteq Ports /\ owed \subseteq Ports /\ poll.set \subseteq Ports
    BY Zenon, PollFields DEF TypeOK
  <2>2. /\ hwLink' = hwLink \/ hwLink' = hwLink \ poll.clear \/ hwLink' = hwLink \union poll.set
        /\ owed' = owed \/ owed' = hwLink \intersect poll.clear
    BY Zenon DEF LinkWrites, ClearWrite, ClearDone, ClearStuck, AddLinks
  <2> QED  BY Zenon, <2>1, <2>2
<1>4. flushing' \in BOOLEAN /\ ctlFailed' \in BOOLEAN
  BY Zenon DEF LinkWrites, ClearWrite, ClearDone, ClearStuck, AddLinks, faults, TypeOK
<1> QED
  BY Zenon, <1>1, <1>2, <1>3, <1>4 DEF TypeOK, SameBoard, PollStates, Places, macs, records

\* What a restarted PHY holds.
LEMMA ProgrammedShape ==
  ASSUME TypeOK, NEW p \in Copper, NEW r \in Results
  PROVE  /\ Programmed(p, r) \in [link : Speeds \union {0}, adv : Abilities]
         /\ r = "ok" => Programmed(p, r).adv = poll.adv[p]
<1>1. poll.adv[p] \in Abilities
  BY Zenon, PollFields
<1>2. /\ phy[p] \in [link : Speeds \union {0}, adv : Abilities]
      /\ phy[p] = [link |-> phy[p].link, adv |-> phy[p].adv] /\ phy[p].link \in Speeds \union {0}
  BY Zenon DEF TypeOK
<1>3. CASE r \in {"ok", "unsure"}
  BY Zenon, <1>1, <1>3 DEF Programmed
<1>4. CASE r = "after"
  <2>1. Programmed(p, r) = [phy[p] EXCEPT !.adv = poll.adv[p]]
    BY Zenon, <1>4 DEF Programmed
  <2>2. Programmed(p, r) = [link |-> phy[p].link, adv |-> poll.adv[p]]
    BY Zenon, <1>2, <2>1
  <2> QED  BY <1>1, <1>2, <1>4, <2>2
<1>5. CASE r = "before"
  <2>1. Programmed(p, r) = phy[p]
    BY Zenon, <1>5 DEF Programmed
  <2> QED  BY Zenon, <1>2, <1>5, <2>1
<1> QED  BY Zenon, <1>3, <1>4, <1>5 DEF Results

\* Only ports that are out of the fabric are restarted or retuned, not both,
\* and those whose initialisation succeeded are among the restarted.
LEMMA TuneSets ==
  ASSUME NEW res \in [Restarted -> Results]
  PROVE  /\ Restarted \subseteq Copper \ enabled /\ Retuned \subseteq Copper \ enabled
         /\ Restarted \intersect Retuned = {} /\ InitOk(res) \subseteq Restarted
         /\ Restarted \union Retuned # {} => Quiet
<1> QED  BY Zenon DEF Restarted, Retuned, InitOk

\* What reconfiguration makes of each copper port.
LEMMA TunePorts ==
  ASSUME NEW res, Tune(res)
  PROVE  /\ \A f \in {applied', configured', speed', mac', phy'} : f = [p \in Copper |-> f[p]]
         /\ \A p \in Copper :
              /\ applied'[p] = IF p \in InitOk(res) THEN poll.adv[p] ELSE applied[p]
              /\ configured'[p] = IF p \in Restarted THEN 0 ELSE IF p \in Retuned THEN speed[p] ELSE configured[p]
              /\ speed'[p] = IF p \in Restarted THEN 0 ELSE speed[p]
              /\ mac'[p] = IF p \in Retuned THEN MacMode(p, speed[p]) ELSE mac[p]
              /\ phy'[p] = IF p \in Restarted THEN Programmed(p, res[p]) ELSE phy[p]
<1>1. applied' = [p \in Copper |-> applied'[p]] /\ configured' = [p \in Copper |-> configured'[p]]
  BY Zenon DEF Tune
<1>2. speed' = [p \in Copper |-> speed'[p]] /\ mac' = [p \in Copper |-> mac'[p]] /\ phy' = [p \in Copper |-> phy'[p]]
  BY Zenon DEF Tune
<1>3. ASSUME NEW p \in Copper PROVE applied'[p] = IF p \in InitOk(res) THEN poll.adv[p] ELSE applied[p]
  BY Zenon DEF Tune
<1>4. ASSUME NEW p \in Copper
      PROVE  configured'[p] = IF p \in Restarted THEN 0 ELSE IF p \in Retuned THEN speed[p] ELSE configured[p]
  BY Zenon DEF Tune
<1>5. ASSUME NEW p \in Copper PROVE speed'[p] = IF p \in Restarted THEN 0 ELSE speed[p]
  BY Zenon DEF Tune
<1>6. ASSUME NEW p \in Copper PROVE mac'[p] = IF p \in Retuned THEN MacMode(p, speed[p]) ELSE mac[p]
  BY Zenon DEF Tune
<1>7. ASSUME NEW p \in Copper PROVE phy'[p] = IF p \in Restarted THEN Programmed(p, res[p]) ELSE phy[p]
  BY Zenon DEF Tune
<1> QED  BY <1>1, <1>2, <1>3, <1>4, <1>5, <1>6, <1>7, Zenon

\* The rest of what it assigns.
LEMMA TuneAssigns ==
  ASSUME NEW res, Tune(res)
  PROVE  /\ poll.at = "tune" /\ ready' = (ready \ Restarted) \union InitOk(res)
         /\ sfp' = IF Switches THEN [sfp EXCEPT !.pending = FALSE, !.probe = 0] ELSE sfp
         /\ module' = IF Switches THEN [module EXCEPT !.rate = sfp.target, !.ready = FALSE] ELSE module
         /\ poll' = Idle
         /\ UNCHANGED <<board, cfg, macOn, fabric, enabled, sinceClear, faults, settled>>
<1> QED  BY Zenon DEF Tune

\* The locals between two polls.
LEMMA IdleShape ==
  ASSUME TypeOK
  PROVE  Idle \in PollStates /\ Idle.at = "idle" /\ Idle.clear = {} /\ Idle.set = {} /\ Idle.want = {}
<1>1. [p \in Copper |-> Speeds] \in [Copper -> Abilities]
  BY Zenon, BoardShape
<1>2. Idle \in PollStates
  BY Zenon, <1>1 DEF Idle, PollStates, Places
<1> QED  BY Zenon, <1>2 DEF Idle

\* Reconfiguration keeps the types.
LEMMA TuneTyped ==
  ASSUME TypeOK, SameBoard, NEW res \in [Restarted -> Results], Tune(res)
  PROVE  TypeOK'
<1>1. /\ phy \in [Copper -> [link : Speeds \union {0}, adv : Abilities]]
      /\ module \in Modules /\ mac \in [Copper -> Speeds] /\ ready \subseteq Copper
      /\ applied \in [Copper -> SUBSET Speeds] /\ speed \in [Copper -> Speeds \union {0}]
      /\ configured \in [Copper -> Speeds \union {0}] /\ sfp \in SfpStates
  BY Zenon DEF TypeOK, Modules, SfpStates
<1>2. Restarted \subseteq Copper /\ InitOk(res) \subseteq Copper
  BY Zenon, TuneSets
<1>3. \A f \in {applied', configured', speed', mac', phy'} : f = [p \in Copper |-> f[p]]
  BY TunePorts, Zenon
<1>4. phy' \in [Copper -> [link : Speeds \union {0}, adv : Abilities]]
  <2>1. ASSUME NEW p \in Copper PROVE phy'[p] \in [link : Speeds \union {0}, adv : Abilities]
    <3>1. phy'[p] = IF p \in Restarted THEN Programmed(p, res[p]) ELSE phy[p]
      BY TunePorts, Zenon
    <3>2. CASE p \in Restarted
      <4>1. res[p] \in Results
        BY Zenon, <3>2
      <4> QED  BY Zenon, <3>1, <3>2, <4>1, ProgrammedShape
    <3> QED  BY Zenon, <1>1, <3>1, <3>2
  <2> QED  BY Zenon, <1>3, <2>1
<1>5. module' \in Modules /\ sfp' \in SfpStates
  <2> DEFINE s == sfp
             m == module
  <2>1. /\ s = [request |-> s.request, target |-> s.target, pending |-> s.pending, probe |-> s.probe]
        /\ s.request \in Rates \union {0, None} /\ s.target \in Rates
        /\ m = [partner |-> m.partner, rate |-> m.rate, ready |-> m.ready] /\ m.partner \in Partners
    BY Zenon, <1>1 DEF SfpStates, Modules
  <2>2. /\ sfp' = IF Switches THEN [s EXCEPT !.pending = FALSE, !.probe = 0] ELSE s
        /\ module' = IF Switches THEN [m EXCEPT !.rate = s.target, !.ready = FALSE] ELSE m
        /\ s \in SfpStates /\ m \in Modules
    BY <1>1, TuneAssigns, Zenon
  <2> HIDE DEF s, m
  <2>3. CASE Switches
    <3>1. /\ sfp' = [request |-> s.request, target |-> s.target, pending |-> FALSE, probe |-> 0]
          /\ module' = [partner |-> m.partner, rate |-> s.target, ready |-> FALSE]
      BY Zenon, <2>1, <2>2, <2>3
    <3>2. 0 \in 0..ProbeTicks
      BY BoardShape
    <3> QED  BY Zenon, <2>1, <3>1, <3>2 DEF SfpStates, Modules
  <2>4. CASE ~Switches
    BY Zenon, <2>2, <2>4
  <2> QED  BY Zenon, <2>3, <2>4
<1>6. ready' \subseteq Copper
  <2>1. ready' = (ready \ Restarted) \union InitOk(res)
    BY TuneAssigns, Zenon
  <2> QED  BY Zenon, <1>1, <1>2, <2>1
<1>7. mac' \in [Copper -> Speeds]
  <2>1. ASSUME NEW p \in Copper PROVE mac'[p] \in Speeds
    <3>1. mac'[p] = IF p \in Retuned THEN MacMode(p, speed[p]) ELSE mac[p]
      BY TunePorts, Zenon
    <3>2. MacMode(p, speed[p]) \in Speeds
      BY Zenon, <1>1, BoardShape DEF MacMode
    <3> QED  BY Zenon, <1>1, <3>1, <3>2
  <2> QED  BY Zenon, <1>3, <2>1
<1>8. applied' \in [Copper -> SUBSET Speeds]
  <2>1. ASSUME NEW p \in Copper PROVE applied'[p] \in SUBSET Speeds
    <3>1. applied'[p] = IF p \in InitOk(res) THEN poll.adv[p] ELSE applied[p]
      BY TunePorts, Zenon
    <3>2. poll.adv[p] \in Abilities /\ Abilities \subseteq SUBSET Speeds
      BY Zenon, PollFields, BoardShape
    <3> QED  BY Zenon, <1>1, <3>1, <3>2
  <2> QED  BY Zenon, <1>3, <2>1
<1>9. speed' \in [Copper -> Speeds \union {0}] /\ configured' \in [Copper -> Speeds \union {0}]
  <2>1. ASSUME NEW p \in Copper PROVE speed'[p] \in Speeds \union {0} /\ configured'[p] \in Speeds \union {0}
    <3>1. /\ speed'[p] = IF p \in Restarted THEN 0 ELSE speed[p]
          /\ configured'[p] = IF p \in Restarted THEN 0 ELSE IF p \in Retuned THEN speed[p] ELSE configured[p]
      BY TunePorts, Zenon
    <3>2. speed[p] \in Speeds \union {0} /\ configured[p] \in Speeds \union {0}
      BY Zenon, <1>1
    <3> QED  BY Zenon, <3>1, <3>2
  <2> QED  BY Zenon, <1>3, <2>1
<1>10. poll' \in PollStates
  BY Zenon, TuneAssigns, IdleShape
<1>11. UNCHANGED <<board, cfg, macOn, fabric, enabled, sinceClear, faults, settled>>
  BY Zenon, TuneAssigns
<1> QED
  BY Zenon, <1>4, <1>5, <1>6, <1>7, <1>8, <1>9, <1>10, <1>11
  DEF TypeOK, SameBoard, Modules, SfpStates, PollStates, Places, fabric, faults

\* The environment changes no MAC and no record, and of a PHY only its link.
LEMMA EnvironmentQuiet ==
  ASSUME TypeOK, EnvironmentStep
  PROVE  /\ UNCHANGED <<board, macs, task, ctlFailed>>
         /\ module'.rate = module.rate
         /\ phy' = [p \in Copper |-> [link |-> phy'[p].link, adv |-> phy[p].adv]]
         /\ \A p \in Copper : phy'[p].link \in Speeds \union {0} /\ phy'[p].adv = phy[p].adv
<1>1. UNCHANGED <<board, macs, task, ctlFailed>>
  BY Zenon DEF EnvironmentStep, ConfigurePorts, ConfigureSfp, SfpChange, SfpReady, Flush, Flushed, DmaFail, ReportFault, Settle, PhyUp,
               PhyDown, vars, faults
<1>2. module = [partner |-> module.partner, rate |-> module.rate, ready |-> module.ready]
  BY Zenon DEF TypeOK
<1>3. module'.rate = module.rate
  BY Zenon, <1>2 DEF EnvironmentStep, ConfigurePorts, ConfigureSfp, SfpChange, SfpReady, Flush, Flushed, DmaFail, ReportFault, Settle,
              PhyUp, PhyDown, vars
<1>4. phy \in [Copper -> [link : Speeds \union {0}, adv : Abilities]]
  BY Zenon DEF TypeOK
<1>5. ASSUME NEW p \in Copper, NEW s \in Speeds \union {0}, phy' = [phy EXCEPT ![p].link = s]
      PROVE  /\ phy' = [q \in Copper |-> [link |-> phy'[q].link, adv |-> phy[q].adv]]
             /\ \A q \in Copper : phy'[q].link \in Speeds \union {0} /\ phy'[q].adv = phy[q].adv
  <2>1. phy' = [q \in Copper |-> IF q = p THEN [phy[p] EXCEPT !.link = s] ELSE phy[q]]
    BY Zenon, <1>4, <1>5
  <2>2. \A q \in Copper : phy[q] = [link |-> phy[q].link, adv |-> phy[q].adv] /\ phy[q].link \in Speeds \union {0}
    BY Zenon, <1>4
  <2>3. [phy[p] EXCEPT !.link = s] = [link |-> s, adv |-> phy[p].adv]
    <3> DEFINE e == phy[p]
    <3>1. e = [link |-> e.link, adv |-> e.adv]
      BY Zenon, <2>2
    <3> HIDE DEF e
    <3>2. [e EXCEPT !.link = s] = [link |-> s, adv |-> e.adv]
      BY <3>1
    <3> QED  BY Zenon, <3>2 DEF e
  <2>4. ASSUME NEW q \in Copper
        PROVE  /\ phy'[q] = [link |-> phy'[q].link, adv |-> phy[q].adv]
               /\ phy'[q].link \in Speeds \union {0} /\ phy'[q].adv = phy[q].adv
    <3>1. phy'[q] = [link |-> IF q = p THEN s ELSE phy[q].link, adv |-> phy[q].adv]
      BY Zenon, <2>1, <2>2, <2>3
    <3> QED  BY <2>2, <3>1
  <2>5. phy' = [q \in Copper |-> phy'[q]]
    BY Zenon, <2>1
  <2> QED  BY Zenon, <2>4, <2>5
<1>6. ASSUME UNCHANGED phy
      PROVE  /\ phy' = [q \in Copper |-> [link |-> phy'[q].link, adv |-> phy[q].adv]]
             /\ \A q \in Copper : phy'[q].link \in Speeds \union {0} /\ phy'[q].adv = phy[q].adv
  BY Zenon, <1>4, <1>6
<1>7. ASSUME NEW p, PhyUp(p) \/ PhyDown(p)
      PROVE  p \in Copper /\ \E s \in Speeds \union {0} : phy' = [phy EXCEPT ![p].link = s]
  <2>1. p \in Copper
    BY Zenon, <1>7 DEF PhyUp, PhyDown
  <2>2. phy[p].adv \subseteq Speeds
    <3>1. phy[p].adv \in Abilities
      BY Zenon, <1>4, <2>1
    <3> QED  BY Zenon, <3>1, BoardShape
  <2> QED  BY Zenon, <1>7, <2>1, <2>2 DEF PhyUp, PhyDown
<1>8. UNCHANGED phy \/ \E p \in AllCopper : PhyUp(p) \/ PhyDown(p)
  BY Zenon DEF EnvironmentStep, ConfigurePorts, ConfigureSfp, SfpChange, SfpReady, Flush, Flushed, DmaFail, ReportFault, Settle, vars
<1> QED  BY Zenon, <1>1, <1>3, <1>5, <1>6, <1>7, <1>8

\* It leaves the LINK mask alone and ends flushes, but for the LINK_CLR of
\* the network task.
LEMMA EnvironmentMasks ==
  ASSUME EnvironmentStep
  PROVE  \/ UNCHANGED <<hwLink, fault_reported>> /\ owed' \subseteq owed
         \/ fault_reported' = TRUE /\ hwLink' = {} /\ owed' = owed \union hwLink
<1>1. CASE ReportFault
  BY Zenon, <1>1 DEF ReportFault
<1>2. CASE Flushed
  BY Zenon, <1>2 DEF Flushed, faults
<1>3. CASE EnvironmentStep /\ ~ReportFault /\ ~Flushed
  BY Zenon, <1>3 DEF EnvironmentStep, ConfigurePorts, ConfigureSfp, SfpChange, SfpReady, Flush, DmaFail, Settle,
                     PhyUp, PhyDown, vars, fabric, faults
<1> QED  BY Zenon, <1>1, <1>2, <1>3

\* The environment keeps the types.
LEMMA EnvironmentTyped ==
  ASSUME TypeOK, SameBoard, EnvironmentStep PROVE TypeOK'
<1>1. phy' \in [Copper -> [link : Speeds \union {0}, adv : Abilities]]
  <2>1. \A p \in Copper : phy[p].adv \in Abilities
    BY Zenon DEF TypeOK
  <2> QED  BY <2>1, EnvironmentQuiet
<1>2. cfg' \in [admin : SUBSET Ports, adv : [Copper -> Abilities], sfp : Rates \union {0}]
  <2>1. /\ cfg = [admin |-> cfg.admin, adv |-> cfg.adv, sfp |-> cfg.sfp]
        /\ cfg.admin \in SUBSET Ports /\ cfg.adv \in [Copper -> Abilities] /\ cfg.sfp \in Rates \union {0}
    BY Zenon DEF TypeOK
  <2>2. CASE ConfigurePorts
    <3>1. PICK a \in Masks, v \in [Copper -> Abilities] : cfg' = [cfg EXCEPT !.admin = a, !.adv = v]
      BY Zenon, <2>2 DEF ConfigurePorts
    <3>2. cfg' = [admin |-> a, adv |-> v, sfp |-> cfg.sfp]
      BY Zenon, <2>1, <3>1
    <3> QED  BY Zenon, <2>1, <3>2, BoardShape
  <2>3. CASE ConfigureSfp
    <3>1. PICK r \in Rates \union {0} : cfg' = [cfg EXCEPT !.sfp = r]
      BY Zenon, <2>3 DEF ConfigureSfp
    <3>2. cfg' = [admin |-> cfg.admin, adv |-> cfg.adv, sfp |-> r]
      BY Zenon, <2>1, <3>1
    <3> QED  BY Zenon, <2>1, <3>2
  <2>4. CASE UNCHANGED cfg
    BY Zenon, <2>4 DEF TypeOK
  <2> QED
    BY Zenon, <2>2, <2>3, <2>4 DEF EnvironmentStep, SfpChange, SfpReady, Flush, Flushed, DmaFail, ReportFault, Settle, PhyUp, PhyDown, vars
<1>3. module' \in Modules
  <2>1. /\ module = [partner |-> module.partner, rate |-> module.rate, ready |-> module.ready]
        /\ module.partner \in Partners /\ module.rate \in Rates /\ module.ready \in BOOLEAN
    BY Zenon DEF TypeOK
  <2>2. CASE SfpChange
    <3>1. PICK r \in Partners : module' = [module EXCEPT !.partner = r]
      BY Zenon, <2>2 DEF SfpChange
    <3>2. module' = [partner |-> r, rate |-> module.rate, ready |-> module.ready]
      BY Zenon, <2>1, <3>1
    <3> QED  BY Zenon, <2>1, <3>2 DEF Modules
  <2>3. CASE SfpReady
    <3>1. module' = [partner |-> module.partner, rate |-> module.rate, ready |-> TRUE]
      BY Zenon, <2>1, <2>3 DEF SfpReady
    <3> QED  BY Zenon, <2>1, <3>1 DEF Modules
  <2>4. CASE UNCHANGED module
    BY Zenon, <2>4 DEF TypeOK, Modules
  <2> QED
    BY Zenon, <2>2, <2>3, <2>4
    DEF EnvironmentStep, ConfigurePorts, ConfigureSfp, Flush, Flushed, DmaFail, ReportFault, Settle, PhyUp, PhyDown, vars
<1>4. {flushing', dmaOk', fault_reported', settled'} \subseteq BOOLEAN
  BY Zenon DEF EnvironmentStep, ConfigurePorts, ConfigureSfp, SfpChange, SfpReady, Flush, Flushed, DmaFail,
         ReportFault, Settle, PhyUp, PhyDown, vars, fabric, faults, TypeOK
<1>5. hwLink' \subseteq Ports /\ owed' \subseteq Ports
  BY Zenon, EnvironmentMasks DEF TypeOK
<1>6. /\ mac' = mac /\ macOn' = macOn /\ ctlFailed' = ctlFailed
      /\ ready' = ready /\ applied' = applied /\ speed' = speed /\ configured' = configured
      /\ enabled' = enabled /\ sinceClear' = sinceClear /\ sfp' = sfp /\ poll' = poll
  BY Zenon, EnvironmentQuiet DEF macs, task, records
<1> QED  BY Zenon, <1>1, <1>2, <1>3, <1>4, <1>5, <1>6 DEF TypeOK, SameBoard, Modules

(***************************************************************************)
(* The records and the places.                                             *)
(***************************************************************************)
\* The parts of the invariant, for one port.
LEMMA PortFacts ==
  ASSUME LinkIInv, NEW p \in Copper
  PROVE  /\ p \in ready => phy[p].adv = applied[p]
         /\ configured[p] # 0 => mac[p] = configured[p]
         /\ p \in enabled \union poll.clear => Sound(p)
         /\ p \in enabled /\ poll.at # "decide" => Fit(p)
         /\ p \in poll.want /\ poll.at = "decide" => Fit(p)
         /\ p \in owed /\ (~fault_reported \/ ~ctlFailed) => configured[p] # 0
         /\ p \in hwLink /\ ~ctlFailed => p \in enabled \union poll.clear
<1>1. TypeOK /\ RecordsTrue /\ Along
  BY Zenon DEF LinkIInv
<1>2. p # Sfp
  BY Zenon, <1>1, BoardShape
<1>3. /\ p \in ready => phy[p].adv = applied[p]
      /\ configured[p] # 0 => mac[p] = configured[p]
  BY Zenon, <1>1 DEF RecordsTrue
<1>4. /\ p \in enabled /\ poll.at # "decide" => Fit(p)
      /\ p \in poll.want /\ poll.at = "decide" => Fit(p)
  BY Zenon, <1>1, <1>2 DEF RecordsTrue
<1>5. p \in enabled \union poll.clear => Sound(p)
  BY Zenon, <1>1, <1>2 DEF Along
<1>6. p \in owed /\ (~fault_reported \/ ~ctlFailed) => configured[p] # 0
  <2>1. p \in owed /\ ~fault_reported => configured[p] # 0
    BY Zenon, <1>1, <1>2 DEF Along
  <2>2. p \in owed /\ ~ctlFailed => p \in enabled \union poll.clear
    BY Zenon, <1>1 DEF Along
  <2> QED  BY Zenon, <1>5, <2>1, <2>2 DEF Sound
<1>7. p \in hwLink /\ ~ctlFailed => p \in enabled \union poll.clear
  BY Zenon, <1>1 DEF RecordsTrue, Remembered
<1> QED  BY Zenon, <1>3, <1>4, <1>5, <1>6, <1>7

\* A port that is fit is sound.
LEMMA FitSound ==
  ASSUME LinkIInv, NEW p \in Copper, Fit(p) PROVE Sound(p)
<1>1. p \in ready /\ speed[p] \in applied[p] /\ configured[p] = speed[p]
  BY Zenon DEF Fit
<1>2. configured[p] # 0
  BY Zenon, <1>1, BoardShape DEF LinkIInv, TypeOK
<1> QED  BY Zenon, <1>1, <1>2, PortFacts DEF Sound

\* A sample keeps what the records say: what it finds fit is recorded so, and a
\* port in the fabric that is no longer fit has its MAC off.
LEMMA SampleKeeps ==
  ASSUME LinkIInv, SameBoard, NEW bad, NEW dt \in 0..1, Sample(bad, dt)
  PROVE  RecordsTrue' /\ Along'
<1>1. TypeOK /\ RecordsTrue /\ Along
  BY Zenon DEF LinkIInv
<1>2. /\ poll.at = "idle" /\ poll'.at = "decide" /\ poll'.clear = {} /\ poll'.set = {}
      /\ poll'.want = Usable(bad, dt) /\ (poll'.busy \/ ~Busy \/ fault_reported)
  BY Zenon, <1>1, SampleLocals
<1>3. /\ ready' = StillReady(bad) /\ speed' = Seen(bad) /\ macOn' = Usable(bad, dt) \ {Sfp}
      /\ UNCHANGED <<board, cfg, phy, module, fabric, applied, configured, enabled, faults, settled>>
  BY Zenon DEF Sample
<1>4. UNCHANGED <<phy, hwLink, owed, applied, configured, enabled, fault_reported, ctlFailed>>
  BY Zenon, <1>3 DEF fabric, faults
<1>5. /\ poll.clear = {} /\ poll.set = {} /\ Remembered = enabled /\ Remembered' = enabled'
  BY Zenon, <1>1, <1>2 DEF Along, Remembered
<1>6. ~ctlFailed' => hwLink' \subseteq Remembered' /\ (~fault_reported' => hwLink' = Remembered')
  BY Zenon, <1>1, <1>4, <1>5 DEF RecordsTrue
<1>7. ASSUME NEW p \in ready' PROVE phy'[p].adv = applied'[p]
  BY Zenon, <1>1, <1>3, <1>4 DEF StillReady, RecordsTrue
<1>8. ASSUME NEW p \in Copper, configured'[p] # 0 PROVE mac'[p] = configured'[p]
  <2>1. mac[p] = configured[p] /\ configured[p] # 0
    BY Zenon, <1>4, <1>8, PortFacts
  <2>2. mac'[p] = mac[p] \/ mac'[p] = MacMode(p, configured[p])
    BY Zenon, <1>1, SampleModes
  <2> QED  BY Zenon, <1>4, <2>1, <2>2 DEF MacMode
<1>9. ASSUME NEW p \in Usable(bad, dt) \ {Sfp} PROVE Fit(p)'
  <2>1. p \in Copper /\ p \in StillReady(bad) /\ Seen(bad)[p] \in applied[p] /\ configured[p] = Seen(bad)[p]
    BY Zenon, <1>1, UsableShape
  <2> QED  BY Zenon, <1>3, <1>4, <2>1 DEF Fit
<1>10. RecordsTrue'
  BY Zenon, <1>2, <1>6, <1>7, <1>8, <1>9 DEF RecordsTrue, SameBoard
<1>11. ASSUME NEW p \in enabled' \ {Sfp} PROVE Sound(p)'
  <2>1. p \in Copper /\ Sound(p)
    BY Zenon, <1>1, <1>4, PortFacts, BoardShape DEF TypeOK
  <2>2. p \in macOn' => Fit(p)'
    BY Zenon, <1>3, <1>9
  <2> QED  BY Zenon, <1>4, <2>1, <2>2 DEF Sound, Fit
<1>12. ~fault_reported' /\ owed' # {} => poll'.busy
  BY Zenon, <1>2, <1>4 DEF Busy
<1> QED  BY Zenon, <1>1, <1>2, <1>3, <1>4, <1>5, <1>10, <1>11, <1>12 DEF Along

\* link_update enables fit ports only and remembers what it is about to write.
LEMMA DecideKeeps ==
  ASSUME LinkIInv, SameBoard, Decide PROVE RecordsTrue' /\ Along'
<1>1. TypeOK /\ RecordsTrue /\ Along
  BY Zenon DEF LinkIInv
<1>2. /\ poll.at = "decide" /\ poll'.busy = poll.busy /\ poll'.clear = Cleared /\ poll'.set = Added
      /\ Cleared # {} => poll'.at = "clear" /\ Added = {} /\ sinceClear' = 0
      /\ Cleared = {} => poll'.at \in {"set", "tune"} /\ sinceClear' = sinceClear
      /\ poll'.at # "set" => Added = {}
  BY Zenon, <1>1, DecideLocals
<1>3. /\ enabled' = (enabled \intersect Desired) \union Added
      /\ UNCHANGED <<phy, mac, macOn, hwLink, owed, ready, applied, speed, configured, fault_reported, ctlFailed>>
  BY Zenon DEF Decide, macs, fabric, records, faults
<1>4. poll.clear = {} /\ poll.set = {} /\ Remembered = enabled
  BY Zenon, <1>1, <1>2 DEF Along, Remembered
<1>5. Added \intersect enabled = {} /\ Added \subseteq Desired /\ Desired \subseteq poll.want
  BY Zenon DEF Added, Desired
<1>6. Remembered' = enabled
  <2>1. poll'.at = "clear" \/ Cleared = {}
    BY Zenon, <1>2
  <2>2. CASE Cleared = {}
    <3>1. enabled \subseteq Desired /\ Remembered' = enabled' \ Added
      BY Zenon, <1>2, <2>2 DEF Cleared, Remembered
    <3> QED  BY Zenon, <1>3, <1>5, <3>1
  <2>3. CASE Cleared # {}
    <3>1. Remembered' = (enabled \intersect Desired) \union Cleared
      BY Zenon, <1>2, <1>3, <2>3 DEF Remembered
    <3> QED  BY Zenon, <3>1 DEF Cleared
  <2> QED  BY Zenon, <2>2, <2>3
<1>7. ASSUME NEW p \in (enabled' \union Cleared) \ {Sfp} PROVE Sound(p) /\ p \in Copper /\ (p \in enabled' => Fit(p))
  <2>1. p \in enabled \union poll.want
    BY Zenon, <1>3, <1>5 DEF Cleared
  <2>2. p \in Copper
    BY Zenon, <1>1, <2>1, PollFields, BoardShape DEF TypeOK
  <2>3. p \in enabled' => p \in poll.want
    BY Zenon, <1>3, <1>5
  <2>4. p \in poll.want => Fit(p)
    BY Zenon, <1>2, <2>2, PortFacts
  <2> QED  BY Zenon, <2>1, <2>2, <2>3, <2>4, PortFacts, FitSound
<1>8. \A p : (Sound(p) => Sound(p)') /\ (Fit(p) => Fit(p)')
  BY Zenon, <1>3 DEF Sound, Fit
<1>9. RecordsTrue'
  BY Zenon, <1>1, <1>2, <1>3, <1>4, <1>6, <1>7, <1>8 DEF RecordsTrue, SameBoard
<1>10. owed \subseteq enabled => owed' \subseteq enabled' \union poll'.clear
  BY Zenon, <1>2, <1>3 DEF Cleared
<1>11. ~fault_reported' /\ owed' # {} => sinceClear' = 0 \/ poll'.busy
  BY Zenon, <1>1, <1>2, <1>3 DEF Along
<1>12. poll'.set \subseteq enabled' /\ poll'.clear \intersect enabled' = {}
  BY Zenon, <1>2, <1>3, <1>5 DEF Cleared
<1> QED  BY Zenon, <1>1, <1>2, <1>3, <1>4, <1>7, <1>8, <1>9, <1>10, <1>11, <1>12 DEF Along

\* The writes make the LINK mask what is remembered.
LEMMA WriteKeeps ==
  ASSUME LinkIInv, SameBoard, LinkWrites PROVE RecordsTrue' /\ Along'
<1>1. TypeOK /\ RecordsTrue /\ Along
  BY Zenon DEF LinkIInv
<1>2. /\ UNCHANGED <<phy, mac, macOn, ready, applied, speed, configured, enabled, sinceClear, fault_reported>>
      /\ poll'.busy = poll.busy
  BY Zenon, <1>1, WriteLocals DEF LinkWrites, ClearWrite, ClearDone, ClearStuck, AddLinks, macs, records, faults
<1>3. \A p : (Sound(p) => Sound(p)') /\ (Fit(p) => Fit(p)')
  BY Zenon, <1>2 DEF Sound, Fit
\* The mask and the flushes.
<1>4. /\ ~ctlFailed' => hwLink' \subseteq Remembered' /\ (~fault_reported' => hwLink' = Remembered')
      /\ ~ctlFailed' => owed' \subseteq enabled' \union poll'.clear
      /\ ~fault_reported' /\ owed' # {} => sinceClear' = 0 \/ poll'.busy
      /\ ~fault_reported' => \A p \in owed' \ {Sfp} : configured'[p] # 0
      /\ poll'.clear \subseteq poll.clear
      /\ poll'.at \in {"wait", "tune"} /\ (poll'.at = "tune" => poll'.clear = {}) /\ poll'.set = {}
      /\ poll'.at = "wait" => sinceClear = 0
  <2>1. CASE ClearWrite
    <3>1. /\ poll.at = "clear" /\ ~Busy /\ hwLink' = hwLink \ poll.clear /\ owed' = hwLink \intersect poll.clear
          /\ ctlFailed' = ctlFailed
          /\ poll'.at = "wait" /\ poll'.clear = poll.clear /\ poll'.set = poll.set
      BY Zenon, <1>1, <2>1, WriteLocals DEF ClearWrite, LinkWrites, faults
    <3>2. poll.set = {} /\ sinceClear = 0
      BY Zenon, <1>1, <3>1 DEF Along
    <3>3. Remembered = enabled \union poll.clear /\ Remembered' = enabled
      BY Zenon, <1>2, <3>1, <3>2 DEF Remembered
    <3>4. enabled \intersect poll.clear = {}
      BY Zenon, <1>1, <3>1 DEF Along
    <3>5. ASSUME NEW p \in owed' \ {Sfp} PROVE configured'[p] # 0
      <4>1. p \in poll.clear \ {Sfp}
        BY Zenon, <3>1
      <4> QED  BY Zenon, <1>1, <1>2, <4>1 DEF Along, Sound
    <3> QED  BY Zenon, <1>1, <1>2, <3>1, <3>2, <3>3, <3>4, <3>5 DEF RecordsTrue
  <2>2. CASE ClearDone
    <3>1. /\ poll.at = "wait" /\ ~Busy /\ hwLink' = hwLink /\ owed' = owed /\ ctlFailed' = ctlFailed
          /\ poll'.at = "tune" /\ poll'.clear = {} /\ poll'.set = poll.set
      BY Zenon, <1>1, <2>2, WriteLocals DEF ClearDone, LinkWrites, faults
    <3>2. owed = {} /\ poll.set = {}
      BY Zenon, <1>1, <3>1 DEF Busy, Along
    <3>3. Remembered' = enabled /\ Remembered = enabled
      BY Zenon, <1>2, <3>1, <3>2 DEF Remembered
    <3> QED  BY Zenon, <1>1, <1>2, <3>1, <3>2, <3>3 DEF RecordsTrue
  <2>3. CASE ClearStuck
    <3>1. /\ poll.at \in {"clear", "wait"} /\ hwLink' = hwLink /\ owed' = owed /\ ctlFailed' = TRUE
          /\ poll'.at = "tune" /\ poll'.clear = {} /\ poll'.set = poll.set
      BY Zenon, <1>1, <2>3, WriteLocals DEF ClearStuck, LinkWrites
    <3>2. poll.set = {} /\ sinceClear = 0
      BY Zenon, <1>1, <3>1 DEF Along
    <3> QED  BY Zenon, <1>1, <1>2, <3>1, <3>2 DEF Along
  <2>4. CASE AddLinks
    <3>1. /\ poll.at = "set" /\ hwLink' = hwLink \union poll.set /\ owed' = owed /\ ctlFailed' = ctlFailed
          /\ poll'.at = "tune" /\ poll'.clear = poll.clear /\ poll'.set = {}
      BY Zenon, <1>1, <2>4, WriteLocals DEF AddLinks, LinkWrites, faults
    <3>2. poll.clear = {} /\ poll.set \subseteq enabled
      BY Zenon, <1>1, <3>1 DEF Along
    <3>3. Remembered' = enabled /\ Remembered = enabled \ poll.set
      BY Zenon, <1>2, <3>1, <3>2 DEF Remembered
    <3>4. ~fault_reported /\ owed # {} => sinceClear = 0 \/ poll.busy
      BY Zenon, <1>1, <3>1 DEF Along
    <3>5. ~ctlFailed => hwLink' \subseteq enabled /\ (~fault_reported => hwLink' = enabled)
      BY Zenon, <1>1, <3>1, <3>2, <3>3 DEF RecordsTrue
    <3>6. /\ ~ctlFailed => owed \subseteq enabled
          /\ ~fault_reported => \A p \in owed \ {Sfp} : configured[p] # 0
      BY Zenon, <1>1, <3>2 DEF Along
    <3> QED  BY Zenon, <1>2, <3>1, <3>2, <3>3, <3>4, <3>5, <3>6
  <2> QED  BY Zenon, <2>1, <2>2, <2>3, <2>4 DEF LinkWrites
<1>5. poll.at # "decide" /\ poll'.at # "decide"
  BY Zenon, <1>4 DEF LinkWrites, ClearWrite, ClearDone, ClearStuck, AddLinks
<1>6. RecordsTrue'
  BY Zenon, <1>1, <1>2, <1>3, <1>4, <1>5 DEF RecordsTrue, SameBoard
<1>7. \A p \in (enabled' \union poll'.clear) \ {Sfp} : Sound(p)'
  BY Zenon, <1>1, <1>2, <1>3, <1>4 DEF Along
<1>8. poll'.clear \intersect enabled' = {}
  BY Zenon, <1>1, <1>2, <1>4 DEF Along
<1> QED  BY Zenon, <1>2, <1>4, <1>6, <1>7, <1>8 DEF Along

\* Reconfiguration touches no port in the fabric, and none while a flush of the
\* task's own removal goes on.
LEMMA TuneKeeps ==
  ASSUME LinkIInv, SameBoard, NEW res \in [Restarted -> Results], Tune(res)
  PROVE  RecordsTrue' /\ Along'
<1>1. TypeOK /\ RecordsTrue /\ Along
  BY Zenon DEF LinkIInv
<1>2. /\ poll.at = "tune" /\ poll' = Idle /\ ready' = (ready \ Restarted) \union InitOk(res)
      /\ UNCHANGED <<macOn, hwLink, owed, enabled, sinceClear, fault_reported, ctlFailed>>
  BY TuneAssigns, Zenon DEF fabric, faults
<1>3. poll'.at = "idle" /\ poll'.clear = {} /\ poll'.set = {}
  BY Zenon, <1>1, <1>2, IdleShape
<1>4. poll.clear = {} /\ poll.set = {} /\ Remembered = enabled /\ Remembered' = enabled
  BY Zenon, <1>1, <1>2, <1>3 DEF Along, Remembered
<1>5. /\ Restarted \subseteq Copper \ enabled /\ Retuned \subseteq Copper \ enabled
      /\ Restarted \intersect Retuned = {} /\ InitOk(res) \subseteq Restarted
      /\ Restarted \union Retuned # {} => Quiet
  BY Zenon, TuneSets
<1>6. \A p \in Copper \ (Restarted \union Retuned) :
        /\ applied'[p] = applied[p] /\ configured'[p] = configured[p] /\ speed'[p] = speed[p]
        /\ mac'[p] = mac[p] /\ phy'[p] = phy[p]
  BY Zenon, <1>5, TunePorts
<1>7. ASSUME NEW p \in ready' PROVE phy'[p].adv = applied'[p]
  <2>1. p \in Copper
    BY Zenon, <1>1, <1>2, <1>5 DEF TypeOK
  <2>2. /\ applied'[p] = IF p \in InitOk(res) THEN poll.adv[p] ELSE applied[p]
        /\ phy'[p] = IF p \in Restarted THEN Programmed(p, res[p]) ELSE phy[p]
    BY <2>1, TunePorts, Zenon
  <2>3. CASE p \in InitOk(res)
    <3>1. res[p] = "ok" /\ res[p] \in Results /\ p \in Restarted
      BY Zenon, <1>5, <2>3 DEF InitOk
    <3> QED  BY Zenon, <1>1, <2>1, <2>2, <2>3, <3>1, ProgrammedShape
  <2>4. CASE p \in ready \ Restarted
    BY Zenon, <1>5, <2>1, <2>2, <2>4, PortFacts
  <2> QED  BY Zenon, <1>2, <2>3, <2>4
<1>8. ASSUME NEW p \in Copper, configured'[p] # 0 PROVE mac'[p] = configured'[p]
  <2>1. /\ configured'[p] = IF p \in Restarted THEN 0 ELSE IF p \in Retuned THEN speed[p] ELSE configured[p]
        /\ mac'[p] = IF p \in Retuned THEN MacMode(p, speed[p]) ELSE mac[p]
    BY TunePorts, Zenon
  <2>2. speed[p] # 0 => MacMode(p, speed[p]) = speed[p]
    BY Zenon DEF MacMode
  <2>3. configured[p] # 0 => mac[p] = configured[p]
    BY Zenon, PortFacts
  <2> QED  BY Zenon, <1>8, <2>1, <2>2, <2>3
<1>9. ASSUME NEW p \in enabled' \ {Sfp} PROVE Fit(p)' /\ Sound(p)'
  <2>1. p \in Copper /\ p \in enabled
    BY Zenon, <1>1, <1>2, BoardShape DEF TypeOK
  <2>2. p \notin Restarted \union Retuned
    BY Zenon, <1>5, <2>1
  <2>3. Fit(p) /\ Sound(p)
    BY Zenon, <1>2, <2>1, PortFacts
  <2>4. p \in ready' <=> p \in ready
    BY Zenon, <1>2, <1>5, <2>2
  <2> QED  BY Zenon, <1>2, <1>6, <2>1, <2>2, <2>3, <2>4 DEF Fit, Sound
<1>10. ~ctlFailed' => hwLink' \subseteq Remembered' /\ (~fault_reported' => hwLink' = Remembered')
  BY Zenon, <1>1, <1>2, <1>4 DEF RecordsTrue
<1>11. RecordsTrue'
  BY Zenon, <1>3, <1>7, <1>8, <1>9, <1>10 DEF RecordsTrue, SameBoard
\* Nothing is reconfigured while a flush of the task's own goes on.
<1>12. ASSUME ~fault_reported', NEW p \in owed' \ {Sfp} PROVE configured'[p] # 0
  <2>1. p \in owed /\ p \in Copper /\ ~fault_reported
    BY Zenon, <1>1, <1>2, <1>12, BoardShape DEF TypeOK
  <2>2. sinceClear = 0 \/ poll.busy
    BY Zenon, <1>1, <1>2, <2>1 DEF Along
  <2>3. ~Quiet
    BY <2>2 DEF Quiet
  <2>4. p \notin Restarted \union Retuned
    BY Zenon, <1>5, <2>3
  <2> QED  BY Zenon, <1>6, <2>1, <2>4, PortFacts
<1>13. ~ctlFailed' => owed' \subseteq enabled' \union poll'.clear
  BY Zenon, <1>1, <1>2, <1>4 DEF Along
<1> QED  BY Zenon, <1>3, <1>9, <1>11, <1>12, <1>13 DEF Along

\* Nor does the environment touch what the records say.
LEMMA EnvironmentKeeps ==
  ASSUME LinkIInv, SameBoard, EnvironmentStep PROVE RecordsTrue' /\ Along'
<1>1. TypeOK /\ RecordsTrue /\ Along
  BY Zenon DEF LinkIInv
<1>2. /\ mac' = mac /\ macOn' = macOn /\ ctlFailed' = ctlFailed
      /\ ready' = ready /\ applied' = applied /\ speed' = speed /\ configured' = configured
      /\ enabled' = enabled /\ sinceClear' = sinceClear /\ poll' = poll
      /\ \A p \in Copper : phy'[p].adv = phy[p].adv
  BY Zenon, <1>1, EnvironmentQuiet DEF macs, task, records
<1>3. ready \subseteq Copper /\ \A p \in (enabled \union poll.clear) \ {Sfp} : p \in Copper
  BY Zenon, <1>1, PollFields, BoardShape DEF TypeOK
<1>4. Remembered' = Remembered /\ Remembered \subseteq enabled \union poll.clear
  BY Zenon, <1>2 DEF Remembered
<1>5. \A p : Fit(p) => Fit(p)'
  BY Zenon, <1>2 DEF Fit
<1>6. \A p \in Copper : Sound(p) => Sound(p)'
  BY Zenon, <1>2 DEF Sound
<1>7. /\ ~ctlFailed => hwLink' \subseteq Remembered /\ (~fault_reported' => hwLink' = Remembered)
      /\ ~ctlFailed => owed' \subseteq enabled \union poll.clear
      /\ ~fault_reported' => ~fault_reported /\ owed' \subseteq owed
  <2>1. /\ ~ctlFailed => hwLink \subseteq Remembered /\ (~fault_reported => hwLink = Remembered)
        /\ ~ctlFailed => owed \subseteq enabled \union poll.clear
    BY Zenon, <1>1 DEF RecordsTrue, Along
  <2>2. CASE UNCHANGED <<hwLink, fault_reported>> /\ owed' \subseteq owed
    BY Zenon, <2>1, <2>2
  <2>3. CASE fault_reported' = TRUE /\ hwLink' = {} /\ owed' = owed \union hwLink
    BY Zenon, <1>4, <2>1, <2>3
  <2> QED  BY Zenon, <2>2, <2>3, EnvironmentMasks
<1>8. RecordsTrue'
  BY Zenon, <1>1, <1>2, <1>3, <1>4, <1>5, <1>7 DEF RecordsTrue, SameBoard
<1>9. \A p \in (enabled' \union poll'.clear) \ {Sfp} : Sound(p)'
  BY Zenon, <1>1, <1>2, <1>3, <1>6 DEF Along
<1>10. /\ ~fault_reported' /\ owed' # {} => poll'.at = "idle" \/ sinceClear' = 0 \/ poll'.busy
       /\ ~fault_reported' => \A p \in owed' \ {Sfp} : configured'[p] # 0
  BY Zenon, <1>1, <1>2, <1>7 DEF Along
<1>11. /\ poll'.at = "decide" => macOn' = poll'.want \ {Sfp}
       /\ poll'.at \notin {"clear", "wait"} => poll'.clear = {}
       /\ poll'.at \in {"clear", "wait"} => sinceClear' = 0
       /\ poll'.at # "set" => poll'.set = {}
       /\ poll'.set \subseteq enabled' /\ poll'.clear \intersect enabled' = {}
  BY Zenon, <1>1, <1>2 DEF Along
<1>12. ~ctlFailed' => owed' \subseteq enabled' \union poll'.clear
  BY Zenon, <1>2, <1>7
<1> QED  BY Zenon, <1>8, <1>9, <1>10, <1>11, <1>12 DEF Along

(***************************************************************************)
(* The theorems.                                                           *)
(***************************************************************************)
\* Nothing is in the fabric at first.
LEMMA LinkInit ==
  ASSUME Init PROVE LinkIInv
<1>1. board \in Boards
  BY Zenon DEF Init
<1>2. /\ Top(Speeds) \in Speeds /\ Top(Rates) \in Rates /\ ProbeTicks \in Nat /\ Speeds \in Abilities
  BY Zenon, <1>1, LinkAssumption DEF Speeds, Rates, Abilities
<1>3. poll = Idle /\ Idle.at = "idle" /\ Idle.clear = {} /\ Idle.set = {} /\ Idle \in PollStates
  <2>1. [p \in Copper |-> Speeds] \in [Copper -> Abilities]
    BY Zenon, <1>2
  <2>2. Idle \in PollStates
    BY Zenon, <2>1 DEF Idle, PollStates, Places
  <2> QED  BY Zenon, <2>2 DEF Init, Idle
<1>4. TypeOK
  <2>1. cfg \in [admin : SUBSET Ports, adv : [Copper -> Abilities], sfp : Rates \union {0}]
    BY Zenon, <1>2 DEF Init
  <2>2. phy \in [Copper -> [link : Speeds \union {0}, adv : Abilities]]
    BY Zenon, <1>2 DEF Init
  <2>3. module \in [partner : Partners, rate : Rates, ready : BOOLEAN]
    BY Zenon, <1>2 DEF Init
  <2>4. sfp \in [request : Rates \union {0, None}, target : Rates, pending : BOOLEAN, probe : 0..ProbeTicks]
    BY <1>2 DEF Init
  <2>5. /\ mac \in [Copper -> Speeds] /\ applied \in [Copper -> SUBSET Speeds]
        /\ speed \in [Copper -> Speeds \union {0}] /\ configured \in [Copper -> Speeds \union {0}]
    BY Zenon, <1>2 DEF Init
  <2>6. /\ macOn \subseteq Copper /\ hwLink \subseteq Ports /\ owed \subseteq Ports /\ ready \subseteq Copper
        /\ enabled \subseteq Ports /\ sinceClear \in 0..1
    BY DEF Init
  <2>7. {flushing, dmaOk, fault_reported, ctlFailed, settled} \subseteq BOOLEAN
    <3>1. flushing = FALSE /\ dmaOk = TRUE /\ fault_reported = FALSE /\ ctlFailed = FALSE /\ settled = FALSE
      BY Zenon DEF Init
    <3> QED  BY Zenon, <3>1
  <2> QED  BY Zenon, <1>1, <1>3, <2>1, <2>2, <2>3, <2>4, <2>5, <2>6, <2>7 DEF TypeOK, PollStates, Places
<1>5. hwLink = {} /\ owed = {} /\ ready = {} /\ enabled = {} /\ \A p \in Copper : configured[p] = 0
  BY Zenon DEF Init
<1>6. RecordsTrue
  BY Zenon, <1>3, <1>5 DEF RecordsTrue, Remembered
<1>7. Along
  BY Zenon, <1>3, <1>5 DEF Along
<1> QED  BY Zenon, <1>4, <1>6, <1>7 DEF LinkIInv

\* Every step keeps the records true.
LEMMA LinkStep ==
  ASSUME LinkIInv, [Next]_vars PROVE LinkIInv'
<1>1. TypeOK /\ SameBoard
  BY Zenon, BoardFixed DEF LinkIInv, SameBoard
<1>2. ASSUME NEW bad \in SUBSET Copper, NEW dt \in 0..1, Sample(bad, dt) PROVE LinkIInv'
  BY Zenon, <1>1, <1>2, SampleTyped, SampleKeeps DEF LinkIInv
<1>3. ASSUME Decide PROVE LinkIInv'
  BY Zenon, <1>1, <1>3, DecideTyped, DecideKeeps DEF LinkIInv
<1>4. ASSUME LinkWrites PROVE LinkIInv'
  BY Zenon, <1>1, <1>4, WriteTyped, WriteKeeps DEF LinkIInv
<1>5. ASSUME NEW res \in [Restarted -> Results], Tune(res) PROVE LinkIInv'
  BY Zenon, <1>1, <1>5, TuneTyped, TuneKeeps DEF LinkIInv
<1>6. ASSUME EnvironmentStep PROVE LinkIInv'
  BY Zenon, <1>1, <1>6, EnvironmentTyped, EnvironmentKeeps DEF LinkIInv
<1> QED  BY Zenon, <1>2, <1>3, <1>4, <1>5, <1>6, StepCases DEF LinkWrites

\* The records and the place of the poll are what forwarding needs.
LEMMA RecordsSuffice ==
  ASSUME LinkIInv PROVE LinkInv
<1>1. TypeOK /\ RecordsTrue /\ Along
  BY Zenon DEF LinkIInv
<1>2. ASSUME ~ctlFailed, NEW p \in hwLink \ {Sfp}
      PROVE  /\ phy[p].adv = applied[p]
             /\ p \in macOn => p \in ready /\ speed[p] \in applied[p] /\ mac[p] = speed[p]
             /\ p \notin macOn => poll.at = "decide" \/ p \in poll.clear
  <2>1. p \in Copper
    BY Zenon, <1>1, BoardShape DEF TypeOK
  <2>2. p \in enabled \union poll.clear
    BY Zenon, <1>2, <2>1, PortFacts
  <2>3. Sound(p) /\ (configured[p] # 0 => mac[p] = configured[p])
    BY Zenon, <2>1, <2>2, PortFacts
  <2>4. p \in enabled /\ poll.at # "decide" => p \in macOn
    BY Zenon, <2>1, PortFacts DEF Fit
  <2> QED  BY Zenon, <2>2, <2>3, <2>4 DEF Sound
<1> QED  BY Zenon, <1>1, <1>2 DEF LinkInv, ForwardingIsConfigured

\* Whatever MDIO accesses fail and whatever changes meanwhile, a copper port
\* in the fabric has its PHY programmed as recorded and its MAC, while it
\* runs, at the speed its PHY resolved, unless control has failed; and the
\* LINK mask is the one the task remembers until the network task empties it
\* after a DMA fault, and never more than that.
THEOREM LinksCorrect == Spec => []LinkInv
<1> QED  BY LinkInit, LinkStep, RecordsSuffice, PTL DEF Spec

\* A PHY is restarted, the mode of a MAC changed or the SFP rate switched only
\* while the port is out of the fabric and the flush of its removal is over
\* ("Quiesce before queue flush, clock changes or PHY restart"), however old
\* the sample of the busy flag is by then.
THEOREM QuiescedFirst == Spec => ReconfiguredOutOfFabric
<1> DEFINE Quiesced(p) ==
        /\ p \notin hwLink \union hwLink' \/ ctlFailed
        /\ p \notin owed \/ (ctlFailed /\ fault_reported)
<1>1. ASSUME LinkIInv, [Next]_vars PROVE (\A p \in Ports : Disturbed(p) => Quiesced(p)) \/ UNCHANGED vars
  <2>1. TypeOK /\ RecordsTrue /\ Along /\ SameBoard
    BY Zenon, <1>1, BoardFixed DEF LinkIInv, SameBoard
  <2>2. CASE EnvironmentStep
    BY Zenon, <2>1, <2>2, EnvironmentQuiet DEF Disturbed, macs, task, Ports
  <2>3. CASE Decide \/ LinkWrites
    <3>1. mac' = mac /\ phy' = phy /\ module' = module
      BY Zenon, <2>3 DEF Decide, LinkWrites, ClearWrite, ClearDone, ClearStuck, AddLinks, macs
    <3> QED  BY Zenon, <3>1 DEF Disturbed
  \* The write of every poll changes only a port that is not configured.
  <2>4. ASSUME NEW bad \in SUBSET Copper, NEW dt \in 0..1, Sample(bad, dt), NEW p \in Ports, Disturbed(p)
        PROVE  Quiesced(p)
    <3>1. UNCHANGED <<phy, module, hwLink>>
      BY Zenon, <2>4 DEF Sample, fabric
    <3>2. p \in Copper /\ mac'[p] # mac[p]
      BY Zenon, <2>1, <2>4, <3>1, BoardShape DEF Disturbed
    <3>3. mac'[p] = MacMode(p, configured[p])
      BY Zenon, <2>1, <2>4, <3>2, SampleModes
    <3>4. configured[p] = 0
      BY Zenon, <1>1, <3>2, <3>3, PortFacts DEF MacMode
    <3> QED  BY Zenon, <1>1, <3>1, <3>2, <3>4, PortFacts DEF Sound
  <2>5. ASSUME NEW res \in [Restarted -> Results], Tune(res), NEW p \in Ports, Disturbed(p)
        PROVE  Quiesced(p)
    <3>1. p \notin enabled /\ Quiet
      <4>1. CASE p = Sfp
        <5>1. Switches
          BY Zenon, <2>5, <4>1, TuneAssigns DEF Disturbed
        <5> QED  BY Zenon, <4>1, <5>1 DEF Switches
      <4>2. CASE p # Sfp
        <5>1. p \in Copper
          BY Zenon, <2>5, <4>2 DEF Ports
        <5>2. p \in Restarted \union Retuned
          BY Zenon, <2>5, <4>2, <5>1, TunePorts DEF Disturbed
        <5> QED  BY Zenon, <2>5, <5>2, TuneSets
      <4> QED  BY Zenon, <4>1, <4>2
    <3>2. poll.at = "tune" /\ hwLink' = hwLink
      BY Zenon, <2>5, TuneAssigns DEF fabric
    <3>3. Remembered = enabled /\ poll.clear = {}
      BY Zenon, <2>1, <3>2 DEF Remembered, Along
    <3>4. ~ctlFailed => p \notin hwLink /\ p \notin owed
      BY Zenon, <2>1, <3>1, <3>3 DEF RecordsTrue, Along
    <3>5. ~(sinceClear = 0 \/ poll.busy)
      BY <3>1 DEF Quiet
    <3>6. ~fault_reported => p \notin owed
      BY Zenon, <2>1, <3>2, <3>5 DEF Along
    <3> QED  BY Zenon, <3>2, <3>4, <3>6
  <2> QED  BY <1>1, <2>2, <2>3, <2>4, <2>5, StepCases, Zenon DEF LinkWrites
<1>2. Spec => []LinkIInv
  BY LinkInit, LinkStep, PTL DEF Spec
<1> QED  BY <1>1, <1>2, PTL DEF Spec, ReconfiguredOutOfFabric

-----------------------------------------------------------------------------
(***************************************************************************)
(* The configuration store.                                                *)
(***************************************************************************)
-----------------------------------------------------------------------------
\* The fields of what settings_media_read may find in a file.
LEMMA ContentsFields ==
  ASSUME NEW c \in Contents
  PROVE  c.seq \in Seqs /\ c.val \in Values
<1>1. 0 \in Seqs
  BY StoreAssumption DEF Seqs, SeqMod
<1>2. CASE c \in [kind : {"partial", "full"}, seq : Seqs, val : Values]
  BY Zenon, <1>2
<1>3. CASE c \in {Opaque(k) : k \in {"blank", "torn", "foreign", "oversized"}}
  BY <1>1, <1>3, StoreAssumption DEF Opaque, Record
<1> QED
  BY Zenon, <1>2, <1>3 DEF Contents

\* The next generation number is in range and is the newer of the two under
\* config_load's signed comparison, also when it wraps.
LEMMA SuccNewer ==
  ASSUME NEW a \in Seqs
  PROVE  Succ(a) \in Seqs /\ Newer(Succ(a), a) /\ ~Newer(a, Succ(a))
BY StoreAssumption DEF Succ, Seqs, SeqMod, Newer

\* config_load yields a store, whatever it can and cannot read.
LEMMA LoadType ==
  ASSUME NEW card \in [Slots -> Contents], NEW unread \in SUBSET Slots
  PROVE  Load(card, unread) \in Stores
<1>1. NoCard \in Stores
  BY StoreAssumption DEF NoCard, Stores, Seqs, SeqMod
<1>2. Writable(card, unread) \in BOOLEAN
  BY Zenon DEF Writable
<1>3. Winner(card, unread) \in Slots \cup {NoSlot}
  BY Zenon DEF Winner, Slots
<1>4. CASE Winner(card, unread) = NoSlot
  BY Zenon, <1>1, <1>2, <1>4 DEF Load, Stores, NoCard
<1>5. CASE Winner(card, unread) \in Slots
  <2>1. card[Winner(card, unread)] \in Contents
    BY Zenon, <1>5
  <2>2. Winner(card, unread) # NoSlot
    BY <1>5 DEF Slots, NoSlot
  <2> QED
    BY Zenon, <1>2, <1>5, <2>1, <2>2, ContentsFields DEF Load, Stores
<1> QED
  BY Zenon, <1>3, <1>4, <1>5

\* With one committed record on the card, config_load takes it.
LEMMA LoadOnly ==
  ASSUME NEW card \in [Slots -> Contents], NEW w \in Slots, NEW o \in Slots,
         w # o, card[w].kind = "full", card[o].kind # "full"
  PROVE  Load(card, {}).val = card[w].val
BY DEF Load, Winner, Valid, Slots, NoSlot

\* With none, it takes the defaults.
LEMMA LoadNone ==
  ASSUME NEW card \in [Slots -> Contents],
         card[0].kind # "full", card[1].kind # "full"
  PROVE  Load(card, {}).val = Default
BY Zenon DEF Load, Winner, Valid, Slots, NoSlot, NoCard

\* With two, it takes the one that is the successor of the other.
LEMMA LoadNewer ==
  ASSUME NEW card \in [Slots -> Contents], NEW w \in Slots, NEW o \in Slots,
         w # o, card[w].kind = "full", card[o].kind = "full",
         card[o].seq = Succ(card[w].seq)
  PROVE  Load(card, {}).val = card[o].val
<1>1. card[w] \in Contents
  BY Zenon
<1>2. card[w].seq \in Seqs
  BY Zenon, <1>1, ContentsFields
<1>3. Newer(card[o].seq, card[w].seq) /\ ~Newer(card[w].seq, card[o].seq)
  BY Zenon, <1>2, SuccNewer
<1>4. CASE w = 0
  <2>1. o = 1
    BY Zenon, <1>4 DEF Slots
  <2> QED
    BY <1>3, <1>4, <2>1 DEF Load, Winner, Valid, NoSlot
<1>5. CASE w = 1
  <2>1. o = 0
    BY Zenon, <1>5 DEF Slots
  <2> QED
    BY <1>3, <1>5, <2>1 DEF Load, Winner, Valid, NoSlot
<1> QED
  BY Zenon, <1>4, <1>5 DEF Slots

\* The defaults, and what config_load does with a card, as a record.
LEMMA LoadFields ==
  ASSUME NEW card \in [Slots -> Contents], NEW s, s = Load(card, {})
  PROVE  /\ s.slot \in Slots => card[s.slot] = Record("full", s.seq, s.val)
         /\ s.slot = NoSlot => card[1].kind # "full" /\ card[0].kind # "full" /\ s.val = Default
         /\ s.slot \in Slots \cup {NoSlot}
         /\ s.saved <=> s.slot # NoSlot
         /\ s.writable <=> \A f \in Slots : card[f].kind \notin {"foreign", "oversized"}
<1>1. s.slot = Winner(card, {}) /\ s.saved = (s.slot # NoSlot) /\ s.writable = Writable(card, {})
  BY Zenon DEF Load
<1>2. s.slot \in Slots \cup {NoSlot}
  BY Zenon, <1>1 DEF Winner, Slots
<1>3. ASSUME s.slot \in Slots
      PROVE  card[s.slot] = Record("full", s.seq, s.val)
  <2>1. s.slot # NoSlot /\ card[s.slot].kind = "full"
    BY <1>1, <1>3 DEF Winner, Valid, Slots, NoSlot
  <2>2. s.seq = card[s.slot].seq /\ s.val = card[s.slot].val
    BY Zenon, <2>1, <1>1 DEF Load
  <2>3. card[s.slot] \in Contents
    BY Zenon, <1>3
  <2>4. card[s.slot] \in [kind : {"partial", "full"}, seq : Seqs, val : Values]
    BY <2>1, <2>3 DEF Contents, Opaque, Record
  <2> QED
    BY Zenon, <2>1, <2>2, <2>4 DEF Record
<1>4. ASSUME s.slot = NoSlot
      PROVE  card[1].kind # "full" /\ card[0].kind # "full" /\ s.val = Default
  BY <1>1, <1>4 DEF Winner, Valid, Slots, NoSlot, Load
<1>5. s.writable <=> \A f \in Slots : card[f].kind \notin {"foreign", "oversized"}
  BY Zenon, <1>1 DEF Writable
<1> QED
  BY Zenon, <1>1, <1>2, <1>3, <1>4, <1>5

\* config_save writes the file that does not hold the current generation.
LEMMA TargetOther ==
  ASSUME next.slot \in Slots \cup {NoSlot}
  PROVE  /\ Target \in Slots
         /\ next.slot \in Slots => Target # next.slot
         /\ next.slot = NoSlot => Target = 0
BY DEF Target, Slots, NoSlot

\* While the other file holds no committed record, a restart loads the value
\* the save started from, and the generations are trivially consecutive.
LEMMA OldValue ==
  ASSUME NEW card \in [Slots -> Contents],
         next.slot \in Slots \cup {NoSlot},
         next.slot \in Slots => card[next.slot] = Record("full", next.seq, next.val),
         next.slot = NoSlot => card[1].kind # "full" /\ next.val = Default,
         card[Target].kind # "full"
  PROVE  Load(card, {}).val = next.val /\ Consistent(card)
<1>1. CASE next.slot \in Slots
  <2>1. card[next.slot].kind = "full" /\ card[next.slot].val = next.val
    BY <1>1 DEF Record
  <2>2. Load(card, {}).val = next.val
    BY Zenon, <1>1, <2>1, TargetOther, LoadOnly
  <2> QED
    BY Zenon, <1>1, <2>2, TargetOther DEF Consistent, Slots
<1>2. CASE next.slot = NoSlot
  BY Zenon, <1>2, TargetOther, LoadNone DEF Consistent
<1> QED
  BY Zenon, <1>1, <1>2

\* Once the marker is written, a restart loads the new value, and the two
\* records are consecutive generations.
LEMMA NewValue ==
  ASSUME NEW card \in [Slots -> Contents],
         next.seq \in Seqs,
         next.slot \in Slots \cup {NoSlot},
         next.slot \in Slots => card[next.slot] = Record("full", next.seq, next.val),
         next.slot = NoSlot => card[1].kind # "full" /\ next.val = Default,
         card[Target] = Record("full", NextSeq, req)
  PROVE  Load(card, {}).val = req /\ Consistent(card)
<1>1. card[Target].kind = "full" /\ card[Target].val = req /\ card[Target].seq = Succ(next.seq)
  BY DEF Record, NextSeq
<1>2. CASE next.slot \in Slots
  <2>1. card[next.slot].kind = "full" /\ card[next.slot].seq = next.seq
    BY <1>2 DEF Record
  <2>2. Load(card, {}).val = req
    BY Zenon, <1>1, <1>2, <2>1, TargetOther, LoadNewer
  <2>3. Consistent(card)
    BY Zenon, <1>1, <1>2, <2>1, TargetOther DEF Consistent, Adjacent, Slots
  <2> QED
    BY Zenon, <2>2, <2>3
<1>3. CASE next.slot = NoSlot
  <2>1. Target = 0 /\ card[1].kind # "full"
    BY Zenon, <1>3, TargetOther
  <2>2. Load(card, {}).val = req
    BY Zenon, <1>1, <2>1, LoadOnly DEF Slots
  <2> QED
    BY Zenon, <2>1, <2>2 DEF Consistent
<1> QED
  BY Zenon, <1>2, <1>3

\* What the steps of config_save write is a possible content of a file.
LEMMA WrittenContents ==
  ASSUME StoreTypeOK
  PROVE  /\ NextSeq \in Seqs
         /\ Target \in Slots
         /\ \A k \in {"blank", "torn", "foreign", "oversized"} :
              Opaque(k) \in Contents /\ Opaque(k).kind = k
         /\ \A k \in {"partial", "full"} :
              Record(k, NextSeq, req) \in Contents /\ Record(k, NextSeq, req).kind = k
<1>1. next.seq \in Seqs /\ next.slot \in Slots \cup {NoSlot} /\ req \in Values
  BY Zenon DEF StoreTypeOK, Stores
<1>2. NextSeq \in Seqs
  BY Zenon, <1>1, SuccNewer DEF NextSeq
<1>3. Target \in Slots
  BY Zenon, <1>1, TargetOther
<1>4. \A k \in {"blank", "torn", "foreign", "oversized"} :
        Opaque(k) \in Contents /\ Opaque(k).kind = k
  BY Zenon DEF Opaque, Record, Contents
<1>5. \A k \in {"partial", "full"} :
        Record(k, NextSeq, req) \in Contents /\ Record(k, NextSeq, req).kind = k
  BY Zenon, <1>1, <1>2 DEF Record, Contents
<1> QED
  BY Zenon, <1>2, <1>3, <1>4, <1>5

\* Every card reads as a possible one, and its generations are consecutive.
LEMMA CardsTyped == \A card \in Cards : card \in [Slots -> Contents] /\ Consistent(card)
BY Zenon DEF Cards

\* settings_save returns: the invariant holds if what a restart loads is
\* allowed, and is the running value when the save succeeded.
LEMMA Finished ==
  ASSUME StoreInv, NEW ok \in BOOLEAN, Finish(ok),
         files' \in [Slots -> Contents], ram' \in Stores, may' \subseteq Values,
         Consistent(files'), Load(files', {}).val \in may',
         ok => Load(files', {}).val = ram'.val
  PROVE  StoreInv'
<1>1. NoCard \in Stores
  BY StoreAssumption DEF NoCard, Stores, Seqs, SeqMod
<1>2. pc' = "idle" /\ next' = NoCard /\ req' = Default /\ result' \in {"ok", "failed"}
  BY Zenon DEF Finish
<1>3. StoreTypeOK'
  BY Zenon, <1>1, <1>2, StoreAssumption DEF StoreTypeOK
<1>4. CrashSafe'
  BY Zenon, <1>2 DEF CrashSafe, BootValue, Finish
<1>5. pc' \notin SavePcs
  BY Zenon, <1>2 DEF SavePcs
<1> QED
  BY Zenon, <1>2, <1>3, <1>4, <1>5 DEF StoreInv, AdjacentGenerations, ForeignKept

\* A step of config_save that fails before the marker is written, or leaves
\* the file as it was, changes nothing for a restart.
LEMMA FailedStep ==
  ASSUME StoreInv, pc \in SavePcs, Finish(FALSE), UNCHANGED <<ram, may>>,
         NEW left \in Contents, files' = [files EXCEPT ![Target] = left],
         left.kind # "full" \/ left = Record("full", NextSeq, req)
  PROVE  StoreInv'
<1>1. StoreTypeOK /\ SaveInProgress
  BY Zenon DEF StoreInv
<1>2. Target \in Slots /\ next.slot \in Slots \cup {NoSlot} /\ next.seq \in Seqs
  BY Zenon, <1>1, WrittenContents DEF StoreTypeOK, Stores
<1>3. files' \in [Slots -> Contents] /\ files'[Target] = left
  BY Zenon, <1>1, <1>2 DEF StoreTypeOK
<1>4. /\ next.slot \in Slots => files'[next.slot] = Record("full", next.seq, next.val)
      /\ next.slot = NoSlot => files'[1].kind # "full" /\ next.val = Default
  BY <1>1, <1>2, TargetOther DEF SaveInProgress, StoreTypeOK, Slots
<1>5. next.val \in may /\ req \in may /\ may' = may /\ ram' = ram
  BY Zenon, <1>1 DEF SaveInProgress
<1>6. CASE left.kind # "full"
  <2>1. Load(files', {}).val = next.val /\ Consistent(files')
    BY Zenon, <1>2, <1>3, <1>4, <1>6, OldValue
  <2> QED
    BY Zenon, <1>1, <1>3, <1>5, <2>1, Finished DEF StoreTypeOK
<1>7. CASE left = Record("full", NextSeq, req)
  <2>1. Load(files', {}).val = req /\ Consistent(files')
    BY Zenon, <1>2, <1>3, <1>4, <1>7, NewValue
  <2> QED
    BY Zenon, <1>1, <1>3, <1>5, <2>1, Finished DEF StoreTypeOK
<1> QED
  BY Zenon, <1>6, <1>7

\* A step of config_save that fails and leaves the files alone.
LEMMA FailedUntouched ==
  ASSUME StoreInv, Finish(FALSE), UNCHANGED <<files, ram, may>>
  PROVE  StoreInv'
<1>1. /\ files' \in [Slots -> Contents] /\ ram' \in Stores /\ may' \subseteq Values
      /\ Consistent(files') /\ Load(files', {}).val \in may'
  BY Zenon DEF StoreInv, StoreTypeOK, CrashSafe, BootValue, AdjacentGenerations
<1> QED
  BY Zenon, <1>1, Finished

\* A step of config_save that succeeds in changing the file: the other file
\* keeps the current generation.
LEMMA WrittenStep ==
  ASSUME StoreInv, pc \in SavePcs, UNCHANGED <<ram, may, next, req, result>>,
         NEW new \in Contents, files' = [files EXCEPT ![Target] = new],
         new.kind \notin {"foreign", "oversized"},
         \/ pc' = "write" /\ new.kind = "blank"
         \/ pc' = "verify" /\ new = Record("partial", NextSeq, req)
         \/ pc' = "verify_all" /\ new = Record("full", NextSeq, req)
  PROVE  StoreInv'
<1>1. StoreTypeOK /\ SaveInProgress /\ ForeignKept
  BY Zenon DEF StoreInv
<1>2. Target \in Slots /\ next.slot \in Slots \cup {NoSlot} /\ next.seq \in Seqs
  BY Zenon, <1>1, WrittenContents DEF StoreTypeOK, Stores
<1>3. files' \in [Slots -> Contents] /\ files'[Target] = new
  BY Zenon, <1>1, <1>2 DEF StoreTypeOK
<1>4. /\ next.slot \in Slots => files'[next.slot] = Record("full", next.seq, next.val)
      /\ next.slot = NoSlot => files'[1].kind # "full" /\ next.val = Default
  BY <1>1, <1>2, TargetOther DEF SaveInProgress, StoreTypeOK, Slots
<1>5. Target' = Target /\ NextSeq' = NextSeq
  BY Zenon DEF Target, NextSeq
<1>6. SaveInProgress'
  <2>1. next'.val \in may' /\ req' \in may'
    BY Zenon, <1>1 DEF SaveInProgress
  <2>2. pc' # "truncate" /\ pc' # "mark"
    BY Zenon
  <2>3. pc' = "write" => files'[Target'].kind = "blank"
    BY Zenon, <1>3, <1>5
  <2>4. pc' \in {"verify", "mark"} => files'[Target'] = Record("partial", NextSeq', req')
    BY Zenon, <1>3, <1>5
  <2>5. pc' = "verify_all" => files'[Target'] = Record("full", NextSeq', req')
    BY Zenon, <1>3, <1>5
  <2> QED
    BY Zenon, <1>4, <2>1, <2>2, <2>3, <2>4, <2>5 DEF SaveInProgress
<1>7. Load(files', {}).val \in may' /\ Consistent(files')
  <2>1. CASE new.kind # "full"
    BY Zenon, <1>1, <1>2, <1>3, <1>4, <2>1, OldValue DEF SaveInProgress
  <2>2. CASE new = Record("full", NextSeq, req)
    BY Zenon, <1>1, <1>2, <1>3, <1>4, <2>2, NewValue DEF SaveInProgress
  <2> QED
    BY <2>1, <2>2 DEF Record
<1>8. StoreTypeOK'
  BY Zenon, <1>1, <1>3 DEF StoreTypeOK, SavePcs
<1>9. ForeignKept'
  BY Zenon, <1>1, <1>2, <1>3 DEF ForeignKept, StoreTypeOK
<1>10. CrashSafe'
  BY Zenon, <1>7 DEF CrashSafe, BootValue
<1> QED
  BY Zenon, <1>6, <1>7, <1>8, <1>9, <1>10 DEF StoreInv, AdjacentGenerations

\* Every step of the settings code, every failure and every loss of power
\* preserves the invariant.
LEMMA StoreStep ==
  ASSUME StoreInv, [StoreNext]_storeVars
  PROVE  StoreInv'
<1>1. StoreTypeOK /\ CrashSafe /\ AdjacentGenerations /\ ForeignKept
  BY Zenon DEF StoreInv
<1>2. NoCard \in Stores
  BY StoreAssumption DEF NoCard, Stores, Seqs, SeqMod
<1>3. CASE Boot
  <2>1. ram' \in Stores
    BY Zenon, <1>1, <1>2, <1>3, LoadType DEF Boot, StoreTypeOK
  <2>2. pc' = "idle" /\ result' = "none" /\ files' = files /\ may' = may
    BY Zenon, <1>3 DEF Boot, StoreInv
  <2>3. StoreTypeOK'
    BY Zenon, <1>1, <1>3, <2>1 DEF Boot, StoreTypeOK
  <2> QED
    BY Zenon, <1>1, <2>2, <2>3 DEF StoreInv, CrashSafe, BootValue, AdjacentGenerations, ForeignKept,
       SavePcs
<1>4. CASE PowerOff
  <2>1. pc' = "off" /\ result' = "none" /\ files' = files /\ may' = may
    BY Zenon, <1>4 DEF PowerOff
  <2>2. StoreTypeOK'
    BY Zenon, <1>1, <1>2, <1>4, StoreAssumption DEF PowerOff, StoreTypeOK
  <2> QED
    BY Zenon, <1>1, <2>1, <2>2 DEF StoreInv, CrashSafe, BootValue, AdjacentGenerations, ForeignKept,
       SavePcs
<1>5. CASE SaveRefused
  BY Zenon, <1>5, FailedUntouched DEF SaveRefused
<1>6. ASSUME NEW v \in Values, SaveUnchanged(v)
      PROVE  StoreInv'
  <2>1. ram' = Load(files, {}) /\ Load(files, {}).val = v /\ may' = {v} /\ files' = files /\ Finish(TRUE)
    BY Zenon, <1>6 DEF SaveUnchanged
  <2>2. ram' \in Stores
    BY Zenon, <1>1, <2>1, LoadType DEF StoreTypeOK
  <2> QED
    BY Zenon, <1>1, <2>1, <2>2, Finished DEF StoreTypeOK, AdjacentGenerations
<1>7. ASSUME NEW v \in Values, SaveBegin(v)
      PROVE  StoreInv'
  <2> DEFINE s == Load(files, {})
  <2>1. /\ s.writable /\ next' = s /\ req' = v /\ may' = may \cup {v} /\ pc' = "truncate"
        /\ files' = files /\ ram' = ram /\ result' = result
    BY Zenon, <1>7 DEF SaveBegin
  <2>2. s \in Stores
    BY Zenon, <1>1, LoadType DEF StoreTypeOK
  <2>3. StoreTypeOK'
    BY Zenon, <1>1, <2>1, <2>2 DEF StoreTypeOK, SavePcs
  <2>4. s.val \in may
    BY Zenon, <1>1 DEF CrashSafe, BootValue
  <2>5. /\ s.slot \in Slots => files[s.slot] = Record("full", s.seq, s.val)
        /\ s.slot = NoSlot => files[1].kind # "full" /\ s.val = Default
        /\ \A f \in Slots : files[f].kind \notin {"foreign", "oversized"}
    BY Zenon, <1>1, <2>1, LoadFields DEF StoreTypeOK
  <2>6. SaveInProgress'
    BY Zenon, <2>1, <2>4, <2>5 DEF SaveInProgress
  <2>7. CrashSafe' /\ ForeignKept'
    BY Zenon, <2>1, <2>4, <2>5 DEF CrashSafe, BootValue, ForeignKept
  <2> QED
    BY Zenon, <1>1, <2>1, <2>3, <2>6, <2>7 DEF StoreInv, AdjacentGenerations
<1>8. CASE TruncateFile
  <2>1. pc = "truncate" /\ ram' = ram /\ may' = may /\ pc \in SavePcs
    BY Zenon, <1>8 DEF TruncateFile, WriteStep, SavePcs
  <2>2. CASE pc' = "write" /\ files' = [files EXCEPT ![Target] = Opaque("blank")] /\ UNCHANGED <<next, req, result>>
    BY Zenon, <1>1, <2>1, <2>2, WrittenContents, WrittenStep
  <2>3. CASE Finish(FALSE) /\ files' = [files EXCEPT ![Target] = Opaque("blank")]
    BY Zenon, <1>1, <2>1, <2>3, WrittenContents, FailedStep
  <2>4. CASE Finish(FALSE) /\ files' = [files EXCEPT ![Target] = files[Target]]
    <3>1. files' = files
      BY Zenon, <1>1, <2>4, WrittenContents DEF StoreTypeOK
    <3> QED
      BY Zenon, <2>1, <2>4, <3>1, FailedUntouched
  <2> QED
    BY Zenon, <1>8, <2>2, <2>3, <2>4 DEF TruncateFile, WriteStep
<1>9. CASE WriteBody
  <2>1. pc = "write" /\ ram' = ram /\ may' = may /\ pc \in SavePcs
    BY Zenon, <1>9 DEF WriteBody, WriteStep, SavePcs
  <2>2. CASE /\ pc' = "verify" /\ UNCHANGED <<next, req, result>>
             /\ files' = [files EXCEPT ![Target] = Record("partial", NextSeq, req)]
    BY Zenon, <1>1, <2>1, <2>2, WrittenContents, WrittenStep
  <2>3. ASSUME Finish(FALSE),
               NEW left \in {files[Target], Record("partial", NextSeq, req), Opaque("torn"), Opaque("foreign")},
               files' = [files EXCEPT ![Target] = left]
        PROVE  StoreInv'
    <3>1. files[Target] \in Contents /\ files[Target].kind = "blank"
      BY Zenon, <1>1, <2>1, WrittenContents DEF StoreTypeOK, StoreInv, SaveInProgress
    <3>2. left \in Contents /\ left.kind # "full"
      BY Zenon, <1>1, <2>3, <3>1, WrittenContents
    <3> QED
      BY Zenon, <2>1, <2>3, <3>2, FailedStep
  <2> QED
    BY Zenon, <1>9, <2>2, <2>3 DEF WriteBody, WriteStep
<1>10. CASE WriteMark
  <2>1. pc = "mark" /\ ram' = ram /\ may' = may /\ pc \in SavePcs
    BY Zenon, <1>10 DEF WriteMark, WriteStep, SavePcs
  <2>2. CASE /\ pc' = "verify_all" /\ UNCHANGED <<next, req, result>>
             /\ files' = [files EXCEPT ![Target] = Record("full", NextSeq, req)]
    BY Zenon, <1>1, <2>1, <2>2, WrittenContents, WrittenStep
  <2>3. ASSUME Finish(FALSE),
               NEW left \in {files[Target], Record("full", NextSeq, req), Opaque("torn")},
               files' = [files EXCEPT ![Target] = left]
        PROVE  StoreInv'
    <3>1. files[Target] \in Contents /\ files[Target].kind = "partial"
      BY Zenon, <1>1, <2>1, WrittenContents DEF StoreTypeOK, StoreInv, SaveInProgress
    <3>2. left \in Contents /\ (left.kind # "full" \/ left = Record("full", NextSeq, req))
      BY Zenon, <1>1, <2>3, <3>1, WrittenContents
    <3> QED
      BY Zenon, <2>1, <2>3, <3>2, FailedStep
  <2> QED
    BY Zenon, <1>10, <2>2, <2>3 DEF WriteMark, WriteStep
<1>11. CASE VerifyBody
  <2>1. CASE Finish(FALSE)
    BY Zenon, <1>11, <2>1, FailedUntouched DEF VerifyBody
  <2>2. CASE pc' = "mark" /\ UNCHANGED <<next, req, result>>
    <3>1. pc = "verify" /\ pc' = "mark" /\ files' = files /\ ram' = ram /\ may' = may
      BY Zenon, <1>11, <2>2 DEF VerifyBody
    <3>2. SaveInProgress
      BY Zenon, <3>1 DEF StoreInv, SavePcs
    <3>3. Target' = Target /\ NextSeq' = NextSeq
      BY Zenon, <2>2 DEF Target, NextSeq
    <3>4. SaveInProgress'
      BY Zenon, <2>2, <3>1, <3>2, <3>3 DEF SaveInProgress
    <3>5. StoreTypeOK' /\ CrashSafe' /\ AdjacentGenerations' /\ ForeignKept'
      BY Zenon, <1>1, <2>2, <3>1 DEF StoreTypeOK, CrashSafe, BootValue, AdjacentGenerations, ForeignKept,
         SavePcs
    <3> QED
      BY Zenon, <3>1, <3>4, <3>5 DEF StoreInv
  <2> QED
    BY Zenon, <1>11, <2>1, <2>2 DEF VerifyBody
<1>12. CASE VerifyAll
  <2>1. CASE Finish(FALSE) /\ UNCHANGED <<ram, may>>
    BY Zenon, <1>12, <2>1, FailedUntouched DEF VerifyAll
  <2>2. CASE /\ ram' = [val |-> req, seq |-> NextSeq, slot |-> Target, saved |-> TRUE, writable |-> next.writable]
             /\ may' = {req} /\ Finish(TRUE)
    <3>1. pc = "verify_all" /\ files' = files /\ SaveInProgress
      BY Zenon, <1>12 DEF VerifyAll, StoreInv, SavePcs
    <3>2. Load(files, {}).val = req
      BY Zenon, <1>1, <3>1, NewValue DEF SaveInProgress, StoreTypeOK, Stores
    <3>3. ram' \in Stores
      BY Zenon, <1>1, <2>2, WrittenContents DEF Stores, StoreTypeOK
    <3> QED
      BY Zenon, <1>1, <2>2, <3>1, <3>2, <3>3, Finished DEF StoreTypeOK, AdjacentGenerations
  <2> QED
    BY Zenon, <1>12, <2>1, <2>2 DEF VerifyAll
<1>13. ASSUME NEW card \in Cards, ReplaceCard(card)
       PROVE  StoreInv'
  <2>1. files' = card /\ may' = {Load(card, {}).val} /\ result' = "none" /\ pc' = pc /\ pc \in {"off", "idle"}
        /\ UNCHANGED <<ram, next, req>>
    BY Zenon, <1>13 DEF ReplaceCard
  <2>2. Load(card, {}).val \in Values
    BY Zenon, CardsTyped, LoadType DEF Stores
  <2>3. StoreTypeOK'
    BY Zenon, <1>1, <2>1, <2>2, CardsTyped DEF StoreTypeOK
  <2> QED
    BY Zenon, <2>1, <2>3, CardsTyped DEF StoreInv, CrashSafe, BootValue, AdjacentGenerations, ForeignKept,
       SavePcs
<1>14. CASE UNCHANGED storeVars
  BY <1>14 DEF storeVars, StoreInv, StoreTypeOK, CrashSafe, BootValue, AdjacentGenerations, ForeignKept,
               SaveInProgress, Target, NextSeq
<1> QED
  BY Zenon, <1>3, <1>4, <1>5, <1>6, <1>7, <1>8, <1>9, <1>10, <1>11, <1>12, <1>13, <1>14 DEF StoreNext

\* StoreInv is an invariant of the settings code.
THEOREM StoreInductive == StoreSpec => []StoreInv
<1>1. StoreInit => StoreInv
  <2> SUFFICES ASSUME StoreInit PROVE StoreInv
    BY Zenon
  <2>1. files \in [Slots -> Contents] /\ Consistent(files)
    BY Zenon, CardsTyped DEF StoreInit
  <2>2. NoCard \in Stores
    BY StoreAssumption DEF NoCard, Stores, Seqs, SeqMod
  <2>3. BootValue \in Values
    BY Zenon, <2>1, LoadType DEF BootValue, Stores
  <2>4. StoreTypeOK
    BY Zenon, <2>1, <2>2, <2>3, StoreAssumption DEF StoreInit, StoreTypeOK
  <2> QED
    BY Zenon, <2>1, <2>4 DEF StoreInit, StoreInv, CrashSafe, AdjacentGenerations, ForeignKept, SavePcs
<1>2. StoreInv /\ [StoreNext]_storeVars => StoreInv'
  BY Zenon, StoreStep
<1> QED
  BY <1>1, <1>2, PTL DEF StoreSpec

\* A restart at any point of any sequence of saves, failures and power cuts
\* loads the last saved value or one whose save was attempted since, and
\* after a completed save the value now running (config_load, config_save).
THEOREM RestartSafe == StoreSpec => []CrashSafe
BY StoreInductive, PTL DEF StoreInv

\* The two committed records config_load compares are always consecutive
\* generations, for every range of the counter.
THEOREM GenerationsAdjacent == StoreSpec => []AdjacentGenerations
BY StoreInductive, PTL DEF StoreInv

\* config_save never writes a card that holds a file that is not its own.
THEOREM ForeignFilesKept == StoreSpec => []ForeignKept
BY StoreInductive, PTL DEF StoreInv

\* The saved-settings state always has its type.
THEOREM StoreTypeCorrect == StoreSpec => []StoreTypeOK
BY StoreInductive, PTL DEF StoreInv

(***************************************************************************)
(* The network policy: when the stack has given up, a retry is armed or a  *)
(* restart is on its way, and the policy knows of every lease.             *)
(***************************************************************************)

\* What network_link_ready returns has its type.
LEMMA ReadyTyped ==
  ASSUME PolicyAssumption, NetTypeOK, NEW v \in BOOLEAN
  PROVE  Ready(v) \in [physical : BOOLEAN, ready : BOOLEAN, age : 0..SettleTicks]
BY DEF PolicyAssumption, Ready, NetTypeOK

\* Every step keeps the types.
LEMMA NetTypes == ASSUME PolicyAssumption, NetTypeOK, [NetNext]_netVars PROVE NetTypeOK'
<1> USE DEF netVars, netEnv
<1>1. CASE LinkEval
  <2>1. readiness' \in [physical : BOOLEAN, ready : BOOLEAN, age : 0..SettleTicks]
    BY Zenon, <1>1, ReadyTyped DEF LinkEval, NetTypeOK
  <2> QED  BY Zenon, <1>1, <2>1 DEF LinkEval, NetTypeOK
<1>2. CASE LinkStore
  BY ZenonT(30), <1>2 DEF LinkStore, NetTypeOK
<1>3. CASE SvcWake
  <2>1. dhcp' \in [leased : BOOLEAN, retry_wait : BOOLEAN, age : 0..RetryAfter]
    BY Zenon, <1>3 DEF SvcWake, NetTypeOK
  <2> QED  BY Zenon, <1>3, <2>1 DEF SvcWake, NetTypeOK
<1>4. CASE NetworkDown("restart", "policy") \/ NetworkDown("again", "fault")
  BY Zenon, <1>4 DEF NetworkDown, NetTypeOK
<1>5. CASE SvcPolicy
  <2>1. dhcp' \in [leased : BOOLEAN, retry_wait : BOOLEAN, age : 0..RetryAfter]
    BY Zenon, <1>5 DEF SvcPolicy, NetTypeOK
  <2> QED  BY Zenon, <1>5, <2>1 DEF SvcPolicy, NetTypeOK
<1>6. CASE SvcFault
  <2>1. readiness' \in [physical : BOOLEAN, ready : BOOLEAN, age : 0..SettleTicks]
    BY Zenon, <1>6, ReadyTyped DEF SvcFault, NetTypeOK
  <2> QED  BY ZenonT(30), <1>6, <2>1 DEF SvcFault, NetTypeOK
<1>7. CASE IpDown \/ IpInitialise \/ IpExpire
  BY ZenonT(30), <1>7 DEF IpDown, IpInitialise, IpExpire, NetTypeOK
<1>8. CASE IpLease \/ IpFail
  <2>1. dhcp' \in [leased : BOOLEAN, retry_wait : BOOLEAN, age : 0..RetryAfter]
    <3>1. 0 \in 0..RetryAfter
      BY DEF PolicyAssumption
    <3>2. PICK l \in BOOLEAN : dhcp' = [leased |-> l, retry_wait |-> ~l, age |-> 0]
      BY Zenon, <1>8 DEF IpLease, IpFail, dhcp_result
    <3> QED  BY Zenon, <3>1, <3>2
  <2> QED  BY ZenonT(30), <1>8, <2>1 DEF IpLease, IpFail, NetTypeOK
<1>9. CASE NetTick
  <2>1. /\ dhcp' \in [leased : BOOLEAN, retry_wait : BOOLEAN, age : 0..RetryAfter]
        /\ readiness' \in [physical : BOOLEAN, ready : BOOLEAN, age : 0..SettleTicks]
    BY <1>9 DEF NetTick, NetCapped, PolicyAssumption, NetTypeOK
  <2> QED  BY Zenon, <1>9, <2>1 DEF NetTick, NetTypeOK
<1>10. CASE CarrierChange \/ NetDmaFail \/ Settled \/ UNCHANGED netVars
  BY ZenonT(30), <1>10 DEF CarrierChange, NetDmaFail, Settled, NetTypeOK
<1> QED
  BY Zenon, <1>1, <1>2, <1>3, <1>4, <1>5, <1>6, <1>7, <1>8, <1>9, <1>10
      DEF NetNext, Link, Service, IpTask

\* NetInv is inductive.
LEMMA NetStep == ASSUME PolicyAssumption, NetInv, [NetNext]_netVars PROVE NetInv'
<1> USE DEF netVars, netEnv, NetInv, NoDeadEnd, LeaseKnown, Restarting
<1>t. NetTypeOK'
  BY Zenon, NetTypes
<1>1. CASE LinkEval
  BY Zenon, <1>t, <1>1 DEF LinkEval
<1>2. CASE LinkStore
  BY Zenon, <1>t, <1>2 DEF LinkStore
<1>3. CASE SvcWake
  BY Zenon, <1>t, <1>3 DEF SvcWake, NetTypeOK
<1>4. CASE NetworkDown("restart", "policy") \/ NetworkDown("again", "fault")
  BY Zenon, <1>t, <1>4 DEF NetworkDown
<1>5. CASE SvcPolicy
  BY Zenon, <1>t, <1>5 DEF SvcPolicy, NetTypeOK
<1>6. CASE SvcFault
  BY Zenon, <1>t, <1>6 DEF SvcFault
<1>7. CASE IpDown \/ IpInitialise \/ IpExpire
  BY <1>t, <1>7 DEF IpDown, IpInitialise, IpExpire
<1>8. CASE IpLease
  BY Zenon, <1>t, <1>8 DEF IpLease, dhcp_result
<1>11. CASE IpFail
  BY Zenon, <1>t, <1>11 DEF IpFail, dhcp_result
<1>9. CASE NetTick
  BY Zenon, <1>t, <1>9 DEF NetTick, NetTypeOK
<1>10. CASE CarrierChange \/ NetDmaFail \/ Settled \/ UNCHANGED netVars
  <2>1. UNCHANGED <<bits, svc, dhcp, ip, downEvent, use_dhcp>>
    BY Zenon, <1>10 DEF CarrierChange, NetDmaFail, Settled
  <2> QED  BY Zenon, <1>t, <2>1
<1> QED
  BY Zenon, <1>1, <1>2, <1>3, <1>4, <1>5, <1>6, <1>7, <1>8, <1>9, <1>10, <1>11
      DEF NetNext, Link, Service, IpTask

\* When the service task starts, all is as it should be.
LEMMA NetStart == ASSUME PolicyAssumption, NetInit PROVE NetInv
<1>1. /\ {use_dhcp, forwarding, link_up, reported, downEvent, dma_up, quiet} \subseteq BOOLEAN
      /\ lt \in {"idle", "up", "down"} /\ bits \subseteq {1, 2}
      /\ svc \in {"wait", "restart", "policy", "again", "fault"}
      /\ ip \in {"down", "discover", "bound", "failed"}
  BY Zenon DEF NetInit
<1>2. /\ readiness \in [physical : BOOLEAN, ready : BOOLEAN, age : 0..SettleTicks]
      /\ dhcp \in [leased : BOOLEAN, retry_wait : BOOLEAN, age : 0..RetryAfter]
  BY DEF NetInit, PolicyAssumption
<1>3. ip = "down"
  BY Zenon DEF NetInit
<1> QED  BY Zenon, <1>1, <1>2, <1>3 DEF NetInv, NetTypeOK, NoDeadEnd, LeaseKnown

\* When the stack has given up on DHCP, a retry is armed or a restart is on its
\* way, and the policy knows of every lease, for all settling and retry times
\* and however the service, the link task and the IP task interleave
\* (network_service, network_link_changed, network_dhcp_result).
THEOREM PolicyCorrect == ASSUME PolicyAssumption PROVE NetSpec => []NetInv
BY NetStart, NetStep, PTL DEF NetSpec

\* A timed retry never tears down a working lease (dhcp_retry_due).
THEOREM RetrySafe == ASSUME PolicyAssumption PROVE NetSpec => RetrySparesLease
<1>1. ASSUME NetInv, [NetNext]_netVars PROVE RetryStep
  <2> SUFFICES ASSUME svc = "policy", svc' = "again", ip = "bound", ~Restarting PROVE FALSE
    BY Zenon DEF RetryStep
  <2>1. SvcPolicy
    <3>1. ~(SvcWake \/ NetworkDown("restart", "policy") \/ NetworkDown("again", "fault") \/ SvcFault)
      BY Zenon DEF SvcWake, NetworkDown, SvcFault
    <3>2. ~(LinkEval \/ LinkStore \/ IpDown \/ IpInitialise \/ IpLease \/ IpFail \/ IpExpire \/ NetTick \/ CarrierChange
            \/ NetDmaFail \/ Settled \/ UNCHANGED netVars)
      <4>1. svc' # svc
        BY Zenon
      <4> QED
        BY Zenon, <4>1 DEF LinkEval, LinkStore, IpDown, IpInitialise, IpLease,
            IpFail, IpExpire, NetTick, CarrierChange,
           NetDmaFail, Settled, netVars
    <3> QED  BY Zenon, <1>1, <3>1, <3>2 DEF NetNext, Link, Service, IpTask
  <2>2. retry_due
    BY Zenon, <2>1 DEF SvcPolicy
  <2> QED  BY Zenon, <1>1, <2>2 DEF retry_due, NetInv, LeaseKnown
<1>2. NetInv /\ [NetNext]_netVars => [RetryStep]_netVars
  BY Zenon, <1>1
<1> QED  BY <1>2, PolicyCorrect, PTL DEF NetSpec, RetrySparesLease

(***************************************************************************)
(* The spanning tree task: the account of BPDUs and the second timer, both *)
(* modulo the width of their counters.                                     *)
(***************************************************************************)

\* Quotient and remainder.
LEMMA Euclid ==
  ASSUME NEW m \in Nat \ {0}, NEW a \in Nat
  PROVE  \E q \in Nat : a = (q * m) + (a % m) /\ (a % m) \in 0..m - 1
<1> DEFINE q == a \div m
<1>1. q \in Nat /\ a = (q * m) + (a % m) /\ (a % m) \in 0..m - 1
  OBVIOUS
<1> HIDE DEF q
<1> QED  BY Zenon, <1>1

\* The remainder is the one number below the modulus that differs by a multiple.
LEMMA ModUnique ==
  ASSUME NEW m \in Nat \ {0}, NEW a \in Nat, NEW q \in Nat, NEW r \in 0..m-1, a = (q * m) + r
  PROVE  a % m = r
OBVIOUS

\* A sum modulo m may take its first part modulo m.
LEMMA ModAdd ==
  ASSUME NEW m \in Nat \ {0}, NEW a \in Nat, NEW b \in Nat
  PROVE  ((a % m) + b) % m = (a + b) % m
<1>1. PICK d \in Nat : a = (d * m) + (a % m) /\ (a % m) \in 0..m - 1
  BY Zenon, Euclid
<1> DEFINE s == a % m
<1>2. PICK e \in Nat : s + b = (e * m) + ((s + b) % m) /\ ((s + b) % m) \in 0..m - 1
  <2>1. s + b \in Nat BY <1>1
  <2> QED BY Zenon, <2>1, Euclid
<1> DEFINE t == (s + b) % m
<1>s. s \in Nat /\ t \in 0..m-1 /\ s + b = (e * m) + t /\ a = (d * m) + s
  BY <1>1, <1>2
<1> HIDE DEF s, t
<1>3. a + b = ((d + e) * m) + t
  BY <1>s
<1>4. (a + b) % m = t
  <2>1. a + b \in Nat /\ d + e \in Nat
    OBVIOUS

  <2> QED  BY Zenon, <1>s, <1>3, <2>1, ModUnique
<1> QED BY Zenon, <1>4 DEF s, t

\* A number below the modulus is its own remainder.
LEMMA ModSmall ==
  ASSUME NEW m \in Nat \ {0}, NEW a \in 0..m-1
  PROVE  a % m = a
OBVIOUS

\* Adding a multiple of the modulus changes nothing.
LEMMA ModMultiple ==
  ASSUME NEW m \in Nat \ {0}, NEW a \in Nat, NEW k \in Nat
  PROVE  (a + (k * m)) % m = a % m
<1>1. PICK d \in Nat : a = (d * m) + (a % m) /\ (a % m) \in 0..m - 1
  BY Zenon, Euclid
<1> DEFINE s == a % m
<1>2. s \in 0..m - 1 /\ a = (d * m) + s
  BY Zenon, <1>1
<1> HIDE DEF s
<1>3. a + (k * m) = ((d + k) * m) + s
  BY <1>2
<1>4. a + (k * m) \in Nat /\ d + k \in Nat
  OBVIOUS
<1>5. (a + (k * m)) % m = s
  BY Zenon, <1>2, <1>3, <1>4, ModUnique
<1> QED BY Zenon, <1>5 DEF s

\* A counter modulo m that is counted down by what it was counted up.
LEMMA ModLess ==
  ASSUME NEW m \in Nat \ {0}, NEW a \in Nat, NEW n \in Nat
  PROVE  (((a + n) % m) + m - (n % m)) % m = a % m
<1>1. PICK q \in Nat : n = (q * m) + (n % m) /\ (n % m) \in 0..m - 1
  BY Zenon, Euclid
<1> DEFINE l == n % m
<1>2. l \in 0..m - 1 /\ n = (q * m) + l
  BY Zenon, <1>1
<1> HIDE DEF l
<1>3. m - l \in Nat /\ a + n \in Nat /\ q + 1 \in Nat
  BY <1>2
<1>4. (((a + n) % m) + (m - l)) % m = (a + n + (m - l)) % m
  BY Zenon, <1>3, ModAdd
<1>5. a + n + (m - l) = a + ((q + 1) * m)
  BY <1>2
<1>6. (a + ((q + 1) * m)) % m = a % m
  BY Zenon, <1>3, ModMultiple
<1>7. ((a + n) % m) + (m - l) = ((a + n) % m) + m - l
  BY Zenon, <1>3
<1> QED  BY Zenon, <1>4, <1>5, <1>6, <1>7 DEF l

\* The constants are positive numbers, and a second has its ticks.
LEMMA StpNumbers ==
  ASSUME StpAssumption
  PROVE  /\ StpWrap \in Nat \ {0} /\ Second \in Nat \ {0} /\ QueueDepth \in Nat \ {0} /\ DrainMax \in Nat \ {0}
         /\ Second * StpWrap \in Nat \ {0} /\ MaxLag \in Nat /\ MaxLag >= Second
<1>1. StpWrap \in Nat \ {0} /\ Second \in Nat \ {0} /\ QueueDepth \in Nat \ {0} /\ DrainMax \in Nat \ {0}
  BY Zenon DEF StpAssumption
<1>2. \A a, b \in Nat \ {0} : a * b \in Nat \ {0}
  OBVIOUS
<1> QED  BY Zenon, <1>1, <1>2 DEF StpAssumption

\* A counter modulo Wrap that goes up stays in its range.
LEMMA IncTyped == ASSUME StpAssumption, NEW n \in Nat PROVE Inc(n) \in 0..StpWrap - 1
BY StpNumbers DEF Inc

\* A counter modulo Wrap that goes down stays in its range.
LEMMA LessTyped ==
  ASSUME StpAssumption, NEW n \in Nat, NEW k \in Nat
  PROVE  Less(n, k) \in 0..StpWrap - 1
<1>1. k % StpWrap \in 0..StpWrap - 1
  BY StpNumbers
<1>2. n + StpWrap - (k % StpWrap) \in Nat
  BY <1>1, StpNumbers
<1> QED  BY <1>2, StpNumbers DEF Less

\* What Rx and Reset do to the account of BPDUs.
LEMMA IncExact ==
  ASSUME StpAssumption, NEW d \in Nat, NEW n \in Nat
  PROVE  /\ Inc((d + n) % StpWrap) = (d + (n + 1)) % StpWrap
         /\ (Inc(d) + n) % StpWrap = (d + (n + 1)) % StpWrap
<1>1. StpWrap \in Nat \ {0} /\ d + n \in Nat /\ d + 1 \in Nat /\ d + n + 1 = d + (n + 1) /\ d + 1 + n = d + (n + 1)
  BY StpNumbers
<1>2. (((d + n) % StpWrap) + 1) % StpWrap = (d + n + 1) % StpWrap
  BY ZenonT(30), <1>1, ModAdd
<1>3. (((d + 1) % StpWrap) + n) % StpWrap = (d + 1 + n) % StpWrap
  BY Zenon, <1>1, ModAdd
<1> QED  BY Zenon, <1>1, <1>2, <1>3 DEF Inc

\* What leaves the queue is taken off the account of BPDUs.
LEMMA LessExact ==
  ASSUME StpAssumption, NEW d \in Nat, NEW n \in Nat
  PROVE  Less((d + n) % StpWrap, n) = d % StpWrap
BY Zenon, StpNumbers, ModLess DEF Less

\* The steps of stp_task that touch neither queue nor counters nor the clock.
Plain == LoopTop \/ StopEngine \/ StartEngine \/ PortsStep \/ Drained \/ PublishStatus \/ Environment

\* What is queued keeps its type and its depth.
LEMMA QueueTypes ==
  ASSUME StpAssumption, StpTypeOK, [StpNext]_stpVars
  PROVE  queue' \in Seq(Bpdus) /\ Len(queue') <= QueueDepth
<1> USE DEF StpTypeOK
<1>1. CASE ResetEngine
  BY <1>1, StpNumbers DEF ResetEngine
<1>2. ASSUME NEW w \in BOOLEAN, DrainBpdu(w) PROVE queue' \in Seq(Bpdus) /\ Len(queue') <= QueueDepth
  BY SMTT(30), <1>2, StpNumbers DEF DrainBpdu
<1>3. ASSUME NEW p \in StpPorts \union {Off}, Rx(p)
      PROVE  queue' \in Seq(Bpdus) /\ Len(queue') <= QueueDepth
  <2>1. CASE p \in StpPorts /\ Len(queue) < QueueDepth
    <3> DEFINE e == [port |-> p, age |-> 0, era |-> era]
    <3>1. e \in Bpdus
      BY SMTT(30), <2>1, StpNumbers DEF Bpdus
    <3>2. queue' = Append(queue, e)
      BY Zenon, <1>3, <2>1 DEF Rx
    <3>3. Len(queue) + 1 <= QueueDepth
      BY SMTT(30), <2>1, StpNumbers
    <3> HIDE DEF e
    <3> QED  BY <3>1, <3>2, <3>3
  <2>2. CASE ~(p \in StpPorts /\ Len(queue) < QueueDepth)
    BY Zenon, <1>3, <2>2 DEF Rx
  <2> QED  BY Zenon, <2>1, <2>2
<1>4. CASE Time
  <2>1. \A n \in DOMAIN queue : queue'[n] \in Bpdus
    <3> SUFFICES ASSUME NEW n \in DOMAIN queue PROVE queue'[n] \in Bpdus
      BY Zenon
    <3>1. queue[n] \in Bpdus
      OBVIOUS
    <3>2. queue'[n] = [queue[n] EXCEPT !.age = IF @ > Second THEN @ ELSE @ + 1]
      BY Zenon, <1>4 DEF Time
    <3>3. \A b \in Bpdus : [b EXCEPT !.age = IF @ > Second THEN @ ELSE @ + 1] \in Bpdus
      <4> SUFFICES ASSUME NEW b \in Bpdus
                   PROVE  [b EXCEPT !.age = IF @ > Second THEN @ ELSE @ + 1] \in Bpdus
        BY Zenon
      <4> DEFINE a == IF b.age > Second THEN b.age ELSE b.age + 1
      <4>a. b.age \in 0..Second + 1
        BY Zenon DEF Bpdus
      <4>1. a \in 0..Second + 1
        <5>1. Second \in Nat
          BY Zenon, StpNumbers
        <5> HIDE DEF StpAssumption
        <5> QED  BY SMTT(30), <4>a, <5>1
      <4> HIDE DEF a
      <4>2. [b EXCEPT !.age = a] \in Bpdus
        BY Zenon, <4>1 DEF Bpdus
      <4> QED  BY Zenon, <4>2 DEF a
    <3> QED  BY Zenon, <3>1, <3>2, <3>3
  <2>2. queue' = [n \in 1..Len(queue) |-> queue'[n]] /\ Len(queue) \in Nat
    BY <1>4 DEF Time
  <2>3. queue' \in Seq(Bpdus) /\ Len(queue') = Len(queue)
    BY <2>1, <2>2
  <2> QED  BY Zenon, <2>3
<1>5. CASE Plain \/ RunEngine \/ TickStep \/ UNCHANGED stpVars
  <2>1. queue' = queue
    BY Zenon, <1>5 DEF Plain, LoopTop, StopEngine, StartEngine, RunEngine, PortsStep, Drained,
        TickStep, PublishStatus, Environment, stpVars
  <2> QED  BY Zenon, <2>1
<1> QED  BY Zenon, <1>1, <1>2, <1>3, <1>4, <1>5 DEF StpNext, StpTask, Plain

\* The counters and the clock keep their ranges.
LEMMA CounterTypes ==
  ASSUME StpAssumption, StpTypeOK, [StpNext]_stpVars
  PROVE  /\ drained' \in 0..DrainMax /\ {rx_dropped', balance', ticks'} \subseteq 0..StpWrap - 1
         /\ tickAge' \in 0..MaxLag /\ elapsed' \in 0..Second * StpWrap - 1 /\ era' \in 0..1
<1> DEFINE Good == /\ drained' \in 0..DrainMax /\ {rx_dropped', balance', ticks'} \subseteq 0..StpWrap - 1
                   /\ tickAge' \in 0..MaxLag /\ elapsed' \in 0..Second * StpWrap - 1 /\ era' \in 0..1
<1>n. /\ drained \in 0..DrainMax /\ rx_dropped \in 0..StpWrap - 1 /\ balance \in 0..StpWrap - 1 /\ ticks \in 0..StpWrap - 1
      /\ rx_dropped \in Nat /\ balance \in Nat /\ ticks \in Nat /\ Len(queue) \in Nat
      /\ tickAge \in 0..MaxLag /\ elapsed \in 0..Second * StpWrap - 1 /\ era \in 0..1
  BY StpNumbers DEF StpTypeOK
<1>e. (era + 1) % 2 \in 0..1
  BY <1>n
<1>s. \A k \in Nat \ {0} : 0 \in 0..k - 1
  OBVIOUS
<1>c. \A k \in Nat : 0 \in 0..k
  OBVIOUS
<1>z. 0 \in 0..DrainMax /\ 0 \in 0..StpWrap - 1 /\ 0 \in 0..MaxLag /\ 0 \in 0..Second * StpWrap - 1 /\ (era + 1) % 2 \in 0..1
  BY Zenon, <1>e, <1>s, <1>c, StpNumbers
<1>i. Inc(rx_dropped) \in 0..StpWrap - 1 /\ Inc(balance) \in 0..StpWrap - 1 /\ Inc(ticks) \in 0..StpWrap - 1
  BY Zenon, <1>n, IncTyped
<1>l. Less(balance, 1) \in 0..StpWrap - 1 /\ Less(balance, Len(queue)) \in 0..StpWrap - 1
  BY Zenon, <1>n, LessTyped
<1>1. CASE ResetEngine
  BY Zenon, <1>1, <1>n, <1>l DEF ResetEngine, stpClock
<1>2. ASSUME NEW w \in BOOLEAN, DrainBpdu(w) PROVE Good
  <2>1. drained' \in 0..DrainMax
    BY SMTT(30), <1>2, <1>n, StpNumbers DEF DrainBpdu
  <2> QED  BY Zenon, <1>2, <2>1, <1>n, <1>i, <1>l DEF DrainBpdu, stpClock
<1>3. ASSUME NEW p \in StpPorts \union {Off}, Rx(p) PROVE Good
  BY Zenon, <1>3, <1>n, <1>i DEF Rx, stpClock
<1>4. CASE Time
  <2>1. tickAge' \in 0..MaxLag
    <3>1. tickAge' = tickAge \/ (tickAge < MaxLag /\ tickAge' = tickAge + 1)
      BY Zenon, <1>4 DEF Time
    <3>2. \A k \in Nat : \A a \in 0..k : a < k => a + 1 \in 0..k
      OBVIOUS
    <3> QED  BY Zenon, <3>1, <3>2, <1>n, StpNumbers
  <2>2. elapsed' \in 0..Second * StpWrap - 1
    <3>1. \A m \in Nat \ {0} : (elapsed + 1) % m \in 0..m - 1
      BY <1>n
    <3> QED  BY Zenon, <1>4, <1>n, <3>1, StpNumbers DEF Time
  <2> QED  BY ZenonT(30), <1>4, <2>1, <2>2, <1>n DEF Time
<1>5. CASE TickStep
  <2>1. tickAge' \in 0..MaxLag
    <3>1. tickAge' = tickAge \/ (tickAge >= Second /\ tickAge' = tickAge - Second)
      BY Zenon, <1>5 DEF TickStep
    <3>2. \A k, d \in Nat : \A a \in 0..k : a >= d => a - d \in 0..k
      OBVIOUS
    <3> QED  BY ZenonT(30), <3>1, <3>2, <1>n, StpNumbers
  <2> QED  BY Zenon, <1>5, <2>1, <1>n, <1>i DEF TickStep
<1>6. CASE RunEngine
  BY Zenon, <1>6, <1>n, <1>z DEF RunEngine
<1>7. CASE Plain \/ UNCHANGED stpVars
  BY Zenon, <1>7, <1>n, <1>z DEF Plain, LoopTop, StopEngine, StartEngine, PortsStep, Drained,
      PublishStatus, Environment, stpVars, stpClock
<1> QED  BY ZenonT(30), <1>1, <1>2, <1>3, <1>4, <1>5, <1>6, <1>7 DEF StpNext, StpTask, Plain

\* Every variable keeps its type.
LEMMA StpTypes == ASSUME StpAssumption, StpTypeOK, [StpNext]_stpVars PROVE StpTypeOK'
<1> DEFINE Good == /\ {stp_cfg', wanted', version'} \subseteq Configs /\ {up', links'} \subseteq LinkStates
                   /\ {fault', running', engine'} \subseteq BOOLEAN
                   /\ stp_pc' \in {"top", "stop", "reset", "start", "run", "ports", "drain", "tick", "publish"}
<1>1. Good
  <2>0. NoLinks \in LinkStates
    BY Zenon DEF NoLinks, LinkStates
  <2> USE <2>0 DEF StpTypeOK, stpEnv
  <2>1. CASE LoopTop \/ StopEngine \/ StartEngine \/ ResetEngine
    BY Zenon, <2>1 DEF LoopTop, StopEngine, StartEngine, ResetEngine, Configs
  <2>2. CASE RunEngine \/ PortsStep \/ Drained \/ TickStep \/ PublishStatus
    BY Zenon, <2>2 DEF RunEngine, PortsStep, Drained, TickStep, PublishStatus, Configs
  <2>3. CASE Environment
    BY Zenon, <2>3 DEF Environment, Configure, LinkChange, Fault
  <2>4. CASE Time \/ UNCHANGED stpVars
    BY Zenon, <2>4 DEF Time, stpVars
  <2>5. ASSUME NEW w \in BOOLEAN, DrainBpdu(w) PROVE Good
    BY Zenon, <2>5 DEF DrainBpdu
  <2>6. ASSUME NEW p \in StpPorts \union {Off}, Rx(p) PROVE Good
    BY Zenon, <2>6 DEF Rx
  <2> QED  BY ZenonT(30), <2>1, <2>2, <2>3, <2>4, <2>5, <2>6 DEF StpNext, StpTask
<1> QED  BY Zenon, <1>1, QueueTypes, CounterTypes DEF StpTypeOK

\* Only Rx, Drain, Reset and Time touch the queue; only Rx, Drain and Reset the account.
LEMMA QueueKept ==
  ASSUME Plain \/ RunEngine \/ TickStep \/ UNCHANGED stpVars
  PROVE  queue' = queue /\ rx_dropped' = rx_dropped /\ balance' = balance
BY Zenon DEF Plain, LoopTop, StopEngine, StartEngine, RunEngine, PortsStep, Drained, TickStep,
    PublishStatus, Environment, stpVars

\* Time only ages what is queued.
LEMMA BpduAges ==
  ASSUME StpAssumption, StpTypeOK, Time
  PROVE  /\ Len(queue') = Len(queue) /\ DOMAIN queue' = DOMAIN queue
         /\ \A n \in DOMAIN queue : queue'[n].era = queue[n].era
         /\ (queue = <<>> => queue' = <<>>)
<1>q. queue \in Seq(Bpdus)
  BY Zenon DEF StpTypeOK
<1>1. DOMAIN queue' = DOMAIN queue
  BY Zenon DEF Time
<1>2. queue' \in Seq(Bpdus)
  BY Zenon, QueueTypes DEF StpNext
<1>3. ASSUME NEW n \in DOMAIN queue PROVE queue'[n].era = queue[n].era
  <2>1. queue'[n] = [queue[n] EXCEPT !.age = IF @ > Second THEN @ ELSE @ + 1]
    BY Zenon DEF Time
  <2>2. queue[n] \in Bpdus
    BY <1>q
  <2> QED  BY Zenon, <2>1, <2>2 DEF Bpdus
<1>4. Len(queue') = Len(queue)
  BY <1>q, <1>1, <1>2
<1>5. queue = <<>> => queue' = <<>>
  BY <1>2, <1>4, <1>q
<1> QED  BY ZenonT(30), <1>1, <1>3, <1>4, <1>5

\* A restart stays quiet.
LEMMA QuietStep ==
  ASSUME StpAssumption, StpTypeOK, RestartQuiet, [StpNext]_stpVars
  PROVE  RestartQuiet'
<1> USE DEF RestartQuiet
<1>1. CASE LoopTop \/ StopEngine
  BY <1>1 DEF LoopTop, StopEngine
<1>7. CASE ResetEngine \/ StartEngine
  BY <1>7 DEF ResetEngine, StartEngine
<1>8. CASE RunEngine
  BY Zenon, <1>8 DEF RunEngine
<1>2. CASE PortsStep \/ Drained \/ TickStep \/ PublishStatus
  BY Zenon, <1>2 DEF PortsStep, Drained, TickStep, PublishStatus
<1>3. CASE Environment \/ UNCHANGED stpVars
  <2>1. stp_pc' = stp_pc /\ running' = running /\ engine' = engine /\ queue' = queue
    BY Zenon, <1>3 DEF Environment, stpVars
  <2> QED  BY Zenon, <2>1
<1>4. ASSUME NEW w \in BOOLEAN, DrainBpdu(w) PROVE RestartQuiet'
  BY Zenon, <1>4 DEF DrainBpdu
<1>5. ASSUME NEW p \in StpPorts \union {Off}, Rx(p) PROVE RestartQuiet'
  BY Zenon, <1>5 DEF Rx
<1>6. CASE Time
  BY Zenon, <1>6, BpduAges DEF Time
<1> QED  BY ZenonT(30), <1>1, <1>2, <1>3, <1>4, <1>5, <1>6, <1>7, <1>8 DEF StpNext, StpTask

\* What is queued stays of the engine's own era.
LEMMA EraStep ==
  ASSUME StpAssumption, StpTypeOK, RestartQuiet, OwnEra, [StpNext]_stpVars
  PROVE  OwnEra'
<1>q. queue \in Seq(Bpdus)
  BY Zenon DEF StpTypeOK
<1>1. CASE LoopTop \/ StopEngine \/ RunEngine \/ PortsStep \/ Drained \/ TickStep \/ PublishStatus \/ Environment \/ UNCHANGED stpVars
  <2>1. queue' = queue
    BY Zenon, <1>1, QueueKept DEF Plain
  <2>2. era' = era /\ (engine' => engine)
    <3>1. era' = era /\ (engine' = engine \/ engine' = FALSE)
      BY Zenon, <1>1 DEF LoopTop, RunEngine, PortsStep, StopEngine, Drained, TickStep, PublishStatus,
          Environment, stpVars
    <3> QED  BY <3>1
  <2> QED  BY Zenon, <2>1, <2>2 DEF OwnEra
<1>2. CASE StartEngine \/ ResetEngine
  <2>1. queue' = <<>>
    BY Zenon, <1>2 DEF StartEngine, ResetEngine, RestartQuiet
  <2>2. \A n \in DOMAIN queue' : queue'[n].era = era'
    BY <2>1
  <2> QED  BY Zenon, <2>2 DEF OwnEra
<1>3. ASSUME NEW w \in BOOLEAN, DrainBpdu(w) PROVE OwnEra'
  <2> SUFFICES ASSUME engine, NEW n \in DOMAIN queue' PROVE queue'[n].era = era
    BY Zenon, <1>3 DEF OwnEra, DrainBpdu
  <2>1. queue # <<>> /\ queue' = Tail(queue)
    BY Zenon, <1>3 DEF DrainBpdu
  <2>2. n + 1 \in DOMAIN queue /\ queue'[n] = queue[n + 1]
    BY <1>q, <2>1
  <2> QED  BY Zenon, <2>2 DEF OwnEra
<1>4. ASSUME NEW p \in StpPorts \union {Off}, Rx(p) PROVE OwnEra'
  <2>1. CASE queue' = queue
    BY Zenon, <1>4, <2>1 DEF OwnEra, Rx
  <2>2. CASE queue' = Append(queue, [port |-> p, age |-> 0, era |-> era])
    <3> DEFINE e == [port |-> p, age |-> 0, era |-> era]
    <3> SUFFICES ASSUME engine, NEW n \in DOMAIN queue' PROVE queue'[n].era = era
      BY Zenon, <1>4 DEF OwnEra, Rx
    <3>1. e.era = era /\ queue' = Append(queue, e)
      BY Zenon, <2>2
    <3> HIDE DEF e
    <3>2. queue'[n] = e \/ (n \in DOMAIN queue /\ queue'[n] = queue[n])
      BY <1>q, <3>1
    <3> QED  BY Zenon, <3>1, <3>2 DEF OwnEra
  <2> QED  BY Zenon, <1>4, <2>1, <2>2 DEF Rx
<1>5. CASE Time
  BY Zenon, <1>5, BpduAges DEF OwnEra, Time
<1> QED  BY ZenonT(30), <1>1, <1>2, <1>3, <1>4, <1>5 DEF StpNext, StpTask

\* The account of BPDUs stays exact.
LEMMA AccountStep ==
  ASSUME StpAssumption, StpTypeOK, Accounted, [StpNext]_stpVars
  PROVE  Accounted'
<1>q. queue \in Seq(Bpdus) /\ Len(queue) \in Nat /\ rx_dropped \in Nat /\ balance \in Nat
  BY StpNumbers DEF StpTypeOK
<1>1. CASE Plain \/ RunEngine \/ TickStep \/ UNCHANGED stpVars
  BY Zenon, <1>1, QueueKept DEF Accounted
<1>2. CASE Time
  BY Zenon, <1>2, BpduAges DEF Accounted, Time
<1>3. CASE ResetEngine
  <2>1. queue' = <<>> /\ balance' = Less((rx_dropped + Len(queue)) % StpWrap, Len(queue)) /\ rx_dropped' = rx_dropped
    BY Zenon, <1>3 DEF ResetEngine, Accounted
  <2>2. balance' = rx_dropped % StpWrap
    BY Zenon, <2>1, <1>q, LessExact
  <2>3. Len(queue') = 0 /\ rx_dropped + 0 = rx_dropped
    BY <2>1, <1>q
  <2> QED  BY Zenon, <2>1, <2>2, <2>3 DEF Accounted
<1>4. ASSUME NEW w \in BOOLEAN, DrainBpdu(w) PROVE Accounted'
  <2> DEFINE k == Len(queue) - 1
  <2>1. queue # <<>> /\ queue' = Tail(queue)
    BY Zenon, <1>4 DEF DrainBpdu
  <2>2. k \in Nat /\ Len(queue') = k /\ Len(queue) = k + 1 /\ rx_dropped + k \in Nat /\ rx_dropped + (k + 1) = rx_dropped + k + 1
    BY <2>1, <1>q
  <2> HIDE DEF k
  <2>3. CASE balance' = Less(balance, 1) /\ rx_dropped' = rx_dropped
    <3>1. Less((rx_dropped + k + 1) % StpWrap, 1) = (rx_dropped + k) % StpWrap
      BY Zenon, <2>2, 1 \in Nat, LessExact
    <3> QED  BY Zenon, <2>2, <2>3, <3>1 DEF Accounted
  <2>4. CASE rx_dropped' = Inc(rx_dropped) /\ balance' = balance
    <3>1. (Inc(rx_dropped) + k) % StpWrap = (rx_dropped + (k + 1)) % StpWrap
      BY Zenon, <2>2, <1>q, IncExact
    <3> QED  BY Zenon, <2>2, <2>4, <3>1 DEF Accounted
  <2> QED  BY Zenon, <1>4, <2>3, <2>4 DEF DrainBpdu
<1>5. ASSUME NEW p \in StpPorts \union {Off}, Rx(p) PROVE Accounted'
  <2>1. balance' = (rx_dropped + (Len(queue) + 1)) % StpWrap
    BY Zenon, <1>5, <1>q, IncExact DEF Rx, Accounted
  <2>2. CASE queue' = Append(queue, [port |-> p, age |-> 0, era |-> era]) /\ rx_dropped' = rx_dropped
    <3>1. Len(queue') = Len(queue) + 1
      BY <2>2, <1>q
    <3> QED  BY Zenon, <2>1, <2>2, <3>1 DEF Accounted
  <2>3. CASE rx_dropped' = Inc(rx_dropped) /\ queue' = queue
    BY Zenon, <2>1, <2>3, <1>q, IncExact DEF Accounted
  <2> QED  BY Zenon, <1>5, <2>2, <2>3 DEF Rx
<1> QED  BY Zenon, <1>1, <1>2, <1>3, <1>4, <1>5 DEF StpNext, StpTask, Plain

\* One second's worth of ticks: tick + 1 seconds and age - Second are tick seconds and age.
LEMMA TickArithmetic ==
  ASSUME StpAssumption, NEW t \in 0..StpWrap - 1, NEW a \in Nat, a >= Second
  PROVE  (Inc(t) * Second + (a - Second)) % (Second * StpWrap) = (t * Second + a) % (Second * StpWrap)
<1> DEFINE m == Second * StpWrap
<1>n. Second \in Nat \ {0} /\ StpWrap \in Nat \ {0} /\ m \in Nat \ {0} /\ t \in Nat /\ a - Second \in Nat
  BY StpNumbers
<1>1. CASE t + 1 < StpWrap
  <2>1. Inc(t) = t + 1
    BY <1>1, <1>n, ModSmall DEF Inc
  <2>2. (t + 1) * Second + (a - Second) = t * Second + a
    BY <1>n
  <2> QED  BY Zenon, <2>1, <2>2
<1>2. CASE t + 1 = StpWrap
  <2>1. Inc(t) = 0
    <3>1. StpWrap = (1 * StpWrap) + 0 /\ 0 \in 0..StpWrap - 1 /\ 1 \in Nat /\ StpWrap \in Nat
      BY <1>n
    <3>2. StpWrap % StpWrap = 0
      BY Zenon, <3>1, <1>n, ModUnique
    <3> QED  BY Zenon, <1>2, <3>2 DEF Inc
  <2>2. t * Second + a = (a - Second) + (1 * m)
    <3>1. t = StpWrap - 1
      BY <1>2, <1>n
    <3>2. (StpWrap - 1) * Second = (Second * StpWrap) - Second
      BY <1>n
    <3>3. t * Second = m - Second
      BY Zenon, <3>1, <3>2
    <3> HIDE DEF m
    <3> QED  BY <3>3, <1>n
  <2>3. 0 * Second + (a - Second) = a - Second
    BY <1>n
  <2>4. ((a - Second) + (1 * m)) % m = (a - Second) % m
    <3> HIDE DEF m
    <3> QED  BY Zenon, <1>n, 1 \in Nat, ModMultiple
  <2> QED  BY Zenon, <2>1, <2>2, <2>3, <2>4
<1>3. t + 1 < StpWrap \/ t + 1 = StpWrap
  BY <1>n
<1> QED  BY Zenon, <1>1, <1>2, <1>3

\* The engine keeps getting exactly the seconds that have passed.
LEMMA TicksStep ==
  ASSUME StpAssumption, StpTypeOK, RestartQuiet, TicksExact, [StpNext]_stpVars
  PROVE  TicksExact'
<1> DEFINE m == Second * StpWrap
<1>n. /\ m \in Nat \ {0} /\ Second \in Nat \ {0} /\ StpWrap \in Nat \ {0} /\ ticks \in 0..StpWrap - 1 /\ ticks \in Nat
      /\ tickAge \in Nat /\ elapsed \in 0..m - 1
  BY StpNumbers DEF StpTypeOK
<1>t. ticks * Second + tickAge \in Nat
  BY <1>n
<1>1. CASE RunEngine
  <2>1. elapsed' = 0 /\ ticks' = 0 /\ tickAge' = 0
    BY Zenon, <1>1 DEF RunEngine
  <2>2. 0 * Second + 0 = 0 /\ 0 \in 0..m - 1
    <3> HIDE DEF m
    <3> QED  BY <1>n
  <2>3. 0 % m = 0
    <3> HIDE DEF m
    <3> QED  BY Zenon, <2>2, <1>n, ModSmall
  <2> QED  BY Zenon, <2>1, <2>2, <2>3 DEF TicksExact
<1>2. CASE Time
  <2> SUFFICES ASSUME engine, stp_pc # "run" PROVE elapsed' = (ticks * Second + tickAge') % m
    BY Zenon, <1>2 DEF TicksExact, Time
  <2>1. tickAge' = tickAge + 1 /\ elapsed' = (elapsed + 1) % m
    BY Zenon, <1>2 DEF Time
  <2>2. elapsed = (ticks * Second + tickAge) % m
    BY Zenon DEF TicksExact
  <2>3. (((ticks * Second + tickAge) % m) + 1) % m = (ticks * Second + tickAge + 1) % m
    <3> DEFINE s == ticks * Second + tickAge
    <3>1. s \in Nat
      BY Zenon, <1>t
    <3> HIDE DEF m, s
    <3>2. ((s % m) + 1) % m = (s + 1) % m
      BY Zenon, <3>1, <1>n, 1 \in Nat, ModAdd
    <3> QED  BY Zenon, <3>2 DEF s
  <2>4. ticks * Second + tickAge + 1 = ticks * Second + (tickAge + 1)
    BY <1>n
  <2> QED  BY Zenon, <2>1, <2>2, <2>3, <2>4
<1>3. CASE TickStep
  <2> SUFFICES ASSUME engine, stp_pc # "run" PROVE elapsed = (ticks' * Second + tickAge') % m
    BY Zenon, <1>3 DEF TicksExact, TickStep
  <2>1. elapsed = (ticks * Second + tickAge) % m
    BY Zenon DEF TicksExact
  <2>2. CASE tickAge >= Second /\ tickAge' = tickAge - Second /\ ticks' = Inc(ticks)
    BY Zenon, <2>1, <2>2, <1>n, TickArithmetic
  <2>3. CASE tickAge' = tickAge /\ ticks' = ticks
    BY Zenon, <2>1, <2>3
  <2> QED  BY Zenon, <1>3, <2>2, <2>3 DEF TickStep
<1>4. CASE StartEngine
  BY Zenon, <1>4 DEF StartEngine, TicksExact
<1>5. CASE ResetEngine
  <2>1. ~engine'
    BY Zenon, <1>5 DEF ResetEngine, RestartQuiet
  <2> QED  BY Zenon, <2>1 DEF TicksExact
<1>6. CASE LoopTop \/ StopEngine \/ PortsStep \/ Drained \/ PublishStatus \/ Environment \/ UNCHANGED stpVars
  <2>1. UNCHANGED stpClock
    BY Zenon, <1>6 DEF LoopTop, StopEngine, PortsStep, Drained, PublishStatus, Environment,
        stpVars, stpClock
  <2>2. engine' /\ stp_pc' # "run" => engine /\ stp_pc # "run"
    BY Zenon, <1>6 DEF LoopTop, StopEngine, PortsStep, Drained, PublishStatus, Environment, stpVars
  <2> QED  BY Zenon, <2>1, <2>2 DEF TicksExact, stpClock
<1>7. ASSUME NEW w \in BOOLEAN, DrainBpdu(w) PROVE TicksExact'
  BY Zenon, <1>7 DEF TicksExact, DrainBpdu, stpClock
<1>8. ASSUME NEW p \in StpPorts \union {Off}, Rx(p) PROVE TicksExact'
  BY Zenon, <1>8 DEF TicksExact, Rx, stpClock
<1> QED  BY ZenonT(30), <1>1, <1>2, <1>3, <1>4, <1>5, <1>6, <1>7, <1>8 DEF StpNext, StpTask

\* The invariant holds when stp_task starts.
LEMMA StpStart == ASSUME StpAssumption, StpInit PROVE StpInv
<1> USE DEF StpInit
<1>1. StpTypeOK
  <2>1. queue \in Seq(Bpdus) /\ Len(queue) <= QueueDepth
    BY StpNumbers
  <2>2. 0 \in 0..DrainMax /\ 0 \in 0..StpWrap - 1 /\ 0 \in 0..MaxLag /\ 0 \in 0..1
    BY StpNumbers
  <2>3. 0 \in 0..Second * StpWrap - 1
    BY StpNumbers
  <2> QED  BY Zenon, <2>1, <2>2, <2>3 DEF StpTypeOK, Configs, NoLinks, LinkStates
<1>2. RestartQuiet /\ OwnEra /\ TicksExact
  BY Zenon DEF RestartQuiet, OwnEra, TicksExact
<1>3. Accounted
  <2>1. 0 + Len(queue) = 0 /\ 0 \in 0..StpWrap - 1
    BY StpNumbers
  <2>2. 0 % StpWrap = 0
    BY Zenon, <2>1, StpNumbers, ModSmall
  <2> QED  BY Zenon, <2>1, <2>2 DEF Accounted
<1> QED  BY Zenon, <1>1, <1>2, <1>3 DEF StpInv

\* stp_task and fabric_ctrl_frame_rx: no BPDU received before a restart reaches the
\* engine it creates, every BPDU is delivered or counted, and the ticks given to the
\* engine are the seconds that have passed, for every number of ports, every queue
\* depth and every delay of the task up to MaxLag.
THEOREM StpSound == ASSUME StpAssumption PROVE StpSpec => []StpInv
<1>1. StpInit => StpInv
  BY Zenon, StpStart
<1>2. StpInv /\ [StpNext]_stpVars => StpInv'
  BY Zenon, StpTypes, QuietStep, EraStep, AccountStep, TicksStep DEF StpInv
<1> QED  BY <1>1, <1>2, PTL DEF StpSpec
=============================================================================
