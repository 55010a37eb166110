------------------------------- MODULE LinkPoll -------------------------------
(***************************************************************************)
(* The link task (links.c): the single owner of every MAC and PHY change.  *)
(* Each poll samples the PHYs, takes ports that are down, disabled or      *)
(* about to be reconfigured out of the fabric, adds the ports that are     *)
(* ready, and reconfigures the ports that are out.  The SFP port of the    *)
(* dual-rate build also probes for its rate.                               *)
(*                                                                         *)
(* A poll is five steps, split where another task or the hardware can      *)
(* change what was read: the sample of configuration, PHYs and busy flag   *)
(* with the MAC writes that follow from it (nobody else touches a MAC);    *)
(* the health of the DMA with link_update; the removal, which waits for    *)
(* flushes; the addition; and the reconfiguration, which uses the sample.  *)
(* Time counts polling intervals of 250 ms; a poll may follow the previous *)
(* one sooner (vTaskDelayUntil catches up), which is dt = 0.  What the STP *)
(* task does under the same lock is the subject of PortControl.            *)
(***************************************************************************)
EXTENDS Naturals, FiniteSets

CONSTANTS
    Boards,      \* the builds and their surroundings, records (see board)
    Sfp,         \* the SFP port
    ProbeTicks,  \* intervals without link before the other rate is tried (16)
    None

AllCopper == UNION {b.ps \union b.pl : b \in Boards}

Top(S) == CHOOSE r \in S : \A q \in S : q <= r
Low(S) == CHOOSE r \in S : \A q \in S : r <= q

ASSUME LinkAssumption ==
    /\ ProbeTicks \in Nat \ {0} /\ Sfp \notin AllCopper
    /\ \A b \in Boards :
         /\ b.speeds \subseteq Nat \ {0} /\ Top(b.speeds) \in b.speeds /\ Low(b.speeds) \in b.speeds
         /\ b.abilities \subseteq (SUBSET b.speeds) \ {{}} /\ b.speeds \in b.abilities
         /\ b.rates \subseteq Nat \ {0} /\ Top(b.rates) \in b.rates
         /\ {b.dual, b.faulty} \subseteq BOOLEAN /\ b.ps \intersect b.pl = {}
         /\ b.partners \subseteq b.rates \union {0, None} /\ b.partners # {}
         /\ b.masks \subseteq SUBSET (b.ps \union b.pl \union {Sfp})

VARIABLES
    board,      \* the build and its surroundings, a member of Boards
    cfg,        \* ports.admin, ports.advertise, ports.sfp_requested (web tasks)
    phy,        \* hardware: [copper -> link speed and advertisement register]
    module,     \* hardware: SFP cage and core
    mac,        \* hardware: [copper -> speed mode of the MAC]
    macOn,      \* hardware: copper MACs enabled
    hwLink,     \* hardware: LINK mask
    flushing,   \* hardware: a flush of some other cause in progress
    owed,       \* hardware: ports LINK_CLR took out of the mask, flush not ended
    ready, applied, speed, configured,   \* ps_ready/pl_ready, ports.*, configured_speed
    enabled, sinceClear,                 \* link_state
    sfp,        \* sfp_applied_request, sfp_target, sfp_pending, sfp_probe_ms
    poll,       \* link_poll's place and locals: request, busy, desired, action
    dmaOk, fault_reported, ctlFailed,    \* fabric_dma_healthy, fault_reported, control_failed
    settled     \* environment: no more faults or configuration changes

\* Copper ports behind the PS GEMs (MDIO can fail per poll) and the PL MACs,
\* copper speeds, SFP host rates (the first one probed is the largest), the
\* dual-rate SFP core, what the SFP cage may hold (None, 0 for a silent module,
\* or a partner's rate), the admin masks and the abilities the web tasks set,
\* and whether the DMA may fail.
Ps == board.ps
Pl == board.pl
Speeds == board.speeds
Rates == board.rates
Dual == board.dual
Partners == board.partners
Masks == board.masks
Abilities == board.abilities

Copper == Ps \union Pl
Ports == Copper \union {Sfp}

fabric == <<hwLink, flushing, owed>>
macs == <<mac, macOn>>
records == <<ready, applied, speed, configured>>
faults == <<dmaOk, fault_reported, ctlFailed>>
task == <<records, enabled, sinceClear, sfp, poll>>
vars == <<board, cfg, phy, module, macs, fabric, task, faults, settled>>

present == module.partner # None
host_rate == IF Dual THEN module.rate ELSE Top(Rates)
sfpUp == module.ready /\ module.partner = host_rate

\* Bit 8 of LINK_STATUS.
Busy == flushing \/ owed # {}

\* Between two polls; dead locals have a fixed value.
Idle == [at |-> "idle", adv |-> [p \in Copper |-> Speeds], busy |-> FALSE, want |-> {}, clear |-> {}, set |-> {}]

Init ==
    /\ board \in Boards
    /\ cfg = [admin |-> Ports, adv |-> [p \in Copper |-> Speeds], sfp |-> 0]
    /\ phy = [p \in Copper |-> [link |-> 0, adv |-> Speeds]]
    /\ module \in [partner : Partners, rate : {Top(Rates)}, ready : {TRUE}]
    /\ mac = [p \in Copper |-> Top(Speeds)] /\ macOn = {}
    /\ hwLink = {} /\ flushing = FALSE /\ owed = {}
    /\ ready = {} /\ applied = [p \in Copper |-> {}]
    /\ speed = [p \in Copper |-> 0] /\ configured = [p \in Copper |-> 0]
    /\ enabled = {} /\ sinceClear = 0
    /\ sfp = [request |-> None, target |-> Top(Rates), pending |-> FALSE, probe |-> 0]
    /\ poll = Idle /\ dmaOk = TRUE /\ fault_reported = FALSE /\ ctlFailed = FALSE /\ settled = FALSE

(***************************************************************************)
(* The sample.  The environment chooses which MDIO accesses fail.          *)
(***************************************************************************)
\* board_phy_mask: a PS port whose status read fails must be initialised
\* again; a speed that is not among the applied abilities is no link.
StillReady(bad) == ready \ (bad \intersect Ps)
Seen(bad) ==
    [p \in Copper |-> IF p \in StillReady(bad) \ bad /\ phy[p].link \in applied[p]
                      THEN phy[p].link ELSE 0]
Observed(bad) ==
    {p \in Copper : Seen(bad)[p] # 0} \union (IF sfpUp THEN {Sfp} ELSE {})

Capped(n, max) == IF n > max THEN max ELSE n

\* Lines 196-213: a new request selects a rate at once, an unanswered one
\* alternates after ProbeTicks without a link.
SfpRequested(dt) ==
    IF sfp.request # cfg.sfp
    THEN [request |-> cfg.sfp, target |-> IF cfg.sfp \in Rates THEN cfg.sfp ELSE Top(Rates),
          pending |-> TRUE, probe |-> 0]
    ELSE [sfp EXCEPT !.probe = IF sfpUp THEN 0 ELSE Capped(@ + dt, ProbeTicks)]

SfpDecide(dt) ==
    LET s == SfpRequested(dt) IN
    IF ~Dual THEN sfp
    ELSE IF /\ cfg.sfp = 0 /\ Sfp \in cfg.admin /\ present
            /\ ~sfpUp /\ ~s.pending /\ s.probe >= ProbeTicks
         THEN [s EXCEPT !.target = CHOOSE r \in Rates : r # @ \/ Rates = {@}, !.pending = TRUE]
         ELSE s

\* Ports that must be reconfigured before they may forward.
Changed(bad) ==
    {p \in Copper : \/ p \notin StillReady(bad)
                    \/ applied[p] # cfg.adv[p]
                    \/ configured[p] # Seen(bad)[p]}

Usable(bad, dt) ==
    {p \in Observed(bad) \intersect cfg.admin :
        /\ p \notin Changed(bad)
        /\ p = Sfp => ~SfpDecide(dt).pending}

\* ps_gem_config keeps the mode of a port that went down; the PL MAC's mode
\* register encodes no speed as the lowest.
MacMode(p, s) ==
    IF s # 0 THEN s ELSE IF p \in Pl THEN Low(Speeds) ELSE mac[p]

\* A settled SFP core comes up within the time one rate is given.
Trained == module.ready \/ sfp.probe + 1 < ProbeTicks

\* Lines 191-230.  The mode of a PL MAC is written with its enable bit at
\* every poll.  A flush the network task has just started may not show yet
\* in the busy flag.
Sample(bad, dt) ==
    /\ poll.at = "idle"
    /\ settled => bad = {} /\ dt = 1 /\ Trained
    /\ ready' = StillReady(bad) /\ speed' = Seen(bad) /\ sfp' = SfpDecide(dt)
    /\ macOn' = Usable(bad, dt) \ {Sfp}
    /\ mac' = [p \in Copper |-> IF p \in Pl THEN MacMode(p, configured[p]) ELSE mac[p]]
    /\ sinceClear' = Capped(sinceClear + dt, 1)
    /\ \E busy \in {Busy} \union (IF fault_reported THEN {FALSE} ELSE {}) :
          poll' = [Idle EXCEPT !.at = "decide", !.adv = cfg.adv, !.busy = busy, !.want = Usable(bad, dt)]
    /\ UNCHANGED <<board, cfg, phy, module, fabric, applied, configured, enabled, faults, settled>>

(***************************************************************************)
(* link_update and its writes.                                             *)
(***************************************************************************)
Desired == IF dmaOk THEN poll.want ELSE {}

\* Remove at once; add, like reconfiguring, only with no flush in progress
\* and a full interval after the last removal.
Cleared == enabled \ Desired
Age == IF Cleared # {} THEN 0 ELSE sinceClear
Added == IF ~poll.busy /\ Age >= 1 THEN Desired \ enabled ELSE {}

Decide ==
    /\ poll.at = "decide"
    /\ enabled' = (enabled \intersect Desired) \union Added
    /\ sinceClear' = Age
    /\ poll' = [poll EXCEPT !.at = IF Cleared # {} THEN "clear" ELSE IF Added # {} THEN "set" ELSE "tune",
                            !.want = {}, !.clear = Cleared, !.set = Added]
    /\ UNCHANGED <<board, cfg, phy, module, macs, fabric, records, sfp, faults, settled>>

\* pstate_link_clear: wait for flushes, write, wait again.
ClearWrite ==
    /\ poll.at = "clear" /\ ~Busy
    /\ hwLink' = hwLink \ poll.clear /\ owed' = hwLink \intersect poll.clear
    /\ poll' = [poll EXCEPT !.at = "wait"]
    /\ UNCHANGED <<board, cfg, phy, module, macs, flushing, records, enabled, sinceClear, sfp, faults, settled>>

\* The second wait ends; after a failure every forwarding bit is cleared.
ClearDone ==
    /\ poll.at = "wait" /\ ~Busy
    /\ flushing' = ctlFailed
    /\ poll' = [poll EXCEPT !.at = "tune", !.clear = {}]
    /\ UNCHANGED <<board, cfg, phy, module, macs, hwLink, owed, records, enabled, sinceClear, sfp, faults, settled>>

\* Either wait times out: control_failed, and after the first no write.
ClearStuck ==
    /\ poll.at \in {"clear", "wait"} /\ Busy /\ ~settled
    /\ ctlFailed' = TRUE /\ flushing' = TRUE
    /\ poll' = [poll EXCEPT !.at = "tune", !.clear = {}]
    /\ UNCHANGED <<board, cfg, phy, module, macs, hwLink, owed, records, enabled, sinceClear, sfp, dmaOk, fault_reported, settled>>

AddLinks ==
    /\ poll.at = "set"
    /\ hwLink' = hwLink \union poll.set
    /\ poll' = [poll EXCEPT !.at = "tune", !.set = {}]
    /\ UNCHANGED <<board, cfg, phy, module, macs, flushing, owed, records, enabled, sinceClear, sfp, faults, settled>>

(***************************************************************************)
(* Reconfiguration.                                                        *)
(***************************************************************************)
Quiet == ~poll.busy /\ sinceClear >= 1

\* Lines 238-273: ports that are out of the fabric are initialised again or
\* set to the speed their PHY resolved.
Restarted == {p \in Copper \ enabled : Quiet /\ (p \notin ready \/ applied[p] # poll.adv[p])}

\* Mutant: the MAC mode is not recorded as configured.
Retuned_never == {}

Retuned == {p \in Copper \ enabled : Quiet /\ p \notin Restarted /\ configured[p] # speed[p]}

\* phy_init (pl_advertise for a PL port, with the hardware poller held off)
\* stops at the first access that fails: before the advertisement is
\* written, after it, or on the restart of autonegotiation itself, whose
\* effect may or may not have happened.
Results == {"ok", "before", "after", "unsure"}
Programmed(p, res) ==
    CASE res \in {"ok", "unsure"} -> [link |-> 0, adv |-> poll.adv[p]]
      [] res = "after" -> [phy[p] EXCEPT !.adv = poll.adv[p]]
      [] res = "before" -> phy[p]

\* Mutant: the result of phy_init is ignored.
InitOk_ignored(res) == DOMAIN res

InitOk(res) == {p \in DOMAIN res : res[p] = "ok"}

\* Mutant: switch the rate while the port forwards.
Switches_live == sfp.pending

\* Lines 274-280.
Switches == sfp.pending /\ Sfp \notin enabled /\ Quiet

Tune(res) ==
    LET good == InitOk(res) IN
    /\ poll.at = "tune"
    /\ settled => InitOk(res) = Restarted
    /\ ready' = (ready \ Restarted) \union good
    /\ applied' = [p \in Copper |-> IF p \in good THEN poll.adv[p] ELSE applied[p]]
    /\ configured' = [p \in Copper |-> IF p \in Restarted THEN 0
                                       ELSE IF p \in Retuned THEN speed[p] ELSE configured[p]]
    /\ speed' = [p \in Copper |-> IF p \in Restarted THEN 0 ELSE speed[p]]
    /\ mac' = [p \in Copper |-> IF p \in Retuned THEN MacMode(p, speed[p]) ELSE mac[p]]
    /\ phy' = [p \in Copper |-> IF p \in Restarted THEN Programmed(p, res[p]) ELSE phy[p]]
    /\ sfp' = IF Switches THEN [sfp EXCEPT !.pending = FALSE, !.probe = 0] ELSE sfp
    /\ module' = IF Switches THEN [module EXCEPT !.rate = sfp.target, !.ready = FALSE] ELSE module
    /\ poll' = Idle
    /\ UNCHANGED <<board, cfg, macOn, fabric, enabled, sinceClear, faults, settled>>

(***************************************************************************)
(* The environment: web tasks, PHYs, the SFP cage, the fabric.             *)
(***************************************************************************)
\* board_ports_configure and board_sfp_configure, each a critical section.
ConfigurePorts ==
    /\ ~settled
    /\ \E a \in Masks, v \in [Copper -> Abilities] : cfg' = [cfg EXCEPT !.admin = a, !.adv = v]
    /\ UNCHANGED <<board, phy, module, macs, fabric, task, faults, settled>>

ConfigureSfp ==
    /\ ~settled /\ Dual
    /\ \E r \in Rates \union {0} : cfg' = [cfg EXCEPT !.sfp = r]
    /\ UNCHANGED <<board, phy, module, macs, fabric, task, faults, settled>>

\* Autonegotiation resolves to an advertised speed.
PhyUp(p) ==
    /\ p \in Copper /\ phy[p].link = 0
    /\ \E s \in phy[p].adv : phy' = [phy EXCEPT ![p].link = s]
    /\ UNCHANGED <<board, cfg, module, macs, fabric, task, faults, settled>>

PhyDown(p) ==
    /\ p \in Copper /\ ~settled /\ phy[p].link # 0
    /\ phy' = [phy EXCEPT ![p].link = 0]
    /\ UNCHANGED <<board, cfg, module, macs, fabric, task, faults, settled>>

\* A module is plugged or pulled, or its partner changes.
SfpChange ==
    /\ ~settled
    /\ \E r \in Partners \ {module.partner} : module' = [module EXCEPT !.partner = r]
    /\ UNCHANGED <<board, cfg, phy, macs, fabric, task, faults, settled>>

SfpReady ==
    /\ ~module.ready /\ module' = [module EXCEPT !.ready = TRUE]
    /\ UNCHANGED <<board, cfg, phy, macs, fabric, task, faults, settled>>

\* The STP task clears a forwarding or learning bit, and the flush ends.
Flush ==
    /\ flushing \/ ~settled
    /\ flushing' = ~flushing
    /\ UNCHANGED <<board, cfg, phy, module, macs, hwLink, owed, task, faults, settled>>

\* The fabric has freed the queue of a port that left.
Flushed ==
    /\ \E p \in owed : owed' = owed \ {p}
    /\ UNCHANGED <<board, cfg, phy, module, macs, hwLink, flushing, task, faults, settled>>

\* A queue or AXI error of the DMA.
DmaFail ==
    /\ ~settled /\ board.faulty /\ dmaOk /\ dmaOk' = FALSE
    /\ UNCHANGED <<board, cfg, phy, module, macs, fabric, task, fault_reported, ctlFailed, settled>>

\* network_service, once: LINK_CLR of every port, outside the lock and
\* without a wait.
ReportFault ==
    /\ ~dmaOk /\ ~fault_reported /\ fault_reported' = TRUE
    /\ hwLink' = {} /\ owed' = owed \union hwLink /\ flushing' = TRUE
    /\ UNCHANGED <<board, cfg, phy, module, macs, task, dmaOk, ctlFailed, settled>>

\* From here on: no fault, no configuration change, links stay.
Settle ==
    /\ ~settled /\ settled' = TRUE
    /\ UNCHANGED <<board, cfg, phy, module, macs, fabric, task, faults>>

AnySample == \E bad \in SUBSET Copper, dt \in 0..1 : Sample(bad, dt)
AnyTune == \E res \in [Restarted -> Results] : Tune(res)
PollStep == Decide \/ ClearWrite \/ ClearDone \/ ClearStuck \/ AddLinks \/ AnyTune

Next ==
    \/ AnySample \/ PollStep
    \/ ConfigurePorts \/ ConfigureSfp \/ SfpChange \/ SfpReady \/ Flush \/ Flushed \/ DmaFail \/ ReportFault \/ Settle
    \/ \E p \in AllCopper : PhyUp(p) \/ PhyDown(p)

Spec == Init /\ [][Next]_vars

\* The task finishes a poll and polls for ever (asked for only where
\* something is outstanding), a PHY with a partner finishes negotiating, the
\* SFP core finishes a rate change and flushes end.
PollDue == settled \/ (~dmaOk /\ enabled \union hwLink # {})
Fairness ==
    /\ WF_vars(PollDue /\ AnySample) /\ WF_vars(PollStep)
    /\ WF_vars(SfpReady) /\ WF_vars(flushing /\ Flush) /\ WF_vars(Flushed)
    /\ \A p \in AllCopper : WF_vars(PhyUp(p))

FairSpec == Spec /\ Fairness

(***************************************************************************)
(* Properties.                                                             *)
(***************************************************************************)
\* Every variable has its type.
TypeOK ==
    /\ board \in Boards
    /\ cfg \in [admin : SUBSET Ports, adv : [Copper -> Abilities], sfp : Rates \union {0}]
    /\ phy \in [Copper -> [link : Speeds \union {0}, adv : Abilities]]
    /\ module \in [partner : Partners, rate : Rates, ready : BOOLEAN]
    /\ mac \in [Copper -> Speeds] /\ macOn \subseteq Copper /\ hwLink \subseteq Ports
    /\ ready \subseteq Copper /\ applied \in [Copper -> SUBSET Speeds]
    /\ speed \in [Copper -> Speeds \union {0}] /\ configured \in [Copper -> Speeds \union {0}]
    /\ enabled \subseteq Ports /\ sinceClear \in 0..1
    /\ sfp \in [request : Rates \union {0, None}, target : Rates, pending : BOOLEAN, probe : 0..ProbeTicks]
    /\ poll \in [at : {"idle", "decide", "clear", "wait", "set", "tune"}, adv : [Copper -> Abilities],
                 busy : BOOLEAN, want : SUBSET Ports, clear : SUBSET Ports, set : SUBSET Ports]
    /\ owed \subseteq Ports /\ {flushing, dmaOk, fault_reported, ctlFailed, settled} \subseteq BOOLEAN

\* A port in the fabric is really set up, whatever initialisations failed
\* half-way before: its PHY was last programmed with the abilities recorded
\* as applied, and while its MAC runs it runs at the speed last sampled, one
\* of these.  The MAC of such a port is off only within the poll that takes
\* the port out.  A fabric whose flush never ended (control_failed) forwards
\* nothing.
ForwardingIsConfigured ==
    ~ctlFailed =>
    \A p \in hwLink \ {Sfp} :
        /\ phy[p].adv = applied[p]
        /\ p \in macOn => p \in ready /\ speed[p] \in applied[p] /\ mac[p] = speed[p]
        /\ p \notin macOn => poll.at = "decide" \/ p \in poll.clear

\* "Quiesce before queue flush, clock changes or PHY restart" (links.c:218):
\* the task restarts a PHY, changes the mode of a MAC (also by the write of
\* every poll) or switches the SFP rate only of a port that is out of the
\* fabric, before and after, and whose queue the fabric has flushed since
\* it left.  The first may fail when a wait has timed out, the second when
\* in addition the network task has emptied the mask behind the task's back.
Disturbed(p) ==
    IF p = Sfp THEN module'.rate # module.rate
    ELSE mac'[p] # mac[p] \/ (poll' # poll /\ phy'[p] # phy[p])
ReconfiguredOutOfFabric ==
    [][ \A p \in Ports : Disturbed(p) =>
            /\ p \notin hwLink \union hwLink' \/ ctlFailed
            /\ p \notin owed \/ (ctlFailed /\ fault_reported) ]_vars

\* What makes it so.  Unless control has failed, the LINK mask is the one the
\* task remembers, but for the write it is about to make, and but for the
\* ports the network task takes out after a DMA fault.  A port recorded as
\* ready had its PHY programmed with the abilities recorded, and one
\* recorded as configured has its MAC at that speed.  Between the sample and
\* link_update a port may be enabled that is not fit any more, at no other
\* time.
Fit(p) == p \in ready \intersect macOn /\ speed[p] \in applied[p] /\ configured[p] = speed[p]
Remembered == (enabled \union (IF poll.at = "clear" THEN poll.clear ELSE {})) \ poll.set
RecordsTrue ==
    /\ ~ctlFailed => hwLink \subseteq Remembered /\ (~fault_reported => hwLink = Remembered)
    /\ \A p \in ready : phy[p].adv = applied[p]
    /\ \A p \in Copper : configured[p] # 0 => mac[p] = configured[p]
    /\ \A p \in (IF poll.at = "decide" THEN poll.want ELSE enabled) \ {Sfp} : Fit(p)

\* Once faults and changes stop, every enabled copper port with a link
\* returns to the fabric and stays, whatever half-done state it was in.
CopperRecovers ==
    \A p \in AllCopper : (settled /\ dmaOk /\ p \in Copper \intersect cfg.admin) ~> [](p \in enabled)

\* Rate probing finds the partner: with a module present, enabled, and a
\* request that does not exclude the partner's rate, the SFP port comes up
\* and stays.
SfpFound ==
    (settled /\ dmaOk /\ Dual /\ Sfp \in cfg.admin /\ module.partner \in Rates
        /\ cfg.sfp \in {0, module.partner})
        ~> [](Sfp \in enabled)

\* After a DMA fault the fabric is emptied for good, also when a poll that
\* had found the DMA healthy adds a port after the network task's LINK_CLR;
\* only a removal that was skipped (control_failed) may leave a port in.
FaultEmptiesFabric == ~dmaOk ~> [](enabled = {} /\ (hwLink = {} \/ ctlFailed))

\* The link task never forwards through a port that is set up differently.
LinkInv == TypeOK /\ RecordsTrue /\ ForwardingIsConfigured

\* The polls lead where they should: every usable port into the fabric, and
\* all of them out of it when the DMA has failed.
PollsSettle == CopperRecovers /\ SfpFound /\ FaultEmptiesFabric
=============================================================================
