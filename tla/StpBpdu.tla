------------------------------- MODULE StpBpdu -------------------------------
(***************************************************************************)
(* How BPDUs, link changes, seconds and configuration reach the spanning   *)
(* tree engine (stp_task.c, stp.c).  The fabric receive task, at a higher  *)
(* priority, queues BPDU copies at any moment; only stp_task enters the    *)
(* engine.  The engine itself (mstp-lib) is external; what its callbacks   *)
(* do to the fabric is in PortControl.                                     *)
(***************************************************************************)
EXTENDS Naturals, Sequences, FiniteSets

CONSTANTS
    StpPorts,    \* switch ports with spanning tree
    Versions,    \* protocol versions that can be configured
    LinkRates,   \* speeds of a link
    Off,         \* spanning tree disabled; a port that does not forward
    QueueDepth,  \* rx_queue (32)
    DrainMax,    \* BPDUs taken in a pass (16)
    Second,      \* clock steps in a second
    MaxLag,      \* bound: longest time between two looks at the second timer
    StpWrap      \* counters are modulo StpWrap (2^32)

StpAssumption ==
    /\ {QueueDepth, DrainMax, Second, StpWrap} \subseteq Nat \ {0}
    /\ MaxLag \in Nat /\ MaxLag >= Second /\ Off \notin Versions \union LinkRates

VARIABLES
    stp_cfg, up, fault,         \* environment: settings, speeds of the forwarding ports, pstate fault
    stp_pc, wanted, drained,    \* stp_task: its place, its copy of the settings, drain count
    version, running, engine,   \* version in force or Off; running; an engine exists
    links,                      \* ports the engine has enabled, with their speeds
    queue, rx_dropped,          \* BPDUs [port, age, era]; drop counter
    tickAge,                    \* now - tick
    era, balance,               \* ghosts: restarts, modulo 2; BPDUs offered less those settled
    elapsed, ticks              \* ghosts: time and seconds since the engine started

stpVars == <<stp_cfg, up, fault, stp_pc, wanted, drained, version, running, engine, links, queue, rx_dropped, tickAge,
             era, balance, elapsed, ticks>>
stpEnv == <<stp_cfg, up, fault>>
stpClock == <<tickAge, elapsed, ticks>>

Configs == Versions \union {Off}
LinkStates == [StpPorts -> LinkRates \union {Off}]
NoLinks == [p \in StpPorts |-> Off]
Bpdus == [port : StpPorts, age : 0..Second + 1, era : 0..1]
Inc(n) == (n + 1) % StpWrap
Less(n, m) == (n + StpWrap - (m % StpWrap)) % StpWrap

StpInit ==
    /\ stp_cfg \in Configs /\ up = NoLinks /\ fault = FALSE
    /\ stp_pc = "top" /\ wanted = Off /\ drained = 0
    /\ version = Off /\ running = FALSE /\ engine = FALSE /\ links = NoLinks
    /\ queue = <<>> /\ rx_dropped = 0
    /\ tickAge = 0 /\ era = 0 /\ balance = 0 /\ elapsed = 0 /\ ticks = 0

(***************************************************************************)
(* fabric_ctrl_frame_rx, in the receive task.                              *)
(***************************************************************************)

\* p is Off for a frame whose ingress tag is missing or not a switch port.
Rx(p) ==
    /\ running
    /\ IF p \in StpPorts /\ Len(queue) < QueueDepth
       THEN queue' = Append(queue, [port |-> p, age |-> 0, era |-> era]) /\ UNCHANGED rx_dropped
       ELSE rx_dropped' = Inc(rx_dropped) /\ UNCHANGED queue
    /\ balance' = Inc(balance)
    /\ UNCHANGED <<stpEnv, stp_pc, wanted, drained, version, running, engine, links, stpClock, era>>

(***************************************************************************)
(* stp_task, one action between two points where the receive task can run. *)
(***************************************************************************)
\* Mutant: BPDUs keep arriving during the restart.
LoopTop_running ==
    /\ stp_pc = "top" /\ wanted' = stp_cfg
    /\ IF stp_cfg # version THEN stp_pc' = "stop" ELSE stp_pc' = "ports"
    /\ UNCHANGED <<stpEnv, running, drained, version, engine, links, queue, rx_dropped, stpClock, era, balance>>

\* Settings are read; a change of version or enabling restarts the engine.
LoopTop ==
    /\ stp_pc = "top" /\ wanted' = stp_cfg
    /\ IF stp_cfg # version
       THEN stp_pc' = "stop" /\ running' = FALSE
       ELSE stp_pc' = "ports" /\ UNCHANGED running
    /\ UNCHANGED <<stpEnv, drained, version, engine, links, queue, rx_dropped, stpClock, era, balance>>

\* Ports are closed and the engine destroyed.
StopEngine ==
    /\ stp_pc = "stop" /\ stp_pc' = "reset" /\ engine' = FALSE
    /\ UNCHANGED <<stpEnv, wanted, drained, version, running, links, queue, rx_dropped, stpClock, era, balance>>

\* xQueueReset: what was queued is not counted as dropped.
ResetEngine ==
    /\ stp_pc = "reset" /\ stp_pc' = "start"
    /\ queue' = <<>> /\ balance' = Less(balance, Len(queue)) /\ links' = NoLinks /\ version' = wanted
    /\ UNCHANGED <<stpEnv, wanted, drained, running, engine, rx_dropped, stpClock, era>>

\* stp_create, unless the port state hardware has failed.
StartEngine ==
    /\ stp_pc = "start" /\ stp_pc' = "run"
    /\ engine' = (version # Off /\ ~fault) /\ era' = (era + 1) % 2
    /\ UNCHANGED <<stpEnv, wanted, drained, version, running, links, queue, rx_dropped, stpClock, balance>>

RunEngine ==
    /\ stp_pc = "run" /\ stp_pc' = "ports"
    /\ running' = (version # Off) /\ tickAge' = 0 /\ elapsed' = 0 /\ ticks' = 0
    /\ UNCHANGED <<stpEnv, wanted, drained, version, engine, links, queue, rx_dropped, era, balance>>

\* stp_port_link_change for every port that differs from the last pass, in its
\* link or in its speed.
PortsStep ==
    /\ stp_pc = "ports" /\ drained' = 0
    /\ IF engine THEN links' = up /\ stp_pc' = "drain" ELSE UNCHANGED links /\ stp_pc' = "publish"
    /\ UNCHANGED <<stpEnv, wanted, version, running, engine, queue, rx_dropped, stpClock, era, balance>>

\* stp_rx_bpdu accepts a well-formed BPDU of an enabled port.
Deliverable(e, wellFormed) == e.age <= Second /\ links[e.port] # Off /\ wellFormed

\* Mutant: the pass goes on while anything is queued.
DrainBpdu_unbounded(wellFormed) ==
    /\ stp_pc = "drain" /\ queue # <<>>
    /\ queue' = Tail(queue) /\ drained' = drained
    /\ IF Deliverable(Head(queue), wellFormed)
       THEN balance' = Less(balance, 1) /\ UNCHANGED rx_dropped
       ELSE rx_dropped' = Inc(rx_dropped) /\ UNCHANGED balance
    /\ UNCHANGED <<stpEnv, stp_pc, wanted, version, running, engine, links, stpClock, era>>

DrainBpdu(wellFormed) ==
    /\ stp_pc = "drain" /\ drained < DrainMax /\ queue # <<>>
    /\ queue' = Tail(queue) /\ drained' = drained + 1
    /\ IF Deliverable(Head(queue), wellFormed)
       THEN balance' = Less(balance, 1) /\ UNCHANGED rx_dropped
       ELSE rx_dropped' = Inc(rx_dropped) /\ UNCHANGED balance
    /\ UNCHANGED <<stpEnv, stp_pc, wanted, version, running, engine, links, stpClock, era>>

Drained ==
    /\ stp_pc = "drain" /\ (drained = DrainMax \/ queue = <<>>)
    /\ stp_pc' = "tick" /\ drained' = 0
    /\ UNCHANGED <<stpEnv, wanted, version, running, engine, links, queue, rx_dropped, stpClock, era, balance>>

\* At most one tick a pass; a late one does not move the next.
TickStep ==
    /\ stp_pc = "tick" /\ stp_pc' = "publish"
    /\ IF tickAge >= Second THEN tickAge' = tickAge - Second /\ ticks' = Inc(ticks) ELSE UNCHANGED <<tickAge, ticks>>
    /\ UNCHANGED <<stpEnv, wanted, drained, version, running, engine, links, queue, rx_dropped, era, balance, elapsed>>

PublishStatus ==
    /\ stp_pc = "publish" /\ stp_pc' = "top" /\ wanted' = Off
    /\ UNCHANGED <<stpEnv, drained, version, running, engine, links, queue, rx_dropped, stpClock, era, balance>>

(***************************************************************************)
(* Environment.                                                            *)
(***************************************************************************)
Time ==
    /\ engine => tickAge < MaxLag
    /\ queue' = [n \in DOMAIN queue |-> [queue[n] EXCEPT !.age = IF @ > Second THEN @ ELSE @ + 1]]
    /\ IF engine /\ stp_pc # "run"
       THEN tickAge' = tickAge + 1 /\ elapsed' = (elapsed + 1) % (Second * StpWrap)
       ELSE UNCHANGED <<tickAge, elapsed>>
    /\ UNCHANGED <<stpEnv, stp_pc, wanted, drained, version, running, engine, links, rx_dropped, era, balance, ticks>>

Configure == \E c \in Configs \ {stp_cfg} : stp_cfg' = c /\ UNCHANGED <<up, fault>>
LinkChange == \E s \in LinkStates \ {up} : up' = s /\ UNCHANGED <<stp_cfg, fault>>
Fault == ~fault /\ fault' = TRUE /\ UNCHANGED <<stp_cfg, up>>
Environment ==
    /\ Configure \/ LinkChange \/ Fault
    /\ UNCHANGED <<stp_pc, wanted, drained, version, running, engine, links, queue, rx_dropped, stpClock, era, balance>>

StpTask ==
    \/ LoopTop \/ StopEngine \/ ResetEngine \/ StartEngine \/ RunEngine \/ PortsStep
    \/ \E w \in BOOLEAN : DrainBpdu(w)
    \/ Drained \/ TickStep \/ PublishStatus

StpNext == StpTask \/ (\E p \in StpPorts \union {Off} : Rx(p)) \/ Time \/ Environment

StpSpec == StpInit /\ [][StpNext]_stpVars

\* The receive task takes at most 16 frames and then sleeps a tick, so
\* stp_task always gets to run.
StpFairSpec == StpSpec /\ WF_stpVars(StpTask)

(***************************************************************************)
(* Properties.                                                             *)
(***************************************************************************)
\* Every variable has its type and the queue keeps to its depth.
StpTypeOK ==
    /\ {stp_cfg, wanted, version} \subseteq Configs /\ {up, links} \subseteq LinkStates
    /\ {fault, running, engine} \subseteq BOOLEAN
    /\ stp_pc \in {"top", "stop", "reset", "start", "run", "ports", "drain", "tick", "publish"}
    /\ drained \in 0..DrainMax /\ queue \in Seq(Bpdus) /\ Len(queue) <= QueueDepth
    /\ {rx_dropped, balance, ticks} \subseteq 0..StpWrap - 1
    /\ tickAge \in 0..MaxLag /\ elapsed \in 0..Second * StpWrap - 1 /\ era \in 0..1

\* During a restart nothing is received: the engine is gone before the queue is
\* emptied, and the queue stays empty until the new engine runs.
RestartQuiet ==
    /\ stp_pc \in {"stop", "reset", "start", "run"} => ~running
    /\ stp_pc \in {"reset", "start"} => ~engine
    /\ stp_pc \in {"start", "run"} => queue = <<>>

\* No BPDU received before a restart reaches the engine created by it,
\* although the receive task may run between any two steps of the restart.
OwnEra == engine => \A n \in DOMAIN queue : queue[n].era = era

\* Every BPDU taken while running is queued, delivered, counted in
\* rx_dropped, or was discarded by a restart.
Accounted == balance = (rx_dropped + Len(queue)) % StpWrap

\* The engine gets exactly the seconds that have passed: late passes delay
\* ticks and never lose or add one.
TicksExact ==
    engine /\ stp_pc # "run" => elapsed = (ticks * Second + tickAge) % (Second * StpWrap)

\* A changed configuration is taken up even under a flood of BPDUs.
Applied(c) == version = c \/ stp_cfg # c
ConfigApplied == \A c \in Configs : []<>Applied(c)

\* A lasting change of a link or of its speed reaches a running engine.
Followed(s) == links = s \/ up # s \/ ~engine
LinksFollowed == \A s \in LinkStates : []<>Followed(s)

\* Restarts, drops and ticks: what reaches the engine is its own, counted and
\* on time.
StpInv == StpTypeOK /\ RestartQuiet /\ OwnEra /\ Accounted /\ TicksExact
=============================================================================
