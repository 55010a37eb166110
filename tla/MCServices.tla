----------------------------- MODULE MCServices -----------------------------
(***************************************************************************)
(* The parts of the firmware in which tasks, interrupts and hardware       *)
(* interleave on a small state: spanning tree task, MAC table dump,        *)
(* network policy, sensor bus, address discovery, clock, console.  They    *)
(* share no variable, so a behaviour is one of one part, the subject; the  *)
(* others stay as they start.                                              *)
(***************************************************************************)
EXTENDS StpBpdu, MacDump, NetworkPolicy, SensorBus, IpDiscovery, Board

VARIABLES subject, crowd, nobody

(***************************************************************************)
(* Address discovery again, with a larger table and share and without      *)
(* lookups.                                                                *)
(***************************************************************************)
Crowd == INSTANCE IpDiscovery WITH
    Ips <- {"i1", "i2", "i3", "i4"}, Looked <- {}, Capacity <- 3, PerMac <- 2, Ttl <- 3, Delay <- 0,
    entries <- crowd, reader <- nobody

Parts == {"stp", "dump", "net", "sensors", "discovery", "crowd", "clock", "console"}
vars == <<subject, stpVars, dumpVars, netVars, sensorVars, discoveryVars, crowd, nobody, clockVars, consoleVars>>

ASSUME ConstantsFit ==
    /\ StpAssumption /\ DumpAssumption /\ PolicyAssumption /\ SensorAssumption
    /\ DiscoveryAssumption /\ Crowd!DiscoveryAssumption /\ ClockAssumption /\ ConsoleAssumption

(***************************************************************************)
(* One part at a time.  Of a part that stays as it starts, one initial     *)
(* state is enough.                                                        *)
(***************************************************************************)
Init ==
    /\ subject \in Parts
    /\ StpInit /\ (subject # "stp" => stp_cfg = Off)
    /\ DumpInit /\ (subject # "dump" => abi)
    /\ NetInit /\ (subject # "net" => use_dhcp)
    /\ SensorInit /\ (subject # "sensors" => carrier.reset /\ carrier.mux = "open" /\ ina.configured)
    /\ DiscoveryInit /\ Crowd!DiscoveryInit /\ ClockInit /\ ConsoleInit

OnlyStp == UNCHANGED <<subject, dumpVars, netVars, sensorVars, discoveryVars, crowd, nobody, clockVars, consoleVars>>
OnlyDump == UNCHANGED <<subject, stpVars, netVars, sensorVars, discoveryVars, crowd, nobody, clockVars, consoleVars>>
OnlyNet == UNCHANGED <<subject, stpVars, dumpVars, sensorVars, discoveryVars, crowd, nobody, clockVars, consoleVars>>
OnlySensors == UNCHANGED <<subject, stpVars, dumpVars, netVars, discoveryVars, crowd, nobody, clockVars, consoleVars>>
OnlyDiscovery == UNCHANGED <<subject, stpVars, dumpVars, netVars, sensorVars, crowd, nobody, clockVars, consoleVars>>
OnlyCrowd == UNCHANGED <<subject, stpVars, dumpVars, netVars, sensorVars, discoveryVars, clockVars, consoleVars>>
OnlyClock == UNCHANGED <<subject, stpVars, dumpVars, netVars, sensorVars, discoveryVars, crowd, nobody, consoleVars>>
OnlyConsole == UNCHANGED <<subject, stpVars, dumpVars, netVars, sensorVars, discoveryVars, crowd, nobody, clockVars>>

Next ==
    \/ subject = "stp" /\ StpNext /\ OnlyStp
    \/ subject = "dump" /\ DumpNext /\ OnlyDump
    \/ subject = "net" /\ NetNext /\ OnlyNet
    \/ subject = "sensors" /\ SensorNext /\ OnlySensors
    \/ subject = "discovery" /\ DiscoveryNext /\ OnlyDiscovery
    \/ subject = "crowd" /\ Crowd!DiscoveryNext /\ OnlyCrowd
    \/ subject = "clock" /\ ClockNext /\ OnlyClock
    \/ subject = "console" /\ ConsoleNext /\ OnlyConsole

(***************************************************************************)
(* Fairness: what each module assumes of its own tasks.                    *)
(***************************************************************************)
Fairness ==
    /\ WF_stpVars(subject = "stp" /\ StpTask)
    /\ WF_dumpVars(subject = "dump" /\ Engine)
    /\ WF_dumpVars(subject = "dump" /\ Page)
    /\ WF_netVars(subject = "net" /\ Service)
    /\ WF_netVars(subject = "net" /\ IpTask)
    /\ WF_netVars(subject = "net" /\ NetTick)
    /\ SF_netVars(subject = "net" /\ Link)
    /\ WF_sensorVars(subject = "sensors" /\ StartupTask)
    /\ WF_sensorVars(subject = "sensors" /\ SensorTask)
    /\ \A w \in Writers : WF_consoleVars(subject = "console" /\ Outbyte(w))

Spec == Init /\ [][Next]_vars /\ Fairness

(***************************************************************************)
(* Properties: of each part, what its module says; the invariants are the  *)
(* modules' own, StpInv, DumpInv, NetInv, SensorInv, DiscoveryInv and      *)
(* BoardInv.                                                               *)
(***************************************************************************)
\* What no step may do: web_mac_table publishes only one complete dump and a
\* failed one leaves the last snapshot; a timed retry never tears down a lease;
\* an observation drops only the oldest mapping, and only at a limit.
ServiceSteps ==
    [][/\ subject = "dump" => PublishStep /\ FailureStep
       /\ subject = "net" => RetryStep
       /\ subject = "discovery" => ObserveStep
       /\ subject = "crowd" => Crowd!ObserveStep]_vars

\* stp_task takes up a changed configuration, and tells a running engine of a
\* lasting change of a link or its speed, even under a flood of BPDUs.
StpFollows ==
    /\ \A c \in Configs : []<>(subject = "stp" => Applied(c))
    /\ \A s \in LinkStates : []<>(subject = "stp" => Followed(s))

\* What must happen in the end: a pending dump is published or reported; the
\* interface regains its address when links stay and the server answers, a lost
\* link reaches the stack, and a DMA fault keeps it down; samples go on whatever
\* fails; printing ends although the UART is stuck.
ServicesSettle ==
    /\ []<>(subject = "dump" => ~Pending)
    /\ <>[](subject = "net" => Bound)
    /\ []<>(subject = "net" => LossKnown)
    /\ <>[](subject = "net" => DownByFault)
    /\ []<>(subject = "sensors" => Resting)
    /\ \A w \in Writers : []<>(subject = "console" => Done(w))
=============================================================================
