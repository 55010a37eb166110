----------------------------- MODULE SensorBus -----------------------------
(***************************************************************************)
(* PS I2C1 and its two users: the first probe of the SD reader, which      *)
(* takes it out of reset and sets its hub up (usb_storage.c), and the      *)
(* sensor task, which polls the AMS blocks and the INA260 every second     *)
(* (sensors.c).  A transfer is programmed by register writes and polled to *)
(* its end, so two of them at once destroy each other.                     *)
(***************************************************************************)
EXTENDS Naturals, Sequences, FiniteSets

CONSTANTS Blocks       \* AMS blocks: PS and PL

SensorAssumption == "ina" \notin Blocks

VARIABLES
    tasks,       \* startup has created the tasks
    attempted,   \* usb_storage.c
    probe,       \* carrier_init: who runs it, its next transfer, whether that
                 \* is on the wire, and whether the hub took its commands
    carrier,     \* the board: devices in reset, the mux, the hub
    usb,         \* what carrier_init returned
    bus,         \* SR.BA: a transfer given up goes on, or the bus is stuck
    iic_ready, monitor_mask,
    sensor,      \* sensors_task: its step, register, transfer, readings
    ina,         \* the INA260: register pointer, configured, conversion ready,
                 \* whether that was converted as configured
    latest

sensorVars == <<tasks, attempted, probe, carrier, usb, bus, iic_ready, monitor_mask, sensor, ina, latest>>

Unset == "none"
NoProbe == [by |-> Unset, at |-> 0, wire |-> FALSE, ok |-> TRUE]
Waiting == [pc |-> "wait", k |-> 1, wire |-> FALSE, got |-> {}, valid |-> {}]
Outcomes == {"done", "failed"}     \* failed: an error, or the time is up

SensorInit ==
    /\ tasks = FALSE /\ attempted = FALSE /\ probe = NoProbe /\ usb = Unset /\ bus = FALSE
    /\ carrier \in [reset : BOOLEAN, mux : {"open", "closed"}, hub : {FALSE}]
    /\ iic_ready = FALSE /\ monitor_mask = {} /\ sensor = [Waiting EXCEPT !.pc = "off"]
    /\ ina \in [pointer : {"config"}, configured : BOOLEAN, ready : {FALSE}, good : {FALSE}]
    /\ latest = [valid |-> {}, power |-> {}]

(***************************************************************************)
(* usb_storage_probe and carrier_init.                                     *)
(***************************************************************************)
Setup == <<"select", "read", "assert", "release", "open", "bypass", "access", "attach", "close">>

FirstProbe == ~attempted

\* By startup, from settings_init, and then by web workers.
usb_storage_probe(t) ==
    /\ probe.by = Unset /\ FirstProbe /\ IF t = "startup" THEN ~tasks ELSE tasks
    /\ attempted' = TRUE
    /\ \/ probe' = [NoProbe EXCEPT !.by = t, !.at = 1] /\ UNCHANGED usb
       \/ usb' = "failed" /\ UNCHANGED probe     \* the controller has no driver
    /\ UNCHANGED <<tasks, carrier, bus, iic_ready, monitor_mask, sensor, ina, latest>>

\* What a transfer does to the board; the bits of other devices in the reset
\* register are written back as they were read.
Effect(msg) ==
    CASE msg = "assert" -> [carrier EXCEPT !.reset = TRUE, !.hub = FALSE]
      [] msg = "release" -> [carrier EXCEPT !.reset = FALSE]
      [] msg = "open" -> [carrier EXCEPT !.mux = "open"]
      [] msg = "attach" -> [carrier EXCEPT !.hub = carrier.mux = "open" /\ ~carrier.reset]
      [] msg = "close" -> [carrier EXCEPT !.mux = "closed"]
      [] OTHER -> carrier

\* A refused command: give up, but close the mux once it was opened.
AfterFailure ==
    IF Setup[probe.at] \in {"bypass", "access", "attach"}
    THEN probe' = [probe EXCEPT !.at = Len(Setup), !.wire = FALSE, !.ok = FALSE] /\ UNCHANGED usb
    ELSE usb' = "failed" /\ probe' = NoProbe

AfterSuccess ==
    IF probe.at = Len(Setup)
    THEN usb' = (IF probe.ok THEN "up" ELSE "failed") /\ probe' = NoProbe
    ELSE probe' = [probe EXCEPT !.at = @ + 1, !.wire = FALSE] /\ UNCHANGED usb

\* i2c_xfer: refused on a busy bus, else programmed ...
ProbeStart ==
    /\ probe.by # Unset /\ ~probe.wire
    /\ IF bus THEN AfterFailure ELSE probe' = [probe EXCEPT !.wire = TRUE] /\ UNCHANGED usb
    /\ UNCHANGED <<tasks, attempted, carrier, bus, iic_ready, monitor_mask, sensor, ina, latest>>

\* ... and polled; a transfer that failed may still have reached its device.
ProbeEnd ==
    /\ probe.by # Unset /\ probe.wire
    /\ \E out \in Outcomes :
          /\ IF out = "done" THEN AfterSuccess ELSE AfterFailure
          /\ carrier' \in {Effect(Setup[probe.at])} \union (IF out = "done" THEN {} ELSE {carrier})
          /\ bus' \in IF out = "done" THEN {FALSE} ELSE BOOLEAN
    /\ UNCHANGED <<tasks, attempted, iic_ready, monitor_mask, sensor, ina, latest>>

(***************************************************************************)
(* sensors_task.                                                           *)
(***************************************************************************)
\* The rest of startup, when settings_init has returned.
Startup ==
    /\ ~tasks /\ attempted /\ probe.by = Unset
    /\ tasks' = TRUE /\ sensor' = Waiting /\ iic_ready' \in BOOLEAN
    /\ UNCHANGED <<attempted, probe, carrier, usb, bus, monitor_mask, ina, latest>>

Registers == <<"manufacturer", "device", "config", "flags", "current", "voltage", "power">>
Reg == Registers[sensor.k]

\* Every second: monitor_init sets up blocks that are not yet, those that are
\* read sensibly are valid, and the INA260 is next.
Wake ==
    /\ sensor.pc = "wait"
    /\ monitor_mask' \in IF monitor_mask = Blocks THEN {Blocks} ELSE {m \in SUBSET Blocks : monitor_mask \subseteq m}
    /\ \E ok \in SUBSET monitor_mask' : sensor' = [Waiting EXCEPT !.pc = "point", !.valid = ok]
    /\ UNCHANGED <<tasks, attempted, probe, carrier, usb, bus, iic_ready, ina, latest>>

PublishSample(valid, power) ==
    /\ latest' = [valid |-> valid, power |-> power]
    /\ sensor' = Waiting

\* A failed transfer ends the pass without a new power reading.
Failed == PublishSample(sensor.valid, latest.power)

\* iic_transfer: the register pointer, a register, or the configuration.
TransferStart ==
    /\ sensor.pc \in {"point", "read", "configure"} /\ ~sensor.wire
    /\ IF bus \/ ~iic_ready THEN Failed ELSE sensor' = [sensor EXCEPT !.wire = TRUE] /\ UNCHANGED latest
    /\ UNCHANGED <<tasks, attempted, probe, carrier, usb, bus, iic_ready, monitor_mask, ina>>

\* What a transfer does to the INA260: reading the flags, and writing the
\* configuration, withdraw the conversion.
Reached ==
    CASE sensor.pc = "point" -> [ina EXCEPT !.pointer = Reg]
      [] sensor.pc = "configure" -> [ina EXCEPT !.pointer = "config", !.configured = TRUE, !.ready = FALSE, !.good = FALSE]
      [] OTHER -> [ina EXCEPT !.ready = @ /\ ina.pointer # "flags"]

\* A register has been read: another device, a configuration to be written
\* first, no conversion or an overflow of it end the pass; the last register
\* completes it.
AfterRead ==
    LET got == IF sensor.k > 4 THEN sensor.got \union {<<Reg, ina.pointer, ina.good>>} ELSE {} IN
    \/ Reg \in {"manufacturer", "device", "flags"} /\ Failed
    \/ Reg = "config" /\ ~ina.configured /\ sensor' = [sensor EXCEPT !.pc = "configure", !.wire = FALSE] /\ UNCHANGED latest
    \/ sensor.k = Len(Registers) /\ PublishSample(sensor.valid \union {"ina"}, got)
    \/ /\ Reg = "config" => ina.configured
       /\ Reg = "flags" => ina.ready
       /\ sensor.k < Len(Registers)
       /\ sensor' = [sensor EXCEPT !.pc = "point", !.wire = FALSE, !.k = @ + 1, !.got = got] /\ UNCHANGED latest

\* Mutant: the result of setting the register pointer is not looked at.
Proceeds_on(out) == out = "done" \/ sensor.pc = "point"

Proceeds(out) == out = "done"

TransferEnd ==
    /\ sensor.wire
    /\ \E out \in Outcomes :
          /\ IF ~Proceeds(out) \/ sensor.pc = "configure" THEN Failed
             ELSE IF sensor.pc = "point" THEN sensor' = [sensor EXCEPT !.pc = "read", !.wire = FALSE] /\ UNCHANGED latest
             ELSE AfterRead
          /\ ina' \in {Reached} \union (IF out = "done" THEN {} ELSE {ina})
          /\ bus' \in IF out = "done" THEN {FALSE} ELSE BOOLEAN
    /\ UNCHANGED <<tasks, attempted, probe, carrier, usb, iic_ready, monitor_mask>>

\* The INA260 ends a conversion; a bus given up comes free.
Convert ==
    /\ ina' = [ina EXCEPT !.ready = TRUE, !.good = ina.configured]
    /\ UNCHANGED <<tasks, attempted, probe, carrier, usb, bus, iic_ready, monitor_mask, sensor, latest>>
Release ==
    /\ bus /\ bus' = FALSE
    /\ UNCHANGED <<tasks, attempted, probe, carrier, usb, iic_ready, monitor_mask, sensor, ina, latest>>

SensorNext ==
    \/ \E t \in {"startup", "web"} : usb_storage_probe(t)
    \/ ProbeStart \/ ProbeEnd \/ Startup \/ Wake \/ TransferStart \/ TransferEnd \/ Convert \/ Release

SensorSpec == SensorInit /\ [][SensorNext]_sensorVars

\* Startup and the sensor task go on; nothing is asked of the devices.
StartupTask == usb_storage_probe("startup") \/ ProbeStart \/ ProbeEnd \/ Startup
SensorTask == Wake \/ TransferStart \/ TransferEnd
SensorFairSpec == SensorSpec /\ WF_sensorVars(StartupTask) /\ WF_sensorVars(SensorTask)

(***************************************************************************)
(* Properties.                                                             *)
(***************************************************************************)
Readings == {<<r, r, TRUE>> : r \in {"current", "voltage", "power"}}

\* Every variable has its type.
SensorTypeOK ==
    /\ {tasks, attempted, bus, iic_ready} \subseteq BOOLEAN /\ usb \in {Unset, "failed", "up"}
    /\ probe \in [by : {Unset, "startup", "web"}, at : 0..Len(Setup), wire : BOOLEAN, ok : BOOLEAN]
    /\ carrier \in [reset : BOOLEAN, mux : {"open", "closed"}, hub : BOOLEAN]
    /\ monitor_mask \subseteq Blocks
    /\ sensor \in [pc : {"off", "wait", "point", "read", "configure"}, k : 1..Len(Registers), wire : BOOLEAN,
                   got : SUBSET Readings, valid : SUBSET Blocks]
    /\ ina \in [pointer : {Registers[k] : k \in 1..Len(Registers)}, configured : BOOLEAN, ready : BOOLEAN, good : BOOLEAN]

\* Whoever probes the reader does so once, before there is a sensor task, and
\* each step of its setup finds what the steps before it left.
ProbeSound ==
    /\ tasks => attempted /\ probe.by = Unset
    /\ sensor.pc = "off" <=> ~tasks
    /\ probe.by # Unset => attempted /\ usb = Unset /\ probe.at # 0
    /\ usb # Unset => attempted
    /\ probe.by # Unset /\ probe.ok =>
         /\ probe.at > 4 => ~carrier.reset
         /\ probe.at > 5 => carrier.mux = "open"
         /\ probe.at > 8 => carrier.hub

\* A pass reads a register only after pointing at it, passes the flags only
\* with a conversion made as configured, and keeps no other reading.
Taken(k) == {<<Registers[j], Registers[j], TRUE>> : j \in 5..(k - 1)}
PassSound ==
    /\ sensor.pc = "read" => ina.pointer = Reg
    /\ sensor.pc = "configure" => sensor.k = 3
    /\ sensor.wire => sensor.pc \in {"point", "read", "configure"}
    /\ sensor.k > 3 => ina.configured
    /\ ina.configured /\ ina.ready => ina.good
    /\ sensor.k > 4 => ina.good
    /\ sensor.got = Taken(sensor.k)

\* The setup of the SD reader and the sensor task never use the bus at once,
\* however late a web worker probes the card.
OneMaster == probe.by = Unset \/ sensor.pc = "off"

\* A power reading is published only if each of its values came from its own
\* register, from a conversion the device made as configured.
PowerGenuine ==
    /\ "ina" \in latest.valid => latest.power # {}
    /\ latest.power # {} =>
         /\ {g[1] : g \in latest.power} = {"current", "voltage", "power"}
         /\ \A g \in latest.power : g[2] = g[1] /\ g[3]

\* The reader is reported set up only out of reset, with its hub attached
\* and the mux closed behind it.
CarrierReady == usb = "up" => carrier = [reset |-> FALSE, mux |-> "closed", hub |-> TRUE]

\* Failing devices and a stuck bus never stop startup or the sensor task:
\* there is always another sample.
Resting == sensor.pc = "wait"
SamplesGoOn == []<>Resting

\* One user of the bus at a time, and nothing reported that it did not give.
SensorInv == SensorTypeOK /\ ProbeSound /\ PassSound /\ OneMaster /\ PowerGenuine /\ CarrierReady
=============================================================================
