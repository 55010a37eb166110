# Verification of the open Ethernet switch

TLA+ specifications of the switch fabric and of its R5 firmware, TLC
configurations that check them on small instances, and TLAPS proofs that hold for
every value of the constants. `PROJECT.json` lists the components, the runs, the
lines each definition models (`map`), the hazards of the code with the properties
that would catch them, and the theorems. Paths below are relative to the
repository.

## The system and how its parts interact

The FPGA fabric (`rtl/`) receives frames on six ports into DDR buffers. The
*buffer manager* hands out buffers, keeps a queue per egress port and a reference
count per buffer. The *MAC table* learns stations, ages them and forgets those of a
port that is flushed. *Port control* registers say which ports are up, forward and
learn; clearing one of them flushes the port's queue and addresses.

The firmware (`software/r5/src`) runs FreeRTOS on an R5. `links.c` polls PHYs and
the SFP and admits ports; `stp_task.c` runs the spanning tree engine on BPDUs that
the *fabric DMA* driver receives; both write the port control registers through
`pstate.c`. `network.c` runs the IP stack on the same DMA and takes the ports down
when it fails. `statistics.c` collects the counters, `snmp_*.c` and `web_*.c` serve
them and change the configuration, which `config.c` keeps on a card behind
`usb_*.c`. `mac_dump.c`, `ip_discovery.c`, `sensors.c`, `board.c` and `console.c`
are small services beside them.

## Modules

A step of a module is what a task, an interrupt handler or the hardware does
between two points at which another can act. Variables keep the source's names
where there is one. Operators named `X_word`, introduced as mutants, are wrong
versions of `X`, each a plausible bug, for which the property of a run fails; no
specification uses them.

| Module | Models | State and steps |
|---|---|---|
| `FreeListMgr` | `rtl/buf_mgr/free_list_mgr.sv` | one step per transition of the sequencer |
| `QueueMgr` | `rtl/buf_mgr/queue_mgr.sv` | one step per transition, with head, tail and link memories |
| `BufMgrCore` | both, with the port front ends | the handshakes, and the `q` the lists stand for |
| `BufferPool` | abstract | free set, held frames and FIFO queues |
| `MacTable` | `rtl/mac_table/` | one step per clock cycle: learn engine, sweeps, arbiters, flush |
| `PortControl` | `pstate.c`, the callers in `stp_task.c`, `links.c`, `network.c`, and the registers | one step per register access, lock operation or delay |
| `LinkPoll` | `links.c`, `port_policy.c`, `pstate_link_clear`, fault path of `network.c` | up to six steps per poll (`Sample`, `Decide`, the two of a removal, `AddLinks`, `Tune`), with the outcome of each access chosen |
| `StpBpdu` | `stp_task.c`, BPDU hook of `network.c` | one step per stage of the task's loop |
| `FabricDma` | `fabric_dma.c`, service loop of `network.c` | senders, interrupt handlers, service task, both engines |
| `NetworkPolicy` | `network.c`, `policy.c` | link task, service task, IP task, time |
| `Statistics` | `statistics.c` and the counter bank | source clock, mailbox, bus, task |
| `HttpServer` | `web_task.c`, `settings.c` | listener and workers, one step per lock or storage operation |
| `WebRequest` | `web_protocol.c`, `config_web.c`, receive loop of `web_task.c` | one step per piece received |
| `ConfigStore` | `config.c`, `settings.c`, `settings_media.c` | one step per file operation, power loss between any two |
| `ConfigValid` | the address check of `config.c` | a pure function over all addresses |
| `SnmpOid`, `SnmpEngine`, `SnmpMib`, `SnmpBer` | `snmp_protocol.c`, `snmp_mib.c` | one step per binding; the table; the encodings |
| `MacDump` | `mac_dump.c`, `mac_table_web.c` and the dump engine | engine bursts, cache lines, page requests |
| `IpDiscovery` | `ip_discovery.c` | observation, time, a lookup in two steps |
| `SensorBus` | `sensors.c`, carrier set-up of `usb_storage.c` | one step per start and end of a transfer |
| `UsbMemory`, `UsbDisk` | `usb_memory.c`, `usb_diskio.c`, `usb_storage.c`, `usb_msc_poll` of the USB stack | the list of blocks, one step per call and per turn of the loop of `usb_free`; one step per transfer |
| `BoardClock`, `Console` | `board.c`, `console.c` | counter read, update, tick; UART set-up, one step per character stage |

`MCBufMgrCore`, `MCMacTable`, `MCPortControl`, `MCLinkPoll`, `MCFabricDma` and
`MCHttpServer` give one component its instances. `MCSequential` and `MCServices`
put several small parts that share no state into one run: a behaviour is a behaviour
of one part (`subject`), and the others stay as they start. `MCSequential` has the
parts that run inside one task or one lock: it extends `UsbStorage` and holds
instances of the others, whose variables are the generic `s1`, `s2`, ...
`MCServices` extends the modules of the parts in which tasks, interrupts and
hardware interleave, and has a second instance of address discovery with a larger
table. `UsbStorage` and `Board` join the modules of the last two rows of the
table and state their common invariants, `StorageSound` and `BoardInv`.

### Abstractions

* **Buffer manager**: the arbiters' choice is arbitrary, as their pointers move in
  every cycle; a frame is its length and tag (`Infos`).
* **MacTable**: `Hash` stands for the CRC; an entry of age 0 is empty. The lookup
  side (the banks' second port) is not modelled. A tick finds the last sweep
  finished, and a flush is not asked for again while it is pending.
* **PortControl**: a flush crosses into the fabric as pairs of port and register;
  `linkDirty` and `fwdDirty` are ghosts that remember what a closing still owes.
  The engine may ask for any port states and flushes. A board without the STP
  registers refuses to save an STP configuration (`settings.c:55`), so it never
  runs one. The web task cannot save before the STP task has first read the
  settings: its priority is lower.
* **LinkPoll**: a poll is cut where another task or the hardware can change what it
  has read: configuration, PHYs and busy flag are sampled before `link_update`
  decides, a removal waits for the fabric twice, and the reconfiguration still uses
  the sample. The accesses of one PHY initialisation are one step, which may fail
  before or after the advertisement is written, or without anyone knowing. No other
  task writes a MAC. `owed` is the ports whose `LINK_CLR` the fabric has not flushed
  yet, and flushes of the STP task appear as `Flush`. A core without lock looks like
  a silent module. Once `settled`, a core that was switched is up before the probe
  time ends (`Trained`; the lock timeout is 100 ms, a probe 4 s).
* **StpBpdu**: a port's link is down or up at a speed of `LinkRates`; a change of
  speed is a change like any other. When `pstate` has failed, `running` stays true
  without an engine, and BPDUs fill the queue; this is the code's behaviour.
* **FabricDma**: a received frame fills one descriptor (`MaxDescs`).
  `fabric_dma_init` is the initial state.
* **NetworkPolicy**: DHCP is an external stack that answers or gives up. The link
  task reads the health of the DMA and reports the link in one step; a fault between
  the two is seen at the next poll.
* **Statistics**: a counter adds events or keeps the largest value seen (`MaxSlots`),
  in the bank, in the mailbox and in the task alike (`Join`). A value of
  `CountMax` + 1 stands for all that exceed the width. Counters are at most 30 bits
  wide, so a saturated count is not the sentinel; a running clock answers within the
  bus timeout.
* **HttpServer**: the field `ports` stands for all settings of ports and
  addresses; every wait of a worker has a timeout. Comparing credentials is
  external.
* **MacDump**: cache eviction and prefetch happen at any time. A browser does not
  collect pages across a whole wrap of the generation counter, and starts again
  when the firmware does.
* **IpDiscovery**: one task writes. Fields of invalid entries are forgotten.
* **BoardClock**: a tick comes late by less than one range of the counter. The DMA
  interrupt does not read the clock.
* **UsbMemory** counts in words; the list is a function of the blocks' addresses.
  Callers free what they got, once, and one task owns the heap. In
  **UsbDisk**, polling happens only between requests (`settings_lock`).
* **WebRequest**: a line or field of which only a part has arrived counts as not
  arrived; the keys of the configuration form are scaled to a few per group.
* **SensorBus**: the INA260 loses power only with the board; a transfer given up
  may have reached the device. A conversion that overflowed ends the pass like one
  that is not ready.
* **SnmpEngine**: a binding's size is its number of arcs, and while it is written
  each open header takes `Gap` more, as `begin` reserves four bytes that `end`
  shrinks. Datagrams that cannot be read are one value, `Malformed`.
* **Console**: what is written before `board_console_init` goes to the log ring only.

## Runs

Every property is a definition of the run's module with a comment that says what
it means. Some are conjunctions of named definitions that belong together, so that
a failure names its part.

| Run | Shows |
|---|---|
| `bufmgr` | `IndInv`: every buffer is free, with one ingress, or referenced, exactly one of the three; counts are exact; lists thread what was enqueued; engines and front ends agree. `DownMeansDrained`: a flushed port is empty. `PoolSpec`: the FSMs implement `BufferPool`. |
| `bufmgr_live` | `TrafficFlows`, `FlushCompletes`: with one buffer and two senders, enqueues are answered, waiting front ends get buffers, buffers return, flushes end. |
| `mactable` | `TableInv`: entries are unique and current under learning, aging, flushing and dumping. `FlushPurges`: `flush_busy_o` low means the port's addresses are gone. `SweepsEnd`: sweeps and flushes end. |
| `portctl` | `ControlInv`: between calls the registers are what the tasks asked for. `FlushesOrdered`: no port is reopened before its flush ended, no flush overlaps another outside the failure paths. `FaultsTakeEffect`: both faults close the ports, and no call hangs. |
| `portctl_reopen` | Fails, see Findings. |
| `links` | `LinkInv`: what forwards is set up as recorded. `ReconfiguredOutOfFabric`: nothing is reconfigured inside the fabric or before its queue has been flushed. `PollsSettle`: ports recover, probing finds the SFP partner, a DMA fault empties the fabric. |
| `dma` | `NeverReuseOwned`: no buffer in flight is rewritten. `SentIsOnWire`: success means this frame went out, once. `DmaInv`: ring, tags and wake-ups agree. `TransfersEnd`: sends return, received frames are taken, failures are reported. |
| `stats` | `BankInv`: no count or maximum is lost, doubled or credited elsewhere, saturation is known. `BankReported`: an accepted read is not called an active-clock fault when the clock had stopped, and the bank becomes current again. |
| `http` | `SaveKeepsOthers`: no update is lost. `AuthorisedByCurrent`: no save rests on replaced credentials. `ServerInv`: one owner of each socket, lock and medium. `ClientsClosed`. |
| `config_crash` | `StoreInv`: whatever fails or is cut off, a restart finds an intact, intended configuration. |
| `sequential` | Each pure or single-task part against a definition of what it should compute: SNMP replies against RFC 3416 over the set of objects, a walk of the whole object table, BER both ways including the headers of fields in all byte strings, requests in all pieces, addresses against subnets as sets, the heap and the card after any history. |
| `services` | Invariants, forbidden steps (`ServiceSteps`) and liveness (`StpFollows`, `ServicesSettle`) of the STP task, MAC table dump, network policy, sensor bus, address discovery, clock and console. |

### Bounds, and why they are enough

* Buffer manager: two ports and two buffers already give floods with shared
  buffers, lists of two, an exhausted pool and a flush racing each operation. The
  safety properties are proved for any number of ports and buffers.
* MacTable: three stations in one row of two ways force evictions; two rows make
  a sweep interruptible between rows. `Traffics` splits what is offered together.
* PortControl: one port, since the registers treat ports alike; both tasks and the
  fault path may be anywhere. LinkPoll: one port of each kind, each on a board of
  its own, one with a DMA that may fail; two intervals to a probe.
* FabricDma: a ring of two, two senders, passes of one frame. `Loads` separates
  sending from receiving, which share only `failed` and the interrupt handler.
* Statistics: a summing and a maximum counter that saturate at two, and two events
  each that the ghosts can hold. HttpServer: two
  workers and two clients, a queue of one, two values. ConfigStore: two values, a
  generation counter of four values, so that it wraps.
* The small parts: two of everything that can conflict, and counters that wrap
  within the run. The `SnmpMib` table is the real one, whole.
* STP task: a queue of one, of which a pass may drain two, so that a BPDU that
  arrives while the queue is drained is seen by the same pass; two link speeds.
* SNMP: requests of up to three bindings where two are allowed, and room for eight
  arcs, so that a response fits, just fits, or fits but for its open headers. A field
  is any string of up to five bytes over a scaled alphabet of eight.
* Wrapping ghosts: `balance` is modulo a number larger than the queue it measures and
  `era` modulo two, which tells a BPDU of the era before from a present one. `ticks`
  and `elapsed` wrap after two seconds, which is also the largest lag, so the run tells
  lags apart only modulo two; `StpSound` is proved for every width.

### Fairness

Hardware engines and interrupt handlers are weakly fair: nothing in the RTL or the
vector code can stop them but a fault, which is a step of its own. Tasks are weakly
fair where no task of higher priority can occupy the processor: the receive service
stops after 16 frames and sleeps a tick. Senders of the DMA, takers of the `pstate`
mutex and the link task are strongly fair, because what disables them is a sleep or a
lock that others hold for bounded times again and again; FreeRTOS queues waiters.
Nothing is assumed of devices, clients or power. Recovery properties hold from the
moment (`settled`, `quiet`) at which the environment stops failing. `SweepsEnd` is
conditional on the learn engine running out of requests again and again: learning has
priority over aging, and at a full rate of new addresses aging would wait.

## Proofs

The safety invariant of each run below, but for the link task's, is inductive as it
stands in its module: TLC checks it on the run's instance, TLAPS proves it for every
value of the constants. Besides what the properties need, it says what the steps in
progress have done so far; those conjuncts are named below.

| Module | Content |
|---|---|
| `BufMgrFacts` | facts on sequences and sets; every action keeps types, handshakes and lists |
| `BufMgrAccounts` | every action keeps the accounts, and is a step of `BufferPool` or a stutter; `Inductive`, and from it `TypeCorrect`, `HandshakesCorrect`, `ReferencesUnique`, `ReferencesCounted`, `BuffersAccounted`, `ListsThreaded`, `FlushDrains`, `ImplementsPool` |
| `TableStatsProofs` | MAC table: `TableCorrect` (`TableInv`), `FlushComplete` (`FlushPurges`); statistics: `BankCorrect` (`BankInv`), `FaultsAreActive` (`PendingFaultIsActive`); MAC table dump: `DumpSound` (`DumpInv`), `DumpSteps` (`PublishesOneDump`, `FailureReported`) |
| `LinkStoreProofs` | link task: `LinksCorrect` (`LinkInv`), `QuiescedFirst` (`ReconfiguredOutOfFabric`); configuration store: `StoreInductive` (`StoreInv`), `StoreTypeCorrect`, `RestartSafe`, `GenerationsAdjacent`, `ForeignFilesKept`; network policy: `PolicyCorrect` (`NetInv`), `RetrySafe` (`RetrySparesLease`); STP task: `StpSound` (`StpInv`) |
| `PortControlProofs` | `ControlCorrect` (`ControlInv`), `ReopenedInOrder` (`FlushesOrdered`) |
| `DriverProofs` | fabric DMA: `TransmitCorrect`, `SentOnce` (`SentIsOnWire`), `OwnedUntouched` (`NeverReuseOwned`), `RingCorrect`, `DmaCorrect` (`DmaInv`); sensor bus: `SensorSound` (`SensorInv`) |
| `ServiceProofs` | HTTP server: `ServerCorrect` (`ServerInv`), `NoLostUpdate` (`SaveKeepsOthers`), `SavesAuthorised` (`AuthorisedByCurrent`); address discovery: `DiscoverySound` (`DiscoveryInv`), `DiscoverySteps` (`EvictsOldestAtLimit`) |
| `FirmwareProofs` | USB heap and card: `HeapSound`, `DiskSound`, together `StorageCorrect` (`StorageSound`); clock and console: `ClockSound`, `ConsoleSound`, together `BoardSound` (`BoardInv`) |

A proof module holds several components that share no state, one after the other;
each begins with a heading of its own. It extends the modules the runs extend, so
a theorem and a run speak of the same definition. The assumptions of the small parts
are definitions (`StpAssumption`, ...) that the theorems name as hypotheses and the
MC modules evaluate. The three action properties in `ServiceSteps` are `DumpSteps`,
`RetrySafe` and `DiscoverySteps`.

*Buffer manager.* Assumed are only `NumPorts`, `NumBuffers` positive, a count wide
enough for all ports (`RefMod > NumPorts`, which `REFCNT_W` ensures), and that no
frame is `None`. No conjunct of `IndInv` is inductive alone. A list stays sound
when a buffer is linked because the buffer is in no list yet, which
`BufferAccounting` and `OneReferencePerPort` say; a count stays exact at a release
because the release still owns what it captured, which `HandshakesAgree` says; and
the handshakes read heads and links that `ListsSound` makes real. `FlushDrains`
adds that an enqueue captured with the old link mask is over before the flush is.
The refinement maps a buffer's place in the FSMs to one of the pool's: a frame that
is being linked is already queued, one being flushed is still at the head. What the
steps use of counting is one definition, `Counting`, which the last part of
`BufMgrAccounts` derives from the library's theorems on finite sets.

*MAC table.* Assumed are positive numbers of banks, rows and FIFO places, a hash
that maps addresses to rows, and an age that fits its field. An engine reads a row,
decides, and writes a later cycle, so soundness rests on nothing writing in between:
`TransactionsGranted` says that a grant spans the whole transaction, `ReadsCurrent`
that the read register still is what the row holds, and `BanksInStep` that the banks
grant together although each has its own arbiter, so that a learn decides on all ways
at once. `TableSound` then follows write by write. `LearnWaitBounded` carries a rank,
`Nearness`: each waiting cycle brings each arbiter a stage nearer to the learn
engine. `FlushCovered` says of every entry still to be purged that its port is
pending or the sweep has not passed its row; a learn that re-writes the entry ends
the obligation, and the flush may only end with none left, which is `FlushPurges`.

*Link task.* Assumed are at least one probe tick, an SFP port that is no copper port,
and for each board positive speeds and rates of which one is the largest and, for
speeds, one the smallest; the tables of the boards are finite, so they have one.
Abilities are nonempty sets of speeds, and no copper port is behind both kinds of MAC.
`RecordsTrue` relates the records to the hardware: unless control has failed, the LINK
mask is the one remembered but for the write in progress, `ready` means the PHY was
programmed as recorded, `configured` that the MAC has that speed, and only ports
recorded as both are enabled. A port whose initialisation failed is not recorded as
ready, so no later poll enables what was not set up. `LinkIInv` adds `Along`, what
holds at each place of a poll: which locals are in use, that a port on its way out is
still set up, and that a port whose flush is owed is enabled, being removed, or, until
the network task interferes, shown by the busy flag the poll has sampled or by the
time since its removal. `QuiescedFirst` is read off the last: whatever is
reconfigured has left the fabric and was flushed, although the poll acts on a flag
read several steps before.

*Configuration store.* Assumed are a default among the values and a counter of at
least four values. What a restart loads depends on both files, so `StoreInv` says
at every step of a save that the file of the current generation is untouched and at
which stage the other one is. The arithmetic of the signed difference is a lemma for
any width.

*Port control.* Assumed are modes among off, stp and rstp and that `NoTask` is no
task; the set of ports is arbitrary. A register is ahead of its task's record by the
call in progress, so the invariant follows the calls: `OpQueue` gives those that are
left the shape the STP task gave them, `CallOrder` says that a task is inside the
call at the head and holds the mutex over it, and `StpApplied` and `LinkApplied` say
by which ports registers and records differ at each step of it. `FlushOwed`,
`FlushOrder` and `Flushed` follow a flush from the write of the clear through the
crossing into the fabric to the falling busy flag, and `FlushesOrdered` is read off
them: who opens a port has waited for the flush that its closing owed.

*DMA driver.* Assumed are positive sizes and that `None` is no port, sender or
index. Sending and receiving are proved apart. `TxOwnership` says that the engine is
idle when a sender fills a descriptor, also after an earlier sender gave up, and
`WireExact` that a frame was given to the engine at most once; `WaitHasWaker` adds
the interrupts, so a completion is never lost between engine, handler and semaphore.
`RingOwnership` cuts the ring at the driver's index into complete and empty
descriptors, which takes the modular arithmetic of the ring as lemmas. `TagsInStep`
and `TagLockstep` hold where a frame fills one descriptor, so `DmaCorrect` has the
hypothesis `MaxDescs = 1`; with two the tags are off (see Findings). The other four
theorems have no such hypothesis.

*Statistics.* Assumed are at least one counter and a positive maximum; any set of
counters may keep maxima. `Join`, a sum or a maximum, is commutative and
associative, so it does not matter where an event is on its way. `FourPhase`
says where a result is in each phase of the handshake between the two clocks, so
that `Conserved` loses nothing when a step moves it; `GapKept` that a clock stop is
remembered with the read it fell into, which gives `PendingFaultIsActive`.

*HTTP server.* Assumed are a queue of at least one and that `None` is no worker or
client. `LocksExact` says at which steps a worker holds which lock, `CopiesCurrent`
that the settings copied under the lock still are those of the store, and
`RequestState` which requests reach which step. A save then merges into a current
copy, and compares with current credentials.

*MAC table dump.* Assumed are at least two bursts and a generation counter of more
than two values. Firmware and engine share a buffer through a cache that is not
coherent, and the firmware may restart while the engine runs. `Handover` says which
of `mac_dump.c` and `mac_table_web.c` has the buffer at each step, `EngineSound`
that the engine's count is of what it wrote, and `StagingSound` that no dirty line
is left that could be written over a dump, and no stale one when it is copied. So a
publication is one complete dump (`OneSnapshot`). For the browser,
`PageOfGeneration` bounds how far the generation can be ahead of the one it
collects by the publications it missed; below a whole turn of the counter an equal
generation is the same snapshot, which is `PagesAgree`.

*Network policy.* Assumed are positive times. `NetInv` is inductive with the types:
link task, service and IP task each change a part of the policy in a critical
section, and `Restarting` collects the states in which one of them has promised the
stack a restart and not yet given it.

*STP task.* Assumed are positive depths, periods and counter widths, a task that may
be late by at least a second, and that `Off` is no version or speed. `RestartQuiet`
orders a restart: `running` is off before the engine goes, the queue is emptied after
that and stays empty until the new engine runs, so nothing of the old era can be
queued (`OwnEra`) although the receive task runs between any two steps. `Accounted`
and `TicksExact` are equations modulo the width of counters that wrap; the modular
arithmetic is in lemmas for any width.

*Address discovery.* Assumed are a share below the capacity of the table and a
positive lifetime. `ShareKept` and `OneOwnerPerAddress` count entries; the lemmas
turn the counts into statements on slots, for which an observation is followed
through its three cases, a known address, one that moved and a new one.
`LookupSound` speaks of what a preempted lookup will find, so `LookupKept` says of
every entry of its MAC that it is as old as when the clock was read or was seen
since. `EvictsOldestAtLimit` follows from the choice of the slot and
`OneOwnerPerAddress`.

*Sensor bus.* Assumed is only that the power monitor is not one of the on-chip
blocks. `ProbeSound` says that the set-up of the card reader, by start-up or by a
web worker, ends before the sensor task begins, and what its steps have achieved so
far; `PassSound` that the device's pointer is at the register read and that readings
are kept only from a conversion made as configured, also after a transfer that was
given up.

*USB heap.* Assumed are a region larger than a header and positive sizes and
alignments. `Tiled` ties the links of the list to the addresses and sizes, so that
the list has no gap, overlap or cycle and its order is that of addresses; splitting
and joining keep it. While `usb_free` runs, free neighbours remain only ahead of
its pass, which is `Coalesced`; the pass stays where it is after a join, since the
joined block may have another free neighbour. With free blocks maximal, a gap that
could serve a request would lie in one free block that fits it, which gives
`RefusedOnlyIfFull` from `RefusedFits`, the search as the code makes it.

*USB card.* Assumed are positive sizes and a largest medium below the range of a
sector number. `Progress` says that a request which moved n sectors moved its first
n, on the medium that is still present, and goes on at the next.

*Clock.* Assumed are a tick late by less than a turn of the counter and a time whose
modulus the counter's divides. `StampCurrent` says that the true time is the
extended stamp plus what passed since the last sample, and that a value read and not
yet taken up lies between the two; `OneCaller`, that calls do not overlap, since
interrupts are off in them. An update then sees at most one wrap.

*Console.* Assumed are positive sizes and a counter whose range the ring divides.
`RingExact` is inductive with the types, whether or not the UART is set up: the ghost
`history` shifts by one while the ring turns by one.

Only model-checked:

* all liveness (`TrafficFlows`, `FlushCompletes`, `FaultsTakeEffect`, `SweepsEnd`,
  `TransfersEnd`, `PollsSettle`, the second half of `BankReported`, `ClientsClosed`,
  `StpFollows`, `ServicesSettle`): it rests on fairness and `ENABLED`, which TLAPS
  does not reason about;
* `RepliesCorrect`, `WalksCorrect`, `EncodingsExact` and `RequestsExact`: they compare
  what a fold or a recursive definition computes with a reference, which takes an
  induction over data that the installed provers cannot make, and `SnmpMib` is one
  concrete table;
* `AddressesExact`: it is about the bits of an address, and the prover has no theory
  of `Bitwise`.

## Findings

`portctl_reopen` refutes a comment. `pstate.c:30` says "No further set is permitted
until restart; do not risk reopening a loop." `pstate_fwd_set` tests
`control_failed` and then writes `FWD_SET` without the mutex (`pstate.c:41`); when
the other task's flush times out between the two, its `FWD_CLR` is overtaken and
the port forwards after the latch.

Observations met while modelling, which no run claims:

* `ip_discovery_lookup` reads the clock before its critical section, so an entry
  refreshed in between has a huge unsigned age and is left out of that reply
  (`ip_discovery.c:46`). `LookupSound` holds: nothing false is returned.
* `board_uart_dropped++` is not protected, so two tasks may count one drop
  (`console.c:66`).
* A request followed by another in the same segment is refused or served according
  to how TCP cuts the stream (`web_protocol.c:41`).
* A frame of more than 1536 bytes would fill two receive descriptors but has one
  tag, and shift the tags of all later frames (`fabric_dma.c:157`). The run has
  frames that fit one descriptor (`MaxDescs` = 1).
* A save whose marker reached the card but whose read-back failed is reported as a
  failure, and is what a restart loads. `StoreInv` allows it.

## Not modelled

* **Pure functions beyond a model checker**: base64, SHA-256 and key derivation
  (`auth.c`), the byte layout and CRC of a configuration record.
* **Formatting**: the JSON writers, the SNMP values, the text of log messages.
* **Register set-up without a protocol**: interrupt controller, vectors and fault
  reports (`board.c`), the registers of the UART and USB controller, `disk_ioctl`,
  `usb_runtime.c`, creation of the tasks.
* **Libraries**: FreeRTOS, FreeRTOS+TCP, FatFs, the USB host stack (but for
  `usb_msc_poll`) and mstp-lib are external; the models let them behave in any way
  their interface allows. The hooks that give them random numbers and names, and the
  contents of BPDUs, are left out.
* **Datapaths**: word packing and AXI bursts of the front ends, MAC adapters, SFP
  line coding and auto-negotiation, MDIO shifting, the FIFOs of clock crossings, the
  address resolver and the lookup port of the MAC table.
* **Build variants**: the recovery build of the configuration store
  (`CONFIG_RECOVERY`).
* **Linux image, host tools and test benches.**

## Running

    tlc -workers 2 -config <run>.cfg <module of the run>
    tlapm <module>.tla
