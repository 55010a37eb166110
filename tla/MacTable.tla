------------------------------- MODULE MacTable -------------------------------
(***************************************************************************)
(* The write side of the MAC address table, clock cycle by clock cycle:    *)
(* learn_engine_fsm, one aging_sweep_fsm and one bank_arbiter per bank,    *)
(* the port A multiplexers and the flush orchestration of                  *)
(* mac_addr_table_top.                                                     *)
(*                                                                         *)
(* All FSMs share a clock, and who may touch a bank depends on exactly     *)
(* when a request drops, so a step is one clock cycle: every register      *)
(* takes its next value at once, and the inputs of the cycle are chosen.   *)
(*                                                                         *)
(* Abstractions: Hash stands for the CRC; an entry whose age is 0 is       *)
(* Empty, as no reader looks at its other fields; a bank's read register   *)
(* is Empty while nobody will read it.                                     *)
(***************************************************************************)
EXTENDS Integers, Sequences

CONSTANTS
  NumBanks,    \* NUM_BANKS
  NumRows,     \* BANK_DEPTH
  NumQuads,    \* AGE_TICKS_PER_SWEEP
  Macs,        \* the addresses
  Hash,        \* [Macs -> Rows], mac_hash9
  Ports,
  DefaultAge,  \* default_age_i
  AgeMod,      \* 2 ^ AGE_W
  FifoDepth,   \* LEARN_FIFO_DEPTH
  Traffics,    \* what the network may offer: sets of requests [mac, port]
  None

Banks == 0 .. NumBanks - 1
Rows == 0 .. NumRows - 1
Quads == 0 .. NumQuads - 1
QuadRows == NumRows \div NumQuads

ASSUME TableAssumption ==
  /\ NumBanks \in Nat \ {0} /\ NumQuads \in Nat \ {0}
  /\ QuadRows \in Nat \ {0} /\ NumRows = NumQuads * QuadRows
  /\ Hash \in [Macs -> Rows]
  /\ AgeMod \in Nat /\ DefaultAge \in 1 .. AgeMod - 1 /\ FifoDepth \in Nat \ {0}
  /\ \A t \in Traffics : t \subseteq [mac : Macs, port : Ports]
  /\ None \notin Macs \cup Ports

VARIABLES
  traffic,    \* which stations speak, and on which ports: a member of Traffics
  mem,        \* the banks
  rdata,      \* a_rdata_o of each bank
  learnFifo,  \* u_learn_fifo, requests [mac, port]
  learn,      \* learn_engine_fsm.state_q
  lreq,       \* mac_q, port_id_q: the request being written
  arb,        \* bank_arbiter.state_q
  sweep,      \* aging_sweep_fsm registers of each bank
  pend,       \* flush_pend_q
  fstate,     \* fstate_q
  last,       \* the port each address was last learned on
  doomed,     \* the entries that held a flushed port when its flush was requested
  waited      \* cycles the learn engine has been in S_REQ

vars == <<traffic, mem, rdata, learnFifo, learn, lreq, arb, sweep, pend, fstate, last, doomed, waited>>

Empty == [mac |-> None, mask |-> {}, age |-> 0]
Live(e) == e.age # 0
Entries == {Empty} \cup [mac : Macs, mask : {{p} : p \in Ports}, age : 1 .. DefaultAge]
Requests == [mac : Macs, port : Ports]
Sweeps == [st : {"IDLE", "REQ", "READ", "WRITE", "GAP"}, addr : Rows, quad : Quads,
           flush : BOOLEAN, mask : SUBSET Ports]

\* The longest the learn engine waits for the bus: one row of a sweep that
\* was granted in the same cycle, and the arbiter's two steps.
MaxWait == 6

TypeOK ==
  /\ traffic \in Traffics
  /\ mem \in [Banks -> [Rows -> Entries]]
  /\ rdata \in [Banks -> Entries]
  /\ learnFifo \in Seq(Requests) /\ Len(learnFifo) <= FifoDepth
  /\ learn \in {"IDLE", "REQ", "POP", "READ_LAT", "WRITE"}
  /\ lreq \in Requests \cup {None}
  /\ arb \in [Banks -> {"IDLE", "LEARN", "AGING", "DUMP"}]
  /\ sweep \in [Banks -> Sweeps]
  /\ pend \subseteq Ports
  /\ fstate \in {"IDLE", "RUN_WAIT", "RUN"}
  /\ last \in [Macs -> Ports \cup {None}]
  /\ doomed \subseteq Banks \X Rows
  /\ waited \in 0 .. MaxWait

Init ==
  /\ traffic \in Traffics
  /\ mem = [b \in Banks |-> [r \in Rows |-> Empty]]
  /\ rdata = [b \in Banks |-> Empty]
  /\ learnFifo = <<>> /\ learn = "IDLE" /\ lreq = None
  /\ arb = [b \in Banks |-> "IDLE"]
  /\ sweep = [b \in Banks |-> [st |-> "IDLE", addr |-> 0, quad |-> 0, flush |-> FALSE, mask |-> {}]]
  /\ pend = {} /\ fstate = "IDLE"
  /\ last = [m \in Macs |-> None]
  /\ doomed = {} /\ waited = 0
-----------------------------------------------------------------------------
(* Requests and grants.                                                    *)

LearnReq == learn # "IDLE"
LearnGnt == \A b \in Banks : arb[b] = "LEARN"

AgingReq(b) == sweep[b].st \in {"REQ", "READ", "WRITE"}

\* bank_arbiter: a grant is held until its request drops; learn first, then
\* aging, then the dump, which any of the others may interrupt.
ArbNext(b, dump) ==
  IF (arb[b] = "LEARN" /\ LearnReq) \/ (arb[b] = "AGING" /\ AgingReq(b)) THEN arb[b]
  ELSE IF arb[b] \in {"LEARN", "AGING"} THEN "IDLE"
  ELSE IF LearnReq THEN "LEARN"
  ELSE IF AgingReq(b) THEN "AGING"
  ELSE IF dump = b THEN "DUMP"
  ELSE "IDLE"

BankBusy == \E b \in Banks : sweep[b].st # "IDLE"
FlushStart == fstate = "IDLE" /\ pend # {} /\ ~BankBusy
FlushBusy_sweeping == fstate # "IDLE"
FlushBusy == fstate # "IDLE" \/ pend # {}
-----------------------------------------------------------------------------
(* The learn engine.                                                       *)

Matches(b) == Live(rdata[b]) /\ rdata[b].mac = lreq.mac

First(S) == CHOOSE b \in S : \A c \in S : b <= c

ChosenWay_empty ==
  LET empty == {b \in Banks : ~Live(rdata[b])}
  IN IF empty # {} THEN First(empty) ELSE 0

\* The way to write: the one that holds the address, else the first empty
\* one, else the first of the oldest.
ChosenWay ==
  LET match == {b \in Banks : Matches(b)}
      empty == {b \in Banks : ~Live(rdata[b])}
      oldest == {b \in Banks : \A c \in Banks : rdata[b].age <= rdata[c].age}
  IN IF match # {} THEN First(match) ELSE IF empty # {} THEN First(empty) ELSE First(oldest)

LearnNext ==
  CASE learn = "IDLE" -> IF learnFifo = <<>> THEN "IDLE" ELSE "REQ"
    [] learn = "REQ" -> IF LearnGnt THEN "POP" ELSE "REQ"
    [] learn = "POP" -> "READ_LAT"
    [] learn = "READ_LAT" -> "WRITE"
    [] learn = "WRITE" -> "IDLE"

\* sync_fifo: a request is accepted while the FIFO is not full, and S_POP
\* takes one out.
FifoNext(push) ==
  LET popped == IF learn = "POP" THEN Tail(learnFifo) ELSE learnFifo
  IN IF push = None \/ Len(learnFifo) = FifoDepth THEN popped ELSE Append(popped, push)
-----------------------------------------------------------------------------
(* A bank's sweep: aging walks one quadrant on a tick, a flush the bank.   *)

SweepLast(s) ==
  IF s.flush THEN s.addr = NumRows - 1 ELSE s.addr % QuadRows = QuadRows - 1

SweepNext(b, tick) ==
  LET s == sweep[b]
  IN CASE s.st = "IDLE" /\ FlushStart ->
            [s EXCEPT !.st = "REQ", !.flush = TRUE, !.mask = pend, !.addr = 0]
       [] s.st = "IDLE" /\ ~FlushStart /\ tick ->
            [s EXCEPT !.st = "REQ", !.flush = FALSE, !.mask = {}, !.addr = s.quad * QuadRows]
       [] s.st = "IDLE" /\ ~FlushStart /\ ~tick -> s
       [] s.st = "REQ" -> [s EXCEPT !.st = IF arb[b] = "AGING" THEN "READ" ELSE "REQ"]
       [] s.st = "READ" -> [s EXCEPT !.st = "WRITE"]
       [] s.st = "WRITE" ->
            [s EXCEPT !.st = IF SweepLast(s) THEN "IDLE" ELSE "GAP",
                      !.addr = (s.addr + 1) % NumRows,
                      !.quad = IF SweepLast(s) /\ ~s.flush THEN (s.quad + 1) % NumQuads ELSE s.quad]
       [] s.st = "GAP" -> [s EXCEPT !.st = "REQ"]

\* What a sweep writes over entry e.
Swept(s, e) ==
  IF s.flush
  THEN IF e.mask \subseteq s.mask THEN Empty ELSE e
  ELSE IF e.age = 1 THEN Empty ELSE [e EXCEPT !.age = (e.age - 1) % AgeMod]

PendNext_kept(req) == pend \cup req
PendNext(req) == (IF FlushStart THEN {} ELSE pend) \cup req

FlushNext ==
  CASE fstate = "IDLE" -> IF FlushStart THEN "RUN_WAIT" ELSE "IDLE"
    [] fstate = "RUN_WAIT" -> IF BankBusy THEN "RUN" ELSE "RUN_WAIT"
    [] fstate = "RUN" -> IF BankBusy THEN "RUN" ELSE "IDLE"
-----------------------------------------------------------------------------
(* Port A of a bank: whoever the arbiter has granted drives it.            *)

LearnWrites(b) == arb[b] = "LEARN" /\ learn = "WRITE" /\ b = ChosenWay
SweepWrites(b) == arb[b] = "AGING" /\ sweep[b].st = "WRITE" /\ Live(rdata[b])

MemNext(b) ==
  [r \in Rows |->
    IF LearnWrites(b) /\ r = Hash[lreq.mac]
    THEN [mac |-> lreq.mac, mask |-> {lreq.port}, age |-> DefaultAge]
    ELSE IF SweepWrites(b) /\ r = sweep[b].addr THEN Swept(sweep[b], rdata[b])
    ELSE mem[b][r]]

DumpReads(b, dump) == dump = b /\ arb[b] = "DUMP" /\ ~LearnReq /\ ~AgingReq(b)

\* The read register, Empty unless the learn engine or the sweep is about to
\* use it.  What a dump reads is not modelled, only that it overwrites it.
RdataNext(b, dump) ==
  IF arb[b] = "LEARN" /\ learn = "POP" THEN mem[b][Hash[Head(learnFifo).mac]]
  ELSE IF arb[b] = "AGING" /\ sweep[b].st = "READ" THEN mem[b][sweep[b].addr]
  ELSE IF learn \notin {"POP", "READ_LAT"} /\ sweep[b].st # "READ" THEN Empty
  ELSE IF DumpReads(b, dump) THEN Empty
  ELSE rdata[b]

Holding(m, req) == {br \in Banks \X Rows : Live(m[br[1]][br[2]]) /\ m[br[1]][br[2]].mask \subseteq req}

\* One clock cycle with the inputs: a learn request that wins its arbiter,
\* the aging tick, the flush requests and the bank being dumped.
Cycle(push, tick, req, dump) ==
  /\ learn' = LearnNext
  /\ learnFifo' = FifoNext(push)
  /\ lreq' = IF learn = "POP" THEN Head(learnFifo) ELSE IF learn = "WRITE" THEN None ELSE lreq
  /\ arb' = [b \in Banks |-> ArbNext(b, dump)]
  /\ sweep' = [b \in Banks |-> SweepNext(b, tick)]
  /\ mem' = [b \in Banks |-> MemNext(b)]
  /\ rdata' = [b \in Banks |-> RdataNext(b, dump)]
  /\ pend' = PendNext(req)
  /\ fstate' = FlushNext
  /\ last' = IF learn = "WRITE" THEN [last EXCEPT ![lreq.mac] = lreq.port] ELSE last
  /\ LET written == {<<b, Hash[lreq.mac]>> : b \in {c \in Banks : learn = "WRITE" /\ LearnWrites(c)}}
     IN doomed' = {br \in (doomed \ written) \cup Holding(mem', req) : Live(mem'[br[1]][br[2]])}
  /\ waited' = IF learn = "REQ" /\ ~LearnGnt /\ waited < MaxWait THEN waited + 1
               ELSE IF learn = "REQ" /\ ~LearnGnt THEN waited ELSE 0
  /\ UNCHANGED traffic

\* The inputs that can make a difference in this cycle.
Pushes == {None} \cup {r \in traffic : Len(learnFifo) < FifoDepth}
Ticks == {FALSE} \cup {\E b \in Banks : sweep[b].st = "IDLE"}
Flushes == {{}} \cup {{r.port} : r \in traffic}
Dumps == {None} \cup {b \in Banks : ~LearnReq /\ ~AgingReq(b)}

\* Ticks are 250 ms apart, so that one finds the last sweep finished, and a
\* flush is not requested again while its request waits.
Next ==
  \E push \in Pushes, tick \in {t \in Ticks : t => ~BankBusy},
     req \in {f \in Flushes : f \cap pend = {}}, dump \in Dumps :
    Cycle(push, tick, req, dump)

\* The clock does not stop, and in every state some cycle changes something:
\* a sweep or a learn under way, or else a tick.  This is WF_vars(Next) with
\* ENABLED left out.
Fairness == []<><<TRUE>>_vars

Spec == Init /\ [][Next]_vars /\ Fairness
-----------------------------------------------------------------------------
\* Whoever is in the middle of a read-modify-write holds the bank: the learn
\* engine all of them from S_POP to S_WRITE, a sweep its own for its row.
TransactionsGranted ==
  /\ learn \in {"POP", "READ_LAT", "WRITE"} => LearnGnt
  /\ \A b \in Banks : sweep[b].st \in {"READ", "WRITE"} => arb[b] = "AGING"

\* The sweeps of the banks never come apart, whatever is being dumped: a
\* dump gives a bank up in the cycle it is asked for.
BanksInStep ==
  \A b, c \in Banks :
    sweep[b] = sweep[c] /\ \A g \in {"LEARN", "AGING"} : arb[b] = g <=> arb[c] = g

\* What an engine decides on is what its row still holds when it writes: the
\* read register is current from the read to the write.
ReadsCurrent ==
  /\ learn \in {"REQ", "POP"} => learnFifo # <<>>
  /\ learn \in {"READ_LAT", "WRITE"} =>
       lreq \in Requests /\ \A b \in Banks : rdata[b] = mem[b][Hash[lreq.mac]]
  /\ \A b \in Banks : sweep[b].st = "WRITE" => rdata[b] = mem[b][sweep[b].addr]

\* An address is in at most one way, in the row of its hash, and with the
\* port it was last learned on: no interleaving of learning, aging and
\* flushing duplicates an entry, or writes an older one back over it.
TableSound ==
  \A b \in Banks, r \in Rows :
    LET e == mem[b][r]
    IN Live(e) =>
         /\ Hash[e.mac] = r
         /\ e.mask = {last[e.mac]}
         /\ \A c \in Banks \ {b} : Live(mem[c][r]) => mem[c][r].mac # e.mac

\* flush_busy_o covers the whole flush: once it is low, every entry that
\* held a flushed port when the flush was requested is gone, unless it was
\* learned again since.
FlushPurges == ~FlushBusy => doomed = {}

\* How far an arbiter is on its way to the learn engine's grant.
Nearness(b) ==
  IF arb[b] = "LEARN" THEN 5
  ELSE IF arb[b] # "AGING" THEN 4
  ELSE IF sweep[b].st \in {"IDLE", "GAP"} THEN 3
  ELSE IF sweep[b].st = "WRITE" THEN 2
  ELSE IF sweep[b].st = "READ" THEN 1 ELSE 0

\* bank_arbiter: every cycle a learn request waits brings the grant nearer, so
\* that it waits for at most one row of a sweep.
LearnWaitBounded ==
  /\ waited < MaxWait
  /\ \A b \in Banks : waited <= IF learn = "REQ" THEN Nearness(b) ELSE 0

\* An entry that was to be flushed and is still there has its port pending,
\* or a flush of that port under way that has yet to come to its row.
FlushCovered ==
  /\ \A b \in Banks : sweep[b].st # "IDLE" /\ sweep[b].flush => fstate # "IDLE"
  /\ \A b \in Banks, r \in Rows :
       <<b, r>> \in doomed =>
         /\ Live(mem[b][r])
         /\ \/ mem[b][r].mask \subseteq pend
            \/ /\ sweep[b].st # "IDLE" /\ sweep[b].flush
               /\ sweep[b].addr <= r /\ mem[b][r].mask \subseteq sweep[b].mask

\* Two engines that read, decide and write back later share the banks without
\* ever writing over each other, and the table stays sound.
TableInv ==
  /\ TypeOK /\ TransactionsGranted /\ BanksInStep /\ ReadsCurrent /\ TableSound
  /\ LearnWaitBounded /\ FlushCovered

\* The learn engine runs out of requests again and again.
LearnCatchesUp == []<>(learn = "IDLE" /\ learnFifo = <<>>)

\* A sweep that asks for its bank gets it, if the learn engine catches up.
SweepProgress ==
  LearnCatchesUp => \A b \in Banks : sweep[b].st = "REQ" ~> sweep[b].st = "READ"

\* A flush request is taken up and its run ends, if the learn engine catches
\* up: flush_busy_o, which the firmware polls, does not stay high.
FlushCompletes ==
  LearnCatchesUp =>
    /\ fstate # "IDLE" ~> fstate = "IDLE"
    /\ \A p \in Ports : p \in pend ~> p \notin pend

\* Neither aging nor flushing is starved by the priority of learning.
SweepsEnd == SweepProgress /\ FlushCompletes
=============================================================================
