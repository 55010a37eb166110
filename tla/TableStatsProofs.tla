-------------------------- MODULE TableStatsProofs ---------------------------
(***************************************************************************)
(* Two blocks of the fabric, each proved correct for every size, and the   *)
(* dump of the first.                                                      *)
(*                                                                         *)
(* The MAC address table stays sound, for any number of banks, rows,       *)
(* addresses and ports: TableInv is inductive, and FlushPurges follows.    *)
(*                                                                         *)
(* The counters of a bank are conserved, for any number of counters of any *)
(* width.  BankInv is inductive: the four phases of a read (FourPhase) say *)
(* where the value of a counter is at every step of its way.               *)
(*                                                                         *)
(* The pages of the MAC table that the web interface serves under one      *)
(* generation come from one dump.                                          *)
(***************************************************************************)
EXTENDS MacTable, Statistics, MacDump, TLAPS

\* What an input of a cycle may be: the learn request, the aging tick and the
\* flush requests.
Inputs(push, tick, req) ==
  /\ push = None \/ (push \in Requests /\ Len(learnFifo) < FifoDepth)
  /\ tick \in BOOLEAN /\ (tick => ~BankBusy)
  /\ req \subseteq Ports

\* Every cycle's inputs are such.
LEMMA NextInputs ==
  ASSUME TypeOK, Next
  PROVE  \E push, tick, req, dump : Inputs(push, tick, req) /\ Cycle(push, tick, req, dump)
<1>1. PICK push \in Pushes, tick \in {t \in Ticks : t => ~BankBusy},
           req \in {f \in Flushes : f \cap pend = {}}, dump \in Dumps :
        Cycle(push, tick, req, dump)
  BY Zenon DEF Next
<1>2. traffic \subseteq Requests
  BY Zenon, TableAssumption DEF TypeOK, Requests
<1>3. push = None \/ (push \in Requests /\ Len(learnFifo) < FifoDepth)
  BY Zenon, <1>2 DEF Pushes
<1>4. tick \in BOOLEAN /\ (tick => ~BankBusy)
  BY Zenon DEF Ticks
<1>5. req \subseteq Ports
  BY Zenon, <1>2 DEF Flushes, Requests
<1> QED  BY <1>1, <1>3, <1>4, <1>5, Zenon DEF Inputs

\* The geometry of the banks.
LEMMA Geometry ==
  /\ NumRows \in Nat \ {0} /\ 0 \in Rows /\ 0 \in Banks
  /\ \A q \in Quads : q * QuadRows \in Rows
  /\ \A a \in Rows : (a + 1) % NumRows \in Rows /\ (a # NumRows - 1 => (a + 1) % NumRows = a + 1)
  /\ \A q \in Quads : (q + 1) % NumQuads \in Quads
<1>1. /\ NumBanks \in Nat \ {0} /\ NumQuads \in Nat \ {0} /\ QuadRows \in Nat \ {0}
      /\ NumRows = NumQuads * QuadRows
  BY Zenon, TableAssumption
<1>2. \A m, n \in Nat \ {0} : m * n \in Nat \ {0}
  OBVIOUS
<1>3. NumRows \in Nat \ {0}
  BY Zenon, <1>1, <1>2
<1>4. \A m, n \in Nat \ {0} : \A q \in 0 .. m - 1 : q * n \in 0 .. m * n - 1
  <2>1. SUFFICES ASSUME NEW m \in Nat \ {0}, NEW n \in Nat \ {0}, NEW q \in 0 .. m - 1
                 PROVE  q * n \in 0 .. m * n - 1
    BY Zenon
  <2>2. (m - q) * n \in Nat \ {0}
    BY <1>2
  <2>3. (m - q) * n = m * n - q * n
    OBVIOUS
  <2>4. q * n \in Nat /\ m * n \in Nat
    OBVIOUS
  <2> QED  BY <2>2, <2>3, <2>4
<1>5. \A q \in Quads : q * QuadRows \in Rows
  BY Zenon, <1>1, <1>4 DEF Quads, Rows
<1>6. \A n \in Nat \ {0} : \A a \in 0 .. n - 1 :
        (a + 1) % n \in 0 .. n - 1 /\ (a # n - 1 => (a + 1) % n = a + 1)
  OBVIOUS
<1>7. \A a \in Rows : (a + 1) % NumRows \in Rows /\ (a # NumRows - 1 => (a + 1) % NumRows = a + 1)
  BY <1>3, <1>6, Zenon DEF Rows
<1>8. \A q \in Quads : (q + 1) % NumQuads \in Quads
  BY <1>1, <1>6, Zenon DEF Quads
<1>9. 0 \in Rows /\ 0 \in Banks
  BY <1>1, <1>3 DEF Rows, Banks
<1> QED  BY Zenon, <1>3, <1>5, <1>7, <1>8, <1>9

\* A live entry holds an address, the port it was learned on and an age.
LEMMA EntryShape ==
  /\ ~Live(Empty) /\ Empty \in Entries
  /\ \A e \in Entries : Live(e) => /\ e.mac \in Macs /\ e.age \in 1 .. DefaultAge
                                   /\ \E p \in Ports : e.mask = {p}
                                   /\ e = [mac |-> e.mac, mask |-> e.mask, age |-> e.age]
<1>1. Empty.age = 0
  BY Zenon DEF Empty
<1>2. ASSUME NEW e \in Entries, Live(e)
      PROVE  e \in [mac : Macs, mask : {{p} : p \in Ports}, age : 1 .. DefaultAge]
  BY <1>1, <1>2, Zenon DEF Entries, Live
<1>3. ~Live(Empty) /\ Empty \in Entries
  BY Zenon, <1>1 DEF Live, Entries
<1> QED  BY <1>2, <1>3

\* What a sweep writes is an entry, and one it leaves live keeps its address
\* and its port.
LEMMA SweptShape ==
  ASSUME NEW s \in Sweeps, NEW e \in Entries, Live(e)
  PROVE  /\ Swept(s, e) \in Entries
         /\ Live(Swept(s, e)) => Swept(s, e).mac = e.mac /\ Swept(s, e).mask = e.mask
         /\ s.flush /\ e.mask \subseteq s.mask => ~Live(Swept(s, e))
<1>1. /\ e.mac \in Macs /\ e.age \in 1 .. DefaultAge /\ \E p \in Ports : e.mask = {p}
      /\ e = [mac |-> e.mac, mask |-> e.mask, age |-> e.age]
  BY EntryShape, Zenon
<1>2. CASE Swept(s, e) = Empty
  BY Zenon, <1>2, EntryShape
<1>3. CASE Swept(s, e) = e
  <2>1. s.flush /\ e.mask \subseteq s.mask => Swept(s, e) = Empty
    BY Zenon DEF Swept
  <2> QED  BY Zenon, <1>3, <2>1, EntryShape
<1>4. CASE ~s.flush /\ e.age # 1
  <2>1. Swept(s, e) = [e EXCEPT !.age = (e.age - 1) % AgeMod]
    BY Zenon, <1>4 DEF Swept
  <2>2. (e.age - 1) % AgeMod \in 1 .. DefaultAge
    BY <1>1, <1>4, TableAssumption
  <2>3. Swept(s, e) = [mac |-> e.mac, mask |-> e.mask, age |-> (e.age - 1) % AgeMod]
    BY Zenon, <1>1, <2>1
  <2>4. Swept(s, e) \in [mac : Macs, mask : {{p} : p \in Ports}, age : 1 .. DefaultAge]
    BY <1>1, <2>2, <2>3
  <2> QED  BY <1>4, <2>3, <2>4 DEF Entries
<1> QED  BY Zenon, <1>2, <1>3, <1>4 DEF Swept

(***************************************************************************)
(* One cycle of a bank's sweep and of its arbiter.                         *)
(***************************************************************************)
\* What the registers of a sweep become.
LEMMA SweepStep ==
  ASSUME TypeOK, NEW b \in Banks, NEW tick \in BOOLEAN
  PROVE  LET s == sweep[b]
             n == SweepNext(b, tick)
         IN /\ n \in Sweeps
            /\ s.st = "IDLE" /\ FlushStart =>
                 n.st = "REQ" /\ n.flush /\ n.mask = pend /\ n.addr = 0
            /\ s.st = "IDLE" /\ ~FlushStart => n.st = "IDLE" \/ (n.st = "REQ" /\ ~n.flush)
            /\ s.st # "IDLE" => n.flush = s.flush /\ n.mask = s.mask
            /\ s.st = "REQ" => n.st = (IF arb[b] = "AGING" THEN "READ" ELSE "REQ") /\ n.addr = s.addr
            /\ s.st = "READ" => n.st = "WRITE" /\ n.addr = s.addr
            /\ s.st = "WRITE" => /\ n.st \in {"IDLE", "GAP"} /\ n.addr = (s.addr + 1) % NumRows
                                 /\ n.st = "IDLE" /\ s.flush => s.addr = NumRows - 1
            /\ s.st = "GAP" => n.st = "REQ" /\ n.addr = s.addr
<1> DEFINE s == sweep[b]
           n == SweepNext(b, tick)
<1>1. s \in Sweeps
  BY Zenon DEF TypeOK
<1>2. /\ s = [st |-> s.st, addr |-> s.addr, quad |-> s.quad, flush |-> s.flush, mask |-> s.mask]
      /\ s.st \in {"IDLE", "REQ", "READ", "WRITE", "GAP"} /\ s.addr \in Rows /\ s.quad \in Quads
      /\ s.flush \in BOOLEAN /\ s.mask \in SUBSET Ports
  BY Zenon, <1>1 DEF Sweeps
<1>3. \A st \in {"IDLE", "REQ", "READ", "WRITE", "GAP"}, a \in Rows, q \in Quads, f \in BOOLEAN, m \in SUBSET Ports :
        [st |-> st, addr |-> a, quad |-> q, flush |-> f, mask |-> m] \in Sweeps
  BY Zenon DEF Sweeps
<1>4. pend \in SUBSET Ports
  BY Zenon DEF TypeOK
<1>5. CASE s.st = "IDLE" /\ FlushStart
  <2>1. n = [s EXCEPT !.st = "REQ", !.flush = TRUE, !.mask = pend, !.addr = 0]
    BY Zenon, <1>5 DEF SweepNext
  <2>2. n = [st |-> "REQ", addr |-> 0, quad |-> s.quad, flush |-> TRUE, mask |-> pend]
    BY Zenon, <1>2, <2>1
  <2> HIDE DEF n, s
  <2>3. n \in Sweeps
    BY Zenon, <1>2, <1>3, <1>4, <2>2, Geometry
  <2> QED  BY <1>5, <2>2, <2>3 DEF n, s
<1>6. CASE s.st = "IDLE" /\ ~FlushStart /\ tick
  <2>1. n = [s EXCEPT !.st = "REQ", !.flush = FALSE, !.mask = {}, !.addr = s.quad * QuadRows]
    BY Zenon, <1>6 DEF SweepNext
  <2>2. n = [st |-> "REQ", addr |-> s.quad * QuadRows, quad |-> s.quad, flush |-> FALSE, mask |-> {}]
    BY Zenon, <1>2, <2>1
  <2> HIDE DEF n, s
  <2>3. s.quad * QuadRows \in Rows
    BY Zenon, <1>2, Geometry
  <2>4. n \in Sweeps
    BY Zenon, <1>2, <1>3, <2>2, <2>3
  <2>5. n.st = "REQ" /\ n.flush = FALSE
    BY Zenon, <2>2
  <2> QED  BY Zenon, <1>6, <2>4, <2>5 DEF n, s
<1>7. CASE s.st = "IDLE" /\ ~FlushStart /\ ~tick
  <2>1. n = s
    BY Zenon, <1>7 DEF SweepNext
  <2> HIDE DEF n, s
  <2> QED  BY Zenon, <1>1, <1>7, <2>1 DEF n, s
<1>8. CASE s.st = "REQ"
  <2>1. n = [s EXCEPT !.st = IF arb[b] = "AGING" THEN "READ" ELSE "REQ"]
    BY Zenon, <1>8 DEF SweepNext
  <2>2. n = [st |-> IF arb[b] = "AGING" THEN "READ" ELSE "REQ", addr |-> s.addr, quad |-> s.quad,
             flush |-> s.flush, mask |-> s.mask]
    BY Zenon, <1>2, <2>1
  <2> HIDE DEF n, s
  <2> QED  BY <1>2, <1>3, <1>8, <2>2 DEF n, s
<1>9. CASE s.st = "READ"
  <2>1. n = [s EXCEPT !.st = "WRITE"]
    BY Zenon, <1>9 DEF SweepNext
  <2>2. n = [st |-> "WRITE", addr |-> s.addr, quad |-> s.quad, flush |-> s.flush, mask |-> s.mask]
    BY Zenon, <1>2, <2>1
  <2> HIDE DEF n, s
  <2> QED  BY <1>2, <1>3, <1>9, <2>2 DEF n, s
<1>10. CASE s.st = "WRITE"
  <2> DEFINE st1 == IF SweepLast(s) THEN "IDLE" ELSE "GAP"
             a1 == (s.addr + 1) % NumRows
             q1 == IF SweepLast(s) /\ ~s.flush THEN (s.quad + 1) % NumQuads ELSE s.quad
  <2>1. n = [s EXCEPT !.st = st1, !.addr = a1, !.quad = q1]
    BY Zenon, <1>10 DEF SweepNext
  <2> HIDE DEF st1, a1, q1
  <2>2. n = [st |-> st1, addr |-> a1, quad |-> q1, flush |-> s.flush, mask |-> s.mask]
    BY Zenon, <1>2, <2>1
  <2>3. a1 \in Rows /\ q1 \in Quads /\ st1 \in {"IDLE", "GAP"}
    BY Zenon, <1>2, Geometry DEF a1, q1, st1
  <2>4. st1 = "IDLE" /\ s.flush => s.addr = NumRows - 1
    BY Zenon DEF st1, SweepLast
  <2> HIDE DEF n, s
  <2>5. n \in Sweeps
    BY Zenon, <1>2, <1>3, <2>2, <2>3
  <2> QED  BY <1>10, <2>2, <2>3, <2>4, <2>5 DEF a1, n, s
<1>11. CASE s.st = "GAP"
  <2>1. n = [s EXCEPT !.st = "REQ"]
    BY Zenon, <1>11 DEF SweepNext
  <2>2. n = [st |-> "REQ", addr |-> s.addr, quad |-> s.quad, flush |-> s.flush, mask |-> s.mask]
    BY Zenon, <1>2, <2>1
  <2> HIDE DEF n, s
  <2> QED  BY <1>2, <1>3, <1>11, <2>2 DEF n, s
<1> HIDE DEF n, s
<1>12. tick \in BOOLEAN
  BY Zenon
<1> QED  BY <1>2, <1>5, <1>6, <1>7, <1>8, <1>9, <1>10, <1>11, Zenon DEF n, s

\* The reads and the writes of the learn engine and of the sweeps are granted.
LEMMA GrantedStep ==
  ASSUME TypeOK, TransactionsGranted, NEW push, NEW tick, NEW req, NEW dump,
         Inputs(push, tick, req), Cycle(push, tick, req, dump)
  PROVE  TransactionsGranted'
<1>1. ASSUME learn' \in {"POP", "READ_LAT", "WRITE"}, NEW b \in Banks PROVE arb'[b] = "LEARN"
  <2>1. learn' = LearnNext /\ learn \in {"IDLE", "REQ", "POP", "READ_LAT", "WRITE"}
    BY Zenon DEF Cycle, TypeOK
  <2>2. learn \in {"REQ", "POP", "READ_LAT"} /\ LearnGnt
    BY Zenon, <1>1, <2>1 DEF LearnNext, TransactionsGranted
  <2>3. arb'[b] = ArbNext(b, dump)
    BY Zenon DEF Cycle
  <2> QED  BY Zenon, <2>2, <2>3 DEF ArbNext, LearnGnt, LearnReq
<1>2. ASSUME NEW b \in Banks, sweep'[b].st \in {"READ", "WRITE"} PROVE arb'[b] = "AGING"
  <2>1. sweep'[b] = SweepNext(b, tick) /\ arb'[b] = ArbNext(b, dump)
    BY Zenon DEF Cycle
  <2>2. sweep[b].st \in {"IDLE", "REQ", "READ", "WRITE", "GAP"}
    BY Zenon DEF TypeOK, Sweeps
  <2>3. sweep[b].st \in {"REQ", "READ"} /\ arb[b] = "AGING"
    BY <1>2, <2>1, <2>2, SweepStep DEF Inputs, TransactionsGranted
  <2> QED  BY Zenon, <2>1, <2>3 DEF ArbNext, AgingReq
<1>3. LearnGnt' <=> \A b \in Banks : arb'[b] = "LEARN"
  BY Zenon DEF LearnGnt
<1> QED  BY <1>1, <1>2, <1>3, Zenon DEF TransactionsGranted

\* All banks' sweeps, and all arbiters' grants, change alike.
LEMMA InStepStep ==
  ASSUME TypeOK, BanksInStep, NEW push, NEW tick, NEW req, NEW dump, Cycle(push, tick, req, dump)
  PROVE  BanksInStep'
<1> SUFFICES ASSUME NEW b \in Banks, NEW c \in Banks
             PROVE  /\ sweep'[b] = sweep'[c]
                    /\ \A g \in {"LEARN", "AGING"} : arb'[b] = g <=> arb'[c] = g
  BY Zenon DEF BanksInStep
<1>1. /\ sweep[b] = sweep[c] /\ (arb[b] = "LEARN" <=> arb[c] = "LEARN")
      /\ (arb[b] = "AGING" <=> arb[c] = "AGING")
  BY Zenon DEF BanksInStep
<1>2. /\ sweep'[b] = SweepNext(b, tick) /\ sweep'[c] = SweepNext(c, tick)
      /\ arb'[b] = ArbNext(b, dump) /\ arb'[c] = ArbNext(c, dump)
  BY Zenon DEF Cycle
<1>3. SweepNext(b, tick) = SweepNext(c, tick)
  BY Zenon, <1>1 DEF SweepNext
<1>4. AgingReq(b) <=> AgingReq(c)
  BY Zenon, <1>1 DEF AgingReq
<1>5. /\ ArbNext(b, dump) = "LEARN" <=> ArbNext(c, dump) = "LEARN"
      /\ ArbNext(b, dump) = "AGING" <=> ArbNext(c, dump) = "AGING"
  BY Zenon, <1>1, <1>4 DEF ArbNext
<1> QED  BY Zenon, <1>2, <1>3, <1>5

(***************************************************************************)
(* The banks.                                                              *)
(***************************************************************************)
\* The entry the learn engine writes.
NewEntry == [mac |-> lreq.mac, mask |-> {lreq.port}, age |-> DefaultAge]

\* The learn engine, or the bank's sweep, writes the row.
LearnedAt(b, r) == learn = "WRITE" /\ b = ChosenWay /\ r = Hash[lreq.mac]
SweptAt(b, r) == sweep[b].st = "WRITE" /\ r = sweep[b].addr /\ Live(mem[b][r])

\* What a cycle does to a row.
RowStep(b, r) ==
  /\ LearnedAt(b, r) => mem'[b][r] = NewEntry
  /\ SweptAt(b, r) => mem'[b][r] = Swept(sweep[b], mem[b][r])
  /\ ~LearnedAt(b, r) /\ ~SweptAt(b, r) => mem'[b][r] = mem[b][r]
  /\ ~(LearnedAt(b, r) /\ SweptAt(b, r))

\* A cycle writes a row at most once, and a sweep writes over what the row
\* holds, as its read register is current.
LEMMA RowSteps ==
  ASSUME TypeOK, TransactionsGranted, ReadsCurrent, NEW push, NEW tick, NEW req, NEW dump,
         Cycle(push, tick, req, dump)
  PROVE  /\ mem' = [b \in Banks |-> MemNext(b)]
         /\ \A b \in Banks, r \in Rows : RowStep(b, r)
<1>1. mem' = [b \in Banks |-> MemNext(b)]
  BY Zenon DEF Cycle
<1>2. ASSUME NEW b \in Banks, NEW r \in Rows PROVE RowStep(b, r)
  <2>1. mem'[b][r] = IF LearnWrites(b) /\ r = Hash[lreq.mac] THEN NewEntry
                     ELSE IF SweepWrites(b) /\ r = sweep[b].addr THEN Swept(sweep[b], rdata[b])
                     ELSE mem[b][r]
    BY Zenon, <1>1 DEF MemNext, NewEntry
  <2>2. LearnedAt(b, r) <=> LearnWrites(b) /\ r = Hash[lreq.mac]
    BY Zenon DEF LearnedAt, LearnWrites, TransactionsGranted, LearnGnt
  <2>3. sweep[b].st = "WRITE" => arb[b] = "AGING" /\ rdata[b] = mem[b][sweep[b].addr]
    BY Zenon DEF TransactionsGranted, ReadsCurrent
  <2>4. SweptAt(b, r) <=> SweepWrites(b) /\ r = sweep[b].addr
    BY Zenon, <2>3 DEF SweptAt, SweepWrites
  <2>5. ~(LearnWrites(b) /\ SweepWrites(b))
    BY Zenon DEF LearnWrites, SweepWrites
  <2>6. SweptAt(b, r) => rdata[b] = mem[b][r]
    BY <2>3, Zenon DEF SweptAt
  <2> QED  BY <2>1, <2>2, <2>4, <2>5, <2>6, Zenon DEF RowStep
<1> QED  BY Zenon, <1>1, <1>2

\* The banks hold entries.
LEMMA MemTyped ==
  ASSUME TypeOK, TransactionsGranted, ReadsCurrent, NEW push, NEW tick, NEW req, NEW dump,
         Cycle(push, tick, req, dump)
  PROVE  /\ mem' \in [Banks -> [Rows -> Entries]]
         /\ rdata' \in [Banks -> Entries]
<1>1. mem \in [Banks -> [Rows -> Entries]] /\ rdata \in [Banks -> Entries] /\ sweep \in [Banks -> Sweeps]
  BY Zenon DEF TypeOK
<1>2. ASSUME NEW b \in Banks, NEW r \in Rows PROVE mem'[b][r] \in Entries
  <2>1. RowStep(b, r)
    BY Zenon, RowSteps
  <2>2. CASE LearnedAt(b, r)
    <3>1. lreq \in Requests
      BY Zenon, <2>2 DEF LearnedAt, ReadsCurrent
    <3>2. NewEntry \in [mac : Macs, mask : {{p} : p \in Ports}, age : 1 .. DefaultAge]
      BY <3>1, TableAssumption DEF NewEntry, Requests
    <3> QED  BY Zenon, <2>1, <2>2, <3>2 DEF RowStep, Entries
  <2>3. CASE SweptAt(b, r)
    <3>1. mem[b][r] \in Entries /\ sweep[b] \in Sweeps
      BY Zenon, <1>1
    <3> QED  BY <2>1, <2>3, <3>1, SweptShape, Zenon DEF RowStep, SweptAt
  <2>4. CASE ~LearnedAt(b, r) /\ ~SweptAt(b, r)
    BY Zenon, <1>1, <2>1, <2>4 DEF RowStep
  <2> QED  BY Zenon, <2>2, <2>3, <2>4
<1>3. mem' = [b \in Banks |-> MemNext(b)]
  BY Zenon, RowSteps
<1>4. ASSUME NEW b \in Banks PROVE mem'[b] \in [Rows -> Entries]
  <2>1. mem'[b] = MemNext(b)
    BY Zenon, <1>3
  <2>2. mem'[b] = [r \in Rows |-> mem'[b][r]]
    BY Zenon, <2>1 DEF MemNext
  <2> QED  BY Zenon, <1>2, <2>2
<1>5. mem' \in [Banks -> [Rows -> Entries]]
  BY Zenon, <1>3, <1>4
<1>6. ASSUME NEW b \in Banks PROVE RdataNext(b, dump) \in Entries
  <2>1. CASE arb[b] = "LEARN" /\ learn = "POP"
    <3>1. learnFifo # <<>> /\ learnFifo \in Seq(Requests)
      BY Zenon, <2>1 DEF ReadsCurrent, TypeOK
    <3>2. Head(learnFifo) \in Requests
      BY <3>1
    <3>3. Head(learnFifo).mac \in Macs
      BY Zenon, <3>2 DEF Requests
    <3>4. Hash[Head(learnFifo).mac] \in Rows
      BY Zenon, <3>3, TableAssumption
    <3> QED  BY Zenon, <1>1, <2>1, <3>4 DEF RdataNext
  <2>2. CASE arb[b] = "AGING" /\ sweep[b].st = "READ"
    <3>1. sweep[b].addr \in Rows
      BY Zenon, <1>1 DEF Sweeps
    <3> QED  BY Zenon, <1>1, <2>2, <3>1 DEF RdataNext
  <2> QED  BY Zenon, <1>1, <2>1, <2>2, EntryShape DEF RdataNext
<1>7. rdata' = [b \in Banks |-> RdataNext(b, dump)]
  BY Zenon DEF Cycle
<1> QED  BY Zenon, <1>5, <1>6, <1>7

\* Every step keeps the types.
LEMMA TypeStep ==
  ASSUME TypeOK, TransactionsGranted, ReadsCurrent, NEW push, NEW tick, NEW req, NEW dump,
         Inputs(push, tick, req), Cycle(push, tick, req, dump)
  PROVE  TypeOK'
<1>1. mem' \in [Banks -> [Rows -> Entries]] /\ rdata' \in [Banks -> Entries]
  BY Zenon, MemTyped
<1>2. learnFifo' \in Seq(Requests) /\ Len(learnFifo') <= FifoDepth
  <2>1. learnFifo' = FifoNext(push)
    BY Zenon DEF Cycle
  <2>2. /\ learnFifo \in Seq(Requests) /\ Len(learnFifo) <= FifoDepth /\ FifoDepth \in Nat
        /\ learn = "POP" => learnFifo # <<>>
    BY Zenon, TableAssumption DEF TypeOK, ReadsCurrent
  <2> DEFINE popped == IF learn = "POP" THEN Tail(learnFifo) ELSE learnFifo
  <2>3. popped \in Seq(Requests) /\ Len(popped) <= Len(learnFifo)
    BY <2>2
  <2>4. learnFifo' = popped \/ (push \in Requests /\ learnFifo' = Append(popped, push) /\ Len(learnFifo) < FifoDepth)
    BY Zenon, <2>1 DEF FifoNext, Inputs
  <2> HIDE DEF popped
  <2>5. Len(popped) \in Nat /\ Len(learnFifo) \in Nat
    BY <2>2, <2>3
  <2> QED  BY <2>2, <2>3, <2>4, <2>5
<1>3. learn' \in {"IDLE", "REQ", "POP", "READ_LAT", "WRITE"}
  BY Zenon DEF Cycle, LearnNext, TypeOK
<1>4. lreq' \in Requests \cup {None}
  <2>1. learn = "POP" => Head(learnFifo) \in Requests
    BY DEF TypeOK, ReadsCurrent
  <2> QED  BY Zenon, <2>1 DEF Cycle, TypeOK
<1>5. arb' \in [Banks -> {"IDLE", "LEARN", "AGING", "DUMP"}]
  BY Zenon DEF Cycle, ArbNext, TypeOK
<1>6. sweep' \in [Banks -> Sweeps]
  BY Zenon, SweepStep DEF Cycle, Inputs
<1>7. pend' \subseteq Ports
  BY Zenon DEF Cycle, PendNext, Inputs, TypeOK
<1>8. fstate' \in {"IDLE", "RUN_WAIT", "RUN"}
  BY Zenon DEF Cycle, FlushNext, TypeOK
<1>9. last' \in [Macs -> Ports \cup {None}]
  BY Zenon DEF Cycle, ReadsCurrent, TypeOK, Requests
<1>10. doomed' \subseteq Banks \X Rows
  BY Zenon DEF Cycle, Holding, TypeOK
<1>11. waited' \in 0 .. MaxWait
  BY DEF Cycle, TypeOK, MaxWait
<1>12. traffic' \in Traffics
  BY Zenon DEF Cycle, TypeOK
<1> QED
  BY <1>1, <1>2, <1>3, <1>4, <1>5, <1>6, <1>7, <1>8, <1>9, <1>10, <1>11, <1>12, Zenon DEF TypeOK

\* From its read to its write, nobody writes the row an engine has read.
LEMMA CurrentStep ==
  ASSUME TypeOK, TransactionsGranted, ReadsCurrent, NEW push, NEW tick, NEW req, NEW dump,
         Inputs(push, tick, req), Cycle(push, tick, req, dump)
  PROVE  ReadsCurrent'
<1>1. /\ learn \in {"IDLE", "REQ", "POP", "READ_LAT", "WRITE"} /\ learnFifo \in Seq(Requests)
      /\ learn' = LearnNext /\ learnFifo' = FifoNext(push)
      /\ \A b \in Banks : sweep[b].st \in {"IDLE", "REQ", "READ", "WRITE", "GAP"}
      /\ \A b \in Banks : rdata'[b] = RdataNext(b, dump) /\ sweep'[b] = SweepNext(b, tick)
  BY Zenon DEF TypeOK, Sweeps, Cycle
<1>2. ASSUME learn' \in {"REQ", "POP"} PROVE learnFifo' # <<>>
  <2>1. learnFifo # <<>> /\ learn # "POP"
    BY Zenon, <1>1, <1>2 DEF LearnNext, ReadsCurrent
  <2>2. learnFifo' = learnFifo \/ learnFifo' = Append(learnFifo, push)
    BY Zenon, <1>1, <2>1 DEF FifoNext
  <2>3. Append(learnFifo, push) # <<>>
    BY <1>1
  <2> QED  BY Zenon, <2>1, <2>2, <2>3
<1>3. ASSUME learn' \in {"READ_LAT", "WRITE"}
      PROVE  lreq' \in Requests /\ \A b \in Banks : rdata'[b] = mem'[b][Hash[lreq'.mac]]
  <2>1. learn \in {"POP", "READ_LAT"} /\ LearnGnt
    BY Zenon, <1>1, <1>3 DEF LearnNext, TransactionsGranted
  <2>2. lreq' \in Requests /\ (learn = "POP" => lreq' = Head(learnFifo)) /\ (learn = "READ_LAT" => lreq' = lreq)
    <3>1. learn = "POP" => Head(learnFifo) \in Requests
      BY <1>1 DEF ReadsCurrent
    <3>2. learn = "READ_LAT" => lreq \in Requests
      BY Zenon DEF ReadsCurrent
    <3> QED  BY Zenon, <2>1, <3>1, <3>2 DEF Cycle
  <2>3. ASSUME NEW b \in Banks PROVE rdata'[b] = mem[b][Hash[lreq'.mac]]
    <3>1. arb[b] = "LEARN"
      BY Zenon, <2>1 DEF LearnGnt
    <3>2. CASE learn = "POP"
      BY Zenon, <1>1, <2>2, <3>1, <3>2 DEF RdataNext
    <3>3. CASE learn = "READ_LAT"
      <4>1. RdataNext(b, dump) = rdata[b]
        BY Zenon, <3>1, <3>3 DEF RdataNext, DumpReads
      <4> QED  BY Zenon, <1>1, <2>2, <3>3, <4>1 DEF ReadsCurrent
    <3> QED  BY Zenon, <2>1, <3>2, <3>3
  <2>4. ASSUME NEW b \in Banks, NEW r \in Rows PROVE mem'[b][r] = mem[b][r]
    <3>1. ~LearnedAt(b, r)
      BY Zenon, <2>1 DEF LearnedAt
    <3>2. ~SweptAt(b, r)
      BY Zenon, <2>1 DEF SweptAt, TransactionsGranted, LearnGnt
    <3> QED  BY Zenon, <3>1, <3>2, RowSteps DEF RowStep
  <2>5. Hash[lreq'.mac] \in Rows
    BY Zenon, <2>2, TableAssumption DEF Requests
  <2> QED  BY Zenon, <2>2, <2>3, <2>4, <2>5
<1>4. ASSUME NEW b \in Banks, sweep'[b].st = "WRITE" PROVE rdata'[b] = mem'[b][sweep'[b].addr]
  <2>1. sweep[b].st = "READ" /\ sweep'[b].addr = sweep[b].addr
    BY <1>1, <1>4, SweepStep DEF Inputs
  <2>2. arb[b] = "AGING" /\ sweep[b].addr \in Rows
    BY Zenon, <2>1 DEF TransactionsGranted, TypeOK, Sweeps
  <2>3. rdata'[b] = mem[b][sweep[b].addr]
    BY Zenon, <1>1, <2>1, <2>2 DEF RdataNext
  <2>4. ~LearnedAt(b, sweep[b].addr) /\ ~SweptAt(b, sweep[b].addr)
    BY Zenon, <2>1, <2>2 DEF LearnedAt, SweptAt, TransactionsGranted, LearnGnt
  <2>5. mem'[b][sweep[b].addr] = mem[b][sweep[b].addr]
    BY Zenon, <2>2, <2>4, RowSteps DEF RowStep
  <2> QED  BY Zenon, <2>1, <2>3, <2>5
<1> QED  BY <1>2, <1>3, <1>4, Zenon DEF ReadsCurrent

(***************************************************************************)
(* Soundness of the table.                                                 *)
(***************************************************************************)
\* When the engine writes, a way that holds the address is the way it chose:
\* it matched, and only one can.
LEMMA ChosenAlone ==
  ASSUME ReadsCurrent, TableSound, learn = "WRITE",
         NEW c \in Banks, Live(mem[c][Hash[lreq.mac]]), mem[c][Hash[lreq.mac]].mac = lreq.mac
  PROVE  ChosenWay = c
<1> DEFINE match == {d \in Banks : Matches(d)}
           row == Hash[lreq.mac]
<1>1. lreq.mac \in Macs /\ row \in Rows /\ \A d \in Banks : rdata[d] = mem[d][row]
  BY Zenon, TableAssumption DEF ReadsCurrent, Requests
<1>2. \A d \in Banks : Matches(d) <=> Live(mem[d][row]) /\ mem[d][row].mac = lreq.mac
  BY Zenon, <1>1 DEF Matches
<1>3. \A d \in match : d = c
  BY <1>1, <1>2 DEF TableSound
<1>4. match = {c}
  BY Zenon, <1>2, <1>3
<1>5. c <= c
  BY DEF Banks
<1>6. First(match) = c
  <2> HIDE DEF match
  <2> QED  BY Zenon, <1>4, <1>5 DEF First
<1>7. ChosenWay = First(match)
  BY Zenon, <1>4 DEF ChosenWay
<1> QED  BY Zenon, <1>6, <1>7

\* No interleaving of learning, aging and flushing duplicates an entry, or
\* writes an older one back.
LEMMA SoundStep ==
  ASSUME TypeOK, TransactionsGranted, ReadsCurrent, TableSound,
         NEW push, NEW tick, NEW req, NEW dump, Cycle(push, tick, req, dump)
  PROVE  TableSound'
<1>1. mem \in [Banks -> [Rows -> Entries]] /\ sweep \in [Banks -> Sweeps] /\ last \in [Macs -> Ports \cup {None}]
  BY Zenon DEF TypeOK
<1>2. learn = "WRITE" => lreq \in Requests /\ lreq.mac \in Macs /\ Hash[lreq.mac] \in Rows
  BY Zenon, TableAssumption DEF ReadsCurrent, Requests
<1>3. last' = IF learn = "WRITE" THEN [last EXCEPT ![lreq.mac] = lreq.port] ELSE last
  BY Zenon DEF Cycle
\* A row that was not learned is emptied, or holds the address it held.
<1>4. ASSUME NEW b \in Banks, NEW r \in Rows, ~LearnedAt(b, r), Live(mem'[b][r])
      PROVE  /\ Live(mem[b][r]) /\ mem'[b][r].mac = mem[b][r].mac /\ mem'[b][r].mask = mem[b][r].mask
  <2>1. RowStep(b, r)
    BY Zenon, RowSteps
  <2>2. CASE SweptAt(b, r)
    <3>1. mem[b][r] \in Entries /\ sweep[b] \in Sweeps /\ Live(mem[b][r])
      BY Zenon, <1>1, <2>2 DEF SweptAt
    <3>2. mem'[b][r] = Swept(sweep[b], mem[b][r])
      BY Zenon, <2>1, <2>2 DEF RowStep
    <3> QED  BY <1>4, <3>1, <3>2, SweptShape
  <2> QED  BY Zenon, <1>4, <2>1, <2>2 DEF RowStep
\* A row that was learned holds the request.
<1>5. ASSUME NEW b \in Banks, NEW r \in Rows, LearnedAt(b, r)
      PROVE  /\ mem'[b][r].mac = lreq.mac /\ mem'[b][r].mask = {lreq.port}
             /\ learn = "WRITE" /\ r = Hash[lreq.mac] /\ b = ChosenWay
  BY <1>5, RowSteps DEF RowStep, NewEntry, LearnedAt
\* While a request is written, every other entry is of another address.
<1>6. ASSUME NEW b \in Banks, NEW r \in Rows, ~LearnedAt(b, r), Live(mem'[b][r]), learn = "WRITE"
      PROVE  mem[b][r].mac # lreq.mac
  <2>1. Live(mem[b][r]) /\ Hash[mem[b][r].mac] = r
    BY Zenon, <1>4, <1>6 DEF TableSound
  <2>2. ASSUME mem[b][r].mac = lreq.mac PROVE ChosenWay = b /\ r = Hash[lreq.mac]
    <3>1. r = Hash[lreq.mac]
      BY Zenon, <2>1, <2>2
    <3> QED  BY Zenon, <1>6, <2>1, <2>2, <3>1, ChosenAlone
  <2> QED  BY Zenon, <1>6, <2>2 DEF LearnedAt
<1> SUFFICES ASSUME NEW b \in Banks, NEW r \in Rows, Live(mem'[b][r])
             PROVE  /\ Hash[mem'[b][r].mac] = r
                    /\ mem'[b][r].mask = {last'[mem'[b][r].mac]}
                    /\ \A c \in Banks \ {b} : Live(mem'[c][r]) => mem'[c][r].mac # mem'[b][r].mac
  BY Zenon DEF TableSound, Live
<1>7. CASE LearnedAt(b, r)
  <2>1. /\ mem'[b][r].mac = lreq.mac /\ mem'[b][r].mask = {lreq.port}
        /\ learn = "WRITE" /\ r = Hash[lreq.mac] /\ b = ChosenWay
    BY Zenon, <1>5, <1>7
  <2>2. last'[lreq.mac] = lreq.port
    BY Zenon, <1>1, <1>2, <1>3, <2>1
  <2>3. ASSUME NEW c \in Banks \ {b}, Live(mem'[c][r]) PROVE mem'[c][r].mac # lreq.mac
    <3>1. ~LearnedAt(c, r)
      BY Zenon, <2>1 DEF LearnedAt
    <3> QED  BY <1>4, <1>6, <2>1, <2>3, <3>1
  <2> QED  BY Zenon, <2>1, <2>2, <2>3
<1>8. CASE ~LearnedAt(b, r)
  <2> DEFINE e == mem[b][r]
  <2>1. /\ Live(e) /\ mem'[b][r].mac = e.mac /\ mem'[b][r].mask = e.mask
    BY Zenon, <1>4, <1>8
  <2>2. /\ Hash[e.mac] = r /\ e.mask = {last[e.mac]} /\ e.mac \in Macs
        /\ \A c \in Banks \ {b} : Live(mem[c][r]) => mem[c][r].mac # e.mac
    BY <1>1, <2>1, EntryShape DEF TableSound
  <2>3. last'[e.mac] = last[e.mac]
    <3>1. learn = "WRITE" => e.mac # lreq.mac
      BY Zenon, <1>6, <1>8
    <3> HIDE DEF e
    <3> QED  BY Zenon, <1>1, <1>2, <1>3, <2>2, <3>1
  <2>4. ASSUME NEW c \in Banks \ {b}, Live(mem'[c][r]) PROVE mem'[c][r].mac # e.mac
    <3>1. CASE LearnedAt(c, r)
      BY Zenon, <1>5, <1>6, <1>8, <3>1
    <3>2. CASE ~LearnedAt(c, r)
      BY Zenon, <1>4, <2>2, <2>4, <3>2
    <3> QED  BY Zenon, <3>1, <3>2
  <2> HIDE DEF e
  <2> QED  BY Zenon, <2>1, <2>2, <2>3, <2>4
<1> QED  BY Zenon, <1>7, <1>8

(***************************************************************************)
(* Waiting, and flushing.                                                  *)
(***************************************************************************)
\* Every cycle the learn engine waits brings each arbiter nearer its grant.
LEMMA WaitStep ==
  ASSUME TypeOK, BanksInStep, LearnWaitBounded, NEW push, NEW tick, NEW req, NEW dump,
         Inputs(push, tick, req), Cycle(push, tick, req, dump)
  PROVE  LearnWaitBounded'
<1>1. /\ waited \in Nat /\ waited < MaxWait /\ arb \in [Banks -> {"IDLE", "LEARN", "AGING", "DUMP"}]
      /\ \A b \in Banks : sweep[b].st \in {"IDLE", "REQ", "READ", "WRITE", "GAP"}
  BY DEF TypeOK, LearnWaitBounded, Sweeps
<1>2. \A b \in Banks : sweep'[b] = SweepNext(b, tick) /\ arb'[b] = ArbNext(b, dump)
  BY Zenon DEF Cycle
<1>3. \A b \in Banks : Nearness(b)' \in 0 .. 5
  BY DEF Nearness
<1>4. CASE learn = "REQ" /\ ~LearnGnt
  <2>1. learn' = "REQ" /\ waited' = waited + 1
    BY Zenon, <1>1, <1>4 DEF Cycle, LearnNext
  <2>2. ASSUME NEW b \in Banks PROVE waited' <= Nearness(b)'
    <3>1. arb[b] # "LEARN" /\ waited <= Nearness(b)
      BY Zenon, <1>4 DEF LearnGnt, BanksInStep, LearnWaitBounded
    <3>2. CASE arb[b] # "AGING"
      <4>1. arb'[b] = "LEARN" /\ waited <= 4
        BY Zenon, <1>2, <1>4, <3>1, <3>2 DEF ArbNext, LearnReq, Nearness
      <4> QED  BY <1>1, <2>1, <4>1 DEF Nearness
    <3>3. CASE arb[b] = "AGING" /\ sweep[b].st \in {"IDLE", "GAP"}
      <4>1. arb'[b] = "IDLE" /\ waited <= 3
        BY Zenon, <1>2, <3>1, <3>3 DEF ArbNext, AgingReq, Nearness
      <4> QED  BY <1>1, <2>1, <4>1 DEF Nearness
    <3>4. CASE arb[b] = "AGING" /\ sweep[b].st \in {"REQ", "READ", "WRITE"}
      <4>1. arb'[b] = "AGING"
        BY Zenon, <1>2, <3>4 DEF ArbNext, AgingReq
      <4>2. /\ sweep[b].st = "REQ" => sweep'[b].st = "READ"
            /\ sweep[b].st = "READ" => sweep'[b].st = "WRITE"
            /\ sweep[b].st = "WRITE" => sweep'[b].st \in {"IDLE", "GAP"}
        BY <1>2, <3>4, SweepStep DEF Inputs
      <4> QED  BY <1>1, <2>1, <3>1, <3>4, <4>1, <4>2 DEF Nearness
    <3> QED  BY Zenon, <1>1, <3>2, <3>3, <3>4
  <2>3. waited' < MaxWait
    BY <1>1, <1>3, <2>1, <2>2, Geometry DEF MaxWait
  <2> QED  BY <2>1, <2>2, <2>3, Zenon DEF LearnWaitBounded
<1>5. CASE ~(learn = "REQ" /\ ~LearnGnt)
  <2>1. waited' = 0
    BY Zenon, <1>5 DEF Cycle
  <2> QED  BY <1>3, <2>1 DEF LearnWaitBounded, MaxWait
<1> QED  BY Zenon, <1>4, <1>5

\* What was to be flushed stays covered by a pending or a running flush.
LEMMA FlushStep ==
  ASSUME TypeOK, TransactionsGranted, ReadsCurrent, FlushCovered,
         NEW push, NEW tick, NEW req, NEW dump,
         Inputs(push, tick, req), Cycle(push, tick, req, dump)
  PROVE  FlushCovered'
<1>1. /\ mem \in [Banks -> [Rows -> Entries]] /\ fstate \in {"IDLE", "RUN_WAIT", "RUN"}
      /\ doomed \subseteq Banks \X Rows
      /\ \A b \in Banks : /\ sweep[b] \in Sweeps /\ sweep[b].addr \in Rows
                          /\ sweep[b].st \in {"IDLE", "REQ", "READ", "WRITE", "GAP"}
                          /\ sweep[b].flush \in BOOLEAN
  BY Zenon DEF TypeOK, Sweeps
<1>2. /\ fstate' = FlushNext /\ pend' = PendNext(req)
      /\ \A b \in Banks : sweep'[b] = SweepNext(b, tick)
  BY Zenon DEF Cycle
\* The sweep of each bank moves as SweepStep says.
<1>sw. ASSUME NEW b \in Banks
       PROVE  LET s == sweep[b]
                  n == sweep'[b]
              IN /\ s.st = "IDLE" /\ FlushStart =>
                      n.st = "REQ" /\ n.flush /\ n.mask = pend /\ n.addr = 0
                 /\ s.st = "IDLE" /\ ~FlushStart => n.st = "IDLE" \/ (n.st = "REQ" /\ ~n.flush)
                 /\ s.st # "IDLE" => n.flush = s.flush /\ n.mask = s.mask
                 /\ s.st = "REQ" => n.st \in {"READ", "REQ"} /\ n.addr = s.addr
                 /\ s.st = "READ" => n.st = "WRITE" /\ n.addr = s.addr
                 /\ s.st = "WRITE" => /\ n.st \in {"IDLE", "GAP"} /\ n.addr = (s.addr + 1) % NumRows
                                      /\ n.st = "IDLE" /\ s.flush => s.addr = NumRows - 1
                 /\ s.st = "GAP" => n.st = "REQ" /\ n.addr = s.addr
  <2>1. tick \in BOOLEAN /\ sweep'[b] = SweepNext(b, tick)
    BY Zenon, <1>2 DEF Inputs
  <2> QED  BY <2>1, SweepStep
<1>3. ASSUME NEW b \in Banks, sweep'[b].st # "IDLE", sweep'[b].flush PROVE fstate' # "IDLE"
  <2>1. CASE sweep[b].st = "IDLE"
    <3>1. FlushStart
      BY Zenon, <1>sw, <1>3, <2>1
    <3>2. fstate = "IDLE"
      BY Zenon, <3>1 DEF FlushStart
    <3> QED  BY Zenon, <1>2, <3>1, <3>2 DEF FlushNext
  <2>2. CASE sweep[b].st # "IDLE"
    <3>1. sweep[b].flush /\ BankBusy
      BY Zenon, <1>sw, <1>3, <2>2 DEF BankBusy
    <3>2. fstate # "IDLE"
      BY Zenon, <2>2, <3>1 DEF FlushCovered
    <3> QED  BY Zenon, <1>1, <1>2, <3>1, <3>2 DEF FlushNext
  <2> QED  BY Zenon, <2>1, <2>2
\* An entry becomes doomed when its port's flush is requested, and stops being
\* so when it is learned again.
<1>4. ASSUME NEW b \in Banks, NEW r \in Rows, <<b, r>> \in doomed'
      PROVE  /\ Live(mem'[b][r])
             /\ mem'[b][r].mask \subseteq req \/ (<<b, r>> \in doomed /\ ~LearnedAt(b, r))
  <2> DEFINE written == {<<c, Hash[lreq.mac]>> : c \in {d \in Banks : learn = "WRITE" /\ LearnWrites(d)}}
  <2>1. doomed' = {br \in (doomed \ written) \cup Holding(mem', req) : Live(mem'[br[1]][br[2]])}
    BY Zenon DEF Cycle
  <2>2. LearnedAt(b, r) => <<b, r>> \in written
    BY Zenon DEF LearnedAt, LearnWrites, TransactionsGranted, LearnGnt
  <2> HIDE DEF written
  <2>3. /\ <<b, r>> \in (doomed \ written) \cup Holding(mem', req)
        /\ Live(mem'[b][r])
    BY Zenon, <1>4, <2>1
  <2>4. <<b, r>> \in Holding(mem', req) => mem'[b][r].mask \subseteq req
    BY Zenon DEF Holding
  <2> QED  BY Zenon, <2>2, <2>3, <2>4
<1>5. ASSUME NEW b \in Banks, NEW r \in Rows, <<b, r>> \in doomed'
      PROVE  \/ mem'[b][r].mask \subseteq pend'
             \/ /\ sweep'[b].st # "IDLE" /\ sweep'[b].flush
                /\ sweep'[b].addr <= r /\ mem'[b][r].mask \subseteq sweep'[b].mask
  <2>1. CASE mem'[b][r].mask \subseteq req
    BY Zenon, <1>2, <2>1 DEF PendNext
  <2>2. CASE <<b, r>> \in doomed /\ ~LearnedAt(b, r)
    <3> DEFINE s == sweep[b]
               e == mem[b][r]
    <3>1. RowStep(b, r)
      BY Zenon, RowSteps
    <3>2. Live(e) /\ e \in Entries
      BY Zenon, <1>1, <2>2 DEF FlushCovered
    <3>3. mem'[b][r].mask = e.mask
      <4>1. CASE SweptAt(b, r)
        <5>1. mem'[b][r] = Swept(s, e) /\ Live(mem'[b][r])
          BY Zenon, <1>4, <1>5, <3>1, <4>1 DEF RowStep
        <5> QED  BY <1>1, <3>2, <5>1, SweptShape
      <4> QED  BY Zenon, <2>2, <3>1, <4>1 DEF RowStep
    <3>4. CASE e.mask \subseteq pend
      <4>1. CASE FlushStart
        <5>1. s.st = "IDLE"
          BY Zenon, <4>1 DEF FlushStart, BankBusy
        <5>2. /\ sweep'[b].st = "REQ" /\ sweep'[b].flush
              /\ sweep'[b].mask = pend /\ sweep'[b].addr = 0
          BY Zenon, <1>sw, <4>1, <5>1
        <5> QED  BY <3>3, <3>4, <5>2 DEF Rows
      <4>2. CASE ~FlushStart
        BY Zenon, <1>2, <3>3, <3>4, <4>2 DEF PendNext
      <4> QED  BY Zenon, <4>1, <4>2
    <3>5. CASE s.st # "IDLE" /\ s.flush /\ s.addr <= r /\ e.mask \subseteq s.mask
      <4>1. sweep'[b].flush /\ sweep'[b].mask = s.mask
        BY Zenon, <1>sw, <3>5
      <4>2. CASE s.st = "WRITE"
        <5>1. s.addr # r
          <6>1. s.addr = r => SweptAt(b, r)
            BY Zenon, <3>2, <4>2 DEF SweptAt
          <6>2. s.addr = r => mem'[b][r] = Swept(s, e)
            BY Zenon, <3>1, <6>1 DEF RowStep
          <6>3. ~Live(Swept(s, e)) /\ Live(mem'[b][r])
            BY Zenon, <1>1, <1>4, <1>5, <3>2, <3>5, SweptShape
          <6> QED  BY Zenon, <6>2, <6>3
        <5>2. s.addr + 1 <= r /\ s.addr # NumRows - 1
          BY <1>1, <3>5, <5>1, Geometry DEF Rows
        <5>3. (s.addr + 1) % NumRows = s.addr + 1
          BY <1>1, <5>2, Geometry DEF Rows
        <5>4. sweep'[b].st = "GAP" /\ sweep'[b].addr = s.addr + 1
          BY Zenon, <1>sw, <3>5, <4>2, <5>2, <5>3
        <5> QED  BY Zenon, <3>3, <3>5, <4>1, <5>2, <5>4
      <4>3. CASE s.st # "WRITE"
        <5>1. sweep'[b].st # "IDLE" /\ sweep'[b].addr = s.addr
          BY Zenon, <1>1, <1>sw, <3>5, <4>3
        <5> QED  BY Zenon, <3>3, <3>5, <4>1, <5>1
      <4> QED  BY Zenon, <4>2, <4>3
    <3> QED  BY Zenon, <2>2, <3>4, <3>5 DEF FlushCovered
  <2> QED  BY Zenon, <1>4, <1>5, <2>1, <2>2
<1> QED  BY Zenon, <1>3, <1>4, <1>5 DEF FlushCovered, Live

(***************************************************************************)
(* The theorems.                                                           *)
(***************************************************************************)
\* The empty table is sound.
LEMMA TableInit ==
  ASSUME Init PROVE TableInv
<1>1. TypeOK
  <2>1. [st |-> "IDLE", addr |-> 0, quad |-> 0, flush |-> FALSE, mask |-> {}] \in Sweeps
    BY Geometry, TableAssumption DEF Sweeps, Quads
  <2>2. Empty \in Entries
    BY Zenon, EntryShape
  <2>3. learnFifo \in Seq(Requests) /\ Len(learnFifo) <= FifoDepth
    BY TableAssumption DEF Init
  <2>4. waited \in 0 .. MaxWait
    BY DEF Init, MaxWait
  <2> QED  BY Zenon, <2>1, <2>2, <2>3, <2>4 DEF Init, TypeOK
<1>2. TransactionsGranted /\ BanksInStep /\ ReadsCurrent
  BY Zenon DEF Init, TransactionsGranted, BanksInStep, ReadsCurrent
<1>3. TableSound
  BY Zenon, EntryShape DEF Init, TableSound
<1>4. LearnWaitBounded
  BY DEF Init, LearnWaitBounded, MaxWait
<1>5. FlushCovered
  BY Zenon DEF Init, FlushCovered
<1> QED  BY <1>1, <1>2, <1>3, <1>4, <1>5, Zenon DEF TableInv

\* Every cycle keeps the table sound.
LEMMA TableStep ==
  ASSUME TableInv, [Next]_vars PROVE TableInv'
<1>1. CASE UNCHANGED vars
  <2>1. TypeOK'
    BY <1>1, Zenon DEF TableInv, vars, TypeOK
  <2>2. TransactionsGranted' /\ BanksInStep'
    BY Zenon, <1>1 DEF TableInv, vars, TransactionsGranted, LearnGnt, BanksInStep
  <2>3. ReadsCurrent' /\ TableSound'
    BY <1>1 DEF TableInv, vars, ReadsCurrent, TableSound, Live
  <2>4. LearnWaitBounded' /\ FlushCovered'
    BY Zenon, <1>1 DEF TableInv, vars, LearnWaitBounded, Nearness, FlushCovered, Live
  <2> QED  BY <2>1, <2>2, <2>3, <2>4, Zenon DEF TableInv
<1>2. CASE Next
  <2>1. PICK push, tick, req, dump : Inputs(push, tick, req) /\ Cycle(push, tick, req, dump)
    BY <1>2, NextInputs, Zenon DEF TableInv
  <2> QED
    BY <2>1, TypeStep, GrantedStep, InStepStep, CurrentStep, SoundStep, WaitStep, FlushStep, Zenon
    DEF TableInv
<1> QED  BY Zenon, <1>1, <1>2

\* The MAC table's engines never write over each other: grants cover
\* read-modify-writes, what is written back was read from the row as it is,
\* an address is in one way with the port it was last learned on, and a learn
\* waits at most five cycles.
THEOREM TableCorrect == Spec => []TableInv
<1> QED  BY TableInit, TableStep, PTL DEF Spec

\* Once flush_busy_o is low, every entry that held a flushed port when its
\* flush was requested is gone, or was learned again since.
THEOREM FlushComplete == Spec => []FlushPurges
<1>1. ASSUME TableInv PROVE FlushPurges
  <2> SUFFICES ASSUME ~FlushBusy, doomed # {} PROVE FALSE
    BY Zenon DEF FlushPurges
  <2>1. PICK b \in Banks, r \in Rows : <<b, r>> \in doomed
    <3>1. doomed \subseteq Banks \X Rows
      BY Zenon, <1>1 DEF TableInv, TypeOK
    <3>2. PICK br \in Banks \X Rows : br \in doomed
      BY Zenon, <3>1
    <3>3. br = <<br[1], br[2]>> /\ br[1] \in Banks /\ br[2] \in Rows
      OBVIOUS
    <3> QED  BY Zenon, <3>2, <3>3
  <2>2. pend = {} /\ fstate = "IDLE"
    BY Zenon DEF FlushBusy
  <2>3. Live(mem[b][r]) /\ mem[b][r].mask = {} /\ mem[b][r] \in Entries
    BY <1>1, <2>1, <2>2 DEF TableInv, FlushCovered, TypeOK
  <2> QED  BY Zenon, <2>3, EntryShape
<1> QED  BY <1>1, TableCorrect, PTL

-----------------------------------------------------------------------------
(***************************************************************************)
(* The statistics bank.                                                    *)
(***************************************************************************)
Fault == {"unsampled", "current", "unavailable", "release fault", "response fault"}
SourceTypes == count \in [Slots -> Values] /\ src \in [clk : BOOLEAN, ack : BOOLEAN, value : Values]
MailboxType ==
    mb \in [pending : BOOLEAN, ready : BOOLEAN, req : BOOLEAN, sel : Slots, saved : Values,
            ackSync : BOOLEAN, alive : BOOLEAN, gap : BOOLEAN]
TaskTypes ==
    /\ pc \in {"idle", "check", "wait", "credit", "classify"} /\ slot \in Slots /\ value \in Values
    /\ total \in [Slots -> Nat] /\ first \in BOOLEAN /\ saturated_reads \in BOOLEAN /\ state \in Fault
RecordTypes ==
    /\ events \in [Slots -> Nat]
    /\ satEver \in BOOLEAN /\ stopped \in BOOLEAN /\ settled \in BOOLEAN

\* The parts of the type invariant.
LEMMA TypeParts == StatsTypeOK <=> SourceTypes /\ MailboxType /\ TaskTypes /\ RecordTypes
BY Zenon DEF StatsTypeOK, SourceTypes, MailboxType, TaskTypes, RecordTypes, Fault

\* The same of the next state.
LEMMA TypePartsNext == StatsTypeOK' <=> SourceTypes' /\ MailboxType' /\ TaskTypes' /\ RecordTypes'
BY Zenon DEF StatsTypeOK, SourceTypes, MailboxType, TaskTypes, RecordTypes, Fault

\* There is a counter, and it counts.
LEMMA Sizes ==
  /\ SlotCount \in Nat /\ SlotCount >= 1 /\ CountMax \in Nat /\ CountMax >= 1 /\ MaxEvents \in Nat
  /\ 0 \in Slots
BY StatsAssumption DEF Slots

\* After every slot but the last there is another.
LEMMA NextSlot == ASSUME NEW s \in Slots, s # SlotCount - 1 PROVE s + 1 \in Slots
BY Sizes DEF Slots

\* An empty counter is a value.
LEMMA ZeroValue == Zero \in Values /\ Zero.n = 0 /\ ~Zero.over
BY StatsAssumption DEF Zero, Values

\* The summands of a counter's account are natural numbers.
LEMMA Numbers ==
  ASSUME StatsTypeOK, NEW s \in Slots
  PROVE  /\ count[s].n \in Nat /\ total[s] \in Nat /\ events[s] \in Nat /\ value.n \in Nat
         /\ InFlight(s).n \in Nat
<1>1. count[s] \in Values /\ value \in Values /\ src.value \in Values /\ mb.saved \in Values
  BY Zenon DEF StatsTypeOK
<1>2. InFlight(s) \in Values
  BY Zenon, <1>1, ZeroValue DEF InFlight
<1>3. \A v \in Values : v.n \in Nat
  BY Sizes DEF Values
<1>4. total \in [Slots -> Nat] /\ events \in [Slots -> Nat]
  BY Zenon DEF StatsTypeOK
<1>5. total[s] \in Nat
  BY Zenon, <1>4
<1>6. events[s] \in Nat
  BY <1>4, Sizes
<1> QED  BY Zenon, <1>1, <1>2, <1>3, <1>5, <1>6

\* Counts that are joined are a count.
LEMMA Joins ==
  ASSUME NEW s, NEW a \in Nat, NEW b \in Nat
  PROVE  Join(s, a, b) \in Nat /\ Join(s, a, 0) = a /\ Join(s, 0, a) = a
BY DEF Join

\* A count may move from the counter to where nothing is in flight.
LEMMA JoinCaptured ==
  ASSUME NEW s, NEW a \in Nat, NEW b \in Nat, NEW d \in Nat
  PROVE  Join(s, Join(s, a, b), Join(s, 0, d)) = Join(s, Join(s, a, 0), Join(s, b, d))
BY DEF Join

\* A count may move from the processor to the total.
LEMMA JoinCredited ==
  ASSUME NEW s, NEW a \in Nat, NEW b \in Nat, NEW c \in Nat, NEW d \in Nat
  PROVE  Join(s, Join(s, a, b), Join(s, c, d)) = Join(s, Join(s, Join(s, a, d), b), Join(s, c, 0))
BY DEF Join

\* What an event leaves in its counter and on record.
LEMMA Counted ==
  ASSUME StatsTypeOK, NEW s \in Slots, NEW v \in 1..CountMax + 1, CountEvent(s, v)
  PROVE  \E c \in Values :
           /\ c.n >= count[s].n /\ (count[s].over => c.over) /\ (satEver' => satEver \/ c.over)
           /\ count' = [count EXCEPT ![s] = c]
           /\ events' = [events EXCEPT ![s] = IF s \in MaxSlots THEN Join(s, events[s], c.n)
                                              ELSE events[s] + (c.n - count[s].n)]
<1> DEFINE sum == Join(s, count[s].n, v)
           n == IF sum > CountMax THEN CountMax ELSE sum
           c == [n |-> n, over |-> count[s].over \/ sum > CountMax]
<1>1. count[s] \in Values
  BY Zenon DEF StatsTypeOK
<1>2. count[s].n \in 0..CountMax /\ count[s].over \in BOOLEAN
  BY Zenon, <1>1 DEF Values
<1>3. n \in 0..CountMax /\ n >= count[s].n
  BY <1>2, Sizes DEF Join
<1>4. /\ count' = [count EXCEPT ![s] = c]
      /\ events' = [events EXCEPT ![s] = IF s \in MaxSlots THEN Join(s, events[s], n)
                                         ELSE events[s] + (n - count[s].n)]
      /\ satEver' = (satEver \/ sum > CountMax)
  BY Zenon DEF CountEvent
<1> HIDE DEF sum, n
<1>5. c.n = n /\ c.over = (count[s].over \/ sum > CountMax)
  BY Zenon
<1>6. c \in Values
  BY Zenon, <1>2, <1>3 DEF Values
<1> HIDE DEF c
<1> QED  BY Zenon, <1>3, <1>4, <1>5, <1>6

\* The counters saturate within their width.
LEMMA SourceTypesKept == ASSUME BankInv, [StatsNext]_statsVars PROVE SourceTypes'
<1>t. SourceTypes /\ MailboxType /\ TaskTypes /\ RecordTypes
  BY Zenon, TypeParts DEF BankInv
<1> USE Sizes, ZeroValue DEF SourceTypes, MailboxType
<1>1. ASSUME NEW s \in Slots, NEW v \in 1..CountMax + 1, CountEvent(s, v) PROVE SourceTypes'
  <2>1. \E c \in Values : count' = [count EXCEPT ![s] = c]
    BY Zenon, <1>1, Counted DEF BankInv
  <2>2. src' = src
    BY Zenon, <1>1 DEF CountEvent
  <2> QED  BY ZenonT(30), <1>1, <1>t, <2>1, <2>2
<1>2. CASE Capture
  BY Zenon, <1>2, <1>t DEF Capture, fw, ghosts
<1>3. CASE Release
  BY Zenon, <1>3, <1>t DEF Release, fw, ghosts
<1>4. CASE ClockChange
  BY Zenon, <1>4, <1>t DEF ClockChange, fw, ghosts
<1>5. CASE UNCHANGED <<count, src>>
  BY Zenon, <1>5, <1>t
<1> QED  BY Zenon, <1>1, <1>2, <1>3, <1>4, <1>5
     DEF StatsNext, Source, Mailbox, Task, statsVars, hw, fw, ghosts, AckSync, Alive, Result, Accept, Collect,
         Check, DataRead, DataTimeout, Classify, Credit, Restart, Settled

\* The mailbox keeps its type.
LEMMA MailboxTypeKept == ASSUME BankInv, [StatsNext]_statsVars PROVE MailboxType'
<1>t. SourceTypes /\ MailboxType /\ TaskTypes /\ RecordTypes
  BY Zenon, TypeParts DEF BankInv
<1> USE Sizes, ZeroValue DEF MailboxType, SourceTypes, TaskTypes
<1>1. CASE AckSync
  BY Zenon, <1>1, <1>t DEF AckSync, fw, ghosts
<1>2. CASE Alive
  BY ZenonT(30), <1>2, <1>t DEF Alive, fw, ghosts
<1>3. CASE Result
  BY Zenon, <1>3, <1>t DEF Result, fw, ghosts
<1>4. CASE Accept
  BY Zenon, <1>4, <1>t DEF Accept, Acceptable, fw, ghosts
<1>5. CASE DataRead
  BY Zenon, <1>5, <1>t DEF DataRead, ghosts, Answered, Taken
<1>6. CASE Restart
  BY ZenonT(30), <1>6, <1>t DEF Restart, Idle, Answered, Taken, InFlight
<1>7. CASE UNCHANGED <<mb>>
  BY Zenon, <1>7, <1>t
<1> QED  BY Zenon, <1>1, <1>2, <1>3, <1>4, <1>5, <1>6, <1>7
     DEF StatsNext, Source, Mailbox, Task, statsVars, hw, fw, ghosts, CountEvent, Capture, Release,
         ClockChange, Collect, Check, DataTimeout, Classify, Credit, Settled

\* The task's variables keep their types: a scan ends at the last slot.
LEMMA TaskTypesKept == ASSUME BankInv, [StatsNext]_statsVars PROVE TaskTypes'
<1>t. SourceTypes /\ MailboxType /\ TaskTypes /\ RecordTypes
  BY Zenon, TypeParts DEF BankInv
<1> USE Sizes, ZeroValue DEF TaskTypes, Fault, MailboxType
<1>1. CASE Collect
  BY Zenon, <1>1, <1>t DEF Collect, hw, ghosts
<1>2. CASE Check
  BY Zenon, <1>2, <1>t DEF Check, hw, ghosts, Idle
<1>3. CASE DataRead
  BY Zenon, <1>3, <1>t DEF DataRead, ghosts, Answered, Taken
<1>4. CASE DataTimeout
  BY Zenon, <1>4, <1>t DEF DataTimeout, hw, ghosts
<1>5. CASE Classify
  BY Zenon, <1>5, <1>t DEF Classify, hw, ghosts, Idle
<1>6. CASE Credit
  <2>1. value.n \in Nat /\ total[slot] \in Nat
    BY Zenon, <1>t, Numbers DEF BankInv
  <2>2. total' \in [Slots -> Nat]
    <3>1. total' = [total EXCEPT ![slot] = Join(slot, total[slot], value.n)] /\ total \in [Slots -> Nat]
      BY Zenon, <1>6, <1>t DEF Credit
    <3>2. Join(slot, total[slot], value.n) \in Nat
      BY Zenon, <2>1, Joins
    <3> QED  BY Zenon, <3>1, <3>2
  <2>3. saturated_reads' \in BOOLEAN /\ value' \in Values
    BY Zenon, <1>6, ZeroValue DEF Credit
  <2> QED  BY Zenon, <1>6, <1>t, <2>2, <2>3, NextSlot DEF Credit, Idle
<1>7. CASE Restart
  BY Zenon, <1>7, <1>t DEF Restart, Idle, Answered, Taken, InFlight
<1>8. CASE UNCHANGED <<pc, slot, value, total, first, saturated_reads, state>>
  BY Zenon, <1>8, <1>t
<1> QED  BY Zenon, <1>1, <1>2, <1>3, <1>4, <1>5, <1>6, <1>7, <1>8
     DEF StatsNext, Source, Mailbox, Task, statsVars, hw, fw, ghosts, CountEvent, Capture, Release,
         ClockChange, AckSync, Alive, Result, Accept, Settled

\* The records keep their types.
LEMMA RecordTypesKept == ASSUME BankInv, [StatsNext]_statsVars PROVE RecordTypes'
<1>t. SourceTypes /\ MailboxType /\ TaskTypes /\ RecordTypes
  BY Zenon, TypeParts DEF BankInv
<1> USE Sizes, ZeroValue DEF RecordTypes, MailboxType, SourceTypes, TaskTypes, Values
<1>1. ASSUME NEW s \in Slots, NEW v \in 1..CountMax + 1, CountEvent(s, v) PROVE RecordTypes'
  <2>1. events' \in [Slots -> Nat]
    <3>1. PICK c \in Values :
            /\ c.n >= count[s].n
            /\ events' = [events EXCEPT ![s] = IF s \in MaxSlots THEN Join(s, events[s], c.n)
                                               ELSE events[s] + (c.n - count[s].n)]
      BY Zenon, <1>1, Counted DEF BankInv
    <3>2. c.n \in Nat /\ count[s].n \in Nat /\ events[s] \in Nat /\ events \in [Slots -> Nat]
      BY <1>1, <1>t, <3>1
    <3>3. (IF s \in MaxSlots THEN Join(s, events[s], c.n) ELSE events[s] + (c.n - count[s].n)) \in Nat
      <4>1. Join(s, events[s], c.n) \in Nat
        BY Zenon, <3>2, Joins
      <4>2. events[s] + (c.n - count[s].n) \in Nat
        BY <3>1, <3>2
      <4> QED  BY Zenon, <4>1, <4>2
    <3> QED  BY Zenon, <3>1, <3>2, <3>3
  <2>2. satEver' \in BOOLEAN /\ stopped' \in BOOLEAN /\ settled' \in BOOLEAN
    BY Zenon, <1>1, <1>t DEF CountEvent
  <2> QED  BY Zenon, <2>1, <2>2
<1>2. CASE Alive
  BY Zenon, <1>2, <1>t DEF Alive, fw, ghosts
<1>3. CASE Accept
  BY Zenon, <1>3, <1>t DEF Accept, Acceptable, fw, ghosts
<1>4. CASE Check
  BY Zenon, <1>4, <1>t DEF Check, hw, ghosts, Idle
<1>5. CASE DataRead
  BY Zenon, <1>5, <1>t DEF DataRead, ghosts, Answered, Taken
<1>6. CASE Classify
  BY Zenon, <1>6, <1>t DEF Classify, hw, ghosts, Idle
<1>7. CASE Restart
  <2>1. ASSUME NEW s \in Slots
        PROVE  Join(s, count[s].n, (IF mb'.pending THEN InFlight(s) ELSE Zero).n) \in Nat
    <3>1. count[s].n \in Nat /\ InFlight(s).n \in Nat /\ Zero.n \in Nat
      BY <2>1, <1>t, Numbers DEF BankInv
    <3> QED  BY Zenon, <3>1, Joins
  <2>2. events' \in [Slots -> Nat]
    BY Zenon, <1>7, <2>1 DEF Restart
  <2>3. satEver' \in BOOLEAN /\ stopped' \in BOOLEAN /\ settled' \in BOOLEAN
    BY Zenon, <1>7, <1>t DEF Restart
  <2> QED  BY Zenon, <2>2, <2>3
<1>8. CASE Settled
  BY Zenon, <1>8, <1>t DEF Settled, hw, fw
<1>9. CASE UNCHANGED <<events, satEver, stopped, settled>>
  BY Zenon, <1>9, <1>t
<1> QED  BY Zenon, <1>1, <1>2, <1>3, <1>4, <1>5, <1>6, <1>7, <1>8, <1>9
     DEF StatsNext, Source, Mailbox, Task, statsVars, hw, fw, ghosts, Capture, Release, ClockChange, AckSync,
         Result, Collect, DataTimeout, Credit

\* Every step keeps the types.
LEMMA TypeKept == ASSUME BankInv, [StatsNext]_statsVars PROVE StatsTypeOK'
BY Zenon, SourceTypesKept, MailboxTypeKept, TaskTypesKept, RecordTypesKept, TypePartsNext

\* Every step keeps to the four phases.
LEMMA PhasesKept ==
  ASSUME BankInv, [StatsNext]_statsVars
  PROVE  FourPhase'
<1> USE Sizes, ZeroValue DEF BankInv, StatsTypeOK, FourPhase
<1>0. CASE UNCHANGED statsVars
  BY Zenon, <1>0 DEF statsVars
<1>1. ASSUME NEW s \in Slots, NEW v \in 1..CountMax + 1, CountEvent(s, v) PROVE FourPhase'
  BY Zenon, <1>1 DEF CountEvent, fw
<1>2. CASE Capture
  BY Zenon, <1>2 DEF Capture, fw, ghosts
<1>3. CASE Release
  BY Zenon, <1>3 DEF Release, fw, ghosts
<1>4. CASE ClockChange
  BY Zenon, <1>4 DEF ClockChange, fw, ghosts
<1>5. CASE AckSync
  BY Zenon, <1>5 DEF AckSync, fw, ghosts
<1>6. CASE Alive
  BY Zenon, <1>6 DEF Alive, fw, ghosts
<1>7. CASE Result
  BY Zenon, <1>7 DEF Result, fw, ghosts
<1>8. CASE Accept
  BY Zenon, <1>8 DEF Accept, Acceptable, fw, ghosts
<1>9. CASE Collect
  BY Zenon, <1>9 DEF Collect, hw, ghosts
<1>10. CASE Check
  BY Zenon, <1>10 DEF Check, hw, ghosts, Idle
<1>11. CASE DataRead
  BY Zenon, <1>11 DEF DataRead, ghosts, Answered, Taken
<1>12. CASE DataTimeout
  BY Zenon, <1>12 DEF DataTimeout, hw, ghosts
<1>13. CASE Classify
  BY Zenon, <1>13 DEF Classify, hw, ghosts, Idle
<1>14. CASE Credit
  BY Zenon, <1>14 DEF Credit, hw, ghosts, Idle
<1>15. CASE Restart
  BY Zenon, <1>15 DEF Restart, Idle, Answered, Taken, InFlight
<1>16. CASE Settled
  BY Zenon, <1>16 DEF Settled, hw, fw
<1> QED  BY Zenon, <1>0, <1>1, <1>2, <1>3, <1>4, <1>5, <1>6, <1>7, <1>8, <1>9, <1>10, <1>11, <1>12,
            <1>13, <1>14, <1>15, <1>16 DEF StatsNext, Source, Mailbox, Task

\* Every step remembers a clock stop.
LEMMA GapStep ==
  ASSUME BankInv, [StatsNext]_statsVars
  PROVE  GapKept'
<1> USE Sizes, ZeroValue DEF BankInv, StatsTypeOK, GapKept
<1>0. CASE UNCHANGED statsVars
  BY Zenon, <1>0 DEF statsVars
<1>1. ASSUME NEW s \in Slots, NEW v \in 1..CountMax + 1, CountEvent(s, v) PROVE GapKept'
  BY Zenon, <1>1 DEF CountEvent, fw
<1>2. CASE Capture
  BY Zenon, <1>2 DEF Capture, fw, ghosts
<1>3. CASE Release
  BY Zenon, <1>3 DEF Release, fw, ghosts
<1>4. CASE ClockChange
  BY Zenon, <1>4 DEF ClockChange, fw, ghosts
<1>5. CASE AckSync
  BY Zenon, <1>5 DEF AckSync, fw, ghosts
<1>6. CASE Alive
  BY Zenon, <1>6 DEF Alive, fw, ghosts
<1>7. CASE Result
  BY Zenon, <1>7 DEF Result, fw, ghosts
<1>8. CASE Accept
  BY Zenon, <1>8 DEF Accept, Acceptable, fw, ghosts
<1>9. CASE Collect
  BY Zenon, <1>9 DEF Collect, hw, ghosts
<1>10. CASE Check
  BY Zenon, <1>10 DEF Check, hw, ghosts, Idle
<1>11. CASE DataRead
  BY Zenon, <1>11 DEF DataRead, ghosts, Answered, Taken
<1>12. CASE DataTimeout
  BY Zenon, <1>12 DEF DataTimeout, hw, ghosts
<1>13. CASE Classify
  BY Zenon, <1>13 DEF Classify, hw, ghosts, Idle
<1>14. CASE Credit
  BY Zenon, <1>14 DEF Credit, hw, ghosts, Idle
<1>15. CASE Restart
  BY Zenon, <1>15 DEF Restart, Idle, Answered, Taken, InFlight
<1>16. CASE Settled
  BY Zenon, <1>16 DEF Settled, hw, fw
<1> QED  BY Zenon, <1>0, <1>1, <1>2, <1>3, <1>4, <1>5, <1>6, <1>7, <1>8, <1>9, <1>10, <1>11, <1>12,
            <1>13, <1>14, <1>15, <1>16 DEF StatsNext, Source, Mailbox, Task

\* Every step conserves each counter's events.
LEMMA CountsKept ==
  ASSUME BankInv, [StatsNext]_statsVars
  PROVE  Conserved'
<1> USE Sizes, ZeroValue DEF BankInv, StatsTypeOK, FourPhase, Conserved, InFlight, Held
<1>f. ASSUME UNCHANGED <<count, events, total, value>>, \A r \in Slots : InFlight(r)' = InFlight(r),
             \A r \in Slots : (pc' = "credit" /\ slot' = r) <=> (pc = "credit" /\ slot = r)
      PROVE  Conserved'
  <2>1. \A r \in Slots : Held(r)' = Held(r)
    BY Zenon, <1>f
  <2> HIDE DEF InFlight, Held
  <2> QED  BY Zenon, <1>f, <2>1
<1>m. \A r \in Slots : UNCHANGED <<mb, src>> => InFlight(r)' = InFlight(r)
  BY ZenonT(30)
<1>0. CASE UNCHANGED statsVars
  BY Zenon, <1>0, <1>f, <1>m DEF statsVars
<1>1. ASSUME NEW s \in Slots, NEW v \in 1..CountMax + 1, CountEvent(s, v) PROVE Conserved'
  <2>0. UNCHANGED <<mb, src, total, pc, slot, value>> /\ \A r \in Slots : InFlight(r)' = InFlight(r)
    BY Zenon, <1>1, <1>m DEF CountEvent, fw
  <2> HIDE DEF InFlight
  <2> SUFFICES ASSUME NEW r \in Slots
               PROVE  events'[r] = Join(r, Join(r, total[r], count'[r].n), Join(r, InFlight(r).n, Held(r)))
    BY Zenon, <2>0
  <2>1. /\ count[r].n \in Nat /\ InFlight(r).n \in Nat /\ value.n \in Nat /\ total[r] \in Nat
        /\ events[r] \in Nat
    BY Zenon, Numbers
  <2>2. events[r] = Join(r, Join(r, total[r], count[r].n), Join(r, InFlight(r).n, Held(r)))
    BY Zenon DEF BankInv, Conserved
  <2>3. count \in [Slots -> Values] /\ events \in [Slots -> Nat] /\ Held(r) \in Nat
    BY Zenon, <2>1
  <2>4. PICK c \in Values :
          /\ c.n >= count[s].n /\ count' = [count EXCEPT ![s] = c]
          /\ events' = [events EXCEPT ![s] = IF s \in MaxSlots THEN Join(s, events[s], c.n)
                                             ELSE events[s] + (c.n - count[s].n)]
    BY Zenon, <1>1, Counted
  <2> HIDE DEF InFlight, BankInv, Conserved, StatsTypeOK, Held
  <2>5. CASE r # s
    <3>1. count'[r] = count[r] /\ events'[r] = events[r]
      BY Zenon, <2>3, <2>4, <2>5
    <3> QED  BY Zenon, <2>2, <3>1
  <2>6. CASE r = s
    <3>1. /\ count'[r].n = c.n
          /\ events'[r] = IF r \in MaxSlots THEN Join(r, events[r], c.n) ELSE events[r] + (c.n - count[r].n)
      BY Zenon, <2>3, <2>4, <2>6
    <3>2. c.n \in Nat
      BY <2>4 DEF Values
    <3> QED  BY <2>1, <2>2, <2>3, <2>4, <2>6, <3>1, <3>2 DEF Join
  <2> QED  BY Zenon, <2>5, <2>6
<1>2. CASE Capture
  <2> SUFFICES ASSUME NEW r \in Slots
               PROVE  events'[r] = Join(r, Join(r, total'[r], count'[r].n), Join(r, InFlight(r)'.n, Held(r)'))
    BY Zenon DEF Conserved
  <2>1. /\ count[r].n \in Nat /\ InFlight(r).n \in Nat /\ value.n \in Nat /\ total[r] \in Nat
        /\ events[r] \in Nat
    BY Zenon, Numbers
  <2>2. events[r] = Join(r, Join(r, total[r], count[r].n), Join(r, InFlight(r).n, Held(r)))
    BY Zenon DEF BankInv, Conserved
  <2>3. UNCHANGED <<mb, pc, slot, value, total, events>>
    BY Zenon, <1>2 DEF Capture, fw, ghosts
  <2>4. CASE r = mb.sel
    <3>1. InFlight(r) = Zero
      BY Zenon, <1>2, <2>4 DEF Capture
    <3>2. InFlight(r)' = count[r] /\ count'[r] = Zero
      BY Zenon, <1>2, <2>3, <2>4 DEF Capture
    <3>3. Held(r)' = Held(r) /\ Held(r) \in Nat
      BY Zenon, <2>1, <2>3
    <3> HIDE DEF InFlight, BankInv, StatsTypeOK, FourPhase, Conserved, Held
    <3>4. events[r] = Join(r, Join(r, total[r], count[r].n), Join(r, 0, Held(r)))
      BY Zenon, <2>2, <3>1
    <3>5. events[r] = Join(r, Join(r, total[r], 0), Join(r, count[r].n, Held(r)))
      BY <2>1, <3>3, <3>4, JoinCaptured
    <3> QED  BY Zenon, <2>3, <3>2, <3>3, <3>5
  <2>5. CASE r # mb.sel
    <3>1. InFlight(r) = Zero /\ InFlight(r)' = Zero
      BY Zenon, <2>3, <2>5
    <3>2. count'[r] = count[r]
      BY Zenon, <1>2, <2>5 DEF Capture
    <3> HIDE DEF InFlight, BankInv, StatsTypeOK, FourPhase, Conserved
    <3> QED  BY Zenon, <2>1, <2>2, <2>3, <3>1, <3>2
  <2> QED  BY Zenon, <2>4, <2>5
<1>3. CASE Release
  <2>1. mb' = mb /\ ~mb.req
    BY Zenon, <1>3 DEF Release
  <2>2. \A r \in Slots : InFlight(r)' = InFlight(r)
    BY Zenon, <2>1
  <2> QED  BY Zenon, <1>3, <1>f, <2>2 DEF Release, fw, ghosts
<1>4. CASE ClockChange
  <2>1. mb' = mb /\ src'.ack = src.ack /\ src'.value = src.value
    BY Zenon, <1>4 DEF ClockChange
  <2>2. \A r \in Slots : InFlight(r)' = InFlight(r)
    BY Zenon, <2>1
  <2> QED  BY Zenon, <1>4, <1>f, <2>2 DEF ClockChange, fw, ghosts
<1>5. CASE AckSync
  <2>1. /\ src' = src /\ mb'.sel = mb.sel /\ mb'.pending = mb.pending /\ mb'.ready = mb.ready
        /\ mb'.saved = mb.saved /\ mb'.req = mb.req
    BY Zenon, <1>5 DEF AckSync
  <2>2. \A r \in Slots : InFlight(r)' = InFlight(r)
    BY Zenon, <2>1
  <2> QED  BY Zenon, <1>5, <1>f, <2>2 DEF AckSync, fw, ghosts
<1>6. CASE Alive
  <2>1. /\ src' = src /\ mb'.sel = mb.sel /\ mb'.pending = mb.pending /\ mb'.ready = mb.ready
        /\ mb'.saved = mb.saved /\ mb'.req = mb.req
    BY Zenon, <1>6 DEF Alive
  <2>2. \A r \in Slots : InFlight(r)' = InFlight(r)
    BY Zenon, <2>1
  <2> QED  BY Zenon, <1>6, <1>f, <2>2 DEF Alive, fw, ghosts
<1>7. CASE Result
  <2>1. /\ src' = src /\ mb'.sel = mb.sel /\ mb'.pending = mb.pending /\ mb.req /\ ~mb.ready /\ src.ack
        /\ mb'.ready /\ mb'.saved = src.value
    BY Zenon, <1>7 DEF Result
  <2>2. \A r \in Slots : InFlight(r)' = InFlight(r)
    BY Zenon, <2>1
  <2> QED  BY Zenon, <1>7, <1>f, <2>2 DEF Result, fw, ghosts
<1>8. CASE Accept
  BY Zenon, <1>8 DEF Accept, Acceptable, fw, ghosts
<1>9. CASE Collect
  BY Zenon, <1>9, <1>f, <1>m DEF Collect, hw, ghosts
<1>10. CASE Check
  BY Zenon, <1>10, <1>f, <1>m DEF Check, hw, ghosts, Idle
<1>11. CASE DataRead
  <2> SUFFICES ASSUME NEW r \in Slots
               PROVE  events'[r] = Join(r, Join(r, total'[r], count'[r].n), Join(r, InFlight(r)'.n, Held(r)'))
    BY Zenon DEF Conserved
  <2>1. /\ count[r].n \in Nat /\ InFlight(r).n \in Nat /\ value.n \in Nat /\ total[r] \in Nat
        /\ events[r] \in Nat
    BY Zenon, Numbers
  <2>2. events[r] = Join(r, Join(r, total[r], count[r].n), Join(r, InFlight(r).n, Held(r)))
    BY Zenon DEF BankInv, Conserved
  <2>3. /\ UNCHANGED <<count, src, slot, total, events>> /\ value' = mb.saved /\ mb' = Taken
        /\ pc = "wait" /\ pc' = "credit" /\ mb.ready /\ mb.pending /\ mb.sel = slot
    BY Zenon, <1>11 DEF DataRead, ghosts, Answered
  <2>4. InFlight(r)' = Zero
    BY Zenon, <2>3 DEF Taken
  <2>5. CASE r = slot
    <3>1. InFlight(r) = mb.saved
      BY Zenon, <2>3, <2>5
    <3> HIDE DEF InFlight, BankInv, StatsTypeOK, FourPhase, Conserved
    <3> QED  BY <2>1, <2>2, <2>3, <2>4, <2>5, <3>1 DEF Join
  <2>6. CASE r # slot
    <3>1. InFlight(r) = Zero
      BY Zenon, <2>3, <2>6
    <3> HIDE DEF InFlight, BankInv, StatsTypeOK, FourPhase, Conserved
    <3> QED  BY Zenon, <2>1, <2>2, <2>3, <2>4, <2>6, <3>1
  <2> QED  BY Zenon, <2>5, <2>6
<1>12. CASE DataTimeout
  BY ZenonT(30), <1>12 DEF DataTimeout, hw, ghosts
<1>13. CASE Classify
  BY ZenonT(30), <1>13 DEF Classify, hw, ghosts, Idle
<1>14. CASE Credit
  <2> SUFFICES ASSUME NEW r \in Slots
               PROVE  events'[r] = Join(r, Join(r, total'[r], count'[r].n), Join(r, InFlight(r)'.n, Held(r)'))
    BY Zenon DEF Conserved
  <2>1. /\ count[r].n \in Nat /\ InFlight(r).n \in Nat /\ value.n \in Nat /\ total[r] \in Nat
        /\ events[r] \in Nat
    BY Zenon, Numbers
  <2>2. events[r] = Join(r, Join(r, total[r], count[r].n), Join(r, InFlight(r).n, Held(r)))
    BY Zenon DEF BankInv, Conserved
  <2>3. /\ UNCHANGED <<count, src, mb, events>> /\ pc = "credit" /\ pc' # "credit"
        /\ total' = [total EXCEPT ![slot] = Join(slot, total[slot], value.n)] /\ total \in [Slots -> Nat]
    BY Zenon, <1>14 DEF Credit, hw, ghosts, Idle
  <2>4. InFlight(r)' = InFlight(r)
    BY Zenon, <2>3
  <2>5. CASE r = slot
    <3>1. total'[r] = Join(r, total[r], value.n)
      BY Zenon, <2>3, <2>5
    <3>2. Held(r) = value.n /\ Held(r)' = 0
      BY Zenon, <2>3, <2>5
    <3> HIDE DEF InFlight, BankInv, StatsTypeOK, FourPhase, Conserved, Held
    <3>3. events[r] = Join(r, Join(r, Join(r, total[r], value.n), count[r].n), Join(r, InFlight(r).n, 0))
      BY <2>1, <2>2, <3>2, JoinCredited
    <3> QED  BY Zenon, <2>3, <2>4, <3>1, <3>2, <3>3
  <2>6. CASE r # slot
    <3>1. total'[r] = total[r]
      BY Zenon, <2>3, <2>6
    <3> HIDE DEF InFlight, BankInv, StatsTypeOK, FourPhase, Conserved
    <3> QED  BY Zenon, <2>1, <2>2, <2>3, <2>4, <2>6, <3>1
  <2> QED  BY Zenon, <2>5, <2>6
<1>15. CASE Restart
  <2> SUFFICES ASSUME NEW r \in Slots
               PROVE  events'[r] = Join(r, Join(r, total'[r], count'[r].n), Join(r, InFlight(r)'.n, Held(r)'))
    BY Zenon DEF Conserved
  <2>1. /\ count[r].n \in Nat /\ InFlight(r).n \in Nat /\ value.n \in Nat /\ total[r] \in Nat
        /\ events[r] \in Nat
    BY Zenon, Numbers
  <2>2. events[r] = Join(r, Join(r, total[r], count[r].n), Join(r, InFlight(r).n, Held(r)))
    BY Zenon DEF BankInv, Conserved
  <2> DEFINE left == IF mb'.pending THEN InFlight(r) ELSE Zero
  <2>3. /\ UNCHANGED <<count, src>> /\ total'[r] = 0 /\ pc' = "idle" /\ events'[r] = Join(r, count[r].n, left.n)
    BY Zenon, <1>15 DEF Restart, Idle
  <2>4. InFlight(r)' = left
    <3>1. CASE pc = "wait" /\ Answered
      BY Zenon, <1>15, <2>3, <3>1 DEF Restart, Taken
    <3>2. CASE ~(pc = "wait" /\ Answered)
      <4>1. mb' = mb
        BY Zenon, <1>15, <3>2 DEF Restart
      <4> QED  BY Zenon, <2>3, <4>1
    <3> QED  BY Zenon, <3>1, <3>2
  <2>5. left \in {InFlight(r), Zero}
    BY Zenon
  <2> HIDE DEF left, InFlight, BankInv, StatsTypeOK, FourPhase, Conserved
  <2>6. left.n \in Nat
    BY <2>1, <2>5, ZeroValue
  <2> QED  BY <2>1, <2>3, <2>4, <2>6 DEF Join
<1>16. CASE Settled
  BY Zenon, <1>16, <1>f, <1>m DEF Settled, hw, fw
<1> QED  BY ZenonT(30), <1>0, <1>1, <1>2, <1>3, <1>4, <1>5, <1>6, <1>7, <1>8, <1>9, <1>10, <1>11, <1>12,
            <1>13, <1>14, <1>15, <1>16 DEF StatsNext, Source, Mailbox, Task

\* Every step keeps a saturation mark or reports it.
LEMMA MarksKept ==
  ASSUME BankInv, [StatsNext]_statsVars
  PROVE  SaturationVisible'
<1> USE Sizes, ZeroValue DEF BankInv, StatsTypeOK, FourPhase, SaturationVisible, InFlight
<1>0. CASE UNCHANGED statsVars
  BY Zenon, <1>0 DEF statsVars
<1>1. ASSUME NEW s \in Slots, NEW v \in 1..CountMax + 1, CountEvent(s, v) PROVE SaturationVisible'
  <2>1. UNCHANGED <<src, mb, value, saturated_reads>> /\ count \in [Slots -> Values]
    BY Zenon, <1>1 DEF CountEvent, fw
  <2>2. \A r \in Slots : InFlight(r)' = InFlight(r)
    BY Zenon, <2>1
  <2>3. PICK c \in Values :
          /\ count[s].over => c.over
          /\ satEver' => satEver \/ c.over
          /\ count' = [count EXCEPT ![s] = c]
    BY Zenon, <1>1, Counted
  <2>4. count'[s] = c /\ \A r \in Slots : r # s => count'[r] = count[r]
    BY Zenon, <1>1, <2>1, <2>3
  <2> QED  BY Zenon, <1>1, <2>1, <2>2, <2>3, <2>4
<1>2. CASE Capture
  BY Zenon, <1>2 DEF Capture, fw, ghosts
<1>3. CASE Release
  BY Zenon, <1>3 DEF Release, fw, ghosts
<1>4. CASE ClockChange
  BY Zenon, <1>4 DEF ClockChange, fw, ghosts
<1>5. CASE AckSync
  BY Zenon, <1>5 DEF AckSync, fw, ghosts
<1>6. CASE Alive
  BY Zenon, <1>6 DEF Alive, fw, ghosts
<1>7. CASE Result
  BY Zenon, <1>7 DEF Result, fw, ghosts
<1>8. CASE Accept
  BY Zenon, <1>8 DEF Accept, Acceptable, fw, ghosts
<1>9. CASE Collect
  BY Zenon, <1>9 DEF Collect, hw, ghosts
<1>10. CASE Check
  BY Zenon, <1>10 DEF Check, hw, ghosts, Idle
<1>11. CASE DataRead
  BY Zenon, <1>11 DEF DataRead, ghosts, Answered, Taken
<1>12. CASE DataTimeout
  BY Zenon, <1>12 DEF DataTimeout, hw, ghosts
<1>13. CASE Classify
  BY Zenon, <1>13 DEF Classify, hw, ghosts, Idle
<1>14. CASE Credit
  BY Zenon, <1>14 DEF Credit, hw, ghosts, Idle
<1>15. CASE Restart
  BY Zenon, <1>15 DEF Restart, Idle, Answered, Taken, InFlight
<1>16. CASE Settled
  BY Zenon, <1>16 DEF Settled, hw, fw
<1> QED  BY ZenonT(30), <1>0, <1>1, <1>2, <1>3, <1>4, <1>5, <1>6, <1>7, <1>8, <1>9, <1>10, <1>11, <1>12,
            <1>13, <1>14, <1>15, <1>16 DEF StatsNext, Source, Mailbox, Task

\* Initially the counters are empty and no read is under way.
LEMMA BankInit == StatsInit => BankInv
<1> SUFFICES ASSUME StatsInit PROVE BankInv
  BY Zenon
<1> USE Sizes, ZeroValue
<1>1. SourceTypes /\ MailboxType /\ TaskTypes /\ RecordTypes
  <2>1. SourceTypes /\ MailboxType
    BY Zenon DEF StatsInit, SourceTypes, MailboxType
  <2>2. TaskTypes
    BY Zenon DEF StatsInit, TaskTypes, Fault
  <2>3. RecordTypes
    <3>1. events = [s \in Slots |-> 0] /\ 0 \in Nat
      BY DEF StatsInit
    <3> QED  BY Zenon, <3>1 DEF StatsInit, RecordTypes
  <2> QED  BY Zenon, <2>1, <2>2, <2>3
<1>2. FourPhase /\ GapKept
  BY Zenon DEF StatsInit, FourPhase, GapKept
<1>3. Conserved
  <2>1. \A s \in Slots : /\ events[s] = 0 /\ total[s] = 0 /\ count[s].n = 0
                          /\ InFlight(s) = Zero /\ Held(s) = 0
    BY Zenon, ZeroValue DEF StatsInit, InFlight, Held
  <2>2. \A s \in Slots : Join(s, 0, 0) = 0
    BY DEF Join
  <2> QED  BY Zenon, <2>1, <2>2, ZeroValue DEF Conserved
<1>4. SaturationVisible
  BY Zenon DEF StatsInit, SaturationVisible
<1> QED  BY Zenon, <1>1, <1>2, <1>3, <1>4, TypeParts DEF BankInv

\* Every step keeps the invariant.
LEMMA BankStep == BankInv /\ [StatsNext]_statsVars => BankInv'
BY Zenon, TypeKept, PhasesKept, GapStep, CountsKept, MarksKept DEF BankInv

\* Every event of every counter is counted exactly once and no saturation
\* goes unreported, for any number and width of counters and whatever clock
\* stops, bus timeouts and firmware restarts fall between the steps of a read
\* (stats_bank.sv, stats_mailboxes.sv, statistics.c).
THEOREM BankCorrect == StatsSpec => []BankInv
BY BankInit, BankStep, PTL DEF StatsSpec

\* read_counter only calls a response late when the mailbox's clock monitor
\* saw no stop since the read was accepted.
THEOREM FaultsAreActive == StatsSpec => PendingFaultIsActive
<1>1. ASSUME BankInv, [StatsNext]_statsVars
      PROVE  pc = "classify" /\ pc' = "idle" /\ mb.pending /\ state' = "response fault" => ~stopped
  <2> SUFFICES ASSUME pc = "classify", pc' = "idle", mb.pending, state' = "response fault", stopped
               PROVE  FALSE
    BY Zenon
  <2>1. Classify \/ Restart
    BY Zenon, <1>1 DEF StatsNext, Source, Mailbox, Task, statsVars, fw, CountEvent, Capture, Release,
       ClockChange, AckSync,
       Alive, Result, Accept, Collect, Check, DataRead, DataTimeout, Credit, Settled
  <2>2. mb.gap
    BY Zenon, <1>1 DEF BankInv, GapKept
  <2> QED  BY Zenon, <2>1, <2>2 DEF Classify, Restart
<1> QED  BY <1>1, BankCorrect, PTL DEF StatsSpec, PendingFaultIsActive

(***************************************************************************)
(* The dump of the MAC table.  The firmware touches staging only while the *)
(* engine is stopped (Handover), so what is published is what one dump     *)
(* wrote; a page is tied to its generation.                                *)
(***************************************************************************)

\* The numbers of a dump and of a generation.
LEMMA DumpNumbers ==
  ASSUME DumpAssumption
  PROVE  /\ Chunks \in Nat /\ Chunks > 1 /\ 1 \in Chunk /\ 2 \in Chunk /\ Chunk \subseteq Nat
         /\ Generations \in Nat /\ Generations > 2 /\ Eras \in Nat \ {0} /\ 0 \in 0..Eras
         /\ 0 \in 0..Chunks /\ 0 \in 0..(Generations - 1) /\ 0 \in 0..(Generations - 2)
BY DEF DumpAssumption, Chunk

\* The engine's registers, as one record type.
Hw == [phase : {"idle", "read", "resp"}, chunk : Chunk, completed : 0..Chunks, done : BOOLEAN, error : BOOLEAN]

\* What the CPU's cache may hold of staging.
Lines == {NoLine} \union [era : 0..Eras, dirty : BOOLEAN]

\* What a browser has seen.
Pages == [next : Chunk, gen : 0..(Generations - 1), eras : SUBSET (0..Eras), missed : 0..(Generations - 2)]

\* The types of the variables of the firmware.
DumpFields == /\ {abi, owned, busy, ready, refresh} \subseteq BOOLEAN /\ error \in {0, 1}
          /\ web_pc \in {"idle", "publish", "refresh", "start", "output"}

\* A started engine, a reset one and a browser with no page have their types.
LEMMA HwValues ==
  ASSUME DumpAssumption
  PROVE  Started \in Hw /\ DumpReset \in Hw /\ NoPage \in Pages
<1>1. Started \in Hw
  BY Zenon, DumpNumbers DEF Started, Hw
<1>2. DumpReset \in Hw
  <2>1. \A h \in Hw : [h EXCEPT !.phase = "idle"] \in Hw
    BY Zenon DEF Hw
  <2> QED  BY Zenon, <1>1, <2>1 DEF DumpReset
<1>3. NoPage \in Pages
  BY Zenon, DumpNumbers DEF NoPage, Pages
<1> QED  BY Zenon, <1>1, <1>2, <1>3

\* The engine keeps its types and counts what it writes.
LEMMA EngineStep ==
  ASSUME DumpAssumption, dumper \in Hw, EngineSound, Response
  PROVE  dumper' \in Hw /\ EngineSound' /\ ~dumper.done /\ (dumper'.completed = dumper.completed \/ dumper'.completed = dumper.chunk)
         /\ (dumper'.error \/ dumper'.completed = dumper.chunk) /\ dumper'.phase # "resp"
<1>1. dumper.phase = "resp" /\ dumper.chunk \in Chunk /\ dumper.completed + 1 = dumper.chunk /\ dumper.completed \in 0..Chunks /\ ~dumper.done
  BY Zenon DEF Hw, Response, EngineSound, Running
<1>2. CASE dumper' = [dumper EXCEPT !.phase = "idle", !.done = TRUE, !.error = TRUE]
  <2>1. dumper' \in Hw /\ dumper'.phase = "idle" /\ dumper'.error = TRUE /\ dumper'.completed = dumper.completed
    BY Zenon, <1>2 DEF Hw
  <2> QED  BY Zenon, <1>1, <2>1 DEF EngineSound, Running
<1>3. CASE dumper.chunk = Chunks /\ dumper' = [dumper EXCEPT !.phase = "idle", !.done = TRUE, !.completed = @ + 1]
  <2> DEFINE n == dumper.completed + 1
  <2>1. n = Chunks /\ n = dumper.chunk /\ n \in 0..Chunks
    BY <1>1, <1>3, DumpNumbers DEF Chunk
  <2>2. dumper' = [dumper EXCEPT !.phase = "idle", !.done = TRUE, !.completed = n]
    BY Zenon, <1>3
  <2> HIDE DEF n
  <2>3. dumper' \in Hw /\ dumper'.phase = "idle" /\ dumper'.done = TRUE /\ dumper'.completed = n
    BY Zenon, <2>1, <2>2 DEF Hw
  <2> QED  BY Zenon, <1>1, <2>1, <2>3 DEF EngineSound, Running
<1>4. CASE dumper.chunk # Chunks /\ dumper' = [dumper EXCEPT !.phase = "read", !.chunk = @ + 1, !.completed = @ + 1]
  <2> DEFINE n == dumper.completed + 1
           m == dumper.chunk + 1
  <2>1. n = dumper.chunk /\ n \in 0..Chunks /\ m \in Chunk /\ n + 1 = m
    BY <1>1, <1>4, DumpNumbers DEF Chunk
  <2>2. dumper' = [dumper EXCEPT !.phase = "read", !.chunk = m, !.completed = n]
    BY Zenon, <1>4
  <2> HIDE DEF n, m
  <2>3. dumper' \in Hw /\ dumper'.phase = "read" /\ dumper'.done = dumper.done /\ dumper'.completed = n /\ dumper'.chunk = m
    BY Zenon, <2>1, <2>2 DEF Hw
  <2> QED  BY Zenon, <1>1, <2>1, <2>3 DEF EngineSound, Running
<1> QED  BY Zenon, <1>2, <1>3, <1>4 DEF Response

\* A Burst only goes on to wait for its response.
LEMMA BurstStep ==
  ASSUME DumpAssumption, dumper \in Hw, EngineSound, Burst
  PROVE  dumper' \in Hw /\ EngineSound' /\ dumper.chunk \in Chunk /\ dumper'.phase = "resp" /\ dumper'.chunk = dumper.chunk
         /\ dumper'.completed = dumper.completed /\ ~dumper.done /\ dumper.completed + 1 = dumper.chunk
<1>1. dumper.phase = "read" /\ dumper' = [dumper EXCEPT !.phase = "resp"]
  BY Zenon DEF Burst
<1> QED  BY Zenon, <1>1 DEF Hw, EngineSound, Running

\* What is in memory and in the cache keeps its type.
LEMMA StagingTypes ==
  ASSUME DumpAssumption, DumpTypeOK, EngineSound, [DumpNext]_dumpVars
  PROVE  /\ ddr' \in [Chunk -> 0..Eras] /\ cache' \in [Chunk -> Lines] /\ dump_era' \in 0..Eras
         /\ published' \in [Chunk -> 0..Eras]
<1> DEFINE Good == /\ ddr' \in [Chunk -> 0..Eras] /\ cache' \in [Chunk -> Lines] /\ dump_era' \in 0..Eras
                   /\ published' \in [Chunk -> 0..Eras]
<1>t. /\ ddr \in [Chunk -> 0..Eras] /\ cache \in [Chunk -> Lines] /\ dump_era \in 0..Eras
      /\ published \in [Chunk -> 0..Eras] /\ dumper \in Hw
  BY Zenon DEF DumpTypeOK, Lines, Hw
<1>l. \A e \in 0..Eras, d \in BOOLEAN : Line(e, d) \in Lines
  BY Zenon DEF Line, Lines
<1>n. NoLine \in Lines /\ 0 \in 0..Eras
  BY Zenon, DumpNumbers DEF Lines
<1>s. \A c \in Chunk : Seen(c) \in 0..Eras /\ WrittenBack(c) \in 0..Eras
  BY Zenon, <1>t DEF Seen, WrittenBack, Lines
<1>1. CASE Burst
  <2>1. ddr' \in [Chunk -> 0..Eras]
    BY Zenon, <1>1, <1>t DEF Burst
  <2> QED  BY Zenon, <1>1, <2>1, <1>t DEF Burst, dumpRest, webVars
<1>2. CASE Response
  BY Zenon, <1>2, <1>t DEF Response, dumpRest, webVars
<1>3. CASE RestartFirmware
  BY Zenon, <1>3, <1>t, <1>l, <1>n DEF RestartFirmware, Boot
<1>4. CASE PublishDump
  <2>1. cache' \in [Chunk -> Lines]
    BY Zenon, <1>4, <1>t, <1>l DEF PublishDump
  <2>2. published' \in [Chunk -> 0..Eras]
    BY Zenon, <1>4, <1>t, <1>s DEF PublishDump
  <2> QED  BY Zenon, <1>4, <2>1, <2>2, <1>t DEF PublishDump
<1>5. CASE NoStart \/ Reply \/ UNCHANGED dumpVars
  BY Zenon, <1>5, <1>t DEF NoStart, Reply, dumpVars, webVars
<1>6. CASE Flush
  BY Zenon, <1>6, <1>t, <1>n, <1>s DEF Flush, webVars
<1>7. CASE StartDump
  <2>1. (dump_era % Eras) + 1 \in 0..Eras
    BY <1>t, DumpNumbers
  <2> QED  BY Zenon, <1>7, <2>1, <1>t DEF StartDump
<1>8. ASSUME NEW c \in Chunk, Evict(c) \/ Prefetch(c) PROVE Good
  BY ZenonT(30), <1>8, <1>t, <1>l, <1>n, <1>s DEF Evict, Prefetch, webVars
<1>9. ASSUME NEW r \in BOOLEAN, Poll(r) PROVE Good
  BY Zenon, <1>9, <1>t, <1>n DEF Poll, webVars
<1> QED  BY Zenon, <1>1, <1>2, <1>3, <1>4, <1>5, <1>6, <1>7, <1>8, <1>9 DEF DumpNext, Call

\* The engine and the driver's flags keep their types.
LEMMA ControlTypes ==
  ASSUME DumpAssumption, DumpTypeOK, EngineSound, [DumpNext]_dumpVars
  PROVE  dumper' \in Hw /\ EngineSound' /\ DumpFields'
<1>t. dumper \in Hw /\ DumpFields
  BY Zenon DEF DumpTypeOK, Hw, DumpFields
<1>1. CASE Burst
  <2>1. dumper' \in Hw /\ EngineSound'
    BY Zenon, <1>1, <1>t, BurstStep
  <2> QED  BY Zenon, <1>1, <2>1, <1>t DEF Burst, dumpRest, webVars, DumpFields
<1>2. CASE Response
  <2>1. dumper' \in Hw /\ EngineSound'
    BY Zenon, <1>2, <1>t, EngineStep
  <2> QED  BY Zenon, <1>2, <2>1, <1>t DEF Response, dumpRest, webVars, DumpFields
<1>3. CASE StartDump
  <2>1. dumper' \in Hw
    BY Zenon, <1>3, HwValues DEF StartDump
  <2>2. EngineSound'
    BY <1>3 DEF StartDump, EngineSound, Started, Running
  <2> QED  BY Zenon, <1>3, <2>1, <2>2, <1>t DEF StartDump, DumpFields
<1>4. CASE (PublishDump \/ NoStart \/ Flush \/ Reply \/ RestartFirmware \/ (\E c \in Chunk : Evict(c) \/ Prefetch(c))
            \/ (\E r \in BOOLEAN : Poll(r)) \/ UNCHANGED dumpVars)
  <2>1. dumper' = dumper
    BY Zenon, <1>4 DEF PublishDump, NoStart, Flush, Reply, RestartFirmware, Evict,
        Prefetch, Poll, dumpVars
  <2>2. dumper' \in Hw /\ EngineSound'
    BY Zenon, <2>1, <1>t DEF EngineSound, Running
  <2>b. /\ abi \in BOOLEAN /\ owned \in BOOLEAN /\ busy \in BOOLEAN /\ ready \in BOOLEAN /\ refresh \in BOOLEAN
        /\ TRUE \in BOOLEAN /\ FALSE \in BOOLEAN /\ error \in {0, 1}
    BY Zenon, <1>t DEF DumpFields
  <2>3. CASE PublishDump
    <3>1. busy' \in BOOLEAN /\ abi' \in BOOLEAN /\ owned' \in BOOLEAN /\ refresh' \in BOOLEAN
      BY Zenon, <2>3, <2>b DEF PublishDump
    <3>2. ready' \in BOOLEAN /\ error' \in {0, 1}
      BY Zenon, <2>3, <2>b DEF PublishDump
    <3> QED  BY Zenon, <2>2, <2>3, <3>1, <3>2 DEF PublishDump, DumpFields
  <2>8. CASE NoStart
    <3>1. error' \in {0, 1}
      BY Zenon, <2>8, <2>b DEF NoStart
    <3> QED  BY Zenon, <2>2, <2>8, <2>b, <3>1 DEF NoStart, DumpFields
  <2>4. CASE Flush
    BY Zenon, <2>2, <2>4, <2>b DEF Flush, DumpFields, webVars
  <2>a. CASE Reply
    <3>1. UNCHANGED <<abi, owned, webVars>> /\ web_pc' = "idle" /\ refresh' = FALSE
      BY Zenon, <2>a DEF Reply
    <3> QED  BY Zenon, <2>2, <2>b, <3>1 DEF DumpFields, webVars
  <2>5. CASE RestartFirmware
    <3>1. /\ owned' = FALSE /\ busy' = FALSE /\ ready' = FALSE /\ error' = 0 /\ web_pc' = "idle" /\ refresh' = FALSE
          /\ abi' = abi
      BY Zenon, <2>5 DEF RestartFirmware, Boot
    <3> QED  BY Zenon, <2>2, <2>b, <3>1 DEF DumpFields
  <2>9. CASE UNCHANGED dumpVars
    BY Zenon, <2>2, <2>9, <1>t DEF DumpFields, webVars, dumpVars
  <2>6. ASSUME NEW c \in Chunk, Evict(c) \/ Prefetch(c) PROVE DumpFields'
    BY Zenon, <2>6, <1>t DEF Evict, Prefetch, DumpFields, webVars
  <2>7. ASSUME NEW r \in BOOLEAN, Poll(r) PROVE DumpFields'
    BY Zenon, <2>7, <1>t DEF Poll, DumpFields, webVars
  <2> QED  BY Zenon, <1>4, <2>2, <2>3, <2>4, <2>5, <2>6, <2>7, <2>8, <2>9, <2>a
<1> QED  BY Zenon, <1>1, <1>2, <1>3, <1>4 DEF DumpNext, Call

\* The staging buffer is with one side at a time, and the engine is stopped when it
\* changes hands.
LEMMA HandoverStep ==
  ASSUME DumpAssumption, DumpTypeOK, EngineSound, Handover, CopyAfterDma, [DumpNext]_dumpVars
  PROVE  Handover' /\ CopyAfterDma'
<1>t. dumper \in Hw /\ DumpFields
  BY Zenon DEF DumpTypeOK, Hw, DumpFields
<1> USE DEF Handover, CopyAfterDma
<1>1. CASE Burst
  <2>1. dumper.phase = "read" /\ dumper' = [dumper EXCEPT !.phase = "resp"] /\ dumper'.done = dumper.done
    BY Zenon, <1>1, <1>t DEF Burst, Hw
  <2>2. UNCHANGED <<owned, busy, web_pc>>
    BY Zenon, <1>1 DEF Burst, dumpRest, webVars
  <2> QED  BY Zenon, <2>1, <2>2 DEF Running
<1>2. CASE Response
  <2>1. dumper.phase = "resp"
    BY Zenon, <1>2 DEF Response
  <2>2. UNCHANGED <<owned, busy, web_pc>>
    BY Zenon, <1>2 DEF Response, dumpRest, webVars
  <2>3. web_pc \notin {"publish", "start"}
    BY Zenon, <2>1 DEF Running
  <2> QED  BY Zenon, <2>2, <2>3 DEF Running
<1>3. CASE StartDump
  BY Zenon, <1>3, <1>t DEF StartDump, DumpFields
<1>4. CASE RestartFirmware
  BY Zenon, <1>4 DEF RestartFirmware, Boot
<1>5. CASE PublishDump
  BY Zenon, <1>5, <1>t DEF PublishDump, DumpFields
<1>6. CASE NoStart
  BY Zenon, <1>6, <1>t DEF NoStart, DumpFields
<1>7. CASE Flush
  BY Zenon, <1>7, <1>t DEF Flush, DumpFields, webVars, Running
<1>8. CASE Reply
  BY Zenon, <1>8, <1>t DEF Reply, DumpFields, webVars, Running
<1>9. ASSUME NEW c \in Chunk, Evict(c) \/ Prefetch(c)
      PROVE  Handover' /\ CopyAfterDma'
  <2>1. UNCHANGED <<owned, busy, web_pc, dumper>>
    BY Zenon, <1>9 DEF Evict, Prefetch, webVars
  <2> QED  BY Zenon, <2>1 DEF Running
<1>10. ASSUME NEW r \in BOOLEAN, Poll(r) PROVE Handover' /\ CopyAfterDma'
  BY Zenon, <1>10, <1>t DEF Poll, DumpFields, webVars, Running, Ended
<1>11. CASE UNCHANGED dumpVars
  <2>1. UNCHANGED <<owned, busy, web_pc, dumper>>
    BY Zenon, <1>11 DEF dumpVars, webVars
  <2> QED  BY Zenon, <2>1 DEF Running
<1> QED  BY Zenon, <1>1, <1>2, <1>3, <1>4, <1>5, <1>6, <1>7, <1>8, <1>9, <1>10, <1>11
    DEF DumpNext, Call

\* What the dump has written stays its own until it is copied.
LEMMA StagingStep ==
  ASSUME DumpAssumption, DumpTypeOK, EngineSound, Handover, CopyAfterDma, StagingSound, [DumpNext]_dumpVars
  PROVE  StagingSound'
<1>t. /\ dumper \in Hw /\ DumpFields /\ ddr \in [Chunk -> 0..Eras] /\ cache \in [Chunk -> Lines]
      /\ owned \in BOOLEAN /\ busy \in BOOLEAN
  BY Zenon DEF DumpTypeOK, Hw, DumpFields, Lines
<1>n. Chunk \subseteq Nat /\ Chunks \in Nat
  BY Zenon, DumpNumbers
<1>1. CASE Burst
  <2>1. /\ dumper'.phase = "resp" /\ dumper'.chunk = dumper.chunk /\ dumper'.completed = dumper.completed /\ dumper.chunk \in Chunk
        /\ dumper.completed + 1 = dumper.chunk /\ dumper.completed \in 0..Chunks
    BY Zenon, <1>1, <1>t, BurstStep DEF Hw
  <2>2. UNCHANGED <<owned, busy, web_pc, cache, dump_era>> /\ ddr' = [ddr EXCEPT ![dumper.chunk] = dump_era] /\ Running
    BY Zenon, <1>1 DEF Burst, dumpRest, webVars, Running
  <2>3. web_pc # "publish"
    BY Zenon, <2>2 DEF CopyAfterDma
  <2>4. \A c \in Chunk : ddr'[c] = IF c = dumper.chunk THEN dump_era ELSE ddr[c]
    BY Zenon, <2>2, <1>t
  <2> QED  BY Zenon, <2>1, <2>2, <2>3, <2>4 DEF StagingSound
<1>2. CASE Response
  <2>1. /\ dumper.phase = "resp" /\ dumper'.phase # "resp" /\ (dumper'.completed = dumper.completed \/ dumper'.completed = dumper.chunk)
        /\ dumper.completed + 1 = dumper.chunk /\ dumper.completed \in 0..Chunks
    <3>1. dumper.phase = "resp"
      BY Zenon, <1>2 DEF Response
    <3>2. dumper.completed + 1 = dumper.chunk /\ dumper.completed \in 0..Chunks
      BY Zenon, <3>1, <1>t DEF EngineSound, Running, Hw
    <3> QED  BY Zenon, <1>2, <1>t, <3>1, <3>2, EngineStep
  <2>2. UNCHANGED <<owned, busy, web_pc, cache, dump_era, ddr>>
    BY Zenon, <1>2 DEF Response, dumpRest, webVars
  <2>3. web_pc # "publish"
    BY Zenon, <2>1 DEF CopyAfterDma, Running
  <2>4. \A c \in Chunk : c <= dumper'.completed => c <= dumper.completed \/ c = dumper.chunk
    BY <2>1, <1>n
  <2> QED  BY Zenon, <2>1, <2>2, <2>3, <2>4 DEF StagingSound
<1>3. CASE StartDump
  <2>1. dumper'.completed = 0 /\ dumper'.phase = "read" /\ UNCHANGED <<owned, cache, ddr>> /\ web_pc' = "output" /\ owned
    BY Zenon, <1>3 DEF StartDump, Started, Handover
  <2>2. \A c \in Chunk : ~(c <= 0)
    BY DEF Chunk
  <2> QED  BY Zenon, <2>1, <2>2 DEF StagingSound
<1>4. CASE RestartFirmware
  BY Zenon, <1>4 DEF RestartFirmware, Boot, StagingSound
<1>5. CASE PublishDump
  BY Zenon, <1>5 DEF PublishDump, StagingSound, Handover
<1>6. CASE NoStart \/ Reply
  <2>1. UNCHANGED <<owned, cache, ddr, dumper, dump_era, busy>> /\ web_pc' # "publish"
    BY Zenon, <1>6 DEF NoStart, Reply, webVars
  <2> QED  BY Zenon, <2>1 DEF StagingSound
<1>7. CASE Flush
  <2>1. \A c \in Chunk : cache'[c] = NoLine
    BY Zenon, <1>7 DEF Flush
  <2>2. ~busy' /\ web_pc' # "publish"
    BY Zenon, <1>7 DEF Flush, webVars
  <2> QED  BY Zenon, <2>1, <2>2 DEF StagingSound
<1>8. ASSUME NEW c \in Chunk, Evict(c) PROVE StagingSound'
  <2>1. UNCHANGED <<dumper, owned, busy, web_pc, dump_era>>
    BY Zenon, <1>8 DEF Evict, webVars
  <2>2. cache[c] # NoLine /\ \A d \in Chunk : cache'[d] = IF d = c THEN NoLine ELSE cache[d]
    BY Zenon, <1>8, <1>t DEF Evict
  <2>3. \A d \in Chunk : ddr'[d] = IF d = c THEN WrittenBack(c) ELSE ddr[d]
    BY Zenon, <1>8, <1>t DEF Evict
  <2>4. owned \/ busy => WrittenBack(c) = ddr[c]
    BY Zenon, <2>2 DEF StagingSound, WrittenBack
  <2>5. web_pc = "publish" => busy
    BY Zenon DEF Handover
  <2>6. owned \/ busy => \A d \in Chunk : ddr'[d] = ddr[d]
    BY Zenon, <2>3, <2>4
  <2> QED  BY Zenon, <2>1, <2>2, <2>5, <2>6 DEF StagingSound
<1>9. ASSUME NEW c \in Chunk, Prefetch(c) PROVE StagingSound'
  <2>1. UNCHANGED <<dumper, owned, busy, web_pc, dump_era, ddr>>
    BY Zenon, <1>9 DEF Prefetch, webVars
  <2>2. \A d \in Chunk : cache'[d] = IF d = c THEN Line(ddr[c], FALSE) ELSE cache[d]
    BY Zenon, <1>9, <1>t DEF Prefetch
  <2>3. Line(ddr[c], FALSE).era = ddr[c] /\ ~Line(ddr[c], FALSE).dirty
    BY Zenon DEF Line
  <2> QED  BY Zenon, <2>1, <2>2, <2>3 DEF StagingSound
<1>10. ASSUME NEW r \in BOOLEAN, Poll(r) PROVE StagingSound'
  <2>1. UNCHANGED <<dumper, busy, dump_era, ddr>>
    BY Zenon, <1>10 DEF Poll, webVars
  <2>2. CASE web_pc' = "publish" /\ cache' = [c \in Chunk |-> NoLine]
    <3>1. \A c \in Chunk : cache'[c] = NoLine
      BY Zenon, <2>2
    <3> QED  BY Zenon, <2>1, <3>1 DEF StagingSound
  <2>3. CASE web_pc' = "refresh" /\ UNCHANGED <<owned, cache>>
    <3>1. web_pc' # "publish" /\ cache' = cache /\ owned' = owned
      BY Zenon, <2>3
    <3> QED  BY Zenon, <2>1, <3>1 DEF StagingSound
  <2> QED  BY Zenon, <1>10, <2>2, <2>3 DEF Poll
<1>11. CASE UNCHANGED dumpVars
  <2>1. UNCHANGED <<dumper, owned, busy, web_pc, dump_era, ddr, cache>>
    BY Zenon, <1>11 DEF dumpVars, webVars
  <2> QED  BY Zenon, <2>1 DEF StagingSound
<1> QED  BY Zenon, <1>1, <1>2, <1>3, <1>4, <1>5, <1>6, <1>7, <1>8, <1>9, <1>10, <1>11
    DEF DumpNext, Call

\* The copy of a complete dump holds that dump and nothing else.
LEMMA CopyIsDump ==
  ASSUME DumpAssumption, DumpTypeOK, EngineSound, Handover, CopyAfterDma, StagingSound, web_pc = "publish", Complete
  PROVE  dumper.done /\ ~dumper.error /\ \A c \in Chunk : Seen(c) = dump_era
<1>1. busy /\ dumper.done /\ ~dumper.error /\ dumper.completed = Chunks
  BY Zenon DEF Handover, Complete
<1>2. \A c \in Chunk : c <= dumper.completed
  BY <1>1, DumpNumbers DEF Chunk
<1>3. \A c \in Chunk : ddr[c] = dump_era /\ (cache[c] = NoLine \/ cache[c].era = ddr[c])
  BY Zenon, <1>1, <1>2 DEF StagingSound
<1> QED  BY Zenon, <1>1, <1>3 DEF Seen

\* Generations go round from 1 and never become 0 again.
LEMMA GenerationAhead ==
  ASSUME DumpAssumption, NEW g \in 1..(Generations - 1), NEW k \in 0..(Generations - 2)
  PROVE  /\ Ahead(g, k) \in 1..(Generations - 1) /\ Ahead(g, 0) = g /\ (Ahead(g, k) = g => k = 0)
         /\ k + 1 <= Generations - 2 =>
               Ahead(g, k + 1) = IF Ahead(g, k) + 1 = Generations THEN 1 ELSE Ahead(g, k) + 1
BY DumpNumbers DEF Ahead

\* Steps that leave the snapshot and the browser alone.
LEMMA SnapshotKept ==
  ASSUME [DumpNext]_dumpVars, ~PublishDump, ~RestartFirmware
  PROVE  UNCHANGED <<published, generation, ready>> /\ (Reply \/ browser' = browser)
<1>1. CASE Burst \/ Response \/ UNCHANGED dumpVars
  BY Zenon, <1>1 DEF Burst, Response, dumpRest, webVars, dumpVars
<1>2. CASE NoStart \/ Flush \/ StartDump \/ Reply
  BY Zenon, <1>2 DEF NoStart, Flush, StartDump, Reply, webVars
<1>3. ASSUME NEW c \in Chunk, Evict(c) \/ Prefetch(c)
      PROVE  UNCHANGED <<published, generation, ready, browser>>
  BY Zenon, <1>3 DEF Evict, Prefetch, webVars
<1>4. ASSUME NEW r \in BOOLEAN, Poll(r) PROVE UNCHANGED <<published, generation, ready, browser>>
  BY Zenon, <1>4 DEF Poll, webVars
<1> QED  BY Zenon, <1>1, <1>2, <1>3, <1>4 DEF DumpNext, Call

\* The snapshot stays one dump's, with a generation of its own.
LEMMA SnapshotStep ==
  ASSUME DumpAssumption, DumpTypeOK, EngineSound, Handover, CopyAfterDma, StagingSound, OneSnapshot, GenerationZero, [DumpNext]_dumpVars
  PROVE  OneSnapshot' /\ GenerationZero' /\ generation' \in 0..(Generations - 1)
<1>t. generation \in 0..(Generations - 1) /\ ready \in BOOLEAN /\ Generations \in Nat /\ Generations > 2
  BY Zenon, DumpNumbers DEF DumpTypeOK
<1>1. CASE ~PublishDump /\ ~RestartFirmware
  BY Zenon, <1>1, <1>t, SnapshotKept DEF OneSnapshot, GenerationZero
<1>2. CASE RestartFirmware
  <2>1. /\ generation' = 0 /\ ready' = FALSE /\ published' = [c \in Chunk |-> 0] /\ 0 \in 0..(Generations - 1)
    BY Zenon, <1>2, DumpNumbers DEF RestartFirmware, Boot
  <2> QED  BY Zenon, <2>1 DEF OneSnapshot, GenerationZero
<1>3. CASE PublishDump /\ Complete
  <2>1. /\ published' = [c \in Chunk |-> Seen(c)] /\ ready' = TRUE /\ generation' = NextGeneration
    BY Zenon, <1>3 DEF PublishDump
  <2>2. \A c \in Chunk : Seen(c) = dump_era
    BY Zenon, <1>3, CopyIsDump DEF PublishDump
  <2>3. OneSnapshot'
    BY Zenon, <2>1, <2>2 DEF OneSnapshot
  <2>4. generation' \in 0..(Generations - 1) /\ generation' # 0
    BY <2>1, <1>t DEF NextGeneration
  <2> QED  BY Zenon, <2>1, <2>3, <2>4 DEF GenerationZero
<1>4. CASE PublishDump /\ ~Complete
  BY Zenon, <1>4, <1>t DEF PublishDump, OneSnapshot, GenerationZero
<1> QED  BY Zenon, <1>1, <1>2, <1>3, <1>4

\* A browser's pages of one generation stay pages of one snapshot.
LEMMA PageStep ==
  ASSUME DumpAssumption, DumpTypeOK, OneSnapshot, GenerationZero, PagesAgree, PageOfGeneration, [DumpNext]_dumpVars
  PROVE  PagesAgree' /\ PageOfGeneration' /\ browser' \in Pages
<1> DEFINE Good == PagesAgree' /\ PageOfGeneration' /\ browser' \in Pages
<1>n. /\ Chunks \in Nat /\ Chunks > 1 /\ 1 \in Chunk /\ 2 \in Chunk /\ Generations \in Nat /\ Generations > 2
      /\ 0 \in 0..(Generations - 2)
  BY Zenon, DumpNumbers
<1>t. /\ browser \in Pages /\ generation \in 0..(Generations - 1) /\ ready \in BOOLEAN /\ published \in [Chunk -> 0..Eras]
  BY Zenon DEF DumpTypeOK, Pages
<1>p. /\ browser.next \in Chunk /\ browser.gen \in 0..(Generations - 1) /\ browser.missed \in 0..(Generations - 2) /\ browser.eras \in SUBSET (0..Eras)
  BY Zenon, <1>t DEF Pages
<1>g. browser.next # 1 => browser.gen \in 1..(Generations - 1)
  BY <1>p, <1>n DEF PageOfGeneration
<1>z. NoPage \in Pages /\ NoPage.next = 1 /\ NoPage.eras = {}
  BY Zenon, HwValues DEF NoPage
<1>1. CASE browser' = browser /\ UNCHANGED <<published, generation>>
  BY Zenon, <1>1, <1>t DEF PagesAgree, PageOfGeneration
<1>2. CASE browser' = NoPage
  <2>1. browser'.next = 1 /\ browser'.eras = {} /\ browser' \in Pages
    BY Zenon, <1>2, <1>z
  <2> QED  BY Zenon, <2>1 DEF PagesAgree, PageOfGeneration
<1>3. CASE browser' = browser /\ browser.next = 1
  BY Zenon, <1>3, <1>t DEF PagesAgree, PageOfGeneration
<1>4. CASE PublishDump /\ browser.next # 1 /\ browser.missed + 2 # Generations
  <2> DEFINE n == browser.missed + 1
  <2>1. browser' = [browser EXCEPT !.missed = n]
    BY Zenon, <1>4 DEF PublishDump, Missed
  <2>2. n \in 0..(Generations - 2) /\ n \in Nat /\ browser.missed \in Nat /\ browser.missed <= n
    BY <1>4, <1>p, <1>n
  <2>h. n = browser.missed + 1
    BY Zenon
  <2> HIDE DEF n
  <2>3. browser' \in Pages /\ browser'.next = browser.next /\ browser'.gen = browser.gen /\ browser'.eras = browser.eras /\ browser'.missed = n
    BY Zenon, <2>1, <2>2, <1>t DEF Pages
  <2>4. PICK k \in 0..browser.missed : generation = Ahead(browser.gen, k) /\ (k = 0 => \A e \in browser.eras : e = published[1])
    BY Zenon, <1>4 DEF PageOfGeneration
  <2>5. CASE Complete
    <3>1. k + 1 \in 0..n /\ k \in 0..(Generations - 2) /\ k + 1 <= Generations - 2 /\ k + 1 # 0
      BY <2>2, <2>h, <1>n
    <3>2. generation' = IF generation + 1 = Generations THEN 1 ELSE generation + 1
      BY Zenon, <1>4, <2>5 DEF PublishDump, NextGeneration
    <3>3. generation' = Ahead(browser.gen, k + 1)
      BY ZenonT(30), <3>1, <3>2, <2>4, <1>g, <1>4, GenerationAhead
    <3>4. \E j \in 0..n : generation' = Ahead(browser.gen, j) /\ (j = 0 => \A e \in browser.eras : e = published'[1])
      BY Zenon, <3>1, <3>3
    <3>5. PageOfGeneration'
      BY Zenon, <3>4, <2>3, <1>4 DEF PageOfGeneration
    <3> QED  BY Zenon, <3>5, <2>3 DEF PagesAgree
  <2>6. CASE ~Complete
    <3>1. k \in 0..n
      BY <2>2, <2>h
    <3>2. generation' = generation /\ published' = published
      BY Zenon, <1>4, <2>6 DEF PublishDump
    <3>3. PageOfGeneration'
      BY Zenon, <3>1, <3>2, <2>4, <2>3, <1>4 DEF PageOfGeneration
    <3> QED  BY Zenon, <3>3, <2>3 DEF PagesAgree
  <2> QED  BY Zenon, <2>5, <2>6
<1>5. CASE PublishDump
  <2>1. browser' = browser \/ browser' = NoPage \/ (browser.next # 1 /\ browser.missed + 2 # Generations)
    BY Zenon, <1>5 DEF PublishDump, Missed
  <2>2. browser.next = 1 => browser' = browser
    BY Zenon, <1>5 DEF PublishDump, Missed
  <2>3. browser.next # 1 => browser' = NoPage \/ browser.missed + 2 # Generations
    BY Zenon, <1>5 DEF PublishDump, Missed
  <2> QED  BY Zenon, <1>5, <2>2, <2>3, <1>2, <1>3, <1>4
<1>6. CASE RestartFirmware
  BY Zenon, <1>6, <1>2 DEF RestartFirmware, Boot
<1>7. CASE Reply /\ browser' # browser
  <2>r. ready /\ UNCHANGED <<generation, published>> /\ generation \in 1..(Generations - 1)
    <3>1. ready /\ UNCHANGED <<generation, published>>
      BY Zenon, <1>7 DEF Reply, webVars
    <3> QED  BY <3>1, <1>t, <1>n DEF GenerationZero
  <2>1. CASE browser.next # 1 /\ browser.gen = generation
    <3> DEFINE es == browser.eras \union {published[browser.next]}
    <3>1. PICK k \in 0..browser.missed : generation = Ahead(browser.gen, k) /\ (k = 0 => \A e \in browser.eras : e = published[1])
      BY Zenon, <2>1 DEF PageOfGeneration
    <3>2. k \in 0..(Generations - 2)
      BY <1>p, <1>n
    <3>3. k = 0
      <4>1. browser.gen \in 1..(Generations - 1) /\ Ahead(browser.gen, k) = browser.gen
        BY Zenon, <2>1, <3>1, <1>g
      <4> QED  BY Zenon, <4>1, <3>2, GenerationAhead
    <3>4. es \in SUBSET (0..Eras)
      BY Zenon, <1>p, <1>t
    <3>5. \A e \in es : e = published[1]
      BY Zenon, <3>1, <3>3, <1>p, <1>n DEF OneSnapshot
    <3>6. CASE browser.next = Chunks
      <4>1. browser' = [NoPage EXCEPT !.eras = es]
        BY Zenon, <1>7, <2>1, <3>6 DEF Reply
      <4> HIDE DEF es
      <4>2. browser' \in Pages /\ browser'.next = 1 /\ browser'.eras = es
        BY Zenon, <4>1, <3>4, <1>z DEF Pages
      <4> QED  BY Zenon, <4>2, <3>5 DEF PagesAgree, PageOfGeneration
    <3>7. CASE browser.next # Chunks
      <4> DEFINE n == browser.next + 1
      <4>1. browser' = [browser EXCEPT !.next = n, !.eras = es]
        BY Zenon, <1>7, <2>1, <3>7 DEF Reply
      <4>2. n \in Chunk /\ n # 1 /\ 0 \in 0..browser.missed
        BY <3>7, <1>p, <1>n DEF Chunk
      <4> HIDE DEF es, n
      <4>3. browser' \in Pages /\ browser'.next = n /\ browser'.eras = es /\ browser'.gen = browser.gen /\ browser'.missed = browser.missed
        BY Zenon, <4>1, <4>2, <3>4, <1>t DEF Pages
      <4>4. PageOfGeneration'
        BY Zenon, <4>2, <4>3, <3>1, <3>3, <3>5, <2>r, <2>1, <1>g DEF PageOfGeneration
      <4> QED  BY Zenon, <4>3, <4>4, <3>5 DEF PagesAgree
    <3> QED  BY Zenon, <3>6, <3>7
  <2>2. CASE ~(browser.next # 1 /\ browser.gen = generation)
    <3> DEFINE es == {published[1]}
    <3>1. browser' = [next |-> 2, gen |-> generation, eras |-> es, missed |-> 0]
      BY Zenon, <1>7, <2>2 DEF Reply
    <3>2. es \in SUBSET (0..Eras) /\ \A e \in es : e = published[1]
      BY Zenon, <1>t, <1>n
    <3> HIDE DEF es
    <3>3. browser' \in Pages /\ browser'.next = 2 /\ browser'.gen = generation /\ browser'.eras = es /\ browser'.missed = 0
      BY Zenon, <3>1, <3>2, <1>n, <1>t DEF Pages
    <3>4. generation = Ahead(generation, 0) /\ 0 \in 0..0 /\ generation # 0
      BY <2>r, <1>n DEF Ahead
    <3>5. PageOfGeneration'
      BY Zenon, <2>r, <3>2, <3>3, <3>4 DEF PageOfGeneration
    <3> QED  BY Zenon, <3>2, <3>3, <3>5 DEF PagesAgree
  <2> QED  BY Zenon, <2>1, <2>2
<1> QED  BY Zenon, <1>1, <1>5, <1>6, <1>7, SnapshotKept

\* The invariant holds at start-up.
LEMMA DumpStart == ASSUME DumpAssumption, DumpInit PROVE DumpInv
<1> USE DEF DumpInit
<1>l. Line(0, TRUE) \in Lines
  BY Zenon, DumpNumbers DEF Line, Lines
<1>h. dumper \in Hw /\ browser \in Pages /\ dumper.phase = "idle" /\ dumper.done = FALSE /\ browser.next = 1 /\ browser.eras = {}
  BY Zenon, HwValues DEF DumpReset, Started, NoPage
<1>1. DumpTypeOK
  <2>1. ddr \in [Chunk -> 0..Eras] /\ published \in [Chunk -> 0..Eras] /\ cache \in [Chunk -> Lines]
    BY Zenon, <1>l, DumpNumbers
  <2>2. DumpFields /\ dump_era \in 0..Eras /\ generation \in 0..(Generations - 1)
    BY Zenon, DumpNumbers DEF DumpFields
  <2> QED  BY Zenon, <2>1, <2>2, <1>h DEF DumpTypeOK, Hw, Lines, DumpFields, Pages
<1>2. CopyAfterDma /\ GenerationZero /\ Handover
  BY Zenon DEF CopyAfterDma, GenerationZero, Handover
<1>3. PagesAgree /\ OneSnapshot /\ PageOfGeneration
  BY Zenon, <1>h DEF PagesAgree, OneSnapshot, PageOfGeneration
<1>4. EngineSound /\ StagingSound
  BY Zenon, <1>h DEF EngineSound, StagingSound, Running
<1> QED  BY Zenon, <1>1, <1>2, <1>3, <1>4 DEF DumpInv

\* Every step keeps the types.
LEMMA DumpTypes == ASSUME DumpAssumption, DumpInv, [DumpNext]_dumpVars PROVE DumpTypeOK'
<1>1. DumpTypeOK /\ EngineSound
  BY Zenon DEF DumpInv
<1>2. generation' \in 0..(Generations - 1)
  BY Zenon, SnapshotStep DEF DumpInv
<1>3. browser' \in Pages
  BY Zenon, PageStep DEF DumpInv
<1> QED  BY Zenon, <1>1, <1>2, <1>3, StagingTypes, ControlTypes
    DEF DumpTypeOK, Hw, Lines, Pages, DumpFields

\* Every step keeps DumpInv.
LEMMA DumpStep == ASSUME DumpAssumption, DumpInv, [DumpNext]_dumpVars PROVE DumpInv'
<1>1. DumpTypeOK'
  BY Zenon, DumpTypes
<1>2. EngineSound' /\ Handover' /\ CopyAfterDma'
  BY Zenon, ControlTypes, HandoverStep DEF DumpInv
<1>3. StagingSound'
  BY Zenon, StagingStep DEF DumpInv
<1>4. OneSnapshot' /\ GenerationZero'
  BY Zenon, SnapshotStep DEF DumpInv
<1>5. PagesAgree' /\ PageOfGeneration'
  BY Zenon, PageStep DEF DumpInv
<1> QED  BY Zenon, <1>1, <1>2, <1>3, <1>4, <1>5 DEF DumpInv

\* mac_dump_start and web_mac_table: staging is handed over or copied only while the
\* engine is stopped, and the pages of one generation belong to one snapshot, for every
\* number of bursts and every width of the generation counter.
THEOREM DumpSound == ASSUME DumpAssumption PROVE DumpSpec => []DumpInv
<1>1. DumpInit => DumpInv
  BY Zenon, DumpStart
<1>2. DumpInv /\ [DumpNext]_dumpVars => DumpInv'
  BY Zenon, DumpStep
<1> QED  BY <1>1, <1>2, PTL DEF DumpSpec

\* Only Publish goes from publish to refresh.
LEMMA OnlyPublish ==
  ASSUME [DumpNext]_dumpVars, web_pc = "publish", web_pc' = "refresh" PROVE PublishDump
<1>1. CASE Burst \/ Response \/ UNCHANGED dumpVars
  BY Zenon, <1>1 DEF Burst, Response, dumpRest, dumpVars
<1>2. CASE NoStart \/ Flush \/ StartDump \/ Reply \/ RestartFirmware
  BY Zenon, <1>2 DEF NoStart, Flush, StartDump, Reply, RestartFirmware, Boot
<1>3. ASSUME NEW c \in Chunk, Evict(c) \/ Prefetch(c) PROVE PublishDump
  BY Zenon, <1>3 DEF Evict, Prefetch
<1>4. ASSUME NEW r \in BOOLEAN, Poll(r) PROVE PublishDump
  BY Zenon, <1>4 DEF Poll
<1> QED  BY Zenon, <1>1, <1>2, <1>3, <1>4 DEF DumpNext, Call

\* web_mac_table publishes nothing but one complete dump, as a new generation, and a
\* failed dump leaves the last snapshot and is reported.
THEOREM DumpSteps ==
  ASSUME DumpAssumption
  PROVE  DumpSpec => PublishesOneDump /\ FailureReported
<1>1. ASSUME DumpInv, [DumpNext]_dumpVars PROVE PublishStep
  <2> SUFFICES ASSUME web_pc = "publish", web_pc' = "refresh", published' # published
               PROVE  dumper.done /\ ~dumper.error /\ \A c \in Chunk : published'[c] = dump_era
    BY Zenon DEF PublishStep
  <2>1. PublishDump
    BY Zenon, <1>1, OnlyPublish
  <2>2. Complete /\ published' = [c \in Chunk |-> Seen(c)]
    BY Zenon, <2>1 DEF PublishDump
  <2>3. dumper.done /\ ~dumper.error /\ \A c \in Chunk : Seen(c) = dump_era
    BY Zenon, <1>1, <2>2, CopyIsDump DEF DumpInv
  <2> QED  BY Zenon, <2>2, <2>3
<1>2. ASSUME [DumpNext]_dumpVars PROVE FailureStep
  <2> SUFFICES ASSUME web_pc = "publish", web_pc' = "refresh", dumper.error
               PROVE  error' # 0 /\ UNCHANGED <<ready, generation, published>>
    BY Zenon DEF FailureStep
  <2>1. PublishDump /\ ~Complete
    BY Zenon, <1>2, OnlyPublish DEF Complete
  <2>2. error' = 1 /\ UNCHANGED <<ready, generation, published>>
    BY Zenon, <2>1 DEF PublishDump
  <2> QED  BY <2>2
<1>3. DumpInv /\ [DumpNext]_dumpVars => PublishStep /\ FailureStep
  BY Zenon, <1>1, <1>2
<1> QED  BY DumpSound, <1>3, PTL DEF DumpSpec, PublishesOneDump, FailureReported
=============================================================================
