---------------------------- MODULE IpDiscovery ----------------------------
(***************************************************************************)
(* The table of IPv4 senders seen in ARP packets (ip_discovery.c).  The    *)
(* network service observes (the only writer), web workers look up; both   *)
(* read the clock before they enter the critical section.  Times are kept  *)
(* as ages, so the clock's advance is a step that ages every entry and the *)
(* reader's copy of the clock.  A frame that is not a valid sender mapping *)
(* changes nothing and is not an action.                                   *)
(***************************************************************************)
EXTENDS Naturals, FiniteSets, FiniteSetsExt

CONSTANTS
    Macs, Ips, Nobody,
    Looked,      \* the MACs looked up
    Capacity,    \* IP_DISCOVERY_CAPACITY (128)
    PerMac,      \* IP_DISCOVERY_PER_MAC (4)
    Ttl,         \* IP_DISCOVERY_TTL_MS
    Delay        \* how long a reader can be preempted

DiscoveryAssumption ==
    /\ Capacity \in Nat \ {0} /\ PerMac \in Nat \ {0} /\ Ttl \in Nat \ {0} /\ PerMac < Capacity /\ Delay \in Nat
    /\ Macs # {} /\ Ips # {} /\ Looked \subseteq Macs

VARIABLES
    entries,
    reader       \* the MAC looked up, the age of its clock value, and
                 \* (ghost) the mappings then in force and seen since

discoveryVars == <<entries, reader>>

Slots == 1..Capacity
Oldest == Ttl + Delay
Empty == [mac |-> CHOOSE m \in Macs : TRUE, ip |-> CHOOSE i \in Ips : TRUE, age |-> Oldest, valid |-> FALSE]
NoReader == [mac |-> Nobody, skew |-> 0, had |-> {}, seen |-> {}]

DiscoveryInit == entries = [s \in Slots |-> Empty] /\ reader = NoReader

\* board_timestamp advances.  A reader preempted by the service sees a
\* clock value that is older than some entries.
DiscoveryTick ==
    /\ reader.mac # Nobody => reader.skew < Delay
    /\ \E s \in Slots : entries[s].age < Oldest
    /\ entries' = [s \in Slots |-> [entries[s] EXCEPT !.age = Min({@ + 1, Oldest})]]
    /\ reader' = IF reader.mac = Nobody THEN reader ELSE [reader EXCEPT !.skew = @ + 1]

(***************************************************************************)
(* ip_discovery_observe.  An entry that is not valid is never read again,  *)
(* so its other fields are forgotten.                                      *)
(***************************************************************************)
Expired(e) == IF e.valid /\ e.age < Ttl THEN e ELSE Empty
Table == [s \in Slots |-> Expired(entries[s])]

\* Mutant: the first slot, whatever its age.
First_lowest(t, slots) == Min(slots)

\* The first slot of those with the greatest age.
First(t, slots) == Min({s \in slots : \A r \in slots : t[r].age <= t[s].age})
Same(t, m) == {s \in Slots : t[s].valid /\ t[s].mac = m}
Holding(t, i) == {s \in Slots : t[s].valid /\ t[s].ip = i}

\* The slot of an address not yet in the table.
Slot(t, m) ==
    LET free == {s \in Slots : ~t[s].valid}
    IN IF Cardinality(Same(t, m)) >= PerMac THEN First(t, Same(t, m))
       ELSE IF free # {} THEN Max(free) ELSE First(t, Slots)

\* An address that moves to a MAC at its limit takes the place of that MAC's
\* oldest address.
Moved(t, m, i) ==
    IF Cardinality(Same(t, m)) >= PerMac /\ \E s \in Holding(t, i) : s = Min(Holding(t, i)) /\ t[s].mac # m
    THEN [t EXCEPT ![First(t, Same(t, m))] = Empty] ELSE t

Target(t, m, i) == IF Holding(t, i) # {} THEN Min(Holding(t, i)) ELSE Slot(t, m)

ip_discovery_observe(m, i) ==
    /\ entries' = [Moved(Table, m, i) EXCEPT ![Target(Table, m, i)] = [mac |-> m, ip |-> i, age |-> 0, valid |-> TRUE]]
    /\ reader' = IF reader.mac = m THEN [reader EXCEPT !.seen = @ \union {i}] ELSE reader

(***************************************************************************)
(* ip_discovery_lookup.                                                    *)
(***************************************************************************)
Mappings == {[mac |-> e.mac, ip |-> e.ip, age |-> e.age] : e \in {Expired(entries[s]) : s \in {r \in Slots : Expired(entries[r]).valid}}}
Known(m) == {[ip |-> x.ip, age |-> x.age] : x \in {y \in Mappings : y.mac = m}}

\* milliseconds.
LookupClock(m) ==
    /\ reader.mac = Nobody
    /\ reader' = [mac |-> m, skew |-> 0, had |-> Known(m), seen |-> {}]
    /\ UNCHANGED entries

\* now - seen, unsigned: an entry younger than the clock value looks older
\* than any other.
Age(e) == IF e.age < reader.skew THEN Oldest ELSE e.age - reader.skew

\* Mutant: the entry's age is not looked at.
Listed_all == {s \in Slots : entries[s].valid /\ entries[s].mac = reader.mac}

Listed == {s \in Slots : entries[s].valid /\ Age(entries[s]) < Ttl /\ entries[s].mac = reader.mac}
Found == {[ip |-> entries[s].ip, age |-> Age(entries[s])] : s \in Listed}

LookupEnd == reader.mac # Nobody /\ reader' = NoReader /\ UNCHANGED entries

DiscoveryNext ==
    \/ DiscoveryTick \/ LookupEnd
    \/ (\E m \in Looked : LookupClock(m)) \/ (\E m \in Macs, i \in Ips : ip_discovery_observe(m, i))

DiscoverySpec == DiscoveryInit /\ [][DiscoveryNext]_discoveryVars

(***************************************************************************)
(* Properties.                                                             *)
(***************************************************************************)
\* Every variable has its type.
DiscoveryTypeOK ==
    /\ entries \in [Slots -> [mac : Macs, ip : Ips, age : 0..Oldest, valid : BOOLEAN]]
    /\ reader \in [mac : Macs \union {Nobody}, skew : 0..Delay, had : SUBSET [ip : Ips, age : 0..Oldest], seen : SUBSET Ips]

\* No MAC holds more than its share of the table, however addresses move.
ShareKept == \A m \in Macs : Cardinality(Same(entries, m)) <= PerMac

\* An address has one owner: no two valid entries hold it, so an address
\* observed on a different MAC replaces the old association.
OneOwnerPerAddress == \A i \in Ips : Cardinality(Holding(entries, i)) <= 1

\* The mappings that give way to m's new address i: none if there is room,
\* else one, the oldest of the MAC at its limit or of the full table.
GiveWay(m, i, gone) ==
    LET others == {x \in Mappings : x.ip # i}
        mine == {x \in Mappings : x.mac = m}
        known == \E x \in Mappings : x.ip = i
    IN IF \E x \in mine : x.ip = i THEN gone = {}
       ELSE IF Cardinality(mine) >= PerMac
            THEN \E d \in mine : gone = {d} /\ \A x \in mine : x.age <= d.age
       ELSE IF Cardinality(Mappings) = Capacity /\ ~known
            THEN \E d \in others : gone = {d} /\ \A x \in others : x.age <= d.age
       ELSE gone = {}

\* An observation records its mapping, and of the others only drops the
\* oldest, and that only at a limit; expired entries never count.
ObserveStep ==
    \A m \in Macs, i \in Ips :
        ip_discovery_observe(m, i) =>
            LET others == {x \in Mappings : x.ip # i}
            IN \E gone \in SUBSET others :
                 /\ GiveWay(m, i, gone)
                 /\ Mappings' = (others \ gone) \union {[mac |-> m, ip |-> i, age |-> 0]}
EvictsOldestAtLimit == [][ObserveStep]_discoveryVars

\* A lookup returns no address that its MAC did not have when the clock was
\* read or has shown since, none twice, and none that had expired, at the
\* age it had.
LookupSound ==
    reader.mac # Nobody =>
        /\ \A x, y \in Found : x.ip = y.ip => x = y
        /\ \A x \in Found : x \in reader.had \/ (x.ip \in reader.seen /\ x.age <= Delay)

\* While a lookup is preempted, an entry of its MAC is either younger than
\* its clock value, and observed since, or as old as it was then: one that
\* was in force at that time, or had expired.
LookupKept ==
    reader.mac # Nobody =>
        \A s \in Slots : entries[s].valid /\ entries[s].mac = reader.mac =>
            \/ entries[s].age <= reader.skew /\ entries[s].ip \in reader.seen
            \/ /\ reader.skew <= entries[s].age
               /\ \/ [ip |-> entries[s].ip, age |-> entries[s].age - reader.skew] \in reader.had
                  \/ Ttl <= entries[s].age - reader.skew

\* The table keeps to its limits and a lookup to what it saw.
DiscoveryInv == DiscoveryTypeOK /\ ShareKept /\ OneOwnerPerAddress /\ LookupSound /\ LookupKept
=============================================================================
