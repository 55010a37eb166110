------------------------------- MODULE SnmpMib -------------------------------
(***************************************************************************)
(* The objects of the MIB in the order snmp_mib_build appends them, and a  *)
(* manager walking them with GETNEXT, one rebuilt MIB per request.         *)
(* lookup takes the first match in array order, so a walk is only complete *)
(* if the array is sorted.                                                 *)
(***************************************************************************)
EXTENDS SnmpOid

CONSTANTS SNMP_ENTERPRISE, SNMP_OBJECT_MAX

MibAssumption == {SNMP_ENTERPRISE, SNMP_OBJECT_MAX} \subseteq Nat

VARIABLES
    ddr, debug,  \* build options STATS_DDR, STATS_DEBUG
    built,       \* the objects, in array order
    cursor,      \* the manager: last OID received
    visited      \* number of objects it has received
vars == <<ddr, debug, built, cursor, visited>>

Root == <<1, 3, 6, 1, 4, 1, SNMP_ENTERPRISE, 1>>

\* system_object and add.
System(column) == <<1, 3, 6, 1, 2, 1, 1, column, 0>>
Object(group, column, row) ==
    Root \o <<group>> \o (IF group \in {2, 3, 4, 6, 7} THEN <<1>> ELSE <<>>) \o <<column, row>>

Scalars(group, n) == [k \in 1..n |-> Object(group, k, 0)]
\* Columns c0+1 to c0+columns of a table, column by column.
Table(group, c0, columns, rows) ==
    [k \in 1..columns * rows |-> Object(group, c0 + 1 + ((k - 1) \div rows), 1 + ((k - 1) % rows))]

SlotsOf(bank) ==
    IF (bank \in 8..11 /\ ~ddr) \/ (bank = 12 /\ ~debug) THEN 0
    ELSE IF bank < 4 THEN 4 ELSE IF bank = 12 THEN 16 ELSE 8
BankTimeouts(column, bank) == [k \in 1..SlotsOf(bank) |-> Append(Object(6, column, bank), k - 1)]
Timeouts(column) == FlattenSeq([b \in 1..13 |-> BankTimeouts(column, b - 1)])

\* snmp_mib_build.
Appended ==
    <<System(1), System(2), System(3), System(5)>> \o Scalars(1, 15)
    \o Table(2, 0, 10, 6) \o Table(2, 11, 2, 6)
    \o (IF ddr THEN Table(3, 0, 9, 4) ELSE <<>>) \o (IF debug THEN Table(4, 0, 2, 16) ELSE <<>>)
    \o Scalars(5, 14) \o Timeouts(1) \o Timeouts(2) \o Table(7, 0, 5, 13)

Init == ddr \in BOOLEAN /\ debug \in BOOLEAN /\ built = <<>> /\ cursor = <<1>> /\ visited = 0

\* snmp_mib_build, before each request is answered.
Build ==
    /\ built = <<>> /\ built' = Appended
    /\ UNCHANGED <<ddr, debug, cursor, visited>>

\* lookup(next): the first object in array order after the cursor.
Following == SelectInSeq(built, LAMBDA o : Before(cursor, o))

GetNext ==
    /\ built # <<>> /\ Following # 0
    /\ cursor' = built[Following] /\ visited' = visited + 1
    /\ UNCHANGED <<ddr, debug, built>>

EndOfMib == built # <<>> /\ Following = 0 /\ UNCHANGED vars

Next == Build \/ GetNext \/ EndOfMib
Spec == Init /\ [][Next]_vars

\* The assertion of add holds: the largest build fits the array.
MibFits == Len(built) <= SNMP_OBJECT_MAX

\* No object is appended after one with a larger OID, in any build.
MibSorted == visited = 0 => \A n \in 1..Len(built) - 1 : Before(built[n], built[n + 1])

\* A walk meets every object exactly once: after n answers the manager is at
\* the n-th object, and it is told to stop only after the last.
WalkComplete ==
    /\ visited > 0 => cursor = built[visited]
    /\ built # <<>> /\ Following = 0 => visited = Len(built)

\* The table that lookup searches is sorted and complete.
Inv == MibFits /\ MibSorted /\ WalkComplete
=============================================================================
