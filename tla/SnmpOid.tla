------------------------------- MODULE SnmpOid -------------------------------
(***************************************************************************)
(* Object identifiers as tuples of arcs (snmp_protocol.c, compare).        *)
(***************************************************************************)
EXTENDS Integers, Sequences, SequencesExt

\* Mutant: a prefix does not come before the OIDs it begins.
Before_prefix(a, b) ==
    \E n \in DOMAIN a \intersect DOMAIN b : a[n] < b[n] /\ \A k \in 1..n - 1 : a[k] = b[k]

\* compare(a, b) < 0.
Before(a, b) ==
    \/ \E n \in DOMAIN a \intersect DOMAIN b : a[n] < b[n] /\ \A k \in 1..n - 1 : a[k] = b[k]
    \/ Len(a) < Len(b) /\ IsPrefix(a, b)
=============================================================================
