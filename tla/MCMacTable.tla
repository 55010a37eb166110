------------------------------ MODULE MCMacTable ------------------------------
EXTENDS MacTable

\* Every address in one row, so that ways fill up and entries are evicted.
OneRow == [m \in Macs |-> 0]

\* More stations than ways on one port, or a station that moves between two.
Offered == {[mac : Macs, port : {"p1"}], [mac : {"m1"}, port : {"p1", "p2"}]}
=============================================================================
