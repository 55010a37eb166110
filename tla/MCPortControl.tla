---------------------------- MODULE MCPortControl ----------------------------
(***************************************************************************)
(* One port: what matters is the two tasks and the fabric, each of which    *)
(* can be anywhere in its flush of that port.  A fabric with STP gating     *)
(* under each of the two faults, and one without it.                        *)
(***************************************************************************)
EXTENDS PortControl

Fabrics ==
  {[abi |-> TRUE, faults |-> {"flush"}],
   [abi |-> TRUE, faults |-> {"dma"}],
   [abi |-> FALSE, faults |-> {"flush"}]}
=============================================================================
