----------------------------- MODULE MCFabricDma -----------------------------
(***************************************************************************)
(* Two tasks send against premature interrupts; one sends often enough for  *)
(* a descriptor to be used again; or two ports deliver.  The directions     *)
(* share the interrupt handler and the failure flag.                        *)
(***************************************************************************)
EXTENDS FabricDma

Board(ports, ip, stp, n, errors) ==
    [ports |-> ports, sends |-> [t \in Senders |-> IF t = "ip" THEN ip ELSE stp],
     early |-> n, errors |-> errors]

SendOrReceive ==
    {Board({}, 1, 1, 1, {"tx"}), Board({}, 3, 0, 1, {"rx"}), Board(Ports, 0, 0, 0, {"rx"})}
=============================================================================
