----------------------------- MODULE MCLinkPoll ------------------------------
(***************************************************************************)
(* One port of each kind: copper behind a GEM that can be disabled, copper *)
(* behind a PL MAC with a DMA that may fail, and the dual-rate SFP port.   *)
(* A poll treats ports independently but for the flush flag and the time   *)
(* of the last removal, which the environment moves.                       *)
(***************************************************************************)
EXTENDS LinkPoll

CopperBoard(ps, pl, masks, faulty) ==
    [ps |-> ps, pl |-> pl, speeds |-> {100, 1000}, abilities |-> {{1000}, {100, 1000}}, rates |-> {1000}, dual |-> FALSE,
     partners |-> {None}, masks |-> masks, faulty |-> faulty]

SfpBoard ==
    [ps |-> {}, pl |-> {}, speeds |-> {1000}, abilities |-> {{1000}}, rates |-> {1000, 10000}, dual |-> TRUE,
     partners |-> {None, 1000, 10000}, masks |-> {{}, {Sfp}}, faulty |-> FALSE]

Builds == {CopperBoard({"c"}, {}, {{}, {"c"}}, FALSE), CopperBoard({}, {"c"}, {{"c"}}, TRUE), SfpBoard}
=============================================================================
