------------------------------- MODULE Board -------------------------------
(***************************************************************************)
(* The services every task uses with interrupts off: the clock and the     *)
(* console.                                                                *)
(***************************************************************************)
EXTENDS BoardClock, Console

\* board_timestamp is exact across wraps and interruptions and leaves interrupts
\* as they were; outbyte logs every writer's characters in order and never
\* writes to a full FIFO.
BoardInv == ClockInv /\ ConsoleInv
=============================================================================
