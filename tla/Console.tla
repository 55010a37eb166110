------------------------------ MODULE Console ------------------------------
(***************************************************************************)
(* The console (console.c): every character goes to a ring in memory and,  *)
(* if the UART's FIFO has room within a bounded number of polls, to the    *)
(* UART.  Any task and the fault handlers write; a character stands for    *)
(* its writer.                                                             *)
(***************************************************************************)
EXTENDS Naturals, Sequences

CONSTANTS
    Writers, NoWriter,
    Ring,        \* characters of board_log (4096)
    LogWrap,     \* values of board_log_written, a multiple of Ring (2^32)
    Fifo,        \* depth of the UART's FIFO (64)
    Tries,       \* polls before a character is dropped (100000)
    DropCounts   \* values of a counter (2^32)

ConsoleAssumption == {Ring, LogWrap, Fifo, Tries, DropCounts} \subseteq Nat \ {0} /\ LogWrap % Ring = 0

VARIABLES
    board_log, board_log_written, board_uart_dropped, uart_ready,
    fifo,        \* characters in the UART's FIFO
    con_pc, tries, copy,   \* of each writer
    history      \* ghost: the last Ring characters

consoleVars == <<board_log, board_log_written, board_uart_dropped, uart_ready, fifo, con_pc, tries, copy, history>>

ConsoleInit ==
    /\ board_log = [i \in 0..(Ring - 1) |-> NoWriter] /\ board_log_written = 0 /\ board_uart_dropped = 0
    /\ uart_ready = FALSE /\ fifo = 0 /\ history = [i \in 1..Ring |-> NoWriter]
    /\ con_pc = [w \in Writers |-> "idle"] /\ tries = [w \in Writers |-> 0] /\ copy = [w \in Writers |-> 0]

Goto(w, to) == con_pc' = [con_pc EXCEPT ![w] = to]

Index == board_log_written % Ring

\* Not in the build whose UART belongs to Linux.
board_console_init ==
    /\ ~uart_ready /\ uart_ready' = TRUE
    /\ UNCHANGED <<board_log, board_log_written, board_uart_dropped, fifo, con_pc, tries, copy, history>>

\* With interrupts off; then to the UART, once there is one.
Log(w) ==
    /\ con_pc[w] = "idle"
    /\ board_log' = [i \in DOMAIN board_log |-> IF i = Index THEN w ELSE board_log[i]]
    /\ board_log_written' = (board_log_written + 1) % LogWrap
    /\ history' = Append(Tail(history), w)
    /\ Goto(w, IF uart_ready THEN "poll" ELSE "idle") /\ tries' = [tries EXCEPT ![w] = 0]
    /\ UNCHANGED <<board_uart_dropped, fifo, copy, uart_ready>>

Room(w) ==
    /\ con_pc[w] = "poll" /\ fifo < Fifo
    /\ Goto(w, "write")
    /\ UNCHANGED <<board_log, board_log_written, board_uart_dropped, fifo, tries, copy, history, uart_ready>>

Polled(w) == tries[w] + 1 < Tries

Full(w) ==
    /\ con_pc[w] = "poll" /\ fifo = Fifo
    /\ Goto(w, IF Polled(w) THEN "poll" ELSE "drop")
    /\ tries' = [tries EXCEPT ![w] = IF Polled(w) THEN @ + 1 ELSE 0]
    /\ UNCHANGED <<board_log, board_log_written, board_uart_dropped, fifo, copy, history, uart_ready>>

\* With interrupts off, after another look; a task switch in between could
\* have filled the FIFO.
Write(w) ==
    /\ con_pc[w] = "write"
    /\ IF fifo < Fifo
       THEN /\ fifo' = fifo + 1
            /\ Goto(w, "idle") /\ tries' = [tries EXCEPT ![w] = 0]
       ELSE /\ Goto(w, IF Polled(w) THEN "poll" ELSE "drop")
            /\ tries' = [tries EXCEPT ![w] = IF Polled(w) THEN @ + 1 ELSE 0]
            /\ UNCHANGED fifo
    /\ UNCHANGED <<board_log, board_log_written, board_uart_dropped, copy, history, uart_ready>>

\* board_uart_dropped++, a load and a store with interrupts on.
DropLoad(w) ==
    /\ con_pc[w] = "drop" /\ Goto(w, "store") /\ copy' = [copy EXCEPT ![w] = board_uart_dropped]
    /\ UNCHANGED <<board_log, board_log_written, board_uart_dropped, fifo, tries, history, uart_ready>>
DropStore(w) ==
    /\ con_pc[w] = "store" /\ Goto(w, "idle") /\ board_uart_dropped' = (copy[w] + 1) % DropCounts
    /\ copy' = [copy EXCEPT ![w] = 0]
    /\ UNCHANGED <<board_log, board_log_written, fifo, tries, history, uart_ready>>

\* The UART sends, or is stuck.
DrainFifo ==
    /\ fifo > 0 /\ fifo' = fifo - 1
    /\ UNCHANGED <<board_log, board_log_written, board_uart_dropped, con_pc, tries, copy, history, uart_ready>>

Outbyte(w) == Log(w) \/ Room(w) \/ Full(w) \/ Write(w) \/ DropLoad(w) \/ DropStore(w)
ConsoleNext == board_console_init \/ DrainFifo \/ \E w \in Writers : Outbyte(w)

ConsoleSpec == ConsoleInit /\ [][ConsoleNext]_consoleVars

\* A task that prints is scheduled again; nothing is assumed of the UART.
ConsoleFairSpec == ConsoleSpec /\ \A w \in Writers : WF_consoleVars(Outbyte(w))

(***************************************************************************)
(* Properties.                                                             *)
(***************************************************************************)
\* Every variable has its type.  The FIFO is never overfull: no character is
\* written to a full one, where it would be lost uncounted.
ConsoleTypeOK ==
    /\ board_log \in [0..(Ring - 1) -> Writers \union {NoWriter}] /\ board_log_written \in 0..(LogWrap - 1)
    /\ board_uart_dropped \in 0..(DropCounts - 1) /\ fifo \in 0..Fifo /\ uart_ready \in BOOLEAN
    /\ history \in Seq(Writers \union {NoWriter}) /\ Len(history) = Ring
    /\ con_pc \in [Writers -> {"idle", "poll", "write", "drop", "store"}]
    /\ tries \in [Writers -> 0..(Tries - 1)] /\ copy \in [Writers -> 0..(DropCounts - 1)]

\* The ring holds the last characters in the order they were logged, the
\* oldest at board_log_written & 4095, whoever wrote them.
RingExact == \A i \in 1..Ring : board_log[(board_log_written + i - 1) % Ring] = history[i]

\* Printing ends although the UART is stuck.
Done(w) == con_pc[w] = "idle"
OutbyteEnds == \A w \in Writers : []<>Done(w)

\* The log is exact and the FIFO is never overrun.
ConsoleInv == ConsoleTypeOK /\ RingExact
=============================================================================
