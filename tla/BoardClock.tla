----------------------------- MODULE BoardClock -----------------------------
(***************************************************************************)
(* The 64-bit time stamp (board.c): a free-running counter of limited      *)
(* width, extended in software whenever someone reads it.  Tasks read it   *)
(* with interrupts off, the tick interrupt reads it every millisecond so   *)
(* that no wrap is missed.  The DMA interrupt, which may nest in the tick  *)
(* interrupt, does not read it.                                            *)
(***************************************************************************)
EXTENDS Naturals

CONSTANTS
    Tasks, NoTask,
    Width,       \* values of the counter (2^32)
    Late,        \* counts between two samples at most, the tick being late
    Horizon      \* values of the time stamp (2^64)

ClockAssumption ==
    /\ {Width, Late, Horizon} \subseteq Nat \ {0} /\ Late < Width /\ Horizon % Width = 0
    /\ "tick" \notin Tasks /\ NoTask \notin Tasks /\ NoTask # "tick"

VARIABLES
    time,        \* the true time, modulo Horizon; the counter is its lowest part
    stamp_high, stamp_last,
    unsampled,   \* counts since the last sample
    off,         \* whoever runs with interrupts off: a task, or "tick"
    call,        \* of each caller: its place, the counter value read, its
                 \* time, whether interrupts were off already
    section      \* ghost: the task that turned interrupts off for itself

clockVars == <<time, stamp_high, stamp_last, unsampled, off, call, section>>

Callers == Tasks \union {"tick"}
Free == [pc |-> "idle", now |-> 0, at |-> 0, value |-> 0, cpsr |-> FALSE]

ClockInit ==
    /\ time = 0 /\ stamp_high = 0 /\ stamp_last = 0 /\ unsampled = 0
    /\ off = NoTask /\ section = NoTask /\ call = [c \in Callers |-> Free]

Counter == time % Width

AdvanceTime ==
    /\ unsampled < Late
    /\ time' = (time + 1) % Horizon /\ unsampled' = unsampled + 1
    /\ UNCHANGED <<stamp_high, stamp_last, off, call, section>>

\* One core: a task runs unless another has interrupts off or the interrupt
\* is served, which waits for interrupts to be on.
MayRun(c) == off \in {NoTask, c} /\ (c = "tick" \/ call["tick"].pc = "idle")

\* stamp_sample: the counter is read ...
Read(c, before) ==
    /\ call[c].pc = "idle"
    /\ call' = [call EXCEPT ![c] = [Free EXCEPT !.pc = "sample", !.now = Counter, !.at = time, !.cpsr = before]]
    /\ UNCHANGED <<time, stamp_high, stamp_last, unsampled, section>>

High(now) == IF now < stamp_last THEN (stamp_high + Width) % Horizon ELSE stamp_high

\* ... and the extension brought up to date.
Update(c) ==
    /\ call[c].pc = "sample" /\ MayRun(c)
    /\ stamp_high' = High(call[c].now) /\ stamp_last' = call[c].now /\ unsampled' = (time + Horizon - call[c].at) % Horizon
    /\ call' = [call EXCEPT ![c].pc = "return", ![c].value = High(call[c].now) + call[c].now]
    /\ UNCHANGED <<time, off, section>>

\* board_timestamp; a task may call it with interrupts off.
Disable(t) ==
    /\ off = NoTask /\ MayRun(t) /\ call[t].pc = "idle" /\ off' = t /\ section' = t
    /\ UNCHANGED <<time, stamp_high, stamp_last, unsampled, call>>
Enable(t) ==
    /\ off = t /\ call[t].pc = "idle" /\ off' = NoTask /\ section' = NoTask
    /\ UNCHANGED <<time, stamp_high, stamp_last, unsampled, call>>

\* Mutant: the counter is read with interrupts on.
board_timestamp_on(t) == MayRun(t) /\ UNCHANGED off /\ Read(t, off = t)

board_timestamp(t) == MayRun(t) /\ off' = t /\ Read(t, off = t)

Return(t) ==
    /\ t \in Tasks /\ call[t].pc = "return" /\ MayRun(t)
    /\ off' = (IF call[t].cpsr THEN t ELSE NoTask) /\ call' = [call EXCEPT ![t] = Free]
    /\ UNCHANGED <<time, stamp_high, stamp_last, unsampled, section>>

\* board_tick_clear, in the interrupt.
board_tick_clear == MayRun("tick") /\ UNCHANGED off /\ Read("tick", FALSE)
TickDone ==
    /\ call["tick"].pc = "return" /\ call' = [call EXCEPT !["tick"] = Free]
    /\ UNCHANGED <<time, stamp_high, stamp_last, unsampled, off, section>>

ClockNext ==
    \/ AdvanceTime \/ board_tick_clear \/ TickDone
    \/ \E c \in Callers : Update(c)
    \/ \E t \in Tasks : Disable(t) \/ Enable(t) \/ board_timestamp(t) \/ Return(t)

ClockSpec == ClockInit /\ [][ClockNext]_clockVars

(***************************************************************************)
(* Properties.                                                             *)
(***************************************************************************)
\* Every variable has its type; the low word never overlaps the high one,
\* so that their bitwise "or" is their sum.
ClockTypeOK ==
    /\ time \in 0..(Horizon - 1) /\ stamp_high \in 0..(Horizon - 1) /\ unsampled \in 0..Late
    /\ stamp_last \in 0..(Width - 1) /\ stamp_high % Width = 0
    /\ {off, section} \subseteq Tasks \union {NoTask} /\ call["tick"].cpsr = FALSE
    /\ call \in [Callers -> [pc : {"idle", "sample", "return"}, now : 0..(Width - 1), at : 0..(Horizon - 1),
                             value : 0..(Horizon - 1), cpsr : BOOLEAN]]

\* A call runs with interrupts off, or is the interrupt's; a task's section
\* began before its call or not at all.
OneCaller ==
    /\ call["tick"].pc # "idle" => off = NoTask
    /\ \A t \in Tasks : call[t].pc # "idle" => off = t /\ section = IF call[t].cpsr THEN t ELSE NoTask
    /\ \A t \in Tasks : off = t /\ call[t].pc = "idle" => section = t

\* The extended stamp is the time of the last sample, and a counter value that is
\* not yet taken up was read since.
StampCurrent ==
    /\ time = (stamp_high + stamp_last + unsampled) % Horizon
    /\ \A c \in Callers : call[c].pc = "sample" =>
          /\ call[c].now = call[c].at % Width
          /\ \E d \in 0..unsampled : call[c].at = (stamp_high + stamp_last + d) % Horizon

\* Every time stamp is the time at which the counter was read, across any
\* number of wraps and whoever else reads it meanwhile.
StampExact == \A c \in Callers : call[c].pc = "return" => call[c].value = call[c].at

\* A task that turned interrupts off and reads the clock keeps them off to
\* the end of its section.
SectionKept == section # NoTask => off = section

\* The clock is exact and leaves interrupts alone.
ClockInv == ClockTypeOK /\ OneCaller /\ StampCurrent /\ StampExact /\ SectionKept
=============================================================================
