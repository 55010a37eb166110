----------------------------- MODULE Statistics -----------------------------
(***************************************************************************)
(* Collecting one bank of traffic counters: statistics_task and its        *)
(* read_counter (statistics.c) against the bank's mailbox and the counters *)
(* in their own clock domain (stats_mailboxes.sv, stats_bank.sv).  Reads   *)
(* are destructive, the counter clock may stop at any time, a bus access   *)
(* ends by timeout, and the firmware may restart.  Banks are independent.  *)
(***************************************************************************)
EXTENDS Naturals

CONSTANTS
    SlotCount,   \* counters in the bank
    MaxSlots,    \* the counters that keep a maximum (MAX_MASK)
    CountMax,    \* largest count (2^27 - 1, 2^30 - 1 in the banks of AXI)
    MaxEvents    \* bound: events on record at a time, per counter

ASSUME StatsAssumption ==
    {SlotCount, CountMax} \subseteq Nat \ {0} /\ MaxEvents \in Nat /\ MaxSlots \subseteq Nat

VARIABLES
    count,       \* source: counters [n, over]
    src,         \* source: [clk, ack, value]
    mb,          \* mailbox: [pending, ready, req, sel, saved, ackSync, alive, gap]
    pc, slot, first,   \* read_counter and its caller: retained slot first?
    value,       \* the counter value in the processor
    total, saturated_reads, state,
    events, satEver, stopped, settled  \* ghosts and the environment's promise

statsVars == <<count, src, mb, pc, slot, first, value, total, saturated_reads, state, events, satEver,
               stopped, settled>>
hw == <<count, src, mb>>
fw == <<pc, slot, first, value, total, saturated_reads, state>>
ghosts == <<events, satEver, settled>>

Slots == 0..SlotCount - 1
\* Two counts of a slot make one: their maximum or their sum.
Join(s, a, b) == IF s \in MaxSlots THEN IF a < b THEN b ELSE a ELSE a + b
Zero == [n |-> 0, over |-> FALSE]

StatsInit ==
    /\ count = [s \in Slots |-> Zero]
    /\ src = [clk |-> TRUE, ack |-> FALSE, value |-> Zero]
    /\ mb = [pending |-> FALSE, ready |-> FALSE, req |-> FALSE, sel |-> 0, saved |-> Zero,
             ackSync |-> FALSE, alive |-> FALSE, gap |-> FALSE]
    /\ pc = "idle" /\ slot = 0 /\ first = FALSE /\ value = Zero
    /\ total = [s \in Slots |-> 0] /\ saturated_reads = FALSE /\ state = "unsampled"
    /\ events = [s \in Slots |-> 0] /\ satEver = FALSE /\ stopped = FALSE /\ settled = FALSE

(***************************************************************************)
(* The source: saturating counters and the four-phase acknowledge.         *)
(***************************************************************************)
\* An increment, or a measure to keep the maximum of; CountMax + 1 stands for
\* any beyond the width.  The record has what the counter could hold.
CountEvent(s, v) ==
    LET sum == Join(s, count[s].n, v)
        n == IF sum > CountMax THEN CountMax ELSE sum IN
    /\ src.clk /\ events[s] < MaxEvents
    /\ count' = [count EXCEPT ![s] = [n |-> n, over |-> count[s].over \/ sum > CountMax]]
    /\ events' = [events EXCEPT ![s] = IF s \in MaxSlots THEN Join(s, events[s], n) ELSE events[s] + (n - count[s].n)]
    /\ satEver' = (satEver \/ sum > CountMax)
    /\ UNCHANGED <<src, mb, fw, stopped, settled>>

Capture ==
    /\ src.clk /\ mb.req /\ ~src.ack
    /\ src' = [src EXCEPT !.ack = TRUE, !.value = count[mb.sel]]
    /\ count' = [count EXCEPT ![mb.sel] = Zero]
    /\ UNCHANGED <<mb, fw, stopped, ghosts>>

Release ==
    /\ src.clk /\ ~mb.req /\ src.ack
    /\ src' = [src EXCEPT !.ack = FALSE]
    /\ UNCHANGED <<count, mb, fw, stopped, ghosts>>

ClockChange ==
    /\ ~settled /\ src' = [src EXCEPT !.clk = ~@]
    /\ UNCHANGED <<count, mb, fw, stopped, ghosts>>

(***************************************************************************)
(* The mailbox, in the management clock domain.                            *)
(***************************************************************************)
\* A bus access the mailbox can accept is accepted in the next clock.
Acceptable == pc = "wait" /\ ~mb.pending /\ ~mb.ackSync

AckSync ==
    /\ mb.ackSync # src.ack /\ mb' = [mb EXCEPT !.ackSync = src.ack]
    /\ UNCHANGED <<count, src, fw, stopped, ghosts>>

\* The progress monitor notices that the source clock stopped or runs again.
Alive ==
    /\ mb.alive # src.clk /\ ~Acceptable
    /\ mb' = [mb EXCEPT !.alive = src.clk, !.gap = @ \/ (mb.pending /\ ~src.clk)]
    /\ stopped' = (stopped \/ (pc = "wait" /\ ~src.clk))
    /\ UNCHANGED <<count, src, fw, ghosts>>

Result ==
    /\ mb.req /\ mb.ackSync
    /\ mb' = [mb EXCEPT !.saved = src.value, !.ready = TRUE, !.req = FALSE]
    /\ UNCHANGED <<count, src, fw, stopped, ghosts>>

\* Mutant: a new read does not wait for the source to release the last.
Accept_early ==
    /\ pc = "wait" /\ ~mb.pending
    /\ mb' = [mb EXCEPT !.sel = slot, !.req = TRUE, !.pending = TRUE, !.gap = ~mb.alive]
    /\ stopped' = ~mb.alive
    /\ UNCHANGED <<count, src, fw, ghosts>>

\* The bus access starts a source read unless one is owned or being released.
Accept ==
    /\ Acceptable
    /\ mb' = [mb EXCEPT !.sel = slot, !.req = TRUE, !.pending = TRUE, !.gap = ~mb.alive]
    /\ stopped' = ~mb.alive
    /\ UNCHANGED <<count, src, fw, ghosts>>

Answered == mb.ready /\ mb.sel = slot

Taken == [mb EXCEPT !.ready = FALSE, !.pending = FALSE, !.saved = Zero]

(***************************************************************************)
(* The statistics task.                                                    *)
(***************************************************************************)
\* Mutant: a scan always starts at the first slot.
Collect_first ==
    /\ pc = "idle" /\ pc' = "check"
    /\ first' = FALSE /\ slot' = 0
    /\ UNCHANGED <<hw, value, total, saturated_reads, state, stopped, ghosts>>

\* collect_bank: a slot the hardware still owns is drained first.
Collect ==
    /\ pc = "idle" /\ pc' = "check"
    /\ first' = mb.pending /\ slot' = (IF mb.pending THEN mb.sel ELSE 0)
    /\ UNCHANGED <<hw, value, total, saturated_reads, state, stopped, ghosts>>

Idle == pc' = "idle" /\ slot' = 0 /\ first' = FALSE

\* read_counter, first status: no access to a stopped bank with no result.
Check ==
    /\ pc = "check"
    /\ IF ~mb.alive /\ ~mb.ready
       THEN Idle /\ state' = "unavailable" /\ UNCHANGED stopped
       ELSE pc' = "wait" /\ stopped' = ~mb.alive /\ UNCHANGED <<slot, first, state>>
    /\ UNCHANGED <<hw, value, total, saturated_reads, ghosts>>

DataRead ==
    /\ pc = "wait" /\ Answered
    /\ pc' = "credit" /\ value' = mb.saved /\ mb' = Taken /\ stopped' = FALSE
    /\ UNCHANGED <<count, src, slot, first, total, saturated_reads, state, ghosts>>

\* A running clock answers within the bus timeout; only a read that the
\* mailbox cannot accept times out then.
DataTimeout ==
    /\ pc = "wait" /\ ~Answered /\ ~Acceptable /\ (settled => mb.pending /\ mb.sel # slot)
    /\ pc' = "classify"
    /\ UNCHANGED <<hw, slot, first, value, total, saturated_reads, state, stopped, ghosts>>

ReleaseBusy == ~mb.pending /\ mb.ackSync

\* read_counter, second status: what the timeout was.
Classify ==
    /\ pc = "classify" /\ Idle /\ stopped' = FALSE
    /\ state' = CASE ~mb.alive \/ (mb.pending /\ mb.gap) -> "unavailable"
                  [] mb.alive /\ ReleaseBusy -> "release fault"
                  [] OTHER -> "response fault"
    /\ UNCHANGED <<hw, value, total, saturated_reads, ghosts>>

\* accumulate, then the next slot.
Credit ==
    /\ pc = "credit"
    /\ total' = [total EXCEPT ![slot] = Join(slot, total[slot], value.n)]
    /\ saturated_reads' = (saturated_reads \/ value.over) /\ value' = Zero
    /\ IF ~first /\ slot = SlotCount - 1
       THEN Idle /\ state' = "current"
       ELSE pc' = "check" /\ first' = FALSE /\ slot' = (IF first THEN 0 ELSE slot + 1) /\ UNCHANGED state
    /\ UNCHANGED <<hw, stopped, ghosts>>

\* What the source or the mailbox holds for slot s.
InFlight(s) ==
    IF mb.sel # s \/ ~mb.pending THEN Zero
    ELSE IF mb.ready THEN mb.saved ELSE IF mb.req /\ src.ack THEN src.value ELSE Zero

\* The R5 restarts: its totals are gone and a bus access under way ends by
\* itself; counters and mailbox go on.  The record of events restarts too.
Restart ==
    /\ ~settled /\ pc # "idle"
    /\ Idle /\ value' = Zero /\ total' = [s \in Slots |-> 0]
    /\ saturated_reads' = FALSE /\ state' = "unsampled" /\ stopped' = FALSE
    /\ mb' = IF pc = "wait" /\ Answered THEN Taken ELSE mb
    /\ LET left(s) == IF mb'.pending THEN InFlight(s) ELSE Zero IN
       /\ events' = [s \in Slots |-> Join(s, count[s].n, left(s).n)]
       /\ satEver' = \E s \in Slots : count[s].over \/ left(s).over
    /\ UNCHANGED <<count, src, settled>>

Settled ==
    /\ ~settled /\ src.clk /\ settled' = TRUE
    /\ UNCHANGED <<hw, fw, stopped, events, satEver>>

Source == Capture \/ Release
Mailbox == AckSync \/ Alive \/ Result \/ Accept
Task == Collect \/ Check \/ DataRead \/ Credit \/ Classify

StatsNext ==
    \/ \E s \in Slots, v \in 1..CountMax + 1 : CountEvent(s, v)
    \/ Source \/ ClockChange \/ Mailbox \/ Task \/ DataTimeout \/ Restart \/ Settled

StatsSpec == StatsInit /\ [][StatsNext]_statsVars

\* Clocked hardware acts; the task polls every 250 ms and never busy-waits.
FairSpec ==
    /\ StatsSpec
    /\ WF_statsVars(Source) /\ WF_statsVars(AckSync) /\ WF_statsVars(Alive) /\ WF_statsVars(Result)
    /\ WF_statsVars(Accept) /\ WF_statsVars(Task) /\ WF_statsVars(DataTimeout)

(***************************************************************************)
(* Properties.                                                             *)
(***************************************************************************)
Values == [n : 0..CountMax, over : BOOLEAN]

\* Every variable has its type.
StatsTypeOK ==
    /\ count \in [Slots -> Values] /\ src \in [clk : BOOLEAN, ack : BOOLEAN, value : Values]
    /\ mb \in [pending : BOOLEAN, ready : BOOLEAN, req : BOOLEAN, sel : Slots, saved : Values,
               ackSync : BOOLEAN, alive : BOOLEAN, gap : BOOLEAN]
    /\ pc \in {"idle", "check", "wait", "credit", "classify"} /\ slot \in Slots
    /\ value \in Values /\ total \in [Slots -> Nat] /\ events \in [Slots -> Nat]
    /\ state \in {"unsampled", "current", "unavailable", "release fault", "response fault"}
    /\ first \in BOOLEAN /\ saturated_reads \in BOOLEAN /\ satEver \in BOOLEAN
    /\ stopped \in BOOLEAN /\ settled \in BOOLEAN

\* Counts are conserved, each for its own counter: what was counted is in
\* the counter, in flight, in the processor or in the total, exactly once,
\* whatever clock stops, timeouts and restarts fall between; of a counter that
\* keeps a maximum, the largest measure is in one of these places.
Held(s) == IF pc = "credit" /\ slot = s THEN value.n ELSE 0
Conserved ==
    \A s \in Slots : events[s] = Join(s, Join(s, total[s], count[s].n), Join(s, InFlight(s).n, Held(s)))

\* A saturated counter is reported: saturated_reads says so, or the mark is
\* still on its way.
SaturationVisible ==
    satEver => \/ saturated_reads \/ value.over
               \/ \E s \in Slots : count[s].over \/ InFlight(s).over

\* A read the mailbox has accepted is only reported as an active-clock
\* fault when the counter clock was not seen to stop since, even if it runs
\* again before the task reads the status.
PendingFaultIsActive ==
    [][pc = "classify" /\ pc' = "idle" /\ mb.pending /\ state' = "response fault" => ~stopped]_statsVars

\* Once the counter clock runs, the bank becomes current again.
BankCurrent == settled ~> state = "current"

\* The four phases of a source read across the two clock domains, and the
\* one place where its result is: a read the mailbox owns is either still
\* requested or answered, the source's acknowledge rises only under the
\* request it belongs to, and the processor holds a value only to credit it.
FourPhase ==
    /\ mb.pending <=> (mb.req \/ mb.ready)
    /\ ~(mb.req /\ mb.ready)
    /\ mb.req => (mb.ackSync => src.ack)
    /\ ~mb.req => (src.ack => mb.ackSync)
    /\ pc # "credit" => value = Zero

\* A clock stop seen while a read is outstanding is remembered with it.
GapKept ==
    /\ mb.pending /\ ~mb.alive => mb.gap
    /\ mb.pending /\ stopped /\ pc \in {"wait", "classify"} => mb.gap

\* No count is lost or doubled, a saturated one is known to be, and a clock
\* stop during a read is not forgotten.
BankInv == StatsTypeOK /\ FourPhase /\ GapKept /\ Conserved /\ SaturationVisible

\* What is said of the bank's clock is true, and the bank becomes current.
BankReported == PendingFaultIsActive /\ BankCurrent
=============================================================================
