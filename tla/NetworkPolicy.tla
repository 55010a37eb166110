---------------------------- MODULE NetworkPolicy ----------------------------
(***************************************************************************)
(* When the R5's own interface is up and when DHCP is tried again          *)
(* (network.c, policy.c).  The link task reports every 250 ms whether any  *)
(* port forwards; network_service restarts the IP stack when readiness     *)
(* changes or a failed acquisition is a minute old; the IP task reports    *)
(* acquisitions from its own context.  The receive drain of the same       *)
(* service loop is in FabricDma.                                           *)
(***************************************************************************)
EXTENDS Naturals

CONSTANTS
    SettleTicks, \* link polls before DHCP may start (4: one second)
    RetryAfter   \* time units before a failed acquisition is retried (60 s)

PolicyAssumption == {SettleTicks, RetryAfter} \subseteq Nat \ {0}

VARIABLES
    use_dhcp, forwarding,       \* configuration; some port forwards
    readiness, link_up,         \* link task (and the fault path)
    lt,                         \* link task: inside network_link_changed
    bits,                       \* notification bits 1 and 2 of the service task
    svc, reported,              \* service task
    dhcp,                       \* struct dhcp_policy, failed_ms as an age
    ip, downEvent,              \* external: the stack and its pending NetworkDown
    dma_up, quiet

netVars == <<use_dhcp, forwarding, readiness, link_up, lt, bits, svc, reported, dhcp, ip, downEvent,
             dma_up, quiet>>
netEnv == <<use_dhcp, forwarding, dma_up, quiet>>

NetCapped(n, max) == IF n > max THEN max ELSE n

NetInit ==
    /\ use_dhcp \in BOOLEAN /\ forwarding = FALSE
    /\ readiness = [physical |-> FALSE, ready |-> FALSE, age |-> 0]
    /\ link_up = FALSE /\ lt = "idle" /\ bits = {}
    /\ svc = "wait" /\ reported = FALSE
    /\ dhcp = [leased |-> FALSE, retry_wait |-> FALSE, age |-> 0]
    /\ ip = "down" /\ downEvent = FALSE
    /\ dma_up = TRUE /\ quiet = FALSE

(***************************************************************************)
(* network_link_changed, called by the link task at each poll.             *)
(***************************************************************************)
\* Mutant: every poll starts the settling interval again.
Ready_again(up) ==
    [physical |-> up, age |-> 0,
     ready |-> up /\ ((readiness.physical /\ readiness.ready) \/ ~use_dhcp)]

\* network_link_ready: loss cancels the settling interval; static addresses
\* need none.
Ready(up) ==
    LET age == IF up /\ readiness.physical THEN readiness.age ELSE 0 IN
    [physical |-> up, age |-> age,
     ready |-> up /\ ((readiness.physical /\ readiness.ready) \/ ~use_dhcp \/ age >= SettleTicks)]

\* The link task runs below the service task's priority.
LinkEval ==
    /\ lt = "idle" /\ svc = "wait"
    /\ readiness' = Ready(forwarding /\ dma_up)
    /\ lt' = IF readiness'.ready THEN "up" ELSE "down"
    /\ UNCHANGED <<netEnv, link_up, bits, svc, reported, dhcp, ip, downEvent>>

\* The stored state may have been changed by the fault path since.
LinkStore ==
    /\ lt # "idle" /\ svc = "wait"
    /\ link_up' = (lt = "up")
    /\ bits' = IF link_up # (lt = "up") THEN bits \union {1} ELSE bits
    /\ lt' = "idle"
    /\ UNCHANGED <<netEnv, readiness, svc, reported, dhcp, ip, downEvent>>

(***************************************************************************)
(* network_service, between its critical sections.                         *)
(***************************************************************************)

\* A wait of at most a second that clears every bit.
SvcWake ==
    /\ svc = "wait"
    /\ bits' = {}
    /\ IF 1 \in bits
       THEN dhcp' = [dhcp EXCEPT !.leased = FALSE, !.retry_wait = FALSE] /\ svc' = "restart"
       ELSE UNCHANGED dhcp /\ svc' = "policy"
    /\ UNCHANGED <<netEnv, readiness, link_up, lt, reported, ip, downEvent>>

\* FreeRTOS_NetworkDown.
NetworkDown(from, to) ==
    /\ svc = from /\ svc' = to /\ downEvent' = TRUE
    /\ UNCHANGED <<netEnv, readiness, link_up, lt, bits, reported, dhcp, ip>>

retry_due == use_dhcp /\ ~dhcp.leased /\ dhcp.retry_wait /\ link_up /\ dhcp.age >= RetryAfter

\* Mutant: the first look disarms the retry.
SvcPolicy_disarm ==
    /\ svc = "policy"
    /\ svc' = IF retry_due THEN "again" ELSE "fault"
    /\ dhcp' = [dhcp EXCEPT !.retry_wait = FALSE]
    /\ UNCHANGED <<netEnv, readiness, link_up, lt, bits, reported, ip, downEvent>>

SvcPolicy ==
    /\ svc = "policy"
    /\ svc' = IF retry_due THEN "again" ELSE "fault"
    /\ dhcp' = IF retry_due THEN [dhcp EXCEPT !.retry_wait = FALSE] ELSE dhcp
    /\ UNCHANGED <<netEnv, readiness, link_up, lt, bits, reported, ip, downEvent>>

\* Lines 136-141: the first pass after a DMA fault takes the interface down.
SvcFault ==
    /\ svc = "fault" /\ svc' = "wait"
    /\ IF ~dma_up /\ ~reported
       THEN /\ reported' = TRUE
            /\ readiness' = Ready(FALSE)
            /\ link_up' = FALSE
            /\ bits' = IF link_up THEN bits \union {1} ELSE bits
       ELSE UNCHANGED <<reported, readiness, link_up, bits>>
    /\ UNCHANGED <<netEnv, lt, dhcp, ip, downEvent>>

(***************************************************************************)
(* The IP task (external) with the callbacks of network.c it runs.         *)
(***************************************************************************)
IpDown ==
    /\ downEvent /\ downEvent' = FALSE /\ ip' = "down"
    /\ UNCHANGED <<netEnv, readiness, link_up, lt, bits, svc, reported, dhcp>>

\* pfInitialise is tried until it passes.
IpInitialise ==
    /\ ip = "down" /\ ~downEvent /\ link_up /\ dma_up
    /\ ip' = IF use_dhcp THEN "discover" ELSE "bound"
    /\ UNCHANGED <<netEnv, readiness, link_up, lt, bits, svc, reported, dhcp, downEvent>>

dhcp_result(leased) ==
    dhcp' = [leased |-> leased, retry_wait |-> ~leased, age |-> 0]

IpLease ==
    /\ ip = "discover" /\ ~downEvent
    /\ ip' = "bound" /\ dhcp_result(TRUE)
    /\ UNCHANGED <<netEnv, readiness, link_up, lt, bits, svc, reported, downEvent>>

\* An acquisition may fail with a restart already queued behind it.
IpFail ==
    /\ ip = "discover" /\ ~quiet
    /\ ip' = "failed" /\ dhcp_result(FALSE)
    /\ bits' = bits \union {2}
    /\ UNCHANGED <<netEnv, readiness, link_up, lt, svc, reported, downEvent>>

\* A lease that cannot be renewed is acquired anew.
IpExpire ==
    /\ ip = "bound" /\ use_dhcp /\ ~quiet
    /\ ip' = "discover"
    /\ UNCHANGED <<netEnv, readiness, link_up, lt, bits, svc, reported, dhcp, downEvent>>

(***************************************************************************)
(* Time and faults.                                                        *)
(***************************************************************************)
NetTick ==
    /\ dhcp' = [dhcp EXCEPT !.age = NetCapped(@ + 1, RetryAfter)]
    /\ readiness' = [readiness EXCEPT !.age = NetCapped(@ + 1, SettleTicks)]
    /\ UNCHANGED <<netEnv, link_up, lt, bits, svc, reported, ip, downEvent>>

CarrierChange ==
    /\ ~quiet /\ forwarding' = ~forwarding
    /\ UNCHANGED <<use_dhcp, dma_up, quiet, readiness, link_up, lt, bits, svc, reported, dhcp, ip, downEvent>>

NetDmaFail ==
    /\ ~quiet /\ dma_up /\ dma_up' = FALSE
    /\ UNCHANGED <<use_dhcp, forwarding, quiet, readiness, link_up, lt, bits, svc, reported, dhcp, ip, downEvent>>

\* From here on the links stay and the DHCP server answers.
Settled ==
    /\ ~quiet /\ quiet' = TRUE
    /\ UNCHANGED <<use_dhcp, forwarding, dma_up, readiness, link_up, lt, bits, svc, reported, dhcp, ip, downEvent>>

Link == LinkEval \/ LinkStore
Service == SvcWake \/ NetworkDown("restart", "policy") \/ SvcPolicy \/ NetworkDown("again", "fault") \/ SvcFault
IpTask == IpDown \/ IpInitialise \/ IpLease

NetNext == Link \/ Service \/ IpTask \/ IpFail \/ IpExpire \/ NetTick \/ CarrierChange \/ NetDmaFail \/ Settled

NetSpec == NetInit /\ [][NetNext]_netVars

\* Every task runs again and again: the service task waits at most a second,
\* the link task polls on a timer that the service task cannot hold up, the
\* IP task serves its events, time passes.
NetFairSpec ==
    /\ NetSpec
    /\ SF_netVars(Link) /\ WF_netVars(Service) /\ WF_netVars(IpTask) /\ WF_netVars(NetTick)

(***************************************************************************)
(* Properties.                                                             *)
(***************************************************************************)
\* Every variable has its type.
NetTypeOK ==
    /\ {use_dhcp, forwarding, link_up, reported, downEvent, dma_up, quiet} \subseteq BOOLEAN
    /\ readiness \in [physical : BOOLEAN, ready : BOOLEAN, age : 0..SettleTicks]
    /\ lt \in {"idle", "up", "down"} /\ bits \subseteq {1, 2}
    /\ svc \in {"wait", "restart", "policy", "again", "fault"}
    /\ dhcp \in [leased : BOOLEAN, retry_wait : BOOLEAN, age : 0..RetryAfter]
    /\ ip \in {"down", "discover", "bound", "failed"}

\* A restart of the stack is on its way.
Restarting == 1 \in bits \/ svc \in {"restart", "again"} \/ downEvent

\* No dead end: when the stack has given up on DHCP, either a retry is armed
\* or a restart is on its way, however link changes, failures and the two
\* critical sections of the service loop interleave.
NoDeadEnd == ip = "failed" => dhcp.retry_wait \/ Restarting

\* The policy knows about every lease: the stack never holds a lease the
\* policy takes for missing, unless a restart is on its way.
LeaseKnown == ip = "bound" /\ use_dhcp => dhcp.leased \/ Restarting

\* A timed retry never tears down a working lease.
RetryStep == svc = "policy" /\ svc' = "again" => ip # "bound" \/ Restarting
RetrySparesLease == [][RetryStep]_netVars

\* Once the links stay and the server answers, the interface gets its
\* address and keeps it.
Bound == quiet /\ forwarding /\ dma_up => ip = "bound"
LeaseRegained == <>[]Bound

\* A lost link reaches the stack.
LossKnown == link_up \/ ip = "down"
LossReachesStack == []<>LossKnown

\* After a DMA fault the interface stays down, although the link task may be
\* about to store the readiness it evaluated before.
DownByFault == dma_up \/ ~link_up
FaultKeepsDown == <>[]DownByFault

\* The policy and the stack never lose sight of each other.
NetInv == NetTypeOK /\ NoDeadEnd /\ LeaseKnown
=============================================================================
