----------------------------- MODULE BufferPool -----------------------------
(***************************************************************************)
(* What the buffer manager promises to the ports, without linked lists,    *)
(* reference counts or handshakes: every port has a FIFO of frames, a      *)
(* frame is appended to all its destinations at once, and its buffer goes  *)
(* back to the pool with the last reference to it.                         *)
(***************************************************************************)
EXTENDS Naturals, Sequences

CONSTANTS Ports, Buffers, Infos

Frames == [buf : Buffers, info : Infos]

VARIABLES
  free,   \* the buffers nobody uses
  held,   \* per ingress port: the frame it is storing, if any
  queue,  \* per egress port: the frames waiting to be sent
  out     \* per egress port: the frame it is reading, if any

poolVars == <<free, held, queue, out>>

Init ==
  /\ free = Buffers
  /\ held = [i \in Ports |-> {}]
  /\ queue = [p \in Ports |-> <<>>]
  /\ out = [p \in Ports |-> {}]

Queued(qu, b) == \E p \in Ports : \E k \in 1 .. Len(qu[p]) : qu[p][k].buf = b
Reading(o, b) == \E p \in Ports : \E fr \in o[p] : fr.buf = b

\* The pool after a reference to b has gone, leaving the queues qu and the
\* readers o.
FreeAfter(b, qu, o) == IF Queued(qu, b) \/ Reading(o, b) THEN free ELSE free \cup {b}

Alloc(i) ==
  /\ held[i] = {}
  /\ \E b \in free, f \in Infos :
        /\ held' = [held EXCEPT ![i] = {[buf |-> b, info |-> f]}]
        /\ free' = free \ {b}
  /\ UNCHANGED <<queue, out>>

Enqueue(i) ==
  \E fr \in held[i], mask \in (SUBSET Ports) \ {{}} :
    /\ queue' = [p \in Ports |-> IF p \in mask THEN Append(queue[p], fr) ELSE queue[p]]
    /\ held' = [held EXCEPT ![i] = {}]
    /\ UNCHANGED <<free, out>>

Drop(i) ==
  \E fr \in held[i] :
    /\ free' = free \cup {fr.buf}
    /\ held' = [held EXCEPT ![i] = {}]
    /\ UNCHANGED <<queue, out>>

Dequeue(p) ==
  /\ out[p] = {}
  /\ queue[p] # <<>>
  /\ out' = [out EXCEPT ![p] = {Head(queue[p])}]
  /\ queue' = [queue EXCEPT ![p] = Tail(queue[p])]
  /\ UNCHANGED <<free, held>>

Release(p) ==
  \E fr \in out[p] :
    /\ out' = [out EXCEPT ![p] = {}]
    /\ free' = FreeAfter(fr.buf, queue, out')
    /\ UNCHANGED <<held, queue>>

Flush(p) ==
  /\ queue[p] # <<>>
  /\ queue' = [queue EXCEPT ![p] = Tail(queue[p])]
  /\ free' = FreeAfter(Head(queue[p]).buf, queue', out)
  /\ UNCHANGED <<held, out>>

Next == \E p \in Ports : Alloc(p) \/ Enqueue(p) \/ Drop(p) \/ Dequeue(p) \/ Release(p) \/ Flush(p)

Spec == Init /\ [][Next]_poolVars
=============================================================================
