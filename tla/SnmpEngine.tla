----------------------------- MODULE SnmpEngine -----------------------------
(***************************************************************************)
(* Answering one SNMP request after another (snmp_protocol.c, lookup to    *)
(* snmp_respond; snmp_task.c).  OIDs are tuples of arcs; a binding takes   *)
(* as much room as its OID has arcs, and more while it is written, when    *)
(* its headers are open and take four bytes each.  The encodings are in    *)
(* SnmpBer, the order of the objects in SnmpMib.                           *)
(***************************************************************************)
EXTENDS SnmpOid

CONSTANTS
    Objects,      \* the MIB in the order of its array [oid, arcs, headed]: the arcs of
                  \* the instance, and whether the value is written with begin and end
    Asked,        \* OIDs a request may name
    Repeats,      \* values of non-repeaters and max-repetitions
    MaxAsked,     \* bound: bindings of a request
    REQUEST_MAX, RESPONSE_MAX,
    Room,         \* space for bindings
    Gap           \* what an open header takes more than a closed one

EngineAssumption ==
    /\ {REQUEST_MAX, RESPONSE_MAX, MaxAsked, Room, Gap} \subseteq Nat
    /\ Repeats \subseteq Int
    /\ \A n \in DOMAIN Objects : Objects[n].arcs \in 1..Len(Objects[n].oid)

VARIABLES
    req,          \* request being answered [op, oids, first, second]
    pc, round, i, \* place in the loop
    oid,          \* working copies of the OIDs
    body,         \* bindings written [oid, is], is: "value", "end" or an exception
    allEnd,
    reply         \* last reply [error, bindings], or <<>> when discarded

vars == <<req, pc, round, i, oid, body, allEnd, reply>>

Ops == {"get", "next", "bulk", "set"}
Requests == [op : Ops, oids : UNION {[1..n -> Asked] : n \in 0..MaxAsked}, first : Repeats, second : Repeats]
\* A datagram of another length, version, community or operation, with fields
\* that cannot be read, or with bytes left over.
Malformed == [op |-> "malformed", oids |-> <<>>, first |-> 0, second |-> 0]
None == <<>>

(***************************************************************************)
(* lookup, missing, binding.                                               *)
(***************************************************************************)
\* The first object in array order that matches; 0 when there is none.
lookup(o, next) ==
    LET hits == {n \in DOMAIN Objects : IF next THEN Before(o, Objects[n].oid) ELSE Objects[n].oid = o}
    IN IF hits = {} THEN 0 ELSE CHOOSE n \in hits : \A k \in hits : n <= k

\* noSuchInstance for an instance of a known object, noSuchObject otherwise.
missing(o) ==
    LET base(p) == SubSeq(p.oid, 1, Len(p.oid) - p.arcs)
    IN IF \E n \in DOMAIN Objects : IsPrefix(base(Objects[n]), o) THEN "instance" ELSE "object"

Binding(o, next) ==
    LET n == lookup(o, next) IN
    IF n # 0 THEN [oid |-> Objects[n].oid, is |-> "value"]
    ELSE [oid |-> o, is |-> IF next THEN "end" ELSE missing(o)]

\* begin: the binding's header is open until its end, that of a string or of an
\* OID within it.
Open(b) ==
    IF b.is = "value" /\ \E n \in DOMAIN Objects : Objects[n].oid = b.oid /\ Objects[n].headed THEN 2 * Gap ELSE Gap
Used(bindings) == FoldLeft(LAMBDA n, b : n + Len(b.oid), 0, bindings)

(***************************************************************************)
(* snmp_respond.                                                           *)
(***************************************************************************)
Clamp(n, max) == IF n < 0 THEN 0 ELSE IF n > max THEN max ELSE n
nonrepeat == IF req.op = "bulk" THEN Clamp(req.first, Len(req.oids)) ELSE Len(req.oids)
repeats == IF req.op = "bulk" THEN Clamp(req.second, RESPONSE_MAX) ELSE 0
first_ == IF round = 0 THEN 1 ELSE nonrepeat + 1
last_ == IF round = 0 THEN nonrepeat ELSE Len(req.oids)

Init ==
    /\ req = None /\ pc = "recv" /\ round = 0 /\ i = 1 /\ oid = <<>> /\ body = <<>>
    /\ allEnd = TRUE /\ reply = None

Reply(error, bindings) ==
    /\ reply' = [error |-> error, bindings |-> bindings]
    /\ pc' = "sent" /\ round' = 0 /\ i' = 1 /\ oid' = <<>> /\ body' = <<>> /\ allEnd' = TRUE

\* A SET is refused with its bindings echoed; an echo longer than Room may
\* still fit, as it needs no reserve for the envelope.
Echo(r) == [n \in DOMAIN r.oids |-> [oid |-> r.oids[n], is |-> "echo"]]
Refuse(r) ==
    \E fits \in BOOLEAN :
        /\ Used(Echo(r)) <= Room => fits
        /\ IF fits THEN Reply(IF r.oids = <<>> THEN "none" ELSE "notWritable", Echo(r)) ELSE Reply("tooBig", <<>>)

\* A datagram that is no request, or has too many bindings, is discarded.
Receive(r) ==
    /\ pc = "recv" /\ req' = r
    /\ CASE r = Malformed \/ Len(r.oids) > REQUEST_MAX ->
              reply' = None /\ pc' = "sent" /\ UNCHANGED <<round, i, oid, body, allEnd>>
         [] Len(r.oids) <= REQUEST_MAX /\ r.op = "set" -> Refuse(r)
         [] OTHER ->
              pc' = "bind" /\ oid' = r.oids /\ UNCHANGED <<round, i, body, allEnd, reply>>

\* One binding: looked up, written if it fits with its headers open, and the next repetition goes
\* on from it.
Bind ==
    /\ pc = "bind" /\ i <= last_
    /\ LET b == Binding(oid[i], req.op # "get")
           fits == Used(body) + Len(b.oid) + Open(b) <= Room /\ Len(body) < RESPONSE_MAX IN
       IF fits
       THEN /\ body' = Append(body, b) /\ i' = i + 1
            /\ oid' = [oid EXCEPT ![i] = b.oid]
            /\ allEnd' = (allEnd /\ b.is # "value")
            /\ UNCHANGED <<req, pc, round, reply>>
       ELSE /\ IF req.op = "bulk" THEN Reply("none", body) ELSE Reply("tooBig", <<>>)
            /\ UNCHANGED req

\* Mutant: the end in any round is the end, the first included.
Ended_first == allEnd

Ended == round > 0 /\ allEnd

RoundEnd ==
    /\ pc = "bind" /\ i > last_
    /\ IF Ended \/ round = repeats
       THEN Reply("none", body)
       ELSE /\ round' = round + 1 /\ i' = nonrepeat + 1 /\ allEnd' = TRUE
            /\ UNCHANGED <<pc, oid, body, reply>>
    /\ UNCHANGED req

\* snmp_task goes back to recvfrom.
Again ==
    /\ pc = "sent" /\ pc' = "recv" /\ req' = None /\ reply' = None
    /\ UNCHANGED <<round, i, oid, body, allEnd>>

Next == (pc = "recv" /\ \E r \in Requests \union {Malformed} : Receive(r)) \/ Bind \/ RoundEnd \/ Again
Spec == Init /\ [][Next]_vars

(***************************************************************************)
(* What RFC 3416 asks for, from the set of objects alone.                  *)
(***************************************************************************)
Less(a, b) ==
    LET d == {n \in 1..Len(a) + Len(b) : n > Len(a) \/ n > Len(b) \/ a[n] # b[n]}
        k == CHOOSE n \in d : \A m \in d : n <= m
    IN a # b /\ (k > Len(a) \/ (k <= Len(b) /\ a[k] < b[k]))
Names == {p.oid : p \in Range(Objects)}
Greater(o) == {p \in Names : Less(o, p)}
Successor(b) ==
    IF Greater(b.oid) = {} THEN [oid |-> b.oid, is |-> "end"]
    ELSE [oid |-> CHOOSE p \in Greater(b.oid) : \A q \in Greater(b.oid) : p = q \/ Less(p, q), is |-> "value"]
Steps(o, n) == FoldLeft(LAMBDA b, k : Successor(b), [oid |-> o, is |-> "value"], [k \in 1..n |-> k])

Exact(o) ==
    [oid |-> o, is |-> IF o \in Names THEN "value"
                       ELSE IF \E p \in Range(Objects), n \in 0..Len(o) : 
                               n = Len(p.oid) - p.arcs /\ SubSeq(o, 1, n) = SubSeq(p.oid, 1, n)
                       THEN "instance" ELSE "object"]

\* The k-th binding of a reply with no limit on its size.
Ideal(r, k) ==
    LET N == Clamp(r.first, Len(r.oids)) R == Len(r.oids) - N IN
    CASE r.op = "get" -> Exact(r.oids[k])
      [] r.op = "next" \/ (r.op = "bulk" /\ k <= N) -> Steps(r.oids[k], 1)
      [] OTHER -> Steps(r.oids[N + 1 + ((k - N - 1) % R)], 1 + ((k - N - 1) \div R))

\* Repetitions until every repeated variable is past the end.
Needed(r) ==
    LET N == Clamp(r.first, Len(r.oids)) R == Len(r.oids) - N
        rounds == {n \in 1..Clamp(r.second, RESPONSE_MAX) :
                     \A m \in 1..n - 1 : \E k \in N + 1..Len(r.oids) : Steps(r.oids[k], m).is = "value"}
    IN IF r.op # "bulk" THEN Len(r.oids)
       ELSE N + R * (IF rounds = {} THEN 0 ELSE CHOOSE n \in rounds : \A m \in rounds : m <= n)

IdealPrefix(r, n) == [k \in 1..n |-> Ideal(r, k)]
\* With two open headers to spare.
Fits(r, n) == n <= RESPONSE_MAX /\ Used(IdealPrefix(r, n)) + 2 * Gap <= Room

(***************************************************************************)
(* Properties.                                                             *)
(***************************************************************************)
Answered == pc = "sent" /\ reply # None

\* Every reply carries exactly the bindings RFC 3416 asks for, in its order;
\* a GETBULK reply ends early only where the next binding would leave less of
\* the room than two open headers take.
RepliesAreIdeal ==
    Answered /\ reply.error = "none" /\ req.op # "set" =>
        /\ reply.bindings = IdealPrefix(req, Len(reply.bindings))
        /\ Len(reply.bindings) <= Needed(req)
        /\ Len(reply.bindings) < Needed(req) => req.op = "bulk" /\ ~Fits(req, Len(reply.bindings) + 1)

\* A retrieval reports tooBig only when the full reply would leave less of the
\* room than two open headers take.
TooBigIsTrue == Answered /\ reply.error = "tooBig" /\ req.op # "set" => req.op # "bulk" /\ ~Fits(req, Len(req.oids))

\* No reply exceeds the bounds of the response buffer.
RepliesFit == Answered /\ req.op # "set" => Len(reply.bindings) <= RESPONSE_MAX /\ Used(reply.bindings) <= Room

\* A retrieval is answered as RFC 3416 asks, within the bounds of the reply.
Inv == RepliesAreIdeal /\ TooBigIsTrue /\ RepliesFit
=============================================================================
