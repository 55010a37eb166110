----------------------------- MODULE WebRequest -----------------------------
(***************************************************************************)
(* How a worker takes in one request (the receive loop of serve in         *)
(* web_task.c, web_parse in web_protocol.c, config_form in config_web.c).  *)
(* A request is a stream of units, the request line, the header lines, the *)
(* empty line, and the fields of the form, that arrives in any pieces and  *)
(* is parsed again from the start after each piece.  A unit of which only  *)
(* a part has arrived counts as not arrived.                               *)
(***************************************************************************)
EXTENDS Naturals, Sequences, SequencesExt, FiniteSets, TLC

CONSTANTS
    Streams,     \* what clients send: some sets of [method, path, line, headers, fields]
    Size,        \* units the buffer holds (2047 bytes)
    PortsLimit, ConfigLimit,        \* bounds of Content-Length
    BaseKeys, AuthKeys, StpKeys     \* keys of the configuration form

RequestAssumption ==
    /\ {Size, PortsLimit, ConfigLimit} \subseteq Nat
    /\ Cardinality(BaseKeys \union AuthKeys \union StpKeys)
         = Cardinality(BaseKeys) + Cardinality(AuthKeys) + Cardinality(StpKeys)

VARIABLES stream, used, parsed, reply, result

vars == <<stream, used, parsed, reply, result>>

None == <<>>
Incomplete == 0
Invalid == 2     \* -1 in the code
Complete == 1

Init ==
    /\ \E k \in DOMAIN Streams : stream \in Streams[k]
    /\ used = 0 /\ parsed = Incomplete /\ reply = "none" /\ result = None

Head0 == [ok |-> TRUE, body |-> 0, seen |-> FALSE, marker |-> FALSE, auth |-> FALSE]
Limit(path) == IF path = "config" THEN ConfigLimit ELSE PortsLimit

\* One header line.
Header(path, h, line) ==
    CASE line.name = "authorization" -> [h EXCEPT !.ok = @ /\ ~h.auth /\ line.ok, !.auth = TRUE]
      [] line.name = "content-length" ->
            [h EXCEPT !.ok = @ /\ ~h.seen /\ line.ok /\ line.value <= Limit(path), !.seen = TRUE, !.body = line.value]
      [] line.name = "x-kr260-request" -> [h EXCEPT !.marker = @ \/ line.ok]
      [] line.name \in {"transfer-encoding", "no colon"} -> [h EXCEPT !.ok = FALSE]
      [] OTHER -> h

Form0 == [ok |-> TRUE, values |-> None]

\* One field of a form; one without "=" has no key.
Field(keys, f, field) ==
    IF f.ok /\ field.key \in keys \ DOMAIN f.values /\ field.value # "bad"
    THEN [f EXCEPT !.values = (field.key :> field.value) @@ @] ELSE [f EXCEPT !.ok = FALSE]

Form(keys, fields) == FoldLeft(LAMBDA f, field : Field(keys, f, field), Form0, fields)

PortsKeys == {"mask", "adv0", "adv1", "adv2", "adv3"}

PortsForm(fields) ==
    LET f == Form(PortsKeys, fields) seen == DOMAIN f.values IN
    [f EXCEPT !.ok = @ /\ seen \in {{"mask"}, {"mask", "adv0", "adv1"}, PortsKeys}
                       /\ ("adv0" \in seen => f.values["adv0"] = "four")]

\* config_valid refuses an advertisement of port 0 other than 1000 Mb/s.
config_form(fields) ==
    LET f == Form(BaseKeys \union AuthKeys \union StpKeys, fields) seen == DOMAIN f.values IN
    [f EXCEPT !.ok = @ /\ seen \ StpKeys \in {BaseKeys, BaseKeys \union AuthKeys}
                       /\ seen \intersect StpKeys \in {{}, StpKeys}
                       /\ f.values["adv0"] = "four"]

Refresh(fields) == [ok |-> fields = <<[key |-> "refresh", value |-> "good"]>>, values |-> None]

Body(path, fields) ==
    CASE path = "config" -> config_form(fields)
      [] path = "mac" -> Refresh(fields)
      [] OTHER -> PortsForm(fields)

HeaderUnits == Len(stream.headers) + 2

HeaderOf == FoldLeft(LAMBDA h, line : Header(stream.path, h, line), Head0, stream.headers)

\* A zero byte, here in a header line, is refused as soon as it arrives.
HasNul(n) == \E i \in DOMAIN stream.headers : i < n /\ stream.headers[i].name = "nul"

Framed(n, h) == n = HeaderUnits + h.body

\* Mutant: a form that has not arrived yet is an error.
Waits_headers(n, h) == n < HeaderUnits

Waits(n, h) == n < HeaderUnits \/ (stream.line /\ h.ok /\ n < HeaderUnits + h.body)

\* web_parse of the first n units: its answer, and the values of the form.
web_parse(n) ==
    LET h == HeaderOf
        f == Body(stream.path, SubSeq(stream.fields, 1, n - HeaderUnits))
        posts == stream.method = "POST"
    IN IF n > Size \/ HasNul(n) THEN <<Invalid, None>>
       ELSE IF Waits(n, h) THEN <<Incomplete, None>>
       ELSE IF /\ stream.line /\ h.ok /\ Framed(n, h)
               /\ IF posts THEN h.marker /\ h.seen /\ h.body # 0 /\ f.ok ELSE h.body = 0
            THEN <<Complete, IF posts THEN f.values ELSE None>>
            ELSE <<Invalid, None>>

Units == HeaderUnits + Len(stream.fields)

Answered(p) == IF p = Complete THEN "served" ELSE "bad"

\* One pass of the loop in serve that receives something, and its end when
\* the parser has an answer or the buffer is full.
Receive ==
    /\ reply = "none"
    /\ \E k \in 1..(Units - used) :
          /\ used + k <= Size
          /\ LET p == web_parse(used + k) IN
             /\ used' = used + k /\ parsed' = p[1] /\ result' = p[2]
             /\ reply' = IF p[1] = Incomplete /\ used + k < Size THEN "none" ELSE Answered(p[1])
    /\ UNCHANGED stream

\* Nothing more arrives in time, or the client has closed.
Deadline ==
    /\ reply = "none" /\ reply' = Answered(parsed)
    /\ UNCHANGED <<stream, used, parsed, result>>

\* The client connects again.
Again ==
    /\ reply # "none" /\ used' = 0 /\ parsed' = Incomplete /\ reply' = "none" /\ result' = None
    /\ UNCHANGED stream

Next == Receive \/ Deadline \/ Again

Spec == Init /\ [][Next]_vars

(***************************************************************************)
(* What a request means, whatever the order of its lines and fields.       *)
(***************************************************************************)
Lines(name) == {i \in DOMAIN stream.headers : stream.headers[i].name = name}
Announced == IF Lines("content-length") = {} THEN 0 ELSE stream.headers[CHOOSE i \in Lines("content-length") : TRUE].value
Sent(m) == {stream.fields[i] : i \in 1..m}
Meaning(m) == [k \in {f.key : f \in Sent(m)} |-> (CHOOSE f \in Sent(m) : f.key = k).value]

GoodHeaders ==
    /\ stream.line
    /\ Lines("transfer-encoding") = {} /\ Lines("no colon") = {} /\ Lines("nul") = {}
    /\ Cardinality(Lines("content-length")) <= 1 /\ Cardinality(Lines("authorization")) <= 1
    /\ \A i \in Lines("content-length") \union Lines("authorization") : stream.headers[i].ok
    /\ Announced <= Limit(stream.path)

GoodKeys(keys) ==
    CASE stream.path = "config" -> keys \in {BaseKeys \union a \union t : a \in {{}, AuthKeys}, t \in {{}, StpKeys}}
      [] stream.path = "mac" -> keys = {"refresh"}
      [] OTHER -> keys \in {{"mask"}, {"mask", "adv0", "adv1"}, {"mask", "adv0", "adv1", "adv2", "adv3"}}

\* The first m fields are as many as unambiguous headers announce ...
GoodFraming(m) ==
    /\ GoodHeaders /\ m = Announced /\ m <= Len(stream.fields)
    /\ IF stream.method = "POST"
       THEN m > 0 /\ \E i \in Lines("x-kr260-request") : stream.headers[i].ok
       ELSE m = 0

\* ... and a legal form.
GoodForm(m) ==
    /\ Cardinality({stream.fields[i].key : i \in 1..m}) = m
    /\ GoodKeys(DOMAIN Meaning(m)) /\ \A f \in Sent(m) : f.value # "bad" /\ (f.key = "adv0" => f.value = "four")

Good(m) == GoodFraming(m) /\ (stream.method = "POST" => GoodForm(m))

(***************************************************************************)
(* Properties.                                                             *)
(***************************************************************************)
\* Whatever pieces it arrives in, a request is served only if its headers
\* are unambiguous and its form is exactly as long as they say.
ServesOnlyGood == reply = "served" => used >= HeaderUnits /\ GoodFraming(used - HeaderUnits)

\* Of all forms, in any order of the fields and any pieces, only the legal
\* ones are served, and the worker is handed exactly their values.
ValuesMatch ==
    reply = "served" /\ stream.method = "POST" =>
        /\ GoodForm(used - HeaderUnits)
        /\ stream.path # "mac" => result = Meaning(used - HeaderUnits)

\* A legal request that fits the buffer is never refused on a first part of
\* it, and is served as soon as all of it is there.
PartsNeverRefused ==
    Good(Len(stream.fields)) /\ Units <= Size => parsed = (IF used = Units THEN Complete ELSE Incomplete)

\* Exactly the legal requests are served, in whatever pieces they come.
Inv == ServesOnlyGood /\ ValuesMatch /\ PartsNeverRefused
=============================================================================
