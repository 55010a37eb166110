------------------------------- MODULE SnmpBer -------------------------------
(***************************************************************************)
(* The BER encodings of snmp_protocol.c on scaled-down bytes: a byte has   *)
(* values 0 .. 2*Half-1 and its top bit is worth Half; in the header of a  *)
(* field it is worth Top, scaled on its own.  Integers, fields and their   *)
(* lengths, the reply's envelope and object identifiers, each job on its   *)
(* own; the byte loop of oid_read is a step per byte.                      *)
(***************************************************************************)
EXTENDS Integers, Sequences, FiniteSets, FiniteSetsExt, SequencesExt

CONSTANTS
    Half,                \* 128
    Top,                 \* 128, in the header of a field
    LenBytes,            \* most bytes of a length (4)
    FieldBytes,          \* bound: bytes of a field read
    NumBytes, IntBytes,  \* bytes of number's value (8) and of an INTEGER (4)
    Digits,              \* most bytes of a subidentifier (5)
    Word,                \* UINT32_MAX
    First,               \* 40
    SNMP_OID_MAX,        \* 24
    MaxBytes,            \* bound: bytes of an OID read
    Reserve              \* space kept for the envelope (112)

BerAssumption ==
    /\ {Half, Top, LenBytes, FieldBytes, NumBytes, IntBytes, Digits, Word, First, MaxBytes, Reserve} \subseteq Nat \ {0}
    /\ SNMP_OID_MAX >= 2 /\ IntBytes < NumBytes /\ 2 <= LenBytes /\ 2 < Top
    /\ 2 * First + Word < Half^Digits

VARIABLES job, pc, out, pos, x, count
vars == <<job, pc, out, pos, x, count>>

Base == 2 * Half
Fail == <<-1, -1>>
Strings(max) == UNION {[1..n -> 0..Base - 1] : n \in 0..max}

(***************************************************************************)
(* INTEGER and the unsigned types.                                         *)
(***************************************************************************)
Signed(b) ==
    FoldLeft(LAMBDA acc, d : acc * Base + d, IF b[1] >= Half THEN -1 ELSE 0, b)

\* The bytes that only repeat the sign of the next.
Redundant(b) ==
    {k \in 1..Len(b) - 1 : (b[k] = 0 /\ b[k + 1] < Half) \/ (b[k] = Base - 1 /\ b[k + 1] >= Half)}
SkipWhile(b, drop) ==
    SubSeq(b, Min({k \in DOMAIN b : k = Len(b) \/ k \notin drop}), Len(b))

integer(b) ==
    IF b = <<>> THEN Fail
    ELSE LET v == SkipWhile(b, Redundant(b)) IN IF Len(v) > IntBytes THEN Fail ELSE <<Signed(v)>>

Big(v) == [k \in 1..NumBytes |-> (v \div Base^(NumBytes - k)) % Base]
ZeroBytes(b) == {k \in DOMAIN b : b[k] = 0}

number(signed, v) ==
    IF signed THEN SkipWhile(Big(v), Redundant(Big(v)))
    ELSE LET b == SkipWhile(Big(v), ZeroBytes(Big(v))) IN IF b[1] >= Half THEN <<0>> \o b ELSE b

(***************************************************************************)
(* Fields, a tag, a length and the content: end writes the length, tlv     *)
(* takes a field off the input.                                            *)
(***************************************************************************)
Length(n) ==
    CASE n < Top -> <<n>> [] n >= Top /\ n < 2 * Top -> <<Top + 1, n>>
      [] OTHER -> <<Top + 2, n \div (2 * Top), n % (2 * Top)>>

\* The bytes of the header and of the content; a short input, a length of no
\* or of too many bytes, and a content beyond the input are refused.
tlv(b) ==
    LET long == b[2] >= Top
        bytes == IF long THEN b[2] - Top ELSE 0
        left == Len(b) - 2 - bytes
        n == IF long THEN FoldLeft(LAMBDA acc, d : acc * 2 * Top + d, 0, SubSeq(b, 3, 2 + bytes)) ELSE b[2]
    IN IF Len(b) < 2 THEN Fail
       ELSE IF long /\ (bytes = 0 \/ bytes > LenBytes \/ left < 0) THEN Fail
       ELSE IF n > left THEN Fail ELSE <<2 + bytes, n>>

Size(n) == 1 + Len(IF n < 128 THEN <<n>> ELSE IF n < 256 THEN <<129, n>> ELSE <<130, n \div 256, n % 256>>) + n

\* response: the most bytes the writer holds, open headers taking four.
Peak(community, id, body) == 4 + 3 + Size(community) + 4 + (2 + id) + 3 + 3 + 4 + body

Room(cap) == cap - Reserve

(***************************************************************************)
(* Object identifiers.                                                     *)
(***************************************************************************)
subid(v) ==
    LET n == Min({k \in 1..Digits : v < Half^k}) IN
    [k \in 1..n |-> ((v \div Half^(n - k)) % Half) + (IF k < n THEN Half ELSE 0)]
oid_write(o) ==
    subid(o[1] * First + o[2]) \o FlattenSeq([k \in 1..Len(o) - 2 |-> subid(o[k + 2])])

FirstArc(v) ==
    LET a == IF v < First THEN 0 ELSE IF v < 2 * First THEN 1 ELSE 2 IN
    IF v - a * First > Word THEN Fail ELSE <<a, v - a * First>>
Arcs(o, v) ==
    IF o = <<>> THEN FirstArc(v)
    ELSE IF v > Word \/ Len(o) = SNMP_OID_MAX THEN Fail ELSE Append(o, v)

\* Mutant: a subidentifier may begin with a zero digit.
Refused_padded(b) == count + 1 > Digits

\* A subidentifier is at most Digits bytes and does not begin with zero.
Refused(b) == count + 1 > Digits \/ (count = 0 /\ b = Half)

\* One turn of oid_read's inner loop, at the last byte with the outer one.
OidByte ==
    /\ pc = "oid" /\ pos <= Len(job.bytes)
    /\ LET b == job.bytes[pos] v == x * Half + (b % Half) o == Arcs(out, v) IN
       CASE Refused(b) ->
              pc' = "done" /\ out' = Fail /\ x' = 0 /\ count' = 0 /\ pos' = 0
         [] ~Refused(b) /\ b >= Half ->
              x' = v /\ count' = count + 1 /\ pos' = pos + 1 /\ UNCHANGED <<pc, out>>
         [] OTHER ->
              /\ out' = o /\ x' = 0 /\ count' = 0
              /\ IF o = Fail THEN pc' = "done" /\ pos' = 0 ELSE pos' = pos + 1 /\ UNCHANGED pc
    /\ UNCHANGED job

\* The input ends, between two subidentifiers or within one.
OidEnd ==
    /\ pc = "oid" /\ pos > Len(job.bytes)
    /\ pc' = "done" /\ pos' = 0 /\ x' = 0 /\ count' = 0
    /\ out' = (IF count > 0 \/ out = <<>> THEN Fail ELSE out)
    /\ UNCHANGED job

(***************************************************************************)
(* Jobs.                                                                   *)
(***************************************************************************)
Ints == [kind : {"integer"}, bytes : Strings(IntBytes + 1)]
Nums == [kind : {"signed"}, value : -(Base^NumBytes \div 2)..(Base^NumBytes \div 2) - 1]
        \union [kind : {"unsigned"}, value : 0..Base^NumBytes - 1]
Lens == [kind : {"length"}, value : 0..(2 * Top)^2 - 1]
Fields == [kind : {"field"}, bytes : UNION {[1..n -> 0..2 * Top - 1] : n \in 0..FieldBytes}]
Envs == [kind : {"envelope"}, cap : {128, 240, 255, 300, 1400}, community : {1, 63, 64}, id : 1..4]
Oids == [kind : {"oid"}, bytes : Strings(MaxBytes)]

Init == job = Fail /\ pc = "idle" /\ out = <<>> /\ pos = 0 /\ x = 0 /\ count = 0

Begin(j) ==
    /\ pc = "idle" /\ job' = j
    /\ IF j.kind = "oid"
       THEN pc' = "oid" /\ pos' = 1 /\ out' = <<>>
       ELSE /\ pc' = "done" /\ UNCHANGED pos
            /\ out' = CASE j.kind = "integer" -> integer(j.bytes)
                        [] j.kind \in {"signed", "unsigned"} -> number(j.kind = "signed", j.value)
                        [] j.kind = "length" -> Length(j.value)
                        [] j.kind = "field" -> tlv(j.bytes)
                        [] OTHER -> <<Peak(j.community, j.id, Room(j.cap))>>
    /\ UNCHANGED <<x, count>>

Done == pc = "done" /\ pc' = "idle" /\ job' = Fail /\ out' = <<>> /\ UNCHANGED <<pos, x, count>>

Jobs == Ints \union Nums \union Lens \union Fields \union Envs \union Oids
Next == (pc = "idle" /\ \E j \in Jobs : Begin(j)) \/ OidByte \/ OidEnd \/ Done
Spec == Init /\ [][Next]_vars

(***************************************************************************)
(* Properties.                                                             *)
(***************************************************************************)
Answer(kind) == pc = "done" /\ job.kind = kind

\* integer reads exactly the two's complement numbers of four bytes, padded
\* or not.
IntegerExact ==
    Answer("integer") =>
        LET inRange(v) == -(Base^IntBytes \div 2) <= v /\ v < Base^IntBytes \div 2 IN
        out = IF job.bytes # <<>> /\ inRange(Signed(job.bytes)) THEN <<Signed(job.bytes)>> ELSE Fail

\* What number writes is read back as the value, a sign never appearing on
\* an unsigned one, and no byte of it could be left out.
NumberRoundTrip ==
    Answer("signed") \/ Answer("unsigned") =>
        Signed(out) = job.value /\ (Len(out) > 1 => 1 \notin Redundant(out))

\* A field with a length that end writes is read back by tlv, and is refused
\* when it is cut anywhere.
LengthRoundTrip ==
    Answer("length") =>
        LET field == <<0>> \o out \o [k \in 1..job.value |-> 0] IN
        /\ tlv(field) = <<1 + Len(out), job.value>>
        /\ \A k \in 0..Len(field) - 1 : tlv(SubSeq(field, 1, k)) = Fail

\* tlv takes exactly the field the input begins with: one byte of length below
\* Top, or a count of at most LenBytes and so many bytes, and all its content.
Digit(b, k) == b[k] * (2 * Top)^(Len(b) - k)
Parses(b) ==
    {<<h, n>> \in (2..Len(b)) \X (0..Len(b)) :
        /\ h + n <= Len(b)
        /\ \/ h = 2 /\ b[2] = n /\ n < Top
           \/ h - 2 \in 1..LenBytes /\ b[2] = Top + h - 2
              /\ n = MapThenSumSet(LAMBDA k : Digit(SubSeq(b, 1, h), k), 3..h)}
FieldExact ==
    Answer("field") => IF Parses(job.bytes) = {} THEN out = Fail ELSE Parses(job.bytes) = {out}

\* The reserve for the envelope is enough: a body that fits its room always
\* gives a reply that fits the buffer.
EnvelopeFits == Answer("envelope") => out[1] <= job.cap

\* An accepted OID has legal arcs and is the only reading of its bytes: it
\* is written back as the same bytes.
OidCanonical ==
    Answer("oid") /\ out # Fail =>
        /\ Len(out) <= SNMP_OID_MAX /\ \A k \in DOMAIN out : out[k] <= Word
        /\ oid_write(out) = job.bytes

\* The subidentifier that ends at k: digits without a leading zero, worth at
\* most a word, the first one at most two arcs' worth.
Ends(b) == {k \in DOMAIN b : b[k] < Half}
LegalSubid(b, k) ==
    LET before == Max({0} \union {e \in Ends(b) : e < k})
        digits == SubSeq(b, before + 1, k)
    IN /\ digits[1] # Half
       /\ FoldLeft(LAMBDA acc, d : (acc * Half) + (d % Half), 0, digits) <= IF before = 0 THEN 2 * First + Word ELSE Word
LegalCode(b) ==
    /\ b # <<>> /\ Last(b) < Half /\ Cardinality(Ends(b)) < SNMP_OID_MAX
    /\ \A k \in Ends(b) : LegalSubid(b, k)

\* No legal OID is refused.
OidComplete == Answer("oid") /\ out = Fail => ~LegalCode(job.bytes)

\* Reading and writing are inverse, and exact at every limit.
Inv == IntegerExact /\ NumberRoundTrip /\ LengthRoundTrip /\ FieldExact /\ EnvelopeFits /\ OidCanonical /\ OidComplete
=============================================================================
