---------------------------- MODULE MCSequential ----------------------------
(***************************************************************************)
(* The parts of the firmware that run inside one task, or under one lock,  *)
(* and so step by step on their own: the USB heap and the USB card, and    *)
(* instances of the SNMP agent's engine, object table and encodings, the   *)
(* parser of web requests and the check of an address.  A behaviour is one *)
(* of one part; s1 to s8 are the variables of an instance.                 *)
(***************************************************************************)
EXTENDS UsbStorage

VARIABLES subject, s1, s2, s3, s4, s5, s6, s7, s8
vars == <<subject, heapVars, diskVars, s1, s2, s3, s4, s5, s6, s7, s8>>

\* An object: its OID, the arcs of its instance, and whether its value has a
\* header of its own.
Entity(oid, arcs, headed) == [oid |-> oid, arcs |-> arcs, headed |-> headed]

Engine == INSTANCE SnmpEngine WITH
    Objects <- <<Entity(<<1, 1>>, 1, TRUE), Entity(<<1, 2>>, 1, FALSE), Entity(<<2, 1, 1>>, 2, FALSE)>>,
    Asked <- {<<1>>, <<1, 1>>, <<1, 3>>, <<2, 3, 1, 5, 5>>}, Gap <- 1,
    Repeats <- -1..4, MaxAsked <- 3, REQUEST_MAX <- 2, RESPONSE_MAX <- 4, Room <- 8,
    req <- s1, pc <- s2, round <- s3, i <- s4, oid <- s5, body <- s6, allEnd <- s7, reply <- s8

Mib == INSTANCE SnmpMib WITH
    SNMP_ENTERPRISE <- 32473, SNMP_OBJECT_MAX <- 448,
    ddr <- s1, debug <- s2, built <- s3, cursor <- s4, visited <- s5

Ber == INSTANCE SnmpBer WITH
    Half <- 2, Top <- 4, LenBytes <- 2, FieldBytes <- 5, NumBytes <- 4, IntBytes <- 2, Digits <- 5, Word <- 15, First <- 3, SNMP_OID_MAX <- 3,
    MaxBytes <- 6, Reserve <- 112,
    job <- s1, pc <- s2, out <- s3, pos <- s4, x <- s5, count <- s6

Address == INSTANCE ConfigValid WITH
    Width <- 5, Top <- 2, Loopback <- 1, Multicast <- 3,
    ip <- s1, mask <- s2, gw <- s3, dhcp <- s4, verdict <- s5

(***************************************************************************)
(* Web requests: header lines in any order around short forms, and forms   *)
(* of any fields behind correct headers.                                   *)
(***************************************************************************)
Line(name, ok, value) == [name |-> name, ok |-> ok, value |-> value]
Entry(key, value) == [key |-> key, value |-> value]
Length(n) == Line("content-length", TRUE, n)
Marker == Line("x-kr260-request", TRUE, 0)

HeaderLines ==
    {Length(n) : n \in {0, 1, 5, 9}} \union {Marker, Line("content-length", FALSE, 1), Line("x-kr260-request", FALSE, 0)}
    \union {Line("authorization", ok, 0) : ok \in BOOLEAN}
    \union {Line(name, TRUE, 0) : name \in {"transfer-encoding", "no colon", "nul"}}

FullForm == [k \in 1..5 |-> Entry(<<"mask", "adv0", "adv1", "adv2", "adv3">>[k], IF k = 2 THEN "four" ELSE "other")]

Framing(methods, path, most, forms) ==
    [method : methods, path : {path}, line : {TRUE},
     headers : UNION {[1..n -> HeaderLines] : n \in 0..most}, fields : forms]

PortsKeys == {"mask", "adv0", "adv1", "adv2", "adv3"}
ConfigKeys == {"mask", "adv0", "username", "stp", "stp_version"}
PortsFields == {Entry(k, "other") : k \in PortsKeys} \union {Entry("adv0", "four"), Entry("", "other")}
ConfigFields == {Entry(k, "other") : k \in ConfigKeys} \union {Entry("adv0", "four"), Entry("mask", "bad")}

\* A form longer than its Content-Length says is refused.
Short(path, entries) ==
    [method : {"POST"}, path : {path}, line : {TRUE}, headers : {<<Length(n), Marker>> : n \in 2..4}, fields : [1..4 -> entries]]
Long(path, keys) ==
    [method : {"POST"}, path : {path}, line : {TRUE}, headers : {<<Marker, Length(5)>>},
     fields : {[k \in 1..5 |-> Entry(o[k], IF o[k] = "adv0" THEN v ELSE "other")] : v \in {"four", "other"},
                 o \in {o \in [1..5 -> keys] : \A a, b \in 1..5 : o[a] = o[b] => a = b}}]

Web == INSTANCE WebRequest WITH
    Streams <- <<Framing({"GET", "POST"}, "ports", 3, {<<>>, <<Entry("mask", "other")>>, FullForm}),
                 Framing({"POST"}, "mac", 2, {<<Entry("mask", "other")>>, <<Entry("refresh", "good")>>}),
                 [method : {"GET"}, path : {"ports"}, line : {FALSE}, headers : {<<>>}, fields : {<<>>}],
                 Short("ports", PortsFields), Short("config", ConfigFields),
                 Long("ports", PortsKeys), Long("config", ConfigKeys)>>,
    Size <- 9, PortsLimit <- 5, ConfigLimit <- 6,
    BaseKeys <- {"mask", "adv0"}, AuthKeys <- {"username"}, StpKeys <- {"stp", "stp_version"},
    stream <- s1, used <- s2, parsed <- s3, reply <- s4, result <- s5

ASSUME ConstantsFit ==
    /\ Engine!EngineAssumption /\ Mib!MibAssumption /\ Ber!BerAssumption /\ Address!AddressAssumption
    /\ MemoryAssumption /\ DiskAssumption /\ Web!RequestAssumption

(***************************************************************************)
(* One part at a time.                                                     *)
(***************************************************************************)
Off == "unused"
storage == <<heapVars, diskVars>>

Init ==
    /\ HeapInit /\ DiskInit
    /\ \/ subject = "engine" /\ Engine!Init
       \/ subject = "mib" /\ Mib!Init /\ s6 = Off /\ s7 = Off /\ s8 = Off
       \/ subject = "ber" /\ Ber!Init /\ s7 = Off /\ s8 = Off
       \/ subject = "address" /\ Address!Init /\ s6 = Off /\ s7 = Off /\ s8 = Off
       \/ subject = "web" /\ Web!Init /\ s6 = Off /\ s7 = Off /\ s8 = Off
       \/ /\ subject \in {"memory", "disk"}
          /\ s1 = Off /\ s2 = Off /\ s3 = Off /\ s4 = Off /\ s5 = Off /\ s6 = Off /\ s7 = Off /\ s8 = Off

instance == <<s1, s2, s3, s4, s5, s6, s7, s8>>

Next ==
    \/ subject = "engine" /\ Engine!Next /\ UNCHANGED <<subject, storage>>
    \/ subject = "mib" /\ Mib!Next /\ UNCHANGED <<subject, storage, s6, s7, s8>>
    \/ subject = "ber" /\ Ber!Next /\ UNCHANGED <<subject, storage, s7, s8>>
    \/ subject = "address" /\ Address!Check /\ UNCHANGED <<subject, storage, s6, s7, s8>>
    \/ subject = "web" /\ Web!Next /\ UNCHANGED <<subject, storage, s6, s7, s8>>
    \/ subject = "memory" /\ HeapNext /\ UNCHANGED <<subject, diskVars, instance>>
    \/ subject = "disk" /\ DiskNext /\ UNCHANGED <<subject, heapVars, instance>>

Spec == Init /\ [][Next]_vars

(***************************************************************************)
(* Properties: of each part, what its module says; of the USB heap and     *)
(* card, StorageSound.                                                     *)
(***************************************************************************)
\* snmp_respond: a retrieval is answered with exactly the bindings RFC 3416
\* asks for, in its order and within RESPONSE_MAX and the buffer; tooBig is said
\* only when the full reply does not fit, and never of a GETBULK.
RepliesCorrect == subject = "engine" => Engine!Inv

\* snmp_mib_build and lookup: in every build the table fits its array and is
\* sorted, and a GETNEXT walk meets each object once and ends behind the last.
WalksCorrect == subject = "mib" => Mib!Inv

\* integer, number, tlv, end, oid_read and oid_write: what is written is read
\* back, every legal encoding is read and no other, at every limit of a length,
\* a word and the reserve of the envelope.
EncodingsExact == subject = "ber" => Ber!Inv

\* serve's receive loop, web_parse and config_form: however a request is cut and
\* its fields are ordered, the legal ones are served with exactly their values,
\* no part of one is refused, and no other is served.
RequestsExact == subject = "web" => Web!Inv

\* config_valid accepts exactly the static addresses that are usable hosts, with
\* a gateway that is another host of the same subnet.
AddressesExact == subject = "address" => Address!Inv
=============================================================================
