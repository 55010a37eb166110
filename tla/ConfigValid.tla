---------------------------- MODULE ConfigValid ----------------------------
(***************************************************************************)
(* The check of a static address, netmask and gateway in config_valid      *)
(* (config.c), with addresses of Width bits whose Top highest bits are the *)
(* octet that tells unicast addresses from others.                         *)
(***************************************************************************)
EXTENDS Naturals, Bitwise

CONSTANTS
    Width, Top,
    Loopback, Multicast     \* octets: 127, and the first one that is not unicast, 224

AddressAssumption == {Width, Top, Loopback, Multicast} \subseteq Nat /\ Top < Width

VARIABLES
    ip, mask, gw, dhcp,     \* a configuration from a form or a stored record
    verdict

vars == <<ip, mask, gw, dhcp, verdict>>

Address == 0..(2^Width - 1)

Init == ip \in Address /\ mask \in Address /\ gw \in Address /\ dhcp \in BOOLEAN /\ verdict = "none"

unicast(a) == LET octet == a \div 2^(Width - Top) IN octet # 0 /\ octet # Loopback /\ octet < Multicast

host(m) == 2^Width - 1 - m

\* At least two bits of host part, all behind the network part.
Contiguous(m) == m # 0 /\ host(m) >= 3 /\ host(m) & (host(m) + 1) = 0

\* Mutant: the broadcast address passes.
HostOf_broadcast(a, m) == a & host(m) # 0

HostOf(a, m) == a & host(m) # 0 /\ a & host(m) # host(m)

GatewayOk ==
    gw = 0 \/ (unicast(gw) /\ (gw & mask) = (ip & mask) /\ HostOf(gw, mask) /\ gw # ip)

config_valid == dhcp \/ (unicast(ip) /\ Contiguous(mask) /\ HostOf(ip, mask) /\ GatewayOk)

Check ==
    /\ verdict' = IF config_valid THEN "valid" ELSE "refused"
    /\ UNCHANGED <<ip, mask, gw, dhcp>>

Spec == Init /\ [][Check]_vars

(***************************************************************************)
(* Properties, with subnets as sets of addresses.                          *)
(***************************************************************************)
Subnet(a, prefix) == LET size == 2^(Width - prefix) first == (a \div size) * size IN first..(first + size - 1)
Ends(S) == {a \in S : a - 1 \notin S \/ a + 1 \notin S}

\* docs/configuration.md: a unicast host of a subnet of /1 to /30 that the
\* netmask gives; the gateway is absent or another host of that subnet.
LegalStatic ==
    \E prefix \in 1..(Width - 2) :
        LET net == Subnet(ip, prefix) IN
        /\ mask = 2^Width - 2^(Width - prefix)
        /\ unicast(ip) /\ ip \notin Ends(net)
        /\ gw # 0 => unicast(gw) /\ gw \in net \ (Ends(net) \union {ip})

\* config_valid accepts no static configuration but a legal one, at every
\* edge of the bit arithmetic ...
StaticMeans == verdict = "valid" /\ ~dhcp => LegalStatic

\* ... and refuses none that is legal.
StaticSuffices == verdict = "refused" => ~LegalStatic

\* config_valid accepts exactly the legal static configurations.
Inv == StaticMeans /\ StaticSuffices
=============================================================================
