---------------------------- MODULE MCZoneLookup ----------------------------
(***************************************************************************)
(* Small zones: the apex and up to MaxOwners more owners, one kind of node *)
(* each.  Labels are numbers, 0 is "*".                                    *)
(***************************************************************************)
EXTENDS ZoneLookup, FiniteSetsExt

CONSTANTS
    TLD,        \* FALSE: the zone is the root
    Kinds,      \* what an owner can hold
    MaxOwners,
    Signings,   \* the ways to sign: <<denial, opt_out>>
    Salts

MCApex == IF TLD THEN <<1>> ELSE <<>>

Under(ns) == {MCApex \o n : n \in ns}

Owners == Under({<<0>>, <<2>>, <<3>>, <<2, 0>>, <<2, 2>>, <<2, 3>>, <<3, 2>>})

Asked == Under({<<2>>, <<3>>, <<4>>, <<2, 2>>, <<2, 3>>, <<2, 4>>, <<3, 2>>,
                <<3, 3>>, <<2, 2, 2>>, <<4, 2>>, <<3, 2, 3>>})

\* No owner below a DNAME, and no delegation at a wildcard.
Proper(c) ==
    /\ \A o, p \in DOMAIN c : ~("DNAME" \in c[o] /\ IsBelow(p, o))
    /\ \A o \in DOMAIN c : o # MCApex /\ o[Len(o)] = Star => "NS" \notin c[o] /\ "DNAME" \notin c[o]

Contents(owners) ==
    {c \in [owners \cup {MCApex} -> Kinds \cup {{"SOA", "NS", "DNSKEY"}}] :
        /\ \A o \in owners : c[o] \in Kinds
        /\ c[MCApex] = {"SOA", "NS", "DNSKEY"}
        /\ Proper(c)}

MCZones ==
    {[rrs |-> c, denial |-> s[1], opt_out |-> s[2], salt |-> x] :
        c \in UNION {Contents(owners) :
                        owners \in UNION {kSubset(k, Owners) : k \in 0 .. MaxOwners}},
        <<s, x>> \in {p \in Signings \X Salts : p[1][1] = "NSEC" => p[2] = CHOOSE y \in Salts : TRUE}}

\* Names whose hash is asked for: owners and names asked for, their ancestors
\* and the wildcards there.
Named == Owners \cup Asked

Lineage == UNION {{Ancestor(n, d) : d \in 0 .. Len(n)} : n \in Named}

Hashed == Lineage \cup {Append(n, Star) : n \in Lineage}

Code(n) ==
    LET c[k \in 0 .. Len(n)] == IF k = 0 THEN 0 ELSE c[k - 1] * 6 + n[k] + 1
    IN c[Len(n)]

Codes == [n \in Hashed |-> Code(n)]

\* Distinct names have distinct hashes, in an order that depends on the salt.
MCHash(n, salt) == (Codes[n] * salt) % 7789

AllKinds == {{"A"}, {"CNAME"}, {"DNAME", "A"}, {"NS", "A"}, {"NS", "DS"}}

NsecOnly == {<<"NSEC", FALSE>>}

AllSignings == {<<"NSEC", FALSE>>, <<"NSEC3", FALSE>>, <<"NSEC3", TRUE>>}

FlatKinds == {{"A"}, {"CNAME"}, {"MX"}}
=============================================================================
