----------------------------- MODULE ZoneLookup -----------------------------
(***************************************************************************)
(* One zone signed by the library's signer, served by its in-memory        *)
(* authority and resolved by its verifier: the part of a hop that happens  *)
(* inside the zone.  The verifier asks for DS at every name on the way to  *)
(* qname and then for (qname, qtype); everything it is sent stays in its   *)
(* copy of the zone and takes part in the later proofs.                    *)
(***************************************************************************)
EXTENDS DenialProofs, FiniteSets

CONSTANTS
    Zones,    \* zones to sign, each [rrs, denial, opt_out, salt]
    QNames,   \* names asked for, at or below the apex
    QTypes,
    Whole     \* TRUE: responses arrive complete

ASSUME NameAssumption ==
    /\ Star \in Nat /\ Apex \in Seq(Nat)
    /\ \A n \in QNames : n \in Seq(Nat) /\ AtOrBelow(n, Apex)

\* Zones have an apex and no denial records before they are signed.
ASSUME ZoneAssumption ==
    \A zone \in Zones :
        /\ IsFiniteSet(DOMAIN zone.rrs) /\ Apex \in DOMAIN zone.rrs
        /\ \A n \in DOMAIN zone.rrs :
            n \in Seq(Nat) /\ AtOrBelow(n, Apex) /\ {"NSEC", "NSEC3"} \cap zone.rrs[n] = {}
        /\ zone.denial \in {"NSEC", "NSEC3"} /\ zone.opt_out \in BOOLEAN

\* The owners, the names asked for, their ancestors and the wildcards there.
Hashable ==
    LET names == QNames \cup UNION {DOMAIN zone.rrs : zone \in Zones}
        ancestors == UNION {{Ancestor(n, d) : d \in 0 .. Len(n)} : n \in names}
    IN ancestors \cup {Append(n, Star) : n \in ancestors}

\* Distinct names have distinct hashes.
ASSUME HashAssumption ==
    \A salt \in {zone.salt : zone \in Zones} : \A m, n \in Hashable :
        /\ compute_hash(m, salt) \in Nat
        /\ compute_hash(m, salt) = compute_hash(n, salt) => m = n

VARIABLES
    z,       \* the zone the signer was given
    qname, qtype,
    depth,   \* labels of the name the descent is at
    held,    \* the rrsets in the verifier's copy of the zone
    outcome  \* None until the hop is over

vars == <<z, qname, qtype, depth, held, outcome>>

None == "none"

\* The denial records among what is held; the signer signs all of them.
HeldNsecs(rrsets) == {NsecAt(z, r.owner) : r \in {q \in rrsets : q.type = "NSEC"}}

HeldNsec3s(rrsets) ==
    {r \in build_nsec3(z) : [owner |-> nsec3_owner(r.hash), type |-> "NSEC3"] \in
        {[owner |-> q.owner, type |-> q.type] : q \in rrsets}}

\* What may reach the verifier of a response.
Parts(response) == IF Whole THEN {response} ELSE SUBSET response

Held(rrsets, owner, type) == {r \in rrsets : r.owner = owner /\ r.type = type}

below_dname(rrsets, n) ==
    \E d \in 0 .. Len(n) - 1 : Held(rrsets, Ancestor(n, d), "DNAME") # {}

Child == Ancestor(qname, depth + 1)

-----------------------------------------------------------------------------

\* no_ds_descent and the delegation that ends the zone's part.
Descend ==
    /\ outcome = None /\ depth < Len(qname)
    /\ \E response \in Parts(answer(z, Child, "DS")) :
        LET now == held \cup response
        IN /\ held' = now
           /\ IF Held(response, Child, "DS") # {}
              THEN outcome' = "delegated" /\ UNCHANGED depth
              ELSE IF ~below_dname(now, Child) /\ prove_no_ds(z, HeldNsecs(now), HeldNsec3s(now), Child)
              THEN outcome' = "insecure" /\ UNCHANGED depth
              ELSE depth' = depth + 1 /\ UNCHANGED outcome
    /\ UNCHANGED <<z, qname, qtype>>

\* resolve_leaf with the rrset there.
Positive(now) ==
    LET r == CHOOSE r \in Held(now, qname, qtype) : TRUE
    IN IF /\ r.labels # {}
          /\ \A l \in r.labels : l < Len(qname) =>
                prove_qname_non_existence(z, HeldNsecs(now), HeldNsec3s(now), Ancestor(qname, l + 1))
       THEN "secure" ELSE "bogus"

\* try_dname, try_cname, then the proofs that there is nothing.
Otherwise(now) ==
    IF below_dname(now, qname) THEN "dname"
    ELSE IF Held(now, qname, "CNAME") # {} THEN "cname"
    ELSE IF prove_no_data(z, HeldNsecs(now), HeldNsec3s(now), qname, qtype) THEN "secure-nodata"
    ELSE IF prove_nx_domain(z, HeldNsecs(now), HeldNsec3s(now), qname) THEN "secure-nxdomain"
    ELSE "indeterminate"

Leaf ==
    /\ outcome = None /\ depth = Len(qname)
    /\ \E response \in Parts(answer(z, qname, qtype)) :
        LET now == held \cup response
        IN /\ held' = now
           /\ outcome' = IF Held(response, qname, qtype) # {} THEN Positive(now) ELSE Otherwise(now)
    /\ UNCHANGED <<z, qname, qtype, depth>>

Init ==
    /\ z \in Zones /\ qname \in QNames /\ qtype \in QTypes
    /\ depth = Len(Apex) /\ held = {} /\ outcome = None

Next == Descend \/ Leaf

Spec == Init /\ [][Next]_vars

-----------------------------------------------------------------------------
(* What DNS says of the name (RFC 1034, 4592, 6672), read off the contents *)

Exists(n) == \E o \in DOMAIN z.rrs : AtOrBelow(o, n)

DelegationAbove(n) == {c \in DOMAIN z.rrs : c # Apex /\ "NS" \in z.rrs[c] /\ AtOrBelow(n, c)}

\* The closest encloser's wildcard, if it exists: it may be an empty non-terminal.
SourceOfSynthesis(n) ==
    {w \in {wildcard_at(n, d) : d \in Len(Apex) .. Len(n) - 1} :
        Exists(w) /\ ~Exists(Ancestor(n, Len(w)))}

TypesAt(n) == IF n \in DOMAIN z.rrs THEN z.rrs[n] ELSE {}

Content(types) ==
    IF qtype \in types THEN "secure"
    ELSE IF "CNAME" \in types THEN "cname" ELSE "secure-nodata"

\* Nothing at or below n is authenticated: what is there lies at or below an
\* unsigned delegation.
Unauthenticated(n) ==
    \A o \in DOMAIN z.rrs : AtOrBelow(o, n) =>
        \E c \in DelegationAbove(o) : "DS" \notin z.rrs[c]

\* An opt-out chain says nothing of such a name: to the verifier it may be an
\* unsigned delegation.
OptedOut ==
    /\ z.denial = "NSEC3" /\ z.opt_out
    /\ \E d \in Len(Apex) + 1 .. Len(qname) :
        /\ Unauthenticated(Ancestor(qname, d))
        /\ \A o \in DOMAIN z.rrs : "DNAME" \in z.rrs[o] => ~IsBelow(Ancestor(qname, d), o)

\* What the contents hold for the name.
Contained ==
    LET cuts == DelegationAbove(qname)
        sources == SourceOfSynthesis(qname)
    IN CASE cuts # {} -> LET cut == CHOOSE c \in cuts : \A d \in cuts : Len(c) <= Len(d)
                         IN IF "DS" \in z.rrs[cut] THEN "delegated" ELSE "insecure"
         [] cuts = {} /\ Exists(qname) -> Content(TypesAt(qname))
         [] cuts = {} /\ ~Exists(qname) ->
                IF \E o \in DOMAIN z.rrs : "DNAME" \in z.rrs[o] /\ IsBelow(qname, o) THEN "dname"
                ELSE IF sources # {} THEN Content(TypesAt(CHOOSE s \in sources : TRUE))
                ELSE "secure-nxdomain"

\* And what the signed zone says of it.
Truth == IF DelegationAbove(qname) = {} /\ OptedOut THEN "insecure" ELSE Contained

\* Zones as RFC 1034, 2181, 4592 and 6672 have them: a delegation is no start of
\* authority and no alias, DS goes with a delegation, nothing is below a DNAME,
\* and a wildcard is a last label that neither delegates nor redirects a tree.
Sane ==
    \A o \in DOMAIN z.rrs :
        /\ "NS" \in z.rrs[o] /\ o # Apex => {"SOA", "CNAME"} \cap z.rrs[o] = {}
        /\ "DS" \in z.rrs[o] => "NS" \in z.rrs[o] /\ o # Apex
        /\ "DNAME" \in z.rrs[o] => \A p \in DOMAIN z.rrs : ~IsBelow(p, o)
        /\ \A i \in Len(Apex) + 1 .. Len(o) :
            o[i] = Star => i = Len(o) /\ {"NS", "DNAME"} \cap z.rrs[o] = {}

\* What is asked for: no wildcard's own name, no type the signer adds, and not
\* the CNAME that is made up for a name below a DNAME.
Askable ==
    /\ \A i \in 1 .. Len(qname) : qname[i] # Star
    /\ qtype \notin {"NSEC", "NSEC3", "NSEC3PARAM", "RRSIG"}
    /\ qtype = "CNAME" => DnamesAbove(z, qname) = {}

\* No delegation, no redirection, and wildcards only as last labels.
Flat ==
    \A o \in DOMAIN z.rrs :
        /\ o # Apex => "NS" \notin z.rrs[o]
        /\ "DNAME" \notin z.rrs[o]
        /\ \A i \in Len(Apex) + 1 .. Len(o) - 1 : o[i] # Star

-----------------------------------------------------------------------------
(* Properties *)

\* What is held was sent by the zone; the descent stays between apex and qname.
TypeOK ==
    /\ depth \in Len(Apex) .. Len(qname)
    /\ \A r \in held : AtOrBelow(r.owner, Apex) /\ r.labels \subseteq 0 .. Len(r.owner)
    /\ outcome \in {None, "delegated", "insecure", "bogus", "secure", "dname", "cname",
                    "secure-nodata", "secure-nxdomain", "indeterminate"}

\* Signer, authority and verifier agree: resolving a name in a zone the
\* library signed and serves gives what the zone's contents say of the name.
RoundTrip == outcome # None => outcome = Truth

\* A denial the verifier accepts is true, even when parts of the answers were
\* lost: NODATA, NXDOMAIN and Insecure are never concluded from too little.
DenialIsTrue ==
    /\ outcome \in {"secure-nodata", "secure-nxdomain"} => outcome = Contained
    /\ outcome = "insecure" => Truth = "insecure"
=============================================================================
