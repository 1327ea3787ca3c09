--------------------------- MODULE MemoryAuthority --------------------------
(***************************************************************************)
(* How the in-memory authority answers a query from one zone with an NSEC  *)
(* or an NSEC3 chain (resolver/memory/answer.ts over zone_index.ts).  A    *)
(* response is a set of rrsets, each with its owner, its type and the      *)
(* Labels fields of its signatures (none when it is not signed).           *)
(***************************************************************************)
EXTENDS ZoneSigner

RRSet(owner, type, labels) == [owner |-> owner, type |-> type, labels |-> labels]

\* owners and their ancestors down to the apex
has_name(z, n) == AtOrBelow(n, Apex) /\ \E o \in DOMAIN z.rrs : AtOrBelow(o, n)

\* The rrset with the signatures the signer made; empty when there is none.
with_sigs(z, n, type) ==
    LET there == IF type = "NSEC" THEN n \in ChainOwners(z)
                 ELSE n \in DOMAIN z.rrs /\ type \in z.rrs[n]
    IN IF ~there THEN {}
       ELSE {RRSet(n, type, IF is_signed(z, n, type) THEN {rrsig_labels(n)} ELSE {})}

\* The delegation points at or above n; the one closest to the apex counts.
CutsAbove(z, n) == {c \in DOMAIN z.rrs : is_cut(z, c) /\ AtOrBelow(n, c)}

cut_above(z, n) == CHOOSE c \in CutsAbove(z, n) : \A d \in CutsAbove(z, n) : Len(c) <= Len(d)

closest_encloser(z, n) ==
    CHOOSE e \in {Ancestor(n, d) : d \in Len(Apex) .. Len(n)} :
        /\ has_name(z, e) \/ e = Apex
        /\ \A d \in Len(e) + 1 .. Len(n) : ~has_name(z, Ancestor(n, d))

\* DNSRR_NSEC.covers_name: strictly between owner and next, around the end of
\* the zone when next does not come after owner.
covers_name(nsec, n) ==
    /\ n # nsec.owner /\ n # nsec.next
    /\ IF Before(nsec.owner, nsec.next)
       THEN Before(nsec.owner, n) /\ Before(n, nsec.next)
       ELSE Before(nsec.owner, n) \/ Before(n, nsec.next)

covering_nsec(z, n) ==
    UNION {with_sigs(z, r.owner, "NSEC") : r \in {q \in build_nsec(z) : covers_name(q, n)}}

-----------------------------------------------------------------------------
(* The NSEC3 chain                                                         *)

\* DNSRR_NSEC3.covers_hash: as covers_name, in the order of the hashes.
covers_hash(nsec3, h) ==
    /\ h # nsec3.hash /\ h # nsec3.next
    /\ IF nsec3.hash < nsec3.next
       THEN nsec3.hash < h /\ h < nsec3.next
       ELSE nsec3.hash < h \/ h < nsec3.next

nsec3_at(records) == {RRSet(nsec3_owner(r.hash), "NSEC3", {Len(Apex) + 1}) : r \in records}

matching(z, n) == {r \in build_nsec3(z) : r.hash = Hash(z, n)}

covering(z, n) == {r \in build_nsec3(z) : covers_hash(r, Hash(z, n))}

\* The nearest proper ancestor that has an NSEC3.
provable_encloser(z, n) ==
    LET provable == {d \in Len(Apex) .. Len(n) - 1 : matching(z, Ancestor(n, d)) # {}}
    IN Ancestor(n, CHOOSE d \in provable : \A e \in provable : e <= d)

closest_encloser_proof(z, n) ==
    LET ce == provable_encloser(z, n)
    IN nsec3_at(matching(z, ce) \cup covering(z, Ancestor(n, Len(ce) + 1)))

-----------------------------------------------------------------------------

\* The NSEC at n, or for an empty non-terminal the one covering it; the NSEC3
\* that matches n, or without one (opt-out) the closest encloser proof.
no_data_proof(z, n) ==
    IF z.denial = "NSEC3"
    THEN IF matching(z, n) # {} THEN nsec3_at(matching(z, n)) ELSE closest_encloser_proof(z, n)
    ELSE IF n \in ChainOwners(z) THEN with_sigs(z, n, "NSEC") ELSE covering_nsec(z, n)

nx_domain_proof(z, n, ce) ==
    IF z.denial = "NSEC3"
    THEN closest_encloser_proof(z, n)
            \cup nsec3_at(covering(z, Append(provable_encloser(z, n), Star)))
    ELSE covering_nsec(z, n) \cup covering_nsec(z, Append(ce, Star))

next_closer_proof(z, n, ce) ==
    LET closer == Ancestor(n, Len(ce) + 1)
    IN IF z.denial = "NSEC3" THEN nsec3_at(covering(z, closer)) ELSE covering_nsec(z, closer)

\* Only NSEC3 wildcard NODATA needs the closest encloser's own record.
encloser_proof(z, ce) == IF z.denial = "NSEC3" THEN nsec3_at(matching(z, ce)) ELSE {}

referral(z, cut) ==
    LET ds == with_sigs(z, cut, "DS")
    IN with_sigs(z, cut, "NS") \cup (IF ds # {} THEN ds ELSE no_data_proof(z, cut))

\* The rrset, a CNAME to follow, or NODATA.
existing(z, n, type) ==
    IF type \in z.rrs[n] THEN with_sigs(z, n, type)
    ELSE IF "CNAME" \in z.rrs[n] THEN with_sigs(z, n, "CNAME")
    ELSE no_data_proof(z, n)

DnamesAbove(z, n) == {o \in DOMAIN z.rrs : IsBelow(n, o) /\ "DNAME" \in z.rrs[o]}

\* The DNAME and the CNAME synthesised from it, which nobody signs.
dname_answer(z, n) ==
    LET owner == CHOOSE o \in DnamesAbove(z, n) : \A p \in DnamesAbove(z, n) : Len(p) <= Len(o)
    IN with_sigs(z, owner, "DNAME") \cup {RRSet(n, "CNAME", {})}

Expanded(rrsets, n) == {[r EXCEPT !.owner = n] : r \in rrsets}

\* Wildcard synthesis when *.<closest encloser> exists, NXDOMAIN otherwise.
missing(z, n, type) ==
    LET ce == closest_encloser(z, n)
        wildcard == Append(ce, Star)
        closer == next_closer_proof(z, n, ce)
    IN IF wildcard \notin DOMAIN z.rrs THEN nx_domain_proof(z, n, ce)
       ELSE IF type \in z.rrs[wildcard]
            THEN Expanded(with_sigs(z, wildcard, type), n) \cup closer
       ELSE IF "CNAME" \in z.rrs[wildcard]
            THEN Expanded(with_sigs(z, wildcard, "CNAME"), n) \cup closer
       ELSE encloser_proof(z, ce) \cup closer \cup no_data_proof(z, wildcard)

answer(z, n, type) ==
    LET cuts == CutsAbove(z, n)
    IN IF cuts # {} /\ ~(type = "DS" /\ n = cut_above(z, n)) THEN referral(z, cut_above(z, n))
       ELSE IF n \in DOMAIN z.rrs THEN existing(z, n, type)
       ELSE IF has_name(z, n) THEN no_data_proof(z, n)
       ELSE IF DnamesAbove(z, n) # {} THEN dname_answer(z, n)
       ELSE missing(z, n, type)
=============================================================================
