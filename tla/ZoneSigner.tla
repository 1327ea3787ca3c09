----------------------------- MODULE ZoneSigner -----------------------------
(***************************************************************************)
(* What sign_zone makes of one zone: the NSEC chain of build_nsec or the   *)
(* NSEC3 chain of build_nsec3, and the rrsets sign_rrsets signs.  A zone   *)
(* is [rrs, denial, opt_out, salt]: the types each owner holds, the kind   *)
(* of chain asked for ("NSEC" or "NSEC3"), and the NSEC3 options.          *)
(***************************************************************************)
EXTENDS DnsNames

CONSTANTS
    Apex,
    compute_hash(_, _)  \* NSEC3 hash of a name with a salt, as a number

\* ZoneView: a delegation point, and a name hidden below one.
is_cut(z, n) == n \in DOMAIN z.rrs /\ n # Apex /\ "NS" \in z.rrs[n]

is_occluded(z, n) == \E c \in DOMAIN z.rrs : is_cut(z, c) /\ IsBelow(n, c)

\* A delegation point counts with its NS and DS only.
chain_types(z, n) == IF is_cut(z, n) THEN z.rrs[n] \cap {"NS", "DS"} ELSE z.rrs[n]

ChainOwners(z) == {n \in DOMAIN z.rrs : ~is_occluded(z, n)}

\* The owner after n in canonical order; the last one leads to the apex.
NextOwner(z, n) ==
    LET later == {m \in ChainOwners(z) : Before(n, m)}
    IN IF later = {} THEN Apex
       ELSE CHOOSE m \in later : \A k \in later : k = m \/ Before(m, k)

NsecAt(z, n) ==
    [owner |-> n, next |-> NextOwner(z, n),
     types |-> chain_types(z, n) \cup {"RRSIG", "NSEC"}]

build_nsec(z) == {NsecAt(z, n) : n \in ChainOwners(z)}

-----------------------------------------------------------------------------
(* NSEC3: one record per authoritative name and empty non-terminal, found  *)
(* by the hash of the name.                                                *)

\* Any authoritative name has a signed rrset, a delegation only with a DS.
has_signed(z, n) == is_cut(z, n) => "DS" \in z.rrs[n]

HashedOwners(z) == {n \in ChainOwners(z) : z.opt_out => has_signed(z, n)}

\* With the empty non-terminals between those owners and the apex.
nsec3_names(z) ==
    HashedOwners(z) \cup
        UNION {{Ancestor(n, d) : d \in Len(Apex) + 1 .. Len(n) - 1} \ DOMAIN z.rrs :
               n \in HashedOwners(z)}

nsec3_bitmap(z, n) ==
    IF n \notin DOMAIN z.rrs THEN {}
    ELSE chain_types(z, n)
            \cup (IF has_signed(z, n) THEN {"RRSIG"} ELSE {})
            \cup (IF n = Apex THEN {"NSEC3PARAM"} ELSE {})

Hash(z, n) == compute_hash(n, z.salt)

\* The next hash of the chain; after the largest comes the smallest.
NextHash(z, h) ==
    LET hashes == {Hash(z, n) : n \in nsec3_names(z)}
        later == {k \in hashes : k > h}
        among == IF later = {} THEN hashes ELSE later
    IN CHOOSE k \in among : \A m \in among : k <= m

Nsec3At(z, n) ==
    [hash |-> Hash(z, n), next |-> NextHash(z, Hash(z, n)),
     types |-> nsec3_bitmap(z, n), opt_out |-> z.opt_out]

build_nsec3(z) == {Nsec3At(z, n) : n \in nsec3_names(z)}

\* The labels from here on are hashes in base32hex; no other owner has one.
HashLabel == 100

nsec3_owner(h) == Append(Apex, HashLabel + h)

-----------------------------------------------------------------------------

\* sign_rrsets: every authoritative rrset, at a cut only DS and NSEC.
is_signed(z, n, type) ==
    /\ ~is_occluded(z, n)
    /\ is_cut(z, n) => type \in {"DS", "NSEC"}

\* Mutant: the root counts as a label.
rrsig_labels_WithRoot(n) == Len(n) + 1

\* The Labels field leaves a leading "*" out.
rrsig_labels(n) == IF n # Root /\ n[Len(n)] = Star THEN Len(n) - 1 ELSE Len(n)
=============================================================================
