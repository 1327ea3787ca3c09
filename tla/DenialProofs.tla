---------------------------- MODULE DenialProofs ----------------------------
(***************************************************************************)
(* The denial proofs of the verifier (negative.ts, leaf_negative.ts,       *)
(* wildcard.ts) over the records it holds and could verify: the NSEC       *)
(* records, each [owner, next, types], and the NSEC3 records, each         *)
(* [hash, next, types, opt_out].  hash is the hash of a name under the     *)
(* parameters of those records.                                            *)
(***************************************************************************)
EXTENDS MemoryAuthority

\* The bitmap shapes of nsec.ts.
proves_no_data(nsec, type) == type \notin nsec.types /\ "CNAME" \notin nsec.types

proves_no_ds(nsec) ==
    "NS" \in nsec.types /\ "DS" \notin nsec.types /\ "SOA" \notin nsec.types

\* Mutant: the next name of the NSEC is not looked at.
closest_encloser_nsec_Owner(n, nsec) == CommonLabels(n, nsec.owner)

\* closest_encloser_nsec returns a name, and "" when the best has no label.
closest_encloser_nsec(n, nsec) ==
    LET a == CommonLabels(n, nsec.owner)
        b == CommonLabels(n, nsec.next)
    IN IF a >= b THEN a ELSE b

NoName == 0

prove_no_ds_with_nsec(nsecs, child) ==
    \E r \in nsecs : r.owner = child /\ proves_no_ds(r)

matching_no_data(nsecs, n, type) ==
    \E r \in nsecs : r.owner = n /\ proves_no_data(r, type)

prove_no_data_with_nsec(nsecs, n, type) ==
    \/ matching_no_data(nsecs, n, type)
    \/ \E r \in nsecs :
        /\ covers_name(r, n)
        /\ LET ce == closest_encloser_nsec(n, r)
           IN \/ IsBelow(r.next, n)
              \/ ce # NoName /\ matching_no_data(nsecs, wildcard_at(n, ce), type)

prove_nx_domain_with_nsec(nsecs, n) ==
    \E r \in nsecs :
        /\ covers_name(r, n) /\ ~IsBelow(r.next, n)
        /\ LET ce == closest_encloser_nsec(n, r)
           IN /\ ce # NoName /\ ce # Len(n)
              /\ \E w \in nsecs : covers_name(w, wildcard_at(n, ce))

-----------------------------------------------------------------------------
(* NSEC3                                                                   *)

nsec3_matches(nsec3s, h) == \E r \in nsec3s : r.hash = h

find_covering_nsec3(nsec3s, h) == \E r \in nsec3s : covers_hash(r, h)

\* Matching denial, or an opt-out span over the child's hash.
prove_no_ds_with_nsec3(z, nsec3s, child) ==
    \E r \in nsec3s :
        \/ r.hash = Hash(z, child) /\ proves_no_ds(r)
        \/ r.opt_out /\ covers_hash(r, Hash(z, child))

\* Label counts of the ancestors of n, n included, that some NSEC3 matches.
Matched(z, nsec3s, n) == {d \in 0 .. Len(n) : nsec3_matches(nsec3s, Hash(z, Ancestor(n, d)))}

\* Mutant: the next closer name is not looked at.
closest_encloser_proof_nsec3_NoCover(z, nsec3s, n) ==
    {d \in Matched(z, nsec3s, n) : d < Len(n) /\ \A e \in Matched(z, nsec3s, n) : e <= d}

\* The label count of the closest encloser when the proof of RFC 5155 8.3 is
\* there: it matches, n does not, and the next closer name is covered.
closest_encloser_proof_nsec3(z, nsec3s, n) ==
    {d \in Matched(z, nsec3s, n) :
        /\ d < Len(n) /\ \A e \in Matched(z, nsec3s, n) : e <= d
        /\ find_covering_nsec3(nsec3s, Hash(z, Ancestor(n, d + 1)))}

matching_no_data_nsec3(z, nsec3s, n, type) ==
    \E r \in nsec3s : r.hash = Hash(z, n) /\ proves_no_data(r, type)

prove_no_data_with_nsec3(z, nsec3s, n, type) ==
    \/ matching_no_data_nsec3(z, nsec3s, n, type)
    \/ \E d \in closest_encloser_proof_nsec3(z, nsec3s, n) :
        matching_no_data_nsec3(z, nsec3s, wildcard_at(n, d), type)

prove_nx_domain_with_nsec3(z, nsec3s, n) ==
    \E d \in closest_encloser_proof_nsec3(z, nsec3s, n) :
        find_covering_nsec3(nsec3s, Hash(z, wildcard_at(n, d)))

-----------------------------------------------------------------------------
(* Both kinds of record, NSEC first                                        *)

prove_no_ds(z, nsecs, nsec3s, child) ==
    prove_no_ds_with_nsec(nsecs, child) \/ prove_no_ds_with_nsec3(z, nsec3s, child)

prove_no_data(z, nsecs, nsec3s, n, type) ==
    prove_no_data_with_nsec(nsecs, n, type) \/ prove_no_data_with_nsec3(z, nsec3s, n, type)

prove_nx_domain(z, nsecs, nsec3s, n) ==
    prove_nx_domain_with_nsec(nsecs, n) \/ prove_nx_domain_with_nsec3(z, nsec3s, n)

prove_qname_non_existence(z, nsecs, nsec3s, closer) ==
    \/ \E r \in nsecs : covers_name(r, closer)
    \/ find_covering_nsec3(nsec3s, Hash(z, closer))
=============================================================================
