------------------------------ MODULE DnsNames ------------------------------
(***************************************************************************)
(* Domain names as the code's helpers see them.  A name is the sequence of *)
(* its labels, root first, so <<>> is the root, an ancestor is a prefix    *)
(* and canonical order (RFC 4034 6.1) is the order of the sequences.       *)
(***************************************************************************)
EXTENDS Naturals, Sequences

CONSTANT Star   \* the label "*"

Root == <<>>

\* The ancestor of n that has d labels (last_n_labels of the text form).
Ancestor(n, d) == SubSeq(n, 1, d)

IsBelow(n, anc) == Len(anc) < Len(n) /\ Ancestor(n, Len(anc)) = anc

AtOrBelow(n, anc) == n = anc \/ IsBelow(n, anc)

\* The wildcard directly below the ancestor of n with d labels.
wildcard_at(n, d) == Append(Ancestor(n, d), Star)

\* compare_canonical_names(a, b) < 0, for labels that are numbers.
Before(a, b) ==
    \E i \in 1 .. Len(b) :
        /\ i <= Len(a) + 1 /\ Ancestor(a, i - 1) = Ancestor(b, i - 1)
        /\ Len(a) < i \/ a[i] < b[i]

\* longest_common_ancestor, as the number of its labels.
CommonLabels(a, b) ==
    CHOOSE d \in 0 .. Len(a) :
        /\ d <= Len(b) /\ Ancestor(a, d) = Ancestor(b, d)
        /\ d < Len(a) /\ d < Len(b) => a[d + 1] # b[d + 1]
=============================================================================
