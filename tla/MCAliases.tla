----------------------------- MODULE MCAliases ------------------------------
(***************************************************************************)
(* Redirects for model checking the chain walk: the root and the zone b    *)
(* publish CNAMEs and DNAMEs in all combinations, so that paths of         *)
(* redirects fork, loop, lead back into a zone already walked, lengthen    *)
(* the name, or run into the hop limit.                                    *)
(***************************************************************************)
EXTENDS ChainWalk, FiniteSetsExt, TLC

CONSTANTS
    la, lb, star,
    kr, kb,          \* keys of the root and of b
    dA,              \* an address
    cA, cB, cBA, cRoot, \* CNAME RDATA, by target
    dB, dAA,         \* DNAME RDATA, by target
    nCut,            \* NSEC RDATA of a delegation without DS
    AtWildcard       \* CNAMEs are published at b's wildcard only

A  == <<la>>
B  == <<lb>>
BA == <<lb, la>>
AB == <<la, lb>>

MCLabel == {la, lb, star}
MCKey   == {kr, kb}
MCDatum == {dA, cA, cB, cBA, cRoot, dB, dAA, nCut}

MCZoneKeys == (Root :> {kr}) @@ (B :> {kb})

MCTagOf(k) == k
MCOddTag(d) == kr

MCTarget(d) ==
    CASE d = cA  -> A
      [] d = cB  -> B
      [] d = cBA -> BA
      [] d = dB  -> B
      [] d = dAA -> <<la, la>>
      [] OTHER   -> Root

CNames == {cA, cB, cBA, cRoot}
DNames == {dB, dAA}

MCPublished(z, owner, type) ==
    CASE type = "A"     -> {{dA}}
      [] type = "CNAME" -> IF AtWildcard /\ owner # <<lb, star>> THEN {} ELSE {{c} : c \in CNames}
      [] type = "DNAME" -> {{d} : d \in DNames}
      [] type = "NSEC"  -> {{nCut}}
      [] OTHER          -> {}

MCDenies(owner, d) == IF d = nCut THEN {<<"no-ds", owner>>} ELSE {}

MCEncloserOf(owner, d, n) == None

-----------------------------------------------------------------------------
(* Responses *)

Rec(type, owner, data) == [type |-> type, owner |-> owner, data |-> data]

Sig(key, signer, owner, type, labels, over) ==
    [owner |-> owner, covered |-> type, signer |-> signer, labels |-> labels,
     window |-> "inside", key |-> key, of |-> signed_owner(owner, labels), over |-> over]

Good(key, signer, owner, type, over) == Sig(key, signer, owner, type, Len(owner), over)

Signed(key, z, owner, type, d) ==
    [rrs |-> {Rec(type, owner, d)}, sigs |-> {Good(key, z, owner, type, {d})}]

Unsigned(resp) == [resp EXCEPT !.sigs = {}]

\* One redirect at n, or one anywhere above it, with the CNAME synthesised from it.
LeafResponses(key, z, n) ==
    LET cnames == {Signed(key, z, n, "CNAME", c) : c \in CNames}
        dnames == {Signed(key, z, Ancestor(n, l), "DNAME", d) : l \in 1 .. Len(n) - 1, d \in DNames}
        both   == {[r EXCEPT !.rrs = @ \cup {Rec("CNAME", n, cA)}] : r \in dnames}
        answer == Signed(key, z, n, "A", dA)
    IN cnames \cup dnames \cup both \cup {answer, Unsigned(answer)}
        \cup {Unsigned(r) : r \in cnames \cup both}
        \cup {[rrs  |-> {Rec("CNAME", n, cB)},
               sigs |-> {Sig(key, z, n, "CNAME", Len(n) - 1, {cB})}]}

ZoneAt(n) == IF n = B \/ IsBelow(n, B) THEN B ELSE Root

MCAnswer(name, type) ==
    CASE name = Root -> {Signed(kr, Root, Root, "DNSKEY", kr)}
      [] name = B /\ type = "DNSKEY" -> {Signed(kb, B, B, "DNSKEY", kb)}
      [] name = B /\ type = "DS" ->
            LET delegation == Signed(kr, Root, B, "DS", kb)
            IN {delegation, Unsigned(delegation)}
      [] name = <<la, la>> /\ type = "DS" ->
            {[rrs |-> {}, sigs |-> {}], Signed(kr, Root, name, "NSEC", nCut)}
      [] name \notin {Root, B, <<la, la>>} /\ type = "DS" -> {[rrs |-> {}, sigs |-> {}]}
      [] OTHER -> LeafResponses(IF ZoneAt(name) = B THEN kb ELSE kr, ZoneAt(name), name)

MCQNames == IF AtWildcard THEN {BA} ELSE {A, AB}
=============================================================================
