------------------------------ MODULE MCWorld -------------------------------
(***************************************************************************)
(* Two zones and a stray key for model checking the chain walk: the root,  *)
(* and a below it.  Responses are made of at most MaxItems records and     *)
(* MaxItems signatures out of what Offered lists for the query; a query    *)
(* that is not in Noisy is answered as the zones would answer it.          *)
(***************************************************************************)
EXTENDS ChainWalk, FiniteSetsExt, TLC

CONSTANTS
    la, lb, star,              \* labels
    kr, ka, ku, kx,            \* keys: the root's, a's, unsupported, stray
    dA, dW,                    \* addresses: of b.a, of *.a
    nCut, nGap, nEnt, nWild, nHas, nFake, \* NSEC RDATA
    dOdd,                      \* a DS of unknown digest type, for ka
    Noisy,                     \* the queries answered arbitrarily
    MaxItems

A  == <<la>>
BA == <<la, lb>>
WA == <<la, star>>

MCLabel == {la, lb, star}
MCKey   == {kr, ka, ku, kx}
MCDatum == {dA, dW, nCut, nGap, nEnt, nWild, nHas, nFake, dOdd}

MCZoneKeys == (Root :> {kr, ku}) @@ (A :> {ka, ku})

\* The stray key has the tag of a's key.
MCTagOf(k) == IF k = kx THEN ka ELSE k

MCOddTag(d) == ka

\* What the zones have published, at one time or another.
MCPublished(z, owner, type) ==
    CASE z = A /\ owner = BA /\ type = "A"       -> {{dA}, {dA, dW}}
      [] z = A /\ owner = WA /\ type = "A"       -> {{dW}}
      [] z = A /\ owner = BA /\ type = "NSEC"    -> {{nCut}, {nHas}}
      [] z = A /\ owner = WA /\ type = "NSEC"    -> {{nWild}}
      [] z = A /\ owner = A /\ type = "NSEC"     -> {{nGap}, {nEnt}}
      [] z = Root /\ owner = A /\ type = "NSEC"  -> {{nCut}}
      [] OTHER -> {}

MCTarget(d) == Root

\* nCut: a delegation without DS.  nHas: the name, without the type.
\* nGap: the apex of a, next name the apex.  nEnt: the apex, next name below
\* b.a.  nWild: *.a without the type, next name the apex.  nFake: what no zone
\* has published.
MCDenies(owner, d) ==
    CASE d \in {nCut, nFake} -> {<<"no-ds", owner>>, <<"no-data", owner>>}
      [] d = nHas -> {<<"no-data", owner>>}
      [] d = nGap -> IF owner = A THEN {<<"covers", BA>>, <<"covers", WA>>} ELSE {}
      [] d = nEnt -> IF owner = A THEN {<<"covers", BA>>, <<"covers", WA>>, <<"empty", BA>>} ELSE {}
      [] d = nWild -> {<<"no-data", owner>>} \cup (IF owner = WA THEN {<<"covers", BA>>} ELSE {})
      [] OTHER -> {}

MCEncloserOf(owner, d, n) == IF n = BA THEN 1 ELSE None

-----------------------------------------------------------------------------
(* Responses *)

Rec(type, owner, data) == [type |-> type, owner |-> owner, data |-> data]

Sig(key, signer, owner, type, labels, window, over) ==
    [owner |-> owner, covered |-> type, signer |-> signer, labels |-> labels,
     window |-> window, key |-> key, of |-> signed_owner(owner, labels), over |-> over]

\* A signature a zone's operator would put on the rrset today.
Good(key, signer, owner, type, over) ==
    Sig(key, signer, owner, type, Len(owner), "inside", over)

Offered(name, type) ==
    CASE name = Root /\ type = "DNSKEY" ->
            [rrs  |-> {Rec("DNSKEY", Root, k) : k \in {kr, ku, kx}},
             sigs |-> {Good(kr, Root, Root, "DNSKEY", {kr}),
                       Good(kr, Root, Root, "DNSKEY", {kr, ku}),
                       Good(ku, Root, Root, "DNSKEY", {kr, ku}),
                       Good(kx, Root, Root, "DNSKEY", {kr, kx}),
                       Sig(kr, Root, Root, "DNSKEY", 0, "late", {kr})}]
      [] name = A /\ type = "DS" ->
            [rrs  |-> {Rec("DS", A, k) : k \in {ka, ku, kx, dOdd}} 
                     \cup {Rec("NSEC", A, nCut), Rec("NSEC", A, nFake)},
             sigs |-> {Good(kr, Root, A, "DS", {ka}), Good(kr, Root, A, "DS", {ka, ku}),
                       Good(kr, Root, A, "DS", {ka, dOdd}), Good(ku, Root, A, "DS", {ka}),
                       Good(kx, A, A, "DS", {kx}), Good(kr, Root, A, "NSEC", {nCut}),
                       Good(ku, Root, A, "NSEC", {nCut}), Good(kx, Root, A, "NSEC", {nFake}),
                       Sig(kr, Root, A, "DS", 1, "early", {ka})}]
      [] name = A /\ type = "DNSKEY" ->
            [rrs  |-> {Rec("DNSKEY", A, k) : k \in {ka, ku, kx}} \cup {Rec("DNSKEY", Root, kx)},
             sigs |-> {Good(ka, A, A, "DNSKEY", {ka}), Good(ka, A, A, "DNSKEY", {ka, ku}),
                       Good(ku, A, A, "DNSKEY", {ka, ku}), Good(kx, A, A, "DNSKEY", {ka, kx}),
                       Good(kx, A, A, "DNSKEY", {kx})}]
      [] name = BA /\ type = "DS" ->
            [rrs  |-> {Rec("NSEC", BA, nCut), Rec("NSEC", A, nGap), Rec("DNSKEY", A, kx)},
             sigs |-> {Good(ka, A, BA, "NSEC", {nCut}), Good(ku, A, BA, "NSEC", {nCut}),
                       Good(ka, A, A, "NSEC", {nGap})}]
      [] name = BA /\ type = "DNSKEY" ->
            [rrs  |-> {Rec("DNSKEY", BA, kx)},
             sigs |-> {Good(kx, BA, BA, "DNSKEY", {kx})}]
      [] OTHER ->
            [rrs  |-> {Rec("A", BA, dA), Rec("A", BA, dW), Rec("NSEC", A, nGap),
                       Rec("NSEC", A, nEnt), Rec("NSEC", BA, nHas), Rec("NSEC", WA, nWild),
                       Rec("NSEC", BA, nWild), Rec("NSEC", BA, nFake), Rec("DNSKEY", A, kx)},
             sigs |-> {Good(ka, A, BA, "A", {dA}), Sig(ka, A, BA, "A", 1, "inside", {dW}),
                       Sig(ka, A, BA, "A", 0, "inside", {dW}), Good(kx, A, BA, "A", {dW}),
                       Good(kx, A, BA, "NSEC", {nFake}),
                       Good(ka, A, A, "NSEC", {nGap}), Good(ku, A, A, "NSEC", {nGap}),
                       Good(ka, A, A, "NSEC", {nEnt}), Good(ka, A, BA, "NSEC", {nHas}),
                       Good(ka, A, WA, "NSEC", {nWild}), Good(ku, A, WA, "NSEC", {nWild}),
                       Sig(ka, A, BA, "NSEC", 1, "inside", {nWild}),
                       Good(ku, A, BA, "A", {dA})}]

Clean(name, type) ==
    CASE type = "DNSKEY" /\ name # BA ->
            LET keys == IF name = Root THEN {kr} ELSE {ka, ku}
                k    == IF name = Root THEN kr ELSE ka
            IN [rrs  |-> {Rec("DNSKEY", name, x) : x \in keys},
                sigs |-> {Good(k, name, name, "DNSKEY", keys)}]
      [] name = A /\ type = "DS" ->
            [rrs |-> {Rec("DS", A, ka)}, sigs |-> {Good(kr, Root, A, "DS", {ka})}]
      [] name = BA /\ type = "A" ->
            [rrs |-> {Rec("A", BA, dA)}, sigs |-> {Good(ka, A, BA, "A", {dA})}]
      [] OTHER -> [rrs |-> {}, sigs |-> {}]

UpTo(n, S) == UNION {kSubset(i, S) : i \in 0 .. n}

MCAnswer(name, type) ==
    IF <<name, type>> \in Noisy
    THEN [rrs  : UpTo(MaxItems, Offered(name, type).rrs),
          sigs : UpTo(MaxItems, Offered(name, type).sigs)]
    ELSE {Clean(name, type)}

DescentQueries == {<<Root, "DNSKEY">>, <<A, "DS">>, <<A, "DNSKEY">>}

LeafQueries == {<<BA, "DS">>, <<BA, "A">>}

AskA == {A}

AskBA == {BA}

DNSKEYLeaf == {<<BA, "DNSKEY">>}

Nothing == {}
=============================================================================
