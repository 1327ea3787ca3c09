-------------------------------- MODULE MCWire --------------------------------
(***************************************************************************)
(* Datagrams: what a server may write for a record of each type, with its  *)
(* names spelled out or compressed in every way, alone and followed by     *)
(* records that point into it; the same cut short; the library's own       *)
(* queries; and all short strings over a few octets.                       *)
(***************************************************************************)
EXTENDS WireMessages

CONSTANTS
    NoiseOctets, NoiseLength,
    Types       \* which of the types below are sent

\* Labels "a", "B" and "c".
QName == <<<<97>>, <<66>>>>

Child == << <<99>> >> \o QName

Names == {<<>>, SubSeq(QName, 2, 2), QName, Child}

Lit(n) == FlattenSeq([i \in DOMAIN n |-> <<Len(n[i])>> \o n[i]]) \o <<0>>

Lower(n) == [i \in DOMAIN n |-> [k \in DOMAIN n[i] |-> ascii_to_lower[n[i][k]]]]

Pointer(o) == <<192, o>>

\* Where names were written before: pairs of a name and its offset.
Question12 == {<<QName, 12>>, <<SubSeq(QName, 2, 2), 14>>}

OwnerAt == 21

Labels(n, k) == FlattenSeq([i \in 1 .. k |-> <<Len(n[i])>> \o n[i]])

\* The ways to write n: some labels, then nothing or a pointer to the rest.
Written(n, known) ==
    {Lit(n)} \cup {Labels(n, k) \o Pointer(t[2]) :
        <<k, t>> \in {p \in (0 .. Len(n)) \X known : SubSeq(n, p[1] + 1, Len(n)) = p[2][1]}}

\* RDATA and its canonical form.
Plain(octets) == [rdata |-> octets, canonical |-> octets]

Named(pre, names, known, post) ==
    {[rdata |-> pre \o w \o post, canonical |-> pre \o Lit(Lower(n)) \o post] :
        <<n, w>> \in UNION {{n} \X Written(n, known) : n \in names}}

Kept1(pre, names, post) == {Plain(pre \o Lit(n) \o post) : n \in names}

Two(names, known, post) ==
    {[rdata |-> x[2] \o y[2] \o post, canonical |-> Lit(Lower(x[1])) \o Lit(Lower(y[1])) \o post] :
        x \in UNION {{n} \X Written(n, known) : n \in names},
        y \in UNION {{n} \X Written(n, known) : n \in names}}

\* Addresses with every pattern of zero groups.
Sixteen == {Plain(FlattenSeq([i \in 1 .. 8 |-> <<0, IF i \in S THEN 7 ELSE 0>>])) : S \in SUBSET (1 .. 8)}

Bitmaps == {<<0, 1, 64>>, <<0, 6, 64, 0, 0, 0, 0, 3>>, <<0, 1, 64, 1, 1, 64>>, <<255, 1, 128>>}

\* Strings around quotes, escapes, digits and UTF-8 sequences, whole and cut.
Texts == UNION {[1 .. k -> {34, 92, 48, 200, 226, 130, 172}] : k \in 0 .. 3}

Svcb == {<<>>, <<0, 1, 0, 3, 2, 104, 50>>, <<0, 1, 0, 2, 2, 104>>, <<0, 3, 0, 2, 1, 187>>,
         <<0, 1, 0, 3, 2, 104, 50, 0, 3, 0, 2, 1, 187>>, <<0, 3, 0, 2, 1, 187, 0, 1, 0, 3, 2, 104, 50>>,
         <<0, 0, 0, 4, 0, 1, 0, 3>>, <<0, 0, 0, 4, 0, 3, 0, 1>>, <<0, 4, 0, 4, 10, 0, 0, 1>>,
         <<0, 2, 0, 0>>, <<0, 2, 0, 1, 0>>, <<0, 9, 0, 1, 5>>, <<0, 3, 0>>}

RdataOf(type, known) ==
    CASE type = TYPE_A -> {Plain(<<10, 0, 0, 1>>)}
      [] type = TYPE_AAAA -> Sixteen
      [] type \in SingleName -> Named(<<>>, Names, known, <<>>)
      [] type = TYPE_MX -> Named(<<0, 10>>, Names, known, <<>>)
      [] type = TYPE_SRV -> Named(<<0, 1, 0, 2, 1, 187>>, {QName, Child}, known, <<>>)
      [] type = TYPE_SOA -> Two({QName, Child}, known, [i \in 1 .. 20 |-> i])
      [] type = TYPE_TXT -> {Plain(<<>>), Plain(<<0>>), Plain(<<1, 34, 0, 2, 92, 200>>)} \cup
                              {Plain(<<Len(t)>> \o t \o <<1, 32>>) : t \in Texts}
      [] type = TYPE_CAA -> {Plain(<<0, 2, 105, 120, 34>>), Plain(<<128, 1, 105>>)}
      [] type \in TYPE_DNSKEY \cup TYPE_DS -> {Plain(<<1, 1, 3, 8>>), Plain(<<1, 0, 3, 8, 0, 255>>)}
      [] type = TYPE_RRSIG -> Named([i \in 1 .. 18 |-> i], {QName, <<>>}, {}, <<7, 8>>)
      [] type = TYPE_NSEC -> UNION {Kept1(<<>>, Names, b) : b \in Bitmaps}
      [] type = TYPE_NSEC3 -> {Plain(<<1, 1, 0, 5>> \o salt \o <<2, 9, 0>> \o b) :
                                salt \in {<<0>>, <<2, 171, 0>>}, b \in Bitmaps \cup {<<>>}}
      [] type = TYPE_NSEC3PARAM -> {Plain(<<1, 0, 0, 5, 0>>), Plain(<<1, 0, 1, 5, 1, 171>>)}
      [] type \in TYPE_TLSA -> {Plain(<<3, 1, 1>>), Plain(<<3, 1, 1, 5>>)}
      [] type \in TYPE_SVCB -> UNION {Kept1(<<0, 1>>, {<<>>, QName}, p) : p \in Svcb}
      [] type = 17 -> Two({QName}, {}, <<>>)
      [] OTHER -> {Plain(<<>>), Plain(<<1, 97, 192, 12>>)}

\* Records as they are written, and as they are meant.
Rr(owner, type, r) == owner \o Uint16(type) \o Uint16(1) \o <<0, 1, 81, 128>> \o Uint16(Len(r.rdata)) \o r.rdata

Meant(n, type, r) == [name |-> assemble_name(n), type |-> type, ttl |-> <<1, 20864>>, canonical |-> r.canonical]

HeaderOf(flags, an, ns, ar) == FlattenSeq([i \in 1 .. 6 |-> Uint16(<<513, flags, 1, an, ns, ar>>[i])])

\* QR, AA, AD and NXDOMAIN.
Flags == 32768 + 1024 + 32 + 3

Asked == Lit(QName) \o Uint16(1) \o Uint16(1)

Sent(records) == [kind |-> "message", records |-> records, ad |-> TRUE, rcode |-> 3]

\* One record in the answer; a second record that may point at the first one's
\* owner, in the authority section; a third that is not looked into.
NoTail == [octets |-> <<>>, ns |-> 0, ar |-> 0, records |-> <<>>]

Tails(known) ==
    {NoTail,
     [octets |-> Rr(<<0>>, 41, Plain(<<>>)), ns |-> 0, ar |-> 1, records |-> <<>>],
     [octets |-> Rr(<<0>>, 1, Plain(<<1>>)), ns |-> 0, ar |-> 1, records |-> <<>>]} \cup
    {[octets |-> Rr(w, 2, r), ns |-> 1, ar |-> 0, records |-> <<Meant(Child, 2, r)>>] :
        w \in Written(Child, known), r \in Named(<<>>, {Child}, known, <<>>)}

\* Where the question ends and then each of the records written behind it.
Ends(written) ==
    [k \in 1 .. Len(written) + 1 |-> OwnerAt + Len(FlattenSeq(SubSeq(written, 1, k - 1)))]

Answers(type) ==
    UNION {LET known == Question12 \cup {<<n, OwnerAt>>}
               datas == RdataOf(type, known)
               tails == IF type = 2 THEN Tails(known) ELSE {NoTail}
           IN {[msg |-> HeaderOf(Flags, 1, t.ns, t.ar) \o Asked \o Rr(w, type, r) \o t.octets,
                sent |-> Sent(<<Meant(n, type, r)>> \o t.records),
                ends |-> Ends(<<Rr(w, type, r)>> \o (IF t = NoTail THEN <<>> ELSE <<t.octets>>))] :
                    w \in Written(n, Question12), r \in datas, t \in tails} :
           n \in IF type \in {TYPE_AAAA, TYPE_TXT} THEN {QName} ELSE {QName, Child}}

Messages == UNION {Answers(type) : type \in Types}

\* Messages with a compressed first owner, cut anywhere.
Cuts ==
    LET whole == {a \in UNION {Answers(type) : type \in Types \cap {2, 15}} : OctetAt(a.msg, OwnerAt) = 192}
    IN UNION {{[msg |-> SubSeq(a.msg, 1, k), sent |-> [kind |-> "cut", whole |-> a.msg, ends |-> a.ends]] :
                k \in 0 .. Len(a.msg) - 1} : a \in whole}

\* "a.B" with and without its dot, and the root.
Queries ==
    {[msg |-> build_query_with_options(513, name, 28, cd).wire,
      sent |-> [kind |-> "message", records |-> <<>>, ad |-> FALSE, rcode |-> 0]] :
        name \in {<<97, 46, 66>>, <<97, 46, 66, 46>>, <<>>}, cd \in BOOLEAN}

Noise == {[msg |-> m, sent |-> [kind |-> "noise"]] : m \in UNION {[1 .. k -> NoiseOctets] : k \in 0 .. NoiseLength}}

\* Pointers at pointers, three deep: one more than MaxHops in Wire.cfg.
Chains == {[msg |-> <<0>> \o FlattenSeq([i \in 1 .. 3 |-> Pointer(f[i])]), sent |-> [kind |-> "noise"]] :
            f \in [1 .. 3 -> 0 .. 6]}

MCArrivals == Messages \cup Cuts \cup Queries \cup Noise \cup Chains

AllTypes == {1, 2, 5, 6, 12, 15, 16, 28, 33, 39, 43, 46, 47, 48, 50, 51, 52, 53, 59, 60, 64, 65, 257, 65280}

\* The dnssec and zone bundles, as far as rdata_to_string gives them fields.
Bundles == {43, 46, 47, 48, 50, 51, 52, 53, 59, 60, 64, 65}

RP == {17}
=============================================================================
