------------------------------ MODULE RecordData ------------------------------
(***************************************************************************)
(* RDATA: from the octets of a message to a record's value and back to the *)
(* octets that are hashed and signed.  A value is the RFC 3597 generic     *)
(* form, which holds octets, or the fields of the type's own form: numbers,*)
(* names as text, strings, lists.  How a number, a string or a hex block   *)
(* is spelled is left out; what a spelling loses is not.                   *)
(***************************************************************************)
EXTENDS WireNames, FiniteSetsExt

Generic(rdata) == [generic |-> TRUE, rdata |-> rdata]

Value(fields) == [ok |-> TRUE, value |-> [generic |-> FALSE, fields |-> fields]]

SingleName == {2, 5, 12, 39}  \* NS, CNAME, PTR, DNAME
TYPE_A == 1
TYPE_SOA == 6
TYPE_MX == 15
TYPE_TXT == 16
TYPE_AAAA == 28
TYPE_SRV == 33
TYPE_DS == {43, 59}
TYPE_RRSIG == 46
TYPE_NSEC == 47
TYPE_DNSKEY == {48, 60}
TYPE_NSEC3 == 50
TYPE_NSEC3PARAM == 51
TYPE_TLSA == {52, 53}
TYPE_SVCB == {64, 65}
TYPE_CAA == 257

-----------------------------------------------------------------------------
(* Pieces of the decoders *)

\* A string of rdata behind its length octet at pos, if it ends in time.
Counted(rdata, pos) ==
    LET end == pos + 1 + OctetAt(rdata, pos)
    IN IF pos >= Len(rdata) \/ end > Len(rdata) THEN Failed("truncated")
       ELSE [ok |-> TRUE, octets |-> Subarray(rdata, pos + 1, end), next |-> end]

\* rdata cut into strings, or into lists of what cut(pos) makes of it; each cut
\* moves on.
Sliced(rdata, from, cut(_)) ==
    LET rest[pos \in from .. Len(rdata)] ==
            LET one == cut(pos)
                more == rest[one.next]
            IN IF pos = Len(rdata) THEN [ok |-> TRUE, parts |-> <<>>]
               ELSE IF ~one.ok THEN one
               ELSE IF ~more.ok THEN more
               ELSE [ok |-> TRUE, parts |-> <<one.octets>> \o more.parts]
    IN rest[from]

Bit(octet, i) == (octet \div 2 ^ (7 - i)) % 2 = 1

\* The types of one window at pos of a bitmap.
Window(bitmap, pos) ==
    LET n == OctetAt(bitmap, pos + 1)
        end == pos + 2 + n
    IN IF pos + 2 > Len(bitmap) \/ n = 0 \/ n > 32 \/ end > Len(bitmap) THEN Failed("bitmap")
       ELSE [ok |-> TRUE, next |-> end,
             octets |-> SelectSeq([i \in 1 .. 8 * n |->
                            IF Bit(OctetAt(bitmap, pos + 2 + (i - 1) \div 8), (i - 1) % 8)
                            THEN OctetAt(bitmap, pos) * 256 + i - 1 ELSE -1],
                            LAMBDA t : t >= 0)]

decode_bitmap(bitmap) == Sliced(bitmap, 0, LAMBDA pos : Window(bitmap, pos))

\* collapse_ipv6: the first of the longest runs of zero groups, two or more,
\* becomes "::".
ZeroRun(groups, from, n) == from + n - 1 <= 8 /\ \A i \in from .. from + n - 1 : groups[i] = 0

format_ipv6(rdata) ==
    LET groups == [i \in 1 .. 8 |-> Uint16At(rdata, 2 * i - 2)]
        runs == {p \in (1 .. 8) \X (2 .. 8) : ZeroRun(groups, p[1], p[2])}
        best == CHOOSE p \in runs : \A q \in runs : q[2] < p[2] \/ (q[2] = p[2] /\ q[1] >= p[1])
    IN IF runs = {} THEN [gap |-> FALSE, head |-> groups, tail |-> <<>>]
       ELSE [gap |-> TRUE, head |-> SubSeq(groups, 1, best[1] - 1),
             tail |-> SubSeq(groups, best[1] + best[2], 8)]

parse_ipv6(addr) ==
    LET fill == 8 - Len(addr.head) - Len(addr.tail)
    IN FlattenSeq([i \in 1 .. 8 |-> Uint16(
        IF i <= Len(addr.head) THEN addr.head[i]
        ELSE IF i <= Len(addr.head) + fill THEN 0 ELSE addr.tail[i - Len(addr.head) - fill])])

-----------------------------------------------------------------------------
(* Character-strings in a value: a sequence of characters, each the octets *)
(* of its UTF-8 form.                                                      *)

Blank == {9, 10, 13, 32}

Quote == <<34>>

Backslash == <<92>>

\* The length of the valid UTF-8 sequence at i, or 0.
utf8_sequence_length(s, i) ==
    LET c == OctetAt(s, i)
        n == CASE c \in 194 .. 223 -> 2 [] c \in 224 .. 239 -> 3 [] c \in 240 .. 244 -> 4 [] OTHER -> 0
        lo == CASE c = 224 -> 160 [] c = 240 -> 144 [] OTHER -> 128
        hi == CASE c = 237 -> 159 [] c = 244 -> 143 [] OTHER -> 191
    IN IF /\ n > 0 /\ i + n <= Len(s) /\ OctetAt(s, i + 1) \in lo .. hi
          /\ \A k \in 2 .. n - 1 : OctetAt(s, i + k) \in 128 .. 191
       THEN n ELSE 0

txt_quote(s) ==
    LET ddd(c) == [k \in 1 .. 3 |-> <<48 + ((c \div 10 ^ (3 - k)) % 10)>>]
        quoted[i \in 0 .. Len(s)] ==
            LET c == OctetAt(s, i)
                n == utf8_sequence_length(s, i)
            IN IF i = Len(s) THEN <<>>
               ELSE IF c \in {34, 92} THEN <<Backslash, <<c>> >> \o quoted[i + 1]
               ELSE IF c \in 32 .. 126 THEN << <<c>> >> \o quoted[i + 1]
               ELSE IF n > 0 THEN <<Subarray(s, i, i + n)>> \o quoted[i + n]
               ELSE <<Backslash>> \o ddd(c) \o quoted[i + 1]
    IN <<Quote>> \o quoted[0] \o <<Quote>>

\* Three digits behind a backslash are an octet, any other character is itself.
parse_txt_escape(value, i) ==
    LET ddd == Subarray(value, i - 1, i + 2)
        digit(k) == ddd[k][1] - 48
        v == digit(1) * 100 + digit(2) * 10 + digit(3)
    IN IF Len(ddd) = 3 /\ \A k \in 1 .. 3 : ddd[k] \in {<<48 + d>> : d \in 0 .. 9}
       THEN IF v > 255 THEN Failed("octet") ELSE [ok |-> TRUE, octets |-> <<v>>, width |-> 3]
       ELSE [ok |-> TRUE, octets |-> value[i], width |-> 1]

\* Quoted strings and bare words, cut at blanks and unescaped.
parse_txt_value(value) ==
    LET n == Len(value)
        blank(i) == value[i] \in {<<c>> : c \in Blank}
        body[i \in 1 .. n + 1, quoted \in BOOLEAN] ==
            LET escaped == value[i] = Backslash /\ i < n
                one == IF escaped THEN parse_txt_escape(value, i + 1)
                       ELSE [ok |-> TRUE, octets |-> value[i], width |-> 1]
                rest == body[i + one.width + (IF escaped THEN 1 ELSE 0), quoted]
            IN IF i > n THEN [ok |-> TRUE, octets |-> <<>>, next |-> i]
               ELSE IF quoted /\ value[i] = Quote THEN [ok |-> TRUE, octets |-> <<>>, next |-> i + 1]
               ELSE IF ~quoted /\ blank(i) THEN [ok |-> TRUE, octets |-> <<>>, next |-> i]
               ELSE IF ~one.ok THEN one
               ELSE IF ~rest.ok THEN rest
               ELSE [rest EXCEPT !.octets = one.octets \o @]
        strings[i \in 1 .. n + 1] ==
            LET quoted == value[i] = Quote
                one == body[IF quoted THEN i + 1 ELSE i, quoted]
                rest == strings[one.next]
            IN IF i > n THEN [ok |-> TRUE, parts |-> <<>>]
               ELSE IF blank(i) THEN strings[i + 1]
               ELSE IF ~one.ok THEN one
               ELSE IF ~rest.ok THEN rest
               ELSE [rest EXCEPT !.parts = <<one.octets>> \o @]
    IN strings[1]

\* Strings side by side, a blank between two.
decode_txt(parts) ==
    FlattenSeq([i \in DOMAIN parts |-> (IF i = 1 THEN <<>> ELSE << <<32>> >>) \o txt_quote(parts[i])])

-----------------------------------------------------------------------------
(* SvcParams *)

\* Values with a plain form: what the zone parser reads back.
svc_param_value(key, v) ==
    LET cells(n) == [i \in 1 .. Len(v) \div n |-> Subarray(v, (i - 1) * n, i * n)]
        keys == [i \in 1 .. Len(v) \div 2 |-> Uint16At(v, 2 * i - 2)]
        ids == Sliced(v, 0, LAMBDA pos : Counted(v, pos))
        plain(c) == c \in 33 .. 126 \ {34, 44, 92}
        mapped(ip) == (\A i \in 1 .. 10 : ip[i] = 0) /\ ip[11] = 255 /\ ip[12] = 255
        parts(ok, p) == IF ok THEN [ok |-> TRUE, parts |-> p] ELSE Failed("no plain form")
    IN CASE key = 0 -> parts(Len(v) % 2 = 0 /\ \A i \in 2 .. Len(keys) : keys[i - 1] <= keys[i], keys)
         [] key = 1 -> IF ids.ok /\ \A i \in DOMAIN ids.parts :
                              ids.parts[i] # <<>> /\ \A c \in ToSet(ids.parts[i]) : plain(c)
                       THEN ids ELSE Failed("no plain form")
         [] key = 3 -> parts(Len(v) = 2, <<v>>)
         [] key = 4 -> parts(Len(v) % 4 = 0, cells(4))
         [] key = 6 -> parts(Len(v) % 16 = 0 /\ \A i \in DOMAIN cells(16) : ~mapped(cells(16)[i]), cells(16))
         [] OTHER -> parts(TRUE, <<v>>)

svc_param_string(key, v) ==
    IF key = 2 THEN IF v = <<>> THEN [ok |-> TRUE, parts |-> <<>>] ELSE Failed("value")
    ELSE IF v = <<>> THEN IF key >= 7 THEN [ok |-> TRUE, parts |-> <<>>] ELSE Failed("no value")
    ELSE svc_param_value(key, v)

\* One SvcParam at pos.
Param(rdata, pos) ==
    LET key == Uint16At(rdata, pos)
        end == pos + 4 + Uint16At(rdata, pos + 2)
        param == svc_param_string(key, Subarray(rdata, pos + 4, end))
    IN IF pos + 4 > Len(rdata) \/ end > Len(rdata) \/ ~param.ok THEN Failed("param")
       ELSE [ok |-> TRUE, next |-> end, octets |-> [key |-> key, parts |-> param.parts]]

\* Keys in order, a target the parser reads back, or no form at all.
svcb_presentation(rdata) ==
    LET target == parse_domain_name(rdata, 2)
        raw == domain_name2wire_preserve_case(target.name)
        params == Sliced(rdata, target.next, LAMBDA pos : Param(rdata, pos))
    IN /\ Len(rdata) >= 3 /\ target.ok
       /\ \A i \in DOMAIN target.name : target.name[i] \notin Blank
       /\ raw.ok /\ raw.wire = Subarray(rdata, 2, target.next)
       /\ params.ok
       /\ \A i \in 2 .. Len(params.parts) : params.parts[i - 1].key < params.parts[i].key

svcb_fields(rdata) ==
    LET target == parse_domain_name(rdata, 2)
    IN <<Uint16At(rdata, 0), target.name,
         Sliced(rdata, target.next, LAMBDA pos : Param(rdata, pos)).parts>>

\* encodeSvcParamValue: what the handler makes of the plain form.
SvcParamOctets(param) ==
    LET parts == param.parts
    IN CASE param.key = 0 -> FlattenSeq([i \in DOMAIN parts |-> Uint16(SortSeq(parts, <)[i])])
         [] param.key = 1 -> FlattenSeq([i \in DOMAIN parts |-> <<Len(parts[i])>> \o parts[i]])
         [] OTHER -> FlattenSeq(parts)

-----------------------------------------------------------------------------
(* rdata_to_string: the RDATA of len octets at start of msg *)

\* Fields of fixed place, then a name: f(name, the offset behind it).
NameAt(msg, offset, f(_, _)) ==
    LET parsed == parse_domain_name(msg, offset)
    IN IF parsed.ok THEN f(parsed.name, parsed.next) ELSE Failed("domain name")

decode_soa(msg, start, end) ==
    NameAt(msg, start, LAMBDA mname, second :
        NameAt(msg, second, LAMBDA rname, next :
            IF next + 20 > end THEN Failed("fixed fields")
            ELSE Value(<<mname, rname, [i \in 1 .. 5 |-> Uint32At(msg, next + 4 * i - 4)]>>)))

decode_rrsig(msg, rdata, start, end) ==
    IF Len(rdata) < 18 THEN Failed("length")
    ELSE NameAt(msg, start + 18, LAMBDA signer, next :
        IF next > end THEN Failed("signer")
        ELSE Value(<<Uint16At(rdata, 0), rdata[3], rdata[4], Uint32At(rdata, 4), Uint32At(rdata, 8),
                     Uint32At(rdata, 12), Uint16At(rdata, 16), signer, Subarray(msg, next, end)>>))

decode_nsec(msg, start, end) ==
    NameAt(msg, start, LAMBDA name, next :
        LET types == decode_bitmap(Subarray(msg, next, end))
        IN IF types.ok THEN Value(<<name, FlattenSeq(types.parts)>>) ELSE types)

decode_nsec3(rdata) ==
    LET salt == Counted(rdata, 4)
        hash == Counted(rdata, salt.next)
        types == decode_bitmap(Subarray(rdata, hash.next, Len(rdata)))
    IN IF ~salt.ok THEN salt ELSE IF ~hash.ok THEN hash ELSE IF ~types.ok THEN types
       ELSE Value(<<rdata[1], rdata[2], Uint16At(rdata, 2), salt.octets, hash.octets,
                    FlattenSeq(types.parts)>>)

decode_srv(msg, rdata, start) ==
    IF Len(rdata) < 7 THEN Failed("length")
    ELSE NameAt(msg, start + 6, LAMBDA name, next :
            Value(<<Uint16At(rdata, 0), Uint16At(rdata, 2), Uint16At(rdata, 4), name>>))

decode_caa(rdata) ==
    LET tag == Counted(rdata, 1)
    IN IF Len(rdata) < 2 \/ ~tag.ok THEN Failed("length")
       ELSE Value(<<rdata[1], tag.octets, txt_quote(Subarray(rdata, tag.next, Len(rdata)))>>)

\* DNSKEY and CDNSKEY, DS and CDS: two octets, two numbers, a block.
decode_key(rdata) ==
    IF Len(rdata) < 4 THEN Failed("length")
    ELSE Value(<<Uint16At(rdata, 0), rdata[3], rdata[4], Subarray(rdata, 4, Len(rdata))>>)

decode_nsec3param(rdata) ==
    IF Len(rdata) < 5 \/ ~Counted(rdata, 4).ok THEN Failed("length")
    ELSE Value(<<rdata[1], rdata[2], Uint16At(rdata, 2), Counted(rdata, 4).octets>>)

tlsa_presentation(rdata) == Value(<<SubSeq(rdata, 1, 3), Subarray(rdata, 3, Len(rdata))>>)

rdata_to_string(msg, type, start, len) ==
    LET end == start + len
        rdata == Subarray(msg, start, end)
        atLeast(n, v) == IF len < n THEN Failed("length") ELSE v
        strings == Sliced(rdata, 0, LAMBDA pos : Counted(rdata, pos))
    IN CASE type = TYPE_A -> IF len = 4 THEN Value(<<rdata>>) ELSE Failed("length")
         [] type = TYPE_AAAA -> IF len = 16 THEN Value(<<format_ipv6(rdata)>>) ELSE Failed("length")
         [] type \in SingleName -> NameAt(msg, start, LAMBDA name, next : Value(<<name>>))
         [] type = TYPE_MX -> atLeast(3, NameAt(msg, start + 2, LAMBDA name, next :
                            Value(<<Uint16At(rdata, 0), name>>)))
         [] type = TYPE_SRV -> decode_srv(msg, rdata, start)
         [] type = TYPE_TXT -> IF strings.ok THEN Value(<<decode_txt(strings.parts)>>) ELSE strings
         [] type = TYPE_SOA -> decode_soa(msg, start, end)
         [] type = TYPE_CAA -> decode_caa(rdata)
         [] type \in TYPE_DNSKEY \cup TYPE_DS -> decode_key(rdata)
         [] type = TYPE_RRSIG -> decode_rrsig(msg, rdata, start, end)
         [] type = TYPE_NSEC -> decode_nsec(msg, start, end)
         [] type = TYPE_NSEC3 -> atLeast(5, decode_nsec3(rdata))
         [] type = TYPE_NSEC3PARAM -> decode_nsec3param(rdata)
         [] type \in TYPE_TLSA /\ len > 3 -> tlsa_presentation(rdata)
         [] type \in TYPE_SVCB /\ svcb_presentation(rdata) -> Value(svcb_fields(rdata))
         [] OTHER -> [ok |-> TRUE, value |-> Generic(rdata)]

-----------------------------------------------------------------------------
(* get_wire_body: the value back to octets *)

\* The octets whose character /\s/ matches.
Space == Blank \cup {11, 12, 160}

\* text cut at /\s+/.
Words(text) ==
    LET solid(i) == i \in DOMAIN text /\ text[i] \notin Space
        starts == SetToSortSeq({i \in DOMAIN text : solid(i) /\ ~solid(i - 1)}, <)
    IN [k \in DOMAIN starts |->
            SubSeq(text, starts[k], Min({i \in starts[k] .. Len(text) : ~solid(i + 1)}))]

\* A name in a value is its first word.  Each encoder does its own with the
\* words behind it, read as the fields that follow; that one of those spells a
\* number, a type or a parameter is not told apart.
Word(text) == IF Words(text) = <<>> THEN <<>> ELSE Words(text)[1]

Wrote(wire) == [ok |-> TRUE, wire |-> wire]

\* before, the name, after; the encoder may refuse the name.
WithName(before, encoded, after) ==
    IF encoded.ok THEN Wrote(before \o encoded.wire \o after) ELSE encoded

encode_type_bitmap(types) ==
    LET windows == SetToSortSeq({t \div 256 : t \in types}, <)
        cells(w) == {t % 256 : t \in {u \in types : u \div 256 = w}}
        bitmap(w) == [i \in 1 .. Max(cells(w)) \div 8 + 1 |->
                        SumSet({2 ^ (7 - (c % 8)) : c \in {d \in cells(w) : d \div 8 = i - 1}})]
    IN FlattenSeq([i \in DOMAIN windows |->
            <<windows[i], Len(bitmap(windows[i]))>> \o bitmap(windows[i])])

soa_body(f) ==
    LET mname == domain_name2wire(f[1])
        rname == domain_name2wire(Word(f[2]))
    IN IF f[1] # Word(f[1]) \/ Len(Words(f[2])) > 1 THEN Failed("presentation")
       ELSE IF ~mname.ok THEN mname
       ELSE WithName(mname.wire, rname, FlattenSeq([i \in 1 .. 5 |-> Uint32(f[3][i])]))

\* Each string behind its length; one read off a message fits in an octet.
txt_body(strings) ==
    IF ~strings.ok THEN strings
    ELSE Wrote(FlattenSeq([i \in DOMAIN strings.parts |-> <<Len(strings.parts[i])>> \o strings.parts[i]]))

\* The encoders of ResourceRecord.
builtin_body(type, f) ==
    CASE type = TYPE_A -> Wrote(f[1])
      [] type = TYPE_AAAA -> Wrote(parse_ipv6(f[1]))
      [] type \in SingleName -> WithName(<<>>, domain_name2wire(Word(f[1])), <<>>)
      [] type = TYPE_MX -> WithName(Uint16(f[1]), domain_name2wire(Word(f[2])), <<>>)
      [] type = TYPE_SRV -> WithName(Uint16(f[1]) \o Uint16(f[2]) \o Uint16(f[3]), domain_name2wire(Word(f[4])), <<>>)
      [] type = TYPE_TXT -> txt_body(parse_txt_value(f[1]))
      [] type = TYPE_SOA -> soa_body(f)
      [] type = TYPE_CAA -> LET strings == parse_txt_value(f[3])
                       IN IF Len(Words(f[2])) # 1 \/ ~strings.ok \/ Len(strings.parts) # 1
                          THEN Failed("presentation")
                          ELSE Wrote(<<f[1], Len(Word(f[2]))>> \o Word(f[2]) \o strings.parts[1])

BuiltIn == SingleName \cup {TYPE_A, TYPE_AAAA, TYPE_MX, TYPE_SRV, TYPE_TXT, TYPE_SOA, TYPE_CAA}

\* DNSKey and DNSRR_DS.
key_body(f) == Wrote(Uint16(f[1]) \o <<f[2], f[3]>> \o f[4])

\* Without the signature: what is signed.
get_rdata_digest_target(f) ==
    WithName(Uint16(f[1]) \o <<f[2], f[3]>> \o Uint32(f[4]) \o Uint32(f[5]) \o Uint32(f[6]) \o Uint16(f[7]),
             domain_name2wire(Word(f[8])), <<>>)

\* Words behind the signer's name would be read into the signature: no octets
\* anyone signed.
rrsig_body(f) ==
    LET target == get_rdata_digest_target(f)
    IN IF Len(Words(f[8])) > 1 THEN Failed("presentation")
       ELSE IF target.ok THEN Wrote(target.wire \o f[9]) ELSE target

\* The next name keeps its case; a value of one word is refused, words that
\* are no types are skipped.
nsec_body(f) ==
    IF f[2] = <<>> /\ Len(Words(f[1])) = 1 THEN Failed("presentation")
    ELSE WithName(<<>>, domain_name2wire_preserve_case(Word(f[1])), encode_type_bitmap(ToSet(f[2])))

\* A hash of no octets leaves no field in the value: a type would be read as
\* the hash, or the value is refused; neither is told apart here.
nsec3_body(f) ==
    IF f[5] = <<>> THEN Failed("presentation")
    ELSE Wrote(<<f[1], f[2]>> \o Uint16(f[3]) \o <<Len(f[4])>> \o f[4]
               \o <<Len(f[5])>> \o f[5] \o encode_type_bitmap(ToSet(f[6])))

nsec3param_body(f) == Wrote(<<f[1], f[2]>> \o Uint16(f[3]) \o <<Len(f[4])>> \o f[4])

tlsa_body(f) == Wrote(f[1] \o f[2])

\* A word behind the target is read as a parameter, of a key that is unknown.
svcb_body(f) ==
    LET params == SortSeq(f[3], LAMBDA p, q : p.key < q.key)
        octets(p) == Uint16(p.key) \o Uint16(Len(SvcParamOctets(p))) \o SvcParamOctets(p)
    IN IF Len(Words(f[2])) > 1 THEN Failed("presentation")
       ELSE WithName(Uint16(f[1]), domain_name2wire_preserve_case(Word(f[2])),
                     FlattenSeq([i \in DOMAIN params |-> octets(params[i])]))

\* The handlers the bundles register.
handler_body(type, f) ==
    CASE type \in TYPE_DNSKEY \cup TYPE_DS -> key_body(f)
      [] type = TYPE_RRSIG -> rrsig_body(f)
      [] type = TYPE_NSEC -> nsec_body(f)
      [] type = TYPE_NSEC3 -> nsec3_body(f)
      [] type = TYPE_NSEC3PARAM -> nsec3param_body(f)
      [] type \in TYPE_TLSA -> tlsa_body(f)
      [] type \in TYPE_SVCB -> svcb_body(f)

\* Mutant: what was received is preferred to what is encoded.
get_wire_body_Received(rr, handled) ==
    IF rr.value.generic THEN Wrote(rr.value.rdata)
    ELSE IF rr.received.ok THEN rr.received
    ELSE builtin_body(rr.type, rr.value.fields)

\* Generic octets verbatim; then a handler, for the types handled has one for;
\* then the record's own encoders; then the octets received; or nothing.
get_wire_body(rr, handled) ==
    IF rr.value.generic THEN Wrote(rr.value.rdata)
    ELSE IF rr.type \in handled THEN handler_body(rr.type, rr.value.fields)
    ELSE IF rr.type \in BuiltIn THEN builtin_body(rr.type, rr.value.fields)
    ELSE IF rr.received.ok THEN rr.received
    ELSE Wrote(<<>>)
=============================================================================
