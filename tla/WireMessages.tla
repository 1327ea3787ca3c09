----------------------------- MODULE WireMessages -----------------------------
(***************************************************************************)
(* A datagram from its octets to the records a client hands on: header,    *)
(* question, the three sections record by record, then the RDATA of answer *)
(* and authority.  Whoever sent the datagram is outside; what it meant is  *)
(* kept beside the octets.                                                 *)
(***************************************************************************)
EXTENDS RecordData

CONSTANTS
    Arrivals,  \* what may arrive: octets and what the sender meant by them
    Handled    \* the types the registry has handlers for

VARIABLES
    msg,      \* the octets
    sent,     \* history: the sender's side of them
    phase,    \* "header", "question", "records", "decode", "response", "rejected"
    pos,      \* the cursor
    section,  \* 1 answer, 2 authority, 3 additional
    left,     \* records of the section still to read
    rrs,      \* RawRR, with the section each was read in
    response  \* what to_response returns

vars == <<msg, sent, phase, pos, section, left, rrs, response>>

None == [records |-> <<>>, ad |-> FALSE, rcode |-> -1]

-----------------------------------------------------------------------------
(* Building a query *)

FLAG_RD == 256

FLAG_CD == 16

CLASS_IN == 1

\* The EDNS record: root, type 41, payload size, the DO bit in the TTL, no RDATA.
OPT == <<0>> \o Uint16(41) \o Uint16(4096) \o <<0, 0, 128, 0>> \o Uint16(0)

build_query_with_options(id, qname, qtype, checking_disabled) ==
    LET name == domain_name2wire(ensure_fqdn(qname))
        flags == IF checking_disabled THEN FLAG_RD + FLAG_CD ELSE FLAG_RD
    IN IF ~name.ok THEN name
       ELSE Wrote(FlattenSeq([i \in 1 .. 6 |-> Uint16(<<id, flags, 1, 0, 0, 1>>[i])])
                  \o name.wire \o Uint16(qtype) \o Uint16(CLASS_IN) \o OPT)

-----------------------------------------------------------------------------
(* parse_message *)

Count(b, s) == Uint16At(b, 4 + 2 * s)

FlagBit(bit) == (Uint16At(msg, 2) \div bit) % 2 = 1

Reject ==
    /\ phase' = "rejected"
    /\ UNCHANGED <<pos, section, left, rrs, response>>

Header ==
    /\ phase = "header"
    /\ IF Len(msg) < 12 \/ Uint16At(msg, 4) # 1 THEN Reject
       ELSE /\ phase' = "question" /\ pos' = 12
            /\ UNCHANGED <<section, left, rrs, response>>
    /\ UNCHANGED <<msg, sent>>

Question ==
    /\ phase = "question"
    /\ LET qname == parse_domain_name(msg, pos)
       IN IF ~qname.ok \/ qname.next + 4 > Len(msg) THEN Reject
          ELSE /\ phase' = "records" /\ pos' = qname.next + 4
               /\ section' = 1 /\ left' = Count(msg, 1)
               /\ UNCHANGED <<rrs, response>>
    /\ UNCHANGED <<msg, sent>>

\* Mutant: RDATA that runs past the message is what there is of it.
End_Clamped(b, start, len) == IF start + len > Len(b) THEN Len(b) ELSE start + len

End(b, start, len) == start + len

\* Mutant: the length of the RDATA is believed.
Fits_Always(b, end) == TRUE

Fits(b, end) == end <= Len(b)

parse_rr(b, at) ==
    LET owner == parse_domain_name(b, at)
        fixed == owner.next
        start == fixed + 10
        end == End(b, start, Uint16At(b, fixed + 8))
    IN IF ~owner.ok \/ start > Len(b) THEN Failed("fixed fields")
       ELSE IF ~Fits(b, end) THEN Failed("rdata")
       ELSE [ok |-> TRUE, next |-> end,
             rr |-> [name |-> owner.name, type |-> Uint16At(b, fixed),
                     class |-> Uint16At(b, fixed + 2), ttl |-> Uint32At(b, fixed + 4),
                     start |-> start, len |-> end - start]]

Record ==
    /\ phase = "records" /\ left > 0
    /\ LET parsed == parse_rr(msg, pos)
       IN IF ~parsed.ok THEN Reject
          ELSE /\ pos' = parsed.next /\ left' = left - 1
               /\ rrs' = Append(rrs, [section |-> section, raw |-> parsed.rr])
               /\ UNCHANGED <<phase, section, response>>
    /\ UNCHANGED <<msg, sent>>

\* Octets behind the last section are not looked at.
NextSection ==
    /\ phase = "records" /\ left = 0
    /\ IF section < 3
       THEN section' = section + 1 /\ left' = Count(msg, section + 1) /\ UNCHANGED phase
       ELSE phase' = "decode" /\ UNCHANGED <<section, left>>
    /\ UNCHANGED <<msg, sent, pos, rrs, response>>

-----------------------------------------------------------------------------
(* What arrives *)

\* ends lists where in b the question and then each record ends, and the last
\* of them ends where b does.
Complete(b, ends) ==
    LET qname == parse_domain_name(b, 12)
    IN /\ Len(ends) = 1 + Count(b, 1) + Count(b, 2) + Count(b, 3)
       /\ qname.ok /\ ends[1] = qname.next + 4
       /\ \A k \in 1 .. Len(ends) - 1 :
            LET parsed == parse_rr(b, ends[k])
            IN parsed.ok /\ ends[k + 1] = parsed.next
       /\ Last(ends) = Len(b)

\* A cut message is a complete one without some of its last octets.
CutShort(octets, whole, ends) ==
    /\ whole \in Seq(Octet) /\ ends \in Seq(Nat) /\ Complete(whole, ends)
    /\ Len(octets) < Len(whole) /\ octets = SubSeq(whole, 1, Len(octets))

ASSUME ArrivalAssumption ==
    \A arrival \in Arrivals :
        /\ arrival.msg \in Seq(Octet)
        /\ arrival.sent.kind = "cut" => CutShort(arrival.msg, arrival.sent.whole, arrival.sent.ends)

-----------------------------------------------------------------------------
(* to_response *)

to_record(rr) ==
    LET decoded == rdata_to_string(msg, rr.type, rr.start, rr.len)
    IN IF ~decoded.ok THEN decoded
       ELSE [ok |-> TRUE, name |-> rr.name, ttl |-> rr.ttl, class |-> rr.class, type |-> rr.type,
             value |-> decoded.value,
             received |-> Wrote(Subarray(msg, rr.start, rr.start + rr.len))]

\* Mutant: the records of the additional section are handed on too.
Kept_All == rrs

Kept == SelectSeq(rrs, LAMBDA r : r.section # 3)

\* One record that does not decode fails the whole response.
ToResponse ==
    /\ phase = "decode"
    /\ \E records \in {[i \in DOMAIN Kept |-> to_record(Kept[i].raw)]} :
          IF \E i \in DOMAIN records : ~records[i].ok THEN Reject
          ELSE /\ phase' = "response"
               /\ response' = [records |-> records, ad |-> FlagBit(32), rcode |-> Uint16At(msg, 2) % 16]
               /\ UNCHANGED <<pos, section, left, rrs>>
    /\ UNCHANGED <<msg, sent>>

Init ==
    /\ \E arrival \in Arrivals : msg = arrival.msg /\ sent = arrival.sent
    /\ phase = "header" /\ pos = 0 /\ section = 0 /\ left = 0 /\ rrs = <<>> /\ response = None

Next == Header \/ Question \/ Record \/ NextSection \/ ToResponse

Spec == Init /\ [][Next]_vars

-----------------------------------------------------------------------------
(* Properties *)

\* The cursor stays in the message and every record lies in it; a section is
\* read at most as often as the header says.
TypeOK ==
    /\ phase \in {"header", "question", "records", "decode", "response", "rejected"}
    /\ pos \in 0 .. Len(msg) /\ section \in 0 .. 3 /\ left \in Uint16s
    /\ \A i \in DOMAIN rrs : rrs[i].raw.start + rrs[i].raw.len <= Len(msg)
    /\ section > 0 =>
        Cardinality({i \in DOMAIN rrs : rrs[i].section = section}) + left = Count(msg, section)

\* From any offset of arbitrary octets the walk along labels and pointers ends, and
\* reads the name they mean.
NamesMean == phase = "header" /\ sent.kind = "noise" => ReadsMeaning(msg)

\* A datagram that lost its end is refused, wherever it was cut.
CutsRefused == sent.kind = "cut" => phase # "response"

\* What was sent is what is understood: the records of answer and authority in
\* order under their own names, TTLs and types, the AD bit and the RCODE; and
\* what the additional section holds never matters.
Understood ==
    sent.kind = "message" =>
        /\ phase # "rejected"
        /\ phase = "response" =>
            /\ Len(response.records) = Len(sent.records)
            /\ \A i \in DOMAIN sent.records :
                LET got == response.records[i]
                    meant == sent.records[i]
                IN got.name = meant.name /\ got.type = meant.type /\ got.ttl = meant.ttl
            /\ response.ad = sent.ad /\ response.rcode = sent.rcode

\* A record read off a message encodes to the octets its signer hashed: names
\* decompressed and, in the types of RFC 4034 6.2, in lower case.  It is a
\* statement about the 24 types sent, and about names whose text can be read
\* back: RP is left out (kept as received), and so are labels that hold a dot
\* or one of the octets in Space, which the code does not escape.
EncodesAsSigned ==
    phase = "response" /\ sent.kind = "message" =>
        \A i \in DOMAIN sent.records :
            LET body == get_wire_body(response.records[i], Handled)
            IN body.ok /\ body.wire = sent.records[i].canonical
=============================================================================
