------------------------------ MODULE WireNames ------------------------------
(***************************************************************************)
(* Domain names on the wire: the encoder, the walk along labels and        *)
(* compression pointers, and the decoder of uncompressed names.  Octets    *)
(* are numbers, a name in text form is the sequence of its characters'     *)
(* octets with 46 for ".".  Nothing is escaped in that form.               *)
(***************************************************************************)
EXTENDS Integers, SequencesExt

CONSTANTS
    MaxLabel,  \* MAX_LABEL_LENGTH, 63 in the code
    MaxName,   \* MAX_NAME_LENGTH, 255
    MaxHops    \* MAX_POINTER_HOPS, 32

ASSUME LimitAssumption == MaxLabel \in 1 .. 63 /\ MaxName \in Nat /\ MaxHops \in Nat

Octet == 0 .. 255

\* A uint16.
Uint16s == {v \in Nat : v < 65536}

Dot == 46

Failed(error) == [ok |-> FALSE, error |-> error]

Uint16(v) == <<(v \div 256) % 256, v % 256>>

\* A uint32 as its two halves: TLC's integers end below 2^31.
Uint32(v) == Uint16(v[1]) \o Uint16(v[2])

\* Octet i of a buffer, counted from 0; getUint16 and getUint32 of a DataView.
OctetAt(b, i) == b[i + 1]

Uint16At(b, i) == OctetAt(b, i) * 256 + OctetAt(b, i + 1)

Uint32At(b, i) == <<Uint16At(b, i), Uint16At(b, i + 2)>>

\* b.subarray(i, j), which clamps what lies past the end.
Subarray(b, i, j) == SubSeq(b, i + 1, IF j > Len(b) THEN Len(b) ELSE j)

-----------------------------------------------------------------------------
(* Text to octets *)

\* A-Z and nothing else.
ascii_to_lower == [c \in Octet |-> IF c \in 65 .. 90 THEN c + 32 ELSE c]

\* The pieces of a text between its dots: a dot begins another, any other octet
\* is added to the last.
Pieces(text) ==
    LET pieces[i \in 0 .. Len(text)] ==
            IF i = 0 THEN << <<>> >>
            ELSE IF text[i] = Dot THEN Append(pieces[i - 1], <<>>)
            ELSE Append(Front(pieces[i - 1]), Append(Last(pieces[i - 1]), text[i]))
    IN pieces[Len(text)]

\* An empty piece is skipped in front, ends the name at the end, and is an
\* error in between; a name without a dot at its end gets no root label.
encode_domain_name(text, fold) ==
    LET pieces == Pieces(text)
        ended == text # <<>> /\ text[Len(text)] = Dot
        labels == SubSeq(pieces, IF pieces[1] = <<>> THEN 2 ELSE 1,
                         IF ended THEN Len(pieces) - 1 ELSE Len(pieces))
        wire == FlattenSeq([i \in DOMAIN labels |->
                    <<Len(labels[i])>> \o [k \in DOMAIN labels[i] |-> fold[labels[i][k]]]])
                \o (IF ended THEN <<0>> ELSE <<>>)
    IN IF \E i \in DOMAIN pieces : Len(pieces[i]) > MaxLabel THEN Failed("label too long")
       ELSE IF \E i \in 2 .. Len(pieces) - 1 : pieces[i] = <<>> THEN Failed("empty label")
       ELSE IF Len(wire) > MaxName THEN Failed("name too long")
       ELSE [ok |-> TRUE, wire |-> wire]

domain_name2wire(text) == encode_domain_name(text, ascii_to_lower)

Same == [c \in Octet |-> c]

domain_name2wire_preserve_case(text) == encode_domain_name(text, Same)

ensure_fqdn(text) ==
    IF text = <<>> THEN <<Dot>> ELSE IF text[Len(text)] = Dot THEN text ELSE Append(text, Dot)

-----------------------------------------------------------------------------
(* Octets to text *)

assemble_name(labels) ==
    IF labels = <<>> THEN <<Dot>>
    ELSE FlattenSeq([i \in DOMAIN labels |-> Append(labels[i], Dot)])

\* A pointer is followed; the first one ends the name as it appears.
Jumped(w, pos, ptr) ==
    [w EXCEPT !.pos = ptr, !.next = IF @ < 0 THEN pos + 2 ELSE @,
              !.visited = @ \cup {ptr}, !.hops = @ + 1]

\* Mutant: one pointer more than the limit is followed.
Looping_OneMore(w, ptr) == ptr \in w.visited \/ w.hops > MaxHops

Looping(w, ptr) == ptr \in w.visited \/ w.hops >= MaxHops

\* One turn of the loop of parse_domain_name.
Turn(msg, w) ==
    LET pos == w.pos
        b == OctetAt(msg, pos)
        ptr == (b - 192) * 256 + OctetAt(msg, pos + 1)
        fail(error) == [w EXCEPT !.status = "failed", !.error = error]
    IN IF pos >= Len(msg) THEN fail("truncated")
       ELSE IF b = 0 THEN [w EXCEPT !.status = "done", !.next = IF @ < 0 THEN pos + 1 ELSE @]
       ELSE IF b >= 192
            THEN IF pos + 1 >= Len(msg) THEN fail("truncated")
                 ELSE IF ptr >= pos THEN fail("forward")
                 ELSE IF Looping(w, ptr) THEN fail("loop")
                 ELSE Jumped(w, pos, ptr)
       ELSE IF b >= 64 THEN fail("reserved")
       ELSE IF pos + 1 + b > Len(msg) THEN fail("truncated")
       ELSE [w EXCEPT !.pos = pos + 1 + b, !.labels = Append(@, Subarray(msg, pos + 1, pos + 1 + b))]

Walk == [pos : Nat, next : Int, labels : Seq(Seq(Octet)), visited : SUBSET Nat, hops : Nat,
         status : {"walking", "done", "failed"},
         error : {"", "truncated", "forward", "loop", "reserved"}]

\* The name at offset and the offset behind it as it appears there.
parse_domain_name(msg, offset) ==
    LET start == [pos |-> offset, next |-> -1, labels |-> <<>>, visited |-> {}, hops |-> 0,
                  status |-> "walking", error |-> ""]
        walk[w \in Walk] == IF w.status = "walking" THEN walk[Turn(msg, w)] ELSE w
        end == walk[start]
    IN IF offset >= Len(msg) THEN Failed("truncated")
       ELSE IF end.status = "done"
            THEN [ok |-> TRUE, name |-> assemble_name(end.labels), next |-> end.next]
       ELSE Failed(end.error)

\* Labels only; the root label is a dot, whatever follows it.
wire2domain_name(wire) ==
    LET read[i \in 0 .. Len(wire)] ==
            LET s == OctetAt(wire, i)
                rest == read[i + 1 + s]
            IN IF i = Len(wire) THEN [ok |-> TRUE, text |-> <<>>]
               ELSE IF s >= 64 \/ i + 1 + s > Len(wire) THEN Failed("invalid")
               ELSE IF ~rest.ok THEN rest
               ELSE [rest EXCEPT !.text =
                        IF s = 0 THEN <<Dot>> \o @
                        ELSE (IF i = 0 THEN <<>> ELSE <<Dot>>) \o Subarray(wire, i + 1, i + 1 + s) \o @]
    IN read[0]

-----------------------------------------------------------------------------
(* What the octets mean (RFC 1035, 4.1.4): a label, then the name behind   *)
(* it, or a pointer, then the name it points at; a name that has not ended *)
(* after as many steps as there are octets never ends, and means none.     *)

LabelAt(msg, o) == OctetAt(msg, o) \in 1 .. 63

PointerAt(msg, o) == OctetAt(msg, o) >= 192 /\ o + 1 < Len(msg)

Behind(msg, o) == o + 1 + OctetAt(msg, o)

PointedAt(msg, o) == (OctetAt(msg, o) - 192) * 256 + OctetAt(msg, o + 1)

Unknown == [known |-> FALSE, labels |-> <<>>, end |-> 0, jumps |-> 0, back |-> TRUE]

\* What is at o, when the offsets it leads to mean what earlier says.
MeansAt(msg, earlier, o) ==
    IF OctetAt(msg, o) = 0 THEN [Unknown EXCEPT !.known = TRUE, !.end = o + 1]
    ELSE IF LabelAt(msg, o) /\ Behind(msg, o) < Len(msg)
    THEN [earlier[Behind(msg, o)] EXCEPT !.labels = <<Subarray(msg, o + 1, Behind(msg, o))>> \o @]
    ELSE IF PointerAt(msg, o) /\ PointedAt(msg, o) < Len(msg)
    THEN [earlier[PointedAt(msg, o)] EXCEPT
            !.end = o + 2, !.jumps = @ + 1, !.back = @ /\ PointedAt(msg, o) < o]
    ELSE Unknown

Meaning(msg) ==
    LET mean[k \in 0 .. Len(msg)] ==
            [o \in 0 .. Len(msg) - 1 |-> IF k = 0 THEN Unknown ELSE MeansAt(msg, mean[k - 1], o)]
    IN mean[Len(msg)]

\* The walk from any offset reads the name the octets mean, and refuses those
\* that mean none, that point forward or that take too many pointers; and what
\* it read, written out and read back as a whole name, is the same text, unless
\* that begins with a dot.
ReadsMeaning(msg) ==
    LET meaning == Meaning(msg)
    IN \A o \in 0 .. Len(msg) - 1 :
        LET parsed == parse_domain_name(msg, o)
        IN /\ parsed.ok <=> (meaning[o].known /\ meaning[o].back /\ meaning[o].jumps <= MaxHops)
           /\ parsed.ok => /\ parsed.name = assemble_name(meaning[o].labels)
                           /\ parsed.next = meaning[o].end
                           /\ LET wire == domain_name2wire_preserve_case(parsed.name)
                              IN wire.ok /\ (parsed.name[1] = Dot => parsed.name = <<Dot>>)
                                 => wire2domain_name(wire.wire).text = parsed.name
=============================================================================
