----------------------------- MODULE LenientReader -----------------------------
(***************************************************************************)
(* read_string: one physical line after the other, comments cut at the     *)
(* first semicolon, a parenthesis joining lines, four patterns tried on    *)
(* what comes out, and whatever matches none of them dropped without a     *)
(* word.  The text and its characters are those of StrictReader.           *)
(***************************************************************************)
EXTENDS StrictReader

VARIABLES
    seen,         \* physical lines this reader has read
    continuation, \* what an open parenthesis has collected, or nothing
    prev_label,   \* the owner as it was written last
    origin, default_ttl,
    records,      \* the records added
    reading       \* "reading", "done", "threw"

lenientVars == <<seen, continuation, prev_label, origin, default_ttl, records, reading>>

\* Up to the first semicolon and the blanks before it.
Uncommented(line) ==
    LET semi == SelectInSeq(line, LAMBDA c : c = ";")
        body == SubSeq(line, 1, semi - 1)
    IN IF semi = 0 THEN line
       ELSE IF Nonblank(body) = {} THEN <<>> ELSE SubSeq(body, 1, Max(Nonblank(body)))

Ltrimmed(s) == IF Nonblank(s) = {} THEN <<>> ELSE SubSeq(s, Min(Nonblank(s)), Len(s))

LastOf(line, c) == SelectLastInSeq(line, LAMBDA x : x = c)

\* What is before and behind the last such parenthesis, a space between them.
Joined(line, p) ==
    LET before == Trimmed(SubSeq(line, 1, p - 1))
        behind == Trimmed(SubSeq(line, p + 1, Len(line)))
    IN before \o (IF behind = <<>> THEN <<>> ELSE <<" ">> \o behind)

\* Mutant: the origin is added to absolute names as well.
_qualify_Always(name) == IF name = <<"@">> THEN origin ELSE name \o <<".">> \o origin

_qualify(name) ==
    IF name = <<"@">> THEN origin
    ELSE IF name[Len(name)] \in Absolute THEN name
    ELSE name \o <<".">> \o origin

\* The patterns, in their order: which fields are TTL, class and type.  A
\* value must be set off from the type by a blank.
Pattern(line, fields, spans) ==
    LET n == Len(fields)
        set(k) == n >= k /\ spans[k][2] <= Len(line)
        row(ttl, class, k) == [ttl |-> ttl, class |-> class, type |-> fields[k], value |-> k]
    IN IF set(4) /\ Is(fields[2], Numbers) /\ fields[3] = <<"IN">> THEN row(fields[2][1], "IN", 4)
       ELSE IF set(3) /\ Is(fields[2], Numbers) THEN row(fields[2][1], "IN", 3)
       ELSE IF default_ttl = "0" \/ ~set(2) THEN [value |-> 0]
       ELSE IF set(3) /\ fields[2] = <<"IN">> THEN row(default_ttl, "IN", 3)
       ELSE IF Is(fields[2], Types) THEN row(default_ttl, "IN", 2)
       ELSE [value |-> 0]

\* A whole line, once nothing is open.
Take(whole) ==
    LET line == IF whole[1] \in Blank THEN prev_label \o whole ELSE whole
        spans == field_spans(line)
        fields == [k \in DOMAIN spans |-> Field(line, spans[k])]
        row == Pattern(line, fields, spans)
        label == IF origin = <<>> THEN fields[1] ELSE _qualify(fields[1])
        value == Ltrimmed(SubSeq(line, spans[row.value][2], Len(line)))
    IN IF whole[1] = "$ORIGIN" /\ Len(field_spans(whole)) >= 2
       THEN origin' = fields[2] /\ UNCHANGED <<prev_label, default_ttl, records, reading>>
       ELSE IF whole[1] = "$TTL" /\ Len(fields) >= 2 /\ Is(fields[2], Numbers)
       THEN default_ttl' = fields[2][1] /\ UNCHANGED <<prev_label, origin, records, reading>>
       ELSE IF line[1] \in Blank \/ row.value = 0
       THEN UNCHANGED <<prev_label, origin, default_ttl, records, reading>>
       ELSE IF ~Is(row.type, Types)
       THEN reading' = "threw" /\ UNCHANGED <<prev_label, origin, default_ttl, records>>
       ELSE /\ records' = Append(records, [label |-> label, ttl |-> row.ttl, class |-> row.class,
                                           type |-> row.type[1], value |-> value])
            /\ prev_label' = fields[1]
            /\ UNCHANGED <<origin, default_ttl, reading>>

Keep == UNCHANGED <<prev_label, origin, default_ttl, records, reading>>

Read ==
    /\ reading = "reading" /\ seen < Len(text)
    /\ seen' = seen + 1
    /\ LET line == Uncommented(text[seen + 1])
           open == LastOf(line, "(")
           close == LastOf(line, ")")
       IN IF Nonblank(line) = {} THEN UNCHANGED continuation /\ Keep
          ELSE IF continuation # <<>> /\ close = 0
          THEN continuation' = continuation \o <<" ">> \o Trimmed(line) /\ Keep
          ELSE IF continuation # <<>>
          THEN continuation' = <<>> /\ Take(continuation \o <<" ">> \o Joined(line, close))
          ELSE IF open # 0 THEN continuation' = Joined(line, open) /\ Keep
          ELSE Take(line) /\ UNCHANGED continuation

\* A line still open at the end is dropped.
End ==
    /\ reading = "reading" /\ seen = Len(text)
    /\ reading' = "done"
    /\ UNCHANGED <<seen, continuation, prev_label, origin, default_ttl, records>>

LenientInit ==
    /\ seen = 0 /\ continuation = <<>> /\ prev_label = <<>> /\ origin = <<>> /\ default_ttl = "0"
    /\ records = Before /\ reading = "reading"

\* The two readers share nothing but the text; the strict one goes first.
BothInit == Init /\ LenientInit

BothNext ==
    \/ Next /\ UNCHANGED lenientVars
    \/ status # "reading" /\ (Read \/ End) /\ UNCHANGED vars

BothSpec == BothInit /\ [][BothNext]_<<vars, lenientVars>>

-----------------------------------------------------------------------------
(* Properties *)

\* What the strict reader has joined so far is numbered within the text, its
\* parentheses are balanced or open, and its records are those parsed; the
\* lenient reader never loses a record it has added.
TypeOK ==
    /\ at \in 0 .. Len(text) /\ depth \in Nat /\ next \in 1 .. Len(lines) + 1
    /\ \A i \in DOMAIN lines : lines[i].num \in 1 .. at /\ (i > 1 => lines[i - 1].num < lines[i].num)
    /\ status \in {"reading", "done", "rejected"} /\ reading \in {"reading", "done", "threw"}
    /\ Len(out) < next /\ seen \in 0 .. Len(text) /\ Len(records) <= Len(Before) + seen

\* However a zone is laid out in lines - owners inherited, values inside
\* parentheses and over several lines, comments, blank lines, semicolons and
\* parentheses inside quotes - the strict reader finds the same records in it,
\* or refuses it and leaves the zone as it was.
TextMeans ==
    /\ status = "done" => meant.fault = 0 /\ zone = Before \o meant.records
    /\ status # "done" => zone = Before

\* A rejection names the line where the first faulty record begins.
FaultsLocated == status = "rejected" /\ meant.kind = "zone" => error.line = meant.fault

\* A text is refused for its parentheses exactly if they do not match, whatever is
\* wrong elsewhere: one too many is reported at the line where it stands, one open
\* behind the last line at the line where its record begins.
UnmatchedRefused ==
    /\ status = "done" => Matched(text)
    /\ status = "rejected" =>
        IF error.why \in {"unbalanced", "unclosed"}
        THEN ~Matched(text) /\ \A n \in DOMAIN text, why \in {"unbalanced", "unclosed"} :
                UnmatchedAt(text, n, why) => error = [line |-> n, why |-> why]
        ELSE Matched(text)

\* Where none of the differences between the readers is touched, the lenient
\* one finds what the strict one does.
ReadersAgree ==
    status = "done" /\ reading # "reading" /\ meant.plain =>
        /\ reading = "done"
        /\ zone = [i \in DOMAIN records |-> [records[i] EXCEPT !.value = collapse_blanks(@)]]
=============================================================================
