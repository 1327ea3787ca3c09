----------------------------- MODULE StrictReader -----------------------------
(***************************************************************************)
(* read_string_strict: physical lines are stripped of comments and joined  *)
(* inside parentheses, then every logical line is parsed as a directive or *)
(* a record, and the zone gets the records when all of them parsed.        *)
(*                                                                         *)
(* A line is a sequence of characters.  A word that nobody looks into -    *)
(* a number, a mnemonic, a name - is one character here; blanks, quotes,   *)
(* backslashes, parentheses and semicolons are characters of their own.    *)
(***************************************************************************)
EXTENDS Integers, SequencesExt, FiniteSetsExt

CONSTANTS
    Texts,     \* what may be read: its lines and what was meant by them
    Before,    \* the records the zone holds before
    Numbers,   \* words that are a uint32
    Classes,   \* words that are a class, "IN" among them
    Types,     \* words that are a type
    Encodable, \* types with an encoder
    Absolute,  \* words that end in a dot
    Unnamed,   \* words with an empty label inside
    Malformed  \* words no encoder takes for RDATA

VARIABLES
    text,    \* the physical lines
    meant,   \* history: what they were written for
    at,      \* physical lines read
    depth,   \* open parentheses
    cur,     \* the logical line being joined, or NoLine
    lines,   \* logical lines
    next,    \* the logical line parsed next
    state,   \* StrictState: origin, default TTL, previous owner
    out,     \* records built
    status,  \* "reading", "done", "rejected"
    error,   \* the line and the reason of a rejection
    zone     \* the records of the zone

vars == <<text, meant, at, depth, cur, lines, next, state, out, status, error, zone>>

Blank == {" ", "TAB"}

NoLine == [num |-> 0, text |-> <<>>, inherits |-> FALSE]

Failed(why) == [ok |-> FALSE, why |-> why]

-----------------------------------------------------------------------------
(* What a text is: where its parentheses count and whether they match.     *)

\* Behind an odd number of backslashes.
Escaped(line, i) == (i - 1 - Max({0} \cup {k \in 1 .. i - 1 : line[k] # "\\"})) % 2 = 1

\* Behind an odd number of quotes; a line starts outside of them.
InQuotes(line, i) == Cardinality({k \in 1 .. i - 1 : line[k] = "\"" /\ ~Escaped(line, k)}) % 2 = 1

InComment(line, i) == \E k \in 1 .. i : line[k] = ";" /\ ~Escaped(line, k) /\ ~InQuotes(line, k)

Bare(line, i) == ~Escaped(line, i) /\ ~InQuotes(line, i) /\ ~InComment(line, i)

Parens(line, k, c) == Cardinality({i \in 1 .. k : line[i] = c /\ Bare(line, i)})

\* How much deeper than in front of the line.
Level(line, k) == Parens(line, k, "(") - Parens(line, k, ")")

\* The depth behind each line.
Nesting(ls) ==
    LET nest[n \in 0 .. Len(ls)] == IF n = 0 THEN 0 ELSE nest[n - 1] + Level(ls[n], Len(ls[n]))
    IN nest

\* Line n closes a parenthesis that is not open.
Overclosed(ls, n) ==
    LET before == Nesting(ls)[n - 1]
    IN \E k \in DOMAIN ls[n] : before + Level(ls[n], k) < 0

\* The line holds more than blanks, parentheses and a comment.
Worded(line) ==
    \E i \in DOMAIN line : line[i] \notin Blank /\ ~InComment(line, i)
                           /\ (line[i] \in {"(", ")"} => ~Bare(line, i))

\* Nothing is closed that was not open, and what a line with words in it opens or
\* continues is closed behind it.
Matched(ls) ==
    \A n \in DOMAIN ls : /\ ~Overclosed(ls, n)
                         /\ Worded(ls[n]) => \E m \in n .. Len(ls) : Nesting(ls)[m] = 0

\* The first line with a parenthesis too many, or the line with words in it
\* whose parenthesis is still open behind the last.
UnmatchedAt(ls, n, why) ==
    /\ n \in DOMAIN ls
    /\ \/ why = "unbalanced" /\ Overclosed(ls, n) /\ \A m \in 1 .. n - 1 : ~Overclosed(ls, m)
       \/ /\ why = "unclosed"
          /\ Worded(ls[n]) /\ Nesting(ls)[n - 1] = 0 /\ \A m \in n .. Len(ls) : Nesting(ls)[m] > 0
          /\ \A m \in DOMAIN ls : ~Overclosed(ls, m)

Characters(ls) == UNION {{ls[n][i] : i \in DOMAIN ls[n]} : n \in DOMAIN ls}

\* A text is lines of characters.
ASSUME TextAssumption ==
    /\ Before \in Seq(Range(Before))
    /\ \A t \in Texts : t.lines \in Seq(Seq(Characters(t.lines)))

-----------------------------------------------------------------------------
(* Lines *)

\* Mutant: a parenthesis too many is let through.
Unbalanced_Never(d) == FALSE

Unbalanced(d) == d < 0

\* A line none of which has been looked at.
Unread(d) == [body |-> <<>>, depth |-> d, quoted |-> FALSE, escaped |-> FALSE, state |-> "open"]

\* One character more: quotes protect, a backslash protects one character, a
\* parenthesis becomes a blank, and nothing behind a comment counts.
Scanned(s, c) ==
    LET inside == IF c = "(" THEN s.depth + 1 ELSE s.depth - 1
    IN IF s.state # "open" THEN s
       ELSE IF s.escaped THEN [s EXCEPT !.body = Append(@, c), !.escaped = FALSE]
       ELSE IF c = "\\" THEN [s EXCEPT !.body = Append(@, c), !.escaped = TRUE]
       ELSE IF c = "\"" THEN [s EXCEPT !.body = Append(@, c), !.quoted = ~@]
       ELSE IF s.quoted \/ c \notin {";", "(", ")"} THEN [s EXCEPT !.body = Append(@, c)]
       ELSE IF c = ";" THEN [s EXCEPT !.state = "comment"]
       ELSE IF Unbalanced(inside) THEN [s EXCEPT !.state = "unbalanced"]
       ELSE [s EXCEPT !.body = Append(@, " "), !.depth = inside]

\* One physical line without its comment and its parentheses, and the depth
\* behind it.
strip_strict_line(line, d0) ==
    LET scan[i \in 0 .. Len(line)] == IF i = 0 THEN Unread(d0) ELSE Scanned(scan[i - 1], line[i])
    IN scan[Len(line)]

Nonblank(s) == {i \in DOMAIN s : s[i] \notin Blank}

Trimmed(s) == IF Nonblank(s) = {} THEN <<>> ELSE SubSeq(s, Min(Nonblank(s)), Max(Nonblank(s)))

\* Offsets of the blank-separated fields: the first character and the one behind.
field_spans(s) ==
    LET starts(i) == i \in Nonblank(s) /\ (i = 1 \/ s[i - 1] \in Blank)
        end(i) == Min({j \in i .. Len(s) + 1 : j > Len(s) \/ s[j] \in Blank})
        first == SelectSeq([i \in DOMAIN s |-> i], starts)
    IN [k \in DOMAIN first |-> <<first[k], end(first[k])>>]

Field(s, span) == SubSeq(s, span[1], span[2] - 1)

\* Runs of blanks outside quotes are one space; none in front, none at the end.
collapse_blanks(s) ==
    LET rest[i \in 1 .. Len(s) + 1, quoted, pending, started \in BOOLEAN] ==
            LET c == s[i]
                space == IF pending THEN <<" ">> ELSE <<>>
            IN IF i > Len(s) THEN <<>>
               ELSE IF ~quoted /\ c \in Blank THEN rest[i + 1, quoted, started, started]
               ELSE IF c = "\\" /\ i < Len(s)
                    THEN space \o <<c, s[i + 1]>> \o rest[i + 2, quoted, FALSE, TRUE]
               ELSE space \o <<c>> \o rest[i + 1, (c = "\"") # quoted, FALSE, TRUE]
    IN rest[1, FALSE, FALSE, FALSE]

-----------------------------------------------------------------------------
(* Directives and records *)

\* A word of one character has a meaning; a longer field is just a name.
Is(field, words) == Len(field) = 1 /\ field[1] \in words

\* An owner as an absolute name, or nothing.
absolute(token, origin) ==
    IF token = <<"@">> THEN origin
    ELSE IF token[Len(token)] \in Absolute THEN token
    ELSE IF origin = <<>> THEN <<>>
    ELSE IF origin = <<".">> THEN Append(token, ".")
    ELSE token \o <<".">> \o origin

Encodes(name) == \A i \in DOMAIN name : name[i] \notin Unnamed

directive(s, fields) ==
    IF fields[1] = <<"$ORIGIN">>
    THEN IF Len(fields) = 2 /\ fields[2][Len(fields[2])] \in Absolute
         THEN [ok |-> TRUE, state |-> [s EXCEPT !.origin = fields[2]]]
         ELSE Failed("origin")
    ELSE IF fields[1] = <<"$TTL">>
    THEN IF Len(fields) = 2 /\ Is(fields[2], Numbers)
         THEN [ok |-> TRUE, state |-> [s EXCEPT !.default_ttl = fields[2][1]]]
         ELSE Failed("ttl")
    ELSE Failed("directive")

\* [ttl] [class] type rdata, TTL and class in either order; of two TTLs or two
\* classes the last counts.
record(s, owner, line, spans) ==
    LET tok(k) == Field(line, spans[k])
        leads == {k \in 1 .. (IF Len(spans) < 2 THEN Len(spans) ELSE 2) :
                    \A j \in 1 .. k : Is(tok(j), Numbers \cup Classes)}
        last(words) == {k \in leads : Is(tok(k), words) /\ \A j \in leads : j > k => ~Is(tok(j), words)}
        pick(words, default) == IF last(words) = {} THEN default ELSE tok(Max(last(words)))[1]
        i == Cardinality(leads) + 1
        ttl == pick(Numbers, s.default_ttl)
        value == collapse_blanks(SubSeq(line, spans[i][2], Len(line)))
    IN IF i > Len(spans) THEN Failed("missing type")
       ELSE IF ~Is(tok(i), Types) THEN Failed("unknown type")
       ELSE IF ttl = "" THEN Failed("no TTL")
       ELSE IF value = <<>> THEN Failed("missing RDATA")
       ELSE IF tok(i)[1] \notin Encodable \/ \E k \in DOMAIN value : value[k] \in Malformed
       THEN Failed("encoder")
       ELSE [ok |-> TRUE, rr |-> [label |-> owner, ttl |-> ttl, class |-> pick(Classes, "IN"),
                                  type |-> tok(i)[1], value |-> value]]

\* Mutant: the owner written last, before the origin is added.
Owner_Written(s, token, owner) == token

Owner(s, token, owner) == owner

\* One logical line: the state behind it and the record it is, if it is one.
parse(s, ll) ==
    LET spans == field_spans(ll.text)
        fields == [k \in DOMAIN spans |-> Field(ll.text, spans[k])]
        token == fields[1]
        owner == IF ll.inherits THEN s.prev_owner ELSE absolute(token, s.origin)
        parsed == record(s, owner, ll.text, IF ll.inherits THEN spans ELSE Tail(spans))
        told == directive(s, fields)
    IN IF ~ll.inherits /\ ll.text[1] \in {"$ORIGIN", "$TTL", "$INCLUDE"}
       THEN IF told.ok THEN [ok |-> TRUE, state |-> told.state, rrs |-> <<>>] ELSE told
       ELSE IF owner = <<>> \/ ~Encodes(owner) THEN Failed("owner")
       ELSE IF ~parsed.ok THEN parsed
       ELSE [ok |-> TRUE, rrs |-> <<parsed.rr>>,
             state |-> [s EXCEPT !.prev_owner = IF ll.inherits THEN @ ELSE Owner(s, token, owner)]]

-----------------------------------------------------------------------------
(* Reading *)

Reject(num, why) ==
    /\ status' = "rejected" /\ error' = [line |-> num, why |-> why]
    /\ UNCHANGED <<depth, cur, lines, next, state, out, zone>>

\* Mutant: the logical line is numbered where it ends.
Opened_Late(line, num) ==
    IF cur = NoLine THEN [num |-> num, text |-> <<>>, inherits |-> line[1] \in Blank]
    ELSE [cur EXCEPT !.num = num]

\* The logical line this physical line begins or continues.
Opened(line, num) ==
    IF cur = NoLine THEN [num |-> num, text |-> <<>>, inherits |-> line[1] \in Blank] ELSE cur

\* strict_logical_lines, one physical line.
Strip ==
    /\ status = "reading" /\ at < Len(text)
    /\ at' = at + 1
    /\ LET line == text[at + 1]
           stripped == strip_strict_line(line, depth)
           joined == [Opened(line, at + 1) EXCEPT !.text = @ \o <<" ">> \o stripped.body]
       IN IF stripped.state = "unbalanced" THEN Reject(at + 1, "unbalanced")
          ELSE /\ depth' = stripped.depth
               /\ IF cur = NoLine /\ Nonblank(stripped.body) = {} THEN UNCHANGED <<cur, lines>>
                  ELSE IF stripped.depth > 0 THEN cur' = joined /\ UNCHANGED lines
                  ELSE cur' = NoLine /\ lines' = Append(lines, [joined EXCEPT !.text = Trimmed(@)])
               /\ UNCHANGED <<next, state, out, status, error, zone>>
    /\ UNCHANGED <<text, meant>>

\* Mutant: the end of the text closes every parenthesis.
Unclosed_Never == FALSE

Unclosed == cur # NoLine

EndOfText == status = "reading" /\ at = Len(text)

\* A line left open at the end is found before any line is parsed.
Open ==
    /\ EndOfText /\ Unclosed
    /\ Reject(cur.num, "unclosed")
    /\ UNCHANGED <<text, meant, at>>

Parse ==
    /\ EndOfText /\ ~Unclosed /\ next <= Len(lines)
    /\ LET parsed == parse(state, lines[next])
       IN IF ~parsed.ok THEN Reject(lines[next].num, parsed.why)
          ELSE /\ state' = parsed.state /\ out' = out \o parsed.rrs /\ next' = next + 1
               /\ UNCHANGED <<depth, cur, lines, status, error, zone>>
    /\ UNCHANGED <<text, meant, at>>

\* Only now does the zone change.
Add ==
    /\ EndOfText /\ ~Unclosed /\ next > Len(lines)
    /\ status' = "done" /\ zone' = zone \o out
    /\ UNCHANGED <<text, meant, at, depth, cur, lines, next, state, out, error>>

Init ==
    /\ \E t \in Texts : text = t.lines /\ meant = t.meant
    /\ at = 0 /\ depth = 0 /\ cur = NoLine /\ lines = <<>> /\ next = 1
    /\ state = [origin |-> <<>>, default_ttl |-> "", prev_owner |-> <<>>]
    /\ out = <<>> /\ status = "reading" /\ error = [line |-> 0, why |-> ""] /\ zone = Before

Next == Strip \/ Open \/ Parse \/ Add

Spec == Init /\ [][Next]_vars
=============================================================================
