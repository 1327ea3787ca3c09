------------------------------- MODULE MCReader -------------------------------
(***************************************************************************)
(* Small zones, each laid out in lines in several ways: whole, cut inside a *)
(* parenthesis, and with a parenthesis too many.                           *)
(***************************************************************************)
EXTENDS LenientReader

\* A record the zone holds already.
Kept == << [label |-> <<"k.">>, ttl |-> "30", class |-> "IN", type |-> "A", value |-> <<"r">>] >>

\* What is written: directives and records; an owner of "" is the one before.
Origin(name) == [kind |-> "origin", word |-> name]

Ttl(value) == [kind |-> "ttl", word |-> value]

Rr(owner, ttl, class, swapped, type, items) ==
    [kind |-> "rr", owner |-> owner, ttl |-> ttl, class |-> class, swapped |-> swapped,
     type |-> type, items |-> items]

Quoted == <<"\"", ";", "(", " ", " ", "\\", "\"", "x", "\"">>

Word(w) == <<w>>

Directives ==
    {<<>>, <<Origin("e.")>>, <<Ttl("60")>>, <<Ttl("60"), Origin("e.")>>, <<Ttl("0"), Origin("e.")>>,
     <<Ttl("60"), Origin(".")>>, <<Origin("e")>>, <<Ttl("x")>>}

First ==
    {Rr("a.", "30", "", FALSE, "A", <<Word("r")>>), Rr("a", "", "", FALSE, "A", <<Word("r"), Word("s")>>),
     Rr("@", "30", "IN", TRUE, "A", <<Quoted>>), Rr("", "30", "IN", FALSE, "A", <<Word("r")>>)}

Second ==
    {Rr("", "30", "", FALSE, "A", <<Word("s")>>), Rr("", "", "IN", FALSE, "A", <<Word("s"), Quoted>>),
     Rr("b", "30", "CH", FALSE, "A", <<Word("r"), Word("s")>>), Rr("b.", "30", "", FALSE, "NOPE", <<Word("r")>>),
     Rr("b.", "30", "", FALSE, "OPT", <<Word("r")>>), Rr("b.", "30", "", FALSE, "A", <<Word("!")>>),
     Rr("b.", "30", "IN", FALSE, "A", <<>>), Rr("b..", "30", "", FALSE, "A", <<Word("r")>>)}

Zones ==
    {d \o <<f, s>> : d \in Directives, f \in First, s \in Second} \cup
    {<<Ttl("60"), Origin("e.")>> \o <<f, Origin("f."), s>> : f \in First, s \in Second}

-----------------------------------------------------------------------------
(* Meaning *)

Full(owner, env) ==
    IF owner = "" THEN env.prev
    ELSE IF owner = "@" THEN env.origin
    ELSE IF owner \in Absolute THEN <<owner>>
    ELSE IF env.origin = <<>> THEN <<>>
    ELSE IF env.origin = <<".">> THEN <<owner, ".">> ELSE <<owner, ".">> \o env.origin

Valued(items) ==
    FlattenSeq([i \in DOMAIN items |-> (IF i = 1 THEN <<>> ELSE <<" ">>) \o items[i]])

Faulty(e, env) ==
    CASE e.kind = "origin" -> e.word \notin Absolute
      [] e.kind = "ttl" -> e.word \notin Numbers
      [] e.kind = "rr" -> \/ Full(e.owner, env) = <<>> \/ e.owner \in Unnamed
                          \/ e.ttl = "" /\ env.ttl = ""
                          \/ e.type \notin Encodable \/ e.items \in {<<>>, <<Word("!")>>}

\* What each entry leaves behind; the first fault ends it.
Read1(env, e) ==
    IF env.fault > 0 THEN env
    ELSE IF Faulty(e, env) THEN [env EXCEPT !.fault = env.entry + 1]
    ELSE CASE e.kind = "origin" -> [env EXCEPT !.entry = @ + 1, !.origin = <<e.word>>]
           [] e.kind = "ttl" -> [env EXCEPT !.entry = @ + 1, !.ttl = e.word]
           [] e.kind = "rr" ->
                [env EXCEPT !.entry = @ + 1, !.prev = Full(e.owner, env), !.records = Append(@,
                    [label |-> Full(e.owner, env), ttl |-> IF e.ttl = "" THEN env.ttl ELSE e.ttl,
                     class |-> IF e.class = "" THEN "IN" ELSE e.class, type |-> e.type,
                     value |-> Valued(e.items)])]

Meaning(entries) ==
    FoldLeft(Read1, [entry |-> 0, fault |-> 0, origin |-> <<>>, ttl |-> "", prev |-> <<>>, records |-> <<>>],
             entries)

-----------------------------------------------------------------------------
(* Layout *)

Layouts == [paren : {"none", "line", "open", "early"}, noisy : BOOLEAN]

Spaced(fields) == FlattenSeq([i \in DOMAIN fields |-> <<" ">> \o fields[i]])

\* The lines of an entry; noise is a comment, wide blanks and a line of nothing.
Lines(e, layout) ==
    LET lead == SelectSeq(IF e.swapped THEN <<e.class, e.ttl>> ELSE <<e.ttl, e.class>>, LAMBDA w : w # "")
        fields == [i \in DOMAIN lead |-> <<lead[i]>>] \o << <<e.type>> >>
        owner == IF e.owner = "" THEN <<>> ELSE <<e.owner>>
        comment == IF layout.noisy THEN <<"TAB", ";", "(", "\"", ";">> ELSE <<>>
        own(items) == [i \in DOMAIN items |-> <<" ", "TAB">> \o items[i] \o comment]
    IN (IF layout.noisy THEN << <<" ", ";", ")">>, <<>> >> ELSE <<>>) \o
       CASE e.kind # "rr" -> << <<IF e.kind = "origin" THEN "$ORIGIN" ELSE "$TTL", " ", e.word>> \o comment >>
         [] e.kind = "rr" /\ layout.paren = "none" -> <<owner \o Spaced(fields \o e.items) \o comment>>
         [] e.kind = "rr" /\ layout.paren = "line" ->
                <<owner \o Spaced(fields) \o <<" ", "(">> \o Spaced(e.items) \o <<" ", ")">> \o comment>>
         [] e.kind = "rr" /\ layout.paren = "open" ->
                <<owner \o Spaced(fields) \o <<" ", "(">> \o comment>> \o own(e.items) \o << <<")">> >>
         [] e.kind = "rr" /\ layout.paren = "early" ->
                <<owner \o <<" ", "(">> >> \o own(fields \o e.items) \o << <<" ", ")">> >>

Written(entries, layouts) == [i \in DOMAIN entries |-> Lines(entries[i], layouts[i])]

\* The line where entry i begins, behind its noise.
BeginsAt(parts, layouts, i) ==
    FoldLeft(LAMBDA n, p : n + Len(p), 1 + (IF layouts[i].noisy THEN 2 ELSE 0), SubSeq(parts, 1, i - 1))

\* None of what the readers are known to differ in.
Plain(entries, layouts) ==
    /\ \A i \in DOMAIN entries :
        LET e == entries[i]
        IN CASE e.kind = "origin" -> e.word = "e."
             [] e.kind = "ttl" -> e.word # "0"
             [] e.kind = "rr" -> /\ e.class # "CH" /\ ~e.swapped /\ layouts[i].paren # "line"
                                 /\ e.owner = "" => layouts[i].paren = "none"
                                 /\ \A k \in DOMAIN e.items : e.items[k] # Quoted

\* A record without an owner of its own keeps a field on its first line: a line
\* that holds nothing but the parenthesis is no line of a record.
Fitting(e, layout) == IF e.kind = "rr" /\ e.owner = "" /\ layout.paren = "early"
                      THEN [layout EXCEPT !.paren = "open"] ELSE layout

\* Records laid out one way or another, directives on a line of their own.
LaidOut(entries, l1, l2) ==
    [i \in DOMAIN entries |->
        IF i = Len(entries) THEN Fitting(entries[i], l2)
        ELSE IF entries[i].kind = "rr" THEN Fitting(entries[i], l1)
        ELSE [paren |-> "none", noisy |-> l1.noisy]]

Whole(entries, layouts) ==
    LET parts == Written(entries, layouts)
        meaning == Meaning(entries)
    IN [lines |-> FlattenSeq(parts),
        meant |-> [kind |-> "zone", records |-> meaning.records, plain |-> Plain(entries, layouts),
                   fault |-> IF meaning.fault = 0 THEN 0 ELSE BeginsAt(parts, layouts, meaning.fault)]]

Unmatched(all, line, why) ==
    [lines |-> all, meant |-> [kind |-> "unmatched", records |-> <<>>, plain |-> FALSE, fault |-> line, why |-> why]]

\* The text ends in the last record, its parenthesis open.
CutOff(entries, layouts) ==
    LET parts == Written(entries, layouts)
        n == Len(entries)
        begin == BeginsAt(parts, layouts, n)
        all == FlattenSeq(parts)
    IN {Unmatched(SubSeq(all, 1, k), begin, "unclosed") : k \in begin .. Len(all) - 1}

\* A line of a text is followed by a parenthesis too many.
Loose(entries, layouts) ==
    LET parts == Written(entries, layouts)
        all == FlattenSeq(parts)
        behind(i) == Len(FlattenSeq(SubSeq(parts, 1, i)))
    IN {Unmatched(SubSeq(all, 1, behind(i)) \o << <<" ", ")">> >> \o SubSeq(all, behind(i) + 1, Len(all)),
                  behind(i) + 1, "unbalanced") : i \in DOMAIN parts}

\* Every two layouts, noisy where they are the same.
Pairs == {p \in Layouts \X Layouts : p[1].noisy = p[2].noisy /\ (p[1].noisy => p[1] = p[2])}

MCTexts ==
    {Whole(z, LaidOut(z, p[1], p[2])) : z \in Zones, p \in Pairs} \cup
    UNION {CutOff(z, LaidOut(z, p[1], p[2])) \cup Loose(z, LaidOut(z, p[1], p[2])) : z \in Zones,
            p \in {p \in Pairs : p[1].paren = "none" /\ p[2].paren \in {"open", "early"}}}

\* What was written not to match does not, and is the case UnmatchedRefused is about.
ASSUME \A t \in MCTexts : t.meant.kind = "unmatched" => UnmatchedAt(t.lines, t.meant.fault, t.meant.why)
=============================================================================
