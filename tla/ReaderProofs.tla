----------------------------- MODULE ReaderProofs -----------------------------
(***************************************************************************)
(* What the readers make of any text: the strict one refuses it for its    *)
(* parentheses exactly if they do not match.                               *)
(***************************************************************************)
EXTENDS LenientReader, DataInduction

-----------------------------------------------------------------------------
(* Where a parenthesis counts, character by character *)

LEMMA EscapedFirst ==
    ASSUME NEW line
    PROVE  ~Escaped(line, 1)
<1>1. {0} \cup {k \in 1 .. 1 - 1 : line[k] # "\\"} = {0}
  BY SMT
<1>2. Max({0}) = 0
  BY MaxIsGreatest
<1>3. (1 - 1 - 0) % 2 # 1
  OBVIOUS
<1> QED
  BY <1>1, <1>2, <1>3 DEF Escaped

LEMMA EscapedNext ==
    ASSUME NEW line, NEW i \in Nat, i > 0
    PROVE  Escaped(line, i + 1) <=> line[i] = "\\" /\ ~Escaped(line, i)
<1> DEFINE plain == {k \in Nat : line[k] # "\\"}
           L == {0} \cup (plain \cap (1 .. i - 1))
           M == {0} \cup (plain \cap (1 .. i))
           x == Max(L)
           y == Max(M)
<1>1. Escaped(line, i) <=> (i - 1 - x) % 2 = 1
  <2>1. {k \in 1 .. i - 1 : line[k] # "\\"} = plain \cap (1 .. i - 1)
    <3>1. \A k \in 1 .. i - 1 : k \in Nat
      OBVIOUS
    <3> QED
      BY <3>1, Zenon
  <2> HIDE DEF plain
  <2> QED
    BY <2>1, Zenon DEF Escaped
<1>2. Escaped(line, i + 1) <=> (i - y) % 2 = 1
  <2>1. {k \in 1 .. i : line[k] # "\\"} = plain \cap (1 .. i)
    <3>1. \A k \in 1 .. i : k \in Nat
      OBVIOUS
    <3> QED
      BY <3>1, Zenon
  <2> DEFINE j == i + 1
             h == j - 1
  <2>2. h = i
    OBVIOUS
  <2>3. Escaped(line, j) <=> (h - Max({0} \cup {k \in 1 .. h : line[k] # "\\"})) % 2 = 1
    BY Zenon DEF Escaped
  <2> HIDE DEF plain, h
  <2>4. {k \in 1 .. h : line[k] # "\\"} = plain \cap (1 .. i)
    BY <2>1, <2>2, Zenon
  <2>5. Escaped(line, j) <=> (h - y) % 2 = 1
    BY <2>3, <2>4, Zenon
  <2> HIDE DEF y
  <2> QED
    BY <2>2, <2>5, Zenon
<1>3. i \in plain <=> ~(line[i] = "\\")
  BY Zenon
<1> HIDE DEF plain
<1>4. x \in L /\ x \in 0 .. i - 1 /\ y \in M /\ y \in 0 .. i /\ \A k \in M : k <= y
  <2>1. i \in Nat /\ i - 1 \in Nat /\ L \subseteq 0 .. i - 1 /\ M \subseteq 0 .. i /\ L # {} /\ M # {}
    OBVIOUS
  <2> DEFINE n == i - 1
  <2> HIDE DEF L, M, n
  <2>2. n \in Nat /\ L \subseteq 0 .. n
    BY <2>1 DEF n
  <2> QED
    BY <2>1, <2>2, MaxIsGreatest
<1>5. CASE i \in plain
  <2>1. i \in M
    BY <1>5
  <2> HIDE DEF x, y
  <2>2. y = i
    BY <1>4, <2>1
  <2>3. (i - y) % 2 # 1
    BY <2>2
  <2> QED
    BY <1>2, <1>3, <1>5, <2>3, Zenon
<1>6. CASE i \notin plain
  <2>1. L = M
    <3>1. \A k : k \in 1 .. i <=> k = i \/ k \in 1 .. i - 1
      OBVIOUS
    <3> QED
      BY <1>6, <3>1, Zenon
  <2>2. x = y
    BY <2>1, Zenon
  <2> HIDE DEF x, y
  <2>3. (i - y) % 2 = 1 <=> ~((i - 1 - x) % 2 = 1)
    BY <1>4, <2>2
  <2> QED
    BY <1>1, <1>2, <1>3, <1>6, <2>3, Zenon
<1> QED
  BY <1>5, <1>6

\* How many positions up to the next have a property.
LEMMA CountNext ==
    ASSUME NEW A, NEW i \in Nat, i > 0, A \subseteq 1 .. i
    PROVE  /\ IsFiniteSet(A) /\ Cardinality(A) \in Nat
           /\ Cardinality(A) = Cardinality(A \cap (1 .. i - 1)) + (IF i \in A THEN 1 ELSE 0)
<1> DEFINE B == A \cap (1 .. i - 1)
<1>1. IsFiniteSet(1 .. i)
  BY FS_Interval
<1>2. IsFiniteSet(A) /\ IsFiniteSet(B)
  BY <1>1, FS_Subset
<1>3. Cardinality(A) \in Nat /\ Cardinality(B) \in Nat
  BY <1>2, FS_CardinalityType
<1>4. CASE i \in A
  <2>1. \A k \in 1 .. i : k = i \/ k \in 1 .. i - 1
    OBVIOUS
  <2>2. i \notin 1 .. i - 1
    OBVIOUS
  <2>3. A = B \cup {i} /\ i \notin B
    BY <1>4, <2>1, <2>2, Zenon
  <2> QED
    BY <1>2, <1>3, <1>4, <2>3, FS_AddElement
<1>5. CASE i \notin A
  <2>1. \A k \in 1 .. i : k = i \/ k \in 1 .. i - 1
    OBVIOUS
  <2>2. A = B
    BY <1>5, <2>1, Zenon
  <2>3. Cardinality(A) = Cardinality(B)
    BY <2>2, Zenon
  <2> HIDE DEF B
  <2>4. Cardinality(A) = Cardinality(B) + 0
    BY <1>3, <2>3
  <2> QED
    BY <1>2, <1>3, <1>5, <2>4 DEF B
<1> QED
  BY <1>2, <1>3, <1>4, <1>5

LEMMA QuotesFirst ==
    ASSUME NEW line
    PROVE  ~InQuotes(line, 1)
<1>1. {k \in 1 .. 1 - 1 : line[k] = "\"" /\ ~Escaped(line, k)} = {}
  BY SMT
<1>2. 0 % 2 # 1
  OBVIOUS
<1> QED
  BY <1>1, <1>2, FS_EmptySet, Zenon DEF InQuotes

LEMMA QuotesNext ==
    ASSUME NEW line, NEW i \in Nat, i > 0
    PROVE  InQuotes(line, i + 1) <=> ~(InQuotes(line, i) <=> line[i] = "\"" /\ ~Escaped(line, i))
<1> DEFINE P(k) == line[k] = "\"" /\ ~Escaped(line, k)
           A == {k \in 1 .. i : P(k)}
           B == {k \in 1 .. i - 1 : P(k)}
           m == Cardinality(A)
           n == Cardinality(B)
<1>1. InQuotes(line, i + 1) <=> m % 2 = 1
  <2> DEFINE j == i + 1
             h == j - 1
  <2>1. h = i
    OBVIOUS
  <2>2. InQuotes(line, j) <=> Cardinality({k \in 1 .. h : P(k)}) % 2 = 1
    BY Zenon DEF InQuotes
  <2> HIDE DEF P, h
  <2>3. {k \in 1 .. h : P(k)} = A
    BY <2>1, Zenon
  <2> QED
    BY <2>2, <2>3, Zenon
<1>2. InQuotes(line, i) <=> n % 2 = 1
  BY Zenon DEF InQuotes
<1> HIDE DEF P
<1>3. A \subseteq 1 .. i /\ (i \in A <=> P(i)) /\ B = A \cap (1 .. i - 1)
  OBVIOUS
<1>4. n \in Nat
  <2>1. i - 1 \in Int /\ B \in SUBSET (1 .. i - 1)
    OBVIOUS
  <2>2. IsFiniteSet(1 .. i - 1)
    BY <2>1, FS_Interval
  <2> HIDE DEF B
  <2>3. IsFiniteSet(B)
    BY <2>1, <2>2, FS_Subset
  <2> QED
    BY <2>3, FS_CardinalityType
<1> HIDE DEF A, B
<1>5. m = n + (IF i \in A THEN 1 ELSE 0)
  BY <1>3, CountNext
<1> HIDE DEF m, n
<1>6. CASE P(i)
  <2>1. m = n + 1
    BY <1>3, <1>5, <1>6
  <2>2. m % 2 = 1 <=> ~(n % 2 = 1)
    BY <1>4, <2>1
  <2> QED
    BY <1>1, <1>2, <1>6, <2>2, Zenon DEF P
<1>7. CASE ~P(i)
  <2>1. m = n
    BY <1>3, <1>4, <1>5, <1>7
  <2> QED
    BY <1>1, <1>2, <1>7, <2>1, Zenon DEF P
<1> QED
  BY <1>6, <1>7

LEMMA ParensNext ==
    ASSUME NEW line, NEW c
    PROVE  /\ Parens(line, 0, c) = 0
           /\ \A i \in Nat : Parens(line, i, c) \in Nat
           /\ \A i \in Nat : i > 0 =>
                Parens(line, i, c) = Parens(line, i - 1, c)
                                     + (IF line[i] = c /\ Bare(line, i) THEN 1 ELSE 0)
<1> DEFINE P(i) == line[i] = c /\ Bare(line, i)
           A(k) == {i \in 1 .. k : P(i)}
<1>1. \A k : Parens(line, k, c) = Cardinality(A(k))
  BY Zenon DEF Parens
<1> HIDE DEF P
<1>2. Parens(line, 0, c) = 0
  <2>1. A(0) = {}
    OBVIOUS
  <2> HIDE DEF A
  <2> QED
    BY <1>1, <2>1, FS_EmptySet, Zenon
<1>3. ASSUME NEW i \in Nat, i > 0
      PROVE  /\ Parens(line, i, c) \in Nat
             /\ Parens(line, i, c) = Parens(line, i - 1, c) + (IF P(i) THEN 1 ELSE 0)
  <2>1. A(i) \subseteq 1 .. i /\ (i \in A(i) <=> P(i)) /\ A(i - 1) = A(i) \cap (1 .. i - 1)
    BY <1>3
  <2> DEFINE a == A(i)
             b == A(i - 1)
  <2>2. a \subseteq 1 .. i /\ (i \in a <=> P(i)) /\ b = a \cap (1 .. i - 1)
    BY ONLY <2>1
  <2>3. Parens(line, i, c) = Cardinality(a) /\ Parens(line, i - 1, c) = Cardinality(b)
    BY <1>1
  <2> HIDE DEF A, a, b
  <2>4. Cardinality(a) \in Nat /\ Cardinality(a) = Cardinality(b) + (IF i \in a THEN 1 ELSE 0)
    BY <1>3, <2>2, CountNext
  <2> QED
    BY <2>2, <2>3, <2>4
<1>4. ASSUME NEW i \in Nat PROVE Parens(line, i, c) \in Nat
  <2>1. i = 0 \/ i > 0
    OBVIOUS
  <2> QED
    BY <1>2, <1>3, <2>1
<1>5. ASSUME NEW i \in Nat, i > 0
      PROVE  Parens(line, i, c) = Parens(line, i - 1, c) + (IF line[i] = c /\ Bare(line, i) THEN 1 ELSE 0)
  BY <1>3, <1>5, Zenon DEF P
<1> QED
  BY <1>2, <1>4, <1>5, Zenon

\* The level changes at bare parentheses only.
LEMMA LevelNext ==
    ASSUME NEW line
    PROVE  /\ Level(line, 0) = 0
           /\ \A i \in Nat : Level(line, i) \in Int
           /\ \A i \in Nat : i > 0 =>
                /\ ~Bare(line, i) \/ line[i] \notin {"(", ")"} => Level(line, i) = Level(line, i - 1)
                /\ Bare(line, i) /\ line[i] = "(" => Level(line, i) = Level(line, i - 1) + 1
                /\ Bare(line, i) /\ line[i] = ")" => Level(line, i) = Level(line, i - 1) - 1
<1> DEFINE o(i) == Parens(line, i, "(")
           c(i) == Parens(line, i, ")")
<1>1. o(0) = 0 /\ c(0) = 0 /\ \A i \in Nat : o(i) \in Nat /\ c(i) \in Nat
  BY ParensNext, Zenon
<1>2. ASSUME NEW i \in Nat, i > 0
      PROVE  /\ o(i) = o(i - 1) + (IF line[i] = "(" /\ Bare(line, i) THEN 1 ELSE 0)
             /\ c(i) = c(i - 1) + (IF line[i] = ")" /\ Bare(line, i) THEN 1 ELSE 0)
  BY <1>2, ParensNext, Zenon
<1>3. \A i : Level(line, i) = o(i) - c(i)
  BY Zenon DEF Level
<1> HIDE DEF o, c
<1>4. ASSUME NEW i \in Nat, i > 0
      PROVE  /\ ~Bare(line, i) \/ line[i] \notin {"(", ")"} => Level(line, i) = Level(line, i - 1)
             /\ Bare(line, i) /\ line[i] = "(" => Level(line, i) = Level(line, i - 1) + 1
             /\ Bare(line, i) /\ line[i] = ")" => Level(line, i) = Level(line, i - 1) - 1
  <2> DEFINE opens == line[i] = "(" /\ Bare(line, i)
             closes == line[i] = ")" /\ Bare(line, i)
  <2>1. ~(opens /\ closes)
    <3>1. "(" # ")"
      OBVIOUS
    <3> QED
      BY <3>1, Zenon
  <2>2. o(i) = o(i - 1) + (IF opens THEN 1 ELSE 0) /\ c(i) = c(i - 1) + (IF closes THEN 1 ELSE 0)
    BY <1>2, <1>4, Zenon
  <2>3. ~Bare(line, i) \/ line[i] \notin {"(", ")"} => ~opens /\ ~closes
    BY Zenon
  <2>4. o(i - 1) \in Nat /\ c(i - 1) \in Nat
    BY <1>1, <1>4
  <2>5. Level(line, i) = o(i) - c(i) /\ Level(line, i - 1) = o(i - 1) - c(i - 1)
    BY <1>3
  <2>6. Bare(line, i) /\ line[i] = "(" => opens
    BY Zenon
  <2>7. Bare(line, i) /\ line[i] = ")" => closes
    BY Zenon
  <2> HIDE DEF opens, closes
  <2>8. /\ ~opens /\ ~closes => Level(line, i) = Level(line, i - 1)
        /\ opens => Level(line, i) = Level(line, i - 1) + 1
        /\ closes => Level(line, i) = Level(line, i - 1) - 1
    BY ONLY <2>1, <2>2, <2>4, <2>5
  <2> QED
    BY ONLY <2>3, <2>6, <2>7, <2>8, Zenon
<1>5. Level(line, 0) = 0 /\ \A i \in Nat : Level(line, i) \in Int
  BY <1>1, <1>3
<1> QED
  BY <1>4, <1>5, Zenon

\* A comment begins at k.
Starts(line, k) == line[k] = ";" /\ ~Escaped(line, k) /\ ~InQuotes(line, k)

LEMMA CommentNext ==
    ASSUME NEW line
    PROVE  /\ ~InComment(line, 0)
           /\ \A i \in Nat : i > 0 => (InComment(line, i) <=> InComment(line, i - 1) \/ Starts(line, i))
<1>1. \A i : InComment(line, i) <=> \E k \in 1 .. i : Starts(line, k)
  BY Zenon DEF InComment, Starts
<1>2. ~InComment(line, 0)
  BY <1>1
<1>3. ASSUME NEW i \in Nat, i > 0
      PROVE  InComment(line, i) <=> InComment(line, i - 1) \/ Starts(line, i)
  <2>1. \A k : k \in 1 .. i <=> k = i \/ k \in 1 .. i - 1
    BY <1>3
  <2> QED
    BY <1>1, <2>1, Zenon
<1> QED
  BY <1>2, <1>3, Zenon

\* A character that is more than a blank, a parenthesis or part of a comment.
WordAt(line, i) ==
    line[i] \notin Blank /\ ~InComment(line, i) /\ (line[i] \in {"(", ")"} => ~Bare(line, i))

WordsTo(line, k) == \E i \in 1 .. k : WordAt(line, i)

LEMMA WordsNext ==
    ASSUME NEW line
    PROVE  /\ ~WordsTo(line, 0)
           /\ \A i \in Nat : i > 0 => (WordsTo(line, i) <=> WordsTo(line, i - 1) \/ WordAt(line, i))
<1>1. ~WordsTo(line, 0)
  BY DEF WordsTo
<1>2. ASSUME NEW i \in Nat, i > 0
      PROVE  WordsTo(line, i) <=> WordsTo(line, i - 1) \/ WordAt(line, i)
  <2>1. \A k : k \in 1 .. i <=> k = i \/ k \in 1 .. i - 1
    BY <1>2
  <2> QED
    BY <2>1, Zenon DEF WordsTo
<1> QED
  BY <1>1, <1>2, Zenon

LEMMA WordedIs ==
    ASSUME NEW S, NEW line \in Seq(S)
    PROVE  Worded(line) <=> WordsTo(line, Len(line))
<1>1. DOMAIN line = 1 .. Len(line)
  OBVIOUS
<1> QED
  BY <1>1, Zenon DEF Worded, WordsTo, WordAt

-----------------------------------------------------------------------------
(* What strip_strict_line makes of a line *)

Scan(S) == [body : Seq(S), depth : Int, quoted : BOOLEAN, escaped : BOOLEAN,
            state : {"open", "comment", "unbalanced"}]

Became(t, S, b, d, q, e, x) ==
    /\ t \in Scan(S) /\ t.body = b /\ t.depth = d /\ t.state = x
    /\ (t.quoted <=> q) /\ (t.escaped <=> e)

\* The changes a character makes.
LEMMA ScanKeeps ==
    \A S : \A s \in Scan(S) : \A b \in Seq(S) :
        Became([s EXCEPT !.body = b], S, b, s.depth, s.quoted, s.escaped, s.state)
BY DEF Scan, Became

LEMMA ScanStops ==
    \A S : \A s \in Scan(S) : \A x \in {"open", "comment", "unbalanced"} :
        Became([s EXCEPT !.state = x], S, s.body, s.depth, s.quoted, s.escaped, x)
BY DEF Scan, Became

LEMMA ScanEscaped ==
    \A S : \A s \in Scan(S) : \A e \in BOOLEAN :
        Became([s EXCEPT !.escaped = e], S, s.body, s.depth, s.quoted, e, s.state)
BY DEF Scan, Became

LEMMA ScanQuoted ==
    \A S : \A s \in Scan(S) : \A q \in BOOLEAN :
        Became([s EXCEPT !.quoted = q], S, s.body, s.depth, q, s.escaped, s.state)
BY DEF Scan, Became

LEMMA ScanDeepened ==
    \A S : \A s \in Scan(S) : \A d \in Int :
        Became([s EXCEPT !.depth = d], S, s.body, d, s.quoted, s.escaped, s.state)
BY DEF Scan, Became

LEMMA ScanEscapes ==
    ASSUME NEW S, NEW s \in Scan(S), NEW b \in Seq(S), NEW e \in BOOLEAN
    PROVE  Became([s EXCEPT !.body = b, !.escaped = e], S, b, s.depth, s.quoted, e, s.state)
<1> DEFINE u == [s EXCEPT !.body = b]
<1>1. Became(u, S, b, s.depth, s.quoted, s.escaped, s.state)
  BY ScanKeeps, Zenon
<1>2. [s EXCEPT !.body = b, !.escaped = e] = [u EXCEPT !.escaped = e]
  OBVIOUS
<1> HIDE DEF u
<1>3. u \in Scan(S)
  BY <1>1, Zenon DEF Became
<1>4. Became([u EXCEPT !.escaped = e], S, u.body, u.depth, u.quoted, e, u.state)
  BY <1>3, ScanEscaped, Zenon
<1> QED
  BY <1>1, <1>2, <1>4, Zenon DEF Became

LEMMA ScanQuotes ==
    ASSUME NEW S, NEW s \in Scan(S), NEW b \in Seq(S), NEW q \in BOOLEAN
    PROVE  Became([s EXCEPT !.body = b, !.quoted = q], S, b, s.depth, q, s.escaped, s.state)
<1> DEFINE u == [s EXCEPT !.body = b]
<1>1. Became(u, S, b, s.depth, s.quoted, s.escaped, s.state)
  BY ScanKeeps, Zenon
<1>2. [s EXCEPT !.body = b, !.quoted = q] = [u EXCEPT !.quoted = q]
  OBVIOUS
<1> HIDE DEF u
<1>3. u \in Scan(S)
  BY <1>1, Zenon DEF Became
<1>4. Became([u EXCEPT !.quoted = q], S, u.body, u.depth, q, u.escaped, u.state)
  BY <1>3, ScanQuoted, Zenon
<1> QED
  BY <1>1, <1>2, <1>4, Zenon DEF Became

LEMMA ScanNests ==
    ASSUME NEW S, NEW s \in Scan(S), NEW b \in Seq(S), NEW d \in Int
    PROVE  Became([s EXCEPT !.body = b, !.depth = d], S, b, d, s.quoted, s.escaped, s.state)
<1> DEFINE u == [s EXCEPT !.body = b]
<1>1. Became(u, S, b, s.depth, s.quoted, s.escaped, s.state)
  BY ScanKeeps, Zenon
<1>2. [s EXCEPT !.body = b, !.depth = d] = [u EXCEPT !.depth = d]
  OBVIOUS
<1> HIDE DEF u
<1>3. u \in Scan(S)
  BY <1>1, Zenon DEF Became
<1>4. Became([u EXCEPT !.depth = d], S, u.body, d, u.quoted, u.escaped, u.state)
  BY <1>3, ScanDeepened, Zenon
<1> QED
  BY <1>1, <1>2, <1>4, Zenon DEF Became

LEMMA ScanTyped ==
    \A S : \A s \in Scan(S) :
        /\ s.body \in Seq(S) /\ s.depth \in Int /\ s.quoted \in BOOLEAN /\ s.escaped \in BOOLEAN
        /\ \A c \in S : Append(s.body, c) \in Seq(S)
BY DEF Scan

LEMMA ScannedPlain ==
    ASSUME NEW S, NEW s \in Scan(S), NEW c \in S, s.state = "open"
    PROVE  /\ s.escaped =>
                Became(Scanned(s, c), S, Append(s.body, c), s.depth, s.quoted, FALSE, "open")
           /\ ~s.escaped =>
                /\ c = "\\" =>
                    Became(Scanned(s, c), S, Append(s.body, c), s.depth, s.quoted, TRUE, "open")
                /\ c = "\"" =>
                    Became(Scanned(s, c), S, Append(s.body, c), s.depth, ~s.quoted, FALSE, "open")
                /\ c # "\\" /\ c # "\"" /\ (s.quoted \/ c \notin {";", "(", ")"}) =>
                    Became(Scanned(s, c), S, Append(s.body, c), s.depth, s.quoted, FALSE, "open")
<1>1. "\"" # "\\"
  BY Zenon
<1> DEFINE b == Append(s.body, c)
<1>2. b \in Seq(S) /\ s.quoted \in BOOLEAN
  BY ScanTyped, Zenon
<1>3. ASSUME s.escaped PROVE Became(Scanned(s, c), S, b, s.depth, s.quoted, FALSE, "open")
  <2>1. Scanned(s, c) = [s EXCEPT !.body = b, !.escaped = FALSE]
    BY <1>3, Zenon DEF Scanned
  <2> HIDE DEF b
  <2>2. Became([s EXCEPT !.body = b, !.escaped = FALSE], S, b, s.depth, s.quoted, FALSE, s.state)
    BY ONLY <1>2, s \in Scan(S), ScanEscapes
  <2> QED
    BY <2>1, <2>2, Zenon
<1>4. ASSUME ~s.escaped, c = "\\"
      PROVE  Became(Scanned(s, c), S, b, s.depth, s.quoted, TRUE, "open")
  <2>1. Scanned(s, c) = [s EXCEPT !.body = b, !.escaped = TRUE]
    BY <1>4, Zenon DEF Scanned
  <2> HIDE DEF b
  <2>2. Became([s EXCEPT !.body = b, !.escaped = TRUE], S, b, s.depth, s.quoted, TRUE, s.state)
    BY ONLY <1>2, s \in Scan(S), ScanEscapes
  <2> QED
    BY <2>1, <2>2, Zenon
<1>5. ASSUME ~s.escaped, c = "\""
      PROVE  Became(Scanned(s, c), S, b, s.depth, ~s.quoted, FALSE, "open")
  <2> DEFINE q == ~s.quoted
  <2>1. Scanned(s, c) = [s EXCEPT !.body = b, !.quoted = q]
    BY <1>1, <1>5, Zenon DEF Scanned
  <2>2. q \in BOOLEAN
    OBVIOUS
  <2> HIDE DEF b, q
  <2>3. Became([s EXCEPT !.body = b, !.quoted = q], S, b, s.depth, q, s.escaped, s.state)
    BY ONLY <1>2, <2>2, s \in Scan(S), ScanQuotes, Zenon
  <2>4. Became(Scanned(s, c), S, b, s.depth, q, s.escaped, "open")
    BY <2>1, <2>3, Zenon
  <2> QED
    BY <1>5, <2>4, Zenon DEF Became, q
<1>6. ASSUME ~s.escaped, c # "\\", c # "\"", s.quoted \/ c \notin {";", "(", ")"}
      PROVE  Became(Scanned(s, c), S, b, s.depth, s.quoted, FALSE, "open")
  <2>1. Scanned(s, c) = [s EXCEPT !.body = b]
    BY <1>6, Zenon DEF Scanned
  <2> HIDE DEF b
  <2>2. Became([s EXCEPT !.body = b], S, b, s.depth, s.quoted, s.escaped, s.state)
    BY ONLY <1>2, s \in Scan(S), ScanKeeps, Zenon
  <2>3. Became(Scanned(s, c), S, b, s.depth, s.quoted, s.escaped, "open")
    BY <2>1, <2>2, Zenon
  <2> QED
    BY <1>6, <2>3, Zenon DEF Became
<1> QED
  BY <1>3, <1>4, <1>5, <1>6, Zenon

\* A parenthesis leaves a blank.
Spaced(S) == " " \in S

LEMMA ScannedBare ==
    ASSUME NEW S, NEW s \in Scan(S), NEW c \in S, Spaced(S),
           s.state = "open", ~s.escaped, ~s.quoted
    PROVE  /\ c = ";" => Became(Scanned(s, c), S, s.body, s.depth, FALSE, FALSE, "comment")
           /\ \A d \in Int : (c = "(" /\ d = s.depth + 1) \/ (c = ")" /\ d = s.depth - 1) =>
                /\ d < 0 => Became(Scanned(s, c), S, s.body, s.depth, FALSE, FALSE, "unbalanced")
                /\ ~(d < 0) =>
                    Became(Scanned(s, c), S, Append(s.body, " "), d, FALSE, FALSE, "open")
<1>1. /\ ";" # "(" /\ ";" # ")" /\ "(" # ")" /\ "\"" # ";" /\ "\"" # "(" /\ "\"" # ")"
      /\ "\\" # ";" /\ "\\" # "(" /\ "\\" # ")"
  BY Zenon
<1>2. ASSUME c = ";" PROVE Became(Scanned(s, c), S, s.body, s.depth, FALSE, FALSE, "comment")
  <2>1. Scanned(s, c) = [s EXCEPT !.state = "comment"]
    BY <1>1, <1>2, Zenon DEF Scanned
  <2>2. Became(Scanned(s, c), S, s.body, s.depth, s.quoted, s.escaped, "comment")
    BY <2>1, ScanStops, Zenon
  <2> QED
    BY <2>2, Zenon DEF Became
<1>3. ASSUME NEW d \in Int, (c = "(" /\ d = s.depth + 1) \/ (c = ")" /\ d = s.depth - 1)
      PROVE  /\ d < 0 => Became(Scanned(s, c), S, s.body, s.depth, FALSE, FALSE, "unbalanced")
             /\ ~(d < 0) => Became(Scanned(s, c), S, Append(s.body, " "), d, FALSE, FALSE, "open")
  <2>1. c # "\\" /\ c # "\"" /\ c # ";" /\ c \in {";", "(", ")"}
    BY <1>1, <1>3, Zenon
  <2>2. (IF c = "(" THEN s.depth + 1 ELSE s.depth - 1) = d
    BY <1>1, <1>3, Zenon
  <2>3. Unbalanced(d) <=> d < 0
    BY Zenon DEF Unbalanced
  <2>4. ASSUME d < 0 PROVE Became(Scanned(s, c), S, s.body, s.depth, FALSE, FALSE, "unbalanced")
    <3>1. Scanned(s, c) = [s EXCEPT !.state = "unbalanced"]
      BY <2>1, <2>2, <2>3, <2>4, Zenon DEF Scanned
    <3>2. Became(Scanned(s, c), S, s.body, s.depth, s.quoted, s.escaped, "unbalanced")
      BY <3>1, ScanStops, Zenon
    <3> QED
      BY <3>2, Zenon DEF Became
  <2>5. ASSUME ~(d < 0) PROVE Became(Scanned(s, c), S, Append(s.body, " "), d, FALSE, FALSE, "open")
    <3> DEFINE b == Append(s.body, " ")
    <3>1. Scanned(s, c) = [s EXCEPT !.body = b, !.depth = d]
      BY <2>1, <2>2, <2>3, <2>5, Zenon DEF Scanned
    <3>2. b \in Seq(S)
      BY ScanTyped, Zenon DEF Spaced
    <3> HIDE DEF b
    <3>3. d \in Int
      BY <1>3
    <3>4. Became([s EXCEPT !.body = b, !.depth = d], S, b, d, s.quoted, s.escaped, s.state)
      BY ONLY <3>2, <3>3, s \in Scan(S), ScanNests, Zenon
    <3>5. Became(Scanned(s, c), S, b, d, s.quoted, s.escaped, "open")
      BY <3>1, <3>4, Zenon
    <3> QED
      BY <3>5, Zenon DEF Became, b
  <2> QED
    BY <2>4, <2>5, Zenon
<1> QED
  BY <1>2, <1>3, Zenon

LEMMA ScannedOver ==
    ASSUME NEW s, NEW c, s.state # "open"
    PROVE  Scanned(s, c) = s
BY Zenon DEF Scanned

LEMMA ScannedTyped ==
    ASSUME NEW S, NEW s \in Scan(S), NEW c \in S, Spaced(S)
    PROVE  Scanned(s, c) \in Scan(S)
<1>1. s.escaped \in BOOLEAN /\ s.quoted \in BOOLEAN /\ s.depth \in Int
  BY ScanTyped, Zenon
<1>2. \A t, b, d, q, e, x : Became(t, S, b, d, q, e, x) => t \in Scan(S)
  BY Zenon DEF Became
<1>3. CASE s.state # "open"
  BY <1>3, ScannedOver, Zenon
<1>4. CASE s.state = "open" /\ (s.escaped \/ c = "\\" \/ c = "\"" \/ s.quoted \/ c \notin {";", "(", ")"})
  BY <1>2, <1>4, ScannedPlain, Zenon
<1>5. CASE s.state = "open" /\ ~s.escaped /\ ~s.quoted /\ c = ";"
  BY <1>2, <1>5, ScannedBare, Zenon
<1>6. ASSUME s.state = "open", ~s.escaped, ~s.quoted, NEW d \in Int,
             (c = "(" /\ d = s.depth + 1) \/ (c = ")" /\ d = s.depth - 1)
      PROVE  Scanned(s, c) \in Scan(S)
  BY <1>2, <1>6, ScannedBare, Zenon
<1>7. s.depth + 1 \in Int /\ s.depth - 1 \in Int
  BY <1>1
<1>8. CASE s.state = "open" /\ ~s.escaped /\ ~s.quoted /\ c = "("
  <2> DEFINE d == s.depth + 1
  <2>1. d \in Int /\ d = s.depth + 1
    BY <1>7
  <2> HIDE DEF d
  <2>2. (c = "(" /\ d = s.depth + 1) \/ (c = ")" /\ d = s.depth - 1)
    BY <1>8, <2>1
  <2> QED
    BY <1>6, <1>8, <2>1, <2>2, Zenon
<1>9. CASE s.state = "open" /\ ~s.escaped /\ ~s.quoted /\ c = ")"
  <2> DEFINE d == s.depth - 1
  <2>1. d \in Int /\ d = s.depth - 1
    BY <1>7
  <2> HIDE DEF d
  <2>2. (c = "(" /\ d = s.depth + 1) \/ (c = ")" /\ d = s.depth - 1)
    BY <1>9, <2>1
  <2> QED
    BY <1>6, <1>9, <2>1, <2>2, Zenon
<1>10. c = ";" \/ c = "(" \/ c = ")" \/ c \notin {";", "(", ")"}
  BY Zenon
<1>11. CASE s.state = "open"
  <2>1. CASE s.escaped \/ s.quoted \/ c \notin {";", "(", ")"}
    BY <1>4, <1>11, <2>1, Zenon
  <2>2. CASE ~s.escaped /\ ~s.quoted /\ c \in {";", "(", ")"}
    BY <1>5, <1>8, <1>9, <1>10, <1>11, <2>2, Zenon
  <2> QED
    BY <2>1, <2>2, Zenon
<1> QED
  BY <1>3, <1>11, Zenon

\* The characters are looked at one after the other.
LEMMA ScanIs ==
    ASSUME NEW S, Spaced(S), NEW line \in Seq(S), NEW d \in Int
    PROVE  \E f : /\ f[0] = Unread(d)
                  /\ \A i \in 1 .. Len(line) : f[i] = Scanned(f[i - 1], line[i])
                  /\ strip_strict_line(line, d) = f[Len(line)]
<1> DEFINE n == Len(line)
           H(f) == [i \in 0 .. n |-> IF i = 0 THEN Unread(d) ELSE Scanned(f[i - 1], line[i])]
           scan == CHOOSE f : f = H(f)
           step == [i \in 1 .. n |-> [s \in Scan(S) |-> Scanned(s, line[i])]]
           u == Unread(d)
<1>1. n \in Nat /\ \A i \in 1 .. n : line[i] \in S
  OBVIOUS
<1>2. u \in Scan(S)
  <2>1. <<>> \in Seq(S)
    OBVIOUS
  <2> QED
    BY <2>1 DEF Scan, Unread
<1>3. step \in [1 .. n -> [Scan(S) -> Scan(S)]]
  <2>1. \A i \in 1 .. n : \A s \in Scan(S) : Scanned(s, line[i]) \in Scan(S)
    BY <1>1, ScannedTyped, Zenon
  <2> HIDE DEF n
  <2> QED
    BY <2>1
<1>4. \A i \in 1 .. n : \A s \in Scan(S) : step[i][s] = Scanned(s, line[i])
  OBVIOUS
<1> HIDE DEF step
<1>5. \E f \in [0 .. n -> Scan(S)] : Progresses(f, n, u, step)
  <2> HIDE DEF n, u
  <2> QED
    BY ONLY <1>1, <1>2, <1>3, ProgressExists
<1>6. PICK f \in [0 .. n -> Scan(S)] : Progresses(f, n, u, step)
  BY <1>5
<1>7. f[0] = u /\ \A i \in 1 .. n : f[i] = step[i][f[i - 1]]
  <2> HIDE DEF n, u
  <2> QED
    BY ONLY <1>1, <1>6, ProgressAt
<1>8. f = H(f)
  <2>1. \A i \in 1 .. n : f[i - 1] \in Scan(S)
    <3> HIDE DEF n
    <3>1. \A i \in 1 .. n : i - 1 \in 0 .. n
      BY <1>1
    <3> QED
      BY <1>6, <3>1
  <2>2. \A i \in 1 .. n : f[i] = Scanned(f[i - 1], line[i])
    BY <1>4, <1>7, <2>1, Zenon
  <2>3. \A i \in 0 .. n : i = 0 \/ i \in 1 .. n
    BY <1>1
  <2>4. \A i \in 0 .. n : f[i] = IF i = 0 THEN u ELSE Scanned(f[i - 1], line[i])
    BY <1>7, <2>2, <2>3, Zenon
  <2> HIDE DEF n
  <2>5. f = [i \in 0 .. n |-> f[i]]
    BY <1>6
  <2> QED
    BY <2>4, <2>5, Zenon
<1>9. scan = H(scan)
  <2> HIDE DEF H
  <2> QED
    BY <1>8, Zenon
<1>10. strip_strict_line(line, d) = scan[n]
  BY Zenon DEF strip_strict_line
<1> HIDE DEF scan, u
<1>11. scan[0] = u
  <2>1. 0 \in 0 .. n
    BY <1>1
  <2> QED
    BY <1>9, <2>1, Zenon DEF u
<1>12. ASSUME NEW i \in 1 .. n PROVE scan[i] = Scanned(scan[i - 1], line[i])
  <2>1. i \in 0 .. n /\ i # 0
    BY <1>1
  <2> QED
    BY <1>9, <2>1, Zenon
<1> QED
  BY <1>10, <1>11, <1>12, Zenon DEF u

LEMMA NextNumber ==
    ASSUME NEW h \in Nat, NEW k \in Nat, k = h + 1
    PROVE  k > 0 /\ k - 1 = h /\ \A j : j \in 1 .. k <=> j = k \/ j \in 1 .. h
OBVIOUS

LEMMA NonblankAppend ==
    ASSUME NEW S, NEW b \in Seq(S), NEW c \in S
    PROVE  Nonblank(Append(b, c)) # {} <=> Nonblank(b) # {} \/ c \notin Blank
<1> DEFINE e == Append(b, c)
           n == Len(b)
<1>1. /\ n \in Nat /\ DOMAIN b = 1 .. n /\ DOMAIN e = 1 .. n + 1
      /\ e[n + 1] = c /\ \A i \in 1 .. n : e[i] = b[i]
  OBVIOUS
<1> HIDE DEF e, n
<1>2. \A i : i \in 1 .. n + 1 <=> i = n + 1 \/ i \in 1 .. n
  BY <1>1
<1>3. Nonblank(e) # {} <=> \E i \in 1 .. n + 1 : e[i] \notin Blank
  BY <1>1, Zenon DEF Nonblank
<1>4. Nonblank(b) # {} <=> \E i \in 1 .. n : b[i] \notin Blank
  BY <1>1, Zenon DEF Nonblank
<1>5. Nonblank(e) # {} <=> Nonblank(b) # {} \/ c \notin Blank
  BY <1>1, <1>2, <1>3, <1>4, Zenon
<1> QED
  BY <1>5, Zenon DEF e

\* What is known of a line whose first k characters have been looked at.
Follows(s, S, line, k, d) ==
    /\ s \in Scan(S)
    /\ s.state # "unbalanced" =>
        /\ s.depth = d + Level(line, k) /\ s.depth >= 0
        /\ \A j \in 1 .. k : d + Level(line, j) >= 0
        /\ Nonblank(s.body) # {} <=> WordsTo(line, k)
    /\ s.state = "open" =>
        /\ s.escaped <=> Escaped(line, k + 1)
        /\ s.quoted <=> InQuotes(line, k + 1)
        /\ ~InComment(line, k)
    /\ s.state = "comment" => InComment(line, k)
    /\ s.state = "unbalanced" => \E j \in 1 .. k : d + Level(line, j) < 0

LEMMA FollowsFirst ==
    ASSUME NEW S, NEW line, NEW d \in Nat
    PROVE  Follows(Unread(d), S, line, 0, d)
<1> DEFINE u == Unread(d)
<1>1. Became(u, S, <<>>, d, FALSE, FALSE, "open")
  BY DEF Became, Unread, Scan
<1> HIDE DEF u
<1>2. Nonblank(<<>>) = {}
  BY SMT DEF Nonblank
<1>3. Level(line, 0) = 0 /\ ~WordsTo(line, 0) /\ ~InComment(line, 0)
  BY LevelNext, WordsNext, CommentNext, Zenon
<1>4. u \in Scan(S) /\ u.body = <<>> /\ u.depth = d /\ u.state = "open" /\ ~u.quoted /\ ~u.escaped
  BY <1>1, Zenon DEF Became
<1> DEFINE o == 0 + 1
<1>5. o = 1
  OBVIOUS
<1> HIDE DEF o
<1>6. ~Escaped(line, o) /\ ~InQuotes(line, o)
  BY <1>5, EscapedFirst, QuotesFirst, Zenon
<1>7. u.depth = d + Level(line, 0) /\ u.depth >= 0 /\ \A j \in 1 .. 0 : d + Level(line, j) >= 0
  BY <1>3, <1>4
<1>8. Nonblank(u.body) # {} <=> WordsTo(line, 0)
  BY <1>2, <1>3, <1>4, Zenon
<1> QED
  BY <1>3, <1>4, <1>6, <1>7, <1>8, Zenon DEF Follows, u, o

\* A character joins the body and the depth stays as it is.
LEMMA FollowsKept ==
    ASSUME NEW S, NEW line, NEW d \in Nat, NEW h \in Nat, NEW k \in Nat, k = h + 1,
           NEW s, Follows(s, S, line, h, d), s.state = "open", line[k] \in S,
           NEW t, Became(t, S, Append(s.body, line[k]), s.depth, InQuotes(line, k + 1), Escaped(line, k + 1), "open"),
           ~InComment(line, k), ~Bare(line, k) \/ line[k] \notin {"(", ")"}
    PROVE  Follows(t, S, line, k, d)
<1>1. /\ t \in Scan(S) /\ t.body = Append(s.body, line[k]) /\ t.depth = s.depth /\ t.state = "open"
      /\ (t.quoted <=> InQuotes(line, k + 1)) /\ (t.escaped <=> Escaped(line, k + 1))
  BY Zenon DEF Became
<1>2. /\ s \in Scan(S) /\ s.depth = d + Level(line, h) /\ s.depth >= 0
      /\ \A j \in 1 .. h : d + Level(line, j) >= 0
      /\ Nonblank(s.body) # {} <=> WordsTo(line, h)
  BY Zenon DEF Follows
<1>3. k > 0 /\ k - 1 = h /\ \A j : j \in 1 .. k <=> j = k \/ j \in 1 .. h
  BY NextNumber, Zenon
<1>4. Level(line, k) = Level(line, h)
  <2>1. Level(line, k) = Level(line, k - 1)
    BY <1>3, LevelNext, Zenon
  <2> QED
    BY <1>3, <2>1, Zenon
<1>5. t.depth = d + Level(line, k) /\ t.depth >= 0
  BY <1>1, <1>2, <1>4, Zenon
<1>6. \A j \in 1 .. k : d + Level(line, j) >= 0
  BY <1>1, <1>2, <1>3, <1>5, Zenon
<1>7. WordsTo(line, k) <=> WordsTo(line, h) \/ line[k] \notin Blank
  <2>1. WordAt(line, k) <=> line[k] \notin Blank
    BY Zenon DEF WordAt
  <2>2. WordsTo(line, k) <=> WordsTo(line, k - 1) \/ WordAt(line, k)
    BY <1>3, WordsNext, Zenon
  <2> QED
    BY <1>3, <2>1, <2>2, Zenon
<1>8. Nonblank(t.body) # {} <=> WordsTo(line, k)
  <2>1. s.body \in Seq(S)
    BY <1>2, ScanTyped, Zenon
  <2>2. Nonblank(Append(s.body, line[k])) # {} <=> Nonblank(s.body) # {} \/ line[k] \notin Blank
    BY <2>1, NonblankAppend, Zenon
  <2> QED
    BY <1>1, <1>2, <1>7, <2>2, Zenon
<1> QED
  BY <1>1, <1>5, <1>6, <1>8, Zenon DEF Follows

\* A character counts for nothing: it is in a comment.
LEMMA FollowsComment ==
    ASSUME NEW S, NEW line, NEW d \in Nat, NEW h \in Nat, NEW k \in Nat, k = h + 1,
           NEW s, Follows(s, S, line, h, d), s.state # "unbalanced", InComment(line, k),
           NEW t \in Scan(S), t.body = s.body, t.depth = s.depth, t.state = "comment"
    PROVE  Follows(t, S, line, k, d)
<1>1. /\ s.depth = d + Level(line, h) /\ s.depth >= 0
      /\ \A j \in 1 .. h : d + Level(line, j) >= 0
      /\ Nonblank(s.body) # {} <=> WordsTo(line, h)
  BY Zenon DEF Follows
<1>2. k > 0 /\ k - 1 = h /\ \A j : j \in 1 .. k <=> j = k \/ j \in 1 .. h
  BY NextNumber, Zenon
<1>3. ~Bare(line, k) /\ ~WordAt(line, k)
  BY Zenon DEF Bare, WordAt
<1>4. Level(line, k) = Level(line, h) /\ (WordsTo(line, k) <=> WordsTo(line, h))
  <2>1. Level(line, k) = Level(line, h)
    BY <1>2, <1>3, LevelNext, Zenon
  <2>2. WordsTo(line, k) <=> WordsTo(line, k - 1) \/ WordAt(line, k)
    BY <1>2, WordsNext, Zenon
  <2> QED
    BY <1>2, <1>3, <2>1, <2>2, Zenon
<1>5. t.depth = d + Level(line, k) /\ t.depth >= 0
  BY <1>1, <1>4, Zenon
<1>6. \A j \in 1 .. k : d + Level(line, j) >= 0
  BY <1>1, <1>2, <1>5, Zenon
<1>7. Nonblank(t.body) # {} <=> WordsTo(line, k)
  BY <1>1, <1>4, Zenon
<1> QED
  BY <1>5, <1>6, <1>7, Zenon DEF Follows

Nested(t, S, s, c, e) ==
    /\ e < 0 => Became(t, S, s.body, s.depth, FALSE, FALSE, "unbalanced")
    /\ ~(e < 0) => Became(t, S, Append(s.body, c), e, FALSE, FALSE, "open")

\* A parenthesis that counts.
LEMMA FollowsNested ==
    ASSUME NEW S, NEW c \in S, c \in Blank, NEW line, NEW d \in Nat, NEW h \in Nat, NEW k \in Nat, k = h + 1,
           NEW s, Follows(s, S, line, h, d), s.state = "open", line[k] \in {"(", ")"},
           Bare(line, k), NEW e \in Int, e = d + Level(line, k), NEW t,
           Nested(t, S, s, c, e),
           ~InQuotes(line, k + 1), ~Escaped(line, k + 1)
    PROVE  Follows(t, S, line, k, d)
<1>1. /\ s \in Scan(S) /\ \A j \in 1 .. h : d + Level(line, j) >= 0
      /\ Nonblank(s.body) # {} <=> WordsTo(line, h)
  BY Zenon DEF Follows
<1>2. k > 0 /\ k - 1 = h /\ \A j : j \in 1 .. k <=> j = k \/ j \in 1 .. h
  BY NextNumber, Zenon
<1>3. ~InComment(line, k) /\ ~WordAt(line, k)
  BY Zenon DEF Bare, WordAt
<1>4. WordsTo(line, k) <=> WordsTo(line, h)
  <2>1. WordsTo(line, k) <=> WordsTo(line, k - 1) \/ WordAt(line, k)
    BY <1>2, WordsNext, Zenon
  <2> QED
    BY <1>2, <1>3, <2>1, Zenon
<1>5. CASE e < 0
  <2>1. t \in Scan(S) /\ t.state = "unbalanced"
    BY <1>5, Zenon DEF Became, Nested
  <2>2. \E j \in 1 .. k : d + Level(line, j) < 0
    BY <1>2, <1>5, Zenon
  <2> QED
    BY <2>1, <2>2, Zenon DEF Follows
<1>6. CASE ~(e < 0)
  <2>1. /\ t \in Scan(S) /\ t.body = Append(s.body, c) /\ t.depth = e /\ t.state = "open"
        /\ ~t.quoted /\ ~t.escaped
    BY <1>6, Zenon DEF Became, Nested
  <2>2. e >= 0
    BY <1>6
  <2>3. \A j \in 1 .. k : d + Level(line, j) >= 0
    BY <1>1, <1>2, <2>2, Zenon
  <2>4. s.body \in Seq(S)
    BY <1>1, ScanTyped, Zenon
  <2>5. Nonblank(t.body) # {} <=> WordsTo(line, k)
    <3>1. Nonblank(Append(s.body, c)) # {} <=> Nonblank(s.body) # {} \/ c \notin Blank
      BY <2>4, NonblankAppend, Zenon
    <3> QED
      BY <1>1, <1>4, <2>1, <3>1, Zenon
  <2> QED
    BY <1>3, <2>1, <2>2, <2>3, <2>5, Zenon DEF Follows
<1> QED
  BY <1>5, <1>6, Zenon

LEMMA FollowsNext ==
    ASSUME NEW S, Spaced(S), NEW line, NEW d \in Nat, NEW h \in Nat, NEW k \in Nat, k = h + 1,
           NEW s, Follows(s, S, line, h, d), line[k] \in S
    PROVE  Follows(Scanned(s, line[k]), S, line, k, d)
<1> DEFINE c == line[k]
           t == Scanned(s, c)
<1>1. k > 0 /\ k - 1 = h /\ \A j : j \in 1 .. k <=> j = k \/ j \in 1 .. h
  BY NextNumber, Zenon
<1>2. s \in Scan(S)
  BY Zenon DEF Follows
<1>3. s.state \in {"open", "comment", "unbalanced"}
  BY <1>2 DEF Scan
<1>4. /\ Escaped(line, k + 1) <=> line[k] = "\\" /\ ~Escaped(line, k)
      /\ InQuotes(line, k + 1) <=> ~(InQuotes(line, k) <=> line[k] = "\"" /\ ~Escaped(line, k))
  BY <1>1, EscapedNext, QuotesNext, Zenon
<1>5. InComment(line, k) <=> InComment(line, h) \/ Starts(line, k)
  <2>1. InComment(line, k) <=> InComment(line, k - 1) \/ Starts(line, k)
    BY <1>1, CommentNext, Zenon
  <2> QED
    BY <1>1, <2>1, Zenon
<1>6. CASE s.state = "unbalanced"
  <2>1. t = s
    BY <1>6, ScannedOver, Zenon
  <2>2. \E j \in 1 .. h : d + Level(line, j) < 0
    BY <1>6, Zenon DEF Follows
  <2>3. \E j \in 1 .. k : d + Level(line, j) < 0
    BY <1>1, <2>2, Zenon
  <2> QED
    BY <1>2, <1>6, <2>1, <2>3, Zenon DEF Follows
<1>7. CASE s.state = "comment"
  <2>1. t = s
    BY <1>7, ScannedOver, Zenon
  <2>2. InComment(line, k) /\ s.state # "unbalanced"
    BY <1>5, <1>7, Zenon DEF Follows
  <2> QED
    BY <1>2, <1>7, <2>1, <2>2, FollowsComment, Zenon
<1>8. CASE s.state = "open"
  <2>1. /\ s.escaped <=> Escaped(line, k)
        /\ s.quoted <=> InQuotes(line, k)
        /\ ~InComment(line, h) /\ s.depth = d + Level(line, h) /\ s.state # "unbalanced"
    <3>1. /\ s.escaped <=> Escaped(line, h + 1)
          /\ s.quoted <=> InQuotes(line, h + 1)
          /\ ~InComment(line, h) /\ s.depth = d + Level(line, h) /\ s.state # "unbalanced"
      BY <1>8, Zenon DEF Follows
    <3> QED
      BY <3>1, k = h + 1, Zenon
  <2>2. CASE Escaped(line, k)
    <3>1. Became(t, S, Append(s.body, c), s.depth, s.quoted, FALSE, "open")
      BY <1>2, <1>8, <2>1, <2>2, ScannedPlain, Zenon
    <3>2. (InQuotes(line, k + 1) <=> s.quoted) /\ ~Escaped(line, k + 1)
      BY <1>4, <2>1, <2>2, Zenon
    <3>3. Became(t, S, Append(s.body, c), s.depth, InQuotes(line, k + 1), Escaped(line, k + 1), "open")
      BY <3>1, <3>2, Zenon DEF Became
    <3>4. ~InComment(line, k) /\ ~Bare(line, k)
      BY <1>5, <2>1, <2>2, Zenon DEF Starts, Bare
    <3> QED
      BY <1>8, <3>3, <3>4, FollowsKept, Zenon
  <2>3. CASE ~Escaped(line, k) /\ c = "\\"
    <3>0. "\\" # "\"" /\ "\\" # ";" /\ "\\" \notin {"(", ")"}
      BY Zenon
    <3>1. Became(t, S, Append(s.body, c), s.depth, s.quoted, TRUE, "open")
      BY <1>2, <1>8, <2>1, <2>3, ScannedPlain, Zenon
    <3>2. (InQuotes(line, k + 1) <=> s.quoted) /\ Escaped(line, k + 1)
      BY <1>4, <2>1, <2>3, <3>0, Zenon
    <3>3. Became(t, S, Append(s.body, c), s.depth, InQuotes(line, k + 1), Escaped(line, k + 1), "open")
      BY <3>1, <3>2, Zenon DEF Became
    <3>4. ~InComment(line, k) /\ line[k] \notin {"(", ")"}
      BY <1>5, <2>1, <2>3, <3>0, Zenon DEF Starts
    <3> QED
      BY <1>8, <3>3, <3>4, FollowsKept, Zenon
  <2>4. CASE ~Escaped(line, k) /\ c = "\""
    <3>0. "\\" # "\"" /\ "\"" # ";" /\ "\"" \notin {"(", ")"}
      BY Zenon
    <3>1. Became(t, S, Append(s.body, c), s.depth, ~s.quoted, FALSE, "open")
      BY <1>2, <1>8, <2>1, <2>4, ScannedPlain, Zenon
    <3>2. (InQuotes(line, k + 1) <=> ~s.quoted) /\ ~Escaped(line, k + 1)
      BY <1>4, <2>1, <2>4, <3>0, Zenon
    <3>3. Became(t, S, Append(s.body, c), s.depth, InQuotes(line, k + 1), Escaped(line, k + 1), "open")
      BY <3>1, <3>2, Zenon DEF Became
    <3>4. ~InComment(line, k) /\ line[k] \notin {"(", ")"}
      BY <1>5, <2>1, <2>4, <3>0, Zenon DEF Starts
    <3> QED
      BY <1>8, <3>3, <3>4, FollowsKept, Zenon
  <2>5. CASE ~Escaped(line, k) /\ c # "\\" /\ c # "\"" /\ (InQuotes(line, k) \/ c \notin {";", "(", ")"})
    <3>1. Became(t, S, Append(s.body, c), s.depth, s.quoted, FALSE, "open")
      BY <1>2, <1>8, <2>1, <2>5, ScannedPlain, Zenon
    <3>2. (InQuotes(line, k + 1) <=> s.quoted) /\ ~Escaped(line, k + 1)
      BY <1>4, <2>1, <2>5, Zenon
    <3>3. Became(t, S, Append(s.body, c), s.depth, InQuotes(line, k + 1), Escaped(line, k + 1), "open")
      BY <3>1, <3>2, Zenon DEF Became
    <3>4. ~InComment(line, k) /\ (~Bare(line, k) \/ line[k] \notin {"(", ")"})
      BY <1>5, <2>1, <2>5, Zenon DEF Starts, Bare
    <3> QED
      BY <1>8, <3>3, <3>4, FollowsKept, Zenon
  <2>6. CASE ~Escaped(line, k) /\ ~InQuotes(line, k) /\ c = ";"
    <3>1. Became(t, S, s.body, s.depth, FALSE, FALSE, "comment")
      BY <1>2, <1>8, <2>1, <2>6, ScannedBare, Zenon
    <3>2. t \in Scan(S) /\ t.body = s.body /\ t.depth = s.depth /\ t.state = "comment"
      BY <3>1, Zenon DEF Became
    <3>3. InComment(line, k)
      BY <1>5, <2>6, Zenon DEF Starts
    <3> QED
      BY <2>1, <3>2, <3>3, FollowsComment, Zenon
  <2>7. ASSUME ~Escaped(line, k), ~InQuotes(line, k), c \in {"(", ")"}
        PROVE  Follows(t, S, line, k, d)
    <3>0. c # ";" /\ c # "\\" /\ c # "\""
      BY <2>7, Zenon
    <3> DEFINE e == d + Level(line, k)
    <3>1. Bare(line, k)
      BY <1>5, <2>1, <2>7, <3>0, Zenon DEF Starts, Bare
    <3>2. Level(line, k) \in Int /\ Level(line, h) \in Int
      BY LevelNext, Zenon
    <3>3. /\ c = "(" => Level(line, k) = Level(line, h) + 1
          /\ c = ")" => Level(line, k) = Level(line, h) - 1
      BY <1>1, <3>1, LevelNext, Zenon
    <3>4. e \in Int /\ e = d + Level(line, k)
      BY <3>2
    <3>5. (c = "(" /\ e = s.depth + 1) \/ (c = ")" /\ e = s.depth - 1)
      <4>1. s.depth = d + Level(line, h)
        BY <2>1
      <4> QED
        BY <2>7, <3>2, <3>3, <3>4, <4>1
    <3> DEFINE b == " "
    <3>6. b \in Blank /\ b \in S
      BY Zenon DEF Blank, Spaced
    <3>7. Nested(t, S, s, b, e)
      BY <1>2, <1>8, <2>1, <2>7, <3>4, <3>5, ScannedBare, Zenon DEF Nested
    <3>8. ~InQuotes(line, k + 1) /\ ~Escaped(line, k + 1)
      BY <1>4, <2>7, <3>0, Zenon
    <3> HIDE DEF b, e
    <3> QED
      BY <1>8, <2>7, <3>1, <3>4, <3>6, <3>7, <3>8, FollowsNested, Zenon
  <2> QED
    BY <2>2, <2>3, <2>4, <2>5, <2>6, <2>7, Zenon
<1> QED
  BY <1>3, <1>6, <1>7, <1>8, Zenon

\* A parenthesis too many if there is one, else the depth behind the line and whether
\* there are words in it.
Sums(s, S, line, d) ==
    /\ s \in Scan(S)
    /\ s.state = "unbalanced" <=> \E j \in DOMAIN line : d + Level(line, j) < 0
    /\ s.state # "unbalanced" =>
        /\ s.depth = d + Level(line, Len(line)) /\ s.depth \in Nat
        /\ Nonblank(s.body) # {} <=> Worded(line)

\* What strip_strict_line finds in any line.
LEMMA StripIs ==
    ASSUME NEW S, Spaced(S), NEW line \in Seq(S), NEW d \in Nat,
           NEW s, s = strip_strict_line(line, d)
    PROVE  Sums(s, S, line, d)
<1> DEFINE n == Len(line)
<1>1. n \in Nat /\ DOMAIN line = 1 .. n /\ d \in Int /\ \A i \in 1 .. n : line[i] \in S
  OBVIOUS
<1>2. PICK f : /\ f[0] = Unread(d)
               /\ \A i \in 1 .. n : f[i] = Scanned(f[i - 1], line[i])
               /\ strip_strict_line(line, d) = f[n]
  BY <1>1, ScanIs, Zenon
<1> DEFINE T == {k \in Nat : k <= n => Follows(f[k], S, line, k, d)}
<1>3. 0 \in T
  <2>1. Follows(f[0], S, line, 0, d)
    BY <1>2, FollowsFirst, Zenon
  <2> QED
    BY <2>1
<1> HIDE DEF n
<1>4. ASSUME NEW h \in T PROVE h + 1 \in T
  <2> DEFINE k == h + 1
  <2>1. h \in Nat /\ k \in Nat /\ k - 1 = h
    OBVIOUS
  <2> SUFFICES ASSUME k <= n PROVE Follows(f[k], S, line, k, d)
    BY <2>1
  <2>2. k \in 1 .. n /\ h <= n
    BY <1>1, <2>1
  <2>3. Follows(f[h], S, line, h, d)
    BY <2>2
  <2>4. k = h + 1
    OBVIOUS
  <2> HIDE DEF k, T
  <2>5. f[k] = Scanned(f[h], line[k])
    BY <1>2, <2>1, <2>2, Zenon
  <2>6. line[k] \in S
    BY <1>1, <2>2, Zenon
  <2> QED
    BY <2>1, <2>3, <2>4, <2>5, <2>6, FollowsNext, Zenon
<1>5. Nat = T
  <2> HIDE DEF T
  <2>1. T \subseteq Nat
    BY DEF T
  <2> QED
    BY <1>3, <1>4, <2>1, Induction
<1>6. Follows(s, S, line, n, d)
  <2>1. n \in T
    BY <1>1, <1>5, Zenon
  <2>2. n <= n
    BY <1>1
  <2> QED
    BY <1>2, <2>1, <2>2, Zenon
<1> HIDE DEF T
<1>7. /\ s \in Scan(S)
      /\ s.state # "unbalanced" =>
           /\ s.depth = d + Level(line, n) /\ s.depth >= 0
           /\ \A j \in 1 .. n : d + Level(line, j) >= 0
           /\ Nonblank(s.body) # {} <=> WordsTo(line, n)
      /\ s.state = "unbalanced" => \E j \in 1 .. n : d + Level(line, j) < 0
  BY <1>6, Zenon DEF Follows
<1>8. Worded(line) <=> WordsTo(line, n)
  BY WordedIs, Zenon DEF n
<1>9. s.depth \in Int /\ \A x \in Int : x >= 0 <=> ~(x < 0)
  BY <1>7, ScanTyped
<1>10. \A j \in Nat : d + Level(line, j) \in Int
  <2>1. \A j \in Nat : Level(line, j) \in Int
    BY LevelNext, Zenon
  <2> QED
    BY <2>1
<1>11. s.state = "unbalanced" <=> \E j \in 1 .. n : d + Level(line, j) < 0
  <2>1. \A j \in 1 .. n : j \in Nat
    OBVIOUS
  <2> QED
    BY <1>7, <1>9, <1>10, <2>1, Zenon
<1>12. s.depth >= 0 => s.depth \in Nat
  BY <1>9
<1> QED
  BY <1>1, <1>7, <1>8, <1>11, <1>12, Zenon DEF n, Sums

-----------------------------------------------------------------------------
(* The depth behind the lines, and where they do not match *)

LEMMA NestingIs ==
    ASSUME NEW S, NEW ls \in Seq(Seq(S))
    PROVE  /\ Nesting(ls)[0] = 0
           /\ \A n \in 1 .. Len(ls) : Nesting(ls)[n] = Nesting(ls)[n - 1] + Level(ls[n], Len(ls[n]))
           /\ \A n \in 0 .. Len(ls) : Nesting(ls)[n] \in Int
<1> DEFINE N == Len(ls)
           rise(n) == Level(ls[n], Len(ls[n]))
           H(f) == [n \in 0 .. N |-> IF n = 0 THEN 0 ELSE f[n - 1] + rise(n)]
           nest == CHOOSE f : f = H(f)
           step == [n \in 1 .. N |-> [x \in Int |-> x + rise(n)]]
<1>1. N \in Nat /\ \A n \in 1 .. N : ls[n] \in Seq(S)
  OBVIOUS
<1>2. \A n \in 1 .. N : rise(n) \in Int
  <2>1. \A n \in 1 .. N : Len(ls[n]) \in Nat
    BY <1>1
  <2> QED
    BY <2>1, LevelNext, Zenon
<1> HIDE DEF rise, N
<1>3. step \in [1 .. N -> [Int -> Int]]
  BY <1>2
<1>4. \A n \in 1 .. N : \A x \in Int : step[n][x] = x + rise(n)
  OBVIOUS
<1> HIDE DEF step
<1> DEFINE zero == 0
<1>5. PICK f \in [0 .. N -> Int] : Progresses(f, N, zero, step)
  <2>1. N \in Nat /\ zero \in Int
    BY <1>1
  <2> HIDE DEF zero
  <2> QED
    BY ONLY <1>3, <2>1, ProgressExists, Zenon
<1>6. f[0] = 0 /\ \A n \in 1 .. N : f[n] = step[n][f[n - 1]]
  <2>1. N \in Nat
    BY <1>1
  <2> HIDE DEF zero
  <2>2. \A g : Progresses(g, N, zero, step) =>
                 g[0] = zero /\ \A n \in 1 .. N : g[n] = step[n][g[n - 1]]
    BY ONLY <2>1, ProgressAt
  <2> QED
    BY <1>5, <2>2, Zenon DEF zero
<1>7. \A n \in 1 .. N : n - 1 \in 0 .. N /\ n \in 0 .. N
  BY <1>1
<1>8. f = H(f)
  <2>1. \A n \in 1 .. N : f[n - 1] \in Int
    BY <1>7, Zenon
  <2>2. \A n \in 1 .. N : f[n] = f[n - 1] + rise(n)
    BY <1>4, <1>6, <2>1, Zenon
  <2>3. \A n \in 0 .. N : n = 0 \/ n \in 1 .. N
    BY <1>1
  <2>4. \A n \in 0 .. N : f[n] = IF n = 0 THEN 0 ELSE f[n - 1] + rise(n)
    BY <1>6, <2>2, <2>3, Zenon
  <2>5. f = [n \in 0 .. N |-> f[n]]
    OBVIOUS
  <2> QED
    BY <2>4, <2>5, Zenon
<1>9. nest = H(nest)
  <2> HIDE DEF H
  <2> QED
    BY <1>8, Zenon
<1>10. Nesting(ls) = nest
  BY Zenon DEF Nesting, rise, N
<1> HIDE DEF nest
<1>11. nest[0] = 0
  <2>1. 0 \in 0 .. N
    BY <1>1
  <2> QED
    BY <1>9, <2>1, Zenon
<1>12. ASSUME NEW n \in 1 .. N PROVE nest[n] = nest[n - 1] + rise(n)
  <2>1. n \in 0 .. N /\ n # 0
    BY <1>1
  <2> QED
    BY <1>9, <2>1, Zenon
<1> DEFINE T == {n \in Nat : n <= N => nest[n] \in Int}
<1>13. 0 \in T
  BY <1>11
<1>14. ASSUME NEW n \in T PROVE n + 1 \in T
  <2>1. n \in Nat /\ n + 1 \in Nat /\ (n + 1 <= N => n <= N /\ n + 1 \in 1 .. N)
    BY <1>1
  <2> SUFFICES ASSUME n + 1 <= N PROVE nest[n + 1] \in Int
    BY <2>1
  <2> DEFINE k == n + 1
  <2>2. k \in 1 .. N /\ k - 1 = n
    BY <2>1
  <2> HIDE DEF k
  <2>3. nest[k] = nest[n] + rise(k)
    BY <1>12, <2>2, Zenon
  <2>4. nest[n] \in Int /\ rise(k) \in Int
    BY <1>2, <2>1, <2>2
  <2>5. nest[k] \in Int
    BY <2>3, <2>4
  <2> QED
    BY <2>5 DEF k
<1>15. Nat = T
  <2> HIDE DEF T
  <2>1. T \subseteq Nat
    BY DEF T
  <2> QED
    BY <1>13, <1>14, <2>1, Induction
<1>16. \A n \in 0 .. N : nest[n] \in Int
  BY <1>15
<1> QED
  BY <1>10, <1>11, <1>12, <1>16, Zenon DEF rise, N

\* What is known when k lines are read: d is the depth behind them and c the line that
\* began what is still being joined, or 0.
Joins(ls, k, d, c) ==
    /\ k \in 0 .. Len(ls) /\ d \in Nat /\ c \in 0 .. k /\ d = Nesting(ls)[k]
    /\ \A m \in 1 .. k : ~Overclosed(ls, m)
    /\ c # 0 => /\ d # 0 /\ Worded(ls[c])
                /\ \A m \in c .. k : Nesting(ls)[m] > 0
    /\ \A n \in 1 .. k : Worded(ls[n]) /\ (\A m \in n .. k : Nesting(ls)[m] # 0) => c # 0 /\ c <= n

LEMMA JoinsFirst ==
    ASSUME NEW S, NEW ls \in Seq(Seq(S))
    PROVE  Joins(ls, 0, 0, 0)
<1>1. Nesting(ls)[0] = 0
  BY NestingIs, Zenon
<1>2. Len(ls) \in Nat
  OBVIOUS
<1>3. 0 \in 0 .. Len(ls) /\ 0 \in Nat /\ 0 \in 0 .. 0 /\ \A m : m \notin 1 .. 0
  BY <1>2
<1> QED
  BY <1>1, <1>3, Zenon DEF Joins

\* What is found in line n, and what there is.
Agrees(s, ls, n) ==
    /\ n \in DOMAIN ls
    /\ s.state = "unbalanced" <=> Overclosed(ls, n)
    /\ s.state # "unbalanced" =>
        /\ s.depth = Nesting(ls)[n] /\ s.depth \in Nat
        /\ Nonblank(s.body) # {} <=> Worded(ls[n])

LEMMA Overcloses ==
    ASSUME NEW S, Spaced(S), NEW ls \in Seq(Seq(S)), NEW k \in 0 .. Len(ls) - 1,
           NEW n, n = k + 1, NEW d \in Nat, d = Nesting(ls)[k],
           NEW s, s = strip_strict_line(ls[n], d)
    PROVE  Agrees(s, ls, n)
<1>1. n - 1 = k /\ n \in 1 .. Len(ls) /\ DOMAIN ls = 1 .. Len(ls) /\ ls[n] \in Seq(S)
  OBVIOUS
<1>2. Nesting(ls)[n] = Nesting(ls)[n - 1] + Level(ls[n], Len(ls[n]))
  BY <1>1, NestingIs, Zenon
<1>3. Overclosed(ls, n) <=> \E j \in DOMAIN ls[n] : d + Level(ls[n], j) < 0
  BY <1>1, Zenon DEF Overclosed
<1>4. /\ s.state = "unbalanced" <=> \E j \in DOMAIN ls[n] : d + Level(ls[n], j) < 0
      /\ s.state # "unbalanced" =>
           /\ s.depth = d + Level(ls[n], Len(ls[n])) /\ s.depth \in Nat
           /\ Nonblank(s.body) # {} <=> Worded(ls[n])
  <2> DEFINE line == ls[n]
  <2>1. line \in Seq(S) /\ s = strip_strict_line(line, d)
    BY <1>1, Zenon
  <2> HIDE DEF line
  <2>2. Sums(s, S, line, d)
    BY ONLY <2>1, Spaced(S), d \in Nat, StripIs, Zenon
  <2> QED
    BY <2>2, Zenon DEF line, Sums
<1> QED
  BY <1>1, <1>2, <1>3, <1>4, Zenon DEF Agrees

\* One line more, if it has no parenthesis too many: w tells whether it has words in it,
\* x which line begins what is joined behind it.
LEMMA JoinsNext ==
    ASSUME NEW S, NEW ls \in Seq(Seq(S)), NEW k \in 0 .. Len(ls) - 1, NEW n, n = k + 1,
           NEW d, NEW c, Joins(ls, k, d, c), ~Overclosed(ls, n),
           NEW e \in Nat, e = Nesting(ls)[n], NEW x,
           c = 0 /\ ~Worded(ls[n]) => x = 0,
           c # 0 \/ Worded(ls[n]) => x = IF e = 0 THEN 0 ELSE IF c = 0 THEN n ELSE c
    PROVE  Joins(ls, n, e, x)
<1> DEFINE nest == Nesting(ls)
<1>1. /\ k \in 0 .. Len(ls) /\ d \in Nat /\ c \in 0 .. k /\ d = nest[k]
      /\ \A m \in 1 .. k : ~Overclosed(ls, m)
      /\ c # 0 => Worded(ls[c]) /\ \A m \in c .. k : nest[m] > 0
      /\ \A j \in 1 .. k : Worded(ls[j]) /\ (\A m \in j .. k : nest[m] # 0) => c # 0 /\ c <= j
  BY Zenon DEF Joins
<1> HIDE DEF nest
<1>2. /\ k \in Nat /\ n \in Nat /\ n # 0 /\ n \in 0 .. Len(ls) /\ c \in Nat /\ c \in 0 .. n
      /\ n \in 0 .. n /\ 0 \in 0 .. n /\ n <= n /\ n \in n .. n /\ \A m \in n .. n : m = n
      /\ \A m : m \in 1 .. n <=> m = n \/ m \in 1 .. k
      /\ c # 0 => c <= n
  BY <1>1
<1>3. \A j \in 1 .. n : n \in j .. n /\ \A m \in j .. n : m = n \/ m \in j .. k
  BY <1>2
<1>4. \A j \in 1 .. k : \A m \in j .. k : m \in j .. n
  BY <1>2
<1>5. c # 0 => c \in 1 .. n
  BY <1>2
<1>6. e = nest[n]
  BY Zenon DEF nest
<1>7. \A m \in 1 .. n : ~Overclosed(ls, m)
  BY <1>1, <1>2, Zenon
<1>8. e # 0 <=> e > 0
  OBVIOUS
<1>9. CASE c = 0 /\ ~Worded(ls[n])
  <2>1. x = 0
    BY <1>9, Zenon
  <2>2. \A j \in 1 .. n : ~(Worded(ls[j]) /\ \A m \in j .. n : nest[m] # 0)
    BY <1>1, <1>2, <1>4, <1>9, Zenon
  <2> QED
    BY <1>2, <1>6, <1>7, <2>1, <2>2, Zenon DEF Joins, nest
<1>10. CASE (c # 0 \/ Worded(ls[n])) /\ e = 0
  <2>1. x = 0
    BY <1>10, Zenon
  <2>2. \A j \in 1 .. n : ~(\A m \in j .. n : nest[m] # 0)
    BY <1>3, <1>6, <1>10, Zenon
  <2> QED
    BY <1>2, <1>6, <1>7, <2>1, <2>2, Zenon DEF Joins, nest
<1>11. CASE c = 0 /\ Worded(ls[n]) /\ e # 0
  <2>1. x = n
    BY <1>11, Zenon
  <2>2. \A m \in n .. n : nest[m] > 0
    BY <1>2, <1>6, <1>8, <1>11, Zenon
  <2>3. \A j \in 1 .. n : Worded(ls[j]) /\ (\A m \in j .. n : nest[m] # 0) => n <= j
    BY <1>1, <1>2, <1>4, <1>11, Zenon
  <2> QED
    BY <1>2, <1>6, <1>7, <1>11, <2>1, <2>2, <2>3, Zenon DEF Joins, nest
<1>12. CASE c # 0 /\ e # 0
  <2>1. x = c
    BY <1>12, Zenon
  <2>2. \A m \in c .. n : nest[m] > 0
    BY <1>1, <1>3, <1>5, <1>6, <1>8, <1>12, Zenon
  <2>3. \A j \in 1 .. n : Worded(ls[j]) /\ (\A m \in j .. n : nest[m] # 0) => c <= j
    BY <1>1, <1>2, <1>4, <1>12, Zenon
  <2> QED
    BY <1>1, <1>2, <1>6, <1>7, <1>12, <2>1, <2>2, <2>3, Zenon DEF Joins, nest
<1> QED
  BY <1>9, <1>10, <1>11, <1>12, Zenon

\* Behind the last line: all matches if nothing is being joined, else what a line with
\* words in it opened or continued is not closed.
LEMMA JoinedAll ==
    ASSUME NEW S, NEW ls \in Seq(Seq(S)), NEW d, NEW c, Joins(ls, Len(ls), d, c)
    PROVE  Matched(ls) <=> c = 0
<1> DEFINE N == Len(ls)
           nest == Nesting(ls)
<1>1. N \in Nat /\ DOMAIN ls = 1 .. N
  OBVIOUS
<1>2. /\ c \in 0 .. N
      /\ \A m \in 1 .. N : ~Overclosed(ls, m)
      /\ c # 0 => Worded(ls[c]) /\ \A m \in c .. N : nest[m] > 0
      /\ \A j \in 1 .. N : Worded(ls[j]) /\ (\A m \in j .. N : nest[m] # 0) => c # 0 /\ c <= j
  BY Zenon DEF Joins
<1>3. Matched(ls) <=> \A n \in 1 .. N : Worded(ls[n]) => \E m \in n .. N : nest[m] = 0
  BY <1>1, <1>2, Zenon DEF Matched
<1>4. c # 0 => c \in 1 .. N
  BY <1>1, <1>2
<1>5. ~(0 > 0)
  OBVIOUS
<1> QED
  BY <1>2, <1>3, <1>4, <1>5, Zenon

-----------------------------------------------------------------------------
(* What a text is refused for *)

Mismatch == {"unbalanced", "unclosed"}

Refused(ls, e) ==
    /\ e = [line |-> e.line, why |-> e.why]
    /\ \/ /\ e.why = "unbalanced" /\ e.line \in DOMAIN ls
          /\ Overclosed(ls, e.line) /\ \A m \in 1 .. e.line - 1 : ~Overclosed(ls, m)
       \/ e.why = "unclosed" /\ e.line # 0 /\ \E d : Joins(ls, Len(ls), d, e.line)
       \/ e.why \notin Mismatch /\ Matched(ls)

\* A text that does not match has one place where it does not.
LEMMA RefusedThere ==
    ASSUME NEW S, NEW ls \in Seq(Seq(S)), NEW f, NEW why, UnmatchedAt(ls, f, why)
    PROVE  /\ ~Matched(ls)
           /\ \A e : Refused(ls, e) => e.line = f /\ e.why = why
<1> DEFINE N == Len(ls)
           nest == Nesting(ls)
<1>1. N \in Nat /\ DOMAIN ls = 1 .. N
  OBVIOUS
<1>2. f \in 1 .. N
  BY <1>1, Zenon DEF UnmatchedAt
<1>3. \A n \in 0 .. N : nest[n] \in Int
  BY NestingIs, Zenon
<1>4. \A n \in 0 .. N : nest[n] > 0 => nest[n] # 0
  BY <1>3
<1> HIDE DEF nest
<1>5. CASE why = "unbalanced"
  <2>1. Overclosed(ls, f) /\ \A m \in 1 .. f - 1 : ~Overclosed(ls, m)
    BY <1>5, Zenon DEF UnmatchedAt
  <2>2. ~Matched(ls)
    BY <1>1, <1>2, <2>1, Zenon DEF Matched
  <2>3. ASSUME NEW e, Refused(ls, e) PROVE e.line = f /\ e.why = why
    <3>1. CASE e.why = "unbalanced" /\ e.line \in DOMAIN ls /\ Overclosed(ls, e.line)
               /\ \A m \in 1 .. e.line - 1 : ~Overclosed(ls, m)
      <4>1. e.line \in 1 .. N
        BY <1>1, <3>1, Zenon
      <4>2. e.line \notin 1 .. f - 1 /\ f \notin 1 .. e.line - 1
        BY <2>1, <3>1, Zenon
      <4>3. e.line = f
        BY <1>1, <1>2, <4>1, <4>2
      <4> QED
        BY <1>5, <3>1, <4>3, Zenon
    <3>2. ~\E d : Joins(ls, Len(ls), d, e.line)
      BY <1>2, <2>1, Zenon DEF Joins
    <3> QED
      BY <2>2, <2>3, <3>1, <3>2, Zenon DEF Refused
  <2> QED
    BY <2>2, <2>3, Zenon
<1>6. CASE why = "unclosed"
  <2>1. /\ \A m \in 1 .. N : ~Overclosed(ls, m)
        /\ Worded(ls[f]) /\ nest[f - 1] = 0 /\ \A m \in f .. N : nest[m] > 0
    <3>1. "unclosed" # "unbalanced"
      BY Zenon
    <3> QED
      BY <1>1, <1>6, <3>1, Zenon DEF UnmatchedAt, nest
  <2>2. \A m \in f .. N : m \in 0 .. N
    BY <1>1, <1>2
  <2>3. \A m \in f .. N : nest[m] # 0
    BY <1>4, <2>1, <2>2, Zenon
  <2>4. ~Matched(ls)
    BY <1>1, <1>2, <2>1, <2>3, Zenon DEF Matched, nest
  <2>5. ASSUME NEW e, Refused(ls, e) PROVE e.line = f /\ e.why = why
    <3>1. CASE e.why = "unclosed" /\ e.line # 0 /\ \E d : Joins(ls, Len(ls), d, e.line)
      <4> DEFINE c == e.line
      <4>1. /\ c \in 0 .. N /\ c # 0
            /\ \A m \in c .. N : nest[m] > 0
            /\ \A j \in 1 .. N : Worded(ls[j]) /\ (\A m \in j .. N : nest[m] # 0) => c <= j
        BY <3>1, Zenon DEF Joins, nest
      <4>2. c <= f
        BY <1>2, <2>1, <2>3, <4>1, Zenon
      <4> HIDE DEF c
      <4>3. f - 1 \in c .. N => f - 1 \in 0 .. N /\ nest[f - 1] > 0
        BY <1>1, <4>1
      <4>4. f - 1 \notin c .. N
        BY <1>4, <2>1, <4>3, Zenon
      <4>5. c = f
        BY <1>1, <1>2, <4>1, <4>2, <4>4
      <4> QED
        BY <1>6, <3>1, <4>5, Zenon DEF c
    <3>2. ~(e.line \in DOMAIN ls /\ Overclosed(ls, e.line))
      BY <1>1, <2>1, Zenon
    <3> QED
      BY <2>4, <2>5, <3>1, <3>2, Zenon DEF Refused
  <2> QED
    BY <2>4, <2>5, Zenon
<1> QED
  BY <1>5, <1>6, Zenon DEF UnmatchedAt

-----------------------------------------------------------------------------
(* What holds while the readers read *)

Glyphs(ls) == Characters(ls) \cup {" "}

IsLine(c) == c = [num |-> c.num, text |-> c.text, inherits |-> c.inherits]

LEMMA LineMade ==
    \A n, t, i : LET c == [num |-> n, text |-> t, inherits |-> i] IN IsLine(c) /\ c.num = n
BY DEF IsLine

LEMMA LineText ==
    \A c, z : IsLine(c) => IsLine([c EXCEPT !.text = z]) /\ [c EXCEPT !.text = z].num = c.num
<1>1. \A x, n, t, i, z : x = [num |-> n, text |-> t, inherits |-> i] =>
        [x EXCEPT !.text = z] = [num |-> n, text |-> z, inherits |-> i]
  OBVIOUS
<1> SUFFICES ASSUME NEW c, NEW z, IsLine(c)
             PROVE  IsLine([c EXCEPT !.text = z]) /\ [c EXCEPT !.text = z].num = c.num
  OBVIOUS
<1> DEFINE n == c.num
           t == c.text
           i == c.inherits
<1>2. c = [num |-> n, text |-> t, inherits |-> i]
  BY Zenon DEF IsLine
<1> HIDE DEF n, t, i
<1>3. [c EXCEPT !.text = z] = [num |-> n, text |-> z, inherits |-> i]
  BY <1>1, <1>2
<1>4. IsLine([num |-> n, text |-> z, inherits |-> i]) /\ [num |-> n, text |-> z, inherits |-> i].num = n
  BY DEF IsLine
<1>5. c.num = n
  BY Zenon DEF n
<1> QED
  BY <1>3, <1>4, <1>5, Zenon

LEMMA GlyphsHold ==
    ASSUME NEW ls, ls \in Seq(Seq(Characters(ls)))
    PROVE  Spaced(Glyphs(ls)) /\ ls \in Seq(Seq(Glyphs(ls)))
<1>1. Spaced(Glyphs(ls))
  BY Zenon DEF Spaced, Glyphs
<1> DEFINE C == Characters(ls)
           G == Glyphs(ls)
<1>2. C \subseteq G
  BY Zenon DEF Glyphs
<1>3. ls \in Seq(Seq(C))
  OBVIOUS
<1> HIDE DEF C, G
<1>4. \A l \in Seq(C) : l \in Seq(G)
  BY <1>2
<1>5. ls \in Seq(Seq(G))
  <2> DEFINE D == Seq(C)
             H == Seq(G)
  <2>1. \A l \in D : l \in H
    BY <1>4
  <2>2. ls \in Seq(D)
    BY <1>3
  <2> HIDE DEF D, H
  <2>3. ls \in Seq(H)
    BY <2>1, <2>2
  <2> QED
    BY <2>3 DEF H
<1> QED
  BY <1>1, <1>5 DEF G

-----------------------------------------------------------------------------
(* What parsing a line can come to *)

Complaint(p) == ~p.ok => p.why \notin Mismatch

LEMMA FailedIs ==
    \A why : ~Failed(why).ok /\ Failed(why).why = why
BY DEF Failed

LEMMA DirectiveEnds ==
    ASSUME NEW s, NEW fields
    PROVE  Complaint(directive(s, fields))
<1> DEFINE p == directive(s, fields)
<1>1. \A st : [ok |-> TRUE, state |-> st].ok
  OBVIOUS
<1>2. \/ \E st : p = [ok |-> TRUE, state |-> st]
      \/ p = Failed("origin") \/ p = Failed("ttl") \/ p = Failed("directive")
  BY Zenon DEF directive
<1>3. "origin" \notin Mismatch /\ "ttl" \notin Mismatch /\ "directive" \notin Mismatch
  BY Zenon DEF Mismatch
<1> HIDE DEF p
<1>4. p.ok \/ p.why \notin Mismatch
  BY <1>1, <1>2, <1>3, FailedIs, Zenon
<1> QED
  BY <1>4, Zenon DEF Complaint, p

LEMMA RecordEnds ==
    ASSUME NEW s, NEW owner, NEW line, NEW spans
    PROVE  Complaint(record(s, owner, line, spans))
<1> DEFINE p == record(s, owner, line, spans)
<1>1. \A rr : [ok |-> TRUE, rr |-> rr].ok
  OBVIOUS
<1>2. \/ \E rr : p = [ok |-> TRUE, rr |-> rr]
      \/ \E why \in {"missing type", "unknown type", "no TTL", "missing RDATA", "encoder"} : p = Failed(why)
  BY Zenon DEF record
<1>3. \A why \in {"missing type", "unknown type", "no TTL", "missing RDATA", "encoder"} : why \notin Mismatch
  BY Zenon DEF Mismatch
<1> HIDE DEF p
<1>4. p.ok \/ p.why \notin Mismatch
  BY <1>1, <1>2, <1>3, FailedIs, Zenon
<1> QED
  BY <1>4, Zenon DEF Complaint, p

\* A line is parsed to at most one record; what is wrong with it is not a parenthesis.
LEMMA ParseEnds ==
    ASSUME NEW s, NEW ll
    PROVE  /\ parse(s, ll).ok => parse(s, ll).rrs = <<>> \/ \E r : parse(s, ll).rrs = <<r>>
           /\ Complaint(parse(s, ll))
<1> DEFINE p == parse(s, ll)
           spans == field_spans(ll.text)
           fields == [k \in DOMAIN spans |-> Field(ll.text, spans[k])]
           told == directive(s, fields)
           owner == IF ll.inherits THEN s.prev_owner ELSE absolute(fields[1], s.origin)
           parsed == record(s, owner, ll.text, IF ll.inherits THEN spans ELSE Tail(spans))
<1>1. \A st, rs : /\ [ok |-> TRUE, state |-> st, rrs |-> rs].ok
                  /\ [ok |-> TRUE, state |-> st, rrs |-> rs].rrs = rs
                  /\ [ok |-> TRUE, rrs |-> rs, state |-> st].ok
                  /\ [ok |-> TRUE, rrs |-> rs, state |-> st].rrs = rs
  OBVIOUS
<1>2. Complaint(told) /\ Complaint(parsed)
  BY DirectiveEnds, RecordEnds, Zenon
<1> HIDE DEF told, parsed, owner
<1>3. \/ \E st : p = [ok |-> TRUE, state |-> st, rrs |-> <<>>]
      \/ p = told /\ ~told.ok
      \/ p = Failed("owner")
      \/ p = parsed /\ ~parsed.ok
      \/ \E st, r : p = [ok |-> TRUE, rrs |-> <<r>>, state |-> st]
  BY Zenon DEF parse, told, parsed, owner
<1>4. "owner" \notin Mismatch
  BY Zenon DEF Mismatch
<1> HIDE DEF p
<1>5. CASE \/ \E st : p = [ok |-> TRUE, state |-> st, rrs |-> <<>>]
           \/ \E st, r : p = [ok |-> TRUE, rrs |-> <<r>>, state |-> st]
  <2>1. ASSUME NEW st, p = [ok |-> TRUE, state |-> st, rrs |-> <<>>] PROVE p.ok /\ p.rrs = <<>>
    BY <1>1, <2>1
  <2>2. ASSUME NEW st, NEW r, p = [ok |-> TRUE, rrs |-> <<r>>, state |-> st] PROVE p.ok /\ p.rrs = <<r>>
    BY <1>1, <2>2
  <2>3. p.ok /\ (p.rrs = <<>> \/ \E r : p.rrs = <<r>>)
    BY <1>5, <2>1, <2>2, Zenon
  <2> QED
    BY <2>3, Zenon DEF p, Complaint
<1>6. CASE p = Failed("owner")
  <2>1. ~p.ok /\ p.why = "owner"
    BY <1>6, FailedIs, Zenon
  <2> QED
    BY <1>4, <2>1, Zenon DEF p, Complaint
<1>7. CASE (p = told /\ ~told.ok) \/ (p = parsed /\ ~parsed.ok)
  <2>1. ~p.ok /\ Complaint(p)
    BY <1>2, <1>7, Zenon
  <2> QED
    BY <2>1, Zenon DEF p
<1> QED
  BY <1>3, <1>5, <1>6, <1>7, Zenon

-----------------------------------------------------------------------------
(* The invariant of the strict reader *)

\* The text is lines of characters.
Given ==
    text \in Seq(Seq(Characters(text)))

\* The logical lines are numbered in their order, the one being joined behind them.
Numbered(c, ls, k) ==
    /\ IsLine(c) /\ c.num \in 0 .. k /\ (c.num = 0 => c = NoLine)
    /\ \E L : ls \in Seq(L)
    /\ \A i \in DOMAIN ls : /\ ls[i].num \in 1 .. k
                            /\ i > 1 => ls[i - 1].num < ls[i].num
                            /\ c.num # 0 => ls[i].num < c.num

Counted ==
    /\ at \in 0 .. Len(text) /\ depth \in Nat /\ next \in 1 .. Len(lines) + 1
    /\ \E A : out \in Seq(A)
    /\ Len(out) < next

Parenthesized ==
    /\ status = "reading" => Joins(text, at, depth, cur.num)
    /\ status = "done" => Matched(text)
    /\ status = "rejected" => Refused(text, error)

StrictInv ==
    /\ Given /\ Numbered(cur, lines, at) /\ Counted /\ Parenthesized
    /\ status \in {"reading", "done", "rejected"}

LEMMA NumberedOn ==
    ASSUME NEW c, NEW ls, NEW k \in Nat, Numbered(c, ls, k), NEW n, n = k + 1
    PROVE  Numbered(c, ls, n)
<1>1. \A i \in 0 .. k : i \in 0 .. n
  OBVIOUS
<1>2. \A i \in 1 .. k : i \in 1 .. n
  OBVIOUS
<1> QED
  BY <1>1, <1>2, Zenon DEF Numbered

\* The next physical line begins a logical line or is joined to it.
LEMMA NumberedOpen ==
    ASSUME NEW c, NEW ls, NEW k \in Nat, Numbered(c, ls, k), NEW n, n = k + 1,
           NEW o, IsLine(o), o.num = IF c.num = 0 THEN n ELSE c.num
    PROVE  Numbered(o, ls, n)
<1>1. /\ c.num \in 0 .. k /\ \E L : ls \in Seq(L)
      /\ \A i \in DOMAIN ls : /\ ls[i].num \in 1 .. k
                              /\ i > 1 => ls[i - 1].num < ls[i].num
                              /\ c.num # 0 => ls[i].num < c.num
  BY Zenon DEF Numbered
<1>2. o.num \in 1 .. n
  BY <1>1
<1>3. o.num \in 0 .. n /\ o.num # 0
  BY <1>2
<1>4. \A i \in 1 .. k : i \in 1 .. n /\ i < n
  OBVIOUS
<1>5. \A i \in DOMAIN ls : ls[i].num \in 1 .. n /\ ls[i].num < o.num
  BY <1>1, <1>4, Zenon
<1> QED
  BY <1>1, <1>3, <1>5, Zenon DEF Numbered

\* A logical line is whole.
LEMMA NumberedClose ==
    ASSUME NEW o, NEW ls, NEW n \in Nat, Numbered(o, ls, n), o.num # 0, NEW l, l.num = o.num
    PROVE  Numbered(NoLine, Append(ls, l), n) /\ Len(Append(ls, l)) = Len(ls) + 1 /\ Len(ls) \in Nat
<1> DEFINE ll == Append(ls, l)
           k == Len(ls)
<1>1. PICK L : ls \in Seq(L)
  BY Zenon DEF Numbered
<1>2. /\ ll \in Seq(L \cup {l}) /\ k \in Nat /\ Len(ll) = k + 1
      /\ DOMAIN ll = 1 .. k + 1 /\ DOMAIN ls = 1 .. k
      /\ ll[k + 1] = l /\ \A i \in 1 .. k : ll[i] = ls[i]
  BY <1>1
<1> HIDE DEF ll, k
<1>3. /\ o.num \in 0 .. n
      /\ \A i \in 1 .. k : /\ ls[i].num \in 1 .. n
                           /\ i > 1 => ls[i - 1].num < ls[i].num
                           /\ ls[i].num < o.num
  BY <1>2, Zenon DEF Numbered
<1>4. o.num \in 1 .. n
  BY <1>3
<1>5. \A i \in 1 .. k + 1 : i = k + 1 \/ i \in 1 .. k
  BY <1>2
<1>6. \A i \in 1 .. k + 1 : i > 1 => i - 1 \in 1 .. k
  BY <1>2
<1>7. k + 1 > 1 => (k + 1) - 1 \in 1 .. k /\ (k + 1) - 1 = k /\ k \in 1 .. k
  BY <1>2
<1>8. \A i \in 1 .. k + 1 : ll[i].num \in 1 .. n
  BY <1>2, <1>3, <1>4, <1>5, Zenon
<1>9. \A i \in 1 .. k + 1 : i > 1 => ll[i - 1].num < ll[i].num
  <2>1. ASSUME NEW i \in 1 .. k, i > 1 PROVE ll[i - 1].num < ll[i].num
    <3>1. i \in 1 .. k + 1
      BY <1>2
    <3> QED
      BY <1>2, <1>3, <1>6, <2>1, <3>1, Zenon
  <2>2. ASSUME k + 1 > 1 PROVE ll[(k + 1) - 1].num < ll[k + 1].num
    BY <1>2, <1>3, <1>7, <2>2, Zenon
  <2> QED
    BY <1>5, <2>1, <2>2, Zenon
<1>10. IsLine(NoLine) /\ NoLine.num = 0 /\ 0 \in 0 .. n
  BY DEF IsLine, NoLine
<1>11. Numbered(NoLine, ll, n)
  BY <1>2, <1>8, <1>9, <1>10, Zenon DEF Numbered
<1> QED
  BY <1>2, <1>11, Zenon DEF ll, k

LEMMA StrictFirst ==
    Init => StrictInv
<1> SUFFICES ASSUME Init PROVE StrictInv
  OBVIOUS
<1>1. PICK t \in Texts : text = t.lines /\ meant = t.meant
  BY Zenon DEF Init
<1>2. at = 0 /\ depth = 0 /\ cur = NoLine /\ lines = <<>> /\ next = 1 /\ out = <<>> /\ status = "reading"
  BY Zenon DEF Init
<1>3. Given
  BY <1>1, TextAssumption, Zenon DEF Given
<1>4. Spaced(Glyphs(text)) /\ text \in Seq(Seq(Glyphs(text)))
  BY <1>3, GlyphsHold, Zenon DEF Given
<1>5. Len(text) \in Nat
  BY <1>3 DEF Given
<1>6. IsLine(NoLine) /\ NoLine.num = 0 /\ 0 \in 0 .. 0
  BY DEF IsLine, NoLine
<1>7. Numbered(cur, lines, at)
  <2>1. <<>> \in Seq({}) /\ \A i : i \notin DOMAIN <<>>
    OBVIOUS
  <2> QED
    BY <1>2, <1>6, <2>1, Zenon DEF Numbered
<1>8. Counted
  <2>1. 0 \in 0 .. Len(text) /\ 0 \in Nat /\ 1 \in 1 .. Len(<<>>) + 1 /\ <<>> \in Seq({}) /\ Len(<<>>) < 1
    BY <1>5
  <2> QED
    BY <1>2, <2>1, Zenon DEF Counted
<1>9. Parenthesized
  <2>1. Joins(text, 0, 0, 0)
    BY <1>4, JoinsFirst, Zenon
  <2> QED
    BY <1>2, <1>6, <2>1, Zenon DEF Parenthesized
<1> QED
  BY <1>2, <1>3, <1>7, <1>8, <1>9, Zenon DEF StrictInv

LEMMA StripKeeps ==
    ASSUME StrictInv, Strip
    PROVE  StrictInv'
<1> DEFINE n == at + 1
           line == text[n]
           s == strip_strict_line(line, depth)
           o == Opened(line, n)
           G == Glyphs(text)
<1>1. status = "reading" /\ at < Len(text) /\ at' = n /\ text' = text /\ meant' = meant
  BY Zenon DEF Strip
<1>2. /\ s.state = "unbalanced" => Reject(n, "unbalanced")
      /\ s.state # "unbalanced" =>
           /\ depth' = s.depth
           /\ \/ cur = NoLine /\ Nonblank(s.body) = {} /\ cur' = cur /\ lines' = lines
              \/ /\ ~(cur = NoLine /\ Nonblank(s.body) = {}) /\ s.depth > 0 /\ lines' = lines
                 /\ \E z : cur' = [o EXCEPT !.text = z]
              \/ /\ ~(cur = NoLine /\ Nonblank(s.body) = {}) /\ ~(s.depth > 0) /\ cur' = NoLine
                 /\ \E y, z : lines' = Append(lines, [[o EXCEPT !.text = y] EXCEPT !.text = z])
           /\ next' = next /\ out' = out /\ status' = status
  BY Zenon DEF Strip
<1>3. Given /\ Numbered(cur, lines, at) /\ Counted /\ Joins(text, at, depth, cur.num)
  BY <1>1, Zenon DEF StrictInv, Parenthesized
<1>4. Spaced(G) /\ text \in Seq(Seq(G))
  BY <1>3, GlyphsHold, Zenon DEF Given
<1>5. Len(text) \in Nat /\ at \in 0 .. Len(text) /\ depth \in Nat /\ depth = Nesting(text)[at]
  BY <1>3, <1>4 DEF Counted, Joins
<1>6. at \in 0 .. Len(text) - 1 /\ at \in Nat /\ n \in Nat /\ n \in 0 .. Len(text) /\ n # 0 /\ n - 1 = at
  BY <1>1, <1>5
<1> HIDE DEF n, s
<1>7. n = at + 1
  BY DEF n
<1>8. /\ n \in DOMAIN text
      /\ s.state = "unbalanced" <=> Overclosed(text, n)
      /\ s.state # "unbalanced" =>
           /\ s.depth = Nesting(text)[n] /\ s.depth \in Nat
           /\ Nonblank(s.body) # {} <=> Worded(text[n])
  <2>1. s = strip_strict_line(text[n], depth)
    BY Zenon DEF s
  <2> HIDE DEF G
  <2>2. Agrees(s, text, n)
    BY ONLY <1>4, <1>5, <1>6, <1>7, <2>1, Overcloses, Zenon
  <2> QED
    BY <2>2, Zenon DEF Agrees
<1>9. Given'
  BY <1>1, <1>3, Zenon DEF Given
<1>10. CASE s.state = "unbalanced"
  <2>1. /\ status' = "rejected" /\ error' = [line |-> n, why |-> "unbalanced"]
        /\ depth' = depth /\ cur' = cur /\ lines' = lines /\ next' = next /\ out' = out
    BY <1>2, <1>10, Zenon DEF Reject
  <2>2. Numbered(cur, lines, n)
    BY <1>3, <1>6, <1>7, NumberedOn, Zenon
  <2>3. \A m \in 1 .. n - 1 : ~Overclosed(text, m)
    BY <1>3, <1>6, Zenon DEF Joins
  <2>4. Refused(text, error')
    <3>1. \A w : [line |-> n, why |-> w].line = n /\ [line |-> n, why |-> w].why = w
      OBVIOUS
    <3>2. error'.line = n /\ error'.why = "unbalanced"
      BY <2>1, <3>1, Zenon
    <3> QED
      BY <1>8, <1>10, <2>1, <2>3, <3>2, Zenon DEF Refused
  <2>5. Counted'
    BY <1>1, <1>3, <1>6, <2>1, Zenon DEF Counted
  <2>6. Parenthesized'
    BY <1>1, <2>1, <2>4, Zenon DEF Parenthesized
  <2> QED
    BY <1>1, <1>9, <2>1, <2>2, <2>5, <2>6, Zenon DEF StrictInv
<1>11. CASE s.state # "unbalanced"
  <2>1. Nonblank(s.body) = {} <=> ~Worded(text[n])
    BY <1>8, <1>11, Zenon
  <2>2. cur = NoLine <=> cur.num = 0
    <3>1. NoLine.num = 0
      BY DEF NoLine
    <3> QED
      BY <1>3, <3>1, Zenon DEF Numbered
  <2>3. IsLine(o) /\ o.num = IF cur.num = 0 THEN n ELSE cur.num
    <3>1. IsLine(cur)
      BY <1>3, Zenon DEF Numbered
    <3>2. CASE cur = NoLine
      <4>1. o = [num |-> n, text |-> <<>>, inherits |-> line[1] \in Blank]
        BY <3>2, Zenon DEF Opened
      <4> HIDE DEF o
      <4> QED
        BY <2>2, <3>2, <4>1, LineMade, Zenon
    <3>3. CASE cur # NoLine
      <4>1. o = cur
        BY <3>3, Zenon DEF Opened
      <4> QED
        BY <2>2, <3>1, <3>3, <4>1, Zenon
    <3> QED
      BY <3>2, <3>3, Zenon
  <2> HIDE DEF o
  <2>4. o.num # 0
    BY <1>6, <2>3, Zenon
  <2>5. Numbered(o, lines, n)
    BY <1>3, <1>6, <1>7, <2>3, NumberedOpen, Zenon
  <2>6. s.depth \in Nat /\ s.depth = Nesting(text)[n] /\ ~Overclosed(text, n) /\ (s.depth > 0 <=> s.depth # 0)
    <3>1. s.depth \in Nat
      BY <1>8, <1>11, Zenon
    <3>2. s.depth > 0 <=> s.depth # 0
      BY <3>1
    <3> QED
      BY <1>8, <1>11, <3>1, <3>2, Zenon
  <2>7. \A x : /\ (cur.num = 0 /\ ~Worded(text[n]) => x = 0)
               /\ (cur.num # 0 \/ Worded(text[n])
                    => x = IF s.depth = 0 THEN 0 ELSE IF cur.num = 0 THEN n ELSE cur.num)
               => Joins(text, n, s.depth, x)
    <3> DEFINE e == s.depth
               c == cur.num
    <3>1. e \in Nat /\ e = Nesting(text)[n] /\ Joins(text, at, depth, c) /\ ~Overclosed(text, n)
      BY <1>3, <2>6, Zenon
    <3> HIDE DEF e, c, G
    <3>2. ASSUME NEW x, c = 0 /\ ~Worded(text[n]) => x = 0,
                 c # 0 \/ Worded(text[n]) => x = IF e = 0 THEN 0 ELSE IF c = 0 THEN n ELSE c
          PROVE  Joins(text, n, e, x)
      <4>1. text \in Seq(Seq(G)) /\ at \in 0 .. Len(text) - 1
        BY <1>4, <1>6
      <4> QED
        BY ONLY <1>7, <3>1, <3>2, <4>1, JoinsNext
    <3> QED
      BY <3>2, Zenon DEF e, c
  <2>8. \/ cur'.num = 0 /\ cur.num = 0 /\ ~Worded(text[n]) /\ Numbered(cur, lines, n)
             /\ cur' = cur /\ lines' = lines
        \/ /\ cur.num # 0 \/ Worded(text[n])
           /\ s.depth # 0 /\ cur'.num = o.num /\ Numbered(cur', lines, n) /\ lines' = lines
        \/ /\ cur.num # 0 \/ Worded(text[n])
           /\ s.depth = 0 /\ cur'.num = 0 /\ Numbered(cur', lines', n)
           /\ Len(lines') = Len(lines) + 1 /\ Len(lines) \in Nat
    <3>1. CASE cur = NoLine /\ Nonblank(s.body) = {} /\ cur' = cur /\ lines' = lines
      <4>1. Numbered(cur, lines, n)
        BY <1>3, <1>6, <1>7, NumberedOn, Zenon
      <4> QED
        BY <2>1, <2>2, <3>1, <4>1, Zenon
    <3>2. ASSUME ~(cur = NoLine /\ Nonblank(s.body) = {}), s.depth > 0, lines' = lines,
                 NEW z, cur' = [o EXCEPT !.text = z]
          PROVE  /\ cur.num # 0 \/ Worded(text[n])
                 /\ s.depth # 0 /\ cur'.num = o.num /\ Numbered(cur', lines, n) /\ lines' = lines
      <4>1. IsLine(cur') /\ cur'.num = o.num
        BY <2>3, <3>2, LineText, Zenon
      <4>2. Numbered(cur', lines, n)
        BY <2>4, <2>5, <4>1, Zenon DEF Numbered
      <4> QED
        BY <2>1, <2>2, <2>6, <3>2, <4>1, <4>2, Zenon
    <3>3. ASSUME ~(cur = NoLine /\ Nonblank(s.body) = {}), ~(s.depth > 0), cur' = NoLine,
                 NEW y, NEW z, lines' = Append(lines, [[o EXCEPT !.text = y] EXCEPT !.text = z])
          PROVE  /\ cur.num # 0 \/ Worded(text[n])
                 /\ s.depth = 0 /\ cur'.num = 0 /\ Numbered(cur', lines', n)
                 /\ Len(lines') = Len(lines) + 1 /\ Len(lines) \in Nat
      <4> DEFINE l == [[o EXCEPT !.text = y] EXCEPT !.text = z]
      <4>1. l.num = o.num
        <5> DEFINE j == [o EXCEPT !.text = y]
        <5>1. IsLine(j) /\ j.num = o.num
          BY <2>3, LineText, Zenon
        <5> HIDE DEF j
        <5>2. [j EXCEPT !.text = z].num = j.num
          BY <5>1, LineText, Zenon
        <5> QED
          BY <5>1, <5>2, Zenon DEF j
      <4> HIDE DEF l
      <4>2. Numbered(NoLine, Append(lines, l), n) /\ Len(Append(lines, l)) = Len(lines) + 1 /\ Len(lines) \in Nat
        BY <1>6, <2>4, <2>5, <4>1, NumberedClose, Zenon
      <4>3. lines' = Append(lines, l) /\ cur' = NoLine
        BY <3>3, Zenon DEF l
      <4>4. NoLine.num = 0
        BY DEF NoLine
      <4> QED
        BY <2>1, <2>2, <2>6, <3>3, <4>2, <4>3, <4>4, Zenon
    <3> QED
      BY <1>2, <1>11, <3>1, <3>2, <3>3, Zenon
  <2>9. depth' = s.depth /\ next' = next /\ out' = out /\ status' = status
    BY <1>2, <1>11, Zenon
  <2>10. Numbered(cur', lines', n)
    BY <2>8, Zenon
  <2>11. Joins(text, n, s.depth, cur'.num)
    BY <2>3, <2>7, <2>8, Zenon
  <2>12. next \in 1 .. Len(lines') + 1
    <3>1. next \in 1 .. Len(lines) + 1
      BY <1>3, Zenon DEF Counted
    <3>2. lines' = lines \/ (Len(lines') = Len(lines) + 1 /\ Len(lines) \in Nat)
      BY <2>8, Zenon
    <3> DEFINE a == Len(lines)
               b == Len(lines')
    <3>3. next \in 1 .. a + 1 /\ (b = a \/ (b = a + 1 /\ a \in Nat))
      BY <3>1, <3>2, Zenon
    <3> HIDE DEF a, b
    <3>4. next \in 1 .. b + 1
      BY <3>3
    <3> QED
      BY <3>4, Zenon DEF b
  <2>13. Counted'
    BY <1>1, <1>3, <1>6, <2>6, <2>9, <2>12, Zenon DEF Counted
  <2>14. Parenthesized'
    BY <1>1, <2>9, <2>11, Zenon DEF Parenthesized
  <2> QED
    BY <1>1, <1>9, <2>9, <2>10, <2>13, <2>14, Zenon DEF StrictInv
<1> QED
  BY <1>10, <1>11, Zenon

LEMMA RefusedMade ==
    \A l, w : LET e == [line |-> l, why |-> w] IN
        e.line = l /\ e.why = w /\ e = [line |-> e.line, why |-> e.why]
OBVIOUS

LEMMA OpenKeeps ==
    ASSUME StrictInv, Open
    PROVE  StrictInv'
<1>1. /\ status = "reading" /\ at = Len(text) /\ cur # NoLine
      /\ status' = "rejected" /\ error' = [line |-> cur.num, why |-> "unclosed"]
      /\ text' = text /\ meant' = meant /\ at' = at /\ depth' = depth /\ cur' = cur
      /\ lines' = lines /\ next' = next /\ out' = out
  BY Zenon DEF Open, EndOfText, Unclosed, Reject
<1>2. Given /\ Numbered(cur, lines, at) /\ Counted /\ Joins(text, at, depth, cur.num)
  BY <1>1, Zenon DEF StrictInv, Parenthesized
<1>3. cur.num # 0
  BY <1>1, <1>2, Zenon DEF Numbered
<1>4. Refused(text, error')
  <2>1. error'.line = cur.num /\ error'.why = "unclosed" /\ error' = [line |-> error'.line, why |-> error'.why]
    BY <1>1, RefusedMade, Zenon
  <2>2. \E d : Joins(text, Len(text), d, cur.num)
    BY <1>1, <1>2, Zenon
  <2> QED
    BY <1>3, <2>1, <2>2, Zenon DEF Refused
<1>5. Given' /\ Counted'
  BY <1>1, <1>2, Zenon DEF Given, Counted
<1>6. Parenthesized'
  BY <1>1, <1>4, Zenon DEF Parenthesized
<1> QED
  BY <1>1, <1>2, <1>5, <1>6, Zenon DEF StrictInv

\* Behind the last line with nothing left open, the text matches.
LEMMA AllMatched ==
    ASSUME StrictInv, EndOfText, ~Unclosed
    PROVE  Matched(text) /\ Joins(text, at, depth, cur.num)
<1>1. status = "reading" /\ at = Len(text) /\ cur = NoLine
  BY Zenon DEF EndOfText, Unclosed
<1>2. Given /\ Joins(text, at, depth, cur.num)
  BY <1>1, Zenon DEF StrictInv, Parenthesized
<1>3. text \in Seq(Seq(Glyphs(text)))
  BY <1>2, GlyphsHold, Zenon DEF Given
<1>4. cur.num = 0
  BY <1>1 DEF NoLine
<1> DEFINE G == Glyphs(text)
<1> DEFINE c == cur.num
<1>5. text \in Seq(Seq(G)) /\ Joins(text, Len(text), depth, c)
  BY <1>1, <1>2, <1>3, Zenon
<1>6. Matched(text) <=> c = 0
  <2> HIDE DEF c, G
  <2> QED
    BY ONLY <1>5, JoinedAll
<1> QED
  BY <1>2, <1>4, <1>6, Zenon

LEMMA ParseKeeps ==
    ASSUME StrictInv, Parse
    PROVE  StrictInv'
<1> DEFINE p == parse(state, lines[next])
<1>1. /\ EndOfText /\ ~Unclosed /\ next <= Len(lines) /\ status = "reading"
      /\ text' = text /\ meant' = meant /\ at' = at
  BY Zenon DEF Parse, EndOfText
<1>2. /\ ~p.ok => Reject(lines[next].num, p.why)
      /\ p.ok => /\ out' = out \o p.rrs /\ next' = next + 1
                 /\ depth' = depth /\ cur' = cur /\ lines' = lines /\ status' = status
  BY Zenon DEF Parse
<1>3. (p.ok => p.rrs = <<>> \/ \E r : p.rrs = <<r>>) /\ (~p.ok => p.why \notin Mismatch)
  BY ParseEnds, Zenon DEF Complaint
<1> HIDE DEF p
<1>4. Given /\ Numbered(cur, lines, at) /\ Counted /\ Matched(text) /\ Joins(text, at, depth, cur.num)
  BY <1>1, AllMatched, Zenon DEF StrictInv
<1>5. Given'
  BY <1>1, <1>4, Zenon DEF Given
<1>6. CASE p.ok
  <2>1. /\ out' = out \o p.rrs /\ next' = next + 1
        /\ depth' = depth /\ cur' = cur /\ lines' = lines /\ status' = status
    BY <1>2, <1>6, Zenon
  <2>2. PICK A : out \in Seq(A)
    BY <1>4, Zenon DEF Counted
  <2> DEFINE R == p.rrs
             B == A \cup Range(R)
  <2>3. out' \in Seq(B) /\ Len(out') <= Len(out) + 1 /\ Len(out) \in Nat
    <3>1. CASE R = <<>>
      <4>1. out' = out \o <<>>
        BY <2>1, <3>1
      <4> HIDE DEF R, B
      <4>2. out \o <<>> = out
        BY <2>2
      <4>3. out' \in Seq(A)
        BY <2>2, <4>1, <4>2, Zenon
      <4>4. A \subseteq B
        BY DEF B
      <4>5. out' \in Seq(B)
        BY <4>3, <4>4
      <4> QED
        BY <2>2, <4>1, <4>2, <4>5
    <3>2. ASSUME NEW r, R = <<r>> PROVE out' \in Seq(B) /\ Len(out') <= Len(out) + 1 /\ Len(out) \in Nat
      <4>1. out' = out \o <<r>>
        BY <2>1, <3>2
      <4>2. r \in B
        <5>1. 1 \in DOMAIN <<r>> /\ <<r>>[1] = r
          OBVIOUS
        <5>2. r \in Range(R)
          BY <3>2, <5>1, Zenon DEF Range
        <5> QED
          BY <5>2, Zenon
      <4>3. A \subseteq B
        BY DEF B
      <4> HIDE DEF R, B
      <4>4. out \in Seq(B)
        BY <2>2, <4>3
      <4> QED
        BY <2>2, <4>1, <4>2, <4>4
    <3> QED
      BY <1>3, <1>6, <3>1, <3>2, Zenon
  <2>4. next \in 1 .. Len(lines) + 1 /\ Len(out) < next /\ next <= Len(lines) /\ at \in 0 .. Len(text) /\ depth \in Nat
    BY <1>1, <1>4, Zenon DEF Counted
  <2>5. next + 1 \in 1 .. Len(lines) + 1 /\ Len(out') < next + 1
    <3>1. \E L : lines \in Seq(L)
      BY <1>4, Zenon DEF Numbered
    <3>2. Len(lines) \in Nat
      BY <3>1
    <3>3. Len(out') \in Nat
      BY <2>3
    <3> DEFINE a == Len(lines)
               b == Len(out)
               c == Len(out')
    <3>4. a \in Nat /\ b \in Nat /\ c \in Nat /\ c <= b + 1 /\ next \in 1 .. a + 1 /\ b < next /\ next <= a
      BY <2>3, <2>4, <3>2, <3>3
    <3> HIDE DEF a, b, c
    <3>5. next + 1 \in 1 .. a + 1 /\ c < next + 1
      BY <3>4
    <3> QED
      BY <3>5 DEF a, c
  <2>6. Counted'
    BY <1>1, <2>1, <2>3, <2>4, <2>5, Zenon DEF Counted
  <2>7. Parenthesized'
    BY <1>1, <1>4, <2>1, Zenon DEF Parenthesized
  <2> QED
    BY <1>1, <1>4, <1>5, <2>1, <2>6, <2>7, Zenon DEF StrictInv
<1>7. CASE ~p.ok
  <2>1. /\ status' = "rejected" /\ error' = [line |-> lines[next].num, why |-> p.why]
        /\ depth' = depth /\ cur' = cur /\ lines' = lines /\ next' = next /\ out' = out
    BY <1>2, <1>7, Zenon DEF Reject
  <2>2. error'.why = p.why /\ error' = [line |-> error'.line, why |-> error'.why]
    BY <2>1, RefusedMade, Zenon
  <2>3. Refused(text, error')
    BY <1>3, <1>4, <1>7, <2>2, Zenon DEF Refused
  <2>4. Counted'
    BY <1>1, <1>4, <2>1, Zenon DEF Counted
  <2>5. Parenthesized'
    BY <1>1, <2>1, <2>3, Zenon DEF Parenthesized
  <2> QED
    BY <1>1, <1>4, <1>5, <2>1, <2>4, <2>5, Zenon DEF StrictInv
<1> QED
  BY <1>6, <1>7

LEMMA AddKeeps ==
    ASSUME StrictInv, Add
    PROVE  StrictInv'
<1>1. /\ EndOfText /\ ~Unclosed /\ status' = "done"
      /\ text' = text /\ meant' = meant /\ at' = at /\ depth' = depth /\ cur' = cur
      /\ lines' = lines /\ next' = next /\ out' = out
  BY Zenon DEF Add
<1>2. Given /\ Numbered(cur, lines, at) /\ Counted /\ Matched(text)
  BY <1>1, AllMatched, Zenon DEF StrictInv
<1>3. Given' /\ Counted'
  BY <1>1, <1>2, Zenon DEF Given, Counted
<1>4. Parenthesized'
  BY <1>1, <1>2, Zenon DEF Parenthesized
<1> QED
  BY <1>1, <1>2, <1>3, <1>4, Zenon DEF StrictInv

-----------------------------------------------------------------------------
(* The lenient reader adds at most one record for a line *)

LenientInv ==
    /\ seen \in 0 .. Len(text) /\ reading \in {"reading", "done", "threw"}
    /\ \E A : records \in Seq(A)
    /\ Len(records) <= Len(Before) + seen

Adds == records' = records \/ \E r : records' = Append(records, r)

LEMMA TakeEnds ==
    ASSUME NEW whole, Take(whole)
    PROVE  Adds /\ (reading' = reading \/ reading' = "threw")
BY Zenon DEF Take, Adds

LEMMA ReadEnds ==
    ASSUME Read
    PROVE  /\ seen < Len(text) /\ seen' = seen + 1 /\ Adds
           /\ reading' = reading \/ reading' = "threw"
<1>1. seen < Len(text) /\ seen' = seen + 1
  BY Zenon DEF Read
<1>2. Keep \/ \E whole : Take(whole)
  BY Zenon DEF Read
<1>3. CASE Keep
  BY <1>1, <1>3, Zenon DEF Keep, Adds
<1>4. CASE \E whole : Take(whole)
  BY <1>1, <1>4, TakeEnds, Zenon
<1> QED
  BY <1>2, <1>3, <1>4

LEMMA BeforeCounted == Len(Before) \in Nat
BY TextAssumption

LEMMA LenientFirst ==
    ASSUME Init, LenientInit
    PROVE  LenientInv
<1>1. Given
  BY StrictFirst, Zenon DEF StrictInv
<1>2. Len(text) \in Nat
  BY <1>1 DEF Given
<1>3. seen = 0 /\ records = Before /\ reading = "reading"
  BY Zenon DEF LenientInit
<1>4. \E A : Before \in Seq(A)
  BY TextAssumption, Zenon
<1>5. 0 \in 0 .. Len(text) /\ Len(Before) <= Len(Before) + 0
  BY <1>2, BeforeCounted
<1> QED
  BY <1>3, <1>4, <1>5, Zenon DEF LenientInv

LEMMA ReadKeeps ==
    ASSUME StrictInv, LenientInv, Read, text' = text
    PROVE  LenientInv'
<1>1. /\ seen < Len(text) /\ seen' = seen + 1 /\ Adds
      /\ reading' = reading \/ reading' = "threw"
  BY ReadEnds
<1>2. /\ seen \in 0 .. Len(text) /\ reading \in {"reading", "done", "threw"}
      /\ Len(records) <= Len(Before) + seen
  BY Zenon DEF LenientInv
<1>3. PICK A : records \in Seq(A)
  BY Zenon DEF LenientInv
<1>4. Len(text) \in Nat /\ Len(records) \in Nat
  BY <1>3 DEF StrictInv, Given
<1>5. (\E B : records' \in Seq(B)) /\ Len(records') \in Nat /\ Len(records') <= Len(records) + 1
  <2>1. CASE records' = records
    BY <1>3, <1>4, <2>1
  <2>2. ASSUME NEW r, records' = Append(records, r)
        PROVE  (\E B : records' \in Seq(B)) /\ Len(records') \in Nat /\ Len(records') <= Len(records) + 1
    <3> DEFINE B == A \cup {r}
    <3>1. A \subseteq B /\ r \in B
      OBVIOUS
    <3> HIDE DEF B
    <3>2. records \in Seq(B)
      BY <1>3, <3>1
    <3>3. records' \in Seq(B) /\ Len(records') = Len(records) + 1
      BY <2>2, <3>1, <3>2
    <3> QED
      BY <1>4, <3>3
  <2> QED
    BY <1>1, <2>1, <2>2, Zenon DEF Adds
<1> DEFINE a == Len(text)
           b == Len(Before)
           c == Len(records)
           d == Len(records')
<1>6. /\ a \in Nat /\ b \in Nat /\ c \in Nat /\ d \in Nat /\ seen \in 0 .. a /\ seen < a
      /\ c <= b + seen /\ d <= c + 1
  BY <1>1, <1>2, <1>4, <1>5, BeforeCounted, Zenon
<1> HIDE DEF a, b, c, d
<1>7. seen + 1 \in 0 .. a /\ d <= b + (seen + 1)
  BY <1>6
<1>8. seen' \in 0 .. Len(text') /\ Len(records') <= Len(Before) + seen'
  BY <1>1, <1>7, Zenon DEF a, b, d
<1>9. reading' \in {"reading", "done", "threw"}
  BY <1>1, <1>2, Zenon
<1> QED
  BY <1>5, <1>8, <1>9, Zenon DEF LenientInv

LEMMA EndKeeps ==
    ASSUME LenientInv, End, text' = text
    PROVE  LenientInv'
BY Zenon DEF LenientInv, End

ReaderInv == StrictInv /\ LenientInv

LEMMA ReaderStep ==
    ASSUME ReaderInv, [BothNext]_<<vars, lenientVars>>
    PROVE  ReaderInv'
<1>1. StrictInv /\ LenientInv
  BY Zenon DEF ReaderInv
<1>2. ASSUME Next, UNCHANGED lenientVars PROVE ReaderInv'
  <2>1. StrictInv' /\ text' = text
    BY <1>1, <1>2, StripKeeps, OpenKeeps, ParseKeeps, AddKeeps, Zenon DEF Next, Strip, Open, Parse, Add
  <2>2. LenientInv'
    BY <1>1, <1>2, <2>1, Zenon DEF LenientInv, lenientVars
  <2> QED
    BY <2>1, <2>2, Zenon DEF ReaderInv
<1>3. ASSUME UNCHANGED vars PROVE StrictInv' /\ text' = text
  <2>1. /\ text' = text /\ meant' = meant /\ at' = at /\ depth' = depth /\ cur' = cur /\ lines' = lines
        /\ next' = next /\ out' = out /\ status' = status /\ error' = error
    BY <1>3, Zenon DEF vars
  <2>2. Given' /\ Counted' /\ Parenthesized' /\ Numbered(cur, lines, at)'
    BY <1>1, <2>1, Zenon DEF StrictInv, Given, Counted, Parenthesized
  <2> QED
    BY <1>1, <2>1, <2>2, Zenon DEF StrictInv
<1>4. ASSUME Read \/ End, UNCHANGED vars PROVE ReaderInv'
  BY <1>1, <1>3, <1>4, ReadKeeps, EndKeeps, Zenon DEF ReaderInv
<1>5. ASSUME UNCHANGED <<vars, lenientVars>> PROVE ReaderInv'
  <2>1. UNCHANGED vars /\ UNCHANGED lenientVars
    BY <1>5, Zenon
  <2>2. LenientInv'
    BY <1>1, <1>3, <2>1, Zenon DEF LenientInv, lenientVars
  <2> QED
    BY <1>3, <2>1, <2>2, Zenon DEF ReaderInv
<1> QED
  BY <1>2, <1>4, <1>5, Zenon DEF BothNext

LEMMA InvariantHolds ==
    BothSpec => []ReaderInv
<1>1. BothInit => ReaderInv
  BY StrictFirst, LenientFirst, Zenon DEF BothInit, ReaderInv
<1>2. ReaderInv /\ [BothNext]_<<vars, lenientVars>> => ReaderInv'
  BY ReaderStep
<1> QED
  BY <1>1, <1>2, PTL DEF BothSpec

\* For every text: the logical lines are numbered within it and in its order, the depth
\* never falls below zero, and the lenient reader adds at most one record for a line
\* it has read.
THEOREM TypeCorrect == BothSpec => []TypeOK
<1>1. ReaderInv => TypeOK
  <2> SUFFICES ASSUME ReaderInv PROVE TypeOK
    OBVIOUS
  <2>1. StrictInv /\ LenientInv
    BY Zenon DEF ReaderInv
  <2>2. /\ \A i \in DOMAIN lines : lines[i].num \in 1 .. at /\ (i > 1 => lines[i - 1].num < lines[i].num)
        /\ at \in 0 .. Len(text) /\ depth \in Nat /\ next \in 1 .. Len(lines) + 1 /\ Len(out) < next
        /\ status \in {"reading", "done", "rejected"}
    BY <2>1, Zenon DEF StrictInv, Numbered, Counted
  <2>3. /\ reading \in {"reading", "done", "threw"} /\ seen \in 0 .. Len(text)
        /\ Len(records) <= Len(Before) + seen
    BY <2>1, Zenon DEF LenientInv
  <2> QED
    BY <2>2, <2>3, Zenon DEF TypeOK
<1> QED
  BY <1>1, InvariantHolds, PTL

\* For every text: the strict reader refuses it for its parentheses exactly if they do
\* not match, and names the place where they do not.
THEOREM MismatchesAreRefused == BothSpec => []UnmatchedRefused
<1>1. ReaderInv => UnmatchedRefused
  <2> SUFFICES ASSUME ReaderInv PROVE UnmatchedRefused
    OBVIOUS
  <2>1. Given /\ Parenthesized
    BY Zenon DEF ReaderInv, StrictInv
  <2> DEFINE G == Glyphs(text)
  <2>2. text \in Seq(Seq(G))
    BY <2>1, GlyphsHold, Zenon DEF Given
  <2>3. status = "done" => Matched(text)
    BY <2>1, Zenon DEF Parenthesized
  <2>4. status = "rejected" => Refused(text, error)
    BY <2>1, Zenon DEF Parenthesized
  <2>5. ASSUME Refused(text, error), error.why \in {"unbalanced", "unclosed"} PROVE ~Matched(text)
    <3>1. CASE error.line \in DOMAIN text /\ Overclosed(text, error.line)
      BY <3>1, Zenon DEF Matched
    <3>2. CASE error.line # 0 /\ \E d : Joins(text, Len(text), d, error.line)
      <4> DEFINE c == error.line
      <4>1. PICK d : Joins(text, Len(text), d, c)
        BY <3>2, Zenon
      <4>2. c # 0
        BY <3>2
      <4> HIDE DEF c, G
      <4>3. Matched(text) <=> c = 0
        BY ONLY <2>2, <4>1, JoinedAll
      <4> QED
        BY <4>2, <4>3
    <3> QED
      BY <2>5, <3>1, <3>2, Zenon DEF Refused, Mismatch
  <2>6. ASSUME status = "rejected" PROVE error.why \in {"unbalanced", "unclosed"} <=> ~Matched(text)
    BY <2>4, <2>5, <2>6, Zenon DEF Refused, Mismatch
  <2>7. ASSUME NEW n, NEW why, status = "rejected", UnmatchedAt(text, n, why)
        PROVE  error = [line |-> n, why |-> why]
    <3> HIDE DEF G
    <3>1. \A e : Refused(text, e) => e.line = n /\ e.why = why
      BY ONLY <2>2, <2>7, RefusedThere
    <3> QED
      BY <2>4, <2>7, <3>1, Zenon DEF Refused
  <2> QED
    BY <2>3, <2>6, <2>7, Zenon DEF UnmatchedRefused
<1> QED
  BY <1>1, InvariantHolds, PTL
=============================================================================
