--------------------------- MODULE DataInduction ----------------------------
(***************************************************************************)
(* Induction over numbers stated for sets, and what the folds of the       *)
(* community modules compute: first-order facts the other proofs cite.     *)
(***************************************************************************)
EXTENDS Integers, Sequences, SequencesExt, FiniteSetTheorems, SequenceTheorems,
        WellFoundedInduction, TLAPS

-----------------------------------------------------------------------------
(* Induction *)

\* Every set of natural numbers with a member has a least one.
LEMMA Least ==
    ASSUME NEW T, T \subseteq Nat, T # {}
    PROVE  \E x \in T : \A y \in T : x <= y
<1> DEFINE R == OpToRel(<, Nat)
<1>1. IsWellFoundedOn(R, Nat)
  BY NatLessThanWellFounded, Zenon
<1>2. \E x \in T : \A y \in T : <<y, x>> \notin R
  <2> HIDE DEF R
  <2> QED BY <1>1, WFMin, Zenon
<1>3. \A x, y \in Nat : <<y, x>> \notin R => x <= y
  BY DEF OpToRel
<1> HIDE DEF R
<1> QED
  BY <1>2, <1>3, Zenon

\* What holds of 0 and, with n, of n + 1 holds of every natural number.
LEMMA Induction ==
    ASSUME NEW T, T \subseteq Nat, 0 \in T, \A n \in T : n + 1 \in T
    PROVE  Nat = T
<1> SUFFICES ASSUME Nat \ T # {} PROVE FALSE
  OBVIOUS
<1>1. PICK x \in Nat \ T : \A y \in Nat \ T : x <= y
  <2> DEFINE U == Nat \ T
  <2>1. U \subseteq Nat /\ U # {}
    OBVIOUS
  <2> HIDE DEF U
  <2>2. \E x \in U : \A y \in U : x <= y
    BY <2>1, Least
  <2> QED
    BY <2>2 DEF U
<1>2. x - 1 \in Nat /\ x - 1 \notin Nat \ T
  BY <1>1
<1> QED
  BY <1>1, <1>2

\* A set of numbers up to n has a greatest one.
LEMMA Greatest ==
    ASSUME NEW n \in Nat, NEW s, s \subseteq 0 .. n, s # {}
    PROVE  \E x \in s : \A y \in s : y <= x
<1> DEFINE bounds == {b \in Nat : \A y \in s : y <= b}
<1>1. bounds \subseteq Nat /\ n \in bounds
  OBVIOUS
<1>2. PICK b \in bounds : \A c \in bounds : b <= c
  <2> HIDE DEF bounds
  <2> QED BY <1>1, Least
<1>3. b \in s
  <2> SUFFICES ASSUME b \notin s PROVE FALSE
    OBVIOUS
  <2>1. PICK y \in s : TRUE
    OBVIOUS
  <2>2. b > 0 /\ b - 1 \in bounds
    BY <2>1
  <2> QED
    BY <1>2, <2>2
<1> QED
  BY <1>3

LEMMA MaxIsGreatest ==
    ASSUME NEW n \in Nat, NEW s, s \subseteq 0 .. n, s # {}
    PROVE  Max(s) \in s /\ \A y \in s : y <= Max(s)
<1>1. \E x \in s : \A y \in s : x >= y
  BY Greatest
<1> QED
  BY <1>1, Zenon DEF Max

-----------------------------------------------------------------------------
(* A function that recurses from w to step[w] as long as w is live, where *)
(* the rank of what is live goes down.                                     *)

Descends(W, live, step, rank) ==
    /\ live \subseteq W /\ rank \in [W -> Nat]
    /\ \A w \in live : step[w] \in W /\ (step[w] \in live => rank[step[w]] < rank[w])

Below(W, live, rank, n) == {w \in W : w \in live => rank[w] < n}

Recurses(f, D, live, step) == f = [w \in D |-> IF w \in live THEN f[step[w]] ELSE w]

\* What holds of w when it holds of step[w], if w is live, holds of all of W.
LEMMA RankInduction ==
    ASSUME NEW W, NEW live, NEW step, NEW rank, Descends(W, live, step, rank),
           NEW U, \A w \in W : (w \in live => step[w] \in U) => w \in U
    PROVE  W \subseteq U
<1> DEFINE T == {n \in Nat : Below(W, live, rank, n) \subseteq U}
<1>1. 0 \in T
  BY DEF Below, Descends
<1>2. ASSUME NEW n \in T PROVE n + 1 \in T
  <2>1. ASSUME NEW w \in W, w \in live => rank[w] < n + 1 PROVE w \in U
    <3> SUFFICES ASSUME w \in live PROVE step[w] \in U
      OBVIOUS
    <3>1. step[w] \in W /\ (step[w] \in live => rank[step[w]] < n)
      BY <2>1 DEF Descends
    <3> QED
      BY <3>1 DEF Below
  <2> QED
    BY <2>1 DEF Below
<1>3. Nat = T
  <2> HIDE DEF T
  <2>1. T \subseteq Nat
    BY DEF T
  <2> QED
    BY <1>1, <1>2, <2>1, Induction
<1> QED
  <2> SUFFICES ASSUME NEW w \in W PROVE w \in U
    OBVIOUS
  <2>1. rank[w] \in Nat /\ rank[w] + 1 \in Nat /\ rank[w] < rank[w] + 1
    BY DEF Descends
  <2> QED
    BY <1>3, <2>1 DEF Below

LEMMA RecursesAt ==
    ASSUME NEW f, NEW D, NEW live, NEW step, Recurses(f, D, live, step), NEW w \in D
    PROVE  f[w] = IF w \in live THEN f[step[w]] ELSE w
<1> DEFINE g == [v \in D |-> IF v \in live THEN f[step[v]] ELSE v]
<1>1. f = g
  BY DEF Recurses
<1>2. g[w] = IF w \in live THEN f[step[w]] ELSE w
  OBVIOUS
<1> HIDE DEF g
<1> QED
  BY <1>1, <1>2

LEMMA RecursesAgree ==
    ASSUME NEW W, NEW live, NEW step, NEW rank, Descends(W, live, step, rank),
           NEW m \in Nat, NEW n \in Nat, NEW f, NEW g,
           Recurses(f, Below(W, live, rank, m), live, step),
           Recurses(g, Below(W, live, rank, n), live, step)
    PROVE  \A w \in Below(W, live, rank, m) \cap Below(W, live, rank, n) : f[w] = g[w]
<1> DEFINE D == Below(W, live, rank, m)
           F == Below(W, live, rank, n)
           U == {w \in W : w \in D \cap F => f[w] = g[w]}
<1>1. ASSUME NEW w \in D \cap F, w \in live PROVE step[w] \in D \cap F
  BY <1>1 DEF Below, Descends
<1>2. \A w \in D \cap F : /\ f[w] = IF w \in live THEN f[step[w]] ELSE w
                          /\ g[w] = IF w \in live THEN g[step[w]] ELSE w
  <2> HIDE DEF D, F
  <2> QED
    BY RecursesAt DEF D, F
<1>3. D \subseteq W
  BY DEF Below
<1>4. \A w \in W : (w \in live => step[w] \in U) => w \in U
  <2> HIDE DEF D, F
  <2> QED BY <1>1, <1>2
<1>5. W \subseteq U
  <2> HIDE DEF U
  <2> QED BY <1>4, RankInduction
<1> QED
  BY <1>3, <1>5

LEMMA RecursionExists ==
    ASSUME NEW W, NEW live, NEW step, NEW rank, Descends(W, live, step, rank)
    PROVE  \E f : Recurses(f, W, live, step)
<1> DEFINE D(n) == Below(W, live, rank, n)
           T == {n \in Nat : \E f : Recurses(f, D(n), live, step)}
<1>0. \A n \in Nat : \A w \in D(n) : w \in W /\ (w \in live => rank[w] \in Nat /\ rank[w] < n)
  BY DEF Below, Descends
<1>1. 0 \in T
  <2>1. \A w \in D(0) : w \notin live
    BY <1>0
  <2>2. [w \in D(0) |-> w] = [w \in D(0) |-> IF w \in live THEN [v \in D(0) |-> v][step[w]] ELSE w]
    BY <2>1
  <2> QED
    BY <2>2 DEF Recurses
<1>2. ASSUME NEW n \in T PROVE n + 1 \in T
  <2>1. PICK f : Recurses(f, D(n), live, step)
    OBVIOUS
  <2> DEFINE g == [w \in D(n + 1) |-> IF w \in live THEN f[step[w]] ELSE w]
  <2>2. D(n) \subseteq D(n + 1)
    BY DEF Below, Descends
  <2>3. ASSUME NEW w \in D(n + 1), w \in live PROVE step[w] \in D(n)
    <3>1. w \in W /\ rank[w] \in Nat /\ rank[w] < n + 1
      BY <1>0, <2>3
    <3>2. step[w] \in W /\ (step[w] \in live => rank[step[w]] \in Nat /\ rank[step[w]] < rank[w])
      BY <2>3 DEF Descends
    <3>3. step[w] \in live => rank[step[w]] < n
      BY <3>1, <3>2
    <3> QED
      BY <3>2, <3>3 DEF Below
  <2>4. \A w \in D(n) : f[w] = IF w \in live THEN f[step[w]] ELSE w
    <3> HIDE DEF D
    <3> QED BY <2>1, RecursesAt
  <2> HIDE DEF D
  <2>5. \A w \in D(n) : g[w] = f[w]
    BY <2>2, <2>4
  <2>6. \A w \in D(n + 1) : g[w] = IF w \in live THEN g[step[w]] ELSE w
    BY <2>3, <2>5
  <2>7. Recurses(g, D(n + 1), live, step)
    <3>1. g = [w \in D(n + 1) |-> g[w]]
      OBVIOUS
    <3> HIDE DEF g
    <3> QED
      BY <2>6, <3>1 DEF Recurses
  <2> QED
    BY <2>7 DEF D
<1>3. Nat = T
  <2> HIDE DEF T
  <2>1. T \subseteq Nat
    BY DEF T
  <2> QED
    BY <1>1, <1>2, <2>1, Induction
<1> DEFINE G(n) == CHOOSE g : Recurses(g, D(n), live, step)
           h == [w \in W |-> G(rank[w] + 1)[w]]
<1>4. \A n \in Nat : Recurses(G(n), D(n), live, step)
  <2> SUFFICES ASSUME NEW n \in Nat PROVE Recurses(G(n), D(n), live, step)
    OBVIOUS
  <2>1. \E f : Recurses(f, D(n), live, step)
    BY <1>3
  <2> QED
    BY <2>1
<1>5. \A m, n \in Nat : \A w \in D(m) \cap D(n) : G(m)[w] = G(n)[w]
  <2> SUFFICES ASSUME NEW m \in Nat, NEW n \in Nat
               PROVE  \A w \in D(m) \cap D(n) : G(m)[w] = G(n)[w]
    OBVIOUS
  <2>1. Recurses(G(m), D(m), live, step) /\ Recurses(G(n), D(n), live, step)
    BY <1>4
  <2> HIDE DEF G
  <2> QED
    BY <2>1, RecursesAgree
<1>6. \A w \in W : rank[w] \in Nat /\ rank[w] + 1 \in Nat /\ w \in D(rank[w] + 1)
  BY DEF Below, Descends
<1>7. ASSUME NEW w \in W PROVE h[w] = IF w \in live THEN h[step[w]] ELSE w
  <2>1. rank[w] + 1 \in Nat /\ w \in D(rank[w] + 1)
    BY <1>6
  <2>2. Recurses(G(rank[w] + 1), D(rank[w] + 1), live, step)
    BY <1>4, <2>1
  <2> HIDE DEF D, G
  <2>3. G(rank[w] + 1)[w] = IF w \in live THEN G(rank[w] + 1)[step[w]] ELSE w
    BY <2>1, <2>2, RecursesAt
  <2>4. CASE w \notin live
    BY <2>3, <2>4
  <2>5. CASE w \in live
    <3>1. step[w] \in W
      BY <2>5 DEF Descends
    <3>2. rank[step[w]] + 1 \in Nat /\ step[w] \in D(rank[step[w]] + 1)
      BY <1>6, <3>1
    <3>3. step[w] \in D(rank[w] + 1)
      BY <1>6, <2>5, <3>1 DEF D, Below, Descends
    <3>4. G(rank[w] + 1)[step[w]] = G(rank[step[w]] + 1)[step[w]]
      BY <1>5, <2>1, <3>2, <3>3
    <3> QED
      BY <2>3, <2>5, <3>1, <3>4
  <2> QED
    BY <2>4, <2>5
<1>8. Recurses(h, W, live, step)
  <2>1. h = [w \in W |-> h[w]]
    OBVIOUS
  <2> HIDE DEF h
  <2> QED
    BY <1>7, <2>1 DEF Recurses
<1> QED
  BY <1>8

-----------------------------------------------------------------------------
(* A step taken again and again *)

Iterates(f, n, D, start, step) ==
    /\ f \in [0 .. n -> D] /\ f[0] = start
    /\ \A k \in Nat : k < n => f[k + 1] = step[f[k]]

LEMMA IteratesExist ==
    ASSUME NEW D, NEW start \in D, NEW step \in [D -> D]
    PROVE  \A n \in Nat : \E f : Iterates(f, n, D, start, step)
<1> DEFINE T == {n \in Nat : \E f : Iterates(f, n, D, start, step)}
<1>1. 0 \in T
  <2>1. Iterates([k \in 0 .. 0 |-> start], 0, D, start, step)
    BY DEF Iterates
  <2> QED
    BY <2>1
<1>2. ASSUME NEW n \in T PROVE n + 1 \in T
  <2>1. PICK f : Iterates(f, n, D, start, step)
    OBVIOUS
  <2> DEFINE g == [k \in 0 .. n + 1 |-> IF k <= n THEN f[k] ELSE step[f[n]]]
  <2>2. n \in 0 .. n /\ f[n] \in D /\ step[f[n]] \in D /\ f \in [0 .. n -> D]
    BY <2>1 DEF Iterates
  <2>3. g \in [0 .. n + 1 -> D] /\ g[0] = start
    BY <2>1, <2>2 DEF Iterates
  <2>4. ASSUME NEW k \in Nat, k < n + 1 PROVE g[k + 1] = step[g[k]]
    <3>1. g[k] = f[k]
      BY <2>4
    <3>2. CASE k < n
      <4>1. g[k + 1] = f[k + 1]
        BY <3>2
      <4> QED
        BY <2>1, <3>1, <3>2, <4>1 DEF Iterates
    <3>3. CASE k = n
      BY <3>1, <3>3
    <3> QED
      BY <2>4, <3>2, <3>3
  <2>5. Iterates(g, n + 1, D, start, step)
    <3> HIDE DEF g
    <3> QED BY <2>3, <2>4 DEF Iterates
  <2> QED
    BY <2>5
<1>3. Nat = T
  <2> HIDE DEF T
  <2>1. T \subseteq Nat
    BY DEF T
  <2> QED
    BY <1>1, <1>2, <2>1, Induction
<1> QED
  BY <1>3

LEMMA IteratesAgree ==
    ASSUME NEW D, NEW start, NEW step, NEW m \in Nat, NEW n \in Nat, NEW f, NEW g,
           Iterates(f, m, D, start, step), Iterates(g, n, D, start, step)
    PROVE  \A k \in Nat : k <= m /\ k <= n => f[k] = g[k]
<1> DEFINE T == {k \in Nat : k <= m /\ k <= n => f[k] = g[k]}
<1>1. 0 \in T
  BY DEF Iterates
<1>2. ASSUME NEW k \in T PROVE k + 1 \in T
  <2> SUFFICES ASSUME k + 1 <= m, k + 1 <= n PROVE f[k + 1] = g[k + 1]
    OBVIOUS
  <2>1. k \in Nat /\ k < m /\ k < n /\ f[k] = g[k]
    OBVIOUS
  <2> QED
    BY <2>1 DEF Iterates
<1>3. Nat = T
  <2> HIDE DEF T
  <2>1. T \subseteq Nat
    BY DEF T
  <2> QED
    BY <1>1, <1>2, <2>1, Induction
<1> QED
  BY <1>3

Iteration(f, D, start, step) ==
    f \in [Nat -> D] /\ f[0] = start /\ \A k \in Nat : f[k + 1] = step[f[k]]

LEMMA IterationExists ==
    ASSUME NEW D, NEW start \in D, NEW step \in [D -> D]
    PROVE  \E f : Iteration(f, D, start, step)
<1> DEFINE G(n) == CHOOSE f : Iterates(f, n, D, start, step)
           h == [k \in Nat |-> G(k)[k]]
<1>1. \A n \in Nat : Iterates(G(n), n, D, start, step)
  <2> TAKE n \in Nat
  <2>1. \E f : Iterates(f, n, D, start, step)
    BY IteratesExist
  <2> QED
    BY <2>1
<1> HIDE DEF G
<1>2. \A k \in Nat : G(k)[k] \in D
  <2> TAKE k \in Nat
  <2>1. G(k) \in [0 .. k -> D] /\ k \in 0 .. k
    BY <1>1 DEF Iterates
  <2> QED
    BY <2>1
<1>3. h \in [Nat -> D] /\ h[0] = start
  <2>1. G(0)[0] = start
    BY <1>1 DEF Iterates
  <2> QED
    BY <1>2, <2>1
<1>4. ASSUME NEW k \in Nat PROVE h[k + 1] = step[h[k]]
  <2>1. Iterates(G(k), k, D, start, step) /\ Iterates(G(k + 1), k + 1, D, start, step) /\ k + 1 \in Nat
    BY <1>1
  <2>2. G(k)[k] = G(k + 1)[k]
    <3> DEFINE f == G(k)
               g == G(k + 1)
               n == k + 1
    <3>1. Iterates(f, k, D, start, step) /\ Iterates(g, n, D, start, step) /\ n \in Nat
          /\ k <= k /\ k <= n
      BY <2>1
    <3> HIDE DEF f, g, n
    <3>2. f[k] = g[k]
      BY <3>1, IteratesAgree
    <3> QED
      BY <3>2 DEF f, g, n
  <2>3. G(k + 1)[k + 1] = step[G(k + 1)[k]]
    <3>1. k < k + 1
      OBVIOUS
    <3> QED BY <2>1, <3>1 DEF Iterates
  <2> QED
    BY <2>1, <2>2, <2>3
<1> HIDE DEF h
<1>5. Iteration(h, D, start, step)
  BY <1>3, <1>4 DEF Iteration
<1> QED
  BY <1>5

-----------------------------------------------------------------------------
(* The concatenation of a sequence of sequences *)

Flattens(f, s, n) == f = [i \in 1 .. n |-> IF i = 1 THEN s[i] ELSE f[i - 1] \o s[i]]

LEMMA FlattensAt ==
    ASSUME NEW s, NEW n, NEW f, Flattens(f, s, n), NEW i \in 1 .. n
    PROVE  f[i] = IF i = 1 THEN s[i] ELSE f[i - 1] \o s[i]
<1> DEFINE g == [j \in 1 .. n |-> IF j = 1 THEN s[j] ELSE f[j - 1] \o s[j]]
<1>1. f = g
  BY DEF Flattens
<1>2. g[i] = IF i = 1 THEN s[i] ELSE f[i - 1] \o s[i]
  OBVIOUS
<1> HIDE DEF g
<1> QED
  BY <1>1, <1>2

LEMMA FlattenExists ==
    ASSUME NEW s
    PROVE  \A n \in Nat : \E f : Flattens(f, s, n)
<1> DEFINE T == {n \in Nat : \E f : Flattens(f, s, n)}
<1>1. 0 \in T
  <2> DEFINE f == [i \in 1 .. 0 |-> <<>>]
  <2>1. f = [i \in 1 .. 0 |-> IF i = 1 THEN s[i] ELSE f[i - 1] \o s[i]]
    OBVIOUS
  <2> QED
    BY <2>1 DEF Flattens
<1>2. ASSUME NEW n \in T PROVE n + 1 \in T
  <2>1. PICK f : Flattens(f, s, n)
    OBVIOUS
  <2> DEFINE g == [i \in 1 .. n + 1 |-> IF i <= n THEN f[i]
                                       ELSE IF i = 1 THEN s[i] ELSE f[i - 1] \o s[i]]
  <2>2. ASSUME NEW i \in 1 .. n + 1
        PROVE  g[i] = IF i = 1 THEN s[i] ELSE g[i - 1] \o s[i]
    <3>1. i # 1 => g[i - 1] = f[i - 1]
      OBVIOUS
    <3>2. i <= n => f[i] = IF i = 1 THEN s[i] ELSE f[i - 1] \o s[i]
      BY <2>1, FlattensAt
    <3> QED
      BY <3>1, <3>2
  <2>3. Flattens(g, s, n + 1)
    <3>1. g = [i \in 1 .. n + 1 |-> g[i]]
      OBVIOUS
    <3> HIDE DEF g
    <3> QED
      BY <2>2, <3>1 DEF Flattens
  <2> QED
    BY <2>3
<1>3. Nat = T
  <2> HIDE DEF T
  <2>1. T \subseteq Nat
    BY DEF T
  <2> QED
    BY <1>1, <1>2, <2>1, Induction
<1> QED
  BY <1>3

\* Two such functions agree.
LEMMA FlattenAgree ==
    ASSUME NEW s, NEW n \in Nat, NEW f, Flattens(f, s, n),
           NEW t, NEW m \in Nat, NEW g, Flattens(g, t, m),
           n <= m, \A i \in 1 .. n : s[i] = t[i]
    PROVE  \A i \in 1 .. n : f[i] = g[i]
<1> DEFINE T == {i \in Nat : i \in 1 .. n => f[i] = g[i]}
<1>1. 0 \in T
  OBVIOUS
<1>2. ASSUME NEW i \in T PROVE i + 1 \in T
  <2> SUFFICES ASSUME i + 1 \in 1 .. n PROVE f[i + 1] = g[i + 1]
    OBVIOUS
  <2>1. /\ f[i + 1] = IF i + 1 = 1 THEN s[i + 1] ELSE f[i] \o s[i + 1]
        /\ g[i + 1] = IF i + 1 = 1 THEN t[i + 1] ELSE g[i] \o t[i + 1]
    BY FlattensAt
  <2> QED
    BY <2>1
<1>3. Nat = T
  <2> HIDE DEF T
  <2>1. T \subseteq Nat
    BY DEF T
  <2> QED
    BY <1>1, <1>2, <2>1, Induction
<1> QED
  BY <1>3

LEMMA FlattenIs ==
    ASSUME NEW s, Len(s) \in Nat, Len(s) # 0, NEW f, Flattens(f, s, Len(s))
    PROVE  FlattenSeq(s) = f[Len(s)]
<1> DEFINE g == CHOOSE g : g = [i \in 1 .. Len(s) |-> IF i = 1 THEN s[i] ELSE g[i - 1] \o s[i]]
<1>1. Flattens(g, s, Len(s))
  BY DEF Flattens
<1>2. FlattenSeq(s) = g[Len(s)]
  BY DEF FlattenSeq
<1> HIDE DEF g
<1>3. \A i \in 1 .. Len(s) : f[i] = g[i]
  BY <1>1, FlattenAgree
<1> QED
  BY <1>2, <1>3

\* The octets of a sequence of chunks, and of one chunk more.
LEMMA FlattenAppend ==
    ASSUME NEW S, NEW s \in Seq(Seq(S)), NEW e \in Seq(S)
    PROVE  /\ FlattenSeq(s) \in Seq(S)
           /\ FlattenSeq(Append(s, e)) = FlattenSeq(s) \o e
<1> DEFINE n == Len(s)
           m == n + 1
           a == Append(s, e)
<1>1. /\ n \in Nat /\ a \in Seq(Seq(S)) /\ m = n + 1 /\ m \in Nat /\ Len(a) = m /\ a[m] = e
      /\ \A i \in 1 .. n : a[i] = s[i] /\ s[i] \in Seq(S)
  <2>1. \A i \in 1 .. n : a[i] = s[i]
    OBVIOUS
  <2>2. \A i \in 1 .. n : s[i] \in Seq(S)
    BY ElementOfSeq
  <2>3. n \in Nat /\ a \in Seq(Seq(S)) /\ m = n + 1 /\ m \in Nat /\ Len(a) = m /\ a[m] = e
    OBVIOUS
  <2> QED
    BY <2>1, <2>2, <2>3
<1>2. \E f : Flattens(f, s, n)
  <2> HIDE DEF n
  <2> QED BY <1>1, FlattenExists
<1>3. \E g : Flattens(g, a, m)
  <2> HIDE DEF n, m, a
  <2> QED BY <1>1, FlattenExists
<1>4. PICK f : Flattens(f, s, n)
  BY <1>2
<1>5. PICK g : Flattens(g, a, m)
  BY <1>3
<1> HIDE DEF a, m, n
<1>6. Flattens(f, s, n) /\ Flattens(g, a, m)
  BY <1>4, <1>5
<1>7. FlattenSeq(a) = g[m]
  <2>1. Flattens(g, a, Len(a)) /\ Len(a) \in Nat /\ Len(a) # 0
    BY <1>1, <1>6
  <2>2. FlattenSeq(a) = g[Len(a)]
    BY <2>1, FlattenIs, Zenon
  <2> QED
    BY <1>1, <2>2
<1>8. n # 0 => FlattenSeq(s) = f[n]
  BY <1>1, <1>6, FlattenIs DEF n
<1>9. \A i \in 1 .. n : f[i] = g[i]
  <2>1. n \in Nat /\ m \in Nat /\ n <= n /\ n <= m
    BY <1>1
  <2>2. \A i \in 1 .. n : s[i] = a[i]
    BY <1>1, Zenon
  <2> QED
    BY <1>6, <2>1, <2>2, FlattenAgree
<1>10. \A i \in 1 .. n : f[i] \in Seq(S)
  <2> DEFINE T == {i \in Nat : i \in 1 .. n => f[i] \in Seq(S)}
  <2>1. 0 \in T
    OBVIOUS
  <2>2. ASSUME NEW i \in T PROVE i + 1 \in T
    <3> SUFFICES ASSUME i + 1 \in 1 .. n PROVE f[i + 1] \in Seq(S)
      OBVIOUS
    <3>1. f[i + 1] = IF i + 1 = 1 THEN s[i + 1] ELSE f[i] \o s[i + 1]
      BY <1>6, FlattensAt
    <3>2. s[i + 1] \in Seq(S)
      BY <1>1
    <3>3. i + 1 # 1 => f[i] \in Seq(S)
      BY <1>1
    <3> QED
      BY <3>1, <3>2, <3>3
  <2>3. Nat = T
    <3> HIDE DEF T
    <3>1. T \subseteq Nat
      BY DEF T
    <3> QED
      BY <2>1, <2>2, <3>1, Induction
  <2> QED
    BY <2>3
<1>11. CASE n = 0
  <2>1. s = <<>>
    BY <1>11 DEF n
  <2>2. FlattenSeq(s) = <<>>
    BY <2>1 DEF FlattenSeq
  <2>3. 1 \in 1 .. m /\ a[1] = e
    BY <1>1, <1>11
  <2>4. \A i \in 1 .. m : g[i] = IF i = 1 THEN a[i] ELSE g[i - 1] \o a[i]
    BY <1>6, FlattensAt
  <2>5. g[1] = e
    BY <2>3, <2>4
  <2> QED
    BY <1>7, <1>11, <1>1, <2>2, <2>5 DEF a
<1>12. CASE n # 0
  <2>1. g[m] = g[n] \o e
    <3>1. m \in 1 .. m /\ m # 1 /\ m - 1 = n
      BY <1>1, <1>12
    <3>2. g[m] = IF m = 1 THEN a[m] ELSE g[m - 1] \o a[m]
      <4>1. m \in 1 .. m
        BY <3>1
      <4> QED
        BY <1>6, <4>1, FlattensAt
    <3> QED
      BY <1>1, <3>1, <3>2
  <2>2. f[n] = g[n] /\ f[n] \in Seq(S)
    BY <1>1, <1>9, <1>10, <1>12
  <2> QED
    BY <1>7, <1>8, <1>12, <2>1, <2>2 DEF a
<1> QED
  BY <1>11, <1>12

\* a[j] is the concatenation of the first j of s.
Concats(a, s, S) ==
    /\ a \in [0 .. Len(s) -> Seq(S)]
    /\ a[0] = <<>>
    /\ a[Len(s)] = FlattenSeq(s)
    /\ \A j \in 1 .. Len(s) : s[j] \in Seq(S) /\ a[j] = a[j - 1] \o s[j]

LEMMA ConcatsExist ==
    ASSUME NEW S, NEW s \in Seq(Seq(S))
    PROVE  \E a : Concats(a, s, S)
<1> DEFINE n == Len(s)
           p(j) == SubSeq(s, 1, j)
           a == [j \in 0 .. n |-> FlattenSeq(p(j))]
<1>1. n \in Nat /\ \A j \in 1 .. n : s[j] \in Seq(S)
  BY ElementOfSeq
<1>2. \A j \in 0 .. n : p(j) \in Seq(Seq(S))
  <2> TAKE j \in 0 .. n
  <2>1. \A i \in 1 .. j : s[i] \in Seq(S)
    BY <1>1
  <2> HIDE DEF n
  <2>2. j \in Int
    BY <1>1
  <2> QED
    BY <2>1, <2>2, SubSeqProperties
<1>3. \A x \in Seq(Seq(S)) : FlattenSeq(x) \in Seq(S)
  <2>1. <<>> \in Seq(S)
    OBVIOUS
  <2> QED
    BY <2>1, FlattenAppend
<1>4. p(0) = <<>>
  BY SubSeqEmpty
<1>5. FlattenSeq(<<>>) = <<>>
  BY DEF FlattenSeq
<1>6. p(n) = s
  BY SubSeqFull
<1>7. ASSUME NEW j \in 1 .. n
      PROVE  FlattenSeq(p(j)) = FlattenSeq(p(j - 1)) \o s[j]
  <2>1. s[j] \in Seq(S) /\ j - 1 \in 0 .. n /\ p(j - 1) \in Seq(Seq(S))
    BY <1>1, <1>2
  <2>2. p(j) = p(j - 1) \o <<s[j]>>
    <3>1. 1 \in 1 .. Len(s) /\ j \in 1 .. Len(s)
      BY <1>1
    <3> QED
      BY <3>1, SubSeqRecursiveSecond
  <2> HIDE DEF p, n
  <2>3. p(j) = Append(p(j - 1), s[j])
    BY <2>1, <2>2, AppendIsConcat
  <2> QED
    BY <2>1, <2>3, FlattenAppend
<1> HIDE DEF p
<1>8. Concats(a, s, S)
  <2>1. a \in [0 .. n -> Seq(S)]
    BY <1>2, <1>3
  <2>2. a[0] = <<>> /\ a[n] = FlattenSeq(s)
    BY <1>1, <1>4, <1>5, <1>6
  <2>3. ASSUME NEW j \in 1 .. n
        PROVE  s[j] \in Seq(S) /\ a[j] = a[j - 1] \o s[j]
    <3>1. j \in 0 .. n /\ j - 1 \in 0 .. n
      BY <1>1
    <3>2. a[j] = FlattenSeq(p(j)) /\ a[j - 1] = FlattenSeq(p(j - 1))
      BY <3>1
    <3> QED
      BY <1>1, <1>7, <3>2
  <2> QED
    BY <2>1, <2>2, <2>3 DEF Concats
<1> QED
  BY <1>8

\* Each is a prefix of the whole.
LeadsTo(x, whole, S) == \E z \in Seq(S) : whole = x \o z

\* Joining sequences is associative.
LEMMA Associates ==
    \A S : \A x, y, z \in Seq(S) : (x \o y) \o z = x \o (y \o z)
<1> SUFFICES ASSUME NEW S, NEW x \in Seq(S), NEW y \in Seq(S), NEW z \in Seq(S)
             PROVE  (x \o y) \o z = x \o (y \o z)
  OBVIOUS
<1> QED
  BY ONLY ConcatAssociative

LEMMA ConcatsLead ==
    ASSUME NEW S, NEW s \in Seq(Seq(S)), NEW a, Concats(a, s, S), NEW i \in 0 .. Len(s)
    PROVE  LeadsTo(a[i], FlattenSeq(s), S)
<1> DEFINE n == Len(s)
           whole == FlattenSeq(s)
           T == {k \in Nat : k <= n => \E z \in Seq(S) : whole = a[n - k] \o z}
<1>1. /\ n \in Nat /\ \A j \in 0 .. n : a[j] \in Seq(S)
      /\ a[n] = whole
      /\ \A j \in 1 .. n : s[j] \in Seq(S) /\ a[j] = a[j - 1] \o s[j]
  <2>1. a \in [0 .. n -> Seq(S)]
    BY DEF Concats
  <2>2. a[n] = whole /\ \A j \in 1 .. n : s[j] \in Seq(S) /\ a[j] = a[j - 1] \o s[j]
    BY DEF Concats
  <2>3. n \in Nat
    OBVIOUS
  <2> QED
    BY <2>1, <2>2, <2>3
<1> HIDE DEF n, whole
<1>2. 0 \in T
  <2>1. n - 0 = n /\ n \in 0 .. n
    BY <1>1
  <2>2. <<>> \in Seq(S) /\ whole \o <<>> = whole
    BY <1>1, <2>1
  <2> QED
    BY <1>1, <2>1, <2>2
<1>3. ASSUME NEW k \in T PROVE k + 1 \in T
  <2> USE DEF T
  <2>0. k + 1 \in Nat
    OBVIOUS
  <2> SUFFICES ASSUME k + 1 <= n PROVE \E z \in Seq(S) : whole = a[n - (k + 1)] \o z
    BY <2>0
  <2> DEFINE j == n - k
  <2>1. k \in Nat /\ j \in 1 .. n /\ j - 1 \in 0 .. n /\ j \in 0 .. n /\ n - (k + 1) = j - 1
    BY <1>1
  <2>2. \E z \in Seq(S) : whole = a[j] \o z
    <3>1. k <= n
      BY <1>1, <2>1
    <3> QED
      BY <3>1
  <2> HIDE DEF j, T
  <2>3. PICK z \in Seq(S) : whole = a[j] \o z
    BY <2>2
  <2>4. a[j - 1] \in Seq(S) /\ s[j] \in Seq(S) /\ a[j] = a[j - 1] \o s[j]
    BY <1>1, <2>1
  <2>5. s[j] \o z \in Seq(S)
    BY ONLY <2>4, z \in Seq(S)
  <2>6. whole = a[j - 1] \o (s[j] \o z)
    <3> DEFINE x == a[j - 1]
               y == s[j]
    <3>1. (x \o y) \o z = x \o (y \o z)
      <4>1. x \in Seq(S) /\ y \in Seq(S)
        BY <2>4
      <4> HIDE DEF x, y
      <4> QED
        BY ONLY <4>1, z \in Seq(S), Associates
    <3> QED
      BY ONLY <2>3, <2>4, <3>1
  <2>7. whole = a[n - (k + 1)] \o (s[j] \o z)
    BY <2>1, <2>6
  <2> QED
    BY ONLY <2>5, <2>7, Zenon
<1>4. Nat = T
  <2> HIDE DEF T
  <2>1. T \subseteq Nat
    BY DEF T
  <2> QED
    BY <1>2, <1>3, <2>1, Induction
<1>5. ASSUME NEW j \in 0 .. n
      PROVE  \E z \in Seq(S) : whole = a[j] \o z
  <2>1. n - j \in Nat /\ n - j <= n /\ n - (n - j) = j
    BY <1>1
  <2>2. n - j \in T
    BY <1>4, <2>1
  <2> QED
    BY <2>1, <2>2
<1> QED
  BY <1>5 DEF n, whole, LeadsTo

-----------------------------------------------------------------------------
(* A step that depends on its number, taken n times *)

Progresses(f, k, start, step) == f = [i \in 0 .. k |-> IF i = 0 THEN start ELSE step[i][f[i - 1]]]

LEMMA ProgressAt ==
    ASSUME NEW k \in Nat, NEW start, NEW step, NEW f, Progresses(f, k, start, step)
    PROVE  /\ f[0] = start
           /\ \A i \in 1 .. k : f[i] = step[i][f[i - 1]]
<1> DEFINE g == [i \in 0 .. k |-> IF i = 0 THEN start ELSE step[i][f[i - 1]]]
<1>1. f = g
  BY DEF Progresses
<1>2. g[0] = start
  OBVIOUS
<1>3. ASSUME NEW i \in 1 .. k PROVE g[i] = step[i][f[i - 1]]
  <2>1. i \in 0 .. k /\ i # 0
    OBVIOUS
  <2> QED
    BY <2>1
<1> HIDE DEF g
<1> QED
  BY <1>1, <1>2, <1>3, Zenon

LEMMA ProgressExists ==
    ASSUME NEW D, NEW start \in D, NEW n \in Nat, NEW step \in [1 .. n -> [D -> D]]
    PROVE  \E f \in [0 .. n -> D] : Progresses(f, n, start, step)
<1> DEFINE T == {k \in Nat : k <= n => \E f \in [0 .. k -> D] : Progresses(f, k, start, step)}
<1>1. 0 \in T
  <2> DEFINE f == [i \in 0 .. 0 |-> start]
  <2>1. f \in [0 .. 0 -> D]
    OBVIOUS
  <2>2. f = [i \in 0 .. 0 |-> IF i = 0 THEN start ELSE step[i][f[i - 1]]]
    OBVIOUS
  <2> QED
    BY <2>1, <2>2 DEF Progresses
<1>2. ASSUME NEW k \in T PROVE k + 1 \in T
  <2>0. k \in Nat /\ k + 1 \in Nat
    OBVIOUS
  <2> SUFFICES ASSUME k + 1 <= n
               PROVE  \E f \in [0 .. k + 1 -> D] : Progresses(f, k + 1, start, step)
    BY <2>0
  <2>1. PICK f \in [0 .. k -> D] : Progresses(f, k, start, step)
    BY <2>0
  <2>2. f[0] = start /\ \A i \in 1 .. k : f[i] = step[i][f[i - 1]]
    <3>1. k \in Nat
      BY <2>0
    <3> QED
      BY ONLY <3>1, <2>1, ProgressAt
  <2> DEFINE g == [i \in 0 .. k + 1 |-> IF i <= k THEN f[i] ELSE step[k + 1][f[k]]]
  <2>3. step[k + 1] \in [D -> D] /\ f[k] \in D
    BY <2>0
  <2>4. step[k + 1][f[k]] \in D
    BY <2>3
  <2>5. g \in [0 .. k + 1 -> D]
    <3>1. \A i \in 0 .. k + 1 : i <= k => i \in 0 .. k
      BY <2>0
    <3>2. \A i \in 0 .. k + 1 : i <= k => f[i] \in D
      BY <3>1
    <3> QED
      BY <2>4, <3>2
  <2>6. ASSUME NEW i \in 0 .. k + 1
        PROVE  g[i] = IF i = 0 THEN start ELSE step[i][g[i - 1]]
    <3>1. CASE i = 0
      BY <2>0, <2>2, <3>1
    <3>2. CASE i # 0 /\ i <= k
      <4>1. i \in 1 .. k /\ i - 1 \in 0 .. k + 1 /\ i - 1 <= k
        BY <2>0, <3>2
      <4>2. g[i] = f[i] /\ g[i - 1] = f[i - 1]
        BY <3>2, <4>1
      <4> HIDE DEF g
      <4> QED
        BY <2>2, <3>2, <4>1, <4>2
    <3>3. CASE i = k + 1
      <4>1. g[i] = step[k + 1][f[k]] /\ g[i - 1] = f[k]
        BY <2>0, <3>3
      <4> HIDE DEF g
      <4> QED
        BY <2>0, <3>3, <4>1
    <3> QED
      BY <2>0, <3>1, <3>2, <3>3
  <2>7. g = [i \in 0 .. k + 1 |-> g[i]]
    OBVIOUS
  <2> HIDE DEF g
  <2> QED
    BY <2>5, <2>6, <2>7 DEF Progresses
<1>3. Nat = T
  <2> HIDE DEF T
  <2>1. T \subseteq Nat
    BY DEF T
  <2> QED
    BY <1>1, <1>2, <2>1, Induction
<1> QED
  BY <1>3
=============================================================================
