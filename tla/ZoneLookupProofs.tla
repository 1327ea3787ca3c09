-------------------------- MODULE ZoneLookupProofs --------------------------
(***************************************************************************)
(* Proofs about one zone, signed, served and resolved: for every zone with *)
(* any contents, every name, every hash function without collisions and    *)
(* every part of the answers that arrives.                                 *)
(***************************************************************************)
EXTENDS ZoneLookup, DataInduction

DnsName == Seq(Nat)

-----------------------------------------------------------------------------
(* Names: their ancestors, their canonical order, what two of them share   *)

\* a and b have their first k labels in common.
Shares(a, b, k) == k \in 0 .. Len(a) /\ k <= Len(b) /\ \A i \in 1 .. k : a[i] = b[i]

LEMMA AncestorIs ==
    ASSUME NEW n \in DnsName, NEW d \in 0 .. Len(n)
    PROVE  /\ Ancestor(n, d) \in DnsName /\ Len(Ancestor(n, d)) = d
           /\ \A i \in 1 .. d : Ancestor(n, d)[i] = n[i]
<1>1. 1 \in 1 .. Len(n) + 1 /\ d \in 1 - 1 .. Len(n)
  BY DEF DnsName
<1>2. /\ SubSeq(n, 1, d) \in Seq(Nat) /\ Len(SubSeq(n, 1, d)) = IF 1 <= d THEN d - 1 + 1 ELSE 0
      /\ \A i \in 1 .. d - 1 + 1 : SubSeq(n, 1, d)[i] = n[1 + i - 1]
  BY <1>1, SubSeqProperties DEF DnsName
<1> QED
  BY <1>2 DEF Ancestor, DnsName

LEMMA SameNames ==
    ASSUME NEW a \in DnsName, NEW b \in DnsName, Len(a) = Len(b), \A i \in 1 .. Len(a) : a[i] = b[i]
    PROVE  a = b
<1> QED
  BY SeqEqual DEF DnsName

LEMMA AncestorsShared ==
    ASSUME NEW a \in DnsName, NEW b \in DnsName, NEW k \in Nat, k <= Len(a), k <= Len(b)
    PROVE  Ancestor(a, k) = Ancestor(b, k) <=> Shares(a, b, k)
<1>1. /\ Len(a) \in Nat /\ Len(b) \in Nat /\ k \in 0 .. Len(a) /\ k \in 0 .. Len(b)
  BY DEF DnsName
<1>2. /\ Ancestor(a, k) \in DnsName /\ Len(Ancestor(a, k)) = k
      /\ \A i \in 1 .. k : Ancestor(a, k)[i] = a[i]
  BY <1>1, AncestorIs
<1>3. /\ Ancestor(b, k) \in DnsName /\ Len(Ancestor(b, k)) = k
      /\ \A i \in 1 .. k : Ancestor(b, k)[i] = b[i]
  BY <1>1, AncestorIs
<1>4. ASSUME Ancestor(a, k) = Ancestor(b, k) PROVE Shares(a, b, k)
  BY <1>1, <1>2, <1>3, <1>4 DEF Shares
<1>5. ASSUME Shares(a, b, k) PROVE Ancestor(a, k) = Ancestor(b, k)
  <2>1. \A i \in 1 .. k : Ancestor(a, k)[i] = Ancestor(b, k)[i]
    BY <1>2, <1>3, <1>5 DEF Shares
  <2> QED
    BY <1>2, <1>3, <2>1, SameNames
<1> QED
  BY <1>4, <1>5

\* Canonical order, label by label.
LEMMA BeforeIs ==
    ASSUME NEW a \in DnsName, NEW b \in DnsName
    PROVE  Before(a, b) <=>
             \E i \in 1 .. Len(b) :
                /\ i <= Len(a) + 1 /\ \A j \in 1 .. i - 1 : a[j] = b[j]
                /\ Len(a) < i \/ a[i] < b[i]
<1>1. Len(a) \in Nat /\ Len(b) \in Nat
  BY DEF DnsName
<1>2. ASSUME NEW i \in 1 .. Len(b), i <= Len(a) + 1
      PROVE  Ancestor(a, i - 1) = Ancestor(b, i - 1) <=> \A j \in 1 .. i - 1 : a[j] = b[j]
  <2>1. i - 1 \in Nat /\ i - 1 <= Len(a) /\ i - 1 <= Len(b) /\ i - 1 \in 0 .. Len(a)
    BY <1>1, <1>2
  <2>2. Ancestor(a, i - 1) = Ancestor(b, i - 1) <=> Shares(a, b, i - 1)
    BY <2>1, AncestorsShared
  <2> QED
    BY <2>1, <2>2 DEF Shares
<1> QED
  BY <1>2, Zenon DEF Before

LEMMA LabelIs ==
    ASSUME NEW n \in DnsName
    PROVE  Len(n) \in Nat /\ \A i \in 1 .. Len(n) : n[i] \in Nat
<1> QED
  BY DEF DnsName

LEMMA BeforeIrreflexive ==
    ASSUME NEW a \in DnsName
    PROVE  ~Before(a, a)
<1> QED
  BY BeforeIs, LabelIs

LEMMA BeforeTransitive ==
    ASSUME NEW a \in DnsName, NEW b \in DnsName, NEW c \in DnsName, Before(a, b), Before(b, c)
    PROVE  Before(a, c)
<1>1. PICK i \in 1 .. Len(b) :
        /\ i <= Len(a) + 1 /\ \A j \in 1 .. i - 1 : a[j] = b[j]
        /\ Len(a) < i \/ a[i] < b[i]
  BY BeforeIs
<1>2. PICK k \in 1 .. Len(c) :
        /\ k <= Len(b) + 1 /\ \A j \in 1 .. k - 1 : b[j] = c[j]
        /\ Len(b) < k \/ b[k] < c[k]
  BY BeforeIs
<1>3. /\ Len(a) \in Nat /\ \A j \in 1 .. Len(a) : a[j] \in Nat
      /\ Len(b) \in Nat /\ \A j \in 1 .. Len(b) : b[j] \in Nat
      /\ Len(c) \in Nat /\ \A j \in 1 .. Len(c) : c[j] \in Nat
  BY LabelIs
<1> DEFINE m == IF i <= k THEN i ELSE k
<1>4. m \in 1 .. Len(c) /\ m <= Len(a) + 1 /\ \A j \in 1 .. m - 1 : a[j] = c[j]
  BY <1>1, <1>2, <1>3
<1>5. Len(a) < m \/ a[m] < c[m]
  BY <1>1, <1>2, <1>3
<1> HIDE DEF m
<1> QED
  BY <1>4, <1>5, BeforeIs

\* Two names are the same, or one comes before the other.
LEMMA BeforeTotal ==
    ASSUME NEW a \in DnsName, NEW b \in DnsName, a # b
    PROVE  Before(a, b) \/ Before(b, a)
<1>1. /\ Len(a) \in Nat /\ \A j \in 1 .. Len(a) : a[j] \in Nat
      /\ Len(b) \in Nat /\ \A j \in 1 .. Len(b) : b[j] \in Nat
  BY LabelIs
<1> DEFINE s == {d \in 0 .. Len(a) : Shares(a, b, d)}
<1>2. PICK d \in s : \A e \in s : e <= d
  <2>1. s \subseteq 0 .. Len(a) /\ 0 \in s
    BY <1>1 DEF Shares
  <2> HIDE DEF s
  <2>2. s # {} /\ Len(a) \in Nat
    BY <1>1, <2>1
  <2> QED
    BY <2>1, <2>2, Greatest
<1>3. d \in 0 .. Len(a) /\ Shares(a, b, d) /\ d <= Len(b)
  BY <1>2 DEF Shares
<1>4. ~(d < Len(a) /\ d < Len(b) /\ a[d + 1] = b[d + 1])
  <2> SUFFICES ASSUME d < Len(a), d < Len(b), a[d + 1] = b[d + 1] PROVE FALSE
    OBVIOUS
  <2>1. Shares(a, b, d + 1)
    BY <1>1, <1>3 DEF Shares
  <2>2. d + 1 \in s
    BY <1>1, <1>3, <2>1
  <2> QED
    BY <1>2, <1>3, <2>2
<1> HIDE DEF s
<1>5. ~(d = Len(a) /\ d = Len(b))
  BY <1>1, <1>3, SameNames DEF Shares
<1>6. CASE d < Len(b) /\ (d = Len(a) \/ a[d + 1] < b[d + 1])
  <2>1. d + 1 \in 1 .. Len(b) /\ d + 1 <= Len(a) + 1 /\ \A j \in 1 .. (d + 1) - 1 : a[j] = b[j]
    BY <1>1, <1>3, <1>6 DEF Shares
  <2>2. Len(a) < d + 1 \/ a[d + 1] < b[d + 1]
    BY <1>1, <1>6
  <2> QED
    BY <2>1, <2>2, BeforeIs
<1>7. CASE d < Len(a) /\ (d = Len(b) \/ b[d + 1] < a[d + 1])
  <2>1. d + 1 \in 1 .. Len(a) /\ d + 1 <= Len(b) + 1 /\ \A j \in 1 .. (d + 1) - 1 : b[j] = a[j]
    BY <1>1, <1>3, <1>7 DEF Shares
  <2>2. Len(b) < d + 1 \/ b[d + 1] < a[d + 1]
    BY <1>1, <1>7
  <2> QED
    BY <2>1, <2>2, BeforeIs
<1> QED
  BY <1>1, <1>3, <1>4, <1>5, <1>6, <1>7

\* What the ends of an interval have in common, its middle shares.
LEMMA BetweenShares ==
    ASSUME NEW a \in DnsName, NEW b \in DnsName, NEW c \in DnsName, Before(a, b), Before(b, c),
           NEW k, Shares(a, c, k)
    PROVE  Shares(b, a, k) /\ Shares(b, c, k)
<1>1. PICK i \in 1 .. Len(b) :
        /\ i <= Len(a) + 1 /\ \A j \in 1 .. i - 1 : a[j] = b[j]
        /\ Len(a) < i \/ a[i] < b[i]
  BY BeforeIs
<1>2. PICK j \in 1 .. Len(c) :
        /\ j <= Len(b) + 1 /\ \A l \in 1 .. j - 1 : b[l] = c[l]
        /\ Len(b) < j \/ b[j] < c[j]
  BY BeforeIs
<1>3. /\ Len(a) \in Nat /\ \A l \in 1 .. Len(a) : a[l] \in Nat
      /\ Len(b) \in Nat /\ \A l \in 1 .. Len(b) : b[l] \in Nat
      /\ Len(c) \in Nat /\ \A l \in 1 .. Len(c) : c[l] \in Nat
  BY LabelIs
<1>4. k \in 0 .. Len(a) /\ k <= Len(c) /\ \A l \in 1 .. k : a[l] = c[l]
  BY DEF Shares
<1>5. k <= i - 1
  <2> SUFFICES ASSUME i <= k PROVE FALSE
    BY <1>3, <1>4
  <2>1. i \in 1 .. Len(a) /\ i \in 1 .. Len(c) /\ a[i] < b[i] /\ a[i] = c[i]
    BY <1>1, <1>3, <1>4
  <2>2. CASE i < j
    BY <1>2, <1>3, <2>1, <2>2
  <2>3. CASE j <= i
    <3>1. j \in 1 .. k /\ j \in 1 .. Len(b) /\ b[j] < c[j] /\ a[j] = c[j]
      BY <1>2, <1>3, <1>4, <2>3
    <3>2. j # i => a[j] = b[j]
      BY <1>1, <2>3, <3>1
    <3> QED
      BY <1>3, <2>1, <3>1, <3>2
  <2> QED
    BY <1>3, <2>2, <2>3
<1>6. \A l \in 1 .. k : a[l] = b[l]
  BY <1>1, <1>4, <1>5
<1> QED
  BY <1>1, <1>3, <1>4, <1>5, <1>6 DEF Shares

\* A finite set that a relation puts in order has a first member.
LEMMA FirstOf ==
    ASSUME NEW S, IsFiniteSet(S), S # {}, NEW R,
           \A a, b \in S : a = b \/ <<a, b>> \in R \/ <<b, a>> \in R,
           \A a, b, c \in S : <<a, b>> \in R /\ <<b, c>> \in R => <<a, c>> \in R
    PROVE  \E m \in S : \A k \in S : k = m \/ <<m, k>> \in R
<1> DEFINE First(s) == \E m \in s : \A k \in s : k = m \/ <<m, k>> \in R
           T == {n \in Nat : \A s \in SUBSET S : s # {} /\ Cardinality(s) = n => First(s)}
<1>1. \A s \in SUBSET S : IsFiniteSet(s) /\ Cardinality(s) \in Nat
  <2> SUFFICES ASSUME NEW s \in SUBSET S PROVE IsFiniteSet(s) /\ Cardinality(s) \in Nat
    OBVIOUS
  <2>1. IsFiniteSet(s)
    BY FS_Subset
  <2> QED
    BY <2>1, FS_CardinalityType
<1>2. 0 \in T
  BY <1>1, FS_EmptySet
<1>3. ASSUME NEW n \in T PROVE n + 1 \in T
  <2> SUFFICES ASSUME NEW s \in SUBSET S, s # {}, Cardinality(s) = n + 1 PROVE First(s)
    BY <1>3
  <2>1. PICK x \in s : TRUE
    OBVIOUS
  <2> DEFINE rest == s \ {x}
  <2>2. Cardinality(rest) = n
    <3>1. IsFiniteSet(s) /\ x \in s
      BY <1>1, <2>1
    <3>2. Cardinality(rest) = Cardinality(s) - 1
      BY <3>1, FS_RemoveElement, Zenon
    <3> QED
      BY <3>2
  <2>3. x \in S /\ rest \in SUBSET S
    BY <2>1
  <2>4. CASE rest = {}
    BY <2>1, <2>4
  <2>5. CASE rest # {}
    <3>1. PICK m \in rest : \A k \in rest : k = m \/ <<m, k>> \in R
      BY <1>3, <2>2, <2>3, <2>5
    <3>2. m \in S /\ m # x /\ m \in s
      BY <2>3
    <3>3. CASE <<m, x>> \in R
      BY <3>1, <3>2, <3>3
    <3>4. CASE <<x, m>> \in R
      <4>1. \A k \in rest : <<x, k>> \in R
        BY <2>3, <3>1, <3>2, <3>4
      <4> QED
        BY <2>1, <4>1
    <3> QED
      BY <2>3, <3>2, <3>3, <3>4
  <2> QED
    BY <2>4, <2>5
<1>4. Nat = T
  <2> HIDE DEF T
  <2>1. T \subseteq Nat
    BY DEF T
  <2> QED
    BY <1>2, <1>3, <2>1, Induction
<1> QED
  BY <1>1, <1>4

\* A finite set of names has a first one and a last one.
LEMMA FirstName ==
    ASSUME NEW S, IsFiniteSet(S), S \subseteq DnsName, S # {}
    PROVE  /\ \E m \in S : \A k \in S : k = m \/ Before(m, k)
           /\ \E m \in S : \A k \in S : k = m \/ Before(k, m)
<1> DEFINE up == {p \in S \X S : Before(p[1], p[2])}
           down == {p \in S \X S : Before(p[2], p[1])}
<1>1. \A a, b \in S : (<<a, b>> \in up <=> Before(a, b)) /\ (<<a, b>> \in down <=> Before(b, a))
  OBVIOUS
<1>2. \A a, b \in S : a = b \/ Before(a, b) \/ Before(b, a)
  BY BeforeTotal
<1>3. \A a, b, c \in S : Before(a, b) /\ Before(b, c) => Before(a, c)
  BY BeforeTransitive
<1> HIDE DEF up, down
<1>4. \E m \in S : \A k \in S : k = m \/ <<m, k>> \in up
  <2>1. /\ \A a, b \in S : a = b \/ <<a, b>> \in up \/ <<b, a>> \in up
        /\ \A a, b, c \in S : <<a, b>> \in up /\ <<b, c>> \in up => <<a, c>> \in up
    BY <1>1, <1>2, <1>3
  <2> QED
    BY <2>1, FirstOf
<1>5. \E m \in S : \A k \in S : k = m \/ <<m, k>> \in down
  <2>1. /\ \A a, b \in S : a = b \/ <<a, b>> \in down \/ <<b, a>> \in down
        /\ \A a, b, c \in S : <<a, b>> \in down /\ <<b, c>> \in down => <<a, c>> \in down
    BY <1>1, <1>2, <1>3
  <2> QED
    BY <2>1, FirstOf
<1> QED
  BY <1>1, <1>4, <1>5

LEMMA BelowIs ==
    ASSUME NEW a \in DnsName, NEW b \in DnsName
    PROVE  /\ AtOrBelow(a, b) <=> Shares(a, b, Len(b))
           /\ IsBelow(a, b) <=> Shares(a, b, Len(b)) /\ Len(b) < Len(a)
<1>1. Len(a) \in Nat /\ Len(b) \in Nat
  BY LabelIs
<1>2. Ancestor(b, Len(b)) = b
  BY <1>1, AncestorIs, SameNames
<1>3. Len(b) <= Len(a) => (Ancestor(a, Len(b)) = b <=> Shares(a, b, Len(b)))
  BY <1>1, <1>2, AncestorsShared
<1>4. Shares(a, b, Len(b)) => Len(b) <= Len(a) /\ (Len(a) = Len(b) => a = b)
  BY <1>1, SameNames DEF Shares
<1>5. a = b => Shares(a, b, Len(b))
  BY <1>1 DEF Shares
<1> QED
  BY <1>1, <1>3, <1>4, <1>5 DEF AtOrBelow, IsBelow

\* An ancestor comes first.
LEMMA BelowAfter ==
    ASSUME NEW a \in DnsName, NEW b \in DnsName, IsBelow(a, b)
    PROVE  Before(b, a)
<1>1. Len(a) \in Nat /\ Len(b) \in Nat /\ Shares(a, b, Len(b)) /\ Len(b) < Len(a)
  BY BelowIs, LabelIs
<1> DEFINE i == Len(b) + 1
<1>2. i \in 1 .. Len(a) /\ i <= Len(b) + 1 /\ \A j \in 1 .. i - 1 : b[j] = a[j]
  BY <1>1 DEF Shares
<1>3. Len(b) < i
  BY <1>1
<1> HIDE DEF i
<1> QED
  BY <1>2, <1>3, BeforeIs

LEMMA ApexFirst ==
    ASSUME NEW n \in DnsName, AtOrBelow(n, Apex)
    PROVE  ~Before(n, Apex)
<1>1. Apex \in DnsName
  BY NameAssumption DEF DnsName
<1>2. n = Apex \/ IsBelow(n, Apex)
  BY DEF AtOrBelow
<1>3. n # Apex => Before(Apex, n)
  BY <1>1, <1>2, BelowAfter
<1> QED
  BY <1>1, <1>3, BeforeTransitive, BeforeIrreflexive

LEMMA SharedLabels ==
    ASSUME NEW a, NEW b, NEW k, Len(a) \in Nat, Len(b) \in Nat, Shares(a, b, k)
    PROVE  k \in 0 .. Len(b) /\ Shares(b, a, k) /\ \A j \in 0 .. k : Shares(a, b, j)
<1> QED
  BY DEF Shares

\* longest_common_ancestor
LEMMA CommonIs ==
    ASSUME NEW a \in DnsName, NEW b \in DnsName
    PROVE  /\ CommonLabels(a, b) \in 0 .. Len(a) /\ Shares(a, b, CommonLabels(a, b))
           /\ \A k : Shares(a, b, k) => k <= CommonLabels(a, b)
<1>1. Len(a) \in Nat /\ Len(b) \in Nat
  BY LabelIs
<1> DEFINE s == {d \in 0 .. Len(a) : Shares(a, b, d)}
           Common(d) == /\ d <= Len(b) /\ Ancestor(a, d) = Ancestor(b, d)
                        /\ d < Len(a) /\ d < Len(b) => a[d + 1] # b[d + 1]
<1>2. \E d \in s : \A e \in s : e <= d
  <2>1. s \subseteq 0 .. Len(a) /\ 0 \in s
    BY <1>1 DEF Shares
  <2> HIDE DEF s
  <2>2. s # {} /\ Len(a) \in Nat
    BY <1>1, <2>1
  <2> QED
    BY <2>1, <2>2, Greatest
<1>3. \A d \in 0 .. Len(a) : Common(d) => Shares(a, b, d)
  BY <1>1, AncestorsShared
<1>4. ASSUME NEW d \in s, \A e \in s : e <= d PROVE Common(d)
  <2>1. d \in 0 .. Len(a) /\ Shares(a, b, d) /\ d <= Len(b)
    BY DEF Shares
  <2>2. Ancestor(a, d) = Ancestor(b, d)
    BY <1>1, <2>1, AncestorsShared
  <2>3. ASSUME d < Len(a), d < Len(b), a[d + 1] = b[d + 1] PROVE FALSE
    <3>1. Shares(a, b, d + 1) /\ d + 1 \in 0 .. Len(a)
      BY <1>1, <2>1, <2>3 DEF Shares
    <3> QED
      BY <1>4, <2>1, <3>1
  <2> QED
    BY <2>1, <2>2, <2>3
<1>5. CommonLabels(a, b) \in 0 .. Len(a) /\ Common(CommonLabels(a, b))
  <2>1. \E d \in 0 .. Len(a) : Common(d)
    BY <1>2, <1>4
  <2>2. CommonLabels(a, b) = CHOOSE d \in 0 .. Len(a) : Common(d)
    BY DEF CommonLabels
  <2> HIDE DEF Common
  <2> QED
    BY <2>1, <2>2
<1> DEFINE c == CommonLabels(a, b)
<1>6. Shares(a, b, c)
  BY <1>3, <1>5
<1>7. ASSUME NEW k, Shares(a, b, k), c < k PROVE FALSE
  <2>1. k \in 0 .. Len(a) /\ k <= Len(b) /\ c \in Nat
    BY <1>1, <1>5, <1>7 DEF Shares
  <2>2. c + 1 \in 1 .. k /\ c < Len(a) /\ c < Len(b)
    BY <1>1, <1>7, <2>1
  <2>3. a[c + 1] = b[c + 1]
    BY <1>7, <2>2 DEF Shares
  <2> QED
    BY <1>5, <2>2, <2>3
<1>8. ASSUME NEW k, Shares(a, b, k) PROVE k <= c
  <2>1. k \in 0 .. Len(a) /\ c \in 0 .. Len(a)
    BY <1>5, <1>8 DEF Shares
  <2> HIDE DEF c
  <2> QED
    BY <1>1, <1>7, <1>8, <2>1
<1> QED
  BY <1>5, <1>6, <1>8

\* Being below is transitive, and the ancestors of a name lie in a line.
LEMMA BelowTransitive ==
    ASSUME NEW a \in DnsName, NEW b \in DnsName, NEW c \in DnsName, AtOrBelow(a, b), AtOrBelow(b, c)
    PROVE  AtOrBelow(a, c) /\ (b # c => IsBelow(a, c))
<1>1. Shares(a, b, Len(b)) /\ Shares(b, c, Len(c)) /\ Len(c) \in Nat /\ Len(b) \in Nat /\ Len(a) \in Nat
  BY BelowIs, LabelIs
<1>2. Shares(a, c, Len(c))
  BY <1>1 DEF Shares
<1>3. b # c => Len(c) < Len(b)
  BY BelowIs DEF AtOrBelow
<1>4. b # c => Len(c) < Len(a)
  BY <1>1, <1>3 DEF Shares
<1> QED
  BY <1>2, <1>4, BelowIs

LEMMA InLine ==
    ASSUME NEW n \in DnsName, NEW a \in DnsName, NEW b \in DnsName, AtOrBelow(n, a), AtOrBelow(n, b),
           Len(a) <= Len(b)
    PROVE  AtOrBelow(b, a) /\ (Len(a) = Len(b) => a = b)
<1>1. Shares(n, a, Len(a)) /\ Shares(n, b, Len(b)) /\ Len(a) \in Nat /\ Len(b) \in Nat
  BY BelowIs, LabelIs
<1>2. Shares(b, a, Len(a))
  BY <1>1 DEF Shares
<1>3. Len(a) = Len(b) => a = b
  BY <1>1, <1>2, SameNames DEF Shares
<1> QED
  BY <1>2, <1>3, BelowIs

LEMMA AncestorAbove ==
    ASSUME NEW n \in DnsName, NEW d \in 0 .. Len(n)
    PROVE  /\ Ancestor(n, d) \in DnsName /\ Len(Ancestor(n, d)) = d /\ AtOrBelow(n, Ancestor(n, d))
           /\ d < Len(n) => IsBelow(n, Ancestor(n, d))
           /\ \A e \in 0 .. d : Ancestor(Ancestor(n, d), e) = Ancestor(n, e)
           /\ \A m \in DnsName : AtOrBelow(n, m) /\ Len(m) = d => m = Ancestor(n, d)
<1> DEFINE a == Ancestor(n, d)
<1>1. a \in DnsName /\ Len(a) = d /\ (\A i \in 1 .. d : a[i] = n[i]) /\ Len(n) \in Nat
  BY AncestorIs, LabelIs
<1>2. AtOrBelow(n, a) /\ (d < Len(n) => IsBelow(n, a))
  <2> HIDE DEF a
  <2>1. Shares(n, a, Len(a))
    BY <1>1 DEF Shares
  <2> QED
    BY <1>1, <2>1, BelowIs
<1>3. ASSUME NEW e \in 0 .. d PROVE Ancestor(a, e) = Ancestor(n, e)
  <2> HIDE DEF a
  <2>1. Shares(a, n, e) /\ e \in Nat /\ e <= Len(a) /\ e <= Len(n)
    BY <1>1 DEF Shares
  <2> QED
    BY <1>1, <2>1, AncestorsShared
<1>4. ASSUME NEW m \in DnsName, AtOrBelow(n, m), Len(m) = d PROVE m = a
  <2> HIDE DEF a
  <2> QED BY <1>1, <1>2, <1>4, InLine
<1> QED
  BY <1>1, <1>2, <1>3, <1>4

-----------------------------------------------------------------------------
(* The zone and its NSEC chain                                             *)

LEMMA OwnersAre ==
    ASSUME z \in Zones
    PROVE  /\ IsFiniteSet(DOMAIN z.rrs) /\ Apex \in DOMAIN z.rrs /\ DOMAIN z.rrs \subseteq DnsName
           /\ Apex \in DnsName /\ Len(Apex) \in Nat
           /\ \A o \in DOMAIN z.rrs : /\ AtOrBelow(o, Apex) /\ Shares(o, Apex, Len(Apex))
                                      /\ "NSEC" \notin z.rrs[o] /\ "NSEC3" \notin z.rrs[o]
<1>1. Apex \in DnsName /\ Len(Apex) \in Nat
  BY NameAssumption, LabelIs DEF DnsName
<1>2. /\ IsFiniteSet(DOMAIN z.rrs) /\ Apex \in DOMAIN z.rrs
      /\ \A o \in DOMAIN z.rrs : o \in Seq(Nat) /\ AtOrBelow(o, Apex) /\ {"NSEC", "NSEC3"} \cap z.rrs[o] = {}
  BY ZoneAssumption
<1>3. \A o \in DOMAIN z.rrs : Shares(o, Apex, Len(Apex))
  BY <1>1, <1>2, BelowIs DEF DnsName
<1> QED
  BY <1>1, <1>2, <1>3 DEF DnsName

\* There is no delegation at n and none above it.
Uncut(n) == DelegationAbove(n) = {}

\* Wildcards are last labels and no delegations.
StarsPlain ==
    \A o \in DOMAIN z.rrs : \A i \in Len(Apex) + 1 .. Len(o) :
        o[i] = Star => i = Len(o) /\ "NS" \notin z.rrs[o]

LEMMA ChainIs ==
    ASSUME z \in Zones
    PROVE  /\ ChainOwners(z) \subseteq DOMAIN z.rrs /\ ChainOwners(z) \subseteq DnsName
           /\ IsFiniteSet(ChainOwners(z)) /\ Apex \in ChainOwners(z)
           /\ \A n : DelegationAbove(n) = {c \in DOMAIN z.rrs : is_cut(z, c) /\ AtOrBelow(n, c)}
<1>1. /\ IsFiniteSet(DOMAIN z.rrs) /\ Apex \in DOMAIN z.rrs /\ DOMAIN z.rrs \subseteq DnsName
      /\ Apex \in DnsName /\ \A o \in DOMAIN z.rrs : AtOrBelow(o, Apex)
  BY OwnersAre
<1>2. ChainOwners(z) \in SUBSET (DOMAIN z.rrs)
  BY DEF ChainOwners
<1>3. IsFiniteSet(ChainOwners(z))
  BY <1>1, <1>2, FS_Subset
<1>4. ~is_occluded(z, Apex)
  <2> SUFFICES ASSUME NEW c \in DOMAIN z.rrs, IsBelow(Apex, c) PROVE FALSE
    BY DEF is_occluded
  <2>1. AtOrBelow(c, Apex) /\ c \in DnsName
    BY <1>1
  <2>2. Len(c) \in Nat /\ Len(Apex) \in Nat /\ Shares(c, Apex, Len(Apex)) /\ Len(c) < Len(Apex)
    BY <1>1, <2>1, BelowIs, LabelIs
  <2> QED
    BY <2>2 DEF Shares
<1>5. \A n : DelegationAbove(n) = {c \in DOMAIN z.rrs : is_cut(z, c) /\ AtOrBelow(n, c)}
  BY DEF DelegationAbove, is_cut
<1> QED
  BY <1>1, <1>2, <1>3, <1>4, <1>5 DEF ChainOwners

LEMMA UncutAbove ==
    ASSUME z \in Zones, NEW n \in DnsName, Uncut(n), NEW a \in DnsName, AtOrBelow(n, a)
    PROVE  Uncut(a)
<1> SUFFICES ASSUME NEW c \in DelegationAbove(a) PROVE FALSE
  BY DEF Uncut
<1>1. c \in DOMAIN z.rrs /\ AtOrBelow(a, c) /\ c \in DnsName
  BY OwnersAre DEF DelegationAbove
<1>2. AtOrBelow(n, c)
  BY <1>1, BelowTransitive
<1>3. c \in DelegationAbove(n)
  BY <1>1, <1>2 DEF DelegationAbove
<1> QED
  BY <1>3 DEF Uncut

\* An owner with no delegation at it or above it takes part in both chains.
LEMMA UncutOwner ==
    ASSUME z \in Zones, NEW o \in DOMAIN z.rrs, Uncut(o)
    PROVE  /\ ~is_cut(z, o) /\ ~is_occluded(z, o) /\ chain_types(z, o) = z.rrs[o]
           /\ o \in ChainOwners(z) /\ o \in HashedOwners(z) /\ o \in nsec3_names(z) /\ has_signed(z, o)
<1>1. ~is_cut(z, o)
  BY DEF Uncut, DelegationAbove, is_cut, AtOrBelow
<1>2. ~is_occluded(z, o)
  BY ChainIs DEF is_occluded, Uncut, AtOrBelow
<1>3. has_signed(z, o)
  BY <1>1 DEF has_signed
<1>4. o \in ChainOwners(z) /\ o \in HashedOwners(z)
  BY <1>2, <1>3 DEF ChainOwners, HashedOwners
<1> QED
  BY <1>1, <1>2, <1>3, <1>4 DEF chain_types, nsec3_names

\* A name that is there, with no delegation above it, has an owner of the chain
\* at or below it: the first owner there.
LEMMA ChainBelow ==
    ASSUME z \in Zones, NEW n \in DnsName, Exists(n), \A c \in DelegationAbove(n) : c = n
    PROVE  \E o \in ChainOwners(z) : AtOrBelow(o, n)
<1> DEFINE there == {o \in DOMAIN z.rrs : AtOrBelow(o, n)}
<1>1. there \in SUBSET (DOMAIN z.rrs) /\ there # {} /\ IsFiniteSet(DOMAIN z.rrs) /\ there \subseteq DnsName
  BY OwnersAre DEF Exists
<1>2. PICK m \in there : \A k \in there : k = m \/ Before(m, k)
  <2> HIDE DEF there
  <2>1. IsFiniteSet(there)
    BY <1>1, FS_Subset
  <2> QED
    BY <1>1, <2>1, FirstName
<1>3. m \in DOMAIN z.rrs /\ m \in DnsName /\ AtOrBelow(m, n)
  BY <1>1
<1>4. ~is_occluded(z, m)
  <2> SUFFICES ASSUME NEW c \in DOMAIN z.rrs, is_cut(z, c), IsBelow(m, c) PROVE FALSE
    BY DEF is_occluded
  <2>1. c \in DnsName /\ AtOrBelow(m, c) /\ Len(c) \in Nat /\ Len(n) \in Nat
    BY OwnersAre, LabelIs DEF AtOrBelow
  <2>2. CASE Len(n) <= Len(c)
    <3>1. AtOrBelow(c, n)
      BY <1>3, <2>1, <2>2, InLine
    <3>2. Before(c, m) /\ (c = m \/ Before(m, c))
      BY <1>2, <1>3, <2>1, <3>1, BelowAfter
    <3> QED
      BY <1>3, <2>1, <3>2, BeforeTransitive, BeforeIrreflexive
  <2>3. CASE Len(c) < Len(n)
    <3>1. AtOrBelow(n, c)
      BY <1>3, <2>1, <2>3, InLine
    <3>2. c \in DelegationAbove(n)
      BY <3>1, ChainIs
    <3> QED
      BY <2>1, <2>3, <3>2
  <2> QED
    BY <2>1, <2>2, <2>3
<1> QED
  BY <1>3, <1>4 DEF ChainOwners

\* The next owner is the first one after p, or the apex when there is none.
LEMMA NextOwnerIs ==
    ASSUME z \in Zones, NEW p \in ChainOwners(z)
    PROVE  /\ NextOwner(z, p) \in ChainOwners(z)
           /\ \/ /\ Before(p, NextOwner(z, p))
                 /\ \A o \in ChainOwners(z) :
                        Before(p, o) => o = NextOwner(z, p) \/ Before(NextOwner(z, p), o)
              \/ NextOwner(z, p) = Apex /\ \A o \in ChainOwners(z) : ~Before(p, o)
<1> DEFINE later == {m \in ChainOwners(z) : Before(p, m)}
           First(s) == IF s = {} THEN Apex ELSE CHOOSE m \in s : \A k \in s : k = m \/ Before(m, k)
<1>1. NextOwner(z, p) = First(later)
  BY DEF NextOwner
<1>2. CASE later = {}
  BY <1>1, <1>2, ChainIs
<1>3. CASE later # {}
  <2>1. IsFiniteSet(ChainOwners(z)) /\ later \in SUBSET (ChainOwners(z)) /\ later \subseteq DnsName
    BY ChainIs
  <2>2. IsFiniteSet(later)
    <3> HIDE DEF later
    <3> QED BY <2>1, FS_Subset
  <2>3. \E m \in later : \A k \in later : k = m \/ Before(m, k)
    <3> HIDE DEF later
    <3> QED BY <1>3, <2>1, <2>2, FirstName
  <2>4. /\ NextOwner(z, p) \in later
        /\ \A k \in later : k = NextOwner(z, p) \/ Before(NextOwner(z, p), k)
    <3> HIDE DEF later
    <3> QED BY <1>1, <1>3, <2>3
  <2> QED
    BY <2>4
<1> QED
  BY <1>2, <1>3

\* n lies in the gap of the chain between p and q; q is not after n only when p
\* is the last owner.
Gap(p, q, n) ==
    /\ p \in ChainOwners(z) /\ q \in ChainOwners(z) /\ Before(p, n)
    /\ \A o \in ChainOwners(z) :
        \/ o = p \/ Before(o, p)
        \/ Before(n, q) /\ (o = q \/ Before(q, o))

LEMMA CoversGap ==
    ASSUME z \in Zones, NEW p \in ChainOwners(z),
           NEW n \in DnsName, AtOrBelow(n, Apex), covers_name(NsecAt(z, p), n)
    PROVE  Gap(p, NextOwner(z, p), n)
<1> DEFINE q == NextOwner(z, p)
<1>1. /\ n # p /\ n # q
      /\ IF Before(p, q) THEN Before(p, n) /\ Before(n, q) ELSE Before(p, n) \/ Before(n, q)
  BY DEF covers_name, NsecAt
<1>2. /\ ChainOwners(z) \subseteq DnsName /\ Apex \in ChainOwners(z) /\ q \in ChainOwners(z)
      /\ \A o \in ChainOwners(z) : AtOrBelow(o, Apex)
  BY OwnersAre, ChainIs, NextOwnerIs
<1>3. ~Before(n, Apex) /\ ~Before(p, Apex)
  BY <1>2, ApexFirst
<1>4. \A o \in ChainOwners(z) : o = p \/ Before(o, p) \/ Before(p, o)
  BY <1>2, BeforeTotal
<1>5. CASE Before(p, q) /\ \A o \in ChainOwners(z) : Before(p, o) => o = q \/ Before(q, o)
  <2>1. Before(p, n) /\ Before(n, q)
    BY <1>1, <1>5
  <2> HIDE DEF q
  <2>2. Gap(p, q, n)
    BY <1>2, <1>4, <1>5, <2>1 DEF Gap
  <2> QED
    BY <2>2 DEF q
<1>6. CASE q = Apex /\ \A o \in ChainOwners(z) : ~Before(p, o)
  <2>1. Before(p, n)
    BY <1>1, <1>3, <1>6
  <2> HIDE DEF q
  <2>2. Gap(p, q, n)
    BY <1>2, <1>4, <1>6, <2>1 DEF Gap
  <2> QED
    BY <2>2 DEF q
<1> QED
  BY <1>5, <1>6, NextOwnerIs

\* What an owner has in common with a name in a gap, an end of it has.
LEMMA GapShares ==
    ASSUME z \in Zones, NEW p, NEW q, NEW n \in DnsName, Gap(p, q, n),
           NEW o \in ChainOwners(z), NEW k, Shares(o, n, k)
    PROVE  Shares(p, n, k) \/ (Before(n, q) /\ Shares(q, n, k))
<1>1. /\ p \in DnsName /\ q \in DnsName /\ o \in DnsName /\ Before(p, n)
  BY ChainIs DEF Gap
<1>2. CASE o = p
  BY <1>2
<1>3. CASE Before(o, p)
  BY <1>1, <1>3, BetweenShares
<1>4. CASE Before(n, q) /\ o = q
  BY <1>4
<1>5. CASE Before(n, q) /\ Before(q, o)
  <2>1. Shares(n, o, k)
    BY <1>1, SharedLabels, LabelIs
  <2> QED
    BY <1>1, <1>5, <2>1, BetweenShares
<1> QED
  BY <1>2, <1>3, <1>4, <1>5 DEF Gap

LEMMA GapOwnsNone ==
    ASSUME z \in Zones, NEW p, NEW q, NEW n \in DnsName, Gap(p, q, n)
    PROVE  n \notin ChainOwners(z)
<1>1. p \in DnsName /\ q \in DnsName /\ Before(p, n)
  BY ChainIs DEF Gap
<1>2. ~Before(n, p) /\ n # p
  BY <1>1, BeforeTransitive, BeforeIrreflexive
<1>3. Before(n, q) => n # q /\ ~Before(q, n)
  BY <1>1, BeforeTransitive, BeforeIrreflexive
<1> QED
  BY <1>2, <1>3 DEF Gap

\* A name in a gap has an owner of the chain below it only if the end is one.
LEMMA GapBelow ==
    ASSUME z \in Zones, NEW p, NEW q, NEW n \in DnsName, Gap(p, q, n),
           NEW o \in ChainOwners(z), AtOrBelow(o, n)
    PROVE  IsBelow(q, n)
<1>1. /\ p \in DnsName /\ q \in DnsName /\ Before(p, n) /\ o \in DnsName
      /\ Len(n) \in Nat /\ Len(q) \in Nat
  BY ChainIs, LabelIs DEF Gap
<1>2. n \notin ChainOwners(z)
  BY GapOwnsNone
<1>3. IsBelow(o, n) /\ Before(n, o) /\ Shares(o, n, Len(n))
  BY <1>1, <1>2, BelowAfter, BelowIs DEF AtOrBelow
<1>4. o # p /\ ~Before(o, p)
  <2>1. Before(p, o)
    BY <1>1, <1>3, BeforeTransitive
  <2> QED
    BY <1>1, <2>1, BeforeTransitive, BeforeIrreflexive
<1>5. Before(n, q) /\ (o = q \/ Before(q, o))
  BY <1>4 DEF Gap
<1>6. CASE o = q
  BY <1>3, <1>6
<1>7. CASE Before(q, o)
  <2>1. Shares(n, o, Len(n))
    BY <1>1, <1>3, SharedLabels, LabelIs
  <2>2. Shares(q, n, Len(n))
    BY <1>1, <1>5, <1>7, <2>1, BetweenShares
  <2>3. AtOrBelow(q, n)
    BY <1>1, <2>2, BelowIs
  <2>4. q # n
    BY <1>1, <1>5, BeforeIrreflexive
  <2> QED
    BY <2>3, <2>4 DEF AtOrBelow
<1> QED
  BY <1>5, <1>6, <1>7

\* The chain is complete: a name that is none of its owners lies in a gap that
\* one of its records covers.
LEMMA ChainCovers ==
    ASSUME z \in Zones, NEW n \in DnsName, AtOrBelow(n, Apex), n \notin ChainOwners(z)
    PROVE  \E p \in ChainOwners(z) : covers_name(NsecAt(z, p), n)
<1> DEFINE earlier == {o \in ChainOwners(z) : Before(o, n)}
<1>1. /\ ChainOwners(z) \subseteq DnsName /\ Apex \in ChainOwners(z) /\ Apex \in DnsName
      /\ \A o \in ChainOwners(z) : AtOrBelow(o, Apex)
  BY OwnersAre, ChainIs
<1>2. Apex \in earlier
  BY <1>1, BelowAfter DEF AtOrBelow
<1>3. PICK p \in earlier : \A o \in earlier : o = p \/ Before(o, p)
  <2>1. earlier \in SUBSET (ChainOwners(z)) /\ earlier \subseteq DnsName /\ IsFiniteSet(ChainOwners(z))
    BY ChainIs
  <2> HIDE DEF earlier
  <2>2. IsFiniteSet(earlier)
    BY <2>1, FS_Subset
  <2> QED
    BY <1>2, <2>1, <2>2, FirstName
<1>4. p \in ChainOwners(z) /\ p \in DnsName /\ Before(p, n)
  BY <1>1
<1> DEFINE q == NextOwner(z, p)
<1>5. q \in ChainOwners(z) /\ q # n /\ q \in DnsName /\ p # n
  BY <1>1, <1>4, NextOwnerIs
<1>6. CASE Before(p, q)
  <2>1. ~Before(q, n)
    <3> SUFFICES ASSUME Before(q, n) PROVE FALSE
      OBVIOUS
    <3>1. q = p \/ Before(q, p)
      BY <1>3, <1>5
    <3> QED
      BY <1>4, <1>5, <1>6, <3>1, BeforeTransitive, BeforeIrreflexive
  <2>2. Before(n, q)
    BY <1>5, <2>1, BeforeTotal
  <2> QED
    BY <1>4, <1>5, <1>6, <2>2 DEF covers_name, NsecAt
<1>7. CASE ~Before(p, q)
  BY <1>4, <1>5, <1>7 DEF covers_name, NsecAt
<1> QED
  BY <1>4, <1>6, <1>7

LEMMA FlatChain ==
    ASSUME Flat
    PROVE  StarsPlain /\ \A n : Uncut(n) /\ DnamesAbove(z, n) = {}
<1>1. \A n : Uncut(n) /\ DnamesAbove(z, n) = {}
  BY DEF Flat, DelegationAbove, Uncut, DnamesAbove
<1>2. StarsPlain
  <2> SUFFICES ASSUME NEW o \in DOMAIN z.rrs, NEW i \in Len(Apex) + 1 .. Len(o), o[i] = Star
               PROVE  i = Len(o) /\ "NS" \notin z.rrs[o]
    BY DEF StarsPlain
  <2>1. Len(o) \in Nat /\ Len(Apex) \in Nat
    BY DEF Flat
  <2> QED
    BY <2>1 DEF Flat
<1> QED
  BY <1>1, <1>2

-----------------------------------------------------------------------------
(* Closest enclosers and wildcards                                         *)

LEMMA ExistsIs ==
    ASSUME z \in Zones, NEW n \in DnsName, NEW d \in 0 .. Len(n)
    PROVE  Exists(Ancestor(n, d)) <=> \E o \in DOMAIN z.rrs : Shares(o, n, d)
<1>1. /\ DOMAIN z.rrs \subseteq DnsName /\ Len(n) \in Nat
  BY OwnersAre, LabelIs
<1>2. /\ Ancestor(n, d) \in DnsName /\ Len(Ancestor(n, d)) = d
      /\ \A i \in 1 .. d : Ancestor(n, d)[i] = n[i]
  BY <1>1, AncestorIs
<1>3. ASSUME NEW o \in DOMAIN z.rrs
      PROVE  AtOrBelow(o, Ancestor(n, d)) <=> Shares(o, n, d)
  <2>1. AtOrBelow(o, Ancestor(n, d)) <=> Shares(o, Ancestor(n, d), d)
    BY <1>1, <1>2, BelowIs
  <2>2. Shares(o, Ancestor(n, d), d) <=> Shares(o, n, d)
    BY <1>1, <1>2 DEF Shares
  <2> QED
    BY <2>1, <2>2
<1> QED
  BY <1>3 DEF Exists

\* A name is its own ancestor.
LEMMA SelfAncestor ==
    ASSUME NEW n \in DnsName
    PROVE  Ancestor(n, Len(n)) = n /\ Len(n) \in 0 .. Len(n)
<1>1. Len(n) \in Nat /\ Len(n) \in 0 .. Len(n)
  BY LabelIs
<1> QED
  BY <1>1, AncestorIs, SameNames

LEMMA WildcardIs ==
    ASSUME NEW n \in DnsName, NEW d \in 0 .. Len(n)
    PROVE  /\ wildcard_at(n, d) \in DnsName /\ Len(wildcard_at(n, d)) = d + 1
           /\ wildcard_at(n, d)[d + 1] = Star
           /\ \A i \in 1 .. d : wildcard_at(n, d)[i] = n[i]
<1>1. /\ Ancestor(n, d) \in Seq(Nat) /\ Len(Ancestor(n, d)) = d
      /\ \A i \in 1 .. d : Ancestor(n, d)[i] = n[i]
  BY AncestorIs DEF DnsName
<1>2. Star \in Nat
  BY NameAssumption
<1> DEFINE a == Ancestor(n, d)
<1> HIDE DEF a
<1>3. /\ Append(a, Star) \in Seq(Nat) /\ Len(Append(a, Star)) = Len(a) + 1
      /\ Append(a, Star)[Len(a) + 1] = Star
      /\ \A i \in 1 .. Len(a) : Append(a, Star)[i] = a[i]
  BY <1>1, <1>2, AppendProperties DEF a
<1> QED
  BY <1>1, <1>3 DEF a, wildcard_at, DnsName

\* The ancestor of n with d labels is the longest one there is.
Encloses(n, d) ==
    /\ d \in 0 .. Len(n) /\ d # Len(n)
    /\ Exists(Ancestor(n, d)) /\ ~Exists(Ancestor(n, d + 1))

\* Then n is not there, and the only wildcard that may answer for it is the
\* one at the closest encloser.
LEMMA EncloserMeans ==
    ASSUME z \in Zones, NEW n \in DnsName, AtOrBelow(n, Apex), NEW d, Encloses(n, d)
    PROVE  /\ ~Exists(n) /\ Len(Apex) <= d
           /\ SourceOfSynthesis(n) = {w \in {wildcard_at(n, d)} : Exists(w)}
<1>1. /\ DOMAIN z.rrs \subseteq DnsName /\ Len(n) \in Nat /\ Len(Apex) \in Nat /\ Apex \in DnsName
      /\ Apex \in DOMAIN z.rrs /\ d \in 0 .. Len(n) - 1 /\ d + 1 \in 0 .. Len(n)
  BY OwnersAre, LabelIs DEF Encloses
<1>2. /\ \E o \in DOMAIN z.rrs : Shares(o, n, d)
      /\ \A o \in DOMAIN z.rrs : ~Shares(o, n, d + 1)
  BY <1>1, ExistsIs DEF Encloses
<1>3. \A o \in DOMAIN z.rrs, k \in 0 .. Len(n) : Shares(o, n, k) => k <= d
  <2> SUFFICES ASSUME NEW o \in DOMAIN z.rrs, NEW k \in 0 .. Len(n), Shares(o, n, k), d < k
               PROVE FALSE
    BY <1>1
  <2>1. Len(o) \in Nat
    BY <1>1, LabelIs
  <2>2. Shares(o, n, d + 1)
    BY <1>1, <2>1, SharedLabels
  <2> QED
    BY <1>2, <2>2
<1>4. ~Exists(n)
  <2>1. Exists(n) => \E o \in DOMAIN z.rrs : Shares(o, n, Len(n))
    BY ExistsIs, SelfAncestor
  <2> QED
    BY <1>1, <1>3, <2>1
<1>5. Len(Apex) <= d
  <2>1. Shares(n, Apex, Len(Apex))
    BY <1>1, BelowIs
  <2>2. Shares(Apex, n, Len(Apex)) /\ Len(Apex) \in 0 .. Len(n)
    BY <1>1, <2>1, SharedLabels DEF Shares
  <2> QED
    BY <1>1, <1>3, <2>2
<1>6. ASSUME NEW e \in Len(Apex) .. Len(n) - 1
      PROVE  /\ Exists(wildcard_at(n, e)) => e <= d
             /\ ~Exists(Ancestor(n, Len(wildcard_at(n, e)))) <=> d <= e
  <2>1. e \in 0 .. Len(n) /\ e + 1 \in 0 .. Len(n)
    BY <1>1
  <2> DEFINE w == wildcard_at(n, e)
  <2>2. w \in DnsName /\ Len(w) = e + 1 /\ \A i \in 1 .. e : w[i] = n[i]
    BY <2>1, WildcardIs
  <2> HIDE DEF w
  <2>3. ASSUME Exists(w) PROVE e <= d
    <3>1. PICK o \in DOMAIN z.rrs : Shares(o, w, Len(w))
      BY <2>2, <2>3, ExistsIs, SelfAncestor
    <3>2. Len(o) \in Nat
      BY <1>1, LabelIs
    <3>3. Shares(o, n, e)
      BY <2>1, <2>2, <3>1, <3>2 DEF Shares
    <3> QED
      BY <1>3, <2>1, <3>3
  <2>4. Exists(Ancestor(n, e + 1)) <=> \E o \in DOMAIN z.rrs : Shares(o, n, e + 1)
    BY <2>1, ExistsIs
  <2>5. Exists(Ancestor(n, e + 1)) => e + 1 <= d
    BY <1>3, <2>1, <2>4
  <2>6. ASSUME e + 1 <= d PROVE Exists(Ancestor(n, e + 1))
    <3>1. PICK o \in DOMAIN z.rrs : Shares(o, n, d)
      BY <1>2
    <3>2. Len(o) \in Nat /\ e + 1 \in 0 .. d
      BY <1>1, <2>1, <2>6, LabelIs
    <3>3. Shares(o, n, e + 1)
      BY <1>1, <3>1, <3>2, SharedLabels
    <3> QED
      BY <2>4, <3>3
  <2> QED
    BY <1>1, <2>1, <2>2, <2>3, <2>5, <2>6 DEF w
<1>7. SourceOfSynthesis(n) = {w \in {wildcard_at(n, d)} : Exists(w)}
  <2>1. d \in Len(Apex) .. Len(n) - 1
    BY <1>1, <1>5
  <2>2. ASSUME NEW w \in SourceOfSynthesis(n) PROVE w = wildcard_at(n, d) /\ Exists(w)
    <3>1. PICK e \in Len(Apex) .. Len(n) - 1 : w = wildcard_at(n, e)
      BY DEF SourceOfSynthesis
    <3>2. Exists(w) /\ ~Exists(Ancestor(n, Len(w)))
      BY DEF SourceOfSynthesis
    <3>3. e <= d /\ d <= e
      BY <1>6, <3>1, <3>2
    <3>4. e = d
      BY <1>1, <3>3
    <3> QED
      BY <3>1, <3>2, <3>4
  <2>3. ASSUME Exists(wildcard_at(n, d)) PROVE wildcard_at(n, d) \in SourceOfSynthesis(n)
    <3>1. ~Exists(Ancestor(n, Len(wildcard_at(n, d))))
      BY <1>1, <1>6, <2>1
    <3> QED
      BY <2>1, <2>3, <3>1 DEF SourceOfSynthesis
  <2> QED
    BY <2>2, <2>3
<1> QED
  BY <1>4, <1>5, <1>7

LEMMA ExistsAbove ==
    ASSUME z \in Zones, NEW n \in DnsName, NEW d \in 0 .. Len(n), NEW e \in 0 .. d,
           Exists(Ancestor(n, d))
    PROVE  Exists(Ancestor(n, e))
<1>1. PICK o \in DOMAIN z.rrs : Shares(o, n, d)
  BY ExistsIs
<1>2. Len(o) \in Nat /\ Len(n) \in Nat
  BY OwnersAre, LabelIs
<1>3. Shares(o, n, e) /\ e \in 0 .. Len(n)
  BY <1>1, <1>2, SharedLabels
<1> QED
  BY <1>3, ExistsIs

\* A name has one closest encloser.
LEMMA EnclosesOnce ==
    ASSUME z \in Zones, NEW n \in DnsName, NEW d, NEW e, Encloses(n, d), Encloses(n, e)
    PROVE  d = e
<1>1. Len(n) \in Nat /\ d \in 0 .. Len(n) /\ e \in 0 .. Len(n) /\ d # Len(n) /\ e # Len(n)
  BY LabelIs DEF Encloses
<1>2. ~(d < e)
  <2>1. d < e => d + 1 \in 0 .. e
    BY <1>1
  <2> QED
    BY <1>1, <2>1, ExistsAbove DEF Encloses
<1>3. ~(e < d)
  <2>1. e < d => e + 1 \in 0 .. d
    BY <1>1
  <2> QED
    BY <1>1, <2>1, ExistsAbove DEF Encloses
<1> QED
  BY <1>1, <1>2, <1>3

\* A wildcard that is there owns records, and no delegation is at it.
LEMMA WildcardOwned ==
    ASSUME z \in Zones, StarsPlain, NEW n \in DnsName, NEW d \in 0 .. Len(n), Len(Apex) <= d
    PROVE  /\ Exists(wildcard_at(n, d)) <=> wildcard_at(n, d) \in DOMAIN z.rrs
           /\ Uncut(n) => Uncut(wildcard_at(n, d))
           /\ AtOrBelow(n, Apex) => AtOrBelow(wildcard_at(n, d), Apex)
<1> DEFINE w == wildcard_at(n, d)
<1>1. /\ w \in DnsName /\ Len(w) = d + 1 /\ w[d + 1] = Star /\ d \in Nat /\ Len(n) \in Nat
      /\ \A i \in 1 .. d : w[i] = n[i]
  BY WildcardIs, LabelIs
<1>2. Len(Apex) \in Nat /\ Apex \in DnsName /\ DOMAIN z.rrs \subseteq DnsName
  BY OwnersAre
<1> HIDE DEF w
<1>3. ASSUME Exists(w) PROVE w \in DOMAIN z.rrs
  <2>1. PICK o \in DOMAIN z.rrs : Shares(o, w, d + 1)
    BY <1>1, <1>3, ExistsIs, SelfAncestor
  <2>2. o \in DnsName /\ Len(o) \in Nat
    BY <1>2, LabelIs
  <2>3. d + 1 <= Len(o) /\ o[d + 1] = Star /\ d + 1 \in Len(Apex) + 1 .. Len(o)
    BY <1>1, <1>2, <2>1, <2>2 DEF Shares
  <2>4. d + 1 = Len(o)
    BY <2>3 DEF StarsPlain
  <2>5. Len(o) = Len(w) /\ \A i \in 1 .. Len(o) : o[i] = w[i]
    BY <1>1, <2>1, <2>2, <2>4 DEF Shares
  <2> QED
    BY <1>1, <2>2, <2>5, SameNames
<1>4. w \in DOMAIN z.rrs => Exists(w)
  BY DEF Exists, AtOrBelow
<1>5. ASSUME Uncut(n) PROVE Uncut(w)
  <2> SUFFICES ASSUME NEW c \in DelegationAbove(w) PROVE FALSE
    BY DEF Uncut
  <2>1. c \in DOMAIN z.rrs /\ c # Apex /\ "NS" \in z.rrs[c] /\ AtOrBelow(w, c) /\ c \in DnsName
    BY <1>2 DEF DelegationAbove
  <2>2. CASE c = w
    <3>1. d + 1 \in Len(Apex) + 1 .. Len(c) /\ c[d + 1] = Star
      BY <1>1, <1>2, <2>2
    <3> QED
      BY <2>1, <3>1 DEF StarsPlain
  <2>3. CASE IsBelow(w, c)
    <3>1. Len(c) < d + 1 /\ Shares(w, c, Len(c)) /\ Len(c) \in Nat
      BY <1>1, <2>1, <2>3, BelowIs, LabelIs
    <3>2. Shares(n, c, Len(c))
      BY <1>1, <3>1 DEF Shares
    <3>3. AtOrBelow(n, c)
      BY <2>1, <3>2, BelowIs
    <3>4. c \in DelegationAbove(n)
      BY <2>1, <3>3 DEF DelegationAbove
    <3> QED
      BY <1>5, <3>4 DEF Uncut
  <2> QED
    BY <2>1, <2>2, <2>3 DEF AtOrBelow
<1>6. ASSUME AtOrBelow(n, Apex) PROVE AtOrBelow(w, Apex)
  <2>1. Shares(n, Apex, Len(Apex))
    BY <1>2, <1>6, BelowIs
  <2>2. Shares(w, Apex, Len(Apex))
    BY <1>1, <1>2, <2>1 DEF Shares
  <2> QED
    BY <1>1, <1>2, <2>2, BelowIs
<1> QED
  BY <1>3, <1>4, <1>5, <1>6 DEF w

\* The closest encloser read off a covering NSEC.
LEMMA EncloserOfGap ==
    ASSUME z \in Zones, NEW n \in DnsName, Uncut(n), NEW r, Gap(r.owner, r.next, n), ~Exists(n)
    PROVE  Encloses(n, closest_encloser_nsec(n, r))
<1> DEFINE a == CommonLabels(n, r.owner)
           b == CommonLabels(n, r.next)
           c == IF a >= b THEN a ELSE b
           p == r.owner
           q == r.next
<1>1. /\ p \in DnsName /\ q \in DnsName /\ p \in ChainOwners(z) /\ q \in ChainOwners(z)
      /\ ChainOwners(z) \subseteq DnsName /\ ChainOwners(z) \subseteq DOMAIN z.rrs
      /\ Len(n) \in Nat /\ Len(p) \in Nat /\ Len(q) \in Nat
  BY ChainIs, LabelIs DEF Gap
<1>2. a \in 0 .. Len(n) /\ Shares(n, p, a) /\ \A k : Shares(n, p, k) => k <= a
  BY <1>1, CommonIs
<1>3. b \in 0 .. Len(n) /\ Shares(n, q, b) /\ \A k : Shares(n, q, k) => k <= b
  BY <1>1, CommonIs
<1>4. closest_encloser_nsec(n, r) = c
  BY DEF closest_encloser_nsec
<1> HIDE DEF a, b
<1>5. c \in 0 .. Len(n) /\ a <= c /\ b <= c /\ (c = a \/ c = b)
  BY <1>1, <1>2, <1>3
<1> HIDE DEF c
<1>6. \E o \in DOMAIN z.rrs : Shares(o, n, c)
  <2>1. Shares(p, n, a) /\ Shares(q, n, b)
    BY <1>1, <1>2, <1>3, SharedLabels
  <2> QED
    BY <1>1, <1>5, <2>1
<1>7. c # Len(n)
  <2>1. ~\E o \in DOMAIN z.rrs : Shares(o, n, Len(n))
    BY ExistsIs, SelfAncestor
  <2> QED
    BY <1>6, <2>1
<1>8. \A o \in ChainOwners(z) : ~Shares(o, n, c + 1)
  <2> SUFFICES ASSUME NEW o \in ChainOwners(z), Shares(o, n, c + 1) PROVE FALSE
    OBVIOUS
  <2>1. Shares(p, n, c + 1) \/ Shares(q, n, c + 1)
    BY GapShares
  <2>2. Shares(n, p, c + 1) \/ Shares(n, q, c + 1)
    BY <1>1, <2>1, SharedLabels
  <2>3. c + 1 <= a \/ c + 1 <= b
    BY <1>2, <1>3, <2>2
  <2> QED
    BY <1>2, <1>3, <1>5, <2>3
<1>9. Exists(Ancestor(n, c)) /\ c + 1 \in 0 .. Len(n)
  BY <1>1, <1>5, <1>6, <1>7, ExistsIs
<1>10. ~Exists(Ancestor(n, c + 1))
  <2> SUFFICES ASSUME Exists(Ancestor(n, c + 1)) PROVE FALSE
    OBVIOUS
  <2> DEFINE m == Ancestor(n, c + 1)
  <2>1. m \in DnsName /\ Len(m) = c + 1 /\ AtOrBelow(n, m) /\ \A i \in 1 .. c + 1 : m[i] = n[i]
    BY <1>9, AncestorAbove, AncestorIs
  <2>2. Uncut(m)
    BY <2>1, UncutAbove
  <2> HIDE DEF m
  <2>3. PICK o \in ChainOwners(z) : AtOrBelow(o, m)
    <3>1. Exists(m)
      BY DEF m
    <3>2. \A x \in DelegationAbove(m) : x = m
      BY <2>2 DEF Uncut
    <3> QED
      BY <2>1, <3>1, <3>2, ChainBelow
  <2>4. Shares(o, m, c + 1)
    BY <1>1, <2>1, <2>3, BelowIs
  <2>5. Shares(o, n, c + 1)
    BY <1>9, <2>1, <2>4 DEF Shares
  <2> QED
    BY <1>8, <2>5
<1> QED
  BY <1>4, <1>5, <1>7, <1>9, <1>10 DEF Encloses

\* A record that covers the next closer name covers every name below it.
LEMMA CoversBelow ==
    ASSUME z \in Zones, NEW p \in ChainOwners(z), NEW m \in DnsName, AtOrBelow(m, Apex), ~Exists(m),
           covers_name(NsecAt(z, p), m), NEW n \in DnsName, AtOrBelow(n, m)
    PROVE  covers_name(NsecAt(z, p), n)
<1> DEFINE q == NextOwner(z, p)
<1>1. /\ p \in DnsName /\ q \in DnsName /\ p \in DOMAIN z.rrs /\ q \in DOMAIN z.rrs
      /\ Len(m) \in Nat /\ Shares(n, m, Len(m)) /\ Len(n) \in Nat
  BY ChainIs, NextOwnerIs, BelowIs, LabelIs
<1>2. Before(p, m) /\ (Before(p, q) => Before(m, q))
  <2>1. Before(p, m)
    <3>1. Gap(p, q, m)
      BY CoversGap
    <3> HIDE DEF q
    <3> QED
      BY <3>1 DEF Gap
  <2>2. Before(p, q) => Before(m, q)
    BY DEF covers_name, NsecAt
  <2> QED
    BY <2>1, <2>2
<1>3. \A o \in DOMAIN z.rrs : ~Shares(o, m, Len(m))
  BY ExistsIs, SelfAncestor
<1>4. ~Shares(q, m, Len(m)) /\ ~Shares(p, m, Len(m))
  BY <1>1, <1>3
<1> HIDE DEF q
<1>5. n # p /\ n # q
  BY <1>1, <1>4
<1>6. Before(p, n)
  <2>1. m = n \/ Before(m, n)
    BY BelowAfter DEF AtOrBelow
  <2> QED
    BY <1>1, <1>2, <2>1, BeforeTransitive
<1>7. ASSUME Before(p, q) PROVE Before(n, q)
  <2> SUFFICES ASSUME Before(q, n) PROVE FALSE
    BY <1>1, <1>5, BeforeTotal
  <2>1. Shares(m, n, Len(m))
    BY <1>1, SharedLabels
  <2>2. Before(m, q)
    BY <1>2, <1>7
  <2> QED
    BY <1>1, <1>4, <2>1, <2>2, BetweenShares
<1> QED
  BY <1>5, <1>6, <1>7 DEF covers_name, NsecAt, q

-----------------------------------------------------------------------------
(* The NSEC3 chain                                                         *)

LEMMA ImageFinite ==
    ASSUME NEW S, IsFiniteSet(S), NEW f, DOMAIN f = S
    PROVE  IsFiniteSet({f[x] : x \in S})
<1> DEFINE T == {f[x] : x \in S}
           g == [x \in S |-> f[x]]
<1>1. g \in Surjection(S, T)
  BY DEF Surjection
<1> HIDE DEF g, T
<1>2. IsFiniteSet(T)
  BY <1>1, FS_Surjection
<1> QED
  BY <1>2 DEF T

\* It has names that are there, and no other.
LEMMA Nsec3NamesAre ==
    ASSUME z \in Zones
    PROVE  /\ \A m \in nsec3_names(z) :
                /\ m \in DnsName /\ m \in Hashable /\ Exists(m)
                /\ Len(Apex) <= Len(m) /\ AtOrBelow(m, Apex)
           /\ Apex \in nsec3_names(z)
<1>1. /\ DOMAIN z.rrs \subseteq DnsName /\ Len(Apex) \in Nat /\ Apex \in DnsName
      /\ Apex \in DOMAIN z.rrs /\ \A o \in DOMAIN z.rrs : Shares(o, Apex, Len(Apex))
  BY OwnersAre
<1>2. \A o \in DOMAIN z.rrs : \A d \in 0 .. Len(o) : Ancestor(o, d) \in Hashable
  BY DEF Hashable
<1>3. HashedOwners(z) \subseteq DOMAIN z.rrs
  BY DEF HashedOwners, ChainOwners
<1>4. ASSUME NEW o \in DOMAIN z.rrs, NEW d \in 0 .. Len(o), Len(Apex) <= d, NEW m, m = Ancestor(o, d)
      PROVE  /\ m \in DnsName /\ m \in Hashable /\ Exists(m) /\ Len(Apex) <= Len(m)
             /\ AtOrBelow(m, Apex)
  <2>1. o \in DnsName /\ Len(o) \in Nat
    BY <1>1, LabelIs
  <2>2. m \in DnsName /\ Len(m) = d /\ \A i \in 1 .. d : m[i] = o[i]
    BY <1>4, <2>1, AncestorIs
  <2>3. Shares(o, o, d) /\ Shares(m, Apex, Len(Apex))
    BY <1>1, <1>4, <2>1, <2>2 DEF Shares
  <2> QED
    BY <1>1, <1>2, <1>4, <2>1, <2>2, <2>3, ExistsIs, BelowIs
<1>5. ASSUME NEW m \in nsec3_names(z)
      PROVE  /\ m \in DnsName /\ m \in Hashable /\ Exists(m) /\ Len(Apex) <= Len(m)
             /\ AtOrBelow(m, Apex)
  <2>1. CASE m \in HashedOwners(z)
    <3>1. m \in DOMAIN z.rrs /\ Len(m) \in 0 .. Len(m) /\ m = Ancestor(m, Len(m)) /\ Len(Apex) <= Len(m)
      BY <1>1, <1>3, <2>1, LabelIs, SelfAncestor DEF Shares
    <3> QED
      BY <1>4, <3>1
  <2>2. ASSUME NEW o \in HashedOwners(z), NEW d \in Len(Apex) + 1 .. Len(o) - 1, m = Ancestor(o, d)
        PROVE  /\ m \in DnsName /\ m \in Hashable /\ Exists(m) /\ Len(Apex) <= Len(m)
               /\ AtOrBelow(m, Apex)
    <3>1. o \in DOMAIN z.rrs /\ d \in 0 .. Len(o) /\ Len(Apex) <= d
      BY <1>1, <1>3, LabelIs
    <3> QED
      BY <1>4, <2>2, <3>1
  <2> QED
    BY <2>1, <2>2 DEF nsec3_names
<1>6. Apex \in nsec3_names(z)
  BY ChainIs DEF nsec3_names, HashedOwners, has_signed, is_cut
<1> QED
  BY <1>5, <1>6

\* An owner of the chain puts its ancestors there too.
LEMMA Nsec3NamesHave ==
    ASSUME z \in Zones, NEW o \in HashedOwners(z), NEW m \in DnsName, Len(Apex) < Len(m),
           AtOrBelow(o, m), m \in DOMAIN z.rrs => m \in HashedOwners(z)
    PROVE  m \in nsec3_names(z)
<1>1. CASE m \in DOMAIN z.rrs
  BY <1>1 DEF nsec3_names
<1>2. CASE m \notin DOMAIN z.rrs
  <2>1. o \in DOMAIN z.rrs /\ o \in DnsName /\ Len(Apex) \in Nat
    BY OwnersAre DEF HashedOwners, ChainOwners
  <2>2. IsBelow(o, m)
    BY <1>2, <2>1 DEF AtOrBelow
  <2>3. Len(m) < Len(o) /\ m = Ancestor(o, Len(m)) /\ Len(o) \in Nat /\ Len(m) \in Nat
    BY <2>1, <2>2, LabelIs DEF IsBelow
  <2>4. Len(m) \in Len(Apex) + 1 .. Len(o) - 1
    BY <2>1, <2>3
  <2> QED
    BY <1>2, <2>3, <2>4 DEF nsec3_names
<1> QED
  BY <1>1, <1>2

\* Every ancestor of n that is there has an NSEC3.
InChain(n) ==
    \A k \in Len(Apex) .. Len(n) : Exists(Ancestor(n, k)) => Ancestor(n, k) \in nsec3_names(z)

\* Without opt-out the chain leaves out no name the zone speaks for.
LEMMA WholeChain ==
    ASSUME z \in Zones, HashedOwners(z) = ChainOwners(z), NEW n \in DnsName, AtOrBelow(n, Apex), Uncut(n)
    PROVE  InChain(n)
<1> SUFFICES ASSUME NEW k \in Len(Apex) .. Len(n), Exists(Ancestor(n, k))
             PROVE  Ancestor(n, k) \in nsec3_names(z)
  BY DEF InChain
<1> DEFINE m == Ancestor(n, k)
<1>1. Len(Apex) \in Nat /\ Len(n) \in Nat /\ k \in 0 .. Len(n)
  BY OwnersAre, LabelIs
<1>2. m \in DnsName /\ Len(m) = k /\ AtOrBelow(n, m) /\ Exists(m)
  BY <1>1, AncestorAbove
<1> HIDE DEF m
<1>3. Uncut(m)
  BY <1>2, UncutAbove
<1>4. CASE k = Len(Apex)
  <2>1. m = Apex
    BY <1>2, <1>4, InLine, OwnersAre
  <2> QED
    BY <2>1, Nsec3NamesAre DEF m
<1>5. CASE k # Len(Apex)
  <2>1. PICK o \in ChainOwners(z) : AtOrBelow(o, m)
    <3>1. \A c \in DelegationAbove(m) : c = m
      BY <1>3 DEF Uncut
    <3> QED
      BY <1>2, <3>1, ChainBelow
  <2>2. m \in DOMAIN z.rrs => m \in HashedOwners(z)
    BY <1>3, UncutOwner
  <2>3. Len(Apex) < Len(m)
    BY <1>1, <1>2, <1>5
  <2>4. m \in nsec3_names(z)
    BY <1>2, <2>1, <2>2, <2>3, Nsec3NamesHave
  <2> QED
    BY <2>4 DEF m
<1> QED
  BY <1>4, <1>5

LEMMA HashIs ==
    ASSUME z \in Zones, NEW m \in Hashable, NEW n \in Hashable
    PROVE  Hash(z, m) \in Nat /\ (Hash(z, m) = Hash(z, n) => m = n)
<1> QED
  BY HashAssumption DEF Hash

LEMMA Nsec3Matches ==
    ASSUME z \in Zones, NEW r \in build_nsec3(z), NEW n \in Hashable, r.hash = Hash(z, n)
    PROVE  n \in nsec3_names(z) /\ r.types = nsec3_bitmap(z, n)
<1>1. PICK m \in nsec3_names(z) : r = Nsec3At(z, m)
  BY DEF build_nsec3
<1>2. r.hash = Hash(z, m) /\ r.types = nsec3_bitmap(z, m) /\ m \in Hashable
  BY <1>1, Nsec3NamesAre DEF Nsec3At
<1>3. m = n
  BY <1>2, HashIs
<1> QED
  BY <1>2, <1>3

Hashes == {Hash(z, n) : n \in nsec3_names(z)}

LEMMA HashesAre ==
    ASSUME z \in Zones
    PROVE  Hashes \subseteq Nat /\ IsFiniteSet(Hashes)
<1>1. Hashes \subseteq Nat
  BY Nsec3NamesAre, HashIs DEF Hashes
<1> DEFINE up(o) == {Ancestor(o, d) : d \in 0 .. Len(o)}
           all == {up(o) : o \in DOMAIN z.rrs}
<1>2. IsFiniteSet(DOMAIN z.rrs) /\ Len(Apex) \in Nat /\ DOMAIN z.rrs \subseteq DnsName
  BY OwnersAre
<1>3. ASSUME NEW o \in DOMAIN z.rrs PROVE IsFiniteSet(up(o))
  <2> DEFINE f == [d \in 0 .. Len(o) |-> Ancestor(o, d)]
  <2>1. IsFiniteSet(0 .. Len(o)) /\ DOMAIN f = 0 .. Len(o)
    BY <1>2, LabelIs, FS_Interval
  <2>2. IsFiniteSet({f[d] : d \in 0 .. Len(o)})
    <3> HIDE DEF f
    <3> QED BY <2>1, ImageFinite
  <2>3. {f[d] : d \in 0 .. Len(o)} = up(o)
    OBVIOUS
  <2> QED
    BY <2>2, <2>3
<1>4. IsFiniteSet(all)
  <2> DEFINE f == [o \in DOMAIN z.rrs |-> up(o)]
  <2> HIDE DEF up
  <2>1. DOMAIN f = DOMAIN z.rrs
    OBVIOUS
  <2>2. IsFiniteSet({f[o] : o \in DOMAIN z.rrs})
    <3> HIDE DEF f
    <3> QED BY <1>2, <2>1, ImageFinite
  <2>3. {f[o] : o \in DOMAIN z.rrs} = all
    OBVIOUS
  <2> QED
    BY <2>2, <2>3
<1>5. IsFiniteSet(UNION all)
  BY <1>3, <1>4, FS_UNION
<1>6. nsec3_names(z) \in SUBSET (UNION all)
  <2> SUFFICES ASSUME NEW m \in nsec3_names(z) PROVE \E o \in DOMAIN z.rrs : m \in up(o)
    OBVIOUS
  <2>1. HashedOwners(z) \subseteq DOMAIN z.rrs
    BY DEF HashedOwners, ChainOwners
  <2>2. CASE m \in HashedOwners(z)
    BY <1>2, <2>1, <2>2, SelfAncestor
  <2>3. ASSUME NEW o \in HashedOwners(z), NEW d \in Len(Apex) + 1 .. Len(o) - 1, m = Ancestor(o, d)
        PROVE  m \in up(o) /\ o \in DOMAIN z.rrs
    <3>1. d \in 0 .. Len(o)
      BY <1>2, <2>1, LabelIs
    <3> QED
      BY <2>1, <2>3, <3>1
  <2> QED
    BY <2>2, <2>3 DEF nsec3_names
<1>7. IsFiniteSet(nsec3_names(z))
  BY <1>5, <1>6, FS_Subset
<1>8. IsFiniteSet(Hashes)
  <2> DEFINE f == [n \in nsec3_names(z) |-> Hash(z, n)]
  <2>1. DOMAIN f = nsec3_names(z)
    OBVIOUS
  <2>2. IsFiniteSet({f[n] : n \in nsec3_names(z)})
    <3> HIDE DEF f
    <3> QED BY <1>7, <2>1, ImageFinite
  <2>3. {f[n] : n \in nsec3_names(z)} = Hashes
    BY DEF Hashes
  <2> QED
    BY <2>2, <2>3
<1> QED
  BY <1>1, <1>8

\* The next hash is the least later one, or the least of all after the last.
LEMMA NextHashIs ==
    ASSUME z \in Zones, NEW h \in Hashes
    PROVE  /\ NextHash(z, h) \in Hashes
           /\ \A k \in Hashes :
                IF h < NextHash(z, h) THEN k > h => NextHash(z, h) <= k
                                      ELSE k <= h /\ NextHash(z, h) <= k
<1> DEFINE later == {k \in Hashes : k > h}
           among == IF later = {} THEN Hashes ELSE later
           next == CHOOSE k \in among : \A m \in among : k <= m
<1>1. Hashes \subseteq Nat
  BY HashesAre
<1>2. NextHash(z, h) = next
  BY DEF NextHash, Hashes
<1>3. among \subseteq Nat /\ among # {} /\ among \subseteq Hashes /\ later \subseteq Hashes
  BY <1>1
<1>4. next \in among /\ \A m \in among : next <= m
  <2> HIDE DEF among
  <2>1. \E k \in among : \A m \in among : k <= m
    BY <1>3, Least
  <2> QED
    BY <2>1
<1> HIDE DEF next
<1>5. CASE later = {}
  <2>1. among = Hashes /\ \A k \in Hashes : ~(k > h)
    BY <1>5
  <2> HIDE DEF among, later
  <2>2. next \in Hashes /\ next \in Nat /\ h \in Nat /\ ~(next > h)
    BY <1>1, <1>4, <2>1
  <2>3. \A k \in Hashes : k <= h /\ next <= k
    BY <1>1, <1>4, <2>1
  <2> QED
    BY <1>2, <2>2, <2>3
<1>6. CASE later # {}
  <2>1. among = later
    BY <1>6
  <2>2. next \in Hashes /\ next > h /\ \A k \in Hashes : k > h => next <= k
    BY <1>4, <2>1
  <2> HIDE DEF among, later
  <2>3. h < next
    BY <1>1, <2>2
  <2> QED
    BY <1>2, <2>2, <2>3
<1> QED
  BY <1>5, <1>6

\* A hash an NSEC3 covers is no name's of the chain.
LEMMA Nsec3Covers ==
    ASSUME z \in Zones, NEW r \in build_nsec3(z), NEW n, covers_hash(r, Hash(z, n))
    PROVE  n \notin nsec3_names(z)
<1> SUFFICES ASSUME n \in nsec3_names(z) PROVE FALSE
  OBVIOUS
<1> DEFINE h == r.hash
           k == Hash(z, n)
<1>1. PICK m \in nsec3_names(z) : r = Nsec3At(z, m)
  BY DEF build_nsec3
<1>2. h \in Hashes /\ r.next = NextHash(z, h)
  BY <1>1 DEF Nsec3At, Hashes
<1>3. k \in Hashes /\ Hashes \subseteq Nat
  BY HashesAre DEF Hashes
<1>4. /\ r.next \in Hashes
      /\ IF h < r.next THEN k > h => r.next <= k ELSE k <= h /\ r.next <= k
  BY <1>2, <1>3, NextHashIs
<1>5. /\ k # h /\ k # r.next
      /\ IF h < r.next THEN h < k /\ k < r.next ELSE h < k \/ k < r.next
  BY DEF covers_hash
<1> HIDE DEF h, k
<1>6. h \in Nat /\ k \in Nat /\ r.next \in Nat
  BY <1>2, <1>3, <1>4
<1> QED
  BY <1>4, <1>5, <1>6

\* The chain is complete: the hash of any other name is covered.
LEMMA Nsec3ChainCovers ==
    ASSUME z \in Zones, NEW n \in Hashable, n \notin nsec3_names(z)
    PROVE  covering(z, n) # {} /\ covering(z, n) \subseteq build_nsec3(z)
<1> DEFINE k == Hash(z, n)
           before == {h \in Hashes : h < k}
<1>1. k \in Nat /\ Hashes \subseteq Nat /\ IsFiniteSet(Hashes) /\ Hashes # {}
  BY HashIs, HashesAre, Nsec3NamesAre DEF Hashes
<1>2. k \notin Hashes
  BY Nsec3NamesAre, HashIs DEF Hashes
<1> HIDE DEF k
<1>3. \E h \in Hashes : IF before = {} THEN \A j \in Hashes : j <= h
                        ELSE h < k /\ \A j \in Hashes : j < k => j <= h
  <2>1. CASE before = {}
    <3> DEFINE R == {p \in Hashes \X Hashes : p[2] <= p[1]}
    <3>1. \A a, b \in Hashes : <<a, b>> \in R <=> b <= a
      OBVIOUS
    <3> HIDE DEF R
    <3>2. ASSUME NEW a \in Hashes, NEW b \in Hashes PROVE a = b \/ <<a, b>> \in R \/ <<b, a>> \in R
      <4>1. a \in Nat /\ b \in Nat
        BY <1>1
      <4>2. a <= b \/ b <= a
        BY ONLY <4>1
      <4> QED
        BY ONLY <3>1, <4>2, a \in Hashes, b \in Hashes
    <3>3. ASSUME NEW a \in Hashes, NEW b \in Hashes, NEW c \in Hashes, <<a, b>> \in R, <<b, c>> \in R
          PROVE  <<a, c>> \in R
      <4>1. a \in Nat /\ b \in Nat /\ c \in Nat /\ b <= a /\ c <= b
        BY <1>1, <3>1, <3>3
      <4>2. c <= a
        BY ONLY <4>1
      <4> QED
        BY <3>1, <4>2
    <3>4. PICK m \in Hashes : \A j \in Hashes : j = m \/ <<m, j>> \in R
      <4>1. /\ IsFiniteSet(Hashes) /\ Hashes # {}
            /\ \A a, b \in Hashes : a = b \/ <<a, b>> \in R \/ <<b, a>> \in R
            /\ \A a, b, c \in Hashes : <<a, b>> \in R /\ <<b, c>> \in R => <<a, c>> \in R
        BY <1>1, <3>2, <3>3
      <4> QED
        BY ONLY <4>1, FirstOf
    <3>5. ASSUME NEW j \in Hashes PROVE j <= m
      <4>1. m \in Nat /\ (j = m \/ j <= m)
        BY <1>1, <3>1, <3>4
      <4> QED
        BY <4>1
    <3> QED
      BY <2>1, <3>5
  <2>2. CASE before # {}
    <3>1. before \subseteq 0 .. k /\ before \subseteq Hashes
      <4> SUFFICES ASSUME NEW h \in Hashes, h < k PROVE h \in 0 .. k
        OBVIOUS
      <4>1. h \in Nat /\ k \in Nat
        BY <1>1
      <4> QED
        BY <4>1
    <3>2. PICK h \in before : \A j \in before : j <= h
      <4> HIDE DEF before
      <4> QED BY <1>1, <2>2, <3>1, Greatest
    <3>3. h \in Hashes /\ h < k /\ \A j \in Hashes : j < k => j <= h
      BY <3>2
    <3> QED
      BY <2>2, <3>3
  <2> QED
    BY <2>1, <2>2
<1>4. PICK h \in Hashes : IF before = {} THEN \A j \in Hashes : j <= h
                          ELSE h < k /\ \A j \in Hashes : j < k => j <= h
  BY <1>3
<1>5. PICK m \in nsec3_names(z) : h = Hash(z, m)
  BY DEF Hashes
<1> DEFINE r == Nsec3At(z, m)
           next == NextHash(z, h)
<1>6. r \in build_nsec3(z) /\ r.hash = h /\ r.next = next
  BY <1>5 DEF build_nsec3, Nsec3At
<1>7. next \in Hashes /\ \A j \in Hashes : IF h < next THEN j > h => next <= j
                                           ELSE j <= h /\ next <= j
  BY NextHashIs
<1> HIDE DEF r, next
<1>8. h # k /\ next # k /\ h \in Nat /\ next \in Nat
  BY <1>1, <1>2, <1>7
<1>9. IF h < next THEN h < k /\ k < next ELSE h < k \/ k < next
  <2>1. CASE before = {}
    <3>1. ~(h < next) /\ ~(next < k)
      BY <1>4, <1>7, <1>8, <2>1
    <3> QED
      BY <1>1, <1>8, <3>1
  <2>2. CASE before # {}
    <3>1. h < k /\ (next < k => next <= h)
      BY <1>4, <1>7, <2>2
    <3> QED
      BY <1>1, <1>8, <3>1
  <2> QED
    BY <2>1, <2>2
<1>10. covers_hash(r, k)
  BY <1>6, <1>8, <1>9 DEF covers_hash
<1>11. r \in covering(z, n)
  BY <1>6, <1>10 DEF covering, k
<1> QED
  BY <1>11 DEF covering

-----------------------------------------------------------------------------
(* What a proof over genuine records says is what the zone contains        *)

LEMMA ContainedIs ==
    ASSUME Uncut(qname), DnamesAbove(z, qname) = {}
    PROVE  /\ Exists(qname) => Contained = Content(TypesAt(qname))
           /\ ~Exists(qname) /\ SourceOfSynthesis(qname) # {} =>
                Contained = Content(TypesAt(CHOOSE s \in SourceOfSynthesis(qname) : TRUE))
           /\ ~Exists(qname) /\ SourceOfSynthesis(qname) = {} => Contained = "secure-nxdomain"
<1>1. DelegationAbove(qname) = {}
  BY DEF Uncut
<1>2. ~\E o \in DOMAIN z.rrs : "DNAME" \in z.rrs[o] /\ IsBelow(qname, o)
  BY DEF DnamesAbove
<1>3. CASE Exists(qname)
  BY <1>1, <1>3 DEF Contained
<1>4. CASE ~Exists(qname)
  BY <1>1, <1>2, <1>4 DEF Contained
<1> QED
  BY <1>3, <1>4

LEMMA NothingThere ==
    ASSUME NEW types, qtype \notin types, "CNAME" \notin types
    PROVE  Content(types) = "secure-nodata"
<1> QED
  BY DEF Content

LEMMA WildcardContained ==
    ASSUME z \in Zones, StarsPlain, qname \in DnsName, AtOrBelow(qname, Apex), Uncut(qname),
           DnamesAbove(z, qname) = {}, NEW d, Encloses(qname, d)
    PROVE  /\ wildcard_at(qname, d) \in DOMAIN z.rrs =>
                Contained = Content(TypesAt(wildcard_at(qname, d)))
           /\ wildcard_at(qname, d) \notin DOMAIN z.rrs => Contained = "secure-nxdomain"
<1> DEFINE w == wildcard_at(qname, d)
<1>1. ~Exists(qname) /\ Len(Apex) <= d /\ SourceOfSynthesis(qname) = {v \in {w} : Exists(v)}
  BY EncloserMeans
<1>2. d \in 0 .. Len(qname)
  BY DEF Encloses
<1>3. w \in DOMAIN z.rrs <=> Exists(w)
  BY <1>1, <1>2, WildcardOwned
<1> HIDE DEF w
<1>4. CASE w \in DOMAIN z.rrs
  <2>1. SourceOfSynthesis(qname) = {w}
    BY <1>1, <1>3, <1>4
  <2>2. (CHOOSE s \in {w} : TRUE) = w
    OBVIOUS
  <2>3. Contained = Content(TypesAt(w))
    BY <1>1, <2>1, <2>2, ContainedIs
  <2> QED
    BY <1>4, <2>3 DEF w
<1>5. CASE w \notin DOMAIN z.rrs
  <2>1. SourceOfSynthesis(qname) = {}
    BY <1>1, <1>3, <1>5
  <2>2. Contained = "secure-nxdomain"
    BY <1>1, <2>1, ContainedIs
  <2> QED
    BY <1>5, <2>2 DEF w
<1> QED
  BY <1>4, <1>5

LEMMA AskedIs ==
    ASSUME qname \in QNames
    PROVE  /\ qname \in DnsName /\ AtOrBelow(qname, Apex) /\ Shares(qname, Apex, Len(Apex))
           /\ Len(qname) \in Nat /\ Len(Apex) \in Nat /\ Len(Apex) <= Len(qname)
           /\ \A d \in 0 .. Len(qname) :
                Ancestor(qname, d) \in Hashable /\ wildcard_at(qname, d) \in Hashable
           /\ \A d \in 0 .. Len(qname) : Len(Apex) <= d =>
                /\ Ancestor(qname, d) \in DnsName /\ AtOrBelow(Ancestor(qname, d), Apex)
                /\ wildcard_at(qname, d) \in DnsName /\ AtOrBelow(wildcard_at(qname, d), Apex)
<1>1. qname \in DnsName /\ AtOrBelow(qname, Apex) /\ Apex \in DnsName
  BY NameAssumption DEF DnsName
<1>2. Len(qname) \in Nat /\ Len(Apex) \in Nat /\ Shares(qname, Apex, Len(Apex))
  BY <1>1, BelowIs, LabelIs
<1>3. ASSUME NEW d \in 0 .. Len(qname)
      PROVE  Ancestor(qname, d) \in Hashable /\ wildcard_at(qname, d) \in Hashable
  BY DEF Hashable, wildcard_at
<1>4. ASSUME NEW d \in 0 .. Len(qname), Len(Apex) <= d
      PROVE  /\ Ancestor(qname, d) \in DnsName /\ AtOrBelow(Ancestor(qname, d), Apex)
             /\ wildcard_at(qname, d) \in DnsName /\ AtOrBelow(wildcard_at(qname, d), Apex)
  <2>1. /\ Ancestor(qname, d) \in DnsName /\ Len(Ancestor(qname, d)) = d
        /\ \A i \in 1 .. d : Ancestor(qname, d)[i] = qname[i]
    BY <1>1, AncestorIs
  <2>2. /\ wildcard_at(qname, d) \in DnsName /\ Len(wildcard_at(qname, d)) = d + 1
        /\ \A i \in 1 .. d : wildcard_at(qname, d)[i] = qname[i]
    BY <1>1, WildcardIs
  <2>3. Shares(Ancestor(qname, d), Apex, Len(Apex)) /\ Shares(wildcard_at(qname, d), Apex, Len(Apex))
    BY <1>2, <1>4, <2>1, <2>2 DEF Shares
  <2> QED
    BY <1>1, <2>1, <2>2, <2>3, BelowIs
<1> QED
  BY <1>1, <1>2, <1>3, <1>4 DEF Shares

\* NSEC: the records are those of the chain.
Genuine(nsecs) == nsecs \subseteq {NsecAt(z, o) : o \in ChainOwners(z)}

LEMMA NsecMatches ==
    ASSUME z \in Zones, NEW nsecs, Genuine(nsecs), NEW n, NEW type, matching_no_data(nsecs, n, type)
    PROVE  /\ n \in ChainOwners(z) /\ n \in DOMAIN z.rrs
           /\ Uncut(n) => type \notin TypesAt(n) /\ "CNAME" \notin TypesAt(n)
<1>1. PICK r \in nsecs : r.owner = n /\ proves_no_data(r, type)
  BY DEF matching_no_data
<1>2. PICK o \in ChainOwners(z) : r = NsecAt(z, o)
  BY <1>1 DEF Genuine
<1>3. o = n /\ r.types = chain_types(z, n) \cup {"RRSIG", "NSEC"} /\ n \in DOMAIN z.rrs
  BY <1>1, <1>2, ChainIs DEF NsecAt
<1>4. Uncut(n) => chain_types(z, n) = z.rrs[n]
  BY <1>3, UncutOwner
<1> QED
  BY <1>1, <1>2, <1>3, <1>4 DEF proves_no_data, TypesAt

LEMMA NsecCovers ==
    ASSUME z \in Zones, NEW nsecs, Genuine(nsecs), NEW r \in nsecs,
           NEW n \in DnsName, AtOrBelow(n, Apex), covers_name(r, n)
    PROVE  Gap(r.owner, r.next, n)
<1>1. PICK o \in ChainOwners(z) : r = NsecAt(z, o)
  BY DEF Genuine
<1>2. r.owner = o /\ r.next = NextOwner(z, o)
  BY <1>1 DEF NsecAt
<1>3. Gap(o, NextOwner(z, o), n)
  BY <1>1, CoversGap
<1> QED
  BY <1>2, <1>3

\* A lookup that gets past the descent: no delegation and no redirection.
Plain == Uncut(qname) /\ DnamesAbove(z, qname) = {} /\ StarsPlain

LEMMA NsecNoData ==
    ASSUME z \in Zones, qname \in QNames, Plain, NEW nsecs, Genuine(nsecs),
           prove_no_data_with_nsec(nsecs, qname, qtype)
    PROVE  Contained = "secure-nodata"
<1>1. /\ qname \in DnsName /\ AtOrBelow(qname, Apex) /\ DOMAIN z.rrs \subseteq DnsName
      /\ Uncut(qname) /\ DnamesAbove(z, qname) = {} /\ StarsPlain
  BY AskedIs, OwnersAre DEF Plain
<1>2. CASE matching_no_data(nsecs, qname, qtype)
  <2>1. /\ qname \in DOMAIN z.rrs /\ qtype \notin TypesAt(qname) /\ "CNAME" \notin TypesAt(qname)
    BY <1>1, <1>2, NsecMatches
  <2>2. Exists(qname)
    BY <2>1 DEF Exists, AtOrBelow
  <2> QED
    BY <1>1, <2>1, <2>2, ContainedIs, NothingThere
<1>3. ASSUME NEW r \in nsecs, covers_name(r, qname),
             \/ IsBelow(r.next, qname)
             \/ matching_no_data(nsecs, wildcard_at(qname, closest_encloser_nsec(qname, r)), qtype)
      PROVE  Contained = "secure-nodata"
  <2>1. Gap(r.owner, r.next, qname)
    BY <1>1, <1>3, NsecCovers
  <2>2. qname \notin DOMAIN z.rrs /\ r.next \in DOMAIN z.rrs
    <3>1. qname \notin ChainOwners(z) /\ r.next \in DOMAIN z.rrs
      BY <1>1, <2>1, GapOwnsNone, ChainIs DEF Gap
    <3> QED
      BY <1>1, <3>1, UncutOwner
  <2>3. CASE Exists(qname)
    <3>1. TypesAt(qname) = {}
      BY <2>2 DEF TypesAt
    <3> QED
      BY <1>1, <2>3, <3>1, ContainedIs, NothingThere
  <2>4. CASE ~Exists(qname)
    <3> DEFINE d == closest_encloser_nsec(qname, r)
               w == wildcard_at(qname, d)
    <3>1. ~IsBelow(r.next, qname)
      BY <2>2, <2>4 DEF Exists, AtOrBelow
    <3>2. Encloses(qname, d)
      BY <1>1, <2>1, <2>4, EncloserOfGap
    <3>3. matching_no_data(nsecs, w, qtype)
      BY <1>3, <3>1
    <3> HIDE DEF d
    <3>4. d \in 0 .. Len(qname) /\ Len(Apex) <= d
      BY <1>1, <3>2, EncloserMeans DEF Encloses
    <3>5. Uncut(w)
      BY <1>1, <3>4, WildcardOwned
    <3>6. w \in DOMAIN z.rrs /\ qtype \notin TypesAt(w) /\ "CNAME" \notin TypesAt(w)
      <4> HIDE DEF w
      <4> QED BY <3>3, <3>5, NsecMatches
    <3> QED
      BY <1>1, <3>2, <3>6, WildcardContained, NothingThere
  <2> QED
    BY <2>3, <2>4
<1> QED
  BY <1>2, <1>3 DEF prove_no_data_with_nsec

LEMMA NsecNxDomain ==
    ASSUME z \in Zones, qname \in QNames, Plain, NEW nsecs, Genuine(nsecs),
           prove_nx_domain_with_nsec(nsecs, qname)
    PROVE  Contained = "secure-nxdomain"
<1>1. /\ qname \in DnsName /\ AtOrBelow(qname, Apex)
      /\ Uncut(qname) /\ DnamesAbove(z, qname) = {} /\ StarsPlain
  BY AskedIs DEF Plain
<1>2. PICK r \in nsecs :
        /\ covers_name(r, qname) /\ ~IsBelow(r.next, qname)
        /\ \E w \in nsecs : covers_name(w, wildcard_at(qname, closest_encloser_nsec(qname, r)))
  BY DEF prove_nx_domain_with_nsec
<1> DEFINE d == closest_encloser_nsec(qname, r)
           v == wildcard_at(qname, d)
<1>3. Gap(r.owner, r.next, qname)
  BY <1>1, <1>2, NsecCovers
<1>4. ~Exists(qname)
  <2>1. \A o \in ChainOwners(z) : ~AtOrBelow(o, qname)
    BY <1>1, <1>2, <1>3, GapBelow
  <2>2. \A c \in DelegationAbove(qname) : c = qname
    BY <1>1 DEF Uncut
  <2> QED
    BY <1>1, <2>1, <2>2, ChainBelow
<1>5. Encloses(qname, d)
  BY <1>1, <1>3, <1>4, EncloserOfGap
<1>6. PICK w \in nsecs : covers_name(w, v)
  BY <1>2
<1> HIDE DEF d
<1>7. d \in 0 .. Len(qname) /\ Len(Apex) <= d
  BY <1>1, <1>5, EncloserMeans DEF Encloses
<1>8. v \in DnsName /\ AtOrBelow(v, Apex) /\ Uncut(v)
  BY <1>1, <1>7, AskedIs, WildcardOwned
<1>9. v \notin DOMAIN z.rrs
  <2> HIDE DEF v
  <2>1. Gap(w.owner, w.next, v)
    BY <1>6, <1>8, NsecCovers
  <2>2. v \notin ChainOwners(z)
    BY <1>8, <2>1, GapOwnsNone
  <2> QED
    BY <1>8, <2>2, UncutOwner
<1> QED
  BY <1>1, <1>5, <1>9, WildcardContained

\* NSEC3: the records are some of the chain.
LEMMA Nsec3NothingAt ==
    ASSUME z \in Zones, NEW nsec3s \in SUBSET build_nsec3(z), NEW n \in Hashable, NEW type,
           matching_no_data_nsec3(z, nsec3s, n, type)
    PROVE  /\ Exists(n)
           /\ Uncut(n) => type \notin TypesAt(n) /\ "CNAME" \notin TypesAt(n)
<1>1. PICK r \in nsec3s : r.hash = Hash(z, n) /\ proves_no_data(r, type)
  BY DEF matching_no_data_nsec3
<1>2. n \in nsec3_names(z) /\ r.types = nsec3_bitmap(z, n) /\ Exists(n)
  BY <1>1, Nsec3Matches, Nsec3NamesAre
<1>3. ASSUME Uncut(n) PROVE TypesAt(n) \subseteq r.types
  BY <1>2, <1>3, UncutOwner DEF nsec3_bitmap, TypesAt
<1> QED
  BY <1>1, <1>2, <1>3 DEF proves_no_data

LEMMA Nsec3Encloses ==
    ASSUME z \in Zones, qname \in QNames, InChain(qname), NEW nsec3s \in SUBSET build_nsec3(z),
           NEW d \in closest_encloser_proof_nsec3(z, nsec3s, qname)
    PROVE  Encloses(qname, d) /\ d \in 0 .. Len(qname) /\ Len(Apex) <= d
<1>1. /\ d \in 0 .. Len(qname) /\ d < Len(qname)
      /\ nsec3_matches(nsec3s, Hash(z, Ancestor(qname, d)))
      /\ find_covering_nsec3(nsec3s, Hash(z, Ancestor(qname, d + 1)))
  BY DEF closest_encloser_proof_nsec3, Matched
<1>2. d + 1 \in 0 .. Len(qname) /\ Len(qname) \in Nat /\ Len(Apex) \in Nat /\ qname \in DnsName
  BY <1>1, AskedIs
<1>3. Ancestor(qname, d) \in nsec3_names(z)
  <2>1. PICK r \in nsec3s : r.hash = Hash(z, Ancestor(qname, d))
    BY <1>1 DEF nsec3_matches
  <2> QED
    BY <1>1, <2>1, AskedIs, Nsec3Matches
<1>4. Exists(Ancestor(qname, d)) /\ Len(Apex) <= d
  BY <1>1, <1>2, <1>3, Nsec3NamesAre, AncestorIs
<1>5. Ancestor(qname, d + 1) \notin nsec3_names(z)
  <2>1. PICK r \in nsec3s : covers_hash(r, Hash(z, Ancestor(qname, d + 1)))
    BY <1>1 DEF find_covering_nsec3
  <2> QED
    BY <2>1, Nsec3Covers
<1>6. ~Exists(Ancestor(qname, d + 1))
  <2>1. d + 1 \in Len(Apex) .. Len(qname)
    BY <1>2, <1>1, <1>4
  <2> QED
    BY <1>5, <2>1 DEF InChain
<1>7. d # Len(qname)
  BY <1>1, <1>2
<1> QED
  BY <1>1, <1>4, <1>6, <1>7 DEF Encloses

LEMMA Nsec3NoData ==
    ASSUME z \in Zones, qname \in QNames, Plain, InChain(qname),
           NEW nsec3s \in SUBSET build_nsec3(z), prove_no_data_with_nsec3(z, nsec3s, qname, qtype)
    PROVE  Contained = "secure-nodata"
<1>1. /\ qname \in DnsName /\ AtOrBelow(qname, Apex) /\ qname \in Hashable
      /\ Uncut(qname) /\ DnamesAbove(z, qname) = {} /\ StarsPlain
  BY AskedIs, SelfAncestor DEF Plain
<1>2. CASE matching_no_data_nsec3(z, nsec3s, qname, qtype)
  <2>1. Exists(qname) /\ qtype \notin TypesAt(qname) /\ "CNAME" \notin TypesAt(qname)
    BY <1>1, <1>2, Nsec3NothingAt
  <2> QED
    BY <1>1, <2>1, ContainedIs, NothingThere
<1>3. ASSUME NEW d \in closest_encloser_proof_nsec3(z, nsec3s, qname),
             matching_no_data_nsec3(z, nsec3s, wildcard_at(qname, d), qtype)
      PROVE  Contained = "secure-nodata"
  <2> DEFINE w == wildcard_at(qname, d)
  <2>1. Encloses(qname, d) /\ d \in 0 .. Len(qname) /\ Len(Apex) <= d
    BY Nsec3Encloses
  <2>2. w \in Hashable /\ Uncut(w) /\ (Exists(w) => w \in DOMAIN z.rrs)
    BY <1>1, <2>1, AskedIs, WildcardOwned
  <2>3. Exists(w) /\ qtype \notin TypesAt(w) /\ "CNAME" \notin TypesAt(w)
    <3> HIDE DEF w
    <3>1. matching_no_data_nsec3(z, nsec3s, w, qtype)
      BY <1>3 DEF w
    <3> QED
      BY <2>2, <3>1, Nsec3NothingAt
  <2> QED
    BY <1>1, <2>1, <2>2, <2>3, WildcardContained, NothingThere
<1> QED
  BY <1>2, <1>3 DEF prove_no_data_with_nsec3

LEMMA Nsec3NxDomain ==
    ASSUME z \in Zones, qname \in QNames, Plain, InChain(qname),
           NEW nsec3s \in SUBSET build_nsec3(z), prove_nx_domain_with_nsec3(z, nsec3s, qname)
    PROVE  Contained = "secure-nxdomain"
<1>1. PICK d \in closest_encloser_proof_nsec3(z, nsec3s, qname) :
        find_covering_nsec3(nsec3s, Hash(z, wildcard_at(qname, d)))
  BY DEF prove_nx_domain_with_nsec3
<1> DEFINE w == wildcard_at(qname, d)
<1>2. Encloses(qname, d) /\ d \in 0 .. Len(qname) /\ Len(Apex) <= d
  BY Nsec3Encloses
<1>3. /\ qname \in DnsName /\ AtOrBelow(qname, Apex)
      /\ Uncut(qname) /\ DnamesAbove(z, qname) = {} /\ StarsPlain
  BY AskedIs DEF Plain
<1>4. w \notin nsec3_names(z)
  <2>1. PICK r \in nsec3s : covers_hash(r, Hash(z, w))
    BY <1>1 DEF find_covering_nsec3
  <2> QED
    BY <2>1, Nsec3Covers
<1>5. w \notin DOMAIN z.rrs
  <2>1. Uncut(w)
    BY <1>2, <1>3, WildcardOwned
  <2> QED
    BY <1>4, <2>1, UncutOwner
<1> QED
  BY <1>2, <1>3, <1>5, WildcardContained

-----------------------------------------------------------------------------
(* Delegations                                                             *)

\* A name with delegations above it has one closest to the apex.
LEMMA ShortestCut ==
    ASSUME z \in Zones, NEW n \in DnsName, DelegationAbove(n) # {}
    PROVE  \E c \in DelegationAbove(n) :
                /\ \A x \in DelegationAbove(n) : Len(c) <= Len(x)
                /\ c \in ChainOwners(z) /\ is_cut(z, c) /\ AtOrBelow(n, c) /\ c \in DnsName
<1> DEFINE cuts == DelegationAbove(n)
           lengths == {Len(c) : c \in cuts}
<1>1. cuts \subseteq DnsName /\ \A c \in cuts : c \in DOMAIN z.rrs /\ is_cut(z, c) /\ AtOrBelow(n, c)
  BY ChainIs, OwnersAre
<1>2. lengths \subseteq Nat /\ lengths # {}
  BY <1>1, LabelIs
<1>3. PICK c \in cuts : \A x \in cuts : Len(c) <= Len(x)
  <2>1. PICK k \in lengths : \A l \in lengths : k <= l
    <3> HIDE DEF lengths
    <3> QED BY <1>2, Least
  <2> QED
    BY <2>1
<1>4. ~is_occluded(z, c)
  <2> SUFFICES ASSUME NEW x \in DOMAIN z.rrs, is_cut(z, x), IsBelow(c, x) PROVE FALSE
    BY DEF is_occluded
  <2>1. x \in DnsName /\ c \in DnsName /\ AtOrBelow(c, x) /\ AtOrBelow(n, c)
    BY <1>1, OwnersAre DEF AtOrBelow
  <2>2. AtOrBelow(n, x)
    BY <2>1, BelowTransitive
  <2>3. x \in cuts
    BY <2>2, ChainIs
  <2>4. Len(c) <= Len(x) /\ Len(x) < Len(c) /\ Len(c) \in Nat /\ Len(x) \in Nat
    BY <1>3, <2>1, <2>3, LabelIs DEF IsBelow
  <2> QED
    BY <2>4
<1> QED
  BY <1>1, <1>3, <1>4 DEF ChainOwners

\* It decides what becomes of the name.
LEMMA CutDecides ==
    ASSUME z \in Zones, qname \in DnsName, NEW c \in DelegationAbove(qname),
           \A x \in DelegationAbove(qname) : Len(c) <= Len(x)
    PROVE  Truth = IF "DS" \in z.rrs[c] THEN "delegated" ELSE "insecure"
<1> DEFINE cuts == DelegationAbove(qname)
           cut == CHOOSE k \in cuts : \A x \in cuts : Len(k) <= Len(x)
<1>1. cut \in cuts /\ \A x \in cuts : Len(cut) <= Len(x)
  OBVIOUS
<1>2. \A x \in cuts : x \in DnsName /\ Len(x) \in Nat /\ AtOrBelow(qname, x)
  BY ChainIs, OwnersAre, LabelIs
<1>3. cut = c
  <2> HIDE DEF cut, cuts
  <2>1. Len(c) = Len(cut)
    BY <1>1, <1>2 DEF cuts
  <2> QED
    BY <1>1, <1>2, <2>1, InLine DEF cuts
<1>4. cuts # {}
  OBVIOUS
<1>5. Contained = IF "DS" \in z.rrs[cut] THEN "delegated" ELSE "insecure"
  BY <1>4 DEF Contained
<1> HIDE DEF cut
<1> QED
  BY <1>3, <1>4, <1>5 DEF Truth

\* Where the descent meets a delegation, that one decides.
LEMMA CutMet ==
    ASSUME z \in Zones, qname \in DnsName, NEW n \in DnsName, AtOrBelow(qname, n), is_cut(z, n),
           \A c \in DelegationAbove(n) : c = n
    PROVE  Truth = IF "DS" \in z.rrs[n] THEN "delegated" ELSE "insecure"
<1>1. n \in DelegationAbove(qname)
  BY ChainIs DEF is_cut
<1>2. ASSUME NEW x \in DelegationAbove(qname) PROVE Len(n) <= Len(x)
  <2>1. x \in DnsName /\ x \in DOMAIN z.rrs /\ is_cut(z, x) /\ AtOrBelow(qname, x)
    BY ChainIs, OwnersAre
  <2>2. Len(x) \in Nat /\ Len(n) \in Nat
    BY <2>1, LabelIs
  <2>3. Len(x) <= Len(n) => x = n
    <3>1. Len(x) <= Len(n) => AtOrBelow(n, x)
      BY <2>1, InLine
    <3> QED
      BY <2>1, <3>1, ChainIs
  <2> QED
    BY <2>2, <2>3
<1> QED
  BY <1>1, <1>2, CutDecides

\* What the NSEC3 chain leaves out above all delegations is unauthenticated.
LEMMA LeftOut ==
    ASSUME z \in Zones, NEW n \in DnsName, Len(Apex) < Len(n), n \notin DOMAIN z.rrs, Uncut(n),
           n \notin nsec3_names(z)
    PROVE  Unauthenticated(n)
<1> SUFFICES ASSUME NEW o \in DOMAIN z.rrs, AtOrBelow(o, n)
             PROVE  \E c \in DelegationAbove(o) : "DS" \notin z.rrs[c]
  BY DEF Unauthenticated
<1>1. o \in DnsName /\ \A x \in HashedOwners(z) : x \in ChainOwners(z) /\ ~AtOrBelow(x, n)
  BY OwnersAre, Nsec3NamesHave DEF HashedOwners
<1>2. DelegationAbove(o) # {}
  <2> SUFFICES ASSUME Uncut(o) PROVE FALSE
    BY DEF Uncut
  <2> QED
    BY <1>1, UncutOwner
<1>3. PICK c \in DelegationAbove(o) :
        /\ \A x \in DelegationAbove(o) : Len(c) <= Len(x)
        /\ c \in ChainOwners(z) /\ is_cut(z, c) /\ AtOrBelow(o, c) /\ c \in DnsName
  BY <1>1, <1>2, ShortestCut
<1>4. AtOrBelow(c, n)
  <2>1. Len(c) \in Nat /\ Len(n) \in Nat
    BY <1>3, LabelIs
  <2>2. ~(Len(c) <= Len(n))
    <3> SUFFICES ASSUME Len(c) <= Len(n) PROVE FALSE
      OBVIOUS
    <3>1. AtOrBelow(n, c)
      BY <1>1, <1>3, InLine
    <3>2. c \in DelegationAbove(n)
      BY <1>3, <3>1, ChainIs
    <3> QED
      BY <3>2 DEF Uncut
  <2>3. Len(n) <= Len(c)
    BY <2>1, <2>2
  <2> QED
    BY <1>1, <1>3, <2>3, InLine
<1>5. c \notin HashedOwners(z)
  BY <1>1, <1>4
<1>6. "DS" \notin z.rrs[c]
  BY <1>3, <1>5 DEF HashedOwners, has_signed
<1> QED
  BY <1>6

\* An owner that is left out of the NSEC3 chain, with no delegation above it, is
\* an unsigned delegation, and the chain is opt-out.
LEMMA LeftOutOwner ==
    ASSUME z \in Zones, NEW n \in DOMAIN z.rrs, \A c \in DelegationAbove(n) : c = n, n \notin nsec3_names(z)
    PROVE  is_cut(z, n) /\ "DS" \notin z.rrs[n] /\ z.opt_out
<1>1. ~Uncut(n)
  BY UncutOwner
<1>2. n \in DelegationAbove(n)
  BY <1>1 DEF Uncut
<1>3. is_cut(z, n) /\ n \in DnsName
  BY <1>2, ChainIs, OwnersAre
<1>4. n \in ChainOwners(z)
  <2>1. ~is_occluded(z, n)
    <3> SUFFICES ASSUME NEW x \in DOMAIN z.rrs, is_cut(z, x), IsBelow(n, x) PROVE FALSE
      BY DEF is_occluded
    <3>1. x = n
      BY ChainIs DEF AtOrBelow
    <3> QED
      BY <1>3, <3>1, LabelIs DEF IsBelow
  <2> QED
    BY <2>1 DEF ChainOwners
<1>5. n \notin HashedOwners(z)
  BY DEF nsec3_names
<1> QED
  BY <1>3, <1>4, <1>5 DEF HashedOwners, has_signed

\* What is taken for an unsigned delegation is one, or under opt-out cannot be
\* told from one.
LEMMA NoDsTrue ==
    ASSUME z \in Zones, qname \in QNames, NEW nsecs, Genuine(nsecs),
           NEW nsec3s \in SUBSET build_nsec3(z), nsec3s # {} => z.denial = "NSEC3",
           NEW d \in Len(Apex) + 1 .. Len(qname),
           \A c \in DelegationAbove(Ancestor(qname, d)) : c = Ancestor(qname, d),
           DnamesAbove(z, Ancestor(qname, d)) = {},
           prove_no_ds(z, nsecs, nsec3s, Ancestor(qname, d))
    PROVE  Truth = "insecure"
<1> DEFINE n == Ancestor(qname, d)
<1>1. /\ d \in 0 .. Len(qname) /\ n \in DnsName /\ n \in Hashable /\ Len(n) = d /\ n # Apex
      /\ AtOrBelow(qname, n) /\ qname \in DnsName /\ Len(Apex) < Len(n)
  <2>1. Len(Apex) \in Nat /\ d \in 0 .. Len(qname) /\ qname \in DnsName /\ d # Len(Apex) /\ Len(Apex) < d
    BY AskedIs
  <2> QED
    BY <2>1, AskedIs, AncestorAbove
<1>2. /\ \A c \in DelegationAbove(n) : c = n
      /\ DnamesAbove(z, n) = {} /\ prove_no_ds(z, nsecs, nsec3s, n)
  OBVIOUS
<1>3. ASSUME Unauthenticated(n), z.opt_out, nsec3s # {}, Uncut(n) PROVE Truth = "insecure"
  <2>1. OptedOut
    <3>1. \A o \in DOMAIN z.rrs : "DNAME" \in z.rrs[o] => ~IsBelow(n, o)
      BY <1>2 DEF DnamesAbove
    <3> QED
      BY <1>3, <3>1 DEF OptedOut
  <2> HIDE DEF n
  <2>2. CASE DelegationAbove(qname) = {}
    BY <2>1, <2>2 DEF Truth
  <2>3. CASE DelegationAbove(qname) # {}
    <3>1. PICK c \in DelegationAbove(qname) :
            /\ \A x \in DelegationAbove(qname) : Len(c) <= Len(x)
            /\ c \in ChainOwners(z) /\ is_cut(z, c) /\ AtOrBelow(qname, c) /\ c \in DnsName
      BY <1>1, <2>3, ShortestCut
    <3>2. c \in DOMAIN z.rrs /\ Len(c) \in Nat /\ Len(n) \in Nat
      BY <1>1, <3>1, LabelIs DEF ChainOwners
    <3>3. ~(Len(c) <= Len(n))
      <4> SUFFICES ASSUME Len(c) <= Len(n) PROVE FALSE
        OBVIOUS
      <4>1. AtOrBelow(n, c)
        BY <1>1, <3>1, InLine
      <4> QED
        BY <1>3, <3>1, <3>2, <4>1, ChainIs DEF Uncut
    <3>4. Len(n) <= Len(c)
      BY <3>2, <3>3
    <3>5. AtOrBelow(c, n)
      BY <1>1, <3>1, <3>4, InLine
    <3>6. PICK x \in DelegationAbove(c) : "DS" \notin z.rrs[x]
      BY <1>3, <3>2, <3>5 DEF Unauthenticated
    <3>7. x \in DnsName /\ AtOrBelow(c, x) /\ is_cut(z, x) /\ x \in DOMAIN z.rrs /\ Len(x) \in Nat
      BY <3>6, ChainIs, OwnersAre, LabelIs
    <3>8. x \in DelegationAbove(qname)
      BY <1>1, <3>1, <3>7, BelowTransitive, ChainIs
    <3>9. x = c
      <4>1. Len(c) <= Len(x)
        BY <3>1, <3>8
      <4>2. ~IsBelow(c, x)
        BY <3>2, <3>7, <4>1 DEF IsBelow
      <4> QED
        BY <3>7, <4>2 DEF AtOrBelow
    <3> QED
      BY <1>1, <3>1, <3>6, <3>9, CutDecides
  <2> QED
    BY <2>2, <2>3
<1>4. ASSUME is_cut(z, n), "DS" \notin z.rrs[n] PROVE Truth = "insecure"
  BY <1>1, <1>2, <1>4, CutMet
<1> HIDE DEF n
<1>5. ASSUME prove_no_ds_with_nsec(nsecs, n) PROVE Truth = "insecure"
  <2>1. PICK r \in nsecs : r.owner = n /\ "NS" \in r.types /\ "DS" \notin r.types
    BY <1>5 DEF prove_no_ds_with_nsec, proves_no_ds
  <2>2. PICK o \in ChainOwners(z) : r = NsecAt(z, o)
    BY <2>1 DEF Genuine
  <2>3. o = n /\ n \in DOMAIN z.rrs /\ r.types = chain_types(z, n) \cup {"RRSIG", "NSEC"}
    BY <2>1, <2>2, ChainIs DEF NsecAt
  <2>4. "NS" \in z.rrs[n] /\ is_cut(z, n) /\ "DS" \notin z.rrs[n]
    BY <1>1, <2>1, <2>3 DEF chain_types, is_cut
  <2> QED
    BY <1>4, <2>4
<1>6. ASSUME NEW r \in nsec3s, r.hash = Hash(z, n), proves_no_ds(r) PROVE Truth = "insecure"
  <2>1. r.types = nsec3_bitmap(z, n) /\ "NS" \in r.types /\ "DS" \notin r.types
    BY <1>1, <1>6, Nsec3Matches DEF proves_no_ds
  <2>2. n \in DOMAIN z.rrs /\ "NS" \in chain_types(z, n) /\ "DS" \notin chain_types(z, n)
    BY <2>1 DEF nsec3_bitmap
  <2>3. "NS" \in z.rrs[n] /\ is_cut(z, n) /\ "DS" \notin z.rrs[n]
    BY <1>1, <2>2 DEF chain_types, is_cut
  <2> QED
    BY <1>4, <2>3
<1>7. ASSUME NEW r \in nsec3s, r.opt_out, covers_hash(r, Hash(z, n)) PROVE Truth = "insecure"
  <2>1. n \notin nsec3_names(z) /\ z.opt_out
    <3>1. PICK m \in nsec3_names(z) : r = Nsec3At(z, m)
      BY DEF build_nsec3
    <3>2. r.opt_out = z.opt_out
      BY <3>1 DEF Nsec3At
    <3> QED
      BY <1>7, <3>2, Nsec3Covers
  <2>2. CASE n \in DOMAIN z.rrs
    <3>1. is_cut(z, n) /\ "DS" \notin z.rrs[n]
      BY <1>2, <2>1, <2>2, LeftOutOwner
    <3> QED
      BY <1>4, <3>1
  <2>3. CASE n \notin DOMAIN z.rrs
    <3>1. Uncut(n)
      <4>1. \A c \in DelegationAbove(n) : c \in DOMAIN z.rrs
        BY ChainIs
      <4> QED
        BY <1>2, <2>3, <4>1 DEF Uncut
    <3>2. Unauthenticated(n)
      BY <1>1, <2>1, <2>3, <3>1, LeftOut
    <3> QED
      BY <1>3, <2>1, <3>1, <3>2
  <2> QED
    BY <2>2, <2>3
<1>8. prove_no_ds_with_nsec(nsecs, n) \/ prove_no_ds_with_nsec3(z, nsec3s, n)
  BY <1>2 DEF prove_no_ds
<1> QED
  BY <1>5, <1>6, <1>7, <1>8 DEF prove_no_ds_with_nsec3

-----------------------------------------------------------------------------
(* What the authority sends, in zones with any contents                    *)

\* In the zone, a label count that fits, and denial records only of its chain.
Sound(r) ==
    /\ AtOrBelow(r.owner, Apex) /\ r.labels \subseteq 0 .. Len(r.owner)
    /\ r.type = "NSEC" => r.owner \in ChainOwners(z)
    /\ r.type = "NSEC3" => z.denial = "NSEC3"

AllSound(rrsets) == \A r \in rrsets : Sound(r)

LEMMA LabelsFit ==
    ASSUME NEW n \in DnsName
    PROVE  rrsig_labels(n) \in 0 .. Len(n)
<1>1. Len(n) \in Nat /\ (Len(n) = 0 => n = <<>>)
  BY LabelIs, EmptySeq DEF DnsName
<1> QED
  BY <1>1 DEF rrsig_labels, Root

LEMMA WithSigsSound ==
    ASSUME z \in Zones, NEW n, NEW type
    PROVE  /\ AllSound(with_sigs(z, n, type))
           /\ \A r \in with_sigs(z, n, type) :
                /\ n \in DOMAIN z.rrs /\ r.owner = n /\ r.type = type
                /\ r.labels \subseteq {rrsig_labels(n)}
<1> SUFFICES ASSUME NEW r \in with_sigs(z, n, type)
             PROVE  /\ Sound(r) /\ n \in DOMAIN z.rrs /\ r.owner = n /\ r.type = type
                    /\ r.labels \subseteq {rrsig_labels(n)}
  BY DEF AllSound
<1>1. IF type = "NSEC" THEN n \in ChainOwners(z) ELSE n \in DOMAIN z.rrs /\ type \in z.rrs[n]
  BY DEF with_sigs
<1>2. r.owner = n /\ r.type = type /\ r.labels \subseteq {rrsig_labels(n)}
  BY <1>1 DEF with_sigs, RRSet
<1>3. n \in DOMAIN z.rrs
  BY <1>1 DEF ChainOwners
<1>4. AtOrBelow(n, Apex) /\ n \in DnsName /\ "NSEC3" \notin z.rrs[n]
  BY <1>3, OwnersAre
<1>5. r.labels \subseteq 0 .. Len(n)
  BY <1>2, <1>4, LabelsFit
<1> QED
  BY <1>1, <1>2, <1>3, <1>4, <1>5 DEF Sound

LEMMA ChainHashed ==
    ASSUME z \in Zones, NEW r \in build_nsec3(z)
    PROVE  r.hash \in Nat
<1>1. PICK m \in nsec3_names(z) : r.hash = Hash(z, m)
  BY DEF build_nsec3, Nsec3At
<1>2. \A o \in DOMAIN z.rrs : \A d \in 0 .. Len(o) : Ancestor(o, d) \in Hashable
  BY DEF Hashable
<1>3. HashedOwners(z) \subseteq DOMAIN z.rrs /\ DOMAIN z.rrs \subseteq DnsName /\ Len(Apex) \in Nat
  BY OwnersAre DEF HashedOwners, ChainOwners
<1>4. m \in Hashable
  <2>1. CASE m \in HashedOwners(z)
    BY <1>2, <1>3, <2>1, SelfAncestor
  <2>2. ASSUME NEW o \in HashedOwners(z), NEW d \in Len(Apex) + 1 .. Len(o) - 1, m = Ancestor(o, d)
        PROVE  m \in Hashable
    <3>1. d \in 0 .. Len(o)
      BY <1>3, LabelIs
    <3> QED
      BY <1>2, <1>3, <2>2, <3>1
  <2> QED
    BY <2>1, <2>2 DEF nsec3_names
<1> QED
  BY <1>1, <1>4, HashIs

LEMMA Nsec3AtSound ==
    ASSUME z \in Zones, z.denial = "NSEC3", NEW records \in SUBSET build_nsec3(z)
    PROVE  AllSound(nsec3_at(records))
<1> SUFFICES ASSUME NEW r \in records
             PROVE  Sound(RRSet(nsec3_owner(r.hash), "NSEC3", {Len(Apex) + 1}))
  BY DEF AllSound, nsec3_at
<1> DEFINE n == nsec3_owner(r.hash)
           label == HashLabel + r.hash
<1>1. Apex \in Seq(Nat) /\ Len(Apex) \in Nat /\ label \in Nat
  BY ChainHashed, OwnersAre DEF DnsName, HashLabel
<1> HIDE DEF label
<1>2. /\ Append(Apex, label) \in Seq(Nat) /\ Len(Append(Apex, label)) = Len(Apex) + 1
      /\ \A i \in 1 .. Len(Apex) : Append(Apex, label)[i] = Apex[i]
  BY <1>1, AppendProperties
<1>3. n = Append(Apex, label)
  BY DEF nsec3_owner, label
<1> HIDE DEF n
<1>4. n \in DnsName /\ Apex \in DnsName /\ Len(n) = Len(Apex) + 1 /\ Shares(n, Apex, Len(Apex))
  BY <1>1, <1>2, <1>3 DEF Shares, DnsName
<1>5. AtOrBelow(n, Apex) /\ {Len(Apex) + 1} \subseteq 0 .. Len(n)
  BY <1>1, <1>4, BelowIs
<1> QED
  BY <1>5 DEF Sound, RRSet, n

LEMMA ProofsSound ==
    ASSUME z \in Zones
    PROVE  /\ \A n : AllSound(covering_nsec(z, n))
           /\ z.denial = "NSEC3" => \A n : /\ AllSound(nsec3_at(matching(z, n)))
                                           /\ AllSound(nsec3_at(covering(z, n)))
                                           /\ AllSound(closest_encloser_proof(z, n))
           /\ \A n : AllSound(no_data_proof(z, n))
           /\ \A n, ce : AllSound(nx_domain_proof(z, n, ce)) /\ AllSound(next_closer_proof(z, n, ce))
           /\ \A ce : AllSound(encloser_proof(z, ce))
<1>1. \A n : AllSound(covering_nsec(z, n))
  BY WithSigsSound DEF covering_nsec, AllSound
<1>2. ASSUME z.denial = "NSEC3", NEW n
      PROVE  /\ AllSound(nsec3_at(matching(z, n))) /\ AllSound(nsec3_at(covering(z, n)))
             /\ AllSound(closest_encloser_proof(z, n))
  <2>1. \A m : matching(z, m) \in SUBSET build_nsec3(z) /\ covering(z, m) \in SUBSET build_nsec3(z)
    BY DEF matching, covering
  <2>2. \A m, l : matching(z, m) \cup covering(z, l) \in SUBSET build_nsec3(z)
    BY <2>1
  <2>3. AllSound(closest_encloser_proof(z, n))
    BY <1>2, <2>2, Nsec3AtSound DEF closest_encloser_proof
  <2> QED
    BY <1>2, <2>1, <2>3, Nsec3AtSound
<1>3. \A n : AllSound(no_data_proof(z, n))
  BY <1>1, <1>2, WithSigsSound DEF no_data_proof
<1>4. ASSUME NEW n, NEW ce
      PROVE  AllSound(nx_domain_proof(z, n, ce)) /\ AllSound(next_closer_proof(z, n, ce))
  <2>1. AllSound(nx_domain_proof(z, n, ce))
    BY <1>1, <1>2 DEF nx_domain_proof, AllSound
  <2>2. AllSound(next_closer_proof(z, n, ce))
    BY <1>1, <1>2 DEF next_closer_proof
  <2> QED
    BY <2>1, <2>2
<1>5. \A ce : AllSound(encloser_proof(z, ce))
  BY <1>2 DEF encloser_proof, AllSound
<1> QED
  BY <1>1, <1>2, <1>3, <1>4, <1>5

LEMMA UnionSound ==
    ASSUME NEW a, NEW b, AllSound(a), AllSound(b)
    PROVE  AllSound(a \cup b)
<1> QED
  BY DEF AllSound

\* The closest encloser the authority finds is an ancestor of the name.
LEMMA EncloserFound ==
    ASSUME z \in Zones, NEW n \in DnsName, AtOrBelow(n, Apex)
    PROVE  /\ closest_encloser(z, n) \in {Ancestor(n, d) : d \in Len(Apex) .. Len(n)}
           /\ has_name(z, closest_encloser(z, n)) \/ closest_encloser(z, n) = Apex
           /\ \A d \in Len(closest_encloser(z, n)) + 1 .. Len(n) : ~has_name(z, Ancestor(n, d))
<1> DEFINE s == {d \in Len(Apex) .. Len(n) : d = Len(Apex) \/ has_name(z, Ancestor(n, d))}
<1>1. Len(n) \in Nat /\ Len(Apex) \in Nat /\ Apex \in DnsName /\ Shares(n, Apex, Len(Apex))
  BY OwnersAre, LabelIs, BelowIs
<1>2. Len(Apex) <= Len(n) /\ Len(Apex) \in s /\ s \subseteq 0 .. Len(n)
  BY <1>1 DEF Shares
<1>3. PICK d \in s : \A e \in s : e <= d
  <2> HIDE DEF s
  <2> QED BY <1>1, <1>2, Greatest
<1> DEFINE a == Ancestor(n, d)
<1>4. d \in 0 .. Len(n) /\ d \in Len(Apex) .. Len(n) /\ Len(a) = d
  BY <1>1, <1>2, <1>3, AncestorIs
<1>5. has_name(z, a) \/ a = Apex
  <2>1. d = Len(Apex) => a = Apex
    <3>1. Ancestor(n, Len(Apex)) = Ancestor(Apex, Len(Apex))
      BY <1>1, <1>2, AncestorsShared DEF Shares
    <3> QED
      BY <1>1, <3>1, SelfAncestor
  <2> QED
    BY <1>3, <2>1
<1>6. \A e \in d + 1 .. Len(n) : ~has_name(z, Ancestor(n, e))
  BY <1>1, <1>3, <1>4
<1> HIDE DEF s
<1>7. \E m \in {Ancestor(n, e) : e \in Len(Apex) .. Len(n)} :
        /\ has_name(z, m) \/ m = Apex
        /\ \A e \in Len(m) + 1 .. Len(n) : ~has_name(z, Ancestor(n, e))
  BY <1>4, <1>5, <1>6
<1> QED
  BY <1>7 DEF closest_encloser

\* For a name that is not there it is the closest encloser.
LEMMA EncloserIs ==
    ASSUME z \in Zones, NEW n \in DnsName, AtOrBelow(n, Apex), ~Exists(n)
    PROVE  \E d \in Len(Apex) .. Len(n) : closest_encloser(z, n) = Ancestor(n, d) /\ Encloses(n, d)
<1>1. Len(n) \in Nat /\ Len(Apex) \in Nat /\ Apex \in DnsName /\ Apex \in DOMAIN z.rrs
  BY OwnersAre, LabelIs
<1>2. PICK d \in Len(Apex) .. Len(n) : closest_encloser(z, n) = Ancestor(n, d)
  BY EncloserFound
<1> DEFINE a == Ancestor(n, d)
<1>3. /\ d \in 0 .. Len(n) /\ a \in DnsName /\ Len(a) = d
      /\ has_name(z, a) \/ a = Apex
      /\ \A e \in d + 1 .. Len(n) : ~has_name(z, Ancestor(n, e))
  <2>1. d \in 0 .. Len(n)
    BY <1>1
  <2>2. a \in DnsName /\ Len(a) = d
    BY <2>1, AncestorIs
  <2> QED
    BY <1>2, <2>1, <2>2, EncloserFound
<1>4. Exists(a)
  <2> HIDE DEF a
  <2> QED BY <1>1, <1>3 DEF has_name, Exists, AtOrBelow
<1>5. d # Len(n)
  BY <1>4, SelfAncestor
<1>6. ~Exists(Ancestor(n, d + 1))
  <2>1. d + 1 \in d + 1 .. Len(n) /\ d + 1 \in 0 .. Len(n) /\ Len(Apex) <= d + 1
    BY <1>1, <1>3, <1>5
  <2>2. AtOrBelow(Ancestor(n, d + 1), Apex)
    <3>1. Ancestor(n, d + 1) \in DnsName /\ Len(Ancestor(n, d + 1)) = d + 1 /\ AtOrBelow(n, Ancestor(n, d + 1))
      BY <2>1, AncestorAbove
    <3> QED
      BY <1>1, <2>1, <3>1, InLine
  <2> QED
    BY <1>3, <2>1, <2>2 DEF has_name, Exists
<1> QED
  BY <1>2, <1>3, <1>4, <1>5, <1>6 DEF Encloses

LEMMA MissingSound ==
    ASSUME z \in Zones, NEW n \in DnsName, AtOrBelow(n, Apex), NEW type
    PROVE  AllSound(missing(z, n, type))
<1> DEFINE ce == closest_encloser(z, n)
           w == Append(ce, Star)
<1>1. PICK d \in Len(Apex) .. Len(n) : ce = Ancestor(n, d)
  BY EncloserFound
<1>2. d \in 0 .. Len(n) /\ Len(n) \in Nat
  BY OwnersAre, LabelIs
<1>3. w = wildcard_at(n, d) /\ w \in DnsName /\ Len(w) = d + 1 /\ w[d + 1] = Star
  BY <1>1, <1>2, WildcardIs DEF wildcard_at
<1> HIDE DEF w
<1>4. rrsig_labels(w) = d
  <2>1. w # Root
    BY <1>2, <1>3 DEF Root
  <2> QED
    BY <1>2, <1>3, <2>1 DEF rrsig_labels
<1>5. ASSUME NEW t, t \in z.rrs[w], w \in DOMAIN z.rrs PROVE AllSound(Expanded(with_sigs(z, w, t), n))
  <2> SUFFICES ASSUME NEW r \in with_sigs(z, w, t) PROVE Sound([r EXCEPT !.owner = n])
    BY DEF AllSound, Expanded
  <2>1. r.type = t /\ r.labels \subseteq {d}
    BY <1>4, WithSigsSound
  <2>2. t # "NSEC" /\ t # "NSEC3"
    BY <1>5, OwnersAre
  <2>3. r = RRSet(w, t, r.labels)
    BY DEF with_sigs, RRSet
  <2> DEFINE e == [r EXCEPT !.owner = n]
  <2>4. e.owner = n /\ e.type = t /\ e.labels = r.labels
    BY <2>3 DEF RRSet
  <2> HIDE DEF e
  <2>5. Sound(e)
    BY <1>2, <2>1, <2>2, <2>4 DEF Sound
  <2> QED
    BY <2>5 DEF e
<1>6. /\ AllSound(next_closer_proof(z, n, ce)) /\ AllSound(nx_domain_proof(z, n, ce))
      /\ AllSound(encloser_proof(z, ce)) /\ AllSound(no_data_proof(z, w))
  BY ProofsSound
<1>7. AllSound(encloser_proof(z, ce) \cup next_closer_proof(z, n, ce) \cup no_data_proof(z, w))
  BY <1>6, UnionSound
<1>8. \A t : w \in DOMAIN z.rrs /\ t \in z.rrs[w] =>
        AllSound(Expanded(with_sigs(z, w, t), n) \cup next_closer_proof(z, n, ce))
  BY <1>5, <1>6, UnionSound
<1> QED
  BY <1>6, <1>7, <1>8, Zenon DEF missing, w

\* Every rrset of every answer.
LEMMA AnswerSound ==
    ASSUME z \in Zones, NEW n \in DnsName, AtOrBelow(n, Apex), NEW type
    PROVE  AllSound(answer(z, n, type))
<1>1. \A cut : AllSound(referral(z, cut))
  <2>1. \A cut : AllSound(with_sigs(z, cut, "NS")) /\ AllSound(with_sigs(z, cut, "DS"))
                 /\ AllSound(no_data_proof(z, cut))
    BY WithSigsSound, ProofsSound
  <2> QED
    BY <2>1, UnionSound DEF referral
<1>2. AllSound(existing(z, n, type))
  BY WithSigsSound, ProofsSound DEF existing
<1>3. AllSound(dname_answer(z, n))
  <2>1. \A o : AllSound(with_sigs(z, o, "DNAME"))
    BY WithSigsSound
  <2>2. AllSound({RRSet(n, "CNAME", {})})
    BY DEF AllSound, Sound, RRSet
  <2>3. \A o : AllSound(with_sigs(z, o, "DNAME") \cup {RRSet(n, "CNAME", {})})
    BY <2>1, <2>2, UnionSound
  <2> QED
    BY <2>3 DEF dname_answer
<1> QED
  BY <1>1, <1>2, <1>3, MissingSound, ProofsSound DEF answer

-----------------------------------------------------------------------------
(* The lookup                                                              *)

\* Besides the types: what is held was sent by this zone.
ZoneInv == z \in Zones /\ qname \in QNames /\ TypeOK /\ AllSound(held)

LEMMA PartsAre ==
    ASSUME NEW response, NEW part \in Parts(response)
    PROVE  part \subseteq response
<1> QED
  BY DEF Parts

LEMMA ZoneInvStep ==
    ASSUME ZoneInv, [Next]_vars
    PROVE  ZoneInv'
<1>1. /\ qname \in DnsName /\ AtOrBelow(qname, Apex) /\ Len(qname) \in Nat /\ Len(Apex) \in Nat
      /\ depth \in Len(Apex) .. Len(qname)
  BY AskedIs DEF ZoneInv, TypeOK
<1>2. ASSUME NEW n \in DnsName, AtOrBelow(n, Apex), NEW type,
             NEW response \in Parts(answer(z, n, type)), held' = held \cup response,
             z' = z, qname' = qname
      PROVE  /\ AllSound(held)' /\ z' \in Zones /\ qname' \in QNames
             /\ \A r \in held' : AtOrBelow(r.owner, Apex) /\ r.labels \subseteq 0 .. Len(r.owner)
  <2>1. AllSound(held \cup response)
    <3>1. response \subseteq answer(z, n, type)
      BY PartsAre
    <3>2. AllSound(answer(z, n, type)) /\ AllSound(held)
      BY <1>2, AnswerSound DEF ZoneInv
    <3> QED
      BY <3>1, <3>2 DEF AllSound
  <2> QED
    BY <1>2, <2>1 DEF AllSound, Sound, ZoneInv
<1>3. CASE Descend
  <2>1. depth + 1 \in 0 .. Len(qname) /\ Len(Apex) <= depth + 1 /\ depth + 1 \in Len(Apex) .. Len(qname)
    BY <1>1, <1>3 DEF Descend
  <2>2. Child \in DnsName /\ AtOrBelow(Child, Apex)
    BY <2>1, AskedIs DEF Child, ZoneInv
  <2>3. PICK response \in Parts(answer(z, Child, "DS")) : held' = held \cup response
    BY <1>3 DEF Descend
  <2>4. /\ AllSound(held)' /\ z' \in Zones /\ qname' \in QNames
        /\ \A r \in held' : AtOrBelow(r.owner, Apex) /\ r.labels \subseteq 0 .. Len(r.owner)
    BY <1>2, <1>3, <2>2, <2>3 DEF Descend
  <2>5. /\ depth' \in Len(Apex) .. Len(qname') /\ outcome' \in {None, "delegated", "insecure"}
    BY <1>1, <1>3, <2>1 DEF Descend
  <2> QED
    BY <2>4, <2>5 DEF ZoneInv, TypeOK
<1>4. CASE Leaf
  <2>1. PICK response \in Parts(answer(z, qname, qtype)) :
          /\ held' = held \cup response
          /\ outcome' = IF Held(response, qname, qtype) # {} THEN Positive(held \cup response)
                                                            ELSE Otherwise(held \cup response)
    BY <1>4 DEF Leaf
  <2>2. /\ AllSound(held)' /\ z' \in Zones /\ qname' \in QNames
        /\ \A r \in held' : AtOrBelow(r.owner, Apex) /\ r.labels \subseteq 0 .. Len(r.owner)
    BY <1>1, <1>2, <1>4, <2>1 DEF Leaf
  <2>3. \A now : /\ Positive(now) \in {"secure", "bogus"}
                 /\ Otherwise(now) \in {"dname", "cname", "secure-nodata", "secure-nxdomain", "indeterminate"}
    BY Zenon DEF Positive, Otherwise
  <2>4. /\ depth' \in Len(Apex) .. Len(qname')
        /\ outcome' \in {"bogus", "secure", "dname", "cname", "secure-nodata", "secure-nxdomain",
                         "indeterminate"}
    BY <1>1, <1>4, <2>1, <2>3 DEF Leaf
  <2> QED
    BY <2>2, <2>4 DEF ZoneInv, TypeOK
<1>5. CASE UNCHANGED vars
  BY <1>5 DEF vars, ZoneInv, TypeOK, AllSound, Sound
<1> QED
  BY <1>3, <1>4, <1>5 DEF Next

\* The verifier's copy of a zone holds what that zone was made to say and
\* nothing else, and the descent stays between the apex and the name asked for:
\* for zones with any contents, whatever part of the answers arrives.
THEOREM ZoneTypes == Spec => [](TypeOK /\ AllSound(held))
<1>1. Init => ZoneInv
  <2> SUFFICES ASSUME Init PROVE ZoneInv
    OBVIOUS
  <2>1. qname \in QNames /\ z \in Zones /\ depth = Len(Apex) /\ held = {} /\ outcome = None
    BY DEF Init
  <2>2. depth \in Len(Apex) .. Len(qname)
    BY <2>1, AskedIs
  <2> QED
    BY <2>1, <2>2 DEF ZoneInv, TypeOK, AllSound
<1>2. ZoneInv /\ [Next]_vars => ZoneInv'
  BY ZoneInvStep
<1>3. ZoneInv => TypeOK /\ AllSound(held)
  BY DEF ZoneInv
<1> QED
  BY <1>1, <1>2, <1>3, PTL DEF Spec

\* The truth does not change while the lookup goes on.
LEMMA TruthStays ==
    ASSUME z' = z, qname' = qname, qtype' = qtype
    PROVE  Contained' = Contained /\ Truth' = Truth /\ Flat' = Flat
<1>1. \A n : Exists(n)' = Exists(n)
  BY DEF Exists
<1>2. DelegationAbove(qname)' = DelegationAbove(qname)
  BY DEF DelegationAbove
<1>3. SourceOfSynthesis(qname)' = SourceOfSynthesis(qname)
  BY <1>1 DEF SourceOfSynthesis
<1>4. \A n : TypesAt(n)' = TypesAt(n)
  BY DEF TypesAt
<1>5. \A types : Content(types)' = Content(types)
  BY DEF Content
<1>6. Contained' = Contained
  BY <1>1, <1>2, <1>3, <1>4, <1>5 DEF Contained
<1>7. OptedOut' = OptedOut
  <2>1. \A n : DelegationAbove(n)' = DelegationAbove(n)
    BY DEF DelegationAbove
  <2>2. \A n : Unauthenticated(n)' = Unauthenticated(n)
    BY <2>1 DEF Unauthenticated
  <2> QED
    BY <2>2 DEF OptedOut
<1>8. Flat' = Flat
  BY DEF Flat
<1> QED
  BY <1>2, <1>6, <1>7, <1>8 DEF Truth

LEMMA HeldIs ==
    ASSUME NEW now, AllSound(now)
    PROVE  /\ Genuine(HeldNsecs(now)) /\ HeldNsec3s(now) \in SUBSET build_nsec3(z)
           /\ HeldNsec3s(now) # {} => z.denial = "NSEC3"
<1>1. Genuine(HeldNsecs(now))
  BY DEF HeldNsecs, Genuine, AllSound, Sound
<1>2. HeldNsec3s(now) \in SUBSET build_nsec3(z)
  BY DEF HeldNsec3s
<1>3. HeldNsec3s(now) # {} => z.denial = "NSEC3"
  BY DEF HeldNsec3s, AllSound, Sound
<1> QED
  BY <1>1, <1>2, <1>3

LEMMA DenialStep ==
    ASSUME ZoneInv, Flat, DenialIsTrue, [Next]_vars
    PROVE  DenialIsTrue'
<1>1. /\ z \in Zones /\ qname \in QNames /\ Len(Apex) \in Nat /\ Len(qname) \in Nat
      /\ depth \in Len(Apex) .. Len(qname)
  BY AskedIs DEF ZoneInv, TypeOK
<1>2. AllSound(held)' /\ (z' = z /\ qname' = qname /\ qtype' = qtype)
  BY ZoneInvStep DEF ZoneInv, Next, Descend, Leaf, vars
<1>3. AllSound(held')
  BY <1>2 DEF AllSound, Sound
<1>4. Contained' = Contained /\ Truth' = Truth
  BY <1>2, TruthStays
<1>5. CASE Descend
  <2>1. /\ outcome' \in {None, "delegated", "insecure"}
        /\ outcome' = "insecure" => prove_no_ds(z, HeldNsecs(held'), HeldNsec3s(held'), Child)
    BY <1>5 DEF Descend, None
  <2>2. ASSUME prove_no_ds(z, HeldNsecs(held'), HeldNsec3s(held'), Child) PROVE Truth = "insecure"
    <3> DEFINE nsecs == HeldNsecs(held')
               nsec3s == HeldNsec3s(held')
               d == depth + 1
    <3>1. Genuine(nsecs) /\ nsec3s \in SUBSET build_nsec3(z) /\ (nsec3s # {} => z.denial = "NSEC3")
      BY <1>3, HeldIs
    <3>2. d \in Len(Apex) + 1 .. Len(qname) /\ prove_no_ds(z, nsecs, nsec3s, Ancestor(qname, d))
      BY <1>1, <1>5, <2>2 DEF Descend, Child
    <3> HIDE DEF nsecs, nsec3s, d
    <3>3. \A n : DnamesAbove(z, n) = {} /\ \A c \in DelegationAbove(n) : c = n
      BY FlatChain DEF Uncut
    <3> QED
      BY <1>1, <3>1, <3>2, <3>3, NoDsTrue
  <2> QED
    BY <1>4, <2>1, <2>2 DEF DenialIsTrue, None
<1>6. CASE Leaf
  <2> DEFINE nsecs == HeldNsecs(held')
             nsec3s == HeldNsec3s(held')
  <2>1. \/ outcome' = Positive(held') \/ outcome' = Otherwise(held')
    BY <1>6 DEF Leaf
  <2>2. Positive(held') \in {"secure", "bogus"}
    BY Zenon DEF Positive
  <2>3. /\ Otherwise(held') # "insecure"
        /\ Otherwise(held') = "secure-nodata" => prove_no_data(z, nsecs, nsec3s, qname, qtype)
        /\ Otherwise(held') = "secure-nxdomain" => prove_nx_domain(z, nsecs, nsec3s, qname)
    BY DEF Otherwise
  <2>4. Genuine(nsecs) /\ nsec3s \in SUBSET build_nsec3(z)
    BY <1>3, HeldIs
  <2> HIDE DEF nsecs, nsec3s
  <2>8. Plain /\ InChain(qname)
    <3>1. Plain /\ Uncut(qname)
      BY FlatChain DEF Plain
    <3>2. HashedOwners(z) = ChainOwners(z)
      BY DEF Flat, HashedOwners, has_signed, is_cut
    <3> QED
      BY <1>1, <3>1, <3>2, AskedIs, WholeChain
  <2>5. prove_no_data(z, nsecs, nsec3s, qname, qtype) => Contained = "secure-nodata"
    BY <1>1, <2>4, <2>8, NsecNoData, Nsec3NoData DEF prove_no_data
  <2>6. prove_nx_domain(z, nsecs, nsec3s, qname) => Contained = "secure-nxdomain"
    BY <1>1, <2>4, <2>8, NsecNxDomain, Nsec3NxDomain DEF prove_nx_domain
  <2>7. outcome' # "insecure" /\ (outcome' \in {"secure-nodata", "secure-nxdomain"} => outcome' = Contained)
    BY <2>1, <2>2, <2>3, <2>5, <2>6
  <2> QED
    BY <1>4, <2>7 DEF DenialIsTrue
<1>7. CASE UNCHANGED vars
  BY <1>4, <1>7 DEF vars, DenialIsTrue
<1> QED
  BY <1>5, <1>6, <1>7 DEF Next

\* In a zone without delegations, redirections and owners below a wildcard,
\* NODATA, NXDOMAIN and Insecure are concluded only when true, whatever part of
\* the zone's answers arrives: for any contents, either kind of chain, with and
\* without opt-out, and any name asked for.
THEOREM DenialsTrue == Flat /\ Spec => []DenialIsTrue
<1>1. Flat /\ Init => ZoneInv /\ Flat /\ DenialIsTrue
  <2> SUFFICES ASSUME Flat, Init PROVE ZoneInv /\ DenialIsTrue
    OBVIOUS
  <2>1. qname \in QNames /\ z \in Zones /\ depth = Len(Apex) /\ held = {} /\ outcome = None
    BY DEF Init
  <2>2. depth \in Len(Apex) .. Len(qname)
    BY <2>1, AskedIs
  <2> QED
    BY <2>1, <2>2 DEF ZoneInv, TypeOK, AllSound, DenialIsTrue, None
<1>2. ZoneInv /\ Flat /\ DenialIsTrue /\ [Next]_vars => (ZoneInv /\ Flat /\ DenialIsTrue)'
  <2> SUFFICES ASSUME ZoneInv, Flat, DenialIsTrue, [Next]_vars PROVE (ZoneInv /\ Flat /\ DenialIsTrue)'
    OBVIOUS
  <2>1. z' = z /\ qname' = qname /\ qtype' = qtype
    BY DEF Next, Descend, Leaf, vars
  <2> QED
    BY <2>1, ZoneInvStep, DenialStep, TruthStays
<1> QED
  BY <1>1, <1>2, PTL DEF Spec

-----------------------------------------------------------------------------
(* What arrives is what the contents say                                   *)

\* What r says is at the owner w, and its signatures carry w's label count.
Owned(w, r) ==
    w \in DOMAIN z.rrs /\ r.type \in z.rrs[w] /\ (Uncut(w) => r.labels = {rrsig_labels(w)})

\* The rrset of an owner, one expanded from the wildcard at the closest
\* encloser, or the CNAME made up for a name below a DNAME.
Real(r) ==
    \/ r.type \in {"NSEC", "NSEC3"}
    \/ Owned(r.owner, r)
    \/ \E d : Encloses(r.owner, d) /\ Owned(wildcard_at(r.owner, d), r)
    \/ r.type = "CNAME" /\ DnamesAbove(z, r.owner) # {} /\ ~Exists(r.owner)

AllReal(rrsets) == \A r \in rrsets : Real(r)

Denying(rrsets) == \A r \in rrsets : r.type \in {"NSEC", "NSEC3"}

LEMMA WithSigsOwned ==
    ASSUME z \in Zones, NEW n, NEW type, NEW r \in with_sigs(z, n, type)
    PROVE  r.owner = n /\ r.type = type /\ (type # "NSEC" => Owned(n, r)) /\ Real(r)
<1>1. /\ IF type = "NSEC" THEN n \in ChainOwners(z) ELSE n \in DOMAIN z.rrs /\ type \in z.rrs[n]
      /\ r = RRSet(n, type, IF is_signed(z, n, type) THEN {rrsig_labels(n)} ELSE {})
  BY DEF with_sigs
<1>2. r.owner = n /\ r.type = type
  BY <1>1 DEF RRSet
<1>3. ASSUME type # "NSEC" PROVE Owned(n, r)
  <2>1. n \in DOMAIN z.rrs /\ type \in z.rrs[n]
    BY <1>1, <1>3
  <2>2. ASSUME Uncut(n) PROVE r.labels = {rrsig_labels(n)}
    <3>1. is_signed(z, n, type)
      BY <2>1, <2>2, UncutOwner DEF is_signed
    <3> QED
      BY <1>1, <3>1 DEF RRSet
  <2> QED
    BY <1>2, <2>1, <2>2 DEF Owned
<1> QED
  BY <1>2, <1>3 DEF Real

LEMMA WithSigsThere ==
    ASSUME NEW n \in DOMAIN z.rrs, NEW type \in z.rrs[n], type # "NSEC"
    PROVE  with_sigs(z, n, type) # {}
<1> QED
  BY DEF with_sigs

LEMMA ProofsDeny ==
    ASSUME z \in Zones
    PROVE  /\ \A n : Denying(with_sigs(z, n, "NSEC")) /\ Denying(covering_nsec(z, n))
           /\ \A records : Denying(nsec3_at(records))
           /\ \A n : Denying(no_data_proof(z, n))
           /\ \A n, ce : Denying(nx_domain_proof(z, n, ce)) /\ Denying(next_closer_proof(z, n, ce))
           /\ \A ce : Denying(encloser_proof(z, ce))
           /\ \A a, b : Denying(a) /\ Denying(b) => Denying(a \cup b)
<1>1. \A n : Denying(with_sigs(z, n, "NSEC"))
  BY WithSigsOwned DEF Denying
<1>2. \A n : Denying(covering_nsec(z, n))
  BY <1>1 DEF covering_nsec, Denying
<1>3. \A records : Denying(nsec3_at(records))
  BY DEF nsec3_at, RRSet, Denying
<1>4. \A a, b : Denying(a) /\ Denying(b) => Denying(a \cup b)
  BY DEF Denying
<1>5. \A n : Denying(closest_encloser_proof(z, n))
  BY <1>3 DEF closest_encloser_proof
<1>6. \A n : Denying(no_data_proof(z, n))
  BY <1>1, <1>2, <1>3, <1>5 DEF no_data_proof
<1>7. \A n, ce : Denying(nx_domain_proof(z, n, ce))
  BY <1>2, <1>3, <1>4, <1>5 DEF nx_domain_proof
<1>8. \A n, ce : Denying(next_closer_proof(z, n, ce))
  BY <1>2, <1>3 DEF next_closer_proof
<1>9. \A ce : Denying(encloser_proof(z, ce))
  BY <1>3 DEF encloser_proof, Denying
<1> QED
  BY <1>1, <1>2, <1>3, <1>4, <1>6, <1>7, <1>8, <1>9

LEMMA UnionReal ==
    ASSUME NEW a, NEW b
    PROVE  /\ Denying(a) => AllReal(a)
           /\ AllReal(a) /\ AllReal(b) => AllReal(a \cup b)
<1> QED
  BY DEF AllReal, Denying, Real

\* A wildcard stands at the closest encloser of what is expanded from it.
LEMMA ExpandedReal ==
    ASSUME z \in Zones, NEW n \in DnsName, NEW d, Encloses(n, d), NEW type, type # "NSEC",
           NEW r \in Expanded(with_sigs(z, wildcard_at(n, d), type), n)
    PROVE  r.owner = n /\ r.type = type /\ Owned(wildcard_at(n, d), r) /\ Real(r)
<1> DEFINE w == wildcard_at(n, d)
<1> HIDE DEF w
<1>1. PICK q \in with_sigs(z, w, type) : r = [q EXCEPT !.owner = n]
  BY DEF Expanded, w
<1>2. q = RRSet(w, type, q.labels)
  BY DEF with_sigs, RRSet
<1>3. r.owner = n /\ r.type = q.type /\ r.labels = q.labels
  BY <1>1, <1>2 DEF RRSet
<1>4. q.type = type /\ Owned(w, q)
  BY WithSigsOwned
<1>5. Owned(w, r)
  BY <1>3, <1>4 DEF Owned
<1> QED
  BY <1>3, <1>4, <1>5 DEF Real, w

LEMMA MissingReal ==
    ASSUME z \in Zones, NEW n \in DnsName, AtOrBelow(n, Apex), ~Exists(n), NEW type
    PROVE  AllReal(missing(z, n, type))
<1> DEFINE ce == closest_encloser(z, n)
           w == Append(ce, Star)
<1>1. PICK d \in Len(Apex) .. Len(n) : ce = Ancestor(n, d) /\ Encloses(n, d)
  BY EncloserIs
<1>2. w = wildcard_at(n, d)
  BY <1>1 DEF wildcard_at
<1> HIDE DEF w
<1>3. ASSUME NEW t, t \in z.rrs[w], w \in DOMAIN z.rrs PROVE AllReal(Expanded(with_sigs(z, w, t), n))
  <2>1. t # "NSEC"
    BY <1>3, OwnersAre
  <2> QED
    BY <1>1, <1>2, <2>1, ExpandedReal DEF AllReal
<1>4. /\ AllReal(next_closer_proof(z, n, ce)) /\ AllReal(nx_domain_proof(z, n, ce))
      /\ AllReal(encloser_proof(z, ce)) /\ AllReal(no_data_proof(z, w))
  BY ProofsDeny, UnionReal
<1>5. AllReal(encloser_proof(z, ce) \cup next_closer_proof(z, n, ce) \cup no_data_proof(z, w))
  BY <1>4, UnionReal
<1>6. \A t : w \in DOMAIN z.rrs /\ t \in z.rrs[w] =>
        AllReal(Expanded(with_sigs(z, w, t), n) \cup next_closer_proof(z, n, ce))
  BY <1>3, <1>4, UnionReal
<1> QED
  BY <1>4, <1>5, <1>6, Zenon DEF missing, w

LEMMA AnswerReal ==
    ASSUME z \in Zones, NEW n \in DnsName, AtOrBelow(n, Apex), NEW type
    PROVE  AllReal(answer(z, n, type))
<1>1. \A m, t : AllReal(with_sigs(z, m, t))
  BY WithSigsOwned DEF AllReal
<1>2. \A m : AllReal(no_data_proof(z, m))
  BY ProofsDeny, UnionReal
<1>3. \A cut : AllReal(referral(z, cut))
  <2>1. \A cut : /\ AllReal(with_sigs(z, cut, "NS")) /\ AllReal(with_sigs(z, cut, "DS"))
                 /\ AllReal(no_data_proof(z, cut))
    BY <1>1, <1>2
  <2> QED
    BY <2>1, UnionReal DEF referral
<1>4. AllReal(existing(z, n, type))
  BY <1>1, <1>2 DEF existing
<1>5. ~has_name(z, n) => ~Exists(n)
  BY DEF has_name, Exists
<1>6. ~Exists(n) /\ DnamesAbove(z, n) # {} => AllReal(dname_answer(z, n))
  <2> SUFFICES ASSUME ~Exists(n), DnamesAbove(z, n) # {} PROVE AllReal(dname_answer(z, n))
    OBVIOUS
  <2>1. AllReal({RRSet(n, "CNAME", {})})
    BY DEF AllReal, Real, RRSet
  <2>2. \A o : AllReal(with_sigs(z, o, "DNAME") \cup {RRSet(n, "CNAME", {})})
    BY <1>1, <2>1, UnionReal
  <2> QED
    BY <2>2 DEF dname_answer
<1>7. ~Exists(n) => AllReal(missing(z, n, type))
  BY MissingReal
<1> QED
  BY <1>2, <1>3, <1>4, <1>5, <1>6, <1>7 DEF answer

\* What an rrset that is held says of its owner.
LEMMA RealSays ==
    ASSUME z \in Zones, NEW r, Real(r), r.type \notin {"NSEC", "NSEC3"}, r.owner \in DnsName,
           AtOrBelow(r.owner, Apex)
    PROVE  /\ Exists(r.owner) => Owned(r.owner, r)
           /\ ~Exists(r.owner) =>
                \/ \E d : Encloses(r.owner, d) /\ Owned(wildcard_at(r.owner, d), r)
                \/ r.type = "CNAME" /\ DnamesAbove(z, r.owner) # {}
           /\ \A d : Encloses(r.owner, d) /\ DnamesAbove(z, r.owner) = {} =>
                Owned(wildcard_at(r.owner, d), r)
<1> DEFINE n == r.owner
<1> HIDE DEF n
<1>1. n \in DnsName /\ AtOrBelow(n, Apex)
  BY DEF n
<1>2. \A d : Encloses(n, d) => ~Exists(n)
  BY <1>1, EncloserMeans
<1>3. Owned(n, r) => Exists(n)
  BY DEF Owned, Exists, AtOrBelow
<1>4. \A d, e : Encloses(n, d) /\ Encloses(n, e) => d = e
  BY <1>1, EnclosesOnce
<1>5. \/ Owned(n, r)
      \/ \E d : Encloses(n, d) /\ Owned(wildcard_at(n, d), r)
      \/ r.type = "CNAME" /\ DnamesAbove(z, n) # {} /\ ~Exists(n)
  BY DEF Real, n
<1> QED
  BY <1>2, <1>3, <1>4, <1>5 DEF n

LEMMA SaneStars ==
    ASSUME Sane
    PROVE  StarsPlain
<1> QED
  BY DEF Sane, StarsPlain

\* Wildcards neither delegate nor redirect.
LEMMA WildcardTypes ==
    ASSUME z \in Zones, Sane, NEW n \in DnsName, NEW d \in 0 .. Len(n), Len(Apex) <= d,
           wildcard_at(n, d) \in DOMAIN z.rrs
    PROVE  {"NS", "DS", "DNAME"} \cap z.rrs[wildcard_at(n, d)] = {}
<1> DEFINE w == wildcard_at(n, d)
<1>1. Len(w) = d + 1 /\ w[d + 1] = Star /\ d \in Nat /\ Len(Apex) \in Nat
  BY WildcardIs, LabelIs, OwnersAre
<1>2. d + 1 \in Len(Apex) + 1 .. Len(w) /\ w \in DOMAIN z.rrs
  BY <1>1
<1> HIDE DEF w
<1>3. {"NS", "DNAME"} \cap z.rrs[w] = {}
  BY <1>1, <1>2 DEF Sane
<1>4. "DS" \in z.rrs[w] => "NS" \in z.rrs[w]
  BY <1>2 DEF Sane
<1> QED
  BY <1>3, <1>4 DEF w

\* Nothing is below a DNAME, and what is there is above or beside it.
LEMMA NothingBelowDname ==
    ASSUME z \in Zones, Sane, NEW n \in DnsName, NEW o \in DnamesAbove(z, n)
    PROVE  ~Exists(n) /\ DnamesAbove(z, n) = {o}
<1>1. o \in DOMAIN z.rrs /\ IsBelow(n, o) /\ "DNAME" \in z.rrs[o] /\ o \in DnsName
  BY OwnersAre DEF DnamesAbove
<1>2. \A p \in DOMAIN z.rrs : ~IsBelow(p, o)
  BY <1>1 DEF Sane
<1>3. ~Exists(n)
  <2> SUFFICES ASSUME NEW p \in DOMAIN z.rrs, AtOrBelow(p, n) PROVE FALSE
    BY DEF Exists
  <2>1. p \in DnsName /\ AtOrBelow(n, o) /\ n # o
    BY <1>1, OwnersAre, LabelIs DEF AtOrBelow, IsBelow
  <2>2. AtOrBelow(p, o) /\ p # o
    <3>1. AtOrBelow(p, o)
      BY <1>1, <2>1, BelowTransitive
    <3>2. p = o => IsBelow(o, n)
      BY <1>1 DEF AtOrBelow, IsBelow
    <3>3. ~(IsBelow(o, n) /\ IsBelow(n, o))
      BY <1>1, LabelIs DEF IsBelow
    <3> QED
      BY <1>1, <3>1, <3>2, <3>3
  <2> QED
    BY <1>2, <2>2 DEF AtOrBelow
<1>4. ASSUME NEW p \in DnamesAbove(z, n) PROVE p = o
  <2>1. p \in DOMAIN z.rrs /\ IsBelow(n, p) /\ "DNAME" \in z.rrs[p] /\ p \in DnsName
    BY OwnersAre DEF DnamesAbove
  <2>2. AtOrBelow(n, p) /\ AtOrBelow(n, o) /\ Len(p) \in Nat /\ Len(o) \in Nat
    BY <1>1, <2>1, LabelIs DEF AtOrBelow
  <2>3. AtOrBelow(p, o) \/ AtOrBelow(o, p)
    <3>1. Len(p) <= Len(o) \/ Len(o) <= Len(p)
      BY <2>2
    <3> QED
      BY <1>1, <2>1, <2>2, <3>1, InLine
  <2>4. \A q \in DOMAIN z.rrs : ~IsBelow(q, p)
    BY <2>1 DEF Sane
  <2> QED
    BY <1>1, <1>2, <2>1, <2>3, <2>4 DEF AtOrBelow
<1> QED
  BY <1>3, <1>4

\* A DNAME the verifier finds above a name is there.
LEMMA BelowDnameMeans ==
    ASSUME z \in Zones, Sane, NEW n \in DnsName, NEW now, AllSound(now), AllReal(now), below_dname(now, n)
    PROVE  DnamesAbove(z, n) # {}
<1>1. PICK d \in 0 .. Len(n) - 1 : Held(now, Ancestor(n, d), "DNAME") # {}
  BY DEF below_dname
<1>2. PICK r \in now : r.owner = Ancestor(n, d) /\ r.type = "DNAME"
  BY <1>1 DEF Held
<1>3. d \in 0 .. Len(n) /\ d < Len(n) /\ Len(n) \in Nat
  BY LabelIs
<1>4. r.owner \in DnsName /\ IsBelow(n, r.owner)
  BY <1>2, <1>3, AncestorAbove
<1>5. Real(r) /\ AtOrBelow(r.owner, Apex)
  BY DEF AllReal, AllSound, Sound
<1>6. Owned(r.owner, r)
  <2> SUFFICES ASSUME ~Owned(r.owner, r) PROVE FALSE
    OBVIOUS
  <2>1. PICK e : Encloses(r.owner, e) /\ Owned(wildcard_at(r.owner, e), r)
    BY <1>2, <1>5 DEF Real
  <2>2. e \in 0 .. Len(r.owner) /\ Len(Apex) <= e
    BY <1>4, <1>5, <2>1, EncloserMeans DEF Encloses
  <2> QED
    BY <1>2, <1>4, <2>1, <2>2, WildcardTypes DEF Owned
<1> QED
  BY <1>2, <1>4, <1>6 DEF Owned, DnamesAbove

-----------------------------------------------------------------------------
(* Which proof the authority sends, and what the verifier has of it        *)

LEMMA NsecHeld ==
    ASSUME NEW now, NEW n \in ChainOwners(z), with_sigs(z, n, "NSEC") \subseteq now
    PROVE  NsecAt(z, n) \in HeldNsecs(now)
<1>1. PICK r \in with_sigs(z, n, "NSEC") : r.owner = n /\ r.type = "NSEC"
  BY DEF with_sigs, RRSet
<1>2. r \in {q \in now : q.type = "NSEC"} /\ r.owner = n
  BY <1>1
<1> QED
  BY <1>2 DEF HeldNsecs

LEMMA CoveringHeld ==
    ASSUME z \in Zones, NEW now, NEW n \in DnsName, AtOrBelow(n, Apex), n \notin ChainOwners(z),
           covering_nsec(z, n) \subseteq now
    PROVE  \E p \in ChainOwners(z) :
             covers_name(NsecAt(z, p), n) /\ NsecAt(z, p) \in HeldNsecs(now)
<1>1. PICK p \in ChainOwners(z) : covers_name(NsecAt(z, p), n)
  BY ChainCovers
<1>2. NsecAt(z, p).owner = p
  BY DEF NsecAt
<1>3. NsecAt(z, p) \in {q \in build_nsec(z) : covers_name(q, n)}
  BY <1>1 DEF build_nsec
<1>4. with_sigs(z, p, "NSEC") \subseteq now
  <2> SUFFICES ASSUME NEW r \in with_sigs(z, p, "NSEC") PROVE r \in now
    OBVIOUS
  <2>1. r \in covering_nsec(z, n)
    BY <1>2, <1>3 DEF covering_nsec
  <2> QED
    BY <2>1
<1> QED
  BY <1>1, <1>4, NsecHeld

LEMMA Nsec3Held ==
    ASSUME NEW now, NEW records \in SUBSET build_nsec3(z), nsec3_at(records) \subseteq now
    PROVE  records \subseteq HeldNsec3s(now)
<1> SUFFICES ASSUME NEW r \in records PROVE r \in HeldNsec3s(now)
  OBVIOUS
<1> DEFINE q == RRSet(nsec3_owner(r.hash), "NSEC3", {Len(Apex) + 1})
<1>1. q \in now
  BY DEF nsec3_at
<1>2. q.owner = nsec3_owner(r.hash) /\ q.type = "NSEC3"
  BY DEF RRSet
<1> HIDE DEF q
<1>3. [owner |-> nsec3_owner(r.hash), type |-> "NSEC3"] \in
        {[owner |-> p.owner, type |-> p.type] : p \in now}
  BY <1>1, <1>2
<1> QED
  BY <1>3 DEF HeldNsec3s

LEMMA MatchingIs ==
    ASSUME z \in Zones, NEW n \in Hashable
    PROVE  /\ matching(z, n) \in SUBSET build_nsec3(z) /\ covering(z, n) \in SUBSET build_nsec3(z)
           /\ n \in nsec3_names(z) => Nsec3At(z, n) \in matching(z, n)
           /\ n \notin nsec3_names(z) => matching(z, n) = {} /\ covering(z, n) # {}
<1>1. n \in nsec3_names(z) => Nsec3At(z, n) \in matching(z, n)
  BY DEF matching, build_nsec3, Nsec3At
<1>2. n \notin nsec3_names(z) => matching(z, n) = {}
  BY Nsec3Matches DEF matching
<1> QED
  BY <1>1, <1>2, Nsec3ChainCovers DEF matching, covering

\* The encloser of the proof is the nearest ancestor in the chain.
LEMMA ProvableIs ==
    ASSUME z \in Zones, NEW n \in DnsName, \A k \in 0 .. Len(n) : Ancestor(n, k) \in Hashable,
           NEW d \in Len(Apex) .. Len(n) - 1, Ancestor(n, d) \in nsec3_names(z),
           \A e \in d + 1 .. Len(n) - 1 : Ancestor(n, e) \notin nsec3_names(z)
    PROVE  /\ provable_encloser(z, n) = Ancestor(n, d)
           /\ closest_encloser_proof(z, n) =
                nsec3_at(matching(z, Ancestor(n, d)) \cup covering(z, Ancestor(n, d + 1)))
<1> DEFINE provable == {e \in Len(Apex) .. Len(n) - 1 : matching(z, Ancestor(n, e)) # {}}
           best == CHOOSE b \in provable : \A e \in provable : e <= b
<1>1. Len(n) \in Nat /\ Len(Apex) \in Nat /\ d \in 0 .. Len(n) /\ d \in Nat
  BY LabelIs, OwnersAre
<1>2. \A e \in Len(Apex) .. Len(n) - 1 : e \in provable <=> Ancestor(n, e) \in nsec3_names(z)
  <2> SUFFICES ASSUME NEW e \in Len(Apex) .. Len(n) - 1
               PROVE  matching(z, Ancestor(n, e)) # {} <=> Ancestor(n, e) \in nsec3_names(z)
    OBVIOUS
  <2>1. e \in 0 .. Len(n)
    BY <1>1
  <2> QED
    BY <2>1, MatchingIs
<1>3. d \in provable /\ \A e \in provable : e <= d
  <2>1. d \in provable
    BY <1>2
  <2>2. ASSUME NEW e \in provable PROVE e <= d
    <3>1. e \in Len(Apex) .. Len(n) - 1 /\ Ancestor(n, e) \in nsec3_names(z)
      BY <1>2
    <3>2. e \notin d + 1 .. Len(n) - 1
      BY <3>1
    <3> HIDE DEF provable
    <3> QED
      BY <1>1, <3>1, <3>2
  <2> QED
    BY <2>1, <2>2
<1>4. provable \subseteq Nat
  BY <1>1
<1>5. provable_encloser(z, n) = Ancestor(n, best)
  BY DEF provable_encloser
<1>6. best = d
  <2> DEFINE P(b) == b \in provable /\ \A e \in provable : e <= b
  <2> HIDE DEF provable
  <2>1. \A b \in provable : P(b) => b = d
    BY <1>3, <1>4
  <2> QED
    BY <1>3, <2>1
<1> HIDE DEF best
<1>7. provable_encloser(z, n) = Ancestor(n, d) /\ Len(Ancestor(n, d)) = d
  BY <1>1, <1>5, <1>6, AncestorIs
<1> QED
  BY <1>7 DEF closest_encloser_proof

\* What is left of an answer when no delegation takes the question.
LEMMA AnswerIs ==
    ASSUME z \in Zones, NEW n \in DnsName, AtOrBelow(n, Apex), NEW type,
           Uncut(n) \/ (type = "DS" /\ \A c \in DelegationAbove(n) : c = n)
    PROVE  /\ n \in DOMAIN z.rrs => answer(z, n, type) = existing(z, n, type)
           /\ n \notin DOMAIN z.rrs /\ Exists(n) => answer(z, n, type) = no_data_proof(z, n)
           /\ ~Exists(n) /\ DnamesAbove(z, n) # {} => answer(z, n, type) = dname_answer(z, n)
           /\ ~Exists(n) /\ DnamesAbove(z, n) = {} => answer(z, n, type) = missing(z, n, type)
<1>1. CutsAbove(z, n) = DelegationAbove(n)
  BY ChainIs DEF CutsAbove
<1>2. ~(CutsAbove(z, n) # {} /\ ~(type = "DS" /\ n = cut_above(z, n)))
  <2>1. CASE Uncut(n)
    BY <1>1, <2>1 DEF Uncut
  <2>2. ASSUME type = "DS", \A c \in DelegationAbove(n) : c = n, CutsAbove(z, n) # {}
        PROVE  n = cut_above(z, n)
    <3> DEFINE best == CHOOSE c \in CutsAbove(z, n) : \A d \in CutsAbove(z, n) : Len(c) <= Len(d)
    <3>1. \A c \in CutsAbove(z, n) : c = n
      BY <1>1, <2>2
    <3>2. n \in CutsAbove(z, n) /\ \A d \in CutsAbove(z, n) : Len(n) <= Len(d)
      <4>1. Len(n) \in Nat
        BY LabelIs
      <4> QED
        BY <2>2, <3>1, <4>1
    <3>3. best \in CutsAbove(z, n)
      BY <3>2
    <3> HIDE DEF best
    <3>4. best = n
      BY <3>1, <3>3
    <3> QED
      BY <3>4 DEF cut_above, best
  <2> QED
    BY <2>1, <2>2
<1>3. has_name(z, n) <=> Exists(n)
  BY DEF has_name, Exists
<1>4. n \in DOMAIN z.rrs => Exists(n)
  BY DEF Exists, AtOrBelow
<1> QED
  BY <1>2, <1>3, <1>4 DEF answer

\* The answer for a name below a DNAME brings the DNAME.
LEMMA DnameSent ==
    ASSUME z \in Zones, Sane, NEW n \in DnsName, AtOrBelow(n, Apex), NEW type,
           Uncut(n) \/ (type = "DS" /\ \A c \in DelegationAbove(n) : c = n),
           DnamesAbove(z, n) # {}, NEW now, answer(z, n, type) \subseteq now
    PROVE  /\ below_dname(now, n)
           /\ \A r \in answer(z, n, type) : (r.type = "DNAME" /\ r.owner # n) \/ r.type = "CNAME"
<1>1. PICK o \in DnamesAbove(z, n) : TRUE
  OBVIOUS
<1>2. ~Exists(n) /\ DnamesAbove(z, n) = {o} /\ o \in DOMAIN z.rrs /\ IsBelow(n, o) /\ "DNAME" \in z.rrs[o]
  BY NothingBelowDname DEF DnamesAbove
<1>3. o \in DnsName /\ Len(o) \in Nat /\ Len(n) \in Nat /\ Len(o) < Len(n) /\ o # n
  BY <1>2, OwnersAre, LabelIs DEF IsBelow
<1> DEFINE owner == CHOOSE p \in DnamesAbove(z, n) : \A q \in DnamesAbove(z, n) : Len(q) <= Len(p)
<1>4. owner = o
  <2>1. \A p \in {o} : \A q \in {o} : Len(q) <= Len(p)
    BY <1>3
  <2>2. (CHOOSE p \in {o} : \A q \in {o} : Len(q) <= Len(p)) = o
    BY <2>1
  <2> QED
    BY <1>2, <2>2
<1>5. dname_answer(z, n) = with_sigs(z, owner, "DNAME") \cup {RRSet(n, "CNAME", {})}
  BY DEF dname_answer
<1> HIDE DEF owner
<1>6. answer(z, n, type) = with_sigs(z, o, "DNAME") \cup {RRSet(n, "CNAME", {})}
  BY <1>2, <1>4, <1>5, AnswerIs
<1>7. \A r \in with_sigs(z, o, "DNAME") : r.owner = o /\ r.type = "DNAME"
  BY WithSigsOwned
<1>8. with_sigs(z, o, "DNAME") # {}
  BY <1>2 DEF with_sigs
<1>9. PICK r \in with_sigs(z, o, "DNAME") : r \in now /\ r.owner = o /\ r.type = "DNAME"
  BY <1>6, <1>7, <1>8
<1>10. below_dname(now, n)
  <2>1. o = Ancestor(n, Len(o))
    BY <1>2 DEF IsBelow
  <2>2. Len(o) \in 0 .. Len(n) - 1
    BY <1>3
  <2>3. r \in Held(now, Ancestor(n, Len(o)), "DNAME")
    BY <1>9, <2>1 DEF Held
  <2> QED
    BY <2>2, <2>3 DEF below_dname
<1>11. ASSUME NEW q \in answer(z, n, type)
       PROVE  (q.type = "DNAME" /\ q.owner # n) \/ q.type = "CNAME"
  BY <1>3, <1>6, <1>7 DEF RRSet
<1> QED
  BY <1>10, <1>11

\* For a name an opt-out chain leaves out, right below one it has, the answer to
\* the DS question brings the record that covers it.
LEMMA CoverSent ==
    ASSUME z \in Zones, Sane, z.denial = "NSEC3", NEW n \in DnsName, AtOrBelow(n, Apex),
           \A k \in 0 .. Len(n) : Ancestor(n, k) \in Hashable, Len(Apex) < Len(n),
           Ancestor(n, Len(n) - 1) \in nsec3_names(z), n \notin nsec3_names(z),
           DnamesAbove(z, n) = {}, \A c \in DelegationAbove(n) : c = n
    PROVE  nsec3_at(covering(z, n)) \subseteq answer(z, n, "DS")
<1> DEFINE k == Len(n) - 1
           p == Ancestor(n, k)
           sent == nsec3_at(covering(z, n))
<1>1. Len(n) \in Nat /\ Len(Apex) \in Nat
  BY LabelIs, OwnersAre
<1>2. k \in Len(Apex) .. Len(n) - 1 /\ k \in 0 .. Len(n) /\ k + 1 = Len(n) /\ k # Len(n)
  BY <1>1
<1>3. Ancestor(n, Len(n)) = n /\ n \in Hashable
  <2>1. Ancestor(n, Len(n)) = n /\ Len(n) \in 0 .. Len(n)
    BY SelfAncestor
  <2> QED
    BY <2>1
<1>4. closest_encloser_proof(z, n) = nsec3_at(matching(z, p) \cup covering(z, n))
  <2>1. \A e \in k + 1 .. Len(n) - 1 : Ancestor(n, e) \notin nsec3_names(z)
    <3> SUFFICES ASSUME NEW e \in k + 1 .. Len(n) - 1 PROVE FALSE
      OBVIOUS
    <3>1. k + 1 <= e /\ e <= Len(n) - 1 /\ e \in Int
      BY <1>1
    <3> HIDE DEF k
    <3> QED
      BY <1>1, <1>2, <3>1
  <2>2. Ancestor(n, k + 1) = n /\ p \in nsec3_names(z)
    BY <1>2, <1>3
  <2> HIDE DEF k
  <2>3. closest_encloser_proof(z, n) = nsec3_at(matching(z, p) \cup covering(z, Ancestor(n, k + 1)))
    BY <1>2, <2>1, <2>2, ProvableIs
  <2> QED
    BY <2>2, <2>3
<1>5. sent \subseteq closest_encloser_proof(z, n)
  BY <1>4 DEF nsec3_at
<1> HIDE DEF sent
<1>6. sent \subseteq no_data_proof(z, n)
  BY <1>3, <1>5, MatchingIs DEF no_data_proof
<1>7. CASE n \in DOMAIN z.rrs
  <2>1. is_cut(z, n) /\ "DS" \notin z.rrs[n]
    BY <1>7, LeftOutOwner
  <2>2. "CNAME" \notin z.rrs[n]
    BY <1>7, <2>1 DEF Sane, is_cut
  <2>3. existing(z, n, "DS") = no_data_proof(z, n)
    BY <2>1, <2>2 DEF existing
  <2> QED
    BY <1>6, <1>7, <2>3, AnswerIs DEF sent
<1>8. CASE n \notin DOMAIN z.rrs /\ Exists(n)
  BY <1>6, <1>8, AnswerIs DEF sent
<1>9. CASE ~Exists(n)
  <2>1. PICK d \in Len(Apex) .. Len(n) : closest_encloser(z, n) = Ancestor(n, d) /\ Encloses(n, d)
    BY <1>9, EncloserIs
  <2>2. Encloses(n, k)
    <3>1. Exists(p)
      BY Nsec3NamesAre
    <3> QED
      BY <1>2, <1>3, <1>9, <3>1 DEF Encloses
  <2>3. d = k
    <3> HIDE DEF k
    <3> QED BY <2>1, <2>2, EnclosesOnce
  <2> DEFINE ce == closest_encloser(z, n)
             w == Append(ce, Star)
  <2>4. ce = p /\ Len(ce) + 1 = Len(n)
    <3>1. Len(p) = k
      <4> HIDE DEF k
      <4> QED BY <1>2, AncestorIs
    <3> QED
      BY <1>2, <2>1, <2>3, <3>1
  <2>5. next_closer_proof(z, n, ce) = sent
    BY <1>3, <2>4 DEF next_closer_proof, sent
  <2>6. sent \subseteq nx_domain_proof(z, n, ce)
    BY <1>5 DEF nx_domain_proof
  <2>7. w \in DOMAIN z.rrs => "DS" \notin z.rrs[w]
    <3>1. w = wildcard_at(n, k)
      BY <2>4 DEF wildcard_at
    <3> HIDE DEF w, k
    <3> QED
      BY <1>2, <3>1, WildcardTypes
  <2> HIDE DEF ce
  <2>8. sent \subseteq missing(z, n, "DS")
    <3>1. /\ sent \subseteq encloser_proof(z, ce) \cup next_closer_proof(z, n, ce) \cup no_data_proof(z, w)
          /\ \A t : sent \subseteq Expanded(with_sigs(z, w, t), n) \cup next_closer_proof(z, n, ce)
      BY <2>5
    <3> QED
      BY <2>6, <2>7, <3>1, Zenon DEF missing, ce
  <2> QED
    BY <1>9, <2>8, AnswerIs DEF sent
<1> QED
  BY <1>7, <1>8, <1>9

-----------------------------------------------------------------------------
(* The descent                                                             *)

\* How far it has come: no delegation yet, and under opt-out every name on the
\* way is in the chain, unless it is below a DNAME.
Descended(d) ==
    /\ Uncut(Ancestor(qname, d))
    /\ z.denial = "NSEC3" /\ z.opt_out =>
        \A e \in Len(Apex) .. d :
            Ancestor(qname, e) \in nsec3_names(z) \/ DnamesAbove(z, Ancestor(qname, e)) # {}

LEMMA DnamesLower ==
    ASSUME z \in Zones, NEW n \in DnsName, NEW a \in DnsName, AtOrBelow(n, a), DnamesAbove(z, a) # {}
    PROVE  DnamesAbove(z, n) # {}
<1>1. PICK o \in DOMAIN z.rrs : IsBelow(a, o) /\ "DNAME" \in z.rrs[o]
  BY DEF DnamesAbove
<1>2. o \in DnsName /\ AtOrBelow(a, o) /\ a # o
  BY <1>1, OwnersAre, LabelIs DEF AtOrBelow, IsBelow
<1>3. IsBelow(n, o)
  <2>1. AtOrBelow(n, o)
    BY <1>2, BelowTransitive
  <2>2. n # o
    <3>1. n = o => AtOrBelow(o, a)
      OBVIOUS
    <3>2. Len(o) < Len(a) /\ Len(o) \in Nat /\ Len(a) \in Nat
      BY <1>1, <1>2, LabelIs DEF IsBelow
    <3>3. ~AtOrBelow(o, a)
      BY <1>2, <3>2 DEF AtOrBelow, IsBelow
    <3> QED
      BY <3>1, <3>3
  <2> QED
    BY <2>1, <2>2 DEF AtOrBelow
<1> QED
  BY <1>1, <1>3 DEF DnamesAbove

\* Below a name without delegations the first delegation is the child.
LEMMA FirstCut ==
    ASSUME z \in Zones, NEW n \in DnsName, Len(n) > 0, Uncut(Ancestor(n, Len(n) - 1))
    PROVE  \A c \in DelegationAbove(n) : c = n
<1> SUFFICES ASSUME NEW c \in DelegationAbove(n), c # n PROVE FALSE
  OBVIOUS
<1> DEFINE k == Len(n) - 1
           p == Ancestor(n, k)
<1>1. c \in DnsName /\ c \in DOMAIN z.rrs /\ is_cut(z, c) /\ AtOrBelow(n, c) /\ Len(c) < Len(n)
  BY ChainIs, OwnersAre DEF AtOrBelow, IsBelow
<1>2. Len(c) \in Nat /\ Len(n) \in Nat /\ k \in 0 .. Len(n) /\ Len(c) <= k
  BY <1>1, LabelIs
<1>3. p \in DnsName /\ Len(p) = k /\ AtOrBelow(n, p)
  <2> HIDE DEF k
  <2> QED BY <1>2, AncestorAbove
<1>4. Uncut(p)
  OBVIOUS
<1> HIDE DEF p, k
<1>5. AtOrBelow(p, c)
  BY <1>1, <1>2, <1>3, InLine
<1>6. c \in DelegationAbove(p)
  BY <1>1, <1>5, ChainIs
<1> QED
  BY <1>4, <1>6 DEF Uncut

LEMMA CoverProves ==
    ASSUME z \in Zones, z.opt_out, NEW n \in Hashable, n \notin nsec3_names(z),
           NEW now, nsec3_at(covering(z, n)) \subseteq now
    PROVE  prove_no_ds(z, HeldNsecs(now), HeldNsec3s(now), n)
<1>1. covering(z, n) \in SUBSET build_nsec3(z) /\ covering(z, n) # {}
  BY MatchingIs
<1>2. covering(z, n) \subseteq HeldNsec3s(now)
  BY <1>1, Nsec3Held
<1>3. PICK r \in HeldNsec3s(now) : r \in build_nsec3(z) /\ covers_hash(r, Hash(z, n))
  BY <1>1, <1>2 DEF covering
<1>4. r.opt_out
  BY <1>3 DEF build_nsec3, Nsec3At
<1>5. prove_no_ds_with_nsec3(z, HeldNsec3s(now), n)
  BY <1>3, <1>4 DEF prove_no_ds_with_nsec3
<1> QED
  BY <1>5 DEF prove_no_ds

\* The answer to the DS question at an unsigned delegation brings its proof,
\* when it is in the chain.
LEMMA CutProved ==
    ASSUME z \in Zones, Sane, NEW n \in DnsName, AtOrBelow(n, Apex), n \in Hashable, is_cut(z, n),
           \A c \in DelegationAbove(n) : c = n, "DS" \notin z.rrs[n],
           z.denial = "NSEC3" => n \in nsec3_names(z),
           NEW now, answer(z, n, "DS") \subseteq now
    PROVE  prove_no_ds(z, HeldNsecs(now), HeldNsec3s(now), n)
<1>1. n \in DOMAIN z.rrs /\ "NS" \in z.rrs[n] /\ n # Apex /\ "CNAME" \notin z.rrs[n]
  BY DEF is_cut, Sane
<1>2. answer(z, n, "DS") = no_data_proof(z, n)
  <2>1. existing(z, n, "DS") = no_data_proof(z, n)
    BY <1>1 DEF existing
  <2> QED
    BY <1>1, <2>1, AnswerIs
<1>3. chain_types(z, n) = {"NS"}
  BY <1>1 DEF chain_types
<1>4. CASE z.denial = "NSEC3"
  <2>1. matching(z, n) \in SUBSET build_nsec3(z) /\ Nsec3At(z, n) \in matching(z, n)
    BY <1>4, MatchingIs
  <2>2. nsec3_at(matching(z, n)) \subseteq now
    BY <1>2, <1>4, <2>1 DEF no_data_proof
  <2>3. Nsec3At(z, n) \in HeldNsec3s(now)
    BY <2>1, <2>2, Nsec3Held
  <2>4. Nsec3At(z, n).hash = Hash(z, n) /\ Nsec3At(z, n).types = nsec3_bitmap(z, n)
    BY DEF Nsec3At
  <2>5. "NS" \in nsec3_bitmap(z, n) /\ "DS" \notin nsec3_bitmap(z, n) /\ "SOA" \notin nsec3_bitmap(z, n)
    BY <1>1, <1>3 DEF nsec3_bitmap
  <2> HIDE DEF Nsec3At
  <2>6. prove_no_ds_with_nsec3(z, HeldNsec3s(now), n)
    BY <2>3, <2>4, <2>5 DEF prove_no_ds_with_nsec3, proves_no_ds
  <2> QED
    BY <2>6 DEF prove_no_ds
<1>5. CASE z.denial # "NSEC3"
  <2>1. n \in ChainOwners(z)
    <3>1. ~is_occluded(z, n)
      <4> SUFFICES ASSUME NEW x \in DOMAIN z.rrs, is_cut(z, x), IsBelow(n, x) PROVE FALSE
        BY DEF is_occluded
      <4>1. x = n
        BY ChainIs DEF AtOrBelow
      <4> QED
        BY <4>1, LabelIs DEF IsBelow
    <3> QED
      BY <1>1, <3>1 DEF ChainOwners
  <2>2. with_sigs(z, n, "NSEC") \subseteq now
    BY <1>2, <1>5, <2>1 DEF no_data_proof
  <2>3. NsecAt(z, n) \in HeldNsecs(now)
    BY <2>1, <2>2, NsecHeld
  <2>4. NsecAt(z, n).owner = n /\ proves_no_ds(NsecAt(z, n))
    BY <1>3 DEF NsecAt, proves_no_ds
  <2>5. prove_no_ds_with_nsec(HeldNsecs(now), n)
    BY <2>3, <2>4 DEF prove_no_ds_with_nsec
  <2> QED
    BY <2>5 DEF prove_no_ds
<1> QED
  BY <1>4, <1>5

\* One step of it: the delegation is taken when there is a signed one, Insecure
\* is concluded when that is the truth, and otherwise the way is clear.
LEMMA DescendMeans ==
    ASSUME z \in Zones, qname \in QNames, Sane, NEW d \in Len(Apex) + 1 .. Len(qname),
           Descended(d - 1), NEW now, AllSound(now), AllReal(now),
           answer(z, Ancestor(qname, d), "DS") \subseteq now
    PROVE  IF Held(answer(z, Ancestor(qname, d), "DS"), Ancestor(qname, d), "DS") # {}
           THEN Truth = "delegated"
           ELSE IF /\ ~below_dname(now, Ancestor(qname, d))
                   /\ prove_no_ds(z, HeldNsecs(now), HeldNsec3s(now), Ancestor(qname, d))
           THEN Truth = "insecure"
           ELSE Descended(d)
<1> DEFINE n == Ancestor(qname, d)
           k == d - 1
           p == Ancestor(qname, k)
           sent == answer(z, n, "DS")
           ds == Held(sent, n, "DS")
           proved == prove_no_ds(z, HeldNsecs(now), HeldNsec3s(now), n)
<1>1. /\ Len(Apex) \in Nat /\ Len(qname) \in Nat /\ qname \in DnsName
      /\ d \in Nat /\ d \in 0 .. Len(qname) /\ k \in 0 .. Len(qname) /\ k \in 0 .. d
      /\ Len(Apex) <= k /\ Len(Apex) <= d /\ Len(Apex) < d /\ d - 1 = k
      /\ k \in Len(Apex) .. k
  BY AskedIs
<1>2. /\ n \in DnsName /\ Len(n) = d /\ AtOrBelow(n, Apex) /\ AtOrBelow(qname, n) /\ n \in Hashable
      /\ \A e \in 0 .. d : Ancestor(n, e) = Ancestor(qname, e)
  <2> HIDE DEF k
  <2> QED BY <1>1, AskedIs, AncestorAbove
<1>3. p \in DnsName /\ Len(p) = k /\ Ancestor(n, k) = p /\ AtOrBelow(n, p)
  <2>1. p \in DnsName /\ Len(p) = k /\ Ancestor(n, k) = p
    <3> HIDE DEF n, k
    <3> QED BY <1>1, <1>2, AncestorAbove
  <2>2. AtOrBelow(n, Ancestor(n, k))
    <3> HIDE DEF n, k
    <3> QED BY <1>1, <1>2, AncestorAbove
  <2> HIDE DEF n, p, k
  <2> QED
    BY <2>1, <2>2
<1>4. /\ Uncut(p)
      /\ z.denial = "NSEC3" /\ z.opt_out =>
            \A e \in Len(Apex) .. k : Ancestor(qname, e) \in nsec3_names(z) \/ DnamesAbove(z, Ancestor(qname, e)) # {}
  BY DEF Descended
<1>5. sent \subseteq now
  OBVIOUS
<1>6. Descended(d) <=>
        /\ Uncut(n)
        /\ z.denial = "NSEC3" /\ z.opt_out =>
            \A e \in Len(Apex) .. d : Ancestor(qname, e) \in nsec3_names(z) \/ DnamesAbove(z, Ancestor(qname, e)) # {}
  BY DEF Descended
<1>7. \A e \in 0 .. Len(n) : Ancestor(n, e) \in Hashable
  <2> HIDE DEF n, k, p
  <2> QED BY <1>1, <1>2, AskedIs
<1>8. n # Apex
  <2> HIDE DEF n
  <2> QED BY <1>1, <1>2
<1> SUFFICES IF ds # {} THEN Truth = "delegated"
             ELSE IF ~below_dname(now, n) /\ proved THEN Truth = "insecure" ELSE Descended(d)
  OBVIOUS
<1> HIDE DEF n, p, sent
<1>9. \A c \in DelegationAbove(n) : c = n
  <2>1. Uncut(Ancestor(n, Len(n) - 1)) /\ Len(n) > 0
    BY <1>1, <1>2, <1>3, <1>4
  <2> QED
    BY <1>2, <2>1, FirstCut
<1>10. DnamesAbove(z, n) # {} => below_dname(now, n)
  BY <1>2, <1>5, <1>9, DnameSent DEF sent
<1>11. below_dname(now, n) => DnamesAbove(z, n) # {}
  BY <1>2, BelowDnameMeans
<1>12. DnamesAbove(z, n) # {} => ~Exists(n)
  BY <1>2, NothingBelowDname
<1>13. n \in DOMAIN z.rrs => Exists(n)
  BY DEF Exists, AtOrBelow
<1>14. ASSUME ds # {} PROVE is_cut(z, n) /\ "DS" \in z.rrs[n]
  <2>1. PICK r \in sent : r.owner = n /\ r.type = "DS"
    BY <1>14 DEF Held
  <2>2. Real(r)
    BY <1>5 DEF AllReal
  <2>3. CASE Owned(n, r)
    BY <1>8, <2>1, <2>3 DEF Owned, Sane, is_cut
  <2>4. ASSUME NEW e, Encloses(n, e), Owned(wildcard_at(n, e), r) PROVE FALSE
    <3>1. e \in 0 .. Len(n) /\ Len(Apex) <= e
      BY <1>2, <2>4, EncloserMeans DEF Encloses
    <3> QED
      BY <1>2, <2>1, <2>4, <3>1, WildcardTypes DEF Owned
  <2> QED
    BY <2>1, <2>2, <2>3, <2>4 DEF Real
<1>15. CASE ds # {}
  <2>1. Truth = "delegated"
    BY <1>1, <1>2, <1>9, <1>14, <1>15, CutMet
  <2> QED
    BY <1>15, <2>1
<1>16. CASE ds = {} /\ ~below_dname(now, n) /\ proved
  <2>1. /\ Genuine(HeldNsecs(now)) /\ HeldNsec3s(now) \in SUBSET build_nsec3(z)
        /\ HeldNsec3s(now) # {} => z.denial = "NSEC3"
    BY HeldIs
  <2>2. DnamesAbove(z, n) = {}
    BY <1>10, <1>16
  <2>3. Truth = "insecure"
    <3>1. /\ \A c \in DelegationAbove(Ancestor(qname, d)) : c = Ancestor(qname, d)
          /\ DnamesAbove(z, Ancestor(qname, d)) = {}
          /\ prove_no_ds(z, HeldNsecs(now), HeldNsec3s(now), Ancestor(qname, d))
      BY <1>9, <1>16, <2>2 DEF n
    <3> QED
      BY <2>1, <3>1, NoDsTrue
  <2> QED
    BY <1>16, <2>3
<1>17. CASE ds = {} /\ ~(~below_dname(now, n) /\ proved)
  <2>1. below_dname(now, n) \/ ~proved
    BY <1>17
  <2>2. ASSUME n \notin nsec3_names(z), z.denial = "NSEC3", z.opt_out, DnamesAbove(z, n) = {} PROVE FALSE
    <3>1. p \in nsec3_names(z)
      <4>1. p \in nsec3_names(z) \/ DnamesAbove(z, p) # {}
        BY <1>1, <1>4, <2>2 DEF p
      <4> QED
        BY <1>2, <1>3, <2>2, <4>1, DnamesLower
    <3>2. Ancestor(n, Len(n) - 1) \in nsec3_names(z) /\ Len(Apex) < Len(n)
      BY <1>1, <1>2, <1>3, <3>1
    <3>3. nsec3_at(covering(z, n)) \subseteq sent
      BY <1>2, <1>7, <1>9, <2>2, <3>2, CoverSent DEF sent
    <3>4. proved
      BY <1>2, <1>5, <2>2, <3>3, CoverProves
    <3> QED
      BY <1>11, <2>1, <2>2, <3>4
  <2>3. Uncut(n)
    <3> SUFFICES ASSUME ~Uncut(n) PROVE FALSE
      OBVIOUS
    <3>1. n \in DelegationAbove(n)
      BY <1>9 DEF Uncut
    <3>2. is_cut(z, n) /\ n \in DOMAIN z.rrs
      BY <3>1, ChainIs
    <3>3. ~below_dname(now, n) /\ DnamesAbove(z, n) = {}
      BY <1>11, <1>12, <1>13, <3>2
    <3>4. "DS" \notin z.rrs[n]
      <4> SUFFICES ASSUME "DS" \in z.rrs[n] PROVE FALSE
        OBVIOUS
      <4>1. sent = with_sigs(z, n, "DS")
        BY <1>2, <1>9, <3>2, AnswerIs DEF existing, sent
      <4>2. with_sigs(z, n, "DS") # {} /\ \A r \in with_sigs(z, n, "DS") : r.owner = n /\ r.type = "DS"
        BY <3>2, WithSigsOwned, WithSigsThere
      <4> QED
        BY <1>17, <4>1, <4>2 DEF Held
    <3>5. z.denial = "NSEC3" => n \in nsec3_names(z)
      <4>1. n \notin nsec3_names(z) => z.opt_out
        BY <1>9, <3>2, LeftOutOwner
      <4> QED
        BY <2>2, <3>3, <4>1
    <3>6. proved
      BY <1>2, <1>5, <1>9, <3>2, <3>4, <3>5, CutProved DEF sent
    <3> QED
      BY <2>1, <3>3, <3>6
  <2>4. ASSUME z.denial = "NSEC3", z.opt_out, NEW e \in Len(Apex) .. d
        PROVE  Ancestor(qname, e) \in nsec3_names(z) \/ DnamesAbove(z, Ancestor(qname, e)) # {}
    <3>1. CASE e = d
      BY <2>2, <2>4, <3>1 DEF n
    <3>2. CASE e # d
      <4>1. e \in Len(Apex) .. k
        BY <1>1, <3>2
      <4> QED
        BY <1>4, <2>4, <4>1
    <3> QED
      BY <3>1, <3>2
  <2>5. Descended(d)
    BY <1>6, <2>3, <2>4
  <2> QED
    BY <1>17, <2>5
<1> QED
  BY <1>15, <1>16, <1>17

-----------------------------------------------------------------------------
(* The last question                                                       *)

AtLeaf == z \in Zones /\ qname \in QNames /\ Sane /\ Askable /\ Uncut(qname)

Arrived(now) == AllSound(now) /\ AllReal(now) /\ answer(z, qname, qtype) \subseteq now

Verdict(now) ==
    IF Held(answer(z, qname, qtype), qname, qtype) # {} THEN Positive(now) ELSE Otherwise(now)

LEMMA LeafIs ==
    ASSUME AtLeaf
    PROVE  /\ z \in Zones /\ qname \in QNames /\ Sane /\ StarsPlain /\ Uncut(qname)
           /\ qname \in DnsName /\ AtOrBelow(qname, Apex) /\ Len(qname) \in Nat /\ Len(Apex) \in Nat
           /\ qname \in Hashable /\ rrsig_labels(qname) = Len(qname)
           /\ \A d \in 0 .. Len(qname) : Ancestor(qname, d) \in Hashable
           /\ qtype \notin {"NSEC", "NSEC3", "NSEC3PARAM", "RRSIG"}
           /\ qtype = "CNAME" => DnamesAbove(z, qname) = {}
<1>1. /\ z \in Zones /\ qname \in QNames /\ Sane /\ StarsPlain /\ Uncut(qname)
      /\ qname \in DnsName /\ AtOrBelow(qname, Apex) /\ Len(qname) \in Nat /\ Len(Apex) \in Nat
      /\ \A d \in 0 .. Len(qname) : Ancestor(qname, d) \in Hashable
  BY AskedIs, SaneStars DEF AtLeaf
<1>2. qname \in Hashable
  BY <1>1, SelfAncestor
<1>3. rrsig_labels(qname) = Len(qname)
  <2>1. \A i \in 1 .. Len(qname) : qname[i] # Star
    BY DEF AtLeaf, Askable
  <2>2. qname # Root => Len(qname) \in 1 .. Len(qname)
    BY <1>1, EmptySeq DEF Root, DnsName
  <2> QED
    BY <2>1, <2>2 DEF rrsig_labels
<1> QED
  BY <1>1, <1>2, <1>3 DEF AtLeaf, Askable

LEMMA PositiveIs ==
    ASSUME NEW now, Held(now, qname, qtype) # {},
           \A r \in Held(now, qname, qtype) :
                /\ r.labels # {}
                /\ \A l \in r.labels : l < Len(qname) =>
                    prove_qname_non_existence(z, HeldNsecs(now), HeldNsec3s(now), Ancestor(qname, l + 1))
    PROVE  Positive(now) = "secure"
<1> DEFINE r == CHOOSE r \in Held(now, qname, qtype) : TRUE
<1>1. r \in Held(now, qname, qtype)
  OBVIOUS
<1> HIDE DEF r
<1>2. /\ r.labels # {}
      /\ \A l \in r.labels : l < Len(qname) =>
            prove_qname_non_existence(z, HeldNsecs(now), HeldNsec3s(now), Ancestor(qname, l + 1))
  BY <1>1
<1> QED
  BY <1>2 DEF Positive, r

LEMMA OtherwiseIs ==
    ASSUME NEW now, ~below_dname(now, qname)
    PROVE  /\ Held(now, qname, "CNAME") # {} => Otherwise(now) = "cname"
           /\ Held(now, qname, "CNAME") = {} =>
                /\ prove_no_data(z, HeldNsecs(now), HeldNsec3s(now), qname, qtype) =>
                    Otherwise(now) = "secure-nodata"
                /\ /\ ~prove_no_data(z, HeldNsecs(now), HeldNsec3s(now), qname, qtype)
                   /\ prove_nx_domain(z, HeldNsecs(now), HeldNsec3s(now), qname)
                   => Otherwise(now) = "secure-nxdomain"
<1> QED
  BY DEF Otherwise

\* The rrsets held for the name are its own, or its wildcard's.
LEMMA HeldAtLeaf ==
    ASSUME AtLeaf, NEW now, Arrived(now), NEW type, type \notin {"NSEC", "NSEC3"},
           NEW r \in Held(now, qname, type)
    PROVE  /\ r.type = type
           /\ Exists(qname) => qname \in DOMAIN z.rrs /\ type \in z.rrs[qname] /\ r.labels = {Len(qname)}
           /\ \A d : Encloses(qname, d) /\ DnamesAbove(z, qname) = {} =>
                /\ wildcard_at(qname, d) \in DOMAIN z.rrs /\ type \in z.rrs[wildcard_at(qname, d)]
                /\ r.labels = {d}
<1>1. r.owner = qname /\ r.type = type /\ Real(r)
  BY DEF Held, Arrived, AllReal
<1>2. /\ z \in Zones /\ qname \in DnsName /\ AtOrBelow(qname, Apex) /\ Uncut(qname) /\ StarsPlain
      /\ rrsig_labels(qname) = Len(qname)
  BY LeafIs
<1>3. /\ Exists(qname) => Owned(qname, r)
      /\ \A d : Encloses(qname, d) /\ DnamesAbove(z, qname) = {} => Owned(wildcard_at(qname, d), r)
  BY <1>1, <1>2, RealSays
<1>4. ASSUME NEW d, Encloses(qname, d), Owned(wildcard_at(qname, d), r) PROVE r.labels = {d}
  <2> DEFINE w == wildcard_at(qname, d)
  <2>1. d \in 0 .. Len(qname) /\ Len(Apex) <= d
    BY <1>2, <1>4, EncloserMeans DEF Encloses
  <2>2. Uncut(w) /\ w \in DnsName /\ Len(w) = d + 1 /\ w[d + 1] = Star /\ d \in Nat
    BY <1>2, <2>1, WildcardOwned, WildcardIs, LabelIs
  <2> HIDE DEF w
  <2>3. rrsig_labels(w) = d
    <3>1. w # Root
      BY <2>2 DEF Root
    <3> QED
      BY <2>2, <3>1 DEF rrsig_labels
  <2> QED
    BY <1>4, <2>2, <2>3 DEF Owned, w
<1> QED
  BY <1>1, <1>2, <1>3, <1>4 DEF Owned

\* Proofs are no answer to the question.
LEMMA NotAnswered ==
    ASSUME AtLeaf, Denying(answer(z, qname, qtype))
    PROVE  \A now : Verdict(now) = Otherwise(now)
<1>1. Held(answer(z, qname, qtype), qname, qtype) = {}
  BY LeafIs DEF Held, Denying
<1> QED
  BY <1>1 DEF Verdict

LEMMA NoRedirection ==
    ASSUME AtLeaf, NEW now, Arrived(now), DnamesAbove(z, qname) = {}
    PROVE  ~below_dname(now, qname)
<1> QED
  BY LeafIs, BelowDnameMeans DEF Arrived

LEMMA LeafDname ==
    ASSUME AtLeaf, NEW now, Arrived(now), DnamesAbove(z, qname) # {}
    PROVE  Verdict(now) = Contained
<1>1. /\ below_dname(now, qname)
      /\ \A r \in answer(z, qname, qtype) : (r.type = "DNAME" /\ r.owner # qname) \/ r.type = "CNAME"
  BY LeafIs, DnameSent DEF Arrived
<1>2. Held(answer(z, qname, qtype), qname, qtype) = {}
  BY <1>1, LeafIs DEF Held
<1>3. Verdict(now) = "dname"
  BY <1>1, <1>2 DEF Verdict, Otherwise
<1>4. ~Exists(qname)
  BY LeafIs, NothingBelowDname
<1>5. DelegationAbove(qname) = {} /\ \E o \in DOMAIN z.rrs : "DNAME" \in z.rrs[o] /\ IsBelow(qname, o)
  BY LeafIs DEF Uncut, DnamesAbove
<1>6. Contained = "dname"
  BY <1>4, <1>5 DEF Contained
<1> QED
  BY <1>3, <1>6

\* A name with records: the rrset, the alias, or the proof that there is none.
LEMMA LeafOwner ==
    ASSUME AtLeaf, NEW now, Arrived(now), qname \in DOMAIN z.rrs
    PROVE  Verdict(now) = Contained
<1> DEFINE types == z.rrs[qname]
           sent == answer(z, qname, qtype)
<1>1. Exists(qname) /\ DnamesAbove(z, qname) = {}
  <2>1. Exists(qname)
    BY DEF Exists, AtOrBelow
  <2> QED
    BY <2>1, LeafIs, NothingBelowDname
<1>2. Contained = Content(types)
  BY <1>1, LeafIs, ContainedIs DEF TypesAt
<1>3. sent = existing(z, qname, qtype) /\ sent \subseteq now
  BY LeafIs, AnswerIs DEF Arrived
<1>4. ~below_dname(now, qname)
  BY <1>1, NoRedirection
<1>5. \A type : type \notin {"NSEC", "NSEC3"} =>
        \A r \in Held(now, qname, type) : type \in types /\ r.labels = {Len(qname)}
  BY <1>1, HeldAtLeaf
<1> HIDE DEF sent
<1>6. CASE qtype \in types
  <2>1. sent = with_sigs(z, qname, qtype) /\ sent # {} /\ \A r \in sent : r.owner = qname /\ r.type = qtype
    <3>1. sent = with_sigs(z, qname, qtype)
      BY <1>3, <1>6 DEF existing
    <3> QED
      BY <1>6, <3>1, LeafIs, WithSigsOwned, WithSigsThere
  <2>2. Held(sent, qname, qtype) # {} /\ Held(now, qname, qtype) # {}
    BY <1>3, <2>1 DEF Held
  <2>3. \A r \in Held(now, qname, qtype) : r.labels = {Len(qname)}
    BY <1>5, LeafIs
  <2>4. Positive(now) = "secure"
    <3>1. ~(Len(qname) < Len(qname))
      BY LeafIs
    <3> QED
      BY <2>2, <2>3, <3>1, PositiveIs
  <2>5. Verdict(now) = "secure" /\ Contained = "secure"
    BY <1>2, <1>6, <2>2, <2>4 DEF Verdict, Content, sent
  <2> QED
    BY <2>5
<1>7. CASE qtype \notin types /\ "CNAME" \in types
  <2>1. sent = with_sigs(z, qname, "CNAME") /\ sent # {} /\ \A r \in sent : r.owner = qname /\ r.type = "CNAME"
    <3>1. sent = with_sigs(z, qname, "CNAME")
      BY <1>3, <1>7 DEF existing
    <3> QED
      BY <1>7, <3>1, LeafIs, WithSigsOwned, WithSigsThere
  <2>2. Held(sent, qname, qtype) = {} /\ Held(now, qname, "CNAME") # {}
    BY <1>3, <1>7, <2>1 DEF Held
  <2>3. Verdict(now) = "cname" /\ Contained = "cname"
    BY <1>2, <1>4, <1>7, <2>2, OtherwiseIs DEF Verdict, Content, sent
  <2> QED
    BY <2>3
<1>8. CASE qtype \notin types /\ "CNAME" \notin types
  <2>1. sent = no_data_proof(z, qname) /\ Contained = "secure-nodata"
    BY <1>2, <1>3, <1>8, NothingThere DEF existing
  <2>2. Verdict(now) = Otherwise(now) /\ Held(now, qname, "CNAME") = {}
    <3>1. Denying(sent)
      BY <2>1, LeafIs, ProofsDeny
    <3> QED
      BY <1>5, <1>8, <3>1, NotAnswered DEF sent
  <2>3. chain_types(z, qname) = types /\ qname \in ChainOwners(z) /\ qname \in nsec3_names(z)
    BY LeafIs, UncutOwner
  <2>4. prove_no_data(z, HeldNsecs(now), HeldNsec3s(now), qname, qtype)
    <3>1. CASE z.denial = "NSEC3"
      <4>1. matching(z, qname) \in SUBSET build_nsec3(z) /\ Nsec3At(z, qname) \in matching(z, qname)
        BY <2>3, LeafIs, MatchingIs
      <4>2. nsec3_at(matching(z, qname)) \subseteq now
        BY <1>3, <2>1, <3>1, <4>1 DEF no_data_proof
      <4>3. Nsec3At(z, qname) \in HeldNsec3s(now)
        BY <4>1, <4>2, Nsec3Held
      <4>4. Nsec3At(z, qname).hash = Hash(z, qname) /\ Nsec3At(z, qname).types = nsec3_bitmap(z, qname)
        BY DEF Nsec3At
      <4>5. qtype \notin nsec3_bitmap(z, qname) /\ "CNAME" \notin nsec3_bitmap(z, qname)
        BY <1>8, <2>3, LeafIs DEF nsec3_bitmap
      <4> QED
        BY <4>3, <4>4, <4>5
           DEF prove_no_data, prove_no_data_with_nsec3, matching_no_data_nsec3, proves_no_data
    <3>2. CASE z.denial # "NSEC3"
      <4>1. with_sigs(z, qname, "NSEC") \subseteq now
        BY <1>3, <2>1, <2>3, <3>2 DEF no_data_proof
      <4>2. NsecAt(z, qname) \in HeldNsecs(now)
        BY <2>3, <4>1, NsecHeld
      <4>3. NsecAt(z, qname).owner = qname /\ NsecAt(z, qname).types = types \cup {"RRSIG", "NSEC"}
        BY <2>3 DEF NsecAt
      <4>4. proves_no_data(NsecAt(z, qname), qtype)
        BY <1>8, <4>3, LeafIs DEF proves_no_data
      <4> QED
        BY <4>2, <4>3, <4>4 DEF prove_no_data, prove_no_data_with_nsec, matching_no_data
    <3> QED
      BY <3>1, <3>2
  <2> QED
    BY <1>4, <2>1, <2>2, <2>4, OtherwiseIs
<1> QED
  BY <1>6, <1>7, <1>8

\* An empty non-terminal: the proof that it is one.
LEMMA LeafEmpty ==
    ASSUME AtLeaf, NEW now, Arrived(now), qname \notin DOMAIN z.rrs, Exists(qname),
           z.denial = "NSEC3" => InChain(qname)
    PROVE  Verdict(now) = Contained
<1> DEFINE sent == answer(z, qname, qtype)
<1>1. DnamesAbove(z, qname) = {}
  BY LeafIs, NothingBelowDname
<1>2. Contained = "secure-nodata"
  <2>1. TypesAt(qname) = {}
    BY DEF TypesAt
  <2> QED
    BY <1>1, <2>1, LeafIs, ContainedIs, NothingThere
<1>3. sent = no_data_proof(z, qname) /\ sent \subseteq now
  BY LeafIs, AnswerIs DEF Arrived
<1>4. Verdict(now) = Otherwise(now) /\ Held(now, qname, "CNAME") = {} /\ ~below_dname(now, qname)
  <2>1. Denying(sent)
    BY <1>3, LeafIs, ProofsDeny
  <2>2. Held(now, qname, "CNAME") = {}
    BY HeldAtLeaf
  <2> QED
    BY <1>1, <2>1, <2>2, NotAnswered, NoRedirection
<1> HIDE DEF sent
<1>5. prove_no_data(z, HeldNsecs(now), HeldNsec3s(now), qname, qtype)
  <2>1. CASE z.denial = "NSEC3"
    <3>1. qname \in nsec3_names(z)
      <4>1. Ancestor(qname, Len(qname)) = qname /\ Len(qname) \in Len(Apex) .. Len(qname)
        BY LeafIs, SelfAncestor, AskedIs
      <4> QED
        BY <2>1, <4>1 DEF InChain
    <3>2. matching(z, qname) \in SUBSET build_nsec3(z) /\ Nsec3At(z, qname) \in matching(z, qname)
      BY <3>1, LeafIs, MatchingIs
    <3>3. nsec3_at(matching(z, qname)) \subseteq now
      BY <1>3, <2>1, <3>2 DEF no_data_proof
    <3>4. Nsec3At(z, qname) \in HeldNsec3s(now)
      BY <3>2, <3>3, Nsec3Held
    <3>5. Nsec3At(z, qname).hash = Hash(z, qname) /\ Nsec3At(z, qname).types = {}
      BY DEF Nsec3At, nsec3_bitmap
    <3> QED
      BY <3>4, <3>5 DEF prove_no_data, prove_no_data_with_nsec3, matching_no_data_nsec3, proves_no_data
  <2>2. CASE z.denial # "NSEC3"
    <3>1. qname \notin ChainOwners(z)
      BY DEF ChainOwners
    <3>2. covering_nsec(z, qname) \subseteq now
      BY <1>3, <2>2, <3>1 DEF no_data_proof
    <3>3. PICK p \in ChainOwners(z) :
            covers_name(NsecAt(z, p), qname) /\ NsecAt(z, p) \in HeldNsecs(now)
      BY <3>1, <3>2, LeafIs, CoveringHeld
    <3>4. IsBelow(NextOwner(z, p), qname)
      <4>1. PICK o \in ChainOwners(z) : AtOrBelow(o, qname)
        <5>1. \A c \in DelegationAbove(qname) : c = qname
          BY LeafIs DEF Uncut
        <5> QED
          BY <5>1, LeafIs, ChainBelow
      <4>2. Gap(p, NextOwner(z, p), qname)
        BY <3>3, LeafIs, CoversGap
      <4> QED
        BY <4>1, <4>2, LeafIs, GapBelow
    <3>5. IsBelow(NsecAt(z, p).next, qname)
      BY <3>4 DEF NsecAt
    <3> QED
      BY <3>3, <3>5 DEF prove_no_data, prove_no_data_with_nsec
  <2> QED
    BY <2>1, <2>2
<1> QED
  BY <1>2, <1>4, <1>5, OtherwiseIs

\* A name that is not there: its closest encloser, the wildcard next to it and
\* the next closer name.
Lacking(d) ==
    /\ Encloses(qname, d) /\ closest_encloser(z, qname) = Ancestor(qname, d)
    /\ DnamesAbove(z, qname) = {}
    /\ z.denial = "NSEC3" => InChain(qname)

LEMMA LackingIs ==
    ASSUME AtLeaf, NEW d, Lacking(d)
    PROVE  /\ d \in 0 .. Len(qname) /\ Len(Apex) <= d /\ d < Len(qname) /\ d \in Nat
           /\ d \in Len(Apex) .. Len(qname) - 1
           /\ d + 1 \in 0 .. Len(qname) /\ ~Exists(qname)
           /\ wildcard_at(qname, d) \in DnsName /\ wildcard_at(qname, d) \in Hashable
           /\ AtOrBelow(wildcard_at(qname, d), Apex) /\ Uncut(wildcard_at(qname, d))
           /\ Ancestor(qname, d + 1) \in DnsName /\ AtOrBelow(Ancestor(qname, d + 1), Apex)
           /\ Ancestor(qname, d + 1) \in Hashable
           /\ AtOrBelow(qname, Ancestor(qname, d + 1)) /\ ~Exists(Ancestor(qname, d + 1))
           /\ Ancestor(qname, d) \in Hashable /\ Len(Ancestor(qname, d)) = d
           /\ Append(closest_encloser(z, qname), Star) = wildcard_at(qname, d)
           /\ \A e \in 0 .. Len(qname) : Exists(Ancestor(qname, e)) => e <= d
<1>1. /\ d \in 0 .. Len(qname) /\ d # Len(qname) /\ Len(Apex) <= d /\ ~Exists(qname)
      /\ ~Exists(Ancestor(qname, d + 1)) /\ qname \in DnsName /\ Len(qname) \in Nat /\ Len(Apex) \in Nat
  BY LeafIs, EncloserMeans DEF Lacking, Encloses
<1>2. d + 1 \in 0 .. Len(qname) /\ d \in Nat /\ d < Len(qname) /\ Len(Apex) <= d + 1
  BY <1>1
<1>3. /\ wildcard_at(qname, d) \in DnsName /\ wildcard_at(qname, d) \in Hashable
      /\ AtOrBelow(wildcard_at(qname, d), Apex) /\ Uncut(wildcard_at(qname, d))
  BY <1>1, LeafIs, AskedIs, WildcardOwned
<1>4. /\ Ancestor(qname, d + 1) \in DnsName /\ AtOrBelow(Ancestor(qname, d + 1), Apex)
      /\ Ancestor(qname, d + 1) \in Hashable
      /\ AtOrBelow(qname, Ancestor(qname, d + 1))
  BY <1>1, <1>2, LeafIs, AskedIs, AncestorAbove
<1>5. Ancestor(qname, d) \in Hashable /\ Len(Ancestor(qname, d)) = d
  BY <1>1, LeafIs, AncestorIs
<1>6. Append(closest_encloser(z, qname), Star) = wildcard_at(qname, d)
  BY DEF Lacking, wildcard_at
<1>7. ASSUME NEW e \in 0 .. Len(qname), Exists(Ancestor(qname, e)) PROVE e <= d
  <2>1. d < e => d + 1 \in 0 .. e
    BY <1>1, <1>2
  <2>2. d + 1 \in 0 .. e => Exists(Ancestor(qname, d + 1))
    BY <1>1, <1>7, LeafIs, ExistsAbove
  <2>3. ~(d < e)
    BY <1>1, <2>1, <2>2
  <2> QED
    BY <1>2, <2>3
<1>8. d \in Len(Apex) .. Len(qname) - 1
  BY <1>1, <1>2
<1> QED
  BY <1>1, <1>2, <1>3, <1>4, <1>5, <1>6, <1>7, <1>8

\* The proof about the next closer name, and the NSEC3 one about the encloser.
LEMMA CloserProved ==
    ASSUME AtLeaf, NEW d, Lacking(d), NEW now,
           next_closer_proof(z, qname, closest_encloser(z, qname)) \subseteq now
    PROVE  /\ z.denial # "NSEC3" =>
                \E p \in ChainOwners(z) : /\ covers_name(NsecAt(z, p), Ancestor(qname, d + 1))
                                          /\ NsecAt(z, p) \in HeldNsecs(now)
           /\ z.denial = "NSEC3" => find_covering_nsec3(HeldNsec3s(now), Hash(z, Ancestor(qname, d + 1)))
           /\ prove_qname_non_existence(z, HeldNsecs(now), HeldNsec3s(now), Ancestor(qname, d + 1))
<1> DEFINE m == Ancestor(qname, d + 1)
<1>1. m \in DnsName /\ AtOrBelow(m, Apex) /\ m \in Hashable /\ ~Exists(m)
  BY LackingIs
<1>2. Len(closest_encloser(z, qname)) = d
  BY LackingIs DEF Lacking
<1>3. IF z.denial = "NSEC3" THEN nsec3_at(covering(z, m)) \subseteq now ELSE covering_nsec(z, m) \subseteq now
  BY <1>2 DEF next_closer_proof
<1> HIDE DEF m
<1>4. ASSUME z.denial # "NSEC3"
      PROVE  \E p \in ChainOwners(z) : covers_name(NsecAt(z, p), m) /\ NsecAt(z, p) \in HeldNsecs(now)
  <2>1. m \notin ChainOwners(z)
    BY <1>1 DEF ChainOwners, Exists, AtOrBelow
  <2> QED
    BY <1>1, <1>3, <1>4, <2>1, LeafIs, CoveringHeld
<1>5. ASSUME z.denial = "NSEC3" PROVE find_covering_nsec3(HeldNsec3s(now), Hash(z, m))
  <2>1. m \notin nsec3_names(z)
    BY <1>1, LeafIs, Nsec3NamesAre
  <2>2. covering(z, m) \in SUBSET build_nsec3(z) /\ covering(z, m) # {}
    BY <1>1, <2>1, LeafIs, MatchingIs
  <2>3. covering(z, m) \subseteq HeldNsec3s(now)
    BY <1>3, <1>5, <2>2, Nsec3Held
  <2> QED
    BY <2>2, <2>3 DEF covering, find_covering_nsec3
<1>6. prove_qname_non_existence(z, HeldNsecs(now), HeldNsec3s(now), m)
  BY <1>4, <1>5 DEF prove_qname_non_existence
<1> QED
  BY <1>4, <1>5, <1>6 DEF m

LEMMA EncloserProved ==
    ASSUME AtLeaf, NEW d, Lacking(d), z.denial = "NSEC3", NEW nsec3s \in SUBSET build_nsec3(z),
           Nsec3At(z, Ancestor(qname, d)) \in nsec3s,
           find_covering_nsec3(nsec3s, Hash(z, Ancestor(qname, d + 1)))
    PROVE  d \in closest_encloser_proof_nsec3(z, nsec3s, qname)
<1>1. d \in Matched(z, nsec3s, qname)
  <2>1. Nsec3At(z, Ancestor(qname, d)).hash = Hash(z, Ancestor(qname, d))
    BY DEF Nsec3At
  <2>2. nsec3_matches(nsec3s, Hash(z, Ancestor(qname, d)))
    BY <2>1 DEF nsec3_matches
  <2> QED
    BY <2>2, LackingIs DEF Matched
<1>2. ASSUME NEW e \in Matched(z, nsec3s, qname) PROVE e <= d
  <2>1. e \in 0 .. Len(qname) /\ nsec3_matches(nsec3s, Hash(z, Ancestor(qname, e)))
    BY DEF Matched
  <2>2. PICK r \in nsec3s : r.hash = Hash(z, Ancestor(qname, e))
    BY <2>1 DEF nsec3_matches
  <2>3. Ancestor(qname, e) \in nsec3_names(z)
    BY <2>1, <2>2, LeafIs, Nsec3Matches
  <2>4. Exists(Ancestor(qname, e))
    BY <2>3, LeafIs, Nsec3NamesAre
  <2> QED
    BY <2>1, <2>4, LackingIs
<1>3. d < Len(qname)
  BY LackingIs
<1> QED
  BY <1>1, <1>2, <1>3 DEF closest_encloser_proof_nsec3

LEMMA EncloserInChain ==
    ASSUME AtLeaf, NEW d, Lacking(d), z.denial = "NSEC3"
    PROVE  /\ Ancestor(qname, d) \in nsec3_names(z)
           /\ Nsec3At(z, Ancestor(qname, d)) \in matching(z, Ancestor(qname, d))
           /\ matching(z, Ancestor(qname, d)) \in SUBSET build_nsec3(z)
<1>1. Exists(Ancestor(qname, d)) /\ d \in Len(Apex) .. Len(qname)
  BY LackingIs, LeafIs DEF Lacking, Encloses
<1>2. Ancestor(qname, d) \in nsec3_names(z)
  BY <1>1 DEF Lacking, InChain
<1> QED
  BY <1>2, LackingIs, LeafIs, MatchingIs

\* No wildcard: the proof that neither is there.
LEMMA LeafDenied ==
    ASSUME AtLeaf, NEW now, Arrived(now), NEW d, Lacking(d), Len(Apex) > 0,
           wildcard_at(qname, d) \notin DOMAIN z.rrs
    PROVE  Verdict(now) = Contained
<1> DEFINE w == wildcard_at(qname, d)
           m == Ancestor(qname, d + 1)
           p == Ancestor(qname, d)
           ce == closest_encloser(z, qname)
           sent == answer(z, qname, qtype)
           nsecs == HeldNsecs(now)
           nsec3s == HeldNsec3s(now)
<1>1. Contained = "secure-nxdomain" /\ Plain
  BY LeafIs, WildcardContained DEF Lacking, Plain
<1>2. sent = nx_domain_proof(z, qname, ce) /\ sent \subseteq now
  <2>1. sent = missing(z, qname, qtype)
    BY LackingIs, LeafIs, AnswerIs DEF Lacking
  <2>2. Append(ce, Star) \notin DOMAIN z.rrs
    BY LackingIs
  <2> QED
    BY <2>1, <2>2 DEF missing, Arrived
<1>3. Verdict(now) = Otherwise(now) /\ Held(now, qname, "CNAME") = {} /\ ~below_dname(now, qname)
  <2>1. Denying(sent)
    BY <1>2, LeafIs, ProofsDeny
  <2>2. Held(now, qname, "CNAME") = {}
    BY HeldAtLeaf DEF Lacking
  <2> QED
    BY <2>1, <2>2, NotAnswered, NoRedirection DEF Lacking
<1>4. Genuine(nsecs) /\ nsec3s \in SUBSET build_nsec3(z) /\ (nsec3s # {} => z.denial = "NSEC3")
  BY HeldIs DEF Arrived
<1>5. w \in DnsName /\ w \in Hashable /\ AtOrBelow(w, Apex) /\ Uncut(w) /\ ~Exists(qname)
  BY LackingIs
<1> HIDE DEF sent, ce, nsecs, nsec3s, w, m, p
<1>6. ~prove_no_data(z, nsecs, nsec3s, qname, qtype)
  <2>1. ~prove_no_data_with_nsec(nsecs, qname, qtype)
    BY <1>1, <1>4, LeafIs, NsecNoData
  <2>2. ~prove_no_data_with_nsec3(z, nsec3s, qname, qtype)
    <3>1. CASE z.denial = "NSEC3"
      BY <1>1, <1>4, <3>1, LeafIs, Nsec3NoData DEF Lacking
    <3>2. CASE nsec3s = {}
      BY <3>2 DEF prove_no_data_with_nsec3, matching_no_data_nsec3, closest_encloser_proof_nsec3,
                  find_covering_nsec3
    <3> QED
      BY <1>4, <3>1, <3>2
  <2> QED
    BY <2>1, <2>2 DEF prove_no_data
<1>7. prove_nx_domain(z, nsecs, nsec3s, qname)
  <2>1. CASE z.denial = "NSEC3"
    <3>1. p \in nsec3_names(z) /\ Nsec3At(z, p) \in matching(z, p) /\ matching(z, p) \in SUBSET build_nsec3(z)
      BY <2>1, EncloserInChain DEF p
    <3>2. /\ provable_encloser(z, qname) = p
          /\ closest_encloser_proof(z, qname) = nsec3_at(matching(z, p) \cup covering(z, m))
      <4>1. ASSUME NEW e \in d + 1 .. Len(qname) - 1 PROVE Ancestor(qname, e) \notin nsec3_names(z)
        <5>1. e \in 0 .. Len(qname) /\ ~(e <= d)
          BY LackingIs, LeafIs
        <5>2. ~Exists(Ancestor(qname, e))
          BY <5>1, LackingIs
        <5> QED
          BY <5>2, LeafIs, Nsec3NamesAre
      <4> QED
        BY <3>1, <4>1, LackingIs, LeafIs, ProvableIs DEF p, m
    <3>3. m \in Hashable /\ m \notin nsec3_names(z) /\ w \notin nsec3_names(z)
      <4>1. m \in Hashable /\ ~Exists(m)
        BY LackingIs DEF m
      <4>2. ~Exists(w)
        BY LackingIs, LeafIs, WildcardOwned DEF w
      <4> QED
        BY <4>1, <4>2, LeafIs, Nsec3NamesAre
    <3>4. /\ covering(z, m) \in SUBSET build_nsec3(z) /\ covering(z, m) # {}
          /\ covering(z, w) \in SUBSET build_nsec3(z) /\ covering(z, w) # {}
      BY <1>5, <3>3, LeafIs, MatchingIs
    <3>5. /\ nsec3_at(matching(z, p) \cup covering(z, m)) \subseteq now
          /\ nsec3_at(covering(z, w)) \subseteq now
      <4>1. Append(p, Star) = w
        BY DEF p, w, wildcard_at
      <4> QED
        BY <1>2, <2>1, <3>2, <4>1 DEF nx_domain_proof
    <3>6. /\ matching(z, p) \cup covering(z, m) \subseteq nsec3s
          /\ covering(z, w) \subseteq nsec3s
      <4>1. matching(z, p) \cup covering(z, m) \in SUBSET build_nsec3(z)
        BY <3>1, <3>4
      <4> QED
        BY <3>4, <3>5, <4>1, Nsec3Held DEF nsec3s
    <3>7. find_covering_nsec3(nsec3s, Hash(z, m)) /\ find_covering_nsec3(nsec3s, Hash(z, w))
      BY <3>4, <3>6 DEF covering, find_covering_nsec3
    <3>8. d \in closest_encloser_proof_nsec3(z, nsec3s, qname)
      <4>1. Nsec3At(z, p) \in nsec3s
        BY <3>1, <3>6
      <4> QED
        BY <1>4, <2>1, <3>7, <4>1, EncloserProved DEF p, m
    <3>9. prove_nx_domain_with_nsec3(z, nsec3s, qname)
      BY <3>7, <3>8 DEF prove_nx_domain_with_nsec3, w
    <3> QED
      BY <3>9 DEF prove_nx_domain
  <2>2. CASE z.denial # "NSEC3"
    <3>1. covering_nsec(z, qname) \subseteq now /\ covering_nsec(z, w) \subseteq now
      <4>1. Append(ce, Star) = w
        BY LackingIs DEF ce, w
      <4> QED
        BY <1>2, <2>2, <4>1 DEF nx_domain_proof
    <3>2. qname \notin ChainOwners(z) /\ w \notin ChainOwners(z)
      BY <1>5 DEF ChainOwners, Exists, AtOrBelow, w
    <3>3. PICK o \in ChainOwners(z) : covers_name(NsecAt(z, o), qname) /\ NsecAt(z, o) \in nsecs
      BY <3>1, <3>2, LeafIs, CoveringHeld DEF nsecs
    <3>4. PICK x \in ChainOwners(z) : covers_name(NsecAt(z, x), w) /\ NsecAt(z, x) \in nsecs
      BY <1>5, <3>1, <3>2, LeafIs, CoveringHeld DEF nsecs
    <3> DEFINE r == NsecAt(z, o)
               e == closest_encloser_nsec(qname, r)
    <3>5. r.owner = o /\ r.next = NextOwner(z, o)
      BY DEF NsecAt
    <3> HIDE DEF r
    <3>6. Gap(r.owner, r.next, qname)
      <4>1. Gap(o, NextOwner(z, o), qname)
        BY <3>3, LeafIs, CoversGap
      <4> QED
        BY <3>5, <4>1
    <3>7. e = d
      <4>1. Encloses(qname, e)
        BY <1>5, <3>6, LeafIs, EncloserOfGap
      <4> HIDE DEF e
      <4> QED
        BY <4>1, LeafIs, EnclosesOnce DEF Lacking
    <3>8. ~IsBelow(r.next, qname)
      <4>1. r.next \in DOMAIN z.rrs
        BY <3>6, LeafIs, ChainIs DEF Gap
      <4> QED
        BY <1>5, <4>1 DEF Exists, AtOrBelow
    <3>9. d # NoName /\ d # Len(qname)
      BY LackingIs, LeafIs DEF NoName
    <3>10. covers_name(r, qname) /\ r \in nsecs
      BY <3>3 DEF r
    <3> HIDE DEF e
    <3>11. prove_nx_domain_with_nsec(nsecs, qname)
      BY <3>4, <3>7, <3>8, <3>9, <3>10 DEF prove_nx_domain_with_nsec, e, w
    <3> QED
      BY <3>11 DEF prove_nx_domain
  <2> QED
    BY <2>1, <2>2
<1> QED
  BY <1>1, <1>3, <1>6, <1>7, OtherwiseIs DEF nsecs, nsec3s


\* The wildcard next to the closest encloser answers, or denies, for the name.
LEMMA WildcardSent ==
    ASSUME AtLeaf, NEW d, Lacking(d), wildcard_at(qname, d) \in DOMAIN z.rrs
    PROVE  LET w == wildcard_at(qname, d)
               ce == closest_encloser(z, qname)
               closer == next_closer_proof(z, qname, ce)
               sent == answer(z, qname, qtype)
           IN /\ qtype \in z.rrs[w] => sent = Expanded(with_sigs(z, w, qtype), qname) \cup closer
              /\ qtype \notin z.rrs[w] /\ "CNAME" \in z.rrs[w] =>
                    sent = Expanded(with_sigs(z, w, "CNAME"), qname) \cup closer
              /\ qtype \notin z.rrs[w] /\ "CNAME" \notin z.rrs[w] =>
                    sent = encloser_proof(z, ce) \cup closer \cup no_data_proof(z, w)
<1>1. answer(z, qname, qtype) = missing(z, qname, qtype)
  BY LackingIs, LeafIs, AnswerIs DEF Lacking
<1>2. Append(closest_encloser(z, qname), Star) = wildcard_at(qname, d)
  BY LackingIs
<1> QED
  BY <1>1, <1>2 DEF missing

LEMMA ExpandedThere ==
    ASSUME NEW w \in DOMAIN z.rrs, NEW type \in z.rrs[w], type # "NSEC", NEW n
    PROVE  Held(Expanded(with_sigs(z, w, type), n), n, type) # {}
<1> DEFINE r == RRSet(w, type, IF is_signed(z, w, type) THEN {rrsig_labels(w)} ELSE {})
<1>1. with_sigs(z, w, type) = {r}
  BY DEF with_sigs
<1>2. [r EXCEPT !.owner = n] \in Expanded(with_sigs(z, w, type), n)
  BY <1>1 DEF Expanded
<1>3. [r EXCEPT !.owner = n].owner = n /\ [r EXCEPT !.owner = n].type = type
  BY DEF RRSet
<1> HIDE DEF r
<1> QED
  BY <1>2, <1>3 DEF Held

LEMMA HeldMore ==
    ASSUME NEW a, NEW b, a \subseteq b, NEW n, NEW type
    PROVE  Held(a, n, type) \subseteq Held(b, n, type)
<1> QED
  BY DEF Held

\* It holds the type: the rrset expanded from it, which its proof allows.
LEMMA WildcardAnswers ==
    ASSUME AtLeaf, NEW now, Arrived(now), NEW d, Lacking(d),
           wildcard_at(qname, d) \in DOMAIN z.rrs, qtype \in z.rrs[wildcard_at(qname, d)]
    PROVE  Verdict(now) = "secure"
<1> DEFINE w == wildcard_at(qname, d)
           sent == answer(z, qname, qtype)
           closer == next_closer_proof(z, qname, closest_encloser(z, qname))
           expanded == Expanded(with_sigs(z, w, qtype), qname)
<1>1. sent = expanded \cup closer /\ sent \subseteq now
  BY WildcardSent DEF Arrived
<1>2. Held(expanded, qname, qtype) # {}
  BY LeafIs, ExpandedThere
<1> HIDE DEF sent, expanded
<1>3. Held(sent, qname, qtype) # {} /\ Held(now, qname, qtype) # {}
  BY <1>1, <1>2, HeldMore
<1>4. prove_qname_non_existence(z, HeldNsecs(now), HeldNsec3s(now), Ancestor(qname, d + 1))
  BY <1>1, CloserProved
<1>5. \A r \in Held(now, qname, qtype) : r.labels = {d}
  BY LeafIs, HeldAtLeaf DEF Lacking
<1>6. Positive(now) = "secure"
  BY <1>3, <1>4, <1>5, PositiveIs
<1> QED
  BY <1>3, <1>6 DEF Verdict, sent

\* It holds an alias: that, expanded.
LEMMA WildcardAliases ==
    ASSUME AtLeaf, NEW now, Arrived(now), NEW d, Lacking(d),
           wildcard_at(qname, d) \in DOMAIN z.rrs, qtype \notin z.rrs[wildcard_at(qname, d)],
           "CNAME" \in z.rrs[wildcard_at(qname, d)]
    PROVE  Verdict(now) = "cname"
<1> DEFINE w == wildcard_at(qname, d)
           sent == answer(z, qname, qtype)
           closer == next_closer_proof(z, qname, closest_encloser(z, qname))
           expanded == Expanded(with_sigs(z, w, "CNAME"), qname)
<1>1. sent = expanded \cup closer /\ sent \subseteq now
  BY WildcardSent DEF Arrived
<1>2. Held(expanded, qname, "CNAME") # {}
  BY ExpandedThere
<1>3. Held(sent, qname, qtype) = {}
  <2>1. ASSUME NEW r \in expanded PROVE r.type = "CNAME"
    BY LeafIs, ExpandedReal DEF Lacking
  <2>2. Denying(closer)
    BY LeafIs, ProofsDeny
  <2>3. qtype # "CNAME" /\ qtype \notin {"NSEC", "NSEC3"}
    BY LeafIs
  <2> HIDE DEF sent, expanded, closer
  <2> QED
    BY <1>1, <2>1, <2>2, <2>3 DEF Held, Denying
<1> HIDE DEF expanded
<1>4. Held(now, qname, "CNAME") # {}
  BY <1>1, <1>2, HeldMore
<1>5. Otherwise(now) = "cname"
  BY <1>4, NoRedirection, OtherwiseIs DEF Lacking
<1> QED
  BY <1>3, <1>5 DEF Verdict

\* It holds neither: the proof that it does not.
LEMMA WildcardDenies ==
    ASSUME AtLeaf, NEW now, Arrived(now), NEW d, Lacking(d), Len(Apex) > 0,
           wildcard_at(qname, d) \in DOMAIN z.rrs, qtype \notin z.rrs[wildcard_at(qname, d)],
           "CNAME" \notin z.rrs[wildcard_at(qname, d)]
    PROVE  Verdict(now) = "secure-nodata"
<1> DEFINE w == wildcard_at(qname, d)
           m == Ancestor(qname, d + 1)
           p == Ancestor(qname, d)
           ce == closest_encloser(z, qname)
           sent == answer(z, qname, qtype)
           closer == next_closer_proof(z, qname, ce)
           nsecs == HeldNsecs(now)
           nsec3s == HeldNsec3s(now)
<1>1. sent = encloser_proof(z, ce) \cup closer \cup no_data_proof(z, w) /\ sent \subseteq now
  BY WildcardSent DEF Arrived
<1>2. encloser_proof(z, ce) \subseteq now /\ closer \subseteq now /\ no_data_proof(z, w) \subseteq now
  <2> HIDE DEF sent, ce, closer, w
  <2> QED BY <1>1
<1>3. Verdict(now) = Otherwise(now) /\ Held(now, qname, "CNAME") = {} /\ ~below_dname(now, qname)
  <2>1. Denying(sent)
    <3>1. Denying(encloser_proof(z, ce)) /\ Denying(closer) /\ Denying(no_data_proof(z, w))
      BY LeafIs, ProofsDeny
    <3> HIDE DEF sent, ce, closer, w
    <3> QED
      BY <1>1, <3>1 DEF Denying
  <2>2. Held(now, qname, "CNAME") = {}
    BY HeldAtLeaf DEF Lacking
  <2> QED
    BY <2>1, <2>2, NotAnswered, NoRedirection DEF Lacking
<1>4. nsec3s \in SUBSET build_nsec3(z)
  BY HeldIs DEF Arrived
<1>5. /\ w \in DOMAIN z.rrs /\ w \in Hashable /\ Uncut(w) /\ ce = p
      /\ qtype \notin z.rrs[w] /\ "CNAME" \notin z.rrs[w]
  BY LackingIs DEF Lacking
<1>6. /\ z.denial # "NSEC3" => \E o \in ChainOwners(z) : covers_name(NsecAt(z, o), m) /\ NsecAt(z, o) \in nsecs
      /\ z.denial = "NSEC3" => find_covering_nsec3(nsec3s, Hash(z, m))
  BY <1>2, CloserProved
<1> HIDE DEF sent, ce, nsecs, nsec3s, w, m, p, closer
<1>7. w \in ChainOwners(z) /\ w \in nsec3_names(z) /\ chain_types(z, w) = z.rrs[w] /\ has_signed(z, w)
  BY <1>5, LeafIs, UncutOwner
<1>8. prove_no_data(z, nsecs, nsec3s, qname, qtype)
  <2>1. CASE z.denial = "NSEC3"
    <3>1. matching(z, w) \in SUBSET build_nsec3(z) /\ Nsec3At(z, w) \in matching(z, w)
      BY <1>5, <1>7, LeafIs, MatchingIs
    <3>2. nsec3_at(matching(z, w)) \subseteq now
      BY <1>2, <2>1, <3>1 DEF no_data_proof
    <3>3. Nsec3At(z, w) \in nsec3s
      BY <3>1, <3>2, Nsec3Held DEF nsec3s
    <3>4. Nsec3At(z, p) \in nsec3s
      <4>1. Nsec3At(z, p) \in matching(z, p) /\ matching(z, p) \in SUBSET build_nsec3(z)
        BY <2>1, EncloserInChain DEF p
      <4>2. nsec3_at(matching(z, p)) \subseteq now
        BY <1>2, <1>5, <2>1 DEF encloser_proof
      <4> QED
        BY <4>1, <4>2, Nsec3Held DEF nsec3s
    <3>5. d \in closest_encloser_proof_nsec3(z, nsec3s, qname)
      BY <1>4, <1>6, <2>1, <3>4, EncloserProved DEF p, m
    <3>6. Nsec3At(z, w).hash = Hash(z, w) /\ Nsec3At(z, w).types = nsec3_bitmap(z, w)
      BY DEF Nsec3At
    <3>7. nsec3_bitmap(z, w) \subseteq z.rrs[w] \cup {"RRSIG", "NSEC3PARAM"}
      BY <1>5, <1>7 DEF nsec3_bitmap
    <3>8. proves_no_data(Nsec3At(z, w), qtype)
      BY <1>5, <3>6, <3>7, LeafIs DEF proves_no_data
    <3>9. matching_no_data_nsec3(z, nsec3s, w, qtype)
      BY <3>3, <3>6, <3>8 DEF matching_no_data_nsec3
    <3>10. prove_no_data_with_nsec3(z, nsec3s, qname, qtype)
      BY <3>5, <3>9 DEF prove_no_data_with_nsec3, w
    <3> QED
      BY <3>10 DEF prove_no_data
  <2>2. CASE z.denial # "NSEC3"
    <3>1. with_sigs(z, w, "NSEC") \subseteq now
      BY <1>2, <1>7, <2>2 DEF no_data_proof
    <3>2. NsecAt(z, w) \in nsecs
      BY <1>7, <3>1, NsecHeld DEF nsecs
    <3>3. NsecAt(z, w).owner = w /\ NsecAt(z, w).types = z.rrs[w] \cup {"RRSIG", "NSEC"}
      BY <1>7 DEF NsecAt
    <3>4. proves_no_data(NsecAt(z, w), qtype)
      BY <1>5, <3>3, LeafIs DEF proves_no_data
    <3>5. matching_no_data(nsecs, w, qtype)
      BY <3>2, <3>3, <3>4 DEF matching_no_data
    <3>6. PICK o \in ChainOwners(z) : covers_name(NsecAt(z, o), m) /\ NsecAt(z, o) \in nsecs
      BY <1>6, <2>2
    <3>7. m \in DnsName /\ AtOrBelow(m, Apex) /\ ~Exists(m) /\ AtOrBelow(qname, m) /\ ~Exists(qname)
      BY LackingIs DEF m
    <3>8. covers_name(NsecAt(z, o), qname)
      BY <3>6, <3>7, LeafIs, CoversBelow
    <3> DEFINE r == NsecAt(z, o)
               e == closest_encloser_nsec(qname, r)
    <3>9. r.owner = o /\ r.next = NextOwner(z, o)
      BY DEF NsecAt
    <3>10. Gap(o, NextOwner(z, o), qname)
      BY <3>8, LeafIs, CoversGap
    <3>11. covers_name(r, qname) /\ r \in nsecs
      BY <3>6, <3>8
    <3> HIDE DEF r
    <3>12. Gap(r.owner, r.next, qname)
      BY <3>9, <3>10
    <3>13. Encloses(qname, e)
      BY <3>7, <3>12, LeafIs, EncloserOfGap
    <3> HIDE DEF e
    <3>14. e = d
      BY <3>13, LeafIs, EnclosesOnce DEF Lacking
    <3>15. d # NoName
      BY LackingIs, LeafIs DEF NoName
    <3>16. prove_no_data_with_nsec(nsecs, qname, qtype)
      BY <3>5, <3>11, <3>14, <3>15 DEF prove_no_data_with_nsec, e, w
    <3> QED
      BY <3>16 DEF prove_no_data
  <2> QED
    BY <2>1, <2>2
<1> QED
  BY <1>3, <1>8, OtherwiseIs DEF nsecs, nsec3s

LEMMA LeafWildcard ==
    ASSUME AtLeaf, NEW now, Arrived(now), NEW d, Lacking(d), Len(Apex) > 0,
           wildcard_at(qname, d) \in DOMAIN z.rrs
    PROVE  Verdict(now) = Contained
<1> DEFINE w == wildcard_at(qname, d)
<1>1. Contained = Content(z.rrs[w])
  <2>1. Contained = Content(TypesAt(w))
    BY LeafIs, WildcardContained DEF Lacking
  <2> QED
    BY <2>1 DEF TypesAt
<1>2. CASE qtype \in z.rrs[w]
  BY <1>1, <1>2, WildcardAnswers DEF Content
<1>3. CASE qtype \notin z.rrs[w] /\ "CNAME" \in z.rrs[w]
  BY <1>1, <1>3, WildcardAliases DEF Content
<1>4. CASE qtype \notin z.rrs[w] /\ "CNAME" \notin z.rrs[w]
  BY <1>1, <1>4, WildcardDenies DEF Content
<1> QED
  BY <1>2, <1>3, <1>4

\* With opt-out, a name in the chain is above one that is authenticated.
LEMMA ChainAuthenticates ==
    ASSUME z \in Zones, z.opt_out, NEW m \in nsec3_names(z)
    PROVE  ~Unauthenticated(m)
<1>1. PICK o \in HashedOwners(z) : AtOrBelow(o, m)
  <2>1. CASE m \in HashedOwners(z)
    BY <2>1 DEF AtOrBelow
  <2>2. CASE m \notin HashedOwners(z)
    <3>1. PICK o \in HashedOwners(z) : \E e \in Len(Apex) + 1 .. Len(o) - 1 : m = Ancestor(o, e)
      BY <2>2 DEF nsec3_names
    <3>2. PICK e \in Len(Apex) + 1 .. Len(o) - 1 : m = Ancestor(o, e)
      BY <3>1
    <3>3. o \in DnsName /\ Len(o) \in Nat /\ Len(Apex) \in Nat
      BY ChainIs, OwnersAre, LabelIs DEF HashedOwners
    <3>4. e \in 0 .. Len(o)
      BY <3>2, <3>3
    <3>5. AtOrBelow(o, m)
      BY <3>2, <3>3, <3>4, AncestorAbove
    <3> QED
      BY <3>5
  <2> QED
    BY <2>1, <2>2
<1>2. o \in DOMAIN z.rrs /\ ~is_occluded(z, o) /\ has_signed(z, o)
  BY DEF HashedOwners, ChainOwners
<1>3. ASSUME NEW c \in DelegationAbove(o) PROVE "DS" \in z.rrs[c]
  <2>1. is_cut(z, c) /\ AtOrBelow(o, c) /\ c \in DOMAIN z.rrs
    BY ChainIs
  <2>2. c = o
    BY <1>2, <2>1 DEF is_occluded, AtOrBelow
  <2> QED
    BY <1>2, <2>1, <2>2 DEF has_signed
<1> QED
  BY <1>1, <1>2, <1>3 DEF Unauthenticated

LEMMA NotOptedOut ==
    ASSUME z \in Zones, qname \in QNames, Descended(Len(qname))
    PROVE  ~OptedOut
<1> SUFFICES ASSUME OptedOut PROVE FALSE
  OBVIOUS
<1>1. z.denial = "NSEC3" /\ z.opt_out
  BY DEF OptedOut
<1>2. PICK d \in Len(Apex) + 1 .. Len(qname) :
        /\ Unauthenticated(Ancestor(qname, d))
        /\ \A o \in DOMAIN z.rrs : "DNAME" \in z.rrs[o] => ~IsBelow(Ancestor(qname, d), o)
  BY DEF OptedOut
<1>3. d \in Len(Apex) .. Len(qname)
  BY AskedIs
<1>4. DnamesAbove(z, Ancestor(qname, d)) = {}
  BY <1>2 DEF DnamesAbove
<1>5. Ancestor(qname, d) \in nsec3_names(z)
  BY <1>1, <1>3, <1>4 DEF Descended
<1> QED
  BY <1>1, <1>2, <1>5, ChainAuthenticates

\* The names on the way that exist are in the chain, unless there is a DNAME.
LEMMA WayInChain ==
    ASSUME AtLeaf, Descended(Len(qname)), z.denial = "NSEC3", DnamesAbove(z, qname) = {}
    PROVE  InChain(qname)
<1>1. CASE z.opt_out
  <2> SUFFICES ASSUME NEW k \in Len(Apex) .. Len(qname) PROVE Ancestor(qname, k) \in nsec3_names(z)
    BY DEF InChain
  <2>1. k \in 0 .. Len(qname)
    BY LeafIs
  <2>2. Ancestor(qname, k) \in DnsName /\ AtOrBelow(qname, Ancestor(qname, k))
    BY <2>1, LeafIs, AncestorAbove
  <2>3. Ancestor(qname, k) \in nsec3_names(z) \/ DnamesAbove(z, Ancestor(qname, k)) # {}
    BY <1>1 DEF Descended
  <2> QED
    BY <2>2, <2>3, LeafIs, DnamesLower
<1>2. CASE ~z.opt_out
  <2>1. HashedOwners(z) = ChainOwners(z)
    BY <1>2 DEF HashedOwners
  <2> QED
    BY <2>1, LeafIs, WholeChain
<1> QED
  BY <1>1, <1>2

\* What the verifier concludes is what the zone says of the name.
LEMMA LeafMeans ==
    ASSUME AtLeaf, Descended(Len(qname)), NEW now, Arrived(now), Len(Apex) > 0
    PROVE  Verdict(now) = Truth
<1>1. Truth = Contained
  BY LeafIs, NotOptedOut DEF Truth
<1>2. CASE DnamesAbove(z, qname) # {}
  BY <1>1, <1>2, LeafDname
<1>3. CASE DnamesAbove(z, qname) = {}
  <2>1. z.denial = "NSEC3" => InChain(qname)
    BY <1>3, WayInChain
  <2>2. CASE qname \in DOMAIN z.rrs
    BY <1>1, <2>2, LeafOwner
  <2>3. CASE qname \notin DOMAIN z.rrs /\ Exists(qname)
    BY <1>1, <2>1, <2>3, LeafEmpty
  <2>4. CASE ~Exists(qname)
    <3>1. PICK d \in Len(Apex) .. Len(qname) :
            closest_encloser(z, qname) = Ancestor(qname, d) /\ Encloses(qname, d)
      BY <2>4, LeafIs, EncloserIs
    <3>2. Lacking(d)
      BY <1>3, <2>1, <3>1 DEF Lacking
    <3> QED
      BY <1>1, <3>2, LeafWildcard, LeafDenied
  <2>5. qname \in DOMAIN z.rrs => Exists(qname)
    BY DEF Exists, AtOrBelow
  <2> QED
    BY <2>2, <2>3, <2>4
<1> QED
  BY <1>2, <1>3

-----------------------------------------------------------------------------

\* What holds of a lookup in such a zone, the answers arriving whole.
RoundInv ==
    /\ Whole /\ Len(Apex) > 0
    /\ ZoneInv /\ AllReal(held) /\ Sane /\ Askable
    /\ outcome = None => Descended(depth)
    /\ RoundTrip

LEMMA SaneStays ==
    ASSUME z' = z, qname' = qname, qtype' = qtype
    PROVE  Sane' = Sane /\ Askable' = Askable
<1> QED
  BY DEF Sane, Askable, DnamesAbove

LEMMA RealStays ==
    ASSUME z' = z
    PROVE  /\ \A r : Real(r)' = Real(r)
           /\ \A d : (qname' = qname => Descended(d)' = Descended(d))
<1>1. \A n : Exists(n)' = Exists(n) /\ Uncut(n)' = Uncut(n)
  BY DEF Exists, Uncut, DelegationAbove
<1>2. \A n, d : Encloses(n, d)' = Encloses(n, d)
  BY <1>1 DEF Encloses
<1>3. \A w, r : Owned(w, r)' = Owned(w, r)
  BY <1>1 DEF Owned
<1>4. \A r : Real(r)' = Real(r)
  BY <1>1, <1>2, <1>3 DEF Real, DnamesAbove
<1>5. \A d : (qname' = qname => Descended(d)' = Descended(d))
  BY <1>1 DEF Descended, DnamesAbove, nsec3_names, HashedOwners, ChainOwners, has_signed, is_occluded, is_cut
<1> QED
  BY <1>4, <1>5

\* A whole answer leaves only real rrsets behind.
LEMMA ArrivesReal ==
    ASSUME ZoneInv, AllReal(held), NEW n \in DnsName, AtOrBelow(n, Apex), NEW type
    PROVE  AllSound(held \cup answer(z, n, type)) /\ AllReal(held \cup answer(z, n, type))
<1>1. AllSound(answer(z, n, type)) /\ AllReal(answer(z, n, type)) /\ AllSound(held)
  BY AnswerSound, AnswerReal DEF ZoneInv
<1> QED
  BY <1>1, UnionSound, UnionReal

LEMMA RoundInit ==
    ASSUME Whole, Len(Apex) > 0, Init, Sane, Askable
    PROVE  RoundInv
<1>1. qname \in QNames /\ z \in Zones /\ depth = Len(Apex) /\ held = {} /\ outcome = None
  BY DEF Init
<1>2. depth \in Len(Apex) .. Len(qname)
  BY <1>1, AskedIs
<1>3. ZoneInv /\ AllReal(held)
  BY <1>1, <1>2 DEF ZoneInv, TypeOK, AllSound, AllReal
<1>4. Descended(depth)
  <2>1. Apex \in DnsName /\ Apex \in DOMAIN z.rrs /\ Len(Apex) \in Nat
    BY <1>1, OwnersAre
  <2>2. Ancestor(qname, Len(Apex)) = Apex
    <3>1. Len(Apex) \in 0 .. Len(qname) /\ qname \in DnsName /\ AtOrBelow(qname, Apex)
      BY <1>1, AskedIs
    <3> QED
      BY <2>1, <3>1, AncestorAbove
  <2>3. Uncut(Apex)
    <3> SUFFICES ASSUME NEW c \in DelegationAbove(Apex) PROVE FALSE
      BY DEF Uncut
    <3>1. c # Apex /\ c \in DnsName /\ AtOrBelow(c, Apex) /\ AtOrBelow(Apex, c)
      BY <1>1, OwnersAre DEF DelegationAbove
    <3>2. Len(c) \in Nat
      BY <3>1, LabelIs
    <3> QED
      BY <2>1, <3>1, <3>2 DEF AtOrBelow, IsBelow
  <2>4. \A e \in Len(Apex) .. depth : e = Len(Apex)
    BY <1>1, <2>1
  <2>5. Apex \in nsec3_names(z)
    BY <1>1, Nsec3NamesAre
  <2> QED
    BY <1>1, <2>2, <2>3, <2>4, <2>5 DEF Descended
<1> QED
  BY <1>1, <1>3, <1>4 DEF RoundInv, RoundTrip

LEMMA RoundStep ==
    ASSUME RoundInv, [Next]_vars
    PROVE  RoundInv'
<1>1. /\ z \in Zones /\ qname \in QNames /\ Len(Apex) \in Nat /\ Len(qname) \in Nat
      /\ depth \in Len(Apex) .. Len(qname) /\ qname \in DnsName /\ AtOrBelow(qname, Apex)
      /\ ZoneInv /\ AllReal(held) /\ Sane /\ Askable
      /\ Whole /\ Len(Apex) > 0
  BY AskedIs DEF RoundInv, ZoneInv, TypeOK
<1>2. z' = z /\ qname' = qname /\ qtype' = qtype
  BY DEF Next, Descend, Leaf, vars
<1>3. /\ ZoneInv' /\ Sane' /\ Askable' /\ Truth' = Truth
      /\ \A r : Real(r)' = Real(r)
      /\ \A d : Descended(d)' = Descended(d)
  BY <1>1, <1>2, ZoneInvStep, SaneStays, TruthStays, RealStays
<1>4. \A response : Parts(response) = {response}
  BY <1>1 DEF Parts
<1>5. CASE Descend
  <2> DEFINE d == depth + 1
             n == Ancestor(qname, d)
             sent == answer(z, n, "DS")
             now == held \cup sent
  <2>1. depth < Len(qname) /\ outcome = None
    BY <1>5 DEF Descend
  <2>2. d \in Len(Apex) + 1 .. Len(qname) /\ d - 1 = depth /\ d \in 0 .. Len(qname) /\ Len(Apex) <= d
    BY <1>1, <2>1
  <2>3. /\ held' = now
        /\ IF Held(sent, n, "DS") # {} THEN outcome' = "delegated"
           ELSE IF ~below_dname(now, n) /\ prove_no_ds(z, HeldNsecs(now), HeldNsec3s(now), n)
           THEN outcome' = "insecure"
           ELSE depth' = d /\ outcome' = outcome
    BY <1>4, <1>5 DEF Descend, Child
  <2>4. n \in DnsName /\ AtOrBelow(n, Apex)
    <3> HIDE DEF d
    <3> QED BY <1>1, <2>2, AskedIs
  <2>5. AllSound(now) /\ AllReal(now) /\ sent \subseteq now
    <3> HIDE DEF n
    <3> QED BY <1>1, <2>4, ArrivesReal
  <2>6. Descended(d - 1)
    BY <2>1, <2>2 DEF RoundInv
  <2> HIDE DEF now, d
  <2>7. IF Held(sent, n, "DS") # {} THEN Truth = "delegated"
        ELSE IF ~below_dname(now, n) /\ prove_no_ds(z, HeldNsecs(now), HeldNsec3s(now), n)
        THEN Truth = "insecure"
        ELSE Descended(d)
    BY <1>1, <2>2, <2>5, <2>6, DescendMeans
  <2> HIDE DEF sent, n
  <2>8. \/ outcome' = "delegated" /\ Truth = "delegated"
        \/ outcome' = "insecure" /\ Truth = "insecure"
        \/ outcome' = None /\ depth' = d /\ Descended(d)
    BY <2>1, <2>3, <2>7
  <2>9. AllReal(held)'
    BY <1>3, <2>3, <2>5 DEF AllReal
  <2>10. RoundTrip' /\ (outcome' = None => Descended(d) /\ depth' = d)
    BY <1>3, <2>8 DEF RoundTrip, None
  <2>11. (outcome = None => Descended(depth))'
    BY <1>3, <2>10 DEF Descended
  <2> QED
    BY <1>3, <2>9, <2>10, <2>11 DEF RoundInv
<1>6. CASE Leaf
  <2> DEFINE sent == answer(z, qname, qtype)
             now == held \cup sent
  <2>1. depth = Len(qname) /\ outcome = None
    BY <1>6 DEF Leaf
  <2>2. held' = now /\ outcome' = Verdict(now)
    BY <1>4, <1>6 DEF Leaf, Verdict
  <2>3. Descended(Len(qname))
    BY <2>1 DEF RoundInv
  <2>4. AllSound(now) /\ AllReal(now) /\ sent \subseteq now
    BY <1>1, ArrivesReal
  <2>5. AtLeaf
    <3>1. Ancestor(qname, Len(qname)) = qname
      BY <1>1, SelfAncestor
    <3> QED
      BY <1>1, <2>3, <3>1 DEF AtLeaf, Descended
  <2> HIDE DEF now
  <2>6. Verdict(now) = Truth
    BY <1>1, <2>3, <2>4, <2>5, LeafMeans DEF Arrived
  <2>7. outcome' # None
    <3>1. /\ Positive(now) \in {"secure", "bogus"}
          /\ Otherwise(now) \in {"dname", "cname", "secure-nodata", "secure-nxdomain", "indeterminate"}
      BY Zenon DEF Positive, Otherwise
    <3> QED
      BY <2>2, <3>1 DEF Verdict, None
  <2>8. AllReal(held)'
    BY <1>3, <2>2, <2>4 DEF AllReal
  <2>9. RoundTrip'
    BY <1>3, <2>2, <2>6 DEF RoundTrip
  <2> QED
    BY <1>3, <2>7, <2>8, <2>9 DEF RoundInv
<1>7. CASE UNCHANGED vars
  <2>1. held' = held /\ outcome' = outcome /\ depth' = depth
    BY <1>7 DEF vars
  <2>2. AllReal(held)' /\ RoundTrip'
    BY <1>3, <2>1 DEF RoundInv, AllReal, RoundTrip
  <2>3. (outcome = None => Descended(depth))'
    BY <1>2, <1>3, <2>1 DEF RoundInv, Descended
  <2> QED
    BY <1>3, <2>2, <2>3 DEF RoundInv
<1> QED
  BY <1>5, <1>6, <1>7 DEF Next

\* Signer, in-memory authority and verifier agree: when the answers arrive
\* whole, a name asked for in a zone as the RFCs have it, with any contents
\* besides, either kind of chain, with and without opt-out, is concluded to be
\* what the zone says of it.
THEOREM RoundTripProved == Whole /\ Len(Apex) > 0 /\ Sane /\ Askable /\ Spec => []RoundTrip
<1>1. Whole /\ Len(Apex) > 0 /\ Sane /\ Askable /\ Init => RoundInv
  BY RoundInit
<1>2. RoundInv /\ [Next]_vars => RoundInv'
  BY RoundStep
<1>3. RoundInv => RoundTrip
  BY DEF RoundInv
<1> QED
  BY <1>1, <1>2, <1>3, PTL DEF Spec
=============================================================================
