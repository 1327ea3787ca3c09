----------------------------- MODULE WireProofs -----------------------------
(***************************************************************************)
(* Names on the wire, for every message and every offset: the walk along   *)
(* labels and pointers ends, what it reads lies in the message, does not   *)
(* change when more follows, and is the name the octets mean.  Datagrams   *)
(* of any octets: the cursor and the records stay in the message, and a    *)
(* message that was cut is refused.                                        *)
(***************************************************************************)
EXTENDS WireMessages, DataInduction

-----------------------------------------------------------------------------
(* One turn of the walk *)

\* What ends a walk without a name.
Stuck(m, w) ==
    \/ w.pos >= Len(m)
    \/ /\ w.pos < Len(m)
       /\ \/ OctetAt(m, w.pos) \in 64 .. 191
          \/ OctetAt(m, w.pos) \in 1 .. 63 /\ Behind(m, w.pos) > Len(m)
          \/ /\ OctetAt(m, w.pos) >= 192
             /\ \/ w.pos + 1 >= Len(m)
                \/ PointedAt(m, w.pos) >= w.pos
                \/ Looping(w, PointedAt(m, w.pos))

AtRoot(m, w) == w.pos < Len(m) /\ OctetAt(m, w.pos) = 0

AtPointer(m, w) ==
    /\ w.pos < Len(m) /\ PointerAt(m, w.pos) /\ PointedAt(m, w.pos) < w.pos
    /\ ~Looping(w, PointedAt(m, w.pos))

AtLabel(m, w) == w.pos < Len(m) /\ LabelAt(m, w.pos) /\ Behind(m, w.pos) <= Len(m)

\* What b.subarray(i, j) is made of.
Piece(m, w) == Subarray(m, w.pos + 1, Behind(m, w.pos))

LEMMA OctetTyped ==
    ASSUME NEW m \in Seq(Octet), NEW i \in Nat, i < Len(m)
    PROVE  OctetAt(m, i) \in Octet /\ OctetAt(m, i) \in 0 .. 255
<1>1. i + 1 \in 1 .. Len(m)
  OBVIOUS
<1>2. m[i + 1] \in Octet
  BY <1>1, ElementOfSeq
<1> QED
  BY <1>2 DEF OctetAt, Octet

\* The record a walk is.
Fields(w) ==
    w = [pos |-> w.pos, next |-> w.next, labels |-> w.labels, visited |-> w.visited,
         hops |-> w.hops, status |-> w.status, error |-> w.error]

LEMMA WalkTyped ==
    ASSUME NEW w \in Walk
    PROVE  /\ w.pos \in Nat /\ w.next \in Int /\ w.hops \in Nat /\ w.labels \in Seq(Seq(Octet))
           /\ w.visited \in SUBSET Nat /\ w.status \in {"walking", "done", "failed"}
           /\ w.error \in {"", "truncated", "forward", "loop", "reserved"}
           /\ Fields(w)
BY DEF Walk, Fields

\* The three changes a turn makes to a walk that does not fail.
EndAt(w, next) == [w EXCEPT !.status = "done", !.next = next]

LEMMA WalkEnded ==
    \A w \in Walk : \A next \in Int :
        /\ EndAt(w, next) \in Walk
        /\ EndAt(w, next).status = "done"
        /\ EndAt(w, next).next = next
        /\ EndAt(w, next).labels = w.labels
BY DEF Walk, EndAt

JumpTo(w, p, next, visited, hops) ==
    [w EXCEPT !.pos = p, !.next = next, !.visited = visited, !.hops = hops]

LEMMA WalkJumped ==
    \A w \in Walk : \A p, next, visited, hops :
        p \in Nat /\ next \in Int /\ visited \in SUBSET Nat /\ hops \in Nat =>
            JumpTo(w, p, next, visited, hops) \in Walk
BY DEF Walk, JumpTo

ReadTo(w, p, labels) == [w EXCEPT !.pos = p, !.labels = labels]

LEMMA WalkRead ==
    \A w \in Walk : \A p \in Nat : \A labels \in Seq(Seq(Octet)) :
        ReadTo(w, p, labels) \in Walk
BY DEF Walk, ReadTo

LEMMA PointedTyped ==
    ASSUME NEW m \in Seq(Octet), NEW o \in Nat, o < Len(m), PointerAt(m, o)
    PROVE  PointedAt(m, o) \in Nat
<1>1. Len(m) \in Nat
  OBVIOUS
<1>2. OctetAt(m, o) \in 0 .. 255 /\ OctetAt(m, o) >= 192
  BY OctetTyped DEF PointerAt
<1>3. OctetAt(m, o + 1) \in 0 .. 255
  <2>1. o + 1 \in Nat /\ o + 1 < Len(m)
    BY <1>1 DEF PointerAt
  <2> QED
    BY ONLY <2>1, m \in Seq(Octet), OctetTyped
<1>4. \A x, y \in 0 .. 255 : x >= 192 => (x - 192) * 256 + y \in Nat
  OBVIOUS
<1> QED
  BY <1>2, <1>3, <1>4 DEF PointedAt

LEMMA BehindTyped ==
    ASSUME NEW m \in Seq(Octet), NEW o \in Nat, LabelAt(m, o)
    PROVE  Behind(m, o) \in Nat /\ Behind(m, o) >= o + 2
<1> DEFINE b == OctetAt(m, o)
<1>1. b \in 1 .. 63
  BY DEF LabelAt
<1>2. Behind(m, o) = o + 1 + b
  BY DEF Behind
<1> HIDE DEF b
<1> QED
  BY <1>1, <1>2

\* What the ranges of a length octet decide.
LEMMA OctetRanges ==
    \A m, o : OctetAt(m, o) \in 0 .. 255 => \/ OctetAt(m, o) = 0
                                          \/ OctetAt(m, o) \in 1 .. 63
                                          \/ OctetAt(m, o) \in 64 .. 191
                                          \/ OctetAt(m, o) >= 192
<1>1. \A b \in 0 .. 255 : b = 0 \/ b \in 1 .. 63 \/ b \in 64 .. 191 \/ b >= 192
  OBVIOUS
<1> QED
  BY <1>1, SMT

LEMMA Orders ==
    \A x, y \in Nat : (x >= y <=> ~(x < y)) /\ (x > y <=> ~(x <= y))
OBVIOUS

LEMMA OnWire ==
    ASSUME NEW m \in Seq(Octet), NEW w \in Walk
    PROVE  /\ w.pos \in Nat /\ Len(m) \in Nat /\ w.pos + 1 \in Nat
           /\ w.pos >= Len(m) <=> ~(w.pos < Len(m))
           /\ w.pos + 1 >= Len(m) <=> ~(w.pos + 1 < Len(m))
           /\ w.pos < Len(m) => OctetAt(m, w.pos) \in 0 .. 255
           /\ LabelAt(m, w.pos) => /\ Behind(m, w.pos) \in Nat
                                   /\ Behind(m, w.pos) > Len(m) <=> ~(Behind(m, w.pos) <= Len(m))
           /\ w.pos < Len(m) /\ PointerAt(m, w.pos) =>
                /\ PointedAt(m, w.pos) \in Nat
                /\ PointedAt(m, w.pos) >= w.pos <=> ~(PointedAt(m, w.pos) < w.pos)
<1>1. w.pos \in Nat /\ Len(m) \in Nat
  BY WalkTyped, LenProperties
<1>2. w.pos + 1 \in Nat
  BY <1>1
<1>3. w.pos < Len(m) => OctetAt(m, w.pos) \in 0 .. 255
  BY <1>1, OctetTyped
<1>4. LabelAt(m, w.pos) => Behind(m, w.pos) \in Nat
  BY <1>1, BehindTyped
<1>5. w.pos < Len(m) /\ PointerAt(m, w.pos) => PointedAt(m, w.pos) \in Nat
  BY <1>1, PointedTyped
<1> QED
  BY ONLY <1>1, <1>2, <1>3, <1>4, <1>5, Orders, Zenon

\* Every walk is somewhere.
LEMMA TurnKinds ==
    ASSUME NEW m \in Seq(Octet), NEW w \in Walk
    PROVE  Stuck(m, w) \/ AtRoot(m, w) \/ AtPointer(m, w) \/ AtLabel(m, w)
<1>1. w.pos < Len(m) => \/ OctetAt(m, w.pos) = 0
                        \/ LabelAt(m, w.pos)
                        \/ OctetAt(m, w.pos) \in 64 .. 191
                        \/ OctetAt(m, w.pos) >= 192
  <2>1. w.pos < Len(m) => OctetAt(m, w.pos) \in 0 .. 255
    BY OnWire, Zenon
  <2>2. OctetAt(m, w.pos) \in 0 .. 255 => \/ OctetAt(m, w.pos) = 0
                                         \/ OctetAt(m, w.pos) \in 1 .. 63
                                         \/ OctetAt(m, w.pos) \in 64 .. 191
                                         \/ OctetAt(m, w.pos) >= 192
    BY ONLY OctetRanges, SMT
  <2> QED
    BY <2>1, <2>2, Zenon DEF LabelAt
<1>2. LabelAt(m, w.pos) => /\ OctetAt(m, w.pos) \in 1 .. 63
                           /\ Behind(m, w.pos) > Len(m) \/ Behind(m, w.pos) <= Len(m)
  BY OnWire, Zenon DEF LabelAt
<1>3. w.pos < Len(m) /\ OctetAt(m, w.pos) >= 192 =>
        \/ w.pos + 1 >= Len(m)
        \/ /\ PointerAt(m, w.pos)
           /\ PointedAt(m, w.pos) >= w.pos \/ PointedAt(m, w.pos) < w.pos
  <2>1. SUFFICES ASSUME w.pos < Len(m), OctetAt(m, w.pos) >= 192, w.pos + 1 < Len(m)
                 PROVE  /\ PointerAt(m, w.pos)
                        /\ PointedAt(m, w.pos) >= w.pos \/ PointedAt(m, w.pos) < w.pos
    BY OnWire, Zenon
  <2>2. PointerAt(m, w.pos)
    BY <2>1, Zenon DEF PointerAt
  <2> QED
    BY <2>1, <2>2, OnWire, Zenon
<1>4. w.pos >= Len(m) \/ w.pos < Len(m)
  BY OnWire, Zenon
<1> QED
  BY <1>1, <1>2, <1>3, <1>4, Zenon DEF Stuck, AtRoot, AtPointer, AtLabel

LEMMA TurnFails ==
    ASSUME NEW m \in Seq(Octet), NEW w \in Walk, Stuck(m, w)
    PROVE  /\ Turn(m, w) \in Walk /\ Turn(m, w).status = "failed"
           /\ Turn(m, w).next = w.next
<1>1. \A e \in {"truncated", "forward", "loop", "reserved"} :
        /\ [w EXCEPT !.status = "failed", !.error = e] \in Walk
        /\ [w EXCEPT !.status = "failed", !.error = e].next = w.next
        /\ [w EXCEPT !.status = "failed", !.error = e].status = "failed"
  BY DEF Walk
<1>2. \/ Turn(m, w) = [w EXCEPT !.status = "failed", !.error = "truncated"]
      \/ Turn(m, w) = [w EXCEPT !.status = "failed", !.error = "forward"]
      \/ Turn(m, w) = [w EXCEPT !.status = "failed", !.error = "loop"]
      \/ Turn(m, w) = [w EXCEPT !.status = "failed", !.error = "reserved"]
  <2>1. CASE w.pos >= Len(m)
    BY <2>1, Zenon DEF Turn
  <2>2. CASE w.pos < Len(m) /\ OctetAt(m, w.pos) \in 64 .. 191
    <3>1. ~(w.pos >= Len(m))
      BY <2>2, OnWire, Zenon
    <3>2. /\ OctetAt(m, w.pos) # 0 /\ ~(OctetAt(m, w.pos) >= 192)
          /\ OctetAt(m, w.pos) >= 64
      <4> DEFINE b == OctetAt(m, w.pos)
      <4>1. b \in 64 .. 191
        BY <2>2
      <4> HIDE DEF b
      <4>2. b # 0 /\ ~(b >= 192) /\ b >= 64
        BY ONLY <4>1
      <4> QED
        BY ONLY <4>2, Zenon DEF b
    <3> QED
      BY ONLY <3>1, <3>2, Zenon DEF Turn
  <2>3. CASE w.pos < Len(m) /\ OctetAt(m, w.pos) \in 1 .. 63 /\ Behind(m, w.pos) > Len(m)
    <3>1. ~(w.pos >= Len(m))
      BY <2>3, OnWire, Zenon
    <3>2. /\ OctetAt(m, w.pos) # 0 /\ ~(OctetAt(m, w.pos) >= 192)
          /\ ~(OctetAt(m, w.pos) >= 64)
      <4> DEFINE b == OctetAt(m, w.pos)
      <4>1. b \in 1 .. 63
        BY <2>3
      <4> HIDE DEF b
      <4>2. b # 0 /\ ~(b >= 192) /\ ~(b >= 64)
        BY ONLY <4>1
      <4> QED
        BY ONLY <4>2, Zenon DEF b
    <3> QED
      BY ONLY <2>3, <3>1, <3>2, Zenon DEF Turn, Behind
  <2>4. CASE /\ w.pos < Len(m) /\ OctetAt(m, w.pos) >= 192
             /\ \/ w.pos + 1 >= Len(m)
                \/ PointedAt(m, w.pos) >= w.pos
                \/ Looping(w, PointedAt(m, w.pos))
    <3>1. ~(w.pos >= Len(m)) /\ OctetAt(m, w.pos) # 0
      <4>1. w.pos < Len(m) /\ OctetAt(m, w.pos) >= 192
        BY <2>4, Zenon
      <4>2. ~(w.pos >= Len(m))
        BY <4>1, OnWire, Zenon
      <4> QED
        BY ONLY <4>1, <4>2
    <3> QED
      BY <2>4, <3>1, Zenon DEF Turn, PointedAt
  <2> QED
    BY <2>1, <2>2, <2>3, <2>4, Zenon DEF Stuck
<1> QED
  BY <1>1, <1>2, Zenon

\* The root label ends it.
LEMMA TurnEnds ==
    ASSUME NEW m \in Seq(Octet), NEW w \in Walk, AtRoot(m, w)
    PROVE  /\ Turn(m, w) \in Walk /\ Turn(m, w).status = "done"
           /\ Turn(m, w).labels = w.labels
           /\ Turn(m, w).next = IF w.next < 0 THEN w.pos + 1 ELSE w.next
           /\ Turn(m, w) = EndAt(w, IF w.next < 0 THEN w.pos + 1 ELSE w.next)
<1> DEFINE t == [w EXCEPT !.status = "done", !.next = IF @ < 0 THEN w.pos + 1 ELSE @]
<1>1. ~(w.pos >= Len(m)) /\ OctetAt(m, w.pos) = 0
  BY OnWire, Zenon DEF AtRoot
<1>2. Turn(m, w) = t
  BY <1>1, Zenon DEF Turn
<1> DEFINE next == IF w.next < 0 THEN w.pos + 1 ELSE w.next
<1>3. next \in Int
  <2>1. w.pos \in Nat /\ w.next \in Int
    BY WalkTyped, Zenon
  <2> QED
    BY ONLY <2>1
<1>4. t = EndAt(w, next)
  BY DEF EndAt
<1> HIDE DEF t, next
<1>5. t \in Walk /\ t.status = "done" /\ t.next = next /\ t.labels = w.labels
  BY ONLY w \in Walk, <1>3, <1>4, WalkEnded, Zenon
<1> QED
  BY ONLY <1>2, <1>4, <1>5, Zenon DEF next

\* A pointer is followed backwards, to where the walk has not been.
LEMMA TurnJumps ==
    ASSUME NEW m \in Seq(Octet), NEW w \in Walk, AtPointer(m, w)
    PROVE  /\ Turn(m, w) \in Walk /\ Turn(m, w).status = w.status
           /\ Turn(m, w).pos = PointedAt(m, w.pos)
           /\ Turn(m, w).next = IF w.next < 0 THEN w.pos + 2 ELSE w.next
           /\ Turn(m, w).labels = w.labels
           /\ Turn(m, w).visited = w.visited \cup {PointedAt(m, w.pos)}
           /\ Turn(m, w).hops = w.hops + 1
           /\ Turn(m, w) = JumpTo(w, PointedAt(m, w.pos), IF w.next < 0 THEN w.pos + 2 ELSE w.next,
                                  w.visited \cup {PointedAt(m, w.pos)}, w.hops + 1)
<1> DEFINE ptr == PointedAt(m, w.pos)
           t == [w EXCEPT !.pos = ptr, !.next = IF @ < 0 THEN w.pos + 2 ELSE @,
                          !.visited = @ \cup {ptr}, !.hops = @ + 1]
<1>1. /\ ~(w.pos >= Len(m)) /\ OctetAt(m, w.pos) # 0 /\ OctetAt(m, w.pos) >= 192
      /\ ~(w.pos + 1 >= Len(m)) /\ ~(PointedAt(m, w.pos) >= w.pos)
      /\ ~Looping(w, PointedAt(m, w.pos))
  <2>1. w.pos < Len(m) /\ OctetAt(m, w.pos) >= 192 /\ PointerAt(m, w.pos) /\ w.pos + 1 < Len(m)
    BY Zenon DEF AtPointer, PointerAt
  <2>2. OctetAt(m, w.pos) # 0
    BY ONLY <2>1
  <2> QED
    BY <2>1, <2>2, OnWire, Zenon DEF AtPointer
<1>2. Turn(m, w) = t
  BY <1>1, Zenon DEF Turn, PointedAt, Jumped
<1>3. ptr \in Nat
  BY OnWire, Zenon DEF AtPointer
<1> HIDE DEF ptr
<1> DEFINE next == IF w.next < 0 THEN w.pos + 2 ELSE w.next
           visited == w.visited \cup {ptr}
           hops == w.hops + 1
<1>4. next \in Int /\ visited \in SUBSET Nat /\ hops \in Nat
  <2>1. w.pos \in Nat /\ w.next \in Int /\ w.visited \in SUBSET Nat /\ w.hops \in Nat
    BY WalkTyped, Zenon
  <2> QED
    BY ONLY <1>3, <2>1
<1>5. t = JumpTo(w, ptr, next, visited, hops)
  BY DEF JumpTo
<1> HIDE DEF t, next, visited, hops
<1>6. /\ t \in Walk /\ t.status = w.status /\ t.pos = ptr /\ t.next = next
      /\ t.labels = w.labels /\ t.visited = visited /\ t.hops = hops
  <2>1. w \in Walk /\ Fields(w)
    BY WalkTyped, Zenon
  <2> DEFINE u == JumpTo(w, ptr, next, visited, hops)
  <2>2. u \in Walk
    BY ONLY <2>1, <1>3, <1>4, WalkJumped, Zenon
  <2>3. /\ u.status = w.status /\ u.pos = ptr /\ u.next = next
        /\ u.labels = w.labels /\ u.visited = visited /\ u.hops = hops
    BY ONLY <2>1 DEF Fields, JumpTo
  <2>4. t = u
    BY <1>5
  <2> HIDE DEF u
  <2> QED
    BY ONLY <2>2, <2>3, <2>4
<1> QED
  BY ONLY <1>2, <1>5, <1>6, Zenon DEF ptr, next, visited, hops

\* A label is read whole.
LEMMA PieceTyped ==
    ASSUME NEW m \in Seq(Octet), NEW w \in Walk, AtLabel(m, w)
    PROVE  /\ Piece(m, w) = SubSeq(m, w.pos + 2, Behind(m, w.pos))
           /\ Piece(m, w) \in Seq(Octet)
           /\ Len(Piece(m, w)) = OctetAt(m, w.pos)
<1> DEFINE p == w.pos
           b == OctetAt(m, p)
           e == Behind(m, p)
           n == Len(m)
<1>1. /\ p \in Nat /\ n \in Nat /\ b \in 1 .. 63 /\ e = p + 1 + b /\ e <= n /\ e \in Nat
      /\ p + 1 \in Nat
  BY OnWire, Zenon DEF AtLabel, LabelAt, Behind
<1>2. Piece(m, w) = SubSeq(m, p + 1 + 1, IF e > n THEN n ELSE e)
  BY Zenon DEF Piece, Subarray
<1> HIDE DEF p, b, e, n
<1>3. p + 1 + 1 = p + 2 /\ ~(e > n)
  BY <1>1
<1>4. Piece(m, w) = SubSeq(m, p + 2, e)
  BY <1>2, <1>3, Zenon
<1>5. p + 2 \in 1 .. n /\ e \in 1 .. n /\ e >= p + 2 /\ e - (p + 2) + 1 = b
  BY <1>1
<1>6. SubSeq(m, p + 2, e) \in Seq(Octet) /\ Len(SubSeq(m, p + 2, e)) = e - (p + 2) + 1
  BY <1>5, SubSeqProperties DEF n
<1> QED
  BY <1>4, <1>5, <1>6, Zenon DEF p, b, e

LEMMA TurnReads ==
    ASSUME NEW m \in Seq(Octet), NEW w \in Walk, AtLabel(m, w)
    PROVE  /\ Turn(m, w) \in Walk /\ Turn(m, w).status = w.status
           /\ Turn(m, w).pos = Behind(m, w.pos)
           /\ Turn(m, w).next = w.next
           /\ Turn(m, w).labels = Append(w.labels, Piece(m, w))
           /\ Turn(m, w).visited = w.visited
           /\ Turn(m, w).hops = w.hops
           /\ Turn(m, w) = ReadTo(w, Behind(m, w.pos), Append(w.labels, Piece(m, w)))
<1> DEFINE e == Behind(m, w.pos)
           piece == Piece(m, w)
           t == [w EXCEPT !.pos = e, !.labels = Append(@, piece)]
<1>1. /\ ~(w.pos >= Len(m)) /\ OctetAt(m, w.pos) # 0 /\ ~(OctetAt(m, w.pos) >= 192)
      /\ ~(OctetAt(m, w.pos) >= 64) /\ ~(Behind(m, w.pos) > Len(m))
  <2>1. w.pos < Len(m) /\ OctetAt(m, w.pos) \in 1 .. 63 /\ LabelAt(m, w.pos)
    BY Zenon DEF AtLabel, LabelAt
  <2>2. /\ OctetAt(m, w.pos) # 0 /\ ~(OctetAt(m, w.pos) >= 192)
        /\ ~(OctetAt(m, w.pos) >= 64)
    <3> DEFINE b == OctetAt(m, w.pos)
    <3>1. b \in 1 .. 63
      BY <2>1
    <3> HIDE DEF b
    <3>2. b # 0 /\ ~(b >= 192) /\ ~(b >= 64)
      BY ONLY <3>1
    <3> QED
      BY ONLY <3>2, Zenon DEF b
  <2> QED
    BY <2>1, <2>2, OnWire, Zenon DEF AtLabel
<1>2. Turn(m, w) = t
  BY <1>1, Zenon DEF Turn, Behind, Piece
<1>3. e \in Nat /\ piece \in Seq(Octet)
  BY OnWire, PieceTyped, Zenon DEF AtLabel
<1> HIDE DEF e, piece
<1> DEFINE labels == Append(w.labels, piece)
<1>4. labels \in Seq(Seq(Octet))
  <2>1. w.labels \in Seq(Seq(Octet))
    BY WalkTyped, Zenon
  <2> QED
    BY ONLY <1>3, <2>1
<1>5. t = ReadTo(w, e, labels)
  BY DEF ReadTo
<1> HIDE DEF t, labels
<1>6. /\ t \in Walk /\ t.status = w.status /\ t.pos = e /\ t.next = w.next
      /\ t.labels = labels /\ t.visited = w.visited /\ t.hops = w.hops
  <2>1. w \in Walk /\ Fields(w)
    BY WalkTyped, Zenon
  <2> DEFINE u == ReadTo(w, e, labels)
  <2>2. u \in Walk
    BY ONLY <2>1, <1>3, <1>4, WalkRead, Zenon
  <2>3. /\ u.status = w.status /\ u.pos = e /\ u.next = w.next
        /\ u.labels = labels /\ u.visited = w.visited /\ u.hops = w.hops
    BY ONLY <2>1 DEF Fields, ReadTo
  <2>4. t = u
    BY <1>5
  <2> HIDE DEF u
  <2> QED
    BY ONLY <2>2, <2>3, <2>4
<1> QED
  BY ONLY <1>2, <1>5, <1>6, Zenon DEF e, piece, labels

LEMMA TurnTyped ==
    ASSUME NEW m \in Seq(Octet), NEW w \in Walk
    PROVE  Turn(m, w) \in Walk
BY TurnKinds, TurnFails, TurnEnds, TurnJumps, TurnReads, Zenon

-----------------------------------------------------------------------------
(* The walk to its end *)

Live == {w \in Walk : w.status = "walking"}

Turns(m) == [w \in Live |-> Turn(m, w)]

\* A pointer takes a hop, of which there are MaxHops, and a label takes octets.
HopsLeft(w) == IF w.hops < MaxHops THEN MaxHops - w.hops ELSE 0

Room(m, w) == IF w.pos < Len(m) THEN Len(m) - w.pos ELSE 0

Rank(m, w) == HopsLeft(w) * (Len(m) + 1) + Room(m, w)

LEMMA RankLower ==
    \A n, h, x, y \in Nat : x <= n /\ y <= n /\ h > 0 =>
        (h - 1) * (n + 1) + x < h * (n + 1) + y
<1> SUFFICES ASSUME NEW n \in Nat, NEW h \in Nat, NEW x \in Nat, NEW y \in Nat, x <= n, h > 0
             PROVE  (h - 1) * (n + 1) + x < h * (n + 1) + y
  OBVIOUS
<1>1. h * (n + 1) = (h - 1) * (n + 1) + (n + 1)
  OBVIOUS
<1>2. (h - 1) * (n + 1) \in Int /\ h * (n + 1) \in Int
  OBVIOUS
<1> QED
  BY <1>1, <1>2

LEMMA WalkDescends ==
    ASSUME NEW m \in Seq(Octet)
    PROVE  Descends(Walk, Live, Turns(m), [w \in Walk |-> Rank(m, w)])
<1> DEFINE n == Len(m)
<1>1. n \in Nat /\ MaxHops \in Nat
  BY LimitAssumption
<1>2. ASSUME NEW w \in Walk
      PROVE  /\ HopsLeft(w) \in Nat /\ Room(m, w) \in Nat /\ Room(m, w) <= n
             /\ Rank(m, w) = HopsLeft(w) * (n + 1) + Room(m, w) /\ Rank(m, w) \in Nat
  <2>1. w.hops \in Nat /\ w.pos \in Nat
    BY WalkTyped, Zenon
  <2>2. HopsLeft(w) \in Nat
    BY ONLY <1>1, <2>1 DEF HopsLeft
  <2>3. Room(m, w) \in Nat /\ Room(m, w) <= n
    BY ONLY <1>1, <2>1 DEF Room
  <2>4. Rank(m, w) = HopsLeft(w) * (n + 1) + Room(m, w)
    BY Zenon DEF Rank
  <2> HIDE DEF n
  <2>5. \A h, x \in Nat : h * (n + 1) + x \in Nat
    BY ONLY <1>1
  <2> QED
    BY <2>2, <2>3, <2>4, <2>5, Zenon
<1>3. ASSUME NEW w \in Live, Turn(m, w) \in Live
      PROVE  Rank(m, Turn(m, w)) < Rank(m, w)
  <2> DEFINE t == Turn(m, w)
  <2>1. w \in Walk /\ t \in Walk /\ t.status = "walking"
    BY <1>3 DEF Live
  <2>2. AtPointer(m, w) \/ AtLabel(m, w)
    <3>1. ~Stuck(m, w)
      BY <2>1, TurnFails
    <3>2. ~AtRoot(m, w)
      BY <2>1, TurnEnds
    <3> QED
      BY <2>1, <3>1, <3>2, TurnKinds, Zenon
  <2>3. /\ HopsLeft(w) \in Nat /\ Room(m, w) \in Nat /\ Room(m, w) <= n
        /\ Rank(m, w) = HopsLeft(w) * (n + 1) + Room(m, w)
        /\ HopsLeft(t) \in Nat /\ Room(m, t) \in Nat /\ Room(m, t) <= n
        /\ Rank(m, t) = HopsLeft(t) * (n + 1) + Room(m, t)
    <3> HIDE DEF t
    <3> QED BY <1>2, <2>1, Zenon
  <2>4. CASE AtPointer(m, w)
    <3>1. t.hops = w.hops + 1
      BY <2>1, <2>4, TurnJumps, Zenon
    <3>2. ~(w.hops >= MaxHops)
      BY <2>4, Zenon DEF AtPointer, Looping
    <3>3. w.hops \in Nat
      BY <2>1, WalkTyped, Zenon
    <3> HIDE DEF t, n
    <3>4. HopsLeft(w) > 0 /\ HopsLeft(t) = HopsLeft(w) - 1
      BY ONLY <1>1, <3>1, <3>2, <3>3 DEF HopsLeft
    <3> QED
      BY ONLY <1>1, <2>3, <3>4, RankLower DEF t
  <2>5. CASE AtLabel(m, w)
    <3>1. t.hops = w.hops /\ t.pos = Behind(m, w.pos)
      BY <2>1, <2>5, TurnReads, Zenon
    <3>2. /\ w.pos \in Nat /\ w.pos < n /\ t.pos \in Nat /\ t.pos >= w.pos + 2
      BY <2>1, <2>5, <3>1, OnWire, BehindTyped, Zenon DEF AtLabel
    <3> HIDE DEF t
    <3>3. Room(m, t) < Room(m, w)
      BY ONLY <1>1, <3>2 DEF Room
    <3>4. HopsLeft(t) = HopsLeft(w)
      BY <3>1, Zenon DEF HopsLeft
    <3> HIDE DEF n
    <3>5. \A h, x, y \in Nat : x < y => h * (n + 1) + x < h * (n + 1) + y
      BY ONLY <1>1
    <3> QED
      BY ONLY <2>3, <3>3, <3>4, <3>5, Zenon DEF t
  <2> QED
    BY <2>2, <2>4, <2>5
<1>4. \A w \in Live : Turns(m)[w] = Turn(m, w) /\ Turn(m, w) \in Walk
  BY TurnTyped DEF Turns, Live
<1>5. [w \in Walk |-> Rank(m, w)] \in [Walk -> Nat]
  BY <1>2
<1>6. Live \subseteq Walk
  BY DEF Live
<1> QED
  BY <1>3, <1>4, <1>5, <1>6 DEF Descends

\* Where the walk ends.
EndOf(m, w) ==
    LET walk[v \in Walk] == IF v.status = "walking" THEN walk[Turn(m, v)] ELSE v
    IN walk[w]

LEMMA EndOfAt ==
    ASSUME NEW m \in Seq(Octet), NEW w \in Walk
    PROVE  EndOf(m, w) = IF w.status = "walking" THEN EndOf(m, Turn(m, w)) ELSE w
<1> DEFINE f == CHOOSE f : f = [v \in Walk |-> IF v.status = "walking" THEN f[Turn(m, v)] ELSE v]
<1>1. \A v : EndOf(m, v) = f[v]
  BY DEF EndOf
<1>2. PICK g : Recurses(g, Walk, Live, Turns(m))
  BY WalkDescends, RecursionExists, Zenon
<1>3. [v \in Walk |-> IF v \in Live THEN g[Turns(m)[v]] ELSE v]
      = [v \in Walk |-> IF v.status = "walking" THEN g[Turn(m, v)] ELSE v]
  BY DEF Live, Turns
<1>4. g = [v \in Walk |-> IF v.status = "walking" THEN g[Turn(m, v)] ELSE v]
  BY <1>2, <1>3 DEF Recurses
<1>5. f = [v \in Walk |-> IF v.status = "walking" THEN f[Turn(m, v)] ELSE v]
  BY <1>4
<1> HIDE DEF f
<1>6. f[w] = IF w.status = "walking" THEN f[Turn(m, w)] ELSE w
  BY <1>5
<1> QED
  BY <1>1, <1>6

Start(offset) == [pos |-> offset, next |-> -1, labels |-> <<>>, visited |-> {}, hops |-> 0,
                  status |-> "walking", error |-> ""]

LEMMA StartTyped ==
    ASSUME NEW offset \in Nat
    PROVE  Start(offset) \in Walk
BY DEF Start, Walk

\* What is parsed is what the walk from there ends with.
LEMMA ParseIs ==
    ASSUME NEW m, NEW o
    PROVE  parse_domain_name(m, o) =
             IF o >= Len(m) THEN Failed("truncated")
             ELSE IF EndOf(m, Start(o)).status = "done"
                  THEN [ok |-> TRUE, name |-> assemble_name(EndOf(m, Start(o)).labels),
                        next |-> EndOf(m, Start(o)).next]
             ELSE Failed(EndOf(m, Start(o)).error)
BY Zenon DEF parse_domain_name, EndOf, Start

\* What holds of a walk if it holds after the next turn holds of every walk.
LEMMA WalkInduction ==
    ASSUME NEW m \in Seq(Octet), NEW U,
           \A w \in Walk : (w.status = "walking" => Turn(m, w) \in U) => w \in U
    PROVE  Walk \subseteq U
<1>1. \A w \in Walk : (w \in Live => Turns(m)[w] \in U) => w \in U
  BY DEF Live, Turns
<1> DEFINE rank == [w \in Walk |-> Rank(m, w)]
           step == Turns(m)
<1>2. Descends(Walk, Live, step, rank)
  BY WalkDescends
<1> HIDE DEF rank, step
<1> QED
  BY ONLY <1>1, <1>2, RankInduction DEF step

\* What every turn keeps holds at the end.
LEMMA WalkKeeps ==
    ASSUME NEW m \in Seq(Octet), NEW U, U \subseteq Walk,
           \A w \in U : w.status = "walking" => Turn(m, w) \in U
    PROVE  \A w \in U : EndOf(m, w) \in U /\ EndOf(m, w).status # "walking"
<1> DEFINE V == {w \in Walk : w \in U => EndOf(m, w) \in U /\ EndOf(m, w).status # "walking"}
<1>1. \A w \in Walk : (w.status = "walking" => Turn(m, w) \in V) => w \in V
  <2> SUFFICES ASSUME NEW w \in Walk, w.status = "walking" => Turn(m, w) \in V, w \in U
               PROVE  EndOf(m, w) \in U /\ EndOf(m, w).status # "walking"
    OBVIOUS
  <2>1. EndOf(m, w) = IF w.status = "walking" THEN EndOf(m, Turn(m, w)) ELSE w
    BY EndOfAt
  <2> QED
    BY <2>1
<1>2. Walk \subseteq V
  <2> HIDE DEF V
  <2> QED BY <1>1, WalkInduction, Zenon
<1> QED
  BY <1>2

-----------------------------------------------------------------------------
(* What is parsed lies in the message *)

\* A walk that has not jumped is at or behind o, and where it says the name
\* ends is behind o and in the message.
InReach(m, o, w) ==
    /\ w.status = "walking" /\ w.next < 0 => o <= w.pos
    /\ w.next >= 0 => o < w.next /\ w.next <= Len(m)
    /\ w.status = "done" => w.next >= 0

LEMMA ParseInReach ==
    ASSUME NEW m \in Seq(Octet), NEW o \in Nat
    PROVE  /\ parse_domain_name(m, o).ok \in BOOLEAN
           /\ parse_domain_name(m, o).ok =>
                /\ parse_domain_name(m, o).next \in Nat
                /\ o < parse_domain_name(m, o).next
                /\ parse_domain_name(m, o).next <= Len(m)
<1> DEFINE U == {w \in Walk : InReach(m, o, w)}
           e == EndOf(m, Start(o))
<1>1. ASSUME NEW w \in U, w.status = "walking"
      PROVE  Turn(m, w) \in U
  <2>0. w \in Walk /\ InReach(m, o, w)
    OBVIOUS
  <2>1. w.pos \in Nat /\ w.next \in Int /\ Len(m) \in Nat
    BY <2>0, WalkTyped, OnWire, Zenon
  <2> SUFFICES Turn(m, w) \in Walk /\ InReach(m, o, Turn(m, w))
    OBVIOUS
  <2> HIDE DEF U
  <2>2. CASE Stuck(m, w)
    <3>1. Turn(m, w) \in Walk /\ Turn(m, w).status = "failed" /\ Turn(m, w).next = w.next
      BY <2>0, <2>2, TurnFails, Zenon
    <3> QED
      BY ONLY <1>1, <2>0, <3>1 DEF InReach
  <2>3. CASE AtRoot(m, w)
    <3>1. w.pos < Len(m)
      BY <2>3 DEF AtRoot
    <3>2. /\ Turn(m, w) \in Walk /\ Turn(m, w).status = "done"
          /\ Turn(m, w).next = IF w.next < 0 THEN w.pos + 1 ELSE w.next
      BY <2>0, <2>3, TurnEnds, Zenon
    <3> QED
      BY ONLY <1>1, <2>0, <2>1, <3>1, <3>2, o \in Nat DEF InReach
  <2>4. CASE AtPointer(m, w)
    <3>1. w.pos + 1 < Len(m)
      BY <2>4 DEF AtPointer, PointerAt
    <3>2. /\ Turn(m, w) \in Walk /\ Turn(m, w).status = w.status
          /\ Turn(m, w).next = IF w.next < 0 THEN w.pos + 2 ELSE w.next
      BY <2>0, <2>4, TurnJumps, Zenon
    <3> QED
      BY ONLY <1>1, <2>0, <2>1, <3>1, <3>2, o \in Nat DEF InReach
  <2>5. CASE AtLabel(m, w)
    <3>1. /\ Turn(m, w) \in Walk /\ Turn(m, w).status = w.status
          /\ Turn(m, w).next = w.next /\ Turn(m, w).pos = Behind(m, w.pos)
      BY <2>0, <2>5, TurnReads, Zenon
    <3>2. Behind(m, w.pos) \in Nat /\ Behind(m, w.pos) >= w.pos + 2
      BY <2>1, <2>5, BehindTyped, Zenon DEF AtLabel
    <3> QED
      BY ONLY <1>1, <2>0, <2>1, <3>1, <3>2, o \in Nat DEF InReach
  <2> QED
    BY <2>0, <2>2, <2>3, <2>4, <2>5, TurnKinds, Zenon
<1>2. Start(o) \in U
  <2>1. InReach(m, o, Start(o))
    BY DEF InReach, Start
  <2> QED
    BY <2>1, StartTyped
<1>3. e \in Walk /\ InReach(m, o, e)
  <2>1. U \subseteq Walk
    OBVIOUS
  <2> HIDE DEF U
  <2>2. e \in U
    BY <1>1, <1>2, <2>1, WalkKeeps
  <2> QED
    BY <2>2 DEF U
<1>4. e.next \in Int /\ Len(m) \in Nat
  BY <1>3, WalkTyped, LenProperties, Zenon
<1>5. e.status = "done" => e.next \in Nat /\ o < e.next /\ e.next <= Len(m)
  BY ONLY <1>3, <1>4, o \in Nat DEF InReach
<1> HIDE DEF e
<1>6. parse_domain_name(m, o) = IF o >= Len(m) THEN Failed("truncated")
                                ELSE IF e.status = "done"
                                     THEN [ok |-> TRUE, name |-> assemble_name(e.labels), next |-> e.next]
                                ELSE Failed(e.error)
  BY ParseIs, Zenon DEF e
<1>7. CASE o < Len(m) /\ e.status = "done"
  <2>1. parse_domain_name(m, o) = [ok |-> TRUE, name |-> assemble_name(e.labels), next |-> e.next]
    BY <1>4, <1>6, <1>7
  <2> QED
    BY <1>5, <1>7, <2>1
<1>8. CASE ~(o < Len(m) /\ e.status = "done")
  <2>1. ~parse_domain_name(m, o).ok /\ parse_domain_name(m, o).ok \in BOOLEAN
    BY <1>4, <1>6, <1>8 DEF Failed
  <2> QED
    BY <2>1
<1> QED
  BY <1>7, <1>8

-----------------------------------------------------------------------------
(* A message and a prefix of it *)

Prefix(m, whole) == Len(m) <= Len(whole) /\ m = SubSeq(whole, 1, Len(m))

LEMMA PrefixOctet ==
    ASSUME NEW m \in Seq(Octet), NEW whole \in Seq(Octet), Prefix(m, whole), NEW i \in Nat, i < Len(m)
    PROVE  i < Len(whole) /\ OctetAt(whole, i) = OctetAt(m, i)
<1> DEFINE n == Len(m)
           k == Len(whole)
<1>1. n \in Nat /\ k \in Nat /\ n <= k
  BY DEF Prefix
<1>2. \A j \in 1 .. n : SubSeq(whole, 1, n)[j] = whole[1 + j - 1]
  BY <1>1, SubSeqProperties
<1>3. m = SubSeq(whole, 1, n)
  BY DEF Prefix
<1> HIDE DEF n
<1>4. i + 1 \in 1 .. n /\ 1 + (i + 1) - 1 = i + 1
  BY <1>1 DEF n
<1>5. m[i + 1] = whole[i + 1]
  BY <1>2, <1>3, <1>4
<1>6. i < k
  BY <1>1 DEF n
<1> QED
  BY <1>5, <1>6 DEF OctetAt

LEMMA SubSeqAt ==
    ASSUME NEW s \in Seq(Octet), NEW a \in Nat, NEW b \in Nat, 1 <= a, a <= b, b <= Len(s)
    PROVE  /\ SubSeq(s, a, b) \in Seq(Octet)
           /\ Len(SubSeq(s, a, b)) = b - a + 1
           /\ \A i \in 1 .. b - a + 1 : SubSeq(s, a, b)[i] = s[a + i - 1]
<1>1. \A i \in a .. b : s[i] \in Octet
  BY ElementOfSeq
<1> QED
  BY <1>1, SubSeqProperties

LEMMA PrefixPiece ==
    ASSUME NEW m \in Seq(Octet), NEW whole \in Seq(Octet), Prefix(m, whole), NEW w \in Walk, AtLabel(m, w)
    PROVE  AtLabel(whole, w) /\ Piece(whole, w) = Piece(m, w) /\ Behind(whole, w.pos) = Behind(m, w.pos)
<1> DEFINE p == w.pos
           e == Behind(m, p)
           n == Len(m)
           k == Len(whole)
<1>1. /\ p \in Nat /\ n \in Nat /\ k \in Nat /\ n <= k /\ p < n
      /\ LabelAt(m, p) /\ e <= n
  BY OnWire, LenProperties, Zenon DEF AtLabel, Prefix
<1>2. OctetAt(whole, p) = OctetAt(m, p)
  BY <1>1, PrefixOctet
<1>3. Behind(whole, p) = e /\ LabelAt(whole, p)
  BY <1>1, <1>2, Zenon DEF Behind, LabelAt
<1>4. e \in Nat /\ e >= p + 2
  BY <1>1, BehindTyped
<1> HIDE DEF p, n, k, e
<1>5. p < k /\ e <= k
  BY <1>1, <1>4
<1>6. AtLabel(whole, w)
  BY <1>3, <1>5, Zenon DEF AtLabel, p, k
<1>7. Piece(m, w) = SubSeq(m, p + 2, e) /\ Piece(whole, w) = SubSeq(whole, p + 2, e)
  BY <1>3, <1>6, PieceTyped, Zenon DEF p, e
<1>8. SubSeq(m, p + 2, e) = SubSeq(whole, p + 2, e)
  <2> DEFINE a == SubSeq(m, p + 2, e)
             b == SubSeq(whole, p + 2, e)
  <2>1. p + 2 \in 1 .. n /\ e \in 1 .. n /\ p + 2 \in 1 .. k /\ e \in 1 .. k
    BY <1>1, <1>4, <1>5
  <2>2. /\ a \in Seq(Octet) /\ Len(a) = e - (p + 2) + 1
        /\ \A i \in 1 .. e - (p + 2) + 1 : a[i] = m[p + 2 + i - 1]
    <3>1. p + 2 \in Nat /\ e \in Nat /\ 1 <= p + 2 /\ p + 2 <= e /\ e <= Len(m)
      BY <1>1, <1>4 DEF n
    <3> HIDE DEF a
    <3>2. a = SubSeq(m, p + 2, e)
      BY DEF a
    <3> QED BY ONLY <3>1, <3>2, m \in Seq(Octet), SubSeqAt
  <2>3. /\ b \in Seq(Octet) /\ Len(b) = e - (p + 2) + 1
        /\ \A i \in 1 .. e - (p + 2) + 1 : b[i] = whole[p + 2 + i - 1]
    <3>1. p + 2 \in Nat /\ e \in Nat /\ 1 <= p + 2 /\ p + 2 <= e /\ e <= Len(whole)
      BY <1>1, <1>4, <1>5 DEF k
    <3> HIDE DEF b
    <3>2. b = SubSeq(whole, p + 2, e)
      BY DEF b
    <3> QED BY ONLY <3>1, <3>2, whole \in Seq(Octet), SubSeqAt
  <2>4. \A i \in 1 .. e - (p + 2) + 1 : a[i] = b[i]
    <3> TAKE i \in 1 .. e - (p + 2) + 1
    <3> DEFINE j == p + i
    <3>1. j \in Nat /\ j < n /\ j + 1 = p + 2 + i - 1
      BY <1>1, <1>4
    <3>2. OctetAt(whole, j) = OctetAt(m, j)
      <4> HIDE DEF j
      <4> QED BY <3>1, PrefixOctet DEF n
    <3>3. whole[p + 2 + i - 1] = m[p + 2 + i - 1]
      BY <3>1, <3>2, Zenon DEF OctetAt
    <3> QED
      BY <2>2, <2>3, <3>3, Zenon
  <2> HIDE DEF a, b
  <2> QED
    BY <2>2, <2>3, <2>4, SeqEqual DEF a, b
<1> QED
  BY <1>3, <1>6, <1>7, <1>8, Zenon DEF p, e

LEMMA PrefixTurn ==
    ASSUME NEW m \in Seq(Octet), NEW whole \in Seq(Octet), Prefix(m, whole), NEW w \in Walk, ~Stuck(m, w)
    PROVE  Turn(whole, w) = Turn(m, w)
<1> DEFINE p == w.pos
           n == Len(m)
           k == Len(whole)
<1>1. p \in Nat /\ p + 1 \in Nat /\ n \in Nat /\ k \in Nat /\ n <= k
  BY OnWire, LenProperties, Zenon DEF Prefix
<1>2. CASE AtRoot(m, w)
  <2>1. p < n /\ OctetAt(m, p) = 0
    BY <1>2, Zenon DEF AtRoot
  <2>2. p < k /\ OctetAt(whole, p) = 0
    BY <1>1, <2>1, PrefixOctet
  <2>3. AtRoot(whole, w)
    BY <2>2, Zenon DEF AtRoot
  <2> QED
    BY <1>2, <2>3, TurnEnds, Zenon
<1>3. CASE AtPointer(m, w)
  <2>1. /\ p < n /\ p + 1 < n /\ OctetAt(m, p) >= 192 /\ PointedAt(m, p) < p
        /\ ~Looping(w, PointedAt(m, p))
    BY <1>3, Zenon DEF AtPointer, PointerAt
  <2>2. p < k /\ OctetAt(whole, p) = OctetAt(m, p)
    BY <1>1, <2>1, PrefixOctet
  <2>3. p + 1 < k /\ OctetAt(whole, p + 1) = OctetAt(m, p + 1)
    <3> DEFINE q == p + 1
    <3>1. q \in Nat /\ q < n
      BY <1>1, <2>1
    <3> HIDE DEF q
    <3>2. q < k /\ OctetAt(whole, q) = OctetAt(m, q)
      BY <3>1, PrefixOctet
    <3> QED
      BY <3>2 DEF q
  <2>4. PointedAt(whole, p) = PointedAt(m, p)
    BY <2>2, <2>3, Zenon DEF PointedAt
  <2>5. AtPointer(whole, w)
    BY <2>1, <2>2, <2>3, <2>4, Zenon DEF AtPointer, PointerAt
  <2>6. Turn(m, w) = JumpTo(w, PointedAt(m, p), IF w.next < 0 THEN p + 2 ELSE w.next,
                            w.visited \cup {PointedAt(m, p)}, w.hops + 1)
    BY <1>3, TurnJumps, Zenon
  <2>7. Turn(whole, w) = JumpTo(w, PointedAt(whole, p), IF w.next < 0 THEN p + 2 ELSE w.next,
                                w.visited \cup {PointedAt(whole, p)}, w.hops + 1)
    BY <2>5, TurnJumps, Zenon
  <2> QED
    BY ONLY <2>4, <2>6, <2>7
<1>4. CASE AtLabel(m, w)
  <2>1. AtLabel(whole, w) /\ Piece(whole, w) = Piece(m, w) /\ Behind(whole, p) = Behind(m, p)
    BY <1>4, PrefixPiece
  <2>2. Turn(m, w) = ReadTo(w, Behind(m, p), Append(w.labels, Piece(m, w)))
    BY <1>4, TurnReads, Zenon
  <2>3. Turn(whole, w) = ReadTo(w, Behind(whole, p), Append(w.labels, Piece(whole, w)))
    BY <2>1, TurnReads, Zenon
  <2> QED
    BY ONLY <2>1, <2>2, <2>3, Zenon
<1>5. AtRoot(m, w) \/ AtPointer(m, w) \/ AtLabel(m, w)
  BY TurnKinds, Zenon
<1> QED
  BY <1>2, <1>3, <1>4, <1>5

\* A name that can be read can be read with more behind it.
LEMMA PrefixParse ==
    ASSUME NEW m \in Seq(Octet), NEW whole \in Seq(Octet), Prefix(m, whole), NEW o \in Nat,
           parse_domain_name(m, o).ok
    PROVE  parse_domain_name(whole, o) = parse_domain_name(m, o)
<1> DEFINE U == {w \in Walk : EndOf(m, w).status = "done" => EndOf(whole, w) = EndOf(m, w)}
<1>1. \A w \in Walk : (w.status = "walking" => Turn(m, w) \in U) => w \in U
  <2> SUFFICES ASSUME NEW w \in Walk, w.status = "walking" => Turn(m, w) \in U,
                      EndOf(m, w).status = "done"
               PROVE  EndOf(whole, w) = EndOf(m, w)
    OBVIOUS
  <2>1. /\ EndOf(m, w) = IF w.status = "walking" THEN EndOf(m, Turn(m, w)) ELSE w
        /\ EndOf(whole, w) = IF w.status = "walking" THEN EndOf(whole, Turn(whole, w)) ELSE w
    BY EndOfAt
  <2>2. CASE w.status # "walking"
    BY <2>1, <2>2
  <2>3. CASE w.status = "walking"
    <3>1. EndOf(m, Turn(m, w)).status = "done"
      BY <2>1, <2>3
    <3>2. ~Stuck(m, w)
      <4> SUFFICES ASSUME Stuck(m, w) PROVE FALSE
        OBVIOUS
      <4>1. Turn(m, w) \in Walk /\ Turn(m, w).status = "failed"
        BY TurnFails, Zenon
      <4>2. EndOf(m, Turn(m, w)) = Turn(m, w)
        BY <4>1, EndOfAt
      <4> QED
        BY <3>1, <4>1, <4>2
    <3>3. Turn(whole, w) = Turn(m, w)
      BY <3>2, PrefixTurn, Zenon
    <3> QED
      BY <2>1, <2>3, <3>1, <3>3
  <2> QED
    BY <2>2, <2>3
<1>2. Walk \subseteq U
  <2> HIDE DEF U
  <2> QED BY <1>1, WalkInduction
<1>3. Start(o) \in Walk
  BY StartTyped
<1>4. Len(m) \in Nat /\ Len(whole) \in Nat /\ Len(m) <= Len(whole)
  BY DEF Prefix
<1>5. o < Len(m) /\ EndOf(m, Start(o)).status = "done"
  <2>1. ~Failed("truncated").ok /\ ~Failed(EndOf(m, Start(o)).error).ok
    BY DEF Failed
  <2>2. ~(o >= Len(m)) /\ EndOf(m, Start(o)).status = "done"
    BY <2>1, ParseIs, Zenon
  <2> QED
    BY <1>4, <2>2
<1>6. EndOf(whole, Start(o)) = EndOf(m, Start(o))
  BY <1>2, <1>3, <1>5
<1>7. ~(o >= Len(m)) /\ ~(o >= Len(whole))
  BY <1>4, <1>5
<1> QED
  BY <1>6, <1>7, ParseIs, Zenon

-----------------------------------------------------------------------------
(* What the octets mean *)

Offsets(m) == 0 .. Len(m) - 1

Means == [known : BOOLEAN, labels : Seq(Seq(Octet)), end : Nat, jumps : Nat, back : BOOLEAN]

\* A label, or a pointer, that leads to an offset of the message.
LabelIn(m, o) == LabelAt(m, o) /\ Behind(m, o) < Len(m)

PointerIn(m, o) == PointerAt(m, o) /\ PointedAt(m, o) < Len(m)

PieceAt(m, o) == Subarray(m, o + 1, Behind(m, o))

\* A name with one label more in front, and one that a pointer at o points at.
Labelled(piece, x) == [x EXCEPT !.labels = <<piece>> \o @]

Pointed(o, back, x) == [x EXCEPT !.end = o + 2, !.jumps = @ + 1, !.back = @ /\ back]

Rooted(o) == [Unknown EXCEPT !.known = TRUE, !.end = o + 1]

LEMMA MeansTyped ==
    ASSUME NEW x \in Means
    PROVE  /\ x.known \in BOOLEAN /\ x.labels \in Seq(Seq(Octet)) /\ x.end \in Nat
           /\ x.jumps \in Nat /\ x.back \in BOOLEAN
BY DEF Means

LEMMA UnknownTyped ==
    Unknown \in Means /\ Unknown.known = FALSE
BY DEF Means, Unknown

LEMMA RootedTyped ==
    ASSUME NEW o \in Nat
    PROVE  /\ Rooted(o) \in Means
           /\ Rooted(o).known = TRUE /\ Rooted(o).labels = <<>> /\ Rooted(o).end = o + 1
           /\ Rooted(o).jumps = 0 /\ Rooted(o).back = TRUE
<1> DEFINE e == o + 1
<1>1. e \in Nat
  OBVIOUS
<1>2. Rooted(o) = [Unknown EXCEPT !.known = TRUE, !.end = e]
  BY Zenon DEF Rooted
<1> HIDE DEF e
<1>3. /\ Rooted(o) \in Means
      /\ Rooted(o).known = TRUE /\ Rooted(o).labels = <<>> /\ Rooted(o).end = e
      /\ Rooted(o).jumps = 0 /\ Rooted(o).back = TRUE
  BY ONLY <1>1, <1>2, UnknownTyped DEF Means, Unknown
<1> QED
  BY <1>3 DEF e

LEMMA LabelledTyped ==
    ASSUME NEW x \in Means, NEW piece \in Seq(Octet)
    PROVE  /\ Labelled(piece, x) \in Means
           /\ Labelled(piece, x).known = x.known /\ Labelled(piece, x).labels = <<piece>> \o x.labels
           /\ Labelled(piece, x).end = x.end /\ Labelled(piece, x).jumps = x.jumps
           /\ Labelled(piece, x).back = x.back
<1>1. <<piece>> \o x.labels \in Seq(Seq(Octet))
  BY MeansTyped
<1> DEFINE labels == <<piece>> \o x.labels
<1>2. Labelled(piece, x) = [x EXCEPT !.labels = labels]
  BY DEF Labelled
<1>3. labels \in Seq(Seq(Octet))
  BY <1>1
<1> HIDE DEF labels
<1>4. /\ Labelled(piece, x) \in Means
      /\ Labelled(piece, x).known = x.known /\ Labelled(piece, x).labels = labels
      /\ Labelled(piece, x).end = x.end /\ Labelled(piece, x).jumps = x.jumps
      /\ Labelled(piece, x).back = x.back
  BY ONLY <1>2, <1>3, x \in Means DEF Means
<1> QED
  BY <1>4 DEF labels

LEMMA PointedMeansTyped ==
    ASSUME NEW x \in Means, NEW o \in Nat, NEW back \in BOOLEAN
    PROVE  /\ Pointed(o, back, x) \in Means
           /\ Pointed(o, back, x).known = x.known /\ Pointed(o, back, x).labels = x.labels
           /\ Pointed(o, back, x).end = o + 2 /\ Pointed(o, back, x).jumps = x.jumps + 1
           /\ Pointed(o, back, x).back = (x.back /\ back)
<1>1. x.jumps + 1 \in Nat /\ (x.back /\ back) \in BOOLEAN /\ o + 2 \in Nat
  BY MeansTyped
<1> DEFINE j == x.jumps + 1
           b == x.back /\ back
           e == o + 2
<1>2. Pointed(o, back, x) = [x EXCEPT !.end = e, !.jumps = j, !.back = b]
  BY DEF Pointed
<1>3. j \in Nat /\ b \in BOOLEAN /\ e \in Nat
  BY <1>1
<1> HIDE DEF j, b, e
<1>4. /\ Pointed(o, back, x) \in Means
      /\ Pointed(o, back, x).known = x.known /\ Pointed(o, back, x).labels = x.labels
      /\ Pointed(o, back, x).end = e /\ Pointed(o, back, x).jumps = j
      /\ Pointed(o, back, x).back = b
  BY ONLY <1>2, <1>3, x \in Means DEF Means
<1> QED
  BY <1>4 DEF j, b, e

LEMMA OffsetLeads ==
    ASSUME NEW m \in Seq(Octet), NEW o \in Offsets(m)
    PROVE  /\ o \in Nat /\ o < Len(m) /\ Len(m) \in Nat /\ OctetAt(m, o) \in 0 .. 255
           /\ LabelIn(m, o) => /\ OctetAt(m, o) # 0 /\ Behind(m, o) \in Offsets(m)
                               /\ Behind(m, o) <= Len(m) /\ PieceAt(m, o) \in Seq(Octet)
           /\ PointerIn(m, o) => /\ OctetAt(m, o) # 0 /\ ~LabelAt(m, o)
                                 /\ PointedAt(m, o) \in Offsets(m)
<1>1. o \in Nat /\ o < Len(m) /\ Len(m) \in Nat
  BY DEF Offsets
<1>2. OctetAt(m, o) \in 0 .. 255
  BY <1>1, OctetTyped
<1>3. ASSUME LabelIn(m, o)
      PROVE  /\ OctetAt(m, o) # 0 /\ Behind(m, o) \in Offsets(m) /\ Behind(m, o) <= Len(m)
             /\ PieceAt(m, o) \in Seq(Octet)
  <2>1. LabelAt(m, o) /\ Behind(m, o) < Len(m) /\ OctetAt(m, o) # 0
    <3>1. LabelAt(m, o) /\ Behind(m, o) < Len(m) /\ OctetAt(m, o) \in 1 .. 63
      BY <1>3, Zenon DEF LabelIn, LabelAt
    <3> DEFINE b == OctetAt(m, o)
    <3>2. b \in 1 .. 63
      BY <3>1
    <3> HIDE DEF b
    <3>3. b # 0
      BY ONLY <3>2
    <3> QED
      BY <3>1, <3>3, Zenon DEF b
  <2>2. Behind(m, o) \in Nat
    BY <1>1, <2>1, BehindTyped
  <2>3. Behind(m, o) \in Offsets(m) /\ Behind(m, o) <= Len(m)
    BY ONLY <1>1, <2>1, <2>2 DEF Offsets
  <2>4. Start(o) \in Walk /\ Start(o).pos = o
    <3>1. Start(o).pos = o
      BY DEF Start
    <3> QED
      BY <1>1, <3>1, StartTyped
  <2>5. AtLabel(m, Start(o))
    BY <1>1, <2>1, <2>3, <2>4, Zenon DEF AtLabel
  <2>6. Piece(m, Start(o)) \in Seq(Octet)
    BY <2>4, <2>5, PieceTyped, Zenon
  <2> QED
    BY <2>1, <2>3, <2>4, <2>6, Zenon DEF Piece, PieceAt
<1>4. ASSUME PointerIn(m, o)
      PROVE  OctetAt(m, o) # 0 /\ ~LabelAt(m, o) /\ PointedAt(m, o) \in Offsets(m)
  <2>1. PointerAt(m, o) /\ PointedAt(m, o) < Len(m) /\ OctetAt(m, o) >= 192
    BY <1>4 DEF PointerIn, PointerAt
  <2>2. PointedAt(m, o) \in Nat
    BY <1>1, <2>1, PointedTyped
  <2>3. PointedAt(m, o) \in Offsets(m)
    BY ONLY <1>1, <2>1, <2>2 DEF Offsets
  <2>4. OctetAt(m, o) # 0 /\ ~(OctetAt(m, o) \in 1 .. 63)
    <3> DEFINE b == OctetAt(m, o)
    <3>1. b \in 0 .. 255 /\ b >= 192
      BY <1>2, <2>1, Zenon
    <3> HIDE DEF b
    <3>2. b # 0 /\ ~(b \in 1 .. 63)
      BY ONLY <3>1
    <3> QED
      BY ONLY <3>2, Zenon DEF b
  <2> QED
    BY <2>3, <2>4, Zenon DEF LabelAt
<1> QED
  BY <1>1, <1>2, <1>3, <1>4, Zenon

\* What the octets at o make of what earlier says of the others.
LEMMA MeansAtKinds ==
    ASSUME NEW m \in Seq(Octet), NEW o \in Offsets(m), NEW e
    PROVE  /\ OctetAt(m, o) = 0 => MeansAt(m, e, o) = Rooted(o)
           /\ LabelIn(m, o) => MeansAt(m, e, o) = Labelled(PieceAt(m, o), e[Behind(m, o)])
           /\ PointerIn(m, o) =>
                MeansAt(m, e, o) = Pointed(o, PointedAt(m, o) < o, e[PointedAt(m, o)])
           /\ \/ OctetAt(m, o) = 0 \/ LabelIn(m, o) \/ PointerIn(m, o)
              \/ MeansAt(m, e, o) = Unknown
<1>1. OctetAt(m, o) = 0 => MeansAt(m, e, o) = Rooted(o)
  BY Zenon DEF MeansAt, Rooted
<1>2. LabelIn(m, o) => MeansAt(m, e, o) = Labelled(PieceAt(m, o), e[Behind(m, o)])
  BY OffsetLeads, Zenon DEF MeansAt, Labelled, PieceAt, LabelIn
<1>3. PointerIn(m, o) => MeansAt(m, e, o) = Pointed(o, PointedAt(m, o) < o, e[PointedAt(m, o)])
  BY OffsetLeads, Zenon DEF MeansAt, Pointed, PointerIn
<1>4. \/ OctetAt(m, o) = 0 \/ LabelIn(m, o) \/ PointerIn(m, o)
      \/ MeansAt(m, e, o) = Unknown
  BY Zenon DEF MeansAt, LabelIn, PointerIn
<1> QED
  BY <1>1, <1>2, <1>3, <1>4, Zenon

LEMMA MeansAtTyped ==
    ASSUME NEW m \in Seq(Octet), NEW e \in [Offsets(m) -> Means], NEW o \in Offsets(m)
    PROVE  MeansAt(m, e, o) \in Means
<1>1. CASE OctetAt(m, o) = 0
  <2>1. MeansAt(m, e, o) = Rooted(o)
    BY <1>1, MeansAtKinds, Zenon
  <2>2. o \in Nat
    BY OffsetLeads, Zenon
  <2> QED
    BY ONLY <2>1, <2>2, RootedTyped, Zenon
<1>2. CASE LabelIn(m, o)
  <2>1. e[Behind(m, o)] \in Means /\ PieceAt(m, o) \in Seq(Octet)
    BY <1>2, OffsetLeads
  <2>2. MeansAt(m, e, o) = Labelled(PieceAt(m, o), e[Behind(m, o)])
    BY <1>2, MeansAtKinds, Zenon
  <2> QED
    BY ONLY <2>1, <2>2, LabelledTyped, Zenon
<1>3. CASE PointerIn(m, o)
  <2>1. e[PointedAt(m, o)] \in Means /\ o \in Nat
    BY <1>3, OffsetLeads
  <2>2. (PointedAt(m, o) < o) \in BOOLEAN
    OBVIOUS
  <2> QED
    BY <1>3, <2>1, <2>2, MeansAtKinds, PointedMeansTyped, Zenon
<1>4. CASE MeansAt(m, e, o) = Unknown
  BY <1>4, UnknownTyped
<1> QED
  BY <1>1, <1>2, <1>3, <1>4, MeansAtKinds, Zenon

\* g[k] is what at most k steps tell of each offset.
Deepens(m, g) ==
    /\ g \in [Nat -> [Offsets(m) -> Means]]
    /\ g[0] = [o \in Offsets(m) |-> Unknown]
    /\ \A k \in Nat : g[k + 1] = [o \in Offsets(m) |-> MeansAt(m, g[k], o)]

LEMMA MeaningIs ==
    ASSUME NEW m \in Seq(Octet)
    PROVE  \E g : Deepens(m, g) /\ Meaning(m) = g[Len(m)]
<1> DEFINE D == [Offsets(m) -> Means]
           start == [o \in Offsets(m) |-> Unknown]
           step == [e \in D |-> [o \in Offsets(m) |-> MeansAt(m, e, o)]]
           n == Len(m)
           H(f) == [k \in 0 .. n |-> [o \in Offsets(m) |->
                        IF k = 0 THEN Unknown ELSE MeansAt(m, f[k - 1], o)]]
           mean == CHOOSE f : f = H(f)
<1>1. start \in D
  BY UnknownTyped
<1>2. step \in [D -> D]
  BY MeansAtTyped
<1>3. PICK g : Iteration(g, D, start, step)
  <2> HIDE DEF D, start, step
  <2> QED
    BY ONLY <1>1, <1>2, IterationExists, Zenon
<1>3a. g \in [Nat -> D] /\ g[0] = start /\ \A k \in Nat : g[k] \in D /\ g[k + 1] = step[g[k]]
  BY <1>3, Zenon DEF Iteration
<1>4. \A k \in Nat : g[k + 1] = [o \in Offsets(m) |-> MeansAt(m, g[k], o)]
  BY <1>3a
<1>5. Deepens(m, g)
  BY <1>3a, <1>4 DEF Deepens
<1>6. n \in Nat
  OBVIOUS
<1>7. Meaning(m) = mean[n]
  BY Zenon DEF Meaning, Offsets
<1> DEFINE r == [k \in 0 .. n |-> g[k]]
<1>8. r = H(r)
  <2>1. \A k \in 0 .. n : g[k] = [o \in Offsets(m) |-> IF k = 0 THEN Unknown ELSE MeansAt(m, r[k - 1], o)]
    <3> TAKE k \in 0 .. n
    <3>1. CASE k = 0
      BY <1>3a, <3>1
    <3>2. CASE k # 0
      <4>1. k - 1 \in Nat /\ k - 1 \in 0 .. n /\ (k - 1) + 1 = k
        BY <1>6, <3>2
      <4>2. g[k] = [o \in Offsets(m) |-> MeansAt(m, g[k - 1], o)]
        BY <1>4, <4>1
      <4>3. r[k - 1] = g[k - 1]
        BY <4>1
      <4> QED
        BY <3>2, <4>2, <4>3
    <3> QED
      BY <3>1, <3>2
  <2> QED
    BY <2>1
<1>9. mean = H(mean)
  BY <1>8
<1> HIDE DEF mean, r
<1>10. \A k \in 0 .. n : mean[k] = g[k]
  <2> DEFINE T == {k \in Nat : k \in 0 .. n => mean[k] = g[k]}
  <2>0. \A k \in 0 .. n : mean[k] = [o \in Offsets(m) |-> IF k = 0 THEN Unknown ELSE MeansAt(m, mean[k - 1], o)]
    BY <1>9
  <2>1. 0 \in T
    BY <1>3a, <1>6, <2>0
  <2>2. ASSUME NEW k \in T PROVE k + 1 \in T
    <3> SUFFICES ASSUME k + 1 \in 0 .. n PROVE mean[k + 1] = g[k + 1]
      OBVIOUS
    <3>1. k \in Nat /\ k \in 0 .. n /\ mean[k] = g[k] /\ k + 1 # 0 /\ (k + 1) - 1 = k
      BY <1>6
    <3>2. mean[k + 1] = [o \in Offsets(m) |-> MeansAt(m, mean[k], o)]
      BY <2>0, <3>1
    <3> QED
      BY <1>4, <3>1, <3>2
  <2>3. Nat = T
    <3> HIDE DEF T
    <3>1. T \subseteq Nat
      BY DEF T
    <3> QED
      BY <2>1, <2>2, <3>1, Induction
  <2> QED
    BY <2>3
<1> QED
  BY <1>5, <1>6, <1>7, <1>10

\* Whether a name is known rests on what is known of where the offset leads.
LEMMA KnownFrom ==
    ASSUME NEW m \in Seq(Octet), NEW e \in [Offsets(m) -> Means], NEW o \in Offsets(m)
    PROVE  MeansAt(m, e, o).known <=> \/ OctetAt(m, o) = 0
                                      \/ LabelIn(m, o) /\ e[Behind(m, o)].known
                                      \/ PointerIn(m, o) /\ e[PointedAt(m, o)].known
<1>1. CASE OctetAt(m, o) = 0
  <2>1. MeansAt(m, e, o) = Rooted(o) /\ o \in Nat
    BY <1>1, MeansAtKinds, OffsetLeads, Zenon
  <2>2. MeansAt(m, e, o).known = TRUE
    BY <2>1, RootedTyped, Zenon
  <2> QED
    BY <1>1, <2>2, Zenon
<1>2. CASE LabelIn(m, o)
  <2>1. e[Behind(m, o)] \in Means /\ PieceAt(m, o) \in Seq(Octet)
    BY <1>2, OffsetLeads
  <2>2. MeansAt(m, e, o) = Labelled(PieceAt(m, o), e[Behind(m, o)])
    BY <1>2, MeansAtKinds, Zenon
  <2>3. MeansAt(m, e, o).known = e[Behind(m, o)].known
    <3> DEFINE x == e[Behind(m, o)]
               l == PieceAt(m, o)
    <3>1. x \in Means /\ l \in Seq(Octet) /\ MeansAt(m, e, o) = Labelled(l, x)
      BY <2>1, <2>2
    <3> HIDE DEF x, l
    <3>2. Labelled(l, x).known = x.known
      BY ONLY <3>1, LabelledTyped, Zenon
    <3> QED
      BY ONLY <3>1, <3>2, Zenon DEF x
  <2>4. OctetAt(m, o) # 0 /\ ~PointerIn(m, o)
    BY <1>2, OffsetLeads, Zenon DEF LabelIn
  <2> QED
    BY <1>2, <2>3, <2>4, Zenon
<1>3. CASE PointerIn(m, o)
  <2>1. e[PointedAt(m, o)] \in Means /\ o \in Nat
    BY <1>3, OffsetLeads
  <2>2. MeansAt(m, e, o) = Pointed(o, PointedAt(m, o) < o, e[PointedAt(m, o)])
    BY <1>3, MeansAtKinds, Zenon
  <2>3. (PointedAt(m, o) < o) \in BOOLEAN
    OBVIOUS
  <2> DEFINE back == PointedAt(m, o) < o
             x == e[PointedAt(m, o)]
  <2>4. MeansAt(m, e, o).known = e[PointedAt(m, o)].known
    <3> HIDE DEF back, x
    <3>1. x \in Means /\ o \in Nat /\ back \in BOOLEAN
      BY <2>1, <2>3, Zenon DEF back, x
    <3>2. Pointed(o, back, x).known = x.known
      BY ONLY <3>1, PointedMeansTyped, Zenon
    <3> QED
      BY <2>2, <3>2, Zenon DEF back, x
  <2>5. OctetAt(m, o) # 0 /\ ~LabelIn(m, o)
    BY <1>3, OffsetLeads, Zenon DEF LabelIn
  <2> QED
    BY <1>3, <2>4, <2>5, Zenon
<1>4. CASE OctetAt(m, o) # 0 /\ ~LabelIn(m, o) /\ ~PointerIn(m, o)
  <2>1. MeansAt(m, e, o) = Unknown
    BY <1>4, MeansAtKinds, Zenon
  <2> QED
    BY <1>4, <2>1, UnknownTyped, Zenon
<1> QED
  BY <1>1, <1>2, <1>3, <1>4, Zenon

LEMMA MeansStay ==
    ASSUME NEW m \in Seq(Octet), NEW e \in [Offsets(m) -> Means], NEW f \in [Offsets(m) -> Means],
           \A p \in Offsets(m) : e[p].known => f[p] = e[p],
           NEW o \in Offsets(m), MeansAt(m, e, o).known
    PROVE  MeansAt(m, f, o) = MeansAt(m, e, o)
<1>1. CASE OctetAt(m, o) = 0
  BY <1>1, MeansAtKinds, Zenon
<1>2. CASE LabelIn(m, o) /\ e[Behind(m, o)].known
  <2>1. f[Behind(m, o)] = e[Behind(m, o)]
    BY <1>2, OffsetLeads, Zenon
  <2> QED
    BY <1>2, <2>1, MeansAtKinds, Zenon
<1>3. CASE PointerIn(m, o) /\ e[PointedAt(m, o)].known
  <2>1. f[PointedAt(m, o)] = e[PointedAt(m, o)]
    BY <1>3, OffsetLeads, Zenon
  <2> QED
    BY <1>3, <2>1, MeansAtKinds, Zenon
<1> QED
  BY <1>1, <1>2, <1>3, KnownFrom, Zenon

LEMMA DeepensAt ==
    ASSUME NEW m \in Seq(Octet), NEW g, Deepens(m, g), NEW k \in Nat
    PROVE  /\ g[k] \in [Offsets(m) -> Means]
           /\ \A o \in Offsets(m) : /\ g[k][o] \in Means /\ ~g[0][o].known
                                    /\ g[k + 1][o] = MeansAt(m, g[k], o)
<1>1. g[k] \in [Offsets(m) -> Means]
  BY DEF Deepens
<1>2. \A o \in Offsets(m) : g[0][o] = Unknown /\ g[k + 1][o] = MeansAt(m, g[k], o)
  BY DEF Deepens
<1>3. \A o \in Offsets(m) : g[k][o] \in Means
  BY <1>1
<1> QED
  BY <1>1, <1>2, <1>3, UnknownTyped, Zenon

\* What is known stays known, and the same.
LEMMA KnownStays ==
    ASSUME NEW m \in Seq(Octet), NEW g, Deepens(m, g)
    PROVE  \A k \in Nat : \A o \in Offsets(m) : g[k][o].known => g[k + 1][o] = g[k][o]
<1> DEFINE T == {k \in Nat : \A o \in Offsets(m) : g[k][o].known => g[k + 1][o] = g[k][o]}
<1>1. 0 \in T
  <2>1. \A o \in Offsets(m) : ~g[0][o].known
    BY DeepensAt
  <2> QED
    BY <2>1
<1>2. ASSUME NEW k \in T PROVE k + 1 \in T
  <2> DEFINE j == k + 1
  <2>1. k \in Nat /\ j \in Nat
    OBVIOUS
  <2>2. \A o \in Offsets(m) : g[k][o].known => g[j][o] = g[k][o]
    OBVIOUS
  <2> HIDE DEF T, j
  <2>3. /\ g[k] \in [Offsets(m) -> Means] /\ g[j] \in [Offsets(m) -> Means]
        /\ \A o \in Offsets(m) : g[j + 1][o] = MeansAt(m, g[j], o)
    BY <2>1, DeepensAt
  <2>4. \A o \in Offsets(m) : g[j][o] = MeansAt(m, g[k], o)
    BY <2>1, DeepensAt DEF j
  <2>5. \A o \in Offsets(m) : g[j][o].known => g[j + 1][o] = g[j][o]
    <3> TAKE o \in Offsets(m)
    <3> HAVE g[j][o].known
    <3>1. MeansAt(m, g[k], o).known
      BY <2>4
    <3>2. MeansAt(m, g[j], o) = MeansAt(m, g[k], o)
      BY ONLY <2>2, <2>3, <3>1, m \in Seq(Octet), o \in Offsets(m), MeansStay, Zenon
    <3> QED
      BY <2>3, <2>4, <3>2, Zenon
  <2> QED
    BY <2>1, <2>5 DEF T, j
<1>3. Nat = T
  <2> HIDE DEF T
  <2>1. T \subseteq Nat
    BY DEF T
  <2> QED
    BY <1>1, <1>2, <2>1, Induction
<1> QED
  BY <1>3

\* Where names are known after k steps.
Known(m, g, k) == {o \in Offsets(m) : g[k][o].known}

LEMMA KnownGrows ==
    ASSUME NEW m \in Seq(Octet), NEW g, Deepens(m, g), NEW k \in Nat
    PROVE  /\ Known(m, g, k) \subseteq Known(m, g, k + 1)
           /\ Known(m, g, k + 1) = Known(m, g, k) => Known(m, g, k + 2) = Known(m, g, k + 1)
<1>1. Known(m, g, k) \subseteq Known(m, g, k + 1)
  <2>1. \A o \in Offsets(m) : g[k][o].known => g[k + 1][o] = g[k][o]
    BY KnownStays
  <2>2. \A o \in Offsets(m) : g[k][o].known => g[k + 1][o].known
    BY ONLY <2>1, Zenon
  <2> QED
    BY ONLY <2>2, Zenon DEF Known
<1>2. ASSUME Known(m, g, k + 1) = Known(m, g, k)
      PROVE  Known(m, g, k + 2) = Known(m, g, k + 1)
  <2> DEFINE j == k + 1
  <2>1. j \in Nat /\ k + 2 = j + 1
    OBVIOUS
  <2>2. \A o \in Offsets(m) : g[j][o].known <=> g[k][o].known
    BY <1>2, Zenon DEF Known
  <2>3. \A o \in Offsets(m) : g[j][o] = MeansAt(m, g[k], o)
    BY DeepensAt
  <2> HIDE DEF j
  <2>4. \A o \in Offsets(m) : g[j + 1][o] = MeansAt(m, g[j], o)
    BY <2>1, DeepensAt
  <2>5. g[k] \in [Offsets(m) -> Means] /\ g[j] \in [Offsets(m) -> Means]
    BY <2>1, DeepensAt
  <2>6. \A o \in Offsets(m) : g[j + 1][o].known <=> g[j][o].known
    <3> TAKE o \in Offsets(m)
    <3>1. LabelIn(m, o) => (g[j][Behind(m, o)].known <=> g[k][Behind(m, o)].known)
      BY <2>2, OffsetLeads, Zenon
    <3>2. PointerIn(m, o) => (g[j][PointedAt(m, o)].known <=> g[k][PointedAt(m, o)].known)
      BY <2>2, OffsetLeads, Zenon
    <3>3. MeansAt(m, g[j], o).known <=> MeansAt(m, g[k], o).known
      BY <2>5, <3>1, <3>2, KnownFrom, Zenon
    <3> QED
      BY <2>3, <2>4, <3>3, Zenon
  <2>7. Known(m, g, j + 1) = Known(m, g, j)
    BY <2>6, Zenon DEF Known
  <2> QED
    BY <2>1, <2>7 DEF j
<1> QED
  BY <1>1, <1>2

\* After as many steps as there are octets nothing new is known.
LEMMA KnownEnds ==
    ASSUME NEW m \in Seq(Octet), NEW g, Deepens(m, g)
    PROVE  Known(m, g, Len(m) + 1) = Known(m, g, Len(m))
<1> DEFINE n == Len(m)
           K(k) == Known(m, g, k)
           T == {k \in Nat : K(k + 1) = K(k) \/ Cardinality(K(k)) >= k}
<1>1. n \in Nat /\ IsFiniteSet(Offsets(m)) /\ Cardinality(Offsets(m)) = n
  <2>1. n \in Nat
    OBVIOUS
  <2> HIDE DEF n
  <2>2. IsFiniteSet(0 .. n - 1) /\ Cardinality(0 .. n - 1) = n
    BY <2>1, FS_Interval
  <2> QED
    BY <2>1, <2>2 DEF Offsets, n
<1>2. \A k \in Nat : IsFiniteSet(K(k)) /\ Cardinality(K(k)) \in Nat /\ Cardinality(K(k)) <= n
                     /\ (Cardinality(K(k)) = n => K(k) = Offsets(m))
  <2> TAKE k \in Nat
  <2>1. K(k) \subseteq Offsets(m)
    BY DEF Known
  <2> HIDE DEF K, n
  <2>2. /\ IsFiniteSet(K(k)) /\ Cardinality(K(k)) <= Cardinality(Offsets(m))
        /\ Cardinality(Offsets(m)) = Cardinality(K(k)) => Offsets(m) = K(k)
    BY <1>1, <2>1, FS_Subset
  <2> QED
    BY <1>1, <2>2, FS_CardinalityType
<1>3. \A k \in Nat : K(k) \subseteq K(k + 1) /\ (K(k + 1) = K(k) => K(k + 2) = K(k + 1))
  BY KnownGrows
<1> HIDE DEF K, n
<1>4. 0 \in T
  BY <1>2
<1>5. ASSUME NEW k \in T PROVE k + 1 \in T
  <2>1. k \in Nat /\ (K(k + 1) = K(k) \/ Cardinality(K(k)) >= k)
    OBVIOUS
  <2> SUFFICES K(k + 1 + 1) = K(k + 1) \/ Cardinality(K(k + 1)) >= k + 1
    OBVIOUS
  <2>2. CASE K(k + 1) = K(k)
    <3>1. k + 1 + 1 = k + 2
      BY <2>1
    <3> QED
      BY <1>3, <2>1, <2>2, <3>1
  <2>3. CASE K(k + 1) # K(k) /\ Cardinality(K(k)) >= k
    <3> DEFINE A == K(k)
               B == K(k + 1)
    <3>1. A \subseteq B /\ A # B /\ IsFiniteSet(B)
          /\ Cardinality(A) \in Nat /\ Cardinality(B) \in Nat /\ Cardinality(A) >= k
      BY <1>2, <1>3, <2>1, <2>3
    <3> HIDE DEF A, B
    <3>2. Cardinality(A) <= Cardinality(B) /\ Cardinality(A) # Cardinality(B)
      BY ONLY <3>1, FS_Subset
    <3>3. Cardinality(B) >= k + 1
      BY ONLY <2>1, <3>1, <3>2
    <3> QED
      BY <3>3 DEF B
  <2> QED
    BY <2>1, <2>2, <2>3
<1>6. Nat = T
  <2> HIDE DEF T
  <2>1. T \subseteq Nat
    BY DEF T
  <2> QED
    BY <1>4, <1>5, <2>1, Induction
<1>7. K(n + 1) = K(n) \/ Cardinality(K(n)) >= n
  BY <1>1, <1>6
<1>8. CASE Cardinality(K(n)) >= n
  <2>1. Cardinality(K(n)) = n
    BY <1>1, <1>2, <1>8
  <2>2. K(n) = Offsets(m)
    BY <1>1, <1>2, <2>1
  <2>3. K(n + 1) \subseteq Offsets(m)
    BY DEF K, Known
  <2> QED
    BY <1>1, <1>3, <2>2, <2>3 DEF K, n
<1> QED
  BY <1>7, <1>8 DEF K, n

\* The meaning of a message is settled: another step would add nothing.
Settled(m, e) ==
    /\ e \in [Offsets(m) -> Means]
    /\ \A o \in Offsets(m) : /\ e[o].known <=> MeansAt(m, e, o).known
                             /\ e[o].known => e[o] = MeansAt(m, e, o)

LEMMA MeaningSettles ==
    ASSUME NEW m \in Seq(Octet)
    PROVE  \E g : Deepens(m, g) /\ Meaning(m) = g[Len(m)] /\ Settled(m, Meaning(m))
<1>1. PICK g : Deepens(m, g) /\ Meaning(m) = g[Len(m)]
  BY MeaningIs
<1> DEFINE n == Len(m)
<1>2. n \in Nat
  OBVIOUS
<1>3. Known(m, g, n + 1) = Known(m, g, n)
  BY <1>1, KnownEnds
<1>4. Deepens(m, g) /\ Meaning(m) = g[n]
  BY <1>1
<1> HIDE DEF n
<1>5. g[n] \in [Offsets(m) -> Means] /\ \A o \in Offsets(m) : g[n + 1][o] = MeansAt(m, g[n], o)
  BY <1>2, <1>4, DeepensAt
<1>6. \A o \in Offsets(m) : g[n][o].known => g[n + 1][o] = g[n][o]
  BY <1>2, <1>4, KnownStays
<1>7. \A o \in Offsets(m) : g[n][o].known <=> g[n + 1][o].known
  BY <1>3, Zenon DEF Known
<1>8. Settled(m, g[n])
  BY <1>5, <1>6, <1>7, Zenon DEF Settled
<1> QED
  BY <1>4, <1>8 DEF n

LEMMA SettledAt ==
    ASSUME NEW m \in Seq(Octet), NEW e, Settled(m, e), NEW o \in Offsets(m)
    PROVE  /\ e[o] \in Means
           /\ OctetAt(m, o) = 0 =>
                /\ e[o].known /\ e[o].labels = <<>> /\ e[o].end = o + 1
                /\ e[o].jumps = 0 /\ e[o].back
           /\ LabelIn(m, o) =>
                /\ e[o].known <=> e[Behind(m, o)].known
                /\ e[o].known => /\ e[o].labels = <<PieceAt(m, o)>> \o e[Behind(m, o)].labels
                                 /\ e[o].end = e[Behind(m, o)].end
                                 /\ e[o].jumps = e[Behind(m, o)].jumps
                                 /\ e[o].back <=> e[Behind(m, o)].back
           /\ PointerIn(m, o) =>
                /\ e[o].known <=> e[PointedAt(m, o)].known
                /\ e[o].known => /\ e[o].labels = e[PointedAt(m, o)].labels
                                 /\ e[o].end = o + 2
                                 /\ e[o].jumps = e[PointedAt(m, o)].jumps + 1
                                 /\ e[o].back <=> e[PointedAt(m, o)].back /\ PointedAt(m, o) < o
           /\ e[o].known => OctetAt(m, o) = 0 \/ LabelIn(m, o) \/ PointerIn(m, o)
<1>1. /\ e \in [Offsets(m) -> Means] /\ o \in Nat
      /\ e[o].known <=> MeansAt(m, e, o).known
      /\ e[o].known => e[o] = MeansAt(m, e, o)
  BY OffsetLeads, Zenon DEF Settled
<1>2. e[o] \in Means
  BY <1>1
<1>3. ASSUME OctetAt(m, o) = 0
      PROVE  /\ e[o].known /\ e[o].labels = <<>> /\ e[o].end = o + 1
             /\ e[o].jumps = 0 /\ e[o].back
  <2>1. e[o] = Rooted(o)
    BY <1>1, <1>3, KnownFrom, MeansAtKinds, Zenon
  <2> QED
    BY <1>1, <2>1, RootedTyped, Zenon
<1>4. ASSUME LabelIn(m, o)
      PROVE  /\ e[o].known <=> e[Behind(m, o)].known
             /\ e[o].known => /\ e[o].labels = <<PieceAt(m, o)>> \o e[Behind(m, o)].labels
                              /\ e[o].end = e[Behind(m, o)].end
                              /\ e[o].jumps = e[Behind(m, o)].jumps
                              /\ e[o].back <=> e[Behind(m, o)].back
  <2> DEFINE x == e[Behind(m, o)]
             piece == PieceAt(m, o)
  <2>1. x \in Means /\ piece \in Seq(Octet)
    BY <1>1, <1>4, OffsetLeads
  <2>2. MeansAt(m, e, o) = Labelled(piece, x)
    BY <1>4, MeansAtKinds, Zenon
  <2> HIDE DEF x, piece
  <2>3. /\ Labelled(piece, x).known = x.known /\ Labelled(piece, x).labels = <<piece>> \o x.labels
        /\ Labelled(piece, x).end = x.end /\ Labelled(piece, x).jumps = x.jumps
        /\ Labelled(piece, x).back = x.back
    BY ONLY <2>1, LabelledTyped, Zenon
  <2>4. /\ e[o].known <=> x.known
        /\ e[o].known => /\ e[o].labels = <<piece>> \o x.labels /\ e[o].end = x.end
                         /\ e[o].jumps = x.jumps /\ (e[o].back <=> x.back)
    BY ONLY <1>1, <2>2, <2>3, Zenon
  <2> QED
    BY ONLY <2>4, Zenon DEF x, piece
<1>5. ASSUME PointerIn(m, o)
      PROVE  /\ e[o].known <=> e[PointedAt(m, o)].known
             /\ e[o].known => /\ e[o].labels = e[PointedAt(m, o)].labels
                              /\ e[o].end = o + 2
                              /\ e[o].jumps = e[PointedAt(m, o)].jumps + 1
                              /\ e[o].back <=> e[PointedAt(m, o)].back /\ PointedAt(m, o) < o
  <2> DEFINE x == e[PointedAt(m, o)]
             back == PointedAt(m, o) < o
  <2>1. x \in Means /\ back \in BOOLEAN
    BY <1>1, <1>5, OffsetLeads
  <2>2. MeansAt(m, e, o) = Pointed(o, back, x)
    BY <1>5, MeansAtKinds, Zenon
  <2> HIDE DEF x, back
  <2>3. /\ Pointed(o, back, x).known = x.known /\ Pointed(o, back, x).labels = x.labels
        /\ Pointed(o, back, x).end = o + 2 /\ Pointed(o, back, x).jumps = x.jumps + 1
        /\ Pointed(o, back, x).back = (x.back /\ back)
    BY ONLY <1>1, <2>1, PointedMeansTyped, Zenon
  <2>4. /\ e[o].known <=> x.known
        /\ e[o].known => /\ e[o].labels = x.labels /\ e[o].end = o + 2
                         /\ e[o].jumps = x.jumps + 1 /\ (e[o].back <=> x.back /\ back)
    BY ONLY <1>1, <2>2, <2>3, Zenon
  <2> QED
    BY ONLY <2>4, Zenon DEF x, back
<1>6. e[o].known => OctetAt(m, o) = 0 \/ LabelIn(m, o) \/ PointerIn(m, o)
  BY <1>1, KnownFrom, Zenon
<1> QED
  BY ONLY <1>2, <1>3, <1>4, <1>5, <1>6, Zenon

\* The walk at w, ended, has read what e says is there.
Tells(m, e, w) ==
    /\ w.pos \in Offsets(m) /\ e[w.pos].known /\ e[w.pos].back
    /\ w.hops + e[w.pos].jumps <= MaxHops
    /\ EndOf(m, w).labels = w.labels \o e[w.pos].labels
    /\ EndOf(m, w).next = IF w.next < 0 THEN e[w.pos].end ELSE w.next

LEMMA AppendRegroups ==
    ASSUME NEW S, NEW s \in Seq(S), NEW p \in S, NEW t \in Seq(S)
    PROVE  Append(s, p) \o t = s \o (<<p>> \o t)
<1>1. Append(s, p) = s \o <<p>> /\ <<p>> \in Seq(S)
  OBVIOUS
<1>2. (s \o <<p>>) \o t = s \o (<<p>> \o t)
  BY <1>1, ConcatAssociative
<1> QED
  BY <1>1, <1>2, Zenon

LEMMA RootTells ==
    ASSUME NEW m \in Seq(Octet), NEW e, Settled(m, e), NEW w \in Walk, w.status = "walking",
           w.hops <= MaxHops, AtRoot(m, w)
    PROVE  Tells(m, e, w)
<1> DEFINE p == w.pos
<1>1. /\ Turn(m, w) \in Walk /\ Turn(m, w).status = "done" /\ Turn(m, w).labels = w.labels
      /\ Turn(m, w).next = IF w.next < 0 THEN w.pos + 1 ELSE w.next
  BY TurnEnds, Zenon
<1>2. EndOf(m, w) = Turn(m, w)
  BY <1>1, EndOfAt
<1>3. p \in Nat /\ p < Len(m) /\ Len(m) \in Nat /\ OctetAt(m, p) = 0
  BY OnWire, Zenon DEF AtRoot
<1>4. p \in Offsets(m)
  BY ONLY <1>3 DEF Offsets
<1> HIDE DEF p
<1>5. e[p].known /\ e[p].labels = <<>> /\ e[p].end = p + 1 /\ e[p].jumps = 0 /\ e[p].back
  BY ONLY <1>3, <1>4, Settled(m, e), m \in Seq(Octet), SettledAt, Zenon
<1>6. w.labels \o <<>> = w.labels
  <2>1. w.labels \in Seq(Seq(Octet))
    BY WalkTyped, Zenon
  <2> QED
    BY ONLY <2>1
<1>7. w.hops + 0 <= MaxHops
  <2>1. w.hops \in Nat
    BY WalkTyped, Zenon
  <2> QED
    BY <2>1, LimitAssumption
<1> QED
  BY <1>1, <1>2, <1>4, <1>5, <1>6, <1>7, Zenon DEF Tells, p

LEMMA LabelTells ==
    ASSUME NEW m \in Seq(Octet), NEW e, Settled(m, e), NEW w \in Walk, w.status = "walking",
           AtLabel(m, w), Tells(m, e, Turn(m, w))
    PROVE  Tells(m, e, w)
<1> DEFINE p == w.pos
           t == Turn(m, w)
           q == Behind(m, p)
           piece == PieceAt(m, p)
<1>1. /\ t \in Walk /\ t.status = "walking" /\ t.pos = q /\ t.next = w.next
      /\ t.labels = Append(w.labels, piece) /\ t.hops = w.hops
  BY TurnReads, Zenon DEF PieceAt, Piece
<1>2. EndOf(m, w) = EndOf(m, t)
  BY EndOfAt
<1>3. p \in Nat /\ p < Len(m) /\ Len(m) \in Nat /\ LabelAt(m, p)
  BY OnWire, Zenon DEF AtLabel
<1>4. p \in Offsets(m)
  BY ONLY <1>3 DEF Offsets
<1>5. /\ q \in Offsets(m) /\ e[q].known /\ e[q].back /\ w.hops + e[q].jumps <= MaxHops
      /\ EndOf(m, t).labels = Append(w.labels, piece) \o e[q].labels
      /\ EndOf(m, t).next = IF w.next < 0 THEN e[q].end ELSE w.next
  <2> HIDE DEF t, q, piece
  <2>1. Tells(m, e, t)
    BY DEF t
  <2> QED
    BY ONLY <1>1, <2>1 DEF Tells
<1>6. LabelIn(m, p)
  <2>1. q < Len(m)
    BY <1>5 DEF Offsets
  <2> QED
    BY <1>3, <2>1, Zenon DEF LabelIn
<1> HIDE DEF p
<1>7. /\ e[p].known /\ e[p].labels = <<piece>> \o e[q].labels /\ e[p].end = e[q].end
      /\ e[p].jumps = e[q].jumps /\ e[p].back
  <2>1. /\ e[p].known <=> e[q].known
        /\ e[p].known => /\ e[p].labels = <<piece>> \o e[q].labels /\ e[p].end = e[q].end
                         /\ e[p].jumps = e[q].jumps /\ (e[p].back <=> e[q].back)
    BY ONLY <1>4, <1>6, Settled(m, e), m \in Seq(Octet), SettledAt, Zenon
  <2> QED
    BY ONLY <1>5, <2>1, Zenon
<1>8. piece \in Seq(Octet) /\ e[q] \in Means
  BY ONLY <1>4, <1>5, <1>6, Settled(m, e), m \in Seq(Octet), SettledAt, OffsetLeads, Zenon
<1>9. Append(w.labels, piece) \o e[q].labels = w.labels \o (<<piece>> \o e[q].labels)
  <2> DEFINE s == w.labels
             u == e[q].labels
  <2>1. s \in Seq(Seq(Octet)) /\ u \in Seq(Seq(Octet))
    BY <1>8, WalkTyped, MeansTyped, Zenon
  <2> HIDE DEF s, u, piece
  <2>2. Append(s, piece) \o u = s \o (<<piece>> \o u)
    BY ONLY <1>8, <2>1, AppendRegroups
  <2> QED
    BY <2>2 DEF s, u
<1> QED
  BY <1>2, <1>4, <1>5, <1>7, <1>9, Zenon DEF Tells, p

LEMMA PointerTells ==
    ASSUME NEW m \in Seq(Octet), NEW e, Settled(m, e), NEW w \in Walk, w.status = "walking",
           AtPointer(m, w), Tells(m, e, Turn(m, w))
    PROVE  Tells(m, e, w)
<1> DEFINE p == w.pos
           t == Turn(m, w)
           q == PointedAt(m, p)
<1>1. /\ t \in Walk /\ t.status = "walking" /\ t.pos = q
      /\ t.next = IF w.next < 0 THEN p + 2 ELSE w.next
      /\ t.labels = w.labels /\ t.hops = w.hops + 1
  BY TurnJumps, Zenon
<1>2. EndOf(m, w) = EndOf(m, t)
  BY EndOfAt
<1>3. p \in Nat /\ p < Len(m) /\ Len(m) \in Nat /\ PointerAt(m, p) /\ q < p
  BY OnWire, Zenon DEF AtPointer
<1>4. p \in Offsets(m)
  BY ONLY <1>3 DEF Offsets
<1>5. /\ q \in Offsets(m) /\ e[q].known /\ e[q].back /\ t.hops + e[q].jumps <= MaxHops
      /\ EndOf(m, t).labels = w.labels \o e[q].labels
      /\ EndOf(m, t).next = IF t.next < 0 THEN e[q].end ELSE t.next
  BY <1>1, Zenon DEF Tells
<1>6. PointerIn(m, p)
  <2>1. q < Len(m)
    BY <1>5 DEF Offsets
  <2> QED
    BY <1>3, <2>1, Zenon DEF PointerIn
<1> HIDE DEF p
<1>7. /\ e[p].known /\ e[p].labels = e[q].labels /\ e[p].end = p + 2
      /\ e[p].jumps = e[q].jumps + 1 /\ e[p].back
  <2>1. /\ e[p].known <=> e[q].known
        /\ e[p].known => /\ e[p].labels = e[q].labels /\ e[p].end = p + 2
                         /\ e[p].jumps = e[q].jumps + 1 /\ (e[p].back <=> e[q].back /\ q < p)
    BY ONLY <1>4, <1>6, Settled(m, e), m \in Seq(Octet), SettledAt, Zenon
  <2> QED
    BY ONLY <1>3, <1>5, <2>1, Zenon
<1>8. e[q].jumps \in Nat /\ w.hops \in Nat /\ w.next \in Int
  BY <1>5, SettledAt, MeansTyped, WalkTyped, Zenon
<1>9. w.hops + e[p].jumps <= MaxHops
  <2> DEFINE j == e[q].jumps
             i == e[p].jumps
  <2>1. w.hops + 1 + j <= MaxHops /\ i = j + 1 /\ j \in Nat /\ w.hops \in Nat /\ MaxHops \in Nat
    BY <1>1, <1>5, <1>7, <1>8, LimitAssumption
  <2> HIDE DEF i, j
  <2>2. w.hops + i <= MaxHops
    BY ONLY <2>1
  <2> QED
    BY <2>2 DEF i
<1>10. ~(t.next < 0) /\ t.next = IF w.next < 0 THEN e[p].end ELSE w.next
  <2> HIDE DEF t
  <2>1. t.next = IF w.next < 0 THEN e[p].end ELSE w.next
    BY <1>1, <1>7
  <2>2. ~(t.next < 0)
    BY ONLY <1>1, <1>3, <1>8
  <2> QED
    BY <2>1, <2>2
<1> QED
  BY <1>2, <1>4, <1>5, <1>7, <1>9, <1>10, Zenon DEF Tells, p

\* A walk that ends with a name has read the one that is there.
LEMMA WalkTells ==
    ASSUME NEW m \in Seq(Octet), NEW e, Settled(m, e)
    PROVE  \A w \in Walk : w.status = "walking" /\ w.hops <= MaxHops /\ EndOf(m, w).status = "done"
                           => Tells(m, e, w)
<1> DEFINE P(w) == w.status = "walking" /\ w.hops <= MaxHops /\ EndOf(m, w).status = "done"
           U == {w \in Walk : P(w) => Tells(m, e, w)}
<1>1. ASSUME NEW w \in Walk, w.status = "walking" => Turn(m, w) \in U, P(w)
      PROVE  Tells(m, e, w)
  <2> DEFINE t == Turn(m, w)
  <2>1. /\ t \in Walk /\ (P(t) => Tells(m, e, t)) /\ w.status = "walking" /\ w.hops <= MaxHops
        /\ EndOf(m, t).status = "done"
    <3>1. t \in U
      BY <1>1
    <3>2. EndOf(m, t) = EndOf(m, w)
      BY <1>1, EndOfAt, Zenon
    <3> QED
      BY <1>1, <3>1, <3>2
  <2>2. ~Stuck(m, w)
    <3> SUFFICES ASSUME Stuck(m, w) PROVE FALSE
      OBVIOUS
    <3>1. t \in Walk /\ t.status = "failed"
      BY TurnFails, Zenon
    <3>2. EndOf(m, t) = t
      BY <3>1, EndOfAt
    <3> QED
      BY <2>1, <3>1, <3>2
  <2>3. CASE AtRoot(m, w)
    BY <2>1, <2>3, RootTells, Zenon
  <2>4. CASE AtLabel(m, w)
    <3>1. t.status = "walking" /\ t.hops <= MaxHops
      BY <2>1, <2>4, TurnReads, Zenon
    <3> QED
      BY <2>1, <2>4, <3>1, LabelTells, Zenon
  <2>5. CASE AtPointer(m, w)
    <3>1. t.status = "walking" /\ t.hops = w.hops + 1
      BY <2>1, <2>5, TurnJumps, Zenon
    <3>2. ~(w.hops >= MaxHops)
      BY <2>5, Zenon DEF AtPointer, Looping
    <3>3. w.hops \in Nat /\ MaxHops \in Nat
      BY WalkTyped, LimitAssumption, Zenon
    <3>4. t.hops <= MaxHops
      <4> HIDE DEF t
      <4> QED
        BY ONLY <3>1, <3>2, <3>3
    <3> QED
      BY <2>1, <2>5, <3>1, <3>4, PointerTells, Zenon
  <2> QED
    BY <2>2, <2>3, <2>4, <2>5, TurnKinds, Zenon
<1>2. Walk \subseteq U
  <2>1. \A w \in Walk : (w.status = "walking" => Turn(m, w) \in U) => w \in U
    BY <1>1
  <2> HIDE DEF U
  <2> QED
    BY <2>1, WalkInduction, Zenon
<1> QED
  BY <1>2

\* Where an offset leads is known a step before it.
LEMMA KnownLeads ==
    ASSUME NEW m \in Seq(Octet), NEW g, Deepens(m, g), NEW o \in Offsets(m), NEW q \in Offsets(m),
           \/ LabelIn(m, o) /\ q = Behind(m, o)
           \/ PointerIn(m, o) /\ q = PointedAt(m, o)
    PROVE  /\ \A k \in Nat : g[k + 1][o].known => g[k][q].known
           /\ \A k \in Nat : g[k][o].known => g[k][q].known
<1>1. ASSUME NEW k \in Nat, g[k + 1][o].known
      PROVE  g[k][q].known
  <2>1. g[k] \in [Offsets(m) -> Means] /\ g[k + 1][o] = MeansAt(m, g[k], o)
    BY DeepensAt, Zenon
  <2>2. \/ OctetAt(m, o) = 0
        \/ LabelIn(m, o) /\ g[k][Behind(m, o)].known
        \/ PointerIn(m, o) /\ g[k][PointedAt(m, o)].known
    <3> DEFINE e == g[k]
    <3>1. e \in [Offsets(m) -> Means] /\ MeansAt(m, e, o).known
      BY <1>1, <2>1, Zenon
    <3> HIDE DEF e
    <3>2. \/ OctetAt(m, o) = 0
          \/ LabelIn(m, o) /\ e[Behind(m, o)].known
          \/ PointerIn(m, o) /\ e[PointedAt(m, o)].known
      BY <3>1, KnownFrom, Zenon
    <3> QED
      BY <3>2, Zenon DEF e
  <2>3. (LabelIn(m, o) => OctetAt(m, o) # 0) /\ (PointerIn(m, o) => OctetAt(m, o) # 0)
    BY OffsetLeads, Zenon
  <2>4. PointerIn(m, o) => ~LabelIn(m, o)
    BY OffsetLeads, Zenon DEF LabelIn
  <2> QED
    BY <2>2, <2>3, <2>4, Zenon
<1>2. ASSUME NEW k \in Nat, g[k][o].known
      PROVE  g[k][q].known
  <2>1. k # 0
    BY <1>2, DeepensAt, Zenon
  <2> DEFINE j == k - 1
  <2>2. j \in Nat /\ k = j + 1
    BY <2>1
  <2> HIDE DEF j
  <2>3. g[j][q].known
    BY <1>1, <1>2, <2>2
  <2>4. g[j + 1][q] = g[j][q]
    BY <2>2, <2>3, KnownStays, Zenon
  <2> QED
    BY <2>2, <2>3, <2>4
<1> QED
  BY <1>1, <1>2

\* The walk at w is on its way through the name that e says is there, and was
\* nowhere it will be again.
Meant(m, g, e, w) ==
    /\ w.pos \in Offsets(m) /\ e[w.pos].known /\ e[w.pos].back
    /\ w.hops + e[w.pos].jumps <= MaxHops
    /\ \A v \in w.visited : v \in Offsets(m) /\ \A k \in Nat : g[k][v].known => g[k][w.pos].known

LEMMA MeantLabel ==
    ASSUME NEW m \in Seq(Octet), NEW g, Deepens(m, g), NEW n \in Nat, Settled(m, g[n]),
           NEW w \in Walk, Meant(m, g, g[n], w), LabelIn(m, w.pos)
    PROVE  AtLabel(m, w) /\ Meant(m, g, g[n], Turn(m, w))
<1> DEFINE p == w.pos
           q == Behind(m, p)
           e == g[n]
           t == Turn(m, w)
<1>1. p \in Offsets(m) /\ q \in Offsets(m) /\ p < Len(m) /\ q <= Len(m)
  BY OffsetLeads, Zenon DEF Meant
<1>2. AtLabel(m, w)
  BY <1>1, Zenon DEF AtLabel, LabelIn
<1>3. t.pos = q /\ t.hops = w.hops /\ t.visited = w.visited
  BY <1>2, TurnReads, Zenon
<1>4. /\ e[p].known <=> e[q].known
      /\ e[p].known => e[p].jumps = e[q].jumps /\ (e[p].back <=> e[q].back)
  <2> HIDE DEF p, e, q
  <2>1. Settled(m, e) /\ LabelIn(m, p) /\ p \in Offsets(m)
    BY <1>1 DEF e, p
  <2> QED
    BY <2>1, SettledAt, Zenon DEF q
<1>5. \A k \in Nat : g[k][p].known => g[k][q].known
  <2>1. LabelIn(m, p) /\ q = Behind(m, p)
    OBVIOUS
  <2> HIDE DEF p, q
  <2> QED
    BY ONLY m \in Seq(Octet), Deepens(m, g), <1>1, <2>1, KnownLeads
<1> QED
  BY <1>1, <1>2, <1>3, <1>4, <1>5, Zenon DEF Meant

LEMMA MeantPointer ==
    ASSUME NEW m \in Seq(Octet), NEW g, Deepens(m, g), NEW n \in Nat, Settled(m, g[n]),
           NEW w \in Walk, Meant(m, g, g[n], w), PointerIn(m, w.pos)
    PROVE  AtPointer(m, w) /\ Meant(m, g, g[n], Turn(m, w))
<1> DEFINE p == w.pos
           q == PointedAt(m, p)
           e == g[n]
           t == Turn(m, w)
<1>1. p \in Offsets(m) /\ q \in Offsets(m) /\ p < Len(m) /\ e[p].known /\ e[p].back
  BY OffsetLeads, Zenon DEF Meant
<1>2. e[q] \in Means /\ e[q].known /\ e[q].back /\ q < p /\ e[p].jumps = e[q].jumps + 1
  <2> HIDE DEF p, e
  <2>1. Settled(m, e) /\ PointerIn(m, p) /\ p \in Offsets(m)
    BY <1>1 DEF e, p
  <2>2. /\ e[p].known <=> e[q].known
        /\ e[p].known => e[p].jumps = e[q].jumps + 1 /\ (e[p].back <=> e[q].back /\ q < p)
    BY <2>1, SettledAt, Zenon
  <2>3. e[q] \in Means
    BY <1>1, <2>1, SettledAt, Zenon
  <2> QED
    BY <1>1, <2>2, <2>3, Zenon
<1>3. /\ \A k \in Nat : g[k + 1][p].known => g[k][q].known
      /\ \A k \in Nat : g[k][p].known => g[k][q].known
  <2>1. PointerIn(m, p) /\ q = PointedAt(m, p)
    OBVIOUS
  <2> HIDE DEF p, q
  <2> QED
    BY ONLY m \in Seq(Octet), Deepens(m, g), <1>1, <2>1, KnownLeads, Zenon
<1>4. q \notin w.visited
  <2> SUFFICES ASSUME q \in w.visited PROVE FALSE
    OBVIOUS
  <2>1. \A k \in Nat : g[k][q].known => g[k][p].known
    BY Zenon DEF Meant
  <2> DEFINE T == {k \in Nat : ~g[k][q].known}
  <2>2. 0 \in T
    <3>1. ~g[0][q].known
      BY <1>1, DeepensAt, Zenon
    <3> QED
      BY <3>1
  <2>3. ASSUME NEW k \in T PROVE k + 1 \in T
    <3>1. k + 1 \in Nat /\ k \in Nat /\ ~g[k][q].known
      OBVIOUS
    <3>2. ~g[k + 1][q].known
      BY <1>3, <2>1, <3>1, Zenon
    <3> QED
      BY <3>1, <3>2
  <2>4. Nat = T
    <3> HIDE DEF T
    <3>1. T \subseteq Nat
      BY DEF T
    <3> QED
      BY <2>2, <2>3, <3>1, Induction
  <2> QED
    BY <1>2, <2>4
<1>5. ~(w.hops >= MaxHops) /\ w.hops + 1 + e[q].jumps <= MaxHops
  <2> DEFINE i == e[p].jumps
             j == e[q].jumps
  <2>1. w.hops + i <= MaxHops
    BY Zenon DEF Meant
  <2>2. i = j + 1 /\ j \in Nat /\ w.hops \in Nat /\ MaxHops \in Nat
    BY ONLY <1>2, w \in Walk, MeansTyped, WalkTyped, LimitAssumption, Zenon
  <2> HIDE DEF i, j
  <2>3. ~(w.hops >= MaxHops) /\ w.hops + 1 + j <= MaxHops
    BY ONLY <2>1, <2>2
  <2> QED
    BY <2>3 DEF j
<1>6. AtPointer(m, w)
  BY <1>1, <1>2, <1>4, <1>5, Zenon DEF AtPointer, PointerIn, Looping
<1>7. t.pos = q /\ t.hops = w.hops + 1 /\ t.visited = w.visited \cup {q}
  BY <1>6, TurnJumps, Zenon
<1>8. \A v \in w.visited : v \in Offsets(m) /\ \A k \in Nat : g[k][v].known => g[k][p].known
  BY Zenon DEF Meant
<1>9. \A v \in w.visited \cup {q} : v \in Offsets(m) /\ \A k \in Nat : g[k][v].known => g[k][q].known
  <2> HIDE DEF q, p
  <2> QED
    BY ONLY <1>1, <1>3, <1>8
<1> QED
  BY <1>1, <1>2, <1>5, <1>6, <1>7, <1>9, Zenon DEF Meant

\* A walk on its way through a name that is there ends with it.
LEMMA WalkEnds ==
    ASSUME NEW m \in Seq(Octet), NEW g, Deepens(m, g), NEW n \in Nat, Settled(m, g[n])
    PROVE  \A w \in Walk : w.status = "walking" /\ Meant(m, g, g[n], w) => EndOf(m, w).status = "done"
<1> DEFINE P(w) == w.status = "walking" /\ Meant(m, g, g[n], w)
           U == {w \in Walk : P(w) => EndOf(m, w).status = "done"}
<1>1. ASSUME NEW w \in Walk, w.status = "walking" => Turn(m, w) \in U, P(w)
      PROVE  EndOf(m, w).status = "done"
  <2> DEFINE t == Turn(m, w)
             o == w.pos
  <2>1. /\ t \in Walk /\ (P(t) => EndOf(m, t).status = "done") /\ EndOf(m, w) = EndOf(m, t)
    <3>1. t \in U
      BY <1>1
    <3>2. EndOf(m, t) = EndOf(m, w)
      BY <1>1, EndOfAt, Zenon
    <3> QED
      BY <3>1, <3>2
  <2>2. OctetAt(m, o) = 0 \/ LabelIn(m, o) \/ PointerIn(m, o)
    <3>1. o \in Offsets(m) /\ g[n][o].known
      BY <1>1, Zenon DEF Meant
    <3> HIDE DEF o
    <3> QED
      BY <3>1, SettledAt, Zenon
  <2>3. CASE OctetAt(m, o) = 0
    <3>1. o \in Offsets(m)
      BY <1>1, Zenon DEF Meant
    <3>2. AtRoot(m, w)
      BY <2>3, <3>1, OffsetLeads, Zenon DEF AtRoot
    <3>3. t.status = "done"
      BY <3>2, TurnEnds, Zenon
    <3>4. EndOf(m, t) = t
      BY <2>1, <3>3, EndOfAt
    <3> QED
      BY <2>1, <3>3, <3>4
  <2>4. CASE LabelIn(m, o)
    <3>1. AtLabel(m, w) /\ Meant(m, g, g[n], t)
      BY <1>1, <2>4, MeantLabel, Zenon
    <3>2. t.status = "walking"
      BY <1>1, <3>1, TurnReads, Zenon
    <3> QED
      BY <2>1, <3>1, <3>2, Zenon
  <2>5. CASE PointerIn(m, o)
    <3>1. AtPointer(m, w) /\ Meant(m, g, g[n], t)
      BY <1>1, <2>5, MeantPointer, Zenon
    <3>2. t.status = "walking"
      BY <1>1, <3>1, TurnJumps, Zenon
    <3> QED
      BY <2>1, <3>1, <3>2, Zenon
  <2> QED
    BY <2>2, <2>3, <2>4, <2>5, Zenon
<1>2. Walk \subseteq U
  <2>1. \A w \in Walk : (w.status = "walking" => Turn(m, w) \in U) => w \in U
    BY <1>1
  <2> HIDE DEF U
  <2> QED
    BY <2>1, WalkInduction, Zenon
<1> QED
  BY <1>2

\* What parse_domain_name reads at an offset is the name the octets there mean,
\* and it refuses those that mean none, point forward or take too many pointers.
THEOREM ParseMeans ==
    ASSUME NEW m \in Seq(Octet), NEW o \in 0 .. Len(m) - 1
    PROVE  /\ parse_domain_name(m, o).ok <=>
                /\ Meaning(m)[o].known /\ Meaning(m)[o].back
                /\ Meaning(m)[o].jumps <= MaxHops
           /\ parse_domain_name(m, o).ok =>
                /\ parse_domain_name(m, o).name = assemble_name(Meaning(m)[o].labels)
                /\ parse_domain_name(m, o).next = Meaning(m)[o].end
<1>1. PICK g : Deepens(m, g) /\ Meaning(m) = g[Len(m)] /\ Settled(m, Meaning(m))
  BY MeaningSettles
<1> DEFINE n == Len(m)
           e == Meaning(m)
           w == Start(o)
           x == EndOf(m, w)
<1>2. /\ o \in Offsets(m) /\ n \in Nat /\ o \in Nat /\ o < n /\ Deepens(m, g) /\ e = g[n]
      /\ Settled(m, g[n]) /\ Settled(m, e)
  BY <1>1 DEF Offsets
<1>3. /\ w \in Walk /\ w.pos = o /\ w.next < 0 /\ w.labels = <<>> /\ w.visited = {}
      /\ w.hops = 0 /\ w.status = "walking" /\ w.hops <= MaxHops
  <2>1. w \in Walk
    BY <1>2, StartTyped
  <2>2. /\ w.pos = o /\ w.next = -1 /\ w.labels = <<>> /\ w.visited = {}
        /\ w.hops = 0 /\ w.status = "walking"
    BY Zenon DEF Start
  <2>3. -1 < 0 /\ 0 <= MaxHops
    BY LimitAssumption
  <2> QED
    BY <2>1, <2>2, <2>3
<1>4. e[o] \in Means
  BY <1>2 DEF Settled
<1>5. 0 + e[o].jumps = e[o].jumps
  BY <1>4, MeansTyped
<1>6. x.status = "done" =>
        /\ e[o].known /\ e[o].back /\ e[o].jumps <= MaxHops
        /\ x.labels = e[o].labels /\ x.next = e[o].end
  <2> SUFFICES ASSUME x.status = "done"
               PROVE  /\ e[o].known /\ e[o].back /\ e[o].jumps <= MaxHops
                      /\ x.labels = e[o].labels /\ x.next = e[o].end
    OBVIOUS
  <2> HIDE DEF w, e
  <2>1. Tells(m, e, w)
    BY <1>2, <1>3, WalkTells, Zenon
  <2>2. <<>> \o e[o].labels = e[o].labels
    BY <1>4, MeansTyped
  <2> QED
    BY <1>3, <1>5, <2>1, <2>2, Zenon DEF Tells
<1>7. e[o].known /\ e[o].back /\ e[o].jumps <= MaxHops => x.status = "done"
  <2> SUFFICES ASSUME e[o].known, e[o].back, e[o].jumps <= MaxHops
               PROVE  x.status = "done"
    OBVIOUS
  <2> HIDE DEF w, e, n
  <2>1. Meant(m, g, e, w)
    BY <1>2, <1>3, <1>5, Zenon DEF Meant
  <2> QED
    BY <1>2, <1>3, <2>1, WalkEnds, Zenon
<1>8. ~(o >= n)
  BY <1>2
<1> HIDE DEF e
<1>9. parse_domain_name(m, o) =
        IF x.status = "done"
        THEN [ok |-> TRUE, name |-> assemble_name(x.labels), next |-> x.next]
        ELSE Failed(x.error)
  BY <1>8, ParseIs, Zenon
<1> HIDE DEF x
<1>10. /\ parse_domain_name(m, o).ok <=> x.status = "done"
       /\ x.status = "done" => /\ parse_domain_name(m, o).name = assemble_name(x.labels)
                               /\ parse_domain_name(m, o).next = x.next
  BY ONLY <1>9 DEF Failed
<1> QED
  BY <1>6, <1>7, <1>10, Zenon DEF e

-----------------------------------------------------------------------------
(* A text in pieces, and the pieces joined *)

Dotted(labels) == [i \in DOMAIN labels |-> Append(labels[i], Dot)]

LEMMA DottedAppend ==
    ASSUME NEW F \in Seq(Seq(Octet)), NEW l \in Seq(Octet)
    PROVE  /\ Dotted(F) \in Seq(Seq(Octet)) /\ FlattenSeq(Dotted(F)) \in Seq(Octet)
           /\ Append(l, Dot) \in Seq(Octet)
           /\ FlattenSeq(Dotted(Append(F, l))) = FlattenSeq(Dotted(F)) \o Append(l, Dot)
<1>1. Dot \in Octet
  BY DEF Dot, Octet
<1>2. \A x \in Seq(Octet) : Append(x, Dot) \in Seq(Octet)
  BY <1>1, AppendProperties
<1>3. \A i \in 1 .. Len(F) : F[i] \in Seq(Octet)
  BY ElementOfSeq
<1>4. Dotted(F) \in Seq(Seq(Octet))
  <2> DEFINE d == Dotted(F)
  <2>1. d = [i \in 1 .. Len(F) |-> Append(F[i], Dot)] /\ Len(F) \in Nat
    BY DEF Dotted
  <2> HIDE DEF d
  <2> QED
    BY <1>2, <1>3, <2>1 DEF d
<1>5. Dotted(Append(F, l)) = Append(Dotted(F), Append(l, Dot))
  <2> DEFINE n == Len(F)
             a == Append(F, l)
             d == Dotted(F)
             e == Append(l, Dot)
             x == Dotted(a)
             y == Append(d, e)
  <2>1. /\ n \in Nat /\ Len(a) = n + 1 /\ DOMAIN a = 1 .. n + 1 /\ a[n + 1] = l
        /\ \A i \in 1 .. n : a[i] = F[i]
    OBVIOUS
  <2>2. d = [i \in 1 .. n |-> Append(F[i], Dot)] /\ x = [i \in 1 .. n + 1 |-> Append(a[i], Dot)]
    BY <2>1 DEF Dotted
  <2>3. d \in Seq(Seq(Octet)) /\ e \in Seq(Octet) /\ Len(d) = n
    BY <1>2, <1>4, <2>1, <2>2
  <2> HIDE DEF a, n, d, x
  <2>4. /\ y \in Seq(Seq(Octet)) /\ Len(y) = n + 1 /\ y[n + 1] = e
        /\ \A i \in 1 .. n : y[i] = d[i]
    BY <2>3, AppendProperties
  <2> HIDE DEF y
  <2>5. \A i \in 1 .. n + 1 : x[i] = y[i]
    <3> TAKE i \in 1 .. n + 1
    <3>1. x[i] = Append(a[i], Dot)
      BY <2>2
    <3>2. CASE i = n + 1
      BY <2>1, <2>4, <3>1, <3>2
    <3>3. CASE i \in 1 .. n
      <4>1. a[i] = F[i] /\ y[i] = d[i] /\ d[i] = Append(F[i], Dot)
        BY <2>1, <2>2, <2>4, <3>3
      <4> QED
        BY <3>1, <4>1
    <3> QED
      BY <2>1, <3>2, <3>3
  <2>6. x = y
    BY <2>2, <2>4, <2>5
  <2> QED
    BY <2>6 DEF x, y, a, d
<1> QED
  BY <1>2, <1>4, <1>5, FlattenAppend

\* What another octet of the text makes of the pieces.
PieceStep(text, i, p) ==
    IF i = 0 THEN << <<>> >>
    ELSE IF text[i] = Dot THEN Append(p, <<>>)
    ELSE Append(Front(p), Append(Last(p), text[i]))

Splits(f, text, n) == f = [i \in 0 .. n |-> PieceStep(text, i, f[i - 1])]

LEMMA SplitsAt ==
    ASSUME NEW text, NEW n, NEW f, Splits(f, text, n), NEW i \in 0 .. n
    PROVE  f[i] = PieceStep(text, i, f[i - 1])
<1> DEFINE g == [j \in 0 .. n |-> PieceStep(text, j, f[j - 1])]
<1>1. f = g
  BY DEF Splits
<1>2. g[i] = PieceStep(text, i, f[i - 1])
  OBVIOUS
<1> HIDE DEF g
<1> QED
  BY <1>1, <1>2

LEMMA SplitsExist ==
    ASSUME NEW text
    PROVE  \A n \in Nat : \E f : Splits(f, text, n)
<1> DEFINE T == {n \in Nat : \E f : Splits(f, text, n)}
<1>0. \A x, y : PieceStep(text, 0, x) = PieceStep(text, 0, y)
  BY DEF PieceStep
<1>1. 0 \in T
  <2> DEFINE f == [i \in 0 .. 0 |-> PieceStep(text, 0, 0)]
  <2>1. \A i \in 0 .. 0 : f[i] = PieceStep(text, i, f[i - 1])
    BY <1>0
  <2>2. f = [i \in 0 .. 0 |-> f[i]]
    OBVIOUS
  <2> HIDE DEF f
  <2>3. Splits(f, text, 0)
    BY <2>1, <2>2 DEF Splits
  <2> QED
    BY <2>3
<1>2. ASSUME NEW n \in T PROVE n + 1 \in T
  <2>1. PICK f : Splits(f, text, n)
    OBVIOUS
  <2> DEFINE g == [i \in 0 .. n + 1 |-> IF i <= n THEN f[i] ELSE PieceStep(text, i, f[i - 1])]
  <2>2. ASSUME NEW i \in 0 .. n + 1
        PROVE  g[i] = PieceStep(text, i, g[i - 1])
    <3>1. n \in Nat
      OBVIOUS
    <3>2. i <= n => f[i] = PieceStep(text, i, f[i - 1])
      BY <3>1, <2>1, SplitsAt
    <3>3. g[i] = PieceStep(text, i, f[i - 1])
      BY <3>1, <3>2
    <3>4. CASE i = 0
      BY <1>0, <3>3, <3>4
    <3>5. CASE i # 0
      <4>1. i - 1 \in 0 .. n + 1 /\ i - 1 <= n
        BY <3>1, <3>5
      <4>2. g[i - 1] = f[i - 1]
        BY <4>1
      <4> QED
        BY <3>3, <4>2
    <3> QED
      BY <3>4, <3>5
  <2>3. Splits(g, text, n + 1)
    <3>1. g = [i \in 0 .. n + 1 |-> g[i]]
      OBVIOUS
    <3> HIDE DEF g
    <3> QED
      BY <2>2, <3>1 DEF Splits
  <2> QED
    BY <2>3
<1>3. Nat = T
  <2> HIDE DEF T
  <2>1. T \subseteq Nat
    BY DEF T
  <2> QED
    BY <1>1, <1>2, <2>1, Induction
<1> QED
  BY <1>3

LEMMA PiecesIs ==
    ASSUME NEW text, Len(text) \in Nat
    PROVE  \E f : Splits(f, text, Len(text)) /\ Pieces(text) = f[Len(text)]
<1> DEFINE n == Len(text)
           f == CHOOSE f : f = [i \in 0 .. n |->
                    IF i = 0 THEN << <<>> >>
                    ELSE IF text[i] = Dot THEN Append(f[i - 1], <<>>)
                    ELSE Append(Front(f[i - 1]), Append(Last(f[i - 1]), text[i]))]
<1>1. Pieces(text) = f[n]
  BY Zenon DEF Pieces
<1>2. \E g : Splits(g, text, n)
  <2> HIDE DEF n
  <2>1. n \in Nat
    BY DEF n
  <2> QED
    BY <2>1, SplitsExist
<1>3. Splits(f, text, n)
  BY <1>2, Zenon DEF Splits, PieceStep
<1> QED
  BY <1>1, <1>3

\* The pieces p of the first i octets of the text: joined again, they are those
\* octets, and the first is empty in front of a dot.
Joined(text, i, p, F, l) ==
    /\ F \in Seq(Seq(Octet)) /\ l \in Seq(Octet) /\ p = Append(F, l)
    /\ FlattenSeq(Dotted(F)) \o l = SubSeq(text, 1, i)
    /\ F = <<>> /\ l = <<>> => i = 0
    /\ F # <<>> /\ F[1] = <<>> => text[1] = Dot

LEMMA AppendBehind ==
    ASSUME NEW S, NEW x \in Seq(S), NEW l \in Seq(S), NEW c \in S
    PROVE  x \o Append(l, c) = Append(x \o l, c) /\ x \o Append(l, c) \in Seq(S)
<1>1. Append(l, c) = l \o <<c>> /\ <<c>> \in Seq(S) /\ x \o l \in Seq(S)
  OBVIOUS
<1>2. Append(x \o l, c) = (x \o l) \o <<c>>
  BY <1>1, AppendIsConcat
<1>3. (x \o l) \o <<c>> = x \o (l \o <<c>>)
  BY <1>1, ConcatAssociative
<1>4. Append(x \o l, c) \in Seq(S)
  BY <1>1
<1> QED
  BY <1>1, <1>2, <1>3, <1>4

LEMMA AppendEnds ==
    ASSUME NEW S, NEW l \in Seq(S), NEW c \in S
    PROVE  /\ Append(l, c) \in Seq(S) /\ Append(l, c) # <<>>
           /\ Append(l, c)[Len(Append(l, c))] = c
<1>1. Append(l, c) \in Seq(S) /\ Append(l, c) # <<>> /\ Len(Append(l, c)) = Len(l) + 1
  BY AppendProperties
<1>2. Append(l, c)[Len(l) + 1] = c
  BY AppendProperties
<1> QED
  BY <1>1, <1>2, Zenon

LEMMA DotParts ==
    ASSUME NEW text \in Seq(Octet), NEW i \in Nat, i < Len(text), text[i + 1] = Dot,
           NEW p, NEW F, NEW l, Joined(text, i, p, F, l)
    PROVE  /\ PieceStep(text, i + 1, p) = Append(p, <<>>)
           /\ Joined(text, i + 1, Append(p, <<>>), p, <<>>)
<1>1. PieceStep(text, i + 1, p) = Append(p, <<>>)
  BY DEF PieceStep
<1>2. F \in Seq(Seq(Octet)) /\ l \in Seq(Octet) /\ p = Append(F, l)
  BY DEF Joined
<1>3. p \in Seq(Seq(Octet)) /\ p # <<>>
  <2> DEFINE S == Seq(Octet)
  <2>1. F \in Seq(S) /\ l \in S
    BY <1>2
  <2> HIDE DEF S
  <2>2. Append(F, l) \in Seq(S) /\ Append(F, l) # <<>>
    BY ONLY <2>1, AppendProperties
  <2> QED
    BY <1>2, <2>2 DEF S
<1>4. FlattenSeq(Dotted(p)) = FlattenSeq(Dotted(F)) \o Append(l, Dot)
  BY <1>2, DottedAppend
<1>5. FlattenSeq(Dotted(F)) \in Seq(Octet)
  BY <1>2, DottedAppend
<1>6. SubSeq(text, 1, i + 1) = Append(SubSeq(text, 1, i), Dot)
  OBVIOUS
<1>7. FlattenSeq(Dotted(p)) \o <<>> = SubSeq(text, 1, i + 1)
  <2> DEFINE x == FlattenSeq(Dotted(F))
             y == FlattenSeq(Dotted(p))
  <2>1. x \o l = SubSeq(text, 1, i)
    BY DEF Joined
  <2> HIDE DEF x, y
  <2>2. x \in Seq(Octet) /\ l \in Seq(Octet) /\ Dot \in Octet /\ y = x \o Append(l, Dot)
    BY <1>2, <1>4, <1>5 DEF x, y, Octet, Dot
  <2>3. x \o Append(l, Dot) = Append(x \o l, Dot) /\ y \in Seq(Octet)
    BY ONLY <2>2, AppendBehind
  <2>4. y \o <<>> = y
    BY <2>3
  <2> QED
    BY <1>6, <2>1, <2>2, <2>3, <2>4 DEF y
<1>8. p[1] = <<>> => text[1] = Dot
  <2> SUFFICES ASSUME p[1] = <<>> PROVE text[1] = Dot
    OBVIOUS
  <2>1. CASE F = <<>>
    <3>1. p[1] = l
      BY <1>2, <2>1
    <3>2. i = 0
      BY <2>1, <3>1 DEF Joined
    <3> QED
      BY <3>2
  <2>2. CASE F # <<>>
    <3>1. p[1] = F[1]
      BY <1>2, <2>2
    <3> QED
      BY <2>2, <3>1 DEF Joined
  <2> QED
    BY <2>1, <2>2
<1>9. <<>> \in Seq(Octet)
  OBVIOUS
<1> QED
  BY ONLY <1>1, <1>3, <1>7, <1>8, <1>9, Zenon DEF Joined

LEMMA OtherParts ==
    ASSUME NEW text \in Seq(Octet), NEW i \in Nat, i < Len(text), text[i + 1] # Dot,
           NEW p, NEW F, NEW l, Joined(text, i, p, F, l)
    PROVE  Joined(text, i + 1, PieceStep(text, i + 1, p), F, Append(l, text[i + 1]))
<1> DEFINE c == text[i + 1]
           k == Append(l, c)
<1>1. /\ F \in Seq(Seq(Octet)) /\ l \in Seq(Octet) /\ p = Append(F, l)
      /\ FlattenSeq(Dotted(F)) \in Seq(Octet)
  BY DottedAppend DEF Joined
<1>2. c \in Octet
  BY ElementOfSeq
<1>3. k \in Seq(Octet) /\ k # <<>>
  BY <1>1, <1>2, AppendProperties
<1>4. PieceStep(text, i + 1, p) = Append(F, k)
  <2>1. Front(p) = F /\ Last(p) = l
    BY <1>1 DEF Front, Last
  <2> QED
    BY <2>1 DEF PieceStep
<1>5. SubSeq(text, 1, i + 1) = Append(SubSeq(text, 1, i), c)
  OBVIOUS
<1>6. FlattenSeq(Dotted(F)) \o k = SubSeq(text, 1, i + 1)
  <2> DEFINE x == FlattenSeq(Dotted(F))
  <2>1. x \o l = SubSeq(text, 1, i)
    BY DEF Joined
  <2>2. x \in Seq(Octet)
    BY <1>1
  <2> HIDE DEF x, c
  <2>3. x \o Append(l, c) = Append(x \o l, c)
    BY ONLY <1>1, <1>2, <2>2, AppendBehind
  <2> QED
    BY <1>5, <2>1, <2>3 DEF x
<1> HIDE DEF k
<1>7. F # <<>> /\ F[1] = <<>> => text[1] = Dot
  BY DEF Joined
<1> QED
  BY <1>1, <1>3, <1>4, <1>6, <1>7, Zenon DEF Joined, k

\* A text that ends in a dot is its pieces, each with a dot behind it, and has
\* an empty piece behind the last.
LEMMA PiecesOf ==
    ASSUME NEW text \in Seq(Octet), text # <<>>, text[Len(text)] = Dot
    PROVE  \E F \in Seq(Seq(Octet)) :
             /\ F # <<>> /\ Pieces(text) = Append(F, <<>>)
             /\ FlattenSeq(Dotted(F)) = text
             /\ F[1] = <<>> => text[1] = Dot
             /\ text = <<Dot>> => F = << <<>> >>
<1> DEFINE n == Len(text)
<1>1. n \in Nat /\ n # 0
  OBVIOUS
<1>2. PICK f : Splits(f, text, n) /\ Pieces(text) = f[n]
  BY PiecesIs
<1>3. f[0] = << <<>> >> /\ \A i \in 1 .. n : f[i] = PieceStep(text, i, f[i - 1])
  <2> HIDE DEF n
  <2>1. \A i \in 0 .. n : f[i] = PieceStep(text, i, f[i - 1])
    BY <1>2, SplitsAt
  <2>2. \A x : PieceStep(text, 0, x) = << <<>> >>
    BY DEF PieceStep
  <2>3. 0 \in 0 .. n /\ \A i \in 1 .. n : i \in 0 .. n
    BY <1>1
  <2> QED
    BY <2>1, <2>2, <2>3
<1> DEFINE T == {i \in Nat : i <= n => \E F, l : Joined(text, i, f[i], F, l)}
<1>4. 0 \in T
  <2>1. << <<>> >> = Append(<<>>, <<>>) /\ <<>> \in Seq(Seq(Octet)) /\ <<>> \in Seq(Octet)
    OBVIOUS
  <2>2. FlattenSeq(Dotted(<<>>)) \o <<>> = SubSeq(text, 1, 0)
    <3>1. Dotted(<<>>) = <<>>
      BY DEF Dotted
    <3>2. FlattenSeq(<<>>) = <<>>
      BY DEF FlattenSeq
    <3>3. SubSeq(text, 1, 0) = <<>> /\ <<>> \o <<>> = <<>>
      BY SubSeqEmpty
    <3> QED
      BY <3>1, <3>2, <3>3
  <2>3. Joined(text, 0, f[0], <<>>, <<>>)
    BY <1>3, <2>1, <2>2 DEF Joined
  <2> QED
    BY <2>3
<1>5. ASSUME NEW i \in T PROVE i + 1 \in T
  <2>0. i \in Nat /\ i + 1 \in Nat
    OBVIOUS
  <2> SUFFICES ASSUME i + 1 <= n PROVE \E F, l : Joined(text, i + 1, f[i + 1], F, l)
    BY <2>0
  <2>1. i <= n /\ i < n /\ i + 1 \in 1 .. n /\ (i + 1) - 1 = i
    BY <1>1, <2>0
  <2>2. PICK F, l : Joined(text, i, f[i], F, l)
    BY <2>1
  <2>3. f[i + 1] = PieceStep(text, i + 1, f[i])
    BY <1>3, <2>1
  <2>4. CASE text[i + 1] = Dot
    <3>1. Joined(text, i + 1, PieceStep(text, i + 1, f[i]), f[i], <<>>)
      BY <2>0, <2>1, <2>2, <2>4, DotParts, Zenon
    <3> QED
      BY <2>3, <3>1
  <2>5. CASE text[i + 1] # Dot
    <3>1. Joined(text, i + 1, PieceStep(text, i + 1, f[i]), F, Append(l, text[i + 1]))
      BY <2>0, <2>1, <2>2, <2>5, OtherParts, Zenon
    <3> QED
      BY <2>3, <3>1
  <2> QED
    BY <2>4, <2>5
<1>6. Nat = T
  <2> HIDE DEF T
  <2>1. T \subseteq Nat
    BY DEF T
  <2> QED
    BY <1>4, <1>5, <2>1, Induction
<1> DEFINE k == n - 1
           F == f[k]
<1>7. k \in Nat /\ k < Len(text) /\ k + 1 = n /\ k <= n /\ n \in 1 .. n
  BY <1>1
<1>8. \E G, l : Joined(text, k, F, G, l)
  BY <1>6, <1>7
<1> HIDE DEF T, k, F
<1>9. PICK G, l : Joined(text, k, F, G, l)
  BY <1>8
<1>10. text[k + 1] = Dot
  BY <1>7
<1>11. PieceStep(text, k + 1, F) = Append(F, <<>>) /\ Joined(text, k + 1, Append(F, <<>>), F, <<>>)
  BY <1>7, <1>9, <1>10, DotParts, Zenon
<1>12. Pieces(text) = Append(F, <<>>)
  BY <1>2, <1>3, <1>7, <1>11 DEF F, k
<1>13. F # <<>>
  <2>1. G \in Seq(Seq(Octet)) /\ l \in Seq(Octet) /\ F = Append(G, l)
    BY <1>9 DEF Joined
  <2> QED
    BY <2>1, AppendProperties
<1>14. F \in Seq(Seq(Octet)) /\ FlattenSeq(Dotted(F)) = text
  <2> DEFINE x == FlattenSeq(Dotted(F))
  <2>1. F \in Seq(Seq(Octet)) /\ x \o <<>> = SubSeq(text, 1, n)
    BY <1>7, <1>11 DEF Joined
  <2>2. x \in Seq(Octet) /\ SubSeq(text, 1, n) = text
    BY <2>1, DottedAppend, SubSeqFull
  <2> HIDE DEF x
  <2>3. x = text
    BY <2>1, <2>2
  <2> QED
    BY <2>1, <2>3 DEF x
<1>15. F[1] = <<>> => text[1] = Dot
  BY <1>11, <1>13 DEF Joined
<1>16. text = <<Dot>> => F = << <<>> >>
  <2> SUFFICES ASSUME text = <<Dot>> PROVE F = << <<>> >>
    OBVIOUS
  <2>1. k = 0
    BY DEF k
  <2> QED
    BY <1>3, <2>1 DEF F
<1> QED
  BY <1>12, <1>13, <1>14, <1>15, <1>16

Coding(l) == <<Len(l)>> \o l

Coded(labels) == [i \in DOMAIN labels |-> Coding(labels[i])]

\* Such a text is encoded label by label, unless it is the root.
LEMMA EncodeIs ==
    ASSUME NEW text, text # <<>>, text[Len(text)] = Dot,
           NEW F \in Seq(Seq(Octet)), F # <<>>, Pieces(text) = Append(F, <<>>),
           encode_domain_name(text, Same).ok
    PROVE  /\ F = << <<>> >> => encode_domain_name(text, Same).wire = <<0>>
           /\ F[1] # <<>> =>
                /\ \A i \in 1 .. Len(F) : Len(F[i]) \in 1 .. 63
                /\ encode_domain_name(text, Same).wire = FlattenSeq(Coded(F)) \o <<0>>
<1> DEFINE P == Pieces(text)
           n == Len(F)
           labels == SubSeq(P, IF P[1] = <<>> THEN 2 ELSE 1, Len(P) - 1)
           coded == [i \in DOMAIN labels |->
                        <<Len(labels[i])>> \o [k \in DOMAIN labels[i] |-> Same[labels[i][k]]]]
           wire == FlattenSeq(coded) \o <<0>>
           e == encode_domain_name(text, Same)
<1>1. e = IF \E i \in DOMAIN P : Len(P[i]) > MaxLabel THEN Failed("label too long")
          ELSE IF \E i \in 2 .. Len(P) - 1 : P[i] = <<>> THEN Failed("empty label")
          ELSE IF Len(wire) > MaxName THEN Failed("name too long")
          ELSE [ok |-> TRUE, wire |-> wire]
  BY Zenon DEF encode_domain_name
<1>2. \A x : ~Failed(x).ok
  BY DEF Failed
<1>3. /\ ~(\E i \in DOMAIN P : Len(P[i]) > MaxLabel)
      /\ ~(\E i \in 2 .. Len(P) - 1 : P[i] = <<>>)
      /\ e = [ok |-> TRUE, wire |-> wire]
  <2>1. e.ok
    OBVIOUS
  <2> HIDE DEF e, wire, P
  <2> QED
    BY ONLY <1>1, <1>2, <2>1, Zenon
<1>4. e.wire = wire
  <2> HIDE DEF e, wire
  <2> QED
    BY ONLY <1>3
<1>5. /\ n \in Nat /\ n # 0 /\ Len(P) = n + 1 /\ DOMAIN P = 1 .. n + 1
      /\ \A i \in 1 .. n : P[i] = F[i] /\ F[i] \in Seq(Octet)
  <2>1. \A i \in 1 .. n : F[i] \in Seq(Octet)
    BY ElementOfSeq
  <2>2. n \in Nat /\ n # 0 /\ Len(P) = n + 1 /\ DOMAIN P = 1 .. n + 1
    OBVIOUS
  <2>3. \A i \in 1 .. n : P[i] = F[i]
    OBVIOUS
  <2> QED
    BY <2>1, <2>2, <2>3
<1> HIDE DEF P, n, e, wire
<1>6. CASE F = << <<>> >>
  <2>1. n = 1 /\ P[1] = <<>>
    BY <1>5, <1>6 DEF n
  <2>2. labels = <<>>
    <3>1. labels = SubSeq(P, 2, 1)
      BY <1>5, <2>1
    <3> QED
      BY <3>1, SubSeqEmpty
  <2>3. coded = <<>>
    <3> HIDE DEF labels
    <3> QED
      BY <2>2
  <2>4. FlattenSeq(<<>>) = <<>>
    BY DEF FlattenSeq
  <2>5. wire = <<0>>
    <3>1. wire = <<>> \o <<0>>
      BY <2>3, <2>4, Zenon DEF wire
    <3> QED
      BY <3>1
  <2>6. F[1] = <<>>
    BY <1>6
  <2> QED
    BY <1>4, <1>6, <2>5, <2>6, Zenon DEF e
<1>7. CASE F[1] # <<>>
  <2>1. P[1] = F[1]
    BY <1>5
  <2>2. labels = F
    <3>1. labels = SubSeq(P, 1, n)
      BY <1>5, <1>7, <2>1
    <3>2. P = Append(F, <<>>)
      BY DEF P
    <3>3. SubSeq(Append(F, <<>>), 1, n) = F
      BY DEF n
    <3> QED
      BY <3>1, <3>2, <3>3
  <2>3. \A i \in 1 .. n : Len(F[i]) \in 1 .. 63
    <3> TAKE i \in 1 .. n
    <3>1. P[i] = F[i] /\ F[i] \in Seq(Octet) /\ i \in 1 .. n + 1
      BY <1>5
    <3>2. ~(Len(P[i]) > MaxLabel)
      BY <1>3, <1>5, <3>1
    <3>3. P[i] # <<>>
      <4>1. CASE i = 1
        BY <1>7, <2>1, <4>1
      <4>2. CASE i # 1
        <5>1. i \in 2 .. Len(P) - 1
          BY <1>5, <4>2
        <5> QED
          BY <1>3, <5>1
      <4> QED
        BY <4>1, <4>2
    <3>4. MaxLabel \in 1 .. 63
      BY LimitAssumption
    <3> DEFINE x == F[i]
    <3>5. x \in Seq(Octet) /\ x # <<>> /\ ~(Len(x) > MaxLabel)
      BY <3>1, <3>2, <3>3
    <3> HIDE DEF x
    <3>6. Len(x) \in 1 .. 63
      <4>1. Len(x) \in Nat /\ Len(x) # 0
        BY ONLY <3>5
      <4> DEFINE k == Len(x)
      <4>2. k \in Nat /\ k # 0 /\ ~(k > MaxLabel)
        BY <3>5, <4>1
      <4> HIDE DEF k
      <4>3. k \in 1 .. 63
        BY ONLY <3>4, <4>2
      <4> QED
        BY <4>3 DEF k
    <3> QED
      BY <3>6 DEF x
  <2>4. coded = Coded(F)
    <3>1. \A x \in Seq(Octet) : [k \in DOMAIN x |-> Same[x[k]]] = x
      <4> TAKE x \in Seq(Octet)
      <4>1. \A k \in DOMAIN x : Same[x[k]] = x[k]
        BY ElementOfSeq DEF Same
      <4> QED
        BY <4>1
    <3>2. DOMAIN F = 1 .. n
      BY DEF n
    <3> HIDE DEF labels
    <3>3. coded = [i \in DOMAIN F |-> <<Len(F[i])>> \o [k \in DOMAIN F[i] |-> Same[F[i][k]]]]
      BY <2>2, Zenon
    <3>4. \A i \in DOMAIN F : [k \in DOMAIN F[i] |-> Same[F[i][k]]] = F[i]
      BY <1>5, <3>1, <3>2, Zenon
    <3> HIDE DEF coded
    <3> QED
      BY <3>3, <3>4, Zenon DEF Coded, Coding
  <2>5. wire = FlattenSeq(Coded(F)) \o <<0>>
    BY <2>4, Zenon DEF wire
  <2>6. F # << <<>> >>
    BY <1>7
  <2> QED
    BY <1>4, <2>3, <2>5, <2>6 DEF e, n
<1> QED
  BY <1>6, <1>7

-----------------------------------------------------------------------------
(* A whole name read back *)

Told(text) == [ok |-> TRUE, text |-> text]

\* What is read at i, when rest is what is read behind the label there.
ReadStep(wire, i, rest) ==
    LET s == OctetAt(wire, i)
    IN IF i = Len(wire) THEN Told(<<>>)
       ELSE IF s >= 64 \/ i + 1 + s > Len(wire) THEN Failed("invalid")
       ELSE IF ~rest.ok THEN rest
       ELSE [rest EXCEPT !.text =
                IF s = 0 THEN <<Dot>> \o @
                ELSE (IF i = 0 THEN <<>> ELSE <<Dot>>) \o Subarray(wire, i + 1, i + 1 + s) \o @]

NextRead(wire, i) == i + 1 + OctetAt(wire, i)

Reads(f, wire, first) == f = [i \in first .. Len(wire) |-> ReadStep(wire, i, f[NextRead(wire, i)])]

LEMMA ReadsAt ==
    ASSUME NEW wire, NEW first, NEW f, Reads(f, wire, first), NEW i \in first .. Len(wire)
    PROVE  f[i] = ReadStep(wire, i, f[NextRead(wire, i)])
<1> DEFINE g == [j \in first .. Len(wire) |-> ReadStep(wire, j, f[NextRead(wire, j)])]
<1>1. f = g
  BY DEF Reads
<1>2. g[i] = ReadStep(wire, i, f[NextRead(wire, i)])
  OBVIOUS
<1> HIDE DEF g
<1> QED
  BY <1>1, <1>2

\* Past the end nothing is read.
LEMMA ReadStops ==
    ASSUME NEW wire, NEW i, i = Len(wire) \/ NextRead(wire, i) > Len(wire)
    PROVE  \A x, y : ReadStep(wire, i, x) = ReadStep(wire, i, y)
BY Zenon DEF ReadStep, NextRead

LEMMA ReadsExist ==
    ASSUME NEW wire \in Seq(Octet)
    PROVE  \E f : Reads(f, wire, 0)
<1> DEFINE n == Len(wire)
           T == {k \in Nat : k <= n => \E f : Reads(f, wire, n - k)}
<1>1. n \in Nat
  OBVIOUS
<1>2. \A i \in 0 .. n : i # n => NextRead(wire, i) \in Nat /\ NextRead(wire, i) > i
  <2> TAKE i \in 0 .. n
  <2> SUFFICES ASSUME i # n PROVE NextRead(wire, i) \in Nat /\ NextRead(wire, i) > i
    OBVIOUS
  <2> DEFINE b == OctetAt(wire, i)
  <2>1. i \in Nat /\ i < Len(wire)
    BY <1>1
  <2>2. b \in 0 .. 255
    BY <2>1, OctetTyped
  <2> HIDE DEF b
  <2>3. i + 1 + b \in Nat /\ i + 1 + b > i
    BY ONLY <2>1, <2>2
  <2> QED
    BY <2>3 DEF NextRead, b
<1>3. 0 \in T
  <2> DEFINE f == [i \in n .. n |-> ReadStep(wire, n, 0)]
  <2>1. \A x : ReadStep(wire, n, x) = ReadStep(wire, n, 0)
    BY ReadStops, Zenon
  <2>2. \A i \in n .. n : f[i] = ReadStep(wire, i, f[NextRead(wire, i)])
    <3> TAKE i \in n .. n
    <3>1. i = n /\ f[i] = ReadStep(wire, n, 0)
      BY <1>1
    <3> HIDE DEF f
    <3> QED
      BY <2>1, <3>1
  <2>3. f = [i \in n .. n |-> f[i]]
    OBVIOUS
  <2> HIDE DEF f
  <2>4. Reads(f, wire, n)
    BY <2>2, <2>3 DEF Reads
  <2>5. n - 0 = n
    BY <1>1
  <2> QED
    BY <2>4, <2>5
<1>4. ASSUME NEW k \in T PROVE k + 1 \in T
  <2>0. k \in Nat /\ k + 1 \in Nat
    OBVIOUS
  <2> SUFFICES ASSUME k + 1 <= n PROVE \E f : Reads(f, wire, n - (k + 1))
    BY <2>0
  <2> DEFINE a == n - k
             c == n - (k + 1)
  <2>1. a \in Nat /\ c \in Nat /\ a = c + 1 /\ a <= n /\ k <= n
    BY <1>1, <2>0
  <2>2. \E f : Reads(f, wire, a)
    BY <2>0, <2>1
  <2> HIDE DEF a, c
  <2>3. PICK f : Reads(f, wire, a)
    BY <2>2
  <2> DEFINE h == [i \in c .. n |-> IF i = c THEN ReadStep(wire, i, f[NextRead(wire, i)]) ELSE f[i]]
  <2>4. ASSUME NEW i \in c .. n
        PROVE  h[i] = ReadStep(wire, i, h[NextRead(wire, i)])
    <3>1. h[i] = ReadStep(wire, i, f[NextRead(wire, i)])
      <4>1. CASE i = c
        BY <4>1
      <4>2. CASE i # c
        <5>1. i \in a .. n
          BY <2>1, <4>2, <1>1
        <5>2. f[i] = ReadStep(wire, i, f[NextRead(wire, i)])
          BY <2>3, <5>1, ReadsAt, Zenon
        <5> QED
          BY <4>2, <5>2
      <4> QED
        BY <4>1, <4>2
    <3>2. CASE i = n \/ NextRead(wire, i) > n
      <4> HIDE DEF h
      <4>1. ReadStep(wire, i, f[NextRead(wire, i)]) = ReadStep(wire, i, h[NextRead(wire, i)])
        BY <3>2, ReadStops, Zenon
      <4> QED
        BY <3>1, <4>1
    <3>3. CASE i # n /\ ~(NextRead(wire, i) > n)
      <4> DEFINE j == NextRead(wire, i)
      <4>1. j \in Nat /\ j > i
        BY <1>1, <1>2, <2>1, <3>3
      <4>2. ~(j > n)
        BY <3>3
      <4> HIDE DEF j
      <4>3. j \in c .. n /\ j # c
        BY <1>1, <2>1, <4>1, <4>2
      <4>4. h[j] = f[j]
        BY <4>3
      <4> HIDE DEF h
      <4> QED
        BY <3>1, <4>4 DEF j
    <3> QED
      BY <3>2, <3>3
  <2>5. h = [i \in c .. n |-> h[i]]
    OBVIOUS
  <2> HIDE DEF h
  <2>6. Reads(h, wire, c)
    BY <2>4, <2>5 DEF Reads
  <2> QED
    BY <2>6 DEF c
<1>5. Nat = T
  <2> HIDE DEF T
  <2>1. T \subseteq Nat
    BY DEF T
  <2> QED
    BY <1>3, <1>4, <2>1, Induction
<1>6. n \in T /\ n <= n /\ n - n = 0
  BY <1>1, <1>5
<1> QED
  BY <1>6

LEMMA ReadIs ==
    ASSUME NEW wire \in Seq(Octet)
    PROVE  \E f : Reads(f, wire, 0) /\ wire2domain_name(wire) = f[0]
<1> DEFINE f == CHOOSE f : f = [i \in 0 .. Len(wire) |->
                    IF i = Len(wire) THEN [ok |-> TRUE, text |-> <<>>]
                    ELSE IF OctetAt(wire, i) >= 64 \/ i + 1 + OctetAt(wire, i) > Len(wire)
                    THEN Failed("invalid")
                    ELSE IF ~f[i + 1 + OctetAt(wire, i)].ok THEN f[i + 1 + OctetAt(wire, i)]
                    ELSE [f[i + 1 + OctetAt(wire, i)] EXCEPT !.text =
                            IF OctetAt(wire, i) = 0 THEN <<Dot>> \o @
                            ELSE (IF i = 0 THEN <<>> ELSE <<Dot>>)
                                 \o Subarray(wire, i + 1, i + 1 + OctetAt(wire, i)) \o @]]
<1>1. wire2domain_name(wire) = f[0]
  BY Zenon DEF wire2domain_name
<1>2. \E g : Reads(g, wire, 0)
  BY ReadsExist
<1>3. Reads(f, wire, 0)
  BY <1>2, Zenon DEF Reads, ReadStep, NextRead, Told
<1> QED
  BY <1>1, <1>3

LEMMA ToldAnew ==
    ASSUME NEW t, NEW x
    PROVE  [Told(t) EXCEPT !.text = x] = Told(x)
<1>1. ASSUME NEW y
      PROVE  [[ok |-> y, text |-> t] EXCEPT !.text = x] = [ok |-> y, text |-> x]
  OBVIOUS
<1> QED
  BY <1>1 DEF Told

\* What one label adds to what is read.
LEMMA ReadStepAt ==
    ASSUME NEW wire \in Seq(Octet), NEW i \in Nat, i < Len(wire), OctetAt(wire, i) \in 0 .. 63,
           NextRead(wire, i) <= Len(wire), NEW t \in Seq(Octet)
    PROVE  ReadStep(wire, i, Told(t)) =
             Told(IF OctetAt(wire, i) = 0 THEN <<Dot>> \o t
                  ELSE (IF i = 0 THEN <<>> ELSE <<Dot>>)
                       \o Subarray(wire, i + 1, NextRead(wire, i)) \o t)
<1> DEFINE s == OctetAt(wire, i)
           x == IF s = 0 THEN <<Dot>> \o t
                ELSE (IF i = 0 THEN <<>> ELSE <<Dot>>) \o Subarray(wire, i + 1, i + 1 + s) \o t
<1>1. ~(s >= 64) /\ i # Len(wire) /\ ~(i + 1 + s > Len(wire))
  <2>1. s \in 0 .. 63 /\ i + 1 + s <= Len(wire) /\ Len(wire) \in Nat
    BY DEF NextRead
  <2> HIDE DEF s
  <2> QED
    BY <2>1
<1>2. Told(t).ok /\ Told(t).text = t
  BY DEF Told
<1>3. ReadStep(wire, i, Told(t)) = [Told(t) EXCEPT !.text = x]
  <2> DEFINE y == IF s = 0 THEN <<Dot>> \o Told(t).text
                  ELSE (IF i = 0 THEN <<>> ELSE <<Dot>>)
                       \o Subarray(wire, i + 1, i + 1 + s) \o Told(t).text
  <2>1. ReadStep(wire, i, Told(t)) = [Told(t) EXCEPT !.text = y]
    BY <1>1, <1>2, Zenon DEF ReadStep
  <2>2. y = x
    <3> DEFINE z == Told(t).text
    <3>1. z = t
      BY <1>2
    <3> HIDE DEF z
    <3>2. (IF s = 0 THEN <<Dot>> \o z
           ELSE (IF i = 0 THEN <<>> ELSE <<Dot>>) \o Subarray(wire, i + 1, i + 1 + s) \o z) = x
      BY ONLY <3>1, Zenon
    <3> QED
      BY <3>2 DEF z
  <2> HIDE DEF x, y
  <2> QED
    BY ONLY <2>1, <2>2
<1>4. [Told(t) EXCEPT !.text = x] = Told(x)
  BY ToldAnew, Zenon
<1> QED
  BY <1>3, <1>4, Zenon DEF NextRead

\* The label l stands behind u.
Stands(wire, u, l) ==
    /\ wire \in Seq(Octet) /\ Len(u) \in Nat /\ Len(u) < Len(wire)
    /\ OctetAt(wire, Len(u)) = Len(l)
    /\ NextRead(wire, Len(u)) = Len(u \o Coding(l))
    /\ NextRead(wire, Len(u)) <= Len(wire)
    /\ Subarray(wire, Len(u) + 1, NextRead(wire, Len(u))) = l

LEMMA LabelRead ==
    ASSUME NEW u \in Seq(Octet), NEW l \in Seq(Octet), Len(l) \in 1 .. 63, NEW v \in Seq(Octet),
           NEW wire, wire = (u \o Coding(l)) \o v
    PROVE  Stands(wire, u, l)
<1> DEFINE b == Len(l)
           c == Coding(l)
           p == u \o c
           o == Len(u)
<1>1. b \in Octet /\ b \in 1 .. 63 /\ b \in Nat /\ o \in Nat
  BY DEF Octet
<1>2. c \in Seq(Octet) /\ Len(c) = b + 1 /\ c[1] = b /\ \A i \in 1 .. b : c[i + 1] = l[i]
  <2>1. b = Len(l)
    OBVIOUS
  <2>2. c = <<b>> \o l
    BY DEF Coding
  <2> HIDE DEF b, c
  <2> QED
    BY <1>1, <2>1, <2>2
<1>3. /\ p \in Seq(Octet) /\ Len(p) = o + 1 + b /\ p[o + 1] = b
      /\ \A i \in 1 .. b : p[o + 1 + i] = l[i]
  <2>1. o = Len(u)
    OBVIOUS
  <2> HIDE DEF c, b, o
  <2>2. p \in Seq(Octet) /\ Len(p) = o + (b + 1)
    BY <1>1, <1>2, <2>1
  <2>3. \A i \in 1 .. b + 1 : p[o + i] = c[i]
    BY <1>1, <1>2, <2>1
  <2>4. p[o + 1] = b
    <3>1. 1 \in 1 .. b + 1
      BY <1>1
    <3> QED
      BY <1>2, <2>3, <3>1
  <2>5. ASSUME NEW i \in 1 .. b PROVE p[o + 1 + i] = l[i]
    <3>1. i + 1 \in 1 .. b + 1 /\ o + (i + 1) = o + 1 + i
      BY <1>1
    <3>2. p[o + (i + 1)] = c[i + 1]
      BY <2>3, <3>1
    <3> QED
      BY <1>2, <3>1, <3>2
  <2> QED
    BY <1>1, <2>2, <2>4, <2>5
<1> HIDE DEF p, c
<1>4. /\ wire \in Seq(Octet) /\ Len(wire) = o + 1 + b + Len(v) /\ Len(v) \in Nat
      /\ \A i \in 1 .. o + 1 + b : wire[i] = p[i]
  <2>1. wire = p \o v
    BY DEF p, c, b
  <2> DEFINE q == o + 1 + b
  <2>2. p \in Seq(Octet) /\ Len(p) = q /\ v \in Seq(Octet) /\ q \in Nat
    BY <1>1, <1>3
  <2> HIDE DEF q, b, o
  <2>3. wire \in Seq(Octet) /\ Len(wire) = q + Len(v) /\ Len(v) \in Nat
    <3>1. p \o v \in Seq(Octet) /\ Len(p \o v) = Len(p) + Len(v)
      BY ONLY <2>2, ConcatProperties
    <3>2. Len(v) \in Nat
      BY ONLY <2>2
    <3> QED
      BY ONLY <2>1, <2>2, <3>1, <3>2, Zenon
  <2>4. \A i \in 1 .. q : wire[i] = p[i]
    BY ONLY <2>1, <2>2
  <2> QED
    BY <2>3, <2>4 DEF q
<1> HIDE DEF b, o
<1>5. /\ o < Len(wire) /\ OctetAt(wire, o) = b /\ NextRead(wire, o) = o + 1 + b
      /\ NextRead(wire, o) <= Len(wire)
  <2>1. o + 1 \in 1 .. o + 1 + b
    BY <1>1
  <2>2. OctetAt(wire, o) = b
    BY <1>3, <1>4, <2>1 DEF OctetAt
  <2>3. NextRead(wire, o) = o + 1 + b
    BY <2>2 DEF NextRead
  <2> DEFINE n == Len(wire)
             k == Len(v)
             r == NextRead(wire, o)
  <2>4. n = o + 1 + b + k /\ k \in Nat /\ r = o + 1 + b
    BY <1>4, <2>3
  <2> HIDE DEF n, k, r
  <2>5. o < n /\ r <= n
    BY ONLY <1>1, <2>4
  <2> QED
    BY <2>2, <2>3, <2>5 DEF n, r
<1>6. Subarray(wire, o + 1, o + 1 + b) = l
  <2> DEFINE e == o + 1 + b
             x == SubSeq(wire, o + 2, e)
  <2>1. Subarray(wire, o + 1, e) = x
    <3>1. ~(e > Len(wire)) /\ o + 1 + 1 = o + 2
      BY <1>1, <1>4
    <3> QED
      BY <3>1 DEF Subarray
  <2>2. \A i \in o + 2 .. e : wire[i] \in Octet
    BY <1>1, <1>4, ElementOfSeq
  <2>3. x \in Seq(Octet) /\ Len(x) = b /\ \A i \in 1 .. b : x[i] = wire[o + 2 + i - 1]
    <3>1. o + 2 \in Int /\ e \in Int /\ o + 2 <= e /\ e - (o + 2) + 1 = b
      BY <1>1
    <3> HIDE DEF e, x
    <3>2. /\ SubSeq(wire, o + 2, e) \in Seq(Octet)
          /\ Len(SubSeq(wire, o + 2, e)) = IF o + 2 <= e THEN e - (o + 2) + 1 ELSE 0
          /\ \A i \in 1 .. e - (o + 2) + 1 : SubSeq(wire, o + 2, e)[i] = wire[o + 2 + i - 1]
      BY ONLY <2>2, <3>1, SubSeqProperties
    <3> QED
      BY <3>1, <3>2 DEF x
  <2> HIDE DEF x
  <2>4. ASSUME NEW i \in 1 .. b PROVE x[i] = l[i]
    <3>1. o + 2 + i - 1 = o + 1 + i /\ o + 1 + i \in 1 .. o + 1 + b
      BY <1>1
    <3> QED
      BY <1>3, <1>4, <2>3, <3>1
  <2>5. Len(l) = b
    BY DEF b
  <2>6. x = l
    BY <2>3, <2>4, <2>5, SeqEqual
  <2> QED
    BY <2>1, <2>6
<1>7. NextRead(wire, o) = Len(p) /\ Subarray(wire, o + 1, NextRead(wire, o)) = l
  BY <1>3, <1>5, <1>6
<1> QED
  BY ONLY <1>1, <1>4, <1>5, <1>7, Zenon DEF Stands, o, b, p, c

LEMMA Regroups ==
    /\ \A x, y \in Seq(Octet) : x \o y \in Seq(Octet)
    /\ \A x, y, z \in Seq(Octet) : (x \o y) \o z = x \o (y \o z)
<1>1. ASSUME NEW x \in Seq(Octet), NEW y \in Seq(Octet)
      PROVE  x \o y \in Seq(Octet)
  OBVIOUS
<1>2. ASSUME NEW x \in Seq(Octet), NEW y \in Seq(Octet), NEW z \in Seq(Octet)
      PROVE  (x \o y) \o z = x \o (y \o z)
  BY ConcatAssociative
<1> QED
  BY <1>1, <1>2, Zenon

\* a and d are the labels of F joined so far, on the wire and as text.
Spelled(F, a, d) == Concats(a, Coded(F), Octet) /\ Concats(d, Dotted(F), Octet)

Wired(F) == FlattenSeq(Coded(F)) \o <<0>>

LEMMA SpelledAt ==
    ASSUME NEW F \in Seq(Seq(Octet)), \A i \in 1 .. Len(F) : Len(F[i]) \in 1 .. 63
    PROVE  /\ Coded(F) \in Seq(Seq(Octet)) /\ Len(Coded(F)) = Len(F)
           /\ Dotted(F) \in Seq(Seq(Octet)) /\ Len(Dotted(F)) = Len(F)
           /\ \A j \in 1 .. Len(F) : /\ F[j] \in Seq(Octet)
                                    /\ Coded(F)[j] = Coding(F[j])
                                    /\ Dotted(F)[j] = Append(F[j], Dot)
<1> DEFINE n == Len(F)
           c == Coded(F)
           d == Dotted(F)
<1>1. n \in Nat /\ \A i \in 1 .. n : F[i] \in Seq(Octet)
  BY ElementOfSeq
<1>2. /\ c = [i \in 1 .. n |-> Coding(F[i])]
      /\ d = [i \in 1 .. n |-> Append(F[i], Dot)]
  BY DEF Coded, Dotted
<1>3. \A i \in 1 .. n : Coding(F[i]) \in Seq(Octet)
  <2> TAKE i \in 1 .. n
  <2> DEFINE l == F[i]
             b == Len(l)
  <2>1. b \in Octet /\ l \in Seq(Octet)
    <3>1. b \in 1 .. 63
      OBVIOUS
    <3> HIDE DEF b
    <3>2. b \in Octet
      BY ONLY <3>1 DEF Octet
    <3> QED
      BY <1>1, <3>2
  <2> HIDE DEF b, l
  <2>2. <<b>> \o l \in Seq(Octet)
    BY <2>1
  <2> QED
    BY <2>2 DEF b, l, Coding
<1>4. d \in Seq(Seq(Octet))
  <2>1. <<>> \in Seq(Octet)
    OBVIOUS
  <2> QED
    BY <2>1, DottedAppend
<1> HIDE DEF n, c, d
<1>5. c \in Seq(Seq(Octet)) /\ Len(c) = n /\ Len(d) = n
  BY ONLY <1>1, <1>2, <1>3
<1>6. \A j \in 1 .. n : c[j] = Coding(F[j]) /\ d[j] = Append(F[j], Dot)
  BY ONLY <1>2
<1> QED
  BY <1>1, <1>4, <1>5, <1>6, Zenon DEF n, c, d

\* What lies at o in the wire is the label l, and next is behind it.
Carries(wire, o, l, next) ==
    /\ o \in Nat /\ o < Len(wire) /\ OctetAt(wire, o) = Len(l)
    /\ NextRead(wire, o) = next /\ next <= Len(wire)
    /\ Subarray(wire, o + 1, next) = l

\* Each label stands on the wire where those in front of it end.
LEMMA WiredAt ==
    ASSUME NEW F \in Seq(Seq(Octet)), \A i \in 1 .. Len(F) : Len(F[i]) \in 1 .. 63,
           NEW a, NEW d, Spelled(F, a, d), NEW j \in 1 .. Len(F)
    PROVE  /\ Carries(Wired(F), Len(a[j - 1]), F[j], Len(a[j]))
           /\ Len(a[j]) \in Nat \ {0}
<1> DEFINE n == Len(F)
           u == a[j - 1]
           l == F[j]
           whole == FlattenSeq(Coded(F))
           c == Coding(l)
<1>1. /\ n \in Nat /\ j - 1 \in 0 .. n /\ j \in 0 .. n /\ Coded(F) \in Seq(Seq(Octet))
      /\ Len(Coded(F)) = n
      /\ l \in Seq(Octet) /\ Len(l) \in 1 .. 63 /\ Coded(F)[j] = c
  BY SpelledAt
<1>2. /\ a \in [0 .. n -> Seq(Octet)] /\ a[j] = u \o c /\ c \in Seq(Octet)
      /\ Concats(a, Coded(F), Octet)
  <2>1. Concats(a, Coded(F), Octet)
    BY DEF Spelled
  <2> DEFINE s == Coded(F)
  <2>2. Len(s) = n /\ s[j] = c
    BY <1>1
  <2> HIDE DEF s, c, n
  <2>3. /\ a \in [0 .. n -> Seq(Octet)]
        /\ \A k \in 1 .. n : s[k] \in Seq(Octet) /\ a[k] = a[k - 1] \o s[k]
    BY <2>1, <2>2 DEF Concats, s
  <2>4. j \in 1 .. n
    BY DEF n
  <2> QED
    BY <2>1, <2>2, <2>3, <2>4
<1>3. u \in Seq(Octet) /\ a[j] \in Seq(Octet)
  BY <1>1, <1>2
<1>4. \E z \in Seq(Octet) : whole = a[j] \o z
  <2> DEFINE s == Coded(F)
  <2>1. s \in Seq(Seq(Octet)) /\ Concats(a, s, Octet) /\ j \in 0 .. Len(s)
    BY <1>1, <1>2
  <2> HIDE DEF s
  <2>2. LeadsTo(a[j], FlattenSeq(s), Octet)
    BY ONLY <2>1, ConcatsLead, Zenon
  <2> QED
    BY ONLY <2>2, Zenon DEF s, LeadsTo
<1> HIDE DEF u, l, whole, n
<1>5. PICK z \in Seq(Octet) : whole = a[j] \o z
  BY <1>4
<1> DEFINE zero == <<0>>
           v == z \o zero
<1>6. zero \in Seq(Octet) /\ v \in Seq(Octet)
  <2>1. zero \in Seq(Octet)
    BY DEF Octet
  <2> HIDE DEF zero
  <2>2. v \in Seq(Octet)
    BY ONLY <2>1, z \in Seq(Octet), ConcatProperties
  <2> QED
    BY ONLY <2>1, <2>2, Zenon
<1>7. Wired(F) = (u \o c) \o v
  <2>1. Wired(F) = (a[j] \o z) \o zero
    BY <1>5, Zenon DEF Wired, whole
  <2> HIDE DEF zero
  <2>2. (a[j] \o z) \o zero = a[j] \o (z \o zero)
    <3>1. \A x, y, t \in Seq(Octet) : (x \o y) \o t = x \o (y \o t)
      BY Regroups
    <3> QED
      <4> DEFINE x == a[j]
      <4>1. x \in Seq(Octet) /\ z \in Seq(Octet) /\ zero \in Seq(Octet)
        BY <1>3, <1>6
      <4> HIDE DEF x
      <4>2. (x \o z) \o zero = x \o (z \o zero)
        BY ONLY <3>1, <4>1, Zenon
      <4> QED
        BY <4>2 DEF x
  <2> HIDE DEF c, u
  <2>3. a[j] = u \o c
    BY <1>2
  <2> QED
    BY ONLY <2>1, <2>2, <2>3
<1> HIDE DEF v
<1>8. /\ Len(u) \in Nat /\ Len(u) < Len(Wired(F))
      /\ OctetAt(Wired(F), Len(u)) = Len(l)
      /\ NextRead(Wired(F), Len(u)) = Len(u \o c)
      /\ NextRead(Wired(F), Len(u)) <= Len(Wired(F))
      /\ Subarray(Wired(F), Len(u) + 1, NextRead(Wired(F), Len(u))) = l
  <2> DEFINE w == Wired(F)
  <2>1. w = (u \o c) \o v
    BY <1>7
  <2> HIDE DEF w
  <2>2. Stands(w, u, l)
    <3>1. u \in Seq(Octet) /\ l \in Seq(Octet) /\ Len(l) \in 1 .. 63 /\ v \in Seq(Octet)
      BY ONLY <1>1, <1>3, <1>6, Zenon
    <3> QED
      BY ONLY <2>1, <3>1, LabelRead, Zenon
  <2> QED
    BY ONLY <2>2, Zenon DEF w, Stands
<1>9. Len(a[j]) \in Nat \ {0}
  <2> DEFINE k == Len(l)
  <2>1. k \in Nat /\ k \in 1 .. 63
    BY <1>1
  <2>2. k = Len(l)
    OBVIOUS
  <2> HIDE DEF k
  <2>3. Len(<<k>> \o l) = 1 + k
    BY <1>1, <2>1, <2>2
  <2>4. Len(c) = 1 + k
    BY <2>3 DEF k, Coding
  <2> HIDE DEF c
  <2>5. Len(a[j]) = Len(u) + Len(c)
    BY ONLY <1>2, <1>3, ConcatProperties
  <2>6. Len(u) \in Nat
    BY <1>3
  <2> QED
    BY ONLY <2>1, <2>4, <2>5, <2>6
<1> QED
  BY <1>2, <1>8, <1>9, Zenon DEF Carries, u, l

\* Behind the last label stands the terminator, and there the name ends.
LEMMA WiredEnd ==
    ASSUME NEW F \in Seq(Seq(Octet)), \A i \in 1 .. Len(F) : Len(F[i]) \in 1 .. 63,
           NEW a, NEW d, Spelled(F, a, d)
    PROVE  /\ Wired(F) \in Seq(Octet) /\ Len(a[Len(F)]) \in Nat
           /\ Len(Wired(F)) = Len(a[Len(F)]) + 1
           /\ OctetAt(Wired(F), Len(a[Len(F)])) = 0
<1> DEFINE zero == <<0>>
           u == FlattenSeq(Coded(F))
           w == Wired(F)
<1>1. u \in Seq(Octet) /\ a[Len(F)] = u
  <2> DEFINE c == Coded(F)
  <2>1. c \in Seq(Seq(Octet)) /\ Len(c) = Len(F) /\ Concats(a, c, Octet)
    BY SpelledAt, Zenon DEF Spelled
  <2> HIDE DEF c
  <2>2. FlattenSeq(c) = a[Len(c)] /\ a \in [0 .. Len(c) -> Seq(Octet)] /\ Len(c) \in 0 .. Len(c)
    BY <2>1 DEF Concats
  <2>3. a[Len(c)] \in Seq(Octet)
    BY ONLY <2>2
  <2> QED
    BY <2>1, <2>2, <2>3, Zenon DEF c
<1>2. zero \in Seq(Octet) /\ Len(zero) = 1 /\ zero[1] = 0
  BY DEF Octet
<1>3. w = u \o zero
  BY Zenon DEF Wired
<1> HIDE DEF zero, u, w
<1>4. w \in Seq(Octet) /\ Len(w) = Len(u) + 1 /\ Len(u) \in Nat /\ w[Len(u) + 1] = zero[1]
  <2>1. w \in Seq(Octet) /\ Len(w) = Len(u) + Len(zero)
    BY ONLY <1>1, <1>2, <1>3, ConcatProperties
  <2>2. Len(u) \in Nat
    BY <1>1
  <2>3. \A i \in 1 .. Len(u) + Len(zero) :
          w[i] = IF i <= Len(u) THEN u[i] ELSE zero[i - Len(u)]
    BY ONLY <1>1, <1>2, <1>3, ConcatProperties
  <2> DEFINE k == Len(u)
             q == k + 1
  <2>4. q \in 1 .. k + Len(zero) /\ ~(q <= k) /\ q - k = 1
    <3>1. k \in Nat /\ Len(zero) = 1
      BY <1>2, <2>2
    <3> HIDE DEF k
    <3> QED
      BY ONLY <3>1
  <2>5. w[q] = zero[q - k]
    <3> HIDE DEF q
    <3> QED
      BY ONLY <2>3, <2>4, Zenon DEF k
  <2>6. w[Len(u) + 1] = zero[1]
    BY ONLY <2>4, <2>5, Zenon DEF q, k
  <2> QED
    BY ONLY <1>2, <2>1, <2>2, <2>6, Zenon
<1>5. w \in Seq(Octet) /\ Len(a[Len(F)]) \in Nat /\ Len(w) = Len(a[Len(F)]) + 1
      /\ w[Len(a[Len(F)]) + 1] = 0
  BY ONLY <1>1, <1>2, <1>4, Zenon
<1> QED
  BY ONLY <1>5, Zenon DEF OctetAt, w

\* The terminator alone is read as a dot.
LEMMA ZeroRead ==
    ASSUME NEW w \in Seq(Octet), NEW o \in Nat, Len(w) = o + 1, OctetAt(w, o) = 0,
           NEW f, Reads(f, w, 0)
    PROVE  f[o] = Told(<<Dot>>)
<1>1. o \in 0 .. Len(w) /\ Len(w) \in 0 .. Len(w) /\ o < Len(w)
      /\ NextRead(w, o) = Len(w) /\ NextRead(w, o) <= Len(w) /\ OctetAt(w, o) \in 0 .. 63
  BY DEF NextRead
<1>2. f[Len(w)] = Told(<<>>)
  <2>1. f[Len(w)] = ReadStep(w, Len(w), f[NextRead(w, Len(w))])
    BY <1>1, ReadsAt
  <2> QED
    BY <2>1, Zenon DEF ReadStep
<1>3. f[o] = ReadStep(w, o, f[NextRead(w, o)])
  BY <1>1, ReadsAt
<1> DEFINE none == <<>>
<1>4. none \in Seq(Octet) /\ <<Dot>> \o none = <<Dot>>
  BY DEF Dot, Octet
<1>5. f[o] = ReadStep(w, o, Told(none))
  BY <1>1, <1>2, <1>3
<1> HIDE DEF none
<1>6. ReadStep(w, o, Told(none)) = Told(<<Dot>> \o none)
  <2>1. ReadStep(w, o, Told(none)) =
          Told(IF OctetAt(w, o) = 0 THEN <<Dot>> \o none
               ELSE (IF o = 0 THEN <<>> ELSE <<Dot>>)
                    \o Subarray(w, o + 1, NextRead(w, o)) \o none)
    BY <1>1, <1>4, ReadStepAt
  <2> QED
    BY ONLY <2>1, OctetAt(w, o) = 0, Zenon
<1> QED
  BY <1>4, <1>5, <1>6

\* f is what is read at each offset of the labels of F written out.
Rereads(F, a, d, f) ==
    /\ F \in Seq(Seq(Octet)) /\ F # <<>> /\ \A i \in 1 .. Len(F) : Len(F[i]) \in 1 .. 63
    /\ Spelled(F, a, d) /\ Reads(f, Wired(F), 0)

FoundAt(f, o, t) == f[o] = Told(t)

\* A label is read with the dot that parts it from the label in front of it.
LEMMA LabelTold ==
    ASSUME NEW F, NEW a, NEW d, NEW f, Rereads(F, a, d, f),
           NEW j \in 1 .. Len(F), NEW t \in Seq(Octet), FoundAt(f, Len(a[j]), t)
    PROVE  FoundAt(f, Len(a[j - 1]), (IF j = 1 THEN <<>> ELSE <<Dot>>) \o F[j] \o t)
<1>0. /\ F \in Seq(Seq(Octet)) /\ \A i \in 1 .. Len(F) : Len(F[i]) \in 1 .. 63
      /\ Spelled(F, a, d) /\ Reads(f, Wired(F), 0)
      /\ f[Len(a[j])] = Told(t)
  BY DEF Rereads, FoundAt
<1> DEFINE w == Wired(F)
           o == Len(a[j - 1])
           l == F[j]
<1>1. /\ o \in Nat /\ o < Len(w) /\ OctetAt(w, o) = Len(l) /\ NextRead(w, o) = Len(a[j])
      /\ Len(a[j]) <= Len(w) /\ Subarray(w, o + 1, Len(a[j])) = l
  <2> HIDE DEF w, o, l
  <2>1. Carries(w, o, l, Len(a[j]))
    BY <1>0, WiredAt, Zenon DEF w, o, l
  <2> QED
    BY ONLY <2>1, Zenon DEF Carries
<1>2. w \in Seq(Octet) /\ Len(l) \in 1 .. 63
  BY <1>0, WiredEnd, Zenon
<1>3. o = 0 <=> j = 1
  <2>1. CASE j = 1
    <3>1. a[0] = <<>>
      BY <1>0 DEF Spelled, Concats
    <3>2. a[j - 1] = <<>>
      BY <2>1, <3>1
    <3> QED
      BY <2>1, <3>2
  <2>2. CASE j # 1
    <3> DEFINE i == j - 1
    <3>1. i \in 1 .. Len(F)
      BY <2>2
    <3> HIDE DEF i
    <3>2. Len(a[i]) \in Nat \ {0}
      BY <1>0, <3>1, WiredAt
    <3> QED
      BY <2>2, <3>2 DEF i
  <2> QED
    BY <2>1, <2>2
<1> HIDE DEF o, w, l
<1>4. o \in 0 .. Len(w) /\ OctetAt(w, o) \in 0 .. 63 /\ OctetAt(w, o) # 0
      /\ NextRead(w, o) <= Len(w)
  <2> DEFINE n == Len(w)
             s == OctetAt(w, o)
             r == NextRead(w, o)
             k == Len(l)
             e == Len(a[j])
  <2>1. n \in Nat /\ k \in 1 .. 63
    BY <1>2
  <2>2. o \in Nat /\ o < n /\ s = k /\ r = e /\ e <= n
    BY <1>1
  <2> HIDE DEF n, s, r, k, e
  <2>3. o \in 0 .. n /\ s \in 0 .. 63 /\ s # 0 /\ r <= n
    BY ONLY <2>1, <2>2
  <2> QED
    BY ONLY <2>3, Zenon DEF n, s, r
<1>5. f[o] = ReadStep(w, o, Told(t))
  <2>1. Reads(f, w, 0)
    BY <1>0 DEF w
  <2>2. f[o] = ReadStep(w, o, f[NextRead(w, o)])
    BY ONLY <1>4, <2>1, ReadsAt
  <2> QED
    BY ONLY <1>0, <1>1, <2>2, Zenon
<1>6. ReadStep(w, o, Told(t)) =
        Told(IF OctetAt(w, o) = 0 THEN <<Dot>> \o t
             ELSE (IF o = 0 THEN <<>> ELSE <<Dot>>) \o Subarray(w, o + 1, NextRead(w, o)) \o t)
  BY ONLY <1>1, <1>2, <1>4, t \in Seq(Octet), ReadStepAt
<1>7. f[o] = Told((IF j = 1 THEN <<>> ELSE <<Dot>>) \o l \o t)
  <2>1. Subarray(w, o + 1, NextRead(w, o)) = l
    BY ONLY <1>1, Zenon
  <2>2. (IF o = 0 THEN <<>> ELSE <<Dot>>) = (IF j = 1 THEN <<>> ELSE <<Dot>>)
    BY ONLY <1>3, Zenon
  <2>3. ReadStep(w, o, Told(t)) = Told((IF o = 0 THEN <<>> ELSE <<Dot>>)
                                       \o Subarray(w, o + 1, NextRead(w, o)) \o t)
    BY ONLY <1>4, <1>6, Zenon
  <2> QED
    BY ONLY <1>5, <2>1, <2>2, <2>3, Zenon
<1> QED
  BY <1>7, Zenon DEF FoundAt, o, l

\* What is read from the label in front of k others on: the text up to its end
\* and the rest told behind it make the whole text.
LEMMA TailsTold ==
    ASSUME NEW F, NEW a, NEW d, NEW f, Rereads(F, a, d, f)
    PROVE  \A j \in 1 .. Len(F) :
             \E t \in Seq(Octet) : /\ FoundAt(f, Len(a[j]), t)
                                   /\ (d[j - 1] \o F[j]) \o t = d[Len(F)]
<1>0. /\ F \in Seq(Seq(Octet)) /\ F # <<>> /\ \A i \in 1 .. Len(F) : Len(F[i]) \in 1 .. 63
      /\ Spelled(F, a, d) /\ Reads(f, Wired(F), 0)
  BY DEF Rereads
<1> DEFINE n == Len(F)
           Ends(j) == \E t \in Seq(Octet) : /\ FoundAt(f, Len(a[j]), t)
                                            /\ (d[j - 1] \o F[j]) \o t = d[n]
           T == {k \in Nat : k < n => Ends(n - k)}
           dot == <<Dot>>
<1>1. n \in Nat \ {0}
  BY <1>0
<1>2. dot \in Seq(Octet)
  BY DEF Dot, Octet
<1>3. \A j \in 1 .. n : /\ F[j] \in Seq(Octet) /\ d[j - 1] \in Seq(Octet) /\ d[j] \in Seq(Octet)
                        /\ d[j] = (d[j - 1] \o F[j]) \o dot
  <2> DEFINE s == Dotted(F)
  <2>1. s \in Seq(Seq(Octet)) /\ Len(s) = n /\ Concats(d, s, Octet)
        /\ \A j \in 1 .. n : F[j] \in Seq(Octet) /\ s[j] = Append(F[j], Dot)
    BY <1>0, SpelledAt, Zenon DEF Spelled
  <2> HIDE DEF s, n
  <2>2. d \in [0 .. n -> Seq(Octet)] /\ \A j \in 1 .. n : d[j] = d[j - 1] \o s[j]
    BY <2>1 DEF Concats
  <2> TAKE j \in 1 .. n
  <2>3. j - 1 \in 0 .. n /\ j \in 0 .. n
    BY <1>1
  <2>4. F[j] \in Seq(Octet) /\ d[j - 1] \in Seq(Octet) /\ d[j] \in Seq(Octet)
    BY <2>1, <2>2, <2>3
  <2>5. d[j] = d[j - 1] \o Append(F[j], Dot)
    BY <2>1, <2>2
  <2> DEFINE x == d[j - 1]
             l == F[j]
  <2>6. x \in Seq(Octet) /\ l \in Seq(Octet) /\ Append(l, Dot) = l \o dot
    <3>1. Dot \in Octet /\ x \in Seq(Octet) /\ l \in Seq(Octet)
      BY <2>4 DEF Dot, Octet
    <3> HIDE DEF x, l
    <3> QED
      BY ONLY <3>1, AppendIsConcat
  <2> HIDE DEF x, l, dot
  <2>7. (x \o l) \o dot = x \o (l \o dot)
    <3>1. x \in Seq(Octet) /\ l \in Seq(Octet)
      BY <2>6
    <3> QED
      BY ONLY <1>2, <3>1, Regroups, Zenon
  <2>8. d[j] = (x \o l) \o dot
    BY ONLY <2>5, <2>6, <2>7, Zenon DEF x, l
  <2> QED
    BY <2>4, <2>8 DEF x, l
<1> HIDE DEF n, dot
<1>4. 0 \in T
  <2>1. n \in 1 .. n /\ n - 0 = n
    BY <1>1
  <2>2. FoundAt(f, Len(a[n]), dot)
    <3> DEFINE w == Wired(F)
               o == Len(a[n])
    <3>1. w \in Seq(Octet) /\ o \in Nat /\ Len(w) = o + 1 /\ OctetAt(w, o) = 0 /\ Reads(f, w, 0)
      BY <1>0, WiredEnd, Zenon DEF n
    <3> HIDE DEF w, o
    <3>2. f[o] = Told(<<Dot>>)
      BY ONLY <3>1, ZeroRead
    <3> QED
      BY ONLY <3>2, Zenon DEF o, dot, FoundAt
  <2>3. Ends(n)
    BY <1>2, <1>3, <2>1, <2>2
  <2> HIDE DEF Ends
  <2> QED
    BY <2>1, <2>3
<1>5. ASSUME NEW k \in T PROVE k + 1 \in T
  <2>1. k \in Nat /\ k + 1 \in Nat
    BY DEF T
  <2> SUFFICES ASSUME k + 1 < n PROVE Ends(n - (k + 1))
    BY <2>1 DEF T
  <2> DEFINE j == n - k
             i == n - (k + 1)
  <2>2. j \in 1 .. n /\ i \in 1 .. n /\ i = j - 1 /\ j # 1 /\ k < n
    BY <1>1, <2>1
  <2>3. Ends(j)
    <3> HIDE DEF Ends
    <3> QED
      BY <2>2 DEF T
  <2> HIDE DEF j, i
  <2>4. PICK t \in Seq(Octet) : FoundAt(f, Len(a[j]), t) /\ (d[j - 1] \o F[j]) \o t = d[n]
    BY <2>3
  <2> DEFINE l == F[j]
             r == (dot \o l) \o t
             x == d[i - 1] \o F[i]
  <2>5. /\ F[i] \in Seq(Octet) /\ d[i - 1] \in Seq(Octet) /\ l \in Seq(Octet)
        /\ d[i] = x \o dot /\ d[j - 1] = d[i]
    BY ONLY <1>3, <2>2
  <2>6. x \in Seq(Octet)
    BY ONLY <2>5, Regroups, Zenon
  <2>7. r \in Seq(Octet)
    <3> HIDE DEF l
    <3>1. dot \o l \in Seq(Octet)
      BY ONLY <1>2, <2>5, Regroups, Zenon
    <3> QED
      BY ONLY <3>1, t \in Seq(Octet), Regroups, Zenon
  <2>8. FoundAt(f, Len(a[i]), r)
    <3>1. FoundAt(f, Len(a[j - 1]), (IF j = 1 THEN <<>> ELSE <<Dot>>) \o F[j] \o t)
      <4>1. j \in 1 .. Len(F) /\ FoundAt(f, Len(a[j]), t)
        BY ONLY <2>2, <2>4, Zenon DEF n
      <4> QED
        BY <4>1, LabelTold, Zenon
    <3>2. (IF j = 1 THEN <<>> ELSE <<Dot>>) \o F[j] \o t = r
      BY ONLY <2>2, Zenon DEF dot
    <3> HIDE DEF r
    <3>3. FoundAt(f, Len(a[j - 1]), r)
      BY ONLY <3>1, <3>2, Zenon
    <3> QED
      BY ONLY <2>2, <3>3, Zenon
  <2>9. x \o r = d[n]
    <3> HIDE DEF x, l
    <3>1. x \o r = ((x \o dot) \o l) \o t
      <4> DEFINE m == dot \o l
      <4>1. m \in Seq(Octet)
        BY ONLY <1>2, <2>5, Regroups, Zenon
      <4>4. (x \o dot) \o l = x \o (dot \o l)
        <5>1. l \in Seq(Octet)
          BY ONLY <2>5, Zenon
        <5> QED
          BY ONLY <1>2, <2>6, <5>1, Regroups, Zenon
      <4>2. r = m \o t
        BY DEF r
      <4> HIDE DEF m, r
      <4>3. (x \o m) \o t = x \o (m \o t)
        BY ONLY <2>6, <4>1, t \in Seq(Octet), Regroups, Zenon
      <4> QED
        BY ONLY <4>2, <4>3, <4>4, Zenon DEF m
    <3> QED
      BY ONLY <2>4, <2>5, <3>1, Zenon DEF l
  <2> HIDE DEF r
  <2>10. Ends(i)
    BY ONLY <2>7, <2>8, <2>9, Zenon DEF x
  <2> QED
    BY <2>10 DEF i
<1>6. Nat = T
  <2>1. T \subseteq Nat
    BY DEF T
  <2> HIDE DEF T
  <2> QED
    BY <1>4, <1>5, <2>1, Induction
<1>7. ASSUME NEW j \in 1 .. n PROVE Ends(j)
  <2> DEFINE k == n - j
  <2>1. k \in Nat /\ k < n /\ n - k = j
    BY <1>1
  <2> HIDE DEF k, Ends
  <2> QED
    BY <1>6, <2>1
<1> QED
  BY <1>7 DEF n

\* Labels written out are read back as the text they were written from.
LEMMA ReadBack ==
    ASSUME NEW F \in Seq(Seq(Octet)), F # <<>>,
           \A i \in 1 .. Len(F) : Len(F[i]) \in 1 .. 63
    PROVE  wire2domain_name(Wired(F)) = Told(FlattenSeq(Dotted(F)))
<1>1. PICK a : Concats(a, Coded(F), Octet)
  <2>1. Coded(F) \in Seq(Seq(Octet))
    BY SpelledAt
  <2> QED
    BY <2>1, ConcatsExist
<1>2. PICK d : Concats(d, Dotted(F), Octet)
  <2>1. Dotted(F) \in Seq(Seq(Octet))
    BY SpelledAt
  <2> QED
    BY <2>1, ConcatsExist
<1>3. Spelled(F, a, d)
  BY <1>1, <1>2 DEF Spelled
<1>4. Wired(F) \in Seq(Octet)
  BY <1>3, WiredEnd, Zenon
<1>5. PICK f : Reads(f, Wired(F), 0) /\ wire2domain_name(Wired(F)) = f[0]
  BY <1>4, ReadIs
<1>10. Rereads(F, a, d, f)
  BY <1>3, <1>5 DEF Rereads
<1>6. PICK j \in 1 .. Len(F) : j = 1
  OBVIOUS
<1>7. PICK t \in Seq(Octet) :
        FoundAt(f, Len(a[j]), t) /\ (d[j - 1] \o F[j]) \o t = d[Len(F)]
  <2>1. \A i \in 1 .. Len(F) :
          \E u \in Seq(Octet) : /\ FoundAt(f, Len(a[i]), u)
                                /\ (d[i - 1] \o F[i]) \o u = d[Len(F)]
    BY ONLY <1>10, TailsTold, Zenon
  <2> QED
    BY ONLY <2>1, j \in 1 .. Len(F)
<1>8. FoundAt(f, Len(a[j - 1]), (IF j = 1 THEN <<>> ELSE <<Dot>>) \o F[j] \o t)
  BY <1>10, <1>7, LabelTold, Zenon
<1>9. Len(a[j - 1]) = 0 /\ d[j - 1] = <<>> /\ d[Len(F)] = FlattenSeq(Dotted(F))
  <2>1. a[0] = <<>>
    BY <1>1 DEF Concats
  <2>2. d[0] = <<>> /\ d[Len(Dotted(F))] = FlattenSeq(Dotted(F))
    BY <1>2 DEF Concats
  <2>3. Len(Dotted(F)) = Len(F)
    BY SpelledAt
  <2>4. j - 1 = 0
    BY <1>6
  <2>5. Len(a[j - 1]) = 0
    BY <2>1, <2>4
  <2> QED
    BY ONLY <2>2, <2>3, <2>4, <2>5, Zenon
<1> QED
  BY ONLY <1>5, <1>6, <1>7, <1>8, <1>9, Zenon DEF FoundAt

\* The root is written out as the terminator and read back as a dot.
LEMMA RootBack == wire2domain_name(<<0>>) = Told(<<Dot>>)
<1> DEFINE w == <<0>>
<1>1. w \in Seq(Octet) /\ Len(w) = 0 + 1 /\ w[0 + 1] = 0
  BY DEF Octet
<1> HIDE DEF w
<1>2. OctetAt(w, 0) = 0
  BY <1>1 DEF OctetAt
<1>3. PICK f : Reads(f, w, 0) /\ wire2domain_name(w) = f[0]
  BY <1>1, ReadIs
<1>4. f[0] = Told(<<Dot>>)
  BY ONLY <1>1, <1>2, <1>3, 0 \in Nat, ZeroRead
<1> QED
  BY ONLY <1>3, <1>4, Zenon DEF w

\* The text of a name is never empty and ends in a dot.
LEMMA NameText ==
    ASSUME NEW labels \in Seq(Seq(Octet))
    PROVE  /\ assemble_name(labels) \in Seq(Octet) /\ assemble_name(labels) # <<>>
           /\ assemble_name(labels)[Len(assemble_name(labels))] = Dot
<1>1. CASE labels = <<>>
  <2> DEFINE t == <<Dot>>
  <2>1. t \in Seq(Octet) /\ t # <<>> /\ t[Len(t)] = Dot
    BY DEF Dot, Octet
  <2> HIDE DEF t
  <2>2. assemble_name(labels) = t
    BY <1>1, Zenon DEF assemble_name, t
  <2> QED
    BY ONLY <2>1, <2>2
<1>2. CASE labels # <<>>
  <2>1. PICK F \in Seq(Seq(Octet)), l \in Seq(Octet) : labels = Append(F, l)
    <3> DEFINE S == Seq(Octet)
    <3>1. labels \in Seq(S)
      OBVIOUS
    <3> HIDE DEF S
    <3>2. \E F \in Seq(S) : \E l \in S : labels = Append(F, l)
      BY ONLY <1>2, <3>1, SequenceEmptyOrAppend
    <3> QED
      BY ONLY <3>2, Zenon DEF S
  <2> DEFINE x == FlattenSeq(Dotted(F))
             t == x \o Append(l, Dot)
  <2>2. assemble_name(labels) = t
    <3>1. assemble_name(labels) = FlattenSeq(Dotted(labels))
      BY <1>2, Zenon DEF assemble_name, Dotted
    <3>2. FlattenSeq(Dotted(Append(F, l))) = t
      BY DottedAppend
    <3> HIDE DEF t
    <3> QED
      BY ONLY <2>1, <3>1, <3>2
  <2>3. x \in Seq(Octet) /\ Dot \in Octet
    BY DottedAppend DEF Dot, Octet
  <2> HIDE DEF x
  <2>4. t = Append(x \o l, Dot)
    BY <2>3, AppendBehind
  <2> DEFINE y == x \o l
  <2>5. y \in Seq(Octet)
    BY <2>3, ConcatProperties
  <2> HIDE DEF y
  <2>6. /\ Append(y, Dot) \in Seq(Octet) /\ Append(y, Dot) # <<>>
        /\ Append(y, Dot)[Len(Append(y, Dot))] = Dot
    BY ONLY <2>3, <2>5, AppendEnds, Zenon
  <2> HIDE DEF t
  <2>7. assemble_name(labels) = Append(y, Dot)
    BY ONLY <2>2, <2>4 DEF y
  <2> QED
    BY ONLY <2>6, <2>7, Zenon
<1> QED
  BY <1>1, <1>2

\* A whole name written out and read back is the same text.
LEMMA RoundTrip ==
    ASSUME NEW text \in Seq(Octet), text # <<>>, text[Len(text)] = Dot,
           text[1] = Dot => text = <<Dot>>,
           encode_domain_name(text, Same).ok
    PROVE  wire2domain_name(encode_domain_name(text, Same).wire) = Told(text)
<1> DEFINE wire == encode_domain_name(text, Same).wire
<1>1. PICK F \in Seq(Seq(Octet)) :
        /\ F # <<>> /\ Pieces(text) = Append(F, <<>>)
        /\ FlattenSeq(Dotted(F)) = text
        /\ F[1] = <<>> => text[1] = Dot
        /\ text = <<Dot>> => F = << <<>> >>
  BY PiecesOf
<1>2. F = << <<>> >> => wire = <<0>>
  BY <1>1, EncodeIs
<1>3. F[1] # <<>> => /\ \A i \in 1 .. Len(F) : Len(F[i]) \in 1 .. 63
                     /\ wire = Wired(F)
  BY <1>1, EncodeIs, Zenon DEF Wired
<1> HIDE DEF wire
<1>4. CASE F[1] = <<>>
  <2>1. text = <<Dot>> /\ wire = <<0>>
    BY <1>1, <1>2, <1>4, Zenon
  <2> QED
    BY <2>1, RootBack, Zenon DEF wire
<1>5. CASE F[1] # <<>>
  <2>1. /\ \A i \in 1 .. Len(F) : Len(F[i]) \in 1 .. 63
        /\ wire = Wired(F)
    BY <1>3, <1>5, Zenon
  <2>2. wire2domain_name(Wired(F)) = Told(FlattenSeq(Dotted(F)))
    BY <1>1, <2>1, ReadBack, Zenon
  <2> QED
    BY <1>1, <2>1, <2>2, Zenon DEF wire
<1> QED
  BY <1>4, <1>5

\* Whatever octets a name is read from, the walk ends with what they mean or
\* refuses them, and what it read survives being written out and read back.
THEOREM EveryNameMeans ==
    ASSUME NEW m \in Seq(Octet)
    PROVE  ReadsMeaning(m)
<1>1. ASSUME NEW o \in 0 .. Len(m) - 1, parse_domain_name(m, o).ok
      PROVE  /\ parse_domain_name(m, o).name \in Seq(Octet)
             /\ parse_domain_name(m, o).name # <<>>
             /\ parse_domain_name(m, o).name[Len(parse_domain_name(m, o).name)] = Dot
  <2> DEFINE e == Meaning(m)
             n == parse_domain_name(m, o).name
  <2>1. e \in [Offsets(m) -> Means]
    BY MeaningSettles DEF Settled
  <2>2. o \in Offsets(m)
    BY DEF Offsets
  <2>3. n = assemble_name(e[o].labels)
    BY <1>1, ParseMeans
  <2> HIDE DEF e, n
  <2>4. e[o].labels \in Seq(Seq(Octet))
    BY <2>1, <2>2, MeansTyped
  <2> QED
    BY <2>3, <2>4, NameText, Zenon DEF n
<1>2. ASSUME NEW o \in 0 .. Len(m) - 1, parse_domain_name(m, o).ok,
             domain_name2wire_preserve_case(parse_domain_name(m, o).name).ok,
             parse_domain_name(m, o).name[1] = Dot => parse_domain_name(m, o).name = <<Dot>>
      PROVE  wire2domain_name(domain_name2wire_preserve_case(parse_domain_name(m, o).name).wire).text
               = parse_domain_name(m, o).name
  <2> DEFINE n == parse_domain_name(m, o).name
  <2>1. n \in Seq(Octet) /\ n # <<>> /\ n[Len(n)] = Dot
    BY <1>1, <1>2
  <2>2. encode_domain_name(n, Same).ok /\ (n[1] = Dot => n = <<Dot>>)
    BY <1>2, Zenon DEF domain_name2wire_preserve_case
  <2> HIDE DEF n
  <2>3. wire2domain_name(encode_domain_name(n, Same).wire) = Told(n)
    BY ONLY <2>1, <2>2, RoundTrip
  <2>4. Told(n).text = n
    BY DEF Told
  <2> QED
    BY ONLY <2>3, <2>4, Zenon DEF n, domain_name2wire_preserve_case
<1>3. ASSUME NEW o \in 0 .. Len(m) - 1
      PROVE  /\ parse_domain_name(m, o).ok <=>
                  (/\ Meaning(m)[o].known /\ Meaning(m)[o].back
                   /\ Meaning(m)[o].jumps <= MaxHops)
             /\ parse_domain_name(m, o).ok =>
                  /\ parse_domain_name(m, o).name = assemble_name(Meaning(m)[o].labels)
                  /\ parse_domain_name(m, o).next = Meaning(m)[o].end
  BY ParseMeans
<1> QED
  BY <1>2, <1>3, Zenon DEF ReadsMeaning


-----------------------------------------------------------------------------
(* A record *)

LEMMA FailedNot ==
    \A e : ~Failed(e).ok
BY DEF Failed

LEMMA Octet16 ==
    ASSUME NEW x \in 0 .. 255, NEW y \in 0 .. 255
    PROVE  x * 256 + y \in Uint16s
<1>1. x \in Int /\ y \in Int /\ 0 <= x /\ x <= 255 /\ 0 <= y /\ y <= 255
  OBVIOUS
<1>2. x * 256 \in Int /\ x * 256 >= 0 /\ x * 256 <= 65280
  BY ONLY <1>1
<1>3. x * 256 + y \in Int /\ x * 256 + y >= 0 /\ x * 256 + y <= 65535
  BY ONLY <1>1, <1>2
<1> QED
  BY ONLY <1>3 DEF Uint16s

LEMMA Uint16Typed ==
    ASSUME NEW m \in Seq(Octet), NEW i \in Nat, i + 1 < Len(m)
    PROVE  Uint16At(m, i) \in Nat /\ Uint16At(m, i) \in Uint16s
<1>1. i \in Nat /\ i < Len(m) /\ i + 1 \in Nat
  <2>1. Len(m) \in Nat
    OBVIOUS
  <2> QED
    BY ONLY <2>1, i \in Nat, i + 1 < Len(m)
<1>2. OctetAt(m, i) \in 0 .. 255 /\ OctetAt(m, i + 1) \in 0 .. 255
  BY ONLY <1>1, i + 1 < Len(m), m \in Seq(Octet), OctetTyped, Zenon
<1>3. PICK x \in 0 .. 255, y \in 0 .. 255 : x = OctetAt(m, i) /\ y = OctetAt(m, i + 1)
  BY ONLY <1>2, Zenon
<1> DEFINE v == x * 256 + y
<1>4. v \in Uint16s
  BY ONLY x \in 0 .. 255, y \in 0 .. 255, Octet16
<1>5. v \in Nat
  BY ONLY x \in 0 .. 255, y \in 0 .. 255
<1>6. Uint16At(m, i) = v
  BY <1>3 DEF Uint16At
<1> HIDE DEF v
<1> QED
  BY ONLY <1>4, <1>5, <1>6

LEMMA PrefixUint16 ==
    ASSUME NEW m \in Seq(Octet), NEW whole \in Seq(Octet), Prefix(m, whole), NEW i \in Nat, i + 1 < Len(m)
    PROVE  Uint16At(whole, i) = Uint16At(m, i)
<1>1. OctetAt(whole, i) = OctetAt(m, i)
  <2>1. i < Len(m)
    OBVIOUS
  <2> QED BY <2>1, PrefixOctet
<1>2. OctetAt(whole, i + 1) = OctetAt(m, i + 1)
  <2> DEFINE j == i + 1
  <2>1. j \in Nat /\ j < Len(m)
    OBVIOUS
  <2> HIDE DEF j
  <2>2. OctetAt(whole, j) = OctetAt(m, j)
    BY <2>1, PrefixOctet
  <2> QED
    BY <2>2 DEF j
<1> QED
  BY <1>1, <1>2, Zenon DEF Uint16At

\* A record that is read ends behind its start and in the message, and so does
\* its RDATA.
LEMMA RecordInReach ==
    ASSUME NEW m \in Seq(Octet), NEW at \in Nat, parse_rr(m, at).ok
    PROVE  /\ parse_rr(m, at).next \in Nat
           /\ at < parse_rr(m, at).next /\ parse_rr(m, at).next <= Len(m)
           /\ parse_rr(m, at).rr.start + parse_rr(m, at).rr.len <= Len(m)
<1> DEFINE owner == parse_domain_name(m, at)
           fixed == owner.next
           start == fixed + 10
           len == Uint16At(m, fixed + 8)
           end == start + len
           rr == [name |-> owner.name, type |-> Uint16At(m, fixed), class |-> Uint16At(m, fixed + 2),
                  ttl |-> Uint32At(m, fixed + 4), start |-> start, len |-> end - start]
<1>1. parse_rr(m, at) = IF ~owner.ok \/ start > Len(m) THEN Failed("fixed fields")
                        ELSE IF ~(end <= Len(m)) THEN Failed("rdata")
                        ELSE [ok |-> TRUE, next |-> end, rr |-> rr]
  BY DEF parse_rr, End, Fits
<1>2. owner.ok /\ ~(start > Len(m)) /\ end <= Len(m)
  <2> HIDE DEF owner, start, end, rr
  <2> QED
    BY <1>1, FailedNot, Zenon
<1>3. fixed \in Nat /\ at < fixed /\ fixed <= Len(m) /\ Len(m) \in Nat
  BY <1>2, ParseInReach
<1> HIDE DEF fixed
<1>4. len \in Nat
  <2> DEFINE i == fixed + 8
  <2>1. i \in Nat /\ i + 1 < Len(m)
    BY <1>2, <1>3
  <2> HIDE DEF i
  <2>2. Uint16At(m, i) \in Nat
    BY <2>1, Uint16Typed
  <2> QED
    BY <2>2 DEF i
<1> HIDE DEF len
<1>5. end \in Nat /\ at < end /\ start + (end - start) = end
  BY <1>3, <1>4
<1>6. parse_rr(m, at) = [ok |-> TRUE, next |-> end, rr |-> rr]
  BY <1>1, <1>2, Zenon
<1>7. rr.start = start /\ rr.len = end - start
  OBVIOUS
<1> HIDE DEF rr, end, start
<1>8. parse_rr(m, at).next = end /\ parse_rr(m, at).rr = rr
  BY <1>6
<1> QED
  BY ONLY <1>2, <1>5, <1>7, <1>8

RdataEnd(b, owner) == End(b, owner.next + 10, Uint16At(b, owner.next + 8))

RecordOf(b, owner) ==
    [ok |-> TRUE, next |-> RdataEnd(b, owner),
     rr |-> [name |-> owner.name, type |-> Uint16At(b, owner.next),
             class |-> Uint16At(b, owner.next + 2), ttl |-> Uint32At(b, owner.next + 4),
             start |-> owner.next + 10, len |-> RdataEnd(b, owner) - (owner.next + 10)]]

LEMMA RecordIs ==
    \A b, at, owner : owner = parse_domain_name(b, at) =>
        parse_rr(b, at) = IF ~owner.ok \/ owner.next + 10 > Len(b) THEN Failed("fixed fields")
                          ELSE IF ~(RdataEnd(b, owner) <= Len(b)) THEN Failed("rdata")
                          ELSE RecordOf(b, owner)
BY DEF parse_rr, Fits, RdataEnd, RecordOf

\* It is the same record when more follows.
LEMMA PrefixRecord ==
    ASSUME NEW m \in Seq(Octet), NEW whole \in Seq(Octet), Prefix(m, whole), NEW at \in Nat,
           parse_rr(m, at).ok
    PROVE  parse_rr(whole, at) = parse_rr(m, at)
<1> DEFINE owner == parse_domain_name(m, at)
           fixed == owner.next
           start == fixed + 10
           n == Len(m)
           k == Len(whole)
<1>1. parse_rr(m, at) = IF ~owner.ok \/ start > n THEN Failed("fixed fields")
                        ELSE IF ~(RdataEnd(m, owner) <= n) THEN Failed("rdata")
                        ELSE RecordOf(m, owner)
  BY RecordIs, Zenon
<1>2. owner.ok /\ ~(start > n) /\ RdataEnd(m, owner) <= n
  <2> HIDE DEF owner, start, n
  <2> QED
    BY <1>1, FailedNot, Zenon
<1>3. parse_domain_name(whole, at) = owner
  BY <1>2, PrefixParse
<1>4. fixed \in Nat /\ n \in Nat /\ k \in Nat /\ n <= k
  BY <1>2, ParseInReach DEF Prefix
<1>5. parse_rr(whole, at) = IF ~owner.ok \/ start > k THEN Failed("fixed fields")
                            ELSE IF ~(RdataEnd(whole, owner) <= k) THEN Failed("rdata")
                            ELSE RecordOf(whole, owner)
  <2> HIDE DEF owner
  <2> QED BY <1>3, RecordIs, Zenon
<1> HIDE DEF fixed, n, k, owner
<1>6. \A i \in Nat : i <= fixed + 8 => Uint16At(whole, i) = Uint16At(m, i)
  <2> SUFFICES ASSUME NEW i \in Nat, i <= fixed + 8 PROVE Uint16At(whole, i) = Uint16At(m, i)
    OBVIOUS
  <2>1. i + 1 < n
    BY <1>2, <1>4
  <2> QED
    BY <2>1, PrefixUint16 DEF n
<1>7. /\ Uint16At(whole, fixed) = Uint16At(m, fixed)
      /\ Uint16At(whole, fixed + 2) = Uint16At(m, fixed + 2)
      /\ Uint16At(whole, fixed + 4) = Uint16At(m, fixed + 4)
      /\ Uint16At(whole, fixed + 4 + 2) = Uint16At(m, fixed + 4 + 2)
      /\ Uint16At(whole, fixed + 8) = Uint16At(m, fixed + 8)
  <2>1. /\ fixed + 2 \in Nat /\ fixed + 4 \in Nat /\ fixed + 4 + 2 \in Nat /\ fixed + 8 \in Nat
        /\ fixed <= fixed + 8 /\ fixed + 2 <= fixed + 8 /\ fixed + 4 <= fixed + 8
        /\ fixed + 4 + 2 <= fixed + 8 /\ fixed + 8 <= fixed + 8
    BY <1>4
  <2> QED
    BY <1>4, <1>6, <2>1, Zenon
<1>8. Uint32At(whole, fixed + 4) = Uint32At(m, fixed + 4)
  BY <1>7, Zenon DEF Uint32At
<1>9. RdataEnd(whole, owner) = RdataEnd(m, owner)
  BY <1>7, Zenon DEF RdataEnd, End, fixed
<1>10. RecordOf(whole, owner) = RecordOf(m, owner)
  BY <1>7, <1>8, <1>9, Zenon DEF RecordOf, fixed
<1>11. ~(start > k) /\ RdataEnd(m, owner) <= k
  <2>1. RdataEnd(m, owner) \in Nat
    <3>1. Uint16At(m, fixed + 8) \in Nat
      <4> DEFINE i == fixed + 8
      <4>1. i \in Nat /\ i + 1 < Len(m)
        BY <1>2, <1>4 DEF n
      <4> HIDE DEF i
      <4>2. Uint16At(m, i) \in Nat
        BY <4>1, Uint16Typed
      <4> QED
        BY <4>2 DEF i
    <3> QED
      BY <1>4, <3>1 DEF RdataEnd, End, fixed
  <2> QED
    BY <1>2, <1>4, <2>1
<1> HIDE DEF start
<1> QED
  BY ONLY <1>1, <1>2, <1>5, <1>9, <1>10, <1>11, Zenon

-----------------------------------------------------------------------------
(* The records of a section are counted *)

LEMMA CountTyped ==
    ASSUME NEW m \in Seq(Octet), 12 <= Len(m), NEW s \in 1 .. 3
    PROVE  Count(m, s) \in Nat /\ Count(m, s) \in Uint16s
<1> DEFINE i == 4 + 2 * s
<1>1. i \in Nat /\ i + 1 < Len(m)
  OBVIOUS
<1> HIDE DEF i
<1>2. Uint16At(m, i) \in Nat /\ Uint16At(m, i) \in Uint16s
  BY <1>1, Uint16Typed
<1> QED
  BY <1>2 DEF Count, i

LEMMA PrefixCount ==
    ASSUME NEW m \in Seq(Octet), NEW whole \in Seq(Octet), Prefix(m, whole), 12 <= Len(m), NEW s \in 1 .. 3
    PROVE  Count(whole, s) = Count(m, s)
<1> DEFINE i == 4 + 2 * s
<1>1. i \in Nat /\ i + 1 < Len(m)
  OBVIOUS
<1> HIDE DEF i
<1>2. Uint16At(whole, i) = Uint16At(m, i)
  BY <1>1, PrefixUint16
<1> QED
  BY <1>2 DEF Count, i

InSection(r, s) == {i \in DOMAIN r : r[i].section = s}

LEMMA AppendEntry ==
    ASSUME NEW S, NEW r \in Seq(S), NEW e
    PROVE  /\ Append(r, e) \in Seq(S \cup {e})
           /\ Len(r) \in Nat /\ DOMAIN r = 1 .. Len(r)
           /\ Len(Append(r, e)) = Len(r) + 1
           /\ DOMAIN Append(r, e) = 1 .. Len(r) + 1
           /\ \A i \in 1 .. Len(r) : Append(r, e)[i] = r[i]
           /\ Append(r, e)[Len(r) + 1] = e
<1> DEFINE T == S \cup {e}
<1>1. r \in Seq(T) /\ e \in T
  OBVIOUS
<1> HIDE DEF T
<1>2. /\ Append(r, e) \in Seq(T) /\ Len(Append(r, e)) = Len(r) + 1
      /\ Len(r) \in Nat /\ DOMAIN r = 1 .. Len(r)
      /\ DOMAIN Append(r, e) = 1 .. Len(r) + 1
  BY ONLY <1>1
<1>3. /\ \A i \in 1 .. Len(r) : Append(r, e)[i] = r[i]
      /\ Append(r, e)[Len(r) + 1] = e
  BY ONLY <1>1
<1> QED
  BY ONLY <1>2, <1>3, Zenon DEF T

LEMMA InSectionGrows ==
    ASSUME NEW S, NEW r \in Seq(S), NEW e, NEW s, e.section = s
    PROVE  /\ Cardinality(InSection(r, s)) \in Nat
           /\ Cardinality(InSection(Append(r, e), s)) = Cardinality(InSection(r, s)) + 1
<1> DEFINE a == Append(r, e)
           n == Len(r)
           I == InSection(r, s)
<1>1. /\ n \in Nat /\ DOMAIN r = 1 .. n /\ DOMAIN a = 1 .. n + 1
      /\ \A i \in 1 .. n : a[i] = r[i]
      /\ a[n + 1] = e
  BY AppendEntry
<1> HIDE DEF a, n
<1>2. InSection(a, s) = I \cup {n + 1} /\ n + 1 \notin I /\ I \subseteq 1 .. n
  <2>1. a[n + 1].section = s
    BY <1>1
  <2>2. 1 .. n + 1 = (1 .. n) \cup {n + 1} /\ n + 1 \notin 1 .. n
    BY ONLY <1>1
  <2>3. \A i \in 1 .. n : (a[i].section = s) <=> (r[i].section = s)
    BY ONLY <1>1, Zenon
  <2> QED
    BY ONLY <1>1, <2>1, <2>2, <2>3, Zenon DEF InSection, I
<1>3. IsFiniteSet(1 .. n)
  BY <1>1, FS_Interval
<1> HIDE DEF I
<1>4. IsFiniteSet(I)
  BY <1>2, <1>3, FS_Subset
<1>5. Cardinality(I) \in Nat
  BY <1>4, FS_CardinalityType
<1>6. Cardinality(I \cup {n + 1}) = Cardinality(I) + 1
  BY <1>2, <1>4, FS_AddElement
<1> QED
  BY <1>2, <1>5, <1>6 DEF I, a

LEMMA InSectionNone ==
    ASSUME NEW r, NEW s, \A i \in DOMAIN r : r[i].section # s
    PROVE  Cardinality(InSection(r, s)) = 0
<1>1. InSection(r, s) = {}
  BY DEF InSection
<1> QED
  BY <1>1, FS_EmptySet

-----------------------------------------------------------------------------
(* Types *)

\* The header is there once it has been read, nothing is read before the
\* records, and no record is of a section yet to come.
Shape ==
    /\ msg \in Seq(Octet)
    /\ phase \notin {"header", "rejected"} => 12 <= Len(msg)
    /\ \E S : rrs \in Seq(S)
    /\ phase \in {"header", "question"} => section = 0 /\ rrs = <<>>
    /\ phase = "records" => section > 0
    /\ \A i \in DOMAIN rrs : rrs[i].section \in 1 .. section

Inv == TypeOK /\ Shape

LEMMA InvInit == Init => Inv
<1> SUFFICES ASSUME Init PROVE Inv
  OBVIOUS
<1>1. PICK arrival \in Arrivals : msg = arrival.msg /\ sent = arrival.sent
  BY DEF Init
<1>2. msg \in Seq(Octet)
  BY <1>1, ArrivalAssumption, Zenon
<1>3. /\ phase = "header" /\ pos = 0 /\ section = 0 /\ left = 0 /\ rrs = <<>>
  BY DEF Init
<1>4. Len(msg) \in Nat /\ 0 \in Uint16s
  BY <1>2 DEF Uint16s
<1>5. TypeOK
  BY <1>3, <1>4 DEF TypeOK
<1>6. \E S : rrs \in Seq(S)
  <2>1. rrs \in Seq({})
    BY <1>3
  <2> QED
    BY <2>1
<1>7. Shape
  BY <1>2, <1>3, <1>6 DEF Shape
<1> QED
  BY <1>5, <1>7 DEF Inv

LEMMA InvReject ==
    ASSUME Inv, Reject, UNCHANGED <<msg, sent>>
    PROVE  Inv'
<1>1. /\ phase' = "rejected" /\ pos' = pos /\ section' = section /\ left' = left /\ rrs' = rrs
      /\ msg' = msg
  BY DEF Reject
<1>2. TypeOK'
  BY <1>1 DEF Inv, TypeOK
<1>3. Shape'
  BY <1>1 DEF Inv, Shape
<1> QED
  BY <1>2, <1>3 DEF Inv

LEMMA InvHeader ==
    ASSUME Inv, Header
    PROVE  Inv'
<1>1. phase = "header" /\ UNCHANGED <<msg, sent>>
  BY DEF Header
<1>2. CASE Reject
  BY <1>1, <1>2, InvReject
<1>3. CASE ~Reject
  <2>1. /\ ~(Len(msg) < 12) /\ phase' = "question" /\ pos' = 12
        /\ section' = section /\ left' = left /\ rrs' = rrs /\ msg' = msg
    BY <1>1, <1>3 DEF Header
  <2>2. msg \in Seq(Octet) /\ Len(msg) \in Nat /\ section = 0 /\ rrs = <<>>
    BY <1>1 DEF Inv, Shape
  <2>3. 12 <= Len(msg) /\ pos' \in 0 .. Len(msg)
    BY <2>1, <2>2
  <2>4. TypeOK'
    BY <2>1, <2>2, <2>3 DEF Inv, TypeOK
  <2>5. Shape'
    BY <2>1, <2>2, <2>3 DEF Inv, Shape
  <2> QED
    BY <2>4, <2>5 DEF Inv
<1> QED
  BY <1>2, <1>3

LEMMA InvQuestion ==
    ASSUME Inv, Question
    PROVE  Inv'
<1> DEFINE qname == parse_domain_name(msg, pos)
<1>1. phase = "question" /\ UNCHANGED <<msg, sent>>
  BY DEF Question
<1>2. CASE Reject
  BY <1>1, <1>2, InvReject
<1>3. CASE ~Reject
  <2>1. /\ qname.ok /\ ~(qname.next + 4 > Len(msg)) /\ phase' = "records"
        /\ pos' = qname.next + 4 /\ section' = 1 /\ left' = Count(msg, 1) /\ rrs' = rrs /\ msg' = msg
    BY <1>1, <1>3 DEF Question
  <2>2. /\ msg \in Seq(Octet) /\ Len(msg) \in Nat /\ 12 <= Len(msg) /\ rrs = <<>>
        /\ pos \in Nat
    BY <1>1 DEF Inv, Shape, TypeOK
  <2>3. qname.next \in Nat
    BY <2>1, <2>2, ParseInReach
  <2>4. pos' \in 0 .. Len(msg)
    <3> HIDE DEF qname
    <3> QED BY <2>1, <2>2, <2>3
  <2>5. left' \in Uint16s /\ left' \in Nat
    BY <2>1, <2>2, CountTyped
  <2>6. Cardinality(InSection(rrs', section')) + left' = Count(msg', section')
    <3>1. Cardinality(InSection(rrs', section')) = 0
      BY <2>1, <2>2, InSectionNone
    <3> QED
      BY <2>1, <2>5, <3>1
  <2> HIDE DEF qname
  <2>7. TypeOK'
    BY <2>1, <2>2, <2>4, <2>5, <2>6 DEF TypeOK, InSection
  <2>8. Shape'
    BY <2>1, <2>2 DEF Inv, Shape
  <2> QED
    BY <2>7, <2>8 DEF Inv
<1> QED
  BY <1>2, <1>3

LEMMA InvRecord ==
    ASSUME Inv, Record
    PROVE  Inv'
<1> DEFINE parsed == parse_rr(msg, pos)
           e == [section |-> section, raw |-> parsed.rr]
<1>1. phase = "records" /\ left > 0 /\ UNCHANGED <<msg, sent>>
  BY DEF Record
<1>2. CASE Reject
  BY <1>1, <1>2, InvReject
<1>3. CASE ~Reject
  <2>1. /\ parsed.ok /\ pos' = parsed.next /\ left' = left - 1 /\ rrs' = Append(rrs, e)
        /\ phase' = phase /\ section' = section /\ msg' = msg
    BY <1>1, <1>3 DEF Record
  <2>2. /\ msg \in Seq(Octet) /\ 12 <= Len(msg) /\ pos \in Nat /\ section \in 1 .. 3
        /\ left \in Uint16s
        /\ \A i \in DOMAIN rrs : /\ rrs[i].section \in 1 .. section
                                 /\ rrs[i].raw.start + rrs[i].raw.len <= Len(msg)
        /\ Cardinality(InSection(rrs, section)) + left = Count(msg, section)
    BY <1>1 DEF Inv, Shape, TypeOK, InSection
  <2>3. /\ parsed.next \in Nat /\ parsed.next <= Len(msg)
        /\ parsed.rr.start + parsed.rr.len <= Len(msg)
    BY <2>1, <2>2, RecordInReach
  <2>4. PICK S : rrs \in Seq(S)
    BY DEF Inv, Shape
  <2> HIDE DEF parsed
  <2>5. e.section = section /\ e.raw = parsed.rr
    OBVIOUS
  <2> HIDE DEF e
  <2>6. /\ rrs' \in Seq(S \cup {e}) /\ Len(rrs) \in Nat
        /\ DOMAIN rrs = 1 .. Len(rrs) /\ DOMAIN rrs' = 1 .. Len(rrs) + 1
        /\ \A i \in 1 .. Len(rrs) : rrs'[i] = rrs[i]
        /\ rrs'[Len(rrs) + 1] = e
    BY <2>1, <2>4, AppendEntry
  <2>7. /\ Cardinality(InSection(rrs, section)) \in Nat
        /\ Cardinality(InSection(rrs', section)) = Cardinality(InSection(rrs, section)) + 1
    BY <2>1, <2>4, <2>5, InSectionGrows
  <2>8. \A i \in DOMAIN rrs' : /\ rrs'[i].section \in 1 .. section
                               /\ rrs'[i].raw.start + rrs'[i].raw.len <= Len(msg)
    <3> SUFFICES ASSUME NEW i \in 1 .. Len(rrs) + 1
                 PROVE  /\ rrs'[i].section \in 1 .. section
                        /\ rrs'[i].raw.start + rrs'[i].raw.len <= Len(msg)
      BY <2>6
    <3>1. CASE i \in 1 .. Len(rrs)
      BY <2>2, <2>6, <3>1
    <3>2. CASE i = Len(rrs) + 1
      <4>1. section \in 1 .. section
        BY <2>2
      <4> QED
        BY <2>3, <2>5, <2>6, <3>2, <4>1
    <3> QED
      BY <2>6, <3>1, <3>2
  <2>9. /\ pos' \in 0 .. Len(msg) /\ left' \in Uint16s
        /\ Cardinality(InSection(rrs', section)) + left' = Count(msg, section)
    <3>1. left \in Nat /\ left - 1 \in Nat /\ left - 1 \in Uint16s
      BY <1>1, <2>2 DEF Uint16s
    <3>2. pos' \in 0 .. Len(msg)
      BY <2>1, <2>2, <2>3
    <3> QED
      BY <2>1, <2>2, <2>7, <3>1, <3>2
  <2>10. TypeOK'
    <3>1. Cardinality(InSection(rrs', section')) + left' = Count(msg', section')
      BY <2>1, <2>9
    <3>2. \A i \in DOMAIN rrs' : rrs'[i].raw.start + rrs'[i].raw.len <= Len(msg')
      BY <2>1, <2>8
    <3>3. /\ phase' = "records" /\ pos' \in 0 .. Len(msg') /\ section' \in 0 .. 3 /\ left' \in Uint16s
      BY <1>1, <2>1, <2>2, <2>9
    <3> QED
      BY <3>1, <3>2, <3>3 DEF TypeOK, InSection
  <2>11. Shape'
    <3>1. \A i \in DOMAIN rrs' : rrs'[i].section \in 1 .. section'
      BY <2>1, <2>8
    <3>2. /\ phase' = "records" /\ msg' \in Seq(Octet) /\ 12 <= Len(msg') /\ section' > 0
      BY <1>1, <2>1, <2>2
    <3>3. \E T : rrs' \in Seq(T)
      BY <2>6, Zenon
    <3> QED
      BY <3>1, <3>2, <3>3 DEF Shape
  <2> QED
    BY <2>10, <2>11 DEF Inv
<1> QED
  BY <1>2, <1>3

LEMMA InvNextSection ==
    ASSUME Inv, NextSection
    PROVE  Inv'
<1>1. /\ phase = "records" /\ left = 0 /\ msg' = msg /\ pos' = pos /\ rrs' = rrs
  BY DEF NextSection
<1>2. /\ msg \in Seq(Octet) /\ 12 <= Len(msg) /\ section \in 1 .. 3
      /\ \A i \in DOMAIN rrs : rrs[i].section \in 1 .. section
  BY <1>1 DEF Inv, Shape, TypeOK
<1>3. CASE section < 3
  <2>1. section' = section + 1 /\ left' = Count(msg, section + 1) /\ phase' = phase
    BY <1>3 DEF NextSection
  <2>2. section + 1 \in 1 .. 3
    BY <1>2, <1>3
  <2>3. left' \in Uint16s /\ left' \in Nat
    BY <1>2, <2>1, <2>2, CountTyped
  <2>4. Cardinality(InSection(rrs, section + 1)) = 0
    <3>1. \A i \in DOMAIN rrs : rrs[i].section # section + 1
      BY <1>2
    <3> QED
      BY <3>1, InSectionNone
  <2>5. Cardinality(InSection(rrs', section')) + left' = Count(msg', section')
    BY <1>1, <2>1, <2>3, <2>4
  <2>6. TypeOK'
    BY <1>1, <2>1, <2>2, <2>3, <2>5 DEF Inv, TypeOK, InSection
  <2>7. \A i \in DOMAIN rrs : rrs[i].section \in 1 .. section'
    BY <1>2, <2>1
  <2>8. Shape'
    BY <1>1, <1>2, <2>1, <2>2, <2>7 DEF Inv, Shape
  <2> QED
    BY <2>6, <2>8 DEF Inv
<1>4. CASE ~(section < 3)
  <2>1. section' = section /\ left' = left /\ phase' = "decode"
    BY <1>4 DEF NextSection
  <2>2. TypeOK'
    BY <1>1, <2>1 DEF Inv, TypeOK
  <2>3. Shape'
    BY <1>1, <1>2, <2>1 DEF Inv, Shape
  <2> QED
    BY <2>2, <2>3 DEF Inv
<1> QED
  BY <1>3, <1>4

LEMMA InvToResponse ==
    ASSUME Inv, ToResponse
    PROVE  Inv'
<1>1. phase = "decode" /\ UNCHANGED <<msg, sent>>
  BY DEF ToResponse
<1>2. CASE Reject
  BY <1>1, <1>2, InvReject
<1>3. CASE ~Reject
  <2>1. /\ phase' = "response" /\ pos' = pos /\ section' = section /\ left' = left
        /\ rrs' = rrs /\ msg' = msg
    BY <1>1, <1>3 DEF ToResponse
  <2>2. TypeOK'
    BY <2>1 DEF Inv, TypeOK
  <2>3. Shape'
    BY <1>1, <2>1 DEF Inv, Shape
  <2> QED
    BY <2>2, <2>3 DEF Inv
<1> QED
  BY <1>2, <1>3

LEMMA InvNext == Inv /\ [Next]_vars => Inv'
<1> SUFFICES ASSUME Inv, [Next]_vars PROVE Inv'
  OBVIOUS
<1>1. CASE UNCHANGED vars
  <2>1. /\ phase' = phase /\ pos' = pos /\ section' = section /\ left' = left
        /\ rrs' = rrs /\ msg' = msg
    BY <1>1 DEF vars
  <2>2. TypeOK'
    BY <2>1 DEF Inv, TypeOK
  <2>3. Shape'
    BY <2>1 DEF Inv, Shape
  <2> QED
    BY <2>2, <2>3 DEF Inv
<1> QED
  BY <1>1, InvHeader, InvQuestion, InvRecord, InvNextSection, InvToResponse DEF Next

\* The cursor never leaves the message, every record read lies in it, and of no
\* section are more records read than the header counts, whatever octets arrive.
THEOREM TypeCorrect == Spec => []TypeOK
<1>1. Inv => TypeOK
  BY DEF Inv
<1> QED
  BY <1>1, InvInit, InvNext, PTL DEF Spec

-----------------------------------------------------------------------------
(* A message that lost its end *)

\* What the header counts up to a section.
Announced(m, s) ==
    IF s = 1 THEN Count(m, 1)
    ELSE IF s = 2 THEN Count(m, 1) + Count(m, 2)
    ELSE Count(m, 1) + Count(m, 2) + Count(m, 3)

LEMMA CutFacts ==
    ASSUME NEW m \in Seq(Octet), 12 <= Len(m), NEW whole, NEW ends, CutShort(m, whole, ends)
    PROVE  /\ whole \in Seq(Octet) /\ Prefix(m, whole) /\ Len(m) < Len(whole)
           /\ ends \in Seq(Nat) /\ Len(ends) = 1 + Announced(m, 3) /\ Announced(m, 3) \in Nat
           /\ ends[1] = parse_domain_name(whole, 12).next + 4
           /\ \A k \in 1 .. Len(ends) - 1 : ends[k + 1] = parse_rr(whole, ends[k]).next
           /\ ends[Len(ends)] = Len(whole)
<1>1. /\ whole \in Seq(Octet) /\ ends \in Seq(Nat) /\ Complete(whole, ends)
      /\ Len(m) < Len(whole) /\ m = SubSeq(whole, 1, Len(m))
  BY DEF CutShort
<1>2. Prefix(m, whole)
  <2>1. Len(m) <= Len(whole)
    BY <1>1
  <2> QED
    BY <1>1, <2>1 DEF Prefix
<1>3. /\ Count(m, 1) \in Nat /\ Count(m, 2) \in Nat /\ Count(m, 3) \in Nat
      /\ Count(whole, 1) = Count(m, 1) /\ Count(whole, 2) = Count(m, 2)
      /\ Count(whole, 3) = Count(m, 3)
  <2>1. 1 \in 1 .. 3 /\ 2 \in 1 .. 3 /\ 3 \in 1 .. 3
    OBVIOUS
  <2>2. /\ \A s \in 1 .. 3 : Count(m, s) \in Nat
        /\ \A s \in 1 .. 3 : Count(whole, s) = Count(m, s)
    BY <1>1, <1>2, CountTyped, PrefixCount
  <2> QED
    BY <2>1, <2>2, Zenon
<1>4. /\ Len(ends) = 1 + Count(whole, 1) + Count(whole, 2) + Count(whole, 3)
      /\ ends[1] = parse_domain_name(whole, 12).next + 4
      /\ \A k \in 1 .. Len(ends) - 1 : ends[k + 1] = parse_rr(whole, ends[k]).next
      /\ ends[Len(ends)] = Len(whole)
  BY <1>1 DEF Complete, Last
<1>5. Len(ends) = 1 + Announced(m, 3) /\ Announced(m, 3) \in Nat
  BY <1>3, <1>4 DEF Announced
<1>6. whole \in Seq(Octet) /\ ends \in Seq(Nat) /\ Len(m) < Len(whole)
  BY <1>1
<1> QED
  BY ONLY <1>2, <1>4, <1>5, <1>6

\* The cursor is where the message the sender wrote has a record end, and as
\* many have been read as it has up to there.
CutInv ==
    sent.kind = "cut" =>
        /\ CutShort(msg, sent.whole, sent.ends)
        /\ phase \notin {"decode", "response"}
        /\ phase = "question" => pos = 12
        /\ phase = "records" => /\ pos = sent.ends[Len(rrs) + 1]
                                /\ Len(rrs) + left = Announced(msg, section)

LEMMA CutInit == Init => CutInv
<1> SUFFICES ASSUME Init PROVE CutInv
  OBVIOUS
<1>1. PICK arrival \in Arrivals : msg = arrival.msg /\ sent = arrival.sent
  BY DEF Init
<1>2. sent.kind = "cut" => CutShort(msg, sent.whole, sent.ends)
  BY <1>1, ArrivalAssumption, Zenon
<1>3. phase = "header"
  BY DEF Init
<1> QED
  BY <1>2, <1>3 DEF CutInv

LEMMA CutReject ==
    ASSUME CutInv, Reject, UNCHANGED <<msg, sent>>
    PROVE  CutInv'
<1>1. phase' = "rejected" /\ msg' = msg /\ sent' = sent
  BY DEF Reject
<1> QED
  BY <1>1 DEF CutInv

LEMMA CutHeader ==
    ASSUME CutInv, Header
    PROVE  CutInv'
<1>1. UNCHANGED <<msg, sent>> /\ msg' = msg /\ sent' = sent
  BY DEF Header
<1>2. CASE Reject
  BY <1>1, <1>2, CutReject
<1>3. CASE ~Reject
  <2>1. phase' = "question" /\ pos' = 12
    BY <1>3 DEF Header
  <2> QED
    BY <1>1, <2>1 DEF CutInv
<1> QED
  BY <1>2, <1>3

LEMMA CutQuestion ==
    ASSUME Inv, CutInv, Question
    PROVE  CutInv'
<1> DEFINE qname == parse_domain_name(msg, pos)
           ends == sent.ends
           whole == sent.whole
<1>1. phase = "question" /\ UNCHANGED <<msg, sent>> /\ msg' = msg /\ sent' = sent
  BY DEF Question
<1>2. CASE Reject
  BY <1>1, <1>2, CutReject
<1>3. CASE ~Reject
  <2> SUFFICES ASSUME sent.kind = "cut"
               PROVE  /\ phase' = "records" /\ CutShort(msg, whole, ends)
                      /\ pos' = ends[Len(rrs') + 1]
                      /\ Len(rrs') + left' = Announced(msg, section')
    BY <1>1 DEF CutInv
  <2>1. /\ qname.ok /\ phase' = "records" /\ pos' = qname.next + 4 /\ section' = 1
        /\ left' = Count(msg, 1) /\ rrs' = rrs
    BY <1>1, <1>3 DEF Question
  <2>2. /\ msg \in Seq(Octet) /\ 12 <= Len(msg) /\ rrs = <<>> /\ pos = 12
        /\ CutShort(msg, whole, ends)
    BY <1>1 DEF Inv, Shape, CutInv
  <2>3. /\ whole \in Seq(Octet) /\ Prefix(msg, whole)
        /\ ends[1] = parse_domain_name(whole, 12).next + 4
    BY ONLY <2>2, CutFacts
  <2>4. parse_domain_name(whole, 12) = qname
    <3>1. 12 \in Nat /\ parse_domain_name(msg, 12).ok
      BY <2>1, <2>2
    <3>2. parse_domain_name(whole, 12) = parse_domain_name(msg, 12)
      BY <2>2, <2>3, <3>1, PrefixParse
    <3> QED
      BY <2>2, <3>2
  <2>5. pos' = ends[1]
    BY <2>1, <2>3, <2>4
  <2>6. Count(msg, 1) \in Nat
    BY <2>2, CountTyped
  <2>7. Len(rrs') = 0
    BY <2>1, <2>2
  <2>8. Len(rrs') + 1 = 1 /\ Len(rrs') + left' = Count(msg, 1)
    BY <2>1, <2>6, <2>7
  <2>9. Announced(msg, section') = Count(msg, 1)
    BY <2>1 DEF Announced
  <2> QED
    BY <2>1, <2>2, <2>5, <2>8, <2>9, Zenon
<1> QED
  BY <1>2, <1>3

LEMMA AnnouncedGrows ==
    ASSUME NEW m \in Seq(Octet), 12 <= Len(m), NEW s \in 1 .. 3
    PROVE  /\ Announced(m, s) \in Nat /\ Announced(m, s) <= Announced(m, 3)
           /\ s < 3 => Announced(m, s + 1) = Announced(m, s) + Count(m, s + 1)
<1>1. /\ Count(m, 1) \in Nat /\ Count(m, 2) \in Nat /\ Count(m, 3) \in Nat
  <2>1. 1 \in 1 .. 3 /\ 2 \in 1 .. 3 /\ 3 \in 1 .. 3
    OBVIOUS
  <2>2. \A t \in 1 .. 3 : Count(m, t) \in Nat
    BY CountTyped
  <2> QED
    BY <2>1, <2>2, Zenon
<1>2. s = 1 \/ s = 2 \/ s = 3
  OBVIOUS
<1> QED
  BY <1>1, <1>2 DEF Announced

LEMMA CutRecord ==
    ASSUME Inv, CutInv, Record
    PROVE  CutInv'
<1> DEFINE parsed == parse_rr(msg, pos)
           ends == sent.ends
           whole == sent.whole
           n == Len(rrs)
<1>1. phase = "records" /\ left > 0 /\ UNCHANGED <<msg, sent>> /\ msg' = msg /\ sent' = sent
  BY DEF Record
<1>2. CASE Reject
  BY <1>1, <1>2, CutReject
<1>3. CASE ~Reject
  <2> SUFFICES ASSUME sent.kind = "cut"
               PROVE  /\ phase' = "records" /\ CutShort(msg, whole, ends)
                      /\ pos' = ends[Len(rrs') + 1]
                      /\ Len(rrs') + left' = Announced(msg, section')
    BY <1>1 DEF CutInv
  <2>1. /\ parsed.ok /\ pos' = parsed.next /\ left' = left - 1
        /\ rrs' = Append(rrs, [section |-> section, raw |-> parsed.rr])
        /\ phase' = "records" /\ section' = section
    BY <1>1, <1>3 DEF Record
  <2>2. /\ msg \in Seq(Octet) /\ 12 <= Len(msg) /\ pos \in Nat /\ section \in 1 .. 3
        /\ left \in Nat /\ pos = ends[n + 1] /\ n + left = Announced(msg, section)
        /\ CutShort(msg, whole, ends)
    BY <1>1 DEF Inv, Shape, TypeOK, CutInv, Uint16s
  <2>3. /\ whole \in Seq(Octet) /\ Prefix(msg, whole)
        /\ Len(ends) = 1 + Announced(msg, 3) /\ Announced(msg, 3) \in Nat
        /\ \A k \in 1 .. Len(ends) - 1 : ends[k + 1] = parse_rr(whole, ends[k]).next
    <3> HIDE DEF ends, whole
    <3> QED BY ONLY <2>2, CutFacts
  <2>4. n \in Nat /\ Len(rrs') = n + 1
    <3>1. PICK S : rrs \in Seq(S)
      BY DEF Inv, Shape
    <3> DEFINE e == [section |-> section, raw |-> parsed.rr]
    <3>2. rrs' = Append(rrs, e)
      BY <2>1
    <3> HIDE DEF e
    <3>3. Len(rrs) \in Nat /\ Len(Append(rrs, e)) = Len(rrs) + 1
      BY <3>1, AppendEntry
    <3> QED
      BY <3>2, <3>3
  <2>5. Announced(msg, section) \in Nat /\ Announced(msg, section) <= Announced(msg, 3)
    BY <2>2, AnnouncedGrows
  <2>6. parse_rr(whole, pos) = parsed
    BY <2>1, <2>2, <2>3, PrefixRecord
  <2> HIDE DEF n, parsed, ends, whole
  <2>7. n + 1 \in 1 .. Len(ends) - 1
    BY <1>1, <2>2, <2>3, <2>4, <2>5
  <2>8. ends[n + 1 + 1] = parsed.next
    BY <2>2, <2>3, <2>6, <2>7, Zenon
  <2>9. n + 1 + (left - 1) = Announced(msg, section)
    BY <1>1, <2>2, <2>4
  <2> QED
    BY <2>1, <2>2, <2>4, <2>8, <2>9
<1> QED
  BY <1>2, <1>3

\* When the last record counted has been read the cursor is at the end of the
\* message the sender wrote, which is not there.
LEMMA CutNextSection ==
    ASSUME Inv, CutInv, NextSection
    PROVE  CutInv'
<1> DEFINE ends == sent.ends
           whole == sent.whole
           n == Len(rrs)
<1>1. /\ phase = "records" /\ left = 0 /\ msg' = msg /\ sent' = sent /\ pos' = pos /\ rrs' = rrs
  BY DEF NextSection
<1> SUFFICES ASSUME sent.kind = "cut"
             PROVE  /\ phase' = "records" /\ CutShort(msg, whole, ends)
                    /\ pos = ends[n + 1]
                    /\ n + left' = Announced(msg, section')
  BY <1>1 DEF CutInv
<1>2. /\ msg \in Seq(Octet) /\ 12 <= Len(msg) /\ pos \in 0 .. Len(msg) /\ section \in 1 .. 3
      /\ pos = ends[n + 1] /\ n + left = Announced(msg, section)
      /\ CutShort(msg, whole, ends)
  BY <1>1 DEF Inv, Shape, TypeOK, CutInv
<1>3. n \in Nat
  <2>1. PICK S : rrs \in Seq(S)
    BY DEF Inv, Shape
  <2> QED
    BY <2>1
<1>4. /\ Len(msg) < Len(whole) /\ whole \in Seq(Octet)
      /\ Len(ends) = 1 + Announced(msg, 3) /\ Announced(msg, 3) \in Nat
      /\ ends[Len(ends)] = Len(whole)
  <2> HIDE DEF ends, whole
  <2> QED BY ONLY <1>2, CutFacts
<1> HIDE DEF ends, whole, n
<1>5. section < 3
  <2> SUFFICES ASSUME ~(section < 3) PROVE FALSE
    OBVIOUS
  <2>1. section = 3
    BY <1>2
  <2>2. n + 1 = Len(ends)
    BY <1>1, <1>2, <1>3, <1>4, <2>1
  <2>3. pos = Len(whole)
    BY <1>2, <1>4, <2>2
  <2>4. Len(msg) \in Nat /\ Len(whole) \in Nat
    BY <1>2, <1>4
  <2> QED
    BY ONLY <1>2, <1>4, <2>3, <2>4
<1>6. section' = section + 1 /\ left' = Count(msg, section + 1) /\ phase' = phase
  BY <1>5 DEF NextSection
<1>7. Announced(msg, section + 1) = Announced(msg, section) + Count(msg, section + 1)
  BY <1>2, <1>5, AnnouncedGrows
<1>8. n + left' = Announced(msg, section')
  BY <1>1, <1>2, <1>3, <1>6, <1>7
<1> QED
  BY <1>1, <1>2, <1>6, <1>8

LEMMA CutNext == Inv /\ CutInv /\ [Next]_vars => CutInv'
<1> SUFFICES ASSUME Inv, CutInv, [Next]_vars PROVE CutInv'
  OBVIOUS
<1>1. CASE UNCHANGED vars
  BY <1>1 DEF vars, CutInv
<1>2. CASE ToResponse
  <2>1. phase = "decode" /\ sent' = sent
    BY <1>2 DEF ToResponse
  <2> QED
    BY <2>1 DEF CutInv
<1>3. Header \/ Question \/ Record \/ NextSection \/ ToResponse \/ UNCHANGED vars
  BY DEF Next
<1> QED
  BY <1>1, <1>2, <1>3, CutHeader, CutQuestion, CutRecord, CutNextSection, Zenon

\* A datagram that lost any of its last octets never becomes a response,
\* whatever it held and wherever it was cut.
THEOREM CutsAreRefused == Spec => []CutsRefused
<1>1. CutInv => CutsRefused
  BY DEF CutInv, CutsRefused
<1> QED
  BY <1>1, InvInit, InvNext, CutInit, CutNext, PTL DEF Spec

\* Every name in every message that arrives is read as what its octets mean or
\* refused, and what was read survives being written out and read back.
THEOREM NamesAreRead == Spec => []NamesMean
<1>1. Inv => NamesMean
  <2> SUFFICES ASSUME Inv PROVE NamesMean
    OBVIOUS
  <2>1. msg \in Seq(Octet)
    BY DEF Inv, Shape
  <2>2. ReadsMeaning(msg)
    BY <2>1, EveryNameMeans
  <2> QED
    BY <2>2, Zenon DEF NamesMean
<1> QED
  BY <1>1, InvInit, InvNext, PTL DEF Spec
=============================================================================
