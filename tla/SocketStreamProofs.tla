------------------------- MODULE SocketStreamProofs --------------------------
(***************************************************************************)
(* Timers, reads and octets of one exchange, proved for every stream,      *)
(* every way it is cut into chunks and every order of events.              *)
(***************************************************************************)
EXTENDS SocketStream, DataInduction

\* A record with the fields of a SocketStream; those of a read.
IsConn(c) == c = [chunks |-> c.chunks, buffered_len |-> c.buffered_len, pending |-> c.pending,
                  fatal |-> c.fatal, ended |-> c.ended, closed |-> c.closed]

IsRead(r) == r = [n |-> r.n, state |-> r.state, value |-> r.value]

Waiting(rs) == {i \in 1 .. 2 : rs[i].state = Pending}

\* The reads are made in order, the second after the first was answered, and
\* none is open once the exchange is done.
ReadsInOrder ==
    /\ pc \in {"writing", "reading", "done"}
    /\ pc = "writing" => reads[1] = Unmade
    /\ reads[2] # Unmade => reads[1].state = "resolved"
    /\ pc = "done" => timers = {}

Shape ==
    /\ IsConn(conn)
    /\ reads = [i \in 1 .. 2 |-> reads[i]] /\ IsRead(reads[1]) /\ IsRead(reads[2])
    /\ listeners \subseteq 1 .. 2

ReadInv == Shape /\ ReadsGuarded /\ ReadsInOrder

\* The part of the invariant that says which read waits.
Guarded ==
    /\ timers = Waiting(reads)
    /\ timers \subseteq {conn.pending} /\ timers \subseteq listeners
    /\ conn.pending # NoRead => conn.pending \in timers

LEMMA GuardedMeans ==
    ASSUME Shape
    PROVE  ReadsGuarded <=> Guarded
<1>1. DOMAIN reads = 1 .. 2
  BY DEF Shape
<1> QED
  BY <1>1 DEF ReadsGuarded, Guarded, Waiting

-----------------------------------------------------------------------------
(* Answering a read *)

\* Read i is answered, in the state c of the fields: no other read waits.
LEMMA Answered ==
    ASSUME ReadInv, NEW i \in 1 .. 2, NEW c, IsConn(c), NEW r, IsRead(r), r.state # Pending,
           timers \subseteq {i}, Answer(c, i, r)
    PROVE  Shape' /\ Guarded' /\ timers' = {} /\ reads' = [reads EXCEPT ![i] = r]
<1>1. /\ conn' = [c EXCEPT !.pending = NoRead] /\ reads' = [reads EXCEPT ![i] = r]
      /\ timers' = timers \ {i} /\ listeners' = listeners \ {i}
  BY DEF Answer, settle
<1>2. Guarded /\ Shape
  BY GuardedMeans DEF ReadInv
<1>3. timers' = {} /\ conn'.pending = NoRead /\ IsConn(conn')
  BY <1>1 DEF IsConn
<1>4. /\ reads' = [j \in 1 .. 2 |-> reads'[j]]
      /\ reads'[i] = r /\ \A j \in 1 .. 2 : j # i => reads'[j] = reads[j]
  BY <1>1, <1>2 DEF Shape
<1>5. Shape'
  <2>1. IsRead(reads'[1]) /\ IsRead(reads'[2])
    BY <1>2, <1>4 DEF Shape
  <2> QED
    BY <1>1, <1>2, <1>3, <1>4, <2>1 DEF Shape
<1>6. \A j \in 1 .. 2 : reads'[j].state # Pending
  BY <1>2, <1>4 DEF Guarded, Waiting
<1>7. Guarded'
  BY <1>3, <1>6 DEF Guarded, Waiting
<1> QED
  BY <1>1, <1>3, <1>5, <1>7

LEMMA Tried ==
    ASSUME ReadInv, NEW i \in 1 .. 2, NEW c, IsConn(c), NEW n, timers \subseteq {i},
           try_resolve(c, i, n)
    PROVE  /\ Shape' /\ Guarded' /\ timers' = {}
           /\ \E r : IsRead(r) /\ r.state \notin {Pending, "unmade"} /\ reads' = [reads EXCEPT ![i] = r]
<1>1. ASSUME NEW d, IsConn(d), NEW r, IsRead(r), r.state \notin {Pending, "unmade"}, Answer(d, i, r)
      PROVE  /\ Shape' /\ Guarded' /\ timers' = {}
             /\ \E q : IsRead(q) /\ q.state \notin {Pending, "unmade"} /\ reads' = [reads EXCEPT ![i] = q]
  BY <1>1, Answered
<1>2. ASSUME NEW e \in {"transport", "ended"}
      PROVE  IsRead(Rejected(n, e)) /\ Rejected(n, e).state \notin {Pending, "unmade"}
  BY DEF IsRead, Rejected, Pending
<1>3. ASSUME NEW got
      PROVE  /\ IsRead(Resolved(n, got)) /\ Resolved(n, got).state \notin {Pending, "unmade"}
  BY DEF IsRead, Resolved, Pending
<1>4. ASSUME NEW rest, NEW length
      PROVE  IsConn([c EXCEPT !.chunks = rest, !.buffered_len = length])
  <2> DEFINE d == [c EXCEPT !.chunks = rest, !.buffered_len = length]
  <2>1. DOMAIN d = {"chunks", "buffered_len", "pending", "fatal", "ended", "closed"}
    BY DEF IsConn
  <2>2. d = [x \in DOMAIN d |-> d[x]]
    OBVIOUS
  <2> HIDE DEF d
  <2>3. d = [chunks |-> d.chunks, buffered_len |-> d.buffered_len, pending |-> d.pending,
             fatal |-> d.fatal, ended |-> d.ended, closed |-> d.closed]
    BY <2>1, <2>2
  <2>4. IsConn(d)
    BY <2>3 DEF IsConn
  <2> QED
    BY <2>4 DEF d
<1>5. CASE Answer(c, i, Rejected(n, "transport")) \/ Answer(c, i, Rejected(n, "ended"))
  BY <1>1, <1>2, <1>5
<1>6. CASE LET got == take(c.chunks, n)
           IN Answer([c EXCEPT !.chunks = got.rest, !.buffered_len = @ - n], i, Resolved(n, got.out))
  BY <1>1, <1>3, <1>4, <1>6
<1> QED
  BY <1>5, <1>6 DEF try_resolve

\* An event leaves the order of the reads alone.
LEMMA EventKeeps ==
    ASSUME ReadInv, NEW c, IsConn(c), c.pending = conn.pending, try_resolve_pending(c), pc' = pc
    PROVE  ReadInv'
<1>1. Guarded /\ Shape /\ ReadsInOrder
  BY GuardedMeans DEF ReadInv
<1>2. CASE conn' = c /\ UNCHANGED <<reads, timers, listeners>>
  <2>1. Shape' /\ Guarded' /\ ReadsInOrder'
    BY <1>1, <1>2 DEF Shape, Guarded, Waiting, ReadsInOrder
  <2>2. ReadsGuarded'
    BY <2>1, GuardedMeans, PTL
  <2> QED
    BY <2>1, <2>2 DEF ReadInv
<1>3. CASE c.pending # NoRead /\ try_resolve(c, c.pending, reads[c.pending].n)
  <2>1. c.pending \in timers /\ timers \subseteq {c.pending} /\ timers \subseteq 1 .. 2
    BY <1>1, <1>3 DEF Guarded, Waiting
  <2>2. /\ Shape' /\ Guarded' /\ timers' = {}
        /\ \E r : /\ IsRead(r) /\ r.state \notin {Pending, "unmade"}
                  /\ reads' = [reads EXCEPT ![c.pending] = r]
    BY <1>3, <2>1, Tried
  <2>3. ReadsInOrder'
    BY <1>1, <2>1, <2>2 DEF ReadsInOrder, Shape, Guarded, Waiting, Unmade, Pending
  <2>4. ReadsGuarded'
    BY <2>2, GuardedMeans, PTL
  <2> QED
    BY <2>2, <2>3, <2>4 DEF ReadInv
<1> QED
  BY <1>2, <1>3 DEF try_resolve_pending

LEMMA ConnExcept ==
    ASSUME NEW c, IsConn(c), NEW x
    PROVE  /\ IsConn([c EXCEPT !.pending = x]) /\ IsConn([c EXCEPT !.fatal = x])
           /\ IsConn([c EXCEPT !.ended = x]) /\ IsConn([c EXCEPT !.closed = x])
           /\ [c EXCEPT !.fatal = x].pending = c.pending
           /\ [c EXCEPT !.ended = x].pending = c.pending
BY DEF IsConn

LEMMA DataConn ==
    ASSUME NEW c, IsConn(c), NEW x, NEW y
    PROVE  LET d == [c EXCEPT !.chunks = x, !.buffered_len = y]
           IN IsConn(d) /\ d.pending = c.pending
<1> DEFINE d == [c EXCEPT !.chunks = x, !.buffered_len = y]
<1>1. DOMAIN d = {"chunks", "buffered_len", "pending", "fatal", "ended", "closed"} /\ d.pending = c.pending
  BY DEF IsConn
<1>2. d = [f \in DOMAIN d |-> d[f]]
  OBVIOUS
<1> HIDE DEF d
<1>3. d = [chunks |-> d.chunks, buffered_len |-> d.buffered_len, pending |-> d.pending,
           fatal |-> d.fatal, ended |-> d.ended, closed |-> d.closed]
  BY <1>1, <1>2
<1>4. IsConn(d)
  BY <1>3 DEF IsConn
<1> QED
  BY <1>1, <1>4 DEF d

-----------------------------------------------------------------------------
(* One lemma per action *)

LEMMA EventsKeep ==
    ASSUME ReadInv, \/ \E k \in 1 .. Len(stream) - arrived : Data(k)
                    \/ End \/ Error \/ Close
    PROVE  ReadInv'
<1>1. IsConn(conn)
  BY DEF ReadInv, Shape
<1>2. CASE \E k \in 1 .. Len(stream) - arrived : Data(k)
  <2>1. PICK k : Data(k)
    BY <1>2
  <2> DEFINE x == Append(conn.chunks, SubSeq(stream, arrived + 1, arrived + k))
             y == conn.buffered_len + k
             c == [conn EXCEPT !.chunks = x, !.buffered_len = y]
  <2>2. try_resolve_pending(c) /\ pc' = pc
    BY <2>1 DEF Data
  <2>3. IsConn(c) /\ c.pending = conn.pending
    BY <1>1, DataConn
  <2> HIDE DEF c
  <2> QED
    BY <2>2, <2>3, EventKeeps
<1>3. CASE End \/ Close
  <2> DEFINE c == [conn EXCEPT !.ended = TRUE]
  <2>1. try_resolve_pending(c) /\ pc' = pc
    BY <1>3 DEF End, Close
  <2>2. IsConn(c) /\ c.pending = conn.pending
    BY <1>1, ConnExcept
  <2> HIDE DEF c
  <2> QED
    BY <2>1, <2>2, EventKeeps
<1>4. CASE Error
  <2> DEFINE c == [conn EXCEPT !.fatal = TRUE]
  <2>1. try_resolve_pending(c) /\ pc' = pc
    BY <1>4 DEF Error
  <2>2. IsConn(c) /\ c.pending = conn.pending
    BY <1>1, ConnExcept
  <2> HIDE DEF c
  <2> QED
    BY <2>1, <2>2, EventKeeps
<1> QED
  BY <1>2, <1>3, <1>4

LEMMA TimeoutKeeps ==
    ASSUME ReadInv, NEW i \in timers, Timeout(i)
    PROVE  ReadInv'
<1>1. Guarded /\ Shape /\ ReadsInOrder
  BY GuardedMeans DEF ReadInv
<1>2. timers = {i} /\ i \in 1 .. 2 /\ reads[i].state = Pending
  BY <1>1 DEF Guarded, Waiting
<1>3. /\ timers' = {} /\ conn' = [conn EXCEPT !.pending = NoRead]
      /\ reads' = [reads EXCEPT ![i] = Rejected(reads[i].n, "timeout")]
      /\ UNCHANGED <<listeners, pc>>
  BY <1>2 DEF Timeout, Settle
<1>4. IsConn(conn') /\ conn'.pending = NoRead
  BY <1>1, <1>3, ConnExcept DEF Shape, IsConn
<1>5. /\ reads' = [j \in 1 .. 2 |-> reads'[j]]
      /\ reads'[i] = Rejected(reads[i].n, "timeout") /\ \A j \in 1 .. 2 : j # i => reads'[j] = reads[j]
  BY <1>1, <1>2, <1>3 DEF Shape
<1>6. IsRead(Rejected(reads[i].n, "timeout")) /\ Rejected(reads[i].n, "timeout").state = "timeout"
  BY DEF Rejected, IsRead
<1>7. Shape'
  BY <1>1, <1>3, <1>4, <1>5, <1>6 DEF Shape
<1>8. Guarded'
  BY <1>1, <1>2, <1>3, <1>4, <1>5, <1>6 DEF Guarded, Waiting, Pending
<1>9. ReadsInOrder'
  BY <1>1, <1>2, <1>3, <1>5, <1>6 DEF ReadsInOrder, Pending, Unmade
<1>10. ReadsGuarded'
  BY <1>7, <1>8, GuardedMeans, PTL
<1> QED
  BY <1>7, <1>9, <1>10 DEF ReadInv

LEMMA AbortKeeps ==
    ASSUME ReadInv, Abort
    PROVE  ReadInv'
<1>1. Guarded /\ Shape /\ ReadsInOrder
  BY GuardedMeans DEF ReadInv
<1>2. timers' = {} /\ listeners' = {} /\ pc' = pc
  BY <1>1 DEF Abort, Guarded
<1>3. IsConn(conn') /\ conn'.pending = NoRead
  <2>1. CASE listeners = {}
    <3>1. conn.pending = NoRead /\ conn' = [conn EXCEPT !.pending = conn.pending]
      BY <1>1, <2>1 DEF Guarded, Abort
    <3> QED
      BY <1>1, <3>1, ConnExcept DEF Shape, IsConn
  <2>2. CASE listeners # {}
    <3>1. conn' = [conn EXCEPT !.pending = NoRead]
      BY <2>2 DEF Abort
    <3> QED
      BY <1>1, <3>1, ConnExcept DEF Shape, IsConn
  <2> QED
    BY <2>1, <2>2
<1>4. /\ reads' = [j \in 1 .. 2 |-> reads'[j]]
      /\ \A j \in 1 .. 2 : reads'[j] = IF j \in listeners /\ reads[j].state = Pending
                                      THEN Rejected(reads[j].n, "aborted") ELSE reads[j]
  BY <1>1 DEF Shape, Abort
<1>5. \A j \in 1 .. 2 : /\ IsRead(Rejected(reads[j].n, "aborted"))
                        /\ Rejected(reads[j].n, "aborted").state = "aborted"
  BY DEF Rejected, IsRead
<1>6. \A j \in 1 .. 2 : reads[j].state = Pending => j \in listeners
  BY <1>1 DEF Guarded, Waiting
<1>7. \A j \in 1 .. 2 : /\ IsRead(reads'[j]) /\ reads'[j].state # Pending
                        /\ reads[j].state # Pending => reads'[j] = reads[j]
  BY <1>1, <1>4, <1>5, <1>6 DEF Shape, Pending
<1>8. Shape'
  BY <1>2, <1>3, <1>4, <1>7 DEF Shape
<1>9. Guarded'
  BY <1>2, <1>3, <1>7 DEF Guarded, Waiting
<1>10. ReadsInOrder'
  <2>1. reads[1] = Unmade => reads'[1] = Unmade
    BY <1>7 DEF Unmade, Pending
  <2>2. reads[2] = Unmade => reads'[2] = Unmade
    BY <1>7 DEF Unmade, Pending
  <2>3. reads[1].state = "resolved" => reads'[1].state = "resolved"
    BY <1>7 DEF Pending
  <2> QED
    BY <1>1, <1>2, <2>1, <2>2, <2>3 DEF ReadsInOrder
<1>11. ReadsGuarded'
  BY <1>8, <1>9, GuardedMeans, PTL
<1> QED
  BY <1>8, <1>10, <1>11 DEF ReadInv

\* A read is made when no other waits: it is answered at once, or it is the
\* one that waits.
LEMMA RecvKeeps ==
    ASSUME ReadInv, timers = {}, NEW i \in 1 .. 2, NEW n, recv_exact(i, n),
           i = 1 => reads[2] = Unmade, i = 2 => reads[1].state = "resolved"
    PROVE  ReadInv'
<1>1. Guarded /\ Shape /\ ReadsInOrder /\ pc' = "reading"
  BY GuardedMeans DEF ReadInv, recv_exact
<1>2. conn.pending = NoRead
  BY <1>1 DEF Guarded
<1>3. ASSUME NEW r, IsRead(r), r.state # "unmade", reads' = [reads EXCEPT ![i] = r]
      PROVE  /\ reads' = [j \in 1 .. 2 |-> reads'[j]] /\ IsRead(reads'[1]) /\ IsRead(reads'[2])
             /\ reads'[i] = r /\ \A j \in 1 .. 2 : j # i => reads'[j] = reads[j]
             /\ ReadsInOrder'
  <2>1. reads'[i] = r /\ \A j \in 1 .. 2 : j # i => reads'[j] = reads[j]
    BY <1>1, <1>3 DEF Shape
  <2>2. reads' = [j \in 1 .. 2 |-> reads'[j]] /\ IsRead(reads'[1]) /\ IsRead(reads'[2])
    <3>1. reads' = [j \in 1 .. 2 |-> reads'[j]]
      BY <1>1, <1>3 DEF Shape
    <3>2. \A j \in 1 .. 2 : IsRead(reads'[j])
      <4>1. \A j \in 1 .. 2 : IsRead(reads[j])
        BY <1>1 DEF Shape
      <4> QED
        BY <1>3, <2>1, <4>1
    <3> QED
      BY <3>1, <3>2
  <2>3. reads'[2] # Unmade => reads'[1].state = "resolved"
    BY <2>1 DEF Unmade
  <2> QED
    BY <1>1, <2>1, <2>2, <2>3 DEF ReadsInOrder
<1>4. CASE /\ \E e \in {"transport", "aborted"} : reads' = [reads EXCEPT ![i] = Rejected(n, e)]
           /\ UNCHANGED <<conn, timers, listeners>>
  <2>1. PICK e \in {"transport", "aborted"} : reads' = [reads EXCEPT ![i] = Rejected(n, e)]
    BY <1>4
  <2>2. IsRead(Rejected(n, e)) /\ Rejected(n, e).state \notin {"unmade", Pending}
    BY DEF IsRead, Rejected, Pending
  <2>3. Shape' /\ ReadsInOrder'
    BY <1>1, <1>3, <1>4, <2>1, <2>2 DEF Shape
  <2>4. \A j \in 1 .. 2 : reads'[j].state # Pending
    BY <1>1, <1>3, <2>1, <2>2 DEF Guarded, Waiting
  <2>5. Guarded'
    BY <1>2, <1>4, <2>4 DEF Guarded, Waiting
  <2>6. ReadsGuarded'
    BY <2>3, <2>5, GuardedMeans, PTL
  <2> QED
    BY <2>3, <2>6 DEF ReadInv
<1>5. CASE try_resolve(conn, i, n)
  <2>1. /\ Shape' /\ Guarded' /\ timers' = {}
        /\ \E r : /\ IsRead(r) /\ r.state \notin {Pending, "unmade"}
                  /\ reads' = [reads EXCEPT ![i] = r]
    BY <1>1, <1>5, Tried DEF Shape
  <2>2. ReadsInOrder'
    BY <1>3, <2>1
  <2>3. ReadsGuarded'
    BY <2>1, GuardedMeans, PTL
  <2> QED
    BY <2>1, <2>2, <2>3 DEF ReadInv
<1>6. CASE /\ conn' = [conn EXCEPT !.pending = i]
           /\ reads' = [reads EXCEPT ![i] = [n |-> n, state |-> Pending, value |-> <<>>]]
           /\ timers' = timers \cup {i}
           /\ listeners' = listeners \cup {i}
  <2> DEFINE r == [n |-> n, state |-> Pending, value |-> <<>>]
  <2>1. IsRead(r) /\ r.state = Pending /\ r.state # "unmade"
    BY DEF IsRead, Pending
  <2> HIDE DEF r
  <2>2. reads' = [reads EXCEPT ![i] = r]
    BY <1>6 DEF r
  <2>3. IsConn(conn') /\ conn'.pending = i
    BY <1>1, <1>6, ConnExcept DEF Shape, IsConn
  <2>4. Shape' /\ ReadsInOrder'
    BY <1>1, <1>3, <1>6, <2>1, <2>2, <2>3 DEF Shape
  <2>5. reads'[i].state = Pending /\ \A j \in 1 .. 2 : j # i => reads'[j].state # Pending
    BY <1>1, <1>3, <2>1, <2>2 DEF Guarded, Waiting
  <2>6. Guarded'
    BY <1>6, <2>3, <2>5 DEF Guarded, Waiting
  <2>7. ReadsGuarded'
    BY <2>4, <2>6, GuardedMeans, PTL
  <2> QED
    BY <2>4, <2>7 DEF ReadInv
<1> QED
  BY <1>4, <1>5, <1>6 DEF recv_exact

LEMMA FinishKeeps ==
    ASSUME ReadInv, timers = {}, NEW o, Finish(o), close
    PROVE  ReadInv'
<1>1. Guarded /\ Shape /\ ReadsInOrder
  BY GuardedMeans DEF ReadInv
<1>2. /\ pc' = "done" /\ conn' = [conn EXCEPT !.closed = TRUE] /\ UNCHANGED <<reads, timers, listeners>>
  BY DEF Finish, close
<1>3. IsConn(conn') /\ conn'.pending = conn.pending
  BY <1>1, <1>2, ConnExcept DEF Shape, IsConn
<1>4. Shape' /\ Guarded' /\ ReadsInOrder'
  BY <1>1, <1>2, <1>3 DEF Shape, Guarded, Waiting, ReadsInOrder
<1>5. ReadsGuarded'
  BY <1>4, GuardedMeans, PTL
<1> QED
  BY <1>4, <1>5 DEF ReadInv

LEMMA ExchangeKeeps ==
    ASSUME ReadInv, Continue \/ \E failed \in BOOLEAN : Written(failed)
    PROVE  ReadInv'
<1>1. Guarded /\ Shape /\ ReadsInOrder
  BY GuardedMeans DEF ReadInv
<1>2. CASE \E failed \in BOOLEAN : Written(failed)
  <2>1. pc = "writing" /\ reads[1] = Unmade /\ reads[2] = Unmade
    BY <1>1, <1>2 DEF Written, ReadsInOrder, Unmade
  <2>2. timers = {}
    BY <1>1, <2>1 DEF Guarded, Waiting, Unmade, Pending
  <2>3. \/ recv_exact(1, PREFIX_LENGTH)
        \/ close /\ \E o : Finish(o)
    BY <1>2 DEF Written
  <2> QED
    BY <2>1, <2>2, <2>3, RecvKeeps, FinishKeeps
<1>3. CASE Continue
  <2>1. reads[Awaited].state # Pending
    BY <1>3 DEF Continue
  <2>2. timers = {}
    <3>1. CASE reads[2] = Unmade
      BY <1>1, <2>1, <3>1 DEF Awaited, Guarded, Waiting, Unmade, Pending
    <3>2. CASE reads[2] # Unmade
      BY <1>1, <2>1, <3>2 DEF Awaited, Guarded, Waiting, ReadsInOrder, Pending
    <3> QED
      BY <3>1, <3>2
  <2>3. \/ /\ Awaited = 1 /\ reads[1].state = "resolved"
           /\ recv_exact(2, Length(reads[1].value))
        \/ close /\ \E o : Finish(o)
    BY <1>3 DEF Continue
  <2> QED
    BY <2>2, <2>3, RecvKeeps, FinishKeeps
<1> QED
  BY <1>2, <1>3

-----------------------------------------------------------------------------
(* The theorem *)

LEMMA ReadsProved == Spec => []ReadInv
<1>1. Init => ReadInv
  <2> SUFFICES ASSUME Init PROVE ReadInv
    OBVIOUS
  <2>1. /\ reads = [i \in 1 .. 2 |-> reads[i]] /\ reads[1] = Unmade /\ reads[2] = Unmade
        /\ timers = {} /\ listeners = {} /\ pc = "writing"
    BY DEF Init
  <2>2. IsRead(Unmade) /\ Unmade.state # Pending
    BY DEF IsRead, Unmade, Pending
  <2>3. IsConn(conn) /\ conn.pending = NoRead
    BY DEF Init, IsConn
  <2>4. Shape /\ Guarded /\ ReadsInOrder
    BY <2>1, <2>2, <2>3 DEF Shape, Guarded, Waiting, ReadsInOrder
  <2> QED
    BY <2>4, GuardedMeans DEF ReadInv
<1>2. ReadInv /\ [Next]_vars => ReadInv'
  <2> SUFFICES ASSUME ReadInv, [Next]_vars PROVE ReadInv'
    OBVIOUS
  <2>1. CASE UNCHANGED vars
    BY <2>1 DEF vars, ReadInv, Shape, ReadsGuarded, ReadsInOrder
  <2>2. CASE Next
    BY <2>2, EventsKeep, TimeoutKeeps, AbortKeeps, ExchangeKeeps DEF Next
  <2> QED
    BY <2>1, <2>2
<1> QED
  BY <1>1, <1>2, PTL DEF Spec

\* Whatever is sent, however it is cut and whenever the timer, the signal or
\* the end comes: the read that waits is the pending one and has its timer,
\* and no timer outlives its read (recv_exact and settle in stream.ts).
THEOREM ReadsAreGuarded == FairSpec => []ReadsGuarded
<1>1. FairSpec => Spec
  BY DEF FairSpec
<1>2. ReadInv => ReadsGuarded
  BY DEF ReadInv
<1> QED
  BY <1>1, <1>2, ReadsProved, PTL

-----------------------------------------------------------------------------
(* The fold of take *)

\* One chunk's turn in take.
Taken(got, chunk) ==
    LET count == IF Len(chunk) < got.need THEN Len(chunk) ELSE got.need
    IN [need |-> got.need - count,
        out  |-> got.out \o SubSeq(chunk, 1, count),
        rest |-> IF count = Len(chunk) THEN got.rest
                 ELSE Append(got.rest, SubSeq(chunk, count + 1, Len(chunk)))]

\* The function behind the fold, over sets of positions.
Folds(g, chunks, n, m) ==
    g = [s \in SUBSET (1 .. m) |->
            IF s = {} THEN Nothing(n) ELSE Taken(g[s \ {Max(s)}], chunks[Max(s)])]

LEMMA FoldsAt ==
    ASSUME NEW chunks, NEW n, NEW m, NEW g, Folds(g, chunks, n, m)
    PROVE  \A s \in SUBSET (1 .. m) :
             g[s] = IF s = {} THEN Nothing(n) ELSE Taken(g[s \ {Max(s)}], chunks[Max(s)])
<1> DEFINE h == [t \in SUBSET (1 .. m) |->
                    IF t = {} THEN Nothing(n) ELSE Taken(g[t \ {Max(t)}], chunks[Max(t)])]
<1>1. g = h
  BY DEF Folds
<1>2. \A s \in SUBSET (1 .. m) :
        h[s] = IF s = {} THEN Nothing(n) ELSE Taken(g[s \ {Max(s)}], chunks[Max(s)])
  OBVIOUS
<1> HIDE DEF h
<1> QED
  BY <1>1, <1>2

LEMMA FoldsExist ==
    ASSUME NEW chunks, NEW n
    PROVE  \A m \in Nat : \E g : Folds(g, chunks, n, m)
<1> DEFINE T == {m \in Nat : \E g : Folds(g, chunks, n, m)}
<1>1. 0 \in T
  <2> DEFINE g == [s \in SUBSET (1 .. 0) |-> Nothing(n)]
  <2>1. \A s \in SUBSET (1 .. 0) : s = {}
    OBVIOUS
  <2>2. g = [s \in SUBSET (1 .. 0) |->
            IF s = {} THEN Nothing(n) ELSE Taken(g[s \ {Max(s)}], chunks[Max(s)])]
    BY <2>1
  <2>3. Folds(g, chunks, n, 0)
    BY <2>2 DEF Folds
  <2> QED
    BY <2>3
<1>2. ASSUME NEW m \in Nat, m \in T PROVE m + 1 \in T
  <2>1. PICK g : Folds(g, chunks, n, m)
    BY <1>2
  <2> DEFINE h == [s \in SUBSET (1 .. m + 1) |->
                      IF m + 1 \in s THEN Taken(g[s \ {m + 1}], chunks[m + 1]) ELSE g[s]]
  <2>2. ASSUME NEW s \in SUBSET (1 .. m + 1)
        PROVE  h[s] = IF s = {} THEN Nothing(n) ELSE Taken(h[s \ {Max(s)}], chunks[Max(s)])
    <3>1. CASE m + 1 \in s
      <4>1. Max(s) = m + 1
        <5>1. s \subseteq 0 .. m + 1 /\ s # {} /\ m + 1 \in Nat
          BY <3>1
        <5>2. Max(s) \in s /\ \A y \in s : y <= Max(s)
          BY <5>1, MaxIsGreatest
        <5>3. Max(s) \in 1 .. m + 1 /\ m + 1 <= Max(s)
          BY <3>1, <5>2
        <5> QED
          BY <5>3
      <4>2. s \ {m + 1} \in SUBSET (1 .. m) /\ s \ {m + 1} \in SUBSET (1 .. m + 1) /\ m + 1 \notin s \ {m + 1}
        OBVIOUS
      <4>3. h[s \ {m + 1}] = g[s \ {m + 1}]
        BY <4>2
      <4>4. h[s] = Taken(g[s \ {m + 1}], chunks[m + 1])
        BY <3>1
      <4> HIDE DEF h
      <4> QED
        BY <3>1, <4>1, <4>3, <4>4
    <3>2. CASE m + 1 \notin s
      <4>1. s \in SUBSET (1 .. m)
        BY <3>2
      <4>2. g[s] = IF s = {} THEN Nothing(n) ELSE Taken(g[s \ {Max(s)}], chunks[Max(s)])
        BY <2>1, <4>1, FoldsAt
      <4>3. s \ {Max(s)} \in SUBSET (1 .. m + 1) /\ m + 1 \notin s \ {Max(s)}
        <5>1. \A x : s \ {x} \in SUBSET (1 .. m + 1) /\ m + 1 \notin s \ {x}
          BY <3>2
        <5> QED
          BY <5>1, Zenon
      <4>4. h[s \ {Max(s)}] = g[s \ {Max(s)}]
        BY <4>3
      <4>5. h[s] = g[s]
        BY <3>2
      <4> HIDE DEF h
      <4> QED
        BY <4>2, <4>4, <4>5
    <3> QED
      BY <3>1, <3>2
  <2>3. h = [s \in SUBSET (1 .. m + 1) |-> h[s]]
    OBVIOUS
  <2> HIDE DEF h
  <2>4. Folds(h, chunks, n, m + 1)
    BY <2>2, <2>3 DEF Folds
  <2> QED
    BY <2>4
<1>3. Nat = T
  <2> HIDE DEF T
  <2>1. T \subseteq Nat
    BY DEF T
  <2> QED
    BY <1>1, <1>2, <2>1, Induction
<1> QED
  BY <1>3

LEMMA TakeIsFold ==
    ASSUME NEW n, NEW chunks, NEW m \in Nat, DOMAIN chunks = 1 .. m
    PROVE  \E g : Folds(g, chunks, n, m) /\ take(chunks, n) = g[1 .. m]
<1> DEFINE g == CHOOSE g : g = [s \in SUBSET (DOMAIN chunks) |->
            IF s = {} THEN Nothing(n) ELSE Taken(g[s \ {Max(s)}], chunks[Max(s)])]
<1>1. take(chunks, n) = g[DOMAIN chunks]
  BY DEF take, FoldLeft, MapThenFoldSet, Taken
<1>2. \E h : Folds(h, chunks, n, m)
  BY FoldsExist
<1>3. Folds(g, chunks, n, m)
  BY <1>2 DEF Folds
<1> QED
  BY <1>1, <1>3

-----------------------------------------------------------------------------
(* What take takes *)

LEMMA UpTo ==
    ASSUME NEW m \in Nat
    PROVE  /\ 1 .. 0 = {} /\ 1 .. m + 1 # {}
           /\ Max(1 .. m + 1) = m + 1 /\ (1 .. m + 1) \ {m + 1} = 1 .. m
<1>1. 1 .. m + 1 \subseteq 0 .. m + 1 /\ 1 .. m + 1 # {} /\ m + 1 \in Nat /\ m + 1 \in 1 .. m + 1
  OBVIOUS
<1>2. Max(1 .. m + 1) \in 1 .. m + 1 /\ \A y \in 1 .. m + 1 : y <= Max(1 .. m + 1)
  BY <1>1, MaxIsGreatest
<1>3. Max(1 .. m + 1) \in 1 .. m + 1 /\ m + 1 <= Max(1 .. m + 1)
  BY <1>1, <1>2
<1>4. Max(1 .. m + 1) = m + 1
  BY <1>3
<1> QED
  BY <1>1, <1>4

\* What was taken and what is left are the chunks so far, in order.
Splits(got, chunks, S, n) ==
    /\ got.need \in 0 .. n /\ got.out \in Seq(S) /\ got.rest \in Seq(Seq(S))
    /\ Len(got.out) = n - got.need
    /\ got.need > 0 => got.rest = <<>>
    /\ got.out \o FlattenSeq(got.rest) = FlattenSeq(chunks)

LEMMA TakenSplits ==
    ASSUME NEW S, NEW n \in Nat, NEW got, NEW chunks \in Seq(Seq(S)), Splits(got, chunks, S, n),
           NEW chunk \in Seq(S)
    PROVE  Splits(Taken(got, chunk), Append(chunks, chunk), S, n)
<1>0. \A s, t, u \in Seq(S) : (s \o t) \o u = s \o (t \o u)
  OBVIOUS
<1> DEFINE count == IF Len(chunk) < got.need THEN Len(chunk) ELSE got.need
           some  == SubSeq(chunk, 1, count)
           more  == SubSeq(chunk, count + 1, Len(chunk))
           next  == Taken(got, chunk)
<1>1. /\ got.need \in 0 .. n /\ got.out \in Seq(S) /\ got.rest \in Seq(Seq(S))
      /\ Len(got.out) = n - got.need /\ (got.need > 0 => got.rest = <<>>)
      /\ got.out \o FlattenSeq(got.rest) = FlattenSeq(chunks)
  BY DEF Splits
<1>2. count \in 0 .. Len(chunk) /\ count <= got.need /\ (count < Len(chunk) => count = got.need)
  BY <1>1
<1>3. /\ next.need = got.need - count /\ next.out = got.out \o some
      /\ next.rest = IF count = Len(chunk) THEN got.rest ELSE Append(got.rest, more)
  BY DEF Taken
<1> HIDE DEF next, count
<1>4. some \in Seq(S) /\ more \in Seq(S) /\ Len(some) = count /\ some \o more = chunk
  <2>1. count \in Nat /\ count <= Len(chunk)
    BY <1>2
  <2>2. some \in Seq(S) /\ more \in Seq(S) /\ Len(some) = count
    BY <2>1
  <2>3. some \o more = SubSeq(chunk, 1, Len(chunk))
    <3>1. 1 \in 1 .. Len(chunk) + 1 /\ count \in 1 - 1 .. Len(chunk) /\ Len(chunk) \in count .. Len(chunk)
      BY <2>1
    <3> QED
      BY <3>1, ConcatAdjacentSubSeq
  <2>4. SubSeq(chunk, 1, Len(chunk)) = chunk
    BY SubSeqFull
  <2> QED
    BY <2>2, <2>3, <2>4
<1>5. count = Len(chunk) => some = chunk
  BY <1>2
<1> HIDE DEF some, more
<1>6. FlattenSeq(Append(chunks, chunk)) = FlattenSeq(chunks) \o chunk
  BY FlattenAppend
<1>7. /\ FlattenSeq(got.rest) \in Seq(S)
      /\ FlattenSeq(Append(got.rest, more)) = FlattenSeq(got.rest) \o more
  BY <1>1, <1>4, FlattenAppend
<1>8. FlattenSeq(<<>>) = <<>>
  BY DEF FlattenSeq
<1>9. /\ next.need \in 0 .. n /\ next.out \in Seq(S) /\ next.rest \in Seq(Seq(S))
      /\ Len(next.out) = n - next.need
  <2>1. next.need \in 0 .. n /\ next.need = got.need - count
    BY <1>1, <1>2, <1>3
  <2>2. next.out \in Seq(S) /\ Len(next.out) = Len(got.out) + count
    <3>1. got.out \in Seq(S) /\ some \in Seq(S) /\ Len(some) = count
      BY <1>1, <1>4
    <3>2. got.out \o some \in Seq(S) /\ Len(got.out \o some) = Len(got.out) + Len(some)
      BY <3>1, ConcatProperties
    <3> QED
      BY <1>3, <3>1, <3>2
  <2>3. next.rest \in Seq(Seq(S))
    BY <1>1, <1>3, <1>4, AppendProperties
  <2>4. Len(next.out) = n - next.need
    BY <1>1, <1>2, <2>1, <2>2
  <2> QED
    BY <2>1, <2>2, <2>3, <2>4
<1>10. next.need > 0 => next.rest = <<>>
  BY <1>1, <1>2, <1>3
<1>11. next.out \o FlattenSeq(next.rest) = FlattenSeq(Append(chunks, chunk))
  <2>1. CASE got.need > 0
    <3>1. got.rest = <<>> /\ got.out = FlattenSeq(chunks)
      <4>1. got.out \in Seq(S) /\ got.rest = <<>> /\ got.out \o <<>> = FlattenSeq(chunks)
        BY <1>1, <1>8, <2>1
      <4> QED
        BY <4>1, ConcatEmptySeq
    <3>2. CASE count = Len(chunk)
      <4>1. next.out = got.out \o chunk /\ next.out \in Seq(S) /\ FlattenSeq(next.rest) = <<>>
        BY <1>3, <1>5, <1>8, <1>9, <3>1, <3>2
      <4> QED
        BY <1>6, <3>1, <4>1, ConcatEmptySeq
    <3>3. CASE count # Len(chunk)
      <4>1. FlattenSeq(next.rest) = <<>> \o more /\ <<>> \o more = more
        BY <1>3, <1>4, <1>7, <1>8, <3>1, <3>3, ConcatEmptySeq
      <4>2. next.out \o more = got.out \o (some \o more)
        <5> DEFINE out == got.out
        <5>1. out \in Seq(S) /\ some \in Seq(S) /\ more \in Seq(S)
          BY <1>1, <1>4
        <5> HIDE DEF out
        <5>2. (out \o some) \o more = out \o (some \o more)
          BY <1>0, <5>1, Zenon
        <5> QED
          BY <1>3, <5>2 DEF out
      <4> QED
        BY <1>4, <1>6, <3>1, <4>1, <4>2
    <3> QED
      BY <3>2, <3>3
  <2>2. CASE got.need = 0
    <3>1. count = 0 /\ some = <<>>
      BY <1>1, <1>2, <1>4, <2>2
    <3>2. more = chunk
      BY <1>4, <3>1, ConcatEmptySeq
    <3>3. next.out = got.out
      BY <1>1, <1>3, <3>1, ConcatEmptySeq
    <3>4. FlattenSeq(next.rest) = FlattenSeq(got.rest) \o chunk
      <4>1. CASE count = Len(chunk)
        <5>1. chunk = <<>> /\ next.rest = got.rest
          BY <1>3, <3>1, <4>1
        <5> QED
          BY <1>7, <5>1, ConcatEmptySeq
      <4>2. CASE count # Len(chunk)
        BY <1>3, <1>7, <3>2, <4>2
      <4> QED
        BY <4>1, <4>2
    <3>5. got.out \o (FlattenSeq(got.rest) \o chunk) = (got.out \o FlattenSeq(got.rest)) \o chunk
      <4> DEFINE out  == got.out
                 rest == FlattenSeq(got.rest)
      <4>1. out \in Seq(S) /\ rest \in Seq(S)
        BY <1>1, <1>7
      <4> HIDE DEF out, rest
      <4>2. out \o (rest \o chunk) = (out \o rest) \o chunk
        BY <1>0, <4>1, Zenon
      <4> QED
        BY <4>2 DEF out, rest
    <3> QED
      BY <1>1, <1>6, <3>3, <3>4, <3>5
  <2>3. got.need > 0 \/ got.need = 0
    BY <1>1
  <2> QED
    BY <2>1, <2>2, <2>3
<1> QED
  BY <1>9, <1>10, <1>11 DEF next, Splits

LEMMA FoldSteps ==
    ASSUME NEW chunks, NEW n, NEW m \in Nat, NEW g, Folds(g, chunks, n, m)
    PROVE  /\ g[{}] = Nothing(n)
           /\ \A k \in 0 .. m - 1 : g[1 .. k + 1] = Taken(g[1 .. k], chunks[k + 1])
<1>1. \A t \in SUBSET (1 .. m) :
         g[t] = IF t = {} THEN Nothing(n) ELSE Taken(g[t \ {Max(t)}], chunks[Max(t)])
  BY FoldsAt
<1>2. ASSUME NEW k \in 0 .. m - 1
      PROVE  g[1 .. k + 1] = Taken(g[1 .. k], chunks[k + 1])
  <2>1. 1 .. k + 1 # {} /\ Max(1 .. k + 1) = k + 1 /\ (1 .. k + 1) \ {k + 1} = 1 .. k
    <3>1. k \in Nat
      OBVIOUS
    <3> QED
      BY <3>1, UpTo
  <2>2. 1 .. k + 1 \in SUBSET (1 .. m)
    OBVIOUS
  <2> QED
    BY <1>1, <2>1, <2>2
<1> QED
  BY <1>1, <1>2

LEMMA FoldSplits ==
    ASSUME NEW S, NEW n \in Nat, NEW chunks \in Seq(Seq(S)), NEW m \in Nat, m = Len(chunks),
           NEW g, Folds(g, chunks, n, m)
    PROVE  Splits(g[1 .. m], chunks, S, n)
<1>1. /\ g[{}] = Nothing(n)
      /\ \A k \in 0 .. m - 1 : g[1 .. k + 1] = Taken(g[1 .. k], chunks[k + 1])
  <2> DEFINE c == chunks
  <2>1. Folds(g, c, n, m)
    OBVIOUS
  <2> HIDE DEF c
  <2>2. /\ g[{}] = Nothing(n)
        /\ \A k \in 0 .. m - 1 : g[1 .. k + 1] = Taken(g[1 .. k], c[k + 1])
    BY <2>1, FoldSteps
  <2> QED
    BY <2>2 DEF c
<1> DEFINE T == {k \in Nat : k \in 0 .. m => Splits(g[1 .. k], SubSeq(chunks, 1, k), S, n)}
<1>2. 0 \in T
  <2>1. g[{}] = Nothing(n)
    BY <1>1
  <2>2. 1 .. 0 = {} /\ SubSeq(chunks, 1, 0) = <<>> /\ FlattenSeq(<<>>) = <<>>
    BY DEF FlattenSeq
  <2>3. <<>> \in Seq(S) /\ <<>> \in Seq(Seq(S)) /\ <<>> \o <<>> = <<>> /\ Len(<<>>) = 0
    OBVIOUS
  <2>4. Splits(Nothing(n), <<>>, S, n)
    <3> DEFINE q == Nothing(n)
    <3>1. q.need = n /\ q.out = <<>> /\ q.rest = <<>>
      BY DEF Nothing
    <3> HIDE DEF q
    <3>2. Splits(q, <<>>, S, n)
      BY <2>2, <2>3, <3>1 DEF Splits
    <3> QED
      BY <3>2 DEF q
  <2> QED
    BY <2>1, <2>2, <2>4
<1>3. ASSUME NEW k \in T PROVE k + 1 \in T
  <2> SUFFICES ASSUME k + 1 \in 0 .. m
               PROVE  Splits(g[1 .. k + 1], SubSeq(chunks, 1, k + 1), S, n)
    OBVIOUS
  <2>1. k \in Nat /\ k + 1 \in 1 .. m /\ Splits(g[1 .. k], SubSeq(chunks, 1, k), S, n)
    OBVIOUS
  <2>2. g[1 .. k + 1] = Taken(g[1 .. k], chunks[k + 1])
    BY <1>1, <2>1
  <2>3. /\ chunks[k + 1] \in Seq(S) /\ SubSeq(chunks, 1, k) \in Seq(Seq(S))
        /\ SubSeq(chunks, 1, k + 1) = Append(SubSeq(chunks, 1, k), chunks[k + 1])
    <3>1. k \in Nat /\ k + 1 \in 1 .. Len(chunks)
      BY <2>1
    <3>2. chunks[k + 1] \in Seq(S)
      BY <3>1, ElementOfSeq
    <3>3. SubSeq(chunks, 1, k) \in Seq(Seq(S))
      BY <3>1
    <3>4. SubSeq(chunks, 1, k + 1) = Append(SubSeq(chunks, 1, k), chunks[k + 1])
      BY <3>1
    <3> QED
      BY <3>2, <3>3, <3>4
  <2> QED
    BY <2>1, <2>2, <2>3, TakenSplits
<1>4. Nat = T
  <2> HIDE DEF T
  <2>1. T \subseteq Nat
    BY DEF T
  <2> QED
    BY <1>2, <1>3, <2>1, Induction
<1>5. Splits(g[1 .. m], SubSeq(chunks, 1, m), S, n)
  BY <1>4
<1> QED
  BY <1>5, SubSeqFull

\* take hands out the first n octets of what is buffered and keeps the rest.
LEMMA TakeSplits ==
    ASSUME NEW S, NEW n \in Nat, NEW chunks \in Seq(Seq(S)), n <= Len(FlattenSeq(chunks))
    PROVE  LET got == take(chunks, n)
           IN /\ got.out \in Seq(S) /\ Len(got.out) = n
              /\ got.rest \in Seq(Seq(S)) /\ FlattenSeq(got.rest) \in Seq(S)
              /\ got.out \o FlattenSeq(got.rest) = FlattenSeq(chunks)
<1>1. Splits(take(chunks, n), chunks, S, n)
  <2>1. Len(chunks) \in Nat /\ DOMAIN chunks = 1 .. Len(chunks)
    OBVIOUS
  <2>2. ASSUME NEW m \in Nat, m = Len(chunks) PROVE Splits(take(chunks, n), chunks, S, n)
    <3>1. PICK g : Folds(g, chunks, n, m) /\ take(chunks, n) = g[1 .. m]
      BY <2>1, <2>2, TakeIsFold
    <3> QED
      BY <2>2, <3>1, FoldSplits
  <2> QED
    BY <2>1, <2>2
<1> DEFINE got == take(chunks, n)
<1> HIDE DEF got
<1>2. /\ got.need \in 0 .. n /\ got.out \in Seq(S) /\ got.rest \in Seq(Seq(S))
      /\ Len(got.out) = n - got.need /\ (got.need > 0 => got.rest = <<>>)
      /\ got.out \o FlattenSeq(got.rest) = FlattenSeq(chunks)
  BY <1>1 DEF Splits, got
<1>3. FlattenSeq(got.rest) \in Seq(S) /\ FlattenSeq(<<>>) = <<>>
  <2>1. <<>> \in Seq(S)
    OBVIOUS
  <2>2. FlattenSeq(got.rest) \in Seq(S)
    BY <1>2, <2>1, FlattenAppend
  <2>3. FlattenSeq(<<>>) = <<>>
    BY DEF FlattenSeq
  <2> QED
    BY <2>2, <2>3
<1>4. got.need = 0
  <2> SUFFICES ASSUME got.need > 0 PROVE FALSE
    BY <1>2
  <2>1. got.rest = <<>>
    BY <1>2
  <2>2. got.out \o <<>> = FlattenSeq(chunks)
    BY <1>2, <1>3, <2>1
  <2>3. got.out = FlattenSeq(chunks)
    BY ONLY <1>2, <2>2, ConcatEmptySeq
  <2>4. got.need > 0 /\ Len(got.out) = n - got.need
    BY <1>2
  <2> QED
    BY <1>2, <2>3, <2>4
<1> QED
  BY <1>2, <1>3, <1>4 DEF got

-----------------------------------------------------------------------------
(* The octets *)

\* Joining octets is associative.
LEMMA OctetsAssociate ==
    \A v, w, x \in Seq(Octet) : (v \o w) \o x = v \o (w \o x)
OBVIOUS

\* In the state c of the fields, with v and w taken by the two reads, all a
\* octets that have arrived are accounted for.
Octets(c, v, w, a) ==
    /\ c.chunks \in Seq(Seq(Octet)) /\ c.buffered_len = Len(FlattenSeq(c.chunks))
    /\ v \in Seq(Octet) /\ w \in Seq(Octet)
    /\ (v \o w) \o FlattenSeq(c.chunks) = SubSeq(stream, 1, a)

\* A read has exactly the octets it asked for, or none; the second asks for
\* what the first announced.
Sized(rs) ==
    /\ \A i \in 1 .. 2 :
        /\ rs[i].n \in Nat /\ rs[i].state # "none"
        /\ Len(rs[i].value) = IF rs[i].state = "resolved" THEN rs[i].n ELSE 0
    /\ rs[1] # Unmade => rs[1].n = PREFIX_LENGTH
    /\ rs[2] # Unmade => rs[1].state = "resolved" /\ rs[2].n = Length(rs[1].value)

\* A read refused because the stream ended had not got enough of it.
Early(c, rs, a) ==
    /\ rs[1].state = "ended" => c.ended /\ a < PREFIX_LENGTH
    /\ rs[2].state = "ended" => c.ended /\ a < PREFIX_LENGTH + Length(rs[1].value)

Sound(c, rs, a) ==
    /\ a \in 0 .. Len(stream)
    /\ Octets(c, rs[1].value, rs[2].value, a) /\ Sized(rs) /\ Early(c, rs, a)

\* What the exchange ends with is what its reads got.
Reported ==
    pc = "done" =>
        /\ outcome.error = "none" => reads[2].state = "resolved" /\ outcome.message = reads[2].value
        /\ outcome.error = "ended" => reads[1].state = "ended" \/ reads[2].state = "ended"

OctetInv == stream \in Seq(Octet) /\ Sound(conn, reads, arrived) /\ Reported

\* The fields an event or the exchange sets leave the octets alone.
LEMMA FlagsSound ==
    ASSUME NEW c, IsConn(c), NEW d, IsConn(d), d.chunks = c.chunks, d.buffered_len = c.buffered_len,
           c.ended => d.ended, NEW rs, NEW a, Sound(c, rs, a)
    PROVE  Sound(d, rs, a)
BY DEF Sound, Octets, Early

LEMMA Counted ==
    ASSUME NEW c, NEW rs, NEW a, stream \in Seq(Octet), Sound(c, rs, a)
    PROVE  /\ a \in Nat /\ c.buffered_len \in Nat /\ Len(rs[1].value) \in Nat /\ Len(rs[2].value) \in Nat
           /\ Len(rs[1].value) + Len(rs[2].value) + c.buffered_len = a
<1> DEFINE v == rs[1].value
           w == rs[2].value
           b == FlattenSeq(c.chunks)
<1>1. /\ v \in Seq(Octet) /\ w \in Seq(Octet) /\ (v \o w) \o b = SubSeq(stream, 1, a)
      /\ c.buffered_len = Len(b) /\ c.chunks \in Seq(Seq(Octet)) /\ a \in 0 .. Len(stream)
  BY DEF Sound, Octets
<1>2. b \in Seq(Octet)
  <2>1. <<>> \in Seq(Octet)
    OBVIOUS
  <2> QED
    BY <1>1, <2>1, FlattenAppend
<1> HIDE DEF v, w, b
<1>3. Len((v \o w) \o b) = Len(v) + Len(w) + Len(b)
  <2>1. v \o w \in Seq(Octet) /\ Len(v \o w) = Len(v) + Len(w)
    BY <1>1, ConcatProperties
  <2> QED
    BY <1>2, <2>1, ConcatProperties
<1>4. Len(SubSeq(stream, 1, a)) = a
  BY <1>1
<1>5. Len(v) \in Nat /\ Len(w) \in Nat /\ Len(b) \in Nat
  BY <1>1, <1>2
<1>6. Len(v) + Len(w) + Len(b) = a
  BY <1>1, <1>3, <1>4
<1>7. /\ a \in Nat /\ c.buffered_len \in Nat /\ Len(v) \in Nat /\ Len(w) \in Nat
      /\ Len(v) + Len(w) + c.buffered_len = a
  BY <1>1, <1>5, <1>6
<1> QED
  BY <1>7 DEF v, w

\* A chunk more.
LEMMA DataSound ==
    ASSUME NEW c, IsConn(c), ~c.ended, NEW rs, NEW a, stream \in Seq(Octet), Sound(c, rs, a),
           NEW k \in 1 .. Len(stream) - a
    PROVE  Sound([c EXCEPT !.chunks = Append(@, SubSeq(stream, a + 1, a + k)),
                           !.buffered_len = @ + k], rs, a + k)
<1> DEFINE chunk == SubSeq(stream, a + 1, a + k)
           old == FlattenSeq(c.chunks)
           x == Append(c.chunks, chunk)
           y == c.buffered_len + k
           d == [c EXCEPT !.chunks = x, !.buffered_len = y]
           v == rs[1].value
           w == rs[2].value
<1>1. /\ v \in Seq(Octet) /\ w \in Seq(Octet) /\ (v \o w) \o old = SubSeq(stream, 1, a)
      /\ c.buffered_len = Len(old) /\ c.chunks \in Seq(Seq(Octet)) /\ a \in 0 .. Len(stream)
      /\ Sized(rs) /\ Early(c, rs, a)
  BY DEF Sound, Octets
<1>2. a + k \in 0 .. Len(stream) /\ a + 1 \in 1 .. Len(stream) /\ a + k \in a + 1 .. Len(stream)
  BY <1>1
<1>3. chunk \in Seq(Octet) /\ Len(chunk) = k
  BY <1>1, <1>2
<1>4. SubSeq(stream, 1, a) \o chunk = SubSeq(stream, 1, a + k)
  <2>1. /\ 1 \in 1 .. Len(stream) + 1 /\ a \in 1 - 1 .. Len(stream) /\ a + k \in a .. Len(stream)
    BY <1>1, <1>2
  <2> QED
    BY <2>1, ConcatAdjacentSubSeq
<1>5. d.chunks = x /\ d.buffered_len = y /\ d.ended = c.ended
  BY DEF IsConn
<1> HIDE DEF chunk, old, d, v, w
<1>6. old \in Seq(Octet) /\ FlattenSeq(x) = old \o chunk /\ x \in Seq(Seq(Octet))
  <2>1. old \in Seq(Octet) /\ FlattenSeq(x) = old \o chunk
    BY <1>1, <1>3, FlattenAppend DEF old
  <2> QED
    BY <1>1, <1>3, <2>1
<1>7. y = Len(FlattenSeq(x))
  <2>1. Len(old \o chunk) = Len(old) + k
    BY <1>3, <1>6, ConcatProperties
  <2>2. y = Len(old) + k
    BY <1>1
  <2> QED
    BY <1>6, <2>1, <2>2
<1>8. (v \o w) \o FlattenSeq(x) = SubSeq(stream, 1, a + k)
  <2>1. v \o w \in Seq(Octet)
    BY <1>1
  <2> DEFINE vw == v \o w
  <2>2. vw \in Seq(Octet)
    BY <2>1
  <2> HIDE DEF vw
  <2>3. (vw \o old) \o chunk = vw \o (old \o chunk)
    BY <1>3, <1>6, <2>2, OctetsAssociate, Zenon
  <2> QED
    BY <1>1, <1>4, <1>6, <2>3 DEF vw
<1> HIDE DEF x, y
<1>9. Octets(d, v, w, a + k)
  BY <1>1, <1>5, <1>6, <1>7, <1>8 DEF Octets
<1>10. Early(d, rs, a + k)
  BY <1>1 DEF Early
<1>11. Sound(d, rs, a + k)
  BY <1>1, <1>2, <1>9, <1>10 DEF Sound, v, w
<1> QED
  BY <1>11 DEF d, x, y, chunk

\* The second read has no octets before the first is answered.
LEMMA SizesOf ==
    ASSUME NEW rs, Sized(rs)
    PROVE  /\ rs[1].n \in Nat /\ rs[2].n \in Nat
           /\ Len(rs[1].value) = IF rs[1].state = "resolved" THEN rs[1].n ELSE 0
           /\ Len(rs[2].value) = IF rs[2].state = "resolved" THEN rs[2].n ELSE 0
BY DEF Sized

LEMMA PrefixRead ==
    ASSUME NEW rs, Sized(rs), rs[1].state = "resolved"
    PROVE  Len(rs[1].value) = 2
<1>1. rs[1] # Unmade
  BY DEF Unmade
<1>2. rs[1].n = 2
  BY <1>1 DEF Sized, PREFIX_LENGTH
<1> QED
  BY <1>2, SizesOf

LEMMA LengthIsNat ==
    ASSUME NEW v \in Seq(Octet), Len(v) >= 2
    PROVE  Length(v) \in Nat
<1>1. v[1] \in Octet /\ v[2] \in Octet
  <2>1. 1 \in 1 .. Len(v) /\ 2 \in 1 .. Len(v)
    OBVIOUS
  <2> QED
    BY <2>1, ElementOfSeq
<1>2. \A x, y \in Octet : x * 256 + y \in Nat
  BY DEF Octet
<1> QED
  BY <1>1, <1>2 DEF Length

LEMMA ThreeParts ==
    ASSUME NEW S, NEW u \in Seq(S), NEW v \in Seq(S), NEW w \in Seq(S)
    PROVE  /\ Len((u \o v) \o w) = Len(u) + Len(v) + Len(w)
           /\ \A i \in 1 .. Len(u) : ((u \o v) \o w)[i] = u[i]
           /\ \A i \in 1 .. Len(v) : ((u \o v) \o w)[Len(u) + i] = v[i]
OBVIOUS

LEMMA EmptyValue ==
    ASSUME NEW v \in Seq(Octet), Len(v) = 0
    PROVE  v = <<>>
OBVIOUS

\* A read that is not answered with octets is rejected or waits; what it asks
\* for is known.
LEMMA OtherSound ==
    ASSUME NEW c, NEW rs, NEW a, Sound(c, rs, a), rs = [j \in 1 .. 2 |-> rs[j]],
           NEW i \in 1 .. 2, rs[i].state # "resolved", i = 1 => rs[2] = Unmade,
           NEW r, r.state \notin {"resolved", "unmade", "none"}, r.value = <<>>, r.n \in Nat,
           i = 1 => r.n = PREFIX_LENGTH,
           i = 2 => rs[1].state = "resolved" /\ r.n = Length(rs[1].value),
           r.state = "ended" => c.ended /\ c.buffered_len < r.n, stream \in Seq(Octet)
    PROVE  Sound(c, [rs EXCEPT ![i] = r], a)
<1> DEFINE q == [rs EXCEPT ![i] = r]
<1>1. q[i] = r /\ \A j \in 1 .. 2 : j # i => q[j] = rs[j]
  OBVIOUS
<1>2. /\ a \in 0 .. Len(stream) /\ Sized(rs) /\ Early(c, rs, a)
      /\ Octets(c, rs[1].value, rs[2].value, a)
  BY DEF Sound
<1>3. rs[i].value = <<>>
  <2>1. rs[1].value \in Seq(Octet) /\ rs[2].value \in Seq(Octet)
    BY <1>2 DEF Octets
  <2>2. rs[i].value \in Seq(Octet) /\ Len(rs[i].value) = 0
    BY <1>2, <2>1, SizesOf
  <2> QED
    BY <2>2, EmptyValue
<1>4. \A j \in 1 .. 2 : q[j].value = rs[j].value
  BY <1>1, <1>3
<1> HIDE DEF q
<1>5. Octets(c, q[1].value, q[2].value, a)
  BY <1>2, <1>4
<1>6. Sized(q)
  <2>1. \A j \in 1 .. 2 : /\ q[j].n \in Nat /\ q[j].state # "none"
                          /\ Len(q[j].value) = IF q[j].state = "resolved" THEN q[j].n ELSE 0
    BY <1>1, <1>2 DEF Sized
  <2>2. q[1] # Unmade => q[1].n = PREFIX_LENGTH
    BY <1>1, <1>2 DEF Sized
  <2>3. q[2] # Unmade => q[1].state = "resolved" /\ q[2].n = Length(q[1].value)
    BY <1>1, <1>2 DEF Sized
  <2> QED
    BY <2>1, <2>2, <2>3 DEF Sized
<1>7. Early(c, q, a)
  <2> DEFINE x == Len(rs[1].value)
             y == Len(rs[2].value)
             z == c.buffered_len
  <2>1. x + y + z = a /\ a \in Nat /\ x \in Nat /\ y \in Nat /\ z \in Nat
    BY Counted
  <2>2. (x = 0 /\ y = 0 => a = z) /\ (x = PREFIX_LENGTH /\ y = 0 => a = PREFIX_LENGTH + z)
    <3> HIDE DEF x, y, z
    <3> QED
      BY <2>1 DEF PREFIX_LENGTH
  <2>3. CASE i = 1
    <3>1. Len(rs[1].value) = 0 /\ Len(rs[2].value) = 0 /\ q[2] = Unmade
      BY <1>1, <1>2, <2>3, SizesOf DEF Unmade
    <3>2. a = c.buffered_len
      BY <2>2, <3>1
    <3>3. q[1] = r /\ r.n = PREFIX_LENGTH
      BY <1>1, <2>3
    <3>4. q[1].state = "ended" => c.ended /\ a < PREFIX_LENGTH
      BY <3>2, <3>3
    <3> QED
      BY <3>1, <3>4 DEF Early, Unmade
  <2>4. CASE i = 2
    <3>1. q[1] = rs[1] /\ q[2] = r /\ rs[1].n = PREFIX_LENGTH
      BY <1>1, <1>2, <2>4 DEF Sized, Unmade
    <3>2. Len(rs[1].value) = PREFIX_LENGTH /\ Len(rs[2].value) = 0
      BY <1>2, <2>4, <3>1, SizesOf
    <3>3. a = PREFIX_LENGTH + c.buffered_len
      BY <2>2, <3>2
    <3>4. r.n = Length(q[1].value) /\ r.n \in Nat
      BY <2>4, <3>1
    <3> DEFINE l == Length(q[1].value)
    <3> HIDE DEF l
    <3>5. q[2].state = "ended" => c.ended /\ c.buffered_len < l /\ l \in Nat
      BY <3>1, <3>4 DEF l
    <3>6. q[2].state = "ended" => c.ended /\ a < PREFIX_LENGTH + l
      BY <2>1, <3>3, <3>5 DEF PREFIX_LENGTH
    <3> QED
      BY <1>2, <3>1, <3>6 DEF Early, l
  <2> QED
    BY <2>3, <2>4
<1>8. Sound(c, q, a)
  BY <1>2, <1>5, <1>6, <1>7 DEF Sound
<1> QED
  BY <1>8 DEF q

\* A read is answered with what take hands out of the buffer.
LEMMA TakeSound ==
    ASSUME NEW c, IsConn(c), NEW rs, NEW a, Sound(c, rs, a), rs = [j \in 1 .. 2 |-> rs[j]],
           NEW i \in 1 .. 2, rs[i].state # "resolved", i = 1 => rs[2] = Unmade,
           NEW n \in Nat, i = 1 => n = PREFIX_LENGTH,
           i = 2 => rs[1].state = "resolved" /\ n = Length(rs[1].value),
           c.buffered_len >= n, stream \in Seq(Octet), NEW d, IsConn(d),
           d.chunks = take(c.chunks, n).rest, d.buffered_len = c.buffered_len - n, d.ended = c.ended
    PROVE  Sound(d, [rs EXCEPT ![i] = Resolved(n, take(c.chunks, n).out)], a)
<1> DEFINE out == take(c.chunks, n).out
           rest == FlattenSeq(take(c.chunks, n).rest)
           r == Resolved(n, out)
           q == [rs EXCEPT ![i] = r]
           v == rs[1].value
           w == rs[2].value
           old == FlattenSeq(c.chunks)
<1>1. q[i] = r /\ \A j \in 1 .. 2 : j # i => q[j] = rs[j]
  OBVIOUS
<1>2. r.n = n /\ r.state = "resolved" /\ r.value = out
  BY DEF Resolved
<1> HIDE DEF q, r, out, rest
<1>3. /\ a \in 0 .. Len(stream) /\ Sized(rs) /\ Early(c, rs, a)
      /\ v \in Seq(Octet) /\ w \in Seq(Octet) /\ (v \o w) \o old = SubSeq(stream, 1, a)
      /\ c.chunks \in Seq(Seq(Octet)) /\ c.buffered_len = Len(old)
  <2>1. a \in 0 .. Len(stream) /\ Octets(c, v, w, a) /\ Sized(rs) /\ Early(c, rs, a)
    BY DEF Sound
  <2> QED
    BY ONLY <2>1 DEF Octets
<1>4. /\ out \in Seq(Octet) /\ Len(out) = n /\ take(c.chunks, n).rest \in Seq(Seq(Octet))
      /\ rest \in Seq(Octet) /\ out \o rest = old
  <2>1. n <= Len(FlattenSeq(c.chunks))
    BY <1>3
  <2> QED
    <3> DEFINE chunks == c.chunks
    <3>1. chunks \in Seq(Seq(Octet)) /\ n <= Len(FlattenSeq(chunks))
      BY <1>3, <2>1
    <3> HIDE DEF chunks
    <3>2. LET got == take(chunks, n)
          IN /\ got.out \in Seq(Octet) /\ Len(got.out) = n
             /\ got.rest \in Seq(Seq(Octet)) /\ FlattenSeq(got.rest) \in Seq(Octet)
             /\ got.out \o FlattenSeq(got.rest) = FlattenSeq(chunks)
      BY ONLY <3>1, n \in Nat, TakeSplits
    <3> QED
      BY <3>2 DEF chunks, out, rest, old
<1> HIDE DEF old, v, w
<1>5. rs[i].value = <<>>
  <2>1. rs[i].value \in Seq(Octet) /\ Len(rs[i].value) = 0
    BY <1>3, SizesOf DEF v, w
  <2> QED
    BY <2>1, EmptyValue
<1>6. d.buffered_len = Len(rest)
  <2>1. Len(old) = Len(out) + Len(rest) /\ Len(rest) \in Nat
    BY <1>4, ConcatProperties
  <2> QED
    BY <1>3, <1>4, <2>1
<1>7. d.chunks \in Seq(Seq(Octet)) /\ FlattenSeq(d.chunks) = rest
  BY <1>4 DEF rest
<1> HIDE DEF rest
<1>8. q[1].value \in Seq(Octet) /\ q[2].value \in Seq(Octet)
      /\ (q[1].value \o q[2].value) \o rest = SubSeq(stream, 1, a)
  <2>1. CASE i = 1
    <3>1. q[1].value = out /\ q[2].value = w /\ v = <<>>
      BY <1>1, <1>2, <1>5, <2>1 DEF v, w
    <3>2. w = <<>>
      BY <1>3, <2>1 DEF w, Unmade
    <3>3. (v \o w) \o old = old
      BY <1>3, <1>4, <3>1, <3>2
    <3>4. out \o w = out
      BY <1>4, <3>2, ConcatEmptySeq
    <3> QED
      BY <1>3, <1>4, <3>1, <3>3, <3>4
  <2>2. CASE i = 2
    <3>1. q[1].value = v /\ q[2].value = out /\ w = <<>>
      BY <1>1, <1>2, <1>5, <2>2 DEF v, w
    <3>2. v \o w = v
      BY <1>3, <3>1, ConcatEmptySeq
    <3>3. (v \o out) \o rest = v \o (out \o rest)
      <4>1. v \in Seq(Octet) /\ out \in Seq(Octet) /\ rest \in Seq(Octet)
        BY <1>3, <1>4
      <4> QED
        BY <4>1, OctetsAssociate, Zenon
    <3> QED
      BY <1>3, <1>4, <3>1, <3>2, <3>3
  <2>3. i = 1 \/ i = 2
    OBVIOUS
  <2> QED
    BY <2>1, <2>2, <2>3
<1>9. Octets(d, q[1].value, q[2].value, a)
  BY <1>6, <1>7, <1>8 DEF Octets
<1>10. Sized(q)
  <2>1. \A j \in 1 .. 2 : /\ q[j].n \in Nat /\ q[j].state # "none"
                          /\ Len(q[j].value) = IF q[j].state = "resolved" THEN q[j].n ELSE 0
    <3>1. \A j \in 1 .. 2 : /\ rs[j].n \in Nat /\ rs[j].state # "none"
                            /\ Len(rs[j].value) = IF rs[j].state = "resolved" THEN rs[j].n ELSE 0
      BY <1>3 DEF Sized
    <3>2. r.n \in Nat /\ r.state # "none" /\ r.state = "resolved" /\ Len(r.value) = r.n
      BY <1>2, <1>4
    <3> QED
      BY ONLY <1>1, <3>1, <3>2
  <2>2. q[1] # Unmade => q[1].n = PREFIX_LENGTH
    BY <1>1, <1>2, <1>3 DEF Sized
  <2>3. q[2] # Unmade => q[1].state = "resolved" /\ q[2].n = Length(q[1].value)
    <3>1. CASE i = 1
      BY <1>1, <3>1
    <3>2. CASE i = 2
      BY <1>1, <1>2, <3>2
    <3> QED
      BY <3>1, <3>2
  <2> QED
    BY <2>1, <2>2, <2>3 DEF Sized
<1>11. Early(d, q, a)
  <2>1. CASE i = 1
    BY <1>1, <1>2, <2>1 DEF Early, Unmade
  <2>2. CASE i = 2
    BY <1>1, <1>2, <1>3, <2>2 DEF Early
  <2> QED
    BY <2>1, <2>2
<1>12. Sound(d, q, a)
  BY <1>3, <1>9, <1>10, <1>11 DEF Sound
<1> QED
  BY <1>12 DEF q, r, out

-----------------------------------------------------------------------------
(* The octets, one lemma per action *)

\* try_resolve, for a read that is not answered yet.
LEMMA TrySound ==
    ASSUME NEW c, IsConn(c), NEW a, Sound(c, reads, a), reads = [j \in 1 .. 2 |-> reads[j]],
           stream \in Seq(Octet), NEW i \in 1 .. 2, reads[i].state # "resolved",
           i = 1 => reads[2] = Unmade, NEW n \in Nat, i = 1 => n = PREFIX_LENGTH,
           i = 2 => reads[1].state = "resolved" /\ n = Length(reads[1].value),
           try_resolve(c, i, n)
    PROVE  Sound(conn', reads', a)
<1>1. ASSUME NEW e \in {"transport", "ended"}, e = "ended" => c.ended /\ c.buffered_len < n,
             Answer(c, i, Rejected(n, e))
      PROVE  Sound(conn', reads', a)
  <2> DEFINE r == Rejected(n, e)
             d == [c EXCEPT !.pending = NoRead]
  <2>1. r.n = n /\ r.state = e /\ r.value = <<>>
    BY DEF Rejected
  <2>2. conn' = d /\ reads' = [reads EXCEPT ![i] = r]
    BY <1>1 DEF Answer
  <2>3. IsConn(d) /\ d.chunks = c.chunks /\ d.buffered_len = c.buffered_len /\ d.ended = c.ended
    BY DEF IsConn
  <2> HIDE DEF d, r
  <2>4. Sound(d, reads, a)
    BY <2>3, FlagsSound
  <2>5. r.state \notin {"resolved", "unmade", "none"} /\ r.state = "ended" => d.ended /\ d.buffered_len < r.n
    BY <1>1, <2>1, <2>3
  <2>6. Sound(d, [reads EXCEPT ![i] = r], a)
    BY <1>1, <2>1, <2>3, <2>4, <2>5, OtherSound
  <2> QED
    BY <2>2, <2>6
<1>2. CASE c.fatal
  BY <1>1, <1>2 DEF try_resolve
<1>3. CASE ~c.fatal /\ c.buffered_len >= n
  <2> DEFINE got == take(c.chunks, n)
             x == [c EXCEPT !.chunks = got.rest, !.buffered_len = @ - n]
             d == [x EXCEPT !.pending = NoRead]
  <2>1. conn' = d /\ reads' = [reads EXCEPT ![i] = Resolved(n, got.out)]
    BY <1>3 DEF try_resolve, Answer
  <2>2. IsConn(x)
    <3>1. \A p, q : IsConn([c EXCEPT !.chunks = p, !.buffered_len = q])
      BY DataConn
    <3> QED
      BY <3>1
  <2>3. x.chunks = got.rest /\ x.buffered_len = c.buffered_len - n /\ x.ended = c.ended
    BY DEF IsConn
  <2> HIDE DEF x, got
  <2>4. IsConn(d) /\ d.chunks = got.rest /\ d.buffered_len = c.buffered_len - n /\ d.ended = c.ended
    BY <2>2, <2>3 DEF IsConn
  <2> HIDE DEF d
  <2>5. Sound(d, [reads EXCEPT ![i] = Resolved(n, got.out)], a)
    BY <1>3, <2>4, TakeSound DEF got
  <2> QED
    BY <2>1, <2>5
<1>4. CASE ~c.fatal /\ ~(c.buffered_len >= n)
  <2>1. c.ended /\ Answer(c, i, Rejected(n, "ended"))
    BY <1>4 DEF try_resolve
  <2>2. c.buffered_len < n
    <3>1. c.buffered_len \in Nat
      BY Counted
    <3> QED
      BY <1>4, <3>1
  <2> QED
    BY <1>1, <2>1, <2>2
<1> QED
  BY <1>2, <1>3, <1>4

\* Once done, nothing waits; the pending read and what it asks for.
LEMMA PendingRead ==
    ASSUME ReadInv, OctetInv
    PROVE  /\ pc = "done" => conn.pending = NoRead /\ \A i \in 1 .. 2 : reads[i].state # Pending
           /\ \A i \in 1 .. 2 : reads[i].state = Pending =>
                /\ reads[i].state # "resolved" /\ reads[i] # Unmade
                /\ i = 1 => reads[2] = Unmade
                /\ reads[i].n \in Nat
                /\ i = 1 => reads[i].n = PREFIX_LENGTH
                /\ i = 2 => reads[1].state = "resolved" /\ reads[i].n = Length(reads[1].value)
<1>1. Guarded /\ Shape /\ ReadsInOrder /\ Sized(reads)
  BY GuardedMeans DEF ReadInv, OctetInv, Sound
<1>2. pc = "done" => conn.pending = NoRead /\ \A i \in 1 .. 2 : reads[i].state # Pending
  BY <1>1 DEF Guarded, Waiting, ReadsInOrder
<1>3. ASSUME NEW i \in 1 .. 2, reads[i].state = Pending
      PROVE  /\ reads[i].state # "resolved" /\ reads[i] # Unmade
             /\ i = 1 => reads[2] = Unmade
             /\ reads[i].n \in Nat
             /\ i = 1 => reads[i].n = PREFIX_LENGTH
             /\ i = 2 => reads[1].state = "resolved" /\ reads[i].n = Length(reads[1].value)
  <2>1. reads[i].state # "resolved" /\ reads[i] # Unmade
    BY <1>3 DEF Pending, Unmade
  <2>2. i = 1 => reads[2] = Unmade
    BY <1>1, <2>1 DEF ReadsInOrder
  <2> QED
    BY <1>1, <2>1, <2>2 DEF Sized
<1> QED
  BY <1>2, <1>3

\* The fields become c by an event that leaves the reads to try_resolve_pending.
LEMMA EventSound ==
    ASSUME ReadInv, OctetInv, NEW c, IsConn(c), c.pending = conn.pending, NEW a,
           Sound(c, reads, a), try_resolve_pending(c), UNCHANGED <<stream, pc, outcome>>, arrived' = a
    PROVE  OctetInv'
<1>1. Guarded /\ Shape /\ stream \in Seq(Octet)
  BY GuardedMeans DEF ReadInv, OctetInv
<1>2. CASE conn' = c /\ UNCHANGED <<reads, timers, listeners>>
  <2>1. Sound(conn, reads, arrived)'
    BY <1>2 DEF Sound, Octets, Sized, Early
  <2>2. Reported'
    BY <1>2 DEF OctetInv, Reported
  <2> QED
    BY <1>1, <2>1, <2>2 DEF OctetInv
<1>3. CASE c.pending # NoRead /\ try_resolve(c, c.pending, reads[c.pending].n)
  <2>1. c.pending \in 1 .. 2 /\ reads[c.pending].state = Pending
    BY <1>1, <1>3 DEF Guarded, Waiting
  <2>2. reads = [j \in 1 .. 2 |-> reads[j]]
    BY <1>1 DEF Shape
  <2> DEFINE i == c.pending
             n == reads[i].n
  <2>3. /\ i \in 1 .. 2 /\ reads[i].state # "resolved" /\ pc # "done"
        /\ (i = 1 => reads[2] = Unmade) /\ n \in Nat /\ (i = 1 => n = PREFIX_LENGTH)
        /\ i = 2 => reads[1].state = "resolved" /\ n = Length(reads[1].value)
    BY <1>3, <2>1, PendingRead
  <2>4. try_resolve(c, i, n)
    BY <1>3
  <2> HIDE DEF i, n
  <2>5. Sound(conn', reads', a)
    BY <1>1, <2>2, <2>3, <2>4, TrySound
  <2>6. Sound(conn, reads, arrived)'
    BY <2>5 DEF Sound, Octets, Sized, Early
  <2>7. Reported'
    BY <2>3 DEF Reported
  <2> QED
    BY <1>1, <2>6, <2>7 DEF OctetInv
<1> QED
  BY <1>2, <1>3 DEF try_resolve_pending

LEMMA EventsSound ==
    ASSUME ReadInv, OctetInv, \/ \E k \in 1 .. Len(stream) - arrived : Data(k)
                              \/ End \/ Error \/ Close
    PROVE  OctetInv'
<1>1. IsConn(conn) /\ Sound(conn, reads, arrived) /\ stream \in Seq(Octet)
  BY DEF ReadInv, Shape, OctetInv
<1>2. CASE \E k \in 1 .. Len(stream) - arrived : Data(k)
  <2>1. PICK k \in 1 .. Len(stream) - arrived : Data(k)
    BY <1>2
  <2> DEFINE x == Append(conn.chunks, SubSeq(stream, arrived + 1, arrived + k))
             y == conn.buffered_len + k
             c == [conn EXCEPT !.chunks = x, !.buffered_len = y]
  <2>2. /\ try_resolve_pending(c) /\ UNCHANGED <<stream, pc, outcome>>
        /\ arrived' = arrived + k /\ ~conn.ended
    BY <2>1 DEF Data, Open
  <2>3. IsConn(c) /\ c.pending = conn.pending
    BY <1>1, DataConn
  <2>4. Sound(c, reads, arrived + k)
    BY <1>1, <2>1, <2>2, DataSound
  <2> HIDE DEF c
  <2> QED
    BY <2>2, <2>3, <2>4, EventSound
<1>3. CASE End \/ Close
  <2> DEFINE c == [conn EXCEPT !.ended = TRUE]
  <2>1. try_resolve_pending(c) /\ UNCHANGED <<stream, arrived, pc, outcome>>
    BY <1>3 DEF End, Close
  <2>2. IsConn(c) /\ c.pending = conn.pending
    BY <1>1, ConnExcept
  <2>3. c.chunks = conn.chunks /\ c.buffered_len = conn.buffered_len /\ c.ended = TRUE
    BY <1>1 DEF IsConn
  <2> HIDE DEF c
  <2>4. Sound(c, reads, arrived)
    BY <1>1, <2>2, <2>3, FlagsSound
  <2> QED
    BY <2>1, <2>2, <2>4, EventSound
<1>4. CASE Error
  <2> DEFINE c == [conn EXCEPT !.fatal = TRUE]
  <2>1. try_resolve_pending(c) /\ UNCHANGED <<stream, arrived, pc, outcome>>
    BY <1>4 DEF Error
  <2>2. IsConn(c) /\ c.pending = conn.pending
    BY <1>1, ConnExcept
  <2>3. c.chunks = conn.chunks /\ c.buffered_len = conn.buffered_len /\ c.ended = conn.ended
    BY <1>1 DEF IsConn
  <2> HIDE DEF c
  <2>4. Sound(c, reads, arrived)
    BY <1>1, <2>2, <2>3, FlagsSound
  <2> QED
    BY <2>1, <2>2, <2>4, EventSound
<1> QED
  BY <1>2, <1>3, <1>4

\* The timer and the signal reject a read that waits.
LEMMA RejectionSound ==
    ASSUME ReadInv, OctetInv, NEW i \in 1 .. 2, reads[i].state = Pending,
           NEW e \in {"timeout", "aborted"}, reads' = [reads EXCEPT ![i] = Rejected(reads[i].n, e)],
           NEW x, conn' = [conn EXCEPT !.pending = x], UNCHANGED <<stream, arrived, pc, outcome>>
    PROVE  OctetInv'
<1>1. /\ IsConn(conn) /\ Sound(conn, reads, arrived) /\ stream \in Seq(Octet)
      /\ reads = [j \in 1 .. 2 |-> reads[j]]
  BY DEF ReadInv, Shape, OctetInv
<1>2. /\ pc # "done" /\ reads[i].state # "resolved" /\ (i = 1 => reads[2] = Unmade)
      /\ reads[i].n \in Nat /\ (i = 1 => reads[i].n = PREFIX_LENGTH)
      /\ i = 2 => reads[1].state = "resolved" /\ reads[i].n = Length(reads[1].value)
  BY PendingRead
<1> DEFINE r == Rejected(reads[i].n, e)
<1>3. r.n = reads[i].n /\ r.state = e /\ r.value = <<>>
  BY DEF Rejected
<1> HIDE DEF r
<1>4. Sound(conn, [reads EXCEPT ![i] = r], arrived)
  BY <1>1, <1>2, <1>3, OtherSound
<1>5. /\ IsConn(conn') /\ conn'.chunks = conn.chunks /\ conn'.buffered_len = conn.buffered_len
      /\ conn'.ended = conn.ended
  BY <1>1 DEF IsConn
<1>6. Sound(conn', [reads EXCEPT ![i] = r], arrived)
  BY <1>1, <1>4, <1>5, FlagsSound
<1>7. Sound(conn, reads, arrived)'
  <2>1. Sound(conn', reads', arrived')
    BY <1>6 DEF r
  <2> QED
    BY <2>1 DEF Sound, Octets, Sized, Early
<1> QED
  BY <1>1, <1>2, <1>7 DEF OctetInv, Reported

LEMMA TimeoutSound ==
    ASSUME ReadInv, OctetInv, NEW i \in timers, Timeout(i)
    PROVE  OctetInv'
<1>1. i \in 1 .. 2 /\ reads[i].state = Pending
  BY GuardedMeans DEF ReadInv, Guarded, Waiting
<1>2. /\ conn' = [conn EXCEPT !.pending = NoRead]
      /\ reads' = [reads EXCEPT ![i] = Rejected(reads[i].n, "timeout")]
      /\ UNCHANGED <<stream, arrived, pc, outcome>>
  BY <1>1 DEF Timeout, Settle
<1> QED
  BY <1>1, <1>2, RejectionSound

LEMMA AbortSound ==
    ASSUME ReadInv, OctetInv, Abort
    PROVE  OctetInv'
<1>1. Guarded /\ Shape
  BY GuardedMeans DEF ReadInv
<1> DEFINE x == IF listeners = {} THEN conn.pending ELSE NoRead
<1>2. conn' = [conn EXCEPT !.pending = x] /\ UNCHANGED <<stream, arrived, pc, outcome>>
  BY DEF Abort
<1> HIDE DEF x
<1>3. /\ reads' = [j \in 1 .. 2 |-> reads'[j]]
      /\ \A j \in 1 .. 2 : reads'[j] = IF j \in listeners /\ reads[j].state = Pending
                                      THEN Rejected(reads[j].n, "aborted") ELSE reads[j]
      /\ reads = [j \in 1 .. 2 |-> reads[j]]
  BY <1>1 DEF Shape, Abort
<1>4. \A j \in 1 .. 2 : reads[j].state = Pending => j \in listeners /\ j = conn.pending
  BY <1>1 DEF Guarded, Waiting
<1>5. CASE \E i \in 1 .. 2 : reads[i].state = Pending
  <2>1. PICK i \in 1 .. 2 : reads[i].state = Pending
    BY <1>5
  <2>2. \A j \in 1 .. 2 : j # i => reads[j].state # Pending
    BY <1>4, <2>1
  <2>3. reads' = [reads EXCEPT ![i] = Rejected(reads[i].n, "aborted")]
    BY <1>3, <1>4, <2>1, <2>2
  <2> QED
    BY <1>2, <2>1, <2>3, RejectionSound
<1>6. CASE \A i \in 1 .. 2 : reads[i].state # Pending
  <2>1. reads' = reads
    BY <1>3, <1>6
  <2>2. /\ IsConn(conn) /\ IsConn(conn') /\ conn'.chunks = conn.chunks
        /\ conn'.buffered_len = conn.buffered_len /\ conn'.ended = conn.ended
    BY <1>1, <1>2 DEF IsConn, Shape
  <2>3. Sound(conn', reads, arrived)
    BY <2>2, FlagsSound DEF OctetInv
  <2>4. Sound(conn, reads, arrived)'
    BY <1>2, <2>1, <2>3 DEF Sound, Octets, Sized, Early
  <2> QED
    BY <1>2, <2>1, <2>4 DEF OctetInv, Reported
<1> QED
  BY <1>5, <1>6

\* A read is made.
LEMMA RecvSound ==
    ASSUME ReadInv, OctetInv, NEW i \in 1 .. 2, reads[i] = Unmade, reads[2] = Unmade,
           NEW n \in Nat, i = 1 => n = PREFIX_LENGTH,
           i = 2 => reads[1].state = "resolved" /\ n = Length(reads[1].value),
           recv_exact(i, n), UNCHANGED <<stream, arrived>>
    PROVE  OctetInv'
<1>1. /\ IsConn(conn) /\ Sound(conn, reads, arrived) /\ stream \in Seq(Octet)
      /\ reads = [j \in 1 .. 2 |-> reads[j]]
  BY DEF ReadInv, Shape, OctetInv
<1>2. reads[i].state # "resolved"
  BY DEF Unmade
<1>3. ASSUME NEW r, r.n = n, r.state \in {"transport", "aborted", Pending}, r.value = <<>>
      PROVE  Sound(conn, [reads EXCEPT ![i] = r], arrived)
  <2>1. r.state \notin {"resolved", "unmade", "none"} /\ r.state # "ended"
    BY <1>3 DEF Pending
  <2> QED
    BY <1>1, <1>2, <1>3, <2>1, OtherSound
<1>4. Sound(conn', reads', arrived)
  <2>1. CASE /\ \E e \in {"transport", "aborted"} : reads' = [reads EXCEPT ![i] = Rejected(n, e)]
             /\ conn' = conn
    <3>1. PICK e \in {"transport", "aborted"} : reads' = [reads EXCEPT ![i] = Rejected(n, e)]
      BY <2>1
    <3>2. Rejected(n, e).n = n /\ Rejected(n, e).state = e /\ Rejected(n, e).value = <<>>
      BY DEF Rejected
    <3> QED
      BY <1>3, <2>1, <3>1, <3>2
  <2>2. CASE try_resolve(conn, i, n)
    BY <1>1, <1>2, <2>2, TrySound
  <2>3. CASE /\ conn' = [conn EXCEPT !.pending = i]
             /\ reads' = [reads EXCEPT ![i] = [n |-> n, state |-> Pending, value |-> <<>>]]
    <3> DEFINE r == [n |-> n, state |-> Pending, value |-> <<>>]
    <3>1. r.n = n /\ r.state = Pending /\ r.value = <<>>
      OBVIOUS
    <3> HIDE DEF r
    <3>2. Sound(conn, [reads EXCEPT ![i] = r], arrived)
      BY <1>3, <3>1
    <3>3. /\ IsConn(conn') /\ conn'.chunks = conn.chunks /\ conn'.buffered_len = conn.buffered_len
          /\ conn'.ended = conn.ended
      BY <1>1, <2>3 DEF IsConn
    <3>4. Sound(conn', [reads EXCEPT ![i] = r], arrived)
      BY <1>1, <3>2, <3>3, FlagsSound
    <3> QED
      BY <2>3, <3>4 DEF r
  <2> QED
    BY <2>1, <2>2, <2>3 DEF recv_exact
<1>5. Sound(conn, reads, arrived)'
  BY <1>4 DEF Sound, Octets, Sized, Early
<1>6. pc' = "reading"
  BY DEF recv_exact
<1> QED
  BY <1>1, <1>5, <1>6 DEF OctetInv, Reported

\* The exchange is over.
LEMMA FinishSound ==
    ASSUME ReadInv, OctetInv, NEW o, Finish(o), close, UNCHANGED <<stream, arrived>>,
           o.error = "none" => reads[2].state = "resolved" /\ o.message = reads[2].value,
           o.error = "ended" => reads[1].state = "ended" \/ reads[2].state = "ended"
    PROVE  OctetInv'
<1>1. IsConn(conn) /\ Sound(conn, reads, arrived) /\ stream \in Seq(Octet)
  BY DEF ReadInv, Shape, OctetInv
<1>2. conn' = [conn EXCEPT !.closed = TRUE] /\ reads' = reads /\ outcome' = o
  BY DEF Finish, close
<1>3. /\ IsConn(conn') /\ conn'.chunks = conn.chunks /\ conn'.buffered_len = conn.buffered_len
      /\ conn'.ended = conn.ended
  BY <1>1, <1>2 DEF IsConn
<1>4. Sound(conn', reads, arrived)
  BY <1>1, <1>3, FlagsSound
<1>5. Sound(conn, reads, arrived)'
  BY <1>2, <1>4 DEF Sound, Octets, Sized, Early
<1> QED
  BY <1>1, <1>2, <1>5 DEF OctetInv, Reported

LEMMA ExchangeSound ==
    ASSUME ReadInv, OctetInv, Continue \/ \E failed \in BOOLEAN : Written(failed)
    PROVE  OctetInv'
<1>1. ReadsInOrder /\ Sized(reads) /\ Octets(conn, reads[1].value, reads[2].value, arrived)
  BY DEF ReadInv, OctetInv, Sound
<1>2. CASE \E failed \in BOOLEAN : Written(failed)
  <2>1. PICK failed \in BOOLEAN : Written(failed)
    BY <1>2
  <2>2. pc = "writing" /\ reads[1] = Unmade /\ reads[2] = Unmade /\ UNCHANGED <<stream, arrived>>
    BY <1>1, <2>1 DEF Written, ReadsInOrder, Unmade
  <2>3. CASE failed
    <3> DEFINE o == [error |-> "transport", message |-> <<>>]
    <3>1. Finish(o) /\ close
      BY <2>1, <2>3 DEF Written
    <3>2. o.error = "transport"
      OBVIOUS
    <3> HIDE DEF o
    <3> QED
      BY <2>2, <3>1, <3>2, FinishSound
  <2>4. CASE ~failed
    <3>1. recv_exact(1, PREFIX_LENGTH)
      BY <2>1, <2>4 DEF Written
    <3>2. PREFIX_LENGTH \in Nat
      BY DEF PREFIX_LENGTH
    <3> QED
      BY <2>2, <3>1, <3>2, RecvSound
  <2> QED
    BY <2>3, <2>4
<1>3. CASE Continue
  <2> DEFINE read == reads[Awaited]
  <2>1. /\ UNCHANGED <<stream, arrived>> /\ Awaited \in 1 .. 2
        /\ Awaited = 1 => reads[2] = Unmade
    BY <1>3 DEF Continue, Awaited
  <2>2. CASE read.state # "resolved"
    <3> DEFINE o == [error |-> read.state, message |-> <<>>]
    <3>1. Finish(o) /\ close
      BY <1>3, <2>2 DEF Continue
    <3>2. o.error = read.state /\ read.state # "none"
      BY <1>1, <2>1 DEF Sized
    <3> HIDE DEF o
    <3> QED
      BY <2>1, <3>1, <3>2, FinishSound
  <2>3. CASE read.state = "resolved" /\ Awaited = 1
    <3>1. recv_exact(2, Length(reads[1].value))
      BY <1>3, <2>3 DEF Continue
    <3>2. reads[1].state = "resolved" /\ reads[2] = Unmade
      BY <2>1, <2>3
    <3>3. Length(reads[1].value) \in Nat
      <4> DEFINE v == reads[1].value
      <4>1. v \in Seq(Octet) /\ Len(v) = 2
        BY <1>1, <3>2, PrefixRead DEF Octets
      <4> HIDE DEF v
      <4>2. Len(v) >= 2
        BY <4>1
      <4>3. Length(v) \in Nat
        BY <4>1, <4>2, LengthIsNat
      <4> QED
        BY <4>3 DEF v
    <3> QED
      BY <2>1, <3>1, <3>2, <3>3, RecvSound
  <2>4. CASE read.state = "resolved" /\ Awaited # 1
    <3> DEFINE o == [error |-> "none", message |-> read.value]
    <3>1. Finish(o) /\ close
      BY <1>3, <2>4 DEF Continue
    <3>2. o.error = "none" /\ o.message = read.value /\ Awaited = 2
      BY <2>1, <2>4
    <3> HIDE DEF o
    <3> QED
      BY <2>1, <2>4, <3>1, <3>2, FinishSound
  <2> QED
    BY <2>2, <2>3, <2>4
<1> QED
  BY <1>2, <1>3

-----------------------------------------------------------------------------
(* The theorems *)

LEMMA OctetsProved == Spec => []OctetInv
<1>1. Init => OctetInv
  <2> SUFFICES ASSUME Init PROVE OctetInv
    OBVIOUS
  <2>1. /\ stream \in Seq(Octet) /\ arrived = 0 /\ pc = "writing"
        /\ reads[1] = Unmade /\ reads[2] = Unmade
        /\ conn.chunks = <<>> /\ conn.buffered_len = 0
    BY StreamsAssumption DEF Init
  <2>2. Unmade.n = 0 /\ Unmade.state = "unmade" /\ Unmade.value = <<>>
    BY DEF Unmade
  <2>3. Octets(conn, <<>>, <<>>, 0)
    <3>1. FlattenSeq(<<>>) = <<>>
      BY DEF FlattenSeq
    <3>2. <<>> \in Seq(Seq(Octet)) /\ <<>> \in Seq(Octet) /\ (<<>> \o <<>>) \o <<>> = <<>> /\ Len(<<>>) = 0
      OBVIOUS
    <3>3. SubSeq(stream, 1, 0) = <<>>
      BY SubSeqEmpty
    <3> QED
      BY <2>1, <3>1, <3>2, <3>3 DEF Octets
  <2>4. Sized(reads)
    <3>1. \A i \in 1 .. 2 : reads[i] = Unmade
      BY <2>1
    <3> QED
      BY <2>2, <3>1 DEF Sized
  <2>5. Early(conn, reads, 0)
    BY <2>1, <2>2 DEF Early
  <2>6. 0 \in 0 .. Len(stream)
    BY <2>1
  <2> QED
    BY <2>1, <2>2, <2>3, <2>4, <2>5, <2>6 DEF OctetInv, Sound, Reported
<1>2. ReadInv /\ OctetInv /\ [Next]_vars => OctetInv'
  <2> SUFFICES ASSUME ReadInv, OctetInv, [Next]_vars PROVE OctetInv'
    OBVIOUS
  <2>1. CASE UNCHANGED vars
    BY <2>1 DEF vars, OctetInv, Sound, Octets, Sized, Early, Reported
  <2>2. CASE Next
    BY <2>2, EventsSound, TimeoutSound, AbortSound, ExchangeSound DEF Next
  <2> QED
    BY <2>1, <2>2
<1> QED
  BY <1>1, <1>2, ReadsProved, PTL DEF Spec

\* However a stream is cut into chunks, the octets that have arrived are those
\* the reads took followed by the buffer, in order and each once (take and
\* try_resolve_pending in stream.ts).
THEOREM OctetsAreConserved == FairSpec => []OctetsConserved
<1>1. FairSpec => Spec
  BY DEF FairSpec
<1>2. OctetInv => OctetsConserved
  BY DEF OctetInv, Sound, Octets, OctetsConserved, buffered
<1> QED
  BY <1>1, <1>2, OctetsProved, PTL

\* For every stream and every order of events: exchange returns the message
\* the length prefix announces or fails, and blames the end of the stream only
\* when the message was cut short.
THEOREM FirstMessageReturned == FairSpec => []FirstMessage
<1>1. FairSpec => Spec
  BY DEF FairSpec
<1>2. ReadInv /\ OctetInv => FirstMessage
  <2> SUFFICES ASSUME ReadInv, OctetInv, pc = "done"
               PROVE  /\ outcome.error = "none" => Whole /\ outcome.message = Message
                      /\ outcome.error = "ended" =>
                            ~Whole \/ arrived < PREFIX_LENGTH + Length(stream)
    BY DEF FirstMessage
  <2> DEFINE v == reads[1].value
             w == reads[2].value
             b == FlattenSeq(conn.chunks)
  <2>1. /\ stream \in Seq(Octet) /\ arrived \in 0 .. Len(stream)
        /\ v \in Seq(Octet) /\ w \in Seq(Octet) /\ (v \o w) \o b = SubSeq(stream, 1, arrived)
        /\ b \in Seq(Octet) /\ Sized(reads) /\ Early(conn, reads, arrived) /\ Reported
    BY FlattenAppend, <<>> \in Seq(Octet) DEF OctetInv, Sound, Octets
  <2> HIDE DEF v, w, b
  <2>2. v \in Seq(Octet) /\ w \in Seq(Octet) /\ b \in Seq(Octet)
    BY <2>1
  <2>3. ASSUME reads[1].state = "resolved"
        PROVE  Len(v) = 2 /\ Len(stream) >= 2 /\ Length(v) = Length(stream) /\ Length(stream) \in Nat
    <3>1. Len(v) = 2
      BY <2>1, <2>3, PrefixRead DEF v
    <3> DEFINE all == (v \o w) \o b
    <3>2. Len(all) >= 2 /\ all[1] = v[1] /\ all[2] = v[2]
      <4>1. Len(all) = Len(v) + Len(w) + Len(b) /\ \A i \in 1 .. Len(v) : all[i] = v[i]
        BY <2>2, ThreeParts
      <4>2. Len(w) \in Nat /\ Len(b) \in Nat
        BY <2>1
      <4> HIDE DEF all
      <4> QED
        BY <3>1, <4>1, <4>2
    <3>3. all = SubSeq(stream, 1, arrived)
      BY <2>1
    <3> HIDE DEF all
    <3>4. Len(stream) >= 2 /\ stream[1] = v[1] /\ stream[2] = v[2]
      BY <2>1, <3>2, <3>3
    <3>5. Length(v) \in Nat
      <4>1. Len(v) >= 2
        BY <3>1
      <4> QED
        BY <2>2, <4>1, LengthIsNat
    <3> QED
      BY <3>1, <3>4, <3>5 DEF Length
  <2>4. ASSUME outcome.error = "none" PROVE Whole /\ outcome.message = Message
    <3>1. reads[2].state = "resolved" /\ outcome.message = w
      BY <2>1, <2>4 DEF Reported, w
    <3>2. reads[1].state = "resolved" /\ Len(w) = Length(v)
      BY <2>1, <3>1 DEF Sized, Unmade, v, w
    <3> DEFINE l == Length(stream)
    <3>3. Len(v) = 2 /\ Len(w) = l /\ l \in Nat
      BY <2>3, <3>2
    <3> HIDE DEF l
    <3> DEFINE all == (v \o w) \o b
    <3>4. Len(all) >= 2 + l /\ \A i \in 1 .. l : all[2 + i] = w[i]
      <4>1. /\ Len(all) = Len(v) + Len(w) + Len(b)
            /\ \A i \in 1 .. Len(w) : all[Len(v) + i] = w[i]
        BY <2>2, ThreeParts
      <4>2. Len(b) \in Nat
        BY <2>1
      <4> HIDE DEF all
      <4> QED
        BY <3>3, <4>1, <4>2
    <3>5. all = SubSeq(stream, 1, arrived)
      BY <2>1
    <3> HIDE DEF all
    <3>6. Len(stream) >= 2 + l /\ \A i \in 1 .. l : stream[2 + i] = w[i]
      BY <2>1, <3>3, <3>4, <3>5
    <3>7. SubSeq(stream, 3, 2 + l) = w
      BY <2>1, <3>3, <3>6
    <3> QED
      BY <3>1, <3>3, <3>6, <3>7 DEF Whole, Message, PREFIX_LENGTH, l
  <2>5. ASSUME outcome.error = "ended" PROVE ~Whole \/ arrived < PREFIX_LENGTH + Length(stream)
    <3>1. CASE reads[1].state = "ended"
      <4> SUFFICES ASSUME Whole PROVE arrived < PREFIX_LENGTH + Length(stream)
        OBVIOUS
      <4>1. arrived < 2 /\ arrived \in Nat /\ Len(stream) >= 2
        BY <2>1, <3>1 DEF Early, PREFIX_LENGTH, Whole
      <4>2. Length(stream) \in Nat
        BY <2>1, <4>1, LengthIsNat
      <4> QED
        BY <4>1, <4>2 DEF PREFIX_LENGTH
    <3>2. CASE reads[2].state = "ended"
      <4>1. reads[1].state = "resolved"
        BY <2>1, <3>2 DEF Sized, Unmade
      <4> QED
        BY <2>1, <2>3, <3>2, <4>1 DEF Early, v
    <3> QED
      BY <2>1, <2>5, <3>1, <3>2 DEF Reported
  <2> QED
    BY <2>4, <2>5
<1> QED
  BY <1>1, <1>2, ReadsProved, OctetsProved, PTL
=============================================================================
