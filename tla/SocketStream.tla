---------------------------- MODULE SocketStream ----------------------------
(***************************************************************************)
(* One message exchange over a byte stream (resolver/stream.ts), as the    *)
(* TCP path of the authoritative client and the DoT client run it: write   *)
(* the query, read the two octets of the length prefix, read that many     *)
(* octets, close the socket.                                               *)
(*                                                                         *)
(* A step is one callback of the event loop (data, end, error, close, a    *)
(* timer, the abort signal, the write callback) or the continuation of the *)
(* exchange once the read it awaits has settled.  The continuation is a    *)
(* step of its own because a socket can emit several events in one turn.   *)
(***************************************************************************)
EXTENDS Naturals, Sequences, SequencesExt

CONSTANT Streams        \* what a peer may send: sequences of octets

Octet == 0 .. 255

ASSUME StreamsAssumption == Streams \subseteq Seq(Octet)

VARIABLES
    stream,    \* all the peer is going to send
    arrived,   \* how many octets of it have been delivered
    conn,      \* the fields of the SocketStream
    reads,     \* the promises of recv_exact: 1 for the prefix, 2 for the body
    timers,    \* reads whose timer is armed
    listeners, \* reads that listen to the abort signal
    aborted,
    pc, outcome

vars == <<stream, arrived, conn, reads, timers, listeners, aborted, pc, outcome>>

PREFIX_LENGTH == 2

NoRead == 0

Unmade == [n |-> 0, state |-> "unmade", value |-> <<>>]

Pending == "pending"

buffered == FlattenSeq(conn.chunks)

-----------------------------------------------------------------------------
(* The buffer *)

Nothing(n) == [need |-> n, out |-> <<>>, rest |-> <<>>]

\* Mutant: a chunk used up in part is dropped as a whole.
take_Whole(chunks, n) ==
    LET Step(got, chunk) ==
            LET count == IF Len(chunk) < got.need THEN Len(chunk) ELSE got.need
            IN [need |-> got.need - count,
                out  |-> got.out \o SubSeq(chunk, 1, count),
                rest |-> IF count > 0 THEN got.rest ELSE Append(got.rest, chunk)]
    IN FoldLeft(Step, Nothing(n), chunks)

\* take: the first n octets, chunk by chunk; the rest of a chunk used in part
\* stays at the head.
take(chunks, n) ==
    LET Step(got, chunk) ==
            LET count == IF Len(chunk) < got.need THEN Len(chunk) ELSE got.need
            IN [need |-> got.need - count,
                out  |-> got.out \o SubSeq(chunk, 1, count),
                rest |-> IF count = Len(chunk) THEN got.rest
                         ELSE Append(got.rest, SubSeq(chunk, count + 1, Len(chunk)))]
    IN FoldLeft(Step, Nothing(n), chunks)

-----------------------------------------------------------------------------
(* Settling a read *)

Resolved(n, octets) == [n |-> n, state |-> "resolved", value |-> octets]

Rejected(n, error) == [n |-> n, state |-> error, value |-> <<>>]

\* Mutant: the timer is left armed.
settle_KeepTimer(i) == timers' = timers /\ listeners' = listeners \ {i}

\* settle: the timer is cleared, the listener removed.
settle(i) == timers' = timers \ {i} /\ listeners' = listeners \ {i}

Answer(c, i, read) ==
    /\ conn' = [c EXCEPT !.pending = NoRead]
    /\ reads' = [reads EXCEPT ![i] = read]
    /\ settle(i)

\* Mutant: the end of the stream is looked at before the buffer.
try_resolve_EndFirst(c, i, n) ==
    IF c.fatal THEN Answer(c, i, Rejected(n, "transport"))
    ELSE IF c.ended THEN Answer(c, i, Rejected(n, "ended"))
    ELSE /\ c.buffered_len >= n
         /\ LET got == take(c.chunks, n)
            IN Answer([c EXCEPT !.chunks = got.rest, !.buffered_len = @ - n], i, Resolved(n, got.out))

\* try_resolve_pending, for read i of n octets in the state c of the fields:
\* a failure first, then what is buffered, then the end of the stream.
try_resolve(c, i, n) ==
    IF c.fatal THEN Answer(c, i, Rejected(n, "transport"))
    ELSE IF c.buffered_len >= n
    THEN LET got == take(c.chunks, n)
         IN Answer([c EXCEPT !.chunks = got.rest, !.buffered_len = @ - n], i, Resolved(n, got.out))
    ELSE c.ended /\ Answer(c, i, Rejected(n, "ended"))

\* The read can be answered in state c.
Served(c, n) == c.fatal \/ c.buffered_len >= n \/ c.ended

\* A socket event has changed the fields to c.
try_resolve_pending(c) ==
    LET i == c.pending
    IN IF i # NoRead /\ Served(c, reads[i].n)
       THEN try_resolve(c, i, reads[i].n)
       ELSE conn' = c /\ UNCHANGED <<reads, timers, listeners>>

-----------------------------------------------------------------------------
(* Socket events *)

Open == ~conn.closed /\ ~conn.fatal /\ ~conn.ended

Data(k) ==
    /\ Open
    /\ arrived' = arrived + k
    /\ try_resolve_pending([conn EXCEPT
            !.chunks = Append(@, SubSeq(stream, arrived + 1, arrived + k)),
            !.buffered_len = @ + k])
    /\ UNCHANGED <<stream, aborted, pc, outcome>>

\* The peer has closed its side: all it sent is delivered.
End ==
    /\ Open /\ arrived = Len(stream)
    /\ try_resolve_pending([conn EXCEPT !.ended = TRUE])
    /\ UNCHANGED <<stream, arrived, aborted, pc, outcome>>

Error ==
    /\ ~conn.closed /\ ~conn.fatal
    /\ try_resolve_pending([conn EXCEPT !.fatal = TRUE])
    /\ UNCHANGED <<stream, arrived, aborted, pc, outcome>>

\* 'close' follows an error and destroy().
Close ==
    /\ conn.closed \/ conn.fatal
    /\ ~conn.ended
    /\ try_resolve_pending([conn EXCEPT !.ended = TRUE])
    /\ UNCHANGED <<stream, arrived, aborted, pc, outcome>>

-----------------------------------------------------------------------------
(* The timer and the signal *)

\* Mutant: the pending read is forgotten and not rejected.
Timeout_Silent(i) ==
    /\ i \in timers
    /\ timers' = timers \ {i}
    /\ conn' = [conn EXCEPT !.pending = NoRead]
    /\ UNCHANGED <<stream, arrived, reads, listeners, aborted, pc, outcome>>

\* A promise that has settled stays as it is.
Settle(rs, i, error) == [rs EXCEPT ![i] = IF @.state = Pending THEN Rejected(@.n, error) ELSE @]

\* The listener is not removed.
Timeout(i) ==
    /\ i \in timers
    /\ timers' = timers \ {i}
    /\ conn' = [conn EXCEPT !.pending = NoRead]
    /\ reads' = Settle(reads, i, "timeout")
    /\ UNCHANGED <<stream, arrived, listeners, aborted, pc, outcome>>

\* Every listener clears its own timer, forgets whatever read is pending and
\* rejects its own.
Abort ==
    /\ ~aborted /\ aborted' = TRUE
    /\ timers' = timers \ listeners
    /\ listeners' = {}
    /\ conn' = [conn EXCEPT !.pending = IF listeners = {} THEN @ ELSE NoRead]
    /\ reads' = [i \in DOMAIN reads |->
                    IF i \in listeners /\ reads[i].state = Pending
                    THEN Rejected(reads[i].n, "aborted") ELSE reads[i]]
    /\ UNCHANGED <<stream, arrived, pc, outcome>>

-----------------------------------------------------------------------------
(* exchange, and close in the caller's finally *)

Length(octets) == octets[1] * 256 + octets[2]

Finish(o) == pc' = "done" /\ outcome' = o

\* recv_exact: rejects at once after a failure or an abort, otherwise arms
\* the timer, listens and tries the buffer.
recv_exact(i, n) ==
    /\ pc' = "reading"
    /\ IF conn.fatal \/ aborted
       THEN /\ reads' = [reads EXCEPT ![i] = Rejected(n, IF conn.fatal THEN "transport" ELSE "aborted")]
            /\ UNCHANGED <<conn, timers, listeners>>
       ELSE IF Served(conn, n) THEN try_resolve(conn, i, n)
       ELSE /\ conn' = [conn EXCEPT !.pending = i]
            /\ reads' = [reads EXCEPT ![i] = [n |-> n, state |-> Pending, value |-> <<>>]]
            /\ timers' = timers \cup {i}
            /\ listeners' = listeners \cup {i}
    /\ UNCHANGED outcome

close == conn' = [conn EXCEPT !.closed = TRUE] /\ UNCHANGED <<reads, timers, listeners>>

\* The write callback: neither the timer nor the signal guards the write.
Written(failed) ==
    /\ pc = "writing"
    /\ failed \/ ~conn.fatal
    /\ IF failed THEN Finish([error |-> "transport", message |-> <<>>]) /\ close
       ELSE recv_exact(1, PREFIX_LENGTH)
    /\ UNCHANGED <<stream, arrived, aborted>>

\* The read the exchange awaits is the last one made.
Awaited == IF reads[2] = Unmade THEN 1 ELSE 2

Continue ==
    LET read == reads[Awaited]
    IN /\ pc = "reading" /\ read.state # Pending
       /\ IF read.state # "resolved"
          THEN Finish([error |-> read.state, message |-> <<>>]) /\ close
          ELSE IF Awaited = 1
          THEN recv_exact(2, Length(read.value))
          ELSE Finish([error |-> "none", message |-> read.value]) /\ close
       /\ UNCHANGED <<stream, arrived, aborted>>

-----------------------------------------------------------------------------
(* Specification *)

Init ==
    /\ stream \in Streams /\ arrived = 0
    /\ conn = [chunks |-> <<>>, buffered_len |-> 0, pending |-> NoRead,
               fatal |-> FALSE, ended |-> FALSE, closed |-> FALSE]
    /\ reads = [i \in 1 .. 2 |-> Unmade]
    /\ timers = {} /\ listeners = {} /\ aborted = FALSE
    /\ pc = "writing" /\ outcome = [error |-> "none", message |-> <<>>]

Next ==
    \/ \E k \in 1 .. Len(stream) - arrived : Data(k)
    \/ End \/ Error \/ Close
    \/ \E i \in timers : Timeout(i)
    \/ Abort
    \/ \E failed \in BOOLEAN : Written(failed)
    \/ Continue

\* Timers fire and continuations run; nothing is expected of the peer, nor
\* of the write callback.
Fairness == WF_vars(\E i \in timers : Timeout(i)) /\ WF_vars(Continue)

Spec == Init /\ [][Next]_vars

FairSpec == Spec /\ Fairness

-----------------------------------------------------------------------------
(* Properties *)

\* Everything delivered is handed out once and in order: what the reads took
\* followed by the buffer is what has arrived, and the length kept beside the
\* chunks is theirs.
OctetsConserved ==
    /\ conn.buffered_len = Len(buffered)
    /\ reads[1].value \o reads[2].value \o buffered = SubSeq(stream, 1, arrived)

\* The stream holds a whole message, and its octets.
Whole == Len(stream) >= PREFIX_LENGTH /\ Len(stream) >= PREFIX_LENGTH + Length(stream)

Message == SubSeq(stream, PREFIX_LENGTH + 1, PREFIX_LENGTH + Length(stream))

\* exchange returns the first message of the stream or fails; that the stream
\* ended early is said only of a stream that holds no whole message, or was
\* closed before the whole message had arrived.
FirstMessage ==
    pc = "done" =>
        /\ outcome.error = "none" => Whole /\ outcome.message = Message
        /\ outcome.error = "ended" =>
            ~Whole \/ arrived < PREFIX_LENGTH + Length(stream)

\* The read that is waiting is the pending one and has its timer, and no
\* timer outlives its read: a stray one would make the next read be forgotten.
ReadsGuarded ==
    /\ timers = {i \in DOMAIN reads : reads[i].state = Pending}
    /\ timers \subseteq {conn.pending} /\ timers \subseteq listeners
    /\ conn.pending # NoRead => conn.pending \in timers

\* An exchange whose query was written settles, and leaves the socket closed.
Settles == (pc = "reading") ~> (pc = "done" /\ conn.closed)
=============================================================================
