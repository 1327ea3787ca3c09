---------------------------- MODULE ClientProofs ----------------------------
(***************************************************************************)
(* Theorems about a query of a network client, for any number of servers   *)
(* and any malformed addresses among them: it implements Failover, its     *)
(* sockets are closed, and after an abort it sits out no timer.            *)
(***************************************************************************)
EXTENDS ResolverClient, TLAPS

Op == Timed \cup Unguarded \cup {"dial", "udp write"}

Settled == outcome # Promise!Pending

\* The transport an attempt may hold a socket of, by the await it is in.
Carried(o, t) ==
    \/ o \in {"udp write", "udp read"} /\ t = "udp"
    \/ o \in {"tcp connect", "write", "read"} /\ t = "tcp"
    \/ o \in {"tls connect", "write", "read"} /\ t = "tls"

Holds(held, o, i) == held = {} \/ \E t : Carried(o, t) /\ held = {<<i, t>>}

LoopInv ==
    /\ servers \in Nat /\ server \in Nat \ {0}
    /\ op \in Op /\ failures \in Seq(Error)
    /\ ~Settled /\ servers = 0 => op = "dial"
    /\ ~Settled => Len(failures) = server - 1
    /\ ~Settled /\ servers # 0 => server <= servers
    /\ first_err = IF failures = <<>> THEN None ELSE failures[1]

SocketInv == Holds(sockets, op, server) /\ (Settled => sockets = {})

-----------------------------------------------------------------------------
(* What an attempt that throws does *)

\* What a query settles with is told from a query that has not settled.
LEMMA Kinds ==
    /\ \A error : Promise!AllFailed(error) # Promise!Pending
    /\ \A i : Promise!Response(i) # Promise!Pending
    /\ Promise!NothingToAsk # Promise!Pending
  <1>1. ASSUME NEW error PROVE Promise!AllFailed(error).kind # Promise!Pending.kind
    BY DEF Promise!AllFailed, Promise!Pending
  <1>2. ASSUME NEW i PROVE Promise!Response(i).kind # Promise!Pending.kind
    BY DEF Promise!Response, Promise!Pending
  <1>3. Promise!NothingToAsk.kind # Promise!Pending.kind
    BY DEF Promise!NothingToAsk, Promise!Pending
  <1> QED  BY <1>1, <1>2, <1>3

\* Closing the connection of an attempt leaves no socket: it holds no other.
LEMMA ClosedStep == ASSUME SocketInv, Closed PROVE sockets' = {}
  <1>1. sockets = {} \/ \E t : sockets = {<<server, t>>}
    BY DEF SocketInv, Holds
  <1>2. \A t : <<server, t>>[1] = server
    OBVIOUS
  <1> QED  BY <1>1, <1>2 DEF Closed

\* The catch of query_raw: the first failure is kept, the next server follows
\* or the query rejects.
LEMMA GiveUpStep ==
    ASSUME LoopInv, ~Settled, servers # 0, NEW error \in Error, GiveUp(error),
           UNCHANGED <<client, servers>>
    PROVE  /\ LoopInv' /\ Promise!GiveUp(error)
           /\ op' = "dial" \/ Settled'
  <1>1. /\ failures \in Seq(Error) /\ failures' = Append(failures, error)
        /\ Len(failures) = server - 1 /\ server <= servers
        /\ server \in Nat \ {0} /\ servers \in Nat
    BY DEF LoopInv, GiveUp
  <1>2. /\ failures' \in Seq(Error) /\ Len(failures') = server
        /\ failures' # <<>> /\ failures'[1] \in Error
        /\ failures'[1] = IF failures = <<>> THEN error ELSE failures[1]
    BY <1>1
  <1>3. first_err' = failures'[1]
    <2>1. failures # <<>> => failures[1] \in Error
      BY <1>1
    <2>2. None \notin Error
      BY DEF Error, None
    <2> QED  BY <1>2, <2>1, <2>2 DEF LoopInv, GiveUp
  <1>4. outcome = Promise!Pending /\ UNCHANGED servers
    BY DEF Settled
  <1>5. CASE server < servers
    <2>1. server' = server + 1 /\ op' = "dial" /\ outcome' = Promise!Pending
      BY <1>4, <1>5 DEF GiveUp
    <2>2. LoopInv'
      <3>1. op' \in Op
        BY <2>1 DEF Op
      <3>2. /\ server' \in Nat \ {0} /\ server' <= servers' /\ servers' \in Nat
            /\ servers' # 0 /\ Len(failures') = server' - 1
        BY <1>1, <1>2, <1>4, <1>5, <2>1
      <3> QED  BY <1>2, <1>3, <3>1, <3>2 DEF LoopInv
    <2>3. Promise!GiveUp(error)
      BY <1>1, <1>2, <1>4, <1>5, <2>1 DEF Promise!GiveUp
    <2> QED  BY <2>1, <2>2, <2>3
  <1>6. CASE server = servers
    <2>1. outcome' = Promise!AllFailed(first_err') /\ UNCHANGED <<server, op>>
      BY <1>1, <1>6 DEF GiveUp
    <2>2. Settled'
      BY <2>1, Kinds DEF Settled
    <2>3. LoopInv'
      BY <1>1, <1>2, <1>3, <1>4, <2>1, <2>2 DEF LoopInv
    <2>4. Promise!GiveUp(error)
      BY <1>1, <1>2, <1>3, <1>4, <1>6, <2>1 DEF Promise!GiveUp
    <2> QED  BY <2>2, <2>3, <2>4
  <1> QED  BY <1>1, <1>5, <1>6

\* A failure behind the finally of the attempt.
LEMMA ThrowStep ==
    ASSUME LoopInv, SocketInv, ~Settled, servers # 0, NEW error \in Error, Throw(error),
           UNCHANGED <<client, servers>>
    PROVE  /\ LoopInv' /\ Promise!GiveUp(error) /\ SocketInv'
           /\ op' = "dial" \/ Settled'
  <1>1. LoopInv' /\ Promise!GiveUp(error) /\ (op' = "dial" \/ Settled')
    BY GiveUpStep DEF Throw
  <1>2. sockets' = {}
    BY ClosedStep DEF Throw
  <1> QED  BY <1>1, <1>2 DEF SocketInv, Holds

\* A usable response settles the query.
LEMMA ReturnStep ==
    ASSUME LoopInv, SocketInv, ~Settled, servers # 0, Return, UNCHANGED <<client, servers>>
    PROVE  LoopInv' /\ SocketInv' /\ Promise!Respond /\ Settled'
  <1>1. sockets' = {}
    BY ClosedStep DEF Return
  <1>2. Settled' /\ UNCHANGED <<server, op, first_err, failures, servers>>
    BY Kinds DEF Return, Settled
  <1>3. Promise!Respond
    BY DEF Return, LoopInv, Settled, Promise!Respond
  <1>4. LoopInv'
    BY <1>2 DEF LoopInv
  <1> QED  BY <1>1, <1>2, <1>3, <1>4 DEF SocketInv, Holds

\* The loop is about to ask a server.
LEMMA Asked ==
    ASSUME LoopInv, At("dial"), servers > 0
    PROVE  op = "dial" /\ ~Settled /\ servers # 0
  BY DEF LoopInv, At, Settled

\* Going on to the next await of an attempt gives up no server.
LEMMA AwaitStep ==
    ASSUME LoopInv, ~Settled, servers # 0, NEW o \in Op, Await(o),
           UNCHANGED <<client, servers>>
    PROVE  LoopInv' /\ ~Settled' /\ op' = o /\ server' = server
  BY DEF LoopInv, Await, Settled

-----------------------------------------------------------------------------
(* The inductive invariant *)

ClientInv == LoopInv /\ SocketInv /\ AbortedNeverWaits

\* A query starts with the invariant and as Failover starts.
THEOREM Start == Init => ClientInv /\ Promise!Init
  <1> SUFFICES ASSUME Init PROVE ClientInv /\ Promise!Init
    OBVIOUS
  <1>1. servers \in Nat
    BY ClientAssumption DEF Init
  <1> QED  BY <1>1 DEF Init, ClientInv, LoopInv, SocketInv, AbortedNeverWaits, Holds,
                   Settled, Op, Promise!Init

\* A step of the client keeps the invariant, and is a step of Failover or none.
LEMMA ClientStep ==
    ASSUME ClientInv, Next
    PROVE  ClientInv' /\ (Promise!Next \/ UNCHANGED Promise!vars)
  <1> USE DEF ClientInv
  <1> DEFINE Fine == ClientInv' /\ (Promise!Next \/ UNCHANGED Promise!vars)
  <1> DEFINE Running == ~Settled /\ servers # 0
  <1>1. ASSUME NEW error \in Error, Throw(error), Running,
               UNCHANGED <<client, servers>>
        PROVE  Fine
    BY <1>1, ThrowStep
    DEF Promise!Next, AbortedNeverWaits, Settled
  <1>2. ASSUME NEW error \in Error, GiveUp(error), Running, sockets' = {},
               UNCHANGED <<client, servers>>
        PROVE  Fine
    BY <1>2, GiveUpStep
    DEF Promise!Next, AbortedNeverWaits, Settled, SocketInv, Holds
  <1>3. ASSUME Return, Running, UNCHANGED <<client, servers>>
        PROVE  Fine
    BY <1>3, ReturnStep DEF Promise!Next, AbortedNeverWaits, Settled
  <1>4. ASSUME NEW o \in Op, Await(o), Running, UNCHANGED <<client, servers>>,
               Holds(sockets', o, server),
               aborted' => o \in Unguarded \cup {"dial", "udp write"}
        PROVE  Fine
    <2>1. LoopInv' /\ ~Settled' /\ op' = o /\ server' = server
      BY <1>4, AwaitStep
    <2>2. SocketInv' /\ AbortedNeverWaits'
      BY <1>4, <2>1 DEF SocketInv, AbortedNeverWaits
    <2>3. UNCHANGED Promise!vars
      BY <1>4 DEF Await, Promise!vars
    <2> QED  BY <2>1, <2>2, <2>3
  <1>5. \A o : At(o) => op = o /\ ~Settled /\ (o # "dial" => Running)
    BY DEF At, LoopInv, Settled
  <1>6. /\ op = "dial" => sockets = {}
        /\ op \in {"fetch", "body", "drain status", "drain media type"} => sockets = {}
        /\ op \in {"udp write", "udp read"} => sockets \subseteq {<<server, "udp">>}
    BY DEF SocketInv, Holds, Carried
  <1>7. CASE NoServers
    <2>1. Promise!NoServers
      BY <1>7 DEF NoServers, At, Same, LoopInv, Promise!NoServers, Settled
    <2>2. Settled'
      BY <1>7, Kinds DEF NoServers, Settled
    <2>3. sockets' = {}
      BY <1>6, <1>7 DEF NoServers, At
    <2>4. LoopInv' /\ SocketInv' /\ AbortedNeverWaits'
      BY <1>7, <2>2, <2>3
      DEF NoServers, Same, LoopInv, SocketInv, Holds, AbortedNeverWaits, Settled
    <2> QED  BY <2>1, <2>4 DEF Promise!Next
  <1>8. CASE dial_udp
    <2>1. Running /\ UNCHANGED <<client, servers, aborted>> /\ sockets = {}
      BY <1>6, <1>8, Asked DEF dial_udp, Same
    <2>2. CASE server \in Malformed
      BY <1>2, <1>8, <2>1, <2>2 DEF dial_udp, Error
    <2>3. CASE server \notin Malformed
      BY <1>4, <1>8, <2>1, <2>3 DEF dial_udp, Created, Op, Holds, Carried
    <2> QED  BY <2>2, <2>3
  <1>9. ASSUME NEW failed \in BOOLEAN, UdpWritten(failed)
        PROVE  Fine
    <2>1. Running /\ UNCHANGED <<client, servers, aborted>> /\ op = "udp write"
      BY <1>5, <1>9 DEF UdpWritten, At, Same
    <2>2. CASE Throw("transport") \/ Throw("aborted")
      BY <1>1, <2>1, <2>2 DEF Error
    <2>3. CASE ~failed /\ ~aborted
      BY <1>4, <1>6, <1>9, <2>1, <2>3
      DEF UdpWritten, AwaitUnlessAborted, Op, Timed, SocketInv, Holds, Carried
    <2> QED  BY <1>9, <2>2, <2>3 DEF UdpWritten, AwaitUnlessAborted
  <1>10. ASSUME NEW d \in Datagram, UdpMessage(d)
         PROVE  Fine
    <2>1. /\ Running /\ UNCHANGED <<client, servers, aborted>>
          /\ op = "udp read" /\ sockets \subseteq {<<server, "udp">>}
      <3>1. At("udp read") /\ Same
        BY <1>10 DEF UdpMessage
      <3>2. op = "udp read" /\ Running
        BY <1>5, <3>1 DEF At
      <3> QED  BY <1>6, <3>1, <3>2 DEF Same
    <2>2. CASE Return
      BY <1>3, <2>1, <2>2
    <2>3. CASE Throw(d) /\ d \in {"mismatch", "short"}
      BY <1>1, <2>1, <2>3 DEF Error
    <2>4. CASE d = "truncated"
      <3>1. sockets' = {<<server, "tcp">>} /\ Await("tcp connect")
        BY <1>10, <2>1, <2>4 DEF UdpMessage
      <3>2. ~aborted
        BY <2>1 DEF AbortedNeverWaits, Unguarded, Settled
      <3> QED  BY <1>4, <2>1, <3>1, <3>2 DEF Op, Timed, Holds, Carried
    <2> QED  BY <1>10, <2>2, <2>3, <2>4 DEF UdpMessage
  <1>11. CASE UdpFails \/ ConnectFails \/ ReadFails
    <2>1. Throw("transport") /\ Running /\ UNCHANGED <<client, servers>>
      <3>1. /\ At("udp read") \/ At("tcp connect") \/ At("tls connect") \/ At("read")
            /\ Throw("transport") /\ Same
        BY <1>11 DEF UdpFails, ConnectFails, ReadFails
      <3> QED  BY <1>5, <3>1 DEF Same, At
    <2> QED  BY <1>1, <2>1 DEF Error
  <1>12. CASE connect
    <2>1. Running /\ UNCHANGED <<client, servers, aborted>> /\ sockets = {}
      BY <1>6, <1>12, Asked DEF connect, Same
    <2>2. CASE sockets' = sockets /\ (GiveUp("aborted") \/ GiveUp("transport"))
      BY <1>2, <2>1, <2>2 DEF Error
    <2>3. CASE ~aborted /\ Created("tls") /\ Await("tls connect")
      BY <1>4, <2>1, <2>3 DEF Created, Op, Timed, Holds, Carried
    <2> QED  BY <1>12, <2>2, <2>3 DEF connect
  <1>13. CASE Connected
    <2>1. /\ Running /\ UNCHANGED <<client, servers, sockets>>
          /\ op \in {"tcp connect", "tls connect"} /\ Await("write")
      <3>1. At("tcp connect") \/ At("tls connect")
        BY <1>13 DEF Connected
      <3>2. Running /\ op \in {"tcp connect", "tls connect"}
        BY <1>5, <3>1 DEF At
      <3> QED  BY <1>13, <3>2 DEF Connected, Same
    <2>2. Holds(sockets, "write", server)
      BY <2>1 DEF SocketInv, Holds, Carried
    <2> QED  BY <1>4, <2>1, <2>2 DEF Op, Unguarded
  <1>14. ASSUME NEW failed \in BOOLEAN, Written(failed)
         PROVE  Fine
    <2>1. Running /\ UNCHANGED <<client, servers, aborted>> /\ op = "write"
      BY <1>5, <1>14 DEF Written, Same
    <2>2. CASE Throw("transport") \/ Throw("aborted")
      BY <1>1, <2>1, <2>2 DEF Error
    <2>3. CASE ~failed /\ ~aborted
      <3>1. Await("read") /\ UNCHANGED sockets
        BY <1>14, <2>3 DEF Written, AwaitUnlessAborted
      <3>2. Holds(sockets, "read", server)
        BY <2>1 DEF SocketInv, Holds, Carried
      <3> QED  BY <1>4, <2>1, <2>3, <3>1, <3>2 DEF Op, Timed
    <2> QED  BY <1>14, <2>2, <2>3 DEF Written, AwaitUnlessAborted
  <1>15. ASSUME NEW d \in Datagram, Message(d)
         PROVE  Fine
    <2>1. Running /\ UNCHANGED <<client, servers>>
      BY <1>5, <1>15 DEF Message, Same
    <2>2. CASE Return
      BY <1>3, <2>1, <2>2
    <2>3. CASE d \in {"mismatch", "short"} /\ Throw(d)
      BY <1>1, <2>1, <2>3 DEF Error
    <2> QED  BY <1>15, <2>2, <2>3 DEF Message, Datagram
  <1>16. CASE send_one
    <2>1. Running /\ UNCHANGED <<client, servers, aborted, sockets>> /\ sockets = {}
      BY <1>6, <1>16, Asked DEF send_one, Same
    <2>2. CASE GiveUp("transport")
      BY <1>2, <2>1, <2>2 DEF Error
    <2>3. CASE ~aborted /\ Await("fetch")
      BY <1>4, <2>1, <2>3 DEF Op, Timed, Holds
    <2> QED  BY <1>16, <2>2, <2>3 DEF send_one
  <1>17. CASE FetchFails
    <2>1. /\ Running /\ UNCHANGED <<client, servers>> /\ sockets' = {}
          /\ GiveUp("transport")
      <3>1. At("fetch") /\ GiveUp("transport") /\ sockets' = sockets /\ Same
        BY <1>17 DEF FetchFails
      <3>2. Running /\ op = "fetch"
        BY <1>5, <3>1 DEF At
      <3> QED  BY <1>6, <3>1, <3>2 DEF Same
    <2> QED  BY <1>2, <2>1 DEF Error
  <1>18. ASSUME NEW o \in Unguarded, Headers(o)
         PROVE  Fine
    <2>1. /\ Running /\ UNCHANGED <<client, servers>> /\ sockets' = {}
          /\ Await(o)
      <3>1. At("fetch") /\ Await(o) /\ sockets' = sockets /\ Same
        BY <1>18 DEF Headers
      <3>2. Running /\ op = "fetch"
        BY <1>5, <3>1 DEF At
      <3> QED  BY <1>6, <3>1, <3>2 DEF Same
    <2> QED  BY <1>4, <2>1 DEF Op, Holds
  <1>19. ASSUME NEW failed \in BOOLEAN, Body(failed)
         PROVE  Fine
    <2>1. Running /\ UNCHANGED <<client, servers>>
      <3>1. /\ At("body") \/ At("drain status") \/ At("drain media type")
            /\ Same
        BY <1>19 DEF Body
      <3> QED  BY <1>5, <3>1 DEF Same, At
    <2>2. Return \/ Throw("transport") \/ Throw("status") \/ Throw("media type")
      BY <1>19 DEF Body
    <2> QED  BY <1>1, <1>3, <2>1, <2>2 DEF Error
  <1>20. CASE Timeout
    <2>1. Running /\ UNCHANGED <<client, servers>>
      BY <1>5, <1>20 DEF Timeout, Same, Timed
    <2> QED  BY <1>1, <1>20, <2>1 DEF Timeout, Cut, Error
  <1>21. CASE Abort
    <2>1. ~Settled /\ UNCHANGED <<client, servers>>
      BY <1>21 DEF Abort, Settled
    <2>2. CASE op \in Timed
      <3>1. Running
        BY <2>1, <2>2 DEF LoopInv, Timed
      <3> QED  BY <1>1, <1>21, <2>1, <2>2, <3>1 DEF Abort, Cut, Error
    <2>3. CASE op \notin Timed
      <3>1. UNCHANGED <<server, op, sockets, first_err, failures, outcome>>
        BY <1>21, <2>3 DEF Abort
      <3> QED  BY <2>1, <2>3, <3>1
               DEF LoopInv, SocketInv, AbortedNeverWaits, Op, Settled, Promise!vars
    <2> QED  BY <2>2, <2>3
  <1> QED
    BY <1>7, <1>8, <1>9, <1>10, <1>11, <1>12, <1>13, <1>14, <1>15, <1>16, <1>17,
       <1>18, <1>19, <1>20, <1>21
    DEF Next, Dial, Network

-----------------------------------------------------------------------------
(* The theorems *)

\* In every reachable state the loop is where the failures it has met put it,
\* sockets are those of the await, and no timer is waited for after an abort.
THEOREM ClientInvariant == Spec => []ClientInv
  <1>1. Init => ClientInv
    BY Start
  <1>2. ClientInv /\ [Next]_vars => ClientInv'
    <2>1. ASSUME ClientInv, UNCHANGED vars PROVE ClientInv'
      BY <2>1 DEF vars, ClientInv, LoopInv, SocketInv, AbortedNeverWaits, Settled
    <2> QED  BY <2>1, ClientStep
  <1> QED  BY <1>1, <1>2, PTL DEF Spec

\* A query asks the servers in order, each at most once, returns the first
\* usable response and reports the first failure if there is none.
THEOREM ClientImplementsFailover == Spec => KeepsOrder
  <1>1. Init => Promise!Init
    BY Start
  <1>2. ClientInv /\ [Next]_vars => [Promise!Next]_(Promise!vars)
    <2>1. UNCHANGED vars => UNCHANGED Promise!vars
      BY DEF vars, Promise!vars
    <2> QED  BY <2>1, ClientStep
  <1> QED  BY <1>1, <1>2, ClientInvariant, PTL DEF Spec, KeepsOrder, Promise!Spec

\* Whatever way an attempt ends, its socket is closed when the next server is
\* asked and when the query has settled, and there is never more than one.
THEOREM SocketsAreClosed == Spec => []SocketsClosed
  <1>1. ClientInv => SocketsClosed
    <2> SUFFICES ASSUME ClientInv PROVE SocketsClosed
      OBVIOUS
    <2>1. sockets = {} \/ \E t : sockets = {<<server, t>>} /\ Carried(op, t) /\ ~Settled
      BY DEF ClientInv, SocketInv, Holds
    <2>2. \A t : <<server, t>>[1] = server /\ ~Carried("dial", t)
      BY DEF Carried
    <2> QED  BY <2>1, <2>2 DEF SocketsClosed, Settled
  <1> QED  BY <1>1, ClientInvariant, PTL

\* After an abort a query sits out no timer.
THEOREM AbortIsPrompt == Spec => []AbortedNeverWaits
  <1>1. ClientInv => AbortedNeverWaits
    BY DEF ClientInv
  <1> QED  BY <1>1, ClientInvariant, PTL
=============================================================================
