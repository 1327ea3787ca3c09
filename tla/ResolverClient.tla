--------------------------- MODULE ResolverClient ---------------------------
(***************************************************************************)
(* One query of a network client: the authoritative client (UDP, then TCP  *)
(* when the answer is truncated), the DoT client and the DoH client, with  *)
(* the failover loop they share.  A step is one callback (a socket or      *)
(* fetch event, a timer, the abort signal) with all that runs before the   *)
(* next await; dialing is a step of its own.  The octets of a TCP or TLS   *)
(* exchange are the subject of SocketStream: here an exchange is its       *)
(* write, its reads and what comes of them.                                *)
(***************************************************************************)
EXTENDS Naturals, Sequences

CONSTANTS
    Clients,      \* the transports in use, of "auth", "dot", "doh"
    MaxServers,   \* a client has 0 .. MaxServers servers
    Malformed     \* servers whose address does not parse

ASSUME ClientAssumption ==
    /\ Clients \subseteq {"auth", "dot", "doh"}
    /\ MaxServers \in Nat /\ Malformed \subseteq Nat

VARIABLES
    client,
    servers,   \* how many servers are configured
    server,    \* the loop variable: the server being asked
    op,        \* the await the attempt is in
    sockets,   \* sockets created and not closed, by server and transport
    first_err,
    aborted,
    failures,  \* history: the error of each server given up
    outcome    \* what the promise has settled with

vars == <<client, servers, server, op, sockets, first_err, aborted, failures, outcome>>

None == "none"

Error == {"address", "transport", "timeout", "aborted", "short", "mismatch", "status", "media type"}

\* A response of this transaction, with the TC bit or not; one of another
\* transaction; less than a header.
Datagram == {"usable", "truncated", "mismatch", "short"}

Promise == INSTANCE Failover

\* Awaits under a timer and the signal.
Timed_NoHandshake == {"udp read", "tcp connect", "read", "fetch"}

Timed == {"udp read", "tcp connect", "tls connect", "read", "fetch"}

\* Awaits with neither: whatever they wait for may never come.
Unguarded == {"write", "body", "drain status", "drain media type"}

At(o) == outcome = Promise!Pending /\ op = o

Same == UNCHANGED <<client, servers, aborted>>

-----------------------------------------------------------------------------
(* The loop over the servers: query_raw *)

\* Mutant: the last failure is reported.
GiveUp_LastError(error) ==
    /\ first_err' = error
    /\ failures' = Append(failures, error)
    /\ IF server < servers
       THEN server' = server + 1 /\ op' = "dial" /\ UNCHANGED outcome
       ELSE outcome' = Promise!AllFailed(first_err') /\ UNCHANGED <<server, op>>

\* The attempt has thrown.
GiveUp(error) ==
    /\ first_err' = IF first_err = None THEN error ELSE first_err
    /\ failures' = Append(failures, error)
    /\ IF server < servers
       THEN server' = server + 1 /\ op' = "dial" /\ UNCHANGED outcome
       ELSE outcome' = Promise!AllFailed(first_err') /\ UNCHANGED <<server, op>>

\* conn.close() in the finally of the attempt, socket.destroy() where a
\* connection is not established.
Closed == sockets' = {s \in sockets : s[1] # server}

Throw(error) == GiveUp(error) /\ Closed

Return ==
    /\ outcome' = Promise!Response(server)
    /\ Closed
    /\ UNCHANGED <<server, op, first_err, failures>>

Await(o) == op' = o /\ UNCHANGED <<server, first_err, failures, outcome>>

Created(transport) == sockets' = sockets \cup {<<server, transport>>}

\* Mutant: the signal is not looked at before waiting.
AwaitUnlessAborted_Unchecked(o) == Await(o) /\ UNCHANGED sockets

\* recv, recv_exact: a signal that has fired already rejects at once.
AwaitUnlessAborted(o) ==
    IF aborted THEN Throw("aborted") ELSE Await(o) /\ UNCHANGED sockets

NoServers ==
    /\ At("dial") /\ servers = 0
    /\ outcome' = Promise!NothingToAsk
    /\ UNCHANGED <<server, op, sockets, first_err, failures>>
    /\ Same

-----------------------------------------------------------------------------
(* The authoritative client *)

dial_udp ==
    /\ At("dial") /\ servers > 0 /\ client = "auth"
    /\ IF server \in Malformed
       THEN GiveUp("address") /\ UNCHANGED sockets
       ELSE Created("udp") /\ Await("udp write")
    /\ Same

\* Neither the timer nor the signal guards the write.
UdpWritten(failed) ==
    /\ At("udp write")
    /\ IF failed THEN Throw("transport") ELSE AwaitUnlessAborted("udp read")
    /\ Same

\* validate_response, then the TC bit: the UDP socket is closed, and the same
\* server asked over TCP.
UdpMessage(d) ==
    /\ At("udp read")
    /\ \/ d = "usable" /\ Return
       \/ /\ d = "truncated"
          /\ sockets' = (sockets \ {<<server, "udp">>}) \cup {<<server, "tcp">>}
          /\ Await("tcp connect")
       \/ d \in {"mismatch", "short"} /\ Throw(d)
    /\ Same

UdpFails == At("udp read") /\ Throw("transport") /\ Same

-----------------------------------------------------------------------------
(* Connections, TCP and TLS *)

\* connect of the DoT client looks at the signal and the address first.
connect ==
    /\ At("dial") /\ servers > 0 /\ client = "dot"
    /\ IF aborted THEN GiveUp("aborted") /\ UNCHANGED sockets
       ELSE IF server \in Malformed THEN GiveUp("transport") /\ UNCHANGED sockets
       ELSE Created("tls") /\ Await("tls connect")
    /\ Same

Connected ==
    /\ At("tcp connect") \/ At("tls connect")
    /\ Await("write") /\ UNCHANGED sockets
    /\ Same

ConnectFails == (At("tcp connect") \/ At("tls connect")) /\ Throw("transport") /\ Same

Written(failed) ==
    /\ At("write")
    /\ IF failed THEN Throw("transport") ELSE AwaitUnlessAborted("read")
    /\ Same

\* exchange has a message: validate_response, check_reply.
Message(d) ==
    /\ At("read")
    /\ IF d \in {"usable", "truncated"} THEN Return ELSE Throw(d)
    /\ Same

\* The stream has failed or ended.
ReadFails == At("read") /\ Throw("transport") /\ Same

-----------------------------------------------------------------------------
(* The DoH client *)

send_one ==
    /\ At("dial") /\ servers > 0 /\ client = "doh"
    /\ IF aborted THEN GiveUp("transport") ELSE Await("fetch")
    /\ UNCHANGED sockets /\ Same

FetchFails == At("fetch") /\ GiveUp("transport") /\ UNCHANGED sockets /\ Same

\* The headers are in, and the timer and the listener gone.  The body of a
\* response that will not do is drained before the provider is given up.
Headers(o) ==
    /\ At("fetch") /\ o \in {"body", "drain status", "drain media type"}
    /\ Await(o)
    /\ UNCHANGED sockets /\ Same

Body(failed) ==
    /\ \/ At("body") /\ ~failed /\ Return
       \/ At("body") /\ failed /\ Throw("transport")
       \/ At("drain status") /\ Throw("status")
       \/ At("drain media type") /\ Throw("media type")
    /\ Same

-----------------------------------------------------------------------------
(* Timers and the signal *)

\* The DoH timer and signal abort the fetch, which is a transport error.
Cut(error) == IF client = "doh" THEN "transport" ELSE error

\* Mutant: a connection attempt that has timed out is left to itself.
Timeout_KeepSocket ==
    /\ \E o \in Timed : At(o)
    /\ GiveUp(Cut("timeout"))
    /\ IF op = "tcp connect" THEN UNCHANGED sockets ELSE Closed
    /\ Same

Timeout ==
    /\ \E o \in Timed : At(o)
    /\ Throw(Cut("timeout"))
    /\ Same

Abort ==
    /\ outcome = Promise!Pending /\ ~aborted
    /\ aborted' = TRUE
    /\ IF op \in Timed THEN Throw(Cut("aborted"))
       ELSE UNCHANGED <<server, op, sockets, first_err, failures, outcome>>
    /\ UNCHANGED <<client, servers>>

-----------------------------------------------------------------------------
(* Specification *)

Init ==
    /\ client \in Clients /\ servers \in 0 .. MaxServers
    /\ client = "doh" => servers > 0     \* it has default providers
    /\ server = 1 /\ op = "dial" /\ sockets = {}
    /\ first_err = None /\ aborted = FALSE
    /\ failures = <<>> /\ outcome = Promise!Pending

Dial == NoServers \/ dial_udp \/ connect \/ send_one

Network ==
    \/ \E d \in Datagram : UdpMessage(d) \/ Message(d)
    \/ UdpFails \/ Connected \/ ConnectFails \/ ReadFails
    \/ FetchFails \/ \E o \in Unguarded : Headers(o)
    \/ \E failed \in BOOLEAN : Written(failed) \/ Body(failed)

Next ==
    \/ Dial
    \/ \E failed \in BOOLEAN : UdpWritten(failed)
    \/ Network
    \/ Timeout
    \/ Abort

\* The loop goes on, the kernel takes a datagram or refuses it, and timers
\* fire.  Nothing is expected of the network.
Fairness ==
    WF_vars(Dial) /\ WF_vars(\E failed \in BOOLEAN : UdpWritten(failed)) /\ WF_vars(Timeout)

Spec == Init /\ [][Next]_vars

FairSpec == Spec /\ Fairness

-----------------------------------------------------------------------------
(* Properties *)

\* The query implements Failover: truncation over UDP never counts as a
\* server's failure or as a response, and the first failure is what is
\* reported although later ones follow.
KeepsOrder == Promise!Spec

\* A server's sockets are gone when the next server is asked and when the
\* query has settled; the UDP socket is gone while TCP is tried.
SocketsClosed ==
    /\ \A s, t \in sockets : s = t
    /\ \A s \in sockets : s[1] = server
    /\ op = "dial" \/ outcome # Promise!Pending => sockets = {}

\* After an abort the query waits only where neither timer nor signal is
\* looked at: it never sits out a timer.
AbortedNeverWaits ==
    aborted /\ outcome = Promise!Pending => op \in Unguarded \cup {"dial", "udp write"}

\* A query settles, unless it is stuck where nothing guards the await: a
\* write the peer does not take, or an HTTP body that stalls.
Settles == <>[](outcome # Promise!Pending \/ op \in Unguarded)
=============================================================================
