------------------------------ MODULE Failover ------------------------------
(***************************************************************************)
(* What a query of a network client promises, whatever the transport: the  *)
(* servers are asked in the order they were configured, each at most once, *)
(* until one gives a usable response; if none does, the query rejects and  *)
(* names the first server's failure.  The comments on query_raw of the     *)
(* three clients (resolver/auth, resolver/dot, resolver/doh) say so.       *)
(***************************************************************************)
EXTENDS Naturals, Sequences

CONSTANT Error  \* what an attempt can fail with

VARIABLES
    servers,    \* how many servers are configured
    failures,   \* the errors of the servers given up, in order
    outcome     \* what the promise settles with

vars == <<servers, failures, outcome>>

Pending == [kind |-> "pending"]

Response(i) == [kind |-> "response", server |-> i]

AllFailed(error) == [kind |-> "failed", cause |-> error]

NothingToAsk == [kind |-> "no servers"]

Init == servers \in Nat /\ failures = <<>> /\ outcome = Pending

GiveUp(error) ==
    /\ outcome = Pending /\ Len(failures) < servers
    /\ failures' = Append(failures, error)
    /\ outcome' = IF Len(failures') = servers THEN AllFailed(failures'[1]) ELSE Pending
    /\ UNCHANGED servers

Respond ==
    /\ outcome = Pending /\ Len(failures) < servers
    /\ outcome' = Response(Len(failures) + 1)
    /\ UNCHANGED <<servers, failures>>

NoServers ==
    /\ outcome = Pending /\ servers = 0
    /\ outcome' = NothingToAsk
    /\ UNCHANGED <<servers, failures>>

Next == (\E error \in Error : GiveUp(error)) \/ Respond \/ NoServers

Spec == Init /\ [][Next]_vars
=============================================================================
