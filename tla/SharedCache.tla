----------------------------- MODULE SharedCache -----------------------------
(***************************************************************************)
(* Several validate() calls over one response cache.  Each walk belongs to *)
(* a verifier with a registry and a step handler; the cache, and with it   *)
(* the record objects in it, is shared.  A walk yields at every await, so  *)
(* other walks run between a lookup, its answer and the check of it.       *)
(*                                                                         *)
(* What a walk asks for is its plan.  An answer is one response object of  *)
(* the resolver: who asked for it as which lookup, when it was signed, and *)
(* whether it holds records at all (NODATA without proof does not).        *)
(***************************************************************************)
EXTENDS Integers, Sequences

CONSTANTS
    Walk, Key, Registry,
    Plan,        \* the keys (name and type) each walk looks up, in order
    RegistryOf,  \* the registry of each walk's verifier
    Throwing,    \* walks whose step handler may throw
    Life,        \* how long a signature lasts
    MaxTime,     \* bound: ticks of the clock
    MaxFactory,  \* factories a registry may be given, 1 .. MaxFactory
    None

\* A walk looks up at least the keys of its first zone.
ASSUME PlanAssumption == Plan \in [Walk -> Seq(Key) \ {<<>>}]

ASSUME RegistryAssumption == RegistryOf \in [Walk -> Registry]

ASSUME BoundAssumption == Life \in Nat /\ MaxTime \in Nat /\ MaxFactory \in Nat \ {0}

VARIABLES
    now,       \* the verifiers' clock
    cache,     \* MemoryCache.entries: the answer kept for a key, or None
    phase,     \* where each call is
    got,       \* the answers each walk has applied to its zones
    log,       \* the events each walk's step handler received
    aborted,   \* walks whose signal fired
    result,    \* the verdict or the error of a settled call
    factory,   \* the factory each registry holds, 0 when it has none
    handler,   \* the handler entry on the records of an answer, or None
    given,     \* history: the answers the resolver gave with a usable RCODE
    started,   \* history: when each call began
    last       \* history: the handler last handed out, and to whose registry

vars == <<now, cache, phase, got, log, aborted, result, factory, handler, given, started, last>>

history == <<given, started, last>>

Answer == [key : Key, by : Walk, nth : Nat, signed : Nat, empty : BOOLEAN]

\* The step kinds a walk produces; Checked stands for DS, DNSKEY, Zone and Sig.
StepKind == {"Query", "CacheHit", "Checked", "Bogus", "Answer"}

\* No answer and no result is nothing.
ASSUME NoneAssumption == None \notin Answer /\ None # "secure"

Event == [kind : StepKind, key : Key \cup {None}]

At(kind, k) == [kind |-> kind, key |-> k]

HandlerEntry == [registry : Registry, factory : 1 .. MaxFactory]

KeyOf(w) == Plan[w][Len(got[w]) + 1]

Settled(w) == phase[w] \in {"resolved", "rejected"}

-----------------------------------------------------------------------------
(* Events: the handler runs inside the walk and may throw at any of them   *)

Settle(w, how, what) ==
    /\ phase' = [phase EXCEPT ![w] = how]
    /\ result' = [result EXCEPT ![w] = what]

Reject(w, error) == Settle(w, "rejected", error)

emit(w, events) == log' = [log EXCEPT ![w] = @ \o events]

\* Some event of these makes the handler throw; the later ones are not sent.
HandlerThrows(w, events) ==
    /\ w \in Throwing
    /\ \E n \in 1 .. Len(events) : emit(w, SubSeq(events, 1, n))
    /\ Reject(w, "handler")

-----------------------------------------------------------------------------
(* The cache                                                               *)

\* Mutant: an answer without records is taken for a miss.
IsHit_Records(k) == cache[k] # None /\ ~cache[k].empty

\* get returns the empty array for a cached NODATA answer, which is a hit.
IsHit(k) == cache[k] # None

put(w, a) == cache' = [cache EXCEPT ![KeyOf(w)] = a]

-----------------------------------------------------------------------------
(* Handlers of records                                                     *)

\* Mutant: the handler kept on the record goes to whoever asks.
Kept_Any(a, r) == handler[a] # None

\* The entry on the record is good for the registry that built it only.
Kept(a, r) == handler[a] # None /\ handler[a].registry = r

\* Mutant: a handler is made up for a type without a factory.
handler_of_Always(a, r) ==
    IF Kept(a, r) THEN handler[a] ELSE [registry |-> r, factory |-> factory[r]]

\* The kept handler, or one the registry's factory builds now.
handler_of(a, r) ==
    IF Kept(a, r) THEN handler[a]
    ELSE IF factory[r] = 0 THEN None ELSE [registry |-> r, factory |-> factory[r]]

\* get_handler keeps what it returns on the record; nothing when there is none.
get_handler(a, r) ==
    LET h == handler_of(a, r)
    IN /\ last' = [to |-> r, handler |-> h]
       /\ handler' = IF h = None THEN handler ELSE [handler EXCEPT ![a] = h]

-----------------------------------------------------------------------------
(* A call                                                                  *)

Call(w) ==
    /\ phase[w] = "idle"
    /\ started' = [started EXCEPT ![w] = now]
    /\ IF w \in aborted THEN Reject(w, "aborted")
       ELSE phase' = [phase EXCEPT ![w] = "walking"] /\ UNCHANGED result
    /\ UNCHANGED <<now, cache, got, log, aborted, factory, handler, given, last>>

\* Mutant: a hit is not reported.
Hit_Silent(w) ==
    /\ IsHit(KeyOf(w))
    /\ got' = [got EXCEPT ![w] = Append(@, cache[KeyOf(w)])]
    /\ phase' = [phase EXCEPT ![w] = "loaded"]
    /\ UNCHANGED <<result, log>>

\* load_records up to the await: the abort check, then the cache, then the
\* query.
Hit(w) ==
    /\ IsHit(KeyOf(w))
    /\ \/ /\ emit(w, <<At("CacheHit", KeyOf(w))>>)
          /\ got' = [got EXCEPT ![w] = Append(@, cache[KeyOf(w)])]
          /\ phase' = [phase EXCEPT ![w] = "loaded"]
          /\ UNCHANGED result
       \/ HandlerThrows(w, <<At("CacheHit", KeyOf(w))>>) /\ UNCHANGED got

Miss(w) ==
    /\ ~IsHit(KeyOf(w))
    /\ \/ /\ emit(w, <<At("Query", KeyOf(w))>>)
          /\ phase' = [phase EXCEPT ![w] = "asking"]
          /\ UNCHANGED result
       \/ HandlerThrows(w, <<At("Query", KeyOf(w))>>)
    /\ UNCHANGED got

\* Mutant: an aborted walk stops without rejecting.
Lookup_Stops(w) ==
    /\ phase[w] = "walking" /\ w \notin aborted
    /\ Hit(w) \/ Miss(w)
    /\ UNCHANGED <<now, cache, aborted, factory, handler, history>>

Lookup(w) ==
    /\ phase[w] = "walking"
    /\ IF w \in aborted THEN Reject(w, "aborted") /\ UNCHANGED <<got, log>>
       ELSE Hit(w) \/ Miss(w)
    /\ UNCHANGED <<now, cache, aborted, factory, handler, history>>

\* The response came: NOERROR or NXDOMAIN.  The signal is not looked at again.
Answered(w) ==
    /\ phase[w] = "asking"
    /\ \E empty \in BOOLEAN :
        LET a == [key |-> KeyOf(w), by |-> w, nth |-> Len(got[w]) + 1,
                  signed |-> now, empty |-> empty]
        IN /\ put(w, a)
           /\ given' = given \cup {a}
           /\ handler' = [x \in given \cup {a} |-> IF x = a THEN None ELSE handler[x]]
           /\ got' = [got EXCEPT ![w] = Append(@, a)]
    /\ phase' = [phase EXCEPT ![w] = "loaded"]
    /\ UNCHANGED <<now, log, aborted, result, factory, started, last>>

\* The query rejected, by an AbortError or with the signal fired or otherwise.
QueryRejects(w) ==
    /\ phase[w] = "asking"
    /\ Reject(w, "aborted") \/ (w \notin aborted /\ Reject(w, "resolver"))
    /\ UNCHANGED <<now, cache, got, log, aborted, factory, handler, history>>

\* Mutant: the answer is kept before its RCODE is looked at.
BadRcode_Kept(w) ==
    /\ phase[w] = "asking"
    /\ put(w, [key |-> KeyOf(w), by |-> w, nth |-> 0, signed |-> now, empty |-> TRUE])
    /\ Reject(w, "resolver")
    /\ UNCHANGED <<now, got, log, aborted, factory, handler, history>>

\* It answered with another RCODE, which is not kept.
BadRcode(w) ==
    /\ phase[w] = "asking"
    /\ Reject(w, "resolver")
    /\ UNCHANGED <<now, cache, got, log, aborted, factory, handler, history>>

\* Mutant: an answer counts as checked when it was received.
fresh_Received(a) == TRUE

\* The signature window, by the clock at the time of the check.
fresh(a) == now <= a.signed + Life

\* The checks of what was loaded, with handlers of the verifier's registry: one
\* that fails ends the walk, the end of the plan completes it.
Check(w) ==
    LET a == got[w][Len(got[w])]
        r == RegistryOf[w]
        verified == a.empty \/ (handler_of(a, r) # None /\ fresh(a))
        done == Len(got[w]) = Len(Plan[w])
        events == <<At("Checked", None)>> \o
            (IF ~verified THEN <<At("Bogus", None), At("Answer", None)>>
             ELSE IF done THEN <<At("Answer", None)>> ELSE <<>>)
    IN /\ phase[w] = "loaded"
       /\ IF a.empty THEN UNCHANGED <<handler, last>> ELSE get_handler(a, r)
       /\ \/ /\ emit(w, events)
             /\ IF verified /\ ~done
                THEN phase' = [phase EXCEPT ![w] = "walking"] /\ UNCHANGED result
                ELSE Settle(w, "resolved", IF verified THEN "secure" ELSE "bogus")
          \/ HandlerThrows(w, events)
       /\ UNCHANGED <<now, cache, got, aborted, factory, given, started>>

-----------------------------------------------------------------------------
(* The program around the calls                                            *)

Abort(w) ==
    /\ w \notin aborted /\ ~Settled(w)
    /\ aborted' = aborted \cup {w}
    /\ UNCHANGED <<now, cache, phase, got, log, result, factory, handler, history>>

\* register: another factory, or none.
register(r, f) ==
    /\ f # factory[r]
    /\ factory' = [factory EXCEPT ![r] = f]
    /\ UNCHANGED <<now, cache, phase, got, log, aborted, result, handler, history>>

Tick ==
    /\ now < MaxTime
    /\ now' = now + 1
    /\ UNCHANGED <<cache, phase, got, log, aborted, result, factory, handler, history>>

Init ==
    /\ now = 0 /\ cache = [k \in Key |-> None]
    /\ phase = [w \in Walk |-> "idle"] /\ got = [w \in Walk |-> <<>>]
    /\ log = [w \in Walk |-> <<>>] /\ result = [w \in Walk |-> None] /\ aborted = {}
    /\ factory = [r \in Registry |-> 1] /\ given = {} /\ handler = [a \in {} |-> None]
    /\ started = [w \in Walk |-> 0] /\ last = None

Continue(w) == Lookup(w) \/ Check(w)

Respond(w) == Answered(w) \/ QueryRejects(w) \/ BadRcode(w)

Next ==
    \/ \E w \in Walk : Call(w) \/ Continue(w) \/ Respond(w) \/ Abort(w)
    \/ \E r \in Registry, f \in 0 .. MaxFactory : register(r, f)
    \/ Tick

\* The event loop runs what is runnable; a resolver settles its queries.
Fairness == \A w \in Walk : WF_vars(Continue(w)) /\ WF_vars(Respond(w))

Spec == Init /\ [][Next]_vars /\ Fairness

-----------------------------------------------------------------------------
(* Properties *)

TypeOK ==
    /\ now \in Nat /\ cache \in [Key -> Answer \cup {None}]
    /\ phase \in [Walk -> {"idle", "walking", "asking", "loaded", "resolved", "rejected"}]
    /\ got \in [Walk -> Seq(Answer)] /\ log \in [Walk -> Seq(Event)]
    /\ aborted \subseteq Walk
    /\ result \in [Walk -> {"secure", "bogus", "aborted", "resolver", "handler", None}]
    /\ factory \in [Registry -> 0 .. MaxFactory]
    /\ handler \in [given -> HandlerEntry \cup {None}]
    /\ given \subseteq Answer /\ started \in [Walk -> Nat]
    /\ last \in {None} \cup [to : Registry, handler : HandlerEntry \cup {None}]

\* What a walk works with is what the resolver answered to that very lookup,
\* to this walk or to another: whichever of several answers the cache keeps,
\* however the calls interleave, and never a failure.
AnswersTheLookup ==
    \A w \in Walk : \A i \in 1 .. Len(got[w]) :
        got[w][i] \in given /\ got[w][i].key = Plan[w][i]

\* A call asks the resolver for a key once: the answer, empty or not, is kept.
AskedOnce ==
    \A w \in Walk : \A i, j \in 1 .. Len(log[w]) :
        log[w][i].kind = "Query" /\ log[w][i] = log[w][j] => i = j

IsLookup(w, e, i) ==
    e.kind \in {"Query", "CacheHit"} /\ i <= Len(Plan[w]) /\ e.key = Plan[w][i]

\* The events of one call that has used n answers, by where it stands; the phase
\* says what comes behind the lookups and checks of those answers.
Told(w, n, more) ==
    LET After(i) == log[w][2 * n + i]
    IN /\ phase[w] \in {"idle", "walking"} => more = 0
       /\ phase[w] = "asking" => more = 1 /\ After(1) = At("Query", KeyOf(w))
       /\ phase[w] = "loaded" => more + 1 = 0
       /\ phase[w] = "resolved" =>
            IF result[w] = "secure" THEN more = 1 /\ After(1).kind = "Answer"
            ELSE more = 2 /\ After(1).kind = "Bogus" /\ After(2).kind = "Answer"
       /\ phase[w] = "rejected" =>
            /\ more \in 0 .. 2
            /\ more = 1 => (IsLookup(w, After(1), n + 1) \/ After(1).kind \in {"Bogus", "Answer"})
            /\ more = 2 => After(1).kind = "Bogus" /\ After(2).kind = "Answer"
       /\ \A i \in 1 .. n :
            /\ IsLookup(w, log[w][2 * i - 1], i)
            /\ (i < n \/ phase[w] # "loaded") => log[w][2 * i].kind = "Checked"

LogTells(w) == Told(w, Len(got[w]), Len(log[w]) - 2 * Len(got[w]))

\* The step events tell the call: a lookup and then its checks for each answer
\* used, in the order of the plan; one lookup more while a query is out or when
\* the call fails there; Answer as the last event of every call that does not
\* reject, after Bogus when that is the verdict.
LogTellsCall == \A w \in Walk : LogTells(w)

\* Cached answers never expire, the signatures in them do: a Secure verdict
\* rests on signatures that were good at some time during the call.
SecureIsFresh ==
    \A w \in Walk : result[w] = "secure" =>
        \A i \in 1 .. Len(got[w]) : got[w][i].empty \/ started[w] <= got[w][i].signed + Life

\* Verifiers that share a cache share its record objects, never a handler: one
\* handed out was built by the registry of the verifier that asked.
HandlersStayApart ==
    last # None /\ last.handler # None => last.handler.registry = last.to

\* Every call settles, whatever the other calls and the handlers do.
Settles == \A w \in Walk : phase[w] # "idle" ~> Settled(w)
=============================================================================
