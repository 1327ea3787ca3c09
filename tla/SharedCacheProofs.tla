-------------------------- MODULE SharedCacheProofs --------------------------
(***************************************************************************)
(* Theorems about validate() calls over one response cache, for any number *)
(* of walks, keys and registries, any plans and any clock: the types, that *)
(* a walk works with answers to its own lookups and asks once for a key,   *)
(* that a Secure verdict rests on signatures that were good during the     *)
(* call, that no verifier is handed another one's handler, and that the    *)
(* step events tell what the call did.                                     *)
(***************************************************************************)
EXTENDS SharedCache, SequenceTheorems, TLAPS

\* Where a call is tells how much of its plan it has.
Progress ==
    \A w \in Walk :
        /\ Len(got[w]) <= Len(Plan[w])
        /\ phase[w] \in {"idle", "walking", "asking"} => Len(got[w]) < Len(Plan[w])
        /\ phase[w] = "idle" => got[w] = <<>>
        /\ phase[w] = "loaded" => got[w] # <<>>

TypeInv == TypeOK /\ Progress

-----------------------------------------------------------------------------
(* The pieces of a step *)

\* What a call looks up next is a key of its plan.
LEMMA KeyTyped ==
    ASSUME TypeInv, NEW w \in Walk, phase[w] \in {"walking", "asking"}
    PROVE  KeyOf(w) \in Key /\ KeyOf(w) = Plan[w][Len(got[w]) + 1]
  <1>1. Plan[w] \in Seq(Key) /\ got[w] \in Seq(Answer) /\ Len(got[w]) < Len(Plan[w])
    BY PlanAssumption DEF TypeInv, TypeOK, Progress
  <1>2. Len(got[w]) + 1 \in 1 .. Len(Plan[w])
    BY <1>1
  <1> QED  BY <1>1, <1>2 DEF KeyOf

\* Whether the handler throws or not, what it receives is a beginning of the
\* events sent, and the other logs stay as they are.
LEMMA Sent ==
    ASSUME TypeOK, NEW w \in Walk, NEW es \in Seq(Event), es # <<>>,
           emit(w, es) \/ HandlerThrows(w, es)
    PROVE  /\ log' \in [Walk -> Seq(Event)]
           /\ \E n \in 1 .. Len(es) : log' = [log EXCEPT ![w] = @ \o SubSeq(es, 1, n)]
  <1>1. \E n \in 1 .. Len(es) : log' = [log EXCEPT ![w] = @ \o SubSeq(es, 1, n)]
    <2>1. CASE emit(w, es)
      <3>1. es = SubSeq(es, 1, Len(es)) /\ Len(es) \in 1 .. Len(es)
        BY SubSeqFull, EmptySeq
      <3> QED  BY <2>1, <3>1 DEF emit
    <2>2. CASE HandlerThrows(w, es)
      BY <2>2 DEF HandlerThrows, emit
    <2> QED  BY <2>1, <2>2
  <1>2. PICK n \in 1 .. Len(es) : log' = [log EXCEPT ![w] = @ \o SubSeq(es, 1, n)]
    BY <1>1
  <1>3. SubSeq(es, 1, n) \in Seq(Event)
    <2>1. \A i \in 1 .. n : es[i] \in Event
      BY ElementOfSeq, LenProperties
    <2> QED  BY <2>1, SubSeqProperties, LenProperties
  <1>4. log \in [Walk -> Seq(Event)]
    BY DEF TypeOK
  <1>5. log[w] \o SubSeq(es, 1, n) \in Seq(Event)
    BY <1>3, <1>4, ConcatProperties
  <1> QED  BY <1>1, <1>2, <1>4, <1>5

\* One event is received as it was sent.
LEMMA SentOne ==
    ASSUME TypeOK, NEW w \in Walk, NEW e \in Event,
           emit(w, <<e>>) \/ HandlerThrows(w, <<e>>)
    PROVE  log' \in [Walk -> Seq(Event)] /\ log' = [log EXCEPT ![w] = Append(@, e)]
  <1>1. <<e>> \in Seq(Event) /\ <<e>> # <<>> /\ Len(<<e>>) = 1
    OBVIOUS
  <1>2. PICK n \in 1 .. 1 : log' = [log EXCEPT ![w] = @ \o SubSeq(<<e>>, 1, n)]
    BY <1>1, Sent
  <1>3. SubSeq(<<e>>, 1, n) = <<e>>
    <2>1. n = 1
      BY <1>2
    <2>2. SubSeq(<<e>>, 1, Len(<<e>>)) = <<e>>
      BY ONLY <1>1, SubSeqFull
    <2> QED  BY ONLY <1>1, <2>1, <2>2
  <1>4. log[w] \o <<e>> = Append(log[w], e)
    BY AppendIsConcat DEF TypeOK
  <1> QED  BY <1>1, <1>2, <1>3, <1>4, Sent

\* The handler a record gets is one its registry holds or has built.
LEMMA HandlerTyped ==
    ASSUME TypeOK, NEW a \in given, NEW r \in Registry
    PROVE  /\ handler_of(a, r) \in HandlerEntry \cup {None}
           /\ handler_of(a, r) # None => handler_of(a, r).registry = r
  <1>1. handler[a] \in HandlerEntry \cup {None} /\ factory[r] \in 0 .. MaxFactory
    BY DEF TypeOK
  <1>2. CASE Kept(a, r)
    BY <1>1, <1>2 DEF handler_of, Kept
  <1>3. CASE ~Kept(a, r)
    BY <1>1, <1>3, BoundAssumption DEF handler_of, HandlerEntry
  <1> QED  BY <1>2, <1>3

-----------------------------------------------------------------------------
(* Types *)

LEMMA InitTyped == Init => TypeInv
  <1> SUFFICES ASSUME Init PROVE TypeInv
    OBVIOUS
  <1>1. TypeOK
    <2>1. /\ got \in [Walk -> Seq(Answer)] /\ log \in [Walk -> Seq(Event)]
      BY DEF Init
    <2>2. handler \in [given -> HandlerEntry \cup {None}]
      BY DEF Init
    <2>3. factory \in [Registry -> 0 .. MaxFactory]
      BY BoundAssumption DEF Init
    <2> QED  BY <2>1, <2>2, <2>3 DEF Init, TypeOK
  <1>2. Progress
    <2>1. ASSUME NEW w \in Walk PROVE Len(Plan[w]) \in Nat \ {0} /\ Len(<<>>) = 0
      BY PlanAssumption
    <2>2. ASSUME NEW w \in Walk PROVE got[w] = <<>> /\ phase[w] = "idle"
      BY DEF Init
    <2>3. ASSUME NEW w \in Walk
          PROVE  /\ Len(got[w]) <= Len(Plan[w]) /\ Len(got[w]) < Len(Plan[w])
                 /\ got[w] = <<>> /\ phase[w] # "loaded"
      BY <2>1, <2>2
    <2> QED  BY <2>3 DEF Progress
  <1> QED  BY <1>1, <1>2 DEF TypeInv

\* An answer behind those a walk has: it has one more, and no more than its plan.
LEMMA Applied ==
    ASSUME TypeInv, NEW w \in Walk, phase[w] \in {"walking", "asking"}, NEW a \in Answer,
           got' = [got EXCEPT ![w] = Append(@, a)], phase' = [phase EXCEPT ![w] = "loaded"]
    PROVE  got' \in [Walk -> Seq(Answer)] /\ Progress'
  <1>1. got \in [Walk -> Seq(Answer)] /\ w \in DOMAIN phase
    BY DEF TypeInv, TypeOK
  <1>2. /\ Append(got[w], a) \in Seq(Answer) /\ Append(got[w], a) # <<>>
        /\ Len(Append(got[w], a)) = Len(got[w]) + 1
    BY <1>1, AppendProperties
  <1>3. got' \in [Walk -> Seq(Answer)] /\ got'[w] = Append(got[w], a) /\ phase'[w] = "loaded"
    BY <1>1, <1>2
  <1>4. \A v \in Walk \ {w} : got'[v] = got[v] /\ phase'[v] = phase[v]
    BY <1>1 DEF TypeInv, TypeOK
  <1>5. Len(got[w]) < Len(Plan[w]) /\ Len(got[w]) \in Nat /\ Len(Plan[w]) \in Nat
    BY <1>1, PlanAssumption DEF TypeInv, Progress
  <1>6. Len(got'[w]) <= Len(Plan[w]) /\ got'[w] # <<>>
    BY <1>2, <1>3, <1>5
  <1> QED  BY <1>3, <1>4, <1>6 DEF TypeInv, Progress

LEMMA CallTyped == ASSUME TypeInv, NEW w \in Walk, Call(w) PROVE TypeInv'
  <1>1. TypeOK'
    BY DEF TypeInv, TypeOK, Call, Reject, Settle
  <1>2. Progress'
    BY DEF TypeInv, TypeOK, Progress, Call, Reject, Settle
  <1> QED  BY <1>1, <1>2 DEF TypeInv

\* A hit appends the cached answer, a miss opens a query; both tell the handler.
LEMMA LookupTyped == ASSUME TypeInv, NEW w \in Walk, Lookup(w) PROVE TypeInv'
  <1> DEFINE k == KeyOf(w)
  <1>1. phase[w] = "walking" /\ TypeOK /\ Progress /\ TypeInv
    BY DEF TypeInv, Lookup
  <1>2. k \in Key
    BY <1>1, KeyTyped
  <1>3. At("CacheHit", k) \in Event /\ At("Query", k) \in Event
    BY <1>2 DEF At, Event, StepKind
  <1>4. UNCHANGED <<now, cache, aborted, factory, handler, given, started, last>>
    BY DEF Lookup, history
  <1>5. CASE Reject(w, "aborted") /\ UNCHANGED <<got, log>>
    <2>1. TypeOK'
      BY <1>1, <1>4, <1>5 DEF TypeOK, Reject, Settle
    <2>2. Progress'
      BY <1>1, <1>4, <1>5 DEF TypeOK, Progress, Reject, Settle
    <2> QED  BY <2>1, <2>2 DEF TypeInv
  <1>6. CASE Hit(w)
    <2>1. log' \in [Walk -> Seq(Event)]
      BY <1>1, <1>3, <1>6, SentOne DEF Hit
    <2>2. \/ /\ got' = [got EXCEPT ![w] = Append(@, cache[k])]
             /\ phase' = [phase EXCEPT ![w] = "loaded"] /\ UNCHANGED result
          \/ Reject(w, "handler") /\ UNCHANGED got
      BY <1>6 DEF Hit, HandlerThrows
    <2>3. cache[k] \in Answer
      BY <1>1, <1>2, <1>6 DEF Hit, IsHit, TypeOK
    <2>4. TypeOK'
      <3>1. got' \in [Walk -> Seq(Answer)]
        <4>1. got \in [Walk -> Seq(Answer)]
          BY <1>1 DEF TypeOK
        <4>2. Append(got[w], cache[k]) \in Seq(Answer)
          BY <2>3, <4>1, AppendProperties
        <4>3. got' = got \/ got' = [got EXCEPT ![w] = Append(@, cache[k])]
          BY <2>2
        <4> HIDE DEF k
        <4> QED  BY ONLY <4>1, <4>2, <4>3
      <3>2. /\ phase' \in [Walk -> {"idle", "walking", "asking", "loaded", "resolved", "rejected"}]
            /\ result' \in [Walk -> {"secure", "bogus", "aborted", "resolver", "handler", None}]
        <4>1. \/ phase' = [phase EXCEPT ![w] = "loaded"] /\ result' = result
              \/ /\ phase' = [phase EXCEPT ![w] = "rejected"]
                 /\ result' = [result EXCEPT ![w] = "handler"]
          BY <2>2 DEF Reject, Settle
        <4>2. /\ phase \in [Walk -> {"idle", "walking", "asking", "loaded", "resolved", "rejected"}]
              /\ result \in [Walk -> {"secure", "bogus", "aborted", "resolver", "handler", None}]
          BY <1>1 DEF TypeOK
        <4> QED  BY ONLY <4>1, <4>2
      <3> QED  BY <1>1, <1>4, <2>1, <3>1, <3>2 DEF TypeOK
    <2>5. Progress'
      <3>1. CASE Reject(w, "handler") /\ UNCHANGED got
        BY <1>1, <3>1 DEF TypeOK, Progress, Reject, Settle
      <3>2. CASE /\ got' = [got EXCEPT ![w] = Append(@, cache[k])]
                 /\ phase' = [phase EXCEPT ![w] = "loaded"]
        BY <1>1, <2>3, <3>2, Applied
      <3> QED  BY <2>2, <3>1, <3>2
    <2> QED  BY <2>4, <2>5 DEF TypeInv
  <1>7. CASE Miss(w)
    <2>1. log' \in [Walk -> Seq(Event)]
      BY <1>1, <1>3, <1>7, SentOne DEF Miss
    <2>2. \/ phase' = [phase EXCEPT ![w] = "asking"] /\ UNCHANGED result
          \/ Reject(w, "handler")
      BY <1>7 DEF Miss, HandlerThrows
    <2>3. UNCHANGED got
      BY <1>7 DEF Miss
    <2>4. TypeOK'
      BY <1>1, <1>4, <2>1, <2>2, <2>3 DEF TypeOK, Reject, Settle
    <2>5. Progress'
      BY <1>1, <2>2, <2>3 DEF TypeOK, Progress, Reject, Settle
    <2> QED  BY <2>4, <2>5 DEF TypeInv
  <1> QED  BY <1>5, <1>6, <1>7 DEF Lookup

\* The answer goes to the cache and to the walk that asked for it.
LEMMA AnsweredTyped == ASSUME TypeInv, NEW w \in Walk, Answered(w) PROVE TypeInv'
  <1>1. phase[w] = "asking" /\ TypeOK /\ Progress /\ TypeInv
    BY DEF TypeInv, Answered
  <1>2. PICK empty \in BOOLEAN :
          LET a == [key |-> KeyOf(w), by |-> w, nth |-> Len(got[w]) + 1,
                    signed |-> now, empty |-> empty]
          IN /\ put(w, a)
             /\ given' = given \cup {a}
             /\ handler' = [x \in given \cup {a} |-> IF x = a THEN None ELSE handler[x]]
             /\ got' = [got EXCEPT ![w] = Append(@, a)]
    BY DEF Answered
  <1> DEFINE a == [key |-> KeyOf(w), by |-> w, nth |-> Len(got[w]) + 1, signed |-> now, empty |-> empty]
  <1>3. a \in Answer
    BY <1>1, KeyTyped DEF Answer, TypeOK
  <1> HIDE DEF a
  <1>4. /\ cache' = [cache EXCEPT ![KeyOf(w)] = a] /\ given' = given \cup {a}
        /\ handler' = [x \in given \cup {a} |-> IF x = a THEN None ELSE handler[x]]
        /\ got' = [got EXCEPT ![w] = Append(@, a)]
    BY <1>2 DEF put, a
  <1>5. /\ phase' = [phase EXCEPT ![w] = "loaded"]
        /\ UNCHANGED <<now, log, aborted, result, factory, started, last>>
    BY DEF Answered
  <1>6. TypeOK'
    <2>1. got' \in [Walk -> Seq(Answer)] /\ cache' \in [Key -> Answer \cup {None}]
      BY <1>1, <1>3, <1>4, KeyTyped DEF TypeOK
    <2>2. handler' \in [given' -> HandlerEntry \cup {None}] /\ given' \subseteq Answer
      BY <1>1, <1>3, <1>4 DEF TypeOK
    <2> QED  BY <1>1, <1>5, <2>1, <2>2 DEF TypeOK
  <1>7. Progress'
    BY <1>1, <1>3, <1>4, <1>5, Applied
  <1> QED  BY <1>6, <1>7 DEF TypeInv

LEMMA FailedTyped ==
    ASSUME TypeInv, NEW w \in Walk, QueryRejects(w) \/ BadRcode(w)
    PROVE  TypeInv'
  <1>1. TypeOK'
    BY DEF TypeInv, TypeOK, QueryRejects, BadRcode, Reject, Settle, history
  <1>2. Progress'
    BY DEF TypeInv, TypeOK, Progress, QueryRejects, BadRcode, Reject, Settle, history
  <1> QED  BY <1>1, <1>2 DEF TypeInv

-----------------------------------------------------------------------------
(* Answers *)

\* The cache holds what the resolver gave, under the key it was asked for.
CacheInv == \A k \in Key : cache[k] # None => cache[k] \in given /\ cache[k].key = k

IInv == TypeInv /\ CacheInv /\ AnswersTheLookup

\* The events of a check, and the handler the record gets.
LEMMA CheckTyped == ASSUME IInv, NEW w \in Walk, Check(w) PROVE TypeInv'
  <1> DEFINE a == got[w][Len(got[w])]
             r == RegistryOf[w]
             verified == a.empty \/ (handler_of(a, r) # None /\ fresh(a))
             done == Len(got[w]) = Len(Plan[w])
             events == <<At("Checked", None)>> \o
                 (IF ~verified THEN <<At("Bogus", None), At("Answer", None)>>
                  ELSE IF done THEN <<At("Answer", None)>> ELSE <<>>)
  <1>1. /\ phase[w] = "loaded" /\ TypeOK /\ Progress
        /\ IF a.empty THEN UNCHANGED <<handler, last>> ELSE get_handler(a, r)
        /\ \/ /\ emit(w, events)
              /\ IF verified /\ ~done
                 THEN phase' = [phase EXCEPT ![w] = "walking"] /\ UNCHANGED result
                 ELSE Settle(w, "resolved", IF verified THEN "secure" ELSE "bogus")
           \/ HandlerThrows(w, events)
        /\ UNCHANGED <<now, cache, got, aborted, factory, given, started>>
    BY DEF IInv, TypeInv, Check
  <1>2. got[w] \in Seq(Answer) /\ got[w] # <<>> /\ Len(got[w]) <= Len(Plan[w])
    BY <1>1 DEF TypeOK, Progress
  <1>3. events \in Seq(Event) /\ events # <<>>
    <2>1. /\ At("Checked", None) \in Event /\ At("Bogus", None) \in Event
          /\ At("Answer", None) \in Event
      BY DEF At, Event, StepKind
    <2> DEFINE rest == IF ~verified THEN <<At("Bogus", None), At("Answer", None)>>
                       ELSE IF done THEN <<At("Answer", None)>> ELSE <<>>
               one == <<At("Checked", None)>>
    <2>2. rest \in Seq(Event) /\ one \in Seq(Event) /\ Len(one) = 1
      <3>1. /\ <<At("Bogus", None), At("Answer", None)>> \in Seq(Event)
            /\ <<At("Answer", None)>> \in Seq(Event) /\ one \in Seq(Event)
        BY <2>1
      <3>2. <<>> \in Seq(Event)
        OBVIOUS
      <3> QED  BY <3>1, <3>2
    <2> HIDE DEF rest, one
    <2>3. one \o rest \in Seq(Event) /\ Len(one \o rest) = 1 + Len(rest) /\ Len(rest) \in Nat
      <3>1. Len(rest) \in Nat
        BY <2>2, LenProperties
      <3>2. one \o rest \in Seq(Event) /\ Len(one \o rest) = Len(one) + Len(rest)
        BY ONLY <2>2, ConcatProperties
      <3> QED  BY ONLY <2>2, <3>1, <3>2
    <2> QED  BY <2>3 DEF rest, one
  <1>4. log' \in [Walk -> Seq(Event)]
    <2> HIDE DEF events
    <2> QED  BY <1>1, <1>3, Sent DEF TypeInv
  <1>5. \/ phase' = [phase EXCEPT ![w] = "walking"] /\ UNCHANGED result /\ ~done
        \/ /\ phase' = [phase EXCEPT ![w] = "resolved"]
           /\ result' = [result EXCEPT ![w] = IF verified THEN "secure" ELSE "bogus"]
        \/ phase' = [phase EXCEPT ![w] = "rejected"] /\ result' = [result EXCEPT ![w] = "handler"]
    <2> HIDE DEF verified, done, events
    <2> QED  BY <1>1 DEF HandlerThrows, Reject, Settle
  <1>6. /\ phase' \in [Walk -> {"idle", "walking", "asking", "loaded", "resolved", "rejected"}]
        /\ result' \in [Walk -> {"secure", "bogus", "aborted", "resolver", "handler", None}]
    <2>1. /\ phase \in [Walk -> {"idle", "walking", "asking", "loaded", "resolved", "rejected"}]
          /\ result \in [Walk -> {"secure", "bogus", "aborted", "resolver", "handler", None}]
      BY <1>1 DEF TypeOK
    <2> HIDE DEF verified, done
    <2> QED  BY ONLY <1>5, <2>1
  <1>7. /\ handler' \in [given' -> HandlerEntry \cup {None}]
        /\ last' \in {None} \cup [to : Registry, handler : HandlerEntry \cup {None}]
    <2>1. a \in given /\ r \in Registry
      BY <1>2, RegistryAssumption DEF IInv, AnswersTheLookup
    <2>2. handler_of(a, r) \in HandlerEntry \cup {None}
      BY <1>1, <2>1, HandlerTyped
    <2>3. /\ handler \in [given -> HandlerEntry \cup {None}] /\ given' = given
          /\ last \in {None} \cup [to : Registry, handler : HandlerEntry \cup {None}]
      BY <1>1 DEF TypeOK
    <2>4. \/ handler' = handler /\ last' = last
          \/ /\ last' = [to |-> r, handler |-> handler_of(a, r)]
             /\ \/ handler' = handler
                \/ handler' = [handler EXCEPT ![a] = handler_of(a, r)]
      BY <1>1 DEF get_handler
    <2> HIDE DEF a, r
    <2>5. last' \in {None} \cup [to : Registry, handler : HandlerEntry \cup {None}]
      BY <2>1, <2>2, <2>3, <2>4
    <2>6. handler' \in [given' -> HandlerEntry \cup {None}]
      BY <2>1, <2>2, <2>3, <2>4
    <2> QED  BY <2>5, <2>6
  <1>8. TypeOK'
    <2> HIDE DEF a, r, events, verified, done
    <2> QED  BY <1>1, <1>4, <1>6, <1>7 DEF TypeOK
  <1>9. Progress'
    <2>1. Len(got[w]) \in Nat /\ Len(Plan[w]) \in Nat
      BY <1>2, PlanAssumption
    <2>2. ~done => Len(got[w]) < Len(Plan[w])
      BY <1>2, <2>1
    <2>3. \A v \in Walk \ {w} : phase'[v] = phase[v]
      <3> HIDE DEF verified, done
      <3> QED  BY <1>1, <1>5 DEF TypeOK
    <2>4. /\ phase'[w] \in {"walking", "resolved", "rejected"}
          /\ phase'[w] = "walking" => Len(got[w]) < Len(Plan[w])
      <3> HIDE DEF verified, done
      <3> QED  BY <1>1, <1>5, <2>2 DEF TypeOK
    <2>5. got' = got
      BY <1>1
    <2> HIDE DEF verified, done, events, a, r
    <2> QED  BY <1>1, <1>2, <2>3, <2>4, <2>5 DEF Progress
  <1> QED  BY <1>8, <1>9 DEF TypeInv

\* The steps that leave answers, cache and what was given as they are.
LEMMA AnswersKept ==
    ASSUME IInv, UNCHANGED <<got, cache, given>>
    PROVE  CacheInv' /\ AnswersTheLookup'
  BY DEF IInv, CacheInv, AnswersTheLookup

\* An answer given to a lookup, behind the others a walk has.
LEMMA AnswersApplied ==
    ASSUME IInv, NEW w \in Walk, phase[w] \in {"walking", "asking"}, NEW a \in given',
           a.key = KeyOf(w), a \in Answer, given \subseteq given',
           got' = [got EXCEPT ![w] = Append(@, a)]
    PROVE  AnswersTheLookup'
  <1>1. got \in [Walk -> Seq(Answer)] /\ AnswersTheLookup /\ TypeInv
    BY DEF IInv, TypeInv, TypeOK
  <1>2. KeyOf(w) = Plan[w][Len(got[w]) + 1]
    BY <1>1, KeyTyped
  <1>3. /\ got'[w] = Append(got[w], a) /\ Len(got'[w]) = Len(got[w]) + 1
        /\ \A i \in 1 .. Len(got[w]) : got'[w][i] = got[w][i]
        /\ got'[w][Len(got[w]) + 1] = a
    BY <1>1, AppendProperties
  <1>4. ASSUME NEW v \in Walk, NEW i \in 1 .. Len(got'[v])
        PROVE  got'[v][i] \in given' /\ got'[v][i].key = Plan[v][i]
    <2>1. CASE v # w
      <3>1. got'[v] = got[v]
        BY <1>1, <2>1
      <3> QED  BY <1>1, <1>4, <3>1 DEF AnswersTheLookup
    <2>2. CASE v = w /\ i # Len(got[w]) + 1
      <3>1. i \in 1 .. Len(got[w])
        BY <1>1, <1>3, <1>4, <2>2, LenProperties
      <3> QED  BY <1>1, <1>3, <2>2, <3>1 DEF AnswersTheLookup
    <2>3. CASE v = w /\ i = Len(got[w]) + 1
      BY <1>2, <1>3, <2>3
    <2> QED  BY <2>1, <2>2, <2>3
  <1> QED  BY <1>4 DEF AnswersTheLookup

LEMMA LookupAnswers ==
    ASSUME IInv, NEW w \in Walk, Lookup(w) PROVE CacheInv' /\ AnswersTheLookup'
  <1>1. phase[w] = "walking" /\ TypeInv /\ CacheInv /\ UNCHANGED <<cache, given>>
    BY DEF IInv, Lookup, history
  <1>2. CASE UNCHANGED got
    BY <1>1, <1>2, AnswersKept
  <1>3. CASE IsHit(KeyOf(w)) /\ got' = [got EXCEPT ![w] = Append(@, cache[KeyOf(w)])]
    <2>1. KeyOf(w) \in Key
      BY <1>1, KeyTyped
    <2>2. cache[KeyOf(w)] \in given /\ cache[KeyOf(w)].key = KeyOf(w)
      BY <1>1, <1>3, <2>1 DEF CacheInv, IsHit
    <2>3. cache[KeyOf(w)] \in Answer
      BY <1>1, <2>2 DEF TypeInv, TypeOK
    <2>4. AnswersTheLookup'
      BY <1>1, <1>3, <2>2, <2>3, AnswersApplied
    <2>5. CacheInv'
      BY <1>1 DEF CacheInv
    <2> QED  BY <2>4, <2>5
  <1> QED  BY <1>2, <1>3 DEF Lookup, Hit, Miss

LEMMA AnsweredAnswers ==
    ASSUME IInv, NEW w \in Walk, Answered(w) PROVE CacheInv' /\ AnswersTheLookup'
  <1>1. phase[w] = "asking" /\ TypeInv /\ TypeOK /\ CacheInv
    BY DEF IInv, TypeInv, Answered
  <1>2. PICK empty \in BOOLEAN :
          LET a == [key |-> KeyOf(w), by |-> w, nth |-> Len(got[w]) + 1,
                    signed |-> now, empty |-> empty]
          IN put(w, a) /\ given' = given \cup {a} /\ got' = [got EXCEPT ![w] = Append(@, a)]
    BY DEF Answered
  <1> DEFINE a == [key |-> KeyOf(w), by |-> w, nth |-> Len(got[w]) + 1, signed |-> now, empty |-> empty]
  <1>3. a \in Answer /\ a.key = KeyOf(w) /\ KeyOf(w) \in Key
    BY <1>1, KeyTyped DEF Answer, TypeOK
  <1> HIDE DEF a
  <1>4. /\ cache' = [cache EXCEPT ![KeyOf(w)] = a] /\ given' = given \cup {a}
        /\ got' = [got EXCEPT ![w] = Append(@, a)]
    BY <1>2 DEF put, a
  <1>5. AnswersTheLookup'
    BY <1>1, <1>3, <1>4, AnswersApplied
  <1>6. CacheInv'
    BY <1>1, <1>3, <1>4 DEF CacheInv, TypeOK
  <1> QED  BY <1>5, <1>6

LEMMA InitIInv == Init => IInv
  <1> SUFFICES ASSUME Init PROVE IInv
    OBVIOUS
  <1>1. CacheInv
    BY DEF Init, CacheInv
  <1>2. AnswersTheLookup
    <2>1. ASSUME NEW w \in Walk PROVE 1 .. Len(got[w]) = {}
      BY DEF Init
    <2> QED  BY <2>1 DEF AnswersTheLookup
  <1> QED  BY <1>1, <1>2, InitTyped DEF IInv

LEMMA NextIInv == IInv /\ [Next]_vars => IInv'
  <1> SUFFICES ASSUME IInv, [Next]_vars PROVE IInv'
    OBVIOUS
  <1>1. TypeInv
    BY DEF IInv
  <1>2. ASSUME NEW w \in Walk, Call(w) PROVE IInv'
    BY <1>1, <1>2, CallTyped, AnswersKept DEF IInv, Call
  <1>3. ASSUME NEW w \in Walk, Lookup(w) PROVE IInv'
    BY <1>1, <1>3, LookupTyped, LookupAnswers DEF IInv
  <1>4. ASSUME NEW w \in Walk, Check(w) PROVE IInv'
    <2>1. UNCHANGED <<got, cache, given>>
      BY <1>4 DEF Check
    <2> QED  BY <1>4, <2>1, CheckTyped, AnswersKept DEF IInv
  <1>5. ASSUME NEW w \in Walk, Answered(w) PROVE IInv'
    BY <1>1, <1>5, AnsweredTyped, AnsweredAnswers DEF IInv
  <1>6. ASSUME NEW w \in Walk, QueryRejects(w) \/ BadRcode(w) PROVE IInv'
    <2>1. UNCHANGED <<got, cache, given>>
      BY <1>6 DEF QueryRejects, BadRcode, history
    <2> QED  BY <1>1, <1>6, <2>1, FailedTyped, AnswersKept DEF IInv
  <1>7. ASSUME NEW w \in Walk, Abort(w) PROVE IInv'
    <2>1. UNCHANGED <<got, cache, given>>
      BY <1>7 DEF Abort, history
    <2>2. TypeInv'
      BY <1>1, <1>7 DEF TypeInv, TypeOK, Progress, Abort, history
    <2> QED  BY <2>1, <2>2, AnswersKept DEF IInv
  <1>8. ASSUME NEW r \in Registry, NEW f \in 0 .. MaxFactory, register(r, f) PROVE IInv'
    <2>1. UNCHANGED <<got, cache, given>>
      BY <1>8 DEF register, history
    <2>2. TypeInv'
      BY <1>1, <1>8 DEF TypeInv, TypeOK, Progress, register, history
    <2> QED  BY <2>1, <2>2, AnswersKept DEF IInv
  <1>9. CASE Tick
    <2>1. UNCHANGED <<got, cache, given>>
      BY <1>9 DEF Tick, history
    <2>2. TypeInv'
      BY <1>1, <1>9 DEF TypeInv, TypeOK, Progress, Tick, history
    <2> QED  BY <2>1, <2>2, AnswersKept DEF IInv
  <1>10. CASE UNCHANGED vars
    <2>1. UNCHANGED <<got, cache, given>>
      BY <1>10 DEF vars
    <2>2. TypeInv'
      BY <1>1, <1>10 DEF TypeInv, TypeOK, Progress, vars
    <2> QED  BY <2>1, <2>2, AnswersKept DEF IInv
  <1> QED
    BY <1>2, <1>3, <1>4, <1>5, <1>6, <1>7, <1>8, <1>9, <1>10 DEF Next, Continue, Respond

LEMMA InvProved == Spec => []IInv
  <1> QED  BY InitIInv, NextIInv, PTL DEF Spec

\* Every variable has its type, whatever the other calls, the handlers and the
\* clock do.
THEOREM TypesKept == Spec => []TypeOK
  <1>1. IInv => TypeOK
    BY DEF IInv, TypeInv
  <1> QED  BY <1>1, InvProved, PTL

\* What a walk works with is what the resolver gave to that very lookup, however
\* the calls over the cache interleave.
THEOREM AnswersProved == Spec => []AnswersTheLookup
  <1>1. IInv => AnswersTheLookup
    BY DEF IInv
  <1> QED  BY <1>1, InvProved, PTL

-----------------------------------------------------------------------------
(* One query for a key *)

\* A key a walk has asked for is in the cache, but for the query that is out and
\* for one that failed.
OneAsked(w, i) ==
    log[w][i].kind = "Query" =>
        /\ log[w][i].key \in Key
        /\ \/ cache[log[w][i].key] # None
           \/ i = Len(log[w]) /\ phase[w] = "asking" /\ log[w][i].key = KeyOf(w)
           \/ phase[w] = "rejected"

Asked(w) == \A i \in 1 .. Len(log[w]) : OneAsked(w, i)

Once(w) == \A i, j \in 1 .. Len(log[w]) : log[w][i].kind = "Query" /\ log[w][i] = log[w][j] => i = j

AskedInv == \A w \in Walk : Asked(w) /\ Once(w)

\* A cached key stays cached.
CacheGrows == \A k \in Key : cache[k] # None => cache'[k] # None

\* A walk that sends nothing and does not leave its query unanswered.
LEMMA AskedKept ==
    ASSUME NEW w \in Walk, Asked(w), Once(w), CacheGrows, log'[w] = log[w],
           \/ got'[w] = got[w] /\ phase'[w] = phase[w]
           \/ phase[w] # "asking" /\ phase[w] # "rejected"
           \/ phase'[w] = "rejected"
           \/ phase[w] = "asking" /\ cache'[KeyOf(w)] # None
    PROVE  Asked(w)' /\ Once(w)'
  <1>1. ASSUME NEW i \in 1 .. Len(log[w]) PROVE OneAsked(w, i)'
    <2>1. OneAsked(w, i)
      BY DEF Asked
    <2>2. CASE got'[w] = got[w] /\ phase'[w] = phase[w]
      BY <2>1, <2>2 DEF OneAsked, CacheGrows, KeyOf
    <2>3. CASE phase[w] # "asking" /\ phase[w] # "rejected"
      BY <2>1, <2>3 DEF OneAsked, CacheGrows
    <2>4. CASE phase'[w] = "rejected"
      BY <2>1, <2>4 DEF OneAsked, CacheGrows
    <2>5. CASE phase[w] = "asking" /\ cache'[KeyOf(w)] # None
      BY <2>1, <2>5 DEF OneAsked, CacheGrows
    <2> QED  BY <2>2, <2>3, <2>4, <2>5
  <1>2. Asked(w)'
    BY <1>1 DEF Asked
  <1>3. Once(w)'
    BY DEF Once
  <1> QED  BY <1>2, <1>3

\* Events that are no queries come behind those of a walk whose query is answered.
LEMMA AskedOther ==
    ASSUME NEW w \in Walk, Asked(w), Once(w), CacheGrows, log[w] \in Seq(Event),
           NEW ms \in Seq(Event), log'[w] = log[w] \o ms,
           \A i \in 1 .. Len(ms) : ms[i].kind # "Query",
           phase[w] # "asking", phase[w] # "rejected"
    PROVE  Asked(w)' /\ Once(w)'
  <1>1. Len(log[w]) \in Nat /\ Len(ms) \in Nat /\ Len(log'[w]) = Len(log[w]) + Len(ms)
    BY ConcatProperties, LenProperties
  <1>2. ASSUME NEW i \in 1 .. Len(log'[w]), log'[w][i].kind = "Query"
        PROVE  i \in 1 .. Len(log[w]) /\ log'[w][i] = log[w][i]
    <2>1. log'[w][i] = IF i <= Len(log[w]) THEN log[w][i] ELSE ms[i - Len(log[w])]
      BY <1>1, ConcatProperties
    <2>2. CASE i > Len(log[w])
      <3>1. i - Len(log[w]) \in 1 .. Len(ms)
        BY <1>1, <2>2
      <3> QED  BY <1>1, <1>2, <2>1, <2>2, <3>1
    <2> QED  BY <1>1, <2>1, <2>2
  <1>3. Asked(w)'
    <2>1. ASSUME NEW i \in 1 .. Len(log'[w]) PROVE OneAsked(w, i)'
      <3> SUFFICES ASSUME log'[w][i].kind = "Query"
                   PROVE  log'[w][i].key \in Key /\ cache'[log'[w][i].key] # None
        BY DEF OneAsked
      <3>1. i \in 1 .. Len(log[w]) /\ log'[w][i] = log[w][i]
        BY <1>2
      <3>2. OneAsked(w, i)
        BY <3>1 DEF Asked
      <3> QED  BY <3>1, <3>2 DEF OneAsked, CacheGrows
    <2> QED  BY <2>1 DEF Asked
  <1>4. Once(w)'
    <2>1. ASSUME NEW i \in 1 .. Len(log'[w]), NEW j \in 1 .. Len(log'[w]),
                 log'[w][i].kind = "Query", log'[w][i] = log'[w][j]
          PROVE  i = j
      <3>1. /\ i \in 1 .. Len(log[w]) /\ log'[w][i] = log[w][i]
            /\ j \in 1 .. Len(log[w]) /\ log'[w][j] = log[w][j]
        BY <1>2, <2>1
      <3> QED  BY <2>1, <3>1 DEF Once
    <2> QED  BY <2>1 DEF Once
  <1> QED  BY <1>3, <1>4

\* A walk asks for a key the cache does not hold: it has not asked for it before.
LEMMA AskedMore ==
    ASSUME NEW w \in Walk, Asked(w), Once(w), log[w] \in Seq(Event), UNCHANGED <<cache, got>>,
           NEW e \in Event, e.kind = "Query", e.key \in Key, e.key = KeyOf(w), cache[e.key] = None,
           phase[w] = "walking", phase'[w] \in {"asking", "rejected"},
           log'[w] = Append(log[w], e)
    PROVE  Asked(w)' /\ Once(w)'
  <1>1. /\ Len(log[w]) \in Nat /\ Len(log'[w]) = Len(log[w]) + 1
        /\ \A i \in 1 .. Len(log[w]) : log'[w][i] = log[w][i]
        /\ log'[w][Len(log[w]) + 1] = e
    BY AppendProperties, LenProperties
  <1>2. ASSUME NEW i \in 1 .. Len(log[w]), log[w][i].kind = "Query"
        PROVE  log[w][i].key \in Key /\ cache[log[w][i].key] # None /\ log[w][i] # e
    BY <1>2 DEF Asked, OneAsked
  <1>3. Asked(w)'
    <2>1. ASSUME NEW i \in 1 .. Len(log'[w]) PROVE OneAsked(w, i)'
      <3>1. CASE i = Len(log[w]) + 1
        BY <1>1, <3>1 DEF OneAsked, KeyOf
      <3>2. CASE i \in 1 .. Len(log[w])
        BY <1>1, <1>2, <3>2 DEF OneAsked
      <3> QED  BY <1>1, <3>1, <3>2
    <2> QED  BY <2>1 DEF Asked
  <1>4. Once(w)'
    <2>1. ASSUME NEW i \in 1 .. Len(log'[w]), NEW j \in 1 .. Len(log'[w]),
                 log'[w][i].kind = "Query", log'[w][i] = log'[w][j]
          PROVE  i = j
      <3>1. CASE i \in 1 .. Len(log[w]) /\ j \in 1 .. Len(log[w])
        BY <1>1, <2>1, <3>1 DEF Once
      <3>2. CASE i = Len(log[w]) + 1 /\ j \in 1 .. Len(log[w])
        BY <1>1, <1>2, <2>1, <3>2
      <3>3. CASE i \in 1 .. Len(log[w]) /\ j = Len(log[w]) + 1
        BY <1>1, <1>2, <2>1, <3>3
      <3> QED  BY <1>1, <3>1, <3>2, <3>3
    <2> QED  BY <2>1 DEF Once
  <1> QED  BY <1>3, <1>4

\* The events of a check are no queries.
LEMMA CheckSent ==
    ASSUME IInv, NEW w \in Walk, Check(w)
    PROVE  \E ms \in Seq(Event) : /\ log' = [log EXCEPT ![w] = @ \o ms]
                                  /\ \A i \in 1 .. Len(ms) : ms[i].kind # "Query"
  <1> DEFINE a == got[w][Len(got[w])]
             verified == a.empty \/ (handler_of(a, RegistryOf[w]) # None /\ fresh(a))
             done == Len(got[w]) = Len(Plan[w])
             one == <<At("Checked", None)>>
             rest == IF ~verified THEN <<At("Bogus", None), At("Answer", None)>>
                     ELSE IF done THEN <<At("Answer", None)>> ELSE <<>>
             events == one \o rest
  <1>1. emit(w, events) \/ HandlerThrows(w, events)
    BY DEF Check
  <1>2. /\ At("Checked", None) \in Event /\ At("Bogus", None) \in Event /\ At("Answer", None) \in Event
        /\ At("Checked", None).kind # "Query" /\ At("Bogus", None).kind # "Query"
        /\ At("Answer", None).kind # "Query"
    BY DEF At, Event, StepKind
  <1>3. /\ one \in Seq(Event) /\ Len(one) = 1
        /\ \A i \in 1 .. Len(one) : one[i].kind # "Query"
    BY <1>2
  <1>4. /\ rest \in Seq(Event)
        /\ \A i \in 1 .. Len(rest) : rest[i].kind # "Query"
    <2>1. CASE rest = <<At("Bogus", None), At("Answer", None)>>
      BY <1>2, <2>1
    <2>2. CASE rest = <<At("Answer", None)>>
      BY <1>2, <2>2
    <2>3. CASE rest = <<>>
      BY <2>3
    <2> QED  BY <2>1, <2>2, <2>3
  <1> HIDE DEF one, rest
  <1>5. /\ events \in Seq(Event) /\ events # <<>>
        /\ \A i \in 1 .. Len(events) : events[i].kind # "Query"
    <2>1. /\ events \in Seq(Event) /\ Len(events) = 1 + Len(rest) /\ Len(rest) \in Nat
          /\ \A i \in 1 .. 1 + Len(rest) : events[i] = IF i <= 1 THEN one[i] ELSE rest[i - 1]
      <3>1. /\ events \in Seq(Event) /\ Len(events) = Len(one) + Len(rest)
            /\ \A i \in 1 .. Len(one) + Len(rest) :
                  events[i] = IF i <= Len(one) THEN one[i] ELSE rest[i - Len(one)]
        BY <1>3, <1>4, ConcatProperties
      <3>2. Len(rest) \in Nat
        BY <1>4, LenProperties
      <3> HIDE DEF events
      <3> QED  BY <1>3, <3>1, <3>2
    <2>2. ASSUME NEW i \in 1 .. Len(events) PROVE events[i].kind # "Query"
      <3>1. CASE i = 1
        BY <1>3, <2>1, <3>1
      <3>2. CASE i > 1
        <4>1. i - 1 \in 1 .. Len(rest)
          BY <2>1, <3>2
        <4> QED  BY <1>4, <2>1, <3>2, <4>1
      <3> QED  BY <2>1, <3>1, <3>2
    <2> HIDE DEF events
    <2>3. events # <<>>
      BY <2>1
    <2> QED  BY <2>1, <2>2, <2>3
  <1> HIDE DEF events
  <1>6. PICK n \in 1 .. Len(events) : log' = [log EXCEPT ![w] = @ \o SubSeq(events, 1, n)]
    BY <1>1, <1>5, Sent DEF IInv, TypeInv
  <1> DEFINE ms == SubSeq(events, 1, n)
  <1>7. Len(events) \in Nat /\ \A i \in 1 .. n : events[i] \in Event
    BY <1>5, <1>6, LenProperties, ElementOfSeq
  <1>8. ms \in Seq(Event) /\ Len(ms) = n /\ \A i \in 1 .. n : ms[i] = events[i]
    BY <1>6, <1>7, SubSeqProperties
  <1>9. \A i \in 1 .. Len(ms) : ms[i].kind # "Query"
    BY <1>5, <1>6, <1>7, <1>8
  <1> QED  BY <1>6, <1>8, <1>9

\* A step of one walk as the others see it.
LEMMA AskedElsewhere ==
    ASSUME AskedInv, CacheGrows, NEW w \in Walk, Asked(w)', Once(w)',
           \A v \in Walk \ {w} : log'[v] = log[v] /\ got'[v] = got[v] /\ phase'[v] = phase[v]
    PROVE  AskedInv'
  <1>1. ASSUME NEW v \in Walk PROVE Asked(v)' /\ Once(v)'
    <2>1. CASE v # w
      <3>1. log'[v] = log[v] /\ got'[v] = got[v] /\ phase'[v] = phase[v]
        BY <2>1
      <3> QED  BY <3>1, AskedKept DEF AskedInv
    <2> QED  BY <2>1
  <1> QED  BY <1>1 DEF AskedInv

LEMMA NextAsked == IInv /\ AskedInv /\ [Next]_vars => AskedInv'
  <1> SUFFICES ASSUME IInv, AskedInv, [Next]_vars PROVE AskedInv'
    OBVIOUS
  <1>1. TypeInv /\ TypeOK /\ \A w \in Walk : Asked(w) /\ Once(w) /\ log[w] \in Seq(Event)
    BY DEF IInv, TypeInv, TypeOK, AskedInv
  <1>2. UNCHANGED cache => CacheGrows
    BY DEF CacheGrows
  <1>3. ASSUME NEW w \in Walk, Call(w) PROVE AskedInv'
    <2>1. /\ UNCHANGED <<cache, log, got>> /\ phase[w] = "idle"
          /\ \A v \in Walk \ {w} : phase'[v] = phase[v]
      BY <1>1, <1>3 DEF Call, Reject, Settle, TypeOK
    <2>2. Asked(w)' /\ Once(w)'
      BY <1>1, <1>2, <2>1, AskedKept
    <2> QED  BY <1>2, <2>1, <2>2, AskedElsewhere
  <1>4. ASSUME NEW w \in Walk, Lookup(w) PROVE AskedInv'
    <2>1. phase[w] = "walking" /\ UNCHANGED cache /\ KeyOf(w) \in Key
      BY <1>1, <1>4, KeyTyped DEF Lookup
    <2>2. At("CacheHit", KeyOf(w)) \in Event /\ At("Query", KeyOf(w)) \in Event
      BY <2>1 DEF At, Event, StepKind
    <2>3. CASE Reject(w, "aborted") /\ UNCHANGED <<got, log>>
      <3>1. \A v \in Walk \ {w} : phase'[v] = phase[v]
        BY <1>1, <2>3 DEF Reject, Settle, TypeOK
      <3>2. Asked(w)' /\ Once(w)'
        BY <1>1, <1>2, <2>1, <2>3, AskedKept
      <3> QED  BY <1>2, <2>1, <2>3, <3>1, <3>2, AskedElsewhere
    <2>4. CASE Hit(w)
      <3>1. log' = [log EXCEPT ![w] = Append(@, At("CacheHit", KeyOf(w)))]
        BY <1>1, <2>2, <2>4, SentOne DEF Hit
      <3>2. \A v \in Walk \ {w} : phase'[v] = phase[v] /\ got'[v] = got[v] /\ log'[v] = log[v]
        BY <1>1, <2>4, <3>1 DEF Hit, HandlerThrows, Reject, Settle, TypeOK
      <3> DEFINE ms == <<At("CacheHit", KeyOf(w))>>
      <3>3. ms \in Seq(Event) /\ \A i \in 1 .. Len(ms) : ms[i].kind # "Query"
        BY <2>2 DEF At
      <3>4. log'[w] = log[w] \o ms
        BY <1>1, <2>2, <3>1, AppendIsConcat DEF TypeOK
      <3> HIDE DEF ms
      <3>5. Asked(w)' /\ Once(w)'
        BY <1>1, <1>2, <2>1, <3>3, <3>4, AskedOther
      <3> QED  BY <1>2, <2>1, <3>2, <3>5, AskedElsewhere
    <2>5. CASE Miss(w)
      <3> DEFINE e == At("Query", KeyOf(w))
      <3>1. log' = [log EXCEPT ![w] = Append(@, e)] /\ log'[w] = Append(log[w], e)
        BY <1>1, <2>2, <2>5, SentOne DEF Miss, TypeOK
      <3>2. /\ \A v \in Walk \ {w} : phase'[v] = phase[v] /\ got'[v] = got[v] /\ log'[v] = log[v]
            /\ phase'[w] \in {"asking", "rejected"} /\ UNCHANGED got
        BY <1>1, <2>5, <3>1 DEF Miss, HandlerThrows, Reject, Settle, TypeOK
      <3>3. e.kind = "Query" /\ e.key = KeyOf(w) /\ cache[e.key] = None
        BY <2>5 DEF At, Miss, IsHit
      <3> HIDE DEF e
      <3>4. Asked(w)' /\ Once(w)'
        BY <1>1, <2>1, <2>2, <3>1, <3>2, <3>3, AskedMore DEF e
      <3> QED  BY <1>2, <2>1, <3>2, <3>4, AskedElsewhere
    <2> QED  BY <1>4, <2>3, <2>4, <2>5 DEF Lookup
  <1>5. ASSUME NEW w \in Walk, Check(w) PROVE AskedInv'
    <2>1. phase[w] = "loaded" /\ UNCHANGED <<cache, got>>
      BY <1>5 DEF Check
    <2>2. PICK ms \in Seq(Event) : /\ log' = [log EXCEPT ![w] = @ \o ms]
                                   /\ \A i \in 1 .. Len(ms) : ms[i].kind # "Query"
      BY <1>5, CheckSent
    <2>3. log'[w] = log[w] \o ms /\ \A v \in Walk \ {w} : log'[v] = log[v]
      BY <1>1, <2>2 DEF TypeOK
    <2>4. \A v \in Walk \ {w} : phase'[v] = phase[v]
      BY <1>1, <1>5 DEF Check, HandlerThrows, Reject, Settle, TypeOK
    <2>5. Asked(w)' /\ Once(w)'
      BY <1>1, <1>2, <2>1, <2>2, <2>3, AskedOther
    <2> QED  BY <1>2, <2>1, <2>3, <2>4, <2>5, AskedElsewhere
  <1>6. ASSUME NEW w \in Walk, Answered(w) PROVE AskedInv'
    <2>1. phase[w] = "asking" /\ UNCHANGED log /\ phase' = [phase EXCEPT ![w] = "loaded"]
      BY <1>6 DEF Answered
    <2>2. PICK a \in Answer : cache' = [cache EXCEPT ![KeyOf(w)] = a] /\ got' = [got EXCEPT ![w] = Append(@, a)]
      <3>1. PICK empty \in BOOLEAN :
              LET a == [key |-> KeyOf(w), by |-> w, nth |-> Len(got[w]) + 1,
                        signed |-> now, empty |-> empty]
              IN put(w, a) /\ got' = [got EXCEPT ![w] = Append(@, a)]
        BY <1>6 DEF Answered
      <3> DEFINE a == [key |-> KeyOf(w), by |-> w, nth |-> Len(got[w]) + 1,
                       signed |-> now, empty |-> empty]
      <3>2. got[w] \in Seq(Answer) /\ now \in Nat
        BY <1>1 DEF TypeOK
      <3>3. a \in Answer
        BY <1>1, <2>1, <3>2, KeyTyped, LenProperties DEF Answer
      <3>4. cache' = [cache EXCEPT ![KeyOf(w)] = a] /\ got' = [got EXCEPT ![w] = Append(@, a)]
        BY <3>1 DEF put
      <3> HIDE DEF a
      <3> QED  BY <3>3, <3>4
    <2>3. KeyOf(w) \in Key /\ cache'[KeyOf(w)] # None /\ CacheGrows
      BY <1>1, <2>1, <2>2, KeyTyped, NoneAssumption DEF CacheGrows, TypeOK
    <2>4. Asked(w)' /\ Once(w)'
      BY <1>1, <2>1, <2>3, AskedKept
    <2>5. \A v \in Walk \ {w} : phase'[v] = phase[v] /\ got'[v] = got[v]
      BY <1>1, <2>1, <2>2 DEF TypeOK
    <2> QED  BY <2>1, <2>3, <2>4, <2>5, AskedElsewhere
  <1>7. ASSUME NEW w \in Walk, QueryRejects(w) \/ BadRcode(w) PROVE AskedInv'
    <2>1. /\ UNCHANGED <<cache, log, got>> /\ phase'[w] = "rejected"
          /\ \A v \in Walk \ {w} : phase'[v] = phase[v]
      BY <1>1, <1>7 DEF QueryRejects, BadRcode, Reject, Settle, TypeOK
    <2>2. Asked(w)' /\ Once(w)'
      BY <1>1, <1>2, <2>1, AskedKept
    <2> QED  BY <1>2, <2>1, <2>2, AskedElsewhere
  <1>8. CASE UNCHANGED <<cache, log, got, phase>>
    <2>1. ASSUME NEW w \in Walk PROVE Asked(w)' /\ Once(w)'
      BY <1>1, <1>2, <1>8, AskedKept
    <2> QED  BY <2>1 DEF AskedInv
  <1>9. ASSUME NEW w \in Walk, Abort(w) PROVE AskedInv'
    BY <1>8, <1>9 DEF Abort
  <1>10. ASSUME NEW r \in Registry, NEW f \in 0 .. MaxFactory, register(r, f) PROVE AskedInv'
    BY <1>8, <1>10 DEF register
  <1>11. Tick \/ UNCHANGED vars => AskedInv'
    BY <1>8 DEF Tick, vars
  <1> QED
    BY <1>3, <1>4, <1>5, <1>6, <1>7, <1>9, <1>10, <1>11 DEF Next, Continue, Respond

\* A call asks the resolver for a key once.
THEOREM AskedOnceProved == Spec => []AskedOnce
  <1>1. Init => AskedInv
    <2>1. ASSUME Init, NEW w \in Walk PROVE 1 .. Len(log[w]) = {}
      BY <2>1 DEF Init
    <2> QED  BY <2>1 DEF AskedInv, Asked, Once
  <1>2. AskedInv => AskedOnce
    BY DEF AskedInv, Once, AskedOnce
  <1> QED  BY <1>1, <1>2, InvProved, NextAsked, PTL DEF Spec

-----------------------------------------------------------------------------
(* Fresh signatures *)

Good(w, i) == got[w][i].empty \/ started[w] <= got[w][i].signed + Life

\* All a walk has checked was good when the call began, or the call has not come
\* to a Secure verdict and never will.
FreshWalk(w) ==
    /\ started[w] <= now
    /\ result[w] = "secure" => phase[w] = "resolved"
    /\ \A i \in 1 .. Len(got[w]) :
        \/ Good(w, i)
        \/ phase[w] = "loaded" /\ i = Len(got[w])
        \/ phase[w] = "rejected"
        \/ phase[w] = "resolved" /\ result[w] # "secure"

FreshInv == \A w \in Walk : FreshWalk(w)

\* A walk the step leaves alone, while the clock may go on.
LEMMA FreshKept ==
    ASSUME TypeOK, NEW w \in Walk, FreshWalk(w), now <= now', now' \in Nat,
           got'[w] = got[w], phase'[w] = phase[w], result'[w] = result[w], started'[w] = started[w]
    PROVE  FreshWalk(w)'
  <1>1. started[w] \in Nat /\ now \in Nat
    BY DEF TypeOK
  <1> QED  BY <1>1 DEF FreshWalk, Good

\* A walk that rejects, or goes on to ask.
LEMMA FreshMoved ==
    ASSUME TypeOK, NEW w \in Walk, FreshWalk(w), UNCHANGED <<now, started>>, got'[w] = got[w],
           \/ phase'[w] = "rejected" /\ result'[w] # "secure"
           \/ phase[w] = "walking" /\ phase'[w] = "asking" /\ result'[w] = result[w]
    PROVE  FreshWalk(w)'
  BY DEF FreshWalk, Good

\* A walk with one more answer, still to be checked.
LEMMA FreshApplied ==
    ASSUME TypeOK, NEW w \in Walk, FreshWalk(w), UNCHANGED <<now, started>>, NEW a \in Answer,
           got'[w] = Append(got[w], a), phase[w] \in {"walking", "asking"},
           phase'[w] = "loaded", result'[w] = result[w]
    PROVE  FreshWalk(w)'
  <1>1. got[w] \in Seq(Answer)
    BY DEF TypeOK
  <1>2. /\ Len(got'[w]) = Len(got[w]) + 1 /\ Len(got[w]) \in Nat
        /\ \A i \in 1 .. Len(got[w]) : got'[w][i] = got[w][i]
    BY <1>1, AppendProperties, LenProperties
  <1>3. ASSUME NEW i \in 1 .. Len(got'[w]) PROVE Good(w, i)' \/ i = Len(got'[w])
    <2>1. CASE i \in 1 .. Len(got[w])
      BY <1>2, <2>1 DEF FreshWalk, Good
    <2>2. CASE i = Len(got[w]) + 1
      BY <1>2, <2>2
    <2> QED  BY <1>2, <2>1, <2>2
  <1>4. result'[w] # "secure"
    BY DEF FreshWalk
  <1> QED  BY <1>3, <1>4 DEF FreshWalk

LEMMA NextFresh == IInv /\ FreshInv /\ [Next]_vars => FreshInv'
  <1> SUFFICES ASSUME IInv, FreshInv, [Next]_vars PROVE FreshInv'
    OBVIOUS
  <1>1. TypeInv /\ TypeOK /\ now \in Nat /\ \A w \in Walk : FreshWalk(w)
    BY DEF IInv, TypeInv, TypeOK, FreshInv
  <1>2. ASSUME NEW w \in Walk, FreshWalk(w)', now' = now,
               \A v \in Walk \ {w} : /\ got'[v] = got[v] /\ phase'[v] = phase[v]
                                     /\ result'[v] = result[v] /\ started'[v] = started[v]
        PROVE  FreshInv'
    <2>1. ASSUME NEW v \in Walk, v # w PROVE FreshWalk(v)'
      BY <1>1, <1>2, <2>1, FreshKept
    <2> QED  BY <1>2, <2>1 DEF FreshInv
  <1>3. ASSUME NEW w \in Walk, Call(w) PROVE FreshInv'
    <2>1. /\ phase[w] = "idle" /\ UNCHANGED <<now, got>> /\ got[w] = <<>>
          /\ started'[w] = now
      BY <1>1, <1>3 DEF Call, TypeOK, TypeInv, Progress
    <2>2. \A v \in Walk \ {w} : phase'[v] = phase[v] /\ result'[v] = result[v] /\ started'[v] = started[v]
      BY <1>1, <1>3 DEF Call, Reject, Settle, TypeOK
    <2>3. result'[w] # "secure"
      BY <1>1, <1>3, <2>1 DEF Call, Reject, Settle, TypeOK, FreshWalk
    <2>4. 1 .. Len(got'[w]) = {}
      BY <2>1
    <2>5. FreshWalk(w)'
      BY <1>1, <2>1, <2>3, <2>4 DEF FreshWalk
    <2> QED  BY <1>2, <2>1, <2>2, <2>5
  <1>4. ASSUME NEW w \in Walk, Lookup(w) PROVE FreshInv'
    <2>1. phase[w] = "walking" /\ UNCHANGED <<now, started, cache>> /\ KeyOf(w) \in Key
      BY <1>1, <1>4, KeyTyped DEF Lookup, history
    <2>2. \/ \E error \in {"aborted", "handler"} : Reject(w, error) /\ UNCHANGED got
          \/ phase' = [phase EXCEPT ![w] = "asking"] /\ UNCHANGED <<got, result>>
          \/ /\ IsHit(KeyOf(w)) /\ got' = [got EXCEPT ![w] = Append(@, cache[KeyOf(w)])]
             /\ phase' = [phase EXCEPT ![w] = "loaded"] /\ UNCHANGED result
      BY <1>4 DEF Lookup, Hit, Miss, HandlerThrows
    <2>3. \A v \in Walk \ {w} : /\ got'[v] = got[v] /\ phase'[v] = phase[v]
                                /\ result'[v] = result[v] /\ started'[v] = started[v]
      BY <1>1, <2>1, <2>2 DEF Reject, Settle, TypeOK
    <2>4. FreshWalk(w)'
      <3>1. CASE \E error \in {"aborted", "handler"} : Reject(w, error) /\ UNCHANGED got
        <4>1. phase'[w] = "rejected" /\ result'[w] # "secure" /\ got'[w] = got[w]
          BY <1>1, <3>1 DEF Reject, Settle, TypeOK
        <4> QED  BY <1>1, <2>1, <4>1, FreshMoved
      <3>2. CASE phase' = [phase EXCEPT ![w] = "asking"] /\ UNCHANGED <<got, result>>
        <4>1. phase'[w] = "asking" /\ result'[w] = result[w] /\ got'[w] = got[w]
          BY <1>1, <3>2 DEF TypeOK
        <4> QED  BY <1>1, <2>1, <4>1, FreshMoved
      <3>3. CASE /\ IsHit(KeyOf(w)) /\ got' = [got EXCEPT ![w] = Append(@, cache[KeyOf(w)])]
                 /\ phase' = [phase EXCEPT ![w] = "loaded"] /\ UNCHANGED result
        <4>1. cache[KeyOf(w)] \in Answer
          BY <1>1, <2>1, <3>3 DEF IsHit, TypeOK
        <4>2. got'[w] = Append(got[w], cache[KeyOf(w)]) /\ phase'[w] = "loaded" /\ result'[w] = result[w]
          BY <1>1, <3>3 DEF TypeOK
        <4> QED  BY <1>1, <2>1, <4>1, <4>2, FreshApplied
      <3> QED  BY <2>2, <3>1, <3>2, <3>3
    <2> QED  BY <1>2, <2>1, <2>3, <2>4
  <1>5. ASSUME NEW w \in Walk, Answered(w) PROVE FreshInv'
    <2>1. /\ phase[w] = "asking" /\ phase' = [phase EXCEPT ![w] = "loaded"]
          /\ UNCHANGED <<now, result, started>>
      BY <1>5 DEF Answered
    <2>2. PICK a \in Answer : got' = [got EXCEPT ![w] = Append(@, a)]
      <3>1. PICK empty \in BOOLEAN :
              LET a == [key |-> KeyOf(w), by |-> w, nth |-> Len(got[w]) + 1,
                        signed |-> now, empty |-> empty]
              IN got' = [got EXCEPT ![w] = Append(@, a)]
        BY <1>5 DEF Answered
      <3> DEFINE a == [key |-> KeyOf(w), by |-> w, nth |-> Len(got[w]) + 1,
                       signed |-> now, empty |-> empty]
      <3>2. got[w] \in Seq(Answer)
        BY <1>1 DEF TypeOK
      <3>3. a \in Answer
        BY <1>1, <2>1, <3>2, KeyTyped, LenProperties DEF Answer
      <3>4. got' = [got EXCEPT ![w] = Append(@, a)]
        BY <3>1
      <3> HIDE DEF a
      <3> QED  BY <3>3, <3>4
    <2>3. /\ got'[w] = Append(got[w], a) /\ phase'[w] = "loaded" /\ result'[w] = result[w]
          /\ \A v \in Walk \ {w} : /\ got'[v] = got[v] /\ phase'[v] = phase[v]
                                   /\ result'[v] = result[v] /\ started'[v] = started[v]
      BY <1>1, <2>1, <2>2 DEF TypeOK
    <2>4. FreshWalk(w)'
      BY <1>1, <2>1, <2>2, <2>3, FreshApplied
    <2> QED  BY <1>2, <2>1, <2>3, <2>4
  <1>6. ASSUME NEW w \in Walk, QueryRejects(w) \/ BadRcode(w) PROVE FreshInv'
    <2>1. \E error \in {"aborted", "resolver"} : Reject(w, error)
      BY <1>6 DEF QueryRejects, BadRcode
    <2>2. UNCHANGED <<now, got, started>>
      BY <1>6 DEF QueryRejects, BadRcode, history
    <2>3. /\ phase'[w] = "rejected" /\ result'[w] # "secure"
          /\ \A v \in Walk \ {w} : phase'[v] = phase[v] /\ result'[v] = result[v]
      BY <1>1, <2>1 DEF Reject, Settle, TypeOK
    <2>4. FreshWalk(w)'
      BY <1>1, <2>2, <2>3, FreshMoved
    <2> QED  BY <1>2, <2>2, <2>3, <2>4
  <1>7. ASSUME NEW w \in Walk, Check(w) PROVE FreshInv'
    <2> DEFINE n == Len(got[w])
               a == got[w][n]
               verified == a.empty \/ (handler_of(a, RegistryOf[w]) # None /\ fresh(a))
    <2>1. /\ phase[w] = "loaded" /\ UNCHANGED <<now, got, started>>
          /\ \/ Reject(w, "handler")
             \/ /\ verified /\ phase' = [phase EXCEPT ![w] = "walking"] /\ UNCHANGED result
             \/ Settle(w, "resolved", IF verified THEN "secure" ELSE "bogus")
      BY <1>7 DEF Check, HandlerThrows
    <2>2. \A v \in Walk \ {w} : phase'[v] = phase[v] /\ result'[v] = result[v]
      <3> HIDE DEF verified
      <3> QED  BY <1>1, <2>1 DEF Reject, Settle, TypeOK
    <2>3. got[w] \in Seq(Answer) /\ got[w] # <<>> /\ started[w] \in Nat
      BY <1>1, <2>1 DEF TypeInv, TypeOK, Progress
    <2>4. n \in Nat \ {0} /\ a \in Answer
      BY <2>3, EmptySeq, ElementOfSeq
    <2>5. verified => Good(w, n)
      BY <1>1, <2>3, <2>4, BoundAssumption DEF fresh, Good, FreshWalk, Answer
    <2> HIDE DEF verified, a
    <2>6. FreshWalk(w)'
      <3>1. CASE Reject(w, "handler")
        <4>1. phase'[w] = "rejected" /\ result'[w] # "secure"
          BY <1>1, <3>1 DEF Reject, Settle, TypeOK
        <4> QED  BY <1>1, <2>1, <4>1, FreshMoved
      <3>2. CASE verified /\ phase' = [phase EXCEPT ![w] = "walking"] /\ UNCHANGED result
        <4>1. \A i \in 1 .. n : Good(w, i)
          BY <1>1, <2>1, <2>4, <2>5, <3>2 DEF FreshWalk
        <4>2. result[w] # "secure"
          BY <1>1, <2>1 DEF FreshWalk
        <4> QED  BY <1>1, <2>1, <3>2, <4>1, <4>2 DEF FreshWalk, Good
      <3>3. CASE Settle(w, "resolved", IF verified THEN "secure" ELSE "bogus")
        <4>1. phase'[w] = "resolved" /\ result'[w] = IF verified THEN "secure" ELSE "bogus"
          BY <1>1, <3>3 DEF Settle, TypeOK
        <4>2. verified => \A i \in 1 .. n : Good(w, i)
          BY <1>1, <2>1, <2>4, <2>5 DEF FreshWalk
        <4> QED  BY <1>1, <2>1, <4>1, <4>2 DEF FreshWalk, Good
      <3> QED  BY <2>1, <3>1, <3>2, <3>3
    <2> QED  BY <1>2, <2>1, <2>2, <2>6
  <1>8. CASE UNCHANGED <<got, phase, result, started>> /\ now <= now' /\ now' \in Nat
    BY <1>1, <1>8, FreshKept DEF FreshInv
  <1>9. ASSUME NEW w \in Walk, Abort(w) PROVE FreshInv'
    BY <1>1, <1>8, <1>9 DEF Abort, history
  <1>10. ASSUME NEW r \in Registry, NEW f \in 0 .. MaxFactory, register(r, f) PROVE FreshInv'
    BY <1>1, <1>8, <1>10 DEF register, history
  <1>11. Tick \/ UNCHANGED vars => FreshInv'
    BY <1>1, <1>8 DEF Tick, vars, history
  <1> QED
    BY <1>3, <1>4, <1>5, <1>6, <1>7, <1>9, <1>10, <1>11 DEF Next, Continue, Respond

\* A Secure verdict rests on signatures that were good at some time during the
\* call, though cached answers never expire.
THEOREM FreshProved == Spec => []SecureIsFresh
  <1>1. Init => FreshInv
    <2>1. ASSUME Init, NEW w \in Walk PROVE FreshWalk(w)
      <3>1. 1 .. Len(got[w]) = {} /\ result[w] # "secure" /\ started[w] = 0 /\ now = 0
        BY <2>1, NoneAssumption DEF Init
      <3> QED  BY <3>1 DEF FreshWalk
    <2> QED  BY <2>1 DEF FreshInv
  <1>2. FreshInv => SecureIsFresh
    BY DEF FreshInv, FreshWalk, Good, SecureIsFresh
  <1> QED  BY <1>1, <1>2, InvProved, NextFresh, PTL DEF Spec

-----------------------------------------------------------------------------
(* Handlers *)

\* Only a check hands out a handler, and it is one of the asking verifier's
\* registry.
LEMMA NextApart == IInv /\ HandlersStayApart /\ [Next]_vars => HandlersStayApart'
  <1> SUFFICES ASSUME IInv, HandlersStayApart, [Next]_vars PROVE HandlersStayApart'
    OBVIOUS
  <1>1. CASE UNCHANGED last
    BY <1>1 DEF HandlersStayApart
  <1>2. ASSUME NEW w \in Walk, Check(w) PROVE HandlersStayApart'
    <2> DEFINE a == got[w][Len(got[w])]
    <2>1. phase[w] = "loaded" /\ (UNCHANGED last \/ get_handler(a, RegistryOf[w]))
      BY <1>2 DEF Check
    <2>2. got[w] \in Seq(Answer) /\ got[w] # <<>> /\ TypeOK
      BY <2>1 DEF IInv, TypeInv, TypeOK, Progress
    <2>3. Len(got[w]) \in 1 .. Len(got[w])
      BY <2>2, EmptySeq
    <2>4. a \in given /\ RegistryOf[w] \in Registry
      BY <2>3, RegistryAssumption DEF IInv, AnswersTheLookup
    <2> HIDE DEF a
    <2>5. CASE get_handler(a, RegistryOf[w])
      BY <2>2, <2>4, <2>5, HandlerTyped DEF get_handler, HandlersStayApart
    <2> QED  BY <1>1, <2>1, <2>5
  <1>3. (\E w \in Walk : Check(w)) \/ UNCHANGED last
    BY DEF Next, Continue, Respond, Call, Lookup, Answered, QueryRejects, BadRcode, Abort,
           register, Tick, history, vars
  <1> QED  BY <1>1, <1>2, <1>3

\* Verifiers that share a cache share its records, never a handler.
THEOREM HandlersApart == Spec => []HandlersStayApart
  <1>1. Init => HandlersStayApart
    BY DEF Init, HandlersStayApart
  <1> QED  BY <1>1, InvProved, NextApart, PTL DEF Spec

-----------------------------------------------------------------------------
(* Step events *)

\* A walk the step leaves alone.
LEMMA LogKept ==
    ASSUME NEW w \in Walk, LogTells(w), log'[w] = log[w], got'[w] = got[w],
           phase'[w] = phase[w], result'[w] = result[w]
    PROVE  LogTells(w)'
  BY DEF LogTells, Told, IsLookup, KeyOf

\* The query that is out is the lookup behind those answered.
LEMMA QueryIsLookup ==
    ASSUME TypeInv, NEW w \in Walk, phase[w] \in {"walking", "asking"},
           NEW kind \in {"Query", "CacheHit"}
    PROVE  IsLookup(w, At(kind, KeyOf(w)), Len(got[w]) + 1)
  <1>1. KeyOf(w) = Plan[w][Len(got[w]) + 1] /\ At(kind, KeyOf(w)).kind = kind
        /\ At(kind, KeyOf(w)).key = KeyOf(w)
    BY KeyTyped DEF At
  <1>2. Len(got[w]) < Len(Plan[w]) /\ Len(got[w]) \in Nat /\ Len(Plan[w]) \in Nat
    BY PlanAssumption DEF TypeInv, TypeOK, Progress
  <1> QED  BY <1>1, <1>2 DEF IsLookup

\* A call that rejects without a word: before it started, at the abort check, or
\* with the query it waits for.
LEMMA LogRejects ==
    ASSUME TypeInv, NEW w \in Walk, LogTells(w), phase[w] \in {"idle", "walking", "asking"},
           log'[w] = log[w], got'[w] = got[w], phase'[w] = "rejected"
    PROVE  LogTells(w)'
  <1> DEFINE n == Len(got[w])
             more == Len(log[w]) - 2 * n
  <1>1. n \in Nat /\ Len(log[w]) \in Nat
    BY DEF TypeInv, TypeOK
  <1>2. \A i \in 1 .. n : IsLookup(w, log[w][2 * i - 1], i) /\ log[w][2 * i].kind = "Checked"
    BY DEF LogTells, Told
  <1>3. more \in {0, 1} /\ (more = 1 => IsLookup(w, log[w][2 * n + 1], n + 1))
    BY <1>1, QueryIsLookup DEF LogTells, Told
  <1> QED  BY <1>1, <1>2, <1>3 DEF LogTells, Told, IsLookup

\* One event behind those received so far.
LEMMA LogLonger ==
    ASSUME TypeOK, NEW w \in Walk, NEW e \in Event, log' = [log EXCEPT ![w] = Append(@, e)]
    PROVE  /\ Len(log'[w]) = Len(log[w]) + 1 /\ Len(log[w]) \in Nat
           /\ log'[w][Len(log[w]) + 1] = e
           /\ \A i \in 1 .. Len(log[w]) : log'[w][i] = log[w][i]
           /\ \A v \in Walk \ {w} : log'[v] = log[v]
  <1>1. log \in [Walk -> Seq(Event)] /\ log[w] \in Seq(Event)
    BY DEF TypeOK
  <1>2. log'[w] = Append(log[w], e) /\ \A v \in Walk \ {w} : log'[v] = log[v]
    BY <1>1
  <1> QED  BY <1>1, <1>2, AppendProperties, LenProperties

\* A walk that was told of its next lookup: it waits for the query, or works with
\* the cached answer, or its handler threw.
LEMMA LogLooksUp ==
    ASSUME TypeInv, NEW w \in Walk, LogTells(w), phase[w] = "walking",
           NEW kind \in {"Query", "CacheHit"},
           log' = [log EXCEPT ![w] = Append(@, At(kind, KeyOf(w)))],
           \/ got'[w] = got[w] /\ phase'[w] = "rejected"
           \/ got'[w] = got[w] /\ phase'[w] = "asking" /\ kind = "Query"
           \/ phase'[w] = "loaded" /\ \E a \in Answer : got'[w] = Append(got[w], a)
    PROVE  LogTells(w)'
  <1> DEFINE n == Len(got[w])
             e == At(kind, KeyOf(w))
  <1>1. n \in Nat /\ Len(log[w]) = 2 * n /\ TypeOK /\ got[w] \in Seq(Answer)
    <2>1. Len(log[w]) \in Nat /\ got[w] \in Seq(Answer) /\ n \in Nat
      BY DEF TypeInv, TypeOK
    <2>2. Len(log[w]) - 2 * n = 0
      BY DEF LogTells, Told
    <2> QED  BY <2>1, <2>2 DEF TypeInv
  <1>2. \A i \in 1 .. n : IsLookup(w, log[w][2 * i - 1], i) /\ log[w][2 * i].kind = "Checked"
    BY DEF LogTells, Told
  <1>3. IsLookup(w, e, n + 1) /\ e \in Event
    <2>1. KeyOf(w) \in Key
      BY KeyTyped
    <2> QED  BY <2>1, QueryIsLookup DEF At, Event, StepKind
  <1> HIDE DEF e
  <1>4. /\ Len(log'[w]) = 2 * n + 1 /\ log'[w][2 * n + 1] = e
        /\ \A i \in 1 .. 2 * n : log'[w][i] = log[w][i]
    <2>1. log' = [log EXCEPT ![w] = Append(@, e)]
      BY DEF e
    <2>2. /\ Len(log'[w]) = Len(log[w]) + 1 /\ log'[w][Len(log[w]) + 1] = e
          /\ \A i \in 1 .. Len(log[w]) : log'[w][i] = log[w][i]
      BY ONLY <1>1, <1>3, <2>1, LogLonger, w \in Walk
    <2> QED  BY ONLY <1>1, <2>2
  <1>5. \A i \in 1 .. n : IsLookup(w, log'[w][2 * i - 1], i) /\ log'[w][2 * i].kind = "Checked"
    <2> HIDE DEF n
    <2> TAKE i \in 1 .. n
    <2>1. 2 * i - 1 \in 1 .. 2 * n /\ 2 * i \in 1 .. 2 * n
      BY <1>1
    <2>2. log'[w][2 * i - 1] = log[w][2 * i - 1] /\ log'[w][2 * i] = log[w][2 * i]
      BY <1>4, <2>1
    <2> QED  BY <1>2, <2>2
  <1>6. CASE got'[w] = got[w] /\ phase'[w] = "rejected"
    <2>1. Len(got'[w]) = n /\ Len(log'[w]) - 2 * n = 1
      BY <1>1, <1>4, <1>6
    <2>2. IsLookup(w, log'[w][2 * n + 1], n + 1)
      BY <1>3, <1>4
    <2> HIDE DEF n
    <2>3. PICK c : c = n
      OBVIOUS
    <2>4. Told(w, c, 1)'
      BY ONLY <1>5, <1>6, <2>2, <2>3 DEF Told
    <2> QED  BY ONLY <2>1, <2>3, <2>4 DEF LogTells
  <1>7. CASE got'[w] = got[w] /\ phase'[w] = "asking" /\ kind = "Query"
    <2>1. KeyOf(w)' = KeyOf(w)
      BY <1>7 DEF KeyOf
    <2>2. Len(got'[w]) = n /\ Len(log'[w]) - 2 * n = 1
      BY <1>1, <1>4, <1>7
    <2>3. log'[w][2 * n + 1] = At("Query", KeyOf(w)')
      BY <1>4, <1>7, <2>1 DEF e
    <2> HIDE DEF n
    <2>4. PICK c : c = n
      OBVIOUS
    <2>5. Told(w, c, 1)'
      BY ONLY <1>5, <1>7, <2>3, <2>4 DEF Told
    <2> QED  BY ONLY <2>2, <2>4, <2>5 DEF LogTells
  <1>8. CASE phase'[w] = "loaded" /\ \E a \in Answer : got'[w] = Append(got[w], a)
    <2>1. Len(got'[w]) = n + 1 /\ n \in Nat
      BY <1>1, <1>8, AppendProperties
    <2> HIDE DEF n
    <2>2. \A i \in 1 .. n + 1 :
            /\ IsLookup(w, log'[w][2 * i - 1], i)
            /\ i < n + 1 => log'[w][2 * i].kind = "Checked"
      <3>1. ASSUME NEW i \in 1 .. n + 1 PROVE i \in 1 .. n \/ (i = n + 1 /\ 2 * i - 1 = 2 * n + 1)
        BY ONLY <2>1, <3>1
      <3>2. ASSUME NEW i \in 1 .. n + 1
            PROVE  /\ IsLookup(w, log'[w][2 * i - 1], i)
                   /\ i < n + 1 => log'[w][2 * i].kind = "Checked"
        <4>1. CASE i \in 1 .. n
          BY <1>5, <4>1
        <4>2. CASE i = n + 1 /\ 2 * i - 1 = 2 * n + 1
          BY <1>1, <1>3, <1>4, <4>2
        <4> QED  BY <3>1, <4>1, <4>2
      <3> QED  BY <3>2
    <2>3. Len(log'[w]) - 2 * (n + 1) + 1 = 0
      BY ONLY <1>4, <2>1
    <2>4. PICK c, more : c = n + 1 /\ more = Len(log'[w]) - 2 * (n + 1)
      OBVIOUS
    <2>5. /\ more + 1 = 0
          /\ \A i \in 1 .. c :
                /\ IsLookup(w, log'[w][2 * i - 1], i)
                /\ (i < c => log'[w][2 * i].kind = "Checked")
      BY ONLY <2>2, <2>3, <2>4
    <2>6. phase'[w] = "loaded"
      BY ONLY <1>8
    <2>7. Told(w, c, more)'
      <3> DEFINE lookups == \A i \in 1 .. c :
                    /\ IsLookup(w, log'[w][2 * i - 1], i)
                    /\ (i < c => log'[w][2 * i].kind = "Checked")
      <3>1. lookups /\ more + 1 = 0
        BY <2>5
      <3>2. lookups => \A i \in 1 .. c :
                /\ IsLookup(w, log'[w][2 * i - 1], i)
                /\ (i < c \/ phase'[w] # "loaded") => log'[w][2 * i].kind = "Checked"
        BY ONLY <2>6
      <3> HIDE DEF lookups
      <3> QED  BY ONLY <2>6, <3>1, <3>2, Zenon DEF Told
    <2> QED  BY ONLY <2>1, <2>4, <2>7 DEF LogTells
  <1> QED  BY <1>6, <1>7, <1>8

\* The answer to the query that was out.
LEMMA LogAnswered ==
    ASSUME TypeInv, NEW w \in Walk, LogTells(w), phase[w] = "asking", log'[w] = log[w],
           phase'[w] = "loaded", NEW a \in Answer, got'[w] = Append(got[w], a)
    PROVE  LogTells(w)'
  <1> DEFINE n == Len(got[w])
  <1>1. n \in Nat /\ Len(got'[w]) = n + 1
    BY AppendProperties, LenProperties DEF TypeInv, TypeOK
  <1>2. \A i \in 1 .. n : IsLookup(w, log[w][2 * i - 1], i) /\ log[w][2 * i].kind = "Checked"
    BY DEF LogTells, Told
  <1>3. Len(log[w]) - 2 * n = 1 /\ IsLookup(w, log[w][2 * n + 1], n + 1)
    BY QueryIsLookup DEF LogTells, Told
  <1>4. \A i \in 1 .. n + 1 :
            /\ IsLookup(w, log[w][2 * i - 1], i)
            /\ i < n + 1 => log[w][2 * i].kind = "Checked"
    <2> SUFFICES ASSUME NEW i \in 1 .. n + 1
                 PROVE  /\ IsLookup(w, log[w][2 * i - 1], i)
                        /\ i < n + 1 => log[w][2 * i].kind = "Checked"
      OBVIOUS
    <2>1. i \in 1 .. n \/ (i = n + 1 /\ 2 * i - 1 = 2 * n + 1 /\ ~(i < n + 1))
      BY <1>1
    <2> HIDE DEF n
    <2>2. CASE i \in 1 .. n
      BY <1>2, <2>2
    <2>3. CASE i = n + 1 /\ 2 * i - 1 = 2 * n + 1 /\ ~(i < n + 1)
      BY <1>3, <2>3
    <2> QED  BY <2>1, <2>2, <2>3
  <1>5. Len(log[w]) - 2 * (n + 1) + 1 = 0
    <2>1. Len(log[w]) \in Nat
      BY DEF TypeInv, TypeOK
    <2>2. Len(log[w]) - 2 * n = 1 /\ n \in Nat
      BY <1>1, <1>3
    <2> HIDE DEF n
    <2> QED  BY ONLY <2>1, <2>2
  <1>6. /\ log'[w] = log[w] /\ phase'[w] = "loaded" /\ Len(got'[w]) = n + 1
        /\ Len(log'[w]) - 2 * (n + 1) + 1 = 0
    BY <1>1, <1>5
  <1> HIDE DEF n
  <1>7. PICK c, m : c = n + 1 /\ m = Len(log'[w]) - 2 * (n + 1)
    OBVIOUS
  <1>8. Told(w, c, m)'
    <2> DEFINE lookups == \A i \in 1 .. c :
                  /\ IsLookup(w, log'[w][2 * i - 1], i)
                  /\ (i < c => log'[w][2 * i].kind = "Checked")
    <2>1. lookups
      BY ONLY <1>4, <1>6, <1>7
    <2>2. m + 1 = 0 /\ phase'[w] = "loaded"
      BY ONLY <1>6, <1>7
    <2>3. lookups => \A i \in 1 .. c :
              /\ IsLookup(w, log'[w][2 * i - 1], i)
              /\ (i < c \/ phase'[w] # "loaded") => log'[w][2 * i].kind = "Checked"
      BY ONLY <2>2
    <2> HIDE DEF lookups
    <2> QED  BY ONLY <2>1, <2>2, <2>3, Zenon DEF Told
  <1> QED  BY ONLY <1>6, <1>7, <1>8 DEF LogTells

\* What the handler hears of a check, and what becomes of the call: nothing but
\* Checked when it goes on, the verdict when it resolves, a beginning of one of
\* these when the handler throws.
LEMMA CheckSaid ==
    ASSUME TypeOK, NEW w \in Walk, Check(w)
    PROVE  \E ms \in Seq(Event) :
             /\ log' = [log EXCEPT ![w] = @ \o ms] /\ Len(ms) >= 1 /\ ms[1].kind = "Checked"
             /\ (Len(ms) >= 3 => ms[2].kind = "Bogus" /\ ms[3].kind = "Answer")
             /\ \/ phase'[w] = "walking" /\ Len(ms) = 1
                \/ /\ phase'[w] = "resolved" /\ result'[w] = "secure"
                   /\ Len(ms) = 2 /\ ms[2].kind = "Answer"
                \/ phase'[w] = "resolved" /\ result'[w] = "bogus" /\ Len(ms) = 3
                \/ /\ phase'[w] = "rejected" /\ Len(ms) <= 3
                   /\ (Len(ms) = 2 => ms[2].kind \in {"Bogus", "Answer"})
  <1> DEFINE a == got[w][Len(got[w])]
             verified == a.empty \/ (handler_of(a, RegistryOf[w]) # None /\ fresh(a))
             done == Len(got[w]) = Len(Plan[w])
             one == <<At("Checked", None)>>
             rest == IF ~verified THEN <<At("Bogus", None), At("Answer", None)>>
                     ELSE IF done THEN <<At("Answer", None)>> ELSE <<>>
             events == one \o rest
  <1>1. \/ /\ emit(w, events)
           /\ IF verified /\ ~done
              THEN phase' = [phase EXCEPT ![w] = "walking"] /\ UNCHANGED result
              ELSE Settle(w, "resolved", IF verified THEN "secure" ELSE "bogus")
        \/ HandlerThrows(w, events)
    BY DEF Check
  <1>2. /\ At("Checked", None) \in Event /\ At("Bogus", None) \in Event /\ At("Answer", None) \in Event
        /\ At("Checked", None).kind = "Checked" /\ At("Bogus", None).kind = "Bogus"
        /\ At("Answer", None).kind = "Answer"
    BY DEF At, Event, StepKind
  <1>3. one \in Seq(Event) /\ Len(one) = 1 /\ one[1].kind = "Checked"
    BY <1>2
  <1>4. /\ rest \in Seq(Event) /\ Len(rest) \in 0 .. 2
        /\ Len(rest) = 1 => rest[1].kind = "Answer" /\ verified
        /\ Len(rest) = 2 => rest[1].kind = "Bogus" /\ rest[2].kind = "Answer" /\ ~verified
        /\ Len(rest) = 0 => verified /\ ~done
        /\ Len(rest) > 0 => ~(verified /\ ~done)
    <2> HIDE DEF verified, done
    <2>1. CASE ~verified
      <3>1. rest = <<At("Bogus", None), At("Answer", None)>>
        BY <2>1
      <3> QED  BY <1>2, <2>1, <3>1
    <2>2. CASE verified /\ done
      <3>1. rest = <<At("Answer", None)>>
        BY <2>2
      <3> QED  BY <1>2, <2>2, <3>1
    <2>3. CASE verified /\ ~done
      <3>1. rest = <<>>
        BY <2>3
      <3> QED  BY <2>3, <3>1
    <2> QED  BY <2>1, <2>2, <2>3
  <1> HIDE DEF one, rest, verified, done
  <1>5. /\ events \in Seq(Event) /\ Len(events) = 1 + Len(rest)
        /\ events[1].kind = "Checked"
        /\ \A i \in 1 .. Len(rest) : events[1 + i] = rest[i]
    <2>1. /\ events \in Seq(Event) /\ Len(events) = Len(one) + Len(rest)
          /\ \A i \in 1 .. Len(one) + Len(rest) :
                events[i] = IF i <= Len(one) THEN one[i] ELSE rest[i - Len(one)]
      BY <1>3, <1>4, ConcatProperties
    <2> HIDE DEF events
    <2>2. Len(rest) \in Nat
      BY <1>4
    <2>3. events[1].kind = "Checked"
      BY <1>3, <2>1, <2>2
    <2>4. ASSUME NEW i \in 1 .. Len(rest) PROVE events[1 + i] = rest[i]
      <3>1. 1 + i \in 1 .. 1 + Len(rest) /\ ~(1 + i <= 1) /\ (1 + i) - 1 = i
        BY <2>2
      <3> QED  BY <1>3, <2>1, <3>1
    <2> QED  BY <1>3, <2>1, <2>3, <2>4
  <1> HIDE DEF events
  <1>6. CASE emit(w, events) /\ ~HandlerThrows(w, events)
    <2>1. log' = [log EXCEPT ![w] = @ \o events]
      BY <1>6 DEF emit
    <2>2. \/ verified /\ ~done /\ phase'[w] = "walking"
          \/ verified /\ done /\ phase'[w] = "resolved" /\ result'[w] = "secure"
          \/ ~verified /\ phase'[w] = "resolved" /\ result'[w] = "bogus"
      BY <1>1, <1>6 DEF Settle, TypeOK
    <2>3. Len(rest) = 2 => events[2] = rest[1] /\ events[3] = rest[2]
      BY <1>5
    <2>4. Len(rest) = 1 => events[2] = rest[1]
      BY <1>5
    <2>5. /\ Len(events) >= 1
          /\ Len(events) >= 3 => events[2].kind = "Bogus" /\ events[3].kind = "Answer"
      BY <1>4, <1>5, <2>3
    <2>6. \/ phase'[w] = "walking" /\ Len(events) = 1
          \/ /\ phase'[w] = "resolved" /\ result'[w] = "secure"
             /\ Len(events) = 2 /\ events[2].kind = "Answer"
          \/ phase'[w] = "resolved" /\ result'[w] = "bogus" /\ Len(events) = 3
      BY <1>4, <1>5, <2>2, <2>4
    <2> events \in Seq(Event)
      BY <1>5
    <2> WITNESS events \in Seq(Event)
    <2> QED  BY <1>5, <2>1, <2>5, <2>6
  <1>7. CASE HandlerThrows(w, events)
    <2>1. events # <<>>
      BY <1>4, <1>5
    <2>2. PICK k \in 1 .. Len(events) : log' = [log EXCEPT ![w] = @ \o SubSeq(events, 1, k)]
      BY <1>5, <1>7, <2>1, Sent
    <2> DEFINE ms == SubSeq(events, 1, k)
    <2>3. /\ ms \in Seq(Event) /\ Len(ms) = k /\ \A i \in 1 .. k : ms[i] = events[i]
      <3>1. \A i \in 1 .. k : events[i] \in Event
        BY <1>4, <1>5, <2>2, ElementOfSeq
      <3>2. k \in Nat /\ k >= 1 /\ k <= 3
        <4>1. k \in 1 .. Len(events) /\ Len(events) \in Nat
          BY <1>5, <2>2
        <4>2. Len(events) = 1 + Len(rest) /\ Len(rest) \in 0 .. 2
          BY <1>4, <1>5
        <4> DEFINE l == Len(events)
                   r == Len(rest)
        <4>3. k \in 1 .. l /\ l = 1 + r /\ r \in 0 .. 2
          BY <4>1, <4>2
        <4> HIDE DEF l, r
        <4> QED  BY ONLY <4>3
      <3> QED  BY <3>1, <3>2, SubSeqProperties
    <2>4. phase'[w] = "rejected"
      BY <1>7 DEF HandlerThrows, Reject, Settle, TypeOK
    <2>5. k \in 1 .. 3 /\ k <= 1 + Len(rest)
      BY <1>4, <1>5, <2>2
    <2> HIDE DEF ms
    <2>6. k >= 3 => ms[2].kind = "Bogus" /\ ms[3].kind = "Answer"
      <3>1. ASSUME k >= 3 PROVE Len(rest) = 2 /\ ms[2] = rest[1] /\ ms[3] = rest[2]
        BY <1>4, <1>5, <2>3, <2>5, <3>1
      <3> QED  BY <1>4, <3>1
    <2>7. k = 2 => ms[2].kind \in {"Bogus", "Answer"}
      <3>1. ASSUME k = 2 PROVE Len(rest) \in {1, 2} /\ ms[2] = rest[1]
        BY <1>4, <1>5, <2>3, <2>5, <3>1
      <3> QED  BY <1>4, <3>1
    <2>8. ms[1].kind = "Checked"
      BY <1>5, <2>3, <2>5
    <2>9. log' = [log EXCEPT ![w] = @ \o ms]
      BY <2>2 DEF ms
    <2> ms \in Seq(Event)
      BY <2>3
    <2> WITNESS ms \in Seq(Event)
    <2> QED  BY <2>3, <2>4, <2>5, <2>6, <2>7, <2>8, <2>9
  <1> QED  BY <1>1, <1>6, <1>7

\* The log of a walk whose answers were checked.
LEMMA LogChecked ==
    ASSUME TypeInv, NEW w \in Walk, LogTells(w), Check(w)
    PROVE  LogTells(w)' /\ \A v \in Walk \ {w} : log'[v] = log[v]
  <1> DEFINE n == Len(got[w])
             m == Len(log[w])
  <1>1. TypeOK /\ phase[w] = "loaded" /\ got' = got
    BY DEF TypeInv, Check
  <1>2. n \in Nat /\ m \in Nat /\ m = 2 * n - 1 /\ n >= 1
    <2>1. n \in Nat /\ m \in Nat /\ got[w] # <<>> /\ got[w] \in Seq(Answer)
      BY <1>1 DEF TypeInv, TypeOK, Progress
    <2>2. n >= 1
      BY <2>1, EmptySeq
    <2>3. m - 2 * n + 1 = 0
      BY <1>1 DEF LogTells, Told
    <2> HIDE DEF n, m
    <2> QED  BY <2>1, <2>2, <2>3
  <1>3. \A i \in 1 .. n : /\ IsLookup(w, log[w][2 * i - 1], i)
                          /\ i < n => log[w][2 * i].kind = "Checked"
    BY DEF LogTells, Told
  <1>4. PICK ms \in Seq(Event) :
          /\ log' = [log EXCEPT ![w] = @ \o ms] /\ Len(ms) >= 1 /\ ms[1].kind = "Checked"
          /\ (Len(ms) >= 3 => ms[2].kind = "Bogus" /\ ms[3].kind = "Answer")
          /\ \/ phase'[w] = "walking" /\ Len(ms) = 1
             \/ /\ phase'[w] = "resolved" /\ result'[w] = "secure"
                /\ Len(ms) = 2 /\ ms[2].kind = "Answer"
             \/ phase'[w] = "resolved" /\ result'[w] = "bogus" /\ Len(ms) = 3
             \/ /\ phase'[w] = "rejected" /\ Len(ms) <= 3
                /\ (Len(ms) = 2 => ms[2].kind \in {"Bogus", "Answer"})
    BY <1>1, CheckSaid
  <1>5. log'[w] = log[w] \o ms /\ \A v \in Walk \ {w} : log'[v] = log[v]
    BY <1>1, <1>4 DEF TypeOK
  <1>6. /\ Len(log'[w]) = m + Len(ms) /\ Len(ms) \in Nat
        /\ \A i \in 1 .. m : log'[w][i] = log[w][i]
        /\ \A i \in 1 .. Len(ms) : log'[w][m + i] = ms[i]
    <2>1. log[w] \in Seq(Event) /\ Len(ms) \in Nat
      BY <1>1, LenProperties DEF TypeOK
    <2>2. /\ Len(log[w] \o ms) = m + Len(ms)
          /\ \A i \in 1 .. m + Len(ms) :
                (log[w] \o ms)[i] = IF i <= m THEN log[w][i] ELSE ms[i - m]
      BY <2>1, ConcatProperties
    <2> DEFINE ls == log[w] \o ms
    <2> HIDE DEF ls, m
    <2>3. ASSUME NEW i \in 1 .. m PROVE ls[i] = log[w][i]
      BY <1>2, <2>1, <2>2 DEF ls
    <2>4. ASSUME NEW i \in 1 .. Len(ms) PROVE ls[m + i] = ms[i]
      <3>1. m + i \in 1 .. m + Len(ms) /\ ~(m + i <= m) /\ (m + i) - m = i
        BY <1>2, <2>1
      <3> QED  BY <2>2, <3>1 DEF ls
    <2> QED  BY <1>5, <2>1, <2>2, <2>3, <2>4 DEF ls
  <1> HIDE DEF m, n
  <1>11. /\ Len(ms) \in Nat \ {0} /\ ms[1].kind = "Checked"
         /\ (Len(ms) >= 3 => ms[2].kind = "Bogus" /\ ms[3].kind = "Answer")
    <2>1. Len(ms) >= 1 /\ ms[1].kind = "Checked"
          /\ (Len(ms) >= 3 => ms[2].kind = "Bogus" /\ ms[3].kind = "Answer")
      BY <1>4
    <2>2. Len(ms) \in Nat
      BY <1>6
    <2> QED  BY ONLY <2>1, <2>2
  <1>7. ASSUME NEW i \in 1 .. n
        PROVE  IsLookup(w, log'[w][2 * i - 1], i) /\ log'[w][2 * i].kind = "Checked"
    <2>1. 2 * i - 1 \in 1 .. m /\ (i < n => 2 * i \in 1 .. m) /\ (i = n => 2 * i = m + 1)
      BY <1>2
    <2>2. i < n \/ i = n
      BY <1>2
    <2>3. i = n => log'[w][2 * i] = ms[1]
      <3>1. 1 \in 1 .. Len(ms)
        BY ONLY <1>11
      <3> QED  BY <1>6, <2>1, <3>1
    <2> QED  BY <1>3, <1>11, <1>6, <2>1, <2>2, <2>3
  <1>8. /\ Len(log'[w]) - 2 * n = Len(ms) - 1
        /\ Len(ms) >= 2 => log'[w][2 * n + 1] = ms[2]
        /\ Len(ms) >= 3 => log'[w][2 * n + 2] = ms[3]
    <2>1. 2 * n + 1 = m + 2 /\ 2 * n + 2 = m + 3
      BY <1>2
    <2> QED  BY <1>2, <1>6, <2>1
  <1> DEFINE k == Len(ms)
  <1>9. /\ Len(got'[w]) = n /\ k \in Nat \ {0} /\ Len(log'[w]) - 2 * n = k - 1
        /\ (k >= 2 => log'[w][2 * n + 1] = ms[2])
        /\ (k >= 3 => ms[2].kind = "Bogus")
        /\ (k >= 3 => log'[w][2 * n + 2].kind = "Answer")
    BY <1>1, <1>8, <1>11 DEF n
  <1>10. LogTells(w)'
    <2>1. \/ phase'[w] = "walking" /\ k = 1
          \/ phase'[w] = "resolved" /\ result'[w] = "secure" /\ k = 2 /\ ms[2].kind = "Answer"
          \/ phase'[w] = "resolved" /\ result'[w] = "bogus" /\ k = 3
          \/ phase'[w] = "rejected" /\ k <= 3 /\ (k = 2 => ms[2].kind \in {"Bogus", "Answer"})
      BY <1>4
    <2> HIDE DEF k
    <2>2. CASE phase'[w] = "walking" /\ k = 1
      BY ONLY <1>7, <1>9, <2>2 DEF LogTells, Told
    <2>3. CASE phase'[w] = "resolved" /\ result'[w] = "secure" /\ k = 2 /\ ms[2].kind = "Answer"
      BY ONLY <1>7, <1>9, <2>3 DEF LogTells, Told
    <2>4. CASE phase'[w] = "resolved" /\ result'[w] = "bogus" /\ k = 3
      <3>1. k - 1 = 2 /\ k >= 2 /\ k >= 3
        BY ONLY <2>4
      <3>2. /\ Len(got'[w]) = n /\ Len(log'[w]) - 2 * n = 2
            /\ log'[w][2 * n + 1].kind = "Bogus" /\ log'[w][2 * n + 2].kind = "Answer"
        BY ONLY <1>9, <3>1
      <3> QED  BY ONLY <1>7, <2>4, <3>2 DEF LogTells, Told
    <2>5. CASE phase'[w] = "rejected" /\ k <= 3 /\ (k = 2 => ms[2].kind \in {"Bogus", "Answer"})
      <3> DEFINE more == Len(log'[w]) - 2 * n
      <3>1. /\ Len(got'[w]) = n /\ more \in 0 .. 2
            /\ (more = 1 => log'[w][2 * n + 1].kind \in {"Bogus", "Answer"})
            /\ (more = 2 => /\ log'[w][2 * n + 1].kind = "Bogus"
                            /\ log'[w][2 * n + 2].kind = "Answer")
        <4>0. k \in Nat \ {0} /\ k <= 3 /\ more = k - 1
          BY ONLY <1>9, <2>5
        <4> HIDE DEF more
        <4>1. more = k - 1 /\ more \in 0 .. 2 /\ (more = 1 => k = 2) /\ (more = 2 => k = 3)
          BY ONLY <4>0
        <4>2. more = 1 => log'[w][2 * n + 1].kind \in {"Bogus", "Answer"}
          BY ONLY <1>2, <1>9, <2>5, <4>1
        <4>3. more = 2 => /\ log'[w][2 * n + 1].kind = "Bogus"
                          /\ log'[w][2 * n + 2].kind = "Answer"
          BY ONLY <1>2, <1>9, <2>5, <4>1
        <4> QED  BY ONLY <1>9, <4>1, <4>2, <4>3
      <3> QED  BY ONLY <1>7, <2>5, <3>1 DEF LogTells, Told
    <2> QED  BY <2>1, <2>2, <2>3, <2>4, <2>5
  <1> QED  BY <1>5, <1>10

LEMMA NextTold == IInv /\ LogTellsCall /\ [Next]_vars => LogTellsCall'
  <1> SUFFICES ASSUME IInv, LogTellsCall, [Next]_vars PROVE LogTellsCall'
    OBVIOUS
  <1>1. TypeInv /\ TypeOK /\ \A w \in Walk : LogTells(w)
    BY DEF IInv, TypeInv, LogTellsCall
  <1>2. ASSUME NEW w \in Walk, LogTells(w)',
               \A v \in Walk \ {w} : /\ log'[v] = log[v] /\ got'[v] = got[v]
                                     /\ phase'[v] = phase[v] /\ result'[v] = result[v]
        PROVE  LogTellsCall'
    <2>1. ASSUME NEW v \in Walk PROVE LogTells(v)'
      <3>1. CASE v # w
        <4>1. /\ log'[v] = log[v] /\ got'[v] = got[v]
              /\ phase'[v] = phase[v] /\ result'[v] = result[v]
          BY <1>2, <3>1
        <4> QED  BY <1>1, <4>1, LogKept
      <3> QED  BY <1>2, <3>1
    <2> QED  BY <2>1 DEF LogTellsCall
  <1>3. ASSUME NEW w \in Walk, NEW error, Reject(w, error), UNCHANGED <<got, log>>,
               phase[w] \in {"idle", "walking", "asking"}
        PROVE  LogTellsCall'
    <2>1. /\ phase'[w] = "rejected"
          /\ \A v \in Walk \ {w} : phase'[v] = phase[v] /\ result'[v] = result[v]
      BY <1>1, <1>3 DEF Reject, Settle, TypeOK
    <2>2. LogTells(w)'
      BY <1>1, <1>3, <2>1, LogRejects
    <2> QED  BY <1>2, <1>3, <2>1, <2>2
  <1>4. ASSUME NEW w \in Walk, Call(w) PROVE LogTellsCall'
    <2>1. CASE Reject(w, "aborted")
      BY <1>3, <1>4, <2>1 DEF Call
    <2>2. CASE phase' = [phase EXCEPT ![w] = "walking"] /\ UNCHANGED result
      <3>1. phase[w] = "idle" /\ phase'[w] = "walking" /\ UNCHANGED <<got, log, result>>
        BY <1>1, <1>4, <2>2 DEF Call, TypeOK
      <3>2. LogTells(w)'
        <4>1. got[w] = <<>> /\ Len(got[w]) = 0 /\ 1 .. 0 = {}
          BY <1>1, <3>1 DEF TypeInv, Progress
        <4> QED  BY <1>1, <3>1, <4>1 DEF LogTells, Told
      <3>3. \A v \in Walk \ {w} : phase'[v] = phase[v]
        BY <1>1, <2>2 DEF TypeOK
      <3> QED  BY <1>2, <3>1, <3>2, <3>3
    <2> QED  BY <1>4, <2>1, <2>2 DEF Call
  <1>5. ASSUME NEW w \in Walk, Lookup(w) PROVE LogTellsCall'
    <2> DEFINE k == KeyOf(w)
    <2>1. phase[w] = "walking" /\ UNCHANGED cache /\ k \in Key
      BY <1>1, <1>5, KeyTyped DEF Lookup
    <2>2. At("CacheHit", k) \in Event /\ At("Query", k) \in Event
      BY <2>1 DEF At, Event, StepKind
    <2>3. CASE Reject(w, "aborted") /\ UNCHANGED <<got, log>>
      BY <1>3, <2>1, <2>3
    <2>4. CASE Hit(w)
      <3>1. log' = [log EXCEPT ![w] = Append(@, At("CacheHit", k))]
        BY <1>1, <2>2, <2>4, SentOne DEF Hit
      <3>2. \/ /\ got' = [got EXCEPT ![w] = Append(@, cache[k])] /\ cache[k] \in Answer
               /\ phase' = [phase EXCEPT ![w] = "loaded"] /\ UNCHANGED result
            \/ Reject(w, "handler") /\ UNCHANGED got
        BY <1>1, <2>1, <2>4 DEF Hit, HandlerThrows, IsHit, TypeOK
      <3>3. /\ \/ got'[w] = got[w] /\ phase'[w] = "rejected"
               \/ phase'[w] = "loaded" /\ \E a \in Answer : got'[w] = Append(got[w], a)
            /\ \A v \in Walk \ {w} : /\ got'[v] = got[v]
                                     /\ phase'[v] = phase[v] /\ result'[v] = result[v]
        BY <1>1, <3>2 DEF Reject, Settle, TypeOK
      <3>4. \A v \in Walk \ {w} : log'[v] = log[v]
        BY <1>1, <3>1 DEF TypeOK
      <3>5. LogTells(w)'
        BY <1>1, <2>1, <3>1, <3>3, LogLooksUp
      <3> QED  BY <1>2, <3>3, <3>4, <3>5
    <2>5. CASE Miss(w)
      <3>1. log' = [log EXCEPT ![w] = Append(@, At("Query", k))]
        BY <1>1, <2>2, <2>5, SentOne DEF Miss
      <3>2. /\ UNCHANGED got
            /\ \/ phase' = [phase EXCEPT ![w] = "asking"] /\ UNCHANGED result
               \/ Reject(w, "handler")
        BY <2>5 DEF Miss, HandlerThrows
      <3>3. /\ got'[w] = got[w] /\ phase'[w] \in {"asking", "rejected"}
            /\ \A v \in Walk \ {w} : /\ got'[v] = got[v]
                                     /\ phase'[v] = phase[v] /\ result'[v] = result[v]
        BY <1>1, <3>2 DEF Reject, Settle, TypeOK
      <3>4. \A v \in Walk \ {w} : log'[v] = log[v]
        BY <1>1, <3>1 DEF TypeOK
      <3>5. LogTells(w)'
        BY <1>1, <2>1, <3>1, <3>3, LogLooksUp
      <3> QED  BY <1>2, <3>3, <3>4, <3>5
    <2> QED  BY <1>5, <2>3, <2>4, <2>5 DEF Lookup
  <1>6. ASSUME NEW w \in Walk, Answered(w) PROVE LogTellsCall'
    <2>1. /\ phase[w] = "asking" /\ phase' = [phase EXCEPT ![w] = "loaded"]
          /\ UNCHANGED <<log, result>>
      BY <1>6 DEF Answered
    <2>2. PICK a \in Answer : got' = [got EXCEPT ![w] = Append(@, a)]
      <3>1. PICK empty \in BOOLEAN :
              LET a == [key |-> KeyOf(w), by |-> w, nth |-> Len(got[w]) + 1,
                        signed |-> now, empty |-> empty]
              IN got' = [got EXCEPT ![w] = Append(@, a)]
        BY <1>6 DEF Answered
      <3> DEFINE a == [key |-> KeyOf(w), by |-> w, nth |-> Len(got[w]) + 1,
                       signed |-> now, empty |-> empty]
      <3>2. got[w] \in Seq(Answer) /\ now \in Nat
        BY <1>1 DEF TypeOK
      <3>3. a \in Answer
        BY <1>1, <2>1, <3>2, KeyTyped, LenProperties DEF Answer
      <3>4. got' = [got EXCEPT ![w] = Append(@, a)]
        BY <3>1
      <3> HIDE DEF a
      <3> QED  BY <3>3, <3>4
    <2>3. /\ got'[w] = Append(got[w], a) /\ phase'[w] = "loaded"
          /\ \A v \in Walk \ {w} : got'[v] = got[v] /\ phase'[v] = phase[v]
      BY <1>1, <2>1, <2>2 DEF TypeOK
    <2>4. LogTells(w)'
      BY <1>1, <2>1, <2>2, <2>3, LogAnswered
    <2> QED  BY <1>2, <2>1, <2>3, <2>4
  <1>7. ASSUME NEW w \in Walk, QueryRejects(w) \/ BadRcode(w) PROVE LogTellsCall'
    <2>1. \E error : Reject(w, error) /\ UNCHANGED <<got, log>> /\ phase[w] = "asking"
      BY <1>7 DEF QueryRejects, BadRcode
    <2> QED  BY <1>3, <2>1
  <1>8. ASSUME NEW w \in Walk, Check(w) PROVE LogTellsCall'
    <2>1. LogTells(w)' /\ \A v \in Walk \ {w} : log'[v] = log[v]
      BY <1>1, <1>8, LogChecked
    <2>2. UNCHANGED got /\ \E how, what : Settle(w, how, what) \/
            (phase' = [phase EXCEPT ![w] = how] /\ UNCHANGED result)
      BY <1>8 DEF Check, HandlerThrows, Reject
    <2>3. \A v \in Walk \ {w} : phase'[v] = phase[v] /\ result'[v] = result[v]
      BY <1>1, <2>2 DEF Settle, TypeOK
    <2> QED  BY <1>2, <2>1, <2>2, <2>3
  <1>9. CASE UNCHANGED <<log, got, phase, result>>
    BY <1>1, <1>9, LogKept DEF LogTellsCall
  <1>10. ASSUME NEW w \in Walk, Abort(w) PROVE LogTellsCall'
    BY <1>9, <1>10 DEF Abort
  <1>11. ASSUME NEW r \in Registry, NEW f \in 0 .. MaxFactory, register(r, f) PROVE LogTellsCall'
    BY <1>9, <1>11 DEF register
  <1>12. Tick \/ UNCHANGED vars => LogTellsCall'
    BY <1>9 DEF Tick, vars
  <1> QED
    BY <1>4, <1>5, <1>6, <1>7, <1>8, <1>10, <1>11, <1>12 DEF Next, Continue, Respond

\* The step events tell the call, whatever the cache holds and wherever the
\* handler throws.
THEOREM LogProved == Spec => []LogTellsCall
  <1>1. Init => LogTellsCall
    <2>1. ASSUME Init, NEW w \in Walk PROVE LogTells(w)
      <3>1. Len(got[w]) = 0 /\ Len(log[w]) = 0 /\ phase[w] = "idle" /\ 1 .. 0 = {}
        BY <2>1 DEF Init
      <3> QED  BY <3>1 DEF LogTells, Told
    <2> QED  BY <2>1 DEF LogTellsCall
  <1> QED  BY <1>1, InvProved, NextTold, PTL DEF Spec
=============================================================================
