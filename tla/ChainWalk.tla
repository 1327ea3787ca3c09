----------------------------- MODULE ChainWalk ------------------------------
(***************************************************************************)
(* One call of Verifier.validate: the walk from the root zone down to      *)
(* (qname, QType), hop by hop along CNAME and DNAME redirects, as a state  *)
(* machine.  JavaScript runs from one awaited resolver answer to the next  *)
(* query without interruption, so a step is that whole run: an answer      *)
(* arrives, everything the code does with it is done, and either the next  *)
(* query is out or the call has settled.  Between two steps the caller may *)
(* abort.  No cache is attached (chain.ts consults one only if it is).     *)
(***************************************************************************)
EXTENDS RRSetCheck

CONSTANTS
    QType,           \* the type asked for
    QNames,          \* the names a caller asks for
    Anchors,         \* keys the configured trust anchors match
    MaxAliasHops,    \* MAX_ALIAS_HOPS
    OddTag(_),       \* the key tag and algorithm such a DS names
    Target(_),       \* the name a CNAME or DNAME RDATA points to
    Denies(_,_),     \* the claims <<kind, name>> an NSEC makes at an owner
    EncloserOf(_,_,_), \* labels of the closest encloser an NSEC (owner, RDATA)
                       \* gives for a name, or None
    Answer(_,_)      \* the responses a resolver may give to (name, type)

ASSUME AnchorAssumption == Anchors \subseteq KeysOf(Root)
ASSUME HopAssumption == MaxAliasHops \in Nat
ASSUME QTypeAssumption == QType \in RRType
ASSUME QNamesAssumption == QNames \subseteq Name
ASSUME TargetAssumption == \A d \in Data : Target(d) \in Name

CONSTANT None        \* a field that is not set

ASSUME NoneAssumption == None \notin Nat \cup ReasonCode

VARIABLES
    state,     \* "idle", "walking", "resolved" or "rejected"
    aborted,   \* the caller's AbortSignal has fired
    asked,     \* the name the caller gave validate()
    qname,     \* the name of the current hop
    seen,      \* the names of all hops so far
    aliases,   \* result.aliases; its length is the hop counter
    combined,  \* the verdict combined over the hops so far
    step,      \* the query in flight: "root", "ds", "dnskey" or "leaf"
    depth,     \* labels of the child name the descent is at
    zone,      \* currentZone
    chain,     \* result.chain
    result     \* what the promise settled with

vars == <<state, aborted, asked, qname, seen, aliases, combined, step, depth, zone, chain, result>>
walk == <<asked, qname, seen, aliases, combined, step, depth, zone, chain>>

Step == {"root", "ds", "dnskey", "leaf"}

\* What validate() rejects with; "foreign" is an error that is not a
\* VerifierError.
Rejection == {"invalid-qname", "chain-timeout", "resolver", "unsupported-algo",
              "verifier", "foreign"}

ChildName == Ancestor(qname, depth)

NoZone == [name |-> Root, rrs |-> {}, sigs |-> {}, trusted |-> {}]

-----------------------------------------------------------------------------
(* Settling *)

Pending == [verdict |-> "indeterminate", code |-> None, at |-> None,
            answer |-> {}, encloser |-> None, proof |-> {}, error |-> None]

Outcome(verdict, code, at) ==
    [Pending EXCEPT !.verdict = verdict, !.code = code, !.at = at]

Bogus(at, code) == Outcome("bogus", code, at)

\* combine_verdicts over the hops; the first hop's verdict stands alone.
CombinedWith(verdict) ==
    IF combined = None THEN verdict ELSE combine_verdicts(combined, verdict)

Resolve(outcome) == state' = "resolved" /\ result' = outcome

\* apply_outcome: the combined verdict, with the answer only if Secure.
ResolveHop(outcome) ==
    LET verdict == CombinedWith(outcome.verdict)
    IN Resolve([outcome EXCEPT
                    !.verdict = verdict,
                    !.answer = IF verdict = "secure" THEN outcome.answer ELSE {}])

Reject(error) == state' = "rejected" /\ result' = [Pending EXCEPT !.error = error]

\* Mutant: no check_aborted before a query.
Ask_Unchecked(s, d) == step' = s /\ depth' = d /\ UNCHANGED <<state, result>>

\* check_aborted, then the next query.  An aborted walk rejects instead of
\* asking.
Ask(s, d) ==
    IF aborted
    THEN Reject("chain-timeout") /\ UNCHANGED <<step, depth>>
    ELSE step' = s /\ depth' = d /\ UNCHANGED <<state, result>>

\* Mutants: a name below qname; all names over again.
AskBelow_PastName(bel) ==
    IF bel <= Len(qname) THEN Ask("ds", bel + 1) ELSE Ask("leaf", bel)

AskBelow_Over(bel) == Ask("ds", IF bel < Len(qname) THEN bel + 1 ELSE 1)

\* The next name of descendant_zones(qname), or the leaf after the last.
\* bel is the number of labels of the name just handled.
AskBelow(bel) ==
    IF bel < Len(qname) THEN Ask("ds", bel + 1) ELSE Ask("leaf", bel)

Stop == UNCHANGED <<step, depth>>

-----------------------------------------------------------------------------
(* Bookkeeping: records taken into a zone, steps of the chain *)

\* Mutant: a DNSKEY is taken from any answer.
apply_records_AnyKey(z, resp, name, type) ==
    [z EXCEPT !.rrs = @ \cup resp.rrs, !.sigs = @ \cup resp.sigs]

\* apply_records: a DNSKEY counts only in the answer to the DNSKEY query for
\* its own owner; everything else is added to the zone.
apply_records(z, resp, name, type) ==
    [z EXCEPT
        !.rrs  = @ \cup {r \in resp.rrs : r.type = "DNSKEY" => type = "DNSKEY" /\ r.owner = name},
        !.sigs = @ \cup resp.sigs]

\* The response holds the rrset that was asked for.
Matches(resp, name, type) == \E r \in resp.rrs : r.owner = name /\ r.type = type

SigCheck == [name : Name, rrType : RRType, tag : {TagOf(k) : k \in Key},
             signer : Name, result : SigStatus]

sig_checks(z, owner, type, mode) ==
    {[name |-> owner, rrType |-> type, tag |-> TagOf(s.key), signer |-> s.signer,
      result |-> check_rrsig(z, s, mode).status] : s \in find_rrsigs(z, owner, type)}

\* Mutant: a zone that has its step keeps it as it is.
add_step_Once(name, signed, checks) ==
    chain' = IF \E i \in DOMAIN chain : chain[i].zone = name
             THEN chain
             ELSE Append(chain, [zone |-> name, signed |-> signed, checks |-> checks])

\* add_step: one step per zone; a later hop only adds the checks it lacks.
add_step(name, signed, checks) ==
    chain' = IF \E i \in DOMAIN chain : chain[i].zone = name
             THEN [i \in DOMAIN chain |->
                    IF chain[i].zone = name
                    THEN [chain[i] EXCEPT !.checks = @ \cup checks]
                    ELSE chain[i]]
             ELSE Append(chain, [zone |-> name, signed |-> signed, checks |-> checks])

-----------------------------------------------------------------------------
(* Denial of existence, as the claims the zone's NSEC records make *)

Claiming(z, claim) ==
    {r \in z.rrs : r.type = "NSEC" /\ claim \in Denies(r.owner, r.data)}

\* Mutant: a record counts as proof before it is verified.
Proof_Unverified(z, claim) == Claiming(z, claim)

\* The records that make the claim and verify.
Proof(z, claim) ==
    {r \in Claiming(z, claim) : rrset_verified(z, r.owner, "NSEC", "None")}

\* verify_rrset throws the error it met.
Breaks(z, claim) ==
    \E r \in Claiming(z, claim) : rrset_error(z, r.owner, "NSEC", "None")

\* No candidate for the claim verifies and none makes the search throw.
Unproved(z, claim) == Proof(z, claim) = {} /\ ~Breaks(z, claim)

Covers(n) == <<"covers", n>>

NoData(n) == <<"no-data", n>>

-----------------------------------------------------------------------------
(* The query in flight and its answers *)

Asked ==
    CASE step = "root"   -> <<Root, "DNSKEY">>
      [] step = "ds"     -> <<ChildName, "DS">>
      [] step = "dnskey" -> <<ChildName, "DNSKEY">>
      [] step = "leaf"   -> <<qname, QType>>

Responses == {r \in Answer(Asked[1], Asked[2]) : r \in Response}

Walking(s) == state = "walking" /\ step = s

\* The zone a response is loaded into, once it is.
Loaded(into, resp) == apply_records(into, resp, Asked[1], Asked[2])

Hop == <<asked, qname, seen, aliases, combined>>

\* query() threw: an abort becomes a chain timeout, anything else a
\* resolver error.
QueryThrows(abortError) ==
    /\ state = "walking"
    /\ Reject(IF abortError \/ aborted THEN "chain-timeout" ELSE "resolver")
    /\ UNCHANGED <<aborted, walk>>

\* A response code other than NOERROR and NXDOMAIN is a hard error.
BadRcode ==
    /\ state = "walking"
    /\ Reject("resolver")
    /\ UNCHANGED <<aborted, walk>>

\* check_rrset throws: no signature verified and one met an error.
CheckThrows(z, owner, type, mode) ==
    /\ rrset_error(z, owner, type, mode)
    /\ Reject(IF failure_code(z, owner, type, mode) = "unsupported-algorithm"
              THEN "unsupported-algo" ELSE "verifier")
    /\ Stop

\* The rrset is there but nothing verifies it.
Unverified(z, owner, type, mode) ==
    ~rrset_verified(z, owner, type, mode) /\ ~rrset_error(z, owner, type, mode)

-----------------------------------------------------------------------------
(* The caller *)

\* validate(): the first hop starts at the root zone.
Call(n) ==
    /\ state = "idle"
    /\ IF aborted
       THEN Reject("chain-timeout") /\ UNCHANGED <<asked, qname, seen, step>>
       ELSE /\ state' = "walking" /\ step' = "root"
            /\ asked' = n /\ qname' = n /\ seen' = {n}
            /\ UNCHANGED result
    /\ UNCHANGED <<aborted, aliases, combined, depth, zone, chain>>

\* validate('').
CallEmpty ==
    /\ state = "idle"
    /\ Reject("invalid-qname")
    /\ UNCHANGED <<aborted, walk>>

Abort ==
    /\ state \in {"idle", "walking"}
    /\ ~aborted
    /\ aborted' = TRUE
    /\ UNCHANGED <<state, result, walk>>

-----------------------------------------------------------------------------
(* validate_root *)

\* No key of the root matches a trust anchor.
RootMismatch(z) ==
    /\ z.trusted = {}
    /\ add_step(Root, FALSE, {})
    /\ ResolveHop(Bogus(Root, "trust-anchor-mismatch"))
    /\ Stop

RootUnverified(z) ==
    /\ z.trusted # {}
    /\ Unverified(z, Root, "DNSKEY", "KSK")
    /\ add_step(Root, FALSE, sig_checks(z, Root, "DNSKEY", "KSK"))
    /\ ResolveHop(Bogus(Root, failure_code(z, Root, "DNSKEY", "KSK")))
    /\ Stop

RootVerified(z) ==
    /\ z.trusted # {}
    /\ rrset_verified(z, Root, "DNSKEY", "KSK")
    /\ add_step(Root, TRUE, sig_checks(z, Root, "DNSKEY", "KSK"))
    /\ AskBelow(0)

RootThrows(z) ==
    z.trusted # {} /\ CheckThrows(z, Root, "DNSKEY", "KSK") /\ UNCHANGED chain

\* Only the keys that match an anchor are trusted, and only a signature by
\* one of them makes the DNSKEY rrset good.
RootAnswer(resp) ==
    LET loaded == Loaded(NoZone, resp)
        z == [loaded EXCEPT !.trusted = find_rrset(loaded, Root, "DNSKEY") \cap Anchors]
    IN /\ Walking("root")
       /\ zone' = z
       /\ RootMismatch(z) \/ RootUnverified(z) \/ RootVerified(z) \/ RootThrows(z)
       /\ UNCHANGED <<aborted, Hop>>

-----------------------------------------------------------------------------
(* descend_into, first half: the DS rrset of the child *)

below_dname(z, n) ==
    \E d \in 0 .. Len(n) - 1 : find_rrset(z, Ancestor(n, d), "DNAME") # {}

NoDS == <<"no-ds", ChildName>>

NoCut(z) ==
    /\ below_dname(z, ChildName) \/ Unproved(z, NoDS)
    /\ AskBelow(depth)
    /\ UNCHANGED chain

InsecureDelegation(z) ==
    /\ ~below_dname(z, ChildName)
    /\ \E r \in Proof(z, NoDS) :
        ResolveHop([Outcome("insecure", "no-ds", ChildName) EXCEPT !.proof = {r}])
    /\ Stop /\ UNCHANGED chain

NoDSProofThrows(z) ==
    /\ ~below_dname(z, ChildName)
    /\ Breaks(z, NoDS)
    /\ Reject("foreign")
    /\ Stop /\ UNCHANGED chain

DSUnverified(z) ==
    /\ Unverified(z, ChildName, "DS", "None")
    /\ add_step(ChildName, FALSE, sig_checks(z, ChildName, "DS", "None"))
    /\ ResolveHop(Bogus(ChildName, failure_code(z, ChildName, "DS", "None")))
    /\ Stop

DSVerified(z) ==
    /\ rrset_verified(z, ChildName, "DS", "None")
    /\ Ask("dnskey", depth)
    /\ UNCHANGED chain

DSThrows(z) == CheckThrows(z, ChildName, "DS", "None") /\ UNCHANGED chain

DSAnswer(resp) ==
    LET z == Loaded(zone, resp)
    IN /\ Walking("ds")
       /\ zone' = z
       /\ IF Matches(resp, ChildName, "DS")
          THEN DSUnverified(z) \/ DSVerified(z) \/ DSThrows(z)
          ELSE NoCut(z) \/ InsecureDelegation(z) \/ NoDSProofThrows(z)
       /\ UNCHANGED <<aborted, Hop>>

-----------------------------------------------------------------------------
(* descend_into, second half: the DNSKEY rrset of the child *)

\* A DS of unknown digest type names the key's tag: comparing its digest
\* throws, unless a DS that does match comes before it.
OddDS(dses, k) == \E d \in dses \cap OddDigest : OddTag(d) = TagOf(k)

DigestThrows(keys, dses) ==
    /\ \E k \in keys : OddDS(dses, k)
    /\ Reject("foreign")
    /\ Stop /\ UNCHANGED <<chain, zone>>

\* Mutant: the failure is put down to the parent.
NoDNSKEY_AtParent(dsChecks) ==
    /\ add_step(ChildName, FALSE, dsChecks)
    /\ ResolveHop(Bogus(zone.name, "no-dnskey"))
    /\ Stop /\ UNCHANGED zone

NoDNSKEY(dsChecks) ==
    /\ add_step(ChildName, FALSE, dsChecks)
    /\ ResolveHop(Bogus(ChildName, "no-dnskey"))
    /\ Stop /\ UNCHANGED zone

DSMismatch(dsChecks) ==
    /\ add_step(ChildName, FALSE, dsChecks)
    /\ ResolveHop(Bogus(ChildName, "ds-mismatch"))
    /\ Stop /\ UNCHANGED zone

DNSKEYUnverified(child, dsChecks) ==
    /\ Unverified(child, ChildName, "DNSKEY", "KSK")
    /\ add_step(ChildName, FALSE, dsChecks \cup sig_checks(child, ChildName, "DNSKEY", "KSK"))
    /\ ResolveHop(Bogus(ChildName, failure_code(child, ChildName, "DNSKEY", "KSK")))
    /\ Stop /\ UNCHANGED zone

\* Mutant: the checks of the DS rrset are not kept.
Descended_NoDS(child, dsChecks) ==
    /\ rrset_verified(child, ChildName, "DNSKEY", "KSK")
    /\ add_step(ChildName, TRUE, sig_checks(child, ChildName, "DNSKEY", "KSK"))
    /\ zone' = child
    /\ AskBelow(depth)

Descended(child, dsChecks) ==
    /\ rrset_verified(child, ChildName, "DNSKEY", "KSK")
    /\ add_step(ChildName, TRUE, dsChecks \cup sig_checks(child, ChildName, "DNSKEY", "KSK"))
    /\ zone' = child
    /\ AskBelow(depth)

DNSKEYThrows(child) ==
    CheckThrows(child, ChildName, "DNSKEY", "KSK") /\ UNCHANGED <<chain, zone>>

\* Only the keys that match the validated DS rrset are trusted.
DNSKEYAnswer(resp) ==
    LET loaded   == Loaded([NoZone EXCEPT !.name = ChildName], resp)
        keys     == find_rrset(loaded, ChildName, "DNSKEY")
        dses     == find_rrset(zone, ChildName, "DS")
        child    == [loaded EXCEPT !.trusted = keys \cap dses]
        dsChecks == sig_checks(zone, ChildName, "DS", "None")
    IN /\ Walking("dnskey")
       /\ \/ keys = {} /\ NoDNSKEY(dsChecks)
          \/ DigestThrows(keys, dses)
          \/ /\ keys # {}
             /\ \A k \in keys : OddDS(dses, k) => k \in dses
             /\ IF child.trusted = {}
                THEN DSMismatch(dsChecks)
                ELSE \/ DNSKEYUnverified(child, dsChecks)
                     \/ Descended(child, dsChecks)
                     \/ DNSKEYThrows(child)
       /\ UNCHANGED <<aborted, Hop>>

-----------------------------------------------------------------------------
(* resolve_leaf: the rrset asked for is there *)

LeafChecks(z) == sig_checks(z, qname, QType, "None")

\* A signature, verified or not, whose Labels field says the rrset was
\* expanded from a wildcard.
Synthesised(z) == {s \in find_rrsigs(z, qname, QType) : s.labels < Len(qname)}

NextCloser(s) == Ancestor(qname, s.labels + 1)

LeafUnverified(z) ==
    /\ Unverified(z, qname, QType, "None")
    /\ ResolveHop(Bogus(zone.name, failure_code(z, qname, QType, "None")))

SecureAnswer(z, encloser, proof) ==
    ResolveHop([Pending EXCEPT !.verdict = "secure",
                               !.answer = find_rrset(z, qname, QType),
                               !.encloser = encloser,
                               !.proof = proof])

LeafSecure(z) ==
    /\ rrset_verified(z, qname, QType, "None")
    /\ Synthesised(z) = {}
    /\ SecureAnswer(z, None, {})

\* The wildcard could be used only if the next closer name does not exist.
LeafWildcard(z) ==
    /\ rrset_verified(z, qname, QType, "None")
    /\ \E s \in Synthesised(z) :
        \/ \E r \in Proof(z, Covers(NextCloser(s))) : SecureAnswer(z, s.labels, {r})
        \/ /\ Unproved(z, Covers(NextCloser(s)))
           /\ ResolveHop(Bogus(zone.name, "wildcard-proof-missing"))
        \/ /\ Breaks(z, Covers(NextCloser(s)))
           /\ Reject("foreign")

Positive(z) ==
    \/ /\ add_step(zone.name, FALSE, LeafChecks(z))
       /\ LeafUnverified(z) \/ LeafSecure(z) \/ LeafWildcard(z)
       /\ Stop
    \/ CheckThrows(z, qname, QType, "None") /\ UNCHANGED chain

-----------------------------------------------------------------------------
(* resolve_leaf: a DNAME above qname, or a CNAME at it *)

\* Mutants: no loop check; one redirect too many.
NextHop_NoLoopCheck(type, from, target) ==
    /\ aliases' = Append(aliases, [type |-> type, from |-> from, target |-> target,
                                   zone |-> zone.name, verdict |-> "secure"])
    /\ combined' = CombinedWith("secure")
    /\ qname' = target /\ UNCHANGED asked
    /\ IF Len(aliases) = MaxAliasHops
       THEN Resolve(Bogus(target, "alias-limit")) /\ Stop /\ UNCHANGED seen
       ELSE seen' = seen \cup {target} /\ Ask("root", 0)

NextHop_Late(type, from, target) ==
    /\ aliases' = Append(aliases, [type |-> type, from |-> from, target |-> target,
                                   zone |-> zone.name, verdict |-> "secure"])
    /\ combined' = CombinedWith("secure")
    /\ qname' = target /\ UNCHANGED asked
    /\ IF Len(aliases) > MaxAliasHops
       THEN Resolve(Bogus(target, "alias-limit")) /\ Stop /\ UNCHANGED seen
       ELSE IF target \in seen
       THEN Resolve(Bogus(target, "alias-loop")) /\ Stop /\ UNCHANGED seen
       ELSE seen' = seen \cup {target} /\ Ask("root", 0)

\* The end of validate()'s loop body and the start of the next one.
NextHop(type, from, target) ==
    /\ aliases' = Append(aliases, [type |-> type, from |-> from, target |-> target,
                                   zone |-> zone.name, verdict |-> "secure"])
    /\ combined' = CombinedWith("secure")
    /\ qname' = target /\ UNCHANGED asked
    /\ IF Len(aliases) = MaxAliasHops
       THEN Resolve(Bogus(target, "alias-limit")) /\ Stop /\ UNCHANGED seen
       ELSE IF aborted
       THEN Reject("chain-timeout") /\ Stop /\ UNCHANGED seen
       ELSE IF target \in seen
       THEN Resolve(Bogus(target, "alias-loop")) /\ Stop /\ UNCHANGED seen
       ELSE /\ seen' = seen \cup {target}
            /\ Ask("root", 0)

\* The redirect at owner: target is what its RDATA says, next the name the
\* following hop asks for.
Redirect(z, type, owner, rtype, target, next) ==
    IF target = Root
    THEN /\ ResolveHop(Bogus(owner, "alias-target-invalid"))
         /\ Stop /\ UNCHANGED <<Hop, chain>>
    ELSE \/ /\ CheckThrows(z, owner, rtype, "None")
            /\ UNCHANGED <<Hop, chain>>
         \/ /\ Unverified(z, owner, rtype, "None")
            /\ add_step(zone.name, FALSE, sig_checks(z, owner, rtype, "None"))
            /\ ResolveHop(Bogus(zone.name, failure_code(z, owner, rtype, "None")))
            /\ Stop /\ UNCHANGED Hop
         \/ /\ rrset_verified(z, owner, rtype, "None")
            /\ add_step(zone.name, FALSE, sig_checks(z, owner, rtype, "None"))
            /\ NextHop(type, owner, next)

\* Depths of the ancestors of qname that own a DNAME.
DnameDepths(z) ==
    {d \in 0 .. Len(qname) - 1 : find_rrset(z, Ancestor(qname, d), "DNAME") # {}}

\* Mutant: one label too many is kept.
synthesise_Long(n, d, target) == target \o SubSeq(n, d, Len(n))

\* synthesise_dname_target: the labels of n below depth d, under target.
synthesise(n, d, target) == target \o SubSeq(n, d + 1, Len(n))

\* The deepest DNAME wins.
try_dname(z) ==
    \E d \in DnameDepths(z) :
        /\ \A e \in DnameDepths(z) : e <= d
        /\ \E r \in find_rrset(z, Ancestor(qname, d), "DNAME") :
            Redirect(z, "dname", Ancestor(qname, d), "DNAME",
                     Target(r), synthesise(qname, d, Target(r)))

try_cname(z) ==
    \E r \in find_rrset(z, qname, "CNAME") :
        Redirect(z, "cname", qname, "CNAME", Target(r), Target(r))

-----------------------------------------------------------------------------
(* resolve_leaf: nothing there *)

NegativeOutcome(verdict, proof) ==
    ResolveHop([Outcome(verdict, None, None) EXCEPT
                    !.proof = proof])

Indeterminate == ResolveHop(Outcome("indeterminate", None, None))

\* r covers qname.  It proves an empty non-terminal, or leads to the wildcard
\* that would have answered: NODATA if that lacks the type, NXDOMAIN if it
\* does not exist either.
CoveredBy(z, r) ==
    LET ce == EncloserOf(r.owner, r.data, qname)
        wildcard == wildcard_at(qname, ce)
    IN IF <<"empty", qname>> \in Denies(r.owner, r.data)
       THEN NegativeOutcome("secure-nodata", {r})
       ELSE IF ce = None THEN Indeterminate
       ELSE \/ \E w \in Proof(z, NoData(wildcard)) :
                    NegativeOutcome("secure-nodata", {r, w})
            \/ /\ Unproved(z, NoData(wildcard))
               /\ \E w \in Proof(z, Covers(wildcard)) :
                    NegativeOutcome("secure-nxdomain", {r, w})
            \/ /\ Unproved(z, NoData(wildcard)) /\ Unproved(z, Covers(wildcard))
               /\ Indeterminate
            \/ /\ Breaks(z, NoData(wildcard)) \/ Breaks(z, Covers(wildcard))
               /\ Reject("foreign")

\* prove_no_data, then prove_nx_domain.
Negative(z) ==
    \/ \E r \in Proof(z, NoData(qname)) : NegativeOutcome("secure-nodata", {r})
    \/ Breaks(z, NoData(qname)) /\ Reject("foreign")
    \/ /\ Unproved(z, NoData(qname))
       /\ \/ \E r \in Proof(z, Covers(qname)) : CoveredBy(z, r)
          \/ Breaks(z, Covers(qname)) /\ Reject("foreign")
          \/ Unproved(z, Covers(qname)) /\ Indeterminate

LeafAnswer(resp) ==
    LET z == Loaded(zone, resp)
    IN /\ Walking("leaf")
       /\ zone' = NoZone
       /\ IF Matches(resp, qname, QType)
          THEN Positive(z) /\ UNCHANGED Hop
          ELSE IF DnameDepths(z) # {} THEN try_dname(z)
          ELSE IF find_rrset(z, qname, "CNAME") # {} THEN try_cname(z)
          ELSE Negative(z) /\ Stop /\ UNCHANGED <<Hop, chain>>
       /\ UNCHANGED aborted

-----------------------------------------------------------------------------
(* Specification *)

Init ==
    /\ state = "idle" /\ aborted = FALSE
    /\ asked = Root /\ qname = Root /\ seen = {} /\ aliases = <<>> /\ combined = None
    /\ step = "root" /\ depth = 0
    /\ zone = NoZone /\ chain = <<>>
    /\ result = Pending

Answered ==
    \E resp \in Responses :
        RootAnswer(resp) \/ DSAnswer(resp) \/ DNSKEYAnswer(resp) \/ LeafAnswer(resp)

Failed == BadRcode \/ \E abortError \in BOOLEAN : QueryThrows(abortError)

Next ==
    \/ \E n \in QNames : Call(n)
    \/ CallEmpty
    \/ Abort
    \/ Answered
    \/ Failed

\* A resolver answers or fails every query it is given (the authoritative
\* and DoT clients by their timeouts), and the runtime delivers that.
Fairness == WF_vars(Answered \/ Failed)

Spec == Init /\ [][Next]_vars

FairSpec == Spec /\ Fairness

-----------------------------------------------------------------------------
(* Types *)

AliasStep == [type : {"cname", "dname"}, from : Name, target : Name,
              zone : Name, verdict : Verdict]

ZoneStep == [zone : Name, signed : BOOLEAN, checks : SUBSET SigCheck]

Result == [verdict : Verdict,
           code : ReasonCode \cup {None}, at : Name \cup {None},
           answer : SUBSET Data, encloser : Nat \cup {None},
           proof : SUBSET RR, error : Rejection \cup {None}]

\* Every variable has the shape the code gives it, and the descent of a hop
\* stops at qname.
TypeOK ==
    /\ state \in {"idle", "walking", "resolved", "rejected"}
    /\ aborted \in BOOLEAN
    /\ asked \in Name /\ qname \in Name /\ seen \in SUBSET Name
    /\ aliases \in Seq(AliasStep)
    /\ combined \in {None, "secure"}
    /\ step \in Step /\ depth \in Nat
    /\ state = "idle" => depth = 0
    /\ state = "walking" => depth <= Len(qname)
    /\ zone \in Zone
    /\ chain \in Seq(ZoneStep)
    /\ result \in Result

-----------------------------------------------------------------------------
(* What a verdict stands for *)

Ancestors(n) == {Ancestor(n, d) : d \in 0 .. Len(n)}

\* The owners a zone may have signed an rrset at that is now held at owner n:
\* n itself, or a wildcard it can have been expanded from.
SignedOwners(n) == {signed_owner(n, l) : l \in 0 .. Len(n)}

\* The zone z itself signed this rrset, at owner n or at a wildcard above it.
SignedBy(z, n, type, rrset) ==
    \E owner \in SignedOwners(n) : rrset \in ZoneSigns(z, owner, type)

\* The records of the proof that a zone on the way to qname published.
Genuine ==
    {r \in result.proof :
        \E z \in Ancestors(qname) : \E owner \in SignedOwners(r.owner) :
            \E rrset \in ZoneSigns(z, owner, "NSEC") : r.data \in rrset}

Shown(claim) == \E r \in Genuine : claim \in Denies(r.owner, r.data)

ShownNoData ==
    \/ Shown(NoData(qname))
    \/ \E r \in Genuine :
        /\ Covers(qname) \in Denies(r.owner, r.data)
        /\ LET ce == EncloserOf(r.owner, r.data, qname)
           IN \/ <<"empty", qname>> \in Denies(r.owner, r.data)
              \/ ce # None /\ Shown(NoData(wildcard_at(qname, ce)))

ShownNXDomain ==
    \E r \in Genuine :
        /\ Covers(qname) \in Denies(r.owner, r.data)
        /\ <<"empty", qname>> \notin Denies(r.owner, r.data)
        /\ LET ce == EncloserOf(r.owner, r.data, qname)
           IN ce # None /\ Shown(Covers(wildcard_at(qname, ce)))

\* A Secure answer is an rrset that a zone on the way to qname signed, at
\* qname itself; only an answer reported as expanded may have been signed at
\* a wildcard above it, and then a zone denied the next closer name.  The
\* type DNSKEY is left out: resolve_leaf takes DNSKEY records it has not
\* authenticated as signers.
AnswerAuthentic ==
    state = "resolved" /\ result.verdict = "secure" /\ QType # "DNSKEY" =>
        /\ result.encloser = None =>
                \E z \in Ancestors(qname) : result.answer \in ZoneSigns(z, qname, QType)
        /\ result.encloser # None =>
                /\ \E z \in Ancestors(qname) : SignedBy(z, qname, QType, result.answer)
                /\ Shown(Covers(Ancestor(qname, result.encloser + 1)))

\* An Insecure, NODATA or NXDOMAIN verdict rests on denial records that zones
\* on the way to qname published, and those make every claim the verdict needs.
DenialAuthentic ==
    state = "resolved" =>
        /\ result.verdict = "insecure" =>
                result.at \in Ancestors(qname) /\ Shown(<<"no-ds", result.at>>)
        /\ result.verdict = "secure-nodata"  => ShownNoData
        /\ result.verdict = "secure-nxdomain" => ShownNXDomain

\* The name of hop i: the one asked for, then where each redirect led.
HopName(i) == IF i = 1 THEN asked ELSE aliases[i - 1].target

\* The labels of n below from stand, all and in their order, below target.
Moved(n, from, target, new) ==
    \E d \in 0 .. Len(n) - 1 :
        LET below == SubSeq(n, d + 1, Len(n))
        IN n = from \o below /\ new = target \o below

\* Every redirect reported was signed by the zone it is attributed to, and
\* leads from the name of its hop exactly where that record says: a CNAME to
\* its target, a DNAME to the name with the DNAME's owner replaced by its
\* target and every other label kept.
AliasesAuthentic ==
    \A i \in DOMAIN aliases :
        LET a == aliases[i]
            type == IF a.type = "cname" THEN "CNAME" ELSE "DNAME"
        IN \E owner \in SignedOwners(a.from) :
            \E rrset \in ZoneSigns(a.zone, owner, type) : \E d \in rrset :
                IF a.type = "cname"
                THEN a.from = HopName(i) /\ a.target = Target(d)
                ELSE Moved(HopName(i), a.from, Target(d), a.target)

\* The redirects form one path: the first starts at the name asked for, each
\* other one at the name the one before led to (a DNAME above it), the last
\* leads to the name in hand, and while the walk goes on no name is visited a
\* second time.
AliasesLinked ==
    /\ \A i \in DOMAIN aliases :
        IF aliases[i].type = "cname"
        THEN aliases[i].from = HopName(i)
        ELSE IsBelow(HopName(i), aliases[i].from)
    /\ qname = HopName(Len(aliases) + 1)
    /\ state = "walking" =>
        /\ Len(aliases) <= MaxAliasHops
        /\ \A i, j \in 1 .. Len(aliases) + 1 : HopName(i) = HopName(j) => i = j

-----------------------------------------------------------------------------
(* What the reported chain explains *)

Checked(i, name, type, signer) ==
    \E c \in chain[i].checks :
        c.name = name /\ c.rrType = type /\ c.signer = signer /\ c.result = "verified"

\* A step marked signed holds the verified signature over its DNSKEY rrset
\* and, below the root, one over its DS rrset by a zone above it whose own
\* step comes earlier and is signed too.
StepsExplained ==
    \A i \in DOMAIN chain :
        LET zn == chain[i].zone
        IN chain[i].signed =>
            /\ Checked(i, zn, "DNSKEY", zn)
            /\ zn # Root =>
                \E j \in 1 .. i - 1 :
                    /\ chain[j].signed /\ IsBelow(zn, chain[j].zone)
                    /\ Checked(i, zn, "DS", chain[j].zone)

\* A step that is not signed is where the walk ended, and ended Bogus there.
UnsignedStepEnds ==
    \A i \in DOMAIN chain :
        ~chain[i].signed =>
            /\ i = Len(chain) /\ state = "resolved"
            /\ result.verdict = "bogus" /\ result.at = chain[i].zone

StatusOf(code) ==
    CASE code = "sig-expired"       -> "expired"
      [] code = "sig-not-yet-valid" -> "not-yet-valid"
      [] code = "sig-invalid"       -> "invalid"
      [] OTHER                      -> "no-matching-key"

\* The reason of a Bogus verdict can be read off the chain: the step of the
\* zone it names holds a signature that failed that way.  A Secure verdict
\* can too: a signed step holds the signature over the answer.
ResultExplained ==
    state = "resolved" =>
        /\ result.code \in {"sig-expired", "sig-not-yet-valid", "sig-invalid", "no-matching-key"} =>
            \E i \in DOMAIN chain :
                /\ chain[i].zone = result.at
                /\ \E c \in chain[i].checks : c.result = StatusOf(result.code)
        /\ result.verdict = "secure" /\ QType # "DNSKEY" =>
            \E i \in DOMAIN chain :
                chain[i].signed /\ Checked(i, qname, QType, chain[i].zone)

-----------------------------------------------------------------------------
(* What the caller is promised *)

Promise == INSTANCE Validation WITH
    BogusCode <- ReasonCode \ {"no-ds", "unsupported-algorithm"},
    zones     <- [i \in DOMAIN chain |-> chain[i].zone],
    targets   <- [i \in DOMAIN aliases |-> aliases[i].target],
    outcome   <- [verdict |-> result.verdict, code |-> result.code, at |-> result.at,
                  answered |-> result.answer # {}, encloser |-> result.encloser,
                  error |-> result.error]

\* The walk keeps the promise of validate(): one settlement, a chain that only
\* grows, bounded redirects, nothing more asked after an abort, and a result
\* whose fields fit its verdict.
KeepsPromise == Promise!Spec

\* Whatever the resolver does, a call that was started settles.
Settles == (state = "walking") ~> (state \in {"resolved", "rejected"})

-----------------------------------------------------------------------------
(* What comments of the code say and the walk does not keep *)

\* "A DNSKEY is taken only from the answer to the DNSKEY query for its own
\* owner name, the rrset the descent authenticates" (chain.ts, apply_records):
\* so a Secure answer is one the zone signed, for every type.
EveryAnswerAuthentic ==
    state = "resolved" /\ result.verdict = "secure" =>
        \E z \in Ancestors(qname) : SignedBy(z, qname, QType, result.answer)

\* "RFC 4035 5.3.4 requires this proof to accompany any wildcard-synthesised
\* positive answer" (wildcard.ts): so in a world without denials every CNAME
\* followed is one a zone signed at the name that was asked for.
AliasNotExpanded ==
    \A i \in DOMAIN aliases :
        LET a == aliases[i]
        IN a.type = "cname" =>
            \E rrset \in ZoneSigns(a.zone, a.from, "CNAME") :
                \E d \in rrset : a.target = Target(d)
=============================================================================
