-------------------------- MODULE ChainWalkProofs ---------------------------
(***************************************************************************)
(* Proofs about the chain walk, for every set of labels, keys and data,    *)
(* every world of zones, keys and signatures, every resolver and every     *)
(* alias limit.                                                            *)
(*                                                                         *)
(* Types: its variables stay well typed.                                   *)
(*                                                                         *)
(* Authenticity: a Secure answer, the denial behind a negative verdict and *)
(* each redirect followed were signed by zones on the way to the name.     *)
(* The argument is the chain of trust: every DNSKEY record in currentZone  *)
(* is a key of that zone's own operator (KeysInv).  At the root the trust  *)
(* anchors start it; below, the DS rrset the parent signed hands it on.    *)
(* The redirects of a call form one path that never comes back to a name.  *)
(*                                                                         *)
(* Reports: the steps of the chain, the reason of the verdict, and the     *)
(* promise of Validation, which the walk keeps: its initial state maps to  *)
(* the initial state of the promise, and every step to a step of the       *)
(* promise or to none.                                                     *)
(***************************************************************************)
EXTENDS ChainWalk, SequenceTheorems, TLAPS

-----------------------------------------------------------------------------
(* Names *)

LEMMA RootIsName == Root \in Name
BY DEF Root, Name

LEMMA AncestorType ==
    ASSUME NEW n \in Name, NEW d \in 0 .. Len(n)
    PROVE  Ancestor(n, d) \in Name /\ Len(Ancestor(n, d)) = d
BY SubSeqProperties DEF Ancestor, Name

LEMMA SignedOwnerListed ==
    ASSUME NEW n \in Name, NEW l \in Nat
    PROVE  signed_owner(n, l) \in SignedOwners(n)
<1>1. Len(n) \in Nat
  BY DEF Name
<1>2. CASE l < Len(n)
  BY <1>1, <1>2 DEF SignedOwners
<1>3. CASE ~(l < Len(n))
  <2>1. signed_owner(n, l) = signed_owner(n, Len(n))
    BY <1>1, <1>3 DEF signed_owner
  <2>2. Len(n) \in 0 .. Len(n)
    BY <1>1
  <2> QED
    BY <2>1, <2>2 DEF SignedOwners
<1> QED
  BY <1>2, <1>3

-----------------------------------------------------------------------------
(* Operators on zones *)

LEMMA AppliedType ==
    ASSUME NEW z \in Zone, NEW resp \in Response, NEW n, NEW t
    PROVE  /\ apply_records(z, resp, n, t) \in Zone
           /\ apply_records(z, resp, n, t).name = z.name
           /\ apply_records(z, resp, n, t).trusted = z.trusted
BY DEF apply_records, Zone, Response

LEMMA RrsetType ==
    ASSUME NEW z \in Zone, NEW n, NEW t
    PROVE  find_rrset(z, n, t) \subseteq Data
BY DEF find_rrset, Zone, RR

LEMMA StatusType ==
    ASSUME NEW z, NEW s, NEW mode
    PROVE  check_rrsig(z, s, mode).status \in SigStatus
BY DEF check_rrsig, SigVerdict, SigStatus

LEMMA ChecksType ==
    ASSUME NEW z \in Zone, NEW n \in Name, NEW t \in RRType, NEW mode
    PROVE  sig_checks(z, n, t, mode) \subseteq SigCheck
<1> SUFFICES ASSUME NEW s \in find_rrsigs(z, n, t)
             PROVE  [name |-> n, rrType |-> t, tag |-> TagOf(s.key), signer |-> s.signer,
                     result |-> check_rrsig(z, s, mode).status] \in SigCheck
  BY DEF sig_checks
<1>1. s \in RRSIG
  BY DEF find_rrsigs, Zone
<1>2. s.key \in Key /\ s.signer \in Name
  BY <1>1 DEF RRSIG
<1> QED
  BY <1>2, StatusType DEF SigCheck

LEMMA FailureCodeType ==
    ASSUME NEW z, NEW n, NEW t, NEW mode
    PROVE  failure_code(z, n, t, mode) \in ReasonCode
BY DEF failure_code, sig_failure_code, ReasonCode

-----------------------------------------------------------------------------
(* The pieces steps are made of *)

LEMMA PendingType == Pending \in Result
BY DEF Pending, Result, Verdict, Rejection

LEMMA BogusType ==
    ASSUME NEW at \in Name, NEW code \in ReasonCode
    PROVE  Bogus(at, code) \in Result /\ Bogus(at, code).verdict = "bogus"
BY DEF Bogus, Outcome, Pending, Result, Verdict, Rejection

LEMMA ResolveHopType ==
    ASSUME TypeOK, NEW o \in Result, ResolveHop(o)
    PROVE  /\ state' = "resolved" /\ result' \in Result
           /\ result' = [o EXCEPT !.answer = IF o.verdict = "secure" THEN o.answer ELSE {}]
<1>1. CombinedWith(o.verdict) = o.verdict
  BY DEF CombinedWith, combine_verdicts, TypeOK, Result, Verdict
<1> QED
  BY <1>1 DEF ResolveHop, Resolve, Result

LEMMA RejectType ==
    ASSUME NEW e \in Rejection, Reject(e)
    PROVE  state' = "rejected" /\ result' \in Result
BY DEF Reject, Pending, Result, Verdict

LEMMA AddStepType ==
    ASSUME chain \in Seq(ZoneStep), NEW n \in Name, NEW b \in BOOLEAN,
           NEW cs \in SUBSET SigCheck, add_step(n, b, cs)
    PROVE  chain' \in Seq(ZoneStep)
<1>1. CASE \E i \in DOMAIN chain : chain[i].zone = n
  <2>0. DOMAIN chain = 1 .. Len(chain)
    OBVIOUS
  <2>1. chain' = [i \in 1 .. Len(chain) |->
                    IF chain[i].zone = n
                    THEN [chain[i] EXCEPT !.checks = @ \cup cs]
                    ELSE chain[i]]
    <3>1. chain' = [i \in DOMAIN chain |->
                    IF chain[i].zone = n
                    THEN [chain[i] EXCEPT !.checks = @ \cup cs]
                    ELSE chain[i]]
      BY <1>1, Zenon DEF add_step
    <3> QED
      BY <2>0, <3>1
  <2>2. \A i \in 1 .. Len(chain) : chain[i] \in ZoneStep
    OBVIOUS
  <2>3. \A i \in 1 .. Len(chain) : [chain[i] EXCEPT !.checks = @ \cup cs] \in ZoneStep
    BY <2>2 DEF ZoneStep
  <2>4. chain' \in [1 .. Len(chain) -> ZoneStep]
    BY <2>1, <2>2, <2>3
  <2> QED
    BY <2>4
<1>2. CASE ~\E i \in DOMAIN chain : chain[i].zone = n
  <2>1. chain' = Append(chain, [zone |-> n, signed |-> b, checks |-> cs])
    BY <1>2 DEF add_step
  <2> QED
    BY <2>1 DEF ZoneStep
<1> QED
  BY <1>1, <1>2

\* What every step leaves of the walk's control state.
ControlTyped ==
    /\ state' \in {"walking", "resolved", "rejected"}
    /\ result' \in Result
    /\ step' \in Step /\ depth' \in Nat
    /\ state' = "walking" => depth' <= Len(qname')

LEMMA SettledTyped ==
    ASSUME TypeOK, Stop, state' \in {"resolved", "rejected"}, result' \in Result
    PROVE  ControlTyped
BY DEF TypeOK, Stop, ControlTyped

LEMMA ResolvedTyped ==
    ASSUME TypeOK, Stop, NEW o \in Result, ResolveHop(o)
    PROVE  ControlTyped
BY ResolveHopType, SettledTyped

LEMMA RejectedTyped ==
    ASSUME TypeOK, Stop, NEW e \in Rejection, Reject(e)
    PROVE  ControlTyped
BY RejectType, SettledTyped

LEMMA AskTyped ==
    ASSUME TypeOK, state = "walking", NEW s \in Step, NEW d \in Nat,
           d <= Len(qname'), Ask(s, d)
    PROVE  ControlTyped
<1>1. CASE aborted
  <2>1. Reject("chain-timeout") /\ Stop
    BY <1>1 DEF Ask, Stop
  <2> QED
    BY <2>1, RejectedTyped DEF Rejection
<1>2. CASE ~aborted
  BY <1>2 DEF Ask, TypeOK, ControlTyped
<1> QED
  BY <1>1, <1>2

LEMMA AskBelowTyped ==
    ASSUME TypeOK, state = "walking", UNCHANGED Hop, NEW d \in Nat,
           d <= Len(qname), AskBelow(d)
    PROVE  ControlTyped
<1>1. qname' = qname /\ Len(qname) \in Nat
  BY DEF Hop, TypeOK, Name
<1>2. CASE d < Len(qname)
  <2>1. Ask("ds", d + 1) /\ d + 1 \in Nat /\ d + 1 <= Len(qname')
    BY <1>1, <1>2 DEF AskBelow
  <2> QED
    BY <2>1, AskTyped DEF Step
<1>3. CASE ~(d < Len(qname))
  <2>1. Ask("leaf", d)
    BY <1>3 DEF AskBelow
  <2> QED
    BY <1>1, <2>1, AskTyped DEF Step
<1> QED
  BY <1>2, <1>3

LEMMA ThrowsTyped ==
    ASSUME TypeOK, NEW z, NEW n, NEW t, NEW mode, CheckThrows(z, n, t, mode)
    PROVE  ControlTyped
BY RejectedTyped DEF CheckThrows, Rejection

LEMMA BogusTyped ==
    ASSUME TypeOK, Stop, NEW n \in Name, NEW code \in ReasonCode, ResolveHop(Bogus(n, code))
    PROVE  ControlTyped
BY BogusType, ResolvedTyped

-----------------------------------------------------------------------------
(* One lemma per kind of answer *)

LEMMA AskedZoneType ==
    ASSUME NEW resp \in Responses, NEW into \in Zone
    PROVE  Loaded(into, resp) \in Zone /\ Loaded(into, resp).name = into.name
BY AppliedType DEF Responses, Loaded

LEMMA NoZoneType == NoZone \in Zone
BY RootIsName DEF NoZone, Zone

LEMMA ChildType ==
    ASSUME TypeOK, state = "walking"
    PROVE  ChildName \in Name /\ depth \in Nat /\ depth <= Len(qname) /\ Len(qname) \in Nat
BY AncestorType DEF ChildName, TypeOK, Name

LEMMA RootType ==
    ASSUME TypeOK, NEW resp \in Responses, RootAnswer(resp)
    PROVE  TypeOK'
<1> DEFINE loaded == Loaded(NoZone, resp)
           z == [loaded EXCEPT !.trusted = find_rrset(loaded, Root, "DNSKEY") \cap Anchors]
           cs == sig_checks(z, Root, "DNSKEY", "KSK")
<1>1. loaded \in Zone
  BY AskedZoneType, NoZoneType
<1>2. find_rrset(loaded, Root, "DNSKEY") \cap Anchors \subseteq Key
  <2>1. KeysOf(Root) \subseteq Key
    BY KeyAssumption DEF KeysOf
  <2> QED
    BY <2>1, AnchorAssumption
<1>3. z \in Zone
  BY <1>1, <1>2 DEF Zone
<1>4. cs \subseteq SigCheck
  BY <1>3, ChecksType, RootIsName DEF RRType
<1>5. state = "walking" /\ zone' = z /\ UNCHANGED <<aborted, Hop>>
  BY DEF RootAnswer, Walking
<1>6. RootMismatch(z) \/ RootUnverified(z) \/ RootVerified(z) \/ RootThrows(z)
  BY DEF RootAnswer
<1>7. failure_code(z, Root, "DNSKEY", "KSK") \in ReasonCode
  BY FailureCodeType
<1> HIDE DEF z, cs
<1>8. ControlTyped /\ chain' \in Seq(ZoneStep)
  <2>1. CASE RootMismatch(z)
    BY <2>1, BogusTyped, AddStepType, RootIsName DEF RootMismatch, ReasonCode, TypeOK
  <2>2. CASE RootUnverified(z)
    BY <2>2, <1>4, <1>7, BogusTyped, AddStepType, RootIsName DEF RootUnverified, TypeOK, cs
  <2>3. CASE RootVerified(z)
    <3>1. 0 \in Nat /\ 0 <= Len(qname)
      BY DEF TypeOK, Name
    <3> QED
      BY <2>3, <1>4, <1>5, <3>1, AskBelowTyped, AddStepType, RootIsName DEF RootVerified, TypeOK, cs
  <2>4. CASE RootThrows(z)
    BY <2>4, ThrowsTyped DEF RootThrows, TypeOK
  <2> QED
    BY <1>6, <2>1, <2>2, <2>3, <2>4
<1> QED
  BY <1>3, <1>5, <1>8 DEF TypeOK, ControlTyped, Hop

LEMMA DSType ==
    ASSUME TypeOK, NEW resp \in Responses, DSAnswer(resp)
    PROVE  TypeOK'
<1> DEFINE z  == Loaded(zone, resp)
           cs == sig_checks(z, ChildName, "DS", "None")
<1>1. z \in Zone
  BY AskedZoneType DEF TypeOK
<1>2. state = "walking" /\ zone' = z /\ UNCHANGED <<aborted, Hop>>
  BY DEF DSAnswer, Walking
<1>3. \/ DSUnverified(z) \/ DSVerified(z) \/ DSThrows(z)
      \/ NoCut(z) \/ InsecureDelegation(z) \/ NoDSProofThrows(z)
  BY DEF DSAnswer
<1>4. ChildName \in Name /\ depth \in Nat /\ depth <= Len(qname) /\ Len(qname') = Len(qname)
  BY <1>2, ChildType DEF Hop
<1>5. cs \subseteq SigCheck
  BY <1>1, <1>4, ChecksType DEF RRType
<1>6. failure_code(z, ChildName, "DS", "None") \in ReasonCode
  BY FailureCodeType
<1> HIDE DEF z
<1>7. ControlTyped /\ chain' \in Seq(ZoneStep)
  <2>1. CASE DSUnverified(z)
    BY <2>1, <1>4, <1>5, <1>6, BogusTyped, AddStepType DEF DSUnverified, TypeOK
  <2>2. CASE DSVerified(z)
    BY <2>2, <1>2, <1>4, AskTyped DEF DSVerified, TypeOK, Step
  <2>3. CASE DSThrows(z)
    BY <2>3, ThrowsTyped DEF DSThrows, TypeOK
  <2>4. CASE NoCut(z)
    BY <2>4, <1>2, <1>4, AskBelowTyped DEF NoCut, TypeOK
  <2>5. CASE InsecureDelegation(z)
    <3>1. PICK r \in Proof(z, NoDS) :
            ResolveHop([Outcome("insecure", "no-ds", ChildName) EXCEPT !.proof = {r}])
      BY <2>5 DEF InsecureDelegation
    <3>2. r \in RR
      BY <1>1 DEF Proof, Claiming, Zone
    <3>3. [Outcome("insecure", "no-ds", ChildName) EXCEPT !.proof = {r}] \in Result
      BY <1>4, <3>2 DEF Outcome, Pending, Result, Verdict, ReasonCode
    <3> QED
      BY <2>5, <3>1, <3>3, ResolvedTyped DEF InsecureDelegation, TypeOK
  <2>6. CASE NoDSProofThrows(z)
    BY <2>6, RejectedTyped DEF NoDSProofThrows, Rejection, TypeOK
  <2> QED
    BY <1>3, <2>1, <2>2, <2>3, <2>4, <2>5, <2>6
<1> QED
  BY <1>1, <1>2, <1>7 DEF TypeOK, ControlTyped, Hop

LEMMA DNSKEYType ==
    ASSUME TypeOK, NEW resp \in Responses, DNSKEYAnswer(resp)
    PROVE  TypeOK'
<1> DEFINE loaded   == Loaded([NoZone EXCEPT !.name = ChildName], resp)
           keys     == find_rrset(loaded, ChildName, "DNSKEY")
           dses     == find_rrset(zone, ChildName, "DS")
           child    == [loaded EXCEPT !.trusted = keys \cap dses]
           dsChecks == sig_checks(zone, ChildName, "DS", "None")
           checks   == sig_checks(child, ChildName, "DNSKEY", "KSK")
<1>1. state = "walking" /\ UNCHANGED <<aborted, Hop>>
  BY DEF DNSKEYAnswer, Walking
<1>2. ChildName \in Name /\ depth \in Nat /\ depth <= Len(qname)
  BY <1>1, ChildType
<1>3. loaded \in Zone
  <2>1. [NoZone EXCEPT !.name = ChildName] \in Zone
    BY <1>2, NoZoneType DEF Zone
  <2> QED
    BY <2>1, AskedZoneType
<1>4. keys \subseteq Key
  BY <1>3 DEF find_rrset, Zone, RR
<1>5. child \in Zone
  BY <1>3, <1>4 DEF Zone
<1>6. dsChecks \subseteq SigCheck /\ checks \subseteq SigCheck
  BY <1>2, <1>5, ChecksType DEF RRType, TypeOK
<1>7. failure_code(child, ChildName, "DNSKEY", "KSK") \in ReasonCode
  BY FailureCodeType
<1>8. \/ NoDNSKEY(dsChecks) \/ DigestThrows(keys, dses) \/ DSMismatch(dsChecks)
      \/ DNSKEYUnverified(child, dsChecks) \/ Descended(child, dsChecks)
      \/ DNSKEYThrows(child)
  BY DEF DNSKEYAnswer
<1> HIDE DEF child, keys, dses, dsChecks
<1>9. ControlTyped /\ chain' \in Seq(ZoneStep) /\ zone' \in Zone
  <2>1. CASE NoDNSKEY(dsChecks)
    BY <2>1, <1>2, <1>6, BogusTyped, AddStepType DEF NoDNSKEY, TypeOK, ReasonCode
  <2>2. CASE DigestThrows(keys, dses)
    BY <2>2, RejectedTyped DEF DigestThrows, Rejection, TypeOK
  <2>3. CASE DSMismatch(dsChecks)
    BY <2>3, <1>2, <1>6, BogusTyped, AddStepType DEF DSMismatch, TypeOK, ReasonCode
  <2>4. CASE DNSKEYUnverified(child, dsChecks)
    BY <2>4, <1>2, <1>6, <1>7, BogusTyped, AddStepType DEF DNSKEYUnverified, TypeOK
  <2>5. CASE Descended(child, dsChecks)
    BY <2>5, <1>1, <1>2, <1>5, <1>6, AskBelowTyped, AddStepType DEF Descended, TypeOK
  <2>6. CASE DNSKEYThrows(child)
    BY <2>6, ThrowsTyped DEF DNSKEYThrows, TypeOK
  <2> QED
    BY <1>8, <2>1, <2>2, <2>3, <2>4, <2>5, <2>6
<1> QED
  BY <1>1, <1>9 DEF TypeOK, ControlTyped, Hop

LEMMA ProofRecords ==
    ASSUME NEW z \in Zone, NEW claim, NEW r \in Proof(z, claim)
    PROVE  r \in RR
BY DEF Proof, Claiming, Zone

LEMMA SecureAnswerTyped ==
    ASSUME TypeOK, Stop, NEW z \in Zone, NEW encloser \in Nat \cup {None},
           NEW proof \in SUBSET RR,
           SecureAnswer(z, encloser, proof)
    PROVE  ControlTyped
<1> DEFINE o == [Pending EXCEPT !.verdict = "secure",
                                !.answer = find_rrset(z, qname, QType),
                                !.encloser = encloser,
                                !.proof = proof]
<1>1. find_rrset(z, qname, QType) \in SUBSET Data
  BY RrsetType
<1>2. o \in Result
  BY <1>1 DEF Pending, Result, Verdict
<1>3. ResolveHop(o)
  BY DEF SecureAnswer
<1> QED
  BY <1>2, <1>3, ResolvedTyped

LEMMA PositiveType ==
    ASSUME TypeOK, state = "walking", NEW z \in Zone, Positive(z)
    PROVE  ControlTyped /\ chain' \in Seq(ZoneStep)
<1>1. CASE CheckThrows(z, qname, QType, "None") /\ UNCHANGED chain
  BY <1>1, ThrowsTyped DEF TypeOK
<1>2. CASE /\ add_step(zone.name, FALSE, LeafChecks(z))
           /\ LeafUnverified(z) \/ LeafSecure(z) \/ LeafWildcard(z)
           /\ Stop
  <2>1. LeafChecks(z) \subseteq SigCheck
    BY ChecksType, QTypeAssumption DEF LeafChecks, TypeOK
  <2>2. zone.name \in Name
    BY DEF TypeOK, Zone
  <2>3. chain' \in Seq(ZoneStep)
    BY <1>2, <2>1, <2>2, AddStepType DEF TypeOK
  <2>4. ASSUME LeafUnverified(z) PROVE ControlTyped
    BY <1>2, <2>2, <2>4, FailureCodeType, BogusTyped DEF LeafUnverified
  <2>5. ASSUME LeafSecure(z) PROVE ControlTyped
    BY <1>2, <2>5, SecureAnswerTyped DEF LeafSecure
  <2>6. ASSUME LeafWildcard(z) PROVE ControlTyped
    <3>1. PICK s \in Synthesised(z) :
            \/ \E r \in Proof(z, Covers(NextCloser(s))) : SecureAnswer(z, s.labels, {r})
            \/ ResolveHop(Bogus(zone.name, "wildcard-proof-missing"))
            \/ Reject("foreign")
      BY <2>6 DEF LeafWildcard
    <3>2. s.labels \in Nat
      BY DEF Synthesised, find_rrsigs, Zone, RRSIG
    <3>3. ASSUME NEW r \in Proof(z, Covers(NextCloser(s))), SecureAnswer(z, s.labels, {r})
          PROVE  ControlTyped
      <4>1. {r} \in SUBSET RR
        BY ProofRecords
      <4> QED
        BY <1>2, <3>2, <3>3, <4>1, SecureAnswerTyped
    <3>4. ASSUME ResolveHop(Bogus(zone.name, "wildcard-proof-missing")) PROVE ControlTyped
      BY <1>2, <2>2, <3>4, BogusTyped DEF ReasonCode
    <3>5. ASSUME Reject("foreign") PROVE ControlTyped
      BY <1>2, <3>5, RejectedTyped DEF Rejection
    <3> QED
      BY <3>1, <3>3, <3>4, <3>5
  <2> QED
    BY <1>2, <2>3, <2>4, <2>5, <2>6
<1> QED
  BY <1>1, <1>2 DEF Positive

LEMMA NegativeOutcomeTyped ==
    ASSUME TypeOK, Stop, NEW v \in Verdict, NEW proof \in SUBSET RR,
           NegativeOutcome(v, proof)
    PROVE  ControlTyped
<1> DEFINE o == [Outcome(v, None, None) EXCEPT !.proof = proof]
<1>1. o \in Result
  BY DEF Outcome, Pending, Result
<1> QED
  BY <1>1, ResolvedTyped DEF NegativeOutcome

LEMMA IndeterminateTyped ==
    ASSUME TypeOK, Stop, Indeterminate
    PROVE  ControlTyped
<1>1. Outcome("indeterminate", None, None) \in Result
  BY DEF Outcome, Pending, Result, Verdict
<1> QED
  BY <1>1, ResolvedTyped DEF Indeterminate

LEMMA NegativeType ==
    ASSUME TypeOK, Stop, NEW z \in Zone, Negative(z)
    PROVE  ControlTyped
<1>1. ASSUME NEW v \in Verdict, NEW c1, NEW c2, NEW r \in Proof(z, c1),
             NEW w \in Proof(z, c2), NegativeOutcome(v, {r, w})
      PROVE  ControlTyped
  <2>1. {r, w} \in SUBSET RR
    BY ProofRecords
  <2> QED
    BY <1>1, <2>1, NegativeOutcomeTyped
<1>2. ASSUME NEW v \in Verdict, NEW c, NEW r \in Proof(z, c), NegativeOutcome(v, {r})
      PROVE  ControlTyped
  <2>1. {r} \in SUBSET RR
    BY ProofRecords
  <2> QED
    BY <1>2, <2>1, NegativeOutcomeTyped
<1>3. ASSUME Reject("foreign") PROVE ControlTyped
  BY <1>3, RejectedTyped DEF Rejection
<1>4. ASSUME NEW r \in Proof(z, Covers(qname)), CoveredBy(z, r) PROVE ControlTyped
  <2> DEFINE wildcard == wildcard_at(qname, EncloserOf(r.owner, r.data, qname))
  <2>1. \/ NegativeOutcome("secure-nodata", {r})
        \/ Indeterminate
        \/ \E w \in Proof(z, NoData(wildcard)) : NegativeOutcome("secure-nodata", {r, w})
        \/ \E w \in Proof(z, Covers(wildcard)) : NegativeOutcome("secure-nxdomain", {r, w})
        \/ Reject("foreign")
    BY <1>4, Zenon DEF CoveredBy
  <2>2. "secure-nodata" \in Verdict /\ "secure-nxdomain" \in Verdict
    BY DEF Verdict
  <2> HIDE DEF wildcard
  <2>3. ASSUME NegativeOutcome("secure-nodata", {r}) PROVE ControlTyped
    BY <1>2, <2>2, <2>3
  <2>4. ASSUME NEW w \in Proof(z, NoData(wildcard)), NegativeOutcome("secure-nodata", {r, w})
        PROVE  ControlTyped
    BY <1>1, <2>2, <2>4
  <2>5. ASSUME NEW w \in Proof(z, Covers(wildcard)), NegativeOutcome("secure-nxdomain", {r, w})
        PROVE  ControlTyped
    BY <1>1, <2>2, <2>5
  <2> QED
    BY <1>3, <2>1, <2>3, <2>4, <2>5, IndeterminateTyped
<1>5. ASSUME NEW r \in Proof(z, NoData(qname)), NegativeOutcome("secure-nodata", {r})
      PROVE  ControlTyped
  BY <1>2, <1>5 DEF Verdict
<1> QED
  BY <1>3, <1>4, <1>5, IndeterminateTyped DEF Negative

\* What a step at a leaf leaves of the hop.
HopTyped ==
    /\ asked' \in Name /\ qname' \in Name /\ seen' \in SUBSET Name
    /\ aliases' \in Seq(AliasStep) /\ combined' \in {None, "secure"}

LEMMA HopUnchanged ==
    ASSUME TypeOK, UNCHANGED Hop
    PROVE  HopTyped
BY DEF TypeOK, Hop, HopTyped

LEMMA NextHopType ==
    ASSUME TypeOK, state = "walking", NEW type \in {"cname", "dname"},
           NEW from \in Name, NEW target \in Name, NextHop(type, from, target)
    PROVE  HopTyped /\ ControlTyped
<1>1. asked' \in Name /\ qname' = target /\ Len(qname') \in Nat
  BY DEF NextHop, TypeOK, Name
<1>2. combined' \in {None, "secure"}
  BY DEF NextHop, CombinedWith, combine_verdicts, TypeOK
<1>3. aliases' \in Seq(AliasStep)
  <2>1. [type |-> type, from |-> from, target |-> target,
         zone |-> zone.name, verdict |-> "secure"] \in AliasStep
    BY DEF AliasStep, Verdict, TypeOK, Zone
  <2> QED
    BY <2>1 DEF NextHop, TypeOK
<1>4. seen' \in SUBSET Name
  BY DEF NextHop, TypeOK
<1>5. ControlTyped
  <2>1. ASSUME NEW code \in ReasonCode, Resolve(Bogus(target, code)), Stop PROVE ControlTyped
    BY <2>1, BogusType, SettledTyped DEF Resolve
  <2>2. ASSUME Reject("chain-timeout"), Stop PROVE ControlTyped
    BY <2>2, RejectedTyped DEF Rejection
  <2>3. ASSUME Ask("root", 0) PROVE ControlTyped
    BY <1>1, <2>3, AskTyped DEF Step
  <2>4. \/ Resolve(Bogus(target, "alias-limit")) /\ Stop
        \/ Reject("chain-timeout") /\ Stop
        \/ Resolve(Bogus(target, "alias-loop")) /\ Stop
        \/ Ask("root", 0)
    BY DEF NextHop
  <2>5. "alias-limit" \in ReasonCode /\ "alias-loop" \in ReasonCode
    BY DEF ReasonCode
  <2> QED
    BY <2>1, <2>2, <2>3, <2>4, <2>5
<1> QED
  BY <1>1, <1>2, <1>3, <1>4, <1>5 DEF HopTyped

LEMMA RedirectType ==
    ASSUME TypeOK, state = "walking", NEW z \in Zone, NEW type \in {"cname", "dname"},
           NEW owner \in Name, NEW rtype \in RRType, NEW target, NEW next \in Name,
           Redirect(z, type, owner, rtype, target, next)
    PROVE  HopTyped /\ ControlTyped /\ chain' \in Seq(ZoneStep)
<1> DEFINE cs == sig_checks(z, owner, rtype, "None")
<1>1. cs \subseteq SigCheck /\ zone.name \in Name
  BY ChecksType DEF TypeOK, Zone
<1>2. failure_code(z, owner, rtype, "None") \in ReasonCode
  BY FailureCodeType
<1>3. ASSUME add_step(zone.name, FALSE, cs) PROVE chain' \in Seq(ZoneStep)
  BY <1>1, <1>3, AddStepType DEF TypeOK
<1>4. CASE /\ ResolveHop(Bogus(owner, "alias-target-invalid"))
           /\ Stop /\ UNCHANGED <<Hop, chain>>
  BY <1>4, BogusTyped, HopUnchanged DEF ReasonCode, TypeOK
<1>5. CASE CheckThrows(z, owner, rtype, "None") /\ UNCHANGED <<Hop, chain>>
  BY <1>5, ThrowsTyped, HopUnchanged DEF TypeOK
<1>6. CASE /\ add_step(zone.name, FALSE, cs)
           /\ ResolveHop(Bogus(zone.name, failure_code(z, owner, rtype, "None")))
           /\ Stop /\ UNCHANGED Hop
  BY <1>1, <1>2, <1>3, <1>6, BogusTyped, HopUnchanged
<1>7. CASE add_step(zone.name, FALSE, cs) /\ NextHop(type, owner, next)
  BY <1>3, <1>7, NextHopType
<1> QED
  BY <1>4, <1>5, <1>6, <1>7 DEF Redirect

LEMMA SynthesiseType ==
    ASSUME NEW n \in Name, NEW d \in 0 .. Len(n), NEW target \in Name
    PROVE  synthesise(n, d, target) \in Name
<1>1. d + 1 \in 1 .. Len(n) + 1 /\ Len(n) \in Nat
  BY DEF Name
<1>2. SubSeq(n, d + 1, Len(n)) \in Seq(Label)
  BY <1>1, SubSeqProperties DEF Name
<1> QED
  BY <1>2, ConcatProperties DEF synthesise, Name

LEMMA LeafType ==
    ASSUME TypeOK, NEW resp \in Responses, LeafAnswer(resp)
    PROVE  TypeOK'
<1> DEFINE z == Loaded(zone, resp)
<1>1. z \in Zone
  BY AskedZoneType DEF TypeOK
<1>2. state = "walking" /\ zone' = NoZone /\ UNCHANGED aborted
  BY DEF LeafAnswer, Walking
<1>3. \/ Positive(z) /\ UNCHANGED Hop
      \/ try_dname(z)
      \/ try_cname(z)
      \/ Negative(z) /\ Stop /\ UNCHANGED <<Hop, chain>>
  BY DEF LeafAnswer
<1> HIDE DEF z
<1>4. HopTyped /\ ControlTyped /\ chain' \in Seq(ZoneStep)
  <2>1. CASE Positive(z) /\ UNCHANGED Hop
    BY <1>1, <1>2, <2>1, PositiveType, HopUnchanged
  <2>2. CASE try_dname(z)
    <3>1. PICK d \in DnameDepths(z) : \E r \in find_rrset(z, Ancestor(qname, d), "DNAME") :
            Redirect(z, "dname", Ancestor(qname, d), "DNAME",
                     Target(r), synthesise(qname, d, Target(r)))
      BY <2>2 DEF try_dname
    <3>2. PICK r \in find_rrset(z, Ancestor(qname, d), "DNAME") :
            Redirect(z, "dname", Ancestor(qname, d), "DNAME",
                     Target(r), synthesise(qname, d, Target(r)))
      BY <3>1
    <3>3. qname \in Name /\ d \in 0 .. Len(qname)
      BY DEF TypeOK, Name, DnameDepths
    <3>4. Target(r) \in Name
      BY <1>1, RrsetType, TargetAssumption
    <3>5. Ancestor(qname, d) \in Name /\ synthesise(qname, d, Target(r)) \in Name
      BY <3>3, <3>4, AncestorType, SynthesiseType
    <3> QED
      BY <1>1, <1>2, <3>2, <3>5, RedirectType DEF RRType
  <2>3. CASE try_cname(z)
    <3>1. PICK r \in find_rrset(z, qname, "CNAME") :
            Redirect(z, "cname", qname, "CNAME", Target(r), Target(r))
      BY <2>3 DEF try_cname
    <3>2. qname \in Name /\ Target(r) \in Name
      BY <1>1, RrsetType, TargetAssumption DEF TypeOK
    <3> QED
      BY <1>1, <1>2, <3>1, <3>2, RedirectType DEF RRType
  <2>4. CASE Negative(z) /\ Stop /\ UNCHANGED <<Hop, chain>>
    BY <1>1, <2>4, NegativeType, HopUnchanged DEF TypeOK
  <2> QED
    BY <1>3, <2>1, <2>2, <2>3, <2>4
<1> QED
  BY <1>2, <1>4, NoZoneType DEF TypeOK, ControlTyped, HopTyped

-----------------------------------------------------------------------------
(* Type correctness *)

LEMMA InitType ==
    ASSUME Init
    PROVE  TypeOK
<1>1. <<>> \in Seq(AliasStep) /\ <<>> \in Seq(ZoneStep) /\ {} \in SUBSET Name
  OBVIOUS
<1>2. state # "walking"
  BY DEF Init
<1> QED
  BY <1>1, <1>2, RootIsName, NoZoneType, PendingType DEF Init, TypeOK, Step

LEMMA StepType ==
    ASSUME TypeOK, [Next]_vars
    PROVE  TypeOK'
<1>1. CASE \E n \in QNames : Call(n)
  <2>1. PICK n \in QNames : Call(n)
    BY <1>1
  <2>2. n \in Name
    BY QNamesAssumption
  <2>3. CASE aborted
    BY <2>1, <2>3, RejectType DEF Call, TypeOK, Rejection
  <2>4. CASE ~aborted
    <3>1. depth' = 0 /\ 0 <= Len(n)
      BY <2>1, <2>2 DEF Call, TypeOK, Name
    <3> QED
      BY <2>1, <2>2, <2>4, <3>1 DEF Call, TypeOK, Step
  <2> QED
    BY <2>3, <2>4
<1>2. CASE CallEmpty
  BY <1>2, RejectType DEF CallEmpty, TypeOK, walk, Rejection
<1>3. CASE Abort
  BY <1>3 DEF Abort, TypeOK, walk
<1>4. CASE Answered
  BY <1>4, RootType, DSType, DNSKEYType, LeafType DEF Answered
<1>5. CASE BadRcode
  BY <1>5, RejectType DEF BadRcode, TypeOK, walk, Rejection
<1>6. CASE \E abortError \in BOOLEAN : QueryThrows(abortError)
  BY <1>6, RejectType DEF QueryThrows, TypeOK, walk, Rejection
<1>7. CASE UNCHANGED vars
  BY <1>7 DEF vars, TypeOK
<1> QED
  BY <1>1, <1>2, <1>3, <1>4, <1>5, <1>6, <1>7 DEF Next, Failed

\* The walk's variables keep their shape, and no descent passes qname:
\* whatever a resolver answers, validate() never asks for a name longer than
\* the one it walks to.
THEOREM TypeCorrect == Spec => []TypeOK
<1>1. Init => TypeOK
  BY InitType
<1>2. TypeOK /\ [Next]_vars => TypeOK'
  BY StepType
<1> QED
  BY <1>1, <1>2, PTL DEF Spec

-----------------------------------------------------------------------------
(* Authenticity: the invariant *)

\* The zone holds DNSKEY records of its own operator and no others.
OwnKeys(z) ==
    \A r \in z.rrs : r.type = "DNSKEY" => r.owner = z.name /\ r.data \in KeysOf(z.name)

\* While a descent is under way, the zone it stands in lies on the way to
\* qname and holds only its own keys; and once a DS rrset has been verified
\* it names only keys of the child's operator (or none at all).
KeysInv ==
    state = "walking" /\ step # "root" =>
        /\ zone.name \in Ancestors(qname)
        /\ OwnKeys(zone)
        /\ step = "dnskey" =>
            find_rrset(zone, ChildName, "DS") \subseteq KeysOf(ChildName) \cup OddDigest

-----------------------------------------------------------------------------
(* Signatures that verify *)

\* What check_rrsig found when it returned "verified".
LEMMA VerifiedSig ==
    ASSUME NEW z \in Zone, NEW n, NEW t, NEW mode, rrset_verified(z, n, t, mode)
    PROVE  \E s \in find_rrsigs(z, n, t) :
            /\ s \in RRSIG /\ s.covered = t
            /\ s.key \in keys_for_mode(z, find_dnskeys(z, s.signer, TagOf(s.key)), mode)
            /\ s.over = find_rrset(z, n, t)
            /\ s.of = signed_owner(n, s.labels)
<1>1. PICK s \in find_rrsigs(z, n, t) : check_rrsig(z, s, mode).status = "verified"
  BY DEF rrset_verified, Statuses
<1>2. s \in z.sigs /\ s.owner = n /\ s.covered = t
  BY DEF find_rrsigs
<1>3. s \in RRSIG
  BY <1>2 DEF Zone
<1>4. /\ s.key \in keys_for_mode(z, find_dnskeys(z, s.signer, TagOf(s.key)), mode)
      /\ s.over = find_rrset(z, n, t)
      /\ s.of = signed_owner(n, s.labels)
  BY <1>1, <1>2 DEF check_rrsig, SigVerdict
<1> QED
  BY <1>2, <1>3, <1>4

\* In a zone that holds only its own keys, an rrset that verifies is one the
\* zone's operator signed, at its owner or a wildcard above it; and at its
\* owner if no signature there has a Labels field that says otherwise.
LEMMA VerifiedIsSigned ==
    ASSUME NEW z \in Zone, OwnKeys(z), NEW n \in Name, NEW t, NEW mode,
           rrset_verified(z, n, t, mode)
    PROVE  /\ SignedBy(z.name, n, t, find_rrset(z, n, t))
           /\ (\A s \in find_rrsigs(z, n, t) : ~(s.labels < Len(n)))
                => find_rrset(z, n, t) \in ZoneSigns(z.name, n, t)
<1>1. PICK s \in find_rrsigs(z, n, t) :
        /\ s \in RRSIG /\ s.covered = t
        /\ s.key \in keys_for_mode(z, find_dnskeys(z, s.signer, TagOf(s.key)), mode)
        /\ s.over = find_rrset(z, n, t)
        /\ s.of = signed_owner(n, s.labels)
  BY VerifiedSig
<1>2. \E r \in z.rrs : r.type = "DNSKEY" /\ r.owner = s.signer /\ r.data = s.key
  BY <1>1 DEF keys_for_mode, find_dnskeys, find_rrset
<1>3. s.signer = z.name /\ s.key \in KeysOf(z.name)
  BY <1>2 DEF OwnKeys
<1>4. find_rrset(z, n, t) \in ZoneSigns(z.name, s.of, t)
  BY <1>1, <1>3 DEF RRSIG
<1>5. s.of \in SignedOwners(n)
  BY <1>1, SignedOwnerListed DEF RRSIG
<1>6. ~(s.labels < Len(n)) => s.of = n
  BY <1>1 DEF signed_owner
<1> QED
  BY <1>4, <1>5, <1>6 DEF SignedBy

\* A DNSKEY rrset that a trusted key of the zone's own operator signed is a
\* set of that operator's keys.
LEMMA TrustedKeySignsOwnKeys ==
    ASSUME NEW z \in Zone, \A r \in z.rrs : r.type = "DNSKEY" => r.owner = z.name,
           z.trusted \subseteq KeysOf(z.name), rrset_verified(z, z.name, "DNSKEY", "KSK")
    PROVE  OwnKeys(z)
<1>1. PICK s \in find_rrsigs(z, z.name, "DNSKEY") :
        /\ s \in RRSIG /\ s.covered = "DNSKEY"
        /\ s.key \in keys_for_mode(z, find_dnskeys(z, s.signer, TagOf(s.key)), "KSK")
        /\ s.over = find_rrset(z, z.name, "DNSKEY")
        /\ s.of = signed_owner(z.name, s.labels)
  BY VerifiedSig
<1>2. s.key \in z.trusted /\ s.signer = z.name
  BY <1>1 DEF keys_for_mode, find_dnskeys, find_rrset
<1>3. find_rrset(z, z.name, "DNSKEY") \in ZoneSigns(z.name, s.of, "DNSKEY")
  BY <1>1, <1>2 DEF RRSIG
<1>4. find_rrset(z, z.name, "DNSKEY") \subseteq KeysOf(z.name)
  BY <1>3 DEF ZoneSigns
<1> QED
  BY <1>4 DEF OwnKeys, find_rrset

LEMMA WildcardHasNoKeys ==
    ASSUME NEW n \in Name, NEW l \in 0 .. Len(n)
    PROVE  KeysOf(wildcard_at(n, l)) = {}
<1> DEFINE w == wildcard_at(n, l)
<1>1. Ancestor(n, l) \in Seq(Label) /\ Len(Ancestor(n, l)) = l
  BY AncestorType DEF Name
<1>2. Len(w) = l + 1 /\ w[Len(w)] = Star
  BY <1>1 DEF wildcard_at
<1>3. w # Root
  BY <1>2 DEF Root
<1>4. w \notin DOMAIN ZoneKeys
  BY <1>2, <1>3, ZoneAssumption
<1> QED
  BY <1>4 DEF KeysOf

\* A DS rrset the parent signed names keys of the child's operator.
LEMMA SignedDSNamesChild ==
    ASSUME NEW z \in Name, NEW n \in Name, NEW dses, SignedBy(z, n, "DS", dses)
    PROVE  dses \subseteq KeysOf(n) \cup OddDigest
<1>1. PICK l \in 0 .. Len(n) : dses \in ZoneSigns(z, signed_owner(n, l), "DS")
  BY DEF SignedBy, SignedOwners
<1>2. dses \subseteq KeysOf(signed_owner(n, l)) \cup OddDigest
  BY <1>1 DEF ZoneSigns
<1>3. CASE l < Len(n)
  BY <1>2, <1>3, WildcardHasNoKeys DEF signed_owner
<1>4. CASE ~(l < Len(n))
  BY <1>2, <1>4 DEF signed_owner
<1> QED
  BY <1>3, <1>4

-----------------------------------------------------------------------------
(* The chain of trust *)

\* An answer to any other query brings a zone no DNSKEY record.
LEMMA LoadedKeepsKeys ==
    ASSUME NEW z \in Zone, OwnKeys(z), NEW resp \in Responses,
           Asked[2] = "DNSKEY" => ~Matches(resp, Asked[1], "DNSKEY")
    PROVE  OwnKeys(Loaded(z, resp))
<1>1. Loaded(z, resp).name = z.name
  BY DEF Loaded, apply_records, Zone
<1>2. \A r \in Loaded(z, resp).rrs :
        r.type = "DNSKEY" => \/ r \in z.rrs
                             \/ Asked[2] = "DNSKEY" /\ r \in resp.rrs /\ r.owner = Asked[1]
  BY DEF Loaded, apply_records, Zone
<1> QED
  BY <1>1, <1>2 DEF OwnKeys, Matches

\* Loading the answer to a DNSKEY query into an empty zone brings the
\* DNSKEY records of that name only.
LEMMA LoadedKeys ==
    ASSUME NEW z \in Zone, z.rrs = {}, NEW resp \in Responses
    PROVE  \A r \in Loaded(z, resp).rrs : r.type = "DNSKEY" => r.owner = Asked[1]
BY DEF Loaded, apply_records, Zone

\* AskBelow asks for a DS rrset or the leaf, or settles.
LEMMA AskBelowKeeps ==
    ASSUME NEW d, AskBelow(d), state = "walking", zone'.name \in Ancestors(qname'), OwnKeys(zone)'
    PROVE  KeysInv'
BY DEF AskBelow, Ask, Reject, KeysInv

LEMMA SettledKeeps ==
    ASSUME state' \in {"resolved", "rejected"}
    PROVE  KeysInv'
BY DEF KeysInv

LEMMA ResolveHopSettles ==
    ASSUME NEW o, ResolveHop(o)
    PROVE  state' = "resolved"
BY DEF ResolveHop, Resolve

LEMMA ThrowsSettles ==
    ASSUME NEW z, NEW n, NEW t, NEW mode, CheckThrows(z, n, t, mode)
    PROVE  state' = "rejected"
BY DEF CheckThrows, Reject

LEMMA RootKeeps ==
    ASSUME TypeOK, NEW resp \in Responses, RootAnswer(resp)
    PROVE  KeysInv'
<1> DEFINE loaded == Loaded(NoZone, resp)
           z == [loaded EXCEPT !.trusted = find_rrset(loaded, Root, "DNSKEY") \cap Anchors]
<1>1. state = "walking" /\ step = "root" /\ zone' = z /\ qname' = qname
  BY DEF RootAnswer, Walking, Hop
<1>2. Asked[1] = Root
  BY <1>1 DEF Asked
<1>3. loaded \in Zone /\ loaded.name = Root
  BY AskedZoneType, NoZoneType DEF NoZone
<1>4. z \in Zone
  <2>1. find_rrset(loaded, Root, "DNSKEY") \subseteq Key
    BY <1>3 DEF find_rrset, Zone, RR
  <2> QED
    BY <1>3, <2>1 DEF Zone
<1>5. /\ z.name = Root /\ z.trusted \subseteq KeysOf(Root)
      /\ \A r \in z.rrs : r.type = "DNSKEY" => r.owner = Root
  <2>1. \A r \in loaded.rrs : r.type = "DNSKEY" => r.owner = Root
    BY <1>2, NoZoneType, LoadedKeys DEF NoZone
  <2>2. z.name = loaded.name /\ z.rrs = loaded.rrs /\ z.trusted \subseteq Anchors
    BY <1>3 DEF Zone
  <2> QED
    BY <1>3, <2>1, <2>2, AnchorAssumption
<1>6. Root \in Ancestors(qname)
  <2>1. Root = Ancestor(qname, 0) /\ 0 \in 0 .. Len(qname)
    BY DEF Root, Ancestor, TypeOK, Name
  <2> QED
    BY <2>1 DEF Ancestors
<1>7. RootMismatch(z) \/ RootUnverified(z) \/ RootVerified(z) \/ RootThrows(z)
  BY DEF RootAnswer
<1> HIDE DEF z, loaded
<1>8. CASE RootMismatch(z)
  BY <1>8, ResolveHopSettles, SettledKeeps DEF RootMismatch
<1>9. CASE RootUnverified(z)
  BY <1>9, ResolveHopSettles, SettledKeeps DEF RootUnverified
<1>10. CASE RootVerified(z)
  <2>1. OwnKeys(z)
    BY <1>4, <1>5, <1>10, TrustedKeySignsOwnKeys DEF RootVerified
  <2>2. OwnKeys(zone)'
    BY <1>1, <2>1 DEF OwnKeys
  <2> QED
    BY <1>1, <1>5, <1>6, <1>10, <2>2, AskBelowKeeps DEF RootVerified
<1>11. CASE RootThrows(z)
  BY <1>11, ThrowsSettles, SettledKeeps DEF RootThrows
<1> QED
  BY <1>7, <1>8, <1>9, <1>10, <1>11

LEMMA DSKeeps ==
    ASSUME TypeOK, KeysInv, NEW resp \in Responses, DSAnswer(resp)
    PROVE  KeysInv'
<1> DEFINE z == Loaded(zone, resp)
<1>1. state = "walking" /\ step = "ds" /\ zone' = z /\ qname' = qname
  BY DEF DSAnswer, Walking, Hop
<1>2. z \in Zone /\ z.name = zone.name
  BY AskedZoneType DEF TypeOK
<1>3. zone.name \in Ancestors(qname) /\ OwnKeys(zone)
  BY <1>1 DEF KeysInv
<1>4. OwnKeys(z)
  <2>1. Asked[2] = "DS"
    BY <1>1 DEF Asked
  <2> QED
    BY <1>3, <2>1, LoadedKeepsKeys DEF TypeOK
<1>5. OwnKeys(zone)' /\ zone'.name \in Ancestors(qname')
  BY <1>1, <1>2, <1>3, <1>4 DEF OwnKeys
<1>6. \/ DSUnverified(z) \/ DSVerified(z) \/ DSThrows(z)
      \/ NoCut(z) \/ InsecureDelegation(z) \/ NoDSProofThrows(z)
  BY DEF DSAnswer
<1> HIDE DEF z
<1>7. CASE DSUnverified(z)
  BY <1>7, ResolveHopSettles, SettledKeeps DEF DSUnverified
<1>8. CASE DSVerified(z)
  <2>1. ChildName \in Name
    BY <1>1, ChildType
  <2>2. find_rrset(z, ChildName, "DS") \subseteq KeysOf(ChildName) \cup OddDigest
    BY <1>2, <1>4, <1>8, <2>1, VerifiedIsSigned, SignedDSNamesChild DEF DSVerified, Zone
  <2>3. CASE aborted
    BY <1>8, <2>3, SettledKeeps DEF DSVerified, Ask, Reject
  <2>4. CASE ~aborted
    <3>1. state' = "walking" /\ step' = "dnskey" /\ depth' = depth
      BY <1>1, <1>8, <2>4 DEF DSVerified, Ask
    <3>2. ChildName' = ChildName
      BY <1>1, <3>1 DEF ChildName
    <3>3. find_rrset(zone, ChildName, "DS")' = find_rrset(z, ChildName, "DS")
      BY <1>1, <3>2 DEF find_rrset
    <3>4. KeysOf(ChildName)' = KeysOf(ChildName)
      BY <3>2 DEF KeysOf
    <3> QED
      BY <1>5, <2>2, <3>3, <3>4 DEF KeysInv
  <2> QED
    BY <2>3, <2>4
<1>9. CASE DSThrows(z)
  BY <1>9, ThrowsSettles, SettledKeeps DEF DSThrows
<1>10. CASE NoCut(z)
  BY <1>1, <1>5, <1>10, AskBelowKeeps DEF NoCut
<1>11. CASE InsecureDelegation(z)
  BY <1>11, ResolveHopSettles, SettledKeeps DEF InsecureDelegation
<1>12. CASE NoDSProofThrows(z)
  BY <1>12, SettledKeeps DEF NoDSProofThrows, Reject
<1> QED
  BY <1>6, <1>7, <1>8, <1>9, <1>10, <1>11, <1>12

LEMMA DNSKEYKeeps ==
    ASSUME TypeOK, KeysInv, NEW resp \in Responses, DNSKEYAnswer(resp)
    PROVE  KeysInv'
<1> DEFINE loaded   == Loaded([NoZone EXCEPT !.name = ChildName], resp)
           keys     == find_rrset(loaded, ChildName, "DNSKEY")
           dses     == find_rrset(zone, ChildName, "DS")
           child    == [loaded EXCEPT !.trusted = keys \cap dses]
           dsChecks == sig_checks(zone, ChildName, "DS", "None")
<1>1. state = "walking" /\ step = "dnskey" /\ qname' = qname
  BY DEF DNSKEYAnswer, Walking, Hop
<1>2. ChildName \in Name /\ ChildName \in Ancestors(qname)
  <2>1. depth \in 0 .. Len(qname)
    BY <1>1, ChildType
  <2> QED
    BY <1>1, <2>1, ChildType DEF Ancestors, ChildName
<1>3. dses \subseteq KeysOf(ChildName) \cup OddDigest
  BY <1>1 DEF KeysInv
<1>4. /\ loaded \in Zone /\ loaded.name = ChildName
      /\ \A r \in loaded.rrs : r.type = "DNSKEY" => r.owner = ChildName
  <2> DEFINE empty == [NoZone EXCEPT !.name = ChildName]
  <2>1. empty \in Zone /\ empty.name = ChildName /\ empty.rrs = {}
    BY <1>2, NoZoneType DEF Zone, NoZone
  <2>2. Asked[1] = ChildName
    BY <1>1 DEF Asked
  <2> HIDE DEF empty
  <2>3. /\ Loaded(empty, resp) \in Zone /\ Loaded(empty, resp).name = ChildName
        /\ \A r \in Loaded(empty, resp).rrs : r.type = "DNSKEY" => r.owner = ChildName
    BY <2>1, <2>2, AskedZoneType, LoadedKeys
  <2> QED
    BY <2>3 DEF empty
<1>5. keys \subseteq Key
  BY <1>4 DEF find_rrset, Zone, RR
<1>6. keys \cap dses \subseteq KeysOf(ChildName)
  BY <1>3, <1>5, DigestAssumption
<1>7. /\ child \in Zone /\ child.name = ChildName /\ child.trusted \subseteq KeysOf(ChildName)
      /\ \A r \in child.rrs : r.type = "DNSKEY" => r.owner = ChildName
  BY <1>4, <1>5, <1>6 DEF Zone
<1>8. \/ NoDNSKEY(dsChecks) \/ DigestThrows(keys, dses) \/ DSMismatch(dsChecks)
      \/ DNSKEYUnverified(child, dsChecks) \/ Descended(child, dsChecks)
      \/ DNSKEYThrows(child)
  BY DEF DNSKEYAnswer
<1> HIDE DEF child, keys, dses, dsChecks
<1>9. CASE NoDNSKEY(dsChecks)
  BY <1>9, ResolveHopSettles, SettledKeeps DEF NoDNSKEY
<1>10. CASE DigestThrows(keys, dses)
  BY <1>10, SettledKeeps DEF DigestThrows, Reject
<1>11. CASE DSMismatch(dsChecks)
  BY <1>11, ResolveHopSettles, SettledKeeps DEF DSMismatch
<1>12. CASE DNSKEYUnverified(child, dsChecks)
  BY <1>12, ResolveHopSettles, SettledKeeps DEF DNSKEYUnverified
<1>13. CASE Descended(child, dsChecks)
  <2>1. OwnKeys(child) /\ zone' = child
    BY <1>7, <1>13, TrustedKeySignsOwnKeys DEF Descended
  <2>2. OwnKeys(zone)'
    BY <2>1 DEF OwnKeys
  <2> QED
    BY <1>1, <1>2, <1>7, <1>13, <2>1, <2>2, AskBelowKeeps DEF Descended
<1>14. CASE DNSKEYThrows(child)
  BY <1>14, ThrowsSettles, SettledKeeps DEF DNSKEYThrows
<1> QED
  BY <1>8, <1>9, <1>10, <1>11, <1>12, <1>13, <1>14

\* Where a leaf's answer leaves the walk: settled, or at the root again.
LEMMA PositiveSettles ==
    ASSUME NEW z, Positive(z)
    PROVE  state' \in {"resolved", "rejected"}
BY DEF Positive, LeafUnverified, LeafSecure, LeafWildcard, SecureAnswer,
       ResolveHop, Resolve, Reject, CheckThrows

LEMMA NegativeSettles ==
    ASSUME NEW z, Negative(z)
    PROVE  state' \in {"resolved", "rejected"}
<1>1. ASSUME NEW r, CoveredBy(z, r) PROVE state' \in {"resolved", "rejected"}
  BY <1>1 DEF CoveredBy, NegativeOutcome, Indeterminate, ResolveHop, Resolve, Reject
<1> QED
  BY <1>1 DEF Negative, NegativeOutcome, Indeterminate, ResolveHop, Resolve, Reject

LEMMA RedirectSettles ==
    ASSUME NEW z, NEW type, NEW owner, NEW rtype, NEW target, NEW next,
           Redirect(z, type, owner, rtype, target, next)
    PROVE  state' \in {"resolved", "rejected"} \/ step' = "root"
BY DEF Redirect, NextHop, Ask, ResolveHop, Resolve, Reject, CheckThrows

LEMMA LeafKeeps ==
    ASSUME NEW resp, LeafAnswer(resp)
    PROVE  KeysInv'
<1> DEFINE z == Loaded(zone, resp)
<1>1. Positive(z) \/ try_dname(z) \/ try_cname(z) \/ Negative(z)
  BY DEF LeafAnswer
<1> HIDE DEF z
<1>2. CASE Positive(z)
  BY <1>2, PositiveSettles, SettledKeeps
<1>3. CASE Negative(z)
  BY <1>3, NegativeSettles, SettledKeeps
<1>4. CASE try_dname(z) \/ try_cname(z)
  <2>1. state' \in {"resolved", "rejected"} \/ step' = "root"
    BY <1>4, RedirectSettles DEF try_dname, try_cname
  <2> QED
    BY <2>1 DEF KeysInv
<1> QED
  BY <1>1, <1>2, <1>3, <1>4

LEMMA KeysStep ==
    ASSUME TypeOK, KeysInv, [Next]_vars
    PROVE  KeysInv'
<1>1. CASE \E n \in QNames : Call(n)
  BY <1>1 DEF Call, KeysInv, Reject
<1>2. CASE CallEmpty \/ Failed
  BY <1>2, SettledKeeps DEF CallEmpty, Failed, BadRcode, QueryThrows, Reject
<1>3. CASE Abort \/ UNCHANGED vars
  <2>1. UNCHANGED <<state, step, depth, qname, zone>>
    BY <1>3 DEF Abort, walk, vars
  <2> QED
    BY <2>1 DEF KeysInv, OwnKeys, ChildName
<1>4. CASE Answered
  BY <1>4, RootKeeps, DSKeeps, DNSKEYKeeps, LeafKeeps DEF Answered
<1> QED
  BY <1>1, <1>2, <1>3, <1>4 DEF Next

\* The chain of trust holds throughout a call: the zone the walk stands in
\* holds no key but its own operator's.
THEOREM KeysAuthentic == Spec => [](TypeOK /\ KeysInv)
<1>1. Init => TypeOK /\ KeysInv
  BY InitType DEF Init, KeysInv
<1>2. TypeOK /\ KeysInv /\ [Next]_vars => TypeOK' /\ KeysInv'
  BY StepType, KeysStep
<1> QED
  BY <1>1, <1>2, PTL DEF Spec

-----------------------------------------------------------------------------
(* Positive answers and denials *)

\* A record that proves a claim was published by a zone on the way to qname.
LEMMA ProofIsGenuine ==
    ASSUME NEW z \in Zone, OwnKeys(z), z.name \in Ancestors(qname), qname' = qname,
           NEW claim, NEW r \in Proof(z, claim), r \in result'.proof
    PROVE  r \in Genuine' /\ claim \in Denies(r.owner, r.data)
<1>1. r \in z.rrs /\ r.type = "NSEC" /\ claim \in Denies(r.owner, r.data)
  BY DEF Proof, Claiming
<1>2. r.owner \in Name /\ r.data \in Data
  BY <1>1 DEF Zone, RR
<1>3. SignedBy(z.name, r.owner, "NSEC", find_rrset(z, r.owner, "NSEC"))
  BY <1>2, VerifiedIsSigned DEF Proof
<1>4. PICK owner \in SignedOwners(r.owner) :
        find_rrset(z, r.owner, "NSEC") \in ZoneSigns(z.name, owner, "NSEC")
  BY <1>3 DEF SignedBy
<1>5. r.data \in find_rrset(z, r.owner, "NSEC")
  BY <1>1 DEF find_rrset
<1>6. z.name \in Ancestors(qname')
  OBVIOUS
<1>7. r \in Genuine'
  BY <1>4, <1>5, <1>6 DEF Genuine
<1> QED
  BY <1>1, <1>7

\* What the two properties below ask of a step that settles otherwise.
LEMMA NothingClaimed ==
    ASSUME state' = "resolved" => result'.verdict \in {"bogus", "indeterminate"}
    PROVE  AnswerAuthentic' /\ DenialAuthentic'
BY DEF AnswerAuthentic, DenialAuthentic

LEMMA BogusVerdict ==
    ASSUME NEW n, NEW code, ResolveHop(Bogus(n, code))
    PROVE  result'.verdict = "bogus"
<1>1. CombinedWith("bogus") = "bogus"
  BY DEF CombinedWith, combine_verdicts
<1>2. Bogus(n, code).verdict = "bogus"
  BY DEF Bogus, Outcome, Pending
<1> QED
  BY <1>1, <1>2 DEF ResolveHop, Resolve, Bogus, Outcome, Pending

LEMMA SecureAnswerGives ==
    ASSUME TypeOK, NEW z, NEW encloser, NEW proof, SecureAnswer(z, encloser, proof)
    PROVE  /\ result'.verdict = "secure"
           /\ result'.answer = find_rrset(z, qname, QType)
           /\ result'.encloser = encloser
           /\ result'.proof = proof
<1>1. CombinedWith("secure") = "secure"
  BY DEF CombinedWith, combine_verdicts, TypeOK
<1> QED
  BY <1>1 DEF SecureAnswer, ResolveHop, Resolve, Pending

LEMMA NegativeOutcomeGives ==
    ASSUME TypeOK, NEW v \in {"secure-nodata", "secure-nxdomain"}, NEW proof, NegativeOutcome(v, proof)
    PROVE  result'.verdict = v /\ result'.proof = proof
<1>1. CombinedWith(v) = v
  BY DEF CombinedWith, combine_verdicts, TypeOK
<1> QED
  BY <1>1 DEF NegativeOutcome, Outcome, ResolveHop, Resolve, Pending

LEMMA InsecureGives ==
    ASSUME TypeOK, NEW n, NEW proof,
           ResolveHop([Outcome("insecure", "no-ds", n) EXCEPT !.proof = proof])
    PROVE  result'.verdict = "insecure" /\ result'.at = n /\ result'.proof = proof
<1>1. CombinedWith("insecure") = "insecure"
  BY DEF CombinedWith, combine_verdicts, TypeOK
<1> QED
  BY <1>1 DEF Outcome, ResolveHop, Resolve, Pending

LEMMA IndeterminateGives ==
    ASSUME TypeOK, Indeterminate
    PROVE  result'.verdict = "indeterminate"
<1>1. CombinedWith("indeterminate") = "indeterminate"
  BY DEF CombinedWith, combine_verdicts, TypeOK
<1> QED
  BY <1>1 DEF Indeterminate, Outcome, ResolveHop, Resolve, Pending

LEMMA RootClaims ==
    ASSUME NEW resp, RootAnswer(resp)
    PROVE  AnswerAuthentic' /\ DenialAuthentic'
<1> DEFINE loaded == Loaded(NoZone, resp)
           z == [loaded EXCEPT !.trusted = find_rrset(loaded, Root, "DNSKEY") \cap Anchors]
<1>1. RootMismatch(z) \/ RootUnverified(z) \/ RootVerified(z) \/ RootThrows(z)
  BY DEF RootAnswer
<1>2. state = "walking"
  BY DEF RootAnswer, Walking
<1> HIDE DEF z
<1>3. CASE RootMismatch(z) \/ RootUnverified(z)
  BY <1>3, BogusVerdict, NothingClaimed DEF RootMismatch, RootUnverified
<1>4. CASE RootVerified(z)
  BY <1>2, <1>4, NothingClaimed DEF RootVerified, AskBelow, Ask, Reject
<1>5. CASE RootThrows(z)
  BY <1>5, ThrowsSettles, NothingClaimed DEF RootThrows
<1> QED
  BY <1>1, <1>3, <1>4, <1>5

LEMMA DSClaims ==
    ASSUME TypeOK, KeysInv, NEW resp \in Responses, DSAnswer(resp)
    PROVE  AnswerAuthentic' /\ DenialAuthentic'
<1> DEFINE z == Loaded(zone, resp)
<1>1. state = "walking" /\ step = "ds" /\ qname' = qname
  BY DEF DSAnswer, Walking, Hop
<1>2. z \in Zone /\ z.name = zone.name
  BY AskedZoneType DEF TypeOK
<1>3. z.name \in Ancestors(qname) /\ OwnKeys(z)
  <2>1. Asked[2] = "DS"
    BY <1>1 DEF Asked
  <2>2. zone.name \in Ancestors(qname) /\ OwnKeys(zone)
    BY <1>1 DEF KeysInv
  <2> QED
    BY <1>2, <2>1, <2>2, LoadedKeepsKeys DEF TypeOK
<1>4. \/ DSUnverified(z) \/ DSVerified(z) \/ DSThrows(z)
      \/ NoCut(z) \/ InsecureDelegation(z) \/ NoDSProofThrows(z)
  BY DEF DSAnswer
<1> HIDE DEF z
<1>5. CASE DSUnverified(z)
  BY <1>5, BogusVerdict, NothingClaimed DEF DSUnverified
<1>6. CASE DSVerified(z) \/ NoCut(z)
  BY <1>1, <1>6, NothingClaimed DEF DSVerified, NoCut, AskBelow, Ask, Reject
<1>7. CASE DSThrows(z)
  BY <1>7, ThrowsSettles, NothingClaimed DEF DSThrows
<1>8. CASE NoDSProofThrows(z)
  BY <1>8, NothingClaimed DEF NoDSProofThrows, Reject
<1>9. CASE InsecureDelegation(z)
  <2>1. PICK r \in Proof(z, NoDS) :
          ResolveHop([Outcome("insecure", "no-ds", ChildName) EXCEPT !.proof = {r}])
    BY <1>9 DEF InsecureDelegation
  <2>2. result'.verdict = "insecure" /\ result'.at = ChildName /\ result'.proof = {r}
    BY <2>1, InsecureGives
  <2>3. r \in Genuine' /\ NoDS \in Denies(r.owner, r.data)
    BY <1>1, <1>2, <1>3, <2>2, ProofIsGenuine
  <2>4. Shown(<<"no-ds", result.at>>)'
    BY <2>2, <2>3 DEF Shown, NoDS
  <2>5. result'.at \in Ancestors(qname')
    <3>1. depth \in 0 .. Len(qname)
      BY <1>1, ChildType
    <3> QED
      BY <1>1, <2>2, <3>1 DEF Ancestors, ChildName
  <2> QED
    BY <2>2, <2>4, <2>5 DEF AnswerAuthentic, DenialAuthentic
<1> QED
  BY <1>4, <1>5, <1>6, <1>7, <1>8, <1>9

LEMMA DNSKEYClaims ==
    ASSUME NEW resp, DNSKEYAnswer(resp)
    PROVE  AnswerAuthentic' /\ DenialAuthentic'
<1>1. \E child, keys, dses, dsChecks :
        \/ NoDNSKEY(dsChecks) \/ DigestThrows(keys, dses) \/ DSMismatch(dsChecks)
        \/ DNSKEYUnverified(child, dsChecks) \/ Descended(child, dsChecks)
        \/ DNSKEYThrows(child)
  BY DEF DNSKEYAnswer
<1>2. PICK child, keys, dses, dsChecks :
        \/ NoDNSKEY(dsChecks) \/ DigestThrows(keys, dses) \/ DSMismatch(dsChecks)
        \/ DNSKEYUnverified(child, dsChecks) \/ Descended(child, dsChecks)
        \/ DNSKEYThrows(child)
  BY <1>1
<1>3. state = "walking"
  BY DEF DNSKEYAnswer, Walking
<1>4. CASE NoDNSKEY(dsChecks) \/ DSMismatch(dsChecks) \/ DNSKEYUnverified(child, dsChecks)
  BY <1>4, BogusVerdict, NothingClaimed DEF NoDNSKEY, DSMismatch, DNSKEYUnverified
<1>5. CASE DigestThrows(keys, dses)
  BY <1>5, NothingClaimed DEF DigestThrows, Reject
<1>6. CASE Descended(child, dsChecks)
  BY <1>3, <1>6, NothingClaimed DEF Descended, AskBelow, Ask, Reject
<1>7. CASE DNSKEYThrows(child)
  BY <1>7, ThrowsSettles, NothingClaimed DEF DNSKEYThrows
<1> QED
  BY <1>2, <1>4, <1>5, <1>6, <1>7

LEMMA PositiveClaims ==
    ASSUME TypeOK, NEW z \in Zone, z.name \in Ancestors(qname), qname' = qname,
           QType # "DNSKEY" => OwnKeys(z), Positive(z)
    PROVE  AnswerAuthentic' /\ DenialAuthentic'
<1>1. qname \in Name
  BY DEF TypeOK
<1>2. ASSUME QType # "DNSKEY", rrset_verified(z, qname, QType, "None"),
             result'.answer = find_rrset(z, qname, QType)
      PROVE  \E zn \in Ancestors(qname') : SignedBy(zn, qname', QType, result'.answer)
  BY <1>1, <1>2, VerifiedIsSigned
<1>3. CASE LeafUnverified(z)
  BY <1>3, BogusVerdict, NothingClaimed DEF LeafUnverified
<1>4. CASE CheckThrows(z, qname, QType, "None")
  BY <1>4, ThrowsSettles, NothingClaimed
<1>5. CASE LeafSecure(z)
  <2>1. result'.verdict = "secure" /\ result'.answer = find_rrset(z, qname, QType)
        /\ result'.encloser = None
    BY <1>5, SecureAnswerGives DEF LeafSecure
  <2>2. \A s \in find_rrsigs(z, qname, QType) : ~(s.labels < Len(qname))
    BY <1>5 DEF LeafSecure, Synthesised
  <2>3. QType # "DNSKEY" => find_rrset(z, qname, QType) \in ZoneSigns(z.name, qname, QType)
    BY <1>1, <1>5, <2>2, VerifiedIsSigned DEF LeafSecure
  <2> QED
    BY <2>1, <2>3 DEF AnswerAuthentic, DenialAuthentic
<1>6. CASE LeafWildcard(z)
  <2>1. PICK s \in Synthesised(z) :
        \/ \E r \in Proof(z, Covers(NextCloser(s))) : SecureAnswer(z, s.labels, {r})
        \/ ResolveHop(Bogus(zone.name, "wildcard-proof-missing"))
        \/ Reject("foreign")
    BY <1>6 DEF LeafWildcard
  <2>2. CASE ResolveHop(Bogus(zone.name, "wildcard-proof-missing"))
    BY <2>2, BogusVerdict, NothingClaimed
  <2>3. CASE Reject("foreign")
    BY <2>3, NothingClaimed DEF Reject
  <2>4. ASSUME NEW r \in Proof(z, Covers(NextCloser(s))), SecureAnswer(z, s.labels, {r})
        PROVE  AnswerAuthentic' /\ DenialAuthentic'
    <3>1. result'.verdict = "secure" /\ result'.answer = find_rrset(z, qname, QType)
          /\ result'.encloser = s.labels /\ r \in result'.proof
      BY <2>4, SecureAnswerGives
    <3>2. ASSUME QType # "DNSKEY" PROVE Shown(Covers(Ancestor(qname, result.encloser + 1)))'
      <4>1. r \in Genuine' /\ Covers(NextCloser(s)) \in Denies(r.owner, r.data)
        BY <2>4, <3>1, <3>2, ProofIsGenuine
      <4> QED
        BY <3>1, <4>1 DEF Shown, NextCloser, Covers
    <3> QED
      <4>1. result'.encloser # None
        BY <3>1, NoneAssumption DEF Synthesised, find_rrsigs, Zone, RRSIG
      <4> QED
        BY <1>2, <1>6, <3>1, <3>2, <4>1 DEF LeafWildcard, AnswerAuthentic, DenialAuthentic
  <2> QED
    BY <2>1, <2>2, <2>3, <2>4
<1> QED
  BY <1>3, <1>4, <1>5, <1>6 DEF Positive

LEMMA NegativeClaims ==
    ASSUME TypeOK, NEW z \in Zone, z.name \in Ancestors(qname), qname' = qname,
           OwnKeys(z), Negative(z)
    PROVE  AnswerAuthentic' /\ DenialAuthentic'
<1>1. ASSUME Indeterminate PROVE AnswerAuthentic' /\ DenialAuthentic'
  BY <1>1, IndeterminateGives, NothingClaimed
<1>2. ASSUME Reject("foreign") PROVE AnswerAuthentic' /\ DenialAuthentic'
  BY <1>2, NothingClaimed DEF Reject
<1>3. ASSUME NEW r \in Proof(z, NoData(qname)), NegativeOutcome("secure-nodata", {r})
      PROVE  AnswerAuthentic' /\ DenialAuthentic'
  <2>1. result'.verdict = "secure-nodata" /\ r \in result'.proof
    BY <1>3, NegativeOutcomeGives
  <2>2. r \in Genuine' /\ NoData(qname) \in Denies(r.owner, r.data)
    BY <2>1, ProofIsGenuine
  <2>3. ShownNoData'
    BY <2>2 DEF ShownNoData, Shown, NoData
  <2> QED
    BY <2>1, <2>3 DEF AnswerAuthentic, DenialAuthentic
<1>4. ASSUME NEW r \in Proof(z, Covers(qname)), CoveredBy(z, r)
      PROVE  AnswerAuthentic' /\ DenialAuthentic'
  <2> DEFINE ce == EncloserOf(r.owner, r.data, qname)
             ent == <<"empty", qname>> \in Denies(r.owner, r.data)
  <2>1. \/ ent /\ NegativeOutcome("secure-nodata", {r})
        \/ Indeterminate
        \/ ce # None /\ \E w \in Proof(z, NoData(wildcard_at(qname, ce))) :
                NegativeOutcome("secure-nodata", {r, w})
        \/ ~ent /\ ce # None /\ \E w \in Proof(z, Covers(wildcard_at(qname, ce))) :
                NegativeOutcome("secure-nxdomain", {r, w})
        \/ Reject("foreign")
    BY <1>4, Zenon DEF CoveredBy
  <2>2. ASSUME r \in result'.proof
        PROVE  r \in Genuine' /\ Covers(qname) \in Denies(r.owner, r.data)
    BY <2>2, ProofIsGenuine
  <2>3. ASSUME NEW c, NEW w \in Proof(z, c), w \in result'.proof
        PROVE  w \in Genuine' /\ c \in Denies(w.owner, w.data)
    BY <2>3, ProofIsGenuine
  <2>4. CASE ent /\ NegativeOutcome("secure-nodata", {r})
    <3>1. result'.verdict = "secure-nodata" /\ r \in result'.proof
      BY <2>4, NegativeOutcomeGives
    <3>2. ShownNoData'
      BY <2>2, <2>4, <3>1 DEF ShownNoData, Covers
    <3> QED
      BY <3>1, <3>2 DEF AnswerAuthentic, DenialAuthentic
  <2>5. ASSUME ce # None, NEW w \in Proof(z, NoData(wildcard_at(qname, ce))),
               NegativeOutcome("secure-nodata", {r, w})
        PROVE  AnswerAuthentic' /\ DenialAuthentic'
    <3>1. result'.verdict = "secure-nodata" /\ r \in result'.proof /\ w \in result'.proof
      BY <2>5, NegativeOutcomeGives
    <3>2. w \in Genuine' /\ NoData(wildcard_at(qname, ce)) \in Denies(w.owner, w.data)
      BY <2>3, <3>1
    <3>3. /\ r \in Genuine' /\ Covers(qname') \in Denies(r.owner, r.data)
          /\ EncloserOf(r.owner, r.data, qname') # None
          /\ \E q \in Genuine' :
                NoData(wildcard_at(qname', EncloserOf(r.owner, r.data, qname'))) \in Denies(q.owner, q.data)
      BY <2>2, <2>5, <3>1, <3>2
    <3>4. ShownNoData'
      BY <3>3 DEF ShownNoData, Shown, Covers
    <3> QED
      BY <3>1, <3>4 DEF AnswerAuthentic, DenialAuthentic
  <2>6. ASSUME ~ent, ce # None, NEW w \in Proof(z, Covers(wildcard_at(qname, ce))),
               NegativeOutcome("secure-nxdomain", {r, w})
        PROVE  AnswerAuthentic' /\ DenialAuthentic'
    <3>1. result'.verdict = "secure-nxdomain" /\ r \in result'.proof /\ w \in result'.proof
      BY <2>6, NegativeOutcomeGives
    <3>2. w \in Genuine' /\ Covers(wildcard_at(qname, ce)) \in Denies(w.owner, w.data)
      BY <2>3, <3>1
    <3>3. /\ r \in Genuine' /\ Covers(qname') \in Denies(r.owner, r.data)
          /\ <<"empty", qname'>> \notin Denies(r.owner, r.data)
          /\ EncloserOf(r.owner, r.data, qname') # None
          /\ \E q \in Genuine' :
                Covers(wildcard_at(qname', EncloserOf(r.owner, r.data, qname'))) \in Denies(q.owner, q.data)
      BY <2>2, <2>6, <3>1, <3>2
    <3>4. ShownNXDomain'
      BY <3>3 DEF ShownNXDomain, Shown, Covers
    <3> QED
      BY <3>1, <3>4 DEF AnswerAuthentic, DenialAuthentic
  <2> QED
    BY <1>1, <1>2, <2>1, <2>4, <2>5, <2>6
<1> QED
  BY <1>1, <1>2, <1>3, <1>4 DEF Negative

LEMMA RedirectClaims ==
    ASSUME NEW z, NEW type, NEW owner, NEW rtype, NEW target, NEW next,
           Redirect(z, type, owner, rtype, target, next), state = "walking"
    PROVE  AnswerAuthentic' /\ DenialAuthentic'
<1>1. CASE ResolveHop(Bogus(owner, "alias-target-invalid"))
  BY <1>1, BogusVerdict, NothingClaimed
<1>2. CASE ResolveHop(Bogus(zone.name, failure_code(z, owner, rtype, "None")))
  BY <1>2, BogusVerdict, NothingClaimed
<1>3. CASE CheckThrows(z, owner, rtype, "None")
  BY <1>3, ThrowsSettles, NothingClaimed
<1>4. CASE NextHop(type, owner, next)
  <2>1. Bogus(next, "alias-limit").verdict = "bogus" /\ Bogus(next, "alias-loop").verdict = "bogus"
    BY DEF Bogus, Outcome, Pending
  <2>2. state' = "resolved" => result'.verdict = "bogus"
    BY <1>4, <2>1 DEF NextHop, Resolve, Reject, Ask
  <2> QED
    BY <2>2, NothingClaimed
<1> QED
  BY <1>1, <1>2, <1>3, <1>4 DEF Redirect

LEMMA LeafClaims ==
    ASSUME TypeOK, KeysInv, NEW resp \in Responses, LeafAnswer(resp)
    PROVE  AnswerAuthentic' /\ DenialAuthentic'
<1> DEFINE z == Loaded(zone, resp)
<1>1. state = "walking" /\ step = "leaf" /\ Asked = <<qname, QType>>
  BY DEF LeafAnswer, Walking, Asked
<1>2. z \in Zone /\ z.name = zone.name
  BY AskedZoneType DEF TypeOK
<1>3. zone.name \in Ancestors(qname) /\ OwnKeys(zone)
  BY <1>1 DEF KeysInv
<1>4. QType # "DNSKEY" \/ ~Matches(resp, qname, QType) => OwnKeys(z)
  BY <1>1, <1>3, LoadedKeepsKeys DEF TypeOK
<1>5. \/ Positive(z) /\ UNCHANGED Hop
      \/ try_dname(z) \/ try_cname(z)
      \/ Negative(z) /\ ~Matches(resp, qname, QType) /\ UNCHANGED Hop
  BY DEF LeafAnswer
<1> HIDE DEF z
<1>6. CASE Positive(z) /\ UNCHANGED Hop
  BY <1>2, <1>3, <1>4, <1>6, PositiveClaims DEF Hop
<1>7. CASE try_dname(z) \/ try_cname(z)
  BY <1>1, <1>7, RedirectClaims DEF try_dname, try_cname
<1>8. CASE Negative(z) /\ ~Matches(resp, qname, QType) /\ UNCHANGED Hop
  BY <1>2, <1>3, <1>4, <1>8, NegativeClaims DEF Hop
<1> QED
  BY <1>5, <1>6, <1>7, <1>8

LEMMA ClaimsStep ==
    ASSUME TypeOK, KeysInv, AnswerAuthentic, DenialAuthentic, [Next]_vars
    PROVE  AnswerAuthentic' /\ DenialAuthentic'
<1>1. CASE \E n \in QNames : Call(n)
  BY <1>1, NothingClaimed DEF Call, Reject
<1>2. CASE CallEmpty \/ Failed
  BY <1>2, NothingClaimed DEF CallEmpty, Failed, BadRcode, QueryThrows, Reject
<1>3. CASE Abort
  BY <1>3, NothingClaimed DEF Abort
<1>4. CASE UNCHANGED vars
  BY <1>4 DEF vars, AnswerAuthentic, DenialAuthentic, Shown, ShownNoData, ShownNXDomain, Genuine
<1>5. CASE Answered
  BY <1>5, RootClaims, DSClaims, DNSKEYClaims, LeafClaims DEF Answered
<1> QED
  BY <1>1, <1>2, <1>3, <1>4, <1>5 DEF Next

\* A Secure answer is an rrset that a zone on the way to qname signed, at
\* qname or, with that zone's denial of the next closer name, at a wildcard:
\* whatever a resolver mixes into its answers, replays or leaves out.
THEOREM AnswersProved == Spec => []AnswerAuthentic
<1>1. Init => TypeOK /\ KeysInv /\ AnswerAuthentic /\ DenialAuthentic
  BY InitType DEF Init, KeysInv, AnswerAuthentic, DenialAuthentic
<1>2. /\ TypeOK /\ KeysInv /\ AnswerAuthentic /\ DenialAuthentic
      /\ [Next]_vars
      => TypeOK' /\ KeysInv' /\ AnswerAuthentic' /\ DenialAuthentic'
  BY StepType, KeysStep, ClaimsStep
<1> QED
  BY <1>1, <1>2, PTL DEF Spec

\* An Insecure, NODATA or NXDOMAIN verdict rests on denial records that zones
\* on the way to qname published.
THEOREM DenialsProved == Spec => []DenialAuthentic
<1>1. Init => TypeOK /\ KeysInv /\ AnswerAuthentic /\ DenialAuthentic
  BY InitType DEF Init, KeysInv, AnswerAuthentic, DenialAuthentic
<1>2. /\ TypeOK /\ KeysInv /\ AnswerAuthentic /\ DenialAuthentic
      /\ [Next]_vars
      => TypeOK' /\ KeysInv' /\ AnswerAuthentic' /\ DenialAuthentic'
  BY StepType, KeysStep, ClaimsStep
<1> QED
  BY <1>1, <1>2, PTL DEF Spec

-----------------------------------------------------------------------------
(* The redirects of one call                                               *)

\* The names of the hops so far are all in the set the loop check reads;
\* before the call there are no redirects.
SeenInv ==
    /\ state = "walking" => \A i \in 1 .. Len(aliases) + 1 : HopName(i) \in seen
    /\ state = "idle" => aliases = <<>>

\* The redirect b, from the hop name n, is one that its zone signed, as
\* AliasesAuthentic asks.
Authentic(b, n) ==
    LET type == IF b.type = "cname" THEN "CNAME" ELSE "DNAME"
    IN \E owner \in SignedOwners(b.from) :
        \E rrset \in ZoneSigns(b.zone, owner, type) : \E d \in rrset :
            IF b.type = "cname"
            THEN b.from = n /\ b.target = Target(d)
            ELSE Moved(n, b.from, Target(d), b.target)

\* What is known of a redirect when the loop body ends with it.
Followed(type, from, target) ==
    /\ type \in {"cname", "dname"} /\ from \in Name /\ target \in Name
    /\ NextHop(type, from, target)
    /\ IF type = "cname" THEN from = qname ELSE IsBelow(qname, from)
    /\ Authentic([type |-> type, from |-> from, target |-> target,
                  zone |-> zone.name, verdict |-> "secure"], qname)

LEMMA AppendedAlias ==
    ASSUME TypeOK, NEW a, aliases' = Append(aliases, a)
    PROVE  /\ Len(aliases) \in Nat /\ Len(aliases') = Len(aliases) + 1
           /\ DOMAIN aliases = 1 .. Len(aliases) /\ DOMAIN aliases' = 1 .. Len(aliases) + 1
           /\ \A i \in 1 .. Len(aliases) : aliases'[i] = aliases[i]
           /\ aliases'[Len(aliases) + 1] = a
BY DEF TypeOK

\* A redirect more leaves the names of the hops before it as they are.
LEMMA HopNamesKept ==
    ASSUME TypeOK, NEW a, aliases' = Append(aliases, a), UNCHANGED asked
    PROVE  /\ \A i \in 1 .. Len(aliases) + 1 : HopName(i)' = HopName(i)
           /\ \A i : i = Len(aliases) + 2 => HopName(i)' = a.target
<1> DEFINE n == Len(aliases)
<1>1. n \in Nat /\ (\A i \in 1 .. n : aliases'[i] = aliases[i]) /\ aliases'[n + 1] = a
  BY AppendedAlias
<1> HIDE DEF n
<1>2. ASSUME NEW i \in 1 .. n + 1 PROVE HopName(i)' = HopName(i)
  <2>1. CASE i = 1
    BY <2>1 DEF HopName
  <2>2. CASE i # 1
    <3>1. i - 1 \in 1 .. n
      BY <1>1, <2>2
    <3> QED
      BY <1>1, <2>2, <3>1 DEF HopName
  <2> QED
    BY <2>1, <2>2
<1>3. ASSUME NEW i, i = n + 2 PROVE HopName(i)' = a.target
  <2>1. i # 1 /\ i - 1 = n + 1
    BY <1>1, <1>3
  <2> QED
    BY <1>1, <2>1 DEF HopName
<1> QED
  BY <1>2, <1>3 DEF n

LEMMA FollowedAuthentic ==
    ASSUME TypeOK, AliasesAuthentic, AliasesLinked,
           NEW type, NEW from, NEW target, Followed(type, from, target)
    PROVE  AliasesAuthentic'
<1> DEFINE a == [type |-> type, from |-> from, target |-> target,
                 zone |-> zone.name, verdict |-> "secure"]
<1>1. aliases' = Append(aliases, a) /\ UNCHANGED asked
  BY DEF Followed, NextHop
<1>2. Authentic(a, HopName(Len(aliases) + 1))
  BY DEF Followed, AliasesLinked
<1> HIDE DEF a
<1>3. ASSUME NEW i \in DOMAIN aliases' PROVE Authentic(aliases'[i], HopName(i)')
  <2>1. i \in 1 .. Len(aliases) + 1 /\ HopName(i)' = HopName(i)
    BY <1>1, AppendedAlias, HopNamesKept
  <2>2. CASE i \in 1 .. Len(aliases)
    <3>1. aliases'[i] = aliases[i] /\ i \in DOMAIN aliases
      BY <1>1, <2>2, AppendedAlias
    <3>2. Authentic(aliases[i], HopName(i))
      BY <3>1 DEF AliasesAuthentic, Authentic
    <3> QED
      BY <2>1, <3>1, <3>2
  <2>3. CASE i = Len(aliases) + 1
    <3>1. aliases'[i] = a
      BY <1>1, <2>3, AppendedAlias
    <3> QED
      BY <1>2, <2>1, <2>3, <3>1
  <2> QED
    BY <1>1, <2>1, <2>2, <2>3, AppendedAlias
<1> QED
  BY <1>3 DEF AliasesAuthentic, Authentic

LEMMA FollowedLinked ==
    ASSUME TypeOK, AliasesLinked, SeenInv, state = "walking",
           NEW type, NEW from, NEW target, Followed(type, from, target)
    PROVE  AliasesLinked' /\ SeenInv'
<1> DEFINE a == [type |-> type, from |-> from, target |-> target,
                 zone |-> zone.name, verdict |-> "secure"]
           n == Len(aliases)
<1>1. aliases' = Append(aliases, a) /\ qname' = target /\ UNCHANGED asked
  BY DEF Followed, NextHop
<1>2. a.type = type /\ a.from = from /\ a.target = target
  OBVIOUS
<1> HIDE DEF a
<1>3. /\ n \in Nat /\ Len(aliases') = n + 1
      /\ DOMAIN aliases = 1 .. n /\ DOMAIN aliases' = 1 .. n + 1
      /\ \A i \in 1 .. n : aliases'[i] = aliases[i]
      /\ aliases'[n + 1] = a
  BY <1>1, AppendedAlias
<1>4. n <= MaxAliasHops /\ qname = HopName(n + 1)
  BY DEF AliasesLinked
<1>5. state' = "walking" => n # MaxAliasHops /\ target \notin seen /\ seen' = seen \cup {target}
  BY DEF Followed, NextHop, Resolve, Reject
<1>6. /\ \A i \in 1 .. n + 1 : HopName(i)' = HopName(i)
      /\ \A i : i = n + 2 => HopName(i)' = target
  BY <1>1, <1>2, HopNamesKept
<1>7. \A i \in 1 .. n + 1 : HopName(i) \in seen
  BY DEF SeenInv
<1>8. \A i, j \in 1 .. n + 1 : HopName(i) = HopName(j) => i = j
  BY DEF AliasesLinked
<1> HIDE DEF n
<1>9. ASSUME NEW i \in DOMAIN aliases'
      PROVE  IF aliases'[i].type = "cname"
             THEN aliases'[i].from = HopName(i)'
             ELSE IsBelow(HopName(i)', aliases'[i].from)
  <2>1. i \in 1 .. n + 1 /\ HopName(i)' = HopName(i)
    BY <1>3, <1>6
  <2>2. CASE i \in 1 .. n
    BY <1>3, <2>1, <2>2 DEF AliasesLinked
  <2>3. CASE i = n + 1
    <3>1. aliases'[i].type = type /\ aliases'[i].from = from
      BY <1>2, <1>3, <2>3
    <3> QED
      BY <1>4, <2>1, <2>3, <3>1 DEF Followed
  <2> QED
    BY <1>3, <2>1, <2>2, <2>3
<1>10. ASSUME NEW i, i = Len(aliases') + 1 PROVE qname' = HopName(i)'
  BY <1>1, <1>3, <1>6, <1>10
<1>11. ASSUME state' = "walking" PROVE Len(aliases') <= MaxAliasHops
  BY <1>3, <1>4, <1>5, <1>11, HopAssumption
<1>12. ASSUME NEW i \in 1 .. Len(aliases') + 1
       PROVE  i \in 1 .. n + 1 \/ i = n + 2
  BY <1>3
<1>13. ASSUME state' = "walking", NEW i \in 1 .. Len(aliases') + 1
       PROVE  HopName(i)' \in seen'
  BY <1>5, <1>6, <1>7, <1>12, <1>13
<1>14. ASSUME state' = "walking", NEW i \in 1 .. Len(aliases') + 1,
              NEW j \in 1 .. Len(aliases') + 1, HopName(i)' = HopName(j)'
       PROVE  i = j
  <2>1. target \notin seen
    BY <1>5, <1>14
  <2>2. CASE i \in 1 .. n + 1 /\ j \in 1 .. n + 1
    BY <1>6, <1>8, <1>14, <2>2
  <2>3. CASE ~(i \in 1 .. n + 1 /\ j \in 1 .. n + 1)
    BY <1>6, <1>7, <1>12, <1>14, <2>1, <2>3
  <2> QED
    BY <2>2, <2>3
<1>15. SeenInv'
  <2>1. state' # "idle"
    BY DEF Followed, NextHop, Resolve, Reject, Ask
  <2> QED
    BY <1>13, <2>1 DEF SeenInv
<1>16. AliasesLinked'
  BY <1>9, <1>10, <1>11, <1>14 DEF AliasesLinked
<1> QED
  BY <1>15, <1>16

\* A record that verifies in the zone the walk stands in is one it signed.
LEMMA VerifiedRecord ==
    ASSUME TypeOK, KeysInv, state = "walking", step = "leaf", NEW resp \in Responses,
           NEW from \in Name, NEW rtype, ~Matches(resp, qname, QType),
           rrset_verified(Loaded(zone, resp), from, rtype, "None")
    PROVE  SignedBy(zone.name, from, rtype, find_rrset(Loaded(zone, resp), from, rtype))
<1> DEFINE z == Loaded(zone, resp)
<1>1. z \in Zone /\ z.name = zone.name
  BY AskedZoneType DEF TypeOK
<1>2. OwnKeys(z)
  BY LoadedKeepsKeys DEF TypeOK, KeysInv, Asked
<1> QED
  BY <1>1, <1>2, VerifiedIsSigned

\* A name is its ancestor followed by the labels below that, and those are
\* what the rewrite puts below the target.
LEMMA SynthesisedIsMoved ==
    ASSUME NEW n \in Name, NEW d \in 0 .. Len(n) - 1, NEW t \in Name
    PROVE  Moved(n, Ancestor(n, d), t, synthesise(n, d, t))
<1> DEFINE u == SubSeq(n, 1, d)
           below == SubSeq(n, d + 1, Len(n))
           m == u \o below
<1>1. n \in Seq(Label) /\ Len(n) \in Nat /\ \A i \in 1 .. Len(n) : n[i] \in Label
  BY DEF Name
<1>2. /\ below \in Seq(Label) /\ Len(below) = Len(n) - d
      /\ \A i \in 1 .. Len(n) - d : below[i] = n[d + i]
  BY <1>1, SubSeqProperties
<1>3. /\ u \in Seq(Label) /\ Len(u) = d
      /\ \A i \in 1 .. d : u[i] = n[i]
  BY <1>1, SubSeqProperties
<1> HIDE DEF u, below
<1>4. /\ m \in Seq(Label) /\ Len(m) = Len(u) + Len(below)
      /\ \A i \in 1 .. Len(u) + Len(below) :
            m[i] = IF i <= Len(u) THEN u[i] ELSE below[i - Len(u)]
  BY ONLY <1>2, <1>3, ConcatProperties
<1> HIDE DEF m
<1>5. Len(m) = Len(n)
  BY <1>1, <1>2, <1>3, <1>4
<1>6. ASSUME NEW i \in 1 .. Len(n) PROVE m[i] = n[i]
  <2>1. CASE i <= d
    BY <1>1, <1>3, <1>4, <2>1
  <2>2. CASE i > d
    <3>1. i \in d + 1 .. Len(n) /\ i - d \in 1 .. Len(n) - d /\ d + (i - d) = i
      BY <1>1, <2>2
    <3>2. m[i] = below[i - d]
      BY <1>1, <1>2, <1>3, <1>4, <3>1
    <3> QED
      BY <1>2, <3>1, <3>2
  <2> QED
    BY <1>1, <2>1, <2>2
<1>7. n = m
  BY <1>1, <1>4, <1>5, <1>6, SeqEqual
<1>8. n = Ancestor(n, d) \o SubSeq(n, d + 1, Len(n))
  BY <1>7 DEF m, u, below, Ancestor
<1> QED
  BY <1>8 DEF Moved, synthesise

LEMMA AncestorIsAbove ==
    ASSUME NEW n \in Name, NEW d \in 0 .. Len(n) - 1
    PROVE  IsBelow(n, Ancestor(n, d))
<1>1. d \in 0 .. Len(n) /\ d < Len(n)
  BY DEF Name
<1>2. Len(Ancestor(n, d)) = d
  BY <1>1, AncestorType
<1> QED
  BY <1>1, <1>2 DEF IsBelow

\* A step that follows nothing keeps what holds of the redirects.
LEMMA NotFollowed ==
    ASSUME AliasesAuthentic, AliasesLinked, SeenInv, UNCHANGED <<asked, qname, seen, aliases>>,
           state' \in {"resolved", "rejected"} \/ state' = state
    PROVE  AliasesAuthentic' /\ AliasesLinked' /\ SeenInv'
<1>1. AliasesAuthentic'
  BY DEF AliasesAuthentic, HopName
<1>2. AliasesLinked'
  BY DEF AliasesLinked, HopName
<1>3. SeenInv'
  BY DEF SeenInv, HopName
<1> QED
  BY <1>1, <1>2, <1>3

\* A redirect is followed, or the call settles where it is.
LEMMA RedirectFollows ==
    ASSUME NEW z, NEW type, NEW owner, NEW rtype, NEW target, NEW next,
           Redirect(z, type, owner, rtype, target, next)
    PROVE  \/ rrset_verified(z, owner, rtype, "None") /\ NextHop(type, owner, next)
           \/ state' \in {"resolved", "rejected"} /\ UNCHANGED <<asked, qname, seen, aliases>>
BY ResolveHopSettles, ThrowsSettles DEF Redirect, Hop

LEMMA LeafAliases ==
    ASSUME TypeOK, KeysInv, AliasesAuthentic, AliasesLinked, SeenInv,
           NEW resp \in Responses, LeafAnswer(resp)
    PROVE  AliasesAuthentic' /\ AliasesLinked' /\ SeenInv'
<1> DEFINE z == Loaded(zone, resp)
<1>1. state = "walking" /\ step = "leaf" /\ qname \in Name
  BY DEF LeafAnswer, Walking, TypeOK
<1>2. z \in Zone
  BY AskedZoneType DEF TypeOK
<1>3. \/ Positive(z) /\ UNCHANGED Hop
      \/ try_dname(z) /\ ~Matches(resp, qname, QType)
      \/ try_cname(z) /\ ~Matches(resp, qname, QType)
      \/ Negative(z) /\ UNCHANGED Hop
  BY DEF LeafAnswer
<1>4. ASSUME NEW type, NEW from, NEW target, Followed(type, from, target)
      PROVE  AliasesAuthentic' /\ AliasesLinked' /\ SeenInv'
  BY <1>1, <1>4, FollowedAuthentic, FollowedLinked
<1>5. ASSUME NEW from \in Name, NEW rtype, ~Matches(resp, qname, QType),
             rrset_verified(z, from, rtype, "None")
      PROVE  \E owner \in SignedOwners(from) :
                find_rrset(z, from, rtype) \in ZoneSigns(zone.name, owner, rtype)
  BY <1>1, <1>5, VerifiedRecord DEF SignedBy
<1> HIDE DEF z
<1>6. CASE Positive(z) /\ UNCHANGED Hop
  BY <1>6, PositiveSettles, NotFollowed DEF Hop
<1>7. CASE Negative(z) /\ UNCHANGED Hop
  BY <1>7, NegativeSettles, NotFollowed DEF Hop
<1>8. CASE try_dname(z) /\ ~Matches(resp, qname, QType)
  <2>1. PICK d \in 0 .. Len(qname) - 1 : \E r \in find_rrset(z, Ancestor(qname, d), "DNAME") :
          Redirect(z, "dname", Ancestor(qname, d), "DNAME", Target(r), synthesise(qname, d, Target(r)))
    BY <1>8 DEF try_dname, DnameDepths
  <2>2. PICK r \in find_rrset(z, Ancestor(qname, d), "DNAME") :
          Redirect(z, "dname", Ancestor(qname, d), "DNAME", Target(r), synthesise(qname, d, Target(r)))
    BY <2>1
  <2> DEFINE from == Ancestor(qname, d)
             target == synthesise(qname, d, Target(r))
             a == [type |-> "dname", from |-> from, target |-> target,
                   zone |-> zone.name, verdict |-> "secure"]
  <2>3. Target(r) \in Name
    BY <1>2, RrsetType, TargetAssumption
  <2>4. d \in 0 .. Len(qname)
    BY <1>1 DEF Name
  <2>5. /\ from \in Name /\ IsBelow(qname, from)
        /\ target \in Name /\ Moved(qname, from, Target(r), target)
    BY <1>1, <2>3, <2>4, AncestorType, AncestorIsAbove, SynthesiseType, SynthesisedIsMoved
  <2> HIDE DEF from, target
  <2>6. ASSUME rrset_verified(z, from, "DNAME", "None"), NextHop("dname", from, target)
        PROVE  Followed("dname", from, target)
    <3>1. r \in find_rrset(z, from, "DNAME")
      BY DEF from
    <3>2. Authentic(a, qname)
      BY <1>5, <1>8, <2>5, <2>6, <3>1 DEF Authentic
    <3> QED
      BY <2>5, <2>6, <3>2 DEF Followed
  <2>7. \/ rrset_verified(z, from, "DNAME", "None") /\ NextHop("dname", from, target)
        \/ state' \in {"resolved", "rejected"} /\ UNCHANGED <<asked, qname, seen, aliases>>
    BY <2>2, RedirectFollows DEF from, target
  <2> QED
    BY <1>4, <2>6, <2>7, NotFollowed
<1>9. CASE try_cname(z) /\ ~Matches(resp, qname, QType)
  <2>1. PICK r \in find_rrset(z, qname, "CNAME") :
          Redirect(z, "cname", qname, "CNAME", Target(r), Target(r))
    BY <1>9 DEF try_cname
  <2> DEFINE a == [type |-> "cname", from |-> qname, target |-> Target(r),
                   zone |-> zone.name, verdict |-> "secure"]
  <2>2. Target(r) \in Name
    BY <1>2, RrsetType, TargetAssumption
  <2>3. ASSUME rrset_verified(z, qname, "CNAME", "None"), NextHop("cname", qname, Target(r))
        PROVE  Followed("cname", qname, Target(r))
    <3>1. Authentic(a, qname)
      BY <1>1, <1>5, <1>9, <2>3 DEF Authentic
    <3> QED
      BY <1>1, <2>2, <2>3, <3>1 DEF Followed
  <2>4. \/ rrset_verified(z, qname, "CNAME", "None") /\ NextHop("cname", qname, Target(r))
        \/ state' \in {"resolved", "rejected"} /\ UNCHANGED <<asked, qname, seen, aliases>>
    BY <2>1, RedirectFollows
  <2> QED
    BY <1>4, <2>3, <2>4, NotFollowed
<1> QED
  BY <1>3, <1>6, <1>7, <1>8, <1>9

LEMMA AliasesStep ==
    ASSUME TypeOK, KeysInv, AliasesAuthentic, AliasesLinked, SeenInv, [Next]_vars
    PROVE  AliasesAuthentic' /\ AliasesLinked' /\ SeenInv'
<1>1. CASE \E n \in QNames : Call(n)
  <2>1. aliases = <<>> /\ aliases' = <<>> /\ state' # "idle"
    BY <1>1 DEF Call, SeenInv, Reject
  <2>2. DOMAIN aliases' = {} /\ Len(aliases') = 0 /\ Len(aliases) = 0
    BY <2>1
  <2>3. qname = asked
    BY <2>2 DEF AliasesLinked, HopName
  <2>4. qname' = asked' /\ (state' = "walking" => asked' \in seen')
    BY <1>1, <2>3 DEF Call, Reject
  <2> QED
    BY <2>1, <2>2, <2>4, HopAssumption DEF AliasesAuthentic, AliasesLinked, SeenInv, HopName
<1>2. CASE CallEmpty \/ Failed
  BY <1>2, NotFollowed DEF CallEmpty, Failed, BadRcode, QueryThrows, Reject, walk
<1>3. CASE Abort \/ UNCHANGED vars
  BY <1>3, NotFollowed DEF Abort, walk, vars
<1>4. ASSUME NEW resp \in Responses, RootAnswer(resp)
      PROVE  AliasesAuthentic' /\ AliasesLinked' /\ SeenInv'
  <2>1. state' \in {"resolved", "rejected"} \/ state' = state
    BY <1>4, ResolveHopSettles, ThrowsSettles
       DEF RootAnswer, RootMismatch, RootUnverified, RootVerified, RootThrows, AskBelow, Ask, Reject
  <2> QED
    BY <1>4, <2>1, NotFollowed DEF RootAnswer, Hop
<1>5. ASSUME NEW resp \in Responses, DSAnswer(resp)
      PROVE  AliasesAuthentic' /\ AliasesLinked' /\ SeenInv'
  <2>1. state' \in {"resolved", "rejected"} \/ state' = state
    BY <1>5, ResolveHopSettles, ThrowsSettles
       DEF DSAnswer, DSUnverified, DSVerified, DSThrows, NoCut, InsecureDelegation,
           NoDSProofThrows, AskBelow, Ask, Reject
  <2> QED
    BY <1>5, <2>1, NotFollowed DEF DSAnswer, Hop
<1>6. ASSUME NEW resp \in Responses, DNSKEYAnswer(resp)
      PROVE  AliasesAuthentic' /\ AliasesLinked' /\ SeenInv'
  <2>1. state' \in {"resolved", "rejected"} \/ state' = state
    BY <1>6, ResolveHopSettles, ThrowsSettles
       DEF DNSKEYAnswer, NoDNSKEY, DigestThrows, DSMismatch, DNSKEYUnverified, Descended,
           DNSKEYThrows, AskBelow, Ask, Reject
  <2> QED
    BY <1>6, <2>1, NotFollowed DEF DNSKEYAnswer, Hop
<1> QED
  BY <1>1, <1>2, <1>3, <1>4, <1>5, <1>6, LeafAliases DEF Next, Answered

LEMMA AliasesInit ==
    ASSUME Init
    PROVE  TypeOK /\ KeysInv /\ AliasesAuthentic /\ AliasesLinked /\ SeenInv
<1>1. aliases = <<>> /\ state = "idle" /\ DOMAIN aliases = {} /\ Len(aliases) = 0 /\ qname = asked
  BY DEF Init
<1> QED
  BY <1>1, InitType DEF KeysInv, AliasesAuthentic, AliasesLinked, SeenInv, HopName

\* Every redirect a result reports was signed by the zone it is attributed
\* to, and leads from the name of its hop exactly where that record says: a
\* DNAME keeps every label below its owner, in order, and nothing else.
THEOREM AliasesProved == Spec => []AliasesAuthentic
<1>1. Init => TypeOK /\ KeysInv /\ AliasesAuthentic /\ AliasesLinked /\ SeenInv
  BY AliasesInit
<1>2. TypeOK /\ KeysInv /\ AliasesAuthentic /\ AliasesLinked /\ SeenInv /\ [Next]_vars
      => TypeOK' /\ KeysInv' /\ AliasesAuthentic' /\ AliasesLinked' /\ SeenInv'
  BY StepType, KeysStep, AliasesStep
<1> QED
  BY <1>1, <1>2, PTL DEF Spec

\* The redirects form one path from the name asked for, within the limit, that
\* visits no name twice while the walk goes on.
THEOREM AliasesFormOnePath == Spec => []AliasesLinked
<1>1. Init => TypeOK /\ KeysInv /\ AliasesAuthentic /\ AliasesLinked /\ SeenInv
  BY AliasesInit
<1>2. TypeOK /\ KeysInv /\ AliasesAuthentic /\ AliasesLinked /\ SeenInv /\ [Next]_vars
      => TypeOK' /\ KeysInv' /\ AliasesAuthentic' /\ AliasesLinked' /\ SeenInv'
  BY StepType, KeysStep, AliasesStep
<1> QED
  BY <1>1, <1>2, PTL DEF Spec

-----------------------------------------------------------------------------
(* Reports: the invariant *)

\* What the steps reported have to do with where the walk is: the zone in hand
\* has its step, the descent is below it, and the DS rrset that led to a DNSKEY
\* query was verified.
ReportInv ==
    /\ state = "idle" => chain = <<>>
    /\ chain # <<>> => chain[1].zone = Root
    /\ state = "walking" /\ step # "root" =>
        /\ \E i \in DOMAIN chain : chain[i].zone = zone.name
        /\ step \in {"ds", "dnskey"} => Len(zone.name) < depth
        /\ step = "dnskey" => rrset_verified(zone, ChildName, "DS", "None")

-----------------------------------------------------------------------------
(* Names and fields *)

LEMMA AncestorOfAncestor ==
    ASSUME NEW n \in Name, NEW e \in 0 .. Len(n), NEW d \in 0 .. e
    PROVE  Ancestor(Ancestor(n, e), d) = Ancestor(n, d)
<1>1. Len(n) \in Nat /\ d \in 0 .. Len(n) /\ n \in Seq(Label)
  BY DEF Name
<1>2. /\ Ancestor(n, e) \in Name /\ Len(Ancestor(n, e)) = e
      /\ \A i \in 1 .. e : Ancestor(n, e)[i] = n[i]
  BY <1>1, AncestorType, SubSeqProperties DEF Ancestor
<1>3. /\ Ancestor(n, d) \in Name /\ Len(Ancestor(n, d)) = d
      /\ \A i \in 1 .. d : Ancestor(n, d)[i] = n[i]
  BY <1>1, AncestorType, SubSeqProperties DEF Ancestor
<1>4. /\ Ancestor(Ancestor(n, e), d) \in Name /\ Len(Ancestor(Ancestor(n, e), d)) = d
      /\ \A i \in 1 .. d : Ancestor(Ancestor(n, e), d)[i] = Ancestor(n, e)[i]
  BY <1>2, AncestorType, SubSeqProperties DEF Ancestor, Name
<1> QED
  BY <1>2, <1>3, <1>4, SeqEqual DEF Name

-----------------------------------------------------------------------------
(* Steps of the chain *)

\* A verified signature of that signer over that rrset is among the checks.
Verifies(checks, name, type, signer) ==
    \E c \in checks :
        c.name = name /\ c.rrType = type /\ c.signer = signer /\ c.result = "verified"

\* The checks a signed step for n needs, the steps before it being those of
\* ch up to m: its DNSKEY rrset signed by itself, and its DS rrset by a zone
\* above it that has a signed step.
Explains(ch, m, n, checks) ==
    /\ Verifies(checks, n, "DNSKEY", n)
    /\ n # Root =>
        \E j \in 1 .. m : /\ ch[j].signed /\ IsBelow(n, ch[j].zone)
                         /\ Verifies(checks, n, "DS", ch[j].zone)

LEMMA StepsExplainedMeans ==
    /\ StepsExplained <=>
        \A i \in DOMAIN chain : chain[i].signed => Explains(chain, i - 1, chain[i].zone, chain[i].checks)
    /\ StepsExplained' <=>
        \A i \in DOMAIN chain' : chain'[i].signed => Explains(chain', i - 1, chain'[i].zone, chain'[i].checks)
BY Zenon DEF StepsExplained, Explains, Checked, Verifies

LEMMA StepAdded ==
    ASSUME TypeOK, NEW n, NEW b \in BOOLEAN, NEW cs, add_step(n, b, cs)
    PROVE  /\ Len(chain) \in Nat /\ DOMAIN chain = 1 .. Len(chain)
           /\ Len(chain') \in Nat /\ DOMAIN chain' = 1 .. Len(chain')
           /\ \A i \in 1 .. Len(chain) :
                /\ chain'[i].zone = chain[i].zone /\ chain'[i].signed = chain[i].signed
                /\ chain[i].checks \subseteq chain'[i].checks
           /\ \/ Len(chain') = Len(chain) /\ \E i \in 1 .. Len(chain) : chain[i].zone = n
              \/ /\ Len(chain') = Len(chain) + 1 /\ \A i \in 1 .. Len(chain) : chain[i].zone # n
                 /\ chain'[Len(chain')].zone = n
                 /\ chain'[Len(chain')].signed = b
                 /\ chain'[Len(chain')].checks = cs
<1>0. chain \in Seq(ZoneStep)
  BY DEF TypeOK
<1>1. Len(chain) \in Nat /\ DOMAIN chain = 1 .. Len(chain)
  BY <1>0
<1>2. \A i \in 1 .. Len(chain) : chain[i] \in ZoneStep
  BY <1>0
<1>3. CASE \E i \in DOMAIN chain : chain[i].zone = n
  <2>1. chain' = [i \in DOMAIN chain |->
                    IF chain[i].zone = n
                    THEN [chain[i] EXCEPT !.checks = @ \cup cs]
                    ELSE chain[i]]
    BY <1>3, Zenon DEF add_step
  <2>2. DOMAIN chain' = 1 .. Len(chain)
    BY <1>1, <2>1
  <2>3. Len(chain') = Len(chain)
    <3> DEFINE S == {chain'[i] : i \in 1 .. Len(chain)}
    <3>1. chain' \in [1 .. Len(chain) -> S]
      BY <1>1, <2>1, <2>2
    <3>2. chain' \in Seq(S)
      BY <1>1, <3>1
    <3>3. Len(chain') \in Nat /\ 1 .. Len(chain') = 1 .. Len(chain)
      BY <2>2, <3>2, LenProperties
    <3> QED
      BY <1>1, <3>3
  <2>4. ASSUME NEW i \in 1 .. Len(chain)
        PROVE  /\ chain'[i].zone = chain[i].zone /\ chain'[i].signed = chain[i].signed
               /\ chain[i].checks \subseteq chain'[i].checks
               /\ chain[i].zone = n => cs \subseteq chain'[i].checks
    <3>1. chain[i] \in ZoneStep
      BY <1>2
    <3>2. chain'[i] = IF chain[i].zone = n THEN [chain[i] EXCEPT !.checks = @ \cup cs] ELSE chain[i]
      BY <1>1, <2>1
    <3> QED
      BY <3>1, <3>2 DEF ZoneStep
  <2> QED
    BY <1>1, <1>3, <2>2, <2>3, <2>4
<1>4. CASE ~\E i \in DOMAIN chain : chain[i].zone = n
  <2>1. chain' = Append(chain, [zone |-> n, signed |-> b, checks |-> cs])
    BY <1>4 DEF add_step
  <2>2. /\ Len(chain') = Len(chain) + 1 /\ DOMAIN chain' = 1 .. Len(chain) + 1
        /\ \A i \in 1 .. Len(chain) : chain'[i] = chain[i]
        /\ chain'[Len(chain) + 1] = [zone |-> n, signed |-> b, checks |-> cs]
    BY <1>0, <1>1, <2>1
  <2>3. \A i \in 1 .. Len(chain) : chain[i].zone # n
    BY <1>1, <1>4
  <2>4. Len(chain') \in Nat /\ DOMAIN chain' = 1 .. Len(chain')
    BY <1>1, <2>2
  <2>5. /\ chain'[Len(chain')].zone = n
        /\ chain'[Len(chain')].signed = b
        /\ chain'[Len(chain')].checks = cs
    BY <2>2
  <2>6. \A i \in 1 .. Len(chain) :
            /\ chain'[i].zone = chain[i].zone /\ chain'[i].signed = chain[i].signed
            /\ chain[i].checks \subseteq chain'[i].checks
    BY <2>2, <2>3
  <2> QED
    BY <1>1, <2>2, <2>3, <2>4, <2>5, <2>6, Zenon
<1> QED
  BY <1>3, <1>4

\* The zone has a step, with these checks.
StepOf(ch, n, cs) == \E i \in DOMAIN ch : ch[i].zone = n /\ cs \subseteq ch[i].checks

LEMMA StepThere ==
    ASSUME TypeOK, NEW n, NEW b \in BOOLEAN, NEW cs, add_step(n, b, cs)
    PROVE  StepOf(chain', n, cs)
<1>1. chain \in Seq(ZoneStep)
  BY DEF TypeOK
<1>2. CASE \E i \in DOMAIN chain : chain[i].zone = n
  <2>1. PICK i \in DOMAIN chain : chain[i].zone = n
    BY <1>2
  <2>2. chain' = [j \in DOMAIN chain |->
                    IF chain[j].zone = n
                    THEN [chain[j] EXCEPT !.checks = @ \cup cs]
                    ELSE chain[j]]
    BY <1>2, Zenon DEF add_step
  <2>3. i \in DOMAIN chain' /\ chain'[i] = [chain[i] EXCEPT !.checks = @ \cup cs]
    BY <2>1, <2>2
  <2>4. chain[i] \in ZoneStep
    BY <1>1
  <2>5. chain'[i].zone = n /\ cs \subseteq chain'[i].checks
    BY <2>1, <2>3, <2>4 DEF ZoneStep
  <2> QED
    BY <2>3, <2>5 DEF StepOf
<1>3. CASE ~\E i \in DOMAIN chain : chain[i].zone = n
  <2>1. chain' = Append(chain, [zone |-> n, signed |-> b, checks |-> cs])
    BY <1>3 DEF add_step
  <2>2. Len(chain) + 1 \in DOMAIN chain'
    BY <1>1, <2>1
  <2>3. chain'[Len(chain) + 1] = [zone |-> n, signed |-> b, checks |-> cs]
    BY <1>1, <2>1
  <2>4. chain'[Len(chain) + 1].zone = n /\ cs \subseteq chain'[Len(chain) + 1].checks
    BY <2>3
  <2> QED
    BY <2>2, <2>4 DEF StepOf
<1> QED
  BY <1>2, <1>3

LEMMA FirstKept ==
    ASSUME TypeOK, ReportInv, NEW n, NEW b \in BOOLEAN, NEW cs, add_step(n, b, cs), n = Root \/ chain # <<>>
    PROVE  chain'[1].zone = Root
<1>1. CASE chain = <<>>
  <2>1. ~\E i \in DOMAIN chain : chain[i].zone = n
    BY <1>1
  <2>2. Len(chain') = 1 /\ chain'[Len(chain')].zone = n
    BY <1>1, <2>1, StepAdded
  <2> QED
    BY <1>1, <2>2
<1>2. CASE chain # <<>>
  <2>1. 1 \in 1 .. Len(chain)
    BY <1>2 DEF TypeOK
  <2> QED
    BY <1>2, <2>1, StepAdded DEF ReportInv
<1> QED
  BY <1>1, <1>2

LEMMA ExplainedKept ==
    ASSUME TypeOK, StepsExplained, NEW n, NEW b \in BOOLEAN, NEW cs, add_step(n, b, cs),
           b = FALSE \/ Explains(chain, Len(chain), n, cs)
    PROVE  StepsExplained'
<1> DEFINE m == Len(chain)
           m2 == Len(chain')
<1>1. m \in Nat /\ m2 \in Nat /\ (m2 = m \/ m2 = m + 1)
  BY StepAdded, Zenon
<1>5. DOMAIN chain = 1 .. m /\ DOMAIN chain' = 1 .. m2
  BY StepAdded, Zenon
<1>6. m2 # m => chain'[m2].zone = n /\ chain'[m2].signed = b /\ chain'[m2].checks = cs
  BY StepAdded
<1>2. \A j \in 1 .. m : /\ chain'[j].zone = chain[j].zone /\ chain'[j].signed = chain[j].signed
                       /\ chain[j].checks \subseteq chain'[j].checks
  BY StepAdded, Zenon
<1> HIDE DEF m, m2
<1>3. ASSUME NEW k \in Nat, k <= m, NEW zn, NEW old, NEW new, old \subseteq new,
             Explains(chain, k, zn, old)
      PROVE  Explains(chain', k, zn, new)
  <2>0. \A j \in 1 .. k : j \in 1 .. m
    BY <1>1, <1>3
  <2>1. \A j \in 1 .. k : chain'[j].zone = chain[j].zone /\ chain'[j].signed = chain[j].signed
    BY <1>2, <2>0
  <2>2. \A type, signer : Verifies(old, zn, type, signer) => Verifies(new, zn, type, signer)
    BY <1>3 DEF Verifies
  <2> QED
    BY <1>3, <2>1, <2>2 DEF Explains
<1>4. ASSUME NEW i \in 1 .. m2, chain'[i].signed
      PROVE  Explains(chain', i - 1, chain'[i].zone, chain'[i].checks)
  <2>1. CASE i \in 1 .. m
    <3>1. chain[i].signed /\ chain[i].zone = chain'[i].zone /\ chain[i].checks \subseteq chain'[i].checks
      BY <1>2, <1>4, <2>1
    <3>2. Explains(chain, i - 1, chain[i].zone, chain[i].checks)
      BY <1>5, <2>1, <3>1, StepsExplainedMeans
    <3>3. i - 1 \in Nat /\ i - 1 <= m
      BY <1>1, <2>1
    <3> QED
      BY <1>3, <3>1, <3>2, <3>3
  <2>2. CASE i \notin 1 .. m
    <3>1. i = m2 /\ i - 1 = m /\ m2 # m
      BY <1>1, <2>2
    <3>2. Explains(chain, m, n, cs)
      BY <1>4, <1>6, <3>1 DEF m
    <3>3. Explains(chain', m, n, cs)
      BY <1>1, <1>3, <3>2
    <3> QED
      BY <1>6, <3>1, <3>3
  <2> QED
    BY <2>1, <2>2
<1> QED
  BY <1>4, <1>5, StepsExplainedMeans

\* A step that is not signed is added only where the walk ends.
LEMMA UnsignedKept ==
    ASSUME TypeOK, UnsignedStepEnds, state = "walking",
           NEW n, NEW b \in BOOLEAN, NEW cs, add_step(n, b, cs),
           \/ b = TRUE
           \/ \E i \in DOMAIN chain : chain[i].zone = n
           \/ state' = "resolved" /\ result'.verdict = "bogus" /\ result'.at = n
    PROVE  UnsignedStepEnds'
<1> DEFINE m == Len(chain)
           m2 == Len(chain')
<1>1. m \in Nat /\ m2 \in Nat /\ (m2 = m \/ m2 = m + 1)
  BY StepAdded, Zenon
<1>2. DOMAIN chain = 1 .. m /\ DOMAIN chain' = 1 .. m2
  BY StepAdded, Zenon
<1>3. m2 # m => /\ chain'[m2].zone = n /\ chain'[m2].signed = b
                /\ \A i \in 1 .. m : chain[i].zone # n
  BY StepAdded, Zenon
<1>4. \A j \in 1 .. m : chain'[j].signed = chain[j].signed
  BY StepAdded, Zenon
<1>5. \A j \in 1 .. m : chain[j].signed
  BY <1>2 DEF UnsignedStepEnds
<1> SUFFICES ASSUME NEW i \in 1 .. m2, ~chain'[i].signed
             PROVE  /\ i = m2 /\ state' = "resolved"
                    /\ result'.verdict = "bogus" /\ result'.at = chain'[i].zone
  BY <1>2 DEF UnsignedStepEnds
<1> HIDE DEF m, m2
<1>6. i \notin 1 .. m
  BY <1>4, <1>5
<1>7. i = m2 /\ m2 # m
  BY <1>1, <1>6
<1> QED
  BY <1>2, <1>3, <1>7

LEMMA NoStepAdded ==
    ASSUME StepsExplained, UnsignedStepEnds, state = "walking", chain' = chain
    PROVE  StepsExplained' /\ UnsignedStepEnds'
<1>1. StepsExplained'
  BY StepsExplainedMeans
<1>2. \A i \in DOMAIN chain : chain[i].signed
  BY DEF UnsignedStepEnds
<1> QED
  BY <1>1, <1>2 DEF UnsignedStepEnds

LEMMA ReportSettled ==
    ASSUME state' \in {"resolved", "rejected"}, (ReportInv /\ chain' = chain) \/ chain'[1].zone = Root
    PROVE  ReportInv'
BY DEF ReportInv

-----------------------------------------------------------------------------
(* Checks and the reasons read off them *)

\* Where all DNSKEY records are at the zone's own name, an rrset verifies by a
\* signature the zone is the signer of.
LEMMA VerifiedCheck ==
    ASSUME NEW z, NEW n, NEW t, NEW mode, rrset_verified(z, n, t, mode),
           \A r \in z.rrs : r.type = "DNSKEY" => r.owner = z.name
    PROVE  Verifies(sig_checks(z, n, t, mode), n, t, z.name)
<1>1. PICK s \in find_rrsigs(z, n, t) : check_rrsig(z, s, mode).status = "verified"
  BY DEF rrset_verified, Statuses
<1>2. keys_for_mode(z, find_dnskeys(z, s.signer, TagOf(s.key)), mode) # {}
  BY <1>1 DEF check_rrsig, SigVerdict
<1>3. \E r \in z.rrs : r.owner = s.signer /\ r.type = "DNSKEY"
  BY <1>2 DEF keys_for_mode, find_dnskeys, find_rrset
<1>4. s.signer = z.name
  BY <1>3
<1> DEFINE c == [name |-> n, rrType |-> t, tag |-> TagOf(s.key), signer |-> s.signer,
                 result |-> check_rrsig(z, s, mode).status]
<1>5. c \in sig_checks(z, n, t, mode)
  BY DEF sig_checks
<1> QED
  BY <1>1, <1>4, <1>5 DEF Verifies

LEMMA MoreVerifies ==
    ASSUME NEW old, NEW new, old \subseteq new, NEW n, NEW t, NEW signer, Verifies(old, n, t, signer)
    PROVE  Verifies(new, n, t, signer)
BY DEF Verifies

\* The code of a failed check is the status of one of its signatures.
LEMMA CodeIsStatus ==
    ASSUME NEW z, NEW n, NEW t, NEW mode, NEW code, code = failure_code(z, n, t, mode),
           code \in {"sig-expired", "sig-not-yet-valid", "sig-invalid", "no-matching-key"}
    PROVE  \E c \in sig_checks(z, n, t, mode) : c.result = StatusOf(code)
<1>1. StatusOf(code) \in Statuses(z, n, t, mode)
  BY DEF failure_code, sig_failure_code, StatusOf
<1>2. PICK s \in find_rrsigs(z, n, t) : check_rrsig(z, s, mode).status = StatusOf(code)
  BY <1>1 DEF Statuses
<1> DEFINE c == [name |-> n, rrType |-> t, tag |-> TagOf(s.key), signer |-> s.signer,
                 result |-> check_rrsig(z, s, mode).status]
<1>3. c \in sig_checks(z, n, t, mode)
  BY DEF sig_checks
<1> QED
  BY <1>2, <1>3

LEMMA CodeExplained ==
    ASSUME NEW z, NEW n, NEW t, NEW mode, NEW cs, sig_checks(z, n, t, mode) \subseteq cs,
           StepOf(chain', result'.at, cs),
           result'.code = failure_code(z, n, t, mode), result'.verdict = "bogus"
    PROVE  ResultExplained'
<1>1. PICK i \in DOMAIN chain' : chain'[i].zone = result'.at /\ cs \subseteq chain'[i].checks
  BY DEF StepOf
<1>2. ASSUME result'.code \in {"sig-expired", "sig-not-yet-valid", "sig-invalid", "no-matching-key"}
      PROVE  \E c \in chain'[i].checks : c.result = StatusOf(result'.code)
  <2>1. PICK c \in sig_checks(z, n, t, mode) : c.result = StatusOf(result'.code)
    BY <1>2, CodeIsStatus
  <2> QED
    BY <1>1, <2>1
<1> QED
  BY <1>1, <1>2 DEF ResultExplained

\* Verdicts that need no explanation.
LEMMA OtherExplained ==
    ASSUME state' = "resolved" =>
            /\ result'.verdict # "secure"
            /\ result'.code \notin {"sig-expired", "sig-not-yet-valid", "sig-invalid", "no-matching-key"}
    PROVE  ResultExplained'
BY DEF ResultExplained

LEMMA BogusGives ==
    ASSUME TypeOK, NEW n \in Name, NEW code \in ReasonCode, ResolveHop(Bogus(n, code))
    PROVE  /\ state' = "resolved" /\ result'.verdict = "bogus"
           /\ result'.code = code /\ result'.at = n
<1>1. Bogus(n, code) \in Result
  BY BogusType
<1> QED
  BY <1>1, ResolveHopType DEF Bogus, Outcome, Pending

-----------------------------------------------------------------------------
(* One lemma per kind of answer *)

\* What holds of the report between two steps of the walk.
Reported == ReportInv /\ StepsExplained /\ UnsignedStepEnds /\ ResultExplained

\* The code is that of a check whose signatures are all in cs.
ShownBy(code, cs) ==
    \E z, o, t, mode : sig_checks(z, o, t, mode) \subseteq cs /\ code = failure_code(z, o, t, mode)

\* A walk that fails at the zone it reports, for a reason its checks show or
\* that needs none.
LEMMA FailsAt ==
    ASSUME TypeOK, Reported, state = "walking", NEW n \in Name, NEW cs, n = Root \/ chain # <<>>,
           add_step(n, FALSE, cs), NEW code \in ReasonCode, ResolveHop(Bogus(n, code)),
           \/ code \notin {"sig-expired", "sig-not-yet-valid", "sig-invalid", "no-matching-key"}
           \/ ShownBy(code, cs)
    PROVE  Reported'
<1>1. /\ state' = "resolved" /\ result'.verdict = "bogus"
      /\ result'.code = code /\ result'.at = n
  BY BogusGives
<1>2. chain'[1].zone = Root
  BY FirstKept DEF Reported
<1>3. ReportInv'
  BY <1>1, <1>2, ReportSettled
<1>4. StepsExplained'
  BY ExplainedKept DEF Reported
<1>5. UnsignedStepEnds'
  BY <1>1, UnsignedKept DEF Reported
<1>6. StepOf(chain', result'.at, cs)
  BY <1>1, StepThere
<1>7. ResultExplained'
  <2>1. CASE code \notin {"sig-expired", "sig-not-yet-valid", "sig-invalid", "no-matching-key"}
    BY <1>1, <2>1, OtherExplained
  <2>2. CASE ShownBy(code, cs)
    BY <1>1, <1>6, <2>2, CodeExplained DEF ShownBy
  <2> QED
    BY <2>1, <2>2
<1> QED
  BY <1>3, <1>4, <1>5, <1>7 DEF Reported

\* A walk that ends and reports no further step.
LEMMA EndsHere ==
    ASSUME Reported, state = "walking", chain' = chain,
           state' = "rejected" \/
                /\ state' = "resolved" /\ result'.verdict # "secure"
                /\ result'.code \notin {"sig-expired", "sig-not-yet-valid", "sig-invalid", "no-matching-key"}
    PROVE  Reported'
<1>1. StepsExplained' /\ UnsignedStepEnds'
  BY NoStepAdded DEF Reported
<1>2. ReportInv'
  BY ReportSettled DEF Reported
<1>3. ResultExplained'
  BY OtherExplained
<1> QED
  BY <1>1, <1>2, <1>3 DEF Reported

LEMMA RejectsHere ==
    ASSUME Reported, state = "walking", chain' = chain, NEW error, Reject(error)
    PROVE  Reported'
BY EndsHere DEF Reject

LEMMA ThrowsHere ==
    ASSUME Reported, state = "walking", chain' = chain, NEW z, NEW n, NEW t, NEW mode,
           CheckThrows(z, n, t, mode)
    PROVE  Reported'
BY EndsHere, ThrowsSettles

\* The walk goes on below the zone in hand, or an abort stops it.
LEMMA GoesBelow ==
    ASSUME TypeOK, state = "walking", UNCHANGED Hop, NEW d \in Nat, AskBelow(d),
           chain'[1].zone = Root, \E i \in DOMAIN chain' : chain'[i].zone = zone'.name,
           Len(zone'.name) <= d
    PROVE  ReportInv' /\ ResultExplained'
<1>1. state' = "rejected" \/ state' = "walking"
  BY DEF AskBelow, Ask, Reject
<1>2. ResultExplained'
  BY <1>1 DEF ResultExplained
<1>3. ASSUME state' = "walking"
      PROVE  step' \in {"ds", "leaf"} /\ (step' = "ds" => depth' = d + 1)
  BY <1>3 DEF AskBelow, Ask, Reject
<1>4. ASSUME state' = "walking", step' = "ds" PROVE Len(zone'.name) < depth'
  <2>1. depth' = d + 1
    BY <1>3, <1>4
  <2> QED
    BY <2>1
<1> QED
  BY <1>1, <1>2, <1>3, <1>4 DEF ReportInv

LEMMA RootReports ==
    ASSUME TypeOK, Reported, NEW resp \in Responses, RootAnswer(resp)
    PROVE  Reported'
<1> DEFINE loaded == Loaded(NoZone, resp)
           z == [loaded EXCEPT !.trusted = find_rrset(loaded, Root, "DNSKEY") \cap Anchors]
           cs == sig_checks(z, Root, "DNSKEY", "KSK")
<1>1. state = "walking" /\ step = "root" /\ zone' = z /\ UNCHANGED <<aborted, Hop>>
  BY DEF RootAnswer, Walking
<1>2. z.name = Root /\ (\A r \in z.rrs : r.type = "DNSKEY" => r.owner = Root)
  <2>1. NoZone \in Zone /\ NoZone.rrs = {} /\ NoZone.name = Root
    BY NoZoneType DEF NoZone
  <2>2. loaded \in Zone /\ loaded.name = Root
    BY <2>1, AskedZoneType
  <2>3. Asked[1] = Root
    BY <1>1 DEF Asked
  <2>4. \A r \in loaded.rrs : r.type = "DNSKEY" => r.owner = Root
    BY <2>1, <2>3, LoadedKeys
  <2> QED
    BY <2>2, <2>4 DEF Zone
<1>3. RootMismatch(z) \/ RootUnverified(z) \/ RootVerified(z) \/ RootThrows(z)
  BY DEF RootAnswer
<1>4. failure_code(z, Root, "DNSKEY", "KSK") \in ReasonCode
  BY FailureCodeType
<1> HIDE DEF z
<1>5. CASE RootMismatch(z)
  BY <1>1, <1>5, FailsAt, RootIsName DEF RootMismatch, ReasonCode
<1>6. CASE RootUnverified(z)
  BY <1>1, <1>4, <1>6, FailsAt, RootIsName DEF RootUnverified, ShownBy
<1>7. CASE RootVerified(z)
  <2>1. add_step(Root, TRUE, cs) /\ AskBelow(0) /\ rrset_verified(z, Root, "DNSKEY", "KSK")
    BY <1>7 DEF RootVerified
  <2>2. Explains(chain, Len(chain), Root, cs)
    BY <1>2, <2>1, VerifiedCheck DEF Explains
  <2> HIDE DEF cs
  <2>3. StepsExplained' /\ UnsignedStepEnds'
    BY <1>1, <2>1, <2>2, ExplainedKept, UnsignedKept DEF Reported
  <2>4. chain'[1].zone = Root
    BY <2>1, FirstKept DEF Reported
  <2>5. \E i \in DOMAIN chain' : chain'[i].zone = Root
    BY <2>1, StepThere DEF StepOf
  <2>6. Len(zone'.name) <= 0
    BY <1>1, <1>2 DEF Root
  <2>7. ReportInv' /\ ResultExplained'
    BY <1>1, <1>2, <2>1, <2>4, <2>5, <2>6, GoesBelow
  <2> QED
    BY <2>3, <2>7 DEF Reported
<1>8. CASE RootThrows(z)
  BY <1>1, <1>8, ThrowsHere DEF RootThrows
<1> QED
  BY <1>3, <1>5, <1>6, <1>7, <1>8

LEMMA DSReports ==
    ASSUME TypeOK, KeysInv, Reported, NEW resp \in Responses, DSAnswer(resp)
    PROVE  Reported'
<1> DEFINE z == Loaded(zone, resp)
           cs == sig_checks(z, ChildName, "DS", "None")
<1>1. state = "walking" /\ step = "ds" /\ zone' = z /\ UNCHANGED <<aborted, Hop>>
  BY DEF DSAnswer, Walking
<1>2. ChildName \in Name /\ depth \in Nat
  BY <1>1, ChildType
<1>3. z.name = zone.name
  BY AskedZoneType DEF TypeOK
<1>4. /\ chain # <<>> /\ chain[1].zone = Root
      /\ \E i \in DOMAIN chain : chain[i].zone = zone'.name
      /\ Len(zone.name) < depth
  BY <1>1, <1>3 DEF Reported, ReportInv
<1>5. \/ DSUnverified(z) \/ DSVerified(z) \/ DSThrows(z)
      \/ NoCut(z) \/ InsecureDelegation(z) \/ NoDSProofThrows(z)
  BY DEF DSAnswer
<1>6. failure_code(z, ChildName, "DS", "None") \in ReasonCode
  BY FailureCodeType
<1> HIDE DEF z
<1>7. CASE DSUnverified(z)
  BY <1>1, <1>2, <1>4, <1>6, <1>7, FailsAt DEF DSUnverified, ShownBy
<1>8. CASE DSVerified(z)
  <2>1. chain' = chain /\ Ask("dnskey", depth) /\ rrset_verified(z, ChildName, "DS", "None")
    BY <1>8 DEF DSVerified
  <2>2. StepsExplained' /\ UnsignedStepEnds'
    BY <1>1, <2>1, NoStepAdded DEF Reported
  <2>3. \/ state' = "rejected"
        \/ state' = "walking" /\ step' = "dnskey" /\ depth' = depth
    BY <1>1, <2>1 DEF Ask, Reject
  <2>4. state' = "walking" => ChildName' = ChildName
    BY <1>1, <2>3 DEF ChildName, Hop
  <2>5. ReportInv'
    <3>1. CASE state' = "rejected"
      BY <2>1, <3>1, ReportSettled DEF Reported
    <3>2. CASE state' = "walking"
      BY <1>1, <1>3, <1>4, <2>1, <2>3, <2>4, <3>2 DEF ReportInv
    <3> QED
      BY <2>3, <3>1, <3>2
  <2>6. ResultExplained'
    BY <2>3 DEF ResultExplained
  <2> QED
    BY <2>2, <2>5, <2>6 DEF Reported
<1>9. CASE DSThrows(z)
  BY <1>1, <1>9, ThrowsHere DEF DSThrows
<1>10. CASE NoCut(z)
  <2>1. chain' = chain /\ AskBelow(depth)
    BY <1>10 DEF NoCut
  <2>2. StepsExplained' /\ UnsignedStepEnds'
    BY <1>1, <2>1, NoStepAdded DEF Reported
  <2>3. Len(zone'.name) <= depth
    <3>1. Len(zone.name) \in Nat
      BY DEF TypeOK, Zone, Name
    <3> QED
      BY <1>1, <1>2, <1>3, <1>4, <3>1
  <2>4. ReportInv' /\ ResultExplained'
    BY <1>1, <1>2, <1>4, <2>1, <2>3, GoesBelow
  <2> QED
    BY <2>2, <2>4 DEF Reported
<1>11. CASE InsecureDelegation(z)
  <2>1. PICK r \in Proof(z, NoDS) :
          ResolveHop([Outcome("insecure", "no-ds", ChildName) EXCEPT !.proof = {r}])
    BY <1>11 DEF InsecureDelegation
  <2>2. state' = "resolved" /\ result'.verdict = "insecure" /\ result'.code = "no-ds"
    BY <2>1 DEF ResolveHop, Resolve, CombinedWith, combine_verdicts, Outcome, Pending, TypeOK
  <2>3. chain' = chain
    BY <1>11 DEF InsecureDelegation
  <2> QED
    BY <1>1, <2>2, <2>3, EndsHere
<1>12. CASE NoDSProofThrows(z)
  BY <1>1, <1>12, RejectsHere DEF NoDSProofThrows
<1> QED
  BY <1>5, <1>7, <1>8, <1>9, <1>10, <1>11, <1>12

LEMMA DNSKEYReports ==
    ASSUME TypeOK, KeysInv, Reported, NEW resp \in Responses, DNSKEYAnswer(resp)
    PROVE  Reported'
<1> DEFINE loaded   == Loaded([NoZone EXCEPT !.name = ChildName], resp)
           keys     == find_rrset(loaded, ChildName, "DNSKEY")
           dses     == find_rrset(zone, ChildName, "DS")
           child    == [loaded EXCEPT !.trusted = keys \cap dses]
           dsChecks == sig_checks(zone, ChildName, "DS", "None")
           checks   == sig_checks(child, ChildName, "DNSKEY", "KSK")
<1>1. state = "walking" /\ step = "dnskey" /\ UNCHANGED <<aborted, Hop>>
  BY DEF DNSKEYAnswer, Walking
<1>2. /\ ChildName \in Name /\ depth \in Nat /\ depth <= Len(qname)
      /\ Len(ChildName) = depth
  BY <1>1, ChildType, AncestorType DEF ChildName, TypeOK
<1>3. child.name = ChildName /\ (\A r \in child.rrs : r.type = "DNSKEY" => r.owner = child.name)
  <2>1. [NoZone EXCEPT !.name = ChildName] \in Zone
    BY <1>2, NoZoneType DEF Zone
  <2>2. loaded \in Zone /\ loaded.name = ChildName
    BY <2>1, AskedZoneType DEF NoZone
  <2>3. Asked[1] = ChildName
    BY <1>1 DEF Asked
  <2>4. \A r \in loaded.rrs : r.type = "DNSKEY" => r.owner = ChildName
    BY <2>1, <2>3, LoadedKeys DEF NoZone
  <2> QED
    BY <2>2, <2>4 DEF Zone
<1>4. /\ chain # <<>> /\ Len(zone.name) < depth /\ rrset_verified(zone, ChildName, "DS", "None")
      /\ \E i \in DOMAIN chain : chain[i].zone = zone.name
  BY <1>1 DEF Reported, ReportInv
<1>5. \/ NoDNSKEY(dsChecks) \/ DigestThrows(keys, dses) \/ DSMismatch(dsChecks)
      \/ DNSKEYUnverified(child, dsChecks) \/ Descended(child, dsChecks)
      \/ DNSKEYThrows(child)
  BY DEF DNSKEYAnswer
<1>6. failure_code(child, ChildName, "DNSKEY", "KSK") \in ReasonCode
  BY FailureCodeType
<1>7. Verifies(dsChecks, ChildName, "DS", zone.name)
  <2>1. \A r \in zone.rrs : r.type = "DNSKEY" => r.owner = zone.name
    BY <1>1 DEF KeysInv, OwnKeys
  <2> QED
    BY <1>4, <2>1, VerifiedCheck
<1>8. IsBelow(ChildName, zone.name)
  <2>1. PICK d \in 0 .. Len(qname) : zone.name = Ancestor(qname, d)
    BY <1>1 DEF KeysInv, Ancestors
  <2>2. qname \in Name /\ Len(zone.name) = d
    BY <2>1, AncestorType DEF TypeOK
  <2>3. d \in Nat /\ d < depth
    BY <1>4, <2>2
  <2>4. Ancestor(ChildName, d) = zone.name
    BY <1>2, <2>1, <2>2, <2>3, AncestorOfAncestor DEF ChildName
  <2> QED
    BY <1>2, <2>2, <2>3, <2>4 DEF IsBelow
<1> HIDE DEF child, keys, dses, dsChecks, checks
<1>9. CASE NoDNSKEY(dsChecks)
  BY <1>1, <1>2, <1>4, <1>9, FailsAt DEF NoDNSKEY, ReasonCode
<1>10. CASE DigestThrows(keys, dses)
  BY <1>1, <1>10, RejectsHere DEF DigestThrows
<1>11. CASE DSMismatch(dsChecks)
  BY <1>1, <1>2, <1>4, <1>11, FailsAt DEF DSMismatch, ReasonCode
<1>12. CASE DNSKEYUnverified(child, dsChecks)
  <2>1. ShownBy(failure_code(child, ChildName, "DNSKEY", "KSK"), dsChecks \cup checks)
    BY DEF ShownBy, checks
  <2> QED
    BY <1>1, <1>2, <1>4, <1>6, <1>12, <2>1, FailsAt DEF DNSKEYUnverified, checks
<1>13. CASE Descended(child, dsChecks)
  <2> DEFINE cs == dsChecks \cup checks
  <2>1. /\ add_step(ChildName, TRUE, cs) /\ AskBelow(depth) /\ zone' = child
        /\ rrset_verified(child, ChildName, "DNSKEY", "KSK")
    BY <1>13 DEF Descended, checks
  <2>2. Verifies(checks, ChildName, "DNSKEY", ChildName)
    BY <1>3, <2>1, VerifiedCheck DEF checks
  <2>3. Verifies(cs, ChildName, "DNSKEY", ChildName) /\ Verifies(cs, ChildName, "DS", zone.name)
    BY <1>7, <2>2, MoreVerifies
  <2> HIDE DEF cs
  <2>4. Explains(chain, Len(chain), ChildName, cs)
    <3>1. PICK i \in DOMAIN chain : chain[i].zone = zone.name
      BY <1>4
    <3>2. chain[i].signed
      BY <1>1 DEF Reported, UnsignedStepEnds
    <3>3. DOMAIN chain = 1 .. Len(chain)
      BY DEF TypeOK
    <3> QED
      BY <1>8, <2>3, <3>1, <3>2, <3>3 DEF Explains
  <2>5. StepsExplained' /\ UnsignedStepEnds'
    BY <1>1, <2>1, <2>4, ExplainedKept, UnsignedKept DEF Reported
  <2>6. chain'[1].zone = Root
    BY <1>4, <2>1, FirstKept DEF Reported
  <2>7. \E i \in DOMAIN chain' : chain'[i].zone = ChildName
    BY <2>1, StepThere DEF StepOf
  <2>8. Len(zone'.name) <= depth
    BY <1>2, <1>3, <2>1
  <2>9. ReportInv' /\ ResultExplained'
    BY <1>1, <1>2, <1>3, <2>1, <2>6, <2>7, <2>8, GoesBelow
  <2> QED
    BY <2>5, <2>9 DEF Reported
<1>14. CASE DNSKEYThrows(child)
  BY <1>1, <1>14, ThrowsHere DEF DNSKEYThrows
<1> QED
  BY <1>5, <1>9, <1>10, <1>11, <1>12, <1>13, <1>14

LEMMA PositiveReports ==
    ASSUME TypeOK, Reported, state = "walking", NEW z \in Zone, z.name = zone.name, UNCHANGED Hop,
           QType # "DNSKEY" => \A r \in z.rrs : r.type = "DNSKEY" => r.owner = z.name,
           chain # <<>>, \E i \in DOMAIN chain : chain[i].zone = zone.name, Positive(z)
    PROVE  Reported'
<1> DEFINE cs == LeafChecks(z)
<1>1. zone.name \in Name
  BY DEF TypeOK, Zone
<1>2. CASE CheckThrows(z, qname, QType, "None") /\ UNCHANGED chain
  BY <1>2, ThrowsHere
<1>3. CASE /\ add_step(zone.name, FALSE, cs)
           /\ LeafUnverified(z) \/ LeafSecure(z) \/ LeafWildcard(z)
  <2>1. ASSUME NEW encloser, NEW proof, SecureAnswer(z, encloser, proof),
               rrset_verified(z, qname, QType, "None")
        PROVE  Reported'
    <3>1. /\ state' = "resolved" /\ result'.verdict = "secure" /\ result'.code = None
      BY <2>1 DEF SecureAnswer, ResolveHop, Resolve, CombinedWith, combine_verdicts, Pending, TypeOK
    <3>2. StepsExplained' /\ UnsignedStepEnds'
      BY <1>3, ExplainedKept, UnsignedKept DEF Reported
    <3>3. chain'[1].zone = Root
      BY <1>3, FirstKept DEF Reported
    <3>4. ReportInv'
      BY <3>1, <3>3, ReportSettled
    <3>5. StepOf(chain', zone.name, cs)
      BY <1>3, StepThere
    <3>6. PICK i \in DOMAIN chain' : chain'[i].zone = zone.name /\ cs \subseteq chain'[i].checks
      BY <3>5 DEF StepOf
    <3>7. chain'[i].signed
      BY <3>1, <3>2 DEF UnsignedStepEnds
    <3>8. QType # "DNSKEY" => Verifies(cs, qname, QType, zone.name)
      BY <2>1, VerifiedCheck DEF LeafChecks
    <3> HIDE DEF cs
    <3>9. qname' = qname
      BY DEF Hop
    <3>10. QType # "DNSKEY" => Verifies(chain'[i].checks, qname', QType, chain'[i].zone)
      BY <3>6, <3>8, <3>9, MoreVerifies
    <3>11. result'.code \notin {"sig-expired", "sig-not-yet-valid", "sig-invalid", "no-matching-key"}
      BY <3>1, NoneAssumption DEF ReasonCode
    <3>12. ResultExplained'
      BY <3>6, <3>7, <3>10, <3>11 DEF ResultExplained, Checked, Verifies
    <3> QED
      BY <3>2, <3>4, <3>12 DEF Reported
  <2>2. CASE LeafUnverified(z)
    <3>1. failure_code(z, qname, QType, "None") \in ReasonCode
      BY FailureCodeType
    <3>2. ShownBy(failure_code(z, qname, QType, "None"), cs)
      BY DEF ShownBy, LeafChecks
    <3> QED
      BY <1>1, <1>3, <2>2, <3>1, <3>2, FailsAt DEF LeafUnverified
  <2>3. CASE LeafSecure(z)
    BY <2>1, <2>3 DEF LeafSecure
  <2>4. CASE LeafWildcard(z)
    <3>1. CASE Reject("foreign")
      <4>1. state' = "rejected"
        BY <3>1 DEF Reject
      <4>2. StepsExplained' /\ UnsignedStepEnds'
        BY <1>3, ExplainedKept, UnsignedKept DEF Reported
      <4>3. chain'[1].zone = Root
        BY <1>3, FirstKept DEF Reported
      <4> QED
        BY <4>1, <4>2, <4>3, ReportSettled, OtherExplained DEF Reported
    <3>2. CASE ResolveHop(Bogus(zone.name, "wildcard-proof-missing"))
      BY <1>1, <1>3, <3>2, FailsAt DEF ReasonCode
    <3> QED
      BY <2>1, <2>4, <3>1, <3>2 DEF LeafWildcard
  <2> QED
    BY <1>3, <2>2, <2>3, <2>4
<1> QED
  BY <1>2, <1>3 DEF Positive

LEMMA NegativeReports ==
    ASSUME TypeOK, Reported, state = "walking", chain' = chain, NEW z, Negative(z)
    PROVE  Reported'
<1>1. ASSUME NEW v \in {"secure-nodata", "secure-nxdomain"}, NEW proof, NegativeOutcome(v, proof)
      PROVE  Reported'
  <2>1. state' = "resolved" /\ result'.verdict = v /\ result'.code = None
    BY <1>1 DEF NegativeOutcome, Outcome, ResolveHop, Resolve, CombinedWith, combine_verdicts,
                Pending, TypeOK
  <2> QED
    BY <1>1, <2>1, EndsHere, NoneAssumption DEF ReasonCode
<1>2. ASSUME Indeterminate PROVE Reported'
  <2>1. state' = "resolved" /\ result'.verdict = "indeterminate" /\ result'.code = None
    BY <1>2 DEF Indeterminate, Outcome, ResolveHop, Resolve, CombinedWith, combine_verdicts,
                Pending, TypeOK
  <2> QED
    BY <2>1, EndsHere, NoneAssumption DEF ReasonCode
<1>3. ASSUME Reject("foreign") PROVE Reported'
  BY <1>3, RejectsHere
<1>4. ASSUME NEW r, CoveredBy(z, r) PROVE Reported'
  <2> DEFINE wildcard == wildcard_at(qname, EncloserOf(r.owner, r.data, qname))
  <2>1. \/ NegativeOutcome("secure-nodata", {r})
        \/ Indeterminate
        \/ \E w \in Proof(z, NoData(wildcard)) : NegativeOutcome("secure-nodata", {r, w})
        \/ \E w \in Proof(z, Covers(wildcard)) : NegativeOutcome("secure-nxdomain", {r, w})
        \/ Reject("foreign")
    BY <1>4, Zenon DEF CoveredBy
  <2> QED
    BY <1>1, <1>2, <1>3, <2>1
<1> QED
  BY <1>1, <1>2, <1>3, <1>4 DEF Negative

LEMMA NextHopReports ==
    ASSUME TypeOK, Reported, state = "walking", NEW cs, add_step(zone.name, FALSE, cs), chain # <<>>,
           \E i \in DOMAIN chain : chain[i].zone = zone.name,
           NEW type, NEW from, NEW target, NextHop(type, from, target)
    PROVE  Reported'
<1>1. StepsExplained' /\ UnsignedStepEnds'
  BY ExplainedKept, UnsignedKept DEF Reported
<1>2. chain'[1].zone = Root
  BY FirstKept DEF Reported
<1>3. \/ state' = "rejected"
      \/ state' = "walking" /\ step' = "root"
      \/ state' = "resolved" /\ result'.verdict = "bogus" /\ result'.code \in {"alias-limit", "alias-loop"}
  BY DEF NextHop, Ask, Resolve, Reject, Bogus, Outcome, Pending
<1>4. ResultExplained'
  BY <1>3, OtherExplained
<1>5. ReportInv'
  BY <1>2, <1>3 DEF ReportInv
<1> QED
  BY <1>1, <1>4, <1>5 DEF Reported

LEMMA RedirectReports ==
    ASSUME TypeOK, Reported, state = "walking", chain # <<>>,
           \E i \in DOMAIN chain : chain[i].zone = zone.name,
           NEW z, NEW type, NEW owner \in Name, NEW rtype, NEW target, NEW next,
           Redirect(z, type, owner, rtype, target, next)
    PROVE  Reported'
<1> DEFINE cs == sig_checks(z, owner, rtype, "None")
           code == failure_code(z, owner, rtype, "None")
<1>1. zone.name \in Name /\ code \in ReasonCode
  BY FailureCodeType DEF TypeOK, Zone
<1>2. CASE ResolveHop(Bogus(owner, "alias-target-invalid")) /\ UNCHANGED chain
  <2>1. "alias-target-invalid" \in ReasonCode
    BY DEF ReasonCode
  <2>2. state' = "resolved" /\ result'.verdict = "bogus" /\ result'.code = "alias-target-invalid"
    BY <1>2, <2>1, BogusGives
  <2> QED
    BY <1>2, <2>2, EndsHere
<1>3. CASE CheckThrows(z, owner, rtype, "None") /\ UNCHANGED chain
  BY <1>3, ThrowsHere
<1>4. CASE add_step(zone.name, FALSE, cs) /\ ResolveHop(Bogus(zone.name, code))
  <2>1. ShownBy(code, cs)
    BY DEF ShownBy
  <2> QED
    BY <1>1, <1>4, <2>1, FailsAt
<1>5. CASE add_step(zone.name, FALSE, cs) /\ NextHop(type, owner, next)
  BY <1>5, NextHopReports
<1> QED
  BY <1>2, <1>3, <1>4, <1>5 DEF Redirect

LEMMA LeafReports ==
    ASSUME TypeOK, KeysInv, Reported, NEW resp \in Responses, LeafAnswer(resp)
    PROVE  Reported'
<1> DEFINE z == Loaded(zone, resp)
<1>1. state = "walking" /\ step = "leaf" /\ Asked = <<qname, QType>> /\ qname \in Name
  BY DEF LeafAnswer, Walking, Asked, TypeOK
<1>2. z \in Zone /\ z.name = zone.name
  BY AskedZoneType DEF TypeOK
<1>3. QType # "DNSKEY" => \A r \in z.rrs : r.type = "DNSKEY" => r.owner = z.name
  <2>1. QType # "DNSKEY" => OwnKeys(z)
    BY <1>1, LoadedKeepsKeys DEF KeysInv, TypeOK
  <2> QED
    BY <2>1 DEF OwnKeys
<1>4. chain # <<>> /\ \E i \in DOMAIN chain : chain[i].zone = zone.name
  BY <1>1 DEF Reported, ReportInv
<1>5. \/ Positive(z) /\ UNCHANGED Hop
      \/ try_dname(z)
      \/ try_cname(z)
      \/ Negative(z) /\ UNCHANGED chain
  BY DEF LeafAnswer
<1> HIDE DEF z
<1>6. CASE Positive(z) /\ UNCHANGED Hop
  BY <1>1, <1>2, <1>3, <1>4, <1>6, PositiveReports
<1>7. CASE try_dname(z)
  <2>1. PICK d \in DnameDepths(z) : \E r :
          Redirect(z, "dname", Ancestor(qname, d), "DNAME", Target(r), synthesise(qname, d, Target(r)))
    BY <1>7 DEF try_dname
  <2>2. d \in 0 .. Len(qname)
    BY <1>1 DEF DnameDepths, Name
  <2>3. Ancestor(qname, d) \in Name
    BY <1>1, <2>2, AncestorType
  <2> QED
    BY <1>1, <1>4, <2>1, <2>3, RedirectReports
<1>8. CASE try_cname(z)
  <2>1. \E r : Redirect(z, "cname", qname, "CNAME", Target(r), Target(r))
    BY <1>8 DEF try_cname
  <2> QED
    BY <1>1, <1>4, <2>1, RedirectReports
<1>9. CASE Negative(z) /\ UNCHANGED chain
  BY <1>1, <1>9, NegativeReports
<1> QED
  BY <1>5, <1>6, <1>7, <1>8, <1>9

-----------------------------------------------------------------------------
(* The theorems *)

LEMMA ReportStep ==
    ASSUME TypeOK, KeysInv, Reported, [Next]_vars
    PROVE  Reported'
<1>1. CASE \E n \in QNames : Call(n)
  <2>1. PICK n \in QNames : Call(n)
    BY <1>1
  <2>2. chain = <<>> /\ chain' = <<>> /\ DOMAIN chain' = {}
    BY <2>1 DEF Call, Reported, ReportInv
  <2>3. state' = "rejected" \/ (state' = "walking" /\ step' = "root")
    BY <2>1 DEF Call, Reject
  <2> QED
    BY <2>2, <2>3 DEF Reported, ReportInv, StepsExplained, UnsignedStepEnds, ResultExplained
<1>2. CASE CallEmpty
  <2>1. chain = <<>> /\ chain' = <<>> /\ DOMAIN chain' = {} /\ state' = "rejected"
    BY <1>2 DEF CallEmpty, walk, Reported, ReportInv, Reject
  <2> QED
    BY <2>1 DEF Reported, ReportInv, StepsExplained, UnsignedStepEnds, ResultExplained
<1>3. CASE Failed
  BY <1>3, RejectsHere DEF Failed, BadRcode, QueryThrows, walk
<1>4. CASE Abort \/ UNCHANGED vars
  <2>1. UNCHANGED <<state, walk, result>>
    BY <1>4 DEF Abort, walk, vars
  <2>2. UnsignedStepEnds' /\ ResultExplained'
    BY <2>1 DEF Reported, UnsignedStepEnds, ResultExplained, Checked, walk
  <2>3. StepsExplained'
    BY <2>1, StepsExplainedMeans DEF Reported, walk
  <2>4. ReportInv'
    BY <2>1 DEF Reported, ReportInv, walk, ChildName
  <2> QED
    BY <2>2, <2>3, <2>4 DEF Reported
<1>5. CASE Answered
  BY <1>5, RootReports, DSReports, DNSKEYReports, LeafReports DEF Answered
<1> QED
  BY <1>1, <1>2, <1>3, <1>4, <1>5 DEF Next

LEMMA ReportProved == Spec => [](TypeOK /\ KeysInv /\ Reported)
<1>1. Init => TypeOK /\ KeysInv /\ Reported
  <2> SUFFICES ASSUME Init PROVE TypeOK /\ KeysInv /\ Reported
    OBVIOUS
  <2>1. chain = <<>> /\ DOMAIN chain = {} /\ state = "idle"
    BY DEF Init
  <2>2. Reported
    BY <2>1 DEF Reported, ReportInv, StepsExplained, UnsignedStepEnds, ResultExplained
  <2> QED
    BY <2>1, <2>2, InitType DEF KeysInv
<1>2. TypeOK /\ KeysInv /\ Reported /\ [Next]_vars => TypeOK' /\ KeysInv' /\ Reported'
  BY StepType, KeysStep, ReportStep
<1> QED
  BY <1>1, <1>2, PTL DEF Spec

\* Every step the chain marks signed shows the signature over its DNSKEY rrset
\* and, below the root, the one over its DS rrset by a signed step before it
\* (add_step and summarize_zone in chain.ts).
THEOREM StepsProved == Spec => []StepsExplained
<1>1. TypeOK /\ KeysInv /\ Reported => StepsExplained
  BY DEF Reported
<1> QED
  BY <1>1, ReportProved, PTL

\* A step that is not signed is the last one, and the call ended Bogus there.
THEOREM UnsignedEnds == Spec => []UnsignedStepEnds
<1>1. TypeOK /\ KeysInv /\ Reported => UnsignedStepEnds
  BY DEF Reported
<1> QED
  BY <1>1, ReportProved, PTL

\* The reason of a Bogus verdict and the signature behind a Secure one can be
\* read off the chain the result reports.
THEOREM ResultsProved == Spec => []ResultExplained
<1>1. TypeOK /\ KeysInv /\ Reported => ResultExplained
  BY DEF Reported
<1> QED
  BY <1>1, ReportProved, PTL

-----------------------------------------------------------------------------
(* The promise of Validation *)

\* What the walk's variables map to.
ZonesOf(ch) == [i \in DOMAIN ch |-> ch[i].zone]

Zones == ZonesOf(chain)

TargetsOf(as) == [i \in DOMAIN as |-> as[i].target]

Targets == TargetsOf(aliases)

Settlement == [verdict |-> result.verdict, code |-> result.code, at |-> result.at,
               answered |-> result.answer # {}, encloser |-> result.encloser,
               error |-> result.error]

-----------------------------------------------------------------------------
(* The sequences mapped to *)

LEMMA NamesOf ==
    ASSUME NEW n \in Nat, NEW f, DOMAIN f = 1 .. n, \A i \in 1 .. n : f[i] \in Name,
           f = [i \in DOMAIN f |-> f[i]]
    PROVE  f \in Seq(Name) /\ Len(f) = n
<1>1. f \in [1 .. n -> Name]
  OBVIOUS
<1>2. f \in Seq(Name)
  BY <1>1
<1>3. Len(f) \in Nat /\ 1 .. Len(f) = 1 .. n
  BY <1>2, LenProperties
<1> QED
  BY <1>2, <1>3

LEMMA ZonesAre ==
    ASSUME NEW ch \in Seq(ZoneStep)
    PROVE  /\ ZonesOf(ch) \in Seq(Name) /\ Len(ZonesOf(ch)) = Len(ch) /\ Len(ch) \in Nat
           /\ DOMAIN ZonesOf(ch) = 1 .. Len(ch)
           /\ \A i \in 1 .. Len(ch) : ZonesOf(ch)[i] = ch[i].zone
<1>1. Len(ch) \in Nat /\ DOMAIN ch = 1 .. Len(ch) /\ \A i \in 1 .. Len(ch) : ch[i] \in ZoneStep
  OBVIOUS
<1>2. \A i \in 1 .. Len(ch) : ch[i].zone \in Name
  BY <1>1 DEF ZoneStep
<1>3. DOMAIN ZonesOf(ch) = 1 .. Len(ch) /\ \A i \in 1 .. Len(ch) : ZonesOf(ch)[i] = ch[i].zone
  BY <1>1 DEF ZonesOf
<1>4. ZonesOf(ch) = [i \in DOMAIN ZonesOf(ch) |-> ZonesOf(ch)[i]]
  BY DEF ZonesOf
<1> QED
  BY <1>1, <1>2, <1>3, <1>4, NamesOf

LEMMA TargetsAre ==
    ASSUME NEW as \in Seq(AliasStep)
    PROVE  /\ TargetsOf(as) \in Seq(Name) /\ Len(TargetsOf(as)) = Len(as) /\ Len(as) \in Nat
           /\ DOMAIN TargetsOf(as) = 1 .. Len(as)
           /\ \A i \in 1 .. Len(as) : TargetsOf(as)[i] = as[i].target
<1>1. Len(as) \in Nat /\ DOMAIN as = 1 .. Len(as) /\ \A i \in 1 .. Len(as) : as[i] \in AliasStep
  OBVIOUS
<1>2. \A i \in 1 .. Len(as) : as[i].target \in Name
  BY <1>1 DEF AliasStep
<1>3. DOMAIN TargetsOf(as) = 1 .. Len(as) /\ \A i \in 1 .. Len(as) : TargetsOf(as)[i] = as[i].target
  BY <1>1 DEF TargetsOf
<1>4. TargetsOf(as) = [i \in DOMAIN TargetsOf(as) |-> TargetsOf(as)[i]]
  BY DEF TargetsOf
<1> QED
  BY <1>1, <1>2, <1>3, <1>4, NamesOf

\* A sequence of names that keeps its elements and has one more.
LEMMA OneMore ==
    ASSUME NEW old \in Seq(Name), NEW new \in Seq(Name), Len(new) = Len(old) + 1,
           \A i \in 1 .. Len(old) : new[i] = old[i]
    PROVE  Promise!GrowsByOne(old, new)
<1>1. Len(old) \in Nat /\ Len(new) \in 1 .. Len(new) /\ Len(old) <= Len(new)
  OBVIOUS
<1>2. /\ SubSeq(new, 1, Len(old)) \in Seq(Name) /\ Len(SubSeq(new, 1, Len(old))) = Len(old)
      /\ \A i \in 1 .. Len(old) : SubSeq(new, 1, Len(old))[i] = new[i]
  BY <1>1, SubSeqProperties
<1>3. SubSeq(new, 1, Len(old)) = old
  BY <1>2, SeqEqual
<1> QED
  BY <1>1, <1>3 DEF Promise!GrowsByOne

\* What the promise allows the steps reported to become.
ZonesGrow ==
    /\ Promise!GrowsByOne(Zones, Zones')
    /\ \A i \in DOMAIN Zones : Len(Zones') > Len(Zones) => Zones'[Len(Zones')] # Zones[i]
    /\ Zones' # <<>> => Zones'[1] = Root

LEMMA ZonesStay ==
    ASSUME TypeOK, ReportInv, chain' = chain
    PROVE  ZonesGrow
<1>0. chain \in Seq(ZoneStep)
  BY DEF TypeOK
<1>1. Zones' = Zones /\ Zones \in Seq(Name) /\ Len(Zones) = Len(chain)
  BY <1>0, ZonesAre DEF Zones, ZonesOf
<1>2. ASSUME Zones # <<>> PROVE Zones[1] = Root
  <2>1. 1 \in 1 .. Len(chain) /\ chain # <<>>
    BY <1>0, <1>1, <1>2
  <2> QED
    BY <1>0, <2>1, ZonesAre DEF ReportInv, Zones
<1> QED
  BY <1>1, <1>2 DEF ZonesGrow, Promise!GrowsByOne

LEMMA ZonesAdd ==
    ASSUME TypeOK, chain' \in Seq(ZoneStep), ReportInv, NEW n \in Name, NEW b \in BOOLEAN, NEW cs,
           add_step(n, b, cs), n = Root \/ chain # <<>>
    PROVE  ZonesGrow
<1> DEFINE m == Len(chain)
           m2 == Len(chain')
<1>1. m \in Nat /\ m2 \in Nat /\ (m2 = m \/ m2 = m + 1)
  BY StepAdded, Zenon
<1>2. m2 # m => /\ chain'[m2].zone = n
                /\ \A i \in 1 .. m : chain[i].zone # n
  BY StepAdded, Zenon
<1>3. \A j \in 1 .. m : chain'[j].zone = chain[j].zone
  BY StepAdded, Zenon
<1>4. /\ Zones \in Seq(Name) /\ Len(Zones) = m /\ DOMAIN Zones = 1 .. m
      /\ \A i \in 1 .. m : Zones[i] = chain[i].zone
  BY ZonesAre DEF TypeOK, Zones
<1>5. /\ Zones' \in Seq(Name) /\ Len(Zones') = m2 /\ DOMAIN Zones' = 1 .. m2
      /\ \A i \in 1 .. m2 : Zones'[i] = chain'[i].zone
  <2>1. Zones' = ZonesOf(chain')
    BY DEF Zones
  <2> QED
    BY <2>1, ZonesAre
<1>6. chain'[1].zone = Root
  BY FirstKept
<1> HIDE DEF m, m2
<1>7. \A i \in 1 .. m : i \in 1 .. m2 /\ Zones'[i] = Zones[i]
  <2>1. \A i \in 1 .. m : i \in 1 .. m2
    BY <1>1
  <2> QED
    BY <1>3, <1>4, <1>5, <2>1
<1>8. Promise!GrowsByOne(Zones, Zones')
  <2>1. CASE m2 = m
    <3>1. Zones' = Zones
      BY <1>4, <1>5, <1>7, <2>1, SeqEqual
    <3> QED
      BY <3>1 DEF Promise!GrowsByOne
  <2>2. CASE m2 = m + 1
    BY <1>4, <1>5, <1>7, <2>2, OneMore
  <2> QED
    BY <1>1, <2>1, <2>2
<1>9. ASSUME NEW i \in 1 .. m, m2 > m PROVE Zones'[m2] # Zones[i]
  <2>1. m2 # m /\ m2 \in 1 .. m2
    BY <1>1, <1>9
  <2> QED
    BY <1>2, <1>4, <1>5, <2>1
<1>10. ASSUME Zones' # <<>> PROVE Zones'[1] = Root
  <2>1. 1 \in 1 .. m2
    BY <1>1, <1>5, <1>10
  <2> QED
    BY <1>5, <1>6, <2>1
<1> QED
  BY <1>4, <1>5, <1>8, <1>9, <1>10 DEF ZonesGrow
-----------------------------------------------------------------------------
(* How a run of the walk ends *)

\* The codes a failed check of signatures gives, and those the walk adds.
CheckCode == {"no-rrsig", "no-matching-key", "sig-invalid", "sig-expired", "sig-not-yet-valid"}

PlainCode == CheckCode \cup {"no-dnskey", "trust-anchor-mismatch", "ds-mismatch", "alias-loop",
                             "alias-target-invalid", "wildcard-proof-missing"}

\* The call resolves with what its verdict calls for, not at the limit of
\* redirects; it rejects; or the next query is out.
ResolvesWell ==
    state' = "resolved" /\ Promise!Contract(Settlement') /\ result'.code # "alias-limit"

RejectsWell ==
    state' = "rejected" /\ result'.code = None /\ result'.error \in Rejection \ {"invalid-qname"}

GoesOn == state' = "walking" /\ ~aborted /\ result' = result

EndsWell == ResolvesWell \/ RejectsWell \/ GoesOn

LEMMA RejectsKeep ==
    ASSUME NEW e \in Rejection \ {"invalid-qname"}, Reject(e)
    PROVE  RejectsWell
BY DEF Reject, Pending, RejectsWell

LEMMA AskKeeps ==
    ASSUME state = "walking", NEW s, NEW d, Ask(s, d)
    PROVE  RejectsWell \/ GoesOn
BY RejectsKeep DEF Ask, GoesOn, Rejection

LEMMA AskBelowEnds ==
    ASSUME state = "walking", NEW d, AskBelow(d)
    PROVE  EndsWell
BY AskKeeps DEF AskBelow, EndsWell

LEMMA ThrowsKeep ==
    ASSUME NEW z, NEW n, NEW t, NEW mode, CheckThrows(z, n, t, mode)
    PROVE  EndsWell
BY RejectsKeep DEF CheckThrows, EndsWell, Rejection

LEMMA BogusKeeps ==
    ASSUME TypeOK, NEW n \in Name, NEW code \in PlainCode \cup {"alias-limit"}, ResolveHop(Bogus(n, code))
    PROVE  state' = "resolved" /\ Promise!Contract(Settlement') /\ result'.code = code /\ result'.at = n
<1>1. Bogus(n, code) \in Result /\ Bogus(n, code).verdict = "bogus"
  BY BogusType DEF PlainCode, CheckCode, ReasonCode
<1>2. state' = "resolved" /\ result' = [Bogus(n, code) EXCEPT !.answer = {}]
  BY <1>1, ResolveHopType
<1>3. /\ result'.verdict = "bogus" /\ result'.code = code /\ result'.at = n
      /\ result'.answer = {} /\ result'.encloser = None /\ result'.error = None
  BY <1>2 DEF Bogus, Outcome, Pending
<1>4. code \in ReasonCode \ {"no-ds", "unsupported-algorithm"}
  BY DEF PlainCode, CheckCode, ReasonCode
<1>5. Promise!Contract(Settlement')
  BY <1>3, <1>4 DEF Promise!Contract, Settlement, Verdict
<1> QED
  BY <1>2, <1>3, <1>5

LEMMA BogusEnds ==
    ASSUME TypeOK, NEW n \in Name, NEW code \in PlainCode, ResolveHop(Bogus(n, code))
    PROVE  EndsWell
BY BogusKeeps DEF EndsWell, ResolvesWell, PlainCode, CheckCode

\* A signature of an unsupported algorithm makes the check throw, so an rrset
\* that is only unverified has another reason.
LEMMA UnverifiedCode ==
    ASSUME NEW z, NEW n, NEW t, NEW mode, Unverified(z, n, t, mode)
    PROVE  failure_code(z, n, t, mode) \in CheckCode
<1> DEFINE statuses == Statuses(z, n, t, mode)
<1>1. ASSUME NEW s \in find_rrsigs(z, n, t),
             check_rrsig(z, s, mode).status = "unsupported-algorithm"
      PROVE  FALSE
  <2>1. check_rrsig(z, s, mode).error
    BY <1>1 DEF check_rrsig, SigVerdict
  <2> QED
    BY <2>1 DEF Unverified, rrset_error
<1>2. statuses \subseteq SigStatus \ {"unsupported-algorithm", "verified"}
  BY <1>1, StatusType DEF Statuses, Unverified, rrset_verified
<1> HIDE DEF statuses
<1>3. \/ statuses = {} \/ "expired" \in statuses \/ "not-yet-valid" \in statuses
      \/ "invalid" \in statuses \/ "no-matching-key" \in statuses
  BY <1>2 DEF SigStatus
<1> QED
  BY <1>3 DEF failure_code, sig_failure_code, CheckCode, statuses

\* Only an rrset that is there verifies.
LEMMA VerifiedHolds ==
    ASSUME NEW z, NEW n, NEW t, NEW mode, rrset_verified(z, n, t, mode)
    PROVE  find_rrset(z, n, t) # {}
<1>1. PICK s \in find_rrsigs(z, n, t) : check_rrsig(z, s, mode).status = "verified"
  BY DEF rrset_verified, Statuses
<1>2. s.owner = n /\ s.covered = t
  BY DEF find_rrsigs
<1> QED
  BY <1>1, <1>2 DEF check_rrsig, SigVerdict

LEMMA SecureKeeps ==
    ASSUME TypeOK, NEW z \in Zone, NEW encloser \in Nat \cup {None}, NEW proof \in SUBSET RR,
           SecureAnswer(z, encloser, proof), rrset_verified(z, qname, QType, "None")
    PROVE  EndsWell
<1> DEFINE answer == find_rrset(z, qname, QType)
           o == [Pending EXCEPT !.verdict = "secure", !.answer = answer,
                                !.encloser = encloser, !.proof = proof]
<1>1. answer \in SUBSET Data /\ answer # {}
  BY RrsetType, VerifiedHolds
<1> HIDE DEF answer
<1>2. o \in Result
  BY <1>1 DEF Pending, Result, Verdict
<1>3. ResolveHop(o)
  BY DEF SecureAnswer, answer
<1>4. state' = "resolved" /\ result' = [o EXCEPT !.answer = IF o.verdict = "secure" THEN o.answer ELSE {}]
  BY <1>2, <1>3, ResolveHopType
<1>5. /\ result'.verdict = "secure" /\ result'.code = None /\ result'.at = None
      /\ result'.answer = answer /\ result'.error = None
  BY <1>4 DEF Pending
<1>6. Promise!Contract(Settlement')
  BY <1>1, <1>5 DEF Promise!Contract, Settlement, Verdict
<1> QED
  BY <1>4, <1>5, <1>6, NoneAssumption DEF EndsWell, ResolvesWell, ReasonCode

\* Verdicts without an answer or a reason.
LEMMA PlainKeeps ==
    ASSUME TypeOK, NEW o \in Result, ResolveHop(o),
           o.verdict \in {"secure-nodata", "secure-nxdomain", "indeterminate"},
           o.code = None, o.at = None, o.encloser = None, o.error = None
    PROVE  EndsWell
<1>1. state' = "resolved" /\ result' = [o EXCEPT !.answer = {}]
  BY ResolveHopType
<1>2. /\ result'.verdict = o.verdict /\ result'.code = None /\ result'.at = None
      /\ result'.answer = {} /\ result'.encloser = None /\ result'.error = None
  BY <1>1 DEF Result
<1>3. Promise!Contract(Settlement')
  BY <1>2 DEF Promise!Contract, Settlement, Verdict
<1> QED
  BY <1>1, <1>2, <1>3, NoneAssumption DEF EndsWell, ResolvesWell, ReasonCode

LEMMA NegativeKeeps ==
    ASSUME TypeOK, NEW v \in {"secure-nodata", "secure-nxdomain"}, NEW proof \in SUBSET RR,
           NegativeOutcome(v, proof)
    PROVE  EndsWell
<1> DEFINE o == [Outcome(v, None, None) EXCEPT !.proof = proof]
<1>1. /\ o \in Result /\ o.verdict = v /\ o.code = None /\ o.at = None
      /\ o.encloser = None /\ o.error = None
  BY DEF Outcome, Pending, Result, Verdict
<1>2. ResolveHop(o)
  BY DEF NegativeOutcome
<1> QED
  BY <1>1, <1>2, PlainKeeps

LEMMA IndeterminateKeeps ==
    ASSUME TypeOK, Indeterminate
    PROVE  EndsWell
<1> DEFINE o == Outcome("indeterminate", None, None)
<1>1. /\ o \in Result /\ o.verdict = "indeterminate" /\ o.code = None /\ o.at = None
      /\ o.encloser = None /\ o.error = None
  BY DEF Outcome, Pending, Result, Verdict
<1> QED
  BY <1>1, PlainKeeps DEF Indeterminate

LEMMA InsecureKeeps ==
    ASSUME TypeOK, NEW n \in Name, n # Root, NEW proof \in SUBSET RR,
           ResolveHop([Outcome("insecure", "no-ds", n) EXCEPT !.proof = proof])
    PROVE  EndsWell
<1> DEFINE o == [Outcome("insecure", "no-ds", n) EXCEPT !.proof = proof]
<1>1. o \in Result /\ o.verdict = "insecure"
  BY DEF Outcome, Pending, Result, Verdict, ReasonCode
<1>2. state' = "resolved" /\ result' = [o EXCEPT !.answer = {}]
  BY <1>1, ResolveHopType
<1>3. /\ result'.verdict = "insecure" /\ result'.code = "no-ds" /\ result'.at = n
      /\ result'.answer = {} /\ result'.encloser = None /\ result'.error = None
  BY <1>2 DEF Outcome, Pending
<1>4. Promise!Contract(Settlement')
  BY <1>3 DEF Promise!Contract, Settlement, Verdict
<1> QED
  BY <1>2, <1>3, <1>4 DEF EndsWell, ResolvesWell

-----------------------------------------------------------------------------
(* One lemma per kind of answer *)

LEMMA RootEnds ==
    ASSUME TypeOK, TypeOK', ReportInv, NEW resp \in Responses, RootAnswer(resp)
    PROVE  EndsWell /\ ZonesGrow
<1> DEFINE loaded == Loaded(NoZone, resp)
           z == [loaded EXCEPT !.trusted = find_rrset(loaded, Root, "DNSKEY") \cap Anchors]
           cs == sig_checks(z, Root, "DNSKEY", "KSK")
<1>1. state = "walking"
  BY DEF RootAnswer, Walking
<1>2. RootMismatch(z) \/ RootUnverified(z) \/ RootVerified(z) \/ RootThrows(z)
  BY DEF RootAnswer
<1> HIDE DEF z
<1>3. ASSUME NEW b \in BOOLEAN, NEW checks, add_step(Root, b, checks) PROVE ZonesGrow
  BY <1>3, ZonesAdd, RootIsName DEF TypeOK
<1>4. CASE RootMismatch(z)
  BY <1>3, <1>4, BogusEnds, RootIsName DEF RootMismatch, PlainCode
<1>5. CASE RootUnverified(z)
  <2>1. failure_code(z, Root, "DNSKEY", "KSK") \in PlainCode
    BY <1>5, UnverifiedCode DEF RootUnverified, PlainCode
  <2> QED
    BY <1>3, <1>5, <2>1, BogusEnds, RootIsName DEF RootUnverified
<1>6. CASE RootVerified(z)
  BY <1>1, <1>3, <1>6, AskBelowEnds DEF RootVerified
<1>7. CASE RootThrows(z)
  BY <1>7, ThrowsKeep, ZonesStay DEF RootThrows
<1> QED
  BY <1>2, <1>4, <1>5, <1>6, <1>7

LEMMA DSEnds ==
    ASSUME TypeOK, TypeOK', ReportInv, NEW resp \in Responses, DSAnswer(resp)
    PROVE  EndsWell /\ ZonesGrow
<1> DEFINE z == Loaded(zone, resp)
<1>1. state = "walking" /\ step = "ds" /\ chain # <<>>
  <2>1. state = "walking" /\ step = "ds"
    BY DEF DSAnswer, Walking
  <2>2. \E i \in DOMAIN chain : chain[i].zone = zone.name
    BY <2>1 DEF ReportInv
  <2>3. chain # <<>>
    BY <2>2
  <2> QED
    BY <2>1, <2>3
<1>2. z \in Zone
  BY AskedZoneType DEF TypeOK
<1>3. ChildName \in Name /\ ChildName # Root
  <2>1. ChildName \in Name /\ depth \in 0 .. Len(qname)
    BY <1>1, ChildType
  <2>2. Len(zone.name) \in Nat /\ Len(zone.name) < depth
    BY <1>1 DEF ReportInv, TypeOK, Zone, Name
  <2>3. Len(ChildName) = depth /\ depth # 0
    BY <1>1, <2>1, <2>2, AncestorType DEF ChildName, TypeOK
  <2>4. ChildName # <<>>
    BY <2>3
  <2> QED
    BY <2>1, <2>4 DEF Root
<1>4. \/ DSUnverified(z) \/ DSVerified(z) \/ DSThrows(z)
      \/ NoCut(z) \/ InsecureDelegation(z) \/ NoDSProofThrows(z)
  BY DEF DSAnswer
<1> HIDE DEF z
<1>5. CASE DSUnverified(z)
  <2>1. failure_code(z, ChildName, "DS", "None") \in PlainCode
    BY <1>5, UnverifiedCode DEF DSUnverified, PlainCode
  <2>2. ZonesGrow
    BY <1>1, <1>3, <1>5, ZonesAdd DEF DSUnverified, TypeOK
  <2> QED
    BY <1>3, <1>5, <2>1, <2>2, BogusEnds DEF DSUnverified
<1>6. CASE DSVerified(z)
  BY <1>1, <1>6, AskKeeps, ZonesStay DEF DSVerified, EndsWell
<1>7. CASE DSThrows(z)
  BY <1>7, ThrowsKeep, ZonesStay DEF DSThrows
<1>8. CASE NoCut(z)
  BY <1>1, <1>8, AskBelowEnds, ZonesStay DEF NoCut
<1>9. CASE InsecureDelegation(z)
  <2>1. PICK r \in Proof(z, NoDS) :
          ResolveHop([Outcome("insecure", "no-ds", ChildName) EXCEPT !.proof = {r}])
    BY <1>9 DEF InsecureDelegation
  <2>2. {r} \in SUBSET RR
    BY <1>2, ProofRecords
  <2> QED
    BY <1>3, <1>9, <2>1, <2>2, InsecureKeeps, ZonesStay DEF InsecureDelegation
<1>10. CASE NoDSProofThrows(z)
  BY <1>10, RejectsKeep, ZonesStay DEF NoDSProofThrows, EndsWell, Rejection
<1> QED
  BY <1>4, <1>5, <1>6, <1>7, <1>8, <1>9, <1>10

LEMMA DNSKEYEnds ==
    ASSUME TypeOK, TypeOK', ReportInv, NEW resp \in Responses, DNSKEYAnswer(resp)
    PROVE  EndsWell /\ ZonesGrow
<1> DEFINE loaded   == Loaded([NoZone EXCEPT !.name = ChildName], resp)
           keys     == find_rrset(loaded, ChildName, "DNSKEY")
           dses     == find_rrset(zone, ChildName, "DS")
           child    == [loaded EXCEPT !.trusted = keys \cap dses]
           dsChecks == sig_checks(zone, ChildName, "DS", "None")
<1>1. state = "walking" /\ chain # <<>>
  <2>1. state = "walking" /\ step = "dnskey"
    BY DEF DNSKEYAnswer, Walking
  <2>2. \E i \in DOMAIN chain : chain[i].zone = zone.name
    BY <2>1 DEF ReportInv
  <2>3. chain # <<>>
    BY <2>2
  <2> QED
    BY <2>1, <2>3
<1>2. ChildName \in Name
  BY <1>1, ChildType
<1>3. \/ NoDNSKEY(dsChecks) \/ DigestThrows(keys, dses) \/ DSMismatch(dsChecks)
      \/ DNSKEYUnverified(child, dsChecks) \/ Descended(child, dsChecks)
      \/ DNSKEYThrows(child)
  BY DEF DNSKEYAnswer
<1> HIDE DEF child, keys, dses, dsChecks
<1>4. ASSUME NEW b \in BOOLEAN, NEW checks, add_step(ChildName, b, checks) PROVE ZonesGrow
  BY <1>1, <1>2, <1>4, ZonesAdd DEF TypeOK
<1>5. CASE NoDNSKEY(dsChecks)
  BY <1>2, <1>4, <1>5, BogusEnds DEF NoDNSKEY, PlainCode
<1>6. CASE DigestThrows(keys, dses)
  BY <1>6, RejectsKeep, ZonesStay DEF DigestThrows, EndsWell, Rejection
<1>7. CASE DSMismatch(dsChecks)
  BY <1>2, <1>4, <1>7, BogusEnds DEF DSMismatch, PlainCode
<1>8. CASE DNSKEYUnverified(child, dsChecks)
  <2>1. failure_code(child, ChildName, "DNSKEY", "KSK") \in PlainCode
    BY <1>8, UnverifiedCode DEF DNSKEYUnverified, PlainCode
  <2> QED
    BY <1>2, <1>4, <1>8, <2>1, BogusEnds DEF DNSKEYUnverified
<1>9. CASE Descended(child, dsChecks)
  BY <1>1, <1>4, <1>9, AskBelowEnds DEF Descended
<1>10. CASE DNSKEYThrows(child)
  BY <1>10, ThrowsKeep, ZonesStay DEF DNSKEYThrows
<1> QED
  BY <1>3, <1>5, <1>6, <1>7, <1>8, <1>9, <1>10

LEMMA PositiveEnds ==
    ASSUME TypeOK, TypeOK', ReportInv, chain # <<>>, NEW z \in Zone, Positive(z)
    PROVE  EndsWell /\ ZonesGrow
<1>1. zone.name \in Name
  BY DEF TypeOK, Zone
<1>2. CASE CheckThrows(z, qname, QType, "None") /\ UNCHANGED chain
  BY <1>2, ThrowsKeep, ZonesStay
<1>3. CASE /\ add_step(zone.name, FALSE, LeafChecks(z))
           /\ LeafUnverified(z) \/ LeafSecure(z) \/ LeafWildcard(z)
  <2>1. ZonesGrow
    BY <1>1, <1>3, ZonesAdd DEF TypeOK
  <2>2. CASE LeafUnverified(z)
    <3>1. failure_code(z, qname, QType, "None") \in PlainCode
      BY <2>2, UnverifiedCode DEF LeafUnverified, PlainCode
    <3> QED
      BY <1>1, <2>1, <2>2, <3>1, BogusEnds DEF LeafUnverified
  <2>3. CASE LeafSecure(z)
    BY <2>1, <2>3, SecureKeeps DEF LeafSecure
  <2>4. CASE LeafWildcard(z)
    <3>1. PICK s \in Synthesised(z) :
            \/ \E r \in Proof(z, Covers(NextCloser(s))) : SecureAnswer(z, s.labels, {r})
            \/ ResolveHop(Bogus(zone.name, "wildcard-proof-missing"))
            \/ Reject("foreign")
      BY <2>4 DEF LeafWildcard
    <3>2. s.labels \in Nat
      BY DEF Synthesised, find_rrsigs, Zone, RRSIG
    <3>3. ASSUME NEW r \in Proof(z, Covers(NextCloser(s))), SecureAnswer(z, s.labels, {r})
          PROVE  EndsWell
      <4>1. {r} \in SUBSET RR
        BY ProofRecords
      <4> QED
        BY <2>4, <3>2, <3>3, <4>1, SecureKeeps DEF LeafWildcard
    <3>4. ASSUME ResolveHop(Bogus(zone.name, "wildcard-proof-missing")) PROVE EndsWell
      BY <1>1, <3>4, BogusEnds DEF PlainCode
    <3>5. ASSUME Reject("foreign") PROVE EndsWell
      BY <3>5, RejectsKeep DEF EndsWell, Rejection
    <3> QED
      BY <2>1, <3>1, <3>3, <3>4, <3>5
  <2> QED
    BY <1>3, <2>2, <2>3, <2>4
<1> QED
  BY <1>2, <1>3 DEF Positive

LEMMA NegativeEnds ==
    ASSUME TypeOK, NEW z \in Zone, Negative(z)
    PROVE  EndsWell
<1>1. ASSUME NEW v \in {"secure-nodata", "secure-nxdomain"}, NEW c1, NEW c2,
             NEW r \in Proof(z, c1), NEW w \in Proof(z, c2), NegativeOutcome(v, {r, w})
      PROVE  EndsWell
  <2>1. {r, w} \in SUBSET RR
    BY ProofRecords
  <2> QED
    BY <1>1, <2>1, NegativeKeeps
<1>2. ASSUME NEW c, NEW r \in Proof(z, c), NegativeOutcome("secure-nodata", {r})
      PROVE  EndsWell
  <2>1. {r} \in SUBSET RR
    BY ProofRecords
  <2> QED
    BY <1>2, <2>1, NegativeKeeps
<1>3. ASSUME Reject("foreign") PROVE EndsWell
  BY <1>3, RejectsKeep DEF EndsWell, Rejection
<1>4. ASSUME NEW r \in Proof(z, Covers(qname)), CoveredBy(z, r) PROVE EndsWell
  <2> DEFINE wildcard == wildcard_at(qname, EncloserOf(r.owner, r.data, qname))
  <2>1. \/ NegativeOutcome("secure-nodata", {r})
        \/ Indeterminate
        \/ \E w \in Proof(z, NoData(wildcard)) : NegativeOutcome("secure-nodata", {r, w})
        \/ \E w \in Proof(z, Covers(wildcard)) : NegativeOutcome("secure-nxdomain", {r, w})
        \/ Reject("foreign")
    BY <1>4, Zenon DEF CoveredBy
  <2> QED
    BY <1>1, <1>2, <1>3, <2>1, IndeterminateKeeps
<1> QED
  BY <1>2, <1>3, <1>4, IndeterminateKeeps DEF Negative

-----------------------------------------------------------------------------
(* Steps of the walk as steps of the promise *)

LEMMA WorkMeans ==
    ASSUME state = "walking", aborted' = aborted, ZonesGrow,
           Promise!GrowsByOne(Targets, Targets'),
           \/ state' = "walking" /\ Settlement' = Settlement /\ ~aborted /\ Len(Targets') <= MaxAliasHops
           \/ /\ state' = "resolved"
              /\ Promise!Contract(Settlement') /\ Promise!RedirectCodes(Settlement', Targets')
           \/ /\ state' = "rejected"
              /\ Settlement'.error \in Rejection \ {"invalid-qname"} /\ Settlement'.code = None
    PROVE  Promise!Work
BY Zenon DEF Promise!Work, ZonesGrow, Zones, ZonesOf, Targets, TargetsOf, Settlement

\* A run that follows no redirect.
LEMMA EndsWorks ==
    ASSUME TypeOK, AliasesLinked, state = "walking", UNCHANGED <<aborted, aliases>>,
           ZonesGrow, EndsWell
    PROVE  Promise!Work
<1>1. Targets' = Targets
  BY DEF Targets, TargetsOf
<1>2. Len(Targets') = Len(aliases) /\ Len(aliases) <= MaxAliasHops
  BY <1>1, TargetsAre DEF TypeOK, Targets, AliasesLinked
<1>3. Promise!GrowsByOne(Targets, Targets')
  BY <1>1 DEF Promise!GrowsByOne
<1>4. CASE ResolvesWell
  <2>1. state' = "resolved" /\ Settlement'.code # "alias-limit" /\ Promise!Contract(Settlement')
    BY <1>4 DEF ResolvesWell, Settlement
  <2>2. Promise!RedirectCodes(Settlement', Targets')
    BY <1>2, <2>1 DEF Promise!RedirectCodes
  <2> QED
    BY <1>3, <2>1, <2>2, WorkMeans
<1>5. CASE RejectsWell
  <2>1. /\ state' = "rejected"
        /\ Settlement'.error \in Rejection \ {"invalid-qname"} /\ Settlement'.code = None
    BY <1>5 DEF RejectsWell, Settlement
  <2> QED
    BY <1>3, <2>1, WorkMeans
<1>6. CASE GoesOn
  <2>1. state' = "walking" /\ ~aborted /\ Settlement' = Settlement
    BY <1>6 DEF GoesOn, Settlement
  <2> QED
    BY <1>2, <1>3, <2>1, WorkMeans
<1> QED
  BY <1>4, <1>5, <1>6 DEF EndsWell

\* A run that follows one.
LEMMA NextHopWorks ==
    ASSUME TypeOK, TypeOK', AliasesLinked, state = "walking", aborted' = aborted, ZonesGrow,
           NEW type, NEW from, NEW target \in Name, NextHop(type, from, target)
    PROVE  Promise!Work
<1> DEFINE n == Len(aliases)
<1>1. n \in Nat /\ n <= MaxAliasHops
  BY DEF TypeOK, AliasesLinked
<1>2. /\ Len(aliases') = n + 1 /\ aliases'[n + 1].target = target
      /\ \A i \in 1 .. n : aliases'[i] = aliases[i]
  BY AppendedAlias DEF NextHop
<1>3. /\ Targets \in Seq(Name) /\ Len(Targets) = n
      /\ \A i \in 1 .. n : Targets[i] = aliases[i].target
  BY TargetsAre DEF TypeOK, Targets
<1>4. /\ Targets' \in Seq(Name) /\ Len(Targets') = n + 1
      /\ \A i \in 1 .. n + 1 : Targets'[i] = aliases'[i].target
  <2>1. Targets' = TargetsOf(aliases') /\ aliases' \in Seq(AliasStep)
    BY DEF Targets, TypeOK
  <2> QED
    BY <1>2, <2>1, TargetsAre
<1>5. \/ /\ n = MaxAliasHops
         /\ state' = "resolved" /\ result' = Bogus(target, "alias-limit")
      \/ n # MaxAliasHops /\ RejectsWell
      \/ /\ n # MaxAliasHops
         /\ state' = "resolved" /\ result' = Bogus(target, "alias-loop")
      \/ n # MaxAliasHops /\ GoesOn
  <2>1. ASSUME Reject("chain-timeout") PROVE RejectsWell
    BY <2>1, RejectsKeep DEF Rejection
  <2>2. ASSUME ~aborted, Ask("root", 0) PROVE GoesOn
    BY <2>2 DEF Ask, GoesOn
  <2> QED
    BY <2>1, <2>2 DEF NextHop, Resolve
<1> HIDE DEF n
<1>6. Promise!GrowsByOne(Targets, Targets')
  <2>1. \A i \in 1 .. n : i \in 1 .. n + 1
    BY <1>1
  <2> QED
    BY <1>1, <1>2, <1>3, <1>4, <2>1, OneMore
<1>7. n + 1 \in 1 .. n + 1 /\ Targets'[n + 1] = target
  BY <1>1, <1>2, <1>4
<1>8. n # MaxAliasHops => Len(Targets') <= MaxAliasHops
  BY <1>1, <1>4, HopAssumption
<1>9. ASSUME NEW code \in {"alias-limit", "alias-loop"}, result' = Bogus(target, code)
      PROVE  Promise!Contract(Settlement') /\ Settlement'.code = code /\ Settlement'.at = target
  <2>1. /\ result'.verdict = "bogus" /\ result'.code = code /\ result'.at = target
        /\ result'.answer = {} /\ result'.encloser = None /\ result'.error = None
    BY <1>9 DEF Bogus, Outcome, Pending
  <2> QED
    BY <2>1 DEF Promise!Contract, Settlement, Verdict, ReasonCode
<1>10. CASE n = MaxAliasHops /\ state' = "resolved" /\ result' = Bogus(target, "alias-limit")
  <2>1. Promise!RedirectCodes(Settlement', Targets')
    BY <1>4, <1>7, <1>9, <1>10 DEF Promise!RedirectCodes
  <2> QED
    BY <1>6, <1>9, <1>10, <2>1, WorkMeans
<1>11. CASE n # MaxAliasHops /\ state' = "resolved" /\ result' = Bogus(target, "alias-loop")
  <2>1. Promise!RedirectCodes(Settlement', Targets')
    BY <1>8, <1>9, <1>11 DEF Promise!RedirectCodes
  <2> QED
    BY <1>6, <1>9, <1>11, <2>1, WorkMeans
<1>12. CASE RejectsWell
  <2>1. /\ state' = "rejected"
        /\ Settlement'.error \in Rejection \ {"invalid-qname"} /\ Settlement'.code = None
    BY <1>12 DEF RejectsWell, Settlement
  <2> QED
    BY <1>6, <2>1, WorkMeans
<1>13. CASE n # MaxAliasHops /\ GoesOn
  <2>1. state' = "walking" /\ ~aborted /\ Settlement' = Settlement
    BY <1>13 DEF GoesOn, Settlement
  <2> QED
    BY <1>6, <1>8, <1>13, <2>1, WorkMeans
<1> QED
  BY <1>5, <1>10, <1>11, <1>12, <1>13

LEMMA RedirectWorks ==
    ASSUME TypeOK, TypeOK', ReportInv, AliasesLinked, state = "walking", chain # <<>>,
           aborted' = aborted, NEW z, NEW type, NEW owner \in Name, NEW rtype, NEW target,
           NEW next \in Name, Redirect(z, type, owner, rtype, target, next)
    PROVE  Promise!Work
<1> DEFINE cs == sig_checks(z, owner, rtype, "None")
<1>1. zone.name \in Name
  BY DEF TypeOK, Zone
<1>2. ASSUME add_step(zone.name, FALSE, cs) PROVE ZonesGrow
  BY <1>1, <1>2, ZonesAdd DEF TypeOK
<1>3. CASE ResolveHop(Bogus(owner, "alias-target-invalid")) /\ UNCHANGED <<Hop, chain>>
  BY <1>3, BogusEnds, ZonesStay, EndsWorks DEF PlainCode, Hop
<1>4. CASE CheckThrows(z, owner, rtype, "None") /\ UNCHANGED <<Hop, chain>>
  BY <1>4, ThrowsKeep, ZonesStay, EndsWorks DEF Hop
<1>5. CASE /\ Unverified(z, owner, rtype, "None")
           /\ add_step(zone.name, FALSE, cs)
           /\ ResolveHop(Bogus(zone.name, failure_code(z, owner, rtype, "None")))
           /\ UNCHANGED Hop
  <2>1. failure_code(z, owner, rtype, "None") \in PlainCode
    BY <1>5, UnverifiedCode DEF PlainCode
  <2> QED
    BY <1>1, <1>2, <1>5, <2>1, BogusEnds, EndsWorks DEF Hop
<1>6. CASE add_step(zone.name, FALSE, cs) /\ NextHop(type, owner, next)
  BY <1>2, <1>6, NextHopWorks
<1> QED
  BY <1>3, <1>4, <1>5, <1>6 DEF Redirect

LEMMA LeafWorks ==
    ASSUME TypeOK, TypeOK', ReportInv, AliasesLinked, NEW resp \in Responses, LeafAnswer(resp)
    PROVE  Promise!Work
<1> DEFINE z == Loaded(zone, resp)
<1>1. state = "walking" /\ step = "leaf" /\ aborted' = aborted /\ qname \in Name
  BY DEF LeafAnswer, Walking, TypeOK
<1>2. z \in Zone
  BY AskedZoneType DEF TypeOK
<1>3. chain # <<>>
  <2>1. \E i \in DOMAIN chain : chain[i].zone = zone.name
    BY <1>1 DEF ReportInv
  <2> QED
    BY <2>1
<1>4. \/ Positive(z) /\ UNCHANGED Hop
      \/ try_dname(z)
      \/ try_cname(z)
      \/ Negative(z) /\ UNCHANGED <<Hop, chain>>
  BY DEF LeafAnswer
<1> HIDE DEF z
<1>5. CASE Positive(z) /\ UNCHANGED Hop
  BY <1>1, <1>2, <1>3, <1>5, PositiveEnds, EndsWorks DEF Hop
<1>6. CASE try_dname(z)
  <2>1. PICK d \in DnameDepths(z) : \E r \in find_rrset(z, Ancestor(qname, d), "DNAME") :
          Redirect(z, "dname", Ancestor(qname, d), "DNAME", Target(r), synthesise(qname, d, Target(r)))
    BY <1>6 DEF try_dname
  <2>2. PICK r \in find_rrset(z, Ancestor(qname, d), "DNAME") :
          Redirect(z, "dname", Ancestor(qname, d), "DNAME", Target(r), synthesise(qname, d, Target(r)))
    BY <2>1
  <2>3. d \in 0 .. Len(qname)
    BY <1>1 DEF DnameDepths, Name
  <2>4. Target(r) \in Name
    BY <1>2, RrsetType, TargetAssumption
  <2>5. Ancestor(qname, d) \in Name /\ synthesise(qname, d, Target(r)) \in Name
    BY <1>1, <2>3, <2>4, AncestorType, SynthesiseType
  <2> QED
    BY <1>1, <1>3, <2>2, <2>5, RedirectWorks
<1>7. CASE try_cname(z)
  <2>1. PICK r \in find_rrset(z, qname, "CNAME") :
          Redirect(z, "cname", qname, "CNAME", Target(r), Target(r))
    BY <1>7 DEF try_cname
  <2>2. Target(r) \in Name
    BY <1>2, RrsetType, TargetAssumption
  <2> QED
    BY <1>1, <1>3, <2>1, <2>2, RedirectWorks
<1>8. CASE Negative(z) /\ UNCHANGED <<Hop, chain>>
  BY <1>1, <1>2, <1>8, NegativeEnds, ZonesStay, EndsWorks DEF Hop
<1> QED
  BY <1>4, <1>5, <1>6, <1>7, <1>8

-----------------------------------------------------------------------------
(* The caller's steps *)

LEMMA CallerSteps ==
    ASSUME TypeOK
    PROVE  /\ Abort => Promise!Abort
           /\ CallEmpty => Promise!Refuse
           /\ \A n : Call(n) => Promise!Start \/ Promise!Refuse
<1>1. ASSUME Abort PROVE Promise!Abort
  BY <1>1, Zenon DEF Abort, walk, Promise!Abort, Promise!Settled
<1>2. ASSUME NEW e \in {"invalid-qname"} \cup (IF aborted THEN {"chain-timeout"} ELSE {}),
             state = "idle", Reject(e), UNCHANGED <<aborted, chain, aliases>>
      PROVE  Promise!Refuse
  <2>1. Settlement' \in [verdict : {"indeterminate"}, code : {None}, at : {None},
                         answered : {FALSE}, encloser : {None},
                         error : {"invalid-qname"} \cup (IF aborted THEN {"chain-timeout"} ELSE {})]
    BY <1>2 DEF Reject, Pending, Settlement
  <2>2. state' = "rejected"
    BY <1>2 DEF Reject
  <2> QED
    BY <1>2, <2>1, <2>2, Zenon DEF Promise!Refuse, Settlement
<1>3. ASSUME CallEmpty PROVE Promise!Refuse
  BY <1>2, <1>3 DEF CallEmpty, walk
<1>4. ASSUME NEW n, Call(n) PROVE Promise!Start \/ Promise!Refuse
  <2>1. CASE aborted
    BY <1>2, <1>4, <2>1 DEF Call
  <2>2. CASE ~aborted
    BY <1>4, <2>2, Zenon DEF Call, Promise!Start
  <2> QED
    BY <2>1, <2>2
<1> QED
  BY <1>1, <1>3, <1>4

LEMMA PromiseStep ==
    ASSUME TypeOK, TypeOK', Reported, AliasesLinked, [Next]_vars
    PROVE  [Promise!Next]_(Promise!vars)
<1>0. ReportInv
  BY DEF Reported
<1>1. CASE UNCHANGED vars
  BY <1>1, Zenon DEF vars, Promise!vars
<1>2. CASE \/ \E n \in QNames : Call(n)
           \/ CallEmpty
           \/ Abort
  BY <1>2, CallerSteps DEF Promise!Next
<1>3. CASE Failed
  <2>1. state = "walking" /\ RejectsWell /\ UNCHANGED <<aborted, walk>>
    BY <1>3, RejectsKeep DEF Failed, BadRcode, QueryThrows, Rejection
  <2>2. Promise!Work
    BY <1>0, <2>1, ZonesStay, EndsWorks DEF EndsWell, walk
  <2> QED
    BY <2>2 DEF Promise!Next
<1>4. ASSUME NEW resp \in Responses, RootAnswer(resp) PROVE Promise!Next
  <2>1. Promise!Work
    BY <1>0, <1>4, RootEnds, EndsWorks DEF RootAnswer, Walking, Hop
  <2> QED
    BY <2>1 DEF Promise!Next
<1>5. ASSUME NEW resp \in Responses, DSAnswer(resp) PROVE Promise!Next
  <2>1. Promise!Work
    BY <1>0, <1>5, DSEnds, EndsWorks DEF DSAnswer, Walking, Hop
  <2> QED
    BY <2>1 DEF Promise!Next
<1>6. ASSUME NEW resp \in Responses, DNSKEYAnswer(resp) PROVE Promise!Next
  <2>1. Promise!Work
    BY <1>0, <1>6, DNSKEYEnds, EndsWorks DEF DNSKEYAnswer, Walking, Hop
  <2> QED
    BY <2>1 DEF Promise!Next
<1>7. ASSUME NEW resp \in Responses, LeafAnswer(resp) PROVE Promise!Next
  BY <1>0, <1>7, LeafWorks DEF Promise!Next
<1> QED
  BY <1>1, <1>2, <1>3, <1>4, <1>5, <1>6, <1>7 DEF Next, Answered

-----------------------------------------------------------------------------
(* The theorem *)

\* Whatever the resolver answers and the zones hold, a call of validate keeps
\* its promise: one settlement, a chain that only grows by one zone at a time,
\* redirects within the limit, nothing asked after an abort, and a result
\* whose fields fit its verdict.
THEOREM WalkKeepsPromise == Spec => KeepsPromise
<1>1. Init => TypeOK /\ KeysInv /\ Reported /\ AliasesAuthentic /\ AliasesLinked /\ SeenInv
  <2> SUFFICES ASSUME Init
               PROVE  TypeOK /\ KeysInv /\ Reported /\ AliasesAuthentic /\ AliasesLinked /\ SeenInv
    OBVIOUS
  <2>1. chain = <<>> /\ DOMAIN chain = {} /\ state = "idle"
    BY DEF Init
  <2>2. Reported
    BY <2>1 DEF Reported, ReportInv, StepsExplained, UnsignedStepEnds, ResultExplained
  <2> QED
    BY <2>2, AliasesInit
<1>2. /\ TypeOK /\ KeysInv /\ Reported /\ AliasesAuthentic /\ AliasesLinked /\ SeenInv
      /\ [Next]_vars
      => /\ TypeOK' /\ KeysInv' /\ Reported' /\ AliasesAuthentic' /\ AliasesLinked' /\ SeenInv'
         /\ [Promise!Next]_(Promise!vars)
  BY StepType, KeysStep, ReportStep, AliasesStep, PromiseStep
<1>3. Init => Promise!Init
  <2> SUFFICES ASSUME Init PROVE Promise!Init
    OBVIOUS
  <2>1. Zones = <<>> /\ Targets = <<>>
    BY DEF Init, Zones, ZonesOf, Targets, TargetsOf
  <2>2. Settlement = Promise!Unset
    BY DEF Init, Pending, Settlement, Promise!Unset
  <2> QED
    BY <2>1, <2>2, Zenon DEF Init, Promise!Init, Zones, ZonesOf, Targets, TargetsOf, Settlement
<1> QED
  BY <1>1, <1>2, <1>3, PTL DEF Spec, KeepsPromise, Promise!Spec
=============================================================================
