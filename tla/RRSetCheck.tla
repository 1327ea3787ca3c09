----------------------------- MODULE RRSetCheck -----------------------------
(***************************************************************************)
(* What one RRset check of a DNSSecZone decides: DNSSecZone.check_rrsig,   *)
(* check_rrset and rrset_verified, the failure code of reason.ts, and the  *)
(* verdict combinator.  No state: the chain walk applies these operators   *)
(* to the zone it is in.                                                   *)
(*                                                                         *)
(* A name is the sequence of its labels, root first: <<>> is the root and  *)
(* an ancestor is a prefix.  A resource record is [type, owner, data]; its *)
(* RDATA is an opaque value (a Key for DNSKEY and DS).  A signature says   *)
(* who made it (key), which owner and RDATA it was made over (of, over),   *)
(* and its Labels field; verifying it is comparing those with what the     *)
(* zone holds.  "NSEC" stands for both denial types, NSEC and NSEC3.       *)
(***************************************************************************)
EXTENDS DnsNames

CONSTANTS
    Label,           \* labels of names
    Key,             \* public keys
    Datum,           \* every other RDATA
    TagOf(_),        \* key tag and algorithm of a key, as one value
    Unsupported,     \* tags whose algorithm the library does not implement
    NoEncoder,       \* types the zone's registry cannot encode
    OddDigest,       \* DS RDATA whose digest type the library does not know
    ZoneKeys,        \* the keys the operator of each zone holds
    Published(_,_,_) \* the rrsets (sets of RDATA) a zone signs at owner, type

\* No zone has a wildcard for its name.
ASSUME ZoneAssumption ==
    \A n \in DOMAIN ZoneKeys : n # Root => n[Len(n)] # Star

ASSUME KeyAssumption == \A n \in DOMAIN ZoneKeys : ZoneKeys[n] \subseteq Key

ASSUME DigestAssumption == OddDigest \subseteq Datum /\ OddDigest \cap Key = {}

Name == Seq(Label)

RRType == {"A", "CNAME", "DNAME", "DNSKEY", "DS", "NSEC"}

Data == Key \cup Datum

KeysOf(z) == IF z \in DOMAIN ZoneKeys THEN ZoneKeys[z] ELSE {}

\* What a zone's operator signs with the zone's keys: its own DNSKEY rrset,
\* DS rrsets for keys of the child's operator (digests of any type), and
\* what it publishes.
ZoneSigns(z, owner, type) ==
    CASE type = "DNSKEY" -> IF owner = z THEN SUBSET KeysOf(z) ELSE {}
      [] type = "DS"     -> SUBSET (KeysOf(owner) \cup OddDigest)
      [] OTHER           -> Published(z, owner, type)

RR == {r \in [type : RRType, owner : Name, data : Data] : r.type = "DNSKEY" => r.data \in Key}

\* A signature that names a zone's own key as its maker is one the zone's
\* operator made.  Any other key may sign anything.
RRSIG ==
    {s \in [owner : Name, covered : RRType, signer : Name, labels : Nat,
            window : {"inside", "early", "late"},
            key : Key, of : Name, over : SUBSET Data] :
        s.key \in KeysOf(s.signer) => s.over \in ZoneSigns(s.signer, s.of, s.covered)}

\* A resolver's response, split into records and signatures.
Response == [rrs : SUBSET RR, sigs : SUBSET RRSIG]

Zone == [name : Name, rrs : SUBSET RR, sigs : SUBSET RRSIG, trusted : SUBSET Key]

KeyVerifyMode == {"None", "KSK"}

SigStatus == {"verified", "expired", "not-yet-valid", "unsupported-algorithm",
              "no-matching-key", "invalid"}

ReasonCode == {"no-ds", "no-dnskey", "trust-anchor-mismatch", "ds-mismatch",
               "no-rrsig", "no-matching-key", "sig-invalid", "sig-expired",
               "sig-not-yet-valid", "unsupported-algorithm", "alias-loop",
               "alias-limit", "alias-target-invalid", "wildcard-proof-missing"}

Verdict == {"indeterminate", "secure", "secure-nodata", "secure-nxdomain",
            "insecure", "bogus"}

-----------------------------------------------------------------------------
(* Lookups in a zone *)

find_rrset(z, owner, type) ==
    {r.data : r \in {q \in z.rrs : q.owner = owner /\ q.type = type}}

find_rrsigs(z, owner, type) ==
    {s \in z.sigs : s.owner = owner /\ s.covered = type}

find_dnskeys(z, signer, tag) ==
    {k \in find_rrset(z, signer, "DNSKEY") : TagOf(k) = tag}

\* Mutant: a KSK check accepts every key of the DNSKEY rrset as signer.
keys_for_mode_Any(z, keys, mode) == keys

\* The keys a mode accepts as signers: every candidate, or only those that
\* matched a trust anchor or a DS record.
keys_for_mode(z, keys, mode) ==
    IF mode = "KSK" THEN keys \cap z.trusted ELSE keys

\* The owner the digest is computed for: a Labels field smaller than the
\* owner's label count means the record was expanded from a wildcard.
signed_owner(owner, labels) ==
    IF labels < Len(owner) THEN wildcard_at(owner, labels) ELSE owner

\* The digest cannot be built for a type without an encoder, nor for the
\* wildcard of the root, whose text form "*.." is not a name.
Digestible(s) ==
    /\ s.covered \notin NoEncoder
    /\ ~(s.labels = 0 /\ s.owner # Root)

-----------------------------------------------------------------------------
(* Checking signatures *)

SigVerdict(status, error) == [status |-> status, error |-> error]

check_rrsig(z, s, mode) ==
    LET keys  == keys_for_mode(z, find_dnskeys(z, s.signer, TagOf(s.key)), mode)
        rdata == find_rrset(z, s.owner, s.covered)
        made  == s.key \in keys /\ s.over = rdata /\ s.of = signed_owner(s.owner, s.labels)
    IN IF s.window = "early" THEN SigVerdict("not-yet-valid", FALSE)
       ELSE IF s.window = "late" THEN SigVerdict("expired", FALSE)
       ELSE IF keys = {} THEN SigVerdict("no-matching-key", FALSE)
       ELSE IF rdata = {} THEN SigVerdict("invalid", FALSE)
       ELSE IF ~Digestible(s) THEN SigVerdict("invalid", TRUE)
       ELSE IF TagOf(s.key) \in Unsupported THEN SigVerdict("unsupported-algorithm", TRUE)
       ELSE SigVerdict(IF made THEN "verified" ELSE "invalid", FALSE)

Statuses(z, owner, type, mode) ==
    {check_rrsig(z, s, mode).status : s \in find_rrsigs(z, owner, type)}

\* Any-valid: one signature that verifies is enough (RFC 4035 5.3.3).
rrset_verified(z, owner, type, mode) == "verified" \in Statuses(z, owner, type, mode)

\* The check could not be carried out: none verified and one met an error.
rrset_error(z, owner, type, mode) ==
    /\ ~rrset_verified(z, owner, type, mode)
    /\ \E s \in find_rrsigs(z, owner, type) : check_rrsig(z, s, mode).error

\* Why an rrset whose signatures have these statuses did not verify.
sig_failure_code(statuses) ==
    IF statuses = {}                       THEN "no-rrsig"
    ELSE IF "expired" \in statuses         THEN "sig-expired"
    ELSE IF "not-yet-valid" \in statuses   THEN "sig-not-yet-valid"
    ELSE IF "invalid" \in statuses         THEN "sig-invalid"
    ELSE IF "no-matching-key" \in statuses THEN "no-matching-key"
    ELSE "unsupported-algorithm"

failure_code(z, owner, type, mode) == sig_failure_code(Statuses(z, owner, type, mode))

\* Worst-of over hops; among secure verdicts a negative one is kept.
combine_verdicts(a, b) ==
    IF "bogus" \in {a, b} THEN "bogus"
    ELSE IF "insecure" \in {a, b} THEN "insecure"
    ELSE IF "indeterminate" \in {a, b} THEN "indeterminate"
    ELSE IF b = "secure" THEN a ELSE b
=============================================================================
