# TLA+ verification of dnsdata-js

This directory models the DNSSEC library in `src/packages/core/src` (paths below
are relative to it): TLA+ modules translated from the source, TLC configurations
that check them on small instances, and TLAPS proofs of the properties that
matter most. `PROJECT.json` lists the runs, the mutants, the source lines of
every definition, the hazards and the theorems.

## Inventory

| Component | State | Operations | What makes it correct |
|---|---|---|---|
| **Chain walk** `verifier/chain.ts`, `alias.ts` | per call: hop, names seen, aliases, zone in hand, chain steps, result | `validate`: root keys, DS and DNSKEY per label, leaf query, alias hops | a verdict is backed by what zones really signed; one path of redirects; what is reported explains the verdict; every call settles, once |
| **RRset check** `dnssec/dnssec_zone.ts`, `dnssec/sigcheck.ts`, `verifier/reason.ts` | records and trusted keys of one zone | `check_rrsig`, `check_rrset`, failure codes | only authenticated keys vouch; one good signature suffices; the failure code names what happened |
| **Denial proofs** `verifier/negative.ts`, `leaf_negative.ts`, `wildcard.ts`, `dnssec/nsec.ts`, `nsec3.ts` | none | no-DS, NODATA, NXDOMAIN and wildcard proofs over NSEC and NSEC3 | a proof accepted is true of the zone; a zone's own proofs are accepted |
| **Zone signer** `dnssec/signer/*` | none | NSEC / NSEC3 chain, which rrsets are signed, Labels field | what the verifier needs is there |
| **In-memory authority** `resolver/memory/*` | zone index | `answer`: referral, existing, wildcard, DNAME, denial | answers agree with the zone's contents |
| **Cache** `verifier/cache.ts` | responses by (name, type) | `get`, `put` | a hit is what a query for that key returned; nothing is asked twice; nothing stale vouches |
| **Events** `verifier/events.ts` | none | `onStep` callbacks | what a handler saw tells the call, also when it throws |
| **Authoritative client** `resolver/auth/*` | sockets of one exchange | servers in turn, UDP then TCP | first success or first error; every socket closed |
| **DoH client** `resolver/doh/*` | fetch of one exchange | providers in turn | as above |
| **DoT client, stream** `resolver/dot/*`, `resolver/stream.ts` | buffered chunks, pending read, fatal error | `recv_exact`, `send`, `close` | bytes in order, each read settles once |
| **Registry, records** `zone/registry.ts`, `zone/dns_zone.ts` | factories; handler cached on a record | `register`, `get_handler`, `get_wire_body` | a handler comes from the registry asked; a record encodes to what was signed |
| **Wire messages** `wire/*`, `resolver/message.ts` | cursor of one decode | `decode_message`, `to_response`, `build_query`, RDATA both ways | what a server meant is understood; a cut message is refused; decoding ends |
| **Strict reader** `zone/strict.ts` | parser position, context of the records read | `read_string_strict` | finds what was written or names the line of the first fault, leaving the zone alone |
| **Lenient reader** `zone/dns_zone.ts` | the same, on the zone | `read_string` | agrees with the strict one on plain text |
| Other presentation formats, keys, crypto, anchors, tables, CLI | none that outlives a call | conversions, file reads | round trips (unit-tested) |

The verifier calls a `Resolver` (a network client or the in-memory authority),
loads each response into a `DNSSecZone`, and asks that zone whether an rrset
verifies. Components share no state but the records themselves, the optional
cache and the registry; JavaScript is single-threaded, so the points at which
anything else can happen are the `await`s.

Hard behaviour: a resolver that may be wrong, partial or hostile; an abort at
any await; records of several responses accumulating in one zone object; later
hops walking zones reported before; several signatures over one rrset of which
some fail or cannot be checked; names where label counts are off by one (the
root, wildcards, empty non-terminals, DNAMEs); several calls over one cache;
octets that point at one another; text whose lines mean something only together.
The `hazards` of `PROJECT.json` give each of them with its line and the
properties aimed at it.

## Modules

| Module | Models | Notes |
|---|---|---|
| `DnsNames` | `dnssec_util.ts`, `canonical.ts`, name helpers | a name is its sequence of labels, root first |
| `RRSetCheck` | `dnssec_zone.ts`, `sigcheck.ts`, `reason.ts`, `verdict.ts` | operators only; also what zone operators sign |
| `ChainWalk` | `chain.ts`, `alias.ts`, `sigcheck.ts` | state machine |
| `Validation` | the contract of `Verifier.validate` and `Result` | abstract specification; `ChainWalk!KeepsPromise` states the refinement |
| `SharedCache` | `cache.ts`, `events.ts`, `registry.ts`, the parts of `verifier.ts`, `chain.ts` and `dns_zone.ts` that use them | state machine of several calls |
| `ZoneSigner` | `signer/nsec.ts`, `nsec3.ts`, `sign.ts`, `names.ts` | operators over a zone's contents; NSEC and NSEC3 |
| `MemoryAuthority` | `resolver/memory/answer.ts`, `zone_index.ts`, `nsec3.ts` | operators: the response to a query |
| `DenialProofs` | `leaf_negative.ts`, `negative.ts`, `wildcard.ts`, `nsec.ts`, `nsec3.ts` | operators: proofs over real chains |
| `ZoneLookup` | one zone, signed, served and resolved | state machine composing the three above, with the truth read off the zone |
| `SocketStream` | `resolver/stream.ts` | one exchange over a byte stream, down to octets |
| `ResolverClient` | `resolver/auth/client.ts`, `dot/client.ts`, `doh/client.ts` | one query over several servers; state machine |
| `Failover` | the contract of `query_raw` | abstract specification; `ResolverClient!KeepsOrder` states the refinement |
| `WireNames` | `wire/dns_wire.ts`, `dns_wire_util.ts` | operators: names, compression |
| `RecordData` | `wire/rdata_decoder.ts`, `rdata_svcb.ts`, the handlers of the types it gives fields, `get_wire_body` | operators: RDATA to value, value to RDATA |
| `WireMessages` | `wire/dns_message.ts`, `resolver/message.ts` | state machine: one datagram |
| `StrictReader` | `zone/strict.ts` | state machine: one text |
| `LenientReader` | `read_string` of `zone/dns_zone.ts` | extends `StrictReader`: both read the same text |
| `MCWorld`, `MCAliases`, `MCZoneLookup`, `MCSharedCache`, `MCSocketStream`, `MCWire`, `MCReader` | | small instances |
| `ChainWalkProofs`, `SharedCacheProofs`, `ClientProofs`, `SocketStreamProofs`, `ZoneLookupProofs`, `WireProofs`, `ReaderProofs` | | theorems |
| `DataInduction` | | induction and least elements over the naturals, stated for sets; functions defined by recursion along a rank and by iteration; a step taken `n` times; lemmas on folds and on flattening a sequence of sequences |

### How ChainWalk follows the code

A step of `ChainWalk` is everything the code does between two awaits: a response
arrives, is loaded (`apply_records`), checked, bookkept (`add_step`), and the
next query goes out or the promise settles. `step` says which `load_records`
call is pending: `root` (`validate_root`), `ds` and `dnskey` (`descend_into`),
`leaf` (`resolve_leaf`). `zone` is `currentZone`, `chain` is `result.chain`,
`aliases`, `seen` and `combined` are the locals of `validate`, `qname` is its
`currentQname` and `asked` its parameter, which after the first hop only the
properties read; `Len(aliases)` is the hop counter. `Abort` is the caller's
signal, which the code looks at in `check_aborted` before each query (`Ask`) and
when a query throws (`QueryThrows`). Each early return of a handler is a disjunct named for
it: `DSAnswer` is `DSUnverified`, `DSVerified` or `DSThrows` when the DS rrset
is there, and `NoCut`, `InsecureDelegation` or `NoDSProofThrows` when not. In
`Result`, `signed` of a chain step stands for `signedBy` being set, `encloser`
for `wildcard`, `proof` for the denial records whose owners the reason string
names.

Cryptography is abstract. A signature is a record of who made it, over which
owner and RDATA, in which window, with which Labels field. It verifies when the
key is among the accepted ones and owner and RDATA equal what the zone object
holds. The one assumption about signatures is in the set `RRSIG`: a signature
whose maker is a key of the zone it names was made by that zone's operator, over
something in `ZoneSigns`. Everything else may be in a response: keys of nobody,
signatures by other keys over anything, replays of genuine signatures at other
names, any part of any mixture. A key tag is given by `TagOf`, so tags collide
where the instance says so.

`NSEC` stands for both denial types in `ChainWalk`: a denial record makes
claims (`Denies`), and `EncloserOf` is the closest encloser it gives. What real
NSEC and NSEC3 records claim is the subject of `DenialProofs` and `ZoneLookup`.

Where the code takes the first of several matches in record order, `ChainWalk`
takes any: the order of records is the resolver's choice.

### How SharedCache follows the code

Each walk is one `validate` call of a verifier with its own registry and step
handler; the cache, and with it the record objects in it, is shared. A walk is
reduced to its plan, the keys it looks up in order, since what the code does with
an answer besides is `ChainWalk`'s subject. `Lookup` is `load_records` up to its
await: abort check, cache, `Query` or `CacheHit` event. `Answered`, `BadRcode`
and `QueryRejects` are its continuations. `Check` is the synchronous rest up to
the next lookup: the handler of the records is fetched (`get_handler`, kept on
the record with the registry that built it), the signature compared with the
clock, the events sent. `log` is what the step handler received; a walk in
`Throwing` may throw at any event, which cuts the log there and rejects the call.
`Checked` stands for the `DS`, `DNSKEY`, `Zone` and `Sig` events, whose number
depends on the zones and not on the cache. `empty` marks the answer without
records, which the cache must still count as a hit.

### How ZoneLookup follows the code

A zone's contents map owners to type sets. `ZoneSigner` gives its NSEC or NSEC3
chain and Labels fields, `MemoryAuthority!answer` the response to a query, and
`Descend` and `Leaf` the verifier's DS queries and leaf query in that zone, with
all responses kept in one zone object (`held`) as the code does. `Truth` is
independent of those: what RFC 1034, 4592 and 6672 say of the name, read off the
contents. Under an opt-out chain a name with no authenticated name at or below it
may be an unsigned delegation for all the zone says, so the truth there is
"insecure" (`OptedOut`). The NSEC3
hash is the parameter `compute_hash`, a map of names and salt to numbers; the
instance gives distinct names distinct numbers in an order unlike the names'.

### How the wire modules follow the code

A datagram is a sequence of octets. `WireMessages` is a cursor walking over it:
header, question, one record per step, then the RDATA of answer and authority
record by record, then the response; every refusal of the decoder ends in
`rejected`. `WireNames` is octet by octet: labels, pointers, the hop limit and
the encoder's limits, which are parameters. `RecordData` takes RDATA to a value
and back: a value is either the generic form, which keeps octets, or the fields
of the type's handler. How a number, a base64 block or a hex string is spelled is
left out, what a spelling loses is not: an A record keeps four octets, a TXT
string goes through UTF-8 as `TextDecoder` does it, and a name is cut at every
octet whose character `/\s/` matches (`Space`, `Words`). `sent` is a history variable:
what the server meant by the octets, down to the canonical RDATA it signed.

### How the readers follow the code

A line is a sequence of characters. A word nobody looks into (a number, a
mnemonic, a name) is one character; blanks, tabs, quotes, backslashes,
parentheses and semicolons are characters of their own, so comments, quoting and
joining are modelled by what they do. `StrictReader` first strips each physical
line, character by character (`Scanned`), and joins what is left into logical
lines (`Strip`), then parses each as a directive or a record (`Parse`), its value
with the blanks collapsed (`collapse_blanks`), then hands the records to the zone
when every one parsed (`Add`). What the parentheses of a text are is also said
without the scanner (`Bare`, `Level`, `Nesting`, `Matched`): a character counts
when it is behind no odd number of backslashes or quotes and in no comment.
`LenientReader` reads the same text one physical line at a time, tries its four
patterns and drops what matches none. `BothSpec` runs both over one text; `meant` is
a history variable: the entries the text was laid out from.

### How the client modules follow the code

In `SocketStream` a step is one callback of the event loop, or the continuation
of `exchange` once the read it awaits has settled; that one is a step of its own
because a socket can emit several events in one turn. `conn` holds the fields of
the `SocketStream` object, `reads` the promises of the two `recv_exact` calls,
`timers` and `listeners` what is registered for them. `Data(k)` delivers the next
`k` octets as one chunk, so the stream is cut anywhere. `try_resolve_pending`
runs inside every event, as in the code.

In `ResolverClient` an exchange is its write, its reads and what comes of them.
`op` names the await the attempt is in. `Timed` are the awaits under a timer and
the signal, `Unguarded` those with neither: the write on a TCP or TLS stream and
the reading of an HTTP body. `GiveUp` is the `catch` of the loop in `query_raw`,
`Throw` is `GiveUp` with the `finally` of the attempt. The three clients share
these actions and differ in the awaits they go through. `failures` is a history
variable. A DoH client always has providers, so it starts with at least one.

## Runs

| Run | Shows |
|---|---|
| `Descent` | Root and one delegated zone; the resolver answers the DNSKEY and DS queries with at most two items (`MaxItems`) out of genuine, forged, expired, early, replayed, unsupported and tag-colliding ones, or the complete honest set. `TypeOK`, `DenialAuthentic`, `StepsExplained`, `UnsignedStepEnds`, refinement of `Validation`. |
| `Leaf` | The descent is honest, the leaf and its DS query are not. `AnswerAuthentic`, `DenialAuthentic`, `ResultExplained`. |
| `Aliases` | Two zones, CNAMEs and, at any ancestor, DNAMEs that loop, cross zones or lead to the root, signed or stripped; `MaxAliasHops` 3. `AliasesAuthentic`, `AliasesLinked`, refinement, and `Settles` under fairness. |
| `RoundTrip` | Every zone below the root with at most 3 owners besides the apex, out of 7 names of one or two labels and 5 kinds of node, signed with NSEC, NSEC3 and NSEC3 with opt-out; 11 names asked. `RoundTrip`: signer, authority and verifier agree with the zone's contents. |
| `PartialFlat` | At most 2 owners, no delegation and no DNAME, all signings, any part of every response lost. `DenialIsTrue`. |
| `Cache` | Two calls with a registry each, plans that cross and come back to a key; the second handler may throw, the clock ticks, factories come and go. `AnswersTheLookup`, `AskedOnce`, `LogTellsCall`, `SecureIsFresh`, `HandlersStayApart`, and `Settles`. |
| `Stream` | Nine streams of at most six octets: whole messages of no, one and three octets, with more behind them, and streams that end early; cut into chunks anywhere, with error, end, timer and abort at any point. `OctetsConserved`, `FirstMessage`, `ReadsGuarded`, `Settles`. |
| `Clients` | Each client over up to three servers, the second with an address that does not parse. Refinement of `Failover` (`KeepsOrder`), `SocketsClosed`, `AbortedNeverWaits`, `Settles`. |
| `Wire` | A record of each of 24 types (every type the decoder knows, and one it does not) with its names written out or compressed in every way; the same cut at every octet; the library's own queries; short strings of hostile octets and chains of pointers. `TypeOK`, `NamesMean`, `CutsRefused`, `Understood`, `EncodesAsSigned`. |
| `Reader` | Zones of a directive or two and up to two records, each laid out whole, in parentheses on one line and over several, with comments, wide blanks and quotes; the same cut off and with a parenthesis too many. `TextMeans`, `FaultsLocated` and `UnmatchedRefused` (refused for its parentheses exactly if they do not match, at the right line) of the strict reader, `ReadersAgree` of both. |
| `DNSKEYAnswer`, `WildcardAlias` | one documented statement each, violated; see below |

### Why the bounds are enough

Two items per response are a key or record and one signature, plus the complete
honest response; a third item adds a second failing signature, which the fold
over signatures (`Statuses`, a set) does not tell apart from one. One delegation
below the root has all kinds of descent step; deeper chains repeat it, and the
theorems below hold for all depths. A DNAME one, two or more labels above the
name keeps one label, several, and several of different kinds, so a rewrite that
keeps too many, too few or permutes them shows. Three hops reach the limit, a loop of length
one, two and three, and a loop closed on the last hop. Three owners make an empty
non-terminal, a wildcard beside a name, a chain that wraps and a delegation with
a name below it, alone and in pairs; NSEC3 additionally needs a closest encloser,
a next closer name and a wildcard in spans of their own, which three owners give.
Parts of responses multiply the states, so there the owners are two.

Two calls are enough for both to miss, both to ask and the second answer to
replace the first while the first is in use; one tick with `Life` 0 makes every
answer stale that was kept before it; one factory makes registered and not
registered differ. A body of three octets can be cut into chunks that start in
the prefix, lie inside the body or span both; the code does not look at the
values. Three servers have a first, a middle and a last, and the first failure
differs from the last.

A label of 3 octets, a name of 12 and 2 hops (`MaxLabel`, `MaxName`, `MaxHops`)
are reached and exceeded by the names and pointer chains sent; the octets of the
noise are a terminator, three lengths, a dot, a reserved label type and a pointer,
and four of them hold a pointer to itself, to another pointer, forwards and past the end.
Two records and a directive are enough for an owner, an origin and a TTL to be
inherited, overridden and inherited from the wrong place.

No run sets symmetry: keys and labels have different roles. `CHECK_DEADLOCK` is
off because a settled call, a decoded message and a text read to its end stop.

Every property of a passing run has a mutant in `PROJECT.json`: a plausible bug
in one mapped definition that the run must find. The mutated forms stand before
their originals in the modules, marked `Mutant`.

### Fairness

`ChainWalk!Settles` (every started call settles) assumes weak fairness of
`Answered \/ Failed`: the resolver answers or fails every query. The caller's
`Abort`, `Call` and `CallEmpty` are not assumed to happen.
`SharedCache!Settles` assumes the same of `Respond(w)`, and of `Continue(w)`
because there the continuation of an await is a step of its own: the event loop
runs what is runnable. Nothing is assumed of the other calls or of the handlers.

What the network clients give towards that is `ResolverClient!Settles`, under
weak fairness of the loop itself (`Dial`), of the callback of a UDP write, and of
timers. Nothing is assumed of the network: `Connected`, `Message`, `Headers` and
the rest may never happen. A query then settles or stays in one of the
`Unguarded` awaits: a TCP or TLS write the peer does not take
(`resolver/stream.ts:91`), or an HTTP body that stalls
(`resolver/doh/client.ts:209`). There the promise of `validate` may not settle
either. `SocketStream!Settles` says the same of one exchange whose write is done;
its fairness is that timers fire and continuations run.

The wire modules, the readers and `ZoneLookup` are sequential: they terminate by
a cursor or a depth that only grows, and state no fairness.

### Disagreements between the code and its comments

Two runs check one documented statement each and find it violated; `findings` in
`PROJECT.json` quotes the lines.

| Run | Statement | What happens |
|---|---|---|
| `DNSKEYAnswer` | DNSKEYs are only taken from an authenticated rrset | a DNSKEY query at a name that is no zone takes self-signed keys as signers |
| `WildcardAlias` | wildcard answers need a non-existence proof | an expanded CNAME is followed without |

More came up while modelling. They are part of the models and have no run.

Verifier and resolvers:

- Every error the verifier throws is said to be a `VerifierError`
  (`verifier/errors.ts`); a DS of unknown digest type throws a plain error.
- A DS query at a secure zone cut is Bogus although the DS rrset is intact: the
  walk has entered the child and checks it with the child's keys
  (`verifier/chain.ts:314`).
- The closest encloser is said to be found when a common ancestor exists
  (`verifier/leaf_negative.ts:180`); the root counts as none, so a TLD missing
  from a signed root is Indeterminate. `RoundTrip` is checked below the root.
- `prove_no_ds` is said to skip a candidate whose signature cannot be checked
  (`verifier/negative.ts:115`); `verify_rrset` throws instead.
- A Bogus chain is said to end with the step of the zone that failed
  (`verifier/result.ts:36`); after a redirect back into a zone reported before,
  `add_step` leaves that step where it stood.
- The wildcard `source` is said to be the owner used for the digest
  (`verifier/result.ts:160`); it comes from the first RRSIG with few labels,
  which need not be the one that verified.
- `detect_wildcard` takes a query for a wildcard's own name for an expansion
  (`verifier/wildcard.ts:31`). `RoundTrip` fails in `RoundTrip.cfg` when
  `QNames` has such a name.
- The CNAME made up for a name below a DNAME is not signed
  (`resolver/memory/answer.ts`), so a query for that CNAME is Bogus: the rrset
  asked for is looked at before the DNAME. `RoundTrip` fails in `RoundTrip.cfg`
  when `QTypes` has `CNAME`.
- The parent's NSEC at a delegation passes for NODATA of the child's data when
  the DS answer was lost (`dnssec/nsec.ts:147`). `DenialIsTrue` fails in
  `PartialFlat.cfg` with `Kinds <- AllKinds`.
- A wildcard that is an empty non-terminal (`*.x` when the zone has `y.*.x` only)
  exists by RFC 4592. The authority looks at its records only
  (`resolver/memory/answer.ts:69`) and answers NXDOMAIN for names it should match,
  and the verifier accepts that with NSEC, since it does not look at whether the
  next owner lies below the wildcard (`verifier/leaf_negative.ts`). `RoundTrip`
  and `DenialIsTrue` fail when `Owners` has `<<0, 2>>`.
- An abort is said to surface as `AuthAbortedError`
  (`resolver/auth/client.ts:257`) and to be the cause of
  `DoHAllProvidersFailedError` (`resolver/doh/client.ts:88`). The loop of
  `query_raw` does not look at the signal: the first server's failure is
  reported, whatever it was, and after an abort a UDP query is still sent to
  each server left. Reading an HTTP body ignores the signal.
- A stream read that times out leaves its abort listener registered
  (`resolver/stream.ts:112`). `ReadsGuarded` therefore says `timers \subseteq
  listeners` and not equality; the listener finds its promise settled.

Wire:

- The canonical form is said to lower-case and expand names
  (`zone/dns_zone.ts:326-332`). A received RP record is kept generic and written
  back verbatim, so compressed or upper-case names in it do not hash to what was
  signed. `EncodesAsSigned` fails in `Wire.cfg` with `Types <- RP`.
- A label that holds a dot or a blank is not escaped in a name's text, so the
  name read back has other labels. Blank is what `/\s/` matches: tab, line feed,
  carriage return and space, and the octets 11, 12 and 160 too, which the check
  of an SVCB target (`wire/rdata_svcb.ts:79`) does not look for: such a target
  passes it and is split when it is read back (`zone/rr/svcb_rr.ts:208`). No message
  of `MCWire` holds such labels, and `EncodesAsSigned` says so. Of a text that begins with a dot the encoder
  skips the empty first piece (`wire/dns_wire_util.ts`), so a label `.a` comes back
  as `a`; `ReadsMeaning` leaves such texts out.
- Names on the wire may be longer than 255 octets; the names of NS, MX, SRV and
  NSEC may run past their RDATA. The sent messages of `MCWire` have no such names,
  the noise does.

Readers, beyond the differences listed at `zone/dns_zone.ts:692-695`:

- The lenient reader swallows the line after a one-line `( x )`; loses the
  inherited owner of a line that opens a parenthesis; drops a line that holds
  only `(`; ignores `$TTL 0`; turns `$ORIGIN .` into a doubled dot; qualifies an
  inherited owner again with the current origin; throws, with the zone partly
  filled, on an unknown type after an explicit TTL or class.
- The strict reader does not report a text that ends in a lone `(`
  (`zone/strict.ts:81`); reports a lexical error anywhere before the record
  errors of earlier lines, where the comment says the first line it rejects
  (`zone/strict.ts:39`); starts each physical line outside quotes though the
  joined line is read with them; trims an escaped blank at the end
  (`zone/strict.ts:86`).

The properties proved and checked positively are worded around these:
`AnswerAuthentic` leaves the type DNSKEY out, `AliasesAuthentic` allows an
expanded CNAME, `RoundTrip` is checked below the root and for names that are no
wildcard, `DenialIsTrue` for `Flat` zones, `ReadersAgree` for texts
that are `plain`, `FaultsLocated` names the first fault among the records of
texts without lexical ones, and `Matched` asks only the lines with a word in them
to be closed.

## Proofs

Proved for every value of the constants: for the walk any label, key and record
sets, any zones, any resolver (`Answer`), any depth and hop limit; for the cache
any walks, plans, registries and clock bounds; for the clients any number of
servers; for the stream any octets, cut anywhere; for the denials any contents of
a zone, any names, any responses lost; for messages any octets and any limits; for
the readers any text.

Assumptions, all named in the modules. `RRSetCheck` and `ChainWalk`: the anchors
are keys of the root zone (`AnchorAssumption`), zones are not named after
wildcards (`ZoneAssumption`), a zone's keys are keys (`KeyAssumption`), a DS of
unknown digest type is not a digest of a known key (`DigestAssumption`), `None`
is neither a number nor a reason code (`NoneAssumption`), and typing of the other
parameters. What a signature can be is the set `RRSIG` above. `SharedCache`: a
walk looks up at least one key (`PlanAssumption`), typing (`RegistryAssumption`,
`BoundAssumption`), and `None` is neither an answer nor a verdict. `ZoneLookup`:
labels are numbers and names sequences of them (`NameAssumption`), the zone has
finitely many owners, at or below its apex, the apex among them and no denial
record before it is signed (`ZoneAssumption`), and hashes are numbers that differ
for different names (`HashAssumption`), which is what NSEC3 rests on. `WireNames` and
`WireMessages`: a label's limit fits the length octet (`LimitAssumption`), and what
arrives is octets, a cut message being a complete one without its last octets
(`ArrivalAssumption`; `Complete` says where the question and each record end).
`StrictReader`: a text is lines of characters (`TextAssumption`).

1. `ChainWalkProofs!TypeCorrect`: `Spec => []TypeOK`. By cases over the
   disjuncts of `Next`; typing lemmas for the helpers first.
2. `ChainWalkProofs!KeysAuthentic`: the inductive invariant `KeysInv`. While
   the walk goes on, the trusted keys of `zone` belong to its operator, and once
   the descent has left the DNSKEY rrset behind, so do all DNSKEY records in it.
   The second half needs the first: the rrset verified under a trusted key, so
   the operator signed it, and `ZoneSigns` lets an operator sign only its own
   keys. It is kept because `apply_records` drops DNSKEYs from other answers.
3. `AnswersProved`, `DenialsProved`: from `KeysInv`, an rrset that verifies in
   mode None was signed by the zone in hand, at the owner or at the wildcard its
   Labels field gives (lemma on `check_rrsig`); the zone in hand lies on the way
   to `qname`. Each verdict's disjunct then yields its conjunct.
   `AnswerAuthentic` and `DenialAuthentic` are not inductive without `KeysInv`.
4. `ChainWalkProofs!AliasesProved` the same way for CNAME and DNAME. What a
   redirect must lead to is stated without `synthesise`: the labels of the hop's
   name below the DNAME's owner stand below its target (`Moved`), and
   `SynthesisedIsMoved` shows that the rewrite does this for every name. The name
   of a hop is `asked` or the target before it (`HopName`), and `AliasesLinked`
   gives that the last one is `qname`, from which the step rewrites.
   `AliasesFormOnePath`: with `SeenInv` (the names of all hops are in `seen`), a
   repeated name would have been caught by the loop check.
5. `ChainWalkProofs!StepsProved`, `UnsignedEnds`, `ResultsProved`:
   `StepsExplained`, `UnsignedStepEnds` and `ResultExplained` together with
   `ReportInv`: while the walk goes on, the zone in hand has its step in the
   chain, the descent is below that zone, and the DS rrset was verified before the
   DNSKEY query that needs it went out. Without it nothing ties the step a DNSKEY
   answer adds to a signature over the DS rrset.
6. `ChainWalkProofs!WalkKeepsPromise`: `ChainWalk` implements `Validation`. The
   mapping drops the zone object and takes the zones of the chain, the targets of
   the aliases and the fields of the result. Every answer of the resolver either
   settles the call with fields that fit the verdict, lengthens the chain by the
   child zone, or starts the next hop; a lemma for each kind of ending, then one
   for each step of the descent. Uses `TypeOK`, `ReportInv` and `AliasesLinked`.
7. `SharedCacheProofs`: the types with what a phase says of the plan's progress
   (`TypeInv`); then `CacheInv`, a kept answer was given for the key it is kept
   under, which makes `AnswersTheLookup` inductive; then `AskedInv`, a key a walk
   has asked for is in the cache, or is the one it is waiting for, or the walk has
   rejected, so it cannot miss again; then `FreshInv`, of the answers a walk has
   applied all but the one being checked were good since it started. Each is kept
   because entries of the cache may be replaced but never removed. In
   `HandlersStayApart` the handler is compared with the registry that asks.
   `LogTellsCall` is inductive with the types: it says of each phase what was
   received, event by event, also of a log cut off by a handler that threw.
8. `ClientProofs`: for any number of servers and any malformed addresses.
   `ClientInv` ties the loop variable to the failures met so far (`LoopInv`), the
   socket to the await the attempt is in (`SocketInv`), and includes
   `AbortedNeverWaits`. Each action of the client is one of: give the server up,
   return, wait for something else; a lemma for each, then one step per action.
   `ClientImplementsFailover` follows with the identity mapping; `SocketsClosed`
   is not inductive, since it does not say whose socket an await may hold.
9. `SocketStreamProofs!ReadsAreGuarded`: `ReadInv` adds to `ReadsGuarded` that
   the two reads are made in order, the second after the first resolved, and that
   none is open when the exchange is done; otherwise the second `recv_exact` could
   find a read pending. `OctetsAreConserved` and `FirstMessageReturned` go down to
   the octets (`OctetInv`): what was read, what is buffered and what has not
   arrived yet are the stream, in this order. A read takes as many octets as it
   asked for; as the first read is of two, the second of as many as these two say,
   and both come off the front of the stream, the message returned is the first
   one. The lemmas are about flattened chunks, by induction over their number.
10. `ZoneLookupProofs`, what may be believed: for any contents of the zone and any
   part of every response lost, `ZoneTypes` says that the denial records in the
   zone object are records of this zone's chain, and `DenialsTrue` that a denial
   the verifier accepts is true of the zone. The first is the invariant (`AllSound(held)`); the
   rest is about names. They are totally ordered, and what both ends of an
   interval lie below, its middle lies below; so an NSEC that covers a name is a
   gap between neighbouring owners, the closest encloser read off its two ends is
   the true one, and at most one wildcard can be the source of the name. For NSEC3
   the next hash is the least later one, and a covered hash is the hash of no name
   of the chain. `Flat` says which zones the second theorem is about: no
   delegations, no DNAMEs, nothing below a wildcard. It is needed: beyond it the
   verifier accepts denials that are false (see above).
11. `ZoneLookupProofs`, what is concluded: `RoundTripProved` says that signer,
   authority and verifier agree. When the answers arrive whole, the outcome is
   `Truth`, for zones with delegations, DNAMEs, wildcards and aliases, either chain,
   with and without opt-out. The invariant (`RoundInv`) adds to the types that
   every rrset held is one the zone has, at its owner or expanded from the wildcard
   that is the source of the name (`AllReal`), and how far the descent has come
   (`Descended`): no delegation yet and, under opt-out, every name on the way in
   the chain or below a DNAME. The second part is why an opt-out span cannot be
   taken for a missing name at the leaf: had a name been left out of the chain, the
   descent would have ended there as Insecure (`DescendMeans`). At the leaf the
   proof goes by what the authority finds (`LeafDname`, `LeafOwner`, `LeafEmpty`,
   `LeafWildcard`, `LeafDenied`), and shows each time that the records it sends
   are the ones the verifier's proof looks for, and that nothing held from the
   descent proves something else first. `Sane` says which zones the theorem is
   about, the ones the RFCs allow; `Askable` leaves out the questions for a
   wildcard's own name, for the types the signer adds, and for a CNAME below a
   DNAME; `Len(Apex) > 0` leaves out the root zone. Each is needed, by the
   divergences above; every zone and question of `RoundTrip.cfg` meets all three.

12. `WireProofs!ParseMeans`: what `parse_domain_name` reads at an offset is what
   the octets there mean, and it refuses the rest. The loop is a recursive
   function of its state, so first that it is defined at all: `Rank` falls with
   every turn, by the pointers still allowed and then by the octets ahead
   (`DataInduction!RecursionExists`). `Meaning` is defined without the walk: what
   is known of every offset after `k` steps, for `k` up to the length of the
   message. What is known stays known (`KnownStays`), and the set of offsets known
   grows until nothing is added, which is after as many steps as there are octets
   at the latest (`KnownEnds`). The walk agrees with it: one that ends well has read
   what is known (`WalkTells`), and where a name is known, points backwards and takes
   no more pointers than allowed, it ends well (`WalkEnds`).
13. `WireProofs!EveryNameMeans` adds the round trip through text. A text
   that was read is the labels of some name with a dot behind each; `pieces` cuts
   it at the dots, also at those inside labels; the encoder writes each piece with
   its length, and `wire2domain_name` reads these back, piece by piece, by
   induction from the end. So the text survives, although its labels may not.
   `WireProofs!NamesAreRead` is this for every message that arrives.
14. `WireProofs!TypeCorrect`: the invariant adds to `TypeOK` that nothing is read
   before the header is, and no record of a later section (`Shape`).
   `CutsAreRefused`: while a cut message is read, the cursor stands where the
   complete one has the end of the question or of a record, and the records read and
   those left of this section are all announced so far (`CutInv`). A name or record
   that is read can be read with more behind it (`PrefixParse`, `PrefixRecord`), so
   reading a cut message reads the complete one, whose last record ends at an octet
   that is not there.

15. `ReaderProofs`, for any text. The parentheses that count are defined without the
   scanner, by what stands in front of each character. `StripIs` ties the two: after
   any number of characters the scanner is escaped, inside quotes, in a comment and
   at a depth exactly as `Escaped`, `InQuotes`, `InComment` and `Level` say
   (`Follows`), so a line is refused if and only if it is `Overclosed`, and what it
   leaves is blank if and only if it is not `Worded`. `Joins` is the invariant: the
   depth is `Nesting` of the lines read, none of them overclosed, and the line being
   joined began at the first line with words in it behind which the depth has not
   been 0 again; there is none if there is no such line. It is needed because
   neither the depth nor the line being joined alone tells the end of the text what
   was left open. `Refused` says of each reason what the text is like; a text has
   one such place (`RefusedThere`). `MismatchesAreRefused` follows, and with it that
   a lexical fault comes before every other one. `TypeCorrect` adds the lenient
   reader: whatever of its patterns a line matches, it gives at most one record.

Only model-checked: liveness (every `Settles`), which is out of TLAPS's reach;
`Understood` and `EncodesAsSigned` of `WireMessages`, which compare a message with
what its sender meant by it, handler by handler of `RecordData`; and `TextMeans`,
`FaultsLocated` and `ReadersAgree` of the readers, which compare the records with
the entries a text was laid out from: what a sender may mean and how a text may be
laid out is said by `MCWire` and `MCReader`, not by constants. Where induction over
data was needed (chunks, names, chains, labels, characters, lines) it is in the form
the provers take, a set of numbers that holds 0 and the successor of every member
(`DataInduction!Induction`); a recursive function gets its equation from
`RecursionExists`, `IterationExists` or `ProgressExists`.

## Not modelled

- **Cryptography, keys, key files** (`dnssec/crypto.ts`, `dnskey.ts`, the signer's
  key handling, re-signing and serials): library calls and file formats. A
  signature is modelled by who made it over what. Key modes ZSK and CSK are used
  by nothing the verifier does.
- **Root anchors**: a file read and written as a whole; a constant of the walk.
- **Type and algorithm tables**: lookups.
- **Command line**: argument parsing and output around the verifier.
- **Presentation formats no message produces** (LOC, NAPTR, CERT, URI and others
  of `zone/rr`): pure string conversions, each with its own unit tests.
- **In-memory authority**: the choice among several zones by longest apex, and the
  faults it can be told to inject.
- **Clients**: addresses, TLS options, HTTP headers and the response size limit
  hold no state of the exchange.
- **TTLs and classes** beyond what the decoder and the readers do with them, the
  wording of reasons, `evidence`.
- The clock is a variable only in `SharedCache`. In `ChainWalk` being inside the
  window is an attribute of the signature, fixed during a call. Owner-name case is
  folded away outside the wire modules; `find_rrset` compares the names as
  received.

An honest world of several zones under one authority, walked by `ChainWalk` over
its answers, is not composed: `ChainWalk` takes answers as claims, `ZoneLookup`
shows for one zone that the library's own answers make the claims needed.
