----------------------------- MODULE Validation -----------------------------
(***************************************************************************)
(* What one call of Verifier.validate promises its caller, whatever the    *)
(* walk does inside: it settles once; the steps it reports only grow, each *)
(* zone once, root first; it follows a bounded list of redirects, each     *)
(* starting where the last one led; after an abort it does nothing but     *)
(* settle; and the result has the fields its verdict calls for.            *)
(***************************************************************************)
EXTENDS Naturals, Sequences

CONSTANTS
    Name, Root,
    Verdict, Rejection,
    BogusCode,      \* the reason codes of a Bogus verdict
    MaxAliasHops,
    None

VARIABLES
    state,    \* "idle", "walking", "resolved", "rejected"
    aborted,
    zones,    \* the zones of the steps reported
    targets,  \* the targets of the redirects followed
    outcome   \* [verdict, code, at, answered, encloser, error]

vars == <<state, aborted, zones, targets, outcome>>

Settled == {"resolved", "rejected"}

Unset == [verdict |-> "indeterminate", code |-> None, at |-> None,
          answered |-> FALSE, encloser |-> None, error |-> None]

\* The fields of Result that go with each verdict.
Contract(o) ==
    /\ o.verdict \in Verdict
    /\ o.error = None
    /\ o.verdict = "bogus"    => o.code \in BogusCode /\ o.at \in Name
    /\ o.verdict = "insecure" => o.code = "no-ds" /\ o.at \in Name \ {Root}
    /\ o.verdict \notin {"bogus", "insecure"} => o.code = None /\ o.at = None
    /\ o.answered <=> o.verdict = "secure"
    /\ o.encloser # None => o.verdict = "secure"

\* What the redirect codes say of the redirects followed.
RedirectCodes(o, ts) ==
    /\ o.code = "alias-limit" => Len(ts) = MaxAliasHops + 1 /\ o.at = ts[Len(ts)]
    /\ o.code # "alias-limit" => Len(ts) <= MaxAliasHops

GrowsByOne(old, new) ==
    new # old => /\ Len(new) = Len(old) + 1
                 /\ SubSeq(new, 1, Len(old)) = old
                 /\ new[Len(new)] \in Name

Init ==
    /\ state = "idle" /\ aborted = FALSE
    /\ zones = <<>> /\ targets = <<>>
    /\ outcome = Unset

Abort ==
    /\ state \notin Settled /\ ~aborted
    /\ aborted' = TRUE
    /\ UNCHANGED <<state, zones, targets, outcome>>

Start ==
    /\ state = "idle"
    /\ ~aborted
    /\ state' = "walking"
    /\ UNCHANGED <<aborted, zones, targets, outcome>>

Refuse ==
    /\ state = "idle"
    /\ state' = "rejected"
    /\ outcome' \in [verdict : {"indeterminate"}, code : {None}, at : {None},
                     answered : {FALSE}, encloser : {None},
                     error : {"invalid-qname"} \cup (IF aborted THEN {"chain-timeout"} ELSE {})]
    /\ UNCHANGED <<aborted, zones, targets>>

\* One run of the walk: at most one zone is reported first, at most one
\* redirect followed, and a walk that was aborted ends here.
Work ==
    /\ state = "walking"
    /\ GrowsByOne(zones, zones')
    /\ \A i \in DOMAIN zones : Len(zones') > Len(zones) => zones'[Len(zones')] # zones[i]
    /\ zones' # <<>> => zones'[1] = Root
    /\ GrowsByOne(targets, targets')
    /\ \/ /\ state' = "walking" /\ outcome' = outcome
          /\ ~aborted /\ Len(targets') <= MaxAliasHops
       \/ /\ state' = "resolved"
          /\ Contract(outcome') /\ RedirectCodes(outcome', targets')
       \/ /\ state' = "rejected"
          /\ outcome'.error \in Rejection \ {"invalid-qname"}
          /\ outcome'.code = None
    /\ UNCHANGED aborted

Next == Abort \/ Start \/ Refuse \/ Work

Spec == Init /\ [][Next]_vars
=============================================================================
