----------------------------- MODULE AuditTrace -----------------------------
(***************************************************************************)
(* The canonical trace every engine of packages/core reads: a sequence of  *)
(* events, each with the fields the engines tell apart, and what           *)
(* validate() reports of it.  An event is a record                         *)
(*                                                                         *)
(*   id, run            event_id, run_id                                   *)
(*   type               one of EventTypes                                  *)
(*   name, cap, tags    tool.name, tool.capability, tool.risk_tags         *)
(*   decision, human    policy.decision, human.decision                    *)
(*   signal             the human_approval flag an adapter sets            *)
(*   source, of         the words in observation.source (empty when it is  *)
(*                      undefined), and the tool it names: "verifier" for  *)
(*                      a source with that prefix, "return" for any other, *)
(*                      and "filter" and "input" beside either             *)
(*   at                 timestamp, None when it is not a date              *)
(*   mode               recording_mode                                     *)
(*   identity           agent and model named: "none", a model "unknown", or *)
(*                      "known"                                            *)
(*   wellformed         the event satisfies the zod schema                 *)
(*   content            the digest computeEventHash() returns for it       *)
(*   evidence           a record of the evidence block, NoEvidence if none *)
(*                                                                         *)
(* An optional field that is absent holds None.                            *)
(***************************************************************************)
EXTENDS Integers, Sequences, FiniteSets

CONSTANTS
    None,       \* `undefined`
    Genesis,    \* the all-zero hash
    Foreign     \* hashes that are not 64 lower-case hex digits

EventTypes == {"tool_call", "policy_decision", "human_approval", "observation",
               "model_output", "final_answer", "error"}

NoEvidence == [present |-> FALSE, numbered |-> FALSE, hash |-> None, prev |-> None,
               signature |-> None, algorithm |-> None, signer |-> None,
               format |-> None, attested |-> FALSE]

-----------------------------------------------------------------------------
(* Positions of a trace, by what the event at the position is.             *)
OfType(t, kind) == {i \in DOMAIN t : t[i].type = kind}

ToolCalls(t)       == OfType(t, "tool_call")
PolicyDecisions(t) == OfType(t, "policy_decision")
HumanApprovals(t)  == OfType(t, "human_approval")
Observations(t)    == OfType(t, "observation")
Errors(t)          == OfType(t, "error")
Denials(t)         == {i \in PolicyDecisions(t) : t[i].decision = "deny"}
Verifications(t)   == {i \in Observations(t) : "verifier" \in t[i].source}

Tagged(t, tags) == {i \in ToolCalls(t) : t[i].tags \cap tags # {}}

Ids(t, S) == {t[i].id : i \in S}

(* The first n positions of S: `slice(0, n)` of the events filtered by S.  *)
First(S, n) == {i \in S : Cardinality({j \in S : j <= i}) <= n}

(* A field that is defined and not the empty string.                       *)
Filled(v) == v \notin {None, ""}

Evident(t)   == {i \in DOMAIN t : t[i].evidence.present}
Hashed(t)    == {i \in DOMAIN t : Filled(t[i].evidence.hash)}
Signed(t)    == {i \in DOMAIN t : Filled(t[i].evidence.signature)}
SignerKey(t) == {i \in DOMAIN t : Filled(t[i].evidence.signer)}

(* Runs with a human_approval event, whatever it decided.                  *)
ApprovedRuns(t) == {t[i].run : i \in HumanApprovals(t)}

-----------------------------------------------------------------------------
(* The hash chain.  policyAudit and computeRiskScore link the events that  *)
(* carry a hash or a prev_hash; validate links those with a hash.          *)
Linked(t) == {i \in DOMAIN t : \/ t[i].evidence.hash # None
                               \/ t[i].evidence.prev # None}

(* j is the element of S directly before i.                                *)
Precedes(S, j, i) == j \in S /\ j < i /\ \A k \in S : k < i => k <= j

Breaks(t, S) ==
    {i \in S : /\ t[i].evidence.prev # None
               /\ \E j \in S : /\ Precedes(S, j, i)
                               /\ t[j].evidence.hash # None
                               /\ t[i].evidence.prev # t[j].evidence.hash}

(* A chained event after the first without prev_hash.                      *)
Gaps(t, S) == {i \in S : t[i].evidence.prev = None /\ \E j \in S : j < i}

(* Mutant of WrongGenesis: the first event is not looked at. *)
WrongGenesisUnchecked(t, S) == {}

WrongGenesis(t, S) ==
    {i \in S : /\ \A j \in S : i <= j
               /\ t[i].evidence.prev \notin {None, Genesis}}

(* Mutant of Mismatched: hashes of other schemes are compared too. *)
MismatchedOfAny(t) == {i \in Hashed(t) : t[i].evidence.hash # t[i].content}

(* The hash in the canonical scheme that is not the digest of the event.   *)
Mismatched(t) ==
    {i \in Hashed(t) : t[i].evidence.hash \notin Foreign /\ t[i].evidence.hash # t[i].content}

-----------------------------------------------------------------------------
(* validate(): one element per entry of `errors`, then of `warnings`.      *)
Duplicates(t) == {i \in DOMAIN t : \E j \in DOMAIN t : j < i /\ t[j].id = t[i].id}

Forged(t) ==
    {i \in DOMAIN t : t[i].evidence.algorithm # None /\ ~Filled(t[i].evidence.signature)}

OtherRun(t) == {i \in DOMAIN t : t[i].run # t[1].run}

ValidationErrors(t) ==
    [schema    |-> {i \in DOMAIN t : ~t[i].wellformed},
     timestamp |-> {i \in DOMAIN t : t[i].at = None},
     tool      |-> {i \in ToolCalls(t) : ~Filled(t[i].name)},
     policy    |-> {i \in PolicyDecisions(t) : t[i].decision = None},
     human     |-> {i \in HumanApprovals(t) : t[i].human = None},
     signature |-> Forged(t),
     event_id  |-> Duplicates(t),
     run_id    |-> OtherRun(t)]

ChainWarnings(t) ==
    WrongGenesis(t, Hashed(t)) \cup Breaks(t, Hashed(t)) \cup Gaps(t, Hashed(t))

Valid(t) == \A kind \in DOMAIN ValidationErrors(t) : ValidationErrors(t)[kind] = {}

(* Ed25519 verification of one signed event against a registry of keys.    *)
(* A key checks the signatures in its set.                                 *)
Verdict(e, registry) ==
    CASE e.evidence.format = "dsse" ->
             IF e.evidence.attested THEN "verified" ELSE "unverified"
      [] e.evidence.format # "dsse" /\ (~Filled(e.evidence.signature)
                                        \/ e.evidence.algorithm # "ed25519") -> "skipped"
      [] e.evidence.format # "dsse" /\ Filled(e.evidence.signature)
         /\ e.evidence.algorithm = "ed25519" ->
             IF e.evidence.signer \notin DOMAIN registry THEN "no_key"
             ELSE IF <<e.evidence.signature, e.content>> \in registry[e.evidence.signer]
                  THEN "verified" ELSE "failed"

CryptoSummary(t, registry) ==
    LET signed == {i \in DOMAIN t : t[i].evidence.signature # None}
        counted(v) == Cardinality({i \in signed : Verdict(t[i], registry) = v})
    IN  [events_with_hash |-> Cardinality({i \in Hashed(t) : t[i].evidence.hash \notin Foreign}),
         hashes_content_mismatch |-> Cardinality(Mismatched(t)),
         events_with_signature |-> Cardinality(signed),
         signatures_verified |-> counted("verified"),
         signatures_failed |-> counted("failed")]

(* validateEvents(): the readers of the Worker and the CLI keep what the   *)
(* schema accepts and go on.                                               *)
Accepted(t) == SelectSeq(t, LAMBDA e : e.wellformed)
=============================================================================
