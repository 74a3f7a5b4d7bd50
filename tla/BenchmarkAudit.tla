--------------------------- MODULE BenchmarkAudit ---------------------------
(***************************************************************************)
(* benchmarkAudit(): what is concluded of a candidate that was run beside  *)
(* a baseline, on the same samples or on separate totals.  Rates are exact *)
(* fractions where the code has floats; the confidence interval decides    *)
(* nothing and is left out.                                                *)
(*                                                                         *)
(* A sample is [id, baseline, candidate], the two telling whether it       *)
(* passed.  Totals are [pass, total].  claim tells whether one is made.    *)
(***************************************************************************)
EXTENDS Integers, Sequences, FiniteSets

IdsOf(samples) == [i \in DOMAIN samples |-> samples[i].id]

BenchFinding(rule, severity, cites) == [rule |-> rule, severity |-> severity, cites |-> cites]

Regressed(samples) == {i \in DOMAIN samples : samples[i].baseline /\ ~samples[i].candidate}
Improved(samples)  == {i \in DOMAIN samples : ~samples[i].baseline /\ samples[i].candidate}

Passing(samples, side) == Cardinality({i \in DOMAIN samples : samples[i][side]})

(* McNemar's test with continuity correction, applied from ten discordant  *)
(* samples on: p < 0.05 when the statistic exceeds 3.8415.                 *)
Significant(b, c) ==
    LET gap == IF b >= c THEN b - c ELSE c - b IN
    b + c >= 10 /\ 10000 * (gap - 1) * (gap - 1) > 38415 * (b + c)

(* The change of the pass rate is delta / n: five points up support a      *)
(* claim if convincing, more than two down reject it.                      *)
VerdictOf(delta, n, convincing) ==
    IF 20 * delta >= n /\ convincing THEN "supports_claim"
    ELSE IF 50 * delta < -n THEN "rejects_claim"
    ELSE "inconclusive"

BenchFindings(delta, small, inconclusive, aggregate, regressed, all) ==
    (IF delta < 0 THEN {BenchFinding("OAA-B-001", "high", regressed)} ELSE {})
    \cup (IF small THEN {BenchFinding("OAA-B-002", "medium", <<>>)} ELSE {})
    \cup (IF inconclusive THEN {BenchFinding("OAA-B-003", "low", all)} ELSE {})
    \cup (IF aggregate THEN {BenchFinding("OAA-B-004", "low", <<>>)} ELSE {})

PairedAudit(samples, claim) ==
    LET n == Len(samples)
        delta == Passing(samples, "candidate") - Passing(samples, "baseline")
        verdict == VerdictOf(delta, n, Significant(Cardinality(Regressed(samples)),
                                                   Cardinality(Improved(samples))))
    IN  [verdict |-> verdict,
         findings |-> BenchFindings(delta, n < 30, claim /\ verdict = "inconclusive", FALSE,
                                    IdsOf(SelectSeq(samples, LAMBDA x : x.baseline /\ ~x.candidate)),
                                    SubSeq(IdsOf(samples), 1, IF n < 50 THEN n ELSE 50))]

(* Without samples the rate is 0.                                          *)
RateOf(totals) == IF totals.total > 0 THEN totals ELSE [pass |-> 0, total |-> 1]

AggregateAudit(candidate, baseline, claim) ==
    LET c == RateOf(candidate)
        b == RateOf(baseline)
        delta == c.pass * b.total - b.pass * c.total
        verdict == VerdictOf(delta, c.total * b.total, TRUE)
    IN  [verdict |-> verdict,
         findings |-> BenchFindings(delta, candidate.total < 30 \/ baseline.total < 30,
                                    claim /\ verdict = "inconclusive", claim, <<>>, <<>>)]

(* What a report is given of it: the samples the findings cite, in the     *)
(* order of the rules, are those of OAA-B-001 and OAA-B-003.               *)
CitedBy(result, rule) ==
    IF \E f \in result.findings : f.rule = rule
    THEN (CHOOSE f \in result.findings : f.rule = rule).cites ELSE <<>>

Bench(result) ==
    [verdict |-> result.verdict, faulted |-> result.findings # {},
     cites |-> CitedBy(result, "OAA-B-001") \o CitedBy(result, "OAA-B-003")]
=============================================================================
