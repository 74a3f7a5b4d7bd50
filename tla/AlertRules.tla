----------------------------- MODULE AlertRules -----------------------------
(***************************************************************************)
(* evaluateAlerts() and gateAlerts() of packages/core/src/alerting: which  *)
(* rules a score breaches, and which of the alerts may notify.             *)
(*                                                                         *)
(* A rule is [id, metric, threshold, channels, enabled, severity, window]; *)
(* window is its suppression_window_ms, None when it has none.             *)
(***************************************************************************)
EXTENDS Integers, Sequences

CONSTANTS
    None,
    RuleIds,       \* the ids rules are de-duplicated by
    DedupeMs,      \* dedupe_window_ms, 0 when there is none
    MaxPerWindow,  \* max_per_window, 0 when there is none
    RateMs         \* rate_window_ms

ASSUME GateAssumption ==
    /\ DedupeMs \in Nat /\ MaxPerWindow \in Nat /\ RateMs \in Nat \ {0}
    /\ None \notin Int /\ None \notin {"dedupe", "rate-limit"}
    /\ None \notin [last_fired : [RuleIds -> Nat \cup {None}], window_start : Nat, window_count : Nat]

DefaultSeverity(observed, threshold) ==
    LET gap == threshold - observed IN
    IF gap >= 30 THEN "critical" ELSE IF gap >= 20 THEN "high" ELSE IF gap >= 10 THEN "medium" ELSE "low"

Breached(rule, score) ==
    /\ rule.enabled /\ rule.channels # <<>>
    /\ score[rule.metric] < rule.threshold

Alert(rule, score) ==
    [rule |-> rule.id, channels |-> rule.channels, window |-> rule.window,
     severity |-> IF rule.severity # None THEN rule.severity
                  ELSE DefaultSeverity(score[rule.metric], rule.threshold)]

(* The rules in order, an alert for each that is breached.                 *)
EvaluateAlerts(rules, score) ==
    LET events[n \in 0 .. Len(rules)] ==
            IF n = 0 THEN <<>>
            ELSE IF Breached(rules[n], score) THEN Append(events[n - 1], Alert(rules[n], score))
            ELSE events[n - 1]
    IN  events[Len(rules)]

-----------------------------------------------------------------------------
(* The gate's state: when each rule last passed, and the rate window.      *)
EmptyGate(now) ==
    [last_fired |-> [r \in RuleIds |-> None], window_start |-> now, window_count |-> 0]

Effective(alert) == IF alert.window = None THEN DedupeMs ELSE alert.window

Repeated(g, alert, now) ==
    /\ Effective(alert) > 0
    /\ g.last_fired[alert.rule] # None
    /\ now - g.last_fired[alert.rule] < Effective(alert)

Capped(g) == MaxPerWindow > 0 /\ g.window_count >= MaxPerWindow

(* Mutant of Rolled: a new window also forgets what fired. *)
RolledForgetful(g, now) ==
    IF MaxPerWindow > 0 /\ now - g.window_start >= RateMs THEN EmptyGate(now) ELSE g

(* Mutant of Rolled: the window is not started anew. *)
RolledInPlace(g, now) ==
    IF MaxPerWindow > 0 /\ now - g.window_start >= 1 THEN [g EXCEPT !.window_count = 0] ELSE g

Rolled(g, now) ==
    IF MaxPerWindow > 0 /\ now - g.window_start >= RateMs
    THEN [g EXCEPT !.window_start = now, !.window_count = 0] ELSE g

(* Mutant of Held: the cap is looked at first. *)
HeldByCapFirst(g, alert, now) ==
    IF Capped(g) THEN "dedupe" ELSE IF Repeated(g, alert, now) THEN "rate-limit" ELSE None

(* Why an alert is held back, None when it may notify.                     *)
Held(g, alert, now) ==
    IF Repeated(g, alert, now) THEN "dedupe" ELSE IF Capped(g) THEN "rate-limit" ELSE None

(* The state after an alert passed.                                        *)
Passed(g, alert, now) ==
    [g EXCEPT !.window_count = @ + 1,
              !.last_fired[alert.rule] = IF Effective(alert) > 0 THEN now ELSE @]

(* One alert of a batch: let through, or held back with the reason.        *)
GateOne(before, alert, now) ==
    LET reason == Held(before.state, alert, now) IN
    IF reason = None
    THEN [before EXCEPT !.state = Passed(@, alert, now), !.allowed = Append(@, alert)]
    ELSE [before EXCEPT !.suppressed = Append(@, [alert |-> alert, reason |-> reason])]

(* The gate over a batch, in order: state, alerts let through, alerts held. *)
GateAlerts(alerts, g, now) ==
    LET run[n \in 0 .. Len(alerts)] ==
            IF n = 0
            THEN [state |-> Rolled(IF g = None THEN EmptyGate(now) ELSE g, now),
                  allowed |-> <<>>, suppressed |-> <<>>]
            ELSE GateOne(run[n - 1], alerts[n], now)
    IN  run[Len(alerts)]
=============================================================================
