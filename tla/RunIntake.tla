----------------------------- MODULE RunIntake -----------------------------
(***************************************************************************)
(* An upload on its way through the Worker's Durable Objects: the tenant   *)
(* limiter lets it in, the audit gives it a score, the alert gate decides  *)
(* which of the breached rules notify, and the notifications are sent.     *)
(* What the audit stores is AuditPipeline's.                               *)
(*                                                                         *)
(* The gate is one object for all tenants, and it records what it lets     *)
(* through before anything is sent.                                        *)
(***************************************************************************)
EXTENDS TenantLimiter, AlertRules

CONSTANTS
    Workers,       \* what runs at a time: invocations, one upload after another
    Rules,         \* ALERT_RULES, a sequence
    Targets,       \* the channels ALERT_TARGETS configures
    Scores,        \* the scores audits may end with
    Gatekeeper,    \* whether ALERT_GATEKEEPER is bound
    MaxTime        \* bound on the clock

ASSUME RulesAssumption ==
    /\ Len(Rules) \in Nat /\ DOMAIN Rules = 1 .. Len(Rules)
    /\ \A i \in DOMAIN Rules : Rules[i].id \in RuleIds /\ Rules[i].window \in Int \cup {None}

VARIABLES
    gate,     \* the stored state of the gatekeeper, or None
    pc,       \* where each invocation is
    alerts,   \* the alerts an invocation holds
    passed,   \* history: the alerts let through, with rule, window and instant
    held,     \* history: the alerts held back, with the reason as well
    sent      \* history: the rules a notification was delivered for

vars == <<now, window, granted, gate, pc, alerts, passed, held, sent>>

Init ==
    /\ now = 0 /\ LimiterInit
    /\ gate = None /\ passed = <<>> /\ held = {} /\ sent = {}
    /\ pc = [w \in Workers |-> "idle"] /\ alerts = [w \in Workers |-> <<>>]

Goto(w, label) == pc' = [pc EXCEPT ![w] = label]

Tick ==
    /\ now < MaxTime /\ now' = now + 1
    /\ UNCHANGED <<window, granted, gate, pc, alerts, passed, held, sent>>

-----------------------------------------------------------------------------
(* handlePostRun: the check of the limiter, and the audit.                 *)
Check(w, t) ==
    /\ pc[w] = "idle"
    /\ HandleCheck(t)
    /\ Goto(w, IF Allowed(t) THEN "admitted" ELSE "idle")
    /\ UNCHANGED <<now, gate, alerts, passed, held, sent>>

Audit(w, score) ==
    LET breached == EvaluateAlerts(Rules, score) IN
    /\ pc[w] = "admitted"
    /\ alerts' = [alerts EXCEPT ![w] = breached]
    /\ Goto(w, IF breached = <<>> THEN "idle" ELSE IF Gatekeeper THEN "breached" ELSE "sending")
    /\ UNCHANGED <<now, window, granted, gate, passed, held, sent>>

(* The audit fails, or the call of an object does, or the isolate goes: an *)
(* admission stays counted and an alert that was let through stays so.     *)
Abandon(w) ==
    /\ pc[w] \in {"admitted", "breached", "sending"}
    /\ Goto(w, "idle") /\ alerts' = [alerts EXCEPT ![w] = <<>>]
    /\ UNCHANGED <<now, window, granted, gate, passed, held, sent>>

(* An alert at the gate, as the histories keep it.                         *)
Passage(alert) == [rule |-> alert.rule, window |-> Effective(alert), at |-> now]

(* AlertGatekeeper.handleGate, one step: its input gate holds other        *)
(* batches back.                                                           *)
HandleGate(w) ==
    LET result == GateAlerts(alerts[w], gate, now) IN
    /\ pc[w] = "breached"
    /\ gate' = result.state
    /\ alerts' = [alerts EXCEPT ![w] = result.allowed]
    /\ passed' = passed \o [i \in DOMAIN result.allowed |-> Passage(result.allowed[i])]
    /\ held' = held \cup {[pass |-> Passage(s.alert), reason |-> s.reason] :
                              s \in {result.suppressed[i] : i \in DOMAIN result.suppressed}}
    /\ Goto(w, IF result.allowed = <<>> THEN "idle" ELSE "sending")
    /\ UNCHANGED <<now, window, granted, sent>>

(* POST /reset of the gatekeeper; alerts on their way are sent all the     *)
(* same.                                                                   *)
HandleReset ==
    /\ gate' = None /\ passed' = <<>> /\ held' = {} /\ sent' = {}
    /\ UNCHANGED <<now, window, granted, pc, alerts>>

(* dispatchAlert: every channel of an alert in order.  Any of them may     *)
(* fail; a channel without target always does.  An alert counts as sent    *)
(* when some channel took it.                                              *)
Reachable(alert) == \E i \in DOMAIN alert.channels : alert.channels[i] \in Targets

Dispatch(w) ==
    /\ pc[w] = "sending"
    /\ \E delivered \in SUBSET {i \in DOMAIN alerts[w] : Reachable(alerts[w][i])} :
          sent' = sent \cup {alerts[w][i].rule : i \in delivered}
    /\ Goto(w, "idle") /\ alerts' = [alerts EXCEPT ![w] = <<>>]
    /\ UNCHANGED <<now, window, granted, gate, passed, held>>

Next ==
    \/ Tick
    \/ \E w \in Workers : \/ \E t \in Tenants : Check(w, t)
                          \/ \E score \in Scores : Audit(w, score)
                          \/ Abandon(w) \/ HandleGate(w) \/ Dispatch(w)
    \/ HandleReset

Spec == Init /\ [][Next]_vars

-----------------------------------------------------------------------------
(* Properties.                                                             *)
(* The limiter keeps the promise of fixed windows.                         *)
LimiterPromise == Promise!Spec

(* So does the gate, for all the rules together, but for a reset.          *)
GateKeys == {"gate"}

GatePromise == INSTANCE FixedWindow WITH
    Keys <- GateKeys, Limit <- MaxPerWindow, Window <- RateMs,
    start <- [k \in GateKeys |-> IF gate = None THEN -RateMs ELSE gate.window_start],
    used <- [k \in GateKeys |-> IF gate = None THEN 0 ELSE gate.window_count]

GateWindow == GatePromise!Init /\ [][GatePromise!Next \/ HandleReset]_<<now, gate>>

(* Whatever the phase of the windows, a stretch of one window's length     *)
(* sees less than twice the limit of a tenant's uploads: a window begins   *)
(* with an upload, which is no longer in a stretch that meets the next.    *)
Burst(t, from) == {i \in DOMAIN granted[t] : from <= granted[t][i] /\ granted[t][i] < from + WINDOW_MS}

BurstBounded ==
    \A t \in Tenants : \A from \in 0 .. MaxTime :
        \A S \in {Burst(t, from)} : \A i, j \in S : j - i < 2 * LIMIT_PER_MINUTE - 1

(* A rule that notified stays quiet: where an alert of the rule that is    *)
(* de-duplicated was let through, the rule's next alert is let through its *)
(* own window later, at the earliest.                                      *)
QuietAfterPassing ==
    \A i, j \in DOMAIN passed :
        i < j /\ passed[i].rule = passed[j].rule /\ passed[i].window > 0
            => passed[j].at - passed[i].at >= passed[j].window

(* The reason given for holding an alert back is true: the rule did pass   *)
(* within its window, or the window's quota was used up.                   *)
Within(h, length) == {i \in DOMAIN passed : passed[i].at <= h.at /\ h.at - passed[i].at < length}

ReasonsAreTrue ==
    \A h \in held :
        \/ /\ h.reason = "dedupe"
           /\ \E i \in Within(h.pass, h.pass.window) : passed[i].rule = h.pass.rule
        \/ /\ h.reason = "rate-limit" /\ MaxPerWindow > 0
           /\ \E i, j \in Within(h.pass, RateMs) : j - i >= MaxPerWindow - 1

(* "A rule that fired within the last dedupe_window_ms is suppressed"      *)
(* (alerting/index.ts:469-471).  If a rule has fired when it notified, an  *)
(* alert held back as a repeat follows one that was sent, or still is      *)
(* being sent.  To the gate it has fired when it was let through.          *)
HeldAfterNotice ==
    \A h \in held : h.reason = "dedupe" =>
        \/ h.pass.rule \in sent
        \/ \E w \in Workers : pc[w] = "sending"
=============================================================================
