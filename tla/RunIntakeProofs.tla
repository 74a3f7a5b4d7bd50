-------------------------- MODULE RunIntakeProofs --------------------------
(***************************************************************************)
(* The tenant limiter implements fixed windows, and no stretch of one      *)
(* window's length holds more than twice its limit of grants, for every    *)
(* limit, window and number of tenants and workers.  The alerts of a score *)
(* are those of the rules it breaches; the gate loses none of them, its    *)
(* reasons are true, and rules that notified stay quiet.                   *)
(***************************************************************************)
EXTENDS RunIntake, WellFoundedInduction, TLAPS

USE LimiterAssumption

Windows == [window_start : Nat, count : Nat]

(* The windows stored are windows, begun in the past and within the limit. *)
LimiterOK ==
    /\ now \in Nat
    /\ window \in [Tenants -> {NoWindow} \cup Windows]
    /\ \A t \in Tenants : window[t] # NoWindow =>
          window[t].window_start <= now /\ window[t].count <= LIMIT_PER_MINUTE

(* A step either lets time pass, or is the check of one tenant, or leaves  *)
(* clock and windows alone.                                                *)
LEMMA Steps ==
    ASSUME [Next]_vars
    PROVE  \/ now' = now + 1 /\ UNCHANGED <<window, granted>>
           \/ UNCHANGED <<now, window, granted>>
           \/ \E t \in Tenants : HandleCheck(t) /\ UNCHANGED now
<1>1. CASE Tick BY <1>1 DEF Tick
<1>2. CASE HandleReset BY <1>2 DEF HandleReset
<1>3. ASSUME NEW w \in Workers, NEW t \in Tenants, Check(w, t)
      PROVE  HandleCheck(t) /\ UNCHANGED now
  BY <1>3 DEF Check
<1>4. ASSUME NEW w \in Workers,
             (\E score \in Scores : Audit(w, score)) \/ Abandon(w) \/ HandleGate(w) \/ Dispatch(w)
      PROVE  UNCHANGED <<now, window, granted>>
  BY <1>4 DEF Audit, Abandon, HandleGate, Dispatch
<1>5. CASE UNCHANGED vars BY <1>5 DEF vars
<1> QED BY <1>1, <1>2, <1>3, <1>4, <1>5 DEF Next

(* The window a check works on is the stored one, or one just begun.       *)
LEMMA CurrentIs ==
    ASSUME LimiterOK, NEW t \in Tenants
    PROVE  /\ Current(t) \in Windows /\ Current(t).count <= LIMIT_PER_MINUTE
           /\ Current(t).window_start <= now
           /\ ~Expired(t) => window[t] # NoWindow /\ Current(t) = window[t]
           /\ Expired(t) => Current(t) = [window_start |-> now, count |-> 0]
<1>1. window[t] # NoWindow => window[t] \in Windows BY DEF LimiterOK
<1> QED BY <1>1 DEF LimiterOK, Current, Expired, Windows

(* What a check stores.                                                    *)
LEMMA CheckStores ==
    ASSUME LimiterOK, NEW t \in Tenants, HandleCheck(t)
    PROVE  /\ window'[t] = [window_start |-> Current(t).window_start,
                            count |-> IF Allowed(t) THEN Current(t).count + 1 ELSE Current(t).count]
           /\ \A u \in Tenants \ {t} : window'[u] = window[u]
           /\ window' \in [Tenants -> {NoWindow} \cup Windows]
<1>1. Current(t) \in Windows BY CurrentIs
<1>2. window' = [window EXCEPT ![t] = [Current(t) EXCEPT !.count = IF Allowed(t) THEN @ + 1 ELSE @]]
  BY DEF HandleCheck
<1>3. [Current(t) EXCEPT !.count = IF Allowed(t) THEN @ + 1 ELSE @] =
      [window_start |-> Current(t).window_start,
       count |-> IF Allowed(t) THEN Current(t).count + 1 ELSE Current(t).count]
  BY <1>1 DEF Windows
<1> QED BY <1>1, <1>2, <1>3 DEF LimiterOK, Windows

LEMMA LimiterInvariant == Spec => []LimiterOK
<1>1. Init => LimiterOK BY DEF Init, LimiterInit, LimiterOK
<1>2. LimiterOK /\ [Next]_vars => LimiterOK'
  <2> SUFFICES ASSUME LimiterOK, [Next]_vars PROVE LimiterOK' OBVIOUS
  <2>1. CASE now' = now + 1 /\ UNCHANGED <<window, granted>>
    BY <2>1 DEF LimiterOK, Windows
  <2>2. CASE UNCHANGED <<now, window, granted>> BY <2>2 DEF LimiterOK
  <2>3. ASSUME NEW t \in Tenants, HandleCheck(t), UNCHANGED now PROVE LimiterOK'
    <3>1. Current(t) \in Windows /\ Current(t).count <= LIMIT_PER_MINUTE /\ Current(t).window_start <= now
      BY CurrentIs
    <3>2. /\ window'[t].window_start <= now /\ window'[t].count <= LIMIT_PER_MINUTE
      <4>1. window'[t] = [window_start |-> Current(t).window_start,
                          count |-> IF Allowed(t) THEN Current(t).count + 1 ELSE Current(t).count]
        BY <2>3, CheckStores
      <4>2. Current(t).count \in Nat BY <3>1 DEF Windows
      <4> QED BY <3>1, <4>1, <4>2 DEF Allowed
    <3> QED BY <2>3, <3>2, CheckStores DEF LimiterOK
  <2> QED BY <2>1, <2>2, <2>3, Steps
<1> QED BY <1>1, <1>2, PTL DEF Spec

-----------------------------------------------------------------------------
(* The refinement.                                                         *)
(* A check is a grant in the open window, a new window, or no step at all. *)
LEMMA CheckIsPromised ==
    ASSUME LimiterOK, LimiterOK', NEW t \in Tenants, HandleCheck(t), now' = now
    PROVE  Promise!Grant(t) \/ Promise!Open(t) \/ UNCHANGED <<Started, Counted>>
<1> DEFINE c == Current(t)
<1>1. /\ window'[t] = [window_start |-> c.window_start,
                       count |-> IF Allowed(t) THEN c.count + 1 ELSE c.count]
      /\ \A u \in Tenants \ {t} : window'[u] = window[u]
  BY CheckStores
<1>2. /\ c \in Windows /\ c.count <= LIMIT_PER_MINUTE
      /\ ~Expired(t) => window[t] # NoWindow /\ c = window[t]
      /\ Expired(t) => c = [window_start |-> now, count |-> 0]
  BY CurrentIs
<1>3. window'[t] # NoWindow
      /\ window'[t].window_start = c.window_start
      /\ window'[t].count = IF Allowed(t) THEN c.count + 1 ELSE c.count
  BY <1>1, <1>2 DEF Windows
<1>4. Started' = [Started EXCEPT ![t] = c.window_start]
  BY <1>1, <1>3 DEF Started
<1>5. Counted' = [Counted EXCEPT ![t] = IF Allowed(t) THEN c.count + 1 ELSE c.count]
  BY <1>1, <1>3 DEF Counted
<1>6. CASE Expired(t)
  <2>1. now - Started[t] >= WINDOW_MS
    BY <1>6 DEF Expired, Started, LimiterOK, Windows
  <2>2. Started' = [Started EXCEPT ![t] = now]
    <3>1. c.window_start = now BY <1>2, <1>6
    <3> QED BY <1>4, <3>1
  <2>3. \E n \in 0 .. LIMIT_PER_MINUTE : Counted' = [Counted EXCEPT ![t] = n]
    <3>1. (IF Allowed(t) THEN c.count + 1 ELSE c.count) \in 0 .. LIMIT_PER_MINUTE
      BY <1>2 DEF Allowed, Windows
    <3> QED BY <3>1, <1>5
  <2> QED BY <2>1, <2>2, <2>3 DEF Promise!Open, Promise!Over
<1>7. CASE ~Expired(t)
  <2>1. Started[t] = c.window_start /\ Counted[t] = c.count
    BY <1>2, <1>7 DEF Started, Counted
  <2>2. Started' = Started BY <1>4, <2>1 DEF Started
  <2>3. CASE Allowed(t)
    <3>1. Counted[t] + 1 \in Counted[t] + 1 .. LIMIT_PER_MINUTE
      BY <1>2, <2>1, <2>3 DEF Allowed, Windows
    <3>2. Counted' = [Counted EXCEPT ![t] = Counted[t] + 1] BY <1>5, <2>1, <2>3
    <3> QED BY <2>2, <3>1, <3>2 DEF Promise!Grant
  <2>4. CASE ~Allowed(t)
    <3>1. Counted' = Counted BY <1>5, <2>1, <2>4 DEF Counted
    <3> QED BY <2>2, <3>1
  <2> QED BY <2>3, <2>4
<1> QED BY <1>6, <1>7

(* The limiter, in the middle of everything else an intake does, keeps the *)
(* promise of fixed windows.                                               *)
THEOREM LimiterRefines == Spec => LimiterPromise
<1>1. Init => Promise!Init
  BY DEF Init, LimiterInit, Promise!Init, Promise!Over, Started, Counted
<1>2. LimiterOK /\ LimiterOK' /\ [Next]_vars => [Promise!Next]_(Promise!vars)
  <2> SUFFICES ASSUME LimiterOK, LimiterOK', [Next]_vars PROVE [Promise!Next]_(Promise!vars) OBVIOUS
  <2>1. CASE now' = now + 1 /\ UNCHANGED <<window, granted>>
    <3>1. now' > now /\ UNCHANGED <<Started, Counted>> BY <2>1 DEF LimiterOK, Started, Counted
    <3> QED BY <3>1 DEF Promise!Next, Promise!Pass
  <2>2. CASE UNCHANGED <<now, window, granted>>
    BY <2>2 DEF Promise!vars, Started, Counted
  <2>3. ASSUME NEW t \in Tenants, HandleCheck(t), UNCHANGED now PROVE [Promise!Next]_(Promise!vars)
    BY <2>3, CheckIsPromised DEF Promise!Next, Promise!vars
  <2> QED BY <2>1, <2>2, <2>3, Steps
<1>3. Spec => Promise!Spec BY <1>1, <1>2, LimiterInvariant, PTL DEF Spec, Promise!Spec
<1> QED BY <1>3 DEF LimiterPromise

-----------------------------------------------------------------------------
(* Bursts.                                                                 *)
L == LIMIT_PER_MINUTE

(* What the history of one tenant's grants g looks like beside its window, *)
(* which began at s and holds the last c of them: the grants up to the     *)
(* first of those are not after s, but for the last L - 1 a whole window   *)
(* before s; and any two grants 2 * L - 1 apart are a window apart.        *)
History(g, s, c) ==
    /\ c <= Len(g)
    /\ \A i \in 1 .. Len(g) : g[i] \in Nat /\ g[i] <= now
    /\ \A i \in 1 .. Len(g) : i <= Len(g) - c + 1 => g[i] <= s
    /\ \A i \in 1 .. Len(g) : i <= Len(g) - c - L + 1 => g[i] + WINDOW_MS <= s
    /\ \A i, j \in 1 .. Len(g) : j - i >= 2 * L - 1 => g[i] + WINDOW_MS <= g[j]

(* A window without a grant is one that no limit allows.                   *)
HistoryOK ==
    /\ LimiterOK
    /\ granted \in [Tenants -> Seq(Nat)]
    /\ \A t \in Tenants :
          IF window[t] = NoWindow \/ L = 0 THEN granted[t] = <<>>
          ELSE /\ window[t].count > 0
               /\ History(granted[t], window[t].window_start, window[t].count)

(* A window that begins now has all the grants before it.                  *)
LEMMA WindowBegins ==
    ASSUME now \in Nat, NEW g \in Seq(Nat), NEW s \in Nat, NEW c \in Nat, c <= L, c > 0,
           History(g, s, c), now - s >= WINDOW_MS
    PROVE  History(g, now, 0)
<1>1. Len(g) \in Nat /\ L \in Nat BY LimiterAssumption DEF L
<1>2. ASSUME NEW i \in 1 .. Len(g), i <= Len(g) - L + 1 PROVE g[i] + WINDOW_MS <= now
  <2>1. i <= Len(g) - c + 1 BY <1>1, <1>2
  <2>2. g[i] <= s /\ g[i] \in Nat BY <2>1 DEF History
  <2> QED BY <2>2, LimiterAssumption
<1> QED BY <1>1, <1>2 DEF History

(* A grant in a window that has room for it, or in one that begins.        *)
LEMMA WindowGrants ==
    ASSUME now \in Nat, NEW g \in Seq(Nat), NEW s \in Nat, NEW c \in Nat, c < L,
           History(g, s, c), s <= now, c = 0 => s = now
    PROVE  History(Append(g, now), s, c + 1)
<1> DEFINE h == Append(g, now)
<1>1. /\ Len(g) \in Nat /\ Len(h) = Len(g) + 1 /\ h[Len(g) + 1] = now
      /\ \A i \in 1 .. Len(g) : h[i] = g[i]
  OBVIOUS
<1> HIDE DEF h
<1>2. L \in Nat BY LimiterAssumption DEF L
<1>3. ASSUME NEW i \in 1 .. Len(h) PROVE h[i] \in Nat /\ h[i] <= now
  <2>1. CASE i \in 1 .. Len(g) BY <1>1, <2>1 DEF History
  <2>2. CASE i = Len(g) + 1 BY <1>1, <2>2
  <2> QED BY <1>1, <2>1, <2>2
<1>4. ASSUME NEW i \in 1 .. Len(h), i <= Len(h) - (c + 1) + 1 PROVE h[i] <= s
  <2>1. CASE i \in 1 .. Len(g)
    <3>1. i <= Len(g) - c + 1 BY <1>1, <1>4
    <3>2. g[i] <= s BY <2>1, <3>1 DEF History
    <3> QED BY <1>1, <2>1, <3>2
  <2>2. CASE i = Len(g) + 1
    <3>1. c = 0 BY <1>1, <1>4, <2>2
    <3> QED BY <1>1, <2>2, <3>1
  <2> QED BY <1>1, <2>1, <2>2
<1>5. ASSUME NEW i \in 1 .. Len(h), i <= Len(h) - (c + 1) - L + 1
      PROVE  h[i] + WINDOW_MS <= s
  <2>1. i \in 1 .. Len(g) /\ i <= Len(g) - c - L + 1 BY <1>1, <1>2, <1>5
  <2> QED BY <1>1, <2>1 DEF History
<1>6. ASSUME NEW i \in 1 .. Len(h), NEW j \in 1 .. Len(h), j - i >= 2 * L - 1
      PROVE  h[i] + WINDOW_MS <= h[j]
  <2>1. CASE j \in 1 .. Len(g)
    <3>1. i \in 1 .. Len(g) BY <1>1, <1>2, <1>6, <2>1
    <3> QED BY <1>1, <1>6, <2>1, <3>1 DEF History
  <2>2. CASE j = Len(g) + 1
    <3>1. i \in 1 .. Len(g) /\ i <= Len(g) - c - L + 1 BY <1>1, <1>2, <1>6, <2>2
    <3>2. g[i] + WINDOW_MS <= s /\ g[i] \in Nat BY <3>1 DEF History
    <3> QED BY <1>1, <2>2, <3>1, <3>2, LimiterAssumption
  <2> QED BY <1>1, <2>1, <2>2
<1>7. History(h, s, c + 1) BY <1>1, <1>3, <1>4, <1>5, <1>6 DEF History
<1> QED BY <1>7 DEF h

LEMMA CheckKeepsHistory ==
    ASSUME HistoryOK, NEW t \in Tenants, HandleCheck(t), now' = now
    PROVE  HistoryOK'
<1> DEFINE c == Current(t)
           g == granted[t]
<1>1. LimiterOK /\ now \in Nat /\ g \in Seq(Nat) BY DEF HistoryOK, LimiterOK
<1>2. /\ c \in Windows /\ c.count <= L /\ c.window_start <= now
      /\ c.count \in Nat /\ c.window_start \in Nat
      /\ ~Expired(t) => window[t] # NoWindow /\ c = window[t]
      /\ Expired(t) => c = [window_start |-> now, count |-> 0]
  BY <1>1, CurrentIs DEF Windows, L
<1>3. /\ window'[t] = [window_start |-> c.window_start,
                       count |-> IF Allowed(t) THEN c.count + 1 ELSE c.count]
      /\ \A u \in Tenants \ {t} : window'[u] = window[u]
  BY <1>1, CheckStores
<1>4. LimiterOK'
  <2>1. /\ window'[t].window_start = c.window_start
        /\ window'[t].count = IF Allowed(t) THEN c.count + 1 ELSE c.count
    BY <1>3
  <2>2. window'[t].window_start <= now /\ window'[t].count <= LIMIT_PER_MINUTE
    BY <1>2, <2>1 DEF Allowed, L
  <2> QED BY <1>1, <1>3, <2>2, CheckStores DEF LimiterOK
<1>5. CASE L = 0
  <2>1. \A u \in Tenants : granted[u] = <<>> BY <1>5 DEF HistoryOK
  <2>2. ~Allowed(t) BY <1>2, <1>5 DEF Allowed, L
  <2>3. granted' = granted BY <2>2 DEF HandleCheck
  <2> QED BY <1>1, <1>5, <1>4, <2>1, <2>3 DEF HistoryOK, L
<1>6. CASE L # 0
  <2>1. History(g, c.window_start, c.count) /\ (c.count = 0 => c.window_start = now)
    <3>1. CASE ~Expired(t) BY <1>2, <1>6, <3>1 DEF HistoryOK
    <3>2. CASE Expired(t) /\ window[t] = NoWindow
      <4>1. g = <<>> BY <3>2 DEF HistoryOK
      <4>2. c.window_start = now /\ c.count = 0 BY <1>2, <3>2
      <4> QED BY <1>1, <4>1, <4>2 DEF History, L
    <3>3. CASE Expired(t) /\ window[t] # NoWindow
      <4>1. /\ window[t].window_start \in Nat /\ window[t].count \in Nat
            /\ window[t].count <= L
        BY <1>1, <3>3 DEF LimiterOK, Windows, L
      <4>2. now - window[t].window_start >= WINDOW_MS BY <3>3 DEF Expired
      <4>3. window[t].count > 0 /\ History(g, window[t].window_start, window[t].count)
        BY <1>6, <3>3 DEF HistoryOK
      <4>4. History(g, now, 0) BY <1>1, <4>1, <4>2, <4>3, WindowBegins
      <4>5. c.window_start = now /\ c.count = 0 BY <1>2, <3>3
      <4> QED BY <4>4, <4>5
    <3> QED BY <3>1, <3>2, <3>3
  <2>2. granted' = IF Allowed(t) THEN [granted EXCEPT ![t] = Append(g, now)] ELSE granted
    BY DEF HandleCheck
  <2>3. granted' \in [Tenants -> Seq(Nat)] BY <1>1, <2>2 DEF HistoryOK
  <2>4. /\ window'[t] # NoWindow /\ window'[t].count > 0
        /\ History(granted'[t], window'[t].window_start, window'[t].count)
    <3>1. CASE Allowed(t)
      <4>1. granted'[t] = Append(g, now) BY <2>2, <3>1 DEF HistoryOK
      <4>2. window'[t].window_start = c.window_start /\ window'[t].count = c.count + 1
        BY <1>3, <3>1
      <4>3. c.count < L BY <3>1 DEF Allowed, L
      <4>4. History(Append(g, now), c.window_start, c.count + 1)
        BY <1>1, <1>2, <2>1, <4>3, WindowGrants
      <4> QED BY <1>2, <1>3, <4>1, <4>2, <4>4, CheckStores DEF Windows
    <3>2. CASE ~Allowed(t)
      <4>1. granted'[t] = g BY <2>2, <3>2
      <4>2. window'[t].window_start = c.window_start /\ window'[t].count = c.count
        BY <1>3, <3>2
      <4>3. c.count > 0 BY <1>2, <1>6, <3>2, LimiterAssumption DEF Allowed, L
      <4> QED BY <1>2, <2>1, <1>3, <4>1, <4>2, <4>3, CheckStores DEF Windows
    <3> QED BY <3>1, <3>2
  <2>5. ASSUME NEW u \in Tenants, u # t
        PROVE  granted'[u] = granted[u] /\ window'[u] = window[u]
    BY <1>3, <2>2, <2>5 DEF HistoryOK
  <2>6. ASSUME NEW u \in Tenants
        PROVE  IF window'[u] = NoWindow \/ L = 0 THEN granted'[u] = <<>>
               ELSE /\ window'[u].count > 0
                    /\ History(granted'[u], window'[u].window_start, window'[u].count)
    BY <1>6, <2>4, <2>5 DEF HistoryOK
  <2> QED BY <1>4, <2>3, <2>6 DEF HistoryOK, History, L
<1> QED BY <1>5, <1>6

(* The bursts are bounded: a straddling of two windows gives less than     *)
(* twice the limit, and nothing gives more.                                *)
THEOREM BurstBoundedThm == Spec => []BurstBounded
<1>1. Init => HistoryOK
  BY DEF Init, LimiterInit, LimiterOK, HistoryOK
<1>2. HistoryOK /\ [Next]_vars => HistoryOK'
  <2> SUFFICES ASSUME HistoryOK, [Next]_vars PROVE HistoryOK' OBVIOUS
  <2>1. CASE now' = now + 1 /\ UNCHANGED <<window, granted>>
    BY <2>1, SMTT(30) DEF HistoryOK, History, LimiterOK, Windows
  <2>2. CASE UNCHANGED <<now, window, granted>> BY <2>2 DEF HistoryOK, History, LimiterOK
  <2>3. ASSUME NEW t \in Tenants, HandleCheck(t), UNCHANGED now PROVE HistoryOK'
    BY <2>3, CheckKeepsHistory
  <2> QED BY <2>1, <2>2, <2>3, Steps
<1>3. HistoryOK => BurstBounded
  <2> SUFFICES ASSUME HistoryOK, NEW t \in Tenants, NEW from \in 0 .. MaxTime,
                      NEW i \in Burst(t, from), NEW j \in Burst(t, from)
               PROVE  j - i < 2 * LIMIT_PER_MINUTE - 1
    BY DEF BurstBounded
  <2>1. granted[t] \in Seq(Nat) BY DEF HistoryOK
  <2>2. /\ i \in 1 .. Len(granted[t]) /\ j \in 1 .. Len(granted[t])
        /\ granted[t][i] >= from /\ granted[t][j] < from + WINDOW_MS
        /\ granted[t][i] \in Nat /\ granted[t][j] \in Nat
    BY <2>1, SMTT(30) DEF Burst
  <2>3. window[t] # NoWindow /\ L # 0 BY <2>1, <2>2 DEF HistoryOK
  <2>4. j - i >= 2 * L - 1 => granted[t][i] + WINDOW_MS <= granted[t][j]
    BY <2>2, <2>3 DEF HistoryOK, History
  <2> QED BY <2>2, <2>4 DEF L
<1> QED BY <1>1, <1>2, <1>3, PTL DEF Spec

-----------------------------------------------------------------------------
(* Induction over a set of numbers, from the well-ordering of Nat.         *)
LEMMA SetInduction ==
    ASSUME NEW S, 0 \in S, \A n \in Nat : n \in S => n + 1 \in S
    PROVE  \A n \in Nat : n \in S
<1> DEFINE T == {n \in Nat : n \notin S}
           R == OpToRel(<, Nat)
<1>1. \A x, y \in Nat : <<x, y>> \in R <=> x < y
  BY DEF OpToRel
<1>2. IsWellFoundedOn(R, Nat) BY NatLessThanWellFounded
<1> HIDE DEF R
<1>3. SUFFICES ASSUME T # {} PROVE FALSE OBVIOUS
<1>4. T \subseteq Nat OBVIOUS
<1> HIDE DEF T
<1>5. PICK x \in T : \A y \in T : ~ (<<y, x>> \in R) BY <1>2, <1>3, <1>4, WFMin
<1>6. x \in Nat /\ x \notin S BY DEF T
<1>7. x - 1 \in Nat /\ x - 1 < x BY <1>6
<1>8. x - 1 \notin T BY <1>1, <1>5, <1>6, <1>7
<1>9. x - 1 \in S BY <1>7, <1>8 DEF T
<1> QED BY <1>6, <1>7, <1>9

-----------------------------------------------------------------------------
(* The alerts of a batch.                                                  *)
Fired == {Alert(Rules[i], score) : i \in DOMAIN Rules, score \in Scores}

LEMMA FiredAlerts ==
    ASSUME NEW a \in Fired
    PROVE  a.rule \in RuleIds /\ a.window \in Int \cup {None} /\ Effective(a) \in Int
<1>1. PICK i \in DOMAIN Rules, score \in Scores : a = Alert(Rules[i], score) BY DEF Fired
<1>2. a.rule = Rules[i].id /\ a.window = Rules[i].window BY <1>1 DEF Alert
<1> QED BY <1>2, RulesAssumption, GateAssumption DEF Effective

(* f is the run of EvaluateAlerts over the rules.                          *)
Evaluation(f, N, score) ==
    f = [n \in 0 .. N |->
            IF n = 0 THEN <<>>
            ELSE IF Breached(Rules[n], score) THEN Append(f[n - 1], Alert(Rules[n], score))
            ELSE f[n - 1]]

LEMMA EvaluationExists ==
    ASSUME NEW score
    PROVE  \A N \in Nat : \E f : Evaluation(f, N, score)
<1> DEFINE S == {N \in Nat : \E f : Evaluation(f, N, score)}
<1>1. 0 \in S
  <2>1. Evaluation([n \in 0 .. 0 |-> <<>>], 0, score) BY DEF Evaluation
  <2> QED BY <2>1
<1>2. ASSUME NEW N \in Nat, N \in S PROVE N + 1 \in S
  <2>1. PICK f : Evaluation(f, N, score) BY <1>2
  <2> DEFINE x == IF Breached(Rules[N + 1], score)
                  THEN Append(f[N], Alert(Rules[N + 1], score)) ELSE f[N]
  <2> HIDE DEF x
  <2> DEFINE h == [n \in 0 .. N + 1 |-> IF n = N + 1 THEN x ELSE f[n]]
  <2>2. ASSUME NEW n \in 0 .. N + 1
        PROVE  h[n] = IF n = 0 THEN <<>>
                      ELSE IF Breached(Rules[n], score) THEN Append(h[n - 1], Alert(Rules[n], score))
                      ELSE h[n - 1]
    <3>1. CASE n = N + 1
      <4>1. h[n] = x /\ h[n - 1] = f[N] /\ n # 0 BY <3>1
      <4> QED BY <3>1, <4>1 DEF x
    <3>2. CASE n # N + 1
      <4>1. n \in 0 .. N /\ h[n] = f[n] /\ (n # 0 => h[n - 1] = f[n - 1]) BY <3>2
      <4> HIDE DEF h
      <4> QED BY <2>1, <4>1 DEF Evaluation
    <3> QED BY <3>1, <3>2
  <2>3. Evaluation(h, N + 1, score) BY <2>2 DEF Evaluation
  <2> QED BY <2>3
<1> HIDE DEF S
<1>3. \A N \in Nat : N \in S BY <1>1, <1>2, SetInduction
<1> QED BY <1>3 DEF S

(* The batch e names the breached ones among the first n rules, each once  *)
(* and in the order of the rules: its i-th alert is of the rule h[i].      *)
Names(h, e, n, score) ==
    /\ h \in [1 .. Len(e) -> 1 .. n]
    /\ \A i, j \in 1 .. Len(e) : i < j => h[i] < h[j]
    /\ \A i \in 1 .. Len(e) : Breached(Rules[h[i]], score) /\ e[i] = Alert(Rules[h[i]], score)
    /\ \A m \in 1 .. n : Breached(Rules[m], score) => \E i \in 1 .. Len(e) : h[i] = m

Judged(e, n, score) == e \in Seq(Fired) /\ \E h : Names(h, e, n, score)

LEMMA JudgedNext ==
    ASSUME NEW score \in Scores, NEW n \in Nat, n + 1 \in DOMAIN Rules, NEW e, Judged(e, n, score)
    PROVE  Judged(IF Breached(Rules[n + 1], score) THEN Append(e, Alert(Rules[n + 1], score)) ELSE e,
                  n + 1, score)
<1>1. PICK h : Names(h, e, n, score) BY DEF Judged
<1>2. e \in Seq(Fired) /\ Len(e) \in Nat BY DEF Judged
<1>3. CASE ~ Breached(Rules[n + 1], score)
  <2>1. Names(h, e, n + 1, score) BY <1>1, <1>2, <1>3 DEF Names
  <2> QED BY <1>2, <1>3, <2>1 DEF Judged
<1>4. CASE Breached(Rules[n + 1], score)
  <2> DEFINE a == Alert(Rules[n + 1], score)
             N == Len(e)
             u == Append(e, a)
             k == [i \in 1 .. N + 1 |-> IF i = N + 1 THEN n + 1 ELSE h[i]]
  <2>1. a \in Fired BY DEF Fired
  <2> HIDE DEF a
  <2>2. /\ u \in Seq(Fired) /\ Len(u) = N + 1 /\ u[N + 1] = a
        /\ \A i \in 1 .. N : u[i] = e[i]
    BY <1>2, <2>1
  <2>3. /\ h \in [1 .. N -> 1 .. n] /\ \A i, j \in 1 .. N : i < j => h[i] < h[j]
        /\ \A i \in 1 .. N : Breached(Rules[h[i]], score) /\ e[i] = Alert(Rules[h[i]], score)
        /\ \A m \in 1 .. n : Breached(Rules[m], score) => \E i \in 1 .. N : h[i] = m
    BY <1>1 DEF Names
  <2> HIDE DEF u, N
  <2>4. N \in Nat BY <1>2 DEF N
  <2>5. /\ k \in [1 .. N + 1 -> 1 .. n + 1] /\ k[N + 1] = n + 1
        /\ \A i \in 1 .. N : k[i] = h[i] /\ h[i] \in 1 .. n
    BY <2>3, <2>4
  <2> HIDE DEF k
  <2>6. \A i, j \in 1 .. N + 1 : i < j => k[i] < k[j]
    <3> SUFFICES ASSUME NEW i \in 1 .. N + 1, NEW j \in 1 .. N + 1, i < j PROVE k[i] < k[j] OBVIOUS
    <3>1. i \in 1 .. N BY <2>4
    <3>2. CASE j \in 1 .. N BY <2>3, <2>5, <3>1, <3>2
    <3>3. CASE j = N + 1 BY <2>5, <3>1, <3>3
    <3> QED BY <2>4, <3>2, <3>3
  <2>7. \A i \in 1 .. N + 1 : Breached(Rules[k[i]], score) /\ u[i] = Alert(Rules[k[i]], score)
    <3> TAKE i \in 1 .. N + 1
    <3>1. CASE i \in 1 .. N BY <2>2, <2>3, <2>5, <3>1
    <3>2. CASE i = N + 1 BY <1>4, <2>2, <2>5, <3>2 DEF a
    <3> QED BY <2>4, <3>1, <3>2
  <2>8. ASSUME NEW m \in 1 .. n + 1, Breached(Rules[m], score) PROVE \E i \in 1 .. N + 1 : k[i] = m
    <3>1. CASE m = n + 1 BY <2>4, <2>5, <3>1
    <3>2. CASE m \in 1 .. n
      <4>1. PICK i \in 1 .. N : h[i] = m BY <2>3, <2>8, <3>2
      <4>2. i \in 1 .. N + 1 /\ k[i] = m BY <2>4, <2>5, <4>1
      <4> QED BY <4>2
    <3> QED BY <3>1, <3>2
  <2>9. Names(k, u, n + 1, score) BY <2>2, <2>5, <2>6, <2>7, <2>8 DEF Names
  <2>10. Judged(u, n + 1, score) BY <2>2, <2>9 DEF Judged
  <2> QED BY <1>4, <2>10 DEF u, a
<1> QED BY <1>3, <1>4

(* evaluateAlerts raises one alert for every rule that is enabled, has a   *)
(* channel and is breached, in the order of the rules, and no other.       *)
THEOREM ExactlyTheBreached ==
    ASSUME NEW score \in Scores
    PROVE  Judged(EvaluateAlerts(Rules, score), Len(Rules), score)
<1> DEFINE N == Len(Rules)
           f == CHOOSE f : Evaluation(f, N, score)
           S == {n \in Nat : n <= N => Judged(f[n], n, score)}
<1>1. N \in Nat /\ DOMAIN Rules = 1 .. N BY RulesAssumption
<1>2. EvaluateAlerts(Rules, score) = f[N] BY DEF EvaluateAlerts, Evaluation
<1>3. Evaluation(f, N, score) BY <1>1, EvaluationExists
<1> HIDE DEF f, N, S
<1>4. 0 \in S
  <2>1. f[0] = <<>> BY <1>1, <1>3 DEF Evaluation
  <2>2. Names([i \in 1 .. 0 |-> 0], <<>>, 0, score) BY DEF Names
  <2>3. Judged(<<>>, 0, score) BY <2>2 DEF Judged
  <2> QED BY <2>1, <2>3 DEF S
<1>5. ASSUME NEW n \in Nat, n \in S PROVE n + 1 \in S
  <2> SUFFICES ASSUME n + 1 <= N PROVE Judged(f[n + 1], n + 1, score) BY DEF S
  <2>1. Judged(f[n], n, score) BY <1>1, <1>5 DEF S
  <2>2. f[n + 1] = IF Breached(Rules[n + 1], score)
                   THEN Append(f[n], Alert(Rules[n + 1], score)) ELSE f[n]
    <3>1. n + 1 \in 0 .. N /\ n + 1 # 0 /\ (n + 1) - 1 = n BY <1>1
    <3> QED BY <1>3, <3>1 DEF Evaluation
  <2>3. n + 1 \in DOMAIN Rules BY <1>1
  <2> QED BY <2>1, <2>2, <2>3, JudgedNext
<1>6. \A n \in Nat : n \in S BY <1>4, <1>5, SetInduction
<1> QED BY <1>1, <1>2, <1>6 DEF S, N

LEMMA BatchIsFired ==
    ASSUME NEW score \in Scores
    PROVE  EvaluateAlerts(Rules, score) \in Seq(Fired)
BY ExactlyTheBreached DEF Judged

-----------------------------------------------------------------------------
(* The gate.  A passage is an alert let through; what the gate's state g   *)
(* remembers at the instant t of the passages p so far.                    *)
Passages == [rule : RuleIds, window : Int, at : Nat]
Gates == [last_fired : [RuleIds -> Nat \cup {None}], window_start : Nat, window_count : Nat]

(* The passages are in the order of time.                                  *)
Ordered(p, t) ==
    /\ p \in Seq(Passages)
    /\ \A i \in 1 .. Len(p) : p[i].at <= t
    /\ \A i, j \in 1 .. Len(p) : i < j => p[i].at <= p[j].at

(* last_fired is the last passage of a rule that is de-duplicated.         *)
Remembered(g, p) ==
    \A i \in 1 .. Len(p) : p[i].window > 0 =>
        g.last_fired[p[i].rule] # None /\ p[i].at <= g.last_fired[p[i].rule]

Witnessed(g, p, t) ==
    \A r \in RuleIds : g.last_fired[r] # None =>
        g.last_fired[r] <= t /\ \E i \in 1 .. Len(p) : p[i].rule = r /\ p[i].at = g.last_fired[r]

(* window_count is the number of the last passages, all since the window   *)
(* began.                                                                  *)
Counting(g, p, t) ==
    /\ g.window_start <= t /\ g.window_count <= Len(p)
    /\ MaxPerWindow > 0 => g.window_count <= MaxPerWindow
    /\ \A i \in 1 .. Len(p) : i > Len(p) - g.window_count => p[i].at >= g.window_start

Consistent(g, p, t) ==
    /\ g \in Gates
    /\ Ordered(p, t) /\ Remembered(g, p) /\ Witnessed(g, p, t) /\ Counting(g, p, t)

(* QuietAfterPassing of a sequence of passages.                            *)
Quiet(p) ==
    \A i, j \in 1 .. Len(p) :
        i < j /\ p[i].rule = p[j].rule /\ p[i].window > 0 => p[j].at - p[i].at >= p[j].window

(* The reason r for holding back a passage x is true of the passages p.    *)
Repeats(x, p) ==
    \E i \in 1 .. Len(p) : p[i].rule = x.rule /\ p[i].at <= x.at /\ x.at - p[i].at < x.window

Exceeds(x, p) ==
    /\ MaxPerWindow > 0
    /\ \E i, j \in 1 .. Len(p) :
          /\ p[i].at <= x.at /\ x.at - p[i].at < RateMs
          /\ p[j].at <= x.at /\ x.at - p[j].at < RateMs
          /\ j - i >= MaxPerWindow - 1

TrueReason(h, p) ==
    \/ h.reason = "dedupe" /\ Repeats(h.pass, p)
    \/ h.reason = "rate-limit" /\ Exceeds(h.pass, p)

(* The window the gate works on is not over.                               *)
Fresh(g, t) == MaxPerWindow > 0 => t - g.window_start < RateMs

LEMMA GateNumbers ==
    /\ DedupeMs \in Nat /\ MaxPerWindow \in Nat /\ RateMs \in Nat \ {0}
    /\ None \notin Int /\ None # "dedupe" /\ None # "rate-limit"
BY GateAssumption

USE GateNumbers

(* An alert that may pass leaves a consistent gate.                        *)
LEMMA PassageIsRecorded ==
    ASSUME NEW g, NEW p, NEW t \in Nat, Consistent(g, p, t), Quiet(p), Fresh(g, t),
           NEW a, a.rule \in RuleIds, Effective(a) \in Int, Held(g, a, t) = None,
           NEW x, x = [rule |-> a.rule, window |-> Effective(a), at |-> t]
    PROVE  /\ Consistent(Passed(g, a, t), Append(p, x), t) /\ Quiet(Append(p, x))
           /\ Fresh(Passed(g, a, t), t)
           /\ MaxPerWindow > 0 => Passed(g, a, t).window_count \in g.window_count + 1 .. MaxPerWindow
           /\ Passed(g, a, t).window_start = g.window_start
<1> DEFINE q == Append(p, x)
           h == Passed(g, a, t)
           e == Effective(a)
<1>1. /\ x \in Passages /\ p \in Seq(Passages) /\ g \in Gates
      /\ x.rule = a.rule /\ x.window = e /\ x.at = t
  BY DEF Consistent, Ordered, Passages
<1>2. /\ q \in Seq(Passages) /\ Len(q) = Len(p) + 1 /\ Len(p) \in Nat /\ q[Len(p) + 1] = x
      /\ \A i \in 1 .. Len(p) : q[i] = p[i] /\ q[i] \in Passages
  BY <1>1
<1>3. /\ h.window_start = g.window_start /\ h.window_count = g.window_count + 1
      /\ h.last_fired = [g.last_fired EXCEPT ![a.rule] = IF e > 0 THEN t ELSE @]
      /\ h \in Gates
  <2> DEFINE F == g.last_fired
             c == g.window_count
             f == IF e > 0 THEN t ELSE F[a.rule]
  <2>1. /\ g = [last_fired |-> F, window_start |-> g.window_start, window_count |-> c]
        /\ F \in [RuleIds -> Nat \cup {None}] /\ g.window_start \in Nat /\ c \in Nat
    BY <1>1 DEF Gates
  <2>2. f \in Nat \cup {None} BY <2>1
  <2>3. h = [g EXCEPT !.window_count = c + 1, !.last_fired = [F EXCEPT ![a.rule] = f]]
    BY DEF Passed
  <2> HIDE DEF F, c, f, h, e
  <2>4. [F EXCEPT ![a.rule] = f] \in [RuleIds -> Nat \cup {None}] BY <2>1, <2>2
  <2>5. h = [last_fired |-> [F EXCEPT ![a.rule] = f], window_start |-> g.window_start,
             window_count |-> c + 1]
    BY <2>1, <2>3
  <2>6. h \in Gates BY <2>1, <2>4, <2>5 DEF Gates
  <2> QED BY <2>5, <2>6 DEF F, c, f
<1>4. ~Repeated(g, a, t) /\ ~Capped(g)
  BY DEF Held
<1> HIDE DEF q, h, e
<1>5. Ordered(q, t)
  <2>1. /\ \A i \in 1 .. Len(p) : p[i].at <= t /\ p[i].at \in Nat
        /\ \A i, j \in 1 .. Len(p) : i < j => p[i].at <= p[j].at
    BY <1>1, <1>2 DEF Ordered, Consistent, Passages
  <2>2. \A i \in 1 .. Len(q) : q[i].at <= t
    BY <1>1, <1>2, <2>1
  <2>3. ASSUME NEW i \in 1 .. Len(q), NEW j \in 1 .. Len(q), i < j PROVE q[i].at <= q[j].at
    <3>1. CASE j = Len(p) + 1 BY <1>1, <1>2, <2>2, <3>1
    <3>2. CASE j \in 1 .. Len(p) BY <1>2, <2>1, <2>3, <3>2
    <3> QED BY <1>2, <3>1, <3>2
  <2> QED BY <1>2, <2>2, <2>3 DEF Ordered
<1>6. /\ g.last_fired \in [RuleIds -> Nat \cup {None}] /\ g.window_start \in Nat /\ g.window_count \in Nat
      /\ e \in Int
  BY <1>1 DEF Gates, e
<1>7. /\ e > 0 => h.last_fired[a.rule] = t
      /\ e <= 0 => h.last_fired[a.rule] = g.last_fired[a.rule]
      /\ \A r \in RuleIds \ {a.rule} : h.last_fired[r] = g.last_fired[r]
  BY <1>3, <1>6
<1>8. ASSUME NEW i \in 1 .. Len(q), q[i].window > 0
      PROVE  h.last_fired[q[i].rule] # None /\ q[i].at <= h.last_fired[q[i].rule]
  <2>1. CASE i = Len(p) + 1
    BY <1>1, <1>2, <1>7, <1>8, <2>1
  <2>2. CASE i \in 1 .. Len(p)
    <3>1. /\ g.last_fired[p[i].rule] # None /\ p[i].at <= g.last_fired[p[i].rule]
          /\ p[i].rule \in RuleIds /\ p[i].at \in Nat /\ p[i].at <= t
      BY <1>2, <1>8, <2>2 DEF Consistent, Remembered, Ordered, Passages
    <3>2. q[i] = p[i] BY <1>2, <2>2
    <3>3. CASE p[i].rule = a.rule /\ e > 0 BY <1>7, <3>1, <3>2, <3>3
    <3>4. CASE ~(p[i].rule = a.rule /\ e > 0)
      <4>1. h.last_fired[p[i].rule] = g.last_fired[p[i].rule] BY <1>6, <1>7, <3>1, <3>4
      <4> QED BY <3>1, <3>2, <4>1
    <3> QED BY <3>3, <3>4
  <2> QED BY <1>2, <2>1, <2>2
<1>9. ASSUME NEW r \in RuleIds, h.last_fired[r] # None
      PROVE  h.last_fired[r] <= t /\ \E i \in 1 .. Len(q) : q[i].rule = r /\ q[i].at = h.last_fired[r]
  <2>1. CASE r = a.rule /\ e > 0
    <3>1. Len(p) + 1 \in 1 .. Len(q) BY <1>2
    <3> QED BY <1>1, <1>2, <1>7, <2>1, <3>1
  <2>2. CASE ~(r = a.rule /\ e > 0)
    <3>1. h.last_fired[r] = g.last_fired[r] BY <1>6, <1>7, <2>2
    <3>2. PICK i \in 1 .. Len(p) : p[i].rule = r /\ p[i].at = g.last_fired[r]
      BY <1>9, <3>1 DEF Consistent, Witnessed
    <3>3. g.last_fired[r] <= t BY <1>9, <3>1 DEF Consistent, Witnessed
    <3>4. i \in 1 .. Len(q) /\ q[i] = p[i] BY <1>2
    <3> QED BY <3>1, <3>2, <3>3, <3>4
  <2> QED BY <2>1, <2>2
<1>10. MaxPerWindow > 0 => h.window_count <= MaxPerWindow
  BY <1>3, <1>4, <1>6 DEF Capped
<1>11. Counting(h, q, t)
  <2>1. ASSUME NEW i \in 1 .. Len(q), i > Len(q) - h.window_count PROVE q[i].at >= h.window_start
    <3>1. CASE i = Len(p) + 1
      <4>1. g.window_start <= t BY DEF Consistent, Counting
      <4> QED BY <1>1, <1>2, <1>3, <3>1, <4>1
    <3>2. CASE i \in 1 .. Len(p)
      <4>1. i > Len(p) - g.window_count BY <1>2, <1>3, <1>6, <2>1
      <4> QED BY <1>2, <1>3, <3>2, <4>1 DEF Consistent, Counting
    <3> QED BY <1>2, <3>1, <3>2
  <2>2. g.window_start <= t /\ g.window_count <= Len(p) BY DEF Consistent, Counting
  <2>3. h.window_start <= t /\ h.window_count <= Len(q) BY <1>2, <1>3, <1>6, <2>2
  <2> QED BY <1>10, <2>1, <2>3 DEF Counting
<1>12. ASSUME NEW i \in 1 .. Len(q), NEW j \in 1 .. Len(q), i < j, q[i].rule = q[j].rule, q[i].window > 0
       PROVE  q[j].at - q[i].at >= q[j].window
  <2>1. CASE j \in 1 .. Len(p)
    <3>1. i \in 1 .. Len(p) BY <1>2, <1>12, <2>1
    <3> QED BY <1>2, <1>12, <2>1, <3>1 DEF Quiet
  <2>2. CASE j = Len(p) + 1
    <3>1. i \in 1 .. Len(p) /\ q[i] = p[i] /\ p[i] \in Passages BY <1>2, <1>12, <2>2
    <3>2. /\ g.last_fired[a.rule] # None /\ p[i].at <= g.last_fired[a.rule] /\ p[i].at <= t
      BY <1>1, <1>2, <1>12, <2>2, <3>1 DEF Consistent, Remembered, Ordered
    <3>3. e <= 0 \/ t - g.last_fired[a.rule] >= e BY <1>4, <1>6, <3>2 DEF Repeated, e
    <3>4. p[i].at \in Nat BY <3>1 DEF Passages
    <3> QED BY <1>1, <1>2, <1>6, <2>2, <3>1, <3>2, <3>3, <3>4, SMTT(30)
  <2> QED BY <1>2, <2>1, <2>2
<1>13. Consistent(h, q, t)
  BY <1>3, <1>5, <1>8, <1>9, <1>11 DEF Consistent, Remembered, Witnessed
<1>14. Quiet(q) BY <1>12 DEF Quiet
<1>15. Fresh(h, t) BY <1>3 DEF Fresh
<1>16. MaxPerWindow > 0 => h.window_count \in g.window_count + 1 .. MaxPerWindow
  BY <1>3, <1>6, <1>10
<1> QED BY <1>3, <1>13, <1>14, <1>15, <1>16 DEF h, q

(* An alert that is held back is held back for a true reason.              *)
LEMMA HeldForReason ==
    ASSUME NEW g, NEW p, NEW t \in Nat, Consistent(g, p, t), Fresh(g, t),
           NEW a, a.rule \in RuleIds, Effective(a) \in Int, Held(g, a, t) # None,
           NEW x, x = [rule |-> a.rule, window |-> Effective(a), at |-> t]
    PROVE  TrueReason([pass |-> x, reason |-> Held(g, a, t)], p)
<1>1. x.rule = a.rule /\ x.window = Effective(a) /\ x.at = t OBVIOUS
<1>2. g \in Gates /\ p \in Seq(Passages) /\ Len(p) \in Nat BY DEF Consistent, Ordered
<1>3. CASE Repeated(g, a, t)
  <2>1. g.last_fired[a.rule] # None /\ t - g.last_fired[a.rule] < Effective(a)
    BY <1>3 DEF Repeated
  <2>2. PICK i \in 1 .. Len(p) : p[i].rule = a.rule /\ p[i].at = g.last_fired[a.rule]
    BY <2>1 DEF Consistent, Witnessed
  <2>3. Repeats(x, p)
    BY <1>1, <2>1, <2>2 DEF Repeats, Consistent, Ordered
  <2>4. Held(g, a, t) = "dedupe" BY <1>3 DEF Held
  <2> QED BY <2>3, <2>4 DEF TrueReason
<1>4. CASE ~Repeated(g, a, t)
  <2>1. Capped(g) /\ Held(g, a, t) = "rate-limit" BY <1>4 DEF Held
  <2>2. /\ MaxPerWindow > 0 /\ g.window_count >= MaxPerWindow /\ g.window_count <= Len(p)
        /\ g.window_count \in Nat /\ g.window_start \in Nat /\ t - g.window_start < RateMs
    BY <1>2, <2>1 DEF Capped, Consistent, Counting, Fresh, Gates
  <2> DEFINE c == g.window_count
             j == Len(p)
             i == j - c + 1
  <2>3. /\ i \in 1 .. Len(p) /\ j \in 1 .. Len(p) /\ j - i >= MaxPerWindow - 1
        /\ i > Len(p) - g.window_count /\ j > Len(p) - g.window_count
    <3>1. c \in Nat /\ j \in Nat /\ 1 <= c /\ c <= j /\ MaxPerWindow <= c BY <1>2, <2>2
    <3> HIDE DEF c, j
    <3>2. i \in 1 .. j /\ j \in 1 .. j /\ j - i >= MaxPerWindow - 1 /\ i > j - c /\ j > j - c
      BY <3>1
    <3> QED BY <3>2 DEF c, j
  <2> HIDE DEF i, j
  <2>4. ASSUME NEW k \in 1 .. Len(p), k > Len(p) - g.window_count
        PROVE  p[k].at <= t /\ p[k].at >= g.window_start /\ p[k].at \in Nat
    <3>1. p[k] \in Passages BY <1>2
    <3> QED BY <2>4, <3>1 DEF Consistent, Ordered, Counting, Passages
  <2>5. ASSUME NEW k \in 1 .. Len(p), k > Len(p) - g.window_count
        PROVE  p[k].at <= t /\ t - p[k].at < RateMs
    BY <2>2, <2>4, <2>5, SMTT(30)
  <2>6. Exceeds(x, p) BY <1>1, <2>2, <2>3, <2>5 DEF Exceeds
  <2> QED BY <2>1, <2>6 DEF TrueReason
<1> QED BY <1>3, <1>4

(* Later passages take nothing from a reason.                              *)
LEMMA ReasonsLast ==
    ASSUME NEW p, NEW q, p \in Seq(Passages), q \in Seq(Passages), Len(p) <= Len(q),
           \A i \in 1 .. Len(p) : q[i] = p[i], NEW h, TrueReason(h, p)
    PROVE  TrueReason(h, q)
<1>1. Len(p) \in Nat /\ Len(q) \in Nat /\ 1 .. Len(p) \subseteq 1 .. Len(q) OBVIOUS
<1>2. Repeats(h.pass, p) => Repeats(h.pass, q) BY <1>1 DEF Repeats
<1>3. Exceeds(h.pass, p) => Exceeds(h.pass, q) BY <1>1 DEF Exceeds
<1> QED BY <1>2, <1>3 DEF TrueReason

-----------------------------------------------------------------------------
(* The run of the gate over a batch.                                       *)
Start(g, t) ==
    [state |-> Rolled(IF g = None THEN EmptyGate(t) ELSE g, t), allowed |-> <<>>, suppressed |-> <<>>]

Run(f, N, batch, g, t) ==
    f = [n \in 0 .. N |-> IF n = 0 THEN Start(g, t) ELSE GateOne(f[n - 1], batch[n], t)]

LEMMA RunExists ==
    ASSUME NEW batch, NEW g, NEW t
    PROVE  \A N \in Nat : \E f : Run(f, N, batch, g, t)
<1> DEFINE S == {N \in Nat : \E f : Run(f, N, batch, g, t)}
<1>1. 0 \in S
  <2>1. Run([n \in 0 .. 0 |-> Start(g, t)], 0, batch, g, t) BY DEF Run
  <2> QED BY <2>1
<1>2. ASSUME NEW N \in Nat, N \in S PROVE N + 1 \in S
  <2>1. PICK f : Run(f, N, batch, g, t) BY <1>2
  <2> DEFINE x == GateOne(f[N], batch[N + 1], t)
  <2> HIDE DEF x
  <2> DEFINE h == [n \in 0 .. N + 1 |-> IF n = N + 1 THEN x ELSE f[n]]
  <2>2. ASSUME NEW n \in 0 .. N + 1
        PROVE  h[n] = IF n = 0 THEN Start(g, t) ELSE GateOne(h[n - 1], batch[n], t)
    <3>1. CASE n = N + 1
      <4>1. h[n] = x /\ h[n - 1] = f[N] /\ n # 0 BY <3>1
      <4> QED BY <3>1, <4>1 DEF x
    <3>2. CASE n # N + 1
      <4>1. n \in 0 .. N /\ h[n] = f[n] /\ (n # 0 => h[n - 1] = f[n - 1]) BY <3>2
      <4> HIDE DEF h
      <4> QED BY <2>1, <4>1 DEF Run
    <3> QED BY <3>1, <3>2
  <2>3. Run(h, N + 1, batch, g, t) BY <2>2 DEF Run
  <2> QED BY <2>3
<1> HIDE DEF S
<1>3. \A N \in Nat : N \in S BY <1>1, <1>2, SetInduction
<1> QED BY <1>3 DEF S

(* The gate goes over a batch alert by alert.                              *)
RunOf(batch, g, t) == CHOOSE f : Run(f, Len(batch), batch, g, t)

LEMMA GateRuns ==
    ASSUME NEW batch, Len(batch) \in Nat, NEW g, NEW t
    PROVE  /\ RunOf(batch, g, t)[0] = Start(g, t)
           /\ RunOf(batch, g, t)[Len(batch)] = GateAlerts(batch, g, t)
           /\ \A n \in 0 .. Len(batch) - 1 :
                 RunOf(batch, g, t)[n + 1] = GateOne(RunOf(batch, g, t)[n], batch[n + 1], t)
<1> DEFINE N == Len(batch)
           f == RunOf(batch, g, t)
<1>1. GateAlerts(batch, g, t) = f[N] BY DEF GateAlerts, Run, Start, RunOf
<1>2. Run(f, N, batch, g, t)
  <2>1. \E h : Run(h, N, batch, g, t) BY RunExists, Zenon
  <2> QED BY <2>1, Zenon DEF RunOf
<1> HIDE DEF f
<1>3. f[0] = Start(g, t) BY <1>2 DEF Run
<1>4. ASSUME NEW n \in 0 .. N - 1 PROVE f[n + 1] = GateOne(f[n], batch[n + 1], t)
  <2>1. n + 1 \in 0 .. N /\ n + 1 # 0 /\ (n + 1) - 1 = n OBVIOUS
  <2> QED BY <1>2, <2>1 DEF Run
<1> QED BY <1>1, <1>3, <1>4 DEF f

(* The instant the histories give to an alert that is judged at t.         *)
At(a, t) == [rule |-> a.rule, window |-> Effective(a), at |-> t]

(* The passages after a run that let the alerts of s through.              *)
After(p, s, t) == p \o [i \in DOMAIN s |-> At(s[i], t)]

(* What holds after each alert of a batch: o is the gate the batch began   *)
(* with.                                                                   *)
Midway(r, o, p, t) ==
    /\ r.allowed \in Seq(Fired)
    /\ r.suppressed \in Seq([alert : Fired, reason : {"dedupe", "rate-limit"}])
    /\ r = [state |-> r.state, allowed |-> r.allowed, suppressed |-> r.suppressed]
    /\ Consistent(r.state, After(p, r.allowed, t), t) /\ Quiet(After(p, r.allowed, t))
    /\ Fresh(r.state, t)
    /\ \A i \in 1 .. Len(r.suppressed) :
          TrueReason([pass |-> At(r.suppressed[i].alert, t), reason |-> r.suppressed[i].reason],
                     After(p, r.allowed, t))
    /\ r.state.window_start = o.window_start
    /\ r.state = o \/ r.state.window_count > o.window_count

LEMMA AfterAppend ==
    ASSUME NEW p \in Seq(Passages), NEW s \in Seq(Fired), NEW a \in Fired, NEW t \in Nat
    PROVE  /\ After(p, s, t) \in Seq(Passages)
           /\ After(p, Append(s, a), t) = Append(After(p, s, t), At(a, t))
<1>1. \A b \in Fired : At(b, t) \in Passages BY FiredAlerts DEF At, Passages
<1> DEFINE u == [i \in DOMAIN s |-> At(s[i], t)]
           v == [i \in DOMAIN Append(s, a) |-> At(Append(s, a)[i], t)]
           x == At(a, t)
<1>2. u \in Seq(Passages) /\ Len(u) = Len(s) BY <1>1
<1>3. v \in Seq(Passages) /\ Len(v) = Len(s) + 1 /\ v[Len(s) + 1] = x /\ \A i \in 1 .. Len(s) : v[i] = u[i]
  BY <1>1
<1>4. x \in Passages BY <1>1
<1> HIDE DEF u, v, x
<1>5. v = Append(u, x) BY <1>2, <1>3, <1>4
<1>6. p \o Append(u, x) = Append(p \o u, x) /\ p \o u \in Seq(Passages) BY <1>2, <1>4
<1>7. After(p, s, t) = p \o u /\ After(p, Append(s, a), t) = p \o v BY DEF After, u, v
<1> QED BY <1>5, <1>6, <1>7 DEF x

(* One alert more.                                                         *)
LEMMA StepIsSound ==
    ASSUME NEW r, NEW o, NEW p \in Seq(Passages), NEW t \in Nat, NEW a \in Fired,
           Midway(r, o, p, t), o.window_count \in Nat
    PROVE  Midway(GateOne(r, a, t), o, p, t)
<1> DEFINE q == After(p, r.allowed, t)
           g == r.state
           h == GateOne(r, a, t)
           x == At(a, t)
<1>1. a.rule \in RuleIds /\ Effective(a) \in Int BY FiredAlerts
<1>2. /\ r.allowed \in Seq(Fired) /\ Consistent(g, q, t) /\ Quiet(q) /\ Fresh(g, t)
      /\ r.suppressed \in Seq([alert : Fired, reason : {"dedupe", "rate-limit"}])
      /\ r = [state |-> g, allowed |-> r.allowed, suppressed |-> r.suppressed]
      /\ \A i \in 1 .. Len(r.suppressed) :
            TrueReason([pass |-> At(r.suppressed[i].alert, t), reason |-> r.suppressed[i].reason], q)
      /\ g.window_start = o.window_start
      /\ g = o \/ g.window_count > o.window_count
  BY DEF Midway
<1>3. g.window_count \in Nat BY <1>2 DEF Consistent, Gates
<1>4. q \in Seq(Passages) BY <1>2, AfterAppend
<1>5. CASE Held(g, a, t) = None
  <2>1. h = [state |-> Passed(g, a, t), allowed |-> Append(r.allowed, a), suppressed |-> r.suppressed]
    BY <1>2, <1>5 DEF GateOne
  <2>2. After(p, h.allowed, t) = Append(q, x)
    <3>1. h.allowed = Append(r.allowed, a) BY <2>1
    <3>2. After(p, Append(r.allowed, a), t) = Append(After(p, r.allowed, t), At(a, t))
      BY <1>2, AfterAppend, ZenonT(40)
    <3> QED BY <3>1, <3>2
  <2>3. /\ Consistent(Passed(g, a, t), Append(q, x), t) /\ Quiet(Append(q, x))
        /\ Fresh(Passed(g, a, t), t) /\ Passed(g, a, t).window_start = g.window_start
    BY <1>1, <1>2, <1>5, PassageIsRecorded DEF At
  <2>4. Passed(g, a, t).window_count > o.window_count
    <3>1. Passed(g, a, t).window_count = g.window_count + 1
      BY <1>2 DEF Passed, Consistent, Gates
    <3> QED BY <1>2, <1>3, <3>1
  <2>5. ASSUME NEW i \in 1 .. Len(r.suppressed)
        PROVE  TrueReason([pass |-> At(r.suppressed[i].alert, t), reason |-> r.suppressed[i].reason],
                          Append(q, x))
    <3> DEFINE w == [pass |-> At(r.suppressed[i].alert, t), reason |-> r.suppressed[i].reason]
    <3>1. TrueReason(w, q) BY <1>2
    <3>2. x \in Passages BY <1>1 DEF At, Passages
    <3> HIDE DEF w, q, x
    <3>3. /\ Append(q, x) \in Seq(Passages) /\ Len(q) <= Len(Append(q, x))
          /\ \A k \in 1 .. Len(q) : Append(q, x)[k] = q[k]
      BY <1>4, <3>2
    <3>4. TrueReason(w, Append(q, x)) BY <1>4, <3>1, <3>3, ReasonsLast
    <3> QED BY <3>4 DEF w
  <2>6. Append(r.allowed, a) \in Seq(Fired) BY <1>2
  <2> HIDE DEF q, x, h, g
  <2>7. h.state = Passed(g, a, t) /\ h.allowed = Append(r.allowed, a) /\ h.suppressed = r.suppressed
        /\ h = [state |-> h.state, allowed |-> h.allowed, suppressed |-> h.suppressed]
    BY <2>1
  <2> QED BY <1>2, <2>2, <2>3, <2>4, <2>5, <2>6, <2>7 DEF Midway, h
<1>6. CASE Held(g, a, t) # None
  <2> DEFINE y == [alert |-> a, reason |-> Held(g, a, t)]
             sup == r.suppressed
  <2>1. h = [state |-> g, allowed |-> r.allowed, suppressed |-> Append(sup, y)]
    BY <1>2, <1>6 DEF GateOne
  <2>2. TrueReason([pass |-> x, reason |-> Held(g, a, t)], q)
    BY <1>1, <1>2, <1>6, HeldForReason DEF At
  <2>3. y \in [alert : Fired, reason : {"dedupe", "rate-limit"}] /\ y.alert = a /\ y.reason = Held(g, a, t)
    BY <1>6 DEF Held
  <2> HIDE DEF y, sup, q, x
  <2>4. /\ Append(sup, y) \in Seq([alert : Fired, reason : {"dedupe", "rate-limit"}])
        /\ Len(Append(sup, y)) = Len(sup) + 1 /\ Append(sup, y)[Len(sup) + 1] = y
        /\ \A i \in 1 .. Len(sup) : Append(sup, y)[i] = sup[i]
        /\ Len(sup) \in Nat
    BY <1>2, <2>3 DEF sup
  <2>5. ASSUME NEW i \in 1 .. Len(Append(sup, y))
        PROVE  TrueReason([pass |-> At(Append(sup, y)[i].alert, t), reason |-> Append(sup, y)[i].reason], q)
    <3>1. CASE i = Len(sup) + 1 BY <2>2, <2>3, <2>4, <3>1 DEF x
    <3>2. CASE i \in 1 .. Len(sup) BY <1>2, <2>4, <3>2 DEF sup
    <3> QED BY <2>4, <3>1, <3>2
  <2> HIDE DEF h, g
  <2>6. h.state = g /\ h.allowed = r.allowed /\ h.suppressed = Append(sup, y)
        /\ h = [state |-> h.state, allowed |-> h.allowed, suppressed |-> h.suppressed]
    BY <2>1
  <2> QED BY <1>2, <2>4, <2>5, <2>6 DEF Midway, h, q
<1> QED BY <1>5, <1>6

(* What the gate begins a batch with.                                      *)
GateOK(g, p, t) ==
    IF g = None THEN p = <<>> ELSE Consistent(g, p, t)

LEMMA StartIsSound ==
    ASSUME NEW g, NEW p \in Seq(Passages), NEW t \in Nat, GateOK(g, p, t), Quiet(p)
    PROVE  /\ Midway(Start(g, t), Start(g, t).state, p, t)
           /\ Start(g, t).state.window_count \in Nat
           /\ \/ g # None /\ Start(g, t).state = g
              \/ /\ Start(g, t).state.window_start = t /\ Start(g, t).state.window_count = 0
                 /\ g # None => t - g.window_start >= RateMs
<1> DEFINE fresh == IF g = None THEN EmptyGate(t) ELSE g
           s == Start(g, t).state
<1>1. s = Rolled(fresh, t) /\ Start(g, t).allowed = <<>> /\ Start(g, t).suppressed = <<>>
  BY DEF Start
<1>2. Consistent(fresh, p, t) /\ (g = None => fresh.window_start = t /\ fresh.window_count = 0)
  <2>1. CASE g = None
    <3>1. p = <<>> /\ fresh = EmptyGate(t) BY <2>1 DEF GateOK
    <3> HIDE DEF fresh
    <3>2. /\ fresh = [last_fired |-> [r \in RuleIds |-> None], window_start |-> t, window_count |-> 0]
          /\ fresh \in Gates
      BY <3>1 DEF EmptyGate, Gates
    <3>3. \A r \in RuleIds : fresh.last_fired[r] = None BY <3>2
    <3>4. fresh.window_start = t /\ fresh.window_count = 0 BY <3>2
    <3>5. Len(p) = 0 /\ p \in Seq(Passages) BY <3>1
    <3> QED BY <3>2, <3>3, <3>4, <3>5 DEF Consistent, Ordered, Remembered, Witnessed, Counting
  <2>2. CASE g # None BY <2>2 DEF GateOK
  <2> QED BY <2>1, <2>2
<1> HIDE DEF fresh
<1>3. fresh \in Gates /\ fresh.window_start \in Nat /\ fresh.window_count \in Nat
      /\ fresh.last_fired \in [RuleIds -> Nat \cup {None}]
  BY <1>2 DEF Consistent, Gates
<1>4. \/ s = fresh /\ Fresh(s, t)
      \/ /\ s = [fresh EXCEPT !.window_start = t, !.window_count = 0]
         /\ t - fresh.window_start >= RateMs
  BY <1>1, <1>3 DEF Rolled, Fresh
<1>5. CASE s = fresh /\ Fresh(s, t)
  <2>1. Consistent(s, p, t) /\ s.window_count \in Nat BY <1>2, <1>3, <1>5
  <2>2. (g # None /\ s = g) \/ (s.window_start = t /\ s.window_count = 0 /\ g = None)
    BY <1>2, <1>5 DEF fresh
  <2>3. Midway(Start(g, t), s, p, t)
    <3>1. After(p, <<>>, t) = p BY DEF After
    <3>2. Start(g, t) = [state |-> s, allowed |-> <<>>, suppressed |-> <<>>] BY <1>1 DEF Start
    <3> QED BY <1>1, <1>5, <2>1, <3>1, <3>2 DEF Midway
  <2> QED BY <2>1, <2>2, <2>3
<1>6. CASE /\ s = [fresh EXCEPT !.window_start = t, !.window_count = 0]
           /\ t - fresh.window_start >= RateMs
  <2> HIDE DEF s
  <2>1. /\ s.window_start = t /\ s.window_count = 0 /\ s.last_fired = fresh.last_fired
        /\ s \in Gates
    <3>1. fresh = [last_fired |-> fresh.last_fired, window_start |-> fresh.window_start,
                   window_count |-> fresh.window_count]
      BY <1>3 DEF Gates
    <3>2. s = [last_fired |-> fresh.last_fired, window_start |-> t, window_count |-> 0]
      BY <1>6, <3>1
    <3> QED BY <1>3, <3>2 DEF Gates
  <2>2. Consistent(s, p, t)
    <3>1. Remembered(s, p) /\ Witnessed(s, p, t)
      BY <1>2, <2>1 DEF Consistent, Remembered, Witnessed
    <3>2. Counting(s, p, t) BY <2>1 DEF Counting
    <3> QED BY <1>2, <2>1, <3>1, <3>2 DEF Consistent
  <2>3. Fresh(s, t) BY <2>1 DEF Fresh
  <2>4. Midway(Start(g, t), s, p, t)
    <3>1. After(p, <<>>, t) = p BY DEF After
    <3>2. Start(g, t) = [state |-> s, allowed |-> <<>>, suppressed |-> <<>>] BY <1>1 DEF Start, s
    <3> QED BY <1>1, <2>1, <2>2, <2>3, <3>1, <3>2 DEF Midway
  <2>5. g # None => t - g.window_start >= RateMs BY <1>6 DEF fresh
  <2> QED BY <2>1, <2>4, <2>5 DEF s
<1> QED BY <1>4, <1>5, <1>6

(* A whole batch.                                                          *)
LEMMA BatchIsSound ==
    ASSUME NEW g, NEW p \in Seq(Passages), NEW t \in Nat, GateOK(g, p, t), Quiet(p),
           NEW batch \in Seq(Fired)
    PROVE  Midway(GateAlerts(batch, g, t), Start(g, t).state, p, t)
<1> DEFINE f == RunOf(batch, g, t)
<1>1. Len(batch) \in Nat OBVIOUS
<1>2. /\ f[0] = Start(g, t) /\ f[Len(batch)] = GateAlerts(batch, g, t)
      /\ \A n \in 0 .. Len(batch) - 1 : f[n + 1] = GateOne(f[n], batch[n + 1], t)
  BY <1>1, GateRuns
<1> HIDE DEF f
<1> DEFINE N == Len(batch)
           o == Start(g, t).state
           S == {n \in Nat : n <= N => Midway(f[n], o, p, t)}
<1> HIDE DEF S
<1>3. /\ N \in Nat /\ o.window_count \in Nat
      /\ Midway(Start(g, t), o, p, t)
  <2>1. Midway(Start(g, t), Start(g, t).state, p, t) BY StartIsSound, Zenon
  <2>2. Start(g, t).state.window_count \in Nat BY StartIsSound, Zenon
  <2> QED BY <2>1, <2>2
<1> HIDE DEF o
<1>4. 0 \in S
  BY <1>2, <1>3 DEF S, o
<1>5. ASSUME NEW n \in Nat, n \in S PROVE n + 1 \in S
  <2> SUFFICES ASSUME n + 1 <= N PROVE Midway(f[n + 1], o, p, t) BY DEF S
  <2>1. Midway(f[n], o, p, t) BY <1>3, <1>5 DEF S
  <2>2. n \in 0 .. N - 1 /\ n + 1 \in 1 .. N BY <1>3
  <2>3. f[n + 1] = GateOne(f[n], batch[n + 1], t) BY <1>2, <2>2
  <2>4. batch[n + 1] \in Fired BY <2>2
  <2> QED BY <1>3, <2>1, <2>3, <2>4, StepIsSound
<1>6. \A n \in Nat : n \in S BY <1>4, <1>5, SetInduction
<1>7. Midway(f[N], o, p, t) BY <1>3, <1>6 DEF S
<1> QED BY <1>2, <1>7 DEF o

-----------------------------------------------------------------------------
(* What one alert changes of a result.                                     *)
Result(r) == r = [state |-> r.state, allowed |-> r.allowed, suppressed |-> r.suppressed]

LEMMA GateOneIs ==
    ASSUME NEW r, NEW a, NEW t, Result(r)
    PROVE  /\ Result(GateOne(r, a, t))
           /\ Held(r.state, a, t) = None =>
                 /\ GateOne(r, a, t).allowed = Append(r.allowed, a)
                 /\ GateOne(r, a, t).suppressed = r.suppressed
           /\ Held(r.state, a, t) # None =>
                 /\ GateOne(r, a, t).allowed = r.allowed
                 /\ GateOne(r, a, t).suppressed =
                       Append(r.suppressed, [alert |-> a, reason |-> Held(r.state, a, t)])
<1>1. PICK s, l, h : r = [state |-> s, allowed |-> l, suppressed |-> h] BY DEF Result
<1>2. r.state = s /\ r.allowed = l /\ r.suppressed = h BY <1>1
<1>3. CASE Held(s, a, t) = None
  <2>1. GateOne(r, a, t) = [state |-> Passed(s, a, t), allowed |-> Append(l, a), suppressed |-> h]
    BY <1>1, <1>3 DEF GateOne
  <2> QED BY <1>2, <1>3, <2>1 DEF Result
<1>4. CASE Held(s, a, t) # None
  <2>1. GateOne(r, a, t) = [state |-> s, allowed |-> l,
                            suppressed |-> Append(h, [alert |-> a, reason |-> Held(s, a, t)])]
    BY <1>1, <1>4 DEF GateOne
  <2> QED BY <1>2, <1>4, <2>1 DEF Result
<1> QED BY <1>3, <1>4

LEMMA AppendIs ==
    ASSUME NEW A, NEW l \in Seq(A), NEW x \in A
    PROVE  /\ Append(l, x) \in Seq(A) /\ Len(Append(l, x)) = Len(l) + 1
           /\ Append(l, x)[Len(l) + 1] = x /\ \A i \in 1 .. Len(l) : Append(l, x)[i] = l[i]
OBVIOUS

(* The first n alerts of a batch went one way or the other.                *)
Divided(r, batch, n) ==
    \A m \in 1 .. n : \/ \E i \in 1 .. Len(r.allowed) : r.allowed[i] = batch[m]
                      \/ \E i \in 1 .. Len(r.suppressed) : r.suppressed[i].alert = batch[m]

Split(r, batch, A, n) ==
    /\ Result(r)
    /\ r.allowed \in Seq(A) /\ r.suppressed \in Seq([alert : A, reason : {"dedupe", "rate-limit"}])
    /\ Len(r.allowed) + Len(r.suppressed) = n
    /\ Divided(r, batch, n)

LEMMA SplitStep ==
    ASSUME NEW A, NEW batch \in Seq(A), NEW n \in Nat, n + 1 \in 1 .. Len(batch), NEW t,
           NEW r, Split(r, batch, A, n)
    PROVE  Split(GateOne(r, batch[n + 1], t), batch, A, n + 1)
<1> DEFINE H == [alert : A, reason : {"dedupe", "rate-limit"}]
           a == batch[n + 1]
           x == [alert |-> a, reason |-> Held(r.state, a, t)]
           q == GateOne(r, a, t)
<1>1. a \in A OBVIOUS
<1>2. /\ Result(r) /\ r.allowed \in Seq(A) /\ r.suppressed \in Seq(H)
      /\ Len(r.allowed) + Len(r.suppressed) = n /\ Divided(r, batch, n)
  BY DEF Split
<1>3. Result(q) BY <1>2, GateOneIs
<1>4. SUFFICES /\ q.allowed \in Seq(A) /\ q.suppressed \in Seq(H)
               /\ Len(q.allowed) + Len(q.suppressed) = n + 1 /\ Divided(q, batch, n + 1)
  BY <1>3 DEF Split
<1>5. CASE Held(r.state, a, t) = None
  <2> HIDE DEF a
  <2>1. q.allowed = Append(r.allowed, a) /\ q.suppressed = r.suppressed BY <1>2, <1>5, GateOneIs
  <2> HIDE DEF q
  <2>2. /\ q.allowed \in Seq(A) /\ Len(q.allowed) = Len(r.allowed) + 1
        /\ q.allowed[Len(r.allowed) + 1] = a
        /\ \A i \in 1 .. Len(r.allowed) : q.allowed[i] = r.allowed[i]
    BY <1>1, <1>2, <2>1, AppendIs
  <2>3. Len(r.allowed) \in Nat /\ Len(r.suppressed) \in Nat BY <1>2
  <2>4. ASSUME NEW m \in 1 .. n + 1
        PROVE  \/ \E i \in 1 .. Len(q.allowed) : q.allowed[i] = batch[m]
               \/ \E i \in 1 .. Len(q.suppressed) : q.suppressed[i].alert = batch[m]
    <3>1. CASE m = n + 1
      <4>1. Len(r.allowed) + 1 \in 1 .. Len(q.allowed) BY <2>2, <2>3
      <4>2. q.allowed[Len(r.allowed) + 1] = batch[m] BY <2>2, <3>1 DEF a
      <4> QED BY <4>1, <4>2
    <3>2. CASE m \in 1 .. n
      <4>1. CASE \E i \in 1 .. Len(r.allowed) : r.allowed[i] = batch[m]
        <5>1. PICK i \in 1 .. Len(r.allowed) : r.allowed[i] = batch[m] BY <4>1
        <5>2. i \in 1 .. Len(q.allowed) /\ q.allowed[i] = batch[m] BY <2>2, <2>3, <5>1
        <5> QED BY <5>2
      <4> QED BY <1>2, <2>1, <3>2, <4>1 DEF Divided
    <3> QED BY <3>1, <3>2
  <2>5. Divided(q, batch, n + 1) BY <2>4 DEF Divided
  <2>6. q.allowed \in Seq(A) /\ q.suppressed \in Seq(H) BY <1>2, <2>1, <2>2
  <2>7. Len(q.allowed) + Len(q.suppressed) = n + 1
    <3>1. Len(q.allowed) = Len(r.allowed) + 1 BY <2>2
    <3>2. Len(q.suppressed) = Len(r.suppressed) BY <2>1
    <3> DEFINE la == Len(r.allowed)
               ls == Len(r.suppressed)
    <3>3. la \in Nat /\ ls \in Nat /\ la + ls = n BY <1>2, <2>3
    <3> HIDE DEF la, ls
    <3>4. (la + 1) + ls = n + 1 BY <3>3
    <3> QED BY <3>1, <3>2, <3>4 DEF la, ls
  <2> QED BY <2>5, <2>6, <2>7
<1>6. CASE Held(r.state, a, t) # None
  <2>1. q.allowed = r.allowed /\ q.suppressed = Append(r.suppressed, x) BY <1>2, <1>6, GateOneIs
  <2>0. x \in H /\ x.alert = a BY <1>1, <1>6 DEF Held
  <2> HIDE DEF q, a, x, H
  <2>2. /\ q.suppressed \in Seq(H) /\ Len(q.suppressed) = Len(r.suppressed) + 1
        /\ q.suppressed[Len(r.suppressed) + 1] = x
        /\ \A i \in 1 .. Len(r.suppressed) : q.suppressed[i] = r.suppressed[i]
    BY <2>0, <1>2, <2>1, AppendIs
  <2>3. Len(r.allowed) \in Nat /\ Len(r.suppressed) \in Nat BY <1>2
  <2>4. ASSUME NEW m \in 1 .. n + 1
        PROVE  \/ \E i \in 1 .. Len(q.allowed) : q.allowed[i] = batch[m]
               \/ \E i \in 1 .. Len(q.suppressed) : q.suppressed[i].alert = batch[m]
    <3>1. CASE m = n + 1
      <4>1. Len(r.suppressed) + 1 \in 1 .. Len(q.suppressed) BY <2>2, <2>3
      <4>2. q.suppressed[Len(r.suppressed) + 1].alert = batch[m] BY <2>0, <2>2, <3>1 DEF a
      <4> QED BY <4>1, <4>2
    <3>2. CASE m \in 1 .. n
      <4>1. CASE \E i \in 1 .. Len(r.suppressed) : r.suppressed[i].alert = batch[m]
        <5>1. PICK i \in 1 .. Len(r.suppressed) : r.suppressed[i].alert = batch[m] BY <4>1
        <5>2. i \in 1 .. Len(q.suppressed) /\ q.suppressed[i].alert = batch[m]
          BY <2>2, <2>3, <5>1, SMTT(30)
        <5> QED BY <5>2
      <4> QED BY <1>2, <2>1, <3>2, <4>1 DEF Divided
    <3> QED BY <3>1, <3>2
  <2>5. Divided(q, batch, n + 1) BY <2>4 DEF Divided
  <2>6. q.allowed \in Seq(A) /\ q.suppressed \in Seq(H) BY <1>2, <2>1, <2>2
  <2>7. Len(q.allowed) + Len(q.suppressed) = n + 1
    <3>1. Len(q.allowed) = Len(r.allowed) BY <2>1
    <3>2. Len(q.suppressed) = Len(r.suppressed) + 1 BY <2>2
    <3> DEFINE la == Len(r.allowed)
               ls == Len(r.suppressed)
    <3>3. la \in Nat /\ ls \in Nat /\ la + ls = n BY <1>2, <2>3
    <3> HIDE DEF la, ls
    <3>4. la + (ls + 1) = n + 1 BY <3>3
    <3> QED BY <3>1, <3>2, <3>4 DEF la, ls
  <2> QED BY <2>5, <2>6, <2>7
<1> QED BY <1>5, <1>6

(* Every alert of a batch is let through or held back with its reason, and *)
(* as many as came are let through or held back: gateAlerts drops none and *)
(* repeats none.                                                           *)
THEOREM NothingIsLost ==
    ASSUME NEW A, NEW batch \in Seq(A), NEW g, NEW t
    PROVE  /\ Len(GateAlerts(batch, g, t).allowed) + Len(GateAlerts(batch, g, t).suppressed)
                 = Len(batch)
           /\ Divided(GateAlerts(batch, g, t), batch, Len(batch))
<1> DEFINE N == Len(batch)
           f == RunOf(batch, g, t)
<1>1. Len(batch) \in Nat OBVIOUS
<1>2. /\ f[0] = Start(g, t) /\ f[Len(batch)] = GateAlerts(batch, g, t)
      /\ \A n \in 0 .. Len(batch) - 1 : f[n + 1] = GateOne(f[n], batch[n + 1], t)
  BY <1>1, GateRuns
<1> HIDE DEF f
<1> DEFINE S == {n \in Nat : n <= N => Split(f[n], batch, A, n)}
<1> HIDE DEF S
<1>3. 0 \in S
  <2>1. Split(Start(g, t), batch, A, 0) BY DEF Start, Split, Result, Divided
  <2> QED BY <1>2, <2>1 DEF S
<1>4. ASSUME NEW n \in Nat, n \in S PROVE n + 1 \in S
  <2> SUFFICES ASSUME n + 1 <= N PROVE Split(f[n + 1], batch, A, n + 1) BY DEF S
  <2>1. Split(f[n], batch, A, n) BY <1>1, <1>4 DEF S
  <2>2. n \in 0 .. N - 1 /\ n + 1 \in 1 .. N BY <1>1
  <2>3. f[n + 1] = GateOne(f[n], batch[n + 1], t) BY <1>2, <2>2
  <2> QED BY <2>1, <2>2, <2>3, SplitStep
<1>5. \A n \in Nat : n \in S BY <1>3, <1>4, SetInduction
<1>6. Split(f[N], batch, A, N) BY <1>1, <1>5 DEF S
<1> QED BY <1>2, <1>6 DEF Split

(* The case of GateOneIs in which nothing withholds the alert.             *)
LEMMA GateOnePasses ==
    ASSUME NEW r, NEW a, NEW t, Result(r), Held(r.state, a, t) = None
    PROVE  /\ Result(GateOne(r, a, t)) /\ GateOne(r, a, t).suppressed = r.suppressed
           /\ GateOne(r, a, t).allowed = Append(r.allowed, a)
<1> DEFINE q == GateOne(r, a, t)
           Passes == Held(r.state, a, t) = None
<1>1. /\ Result(q)
      /\ Passes => q.allowed = Append(r.allowed, a) /\ q.suppressed = r.suppressed
  BY GateOneIs, ZenonT(60)
<1>2. Passes OBVIOUS
<1> HIDE DEF q, Passes
<1>3. Result(q) /\ q.allowed = Append(r.allowed, a) /\ q.suppressed = r.suppressed
  BY <1>1, <1>2
<1> QED BY <1>3 DEF q

(* A config of {} passes everything through (alerting/index.ts:552): the   *)
(* gate without a quiet period and without a cap changes no batch.         *)
THEOREM GateOffPasses ==
    ASSUME DedupeMs = 0, MaxPerWindow = 0, NEW A, NEW batch \in Seq(A),
           \A n \in DOMAIN batch : batch[n].window = None, NEW g, NEW t
    PROVE  GateAlerts(batch, g, t).allowed = batch /\ GateAlerts(batch, g, t).suppressed = <<>>
<1>1. Len(batch) \in Nat OBVIOUS
<1> DEFINE N == Len(batch)
           Through(r, n) ==
             /\ Result(r) /\ r.suppressed = <<>>
             /\ r.allowed \in Seq(A) /\ Len(r.allowed) = n
             /\ \A m \in 1 .. n : r.allowed[m] = batch[m]
           f == RunOf(batch, g, t)
<1>2. /\ f[0] = Start(g, t) /\ f[N] = GateAlerts(batch, g, t)
      /\ \A n \in 0 .. N - 1 : f[n + 1] = GateOne(f[n], batch[n + 1], t)
  <2> HIDE DEF Through
  <2> QED BY <1>1, GateRuns
<1> HIDE DEF f
<1>3. Through(Start(g, t), 0) BY DEF Start, Result
<1>4. ASSUME NEW r, NEW n \in Nat, n + 1 \in 1 .. N, Through(r, n)
      PROVE  Through(GateOne(r, batch[n + 1], t), n + 1)
  <2> DEFINE a == batch[n + 1]
  <2>1. a \in A /\ a.window = None BY <1>4
  <2> HIDE DEF a
  <2>2. Held(r.state, a, t) = None BY <2>1 DEF Held, Repeated, Capped, Effective
  <2>3. /\ Result(GateOne(r, a, t)) /\ GateOne(r, a, t).suppressed = <<>>
        /\ GateOne(r, a, t).allowed = Append(r.allowed, a)
    <3>1. Result(r) /\ r.suppressed = <<>> BY <1>4
    <3>2. /\ Result(GateOne(r, a, t)) /\ GateOne(r, a, t).suppressed = r.suppressed
          /\ GateOne(r, a, t).allowed = Append(r.allowed, a)
      BY <2>2, <3>1, GateOnePasses
    <3> QED BY <3>1, <3>2
  <2>4. /\ Append(r.allowed, a) \in Seq(A) /\ Len(Append(r.allowed, a)) = n + 1
        /\ Append(r.allowed, a)[n + 1] = a
        /\ \A i \in 1 .. n : Append(r.allowed, a)[i] = batch[i]
    BY <1>4, <2>1, AppendIs
  <2>5. \A m \in 1 .. n + 1 : Append(r.allowed, a)[m] = batch[m] BY <2>4 DEF a
  <2> QED BY <2>3, <2>4, <2>5 DEF a
<1> DEFINE S == {n \in Nat : n <= N => Through(f[n], n)}
<1> HIDE DEF S, Through
<1>5. 0 \in S BY <1>2, <1>3 DEF S
<1>6. ASSUME NEW n \in Nat, n \in S PROVE n + 1 \in S
  <2> SUFFICES ASSUME n + 1 <= N PROVE Through(f[n + 1], n + 1) BY DEF S
  <2>1. Through(f[n], n) BY <1>1, <1>6 DEF S
  <2>2. n \in 0 .. N - 1 /\ n + 1 \in 1 .. N BY <1>1
  <2>3. f[n + 1] = GateOne(f[n], batch[n + 1], t) BY <1>2, <2>2
  <2> QED BY <1>4, <2>1, <2>2, <2>3
<1>7. \A n \in Nat : n \in S BY <1>5, <1>6, SetInduction
<1>8. Through(f[N], N) BY <1>1, <1>7 DEF S
<1> DEFINE r == GateAlerts(batch, g, t)
<1>9. /\ r.suppressed = <<>> /\ r.allowed \in Seq(A) /\ Len(r.allowed) = N
      /\ \A m \in 1 .. N : r.allowed[m] = batch[m]
  BY <1>2, <1>8 DEF Through
<1> HIDE DEF r
<1> QED BY <1>9 DEF r

-----------------------------------------------------------------------------
(* The gate among the workers.                                             *)
IntakeOK ==
    /\ now \in Nat
    /\ alerts \in [Workers -> Seq(Fired)]
    /\ passed \in Seq(Passages)
    /\ GateOK(gate, passed, now) /\ Quiet(passed)
    /\ \A h \in held : TrueReason(h, passed)

(* Time passing changes nothing the gate remembers.                        *)
LEMMA TimePasses ==
    ASSUME NEW g, NEW p \in Seq(Passages), NEW t \in Nat, GateOK(g, p, t)
    PROVE  GateOK(g, p, t + 1)
<1>1. CASE g = None BY <1>1 DEF GateOK
<1>2. CASE g # None
  <2>1. Consistent(g, p, t) BY <1>2 DEF GateOK
  <2>2. ASSUME NEW i \in 1 .. Len(p) PROVE p[i].at <= t + 1
    <3>1. p[i] \in Passages /\ p[i].at <= t BY <2>1 DEF Consistent, Ordered
    <3>2. p[i].at \in Nat BY <3>1 DEF Passages
    <3> QED BY <3>1, <3>2
  <2>3. Ordered(p, t + 1) BY <2>1, <2>2 DEF Consistent, Ordered
  <2>4. ASSUME NEW r \in RuleIds, g.last_fired[r] # None PROVE g.last_fired[r] <= t + 1
    <3>1. g.last_fired[r] \in Nat /\ g.last_fired[r] <= t
      BY <2>1, <2>4 DEF Consistent, Gates, Witnessed
    <3> QED BY <3>1
  <2>5. Witnessed(g, p, t + 1) BY <2>1, <2>4 DEF Consistent, Witnessed
  <2>6. g.window_start <= t + 1 BY <2>1 DEF Consistent, Counting, Gates
  <2>7. Counting(g, p, t + 1) BY <2>1, <2>6 DEF Consistent, Counting
  <2> QED BY <1>2, <2>1, <2>3, <2>5, <2>7 DEF GateOK, Consistent
<1> QED BY <1>1, <1>2

(* A batch at the gate.                                                    *)
LEMMA GateStep ==
    ASSUME IntakeOK, NEW w \in Workers, HandleGate(w)
    PROVE  /\ IntakeOK'
           /\ Consistent(gate', passed', now) /\ gate' # None
           /\ Midway(GateAlerts(alerts[w], gate, now), Start(gate, now).state, passed, now)
           /\ gate' = GateAlerts(alerts[w], gate, now).state
<1> DEFINE r == GateAlerts(alerts[w], gate, now)
           q == After(passed, r.allowed, now)
<1>1. alerts[w] \in Seq(Fired) /\ passed \in Seq(Passages) /\ now \in Nat BY DEF IntakeOK
<1>2. Midway(r, Start(gate, now).state, passed, now) BY <1>1, BatchIsSound DEF IntakeOK
<1>3. gate' = r.state /\ now' = now /\ alerts' = [alerts EXCEPT ![w] = r.allowed]
  BY DEF HandleGate
<1>4. passed' = q
  BY DEF HandleGate, After, At, Passage
<1>5. held' = held \cup {[pass |-> At(s.alert, now), reason |-> s.reason] :
                           s \in {r.suppressed[i] : i \in DOMAIN r.suppressed}}
  BY DEF HandleGate, At, Passage
<1> HIDE DEF r
<1>6. /\ r.allowed \in Seq(Fired) /\ Consistent(r.state, q, now) /\ Quiet(q)
      /\ r.suppressed \in Seq([alert : Fired, reason : {"dedupe", "rate-limit"}])
      /\ \A i \in 1 .. Len(r.suppressed) :
            TrueReason([pass |-> At(r.suppressed[i].alert, now), reason |-> r.suppressed[i].reason], q)
  BY <1>2 DEF Midway
<1>7. /\ q \in Seq(Passages) /\ Len(passed) <= Len(q)
      /\ \A i \in 1 .. Len(passed) : q[i] = passed[i]
  <2> DEFINE u == [i \in DOMAIN r.allowed |-> At(r.allowed[i], now)]
  <2>1. \A b \in Fired : At(b, now) \in Passages BY <1>1, FiredAlerts DEF At, Passages
  <2>2. u \in Seq(Passages) BY <1>6, <2>1
  <2> HIDE DEF u
  <2>3. /\ passed \o u \in Seq(Passages) /\ Len(passed) <= Len(passed \o u)
        /\ \A i \in 1 .. Len(passed) : (passed \o u)[i] = passed[i]
    BY <1>1, <2>2
  <2> QED BY <2>3 DEF After, u
<1> HIDE DEF q
<1>8. ASSUME NEW h \in held' PROVE TrueReason(h, q)
  <2>1. CASE h \in held
    BY <1>1, <1>7, <2>1, ReasonsLast DEF IntakeOK
  <2>2. CASE h \notin held
    <3>1. PICK i \in DOMAIN r.suppressed :
              h = [pass |-> At(r.suppressed[i].alert, now), reason |-> r.suppressed[i].reason]
      BY <1>5, <2>2
    <3>2. i \in 1 .. Len(r.suppressed) BY <1>6
    <3> QED BY <1>6, <3>1, <3>2
  <2> QED BY <2>1, <2>2
<1>9. gate' # None BY <1>3, <1>6, GateAssumption DEF Consistent, Gates
<1>10. GateOK(gate', passed', now') BY <1>3, <1>4, <1>6, <1>9 DEF GateOK
<1>11. alerts' \in [Workers -> Seq(Fired)] BY <1>3, <1>6 DEF IntakeOK
<1>12. IntakeOK'
  BY <1>1, <1>3, <1>4, <1>6, <1>7, <1>8, <1>10, <1>11 DEF IntakeOK
<1> QED BY <1>2, <1>3, <1>4, <1>6, <1>9, <1>12 DEF r

(* IntakeOK is an invariant: the batches are alerts of the rules, the gate *)
(* remembers what it let through, and every reason it gave is true.        *)
THEOREM IntakeInvariant == Spec => []IntakeOK
<1>1. Init => IntakeOK
  <2> SUFFICES ASSUME Init PROVE IntakeOK OBVIOUS
  <2>1. alerts \in [Workers -> Seq(Fired)] /\ passed \in Seq(Passages) /\ Len(passed) = 0
    BY DEF Init
  <2> QED BY <2>1 DEF Init, IntakeOK, GateOK, Quiet
<1>2. IntakeOK /\ [Next]_vars => IntakeOK'
  <2> SUFFICES ASSUME IntakeOK, [Next]_vars PROVE IntakeOK' OBVIOUS
  <2>1. CASE Tick
    <3>1. now' = now + 1 /\ UNCHANGED <<gate, alerts, passed, held>> BY <2>1 DEF Tick
    <3>2. GateOK(gate, passed, now + 1) BY TimePasses DEF IntakeOK
    <3>3. GateOK(gate', passed', now') BY <3>1, <3>2
    <3> QED BY <3>1, <3>3 DEF IntakeOK
  <2>2. CASE HandleReset
    <3>1. /\ gate' = None /\ passed' = <<>> /\ held' = {} /\ UNCHANGED <<now, alerts>>
      BY <2>2 DEF HandleReset
    <3>2. passed' \in Seq(Passages) /\ Len(passed') = 0 BY <3>1
    <3> QED BY <3>1, <3>2 DEF IntakeOK, GateOK, Quiet
  <2>3. CASE UNCHANGED <<now, gate, alerts, passed, held>>
    BY <2>3 DEF IntakeOK
  <2>4. ASSUME NEW w \in Workers, NEW b \in Seq(Fired), alerts' = [alerts EXCEPT ![w] = b],
               UNCHANGED <<now, gate, passed, held>>
        PROVE  IntakeOK'
    <3>1. alerts' \in [Workers -> Seq(Fired)] BY <2>4 DEF IntakeOK
    <3> QED BY <2>4, <3>1 DEF IntakeOK
  <2>5. ASSUME NEW w \in Workers, NEW t \in Tenants, Check(w, t) PROVE IntakeOK'
    BY <2>3, <2>5 DEF Check
  <2>6. ASSUME NEW w \in Workers, NEW score \in Scores, Audit(w, score) PROVE IntakeOK'
    BY <2>4, <2>6, BatchIsFired DEF Audit
  <2>7. ASSUME NEW w \in Workers, Abandon(w) \/ Dispatch(w) PROVE IntakeOK'
    <3>1. <<>> \in Seq(Fired) OBVIOUS
    <3> QED BY <2>4, <2>7, <3>1 DEF Abandon, Dispatch
  <2>8. ASSUME NEW w \in Workers, HandleGate(w) PROVE IntakeOK'
    BY <2>8, GateStep
  <2>9. CASE UNCHANGED vars BY <2>3, <2>9 DEF vars
  <2> QED BY <2>1, <2>2, <2>5, <2>6, <2>7, <2>8, <2>9 DEF Next
<1> QED BY <1>1, <1>2, PTL DEF Spec

(* QuietAfterPassing: whatever batches arrive, in whatever order, a rule   *)
(* that notified stays quiet for the window of its next alert.             *)
THEOREM QuietAfterPassingThm == Spec => []QuietAfterPassing
<1>1. IntakeOK => QuietAfterPassing
  BY DEF IntakeOK, Quiet, QuietAfterPassing
<1> QED BY <1>1, IntakeInvariant, PTL

(* ReasonsAreTrue: nothing is held back without a passage of the rule in   *)
(* its window, or a quota that is used up.                                 *)
THEOREM ReasonsAreTrueThm == Spec => []ReasonsAreTrue
<1>1. IntakeOK => ReasonsAreTrue
  <2> SUFFICES ASSUME IntakeOK, NEW h \in held
               PROVE  \/ /\ h.reason = "dedupe"
                         /\ \E i \in Within(h.pass, h.pass.window) : passed[i].rule = h.pass.rule
                      \/ /\ h.reason = "rate-limit" /\ MaxPerWindow > 0
                         /\ \E i, j \in Within(h.pass, RateMs) : j - i >= MaxPerWindow - 1
    BY DEF ReasonsAreTrue
  <2>1. TrueReason(h, passed) /\ DOMAIN passed = 1 .. Len(passed) BY DEF IntakeOK
  <2>2. Repeats(h.pass, passed) => \E i \in Within(h.pass, h.pass.window) : passed[i].rule = h.pass.rule
    BY <2>1 DEF Repeats, Within
  <2>3. Exceeds(h.pass, passed) => \E i, j \in Within(h.pass, RateMs) : j - i >= MaxPerWindow - 1
    BY <2>1 DEF Exceeds, Within
  <2> QED BY <2>1, <2>2, <2>3 DEF TrueReason, Exceeds
<1> QED BY <1>1, IntakeInvariant, PTL

(* GateWindow: where there is a cap the gate keeps the promise of fixed    *)
(* windows, whatever the batches; a reset alone starts afresh.             *)
THEOREM GateKeepsWindow ==
    ASSUME MaxPerWindow > 0
    PROVE  Spec => GateWindow
<1> DEFINE start == [k \in GateKeys |-> IF gate = None THEN -RateMs ELSE gate.window_start]
           used  == [k \in GateKeys |-> IF gate = None THEN 0 ELSE gate.window_count]
<1>1. Init => GatePromise!Init
  BY DEF Init, GatePromise!Init, GatePromise!Over, GateKeys
<1>2. IntakeOK /\ [Next]_vars => [GatePromise!Next \/ HandleReset]_<<now, gate>>
  <2> SUFFICES ASSUME IntakeOK, [Next]_vars PROVE [GatePromise!Next \/ HandleReset]_<<now, gate>>
    OBVIOUS
  <2>1. CASE Tick
    <3>1. now' > now /\ UNCHANGED <<start, used>> BY <2>1 DEF Tick, IntakeOK
    <3> QED BY <3>1 DEF GatePromise!Next, GatePromise!Pass
  <2>2. CASE HandleReset BY <2>2
  <2>3. ASSUME NEW w \in Workers, HandleGate(w) PROVE GatePromise!Next \/ UNCHANGED <<now, gate>>
    <3> DEFINE o == Start(gate, now).state
    <3>1. /\ IntakeOK' /\ Consistent(gate', passed', now) /\ gate' # None
          /\ Midway(GateAlerts(alerts[w], gate, now), o, passed, now)
          /\ gate' = GateAlerts(alerts[w], gate, now).state
      BY <2>3, GateStep
    <3>2. gate'.window_start = o.window_start /\ (gate' = o \/ gate'.window_count > o.window_count)
      BY <3>1 DEF Midway
    <3>3. gate' \in Gates /\ gate'.window_count \in Nat /\ gate'.window_count <= MaxPerWindow
      BY <3>1 DEF Consistent, Counting, Gates
    <3>4. /\ o.window_count \in Nat
          /\ \/ gate # None /\ o = gate
             \/ /\ o.window_start = now /\ o.window_count = 0
                /\ gate # None => now - gate.window_start >= RateMs
      BY StartIsSound DEF IntakeOK
    <3>5. now' = now BY <2>3 DEF HandleGate
    <3> DEFINE c == gate'.window_count
    <3>6. c \in 0 .. MaxPerWindow /\ used' = [used EXCEPT !["gate"] = c]
      BY <3>1, <3>3 DEF GateKeys
    <3>7. start' = [start EXCEPT !["gate"] = o.window_start]
      BY <3>1, <3>2 DEF GateKeys
    <3>8. CASE gate # None /\ o = gate
      <4>1. start["gate"] = gate.window_start /\ used["gate"] = gate.window_count
            /\ used["gate"] \in Nat /\ (gate' = gate \/ c > used["gate"])
        BY <3>2, <3>4, <3>8 DEF GateKeys
      <4>2. start' = start BY <3>7, <3>8, <4>1 DEF GateKeys
      <4>3. CASE gate' = gate BY <3>5, <4>3
      <4>4. CASE gate' # gate
        <5>1. c \in used["gate"] + 1 .. MaxPerWindow BY <3>6, <4>1, <4>4
        <5>2. GatePromise!Grant("gate") BY <3>5, <3>6, <4>2, <5>1 DEF GatePromise!Grant
        <5> QED BY <5>2 DEF GatePromise!Next, GateKeys
      <4> QED BY <4>3, <4>4
    <3>9. CASE ~(gate # None /\ o = gate)
      <4>1. o.window_start = now /\ now - start["gate"] >= RateMs
        BY <3>4, <3>9 DEF GateKeys, IntakeOK
      <4>2. GatePromise!Open("gate")
        BY <3>5, <3>6, <3>7, <4>1 DEF GatePromise!Open, GatePromise!Over
      <4> QED BY <4>2 DEF GatePromise!Next, GateKeys
    <3> QED BY <3>8, <3>9
  <2>4. ASSUME NEW w \in Workers,
               \/ \E t \in Tenants : Check(w, t)
               \/ \E score \in Scores : Audit(w, score)
               \/ Abandon(w) \/ Dispatch(w)
        PROVE  UNCHANGED <<now, gate>>
    BY <2>4 DEF Check, Audit, Abandon, Dispatch
  <2>5. CASE UNCHANGED vars BY <2>5 DEF vars
  <2> QED BY <2>1, <2>2, <2>3, <2>4, <2>5 DEF Next
<1> QED BY <1>1, <1>2, IntakeInvariant, PTL DEF Spec, GateWindow
=============================================================================
