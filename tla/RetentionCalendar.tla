------------------------- MODULE RetentionCalendar -------------------------
(***************************************************************************)
(* The two clocks of retention.  An upload stores the date it is to be     *)
(* kept until, six calendar months on; the sweep counts whole days against *)
(* the retention policy.  Time is counted in half days from the start of a *)
(* year that is no leap year, nor is the next.  What a prune deletes, and  *)
(* what fails on the way, is AuditPipeline's.                              *)
(***************************************************************************)
EXTENDS Integers, Sequences

CONSTANTS
    None,              \* a field left out, or no number
    RetentionDays, ArchiveAfterDays, PruneExpired,   \* RETENTION_POLICY
    Uploads,           \* the half days an upload may come at
    MaxTime            \* bound on the clock

VARIABLES
    now,
    created,     \* created_at of the run
    status       \* of its row; "gone" when it is pruned

vars == <<now, created, status>>

-----------------------------------------------------------------------------
(* retentionDate(): the same day six months on, and the days a short month *)
(* lacks further on, since setMonth lets them run over.                    *)
MonthDays == <<31, 28, 31, 30, 31, 30, 31, 31, 30, 31, 30, 31>>

FirstOfMonth[m \in 0 .. 24] ==
    IF m = 0 THEN 0 ELSE FirstOfMonth[m - 1] + MonthDays[((m - 1) % 12) + 1]

MonthOf(day) == CHOOSE m \in 0 .. 23 : FirstOfMonth[m] <= day /\ day < FirstOfMonth[m + 1]

RetainUntil(time) ==
    LET day == time \div 2
        m == MonthOf(day)
    IN  FirstOfMonth[m + 6] + (day - FirstOfMonth[m])

-----------------------------------------------------------------------------
(* resolvePolicy(), ageDays() and classify().                              *)
MIN_RETENTION_DAYS == 180

Greatest(a, b) == IF a >= b THEN a ELSE b
Least(a, b) == IF a <= b THEN a ELSE b

Retention ==
    IF RetentionDays = None THEN MIN_RETENTION_DAYS ELSE Greatest(MIN_RETENTION_DAYS, RetentionDays)

ArchiveAfter ==
    IF ArchiveAfterDays = None THEN Retention \div 2
    ELSE Least(Retention, Greatest(0, ArchiveAfterDays))

AgeDays == Greatest(0, (now - created) \div 2)

Action ==
    IF AgeDays >= Retention THEN IF PruneExpired THEN "prune" ELSE "archive"
    ELSE IF AgeDays >= ArchiveAfter THEN "archive" ELSE "keep"

-----------------------------------------------------------------------------
Init == created \in Uploads /\ now = created /\ status = "completed"

Tick == now < MaxTime /\ now' = now + 1 /\ UNCHANGED <<created, status>>

(* The SELECT of the sweep: created_at < now - archive_after_days.         *)
Selected == status # "gone" /\ created < now - 2 * ArchiveAfter

ApplyRetention ==
    /\ Selected
    /\ status' = CASE Action = "prune" -> "gone"
                   [] Action = "archive" -> "archived"
                   [] Action = "keep" -> status
    /\ UNCHANGED <<now, created>>

Next == Tick \/ ApplyRetention

Spec == Init /\ [][Next]_vars

-----------------------------------------------------------------------------
(* The trace of a run is kept until the date its upload noted, the         *)
(* "6-month default, EU AI Act Art. 26(6)" of retentionDate (index.ts:1087).*)
RetainedUntil == status = "gone" => now \div 2 >= RetainUntil(created)
=============================================================================
