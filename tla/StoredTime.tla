----------------------------- MODULE StoredTime -----------------------------
(***************************************************************************)
(* Times the Steward queue compares as text in SQL: steward_schedule.go,   *)
(* formatTime and parseTime of store.go, and the comparisons of            *)
(* claimStewardJob.  Scheduler fields use a fixed-width fraction;          *)
(* created_at uses RFC3339Nano, which trims trailing zeros.  Rows of the   *)
(* first schema have scheduler fields in the trimmed form too, until the   *)
(* migration rewrites them.                                                *)
(***************************************************************************)
EXTENDS Integers, Sequences

CONSTANTS
    ScheduledJobs,
    LegacyJobs,     \* jobs queued under the first schema
    Base,           \* 10 in the code
    Width,          \* digits of the fraction of a second, 9 in the code
    Seconds,        \* bound: seconds the clock runs for
    Delays          \* lease durations and retry delays, in clock units

ASSUME StoredTimeAssumption ==
    /\ LegacyJobs \subseteq ScheduledJobs
    /\ Base \in 2..10 /\ Width \in Nat \ {0} /\ Seconds \in Nat \ {0}
    /\ Delays \subseteq Nat

VARIABLES
    clock,       \* s.now(), as a count of the smallest units
    migrated,    \* schema2 is in place
    row,         \* steward_jobs, times as stored text
    instant,     \* history: the instants that text was written for
    leased       \* history: the job the last claim leased, and the due ones

scheduleVars == <<clock, migrated, row, instant, leased>>

Power[k \in 0..Width] == IF k = 0 THEN 1 ELSE Base * Power[k - 1]
Unit == Power[Width]
Instants == 0..(Seconds * Unit - 1)

-----------------------------------------------------------------------------
(* Text: the whole second, which is fixed-width, as one character; then     *)
(* the bytes of the fraction.                                               *)
Dot == 46
Zero == 48
Zed == 90

Fraction(t) == [i \in 1..Width |-> ((t % Unit) \div Power[Width - i]) % Base]
Characters(digits, n) == [i \in 1..n |-> Zero + digits[i]]

(* formatScheduleTime *)
ScheduleText(t) == <<t \div Unit, Dot>> \o Characters(Fraction(t), Width) \o <<Zed>>

(* Digits before the trailing zeros. *)
Significant(digits) ==
    CHOOSE n \in 0..Width :
        /\ \A i \in (n + 1)..Width : digits[i] = 0
        /\ n = 0 \/ digits[n] # 0

(* formatTime *)
NanoText(t) ==
    LET digits == Fraction(t)
        n == Significant(digits)
    IN  IF n = 0 THEN <<t \div Unit, Zed>>
        ELSE <<t \div Unit, Dot>> \o Characters(digits, n) \o <<Zed>>

(* parseTime, of either form: n digits, none where there is no point *)
ParseTime(text) ==
    LET n == IF text[2] = Dot THEN Len(text) - 3 ELSE 0
        value[i \in 0..n] == IF i = 0 THEN 0 ELSE value[i - 1] * Base + (text[i + 2] - Zero)
    IN  text[1] * Unit + value[n] * Power[Width - n]

(* SQLite's <= and ORDER BY on text compare bytes from the left. *)
Before(a, b) ==
    \/ Len(a) < Len(b) /\ \A i \in 1..Len(a) : a[i] = b[i]
    \/ \E n \in 1..Len(a) : /\ n <= Len(b) /\ a[n] < b[n]
                            /\ \A i \in 1..(n - 1) : a[i] = b[i]
AtMost(a, b) == a = b \/ Before(a, b)

-----------------------------------------------------------------------------
Row(state, created, available, expires) ==
    [state |-> state, created |-> created, available |-> available, expires |-> expires]
NULL == <<>>
Absent == Row("absent", NULL, NULL, NULL)
Times(created, available, expires) ==
    [created |-> created, available |-> available, expires |-> expires]
Never == Times(0, 0, 0)

(* A first-schema row is pending, perhaps for a retry to come, or leased,   *)
(* and then it has been available.                                          *)
LegacyTimes(c, a, e, s) ==
    /\ c <= a /\ c <= clock
    /\ s = "leased" => a <= clock /\ a < e
    /\ s = "pending" => e = 0

ScheduleInit ==
    /\ clock = Unit - 1
    /\ migrated = FALSE
    /\ \E c, a, e \in [LegacyJobs -> Instants], s \in [LegacyJobs -> {"pending", "leased"}] :
          /\ \A j \in LegacyJobs : LegacyTimes(c[j], a[j], e[j], s[j])
          /\ instant = [j \in ScheduledJobs |-> IF j \in LegacyJobs THEN Times(c[j], a[j], e[j])
                                       ELSE Never]
          /\ row = [j \in ScheduledJobs |->
                IF j \in LegacyJobs
                THEN Row(s[j], NanoText(c[j]), NanoText(a[j]),
                         IF s[j] = "leased" THEN NanoText(e[j]) ELSE NULL)
                ELSE Absent]
    /\ leased = [job |-> {}, due |-> {}]

(* Mutant: the migration leaves the text as it is. *)
NormalizeNothing(text) == text

(* normalizeStewardSchedule, for one field *)
NormalizeStewardSchedule(text) == IF text = NULL THEN NULL ELSE ScheduleText(ParseTime(text))

(* The schema2 migration, before anything is served: leases have no read    *)
(* set and return to the queue, then the schedule is normalized.            *)
MigrateFactsSchema ==
    /\ ~migrated
    /\ migrated' = TRUE
    /\ row' = [j \in ScheduledJobs |->
                  IF row[j].state = "absent" THEN Absent
                  ELSE Row("pending", row[j].created,
                           NormalizeStewardSchedule(row[j].available), NULL)]
    /\ UNCHANGED <<clock, instant, leased>>

Tick(t) ==
    /\ clock < t
    /\ clock' = t
    /\ UNCHANGED <<migrated, row, instant, leased>>

(* enqueueStewardJob *)
Enqueue(j) ==
    /\ migrated /\ row[j].state = "absent"
    /\ row' = [row EXCEPT ![j] = Row("pending", NanoText(clock), ScheduleText(clock), NULL)]
    /\ instant' = [instant EXCEPT ![j] = Times(clock, clock, 0)]
    /\ UNCHANGED <<clock, migrated, leased>>

(* lease_expires_at <= now: the claim first returns the job to the queue. *)
Expired(j) == row[j].state = "leased" /\ AtMost(row[j].expires, ScheduleText(clock))

(* available_at <= now, after that. *)
Due(j) == row[j].state = "pending" /\ AtMost(row[j].available, ScheduleText(clock))
Ready == {j \in ScheduledJobs : Due(j) \/ Expired(j)}

(* ORDER BY created_at, job_id LIMIT 1; equal times leave any choice. *)
FirstReady(j) == j \in Ready /\ \A k \in Ready : AtMost(row[j].created, row[k].created)

ClaimStewardJob(j, d) ==
    /\ migrated /\ FirstReady(j) /\ clock + d \in Instants
    /\ LET reclaimed == [k \in ScheduledJobs |->
              IF Expired(k) THEN Row("pending", row[k].created, ScheduleText(clock), NULL)
              ELSE row[k]]
           due == [k \in ScheduledJobs |-> IF Expired(k) THEN clock ELSE instant[k].available]
       IN  /\ row' = [reclaimed EXCEPT ![j] = Row("leased", row[j].created,
                                    reclaimed[j].available, ScheduleText(clock + d))]
           /\ instant' = [k \in ScheduledJobs |-> Times(instant[k].created, due[k],
                                    IF k = j THEN clock + d ELSE instant[k].expires)]
    /\ leased' = [job |-> {j}, due |-> Ready]
    /\ UNCHANGED <<clock, migrated>>

(* The lease test of FailStewardJob and ApplyStewardProposal parses the text. *)
Holds(j) == row[j].state = "leased" /\ ParseTime(row[j].expires) > clock

(* Another try after a delay. *)
FailStewardJob(j, d) ==
    /\ migrated /\ Holds(j) /\ clock + d \in Instants
    /\ row' = [row EXCEPT ![j] = Row("pending", row[j].created, ScheduleText(clock + d), NULL)]
    /\ instant' = [instant EXCEPT ![j] = Times(instant[j].created, clock + d, 0)]
    /\ UNCHANGED <<clock, migrated, leased>>

ScheduleNext ==
    \/ MigrateFactsSchema
    \/ \E t \in Instants : Tick(t)
    \/ \E j \in ScheduledJobs : Enqueue(j)
    \/ \E j \in ScheduledJobs, d \in Delays : ClaimStewardJob(j, d) \/ FailStewardJob(j, d)

ScheduleSpec == ScheduleInit /\ [][ScheduleNext]_scheduleVars

-----------------------------------------------------------------------------
(* Text decides as time does: a job is taken for due, and a lease for       *)
(* expired, exactly when its instant has come, whichever schema wrote it.   *)
(* So the claim, which compares text, never gives away a lease that its     *)
(* holder, whose expiry is parsed, may still use, nor keeps one from the    *)
(* queue that its holder has lost.                                          *)
ScheduleIsExact ==
    migrated => \A j \in ScheduledJobs :
        /\ row[j].state = "pending" => (Due(j) <=> instant[j].available <= clock)
        /\ row[j].state = "leased" => /\ Expired(j) <=> instant[j].expires <= clock
                                      /\ Holds(j) <=> ~Expired(j)

(* ClaimStewardJob "leases the oldest available Job" (steward_jobs.go:39).  *)
OldestFirst ==
    \A j \in leased.job : \A k \in leased.due : instant[j].created <= instant[k].created
=============================================================================
