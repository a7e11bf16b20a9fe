------------------------------ MODULE TimedRows ------------------------------
(***************************************************************************)
(* The SQL predicates on time, below the second.  VoyageOps counts in      *)
(* whole seconds, on which text order is time order (TextTimeProofs); this *)
(* module keeps the fraction and follows the three rules that mix times    *)
(* compared in Go with times compared as text: a port's daily limit, the   *)
(* expiry of a landing task and the reuse of an idempotency key.           *)
(***************************************************************************)
EXTENDS TextTime, FiniteSets

CONSTANTS
  Slots,      \* voyages of one port
  None,       \* SQL NULL
  DailyLimit, \* of the port
  DaySeconds, \* seconds in a day
  Cutoff,     \* second of the calendar day at which the port's operating day starts
  TaskTTL, IdemTTL, \* in seconds
  MaxSecond   \* bound on the clock and on departure windows

ASSUME TimedAssumption ==
  /\ IsFiniteSet(Slots)
  /\ DailyLimit \in Nat \ {0} /\ DaySeconds \in Nat \ {0} /\ Cutoff \in 0 .. DaySeconds - 1
  /\ TaskTTL \in Nat \ {0} /\ IdemTTL \in Nat \ {0} /\ MaxSecond \in Nat

VARIABLES
  now,   \* the clock
  start, \* departure_window_opens_at of the uncancelled voyages
  task,  \* one landing task
  idem,  \* one idempotency record
  asked  \* history: when a request under its key was last carried out

rowVars == <<now, start, task, idem, asked>>

\* The first calendar day is left out: its times before the cutoff belong to a day that
\* starts before time does.
BoundedTimes == [second : DaySeconds .. MaxSecond, tenth : Digit, hundredth : Digit]

\* OperatingDayWindow: operating day n is n calendar days from the first cutoff.
DayStart(n) == [second |-> n * DaySeconds + Cutoff, tenth |-> 0, hundredth |-> 0]

\* Mutant: the cutoff itself is taken for the day before.
DayOfLate(t) ==
  IF t.second % DaySeconds <= Cutoff THEN t.second \div DaySeconds - 1
                                     ELSE t.second \div DaySeconds

\* OperatingDayWindow: a time of the calendar day before the cutoff belongs to the
\* operating day before.
DayOf(t) ==
  IF t.second % DaySeconds < Cutoff THEN t.second \div DaySeconds - 1
                                    ELSE t.second \div DaySeconds

NoTask == [status |-> "absent", expires |-> None, resolved |-> None]

Init ==
  /\ now \in {t \in BoundedTimes : t.second = DaySeconds}
  /\ start = [d \in Slots |-> None]
  /\ task = NoTask
  /\ idem = None
  /\ asked = None

\* departure_window_opens_at >= start AND departure_window_opens_at < end, as text.
InWindow(t, day) == TextNotAfter(DayStart(day), t) /\ TextBefore(t, DayStart(day + 1))

\* CountPortFacilityFishingVoyagesForWindow.
CountWindow(day) == Cardinality({d \in Slots : start[d] # None /\ InWindow(start[d], day)})

\* PlanFishingVoyage, reduced to its daily limit.
Plan(d, t) ==
  /\ start[d] = None
  /\ CountWindow(DayOf(t)) < DailyLimit
  /\ start' = [start EXCEPT ![d] = t]
  /\ UNCHANGED <<now, task, idem, asked>>

Cancel(d) ==
  /\ start[d] # None
  /\ start' = [start EXCEPT ![d] = None]
  /\ UNCHANGED <<now, task, idem, asked>>

CreateTask ==
  /\ task.status = "absent"
  /\ task' = [status |-> "pending", expires |-> AddSeconds(now, TaskTTL), resolved |-> None]
  /\ UNCHANGED <<now, start, idem, asked>>

\* CatchLandingTask.Resolve compares in Go.
ResolveTask ==
  /\ task.status = "pending" /\ NotAfter(now, task.expires)
  /\ task' = [task EXCEPT !.status = "approved", !.resolved = now]
  /\ UNCHANGED <<now, start, idem, asked>>

\* Mutant: the comparison is reversed.
IsOverdueReversed == TextBefore(now, task.expires)

\* ExpireCatchLandingTasks compares as text, and Resolve(expired) does not look again.
IsOverdue == TextBefore(task.expires, now)

ExpireTask ==
  /\ task.status = "pending" /\ IsOverdue
  /\ task' = [task EXCEPT !.status = "expired", !.resolved = now]
  /\ UNCHANGED <<now, start, idem, asked>>

\* Mutant: the upsert never replaces a record.
MayReplaceNever == FALSE

\* PutIdempotency's WHERE: expires_at <= created_at, as text.
MayReplace == TextNotAfter(idem.expires, now)

\* A plan under the key is carried out unless the record is still live in Go's order; the
\* upsert then stores the new response or, without an error, keeps the old one.
UseKey ==
  /\ idem # None => NotAfter(idem.expires, now)
  /\ asked' = now
  /\ idem' = IF idem = None \/ MayReplace
             THEN [created |-> now, expires |-> AddSeconds(now, IdemTTL)] ELSE idem
  /\ UNCHANGED <<now, start, task>>

Advance ==
  /\ \E t \in BoundedTimes : Before(now, t) /\ now' = t
  /\ UNCHANGED <<start, task, idem, asked>>

Next ==
  \/ \E d \in Slots : Cancel(d) \/ \E t \in BoundedTimes : Plan(d, t)
  \/ CreateTask \/ ResolveTask \/ ExpireTask
  \/ UseKey
  \/ Advance

Spec == Init /\ [][Next]_rowVars

-----------------------------------------------------------------------------
(* Properties.                                                             *)

\* The departures of a day that Go's clock puts there.
Departures(day) == {d \in Slots : start[d] # None /\ DayOf(start[d]) = day}

\* Within the first second of the operating day, but not on it: the text window misses these.
InFirstSecond(t) == t.second % DaySeconds = Cutoff /\ ~IsWhole(t)

\* Outside the first second of an operating day the limit holds, whatever fractions the
\* requests carry (CountPortFacilityFishingVoyagesForWindow).
LimitAfterFirstSecond ==
  \A day \in 0 .. MaxSecond \div DaySeconds :
    Cardinality({d \in Departures(day) : ~InFirstSecond(start[d])}) <= DailyLimit

\* The worker expires a task at the earliest in the second in which it expires.
ExpiredWithinSecond ==
  task.status = "expired" => task.resolved.second >= task.expires.second

\* A retry under the key finds the latest response, unless the record before it expired
\* in the very second of the request.
RetryFindsLatest ==
  asked # None => \/ idem.created = asked
                  \/ idem.expires.second = asked.second

=============================================================================
