--------------------------- MODULE TextTimeProofs ---------------------------
(***************************************************************************)
(* When text order is time order, and what that leaves of the three rules  *)
(* that mix the two.                                                       *)
(***************************************************************************)
EXTENDS TimedRows, FiniteSetTheorems, TLAPS

\* A formatted time starts with its seconds and has at least one byte more.
LEMMA TextShape ==
  ASSUME NEW t \in Times
  PROVE  /\ formatTime(t) \in Seq(Nat)
         /\ Len(formatTime(t)) >= 2
         /\ formatTime(t)[1] = t.second
         /\ IsWhole(t) => formatTime(t) = <<t.second>> \o <<Zulu>>
<1>0. /\ t.second \in Nat /\ t.tenth \in Nat /\ t.hundredth \in Nat
      /\ Dot \in Nat /\ Zulu \in Nat
      /\ DigitByte(t.tenth) \in Nat /\ DigitByte(t.hundredth) \in Nat
  BY BaseAssumption DEF Times, Digit, Dot, Zulu, DigitByte
<1>1. CASE IsWhole(t)
  <2>1. formatTime(t) = <<t.second>> \o <<Zulu>>
    BY <1>1 DEF formatTime, IsWhole
  <2> QED BY <1>0, <2>1
<1>2. CASE ~IsWhole(t) /\ t.hundredth = 0
  <2>1. formatTime(t) = <<t.second>> \o <<Dot, DigitByte(t.tenth), Zulu>>
    BY <1>2 DEF formatTime
  <2> QED BY <1>0, <1>2, <2>1
<1>3. CASE t.hundredth # 0
  <2>1. formatTime(t) = <<t.second>> \o <<Dot, DigitByte(t.tenth), DigitByte(t.hundredth), Zulu>>
    BY <1>3 DEF formatTime, IsWhole
  <2> QED BY <1>0, <1>3, <2>1 DEF IsWhole
<1> QED BY <1>1, <1>2, <1>3

\* Times of different seconds compare as text the way they compare as times, whatever
\* their fractions: every SQL predicate on time is at most a second off.
THEOREM SecondsOrder ==
  ASSUME NEW s \in Times, NEW t \in Times, s.second < t.second
  PROVE  TextBefore(s, t) /\ ~TextBefore(t, s)
<1> DEFINE a == formatTime(s)
           b == formatTime(t)
<1>1. /\ a \in Seq(Nat) /\ Len(a) >= 2 /\ a[1] = s.second
      /\ b \in Seq(Nat) /\ Len(b) >= 2 /\ b[1] = t.second
  BY TextShape
<1>2. s.second \in Nat /\ t.second \in Nat
  BY DEF Times
<1> HIDE DEF a, b
<1>3. TextLess(a, b)
  <2>1. 1 \in (1 .. Len(a)) \cap (1 .. Len(b)) /\ 1 .. 1 - 1 = {}
    BY <1>1
  <2> QED BY <1>1, <2>1 DEF TextLess
<1>4. ~TextLess(b, a)
  <2> SUFFICES ASSUME NEW i \in (1 .. Len(b)) \cap (1 .. Len(a)),
                      b[i] < a[i], \A j \in 1 .. i - 1 : b[j] = a[j]
               PROVE  FALSE
    BY DEF TextLess
  <2>1. CASE i = 1
    BY <1>1, <1>2, <2>1
  <2>2. CASE i # 1
    <3>1. 1 \in 1 .. i - 1
      BY <1>1, <2>2
    <3> QED BY <1>1, <1>2, <3>1
  <2> QED BY <2>1, <2>2
<1> QED BY <1>3, <1>4 DEF TextBefore, a, b

\* On whole seconds text order is time order: the assumption under which VoyageOps
\* compares times as numbers.
THEOREM WholeSecondsOrder ==
  ASSUME NEW s \in Times, NEW t \in Times, IsWhole(s), IsWhole(t)
  PROVE  TextBefore(s, t) <=> Before(s, t)
<1>0. s.second \in Nat /\ t.second \in Nat
  BY DEF Times
<1>1. Before(s, t) <=> s.second < t.second
  BY <1>0 DEF Before, IsWhole
<1>2. CASE s.second < t.second
  BY <1>1, <1>2, SecondsOrder
<1>3. CASE t.second < s.second
  BY <1>0, <1>1, <1>3, SecondsOrder
<1>4. CASE s.second = t.second
  <2>0. /\ formatTime(s) = <<s.second>> \o <<Zulu>>
        /\ formatTime(t) = <<t.second>> \o <<Zulu>>
    BY TextShape
  <2>1. formatTime(s) = formatTime(t)
    BY <1>4, <2>0, Zenon
  <2>2. ASSUME NEW a \in Seq(Nat) PROVE ~TextLess(a, a)
    <3>1. \A i \in 1 .. Len(a) : a[i] \in Nat
      OBVIOUS
    <3> QED BY <3>1 DEF TextLess
  <2>3. ~TextLess(formatTime(s), formatTime(s))
    BY <2>2, TextShape
  <2> QED BY <1>0, <1>1, <1>4, <2>1, <2>3 DEF TextBefore
<1> QED BY <1>0, <1>2, <1>3, <1>4

-----------------------------------------------------------------------------

\* The clock and the task hold times.
TaskTyped ==
  /\ now \in Times
  /\ task.status # "absent" => task.expires \in Times
  /\ task.status = "expired" => task.resolved \in Times

LEMMA BoundedAreTimes == BoundedTimes \subseteq Times
BY TimedAssumption DEF BoundedTimes, Times

LEMMA TaskTypedHolds == Spec => []TaskTyped
<1>1. Init => TaskTyped
  BY BoundedAreTimes DEF Init, TaskTyped, NoTask
<1>2. TaskTyped /\ [Next]_rowVars => TaskTyped'
  <2> SUFFICES ASSUME TaskTyped, [Next]_rowVars PROVE TaskTyped'
    OBVIOUS
  <2>1. ASSUME UNCHANGED <<now, task>> PROVE TaskTyped'
    BY <2>1 DEF TaskTyped
  <2>2. CASE CreateTask
    <3>1. AddSeconds(now, TaskTTL) \in Times
      BY TimedAssumption DEF TaskTyped, AddSeconds, Times
    <3> QED BY <2>2, <3>1 DEF CreateTask, TaskTyped
  <2>3. CASE ResolveTask
    BY <2>3 DEF ResolveTask, TaskTyped
  <2>4. CASE ExpireTask
    BY <2>4 DEF ExpireTask, TaskTyped
  <2>5. CASE Advance
    BY <2>5, BoundedAreTimes DEF Advance, TaskTyped
  <2>6. CASE (\E d \in Slots : Cancel(d) \/ \E t \in BoundedTimes : Plan(d, t)) \/ UseKey
    BY <2>1, <2>6 DEF Cancel, Plan, UseKey
  <2>7. CASE UNCHANGED rowVars
    BY <2>1, <2>7 DEF rowVars
  <2> QED BY <2>2, <2>3, <2>4, <2>5, <2>6, <2>7 DEF Next
<1> QED BY <1>1, <1>2, PTL DEF Spec

\* The worker never expires a task before the second of its expiry, for every radix and
\* every lifetime.
THEOREM ExpiryWithinSecond == Spec => []ExpiredWithinSecond
<1>1. Init => ExpiredWithinSecond
  BY DEF Init, ExpiredWithinSecond, NoTask
<1>2. TaskTyped /\ ExpiredWithinSecond /\ [Next]_rowVars => ExpiredWithinSecond'
  <2> SUFFICES ASSUME TaskTyped, ExpiredWithinSecond, [Next]_rowVars
               PROVE  ExpiredWithinSecond'
    OBVIOUS
  <2>1. ASSUME UNCHANGED task PROVE ExpiredWithinSecond'
    BY <2>1 DEF ExpiredWithinSecond
  <2>2. CASE CreateTask
    BY <2>2 DEF CreateTask, ExpiredWithinSecond
  <2>3. CASE ResolveTask
    BY <2>3 DEF ResolveTask, ExpiredWithinSecond
  <2>4. CASE ExpireTask
    <3>1. task.expires \in Times /\ now \in Times /\ TextBefore(task.expires, now)
      BY <2>4 DEF ExpireTask, TaskTyped, IsOverdue
    <3>2. ~(now.second < task.expires.second)
      BY <3>1, SecondsOrder
    <3>3. now.second >= task.expires.second
      BY <3>1, <3>2 DEF Times
    <3> QED BY <2>4, <3>3 DEF ExpireTask, ExpiredWithinSecond
  <2>5. CASE (\E d \in Slots : Cancel(d) \/ \E t \in BoundedTimes : Plan(d, t)) \/ UseKey \/ Advance
    BY <2>1, <2>5 DEF Cancel, Plan, UseKey, Advance
  <2>6. CASE UNCHANGED rowVars
    BY <2>1, <2>6 DEF rowVars
  <2> QED BY <2>2, <2>3, <2>4, <2>5, <2>6 DEF Next
<1> QED BY <1>1, <1>2, TaskTypedHolds, PTL DEF Spec

-----------------------------------------------------------------------------

\* The idempotency record holds times.
IdemTyped ==
  /\ now \in Times
  /\ idem = None \/ idem \in [created : Times, expires : Times]

\* The upsert keeps an old record, without an error, only when that record expired in the
\* second of the request (PutIdempotency against the live check of PlanFishingVoyage).
THEOREM LatestIsFound == Spec => []RetryFindsLatest
<1> DEFINE Inv == IdemTyped /\ RetryFindsLatest
<1>1. Init => Inv
  BY BoundedAreTimes DEF Init, IdemTyped, RetryFindsLatest
<1>2. Inv /\ [Next]_rowVars => Inv'
  <2> SUFFICES ASSUME IdemTyped, RetryFindsLatest, [Next]_rowVars PROVE Inv'
    OBVIOUS
  <2>1. ASSUME UNCHANGED <<idem, asked>>, now' \in Times PROVE Inv'
    BY <2>1 DEF IdemTyped, RetryFindsLatest
  <2>2. CASE UseKey
    <3>0. now \in Times /\ now' = now /\ asked' = now
      BY <2>2 DEF UseKey, IdemTyped
    <3>1. CASE idem = None \/ MayReplace
      <4> DEFINE r == [created |-> now, expires |-> AddSeconds(now, IdemTTL)]
      <4>1. AddSeconds(now, IdemTTL) \in Times
        BY <3>0, TimedAssumption DEF AddSeconds, Times
      <4>2. idem' = r /\ r \in [created : Times, expires : Times] /\ r.created = now
        BY <2>2, <3>0, <3>1, <4>1 DEF UseKey
      <4> HIDE DEF r
      <4> QED BY <3>0, <4>2 DEF IdemTyped, RetryFindsLatest
    <3>2. CASE ~(idem = None \/ MayReplace)
      <4>1. /\ idem' = idem /\ idem.expires \in Times
            /\ TextBefore(now, idem.expires) /\ ~Before(now, idem.expires)
        BY <2>2, <3>2 DEF UseKey, MayReplace, TextNotAfter, NotAfter, IdemTyped
      <4>2. ~(idem.expires.second < now.second)
        BY <3>0, <4>1, SecondsOrder
      <4>3. idem.expires.second = now.second
        BY <3>0, <4>1, <4>2 DEF Before, Times
      <4> QED BY <3>0, <3>2, <4>1, <4>3 DEF IdemTyped, RetryFindsLatest
    <3> QED BY <3>1, <3>2
  <2>3. CASE Advance
    BY <2>1, <2>3, BoundedAreTimes DEF Advance
  <2>4. CASE \/ \E d \in Slots : Cancel(d) \/ \E t \in BoundedTimes : Plan(d, t)
             \/ CreateTask \/ ResolveTask \/ ExpireTask
    BY <2>1, <2>4 DEF Cancel, Plan, CreateTask, ResolveTask, ExpireTask, IdemTyped
  <2>5. CASE UNCHANGED rowVars
    BY <2>1, <2>5 DEF rowVars, IdemTyped
  <2> QED BY <2>2, <2>3, <2>4, <2>5 DEF Next
<1>3. Inv => RetryFindsLatest
  OBVIOUS
<1> QED BY <1>1, <1>2, <1>3, PTL DEF Spec

-----------------------------------------------------------------------------

\* The calendar day of a second, and the second's place in it.
LEMMA DayAndRest ==
  ASSUME NEW n \in Nat
  PROVE  /\ n \div DaySeconds \in Nat /\ n % DaySeconds \in 0 .. DaySeconds - 1
         /\ n % DaySeconds = n - (n \div DaySeconds) * DaySeconds
         /\ n >= DaySeconds => n \div DaySeconds >= 1
<1>1. DaySeconds \in Nat /\ DaySeconds > 0
  BY TimedAssumption
<1>2. /\ n \div DaySeconds \in Nat /\ n % DaySeconds \in 0 .. DaySeconds - 1
      /\ n >= DaySeconds => n \div DaySeconds >= 1
  BY <1>1
<1>3. n % DaySeconds = n - (n \div DaySeconds) * DaySeconds
  BY <1>1
<1>. QED  BY <1>2, <1>3

\* A time after the first calendar day lies between the start of its operating day and the
\* start of the next.
LEMMA DaySpan ==
  ASSUME NEW t, t.second \in Nat, t.second >= DaySeconds
  PROVE  /\ DayOf(t) \in Nat
         /\ DayOf(t) * DaySeconds + Cutoff <= t.second
         /\ t.second < (DayOf(t) + 1) * DaySeconds + Cutoff
         /\ t.second = DayOf(t) * DaySeconds + Cutoff => t.second % DaySeconds = Cutoff
<1>. DEFINE n == t.second
            d == n \div DaySeconds
            r == n % DaySeconds
<1>1. /\ n \in Nat /\ d \in Nat /\ d >= 1 /\ r \in 0 .. DaySeconds - 1
      /\ r = n - d * DaySeconds
      /\ DaySeconds \in Nat /\ Cutoff \in 0 .. DaySeconds - 1
      /\ DayOf(t) = IF r < Cutoff THEN d - 1 ELSE d
  BY DayAndRest, TimedAssumption DEF DayOf
<1>. HIDE DEF n, d, r
<1>2. /\ d * DaySeconds \in Nat
      /\ (d - 1) * DaySeconds = d * DaySeconds - DaySeconds
      /\ (d + 1) * DaySeconds = d * DaySeconds + DaySeconds
  BY <1>1
<1>3. PICK e \in Nat : e = d * DaySeconds
  BY <1>2
<1>4. CASE r < Cutoff
  <2>1. DayOf(t) = d - 1 /\ DayOf(t) + 1 = d /\ DayOf(t) \in Nat
    BY <1>1, <1>4
  <2>2. e - DaySeconds + Cutoff < n /\ n < e + Cutoff
    BY <1>1, <1>3, <1>4
  <2>3. DayOf(t) * DaySeconds = e - DaySeconds /\ (DayOf(t) + 1) * DaySeconds = e
    BY <1>2, <1>3, <2>1
  <2>. QED  BY <1>1, <2>1, <2>2, <2>3 DEF n
<1>5. CASE ~(r < Cutoff)
  <2>1. DayOf(t) = d
    BY <1>1, <1>5
  <2>2. e + Cutoff <= n /\ n < e + DaySeconds + Cutoff /\ (n = e + Cutoff => r = Cutoff)
    BY <1>1, <1>3, <1>5
  <2>3. DayOf(t) * DaySeconds = e /\ (DayOf(t) + 1) * DaySeconds = e + DaySeconds
    BY <1>2, <1>3, <2>1
  <2>. QED  BY <1>1, <2>1, <2>2, <2>3 DEF n, r
<1>. QED  BY <1>4, <1>5

\* A departure outside the day's first second is in the text window of its day.
LEMMA CountedAfterFirstSecond ==
  ASSUME NEW t \in BoundedTimes, ~InFirstSecond(t)
  PROVE  InWindow(t, DayOf(t))
<1> DEFINE day == DayOf(t)
<1>0. /\ t \in Times /\ t.second \in Nat /\ t.tenth \in Nat /\ t.hundredth \in Nat
      /\ day \in Nat /\ 0 \in Digit /\ t.second >= DaySeconds
  <2>1. t \in Times /\ t.second \in Nat /\ t.second >= DaySeconds /\ t.tenth \in Digit /\ t.hundredth \in Digit
    BY TimedAssumption DEF BoundedTimes, Times
  <2> QED BY <2>1, DaySpan, BaseAssumption DEF Digit
<1>1. day * DaySeconds + Cutoff <= t.second /\ t.second < (day + 1) * DaySeconds + Cutoff
  BY <1>0, DaySpan
<1>2. DayStart(day) \in Times /\ DayStart(day + 1) \in Times
      /\ DayStart(day).second = day * DaySeconds + Cutoff
      /\ DayStart(day + 1).second = (day + 1) * DaySeconds + Cutoff
  BY <1>0, BaseAssumption, TimedAssumption DEF DayStart, Times
<1>3. TextBefore(t, DayStart(day + 1))
  BY <1>0, <1>1, <1>2, SecondsOrder
<1>4. TextNotAfter(DayStart(day), t)
  <2>1. CASE DayStart(day).second < t.second
    BY <1>0, <1>2, <2>1, SecondsOrder DEF TextNotAfter
  <2>2. CASE DayStart(day).second = t.second
    <3>1. t.second % DaySeconds = Cutoff
      BY <1>0, <1>2, <2>2, DaySpan
    <3>2. IsWhole(t) /\ IsWhole(DayStart(day))
      BY <3>1 DEF InFirstSecond, IsWhole, DayStart
    <3>3. ~Before(t, DayStart(day))
      BY <1>0, <2>2, <3>2 DEF Before, IsWhole
    <3>4. DayStart(day) \in Times /\ t \in Times
      BY <1>0, <1>2
    <3>5. ~TextBefore(t, DayStart(day))
      <4> HIDE DEF day
      <4> QED BY <3>2, <3>3, <3>4, WholeSecondsOrder
    <3> QED BY <3>5 DEF TextNotAfter
  <2>3. DayStart(day).second \in Nat /\ DayStart(day).second <= t.second
    BY <1>1, <1>2 DEF Times
  <2> QED BY <1>0, <2>1, <2>2, <2>3
<1> QED BY <1>3, <1>4 DEF InWindow

\* The departures of a day that the rule still holds to its limit.
Limited(day) == {d \in Departures(day) : ~InFirstSecond(start[d])}

Starts == start \in [Slots -> BoundedTimes \cup {None}]

\* A port's daily limit holds outside the first second of the day, whatever fractions the
\* departure windows carry (CountPortFacilityFishingVoyagesForWindow).
THEOREM LimitHolds == Spec => []LimitAfterFirstSecond
<1> DEFINE Days == 0 .. MaxSecond \div DaySeconds
           Inv == Starts /\ \A day \in Days : Cardinality(Limited(day)) <= DailyLimit
<1>0. DailyLimit \in Nat \ {0} /\ IsFiniteSet(Slots)
  BY TimedAssumption
<1>1. Init => Inv
  <2> SUFFICES ASSUME Init PROVE Inv
    OBVIOUS
  <2>1. Starts
    BY DEF Init, Starts
  <2>2. ASSUME NEW day \in Days PROVE Cardinality(Limited(day)) <= DailyLimit
    <3>1. Limited(day) = {}
      BY DEF Init, Limited, Departures
    <3> QED BY <1>0, <3>1, FS_EmptySet
  <2> QED BY <2>1, <2>2
<1>2. Inv /\ [Next]_rowVars => Inv'
  <2> SUFFICES ASSUME Starts, \A day \in Days : Cardinality(Limited(day)) <= DailyLimit,
                      [Next]_rowVars
               PROVE  Inv'
    OBVIOUS
  <2>0. ASSUME NEW day
        PROVE  IsFiniteSet(Limited(day)) /\ Cardinality(Limited(day)) \in Nat
    <3>1. Limited(day) \in SUBSET Slots
      BY DEF Limited, Departures
    <3> QED BY <1>0, <3>1, FS_Subset, FS_CardinalityType
  <2>1. CASE UNCHANGED start
    BY <2>1 DEF Starts, Limited, Departures
  <2>2. ASSUME NEW d \in Slots, Cancel(d) PROVE Inv'
    <3>1. start' = [start EXCEPT ![d] = None]
      BY <2>2 DEF Cancel
    <3>2. Starts'
      BY <3>1 DEF Starts
    <3>3. ASSUME NEW day \in Days PROVE Cardinality(Limited(day)') <= DailyLimit
      <4>1. Limited(day)' \in SUBSET Limited(day)
        BY <3>1 DEF Limited, Departures, Starts
      <4>2. Cardinality(Limited(day)') <= Cardinality(Limited(day))
            /\ Cardinality(Limited(day)') \in Nat
        BY <2>0, <4>1, FS_Subset, FS_CardinalityType
      <4> QED BY <1>0, <2>0, <4>2
    <3> QED BY <3>2, <3>3
  <2>3. ASSUME NEW d \in Slots, NEW t \in BoundedTimes, Plan(d, t) PROVE Inv'
    <3>1. /\ start' = [start EXCEPT ![d] = t] /\ start[d] = None
          /\ CountWindow(DayOf(t)) < DailyLimit
      BY <2>3 DEF Plan
    <3>2. Starts'
      BY <3>1, BoundedAreTimes DEF Starts
    <3>3. ASSUME NEW day \in Days PROVE Cardinality(Limited(day)') <= DailyLimit
      <4>1. CASE day # DayOf(t)
        <5>1. Limited(day)' = Limited(day)
          BY <3>1, <4>1 DEF Limited, Departures, Starts
        <5> QED BY <5>1
      <4>2. CASE day = DayOf(t)
        <5> DEFINE W == {e \in Slots : start[e] # None /\ InWindow(start[e], day)}
        <5>1. Limited(day) \in SUBSET W
          BY CountedAfterFirstSecond DEF Limited, Departures, Starts
        <5>2. W \in SUBSET Slots /\ IsFiniteSet(W) /\ Cardinality(W) \in Nat
          BY <1>0, FS_Subset, FS_CardinalityType
        <5>3. Cardinality(W) < DailyLimit
          BY <3>1, <4>2 DEF CountWindow
        <5> HIDE DEF W
        <5>4. Cardinality(Limited(day)) <= Cardinality(W)
          BY <5>1, <5>2, FS_Subset
        <5>5. Limited(day)' \in SUBSET (Limited(day) \cup {d})
          BY <3>1 DEF Limited, Departures, Starts
        <5>6. /\ IsFiniteSet(Limited(day) \cup {d})
              /\ Cardinality(Limited(day) \cup {d}) <= Cardinality(Limited(day)) + 1
              /\ Cardinality(Limited(day) \cup {d}) \in Nat
          <6> DEFINE L == Limited(day)
          <6>1. IsFiniteSet(L) /\ Cardinality(L) \in Nat
            BY <2>0
          <6> HIDE DEF L
          <6>2. /\ IsFiniteSet(L \cup {d})
                /\ Cardinality(L \cup {d}) = IF d \in L THEN Cardinality(L)
                                             ELSE Cardinality(L) + 1
            BY <6>1, FS_AddElement
          <6>3. Cardinality(L \cup {d}) <= Cardinality(L) + 1 /\ Cardinality(L \cup {d}) \in Nat
            BY <6>1, <6>2
          <6> QED BY <6>2, <6>3 DEF L
        <5>7. Cardinality(Limited(day)') <= Cardinality(Limited(day) \cup {d})
              /\ Cardinality(Limited(day)') \in Nat
          BY <5>5, <5>6, FS_Subset, FS_CardinalityType
        <5> QED BY <1>0, <2>0, <5>2, <5>3, <5>4, <5>6, <5>7
      <4> QED BY <4>1, <4>2
    <3> QED BY <3>2, <3>3
  <2>4. CASE CreateTask \/ ResolveTask \/ ExpireTask \/ UseKey \/ Advance \/ UNCHANGED rowVars
    BY <2>1, <2>4 DEF CreateTask, ResolveTask, ExpireTask, UseKey, Advance, rowVars
  <2> QED BY <2>2, <2>3, <2>4 DEF Next
<1>3. Inv => LimitAfterFirstSecond
  BY DEF Limited, LimitAfterFirstSecond
<1> QED BY <1>1, <1>2, <1>3, PTL DEF Spec

=============================================================================
