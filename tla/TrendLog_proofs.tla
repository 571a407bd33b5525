-------------------------- MODULE TrendLog_proofs --------------------------
(***************************************************************************)
(* Proofs about TrendLog: the types, that the ring implements the log of   *)
(* the module RecordLog, and what ReadRange selects from it, for any size  *)
(* of the ring and any modulus of the sequence numbers.                    *)
(***************************************************************************)
EXTENDS TrendLog, FiniteSetsExt, FiniteSetTheorems, SequenceTheorems,
        WellFoundedInduction, TLAPS

\* A non-empty set of naturals has a least element, and Min is it.
LEMMA MinNat ==
  ASSUME NEW T \in SUBSET Nat, T # {}
  PROVE  Min(T) \in T /\ \A y \in T : Min(T) <= y
<1> DEFINE R == OpToRel(<, Nat)
<1>1. PICK x \in T : \A y \in T : ~ (<<y, x>> \in R)
  BY WFMin, NatLessThanWellFounded
<1>2. R = {ss \in Nat \X Nat : ss[1] < ss[2]}
  BY Zenon DEF OpToRel
<1> HIDE DEF R
<1>3. ASSUME NEW y \in T PROVE x <= y
  <2>1. x \in Nat /\ y \in Nat
    OBVIOUS
  <2>2. <<y, x>> \in Nat \X Nat /\ <<y, x>>[1] = y /\ <<y, x>>[2] = x
    BY <2>1
  <2>3. <<y, x>> \notin R
    BY <1>1
  <2>4. ~ (y < x)
    BY <1>2, <2>2, <2>3, Zenon
  <2> QED
    BY <2>1, <2>4
<1> QED
  BY <1>3 DEF Min

\* The greatest element of a set below a bound, likewise.
LEMMA MaxNat ==
  ASSUME NEW n \in Nat, NEW T \in SUBSET (0 .. n), T # {}
  PROVE  Max(T) \in T /\ \A y \in T : Max(T) >= y
<1> DEFINE V == {n - x : x \in T}
<1>1. V \in SUBSET Nat /\ V # {}
  <2>1. \A x \in T : x \in Int /\ n - x \in Nat
    OBVIOUS
  <2>2. PICK x \in T : TRUE
    OBVIOUS
  <2>3. n - x \in V
    BY <2>2
  <2> QED
    BY <2>1, <2>3
<1>2. Min(V) \in V /\ \A y \in V : Min(V) <= y
  <2> HIDE DEF V
  <2> QED
    BY <1>1, MinNat
<1>3. PICK x \in T : Min(V) = n - x
  BY <1>2
<1>4. \A y \in T : x >= y
  <2> TAKE y \in T
  <2>1. n - y \in V
    OBVIOUS
  <2>2. n - x <= n - y
    BY <1>2, <1>3, <2>1
  <2> QED
    BY <2>2
<1> QED
  BY <1>4 DEF Max

----------------------------------------------------------------------------
(* The ring.  Entry(i) is the i-th record, oldest first.                   *)

\* A log that is not full lies at the start of the ring.
RingTyped ==
  /\ Logs \in [0 .. TL_MAX_ENTRIES - 1 -> Entries]
  /\ iIndex \in 0 .. TL_MAX_ENTRIES - 1
  /\ ulRecordCount \in 1 .. TL_MAX_ENTRIES
  /\ ulTotalRecordCount \in 0 .. MODULUS - 1
  /\ ulRecordCount < TL_MAX_ENTRIES => iIndex = ulRecordCount

LEMMA Wrapped ==
  ASSUME NEW n \in Nat \ {0}, NEW k \in 0 .. 2 * n - 1
  PROVE  k % n = IF k < n THEN k ELSE k - n
<1>1. CASE k < n
  BY <1>1
<1>2. CASE k >= n
  <2>1. k \in n .. 2 * n - 1
    BY <1>2
  <2> QED
    BY <1>2, <2>1
<1> QED
  BY <1>1, <1>2

LEMMA HalfOK == HALF \in Nat /\ MODULUS = 2 * HALF /\ HALF > 0
<1>1. MODULUS \in Nat /\ MODULUS = 2 * HALF
  BY TrendConstants
<1>2. HALF \in Int
  BY <1>1 DEF HALF
<1> QED
  BY <1>1, <1>2, TrendConstants

\* The slot of record i in a ring with the next record at index, count records.
At(index, count, i) ==
  IF count < TL_MAX_ENTRIES \/ index + i - 1 < TL_MAX_ENTRIES
    THEN (IF count < TL_MAX_ENTRIES THEN i - 1 ELSE index + i - 1)
    ELSE index + i - 1 - TL_MAX_ENTRIES

SlotIn(index, count, i) ==
  IF count < TL_MAX_ENTRIES THEN (i - 1) % TL_MAX_ENTRIES
  ELSE (index + i - 1) % TL_MAX_ENTRIES

LEMMA SlotAt ==
  ASSUME NEW index \in 0 .. TL_MAX_ENTRIES - 1, NEW count \in 1 .. TL_MAX_ENTRIES,
         NEW i \in 1 .. count
  PROVE  /\ SlotIn(index, count, i) = At(index, count, i)
         /\ At(index, count, i) \in 0 .. TL_MAX_ENTRIES - 1
<1>1. TL_MAX_ENTRIES \in Nat \ {0}
  BY TrendConstants
<1>2. CASE count < TL_MAX_ENTRIES
  <2> DEFINE k == i - 1
  <2>1. k \in 0 .. 2 * TL_MAX_ENTRIES - 1 /\ k < TL_MAX_ENTRIES
    BY <1>1, <1>2
  <2>2. k % TL_MAX_ENTRIES = k
    <3> HIDE DEF k
    <3> QED
      BY <1>1, <2>1, Wrapped
  <2> QED
    BY <1>1, <1>2, <2>1, <2>2 DEF SlotIn, At
<1>3. CASE ~ (count < TL_MAX_ENTRIES)
  <2> DEFINE k == index + i - 1
  <2>1. k \in 0 .. 2 * TL_MAX_ENTRIES - 1
    BY <1>1, <1>3
  <2>2. k % TL_MAX_ENTRIES = IF k < TL_MAX_ENTRIES THEN k ELSE k - TL_MAX_ENTRIES
    <3> HIDE DEF k
    <3> QED
      BY <1>1, <2>1, Wrapped
  <2> QED
    BY <1>1, <1>3, <2>1, <2>2 DEF SlotIn, At
<1> QED
  BY <1>2, <1>3

\* What an insertion does: the records are those of before, the oldest left out
\* of a full log, and the new one.
Shift == IF ulRecordCount < TL_MAX_ENTRIES THEN 0 ELSE 1

New(datum) == [tTimeStamp |-> tNow, Datum |-> datum]

Added(datum) ==
  /\ RingTyped'
  /\ ulRecordCount' = IF ulRecordCount < TL_MAX_ENTRIES THEN ulRecordCount + 1
                      ELSE ulRecordCount
  /\ ulTotalRecordCount' = U(ulTotalRecordCount + 1)
  /\ \A i \in 1 .. ulRecordCount' - 1 :
       i + Shift \in 1 .. ulRecordCount /\ Entry(i)' = Entry(i + Shift)
  /\ Entry(ulRecordCount)' = New(datum)

Emptied ==
  /\ RingTyped'
  /\ ulRecordCount' = 1 /\ ulTotalRecordCount' = U(ulTotalRecordCount + 1)
  /\ Entry(1)' = New("PURGED")

LEMMA TotalCounted ==
  ASSUME NEW t \in 0 .. MODULUS - 1
  PROVE  U(t + 1) \in 0 .. MODULUS - 1
<1>1. MODULUS \in Nat \ {0} /\ t + 1 \in Nat
  BY TrendConstants
<1> QED
  BY <1>1 DEF U

LEMMA InsertTyped ==
  ASSUME RingTyped, tNow \in 0 .. MaxTime,
         NEW datum \in Sources \cup {"ENABLED", "DISABLED", "PURGED"},
         NEW at, NEW count,
         \/ at = iIndex /\ count = ulRecordCount
         \/ at = 0 /\ count = 0,
         Insert(at, count, datum)
  PROVE  /\ RingTyped'
         /\ Logs' = [Logs EXCEPT ![at] = New(datum)]
         /\ iIndex' = IF at + 1 >= TL_MAX_ENTRIES THEN 0 ELSE at + 1
         /\ ulTotalRecordCount' = U(ulTotalRecordCount + 1)
         /\ ulRecordCount' = IF count < TL_MAX_ENTRIES THEN count + 1 ELSE count
         /\ at \in 0 .. TL_MAX_ENTRIES - 1
<1>1. TL_MAX_ENTRIES \in Nat \ {0}
  BY TrendConstants
<1>2. at \in 0 .. TL_MAX_ENTRIES - 1 /\ count \in 0 .. TL_MAX_ENTRIES
  BY <1>1 DEF RingTyped
<1>3. /\ Logs' = [Logs EXCEPT ![at] = New(datum)]
      /\ iIndex' = IF at + 1 >= TL_MAX_ENTRIES THEN 0 ELSE at + 1
      /\ ulTotalRecordCount' = U(ulTotalRecordCount + 1)
      /\ ulRecordCount' = IF count < TL_MAX_ENTRIES THEN count + 1 ELSE count
  BY DEF Insert, New
<1>4. New(datum) \in Entries
  BY DEF New, Entries
<1>5. Logs' \in [0 .. TL_MAX_ENTRIES - 1 -> Entries]
  BY <1>3, <1>4 DEF RingTyped
<1>6. ulTotalRecordCount' \in 0 .. MODULUS - 1
  BY <1>3, TotalCounted DEF RingTyped
<1>7. /\ iIndex' \in 0 .. TL_MAX_ENTRIES - 1 /\ ulRecordCount' \in 1 .. TL_MAX_ENTRIES
      /\ ulRecordCount' < TL_MAX_ENTRIES => iIndex' = ulRecordCount'
  BY <1>1, <1>2, <1>3 DEF RingTyped
<1> QED
  BY <1>2, <1>3, <1>5, <1>6, <1>7 DEF RingTyped

LEMMA InsertAdds ==
  ASSUME RingTyped, tNow \in 0 .. MaxTime,
         NEW datum \in Sources \cup {"ENABLED", "DISABLED", "PURGED"},
         Insert(iIndex, ulRecordCount, datum)
  PROVE  Added(datum)
<1> DEFINE n == ulRecordCount
           index == iIndex
<1>1. TL_MAX_ENTRIES \in Nat \ {0}
  BY TrendConstants
<1>2. /\ RingTyped'
      /\ Logs' = [Logs EXCEPT ![index] = New(datum)]
      /\ iIndex' = IF index + 1 >= TL_MAX_ENTRIES THEN 0 ELSE index + 1
      /\ ulTotalRecordCount' = U(ulTotalRecordCount + 1)
      /\ ulRecordCount' = IF n < TL_MAX_ENTRIES THEN n + 1 ELSE n
      /\ index \in 0 .. TL_MAX_ENTRIES - 1
  BY InsertTyped
<1>3. n \in 1 .. TL_MAX_ENTRIES /\ ulRecordCount' \in 1 .. TL_MAX_ENTRIES
      /\ (n < TL_MAX_ENTRIES => index = n)
  BY <1>2 DEF RingTyped
<1>4. PICK new \in 1 .. TL_MAX_ENTRIES : new = ulRecordCount'
  BY <1>3
<1>5. PICK next \in 0 .. TL_MAX_ENTRIES - 1 : next = iIndex'
  BY <1>2 DEF RingTyped
<1>6. /\ \A i \in 1 .. new : Entry(i)' = Logs'[At(next, new, i)]
      /\ \A i \in 1 .. n : Entry(i) = Logs[At(index, n, i)]
  <2>1. \A i \in 1 .. new : Slot(i)' = SlotIn(next, new, i)
    BY <1>4, <1>5 DEF Slot, SlotIn
  <2>2. \A i \in 1 .. n : Slot(i) = SlotIn(index, n, i)
    BY DEF Slot, SlotIn
  <2>3. /\ \A i \in 1 .. new : SlotIn(next, new, i) = At(next, new, i)
        /\ \A i \in 1 .. n : SlotIn(index, n, i) = At(index, n, i)
    BY <1>2, <1>3, SlotAt
  <2> QED
    BY <2>1, <2>2, <2>3 DEF Entry
<1> HIDE DEF n, index
<1>7. At(next, new, new) = index
  BY <1>1, <1>2, <1>3, <1>4, <1>5 DEF At
<1>8. \A i \in 1 .. new - 1 : /\ i + Shift \in 1 .. n
                              /\ At(next, new, i) = At(index, n, i + Shift)
                              /\ At(next, new, i) # index
                              /\ At(next, new, i) \in 0 .. TL_MAX_ENTRIES - 1
  BY <1>1, <1>2, <1>3, <1>4, <1>5 DEF At, Shift, n
<1>9. \A i \in 1 .. new - 1 : i + Shift \in 1 .. n /\ Entry(i)' = Entry(i + Shift)
  BY <1>2, <1>6, <1>8 DEF RingTyped
<1>10. Entry(new)' = New(datum)
  BY <1>2, <1>4, <1>6, <1>7 DEF RingTyped
<1> QED
  BY <1>2, <1>4, <1>9, <1>10 DEF Added, n

LEMMA PurgeEmpties ==
  ASSUME RingTyped, tNow \in 0 .. MaxTime, Insert(0, 0, "PURGED")
  PROVE  Emptied
<1>1. TL_MAX_ENTRIES \in Nat \ {0}
  BY TrendConstants
<1>2. /\ RingTyped'
      /\ Logs' = [Logs EXCEPT ![0] = New("PURGED")]
      /\ ulTotalRecordCount' = U(ulTotalRecordCount + 1)
      /\ ulRecordCount' = 1
      /\ iIndex' = IF 1 >= TL_MAX_ENTRIES THEN 0 ELSE 1
  BY <1>1, InsertTyped
<1>3. Slot(1)' = 0
  <2>1. Slot(1)' = SlotIn(iIndex', 1, 1)
    BY <1>2 DEF Slot, SlotIn
  <2>2. iIndex' \in 0 .. TL_MAX_ENTRIES - 1 /\ 1 \in 1 .. TL_MAX_ENTRIES /\ 1 \in 1 .. 1
    BY <1>1, <1>2
  <2>3. SlotIn(iIndex', 1, 1) = At(iIndex', 1, 1)
    BY <2>2, SlotAt
  <2> QED
    BY <1>1, <1>2, <2>1, <2>3 DEF At
<1>4. 0 \in 0 .. TL_MAX_ENTRIES - 1
  BY <1>1
<1> QED
  BY <1>2, <1>3, <1>4 DEF Emptied, Entry, RingTyped

----------------------------------------------------------------------------
(* The settings, and what a step does to the records.                      *)

Starts == Written.Start_Time \ {WILD}

ConfTyped ==
  /\ conf \in [bEnable : BOOLEAN, bStopWhenFull : BOOLEAN, LoggingType : Types,
               ulLogInterval : Nat, bAlignIntervals : BOOLEAN,
               ulIntervalOffset : Nat, tStartTime : Nat \cup {WILD},
               tStopTime : Nat \cup {WILD}]
  /\ conf.LoggingType = "POLLED" => conf.ulLogInterval > 0
  /\ conf.tStartTime \in Written.Start_Time \cup {0}

ClockTyped ==
  /\ Source \in Sources /\ bTrigger \in BOOLEAN /\ elapsed \in BOOLEAN
  /\ tNow \in 0 .. MaxTime /\ tLastDataTime \in 0 .. tNow

\* Whether logging is on, at a time t.
EnabledAt(c, t) ==
  /\ c.bEnable
  /\ c.tStartTime # WILD /\ c.tStopTime # WILD => c.tStartTime <= c.tStopTime
  /\ c.tStartTime # WILD => c.tStartTime <= t
  /\ c.tStopTime # WILD => t <= c.tStopTime

\* Without a record, logging can only have been switched on by its start time.
NoRecord ==
  /\ UNCHANGED <<ring, Source>> /\ tNow' \in tNow .. MaxTime
  /\ EnabledAt(conf', tNow') =>
       EnabledAt(conf, tNow) \/ \E s \in Starts : tNow < s /\ s <= tNow'

\* With one, it is a reading of a log that is on, or says what it is from now on.
OneRecord ==
  /\ UNCHANGED <<Source, tNow>>
  /\ \/ Insert(iIndex, ulRecordCount, Source) /\ EnabledAt(conf, tNow)
     \/ Insert(iIndex, ulRecordCount, "ENABLED")
     \/ Insert(iIndex, ulRecordCount, "DISABLED") /\ ~ EnabledAt(conf', tNow)

Purged == Insert(0, 0, "PURGED") /\ Source' \in Sources /\ UNCHANGED tNow

StepKind == NoRecord \/ OneRecord \/ Purged

StepOK == ConfTyped' /\ ClockTyped' /\ StepKind

LEMMA TimerStep ==
  ASSUME ConfTyped, ClockTyped, trend_log_timer
  PROVE  StepOK
<1>1. UNCHANGED <<config, tNow>> /\ elapsed' = FALSE
  BY DEF trend_log_timer
<1>2. conf' = conf /\ Source' = Source /\ tNow' = tNow
  BY <1>1 DEF config
<1>3. ConfTyped'
  BY <1>2 DEF ConfTyped
<1>4. tNow' \in tNow .. MaxTime
  BY <1>2, TrendConstants DEF ClockTyped
<1>5. \/ EnabledAt(conf, tNow) /\ tLastDataTime' = tNow
         /\ Insert(iIndex, ulRecordCount, Source)
      \/ UNCHANGED <<ring, tLastDataTime>>
  BY DEF trend_log_timer, TL_fetch_property, TL_Is_Enabled, EnabledAt
<1>6. bTrigger' \in BOOLEAN
  BY DEF trend_log_timer, ClockTyped
<1>7. ClockTyped'
  <2>1. tLastDataTime' \in 0 .. tNow
    BY <1>5, TrendConstants DEF ClockTyped
  <2> QED
    BY <1>1, <1>2, <1>6, <2>1 DEF ClockTyped
<1>8. StepKind
  BY <1>2, <1>4, <1>5 DEF StepKind, NoRecord, OneRecord
<1> QED
  BY <1>3, <1>7, <1>8 DEF StepOK

LEMMA SecondStep ==
  ASSUME ConfTyped, ClockTyped, Second
  PROVE  StepOK
<1>1. conf' = conf /\ Source' = Source /\ bTrigger' = bTrigger
      /\ tLastDataTime' = tLastDataTime /\ UNCHANGED ring /\ elapsed' = TRUE
  BY DEF Second, config, polling
<1>2. tNow' \in tNow .. MaxTime /\ (tNow' = tNow \/ tNow' = tNow + 1)
  BY TrendConstants DEF Second, ClockTyped
<1>3. ConfTyped'
  BY <1>1 DEF ConfTyped
<1>4. ClockTyped'
  BY <1>1, <1>2, TrendConstants DEF ClockTyped
<1>5. ASSUME EnabledAt(conf, tNow'), ~ EnabledAt(conf, tNow)
      PROVE  \E s \in Starts : tNow < s /\ s <= tNow'
  <2>1. conf.tStartTime # WILD => conf.tStartTime \in Nat
    BY DEF ConfTyped
  <2>2. conf.tStopTime # WILD => conf.tStopTime \in Nat
    BY DEF ConfTyped
  <2>3. tNow \in Nat /\ tNow' \in Nat /\ tNow <= tNow'
    BY <1>2 DEF ClockTyped
  <2>4. conf.tStartTime # WILD /\ tNow < conf.tStartTime /\ conf.tStartTime <= tNow'
    BY <1>5, <2>1, <2>2, <2>3 DEF EnabledAt
  <2>5. conf.tStartTime \in Starts
    BY <2>1, <2>3, <2>4 DEF ConfTyped, Starts
  <2> QED
    BY <2>4, <2>5
<1>6. NoRecord
  BY <1>1, <1>2, <1>5 DEF NoRecord
<1> QED
  BY <1>3, <1>4, <1>6 DEF StepOK, StepKind

\* The settings that a write leaves alone decide nothing.
LEMMA SilentWrite ==
  ASSUME ClockTyped, ConfTyped', UNCHANGED <<ring, Source, clock>>,
         bTrigger' \in BOOLEAN, tLastDataTime' = tLastDataTime,
         EnabledAt(conf', tNow) => EnabledAt(conf, tNow)
  PROVE  StepOK
<1>1. tNow' = tNow /\ elapsed' = elapsed
  BY DEF clock
<1>2. tNow' \in tNow .. MaxTime
  BY <1>1, TrendConstants DEF ClockTyped
<1>3. NoRecord
  BY <1>1, <1>2 DEF NoRecord
<1>4. ClockTyped'
  BY <1>1 DEF ClockTyped
<1> QED
  BY <1>3, <1>4 DEF StepOK, StepKind

LEMMA RecordWrite ==
  ASSUME ClockTyped, ConfTyped', UNCHANGED <<Source, clock, polling>>,
         \/ Insert(iIndex, ulRecordCount, "ENABLED")
         \/ Insert(iIndex, ulRecordCount, "DISABLED") /\ ~ EnabledAt(conf', tNow)
  PROVE  StepOK
<1>1. tNow' = tNow /\ elapsed' = elapsed /\ bTrigger' = bTrigger
      /\ tLastDataTime' = tLastDataTime
  BY DEF clock, polling
<1>2. OneRecord
  BY <1>1 DEF OneRecord
<1>3. ClockTyped'
  BY <1>1 DEF ClockTyped
<1> QED
  BY <1>2, <1>3 DEF StepOK, StepKind

LEMMA PurgeWrite ==
  ASSUME ClockTyped, ConfTyped, Purge, UNCHANGED <<conf, clock, polling>>, Source' \in Sources
  PROVE  StepOK
<1>1. tNow' = tNow /\ elapsed' = elapsed /\ bTrigger' = bTrigger
      /\ tLastDataTime' = tLastDataTime
  BY DEF clock, polling
<1>2. Purged
  BY <1>1 DEF Purged, Purge
<1>3. ClockTyped' /\ ConfTyped'
  BY <1>1 DEF ClockTyped, ConfTyped
<1> QED
  BY <1>2, <1>3 DEF StepOK, StepKind

LEMMA AnnouncedWrite ==
  ASSUME ClockTyped, ConfTyped', UNCHANGED <<Source, clock, polling>>, Announce(conf')
  PROVE  StepOK
<1>1. tNow' = tNow /\ bTrigger' = bTrigger /\ tLastDataTime' = tLastDataTime
  BY DEF clock, polling
<1>2. TL_Is_Enabled(conf) <=> EnabledAt(conf, tNow)
  BY DEF TL_Is_Enabled, EnabledAt
<1>3. ASSUME NEW c PROVE TL_Is_Enabled(c) <=> EnabledAt(c, tNow)
  BY DEF TL_Is_Enabled, EnabledAt
<1>4. CASE TL_Is_Enabled(conf') = TL_Is_Enabled(conf)
  <2>1. UNCHANGED ring
    BY <1>4 DEF Announce
  <2>2. EnabledAt(conf', tNow) => EnabledAt(conf, tNow)
    BY <1>2, <1>3, <1>4
  <2>3. bTrigger' \in BOOLEAN
    BY <1>1 DEF ClockTyped
  <2> QED
    BY <1>1, <2>1, <2>2, <2>3, SilentWrite
<1>5. CASE TL_Is_Enabled(conf') # TL_Is_Enabled(conf)
  <2>1. TL_Insert_Status_Rec(IF TL_Is_Enabled(conf') THEN "ENABLED" ELSE "DISABLED")
    BY <1>5 DEF Announce
  <2>2. \/ Insert(iIndex, ulRecordCount, "ENABLED")
        \/ Insert(iIndex, ulRecordCount, "DISABLED") /\ ~ EnabledAt(conf', tNow)
    BY <2>1, <1>3 DEF TL_Insert_Status_Rec
  <2> QED
    BY <2>2, RecordWrite
<1> QED
  BY <1>4, <1>5

LEMMA WriteStep ==
  ASSUME ConfTyped, ClockTyped, Trend_Log_Write_Property
  PROVE  StepOK
<1>0. UNCHANGED clock
  BY DEF Trend_Log_Write_Property
<1>1. CASE WriteSource
  <2>1. PICK s \in Sources : /\ Source' = s
                             /\ Purge \/ (s = Source /\ UNCHANGED ring)
                             /\ UNCHANGED <<conf, polling>>
    BY <1>1 DEF WriteSource
  <2>2. CASE Purge
    BY <1>0, <2>1, <2>2, PurgeWrite
  <2>3. CASE s = Source /\ UNCHANGED ring
    <3>1. ConfTyped' /\ Source' = Source /\ (EnabledAt(conf', tNow) => EnabledAt(conf, tNow))
      BY <2>1, <2>3 DEF ConfTyped
    <3>2. bTrigger' \in BOOLEAN /\ tLastDataTime' = tLastDataTime
      BY <2>1 DEF polling, ClockTyped
    <3> QED
      BY <1>0, <2>3, <3>1, <3>2, SilentWrite
  <2> QED
    BY <2>1, <2>2, <2>3
<1>2. ASSUME WriteEnable, UNCHANGED Source PROVE StepOK
  <2>1. PICK v \in Written.Enable : /\ conf' = [conf EXCEPT !.bEnable = v]
                                    /\ Announce([conf EXCEPT !.bEnable = v])
                                    /\ UNCHANGED polling
    BY <1>2 DEF WriteEnable
  <2>2. v \in BOOLEAN
    BY TrendConstants
  <2>3. ConfTyped'
    BY <2>1, <2>2 DEF ConfTyped
  <2> QED
    BY <1>0, <1>2, <2>1, <2>3, AnnouncedWrite
<1>3. ASSUME WriteStopWhenFull, UNCHANGED Source PROVE StepOK
  <2>1. PICK v \in Written.Stop_When_Full :
          LET halts == ~ conf.bStopWhenFull /\ v /\ Full /\ conf.bEnable IN
          /\ conf' = [conf EXCEPT !.bStopWhenFull = v, !.bEnable = @ /\ ~ halts]
          /\ IF halts THEN TL_Insert_Status_Rec("DISABLED") ELSE UNCHANGED ring
          /\ UNCHANGED polling
    BY <1>3 DEF WriteStopWhenFull
  <2> DEFINE halts == ~ conf.bStopWhenFull /\ v /\ Full /\ conf.bEnable
  <2>2. v \in BOOLEAN
    BY TrendConstants
  <2>3. /\ conf' = [conf EXCEPT !.bStopWhenFull = v, !.bEnable = conf.bEnable /\ ~ halts]
        /\ IF halts THEN TL_Insert_Status_Rec("DISABLED") ELSE UNCHANGED ring
    BY <2>1 DEF ConfTyped
  <2> HIDE DEF halts
  <2>4. CASE halts
    <3>1. conf' = [conf EXCEPT !.bStopWhenFull = v, !.bEnable = FALSE]
      BY <2>3, <2>4
    <3>2. ConfTyped'
      BY <2>2, <3>1 DEF ConfTyped
    <3>3. ~ EnabledAt(conf', tNow)
      BY <3>1 DEF EnabledAt, ConfTyped
    <3>4. Insert(iIndex, ulRecordCount, "DISABLED")
      BY <2>3, <2>4 DEF TL_Insert_Status_Rec
    <3> QED
      BY <1>0, <1>3, <2>1, <3>2, <3>3, <3>4, RecordWrite
  <2>5. CASE ~ halts
    <3>1. conf.bEnable \in BOOLEAN
      BY DEF ConfTyped
    <3>2. (conf.bEnable /\ ~ halts) = conf.bEnable
      BY <2>5, <3>1, Zenon
    <3>3. conf' = [conf EXCEPT !.bStopWhenFull = v, !.bEnable = conf.bEnable]
      BY <2>3, <3>2
    <3>4. ConfTyped' /\ (EnabledAt(conf', tNow) => EnabledAt(conf, tNow))
      BY <2>2, <3>3 DEF ConfTyped, EnabledAt
    <3>5. bTrigger' \in BOOLEAN /\ tLastDataTime' = tLastDataTime /\ UNCHANGED ring
      BY <2>1, <2>3, <2>5 DEF polling, ClockTyped
    <3> QED
      BY <1>0, <1>3, <3>4, <3>5, SilentWrite
  <2> QED
    BY <2>4, <2>5
<1>4. ASSUME WriteRecordCount, UNCHANGED Source PROVE StepOK
  <2>1. Source' \in Sources
    BY <1>4 DEF ClockTyped
  <2> QED
    BY <1>0, <1>4, <2>1, PurgeWrite DEF WriteRecordCount
<1>5. ASSUME UNCHANGED <<ring, Source>>, ConfTyped',
             EnabledAt(conf', tNow) => EnabledAt(conf, tNow),
             bTrigger' \in BOOLEAN, tLastDataTime' = tLastDataTime
      PROVE  StepOK
  BY <1>0, <1>5, SilentWrite
<1>6. ASSUME UNCHANGED polling PROVE bTrigger' \in BOOLEAN /\ tLastDataTime' = tLastDataTime
  BY <1>6 DEF polling, ClockTyped
<1>7. ASSUME WriteLoggingType, UNCHANGED Source PROVE StepOK
  <2>1. PICK type \in Written.Logging_Type :
          /\ conf' = [conf EXCEPT !.LoggingType = type, !.ulLogInterval = IntervalFor(type)]
          /\ UNCHANGED <<ring, polling>>
    BY <1>7 DEF WriteLoggingType
  <2>2. type \in Types /\ INTERVAL \in Nat \ {0} /\ conf.ulLogInterval \in Nat
    BY TrendConstants DEF ConfTyped
  <2>3. IntervalFor(type) \in Nat /\ (type = "POLLED" => IntervalFor(type) > 0)
    BY <2>2 DEF IntervalFor
  <2>4. ConfTyped' /\ (EnabledAt(conf', tNow) => EnabledAt(conf, tNow))
    BY <2>1, <2>2, <2>3 DEF ConfTyped, EnabledAt
  <2> QED
    BY <1>5, <1>6, <1>7, <2>1, <2>4
<1>8. ASSUME WriteTime, UNCHANGED Source PROVE StepOK
  <2>1. CASE \E t \in Written.Start_Time :
               /\ conf' = [conf EXCEPT !.tStartTime = t]
               /\ Announce([conf EXCEPT !.tStartTime = t]) /\ UNCHANGED polling
    <3>1. PICK t \in Written.Start_Time :
            /\ conf' = [conf EXCEPT !.tStartTime = t]
            /\ Announce([conf EXCEPT !.tStartTime = t]) /\ UNCHANGED polling
      BY <2>1
    <3>2. t \in Nat \cup {WILD}
      BY TrendConstants
    <3>3. ConfTyped'
      BY <3>1, <3>2 DEF ConfTyped
    <3> QED
      BY <1>0, <1>8, <3>1, <3>3, AnnouncedWrite
  <2>2. CASE \E t \in Written.Stop_Time :
               /\ conf' = [conf EXCEPT !.tStopTime = t]
               /\ Announce([conf EXCEPT !.tStopTime = t]) /\ UNCHANGED polling
    <3>1. PICK t \in Written.Stop_Time :
            /\ conf' = [conf EXCEPT !.tStopTime = t]
            /\ Announce([conf EXCEPT !.tStopTime = t]) /\ UNCHANGED polling
      BY <2>2
    <3>2. t \in Nat \cup {WILD}
      BY TrendConstants
    <3>3. ConfTyped'
      BY <3>1, <3>2 DEF ConfTyped
    <3> QED
      BY <1>0, <1>8, <3>1, <3>3, AnnouncedWrite
  <2> QED
    BY <1>8, <2>1, <2>2 DEF WriteTime
<1>9. ASSUME WriteLogInterval, UNCHANGED Source PROVE StepOK
  <2>1. PICK v \in Written.Log_Interval :
          /\ conf' = [conf EXCEPT !.ulLogInterval = IF v \div 100 = 0 THEN 1 ELSE v \div 100]
          /\ UNCHANGED <<ring, polling>>
    BY <1>9 DEF WriteLogInterval
  <2>2. v \in Nat
    BY TrendConstants
  <2>3. v \div 100 \in Nat
    BY <2>2
  <2>4. ConfTyped' /\ (EnabledAt(conf', tNow) => EnabledAt(conf, tNow))
    BY <2>1, <2>3 DEF ConfTyped, EnabledAt
  <2> QED
    BY <1>5, <1>6, <1>9, <2>1, <2>4
<1>10. ASSUME WriteAlignment, UNCHANGED Source PROVE StepOK
  <2>1. ConfTyped' /\ (EnabledAt(conf', tNow) => EnabledAt(conf, tNow))
    <3>1. CASE \E v \in Written.Align_Intervals : conf' = [conf EXCEPT !.bAlignIntervals = v]
      <4>1. PICK v \in Written.Align_Intervals : conf' = [conf EXCEPT !.bAlignIntervals = v]
        BY <3>1
      <4>2. v \in BOOLEAN
        BY TrendConstants
      <4> QED
        BY <4>1, <4>2 DEF ConfTyped, EnabledAt
    <3>2. CASE \E v \in Written.Interval_Offset :
                 conf' = [conf EXCEPT !.ulIntervalOffset = v \div 100]
      <4>1. PICK v \in Written.Interval_Offset :
              conf' = [conf EXCEPT !.ulIntervalOffset = v \div 100]
        BY <3>2
      <4>2. v \in Nat
        BY TrendConstants
      <4>3. v \div 100 \in Nat
        BY <4>2
      <4> QED
        BY <4>1, <4>3 DEF ConfTyped, EnabledAt
    <3> QED
      BY <1>10, <3>1, <3>2 DEF WriteAlignment
  <2> QED
    BY <1>5, <1>6, <1>10, <2>1 DEF WriteAlignment
<1>11. ASSUME WriteTrigger, UNCHANGED Source PROVE StepOK
  <2>1. PICK v \in Written.Trigger :
          bTrigger' = v /\ UNCHANGED <<ring, conf, tLastDataTime>>
    BY <1>11 DEF WriteTrigger
  <2>2. bTrigger' \in BOOLEAN
    BY <2>1, TrendConstants
  <2>3. ConfTyped' /\ (EnabledAt(conf', tNow) => EnabledAt(conf, tNow))
    BY <2>1 DEF ConfTyped
  <2> QED
    BY <1>5, <1>11, <2>1, <2>2, <2>3
<1> QED
  BY <1>1, <1>2, <1>3, <1>4, <1>7, <1>8, <1>9, <1>10, <1>11
     DEF Trend_Log_Write_Property

----------------------------------------------------------------------------
(* The records as a sequence, and the invariant.                           *)

Content == [i \in 1 .. ulRecordCount |->
             [time |-> Entry(i).tTimeStamp, datum |-> Entry(i).Datum]]

Record(e) == [time |-> e.tTimeStamp, datum |-> e.Datum]

LEMMA EntryTyped ==
  ASSUME RingTyped, NEW i \in 1 .. ulRecordCount
  PROVE  Entry(i) \in Entries
<1>1. iIndex \in 0 .. TL_MAX_ENTRIES - 1 /\ ulRecordCount \in 1 .. TL_MAX_ENTRIES
  BY DEF RingTyped
<1>2. Slot(i) = SlotIn(iIndex, ulRecordCount, i)
  BY DEF Slot, SlotIn
<1>3. Slot(i) \in 0 .. TL_MAX_ENTRIES - 1
  BY <1>1, <1>2, SlotAt
<1> QED
  BY <1>3 DEF Entry, RingTyped

LEMMA RecordTyped ==
  ASSUME NEW e \in Entries
  PROVE  Record(e) \in Promise!Records
  BY TrendConstants DEF Record, Entries, Promise!Records, Promise!Statuses

ContentOK ==
  /\ Content \in Seq(Promise!Records) /\ Len(Content) = ulRecordCount
  /\ ulRecordCount \in 1 .. TL_MAX_ENTRIES /\ TL_MAX_ENTRIES \in Nat
  /\ \A i \in 1 .. ulRecordCount : Entry(i) \in Entries /\ Content[i] = Record(Entry(i))

LEMMA ContentIs == RingTyped => ContentOK
<1> SUFFICES ASSUME RingTyped PROVE ContentOK
  OBVIOUS
<1>1. ulRecordCount \in Nat \ {0} /\ ulRecordCount \in 1 .. TL_MAX_ENTRIES
      /\ TL_MAX_ENTRIES \in Nat
  BY TrendConstants DEF RingTyped
<1>2. \A i \in 1 .. ulRecordCount : Content[i] = Record(Entry(i))
  BY DEF Content, Record
<1>3. \A i \in 1 .. ulRecordCount : Content[i] \in Promise!Records
  BY <1>2, EntryTyped, RecordTyped
<1>4. Content \in [1 .. ulRecordCount -> Promise!Records]
  BY <1>3 DEF Content
<1> HIDE DEF Content
<1>5. Content \in Seq(Promise!Records)
  BY <1>1, <1>4
<1>6. Len(Content) = ulRecordCount
  BY <1>1, <1>4, <1>5, LenProperties
<1> QED
  BY <1>1, <1>2, <1>5, <1>6, EntryTyped DEF ContentOK

Newest == Entry(ulRecordCount)

\* The records are in order of time.
Ordered ==
  /\ \A i, j \in 1 .. ulRecordCount :
       i <= j => Entry(i).tTimeStamp <= Entry(j).tTimeStamp
  /\ Newest.tTimeStamp <= tNow

\* A log that says it was disabled is off, or its start time has come since.
SaidOff ==
  Newest.Datum = "DISABLED" =>
    \/ ~ EnabledAt(conf, tNow)
    \/ \E s \in Starts : Newest.tTimeStamp < s /\ s <= tNow

TrendIInv == RingTyped /\ ConfTyped /\ ClockTyped /\ Ordered /\ SaidOff

LEMMA TrendInitOK == Trend_Log_Init => TrendIInv
<1> SUFFICES ASSUME Trend_Log_Init PROVE TrendIInv
  OBVIOUS
<1>1. TL_MAX_ENTRIES \in Nat \ {0} /\ MaxTime \in Nat /\ MaxTime >= TL_MAX_ENTRIES - 1
  BY TrendConstants
<1>2. \A i \in 0 .. TL_MAX_ENTRIES - 1 : [tTimeStamp |-> i, Datum |-> Source] \in Entries
  BY <1>1 DEF Trend_Log_Init, Entries
<1>3. TL_MAX_ENTRIES \in 0 .. MODULUS - 1
  BY HalfOK, TrendConstants
<1>4. 0 \in 0 .. TL_MAX_ENTRIES - 1 /\ TL_MAX_ENTRIES \in 1 .. TL_MAX_ENTRIES
  BY <1>1
<1>5. RingTyped
  BY <1>1, <1>2, <1>3, <1>4 DEF Trend_Log_Init, RingTyped
<1>6. TL_MAX_ENTRIES - 1 \in 0 .. MaxTime /\ TL_MAX_ENTRIES - 1 \in 0 .. TL_MAX_ENTRIES - 1
  BY <1>1
<1>7. ClockTyped
  BY <1>6 DEF Trend_Log_Init, ClockTyped
<1>8. ConfTyped
  BY TrendConstants DEF Trend_Log_Init, ConfTyped, Types
<1>9. \A i \in 1 .. TL_MAX_ENTRIES : Entry(i) = [tTimeStamp |-> i - 1, Datum |-> Source]
  <2> TAKE i \in 1 .. TL_MAX_ENTRIES
  <2>1. Slot(i) = SlotIn(0, TL_MAX_ENTRIES, i)
    BY DEF Slot, SlotIn, Trend_Log_Init
  <2>2. SlotIn(0, TL_MAX_ENTRIES, i) = At(0, TL_MAX_ENTRIES, i)
        /\ At(0, TL_MAX_ENTRIES, i) \in 0 .. TL_MAX_ENTRIES - 1
    BY <1>4, SlotAt
  <2>3. At(0, TL_MAX_ENTRIES, i) = i - 1
    BY <1>1 DEF At
  <2> QED
    BY <2>1, <2>2, <2>3 DEF Entry, Trend_Log_Init
<1>10. Ordered
  BY <1>1, <1>4, <1>9 DEF Ordered, Newest, Trend_Log_Init
<1>11. SaidOff
  <2>1. Newest.Datum = Source /\ Source \in Sources
    BY <1>4, <1>9 DEF Newest, Trend_Log_Init
  <2> QED
    BY <2>1, TrendConstants DEF SaidOff
<1> QED
  BY <1>5, <1>7, <1>8, <1>10, <1>11 DEF TrendIInv

----------------------------------------------------------------------------
(* Every step of the ring is a step of the log.                            *)

PromiseStep ==
  \/ Promise!Record \/ Promise!Purge
  \/ UNCHANGED <<Content, ulTotalRecordCount, Source>>

RingStep == RingTyped' /\ Ordered' /\ SaidOff' /\ PromiseStep

LEMMA NoRecordStep ==
  ASSUME TrendIInv, NoRecord
  PROVE  RingStep
<1>1. /\ Logs' = Logs /\ iIndex' = iIndex /\ ulRecordCount' = ulRecordCount
      /\ ulTotalRecordCount' = ulTotalRecordCount /\ Source' = Source
      /\ tNow' \in tNow .. MaxTime /\ tNow \in Nat
  BY DEF NoRecord, ring, TrendIInv, ClockTyped
<1>2. \A i : Entry(i)' = Entry(i)
  BY <1>1 DEF Entry, Slot
<1>3. RingTyped' /\ Content' = Content
  BY <1>1, <1>2 DEF RingTyped, TrendIInv, Content
<1>4. Newest' = Newest
  BY <1>1, <1>2 DEF Newest
<1>5. ulRecordCount \in 1 .. ulRecordCount
  BY DEF TrendIInv, RingTyped
<1>6. Newest \in Entries
  BY <1>5, EntryTyped DEF TrendIInv, Newest
<1>7. Newest.tTimeStamp \in Nat
  BY <1>6, TrendConstants DEF Entries
<1>8. Ordered'
  BY <1>1, <1>2, <1>4, <1>7 DEF Ordered, TrendIInv
<1>9. SaidOff'
  <2> SUFFICES ASSUME Newest.Datum = "DISABLED", EnabledAt(conf', tNow')
               PROVE  \E s \in Starts : Newest.tTimeStamp < s /\ s <= tNow'
    BY <1>4 DEF SaidOff
  <2>1. \A s \in Starts : s \in Nat
    BY TrendConstants DEF Starts
  <2>2. Newest.tTimeStamp <= tNow
    BY DEF TrendIInv, Ordered
  <2>3. CASE EnabledAt(conf, tNow)
    <3>1. PICK s \in Starts : Newest.tTimeStamp < s /\ s <= tNow
      BY <2>3 DEF TrendIInv, SaidOff
    <3>2. s \in Nat
      BY <2>1
    <3> QED
      BY <1>1, <3>1, <3>2
  <2>4. CASE \E s \in Starts : tNow < s /\ s <= tNow'
    <3>1. PICK s \in Starts : tNow < s /\ s <= tNow'
      BY <2>4
    <3>2. s \in Nat
      BY <2>1
    <3> QED
      BY <1>1, <1>7, <2>2, <3>1, <3>2
  <2> QED
    BY <2>3, <2>4 DEF NoRecord
<1> QED
  BY <1>1, <1>3, <1>8, <1>9 DEF RingStep, PromiseStep

\* A log of which the last record is r, and the others are those of s.
Continues(s, t, r) ==
  LET shift == IF Len(s) < TL_MAX_ENTRIES THEN 0 ELSE 1
  IN  /\ Len(s) \in 1 .. TL_MAX_ENTRIES
      /\ Len(t) = IF Len(s) < TL_MAX_ENTRIES THEN Len(s) + 1 ELSE Len(s)
      /\ \A i \in 1 .. Len(t) - 1 : t[i] = s[i + shift]
      /\ t[Len(t)] = r

LEMMA LatestIs ==
  ASSUME NEW R, NEW s \in Seq(R), NEW t \in Seq(R), NEW r \in R, Continues(s, t, r)
  PROVE  t = Promise!Latest(Append(s, r))
<1>0. PICK shift : /\ shift = IF Len(s) < TL_MAX_ENTRIES THEN 0 ELSE 1
                   /\ \A i \in 1 .. Len(t) - 1 : t[i] = s[i + shift]
  BY DEF Continues
<1>01. /\ Len(s) \in 1 .. TL_MAX_ENTRIES
       /\ Len(t) = IF Len(s) < TL_MAX_ENTRIES THEN Len(s) + 1 ELSE Len(s)
       /\ t[Len(t)] = r
  BY DEF Continues
<1> DEFINE a == Append(s, r)
<1>1. /\ a \in Seq(R) /\ a # << >> /\ Len(a) = Len(s) + 1
      /\ \A i \in 1 .. Len(s) : a[i] = s[i]
      /\ a[Len(s) + 1] = r
  BY AppendProperties
<1>2. TL_MAX_ENTRIES \in Nat \ {0}
  BY TrendConstants
<1>3. Promise!Latest(a) = IF Len(a) > TL_MAX_ENTRIES THEN Tail(a) ELSE a
  BY DEF Promise!Latest
<1> HIDE DEF a
<1>4. CASE Len(s) < TL_MAX_ENTRIES
  <2>1. Len(t) = Len(a) /\ \A i \in 1 .. Len(t) : t[i] = a[i]
    BY <1>0, <1>01, <1>1, <1>2, <1>4
  <2>2. t = a
    BY <1>0, <1>01, <1>1, <2>1, SeqEqual
  <2> QED
    BY <1>0, <1>01, <1>1, <1>2, <1>3, <1>4, <2>2 DEF a
<1>5. CASE ~ (Len(s) < TL_MAX_ENTRIES)
  <2> DEFINE u == Tail(a)
  <2>1. u \in Seq(R) /\ Len(u) = Len(a) - 1 /\ \A i \in 1 .. Len(u) : u[i] = a[i + 1]
    BY <1>0, <1>01, <1>1, HeadTailProperties
  <2>2. Promise!Latest(a) = u
    BY <1>0, <1>01, <1>1, <1>2, <1>3, <1>5
  <2> HIDE DEF u
  <2>3. Len(t) = Len(u) /\ Len(t) = Len(s) /\ shift = 1
    BY <1>0, <1>01, <1>1, <1>2, <1>5, <2>1
  <2>4. ASSUME NEW i \in 1 .. Len(t) PROVE t[i] = u[i]
    <3>1. u[i] = a[i + 1]
      BY <2>1, <2>3
    <3>2. CASE i < Len(s)
      <4>1. i \in 1 .. Len(t) - 1 /\ i + 1 \in 1 .. Len(s)
        BY <2>3, <3>2
      <4> QED
        BY <1>0, <1>01, <1>1, <2>3, <3>1, <4>1
    <3>3. CASE i = Len(s)
      BY <1>0, <1>01, <1>1, <2>3, <3>1, <3>3
    <3> QED
      BY <2>3, <3>2, <3>3
  <2>5. t = u
    BY <2>1, <2>3, <2>4, SeqEqual
  <2> QED
    BY <2>2, <2>5 DEF a
<1> QED
  BY <1>4, <1>5

LEMMA OneRecordStep ==
  ASSUME TrendIInv, OneRecord
  PROVE  RingStep
<1>1. PICK datum \in {Source, "ENABLED", "DISABLED"} :
        /\ Insert(iIndex, ulRecordCount, datum)
        /\ datum = "DISABLED" => ~ EnabledAt(conf', tNow)
        /\ datum \in Sources => EnabledAt(conf, tNow)
  <2>1. Source \in Sources
    BY DEF TrendIInv, ClockTyped
  <2> QED
    BY <2>1, TrendConstants DEF OneRecord
<1>2. Source' = Source /\ tNow' = tNow /\ tNow \in Nat /\ tNow \in 0 .. MaxTime
  BY DEF OneRecord, TrendIInv, ClockTyped
<1>3. datum \in Sources \cup {"ENABLED", "DISABLED", "PURGED"}
  BY DEF TrendIInv, ClockTyped
<1>4. Added(datum)
  BY <1>1, <1>2, <1>3, InsertAdds DEF TrendIInv
<1>5. ContentOK /\ ContentOK'
  <2>1. RingTyped /\ RingTyped'
    BY <1>4 DEF Added, TrendIInv
  <2> QED
    BY <2>1, ContentIs, PTL
<1> DEFINE n == ulRecordCount
           r == [time |-> tNow, datum |-> datum]
<1>6. /\ Content \in Seq(Promise!Records) /\ Len(Content) = n
      /\ n \in 1 .. TL_MAX_ENTRIES /\ TL_MAX_ENTRIES \in Nat
      /\ \A i \in 1 .. n : Entry(i) \in Entries /\ Content[i] = Record(Entry(i))
      /\ Content' \in Seq(Promise!Records) /\ Len(Content') = n'
      /\ n' \in 1 .. TL_MAX_ENTRIES
      /\ \A i \in 1 .. n' : Entry(i)' \in Entries /\ Content'[i] = Record(Entry(i)')
  BY <1>5 DEF ContentOK
<1>7. /\ n' = IF n < TL_MAX_ENTRIES THEN n + 1 ELSE n
      /\ \A i \in 1 .. n' - 1 : i + Shift \in 1 .. n /\ Entry(i)' = Entry(i + Shift)
      /\ Entry(n)' = New(datum)
      /\ ulTotalRecordCount' = U(ulTotalRecordCount + 1)
      /\ Shift = IF n < TL_MAX_ENTRIES THEN 0 ELSE 1
  BY <1>4 DEF Added, Shift
<1>8. r = Record(New(datum)) /\ r \in Promise!Records
  <2>1. New(datum) \in Entries
    BY <1>2, <1>3 DEF New, Entries
  <2>2. r = Record(New(datum))
    BY DEF New, Record
  <2>3. Record(New(datum)) \in Promise!Records
    BY <2>1, RecordTyped
  <2> QED
    BY <2>2, <2>3
<1>9. Content' = Promise!Latest(Append(Content, r))
  <2>1. PICK c \in Seq(Promise!Records) : c = Content'
    BY <1>6
  <2>2. PICK k \in 1 .. TL_MAX_ENTRIES : k = n'
    BY <1>6
  <2>3. /\ Len(Content) \in 1 .. TL_MAX_ENTRIES
        /\ Shift = IF Len(Content) < TL_MAX_ENTRIES THEN 0 ELSE 1
        /\ Len(c) = IF Len(Content) < TL_MAX_ENTRIES THEN Len(Content) + 1 ELSE Len(Content)
    BY <1>6, <1>7, <2>1
  <2>4. Len(c) = k
    BY <1>6, <2>1, <2>2
  <2>5. \A i \in 1 .. Len(c) - 1 : c[i] = Content[i + Shift]
    <3>1. \A i \in 1 .. k - 1 : c[i] = Content[i + Shift]
      BY <1>6, <1>7, <2>1, <2>2
    <3> QED
      BY <2>4, <3>1
  <2>6. c[Len(c)] = r
    BY <1>6, <1>7, <1>8, <2>1, <2>2, <2>4
  <2> HIDE DEF r, n
  <2>7. Continues(Content, c, r)
    BY <2>3, <2>5, <2>6 DEF Continues
  <2>8. c = Promise!Latest(Append(Content, r))
    BY <1>6, <1>8, <2>7, LatestIs
  <2> QED
    BY <2>1, <2>8
<1>10. Newest = Entry(n) /\ Newest \in Entries /\ Newest.tTimeStamp \in Nat
       /\ Newest.tTimeStamp <= tNow
  BY <1>6, TrendConstants DEF Newest, TrendIInv, Ordered, Entries
<1>11. Promise!Record
  <2>1. Content'[Len(Content')].time = tNow
    BY <1>6, <1>7, <1>8 DEF New, Record
  <2>2. Content[Len(Content)] = Record(Newest)
    BY <1>6, <1>10
  <2>3. Promise!Follows(Content[Len(Content)], r)
    <3>1. Record(Newest).time <= r.time
      BY <1>10 DEF Record
    <3>2. ASSUME Record(Newest).datum = "DISABLED", r.datum \in Sources
          PROVE  \E s \in Starts : Record(Newest).time < s /\ s <= r.time
      <4>1. EnabledAt(conf, tNow)
        BY <1>1, <3>2
      <4>2. Newest.Datum = "DISABLED"
        BY <3>2 DEF Record
      <4> QED
        BY <4>1, <4>2 DEF TrendIInv, SaidOff, Record
    <3> QED
      BY <2>2, <3>1, <3>2 DEF Promise!Follows, Starts
  <2>4. r \in [time : {Content'[Len(Content')].time}, datum : {Source, "ENABLED", "DISABLED"}]
    BY <2>1
  <2>5. ulTotalRecordCount' = (ulTotalRecordCount + 1) % MODULUS
    BY <1>7 DEF U
  <2> HIDE DEF r
  <2> QED
    BY <1>2, <1>9, <2>3, <2>4, <2>5 DEF Promise!Record, Content
<1>12. Ordered'
  <2>1. \A i, j \in 1 .. n : i <= j => Entry(i).tTimeStamp <= Entry(j).tTimeStamp
    BY DEF TrendIInv, Ordered
  <2>2. \A i \in 1 .. n : Entry(i).tTimeStamp \in Nat
    BY <1>6, TrendConstants DEF Entries
  <2>3. \A i \in 1 .. n : Entry(i).tTimeStamp <= tNow
    BY <1>2, <1>6, <1>10, <2>1, <2>2
  <2>4. PICK k \in 1 .. TL_MAX_ENTRIES : k = n'
    BY <1>6
  <2>5. Entry(k)'.tTimeStamp = tNow /\ tNow <= tNow
    BY <1>2, <1>7, <2>4 DEF New
  <2>6. \A i \in 1 .. k - 1 : i + Shift \in 1 .. n /\ Entry(i)' = Entry(i + Shift)
    BY <1>7, <2>4
  <2>7. ASSUME NEW i \in 1 .. k, NEW j \in 1 .. k, i <= j
        PROVE  Entry(i)'.tTimeStamp <= Entry(j)'.tTimeStamp
    <3>1. CASE j < k
      <4>1. /\ i + Shift \in 1 .. n /\ j + Shift \in 1 .. n /\ i + Shift <= j + Shift
            /\ Entry(i)' = Entry(i + Shift) /\ Entry(j)' = Entry(j + Shift)
        BY <1>6, <1>7, <2>6, <2>7, <3>1
      <4> QED
        BY <2>1, <4>1
    <3>2. CASE j = k /\ i < k
      <4>1. i + Shift \in 1 .. n /\ Entry(i)' = Entry(i + Shift)
        BY <1>6, <2>6, <2>7, <3>2
      <4> QED
        BY <2>3, <2>5, <3>2, <4>1
    <3>3. CASE i = k /\ j = k
      BY <2>5, <3>3
    <3> QED
      BY <2>7, <3>1, <3>2, <3>3
  <2> QED
    BY <1>2, <2>4, <2>5, <2>7 DEF Ordered, Newest
<1>13. SaidOff'
  BY <1>1, <1>2, <1>7 DEF SaidOff, Newest, New
<1> QED
  BY <1>4, <1>11, <1>12, <1>13 DEF RingStep, PromiseStep, Added

LEMMA PurgedStep ==
  ASSUME TrendIInv, Purged
  PROVE  RingStep
<1>1. Insert(0, 0, "PURGED") /\ Source' \in Sources /\ tNow' = tNow
      /\ tNow \in 0 .. MaxTime /\ RingTyped
  BY DEF Purged, TrendIInv, ClockTyped
<1>2. Emptied
  BY <1>1, PurgeEmpties
<1>3. ContentOK /\ ContentOK'
  <2>1. RingTyped /\ RingTyped'
    BY <1>1, <1>2 DEF Emptied
  <2> QED
    BY <2>1, ContentIs, PTL
<1>4. /\ ulRecordCount' = 1 /\ Entry(1)' = New("PURGED")
      /\ ulTotalRecordCount' = (ulTotalRecordCount + 1) % MODULUS
  BY <1>2 DEF Emptied, U
<1>5. Len(Content') = 1 /\ Content'[1] = [time |-> tNow, datum |-> "PURGED"]
  BY <1>3, <1>4 DEF ContentOK, New, Record
<1>6. Content[Len(Content)] = Record(Newest) /\ Newest \in Entries
  BY <1>3 DEF ContentOK, Newest
<1>7. tNow >= Content[Len(Content)].time
  <2>1. Newest.tTimeStamp <= tNow /\ Newest.tTimeStamp \in Nat /\ tNow \in Nat
    BY <1>1, <1>6, TrendConstants DEF TrendIInv, Ordered, Entries
  <2> QED
    BY <1>6, <2>1 DEF Record
<1>8. Promise!Purge
  <2>1. Content'[1].time >= Content[Len(Content)].time /\ Content'[1].datum = "PURGED"
    BY <1>5, <1>7
  <2> QED
    BY <1>1, <1>4, <1>5, <2>1, Zenon DEF Promise!Purge, Content
<1>9. Ordered' /\ SaidOff'
  <2>1. Entry(1)'.tTimeStamp = tNow /\ tNow <= tNow /\ Entry(1)'.Datum = "PURGED"
    BY <1>1, <1>4 DEF New
  <2>2. \A i \in 1 .. 1 : i = 1
    OBVIOUS
  <2> QED
    BY <1>1, <1>4, <2>1, <2>2 DEF Ordered, SaidOff, Newest
<1> QED
  BY <1>2, <1>8, <1>9 DEF RingStep, PromiseStep, Emptied

LEMMA TrendStep == TrendIInv /\ [Next]_vars => TrendIInv' /\ PromiseStep
<1> SUFFICES ASSUME TrendIInv, [Next]_vars PROVE TrendIInv' /\ PromiseStep
  OBVIOUS
<1>0. ConfTyped /\ ClockTyped
  BY DEF TrendIInv
<1>1. CASE Next
  <2>1. StepOK
    BY <1>0, <1>1, TimerStep, SecondStep, WriteStep DEF Next
  <2>2. RingStep
    BY <2>1, NoRecordStep, OneRecordStep, PurgedStep DEF StepOK, StepKind
  <2> QED
    BY <2>1, <2>2 DEF StepOK, RingStep, TrendIInv
<1>2. CASE UNCHANGED vars
  <2>1. NoRecord
    <3>1. UNCHANGED <<ring, Source, conf, tNow>>
      BY <1>2 DEF vars, config, clock
    <3>2. tNow \in tNow .. MaxTime
      BY <1>0, TrendConstants DEF ClockTyped
    <3> QED
      BY <3>1, <3>2 DEF NoRecord
  <2>2. RingStep
    BY <2>1, NoRecordStep
  <2>3. ConfTyped' /\ ClockTyped'
    BY <1>0, <1>2 DEF vars, config, clock, polling, ConfTyped, ClockTyped
  <2> QED
    BY <2>2, <2>3 DEF RingStep, TrendIInv
<1> QED
  BY <1>1, <1>2

\* The inductive invariant: besides the types, a log that is not full starts at
\* slot 0, the records are in order of time, and a log that says it was disabled
\* is off until its start time comes.
THEOREM TrendInvariant == Spec => []TrendIInv
  BY TrendInitOK, TrendStep, PTL DEF Spec

\* The log stays within its ring and no order of writes leaves a polled log with
\* an interval of 0, for any size of the ring and any values written
\* (trendlog.c:548-561, 851-860).
THEOREM TrendTypeCorrect == Spec => []TrendTypeOK
<1>1. TrendIInv => TrendTypeOK
  BY DEF TrendIInv, RingTyped, ConfTyped, ClockTyped, TrendTypeOK
<1> QED
  BY <1>1, TrendInvariant, PTL

\* The ring is the log that RecordLog describes: the latest records since the
\* last purge, in order of time, all of the source that is logged now; and no
\* reading follows a record of having been disabled unless the log says that it
\* was enabled or its start time has come in between (trendlog.c:416-789, 820-922, 1598-1791).
THEOREM RingImplementsLog == Spec => KeepsLatest
<1>1. Trend_Log_Init => Promise!RecordInit
  <2> SUFFICES ASSUME Trend_Log_Init PROVE Promise!RecordInit
    OBVIOUS
  <2>1. TrendIInv
    BY TrendInitOK
  <2>2. ContentOK
    BY <2>1, ContentIs DEF TrendIInv
  <2> QED
    BY <2>1, <2>2 DEF ContentOK, Promise!RecordInit, Content, Trend_Log_Init,
                      TrendIInv, RingTyped
<1>2. TrendIInv /\ [Next]_vars =>
        [Promise!Record \/ Promise!Purge]_<<Content, ulTotalRecordCount, Source>>
  BY TrendStep DEF PromiseStep
<1>3. Spec => Promise!RecordInit
               /\ [][Promise!Record \/ Promise!Purge]_<<Content, ulTotalRecordCount, Source>>
  BY <1>1, <1>2, TrendInvariant, PTL DEF Spec
<1> QED
  BY <1>3, PTL DEF KeepsLatest, Promise!RecordSpec, Content

----------------------------------------------------------------------------
(* ReadRange.  What an answer has to be, and when Encode gives it.         *)

Exact(a, asked, room) ==
  LET b == Promise!Answer(asked, room)
  IN  a.items = b.items /\ a.first = b.first /\ a.last = b.last /\ a.more = b.more

Numbered(a, asked, room) ==
  LET b == Promise!Answer(asked, room)
  IN  b.items # {} => \E i \in b.items : i - 1 \notin b.items /\ a.number = Promise!Number(i)

\* The instance of RecordLog brings its own FiniteSets.
LEMMA SameCardinality == \A T : Promise!Cardinality(T) = Cardinality(T)
  BY Zenon DEF Promise!Cardinality, Cardinality

LEMMA FirstOfInterval ==
  ASSUME NEW a \in Int, NEW b \in Int, NEW k \in Nat \ {0}, a <= b
  PROVE  Promise!FirstOf(k, a .. b) = a .. (IF b < a + k THEN b ELSE a + k - 1)
<1>1. ASSUME NEW i \in a .. b PROVE Cardinality({j \in a .. b : j <= i}) = i - a + 1
  <2>1. {j \in a .. b : j <= i} = a .. i
    OBVIOUS
  <2>2. Cardinality(a .. i) = i - a + 1
    BY FS_Interval
  <2> QED
    BY <2>1, <2>2
<1>2. Promise!FirstOf(k, a .. b) =
        {i \in a .. b : Cardinality({j \in a .. b : j <= i}) <= k}
  BY SameCardinality, Zenon DEF Promise!FirstOf
<1>3. \A i \in a .. b :
        Cardinality({j \in a .. b : j <= i}) <= k <=> i \in a .. (IF b < a + k THEN b ELSE a + k - 1)
  BY <1>1
<1>4. a .. (IF b < a + k THEN b ELSE a + k - 1) \subseteq a .. b
  OBVIOUS
<1> QED
  BY <1>2, <1>3, <1>4

LEMMA LastOfInterval ==
  ASSUME NEW a \in Int, NEW b \in Int, NEW k \in Nat \ {0}, a <= b
  PROVE  Promise!LastOf(k, a .. b) = (IF b - k < a THEN a ELSE b - k + 1) .. b
<1>1. ASSUME NEW i \in a .. b PROVE Cardinality({j \in a .. b : j >= i}) = b - i + 1
  <2>1. {j \in a .. b : j >= i} = i .. b
    OBVIOUS
  <2>2. Cardinality(i .. b) = b - i + 1
    BY FS_Interval
  <2> QED
    BY <2>1, <2>2
<1>2. Promise!LastOf(k, a .. b) =
        {i \in a .. b : Cardinality({j \in a .. b : j >= i}) <= k}
  BY SameCardinality, Zenon DEF Promise!LastOf
<1>3. \A i \in a .. b :
        Cardinality({j \in a .. b : j >= i}) <= k <=> i \in (IF b - k < a THEN a ELSE b - k + 1) .. b
  BY <1>1
<1>4. (IF b - k < a THEN a ELSE b - k + 1) .. b \subseteq a .. b
  OBVIOUS
<1> QED
  BY <1>2, <1>3, <1>4

LEMMA AnswerIs ==
  ASSUME ContentOK, NEW asked, NEW room
  PROVE  Promise!Answer(asked, room) =
           [items |-> Promise!FirstOf(room, asked),
            first |-> 1 \in Promise!FirstOf(room, asked),
            last |-> ulRecordCount \in Promise!FirstOf(room, asked),
            more |-> Promise!FirstOf(room, asked) # asked]
<1>1. Len(Content) = ulRecordCount
  BY DEF ContentOK
<1> QED
  BY <1>1, Zenon DEF Promise!Answer, Content

LEMMA NothingExact ==
  ASSUME ContentOK, NEW room
  PROVE  Exact(Nothing, {}, room) /\ Numbered(Nothing, {}, room)
<1>1. Promise!FirstOf(room, {}) = {}
  BY DEF Promise!FirstOf
<1>2. /\ Promise!Answer({}, room).items = {} /\ Promise!Answer({}, room).first = FALSE
      /\ Promise!Answer({}, room).last = FALSE /\ Promise!Answer({}, room).more = FALSE
  <2>1. Promise!Answer({}, room) =
          [items |-> {}, first |-> 1 \in {}, last |-> ulRecordCount \in {}, more |-> {} # {}]
    BY <1>1, AnswerIs
  <2>2. (1 \in {}) = FALSE /\ (ulRecordCount \in {}) = FALSE /\ ({} # {}) = FALSE
    OBVIOUS
  <2>3. Promise!Answer({}, room) =
          [items |-> {}, first |-> FALSE, last |-> FALSE, more |-> FALSE]
    BY <2>1, <2>2, Zenon
  <2> QED
    BY <2>3
<1>3. Nothing = [items |-> {}, first |-> FALSE, last |-> FALSE, more |-> FALSE, number |-> 0]
  BY DEF Nothing
<1>4. Exact(Nothing, {}, room)
  BY <1>2, <1>3 DEF Exact
<1> QED
  BY <1>2, <1>4, Zenon DEF Numbered

LEMMA EncodeExact ==
  ASSUME ContentOK, NEW from \in 1 .. ulRecordCount, NEW upto \in from .. ulRecordCount,
         NEW room \in Nat \ {0}, NEW number
  PROVE  /\ Exact(Encode(from, upto, room, number), from .. upto, room)
         /\ number = Promise!Number(from)
              => Numbered(Encode(from, upto, room, number), from .. upto, room)
<1> DEFINE uiLast == IF upto < from + room THEN upto ELSE from + room - 1
<1>1. ulRecordCount \in Nat
  BY DEF ContentOK
<1>2. uiLast \in from .. upto
  BY <1>1
<1>3. Promise!FirstOf(room, from .. upto) = from .. uiLast
  BY <1>1, FirstOfInterval
<1>4. Encode(from, upto, room, number) =
        [items |-> from .. uiLast, first |-> from = 1, last |-> uiLast = ulRecordCount,
         more |-> uiLast < upto, number |-> number]
  BY DEF Encode
<1> HIDE DEF uiLast
<1>5. Promise!Answer(from .. upto, room) =
        [items |-> from .. uiLast, first |-> 1 \in from .. uiLast,
         last |-> ulRecordCount \in from .. uiLast, more |-> from .. uiLast # from .. upto]
  BY <1>3, AnswerIs
<1>6. (from = 1) <=> (1 \in from .. uiLast)
  BY <1>1, <1>2
<1>7. (uiLast = ulRecordCount) <=> (ulRecordCount \in from .. uiLast)
  BY <1>1, <1>2
<1>8. (uiLast < upto) <=> (from .. uiLast # from .. upto)
  <2>1. uiLast < upto => upto \in from .. upto /\ upto \notin from .. uiLast
    BY <1>1, <1>2
  <2>2. ~ (uiLast < upto) => uiLast = upto
    BY <1>1, <1>2
  <2> QED
    BY <2>1, <2>2
<1>9. from \in from .. uiLast /\ from - 1 \notin from .. uiLast
  BY <1>1, <1>2
<1>10. Exact(Encode(from, upto, room, number), from .. upto, room)
  BY <1>4, <1>5, <1>6, <1>7, <1>8 DEF Exact
<1>11. ASSUME number = Promise!Number(from)
       PROVE  Numbered(Encode(from, upto, room, number), from .. upto, room)
  <2>1. Promise!Answer(from .. upto, room).items = from .. uiLast
    BY <1>5
  <2>2. Encode(from, upto, room, number).number = Promise!Number(from)
    BY <1>4, <1>11
  <2> QED
    BY <1>9, <2>1, <2>2, Zenon DEF Numbered
<1> QED
  BY <1>10, <1>11

\* Ranges by position.
LEMMA Wide ==
  /\ \A k \in 0 .. MODULUS - 1 : U(k) = k
  /\ \A k \in MODULUS .. 2 * MODULUS - 1 : U(k) = k - MODULUS
  /\ \A k \in -MODULUS .. -1 : U(k) = k + MODULUS
<1>1. MODULUS \in Nat \ {0}
  BY HalfOK
<1>2. \A k \in 0 .. 2 * MODULUS - 1 : k % MODULUS = IF k < MODULUS THEN k ELSE k - MODULUS
  BY <1>1, Wrapped
<1>3. ASSUME NEW k \in -MODULUS .. -1 PROVE k % MODULUS = k + MODULUS
  BY <1>1
<1> QED
  BY <1>1, <1>2, <1>3 DEF U

LEMMA Signed == \A k \in -HALF .. HALF - 1 : S(k) = k
<1> SUFFICES ASSUME NEW k \in -HALF .. HALF - 1 PROVE S(k) = k
  OBVIOUS
<1>1. CASE k >= 0
  <2>1. U(k) = k
    BY <1>1, HalfOK, Wide
  <2> QED
    BY <1>1, <2>1, HalfOK DEF S
<1>2. CASE k < 0
  <2>1. U(k) = k + MODULUS
    BY <1>2, HalfOK, Wide
  <2> QED
    BY <1>2, <2>1, HalfOK DEF S
<1> QED
  BY <1>1, <1>2

LEMMA PositionAsked ==
  ASSUME ContentOK, NEW ref, NEW count
  PROVE  Promise!AskedByPosition(ref, count) =
           {i \in 1 .. ulRecordCount : \/ ref <= i /\ i < ref + count
                                       \/ ref + count < i /\ i <= ref}
<1>1. Len(Content) = ulRecordCount
  BY DEF ContentOK
<1> QED
  BY <1>1, Zenon DEF Promise!AskedByPosition, Content

LEMMA RangeExact ==
  ASSUME ContentOK, NEW room \in Nat \ {0}, NEW from \in Nat \ {0}, NEW target \in Int,
         NEW asked \in SUBSET (1 .. ulRecordCount),
         from <= ulRecordCount => from <= target,
         \A i \in 1 .. ulRecordCount : i \in asked <=> from <= i /\ i <= target
  PROVE  Exact(IF from > ulRecordCount THEN Nothing
               ELSE Encode(from, IF target > ulRecordCount THEN ulRecordCount ELSE target,
                           room, 0), asked, room)
<1>1. ulRecordCount \in Nat
  BY DEF ContentOK
<1>2. CASE from > ulRecordCount
  <2>1. asked = {}
    BY <1>1, <1>2
  <2> QED
    BY <1>2, <2>1, NothingExact
<1>3. CASE ~ (from > ulRecordCount)
  <2> DEFINE upto == IF target > ulRecordCount THEN ulRecordCount ELSE target
  <2>1. from \in 1 .. ulRecordCount /\ upto \in from .. ulRecordCount
    BY <1>1, <1>3
  <2>2. \A i \in 1 .. ulRecordCount : i \in asked <=> i \in from .. upto
    BY <1>1, <1>3
  <2> HIDE DEF upto
  <2>4. from .. upto \subseteq 1 .. ulRecordCount
    BY <1>1, <2>1
  <2>5. asked = from .. upto
    BY <2>2, <2>4
  <2>3. Exact(Encode(from, upto, room, 0), asked, room)
    BY <2>1, <2>5, EncodeExact
  <2> QED
    BY <1>3, <2>3 DEF upto
<1> QED
  BY <1>2, <1>3

LEMMA PositionExact ==
  ASSUME RingTyped, NEW ref \in 1 .. MODULUS - 1, NEW count \in -HALF .. HALF - 1,
         count # 0, NEW room \in Nat \ {0}, count < 0 => ref < HALF
  PROVE  Exact(TL_encode_by_position("POSITION", ref, count, room),
               Promise!AskedByPosition(ref, count), room)
<1> DEFINE n == ulRecordCount
           asked == Promise!AskedByPosition(ref, count)
           answer == TL_encode_by_position("POSITION", ref, count, room)
           Answered(from, target) ==
             IF from > n THEN Nothing
             ELSE Encode(from, IF target > n THEN n ELSE target, room, 0)
<1>1. ContentOK /\ n \in 1 .. TL_MAX_ENTRIES /\ TL_MAX_ENTRIES \in Nat
      /\ TL_MAX_ENTRIES < HALF /\ HALF \in Nat /\ MODULUS = 2 * HALF
  BY ContentIs, HalfOK, TrendConstants DEF ContentOK
<1>2. asked = {i \in 1 .. n : \/ ref <= i /\ i < ref + count
                              \/ ref + count < i /\ i <= ref}
  BY <1>1, PositionAsked
<1>3. CASE count > 0
  <2>1. answer = Answered(ref, U(ref + count - 1))
    BY <1>3 DEF TL_encode_by_position
  <2>2. ref <= n => U(ref + count - 1) = ref + count - 1
    BY <1>1, <1>3, Wide
  <2>3. answer = Answered(ref, ref + count - 1)
    BY <1>1, <2>1, <2>2
  <2>4. \A i \in 1 .. n : i \in asked <=> ref <= i /\ i <= ref + count - 1
    BY <1>1, <1>2, <1>3
  <2>5. ref + count - 1 \in Int /\ ref \in Nat \ {0} /\ ref <= ref + count - 1
    BY <1>1, <1>3
  <2> HIDE DEF answer, asked
  <2>6. asked \in SUBSET (1 .. n)
    BY <1>2
  <2> QED
    BY <1>1, <2>3, <2>4, <2>5, <2>6, RangeExact DEF answer, asked
<1>4. CASE count < 0
  <2> DEFINE iTemp == ref + count + 1
  <2>1. ref \in -HALF .. HALF - 1 /\ iTemp \in -HALF .. HALF - 1
    BY <1>1, <1>4
  <2>2. S(ref) = ref /\ S(iTemp) = iTemp
    <3> HIDE DEF iTemp
    <3> QED
      BY <2>1, Signed
  <2>3. Backwards(ref, count) = IF iTemp < 1 THEN <<1, ref>> ELSE <<iTemp, -count>>
    BY <2>2 DEF Backwards
  <2>4. U(ref) = ref
    BY <1>1, Wide
  <2>5. answer = IF iTemp < 1 THEN Answered(1, ref) ELSE Answered(iTemp, ref)
    <3>1. iTemp < 1 => 1 + ref - 1 = ref
      BY <1>1
    <3>2. iTemp + (-count) - 1 = ref
      BY <1>1
    <3>3. ~ (count > 0) /\ "POSITION" # "ALL" /\ count < 0
      BY <1>1, <1>4
    <3>4. answer = LET range == Backwards(ref, count) IN Answered(range[1], U(range[1] + range[2] - 1))
      BY <3>3 DEF TL_encode_by_position
    <3> HIDE DEF iTemp, answer
    <3> QED
      BY <2>3, <2>4, <3>1, <3>2, <3>4
  <2>6. CASE iTemp < 1
    <3>1. \A i \in 1 .. n : i \in asked <=> 1 <= i /\ i <= ref
      BY <1>1, <1>2, <1>4, <2>6
    <3>2. asked \in SUBSET (1 .. n) /\ ref \in Int /\ 1 \in Nat \ {0} /\ 1 <= ref
      BY <1>1, <1>2
    <3>3. answer = Answered(1, ref)
      BY <2>5, <2>6
    <3> HIDE DEF answer, asked, iTemp
    <3> QED
      BY <1>1, <3>1, <3>2, <3>3, RangeExact DEF answer, asked
  <2>7. CASE ~ (iTemp < 1)
    <3>1. \A i \in 1 .. n : i \in asked <=> iTemp <= i /\ i <= ref
      BY <1>1, <1>2, <1>4, <2>7
    <3>2. asked \in SUBSET (1 .. n) /\ ref \in Int /\ iTemp \in Nat \ {0} /\ iTemp <= ref
      BY <1>1, <1>2, <1>4, <2>7
    <3>3. answer = Answered(iTemp, ref)
      BY <2>5, <2>7
    <3> HIDE DEF answer, asked, iTemp
    <3> QED
      BY <1>1, <3>1, <3>2, <3>3, RangeExact DEF answer, asked
  <2> QED
    BY <2>6, <2>7
<1> QED
  BY <1>1, <1>3, <1>4

LEMMA AllExact ==
  ASSUME RingTyped, NEW ref, NEW count, NEW room \in Nat \ {0}
  PROVE  Exact(TL_encode_by_position("ALL", ref, count, room), 1 .. ulRecordCount, room)
<1> DEFINE n == ulRecordCount
<1>1. ContentOK /\ n \in 1 .. TL_MAX_ENTRIES /\ TL_MAX_ENTRIES \in Nat
      /\ TL_MAX_ENTRIES < HALF /\ HALF \in Nat /\ MODULUS = 2 * HALF
  BY ContentIs, HalfOK, TrendConstants DEF ContentOK
<1>2. U(1 + n - 1) = n
  BY <1>1, Wide
<1>3. TL_encode_by_position("ALL", ref, count, room) = Encode(1, n, room, 0)
  BY <1>1, <1>2 DEF TL_encode_by_position
<1>4. 1 \in 1 .. n /\ n \in 1 .. n
  BY <1>1
<1> QED
  BY <1>1, <1>3, <1>4, EncodeExact

\* Ranges by sequence number.  The numbers begin to end, which may turn over.
InArc(x, begin, end) ==
  IF begin <= end THEN begin <= x /\ x <= end ELSE begin <= x \/ x <= end

Numbers(ref, count) ==
  IF count > 0 THEN {(ref + k) % MODULUS : k \in 0 .. count - 1}
  ELSE {(ref - k) % MODULUS : k \in 0 .. -count - 1}

Request(begin, end) ==
  /\ begin \in 0 .. MODULUS - 1 /\ end \in 0 .. MODULUS - 1
  /\ begin <= end => end - begin < HALF
  /\ begin > end => begin - end > HALF

LEMMA ArcOf ==
  ASSUME NEW ref \in 0 .. MODULUS - 1, NEW count \in -HALF .. HALF - 1, count # 0
  PROVE  /\ Request(Begin(ref, count), End(ref, count))
         /\ \A x \in 0 .. MODULUS - 1 :
              x \in Numbers(ref, count) <=> InArc(x, Begin(ref, count), End(ref, count))
<1>1. HALF \in Nat /\ MODULUS = 2 * HALF /\ MODULUS \in Nat
  BY HalfOK
<1>2. CASE count > 0
  <2> DEFINE last == ref + count - 1
             end == IF last < MODULUS THEN last ELSE last - MODULUS
  <2>1. last \in 0 .. 2 * MODULUS - 1
    BY <1>1, <1>2
  <2>2. Begin(ref, count) = ref /\ End(ref, count) = end
    <3>1. U(last) = end
      <4> HIDE DEF last
      <4> QED
        BY <1>1, <2>1, Wide
    <3> QED
      BY <1>1, <1>2, <3>1 DEF Begin, End
  <2>3. \A k \in 0 .. count - 1 :
          (ref + k) % MODULUS = IF ref + k < MODULUS THEN ref + k ELSE (ref + k) - MODULUS
    <3> TAKE k \in 0 .. count - 1
    <3>1. ref + k \in 0 .. 2 * MODULUS - 1
      BY <1>1, <1>2
    <3>2. \A sum \in 0 .. 2 * MODULUS - 1 :
            sum % MODULUS = IF sum < MODULUS THEN sum ELSE sum - MODULUS
      BY <1>1, Wide DEF U
    <3> QED
      BY <3>1, <3>2
  <2>4. Request(ref, end)
    BY <1>1, <1>2 DEF Request
  <2>5. ASSUME NEW x \in 0 .. MODULUS - 1
        PROVE  x \in Numbers(ref, count) <=> InArc(x, ref, end)
    <3>1. ASSUME x \in Numbers(ref, count) PROVE InArc(x, ref, end)
      <4>1. PICK k \in 0 .. count - 1 : x = (ref + k) % MODULUS
        BY <1>2, <3>1 DEF Numbers
      <4>2. x = IF ref + k < MODULUS THEN ref + k ELSE (ref + k) - MODULUS
        BY <2>3, <4>1
      <4> QED
        BY <1>1, <1>2, <4>2 DEF InArc
    <3>2. ASSUME InArc(x, ref, end) PROVE x \in Numbers(ref, count)
      <4> DEFINE k == IF x >= ref THEN x - ref ELSE x - ref + MODULUS
      <4>1. k \in 0 .. count - 1
        BY <1>1, <1>2, <3>2 DEF InArc
      <4>2. x = IF ref + k < MODULUS THEN ref + k ELSE (ref + k) - MODULUS
        BY <1>1
      <4>3. x = (ref + k) % MODULUS
        <5> HIDE DEF k
        <5> QED
          BY <2>3, <4>1, <4>2
      <4> HIDE DEF k
      <4> QED
        BY <1>2, <4>1, <4>3 DEF Numbers
    <3> QED
      BY <3>1, <3>2
  <2> HIDE DEF end
  <2> QED
    BY <2>2, <2>4, <2>5
<1>3. CASE count < 0
  <2> DEFINE first == ref + count + 1
             begin == IF first < 0 THEN first + MODULUS ELSE first
  <2>1. first \in -MODULUS .. MODULUS - 1
    BY <1>1, <1>3
  <2>2. Begin(ref, count) = begin /\ End(ref, count) = ref
    <3>1. U(first) = begin
      <4> HIDE DEF first
      <4> QED
        BY <1>1, <2>1, Wide
    <3> QED
      BY <1>1, <1>3, <3>1 DEF Begin, End
  <2>3. \A k \in 0 .. -count - 1 :
          (ref - k) % MODULUS = IF ref - k < 0 THEN ref - k + MODULUS ELSE ref - k
    <3> TAKE k \in 0 .. -count - 1
    <3> DEFINE sum == ref - k
    <3>1. sum \in -MODULUS .. MODULUS - 1
      BY <1>1, <1>3
    <3> HIDE DEF sum
    <3>2. U(sum) = IF sum < 0 THEN sum + MODULUS ELSE sum
      BY <1>1, <3>1, Wide
    <3> QED
      BY <3>2 DEF U, sum
  <2>4. Request(begin, ref)
    BY <1>1, <1>3 DEF Request
  <2>5. ASSUME NEW x \in 0 .. MODULUS - 1
        PROVE  x \in Numbers(ref, count) <=> InArc(x, begin, ref)
    <3>0. ~ (count > 0)
      BY <1>1, <1>3
    <3>1. ASSUME x \in Numbers(ref, count) PROVE InArc(x, begin, ref)
      <4>1. PICK k \in 0 .. -count - 1 : x = (ref - k) % MODULUS
        BY <3>0, <3>1 DEF Numbers
      <4>2. x = IF ref - k < 0 THEN ref - k + MODULUS ELSE ref - k
        BY <2>3, <4>1
      <4> QED
        BY <1>1, <1>3, <4>2 DEF InArc
    <3>2. ASSUME InArc(x, begin, ref) PROVE x \in Numbers(ref, count)
      <4> DEFINE k == IF x <= ref THEN ref - x ELSE ref - x + MODULUS
      <4>1. k \in 0 .. -count - 1
        BY <1>1, <1>3, <3>2 DEF InArc
      <4>2. x = IF ref - k < 0 THEN ref - k + MODULUS ELSE ref - k
        BY <1>1
      <4>3. x = (ref - k) % MODULUS
        <5> HIDE DEF k
        <5> QED
          BY <2>3, <4>1, <4>2
      <4> HIDE DEF k
      <4> QED
        BY <3>0, <4>1, <4>3 DEF Numbers
    <3> QED
      BY <3>1, <3>2
  <2> HIDE DEF begin
  <2> QED
    BY <2>2, <2>4, <2>5
<1> QED
  BY <1>1, <1>2, <1>3

\* The number of record i in a log whose first record has number first.
NumberFrom(first, i) ==
  IF first + i - 1 < MODULUS THEN first + i - 1 ELSE first + i - 1 - MODULUS

FirstOK ==
  /\ FirstSeq \in 0 .. MODULUS - 1 /\ ulTotalRecordCount \in 0 .. MODULUS - 1
  /\ ulRecordCount \in 1 .. HALF - 1
  /\ FirstSeq = IF ulTotalRecordCount < ulRecordCount - 1
                  THEN ulTotalRecordCount - (ulRecordCount - 1) + MODULUS
                  ELSE ulTotalRecordCount - (ulRecordCount - 1)

LEMMA FirstIs == RingTyped => FirstOK
<1> SUFFICES ASSUME RingTyped PROVE FirstOK
  OBVIOUS
<1> DEFINE oldest == ulTotalRecordCount - (ulRecordCount - 1)
<1>1. HALF \in Nat /\ MODULUS = 2 * HALF /\ MODULUS \in Nat
      /\ ulRecordCount \in 1 .. HALF - 1 /\ ulTotalRecordCount \in 0 .. MODULUS - 1
  BY HalfOK, TrendConstants DEF RingTyped
<1>2. oldest \in -MODULUS .. MODULUS - 1
  BY <1>1
<1>3. FirstSeq = IF oldest < 0 THEN oldest + MODULUS ELSE oldest
  <2>1. FirstSeq = U(oldest)
    BY DEF FirstSeq
  <2> HIDE DEF oldest
  <2> QED
    BY <1>1, <1>2, <2>1, Wide
<1> QED
  BY <1>1, <1>3 DEF FirstOK

LEMMA NumberIs ==
  ASSUME RingTyped, NEW i \in 1 .. ulRecordCount
  PROVE  /\ Promise!Number(i) = NumberFrom(FirstSeq, i)
         /\ NumberFrom(FirstSeq, i) \in 0 .. MODULUS - 1
<1> DEFINE k == ulTotalRecordCount - ulRecordCount + i
<1>1. HALF \in Nat /\ MODULUS = 2 * HALF /\ MODULUS \in Nat
  BY HalfOK
<1>2. FirstOK
  BY FirstIs
<1>3. k \in -MODULUS .. MODULUS - 1
  BY <1>1, <1>2 DEF FirstOK
<1>4. U(k) = IF k < 0 THEN k + MODULUS ELSE k
  <2> HIDE DEF k
  <2> QED
    BY <1>1, <1>3, Wide
<1>5. Promise!Number(i) = U(k)
  <2>1. Len(Content) = ulRecordCount
    BY ContentIs DEF ContentOK
  <2> QED
    BY <2>1, Zenon DEF Promise!Number, Content, U, k
<1>6. /\ (IF k < 0 THEN k + MODULUS ELSE k) = NumberFrom(FirstSeq, i)
      /\ NumberFrom(FirstSeq, i) \in 0 .. MODULUS - 1
  BY <1>1, <1>2 DEF FirstOK, NumberFrom
<1> QED
  BY <1>4, <1>5, <1>6

\* What Overlap has to return for the records that are asked for.
Selects(range, from, upto, begin, end) ==
  /\ from \in 1 .. ulRecordCount /\ upto \in from .. ulRecordCount
  /\ range[1] = NumberFrom(FirstSeq, from) /\ range[2] = NumberFrom(FirstSeq, upto)
  /\ \A i \in 1 .. ulRecordCount :
       InArc(NumberFrom(FirstSeq, i), begin, end) <=> from <= i /\ i <= upto

SelectsNone(begin, end) ==
  \A i \in 1 .. ulRecordCount : ~ InArc(NumberFrom(FirstSeq, i), begin, end)

Overlaps(range, begin, end) ==
  \/ range = <<>> /\ SelectsNone(begin, end)
  \/ range # <<>> /\ \E from, upto \in Nat : Selects(range, from, upto, begin, end)

LEMMA OverlapStraight ==
  ASSUME FirstOK, NEW begin, NEW end, Request(begin, end), FirstSeq <= ulTotalRecordCount
  PROVE  Overlaps(Overlap(begin, end, FirstSeq), begin, end)
<1> DEFINE range == Overlap(begin, end, FirstSeq)
           n == ulRecordCount
           total == ulTotalRecordCount
<1> SUFFICES Overlaps(range, begin, end)
  OBVIOUS
<1>1. HALF \in Nat /\ MODULUS = 2 * HALF /\ MODULUS \in Nat
  BY HalfOK
<1>2. /\ n \in 1 .. HALF - 1 /\ total \in 0 .. MODULUS - 1
      /\ FirstSeq = total - (n - 1) /\ FirstSeq \in 0 .. total
  BY <1>1 DEF FirstOK
<1>3. \A i \in 1 .. n : NumberFrom(FirstSeq, i) = FirstSeq + i - 1
  BY <1>1, <1>2 DEF NumberFrom
<1>4. /\ begin \in 0 .. MODULUS - 1 /\ end \in 0 .. MODULUS - 1
      /\ begin <= end => end - begin < HALF
      /\ begin > end => begin - end > HALF
  BY DEF Request
<1>5. ASSUME NEW x \in FirstSeq .. total, NEW y \in x .. total, range = <<x, y>>,
             \A z \in FirstSeq .. total : InArc(z, begin, end) <=> x <= z /\ z <= y
      PROVE  Overlaps(range, begin, end)
  <2> DEFINE from == x - FirstSeq + 1
             upto == y - FirstSeq + 1
  <2>1. from \in 1 .. n /\ upto \in from .. n /\ from \in Nat /\ upto \in Nat
    BY <1>2
  <2>2. range[1] = x /\ range[2] = y /\ range # <<>>
    BY <1>5
  <2>3. x = NumberFrom(FirstSeq, from) /\ y = NumberFrom(FirstSeq, upto)
    <3>1. x = FirstSeq + from - 1 /\ y = FirstSeq + upto - 1 /\ upto \in 1 .. n
      BY <1>2, <2>1
    <3> HIDE DEF from, upto
    <3> QED
      BY <1>3, <2>1, <3>1
  <2>4. ASSUME NEW i \in 1 .. n
        PROVE  InArc(NumberFrom(FirstSeq, i), begin, end) <=> from <= i /\ i <= upto
    <3> DEFINE z == FirstSeq + i - 1
    <3>1. z \in FirstSeq .. total
      BY <1>2
    <3>2. InArc(z, begin, end) <=> x <= z /\ z <= y
      <4> HIDE DEF z
      <4> QED
        BY <1>5, <3>1
    <3>3. (x <= z /\ z <= y) <=> (from <= i /\ i <= upto)
      BY <1>2
    <3> QED
      BY <1>3, <3>2, <3>3
  <2> HIDE DEF from, upto, range
  <2>5. Selects(range, from, upto, begin, end)
    BY <2>1, <2>2, <2>3, <2>4 DEF Selects
  <2> QED
    BY <2>1, <2>2, <2>5 DEF Overlaps
<1>6. ASSUME range = <<>>, \A z \in FirstSeq .. total : ~ InArc(z, begin, end)
      PROVE  Overlaps(range, begin, end)
  <2>1. \A i \in 1 .. n : FirstSeq + i - 1 \in FirstSeq .. total
    BY <1>2
  <2>2. \A i \in 1 .. n : ~ InArc(NumberFrom(FirstSeq, i), begin, end)
    BY <1>3, <1>6, <2>1
  <2> QED
    BY <1>6, <2>2 DEF Overlaps, SelectsNone
<1>7. CASE begin <= end
  <2>1. ~ (begin > end) /\ ~ (FirstSeq > total)
    BY <1>2, <1>4, <1>7
  <2>2. range = IF end < FirstSeq \/ begin > total THEN <<>>
                ELSE <<Larger(begin, FirstSeq), Smaller(end, total)>>
    BY <2>1 DEF Overlap
  <2>3. CASE end < FirstSeq \/ begin > total
    <3>1. \A z \in FirstSeq .. total : ~ InArc(z, begin, end)
      BY <1>2, <1>4, <1>7, <2>3 DEF InArc
    <3> HIDE DEF range
    <3> QED
      BY <1>6, <2>2, <2>3, <3>1
  <2>4. CASE ~ (end < FirstSeq \/ begin > total)
    <3>1. /\ Larger(begin, FirstSeq) \in FirstSeq .. total
          /\ Smaller(end, total) \in Larger(begin, FirstSeq) .. total
      BY <1>2, <1>4, <1>7, <2>4 DEF Larger, Smaller
    <3>2. \A z \in FirstSeq .. total :
            InArc(z, begin, end) <=> Larger(begin, FirstSeq) <= z /\ z <= Smaller(end, total)
      BY <1>2, <1>4, <1>7, <2>4 DEF InArc, Larger, Smaller
    <3> HIDE DEF range
    <3> QED
      BY <1>5, <2>2, <2>4, <3>1, <3>2
  <2> QED
    BY <2>3, <2>4
<1>8. CASE begin > end
  <2>1. ~ (FirstSeq > total)
    BY <1>2
  <2>2. CASE begin > total /\ end < FirstSeq
    <3>1. range = <<>>
      BY <1>8, <2>1, <2>2 DEF Overlap
    <3>2. \A z \in FirstSeq .. total : ~ InArc(z, begin, end)
      BY <1>2, <1>4, <1>8, <2>2 DEF InArc
    <3> HIDE DEF range
    <3> QED
      BY <1>6, <3>1, <3>2
  <2>3. CASE ~ (begin > total /\ end < FirstSeq) /\ end < FirstSeq
    <3>1. range = <<Larger(begin, FirstSeq), total>>
      BY <1>8, <2>1, <2>3 DEF Overlap
    <3>2. Larger(begin, FirstSeq) \in FirstSeq .. total /\ total \in Larger(begin, FirstSeq) .. total
      BY <1>2, <1>4, <1>8, <2>3 DEF Larger
    <3>3. \A z \in FirstSeq .. total :
            InArc(z, begin, end) <=> Larger(begin, FirstSeq) <= z /\ z <= total
      BY <1>2, <1>4, <1>8, <2>3 DEF InArc, Larger
    <3> HIDE DEF range
    <3> QED
      BY <1>5, <3>1, <3>2, <3>3
  <2>4. CASE ~ (begin > total /\ end < FirstSeq) /\ ~ (end < FirstSeq)
    <3>1. range = <<FirstSeq, Smaller(end, total)>>
      BY <1>8, <2>1, <2>4 DEF Overlap
    <3>2. FirstSeq \in FirstSeq .. total /\ Smaller(end, total) \in FirstSeq .. total
      BY <1>2, <1>4, <1>8, <2>4 DEF Smaller
    <3>3. \A z \in FirstSeq .. total :
            InArc(z, begin, end) <=> FirstSeq <= z /\ z <= Smaller(end, total)
      BY <1>1, <1>2, <1>4, <1>8, <2>4 DEF InArc, Smaller
    <3> HIDE DEF range
    <3> QED
      BY <1>5, <3>1, <3>2, <3>3
  <2> QED
    BY <2>2, <2>3, <2>4
<1> QED
  BY <1>4, <1>7, <1>8

\* The log's numbers turn over: it has the numbers up to total and those from
\* FirstSeq.
LEMMA OverlapTurned ==
  ASSUME FirstOK, NEW begin, NEW end, Request(begin, end),
         FirstSeq > ulTotalRecordCount, begin <= ulTotalRecordCount
  PROVE  Overlaps(Overlap(begin, end, FirstSeq), begin, end)
<1> DEFINE range == Overlap(begin, end, FirstSeq)
           n == ulRecordCount
           total == ulTotalRecordCount
<1> SUFFICES Overlaps(range, begin, end)
  OBVIOUS
<1>1. HALF \in Nat /\ MODULUS = 2 * HALF /\ MODULUS \in Nat
  BY HalfOK
<1>2. /\ n \in 1 .. HALF - 1 /\ total \in 0 .. n - 2
      /\ FirstSeq = total - (n - 1) + MODULUS /\ FirstSeq \in HALF + 1 .. MODULUS - 1
  BY <1>1 DEF FirstOK
<1>3. /\ begin \in 0 .. total /\ end \in 0 .. MODULUS - 1
      /\ begin <= end => end - begin < HALF
      /\ begin > end => begin - end > HALF
  BY <1>2 DEF Request
<1>4. begin <= end
  BY <1>1, <1>2, <1>3
<1>5. end < FirstSeq
  BY <1>1, <1>2, <1>3, <1>4
<1>6. range = <<begin, Smaller(end, total)>>
  <2>1. /\ ~ (begin > end) /\ FirstSeq > total /\ ~ (begin > total)
    BY <1>2, <1>3, <1>4
  <2> QED
    BY <2>1 DEF Overlap
<1> DEFINE last == Smaller(end, total)
           from == begin - total + n
           upto == last - total + n
<1>7. last \in begin .. total /\ last <= end /\ (last = end \/ last = total)
  BY <1>2, <1>3, <1>4 DEF Smaller
<1>8. from \in 1 .. n /\ upto \in from .. n /\ from \in Nat /\ upto \in Nat
  <2> HIDE DEF last
  <2> QED
    BY <1>1, <1>2, <1>3, <1>7
<1>9. begin = NumberFrom(FirstSeq, from) /\ last = NumberFrom(FirstSeq, upto)
  <2> HIDE DEF last
  <2> QED
    BY <1>1, <1>2, <1>3, <1>7 DEF NumberFrom
<1>10. ASSUME NEW i \in 1 .. n
       PROVE  InArc(NumberFrom(FirstSeq, i), begin, end) <=> from <= i /\ i <= upto
  <2> HIDE DEF last
  <2> QED
    BY <1>1, <1>2, <1>3, <1>4, <1>5, <1>7 DEF NumberFrom, InArc
<1>11. range[1] = begin /\ range[2] = last /\ range # <<>>
  BY <1>6
<1> HIDE DEF from, upto, last, range
<1>12. Selects(range, from, upto, begin, end)
  BY <1>8, <1>9, <1>10, <1>11 DEF Selects
<1> QED
  BY <1>8, <1>11, <1>12 DEF Overlaps

\* The positions of the first and the last of them.
LEMMA Positions ==
  ASSUME FirstOK, NEW from \in 1 .. ulRecordCount, NEW upto \in from .. ulRecordCount
  PROVE  LET low  == NumberFrom(FirstSeq, from)
             high == NumberFrom(FirstSeq, upto)
         IN  U(low - FirstSeq + 1) = from /\ from + U(high + 1 - low) - 1 = upto
<1> DEFINE low  == NumberFrom(FirstSeq, from)
           high == NumberFrom(FirstSeq, upto)
           k == low - FirstSeq + 1
           m == high + 1 - low
<1>1. HALF \in Nat /\ MODULUS = 2 * HALF /\ MODULUS \in Nat
  BY HalfOK
<1>2. /\ ulRecordCount \in 1 .. HALF - 1 /\ FirstSeq \in 0 .. MODULUS - 1
      /\ upto \in 1 .. ulRecordCount
  BY <1>1 DEF FirstOK
<1>3. k = from \/ k = from - MODULUS
  BY <1>1, <1>2 DEF NumberFrom
<1>4. m = upto - from + 1 \/ m = upto - from + 1 - MODULUS
  BY <1>1, <1>2 DEF NumberFrom
<1>5. \A x \in 1 .. ulRecordCount : U(x) = x /\ U(x - MODULUS) = x
  <2> TAKE x \in 1 .. ulRecordCount
  <2> DEFINE y == x - MODULUS
  <2>1. x \in 0 .. MODULUS - 1 /\ y \in -MODULUS .. -1
    BY <1>1, <1>2
  <2> HIDE DEF y
  <2>2. U(x) = x /\ U(y) = y + MODULUS
    BY <2>1, Wide
  <2> QED
    BY <1>1, <2>2 DEF y
<1>6. U(k) = from
  <2> HIDE DEF k
  <2> QED
    BY <1>2, <1>3, <1>5
<1>7. U(m) = upto - from + 1
  <2> DEFINE size == upto - from + 1
  <2>1. size \in 1 .. ulRecordCount
    BY <1>2
  <2>2. m = size \/ m = size - MODULUS
    BY <1>1, <1>2, <1>4
  <2> HIDE DEF m, size
  <2>3. U(m) = size
    BY <1>5, <2>1, <2>2
  <2> QED
    BY <2>3 DEF size
<1>8. from + (upto - from + 1) - 1 = upto
  BY <1>2
<1> QED
  BY <1>6, <1>7, <1>8

LEMMA SequenceAsked ==
  ASSUME ContentOK, NEW ref, NEW count
  PROVE  Promise!AskedBySequence(ref, count) =
           {i \in 1 .. ulRecordCount : Promise!Number(i) \in Numbers(ref, count)}
<1>1. Len(Content) = ulRecordCount
  BY DEF ContentOK
<1> QED
  BY <1>1, Zenon DEF Promise!AskedBySequence, Content, Numbers

LEMMA SequenceExact ==
  ASSUME RingTyped, NEW ref \in 0 .. MODULUS - 1, NEW count \in -HALF .. HALF - 1,
         count # 0, NEW room \in Nat \ {0},
         ~ (FirstSeq > ulTotalRecordCount /\ Begin(ref, count) > ulTotalRecordCount)
  PROVE  LET a == TL_encode_by_sequence(ref, count, room)
             asked == Promise!AskedBySequence(ref, count)
         IN  Exact(a, asked, room) /\ Numbered(a, asked, room)
<1> DEFINE begin == Begin(ref, count)
           end == End(ref, count)
           range == Overlap(begin, end, FirstSeq)
           asked == Promise!AskedBySequence(ref, count)
           a == TL_encode_by_sequence(ref, count, room)
<1>1. ContentOK /\ FirstOK
  BY ContentIs, FirstIs
<1>2. Request(begin, end)
  BY ArcOf
<1>3. \A i \in 1 .. ulRecordCount :
        i \in asked <=> InArc(NumberFrom(FirstSeq, i), begin, end)
  <2> TAKE i \in 1 .. ulRecordCount
  <2>1. i \in asked <=> Promise!Number(i) \in Numbers(ref, count)
    BY <1>1, SequenceAsked
  <2> HIDE DEF asked, begin, end
  <2>2. Promise!Number(i) = NumberFrom(FirstSeq, i) /\ NumberFrom(FirstSeq, i) \in 0 .. MODULUS - 1
    BY NumberIs
  <2>3. NumberFrom(FirstSeq, i) \in Numbers(ref, count)
          <=> InArc(NumberFrom(FirstSeq, i), begin, end)
    BY <2>2, ArcOf DEF begin, end
  <2> QED
    BY <2>1, <2>2, <2>3, Zenon
<1>4. Overlaps(range, begin, end)
  <2>1. FirstSeq \in Int /\ ulTotalRecordCount \in Int /\ begin \in Int
    BY <1>1, <1>2, HalfOK DEF FirstOK, Request
  <2> HIDE DEF begin, end
  <2>2. CASE FirstSeq <= ulTotalRecordCount
    BY <1>1, <1>2, <2>2, OverlapStraight
  <2>3. CASE ~ (FirstSeq <= ulTotalRecordCount)
    <3>1. FirstSeq > ulTotalRecordCount
      BY <2>1, <2>3
    <3>2. begin <= ulTotalRecordCount
      BY <2>1, <3>1 DEF begin
    <3> QED
      BY <1>1, <1>2, <3>1, <3>2, OverlapTurned
  <2> QED
    BY <2>2, <2>3
<1>5. asked \subseteq 1 .. ulRecordCount
  BY <1>1, SequenceAsked
<1>6. a = IF range = <<>> THEN Nothing
          ELSE LET uiIndex == U(range[1] - FirstSeq + 1)
               IN  Encode(uiIndex, uiIndex + U(range[2] + 1 - range[1]) - 1, room, range[1])
  BY Zenon DEF TL_encode_by_sequence
<1> SUFFICES Exact(a, asked, room) /\ Numbered(a, asked, room)
  OBVIOUS
<1> HIDE DEF a, asked, range, begin, end
<1>7. CASE range = <<>> /\ SelectsNone(begin, end)
  <2>1. asked = {}
    BY <1>3, <1>5, <1>7 DEF SelectsNone
  <2> QED
    BY <1>1, <1>6, <1>7, <2>1, NothingExact
<1>8. CASE range # <<>> /\ \E from, upto \in Nat : Selects(range, from, upto, begin, end)
  <2>1. PICK from \in Nat, upto \in Nat : Selects(range, from, upto, begin, end)
    BY <1>8
  <2>2. /\ from \in 1 .. ulRecordCount /\ upto \in from .. ulRecordCount
        /\ range[1] = NumberFrom(FirstSeq, from) /\ range[2] = NumberFrom(FirstSeq, upto)
        /\ \A i \in 1 .. ulRecordCount :
             InArc(NumberFrom(FirstSeq, i), begin, end) <=> from <= i /\ i <= upto
    BY <2>1, Zenon DEF Selects
  <2>3. U(range[1] - FirstSeq + 1) = from /\ from + U(range[2] + 1 - range[1]) - 1 = upto
    BY <1>1, <2>2, Positions
  <2>4. a = Encode(from, upto, room, range[1])
    BY <1>6, <1>8, <2>3, Zenon
  <2>5. asked = from .. upto
    <3>1. from .. upto \subseteq 1 .. ulRecordCount
      BY <1>1, <2>2 DEF ContentOK
    <3>2. \A i \in 1 .. ulRecordCount : i \in asked <=> i \in from .. upto
      BY <1>1, <1>3, <2>2 DEF ContentOK
    <3> QED
      BY <1>5, <3>1, <3>2
  <2>6. range[1] = Promise!Number(from)
    BY <2>2, NumberIs
  <2>7. /\ Exact(Encode(from, upto, room, range[1]), from .. upto, room)
        /\ Numbered(Encode(from, upto, room, range[1]), from .. upto, room)
    BY <1>1, <2>2, <2>6, EncodeExact
  <2> QED
    BY <2>4, <2>5, <2>7, Zenon
<1> QED
  BY <1>4, <1>7, <1>8, Zenon DEF Overlaps

\* Ranges by time.  The records are in order of time, so that the newer ones are
\* the last and the older ones the first.
LEMMA TimeAsked ==
  ASSUME ContentOK, NEW ref, NEW count
  PROVE  Promise!AskedByTime(ref, count) =
           IF count > 0
             THEN Promise!FirstOf(count, {i \in 1 .. ulRecordCount : Entry(i).tTimeStamp > ref})
             ELSE Promise!LastOf(-count, {i \in 1 .. ulRecordCount : Entry(i).tTimeStamp < ref})
<1>1. Len(Content) = ulRecordCount
  BY DEF ContentOK
<1>2. \A i \in 1 .. ulRecordCount : Content[i].time = Entry(i).tTimeStamp
  BY DEF ContentOK, Record
<1>3. Promise!AskedByTime(ref, count) =
        IF count > 0
          THEN Promise!FirstOf(count, {i \in 1 .. Len(Content) : Content[i].time > ref})
          ELSE Promise!LastOf(-count, {i \in 1 .. Len(Content) : Content[i].time < ref})
  BY Zenon DEF Promise!AskedByTime, Content
<1>4. /\ {i \in 1 .. ulRecordCount : Content[i].time > ref}
           = {i \in 1 .. ulRecordCount : Entry(i).tTimeStamp > ref}
      /\ {i \in 1 .. ulRecordCount : Content[i].time < ref}
           = {i \in 1 .. ulRecordCount : Entry(i).tTimeStamp < ref}
  BY <1>2
<1> QED
  BY <1>1, <1>3, <1>4, Zenon

LEMMA NewerExact ==
  ASSUME RingTyped, Ordered, NEW ref \in Nat, NEW count \in 1 .. HALF - 1,
         NEW room \in Nat \ {0}
  PROVE  LET a == TL_encode_by_time(ref, count, room)
             asked == Promise!AskedByTime(ref, count)
         IN  Exact(a, asked, room) /\ Numbered(a, asked, room)
<1> DEFINE n == ulRecordCount
           newer == {i \in 1 .. n : Entry(i).tTimeStamp > ref}
           asked == Promise!AskedByTime(ref, count)
           a == TL_encode_by_time(ref, count, room)
<1> SUFFICES Exact(a, asked, room) /\ Numbered(a, asked, room)
  OBVIOUS
<1>1. ContentOK /\ FirstOK /\ n \in Nat \ {0} /\ HALF \in Nat /\ MODULUS = 2 * HALF
  BY ContentIs, FirstIs, HalfOK DEF ContentOK
<1>2. \A i \in 1 .. n : Entry(i).tTimeStamp \in Nat
  BY <1>1 DEF ContentOK, Entries
<1>3. \A i \in 0 .. n - 1 : i \in Newer(ref) <=> i + 1 \in newer
  BY <1>1 DEF Newer
<1>4. Newer(ref) \subseteq 0 .. n - 1 /\ newer \subseteq 1 .. n
  BY DEF Newer
<1>5. ~ (count < 0) /\ count > 0
  BY <1>1
<1>6. asked = Promise!FirstOf(count, newer)
  BY <1>1, <1>5, TimeAsked
<1>7. a = IF Newer(ref) = {} THEN Nothing
          ELSE LET iCount == CHOOSE i \in Newer(ref) : \A j \in Newer(ref) : i <= j
               IN  Encode(iCount + 1, Smaller(iCount + count, n), room, U(FirstSeq + iCount))
  BY <1>5, Zenon DEF TL_encode_by_time
<1> HIDE DEF a, asked
<1>8. CASE Newer(ref) = {}
  <2>1. newer = {}
    <3> SUFFICES ASSUME NEW i \in newer PROVE FALSE
      OBVIOUS
    <3>1. i \in 1 .. n /\ i - 1 \in 0 .. n - 1 /\ (i - 1) + 1 = i
      BY <1>1
    <3> HIDE DEF newer
    <3>2. i - 1 \in Newer(ref)
      BY <1>3, <3>1
    <3> QED
      BY <1>8, <3>2
  <2>2. asked = {}
    BY <1>6, <2>1 DEF Promise!FirstOf
  <2> QED
    BY <1>1, <1>7, <1>8, <2>2, NothingExact
<1>9. CASE Newer(ref) # {}
  <2> DEFINE iCount == CHOOSE i \in Newer(ref) : \A j \in Newer(ref) : i <= j
  <2>1. iCount \in Newer(ref) /\ \A j \in Newer(ref) : iCount <= j
    <3>1. Newer(ref) \in SUBSET Nat
      BY <1>1, <1>4
    <3>2. Min(Newer(ref)) \in Newer(ref) /\ \A j \in Newer(ref) : Min(Newer(ref)) <= j
      BY <1>9, <3>1, MinNat
    <3> QED
      BY <3>2, Zenon
  <2> HIDE DEF iCount
  <2>2. iCount \in 0 .. n - 1
    BY <1>4, <2>1
  <2>3. newer = iCount + 1 .. n
    <3>1. ASSUME NEW i \in 1 .. n PROVE i \in newer <=> iCount + 1 <= i
      <4>1. ASSUME i \in newer PROVE iCount + 1 <= i
        <5>1. i - 1 \in 0 .. n - 1 /\ (i - 1) + 1 = i
          BY <1>1
        <5>2. i - 1 \in Newer(ref)
          BY <1>3, <4>1, <5>1
        <5> QED
          BY <2>1, <2>2, <5>2
      <4>2. ASSUME iCount + 1 <= i PROVE i \in newer
        <5>1. iCount + 1 \in 1 .. n /\ iCount + 1 \in newer
          BY <1>1, <1>3, <2>1, <2>2
        <5>2. Entry(iCount + 1).tTimeStamp <= Entry(i).tTimeStamp
          BY <4>2, <5>1 DEF Ordered
        <5> QED
          BY <1>2, <5>1, <5>2
      <4> QED
        BY <4>1, <4>2
    <3>2. iCount + 1 .. n \subseteq 1 .. n
      BY <1>1, <2>2
    <3>3. \A i \in 1 .. n : i \in iCount + 1 .. n <=> iCount + 1 <= i
      BY <1>1, <2>2
    <3> HIDE DEF newer
    <3>4. newer \subseteq 1 .. n
      BY <1>4
    <3> DEFINE above == iCount + 1 .. n
    <3>5. above \subseteq 1 .. n /\ \A i \in 1 .. n : i \in newer <=> i \in above
      BY <3>1, <3>2, <3>3
    <3> HIDE DEF above
    <3>6. newer = above
      BY <3>4, <3>5
    <3> QED
      BY <3>6 DEF above
  <2>4. /\ iCount + 1 \in 1 .. n
        /\ Smaller(iCount + count, n) \in iCount + 1 .. n
        /\ Smaller(iCount + count, n)
             = IF n < iCount + 1 + count THEN n ELSE iCount + 1 + count - 1
    BY <1>1, <2>2 DEF Smaller
  <2>5. asked = iCount + 1 .. Smaller(iCount + count, n)
    <3> DEFINE low == iCount + 1
    <3>1. low \in Int /\ n \in Int /\ low <= n /\ count \in Nat \ {0}
      BY <1>1, <2>2
    <3>2. newer = low .. n
      BY <2>3
    <3>3. Smaller(iCount + count, n) = IF n < low + count THEN n ELSE low + count - 1
      BY <2>4
    <3> HIDE DEF low, newer
    <3>4. Promise!FirstOf(count, low .. n) = low .. (IF n < low + count THEN n ELSE low + count - 1)
      BY <3>1, FirstOfInterval
    <3> QED
      BY <1>6, <3>2, <3>3, <3>4 DEF low
  <2>6. a = Encode(iCount + 1, Smaller(iCount + count, n), room, U(FirstSeq + iCount))
    BY <1>7, <1>9, Zenon DEF iCount
  <2>7. U(FirstSeq + iCount) = Promise!Number(iCount + 1)
    <3> DEFINE k == FirstSeq + iCount
    <3>1. k \in 0 .. 2 * MODULUS - 1
      BY <1>1, <2>2 DEF FirstOK
    <3>2. NumberFrom(FirstSeq, iCount + 1) = IF k < MODULUS THEN k ELSE k - MODULUS
      BY <1>1, <2>2 DEF FirstOK, NumberFrom
    <3> HIDE DEF k
    <3>3. U(k) = IF k < MODULUS THEN k ELSE k - MODULUS
      BY <1>1, <3>1, Wide
    <3>4. Promise!Number(iCount + 1) = NumberFrom(FirstSeq, iCount + 1)
      BY <2>4, NumberIs
    <3> QED
      BY <3>2, <3>3, <3>4 DEF k
  <2> QED
    BY <1>1, <2>4, <2>5, <2>6, <2>7, EncodeExact
<1> QED
  BY <1>8, <1>9

LEMMA OlderExact ==
  ASSUME RingTyped, Ordered, NEW ref \in Nat, NEW count \in -HALF .. -1,
         NEW room \in Nat \ {0}
  PROVE  LET a == TL_encode_by_time(ref, count, room)
             asked == Promise!AskedByTime(ref, count)
         IN  Exact(a, asked, room) /\ Numbered(a, asked, room)
<1> DEFINE n == ulRecordCount
           older == {i \in 1 .. n : Entry(i).tTimeStamp < ref}
           asked == Promise!AskedByTime(ref, count)
           a == TL_encode_by_time(ref, count, room)
<1> SUFFICES Exact(a, asked, room) /\ Numbered(a, asked, room)
  OBVIOUS
<1>1. ContentOK /\ FirstOK /\ n \in Nat \ {0} /\ HALF \in Nat /\ MODULUS = 2 * HALF
  BY ContentIs, FirstIs, HalfOK DEF ContentOK
<1>2. \A i \in 1 .. n : Entry(i).tTimeStamp \in Nat
  BY <1>1 DEF ContentOK, Entries
<1>3. \A i \in 0 .. n - 1 : i \in Older(ref) <=> i + 1 \in older
  BY <1>1 DEF Older
<1>4. Older(ref) \subseteq 0 .. n - 1 /\ older \subseteq 1 .. n
  BY DEF Older
<1>5. count < 0 /\ ~ (count > 0) /\ -count \in Nat \ {0}
  BY <1>1
<1>6. asked = Promise!LastOf(-count, older)
  BY <1>1, <1>5, TimeAsked
<1>7. a = IF Older(ref) = {} THEN Nothing
          ELSE LET iCount == CHOOSE i \in Older(ref) : \A j \in Older(ref) : j <= i
                   start  == Larger(0, iCount - (-count - 1))
               IN  Encode(start + 1, iCount + 1, room,
                          U(ulTotalRecordCount - (n - 1 - start)))
  BY <1>5, Zenon DEF TL_encode_by_time
<1> HIDE DEF a, asked
<1>8. CASE Older(ref) = {}
  <2>1. older = {}
    <3> SUFFICES ASSUME NEW i \in older PROVE FALSE
      OBVIOUS
    <3>1. i \in 1 .. n /\ i - 1 \in 0 .. n - 1 /\ (i - 1) + 1 = i
      BY <1>1
    <3> HIDE DEF older
    <3>2. i - 1 \in Older(ref)
      BY <1>3, <3>1
    <3> QED
      BY <1>8, <3>2
  <2>2. asked = {}
    BY <1>6, <2>1 DEF Promise!LastOf
  <2> QED
    BY <1>1, <1>7, <1>8, <2>2, NothingExact
<1>9. CASE Older(ref) # {}
  <2> DEFINE iCount == CHOOSE i \in Older(ref) : \A j \in Older(ref) : j <= i
             start  == Larger(0, iCount - (-count - 1))
  <2>1. iCount \in Older(ref) /\ \A j \in Older(ref) : j <= iCount
    <3>1. Older(ref) \in SUBSET (0 .. n - 1) /\ n - 1 \in Nat
      BY <1>1, <1>4
    <3>2. Max(Older(ref)) \in Older(ref) /\ \A j \in Older(ref) : Max(Older(ref)) >= j
      BY <1>9, <3>1, MaxNat
    <3>3. \A j \in Older(ref) : j <= Max(Older(ref))
      BY <3>1, <3>2
    <3> QED
      BY <3>2, <3>3, Zenon
  <2> HIDE DEF iCount
  <2>2. iCount \in 0 .. n - 1
    BY <1>4, <2>1
  <2>3. older = 1 .. iCount + 1
    <3>1. ASSUME NEW i \in 1 .. n PROVE i \in older <=> i <= iCount + 1
      <4>1. ASSUME i \in older PROVE i <= iCount + 1
        <5>1. i - 1 \in 0 .. n - 1 /\ (i - 1) + 1 = i
          BY <1>1
        <5>2. i - 1 \in Older(ref)
          BY <1>3, <4>1, <5>1
        <5> QED
          BY <2>1, <2>2, <5>2
      <4>2. ASSUME i <= iCount + 1 PROVE i \in older
        <5>1. iCount + 1 \in 1 .. n /\ iCount + 1 \in older
          BY <1>1, <1>3, <2>1, <2>2
        <5>2. Entry(i).tTimeStamp <= Entry(iCount + 1).tTimeStamp
          BY <4>2, <5>1 DEF Ordered
        <5> QED
          BY <1>2, <5>1, <5>2
      <4> QED
        BY <4>1, <4>2
    <3> DEFINE below == 1 .. iCount + 1
    <3>2. below \subseteq 1 .. n /\ \A i \in 1 .. n : i \in below <=> i <= iCount + 1
      BY <1>1, <2>2
    <3> HIDE DEF older, below
    <3>3. older \subseteq 1 .. n /\ \A i \in 1 .. n : i \in older <=> i \in below
      BY <1>4, <3>1, <3>2
    <3>4. older = below
      BY <3>2, <3>3
    <3> QED
      BY <3>4 DEF below
  <2>4. /\ start + 1 \in 1 .. n /\ iCount + 1 \in start + 1 .. n /\ start \in 0 .. n - 1
        /\ start + 1 = IF iCount + 1 - (-count) < 1 THEN 1 ELSE iCount + 1 - (-count) + 1
    BY <1>1, <1>5, <2>2 DEF Larger
  <2>5. asked = start + 1 .. iCount + 1
    <3> DEFINE high == iCount + 1
               size == -count
    <3>1. high \in Int /\ 1 <= high /\ size \in Nat \ {0} /\ older = 1 .. high
      BY <1>5, <2>2, <2>3
    <3>2. start + 1 = IF high - size < 1 THEN 1 ELSE high - size + 1
      <4> HIDE DEF start
      <4> QED
        BY <1>1, <2>2, <2>4
    <3>3. asked = Promise!LastOf(size, older)
      BY <1>6
    <3> HIDE DEF high, size, older, start
    <3>4. Promise!LastOf(size, 1 .. high) = (IF high - size < 1 THEN 1 ELSE high - size + 1) .. high
      BY <3>1, LastOfInterval
    <3> QED
      BY <3>1, <3>2, <3>3, <3>4 DEF high
  <2>6. a = Encode(start + 1, iCount + 1, room, U(ulTotalRecordCount - (n - 1 - start)))
    BY <1>7, <1>9, Zenon DEF iCount
  <2> HIDE DEF start
  <2>7. U(ulTotalRecordCount - (n - 1 - start)) = Promise!Number(start + 1)
    <3> DEFINE k == ulTotalRecordCount - (n - 1 - start)
    <3>1. k \in -MODULUS .. MODULUS - 1
      BY <1>1, <2>4 DEF FirstOK
    <3>2. NumberFrom(FirstSeq, start + 1) = IF k < 0 THEN k + MODULUS ELSE k
      BY <1>1, <2>4 DEF FirstOK, NumberFrom
    <3> HIDE DEF k
    <3>3. U(k) = IF k < 0 THEN k + MODULUS ELSE k
      BY <1>1, <3>1, Wide
    <3>4. Promise!Number(start + 1) = NumberFrom(FirstSeq, start + 1)
      BY <2>4, NumberIs
    <3> QED
      BY <3>2, <3>3, <3>4 DEF k
  <2> QED
    BY <1>1, <2>4, <2>5, <2>6, <2>7, EncodeExact
<1> QED
  BY <1>8, <1>9

LEMMA RequestExact ==
  ASSUME TrendIInv, NEW q \in Requests, ~ LogTurned(q), ~ IndexTooLarge(q)
  PROVE  /\ Exact(rr_trend_log_encode(q), Selected(q), q.room)
         /\ q.type \in {"SEQUENCE", "TIME"} =>
              Numbered(rr_trend_log_encode(q), Selected(q), q.room)
<1>1. RingTyped /\ Ordered
  BY DEF TrendIInv
<1>2. HALF \in Nat /\ MODULUS = 2 * HALF /\ HALF > 0 /\ ulRecordCount # 0
  BY <1>1, HalfOK DEF RingTyped
<1>3. q.room \in Nat \ {0}
  BY TrendConstants DEF Requests
<1>4. CASE q.type = "POSITION"
  <2>1. q.ref \in 1 .. MODULUS - 1 /\ q.count \in -HALF .. HALF - 1 /\ q.count # 0
    <3>1. q.ref \in Refs \ {0} /\ q.count \in Counts
      BY <1>4 DEF Requests
    <3>2. /\ Refs \subseteq 0 .. MODULUS - 1 /\ MaxTime \in Nat
          /\ Counts \subseteq -HALF .. HALF - 1 /\ 0 \notin Counts
      BY TrendConstants
    <3>3. q.ref \in 1 .. MODULUS - 1
      <4>1. q.ref \in 0 .. MODULUS - 1 /\ q.ref # 0
        BY <3>1, <3>2
      <4> QED
        BY <1>2, <4>1
    <3>4. q.count \in -HALF .. HALF - 1 /\ q.count # 0
      BY <3>1, <3>2
    <3> QED
      BY <3>3, <3>4
  <2>2. q.count < 0 => q.ref < HALF
    BY <1>2, <1>4, <2>1 DEF IndexTooLarge
  <2>3. /\ rr_trend_log_encode(q) = TL_encode_by_position("POSITION", q.ref, q.count, q.room)
        /\ Selected(q) = Promise!AskedByPosition(q.ref, q.count)
    BY <1>2, <1>4 DEF rr_trend_log_encode, Selected
  <2>4. Exact(TL_encode_by_position("POSITION", q.ref, q.count, q.room),
              Promise!AskedByPosition(q.ref, q.count), q.room)
    BY <1>1, <1>3, <2>1, <2>2, PositionExact
  <2> QED
    BY <1>4, <2>3, <2>4
<1>5. CASE q.type = "SEQUENCE"
  <2>1. q.ref \in 0 .. MODULUS - 1 /\ q.count \in -HALF .. HALF - 1 /\ q.count # 0
    BY <1>5, TrendConstants DEF Requests
  <2>2. ~ (FirstSeq > ulTotalRecordCount /\ Begin(q.ref, q.count) > ulTotalRecordCount)
    BY <1>5, Zenon DEF LogTurned
  <2>3. /\ rr_trend_log_encode(q) = TL_encode_by_sequence(q.ref, q.count, q.room)
        /\ Selected(q) = Promise!AskedBySequence(q.ref, q.count)
    BY <1>2, <1>5 DEF rr_trend_log_encode, Selected
  <2>4. LET a == TL_encode_by_sequence(q.ref, q.count, q.room)
            asked == Promise!AskedBySequence(q.ref, q.count)
        IN  Exact(a, asked, q.room) /\ Numbered(a, asked, q.room)
    BY <1>1, <1>3, <2>1, <2>2, SequenceExact
  <2> QED
    BY <2>3, <2>4, Zenon
<1>6. CASE q.type = "TIME"
  <2>1. q.ref \in Nat /\ q.count \in -HALF .. HALF - 1 /\ q.count # 0
    <3>1. q.ref \in 0 .. MaxTime /\ q.count \in Counts
      BY <1>6 DEF Requests
    <3>2. /\ Refs \subseteq 0 .. MODULUS - 1 /\ MaxTime \in Nat
          /\ Counts \subseteq -HALF .. HALF - 1 /\ 0 \notin Counts
      BY TrendConstants
    <3>3. q.ref \in Nat
      BY <1>2, <3>1, <3>2
    <3>4. q.count \in -HALF .. HALF - 1 /\ q.count # 0
      BY <3>1, <3>2
    <3> QED
      BY <3>3, <3>4
  <2>2. /\ rr_trend_log_encode(q) = TL_encode_by_time(q.ref, q.count, q.room)
        /\ Selected(q) = Promise!AskedByTime(q.ref, q.count)
    BY <1>2, <1>6 DEF rr_trend_log_encode, Selected
  <2>3. q.count \in 1 .. HALF - 1 \/ q.count \in -HALF .. -1
    BY <1>2, <2>1
  <2>4. LET a == TL_encode_by_time(q.ref, q.count, q.room)
            asked == Promise!AskedByTime(q.ref, q.count)
        IN  Exact(a, asked, q.room) /\ Numbered(a, asked, q.room)
    BY <1>1, <1>3, <2>1, <2>3, NewerExact, OlderExact
  <2> QED
    BY <2>2, <2>4, Zenon
<1>7. CASE q.type = "ALL"
  <2>1. /\ rr_trend_log_encode(q) = TL_encode_by_position("ALL", q.ref, q.count, q.room)
        /\ Selected(q) = 1 .. ulRecordCount
    BY <1>2, <1>7 DEF rr_trend_log_encode, Selected
  <2>2. Exact(TL_encode_by_position("ALL", q.ref, q.count, q.room), 1 .. ulRecordCount, q.room)
    BY <1>1, <1>3, AllExact
  <2> QED
    BY <1>7, <2>1, <2>2
<1> QED
  BY <1>4, <1>5, <1>6, <1>7 DEF Requests

\* Whatever the ring has been through, ReadRange answers every request by
\* position, sequence number or time, and for everything, with exactly the
\* records that the log's contents define for it, as many as fit, with the right
\* flags and the right number, for any size of the ring, any modulus of the
\* numbers and any room for an answer; the two exceptions are those the property
\* names (trendlog.c:1005-1435).
THEOREM ReadRangeCorrect == Spec => []ReadRangeExact
<1>1. TrendIInv => ReadRangeExact
  <2> SUFFICES ASSUME TrendIInv, NEW q \in Requests, ~ LogTurned(q), ~ IndexTooLarge(q)
               PROVE  LET a == rr_trend_log_encode(q)
                          b == Promise!Answer(Selected(q), q.room)
                      IN  /\ a.items = b.items /\ a.first = b.first
                          /\ a.last = b.last /\ a.more = b.more
                          /\ q.type \in {"SEQUENCE", "TIME"} /\ b.items # {} =>
                               \E i \in b.items :
                                 i - 1 \notin b.items /\ a.number = Promise!Number(i)
    BY Zenon DEF ReadRangeExact
  <2>1. /\ Exact(rr_trend_log_encode(q), Selected(q), q.room)
        /\ q.type \in {"SEQUENCE", "TIME"} =>
             Numbered(rr_trend_log_encode(q), Selected(q), q.room)
    BY RequestExact
  <2> QED
    BY <2>1, Zenon DEF Exact, Numbered
<1> QED
  BY <1>1, TrendInvariant, PTL
=============================================================================
