------------------------------ MODULE TrendLog ------------------------------
(***************************************************************************)
(* A trend log (basic/object/trendlog.c): readings and changes of its own  *)
(* state go into a ring of records, driven by trend_log_timer() from the   *)
(* main loop and by writes to its properties; ReadRange                    *)
(* (basic/service/h_rr.c) selects records by position, by sequence number  *)
(* or by time.                                                             *)
(***************************************************************************)
EXTENDS Integers, Sequences, FiniteSets

CONSTANTS TL_MAX_ENTRIES,
          MODULUS,     \* of ulTotalRecordCount: 2^32 in trendlog.h
          Sources,     \* properties that may be logged
          Written,     \* property -> values it may be given
          INTERVAL,    \* the interval a polled log gets: 900 in trendlog.c
          Refs, Counts, Rooms, \* references and counts asked for, and how many
                               \* records fit into an answer
          WILD,        \* a start or stop time that is not limited
          MaxTime      \* bound: seconds told apart

HALF == MODULUS \div 2
Types == {"POLLED", "TRIGGERED", "OTHER"}

ASSUME TrendConstants ==
  /\ Sources \cap {"ENABLED", "DISABLED", "PURGED"} = {}
  /\ TL_MAX_ENTRIES \in Nat \ {0} /\ MODULUS \in Nat
  /\ TL_MAX_ENTRIES < HALF /\ MODULUS = 2 * HALF
  /\ INTERVAL \in Nat \ {0} /\ MaxTime \in Nat /\ MaxTime >= TL_MAX_ENTRIES - 1
  /\ DOMAIN Written = {"Enable", "Stop_When_Full", "Logging_Type", "Start_Time",
                       "Stop_Time", "Log_Interval", "Align_Intervals",
                       "Interval_Offset", "Trigger"}
  /\ Written.Start_Time \subseteq Nat \cup {WILD}
  /\ Written.Stop_Time \subseteq Nat \cup {WILD}
  /\ Written.Enable \subseteq BOOLEAN /\ Written.Stop_When_Full \subseteq BOOLEAN
  /\ Written.Align_Intervals \subseteq BOOLEAN /\ Written.Trigger \subseteq BOOLEAN
  /\ Written.Logging_Type \subseteq Types
  /\ Written.Log_Interval \subseteq Nat /\ Written.Interval_Offset \subseteq Nat
  /\ Refs \subseteq 0 .. MODULUS - 1 /\ Counts \subseteq -HALF .. HALF - 1
  /\ 0 \notin Counts /\ Rooms \subseteq Nat \ {0}

VARIABLES Logs, iIndex, ulRecordCount, ulTotalRecordCount,
          Source, conf,    \* conf: the writable settings
          bTrigger, tLastDataTime,
          tNow,            \* time(NULL)
          elapsed          \* trend_log_timer() has not run this second yet

ring    == <<Logs, iIndex, ulRecordCount, ulTotalRecordCount>>
config  == <<Source, conf>>
polling == <<bTrigger, tLastDataTime>>
clock   == <<tNow, elapsed>>
vars    == <<ring, config, polling, clock>>

Entries == [tTimeStamp : 0 .. MaxTime,
            Datum : Sources \cup {"ENABLED", "DISABLED", "PURGED"}]

U(n) == n % MODULUS                                   \* as uint32_t
S(n) == IF U(n) < HALF THEN U(n) ELSE U(n) - MODULUS  \* as int32_t

\* Trend_Log_Init() fills the log with readings of the past, one after the other.
Trend_Log_Init ==
  /\ Source \in Sources
  /\ Logs = [i \in 0 .. TL_MAX_ENTRIES - 1 |-> [tTimeStamp |-> i, Datum |-> Source]]
  /\ iIndex = 0 /\ ulRecordCount = TL_MAX_ENTRIES
  /\ ulTotalRecordCount = TL_MAX_ENTRIES
  /\ conf = [bEnable |-> TRUE, bStopWhenFull |-> FALSE, LoggingType |-> "POLLED",
             ulLogInterval |-> INTERVAL, bAlignIntervals |-> TRUE,
             ulIntervalOffset |-> 0, tStartTime |-> 0, tStopTime |-> MaxTime]
  /\ bTrigger = FALSE /\ tLastDataTime = TL_MAX_ENTRIES - 1
  /\ tNow = TL_MAX_ENTRIES - 1 /\ elapsed = FALSE

----------------------------------------------------------------------------
(* The ring.                                                               *)

\* A record goes to index at, into a log of count records.
Insert(at, count, datum) ==
  /\ Logs' = [Logs EXCEPT ![at] = [tTimeStamp |-> tNow, Datum |-> datum]]
  /\ iIndex' = IF at + 1 >= TL_MAX_ENTRIES THEN 0 ELSE at + 1
  /\ ulTotalRecordCount' = U(ulTotalRecordCount + 1)
  /\ ulRecordCount' = IF count < TL_MAX_ENTRIES THEN count + 1 ELSE count

TL_Insert_Status_Rec(datum) == Insert(iIndex, ulRecordCount, datum)

\* Mutant: the log is emptied where it stands.
Mut_Purge == Insert(iIndex, 0, "PURGED")

Purge == Insert(0, 0, "PURGED")

TL_fetch_property ==
  /\ tLastDataTime' = tNow
  /\ Insert(iIndex, ulRecordCount, Source)

TL_Is_Enabled(c) ==
  /\ c.bEnable
  /\ c.tStartTime # WILD /\ c.tStopTime # WILD => c.tStartTime <= c.tStopTime
  /\ c.tStartTime # WILD => c.tStartTime <= tNow
  /\ c.tStopTime # WILD => tNow <= c.tStopTime

----------------------------------------------------------------------------
(* trend_log_timer(), every second.                                        *)

\* An aligned log reads at its moment, or when it has missed it.
PollDue ==
  LET interval == conf.ulLogInterval IN
  IF conf.bAlignIntervals
    THEN \/ tNow % interval = conf.ulIntervalOffset % interval
         \/ tNow - tLastDataTime > interval
    ELSE tNow - tLastDataTime >= interval \/ bTrigger

ReadingDue ==
  \/ conf.LoggingType = "POLLED" /\ PollDue
  \/ conf.LoggingType = "TRIGGERED" /\ bTrigger

\* An aligned log drops its trigger.
TriggerServed == conf.LoggingType \in {"POLLED", "TRIGGERED"}

trend_log_timer ==
  /\ elapsed /\ elapsed' = FALSE
  /\ IF TL_Is_Enabled(conf) /\ ReadingDue
       THEN TL_fetch_property ELSE UNCHANGED <<ring, tLastDataTime>>
  /\ bTrigger' = IF TL_Is_Enabled(conf) /\ TriggerServed THEN FALSE ELSE bTrigger
  /\ UNCHANGED <<config, tNow>>

\* Past the bound the time stands still, and the timer still runs.
Second ==
  /\ tNow' = IF tNow < MaxTime THEN tNow + 1 ELSE tNow
  /\ elapsed' = TRUE
  /\ UNCHANGED <<ring, config, polling>>

----------------------------------------------------------------------------
(* Trend_Log_Write_Property().                                             *)

Full == ulRecordCount = TL_MAX_ENTRIES

\* Mutant: a log says only that it was disabled.
Mut_Announce(c) ==
  IF TL_Is_Enabled(conf) /\ ~ TL_Is_Enabled(c) THEN TL_Insert_Status_Rec("DISABLED")
  ELSE UNCHANGED ring

\* A status record for what a new configuration does to the log, if anything.
Announce(c) ==
  IF TL_Is_Enabled(c) = TL_Is_Enabled(conf) THEN UNCHANGED ring
  ELSE TL_Insert_Status_Rec(IF TL_Is_Enabled(c) THEN "ENABLED" ELSE "DISABLED")

\* Refused for a full log that stops when full.
WriteEnable ==
  \E v \in Written.Enable :
    LET c == [conf EXCEPT !.bEnable = v] IN
    /\ ~ (~ conf.bEnable /\ conf.bStopWhenFull /\ Full /\ v)
    /\ conf' = c /\ Announce(c)
    /\ UNCHANGED polling

WriteStopWhenFull ==
  \E v \in Written.Stop_When_Full :
    LET halts == ~ conf.bStopWhenFull /\ v /\ Full /\ conf.bEnable IN
    /\ conf' = [conf EXCEPT !.bStopWhenFull = v, !.bEnable = @ /\ ~ halts]
    /\ IF halts THEN TL_Insert_Status_Rec("DISABLED") ELSE UNCHANGED ring
    /\ UNCHANGED polling

\* Record_Count, given 0.
WriteRecordCount == Purge /\ UNCHANGED <<conf, polling>>

\* Mutant: the interval of a polled log is not looked at.
Mut_IntervalFor(type) == IF type = "TRIGGERED" THEN 0 ELSE conf.ulLogInterval

IntervalFor(type) ==
  CASE type = "POLLED" /\ conf.ulLogInterval = 0 -> INTERVAL
    [] type = "TRIGGERED" -> 0
    [] OTHER -> conf.ulLogInterval

\* Every type but COV is taken, those that nothing logs by included.
WriteLoggingType ==
  \E type \in Written.Logging_Type :
    /\ conf' = [conf EXCEPT !.LoggingType = type, !.ulLogInterval = IntervalFor(type)]
    /\ UNCHANGED <<ring, polling>>

WriteTime ==
  \/ \E t \in Written.Start_Time :
       LET c == [conf EXCEPT !.tStartTime = t] IN
       conf' = c /\ Announce(c) /\ UNCHANGED polling
  \/ \E t \in Written.Stop_Time :
       LET c == [conf EXCEPT !.tStopTime = t] IN
       conf' = c /\ Announce(c) /\ UNCHANGED polling

\* In hundredths of a second.
WriteLogInterval ==
  \E v \in Written.Log_Interval :
    /\ conf.LoggingType # "TRIGGERED"
    /\ ~ (conf.LoggingType = "POLLED" /\ v = 0)
    /\ conf' = [conf EXCEPT !.ulLogInterval = IF v \div 100 = 0 THEN 1 ELSE v \div 100]
    /\ UNCHANGED <<ring, polling>>

WriteAlignment ==
  /\ \/ \E v \in Written.Align_Intervals :
          conf' = [conf EXCEPT !.bAlignIntervals = v]
     \/ \E v \in Written.Interval_Offset :
          conf' = [conf EXCEPT !.ulIntervalOffset = v \div 100]
  /\ UNCHANGED <<ring, polling>>

\* Refused for a polled log that is aligned.
WriteTrigger ==
  \E v \in Written.Trigger :
    /\ ~ (conf.LoggingType = "POLLED" /\ conf.bAlignIntervals)
    /\ bTrigger' = v
    /\ UNCHANGED <<ring, conf, tLastDataTime>>

\* memcmp() sees the padding of an uninitialised variable too, so that the same
\* source may purge the log as well.
WriteSource ==
  \E s \in Sources :
    /\ Source' = s
    /\ \/ Purge
       \/ s = Source /\ UNCHANGED ring
    /\ UNCHANGED <<conf, polling>>

Trend_Log_Write_Property ==
  /\ \/ WriteSource
     \/ /\ \/ WriteEnable \/ WriteStopWhenFull \/ WriteRecordCount
           \/ WriteLoggingType \/ WriteTime \/ WriteLogInterval
           \/ WriteAlignment \/ WriteTrigger
        /\ UNCHANGED Source
  /\ UNCHANGED clock

----------------------------------------------------------------------------
(* ReadRange: rr_trend_log_encode(), which changes nothing.                *)

\* The slot of record i.
Slot(i) == IF ulRecordCount < TL_MAX_ENTRIES THEN (i - 1) % TL_MAX_ENTRIES
           ELSE (iIndex + i - 1) % TL_MAX_ENTRIES

Entry(i) == Logs[Slot(i)]

Requests ==
  [type : {"POSITION"}, ref : Refs \ {0}, count : Counts, room : Rooms]
    \cup [type : {"SEQUENCE"}, ref : Refs, count : Counts, room : Rooms]
    \cup [type : {"TIME"}, ref : 0 .. MaxTime, count : Counts, room : Rooms]
    \cup [type : {"ALL"}, ref : {0}, count : {0}, room : Rooms]

Nothing ==
  [items |-> {}, first |-> FALSE, last |-> FALSE, more |-> FALSE, number |-> 0]

\* Records from to upto, as many as fit; the first has sequence number number.
Encode(from, upto, room, number) ==
  LET uiLast == IF upto < from + room THEN upto ELSE from + room - 1 IN
  [items |-> from .. uiLast, first |-> from = 1, last |-> uiLast = ulRecordCount,
   more |-> uiLast < upto, number |-> number]

\* Mutant: an end that lies before the log's first record gives nothing.
Mut_Backwards(ref, count) == <<S(S(ref) + count + 1), -count>>

\* A start and a positive count for an end and a negative one.
Backwards(ref, count) ==
  LET iTemp == S(S(ref) + count + 1) IN
  IF iTemp < 1 THEN <<1, ref>> ELSE <<iTemp, -count>>

TL_encode_by_position(type, ref, count, room) ==
  LET range == CASE type = "ALL" -> <<1, ulRecordCount>>
                 [] type # "ALL" /\ count < 0 -> Backwards(ref, count)
                 [] OTHER -> <<ref, count>>
      uiTarget == U(range[1] + range[2] - 1)
  IN  IF range[1] > ulRecordCount THEN Nothing
      ELSE Encode(range[1],
                  IF uiTarget > ulRecordCount THEN ulRecordCount ELSE uiTarget,
                  room, 0)

Larger(a, b)  == IF a > b THEN a ELSE b
Smaller(a, b) == IF a < b THEN a ELSE b

\* The part of the numbers begin to end, which may turn over, that lies in the
\* log, whose numbers from uiFirstSeq may turn over too.
Overlap(begin, end, uiFirstSeq) ==
  LET total == ulTotalRecordCount
      bWrapReq == begin > end
      bWrapLog == uiFirstSeq > total
  IN  CASE ~ bWrapReq /\ ~ bWrapLog ->
             IF end < uiFirstSeq \/ begin > total THEN <<>>
             ELSE <<Larger(begin, uiFirstSeq), Smaller(end, total)>>
        [] (bWrapReq \/ bWrapLog) /\ begin > total /\ end < uiFirstSeq -> <<>>
        [] bWrapReq /\ ~ bWrapLog /\ ~ (begin > total /\ end < uiFirstSeq) ->
             IF end < uiFirstSeq THEN <<Larger(begin, uiFirstSeq), total>>
             ELSE <<uiFirstSeq, Smaller(end, total)>>
        [] ~ bWrapReq /\ bWrapLog /\ ~ (begin > total /\ end < uiFirstSeq) ->
             IF begin > total THEN <<Smaller(begin, uiFirstSeq), end>>
             ELSE <<begin, Smaller(end, total)>>
        [] OTHER -> <<Larger(begin, uiFirstSeq), Smaller(end, total)>>

\* Mutant: the oldest record is left out.
Mut_FirstSeq == U(ulTotalRecordCount - ulRecordCount)

FirstSeq == U(ulTotalRecordCount - (ulRecordCount - 1))

Begin(ref, count) == IF count < 0 THEN U(ref + count + 1) ELSE ref
End(ref, count)   == IF count < 0 THEN ref ELSE U(ref + count - 1)

TL_encode_by_sequence(ref, count, room) ==
  LET range == Overlap(Begin(ref, count), End(ref, count), FirstSeq) IN
  IF range = <<>> THEN Nothing
  ELSE LET uiIndex == U(range[1] - FirstSeq + 1)
       IN  Encode(uiIndex, uiIndex + U(range[2] + 1 - range[1]) - 1, room, range[1])

\* Mutant: the record of the reference time itself is taken too.
Mut_Newer(ref) == {i \in 0 .. ulRecordCount - 1 : Entry(i + 1).tTimeStamp >= ref}

Newer(ref) == {i \in 0 .. ulRecordCount - 1 : Entry(i + 1).tTimeStamp > ref}
Older(ref) == {i \in 0 .. ulRecordCount - 1 : Entry(i + 1).tTimeStamp < ref}

TL_encode_by_time(ref, count, room) ==
  IF count < 0
    THEN IF Older(ref) = {} THEN Nothing
         ELSE LET iCount == CHOOSE i \in Older(ref) : \A j \in Older(ref) : j <= i
                  start  == Larger(0, iCount - (-count - 1))
              IN  Encode(start + 1, iCount + 1, room,
                         U(ulTotalRecordCount - (ulRecordCount - 1 - start)))
    ELSE IF Newer(ref) = {} THEN Nothing
         ELSE LET iCount == CHOOSE i \in Newer(ref) : \A j \in Newer(ref) : i <= j
              IN  Encode(iCount + 1, Smaller(iCount + count, ulRecordCount), room,
                         U(FirstSeq + iCount))

rr_trend_log_encode(q) ==
  IF ulRecordCount = 0 THEN Nothing
  ELSE CASE q.type = "SEQUENCE" -> TL_encode_by_sequence(q.ref, q.count, q.room)
         [] q.type = "TIME" -> TL_encode_by_time(q.ref, q.count, q.room)
         [] OTHER -> TL_encode_by_position(q.type, q.ref, q.count, q.room)

----------------------------------------------------------------------------
Next == trend_log_timer \/ Second \/ Trend_Log_Write_Property

Spec == Trend_Log_Init /\ [][Next]_vars

----------------------------------------------------------------------------
(* Properties.                                                             *)

\* The log stays within its ring.  And no order of writes leaves a polled log
\* without an interval, by which trend_log_timer() divides.
TrendTypeOK ==
  /\ Logs \in [0 .. TL_MAX_ENTRIES - 1 -> Entries]
  /\ iIndex \in 0 .. TL_MAX_ENTRIES - 1
  /\ ulRecordCount \in 1 .. TL_MAX_ENTRIES
  /\ ulTotalRecordCount \in 0 .. MODULUS - 1
  /\ Source \in Sources
  /\ conf \in [bEnable : BOOLEAN, bStopWhenFull : BOOLEAN, LoggingType : Types,
               ulLogInterval : Nat, bAlignIntervals : BOOLEAN,
               ulIntervalOffset : Nat, tStartTime : Nat \cup {WILD},
               tStopTime : Nat \cup {WILD}]
  /\ bTrigger \in BOOLEAN
  /\ tNow \in 0 .. MaxTime /\ tLastDataTime \in 0 .. tNow
  /\ elapsed \in BOOLEAN
  /\ conf.LoggingType = "POLLED" => conf.ulLogInterval > 0

\* The records, oldest first, wherever they lie in the ring.
Promise ==
  INSTANCE RecordLog WITH
    Capacity <- TL_MAX_ENTRIES, Modulus <- MODULUS, Subjects <- Sources,
    Starts <- Written.Start_Time \ {WILD},
    log <- [i \in 1 .. ulRecordCount |->
             [time |-> Entry(i).tTimeStamp, datum |-> Entry(i).Datum]],
    total <- ulTotalRecordCount, subject <- Source

\* The ring holds the latest records since the log was purged, in order of time
\* and all of the source that is logged now, however purges, changes of source
\* and overwriting follow each other; and a log that says it was disabled shows
\* no reading before it says that it is enabled, or its start time has come.
KeepsLatest == Promise!RecordSpec

\* The log's sequence numbers turn over within it and the request begins before
\* that: a request that turns over too is refused as if it did not overlap the
\* log, and one that does not gets the wrong records, "if (uiBegin > uiFirstSeq)"
\* standing for <.
LogTurned(q) ==
  /\ q.type = "SEQUENCE" /\ FirstSeq > ulTotalRecordCount
  /\ Begin(q.ref, q.count) > ulTotalRecordCount

\* An index beyond int32_t, read backwards, is taken for a small one.
IndexTooLarge(q) == q.type = "POSITION" /\ q.count < 0 /\ q.ref >= HALF

Selected(q) ==
  CASE q.type = "POSITION" -> Promise!AskedByPosition(q.ref, q.count)
    [] q.type = "SEQUENCE" -> Promise!AskedBySequence(q.ref, q.count)
    [] q.type = "TIME"     -> Promise!AskedByTime(q.ref, q.count)
    [] q.type = "ALL"      -> 1 .. ulRecordCount

\* Whatever the ring has been through, a request gets the records that the log's
\* contents define for it, as many as fit, with the flags that say whether the
\* first, the last and more of them are among them, and with the sequence number
\* of the first; numbers that turn over in the request or in the log included.
ReadRangeExact ==
  \A q \in Requests :
    LET a == rr_trend_log_encode(q)
        b == Promise!Answer(Selected(q), q.room)
    IN  ~ LogTurned(q) /\ ~ IndexTooLarge(q) =>
          /\ a.items = b.items /\ a.first = b.first
          /\ a.last = b.last /\ a.more = b.more
          /\ q.type \in {"SEQUENCE", "TIME"} /\ b.items # {} =>
               \E i \in b.items : i - 1 \notin b.items /\ a.number = Promise!Number(i)
=============================================================================
