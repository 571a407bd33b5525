----------------------------- MODULE RecordLog -----------------------------
(***************************************************************************)
(* What a trend log promises: the latest records since it was last         *)
(* purged, numbered, and the ranges of them that ReadRange selects.  The   *)
(* module TrendLog implements it with a ring.                              *)
(***************************************************************************)
EXTENDS Integers, Sequences, FiniteSets

CONSTANTS Capacity,    \* records the log holds
          Modulus,     \* sequence numbers are counted modulo this
          Subjects,    \* properties that may be logged
          Starts       \* times at which logging may be told to start

VARIABLES log,         \* the records, oldest first
          total,       \* records ever made
          subject      \* the property being logged

Statuses == {"ENABLED", "DISABLED", "PURGED"}
Records  == [time : Nat, datum : Subjects \cup Statuses]

Latest(s) == IF Len(s) > Capacity THEN Tail(s) ELSE s

\* A log that says it was disabled goes on with a reading only when it says
\* that it was enabled, or when its start time has come in between.
Follows(last, r) ==
  /\ last.time <= r.time
  /\ last.datum = "DISABLED" /\ r.datum \in Subjects =>
       \E s \in Starts : last.time < s /\ s <= r.time

RecordInit ==
  /\ log \in Seq(Records) /\ Len(log) = Capacity
  /\ total \in 0 .. Modulus - 1 /\ subject \in Subjects

\* Readings are of the subject only.
Record ==
  /\ \E r \in [time : {log'[Len(log')].time},
               datum : {subject, "ENABLED", "DISABLED"}] :
       /\ Follows(log[Len(log)], r)
       /\ log' = Latest(Append(log, r))
  /\ total' = (total + 1) % Modulus
  /\ UNCHANGED subject

Purge ==
  /\ Len(log') = 1 /\ log'[1].datum = "PURGED"
  /\ log'[1].time >= log[Len(log)].time
  /\ total' = (total + 1) % Modulus
  /\ subject' \in Subjects

RecordSpec ==
  RecordInit /\ [][Record \/ Purge]_<<log, total, subject>>

----------------------------------------------------------------------------
(* ReadRange of the log, by definition.                                    *)

\* The sequence number of record i; the last one has number total.
Number(i) == (total - Len(log) + i) % Modulus

FirstOf(n, S) == {i \in S : Cardinality({j \in S : j <= i}) <= n}
LastOf(n, S)  == {i \in S : Cardinality({j \in S : j >= i}) <= n}

\* A negative count reads backwards from the reference.
AskedByPosition(ref, count) ==
  {i \in 1 .. Len(log) : \/ ref <= i /\ i < ref + count
                         \/ ref + count < i /\ i <= ref}

AskedBySequence(ref, count) ==
  LET numbers == IF count > 0 THEN {(ref + k) % Modulus : k \in 0 .. count - 1}
                 ELSE {(ref - k) % Modulus : k \in 0 .. -count - 1}
  IN  {i \in 1 .. Len(log) : Number(i) \in numbers}

AskedByTime(ref, count) ==
  IF count > 0 THEN FirstOf(count, {i \in 1 .. Len(log) : log[i].time > ref})
  ELSE LastOf(-count, {i \in 1 .. Len(log) : log[i].time < ref})

\* room: how many records fit into the answer.
Answer(asked, room) ==
  LET items == FirstOf(room, asked)
  IN  [items |-> items, first |-> 1 \in items, last |-> Len(log) \in items,
       more |-> items # asked]
=============================================================================
