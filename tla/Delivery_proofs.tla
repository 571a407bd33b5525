--------------------------- MODULE Delivery_proofs ---------------------------
(***************************************************************************)
(* Proofs about the two modules that are about whom a message reaches.     *)
(*                                                                         *)
(* Bbmd: the types, that a foreign device stays in the table of its BBMD,  *)
(* and that a broadcast comes to everyone by one way, for any number of    *)
(* nodes and subnets, any times, and any tables that are set up well.      *)
(*                                                                         *)
(* EventReporting and, for the part that it shares with every object, Dcc: *)
(* for any values, limits, recipients, transitions and valid times.        *)
(*                                                                         *)
(* The two share no state, and no lemma of one is used for the other.      *)
(***************************************************************************)
EXTENDS Bbmd, EventReporting, FiniteSetTheorems, TLAPS

----------------------------------------------------------------------------
(* Messages.                                                               *)

LEMMA UnionParts ==
  ASSUME NEW B1, NEW B2
  PROVE  BagToSet(B1 (+) B2) = BagToSet(B1) \cup BagToSet(B2)
  BY Zenon DEF (+), BagToSet

LEMMA BagTaken ==
  ASSUME NEW m
  PROVE  BagToSet(Taken(m)) \subseteq BagToSet(net)
  BY DEF Taken, (-), BagToSet, SetToBag

\* A broadcast: what the forwarding functions need to know of a message.
Carried(m) == m.id \in IDs /\ m.intact \in BOOLEAN

LEMMA MsgOK ==
  ASSUME NEW func \in Functions, NEW n \in Nodes, NEW k \in Nodes, NEW src \in Nodes,
         NEW m, Carried(m)
  PROVE  Msg(func, n, k, src, m) \in Message
  BY DEF Msg, Message, Carried

\* Whatever is sent on behalf of a broadcast is a message.
LEMMA SentOK ==
  ASSUME NEW n \in Nodes, NEW src \in Nodes, NEW m, Carried(m)
  PROVE  /\ \A func \in Functions :
              BagToSet(LocalBroadcast(n, func, src, m)) \subseteq Message
         /\ BagToSet(bbmd_forward_npdu(n, src, m)) \subseteq Message
         /\ BagToSet(bbmd_fdt_forward_npdu(n, src, m)) \subseteq Message
         /\ BagToSet(bbmd_bdt_forward_npdu(n, src, m)) \subseteq Message
         /\ BagToSet(NoMessages) \subseteq Message
<1>1. "FORWARDED" \in Functions
  BY DEF Functions
<1>2. \A func \in Functions : BagToSet(LocalBroadcast(n, func, src, m)) \subseteq Message
  BY MsgOK DEF LocalBroadcast, Neighbours, SetToBag, BagToSet
<1>3. BagToSet(bbmd_forward_npdu(n, src, m)) \subseteq Message
  BY <1>1, <1>2 DEF bbmd_forward_npdu
<1>4. BagToSet(bbmd_fdt_forward_npdu(n, src, m)) \subseteq Message
  BY <1>1, MsgOK DEF bbmd_fdt_forward_npdu, SetToBag, BagToSet
<1>5. BagToSet(bbmd_bdt_forward_npdu(n, src, m)) \subseteq Message
  <2>1. ASSUME NEW e \in BBMD_Table[n], NEW k \in Addressed(e)
        PROVE  Msg("FORWARDED", n, k, src, m) \in Message
    <3>1. e \in [dest : Nodes, unicast : BOOLEAN]
      BY BbmdConstants
    <3>2. k \in Nodes
      BY <3>1 DEF Addressed, Neighbours
    <3> QED
      BY <1>1, <3>2, MsgOK
  <2> QED
    BY <2>1 DEF bbmd_bdt_forward_npdu, BagToSet
<1>6. BagToSet(NoMessages) \subseteq Message
  BY DEF NoMessages, BagToSet
<1> QED
  BY <1>2, <1>3, <1>4, <1>5, <1>6

LEMMA MessageParts ==
  ASSUME NEW m \in Message
  PROVE  /\ m.from \in Nodes /\ m.to \in Nodes /\ m.src \in Nodes /\ Carried(m)
         /\ Carried([m EXCEPT !.intact = FALSE])
  BY DEF Message, Carried

----------------------------------------------------------------------------
(* The foreign device table.                                               *)

Entries(table) == {d \in Nodes : table[d] > 0}

\* A table never holds more entries than it has.
Fits(table) == IsFiniteSet(Entries(table)) /\ Cardinality(Entries(table)) <= MAX_FD_ENTRIES

Tables == [Nodes -> 0 .. MAX_SECONDS]

LEMMA LifetimeOK == Lifetime \in 0 .. MAX_SECONDS /\ Lifetime > 0
  BY BbmdConstants DEF Lifetime

\* Fewer entries fit as well.
LEMMA FewerFit ==
  ASSUME NEW table, Fits(table), NEW new, Entries(new) \subseteq Entries(table)
  PROVE  Fits(new)
<1>1. IsFiniteSet(Entries(new)) /\ Cardinality(Entries(new)) <= Cardinality(Entries(table))
  BY FS_Subset DEF Fits
<1>2. Cardinality(Entries(new)) \in Nat /\ Cardinality(Entries(table)) \in Nat
  BY <1>1, FS_CardinalityType DEF Fits
<1> QED
  BY <1>1, <1>2, BbmdConstants DEF Fits

LEMMA AddedFits ==
  ASSUME NEW table \in Tables, Fits(table), NEW addr \in Nodes
  PROVE  LET new == fdt_entry_add(table, addr)
         IN  /\ new \in Tables /\ Fits(new)
             /\ \A d \in Nodes \ {addr} : new[d] = table[d]
             /\ new[addr] > 0 => new[addr] = Lifetime
<1> DEFINE new == fdt_entry_add(table, addr)
<1>1. CASE table[addr] > 0 \/ ~ Full(table)
  <2>1. new = [table EXCEPT ![addr] = Lifetime]
    BY <1>1 DEF fdt_entry_add
  <2>2. /\ new \in Tables /\ new[addr] = Lifetime
        /\ \A d \in Nodes \ {addr} : new[d] = table[d]
    BY <2>1, LifetimeOK DEF Tables
  <2> HIDE DEF new
  <2>3. Entries(new) = Entries(table) \cup {addr}
    BY <2>2, LifetimeOK DEF Entries
  <2>4. CASE table[addr] > 0
    <3>1. Entries(new) = Entries(table)
      BY <2>3, <2>4 DEF Entries
    <3> QED
      BY <2>2, <3>1, FewerFit DEF new
  <2>5. CASE ~ (table[addr] > 0)
    <3>1. ~ Full(table)
      BY <1>1, <2>5
    <3>2. Cardinality(Entries(table)) \in Nat /\ addr \notin Entries(table)
      BY <2>5, FS_CardinalityType DEF Fits, Entries
    <3>3. Cardinality(Entries(table)) < MAX_FD_ENTRIES
      BY <3>1, <3>2, BbmdConstants DEF Full, Entries
    <3>4. /\ IsFiniteSet(Entries(new))
          /\ Cardinality(Entries(new)) = Cardinality(Entries(table)) + 1
      BY <2>3, <3>2, FS_AddElement DEF Fits
    <3>5. Fits(new)
      BY <3>2, <3>3, <3>4, BbmdConstants DEF Fits
    <3> QED
      BY <2>2, <3>5 DEF new
  <2> QED
    BY <2>4, <2>5
<1>2. CASE ~ (table[addr] > 0) /\ Full(table)
  <2>1. new = table
    BY <1>2 DEF fdt_entry_add
  <2> QED
    BY <1>2, <2>1
<1> QED
  BY <1>1, <1>2

----------------------------------------------------------------------------
(* The types.                                                              *)

Registrations == [from : Foreign, age : 0 .. GRACE - 1]

TablesTyped ==
  /\ FD_Table \in [Nodes -> Tables]
  /\ \A n \in Nodes : Fits(FD_Table[n])
  /\ BBMD_Timer \in [Foreign -> 0 .. TTL]
  /\ alive \subseteq Foreign /\ settled \subseteq alive
  /\ \A f \in alive : BBMD_Timer[f] > 0
  /\ regs \subseteq Registrations

TrafficTyped ==
  /\ BagToSet(net) \subseteq Message
  /\ origin \in [IDs -> Nodes \cup {NoNode}]

LEMMA InitTyped == BbmdInit => TablesTyped /\ TrafficTyped
<1> SUFFICES ASSUME BbmdInit PROVE TablesTyped /\ TrafficTyped
  OBVIOUS
<1>1. 0 \in 0 .. MAX_SECONDS /\ 0 \in 0 .. TTL
  BY BbmdConstants
<1>2. \A n \in Nodes : Fits(FD_Table[n])
  <2> TAKE n \in Nodes
  <2>1. Entries(FD_Table[n]) = {}
    BY DEF BbmdInit, Entries
  <2> QED
    BY <2>1, FS_EmptySet, BbmdConstants DEF Fits
<1> QED
  BY <1>1, <1>2 DEF BbmdInit, TablesTyped, TrafficTyped, Tables, BagToSet, NoMessages

LEMMA TypedIsTypeOK ==
  ASSUME TablesTyped, TrafficTyped
  PROVE  BbmdTypeOK
  BY DEF TablesTyped, TrafficTyped, BbmdTypeOK, Tables, Fits, Entries, Registrations

\* The node a message goes to sends nothing but messages on its behalf.
LEMMA ReceiveTyped ==
  ASSUME TrafficTyped, NEW m \in BagToSet(net), Receive(m)
  PROVE  TrafficTyped'
<1>1. m \in Message
  BY DEF TrafficTyped
<1>2. /\ m.from \in Nodes /\ m.to \in Nodes /\ m.src \in Nodes /\ Carried(m)
      /\ Carried([m EXCEPT !.intact = FALSE])
  BY <1>1, MessageParts
<1>3. "FORWARDED" \in Functions
  BY DEF Functions
<1>4. BagToSet(Taken(m)) \subseteq Message
  BY BagTaken DEF TrafficTyped
<1>5. BagToSet(net') \subseteq Message
  <2>1. CASE net' = Taken(m)
    BY <2>1, <1>4
  <2>2. CASE OriginalBroadcast(m) /\ net' # Taken(m)
    <3>1. net' = Taken(m) (+) bbmd_fdt_forward_npdu(m.to, m.from, m)
                          (+) bbmd_bdt_forward_npdu(m.to, m.from, m)
      BY <2>2 DEF OriginalBroadcast
    <3> QED
      BY <3>1, <1>2, <1>4, SentOK, UnionParts
  <2>3. CASE ForwardedNPDU(m) /\ net' # Taken(m)
    <3> DEFINE nested == [m EXCEPT !.intact = FALSE]
               Rest == IF bbmd_bdt_member_mask_is_unicast(m.to, m.from)
                         THEN LocalBroadcast(m.to, "FORWARDED", m.src, m)
                         ELSE NoMessages
    <3>1. net' = Taken(m) (+) bbmd_fdt_forward_npdu(m.to, m.src, nested) (+) Rest
      BY <2>3 DEF ForwardedNPDU
    <3>2. BagToSet(Rest) \subseteq Message
      BY <1>2, <1>3, SentOK
    <3>3. BagToSet(bbmd_fdt_forward_npdu(m.to, m.src, nested)) \subseteq Message
      BY <1>2, SentOK
    <3> HIDE DEF nested, Rest
    <3> QED
      BY <3>1, <3>2, <3>3, <1>4, UnionParts
  <2>4. CASE DistributeBroadcast(m)
    <3>1. net' = Taken(m) (+) bbmd_forward_npdu(m.to, m.from, m)
                          (+) bbmd_fdt_forward_npdu(m.to, m.from, m)
                          (+) bbmd_bdt_forward_npdu(m.to, m.from, m)
      BY <2>4 DEF DistributeBroadcast
    <3> QED
      BY <3>1, <1>2, <1>4, SentOK, UnionParts
  <2> QED
    BY <2>1, <2>2, <2>3, <2>4 DEF Receive
<1> QED
  BY <1>5 DEF Receive, TrafficTyped

LEMMA BroadcastTyped ==
  ASSUME TrafficTyped, NEW n \in Nodes, NEW i \in IDs, Broadcast(n, i)
  PROVE  TrafficTyped'
<1> DEFINE m == [id |-> i, intact |-> TRUE]
<1>1. Carried(m) /\ "DISTRIBUTE" \in Functions /\ "ORIGINAL_BROADCAST" \in Functions
  BY DEF Carried, Functions
<1>2. BagToSet(net') \subseteq Message
  <2>1. CASE n \in Foreign
    <3>1. net' = net (+) SetToBag({Msg("DISTRIBUTE", n, Remote_BBMD[n], n, m)})
      BY <2>1 DEF Broadcast
    <3>2. Remote_BBMD[n] \in Nodes
      BY <2>1, BbmdConstants
    <3>3. BagToSet(SetToBag({Msg("DISTRIBUTE", n, Remote_BBMD[n], n, m)})) \subseteq Message
      <4>1. Msg("DISTRIBUTE", n, Remote_BBMD[n], n, m) \in Message
        BY <1>1, <3>2, MsgOK
      <4> QED
        BY <4>1 DEF BagToSet, SetToBag
    <3> HIDE DEF m
    <3> QED
      BY <3>1, <3>3, UnionParts DEF TrafficTyped
  <2>2. CASE n \notin Foreign
    <3>1. net' = net (+) (bbmd_fdt_forward_npdu(n, n, m) (+) bbmd_bdt_forward_npdu(n, n, m)
                    (+) LocalBroadcast(n, "ORIGINAL_BROADCAST", n, m))
      BY <2>2 DEF Broadcast
    <3> HIDE DEF m
    <3> QED
      BY <3>1, <1>1, SentOK, UnionParts DEF TrafficTyped
  <2> QED
    BY <2>1, <2>2
<1>3. origin' \in [IDs -> Nodes \cup {NoNode}]
  BY DEF Broadcast, TrafficTyped
<1> QED
  BY <1>2, <1>3 DEF TrafficTyped

LEMMA LoseTyped ==
  ASSUME TrafficTyped, NEW m, Lose(m)
  PROVE  TrafficTyped'
  BY BagTaken DEF Lose, TrafficTyped

----------------------------------------------------------------------------
(* The tables and timers.  Left(f) is what is left of the entry that f has *)
(* in the table of its BBMD; InTime(f) says that the entry outlives the    *)
(* timer of f by the grace period, or the registration already under way.  *)

Left(f) == FD_Table[Remote_BBMD[f]][f]

InTime(f) ==
  \/ Left(f) >= BBMD_Timer[f] + GRACE
  \/ \E r \in regs : r.from = f /\ Left(f) + r.age >= GRACE

\* The grace period is not cut short.
GraceFits == TTL + GRACE <= MAX_SECONDS

Timely == GraceFits => \A f \in settled : InTime(f)

LEMMA LeftTyped ==
  ASSUME TablesTyped, NEW f \in Foreign
  PROVE  /\ Remote_BBMD[f] \in Nodes /\ f \in Nodes
         /\ Left(f) \in 0 .. MAX_SECONDS /\ BBMD_Timer[f] \in 0 .. TTL
<1>1. Remote_BBMD[f] \in Nodes /\ f \in Nodes
  BY BbmdConstants
<1>2. FD_Table[Remote_BBMD[f]] \in Tables
  BY <1>1 DEF TablesTyped
<1> QED
  BY <1>1, <1>2 DEF Left, Tables, TablesTyped

LEMMA InTimeIsRegistered ==
  ASSUME TablesTyped, NEW f \in settled, InTime(f)
  PROVE  Left(f) > 0
<1>1. f \in Foreign
  BY DEF TablesTyped
<1>2. \A r \in regs : r.age \in 0 .. GRACE - 1
  BY DEF TablesTyped, Registrations
<1> QED
  BY <1>1, <1>2, LeftTyped, BbmdConstants DEF InTime

TableStep == TablesTyped' /\ (Timely => Timely')

LEMMA RegisterStep ==
  ASSUME TablesTyped, NEW r \in regs, RegisterForeignDevice(r)
  PROVE  TableStep
<1> DEFINE f == r.from
           home == Remote_BBMD[f]
           new == fdt_entry_add(FD_Table[home], f)
<1>1. f \in Foreign /\ home \in Nodes /\ f \in Nodes
  BY BbmdConstants DEF TablesTyped, Registrations
<1>2. FD_Table[home] \in Tables /\ Fits(FD_Table[home])
  BY <1>1 DEF TablesTyped
<1>3. /\ new \in Tables /\ Fits(new)
      /\ \A d \in Nodes \ {f} : new[d] = FD_Table[home][d]
      /\ new[f] > 0 => new[f] = Lifetime
  BY <1>1, <1>2, AddedFits
<1>4. FD_Table' = [FD_Table EXCEPT ![home] = new]
  BY DEF RegisterForeignDevice
<1>5. /\ regs' = regs \ {r} /\ UNCHANGED <<BBMD_Timer, alive>>
      /\ settled' = IF FD_Table'[home][f] > 0 THEN settled \cup ({f} \cap alive) ELSE settled
  BY DEF RegisterForeignDevice
<1>6. new[f] > 0 \/ new[f] = FD_Table[home][f]
  <2>1. new = [FD_Table[home] EXCEPT ![f] = Lifetime] \/ new = FD_Table[home]
    BY DEF fdt_entry_add
  <2>2. f \in DOMAIN FD_Table[home]
    BY <1>1, <1>2 DEF Tables
  <2> QED
    BY <2>1, <2>2, LifetimeOK
<1> HIDE DEF new, home, f
<1>7. TablesTyped'
  BY <1>1, <1>3, <1>4, <1>5 DEF TablesTyped
<1>8. ASSUME Timely, GraceFits, NEW d \in settled' PROVE InTime(d)'
  <2>1. d \in alive /\ d \in Foreign /\ Remote_BBMD[d] \in Nodes
    BY <1>5, BbmdConstants DEF TablesTyped
  <2>2. /\ BBMD_Timer[d] \in 0 .. TTL
        /\ Left(d) \in 0 .. MAX_SECONDS
    BY <2>1, LeftTyped
  <2>3. CASE d = f
    <3>1. Left(d)' = new[f]
      BY <2>3, <1>1, <1>4 DEF Left, home, TablesTyped
    <3>2. new[f] > 0
      <4>1. CASE FD_Table'[home][f] > 0
        BY <4>1, <3>1, <2>3 DEF Left, home
      <4>2. CASE ~ (FD_Table'[home][f] > 0)
        <5>1. d \in settled
          BY <4>2, <1>5
        <5>2. Left(d) > 0
          BY <5>1, <1>8, InTimeIsRegistered DEF Timely
        <5> QED
          BY <5>2, <1>6, <2>3 DEF Left, home
      <4> QED
        BY <4>1, <4>2
    <3>3. Lifetime = TTL + GRACE
      BY <1>8, BbmdConstants DEF Lifetime, GraceFits
    <3>4. Left(d)' >= BBMD_Timer[d]' + GRACE
      BY <3>1, <3>2, <3>3, <1>3, <1>5, <2>2, BbmdConstants
    <3> QED
      BY <3>4 DEF InTime
  <2>4. CASE d # f
    <3>1. d \in settled
      BY <2>4, <1>5
    <3>2. Left(d)' = Left(d)
      BY <2>1, <2>4, <1>1, <1>3, <1>4, BbmdConstants DEF Left, TablesTyped
    <3>3. InTime(d)
      BY <3>1, <1>8 DEF Timely
    <3>4. \A q \in regs : q.from = d => q \in regs'
      BY <2>4, <1>5 DEF f
    <3> QED
      BY <3>2, <3>3, <3>4, <1>5 DEF InTime
  <2> QED
    BY <2>3, <2>4
<1> QED
  BY <1>7, <1>8 DEF TableStep, Timely, GraceFits

LEMMA StartStep ==
  ASSUME TablesTyped, NEW f \in Foreign, Start(f)
  PROVE  TableStep
<1>1. Registration(f) \in Registrations
  BY BbmdConstants DEF Registration, Registrations
<1>2. TTL \in 0 .. TTL /\ TTL > 0
  BY BbmdConstants
<1>3. TablesTyped'
  BY <1>1, <1>2 DEF Start, TablesTyped
<1>4. ASSUME Timely, GraceFits, NEW d \in settled' PROVE InTime(d)'
  <2>1. d \in settled /\ d # f
    BY <1>4 DEF Start, TablesTyped
  <2>2. InTime(d)
    BY <1>4, <2>1 DEF Timely
  <2>3. Left(d)' = Left(d) /\ BBMD_Timer'[d] = BBMD_Timer[d] /\ regs \subseteq regs'
    BY <2>1 DEF Start, Left, TablesTyped
  <2> QED
    BY <2>2, <2>3 DEF InTime
<1> QED
  BY <1>3, <1>4 DEF TableStep, Timely, GraceFits

LEMMA StopStep ==
  ASSUME TablesTyped, NEW f \in Foreign, Stop(f)
  PROVE  TableStep
<1>1. 0 \in 0 .. TTL
  BY BbmdConstants
<1>2. TablesTyped'
  BY <1>1 DEF Stop, TablesTyped
<1>3. ASSUME Timely, GraceFits, NEW d \in settled' PROVE InTime(d)'
  <2>1. d \in settled /\ d # f
    BY <1>3 DEF Stop
  <2>2. InTime(d)
    BY <1>3, <2>1 DEF Timely
  <2>3. Left(d)' = Left(d) /\ BBMD_Timer'[d] = BBMD_Timer[d] /\ regs' = regs
    BY <2>1 DEF Stop, Left, TablesTyped
  <2> QED
    BY <2>2, <2>3 DEF InTime
<1> QED
  BY <1>2, <1>3 DEF TableStep, Timely, GraceFits

LEMMA DeleteStep ==
  ASSUME TablesTyped, NEW f \in Foreign, DeleteForeignDevice(f)
  PROVE  TableStep
<1> DEFINE home == Remote_BBMD[f]
           new == [FD_Table[home] EXCEPT ![f] = 0]
<1>1. home \in Nodes /\ f \in Nodes
  BY BbmdConstants
<1>2. FD_Table[home] \in Tables /\ Fits(FD_Table[home]) /\ 0 \in 0 .. MAX_SECONDS
  BY <1>1, BbmdConstants DEF TablesTyped
<1>3. new \in Tables /\ \A d \in Nodes : new[d] = IF d = f THEN 0 ELSE FD_Table[home][d]
  BY <1>1, <1>2 DEF Tables
<1>4. /\ FD_Table' = [FD_Table EXCEPT ![home] = new]
      /\ settled' = settled \ {f} /\ UNCHANGED <<BBMD_Timer, alive, regs>>
  BY DEF DeleteForeignDevice
<1> HIDE DEF new, home
<1>5. Fits(new)
  BY <1>2, <1>3, FewerFit DEF Entries
<1>6. TablesTyped'
  BY <1>1, <1>3, <1>4, <1>5 DEF TablesTyped
<1>7. ASSUME Timely, GraceFits, NEW d \in settled' PROVE InTime(d)'
  <2>1. d \in settled /\ d # f /\ d \in Nodes /\ Remote_BBMD[d] \in Nodes
    BY <1>7, <1>4, BbmdConstants DEF TablesTyped
  <2>2. InTime(d)
    BY <1>7, <2>1 DEF Timely
  <2>3. Left(d)' = Left(d)
    BY <2>1, <1>3, <1>4 DEF Left, TablesTyped
  <2> QED
    BY <2>2, <2>3, <1>4 DEF InTime
<1> QED
  BY <1>6, <1>7 DEF TableStep, Timely, GraceFits

LEMMA LoseRegistrationStep ==
  ASSUME TablesTyped, NEW r \in regs, LoseRegistration(r)
  PROVE  TableStep
<1>1. TablesTyped'
  BY DEF LoseRegistration, TablesTyped
<1>2. ASSUME Timely, GraceFits, NEW d \in settled' PROVE InTime(d)'
  <2>1. d \in settled /\ d # r.from
    BY <1>2 DEF LoseRegistration
  <2>2. InTime(d)
    BY <1>2, <2>1 DEF Timely
  <2>3. Left(d)' = Left(d) /\ BBMD_Timer' = BBMD_Timer
    BY DEF LoseRegistration, Left
  <2>4. \A q \in regs : q.from = d => q \in regs'
    BY <2>1 DEF LoseRegistration
  <2> QED
    BY <2>2, <2>3, <2>4 DEF InTime
<1> QED
  BY <1>1, <1>2 DEF TableStep, Timely, GraceFits

LEMMA SecondStep ==
  ASSUME TablesTyped, Second
  PROVE  TableStep
<1>1. /\ \A r \in regs : r.age + 1 < GRACE
      /\ FD_Table' = [n \in Nodes |-> [d \in Nodes |-> fdt_entry_aged(FD_Table[n][d])]]
      /\ BBMD_Timer' = [f \in Foreign |->
           IF f \in alive /\ BBMD_Timer[f] > 0 THEN TimerAfter(BBMD_Timer[f])
           ELSE BBMD_Timer[f]]
      /\ regs' = {[r EXCEPT !.age = @ + 1] : r \in regs}
                   \cup {Registration(f) : f \in {d \in alive : BBMD_Timer[d] = 1}}
      /\ UNCHANGED <<alive, settled>>
  BY DEF Second
<1>2. \A n, d \in Nodes : FD_Table[n][d] \in 0 .. MAX_SECONDS
  BY DEF TablesTyped, Tables
<1>3. \A n, d \in Nodes : /\ FD_Table'[n][d] \in 0 .. MAX_SECONDS
                          /\ FD_Table'[n][d] = FD_Table[n][d] - 1 \/ FD_Table[n][d] = 0
                          /\ FD_Table'[n][d] > 0 => FD_Table[n][d] > 0
  BY <1>1, <1>2, BbmdConstants DEF fdt_entry_aged
<1>4. FD_Table' \in [Nodes -> Tables]
  BY <1>1, <1>3 DEF Tables
<1>5. \A n \in Nodes : Fits(FD_Table'[n])
  <2> TAKE n \in Nodes
  <2>1. Entries(FD_Table'[n]) \subseteq Entries(FD_Table[n])
    BY <1>3 DEF Entries
  <2>2. Fits(FD_Table[n])
    BY DEF TablesTyped
  <2> HIDE DEF Fits
  <2> QED
    BY <2>1, <2>2, FewerFit
<1>6. \A t \in 1 .. TTL : /\ TimerAfter(t) \in 1 .. TTL
                          /\ IF t = 1 THEN TimerAfter(t) = TTL ELSE TimerAfter(t) = t - 1
  BY BbmdConstants DEF TimerAfter
<1>7. \A f \in alive : BBMD_Timer[f] \in 1 .. TTL /\ BBMD_Timer'[f] = TimerAfter(BBMD_Timer[f])
  BY <1>1, BbmdConstants DEF TablesTyped
<1>8. BBMD_Timer' \in [Foreign -> 0 .. TTL] /\ \A f \in alive : BBMD_Timer'[f] > 0
  <2>1. \A f \in Foreign : BBMD_Timer'[f] \in 0 .. TTL
    BY <1>1, <1>6, <1>7, BbmdConstants DEF TablesTyped
  <2>2. BBMD_Timer' \in [Foreign -> 0 .. TTL]
    BY <2>1, <1>1
  <2>3. \A f \in alive : TimerAfter(BBMD_Timer[f]) > 0
    BY <1>6, <1>7
  <2> QED
    BY <2>2, <2>3, <1>7
<1>9. \A r \in regs : LET older == [r EXCEPT !.age = @ + 1]
                      IN  /\ older \in regs' /\ older \in Registrations
                          /\ older.from = r.from /\ older.age = r.age + 1
  <2> TAKE r \in regs
  <2>1. r \in Registrations /\ r.age + 1 < GRACE
    BY <1>1 DEF TablesTyped
  <2>2. [r EXCEPT !.age = @ + 1] \in regs'
    BY <1>1
  <2> QED
    BY <2>1, <2>2, BbmdConstants DEF Registrations
<1>10. \A f \in Foreign : Registration(f) \in Registrations
  BY BbmdConstants DEF Registration, Registrations
<1>11. regs' \subseteq Registrations
  BY <1>1, <1>9, <1>10 DEF TablesTyped
<1>12. TablesTyped'
  BY <1>1, <1>4, <1>5, <1>8, <1>11 DEF TablesTyped
<1>13. ASSUME Timely, GraceFits, NEW d \in settled' PROVE InTime(d)'
  <2>1. d \in settled /\ d \in alive /\ d \in Foreign /\ InTime(d)
    BY <1>13, <1>1 DEF TablesTyped, Timely
  <2>2. Left(d) \in 0 .. MAX_SECONDS /\ Left(d) > 0 /\ Left(d)' = Left(d) - 1
    BY <2>1, <1>3, LeftTyped, InTimeIsRegistered DEF Left
  <2>3. CASE Left(d) >= BBMD_Timer[d] + GRACE /\ BBMD_Timer[d] = 1
    <3>1. Registration(d) \in regs'
      BY <1>1, <2>1, <2>3
    <3>2. Registration(d).from = d /\ Left(d)' + Registration(d).age >= GRACE
      BY <2>2, <2>3, BbmdConstants DEF Registration
    <3> QED
      BY <3>1, <3>2 DEF InTime
  <2>4. CASE Left(d) >= BBMD_Timer[d] + GRACE /\ BBMD_Timer[d] # 1
    <3>1. BBMD_Timer'[d] = BBMD_Timer[d] - 1 /\ BBMD_Timer[d] \in 1 .. TTL
      BY <1>6, <1>7, <2>1, <2>4
    <3>2. Left(d)' >= BBMD_Timer'[d] + GRACE
      BY <3>1, <2>2, <2>4, BbmdConstants
    <3> QED
      BY <3>2 DEF InTime
  <2>5. CASE \E r \in regs : r.from = d /\ Left(d) + r.age >= GRACE
    <3>1. PICK r \in regs : r.from = d /\ Left(d) + r.age >= GRACE
      BY <2>5
    <3>2. PICK older \in regs' : older.from = d /\ older.age = r.age + 1
      BY <3>1, <1>9
    <3>3. r.age \in Nat
      BY DEF TablesTyped, Registrations
    <3>4. Left(d)' + older.age >= GRACE
      BY <3>1, <3>2, <3>3, <2>2, BbmdConstants
    <3> QED
      BY <3>2, <3>4 DEF InTime
  <2> QED
    BY <2>1, <2>3, <2>4, <2>5 DEF InTime
<1> QED
  BY <1>12, <1>13 DEF TableStep, Timely, GraceFits

----------------------------------------------------------------------------
(* The specification.                                                      *)

BbmdIInv == TablesTyped /\ TrafficTyped /\ Timely

LEMMA BbmdStep == BbmdIInv /\ [BbmdNext]_bbmdVars => BbmdIInv'
<1> SUFFICES ASSUME BbmdIInv, [BbmdNext]_bbmdVars PROVE BbmdIInv'
  OBVIOUS
<1>0. TablesTyped /\ TrafficTyped /\ Timely
  BY DEF BbmdIInv
<1>1. ASSUME UNCHANGED tables PROVE TableStep
  <2>1. TablesTyped'
    BY <1>0, <1>1 DEF tables, TablesTyped
  <2>2. Timely'
    BY <1>0, <1>1 DEF tables, Timely, InTime, Left
  <2> QED
    BY <2>1, <2>2 DEF TableStep
<1>2. ASSUME UNCHANGED traffic PROVE TrafficTyped'
  BY <1>0, <1>2 DEF traffic, TrafficTyped
<1>3. TableStep /\ TrafficTyped'
  <2>1. ASSUME NEW n \in Senders, NEW i \in IDs, Broadcast(n, i)
        PROVE  TableStep /\ TrafficTyped'
    <3>1. n \in Nodes
      BY BbmdConstants
    <3>2. UNCHANGED tables
      BY <2>1 DEF Broadcast, tables
    <3> QED
      BY <3>1, <3>2, <1>0, <1>1, <2>1, BroadcastTyped
  <2>2. ASSUME NEW i \in IDs, Deliver(i) PROVE TableStep /\ TrafficTyped'
    <3>1. PICK m \in BagToSet(net) : Receive(m)
      BY <2>2 DEF Deliver
    <3>2. UNCHANGED tables
      BY <3>1 DEF Receive, tables
    <3> QED
      BY <3>1, <3>2, <1>0, <1>1, ReceiveTyped
  <2>3. ASSUME NEW f \in Foreign, RegisterFrom(f) PROVE TableStep /\ TrafficTyped'
    <3>1. PICK r \in regs : RegisterForeignDevice(r)
      BY <2>3 DEF RegisterFrom
    <3>2. UNCHANGED traffic
      BY <3>1 DEF RegisterForeignDevice
    <3> QED
      BY <3>1, <3>2, <1>0, <1>2, RegisterStep
  <2>4. ASSUME NEW f \in Foreign, Start(f) PROVE TableStep /\ TrafficTyped'
    <3>1. UNCHANGED traffic
      BY <2>4 DEF Start
    <3> QED
      BY <3>1, <2>4, <1>0, <1>2, StartStep
  <2>5. ASSUME NEW f \in Foreign, Stop(f) PROVE TableStep /\ TrafficTyped'
    <3>1. UNCHANGED traffic
      BY <2>5 DEF Stop
    <3> QED
      BY <3>1, <2>5, <1>0, <1>2, StopStep
  <2>6. ASSUME NEW f \in Foreign, DeleteForeignDevice(f) PROVE TableStep /\ TrafficTyped'
    <3>1. UNCHANGED traffic
      BY <2>6 DEF DeleteForeignDevice
    <3> QED
      BY <3>1, <2>6, <1>0, <1>2, DeleteStep
  <2>7. CASE Second
    <3>1. UNCHANGED traffic
      BY <2>7 DEF Second
    <3> QED
      BY <3>1, <2>7, <1>0, <1>2, SecondStep
  <2>8. ASSUME NEW m \in BagToSet(net), Lose(m) PROVE TableStep /\ TrafficTyped'
    <3>1. UNCHANGED tables
      BY <2>8 DEF Lose, tables
    <3> QED
      BY <3>1, <2>8, <1>0, <1>1, LoseTyped
  <2>9. ASSUME NEW r \in regs, LoseRegistration(r) PROVE TableStep /\ TrafficTyped'
    <3>1. UNCHANGED traffic
      BY <2>9 DEF LoseRegistration
    <3> QED
      BY <3>1, <2>9, <1>0, <1>2, LoseRegistrationStep
  <2>10. CASE UNCHANGED bbmdVars
    <3>1. UNCHANGED tables /\ UNCHANGED traffic
      BY <2>10 DEF bbmdVars
    <3> QED
      BY <3>1, <1>1, <1>2
  <2> QED
    BY <2>1, <2>2, <2>3, <2>4, <2>5, <2>6, <2>7, <2>8, <2>9, <2>10 DEF BbmdNext
<1> QED
  BY <1>0, <1>3 DEF TableStep, BbmdIInv

LEMMA BbmdInitOK == BbmdInit => BbmdIInv
<1> SUFFICES ASSUME BbmdInit PROVE BbmdIInv
  OBVIOUS
<1>1. Timely
  BY DEF BbmdInit, Timely
<1> QED
  BY <1>1, InitTyped DEF BbmdIInv

\* The inductive invariant: the types, that every table fits, and that every
\* settled device is renewed in time.
THEOREM BbmdInvariant == BbmdSpec => []BbmdIInv
  BY BbmdInitOK, BbmdStep, PTL DEF BbmdSpec

\* The tables, timers and messages of every node are well typed, and no foreign
\* device table ever holds more entries than it has, whichever devices register,
\* whatever is lost or delayed (bvlc.c:1043-1092, h_bbmd.c, dlenv.c).
THEOREM BbmdTypeCorrect == BbmdSpec => []BbmdTypeOK
<1>1. BbmdIInv => BbmdTypeOK
  BY TypedIsTypeOK DEF BbmdIInv
<1> QED
  BY <1>1, BbmdInvariant, PTL

\* Once registered, a foreign device stays in the table of its BBMD while it runs
\* and nothing is lost or deleted, for any number of devices and any time to live
\* that leaves room for the grace period in the 16 bits of the entry's counter
\* (bvlc.c:1061-1069, dlenv.c:341-358).
THEOREM DevicesStayRegistered ==
  ASSUME TTL + GRACE <= MAX_SECONDS
  PROVE  BbmdSpec => []StaysRegistered
<1>1. BbmdIInv => StaysRegistered
  BY InTimeIsRegistered DEF BbmdIInv, Timely, GraceFits, StaysRegistered, Registered, Left
<1> QED
  BY <1>1, BbmdInvariant, PTL

----------------------------------------------------------------------------
(* The ways a broadcast can go.  Way(o, k, n): a broadcast of o may come   *)
(* from k to n.  It is local on the subnet of o, or, when o is a foreign   *)
(* device, on that of its BBMD; from there each node relays it to the      *)
(* foreign devices it knows and to its peers, and these to their subnets.  *)

Relayed(g, o, k, n) ==
  \/ k = g /\ n \in Foreign \ {o} /\ Remote_BBMD[n] = g
  \/ k = g /\ n \in Peers(g)
  \/ k \in Peers(g) /\ n \in Neighbours(k)

Source(o) == IF o \in Foreign THEN Remote_BBMD[o] ELSE o
Gates(o)  == IF o \in Foreign THEN {Remote_BBMD[o]} ELSE Neighbours(o)

Way(o, k, n) ==
  \/ k = Source(o) /\ n \in Neighbours(k)
  \/ \E g \in Gates(o) : Relayed(g, o, k, n)

\* What the topology says, node by node.
LEMMA PlacesOfNodes ==
  ASSUME OneWay
  PROVE  /\ \A n \in Nodes : n \in Neighbours(n)
         /\ \A n, k \in Nodes : k \in Neighbours(n) <=> Subnet[k] = Subnet[n]
         /\ \A n \in Nodes : \A p \in Peers(n) :
              p \in Bbmds /\ p \in Nodes /\ p # n /\ n \in Bbmds /\ Subnet[p] # Subnet[n]
         /\ \A b, c \in Bbmds : Subnet[b] = Subnet[c] => b = c
         /\ \A f \in Foreign : /\ f \in Nodes /\ Remote_BBMD[f] \in Nodes \ Foreign
                               /\ f \notin Bbmds /\ Peers(f) = {}
                               /\ Subnet[Remote_BBMD[f]] # Subnet[f]
                               /\ \A b \in Bbmds : Subnet[b] # Subnet[f]
<1>1. \A n, k \in Nodes : k \in Neighbours(n) <=> Subnet[k] = Subnet[n]
  BY DEF Neighbours
<1>2. \A b, c \in Bbmds : Subnet[b] = Subnet[c] => b = c
  BY DEF OneWay
<1>3. ASSUME NEW n \in Nodes, NEW p \in Peers(n)
      PROVE  p \in Bbmds /\ p \in Nodes /\ p # n /\ n \in Bbmds /\ Subnet[p] # Subnet[n]
  <2>1. p \in Bbmds /\ p # n /\ n \in Bbmds
    BY <1>3 DEF OneWay, Peers, Bbmds, IsBBMD
  <2>2. p \in Nodes
    BY <2>1 DEF Bbmds
  <2> QED
    BY <2>1, <2>2, <1>2
<1>4. ASSUME NEW f \in Foreign
      PROVE  /\ f \in Nodes /\ Remote_BBMD[f] \in Nodes \ Foreign
             /\ f \notin Bbmds /\ Peers(f) = {}
             /\ Subnet[Remote_BBMD[f]] # Subnet[f]
             /\ \A b \in Bbmds : Subnet[b] # Subnet[f]
  <2>1. f \in Nodes /\ Remote_BBMD[f] \in Nodes \ Foreign
    BY BbmdConstants
  <2>2. Neighbours(f) \cap (Bbmds \cup {Remote_BBMD[f]}) = {}
    BY DEF OneWay
  <2>3. \A b \in Bbmds : b \in Nodes
    BY DEF Bbmds
  <2>4. f \notin Bbmds
    BY <1>1, <2>1, <2>2
  <2>5. Peers(f) = {}
    BY <2>1, <2>4 DEF Bbmds, IsBBMD
  <2> QED
    BY <1>1, <2>1, <2>2, <2>3, <2>4, <2>5
<1> QED
  BY <1>1, <1>2, <1>3, <1>4

\* A broadcast comes to a node by one way, and to a BBMD by one more: from its
\* own local broadcast.
LEMMA WaysApart ==
  ASSUME OneWay, NEW o \in Nodes, NEW n \in Nodes \ {o}, NEW k1 \in Nodes, NEW k2 \in Nodes,
         Way(o, k1, n), Way(o, k2, n)
  PROVE  k1 = k2 \/ (n \in Bbmds /\ n \in {k1, k2})
<1>1. Source(o) \in Nodes /\ Gates(o) \subseteq Nodes
  BY PlacesOfNodes DEF Source, Gates, Neighbours
<1>2. \A g \in Gates(o) : Subnet[g] = Subnet[Source(o)]
  BY PlacesOfNodes DEF Source, Gates, Neighbours
\* On the subnet where the broadcast starts.
<1>3. ASSUME NEW k \in Nodes, Way(o, k, n), Subnet[n] = Subnet[Source(o)]
      PROVE  k = Source(o)
  <2>1. ASSUME NEW g \in Gates(o), Relayed(g, o, k, n) PROVE FALSE
    <3>1. CASE k = g /\ n \in Foreign /\ Remote_BBMD[n] = g
      BY <3>1, <1>2, <1>3, PlacesOfNodes
    <3>2. CASE k = g /\ n \in Peers(g)
      BY <3>2, <1>1, <1>2, <1>3, PlacesOfNodes
    <3>3. CASE k \in Peers(g) /\ n \in Neighbours(k)
      BY <3>3, <1>1, <1>2, <1>3, PlacesOfNodes
    <3> QED
      BY <2>1, <3>1, <3>2, <3>3 DEF Relayed
  <2> QED
    BY <2>1, <1>3 DEF Way
\* On the others.
<1>4. ASSUME NEW k \in Nodes, Way(o, k, n), Subnet[n] # Subnet[Source(o)]
      PROVE  \E g \in Gates(o) : Relayed(g, o, k, n)
  <2>1. ~ (k = Source(o) /\ n \in Neighbours(k))
    BY <1>1, <1>4, PlacesOfNodes
  <2> QED
    BY <2>1, <1>4 DEF Way
<1>5. CASE Subnet[n] = Subnet[Source(o)]
  BY <1>3, <1>5
<1>6. CASE Subnet[n] # Subnet[Source(o)]
  <2>1. PICK g1 \in Gates(o) : Relayed(g1, o, k1, n)
    BY <1>4, <1>6
  <2>2. PICK g2 \in Gates(o) : Relayed(g2, o, k2, n)
    BY <1>4, <1>6
  <2>3. g1 \in Nodes /\ g2 \in Nodes /\ Subnet[g1] = Subnet[g2]
    BY <1>1, <1>2
  <2>4. g1 \in Bbmds /\ g2 \in Bbmds => g1 = g2
    BY <2>3, PlacesOfNodes
  <2>5. CASE n \in Foreign
    <3>1. \A g \in Nodes, k \in Nodes : Relayed(g, o, k, n) => k = Remote_BBMD[n]
      BY <2>5, PlacesOfNodes DEF Relayed
    <3> QED
      BY <3>1, <2>1, <2>2, <2>3
  <2>6. CASE n \notin Foreign
    <3>1. \A g \in Nodes, k \in Nodes : Relayed(g, o, k, n) =>
            \/ k = g /\ g \in Bbmds /\ n \in Bbmds
            \/ k \in Bbmds /\ Subnet[k] = Subnet[n]
      BY <2>6, PlacesOfNodes DEF Relayed
    <3>2. \/ k1 = g1 /\ g1 \in Bbmds /\ n \in Bbmds
          \/ k1 \in Bbmds /\ Subnet[k1] = Subnet[n]
      BY <3>1, <2>1, <2>3
    <3>3. \/ k2 = g2 /\ g2 \in Bbmds /\ n \in Bbmds
          \/ k2 \in Bbmds /\ Subnet[k2] = Subnet[n]
      BY <3>1, <2>2, <2>3
    <3> QED
      BY <3>2, <3>3, <2>4, PlacesOfNodes
  <2> QED
    BY <2>5, <2>6
<1> QED
  BY <1>5, <1>6

----------------------------------------------------------------------------
(* Bags of messages.                                                       *)

\* The messages B are those of T and one of each of D.
Joined(B, T, D) ==
  /\ BagToSet(B) = BagToSet(T) \cup D
  /\ \A e \in BagToSet(B) :
       IF e \in D THEN e \notin BagToSet(T) => B[e] = 1 ELSE T[e] = 1 => B[e] = 1

LEMMA JoinNone ==
  ASSUME NEW T
  PROVE  Joined(T, T, {})
  BY DEF Joined

LEMMA JoinOne ==
  ASSUME NEW T, NEW A
  PROVE  Joined(T (+) SetToBag(A), T, A)
<1> DEFINE B == T (+) SetToBag(A)
<1>1. BagToSet(B) = BagToSet(T) \cup A
  BY DEF (+), SetToBag, BagToSet
<1>2. ASSUME NEW e \in BagToSet(B)
      PROVE  B[e] = (IF e \in BagToSet(T) THEN T[e] ELSE 0) + (IF e \in A THEN 1 ELSE 0)
  BY <1>1 DEF (+), SetToBag, BagToSet
<1> HIDE DEF B
<1>3. ASSUME NEW e \in BagToSet(B)
      PROVE  IF e \in A THEN e \notin BagToSet(T) => B[e] = 1 ELSE T[e] = 1 => B[e] = 1
  BY <1>1, <1>2, <1>3
<1> QED
  BY <1>1, <1>3 DEF Joined, B

\* One after another, or as one bag.
LEMMA JoinMore ==
  ASSUME NEW B, NEW T, NEW D, Joined(B, T, D), NEW A, A \cap D = {}
  PROVE  Joined(B (+) SetToBag(A), T, D \cup A)
<1> DEFINE C == B (+) SetToBag(A)
<1>1. Joined(C, B, A)
  BY JoinOne
<1> HIDE DEF C
<1>2. BagToSet(C) = BagToSet(T) \cup (D \cup A)
  BY <1>1 DEF Joined
<1>3. ASSUME NEW e \in BagToSet(C)
      PROVE  IF e \in D \cup A THEN e \notin BagToSet(T) => C[e] = 1 ELSE T[e] = 1 => C[e] = 1
  <2>1. CASE e \in A
    BY <2>1, <1>1, <1>3 DEF Joined
  <2>2. CASE e \in D \cup BagToSet(T) /\ e \notin A
    BY <2>2, <1>1, <1>3 DEF Joined
  <2> QED
    BY <2>1, <2>2, <1>2, <1>3
<1> QED
  BY <1>2, <1>3 DEF Joined, C

LEMMA JoinPair ==
  ASSUME NEW A, NEW D, A \cap D = {}
  PROVE  SetToBag(A) (+) SetToBag(D) = SetToBag(A \cup D)
<1>1. DOMAIN (SetToBag(A) (+) SetToBag(D)) = A \cup D
  BY DEF (+), SetToBag
<1>2. ASSUME NEW e \in A \cup D PROVE (SetToBag(A) (+) SetToBag(D))[e] = 1
  <2>1. (SetToBag(A) (+) SetToBag(D))[e]
          = (IF e \in A THEN 1 ELSE 0) + (IF e \in D THEN 1 ELSE 0)
    BY <1>2 DEF (+), SetToBag
  <2> QED
    BY <2>1, <1>2
<1>3. SetToBag(A) (+) SetToBag(D) = [e \in A \cup D |-> (SetToBag(A) (+) SetToBag(D))[e]]
  BY <1>1 DEF (+)
<1> QED
  BY <1>2, <1>3 DEF SetToBag

LEMMA TakenOne ==
  ASSUME NEW m \in BagToSet(net)
  PROVE  /\ \A e \in BagToSet(net) \ {m} : net[e] = 1 => e \in BagToSet(Taken(m))
         /\ \A e \in BagToSet(Taken(m)) : /\ e \in BagToSet(net)
                                          /\ e # m => Taken(m)[e] = net[e]
         /\ net[m] = 1 => m \notin BagToSet(Taken(m))
<1> DEFINE B == [e \in DOMAIN net |-> IF e \in {m} THEN net[e] - SetToBag({m})[e] ELSE net[e]]
<1>1. DOMAIN SetToBag({m}) = {m} /\ SetToBag({m})[m] = 1
  BY DEF SetToBag
<1>2. Taken(m) = [e \in {d \in DOMAIN B : B[d] > 0} |-> B[e]]
  BY <1>1 DEF Taken, (-)
<1>3. B[m] = net[m] - 1 /\ \A e \in DOMAIN net \ {m} : B[e] = net[e]
  BY <1>1 DEF BagToSet
<1>4. DOMAIN B = DOMAIN net
  OBVIOUS
<1> HIDE DEF B
<1> QED
  BY <1>2, <1>3, <1>4 DEF BagToSet

----------------------------------------------------------------------------
(* What a node sends on behalf of a broadcast.                             *)

ToDevices(n, src, m) ==
  {Msg("FORWARDED", n, f, src, m) : f \in {d \in Nodes \ {n, src} : FD_Table[n][d] > 0}}
ToPeers(n, src, m) == {Msg("FORWARDED", n, p, src, m) : p \in Peers(n) \ {src}}
ToSubnet(n, src, m) == {Msg("FORWARDED", n, k, src, m) : k \in Neighbours(n)}

LEMMA DevicesSent ==
  ASSUME NEW n, NEW src, NEW m
  PROVE  bbmd_fdt_forward_npdu(n, src, m) = SetToBag(ToDevices(n, src, m))
  BY DEF bbmd_fdt_forward_npdu, ToDevices

LEMMA SubnetSent ==
  ASSUME NEW n, NEW src, NEW m
  PROVE  /\ LocalBroadcast(n, "FORWARDED", src, m) = SetToBag(ToSubnet(n, src, m))
         /\ bbmd_forward_npdu(n, src, m) = SetToBag(ToSubnet(n, src, m))
  BY DEF LocalBroadcast, bbmd_forward_npdu, ToSubnet

LEMMA PeersSent ==
  ASSUME OneWay, NEW n \in Nodes, NEW src, NEW m
  PROVE  bbmd_bdt_forward_npdu(n, src, m) = SetToBag(ToPeers(n, src, m))
<1> DEFINE T == BBMD_Table[n]
           S(e) == IF e.unicast /\ e.dest \in {n, src} THEN {}
                   ELSE {Msg("FORWARDED", n, k, src, m) : k \in Addressed(e)}
           U == UNION {S(e) : e \in T}
<1>1. \A e \in T : e \in [dest : Nodes, unicast : BOOLEAN] /\ e.unicast = TRUE
  BY BbmdConstants DEF OneWay
<1>2. \A e \in T : S(e) = IF e.dest \in {n, src} THEN {} ELSE {Msg("FORWARDED", n, e.dest, src, m)}
  BY <1>1 DEF Addressed
<1>3. bbmd_bdt_forward_npdu(n, src, m) = [msg \in U |-> Cardinality({e \in T : msg \in S(e)})]
  BY DEF bbmd_bdt_forward_npdu
<1> HIDE DEF S
<1>4. U = ToPeers(n, src, m)
  <2>1. ASSUME NEW x \in U PROVE x \in ToPeers(n, src, m)
    <3>1. PICK e \in T : x \in S(e)
      OBVIOUS
    <3>2. e.dest \in Peers(n) \ {src} /\ x = Msg("FORWARDED", n, e.dest, src, m)
      BY <3>1, <1>2 DEF Peers
    <3> QED
      BY <3>2 DEF ToPeers
  <2>2. ASSUME NEW x \in ToPeers(n, src, m) PROVE x \in U
    <3>1. PICK p \in Peers(n) \ {src} : x = Msg("FORWARDED", n, p, src, m)
      BY DEF ToPeers
    <3>2. PICK e \in T : e.dest = p
      BY DEF Peers
    <3>3. p # n
      BY DEF Peers
    <3>4. x \in S(e)
      BY <3>1, <3>2, <3>3, <1>2
    <3> QED
      BY <3>4
  <2> QED
    BY <2>1, <2>2
<1>5. ASSUME NEW x \in U PROVE Cardinality({e \in T : x \in S(e)}) = 1
  <2>1. PICK e \in T : x \in S(e)
    OBVIOUS
  <2>2. ASSUME NEW d \in T, x \in S(d) PROVE d = e
    <3>1. x = Msg("FORWARDED", n, e.dest, src, m) /\ x = Msg("FORWARDED", n, d.dest, src, m)
      BY <2>1, <2>2, <1>2
    <3>2. d.dest = e.dest
      BY <3>1 DEF Msg
    <3> QED
      BY <3>2, <1>1
  <2>3. {d \in T : x \in S(d)} = {e}
    BY <2>1, <2>2
  <2> QED
    BY <2>3, FS_Singleton
<1> HIDE DEF U
<1>6. [msg \in U |-> Cardinality({e \in T : msg \in S(e)})] = [msg \in U |-> 1]
  BY <1>5
<1> QED
  BY <1>3, <1>4, <1>6 DEF SetToBag

----------------------------------------------------------------------------
(* What is in flight.  Onward(m, k, n): m, or what is sent on its behalf,  *)
(* may come from k to n and be heard there.                                *)

Onward(m, k, n) ==
  /\ m.intact
  /\ \/ m.func # "DISTRIBUTE" /\ k = m.from /\ n = m.to
     \/ m.func = "DISTRIBUTE" /\ k = m.to /\ n \in Neighbours(k)
     \/ m.func # "FORWARDED" /\ m.to # m.from /\ Relayed(m.to, m.src, k, n)
     \/ m.func = "FORWARDED" /\ m.to \in Peers(m.from) /\ k = m.to /\ n \in Neighbours(k)

\* The way of m itself is over when m has arrived.
OwnWay(m, k, n) == m.func # "DISTRIBUTE" /\ k = m.from /\ n = m.to

\* A message is one of those that its broadcast causes.
Routed(m) ==
  /\ origin[m.id] \in Nodes /\ m.src = origin[m.id]
  /\ m.func = "ORIGINAL_BROADCAST" =>
       m.intact /\ m.from = m.src /\ m.src \notin Foreign /\ m.to \in Neighbours(m.src)
  /\ m.func = "DISTRIBUTE" =>
       m.intact /\ m.from = m.src /\ m.src \in Foreign /\ m.to = Remote_BBMD[m.src]
  /\ ~ m.intact => m.func = "FORWARDED" /\ m.to \in Foreign

\* Each message in flight goes its own ways, and none that another one goes.
Spreading ==
  /\ \A m \in BagToSet(net) :
       /\ Routed(m) /\ (m.intact => net[m] = 1)
       /\ \A k, n \in Nodes : Onward(m, k, n) => Way(m.src, k, n)
  /\ \A m, e \in BagToSet(net) : m # e /\ m.id = e.id =>
       \A k, n \in Nodes : ~ (Onward(m, k, n) /\ Onward(e, k, n))

Pending(i, k, n) == \E m \in BagToSet(net) : m.id = i /\ Onward(m, k, n)

\* The messages D share out the ways of m that are left.
SharesOut(m, D) ==
  /\ \A e \in D : /\ e \in Message /\ e.id = m.id /\ e.src = m.src /\ e.func = "FORWARDED"
                  /\ e.intact \/ e.to \in Foreign
  /\ \A e \in D : \A k, n \in Nodes : Onward(e, k, n) => Onward(m, k, n) /\ ~ OwnWay(m, k, n)
  /\ \A d, e \in D : \A k, n \in Nodes : Onward(d, k, n) /\ Onward(e, k, n) => d = e

\* So no way is gone twice.
LEMMA SpreadStep ==
  ASSUME Spreading, TrafficTyped, NEW m \in BagToSet(net), NEW D,
         Joined(net', Taken(m), D), SharesOut(m, D), UNCHANGED origin
  PROVE  /\ Spreading'
         /\ \A i \in IDs, k, n \in Nodes :
              Pending(i, k, n)' => Pending(i, k, n) /\ ~ (m.intact /\ i = m.id /\ OwnWay(m, k, n))
<1> DEFINE T == BagToSet(Taken(m))
<1>1. /\ \A e \in T : e \in BagToSet(net) /\ e \in Message
      /\ \A e \in T : m.intact => e # m
      /\ \A e \in T : e.intact => e # m /\ Taken(m)[e] = 1
  BY TakenOne DEF Spreading, TrafficTyped
<1>2. \A e \in BagToSet(net') : e \in T \/ e \in D
  BY DEF Joined
<1>3. \A e \in D : Routed(e)
  BY DEF SharesOut, Routed, Spreading
<1>4. \A e \in D : e.from \in Nodes /\ e.to \in Nodes /\ e \in Message
  BY DEF SharesOut, Message
<1>5. \A e \in D : e.intact => Onward(e, e.from, e.to)
  BY DEF SharesOut, Onward
<1>6. ASSUME NEW e \in D, NEW d \in T, d.id = m.id, NEW k \in Nodes, NEW n \in Nodes,
             Onward(e, k, n), Onward(d, k, n)
      PROVE  FALSE
  <2>1. Onward(m, k, n)
    BY <1>6 DEF SharesOut
  <2>2. d # m
    BY <2>1, <1>1 DEF Onward
  <2> QED
    BY <2>1, <2>2, <1>1, <1>6 DEF Spreading
<1>7. \A e \in D : e.intact => e \notin T
  BY <1>4, <1>5, <1>6 DEF SharesOut
<1>8. ASSUME NEW e \in BagToSet(net')
      PROVE  /\ Routed(e)' /\ (e.intact => net'[e] = 1)
             /\ \A k, n \in Nodes : Onward(e, k, n) => Way(e.src, k, n)
  <2>1. Routed(e)
    BY <1>1, <1>2, <1>3, <1>8 DEF Spreading
  <2>2. Routed(e)'
    BY <2>1 DEF Routed
  <2>3. e.intact => net'[e] = 1
    BY <1>1, <1>2, <1>7 DEF Joined
  <2>4. ASSUME NEW k \in Nodes, NEW n \in Nodes, Onward(e, k, n) PROVE Way(e.src, k, n)
    <3>1. CASE e \in T
      BY <3>1, <1>1, <2>4 DEF Spreading
    <3>2. CASE e \in D
      BY <3>2, <2>4 DEF SharesOut, Spreading
    <3> QED
      BY <3>1, <3>2, <1>2
  <2> QED
    BY <2>2, <2>3, <2>4
<1>9. ASSUME NEW d \in BagToSet(net'), NEW e \in BagToSet(net'), d # e, d.id = e.id,
             NEW k \in Nodes, NEW n \in Nodes, Onward(d, k, n), Onward(e, k, n)
      PROVE  FALSE
  <2>1. CASE d \in T /\ e \in T
    BY <2>1, <1>1, <1>9 DEF Spreading
  <2>2. CASE d \in D /\ e \in T
    BY <2>2, <1>6, <1>9 DEF SharesOut
  <2>3. CASE d \in T /\ e \in D
    BY <2>3, <1>6, <1>9 DEF SharesOut
  <2>4. CASE d \in D /\ e \in D
    BY <2>4, <1>9 DEF SharesOut
  <2> QED
    BY <2>1, <2>2, <2>3, <2>4, <1>2
<1>10. ASSUME NEW i \in IDs, NEW k \in Nodes, NEW n \in Nodes, Pending(i, k, n)'
       PROVE  Pending(i, k, n) /\ ~ (m.intact /\ i = m.id /\ OwnWay(m, k, n))
  <2>1. PICK e \in BagToSet(net') : e.id = i /\ Onward(e, k, n)
    BY <1>10 DEF Pending
  <2>2. CASE e \in T
    <3>1. e \in BagToSet(net)
      BY <2>2, <1>1
    <3>2. ASSUME m.intact, i = m.id, OwnWay(m, k, n) PROVE FALSE
      <4>1. Onward(m, k, n)
        BY <3>2 DEF Onward, OwnWay
      <4>2. e # m
        BY <2>2, <3>2, <1>1
      <4> QED
        BY <4>1, <4>2, <2>1, <3>1, <3>2 DEF Spreading
    <3> QED
      BY <3>1, <3>2, <2>1 DEF Pending
  <2>3. CASE e \in D
    BY <2>1, <2>3 DEF SharesOut, Pending
  <2> QED
    BY <2>2, <2>3, <1>2
<1> QED
  BY <1>8, <1>9, <1>10 DEF Spreading

----------------------------------------------------------------------------
(* How often a node has heard a broadcast.                                 *)

Most(n) == IF IsBBMD(n) THEN 2 ELSE 1

\* As often as it may, less the ways that it may yet come by.
Counted ==
  \A n \in Nodes, i \in IDs :
    /\ heard[n][i] \in 0 .. Most(n)
    /\ origin[i] \in {n, NoNode} => heard[n][i] = 0
    /\ \A k \in Nodes : Pending(i, k, n) => heard[n][i] < Most(n)
    /\ n # origin[i] => \A k, j \in Nodes :
         k # j /\ Pending(i, k, n) /\ Pending(i, j, n) => heard[n][i] = 0

HeardTyped == heard \in [Nodes -> [IDs -> Nat]]

Fewer == \A i \in IDs, k, n \in Nodes : Pending(i, k, n)' => Pending(i, k, n)

LEMMA CountedStays ==
  ASSUME Counted, UNCHANGED <<heard, origin>>, Fewer
  PROVE  Counted'
  BY DEF Counted, Fewer

\* A message that is heard uses up its own way.
LEMMA CountedHears ==
  ASSUME OneWay, TrafficTyped, HeardTyped, Spreading, Counted, NEW m \in BagToSet(net), Hears(m),
         UNCHANGED origin, m.func # "DISTRIBUTE", m.to # m.src, Fewer,
         m.intact => ~ Pending(m.id, m.from, m.to)'
  PROVE  Counted' /\ HeardTyped'
<1>1. m \in Message /\ m.from \in Nodes /\ m.to \in Nodes /\ m.id \in IDs /\ m.intact \in BOOLEAN
  BY DEF TrafficTyped, Message
<1>2. CASE ~ m.intact
  <2>1. heard' = heard
    BY <1>2 DEF Hears
  <2> QED
    BY <2>1, CountedStays DEF HeardTyped
<1>3. CASE m.intact
  <2> DEFINE h == heard[m.to][m.id]
  <2>1. heard' = [heard EXCEPT ![m.to][m.id] = IF h < 3 THEN h + 1 ELSE h]
    BY <1>3 DEF Hears
  <2>2. Pending(m.id, m.from, m.to)
    BY <1>1, <1>3 DEF Pending, Onward
  <2>3. h \in 0 .. Most(m.to) /\ h < Most(m.to) /\ Most(m.to) \in {1, 2}
    BY <1>1, <2>2 DEF Counted, Most
  <2>4. heard' = [heard EXCEPT ![m.to][m.id] = h + 1]
    <3>1. h < 3
      BY <2>3
    <3> QED
      BY <2>1, <3>1
  <2>5. m.src = origin[m.id] /\ m.src \in Nodes
    BY DEF Spreading, Routed
  <2>6. \A k, n \in Nodes : Pending(m.id, k, n) => Way(m.src, k, n)
    BY <2>5 DEF Pending, Spreading, Routed
  <2>7. h \in Nat /\ heard'[m.to][m.id] = h + 1
    BY <1>1, <2>3, <2>4 DEF HeardTyped
  <2>8. HeardTyped'
    BY <1>1, <2>4, <2>7 DEF HeardTyped
  <2> HIDE DEF h
  <2>9. ASSUME NEW k \in Nodes, Pending(m.id, k, m.to)'
        PROVE  /\ k # m.from /\ Pending(m.id, k, m.to) /\ h = 0
               /\ m.to \in Bbmds /\ m.to \in {k, m.from}
    <3>1. k # m.from /\ Pending(m.id, k, m.to)
      BY <1>1, <1>3, <2>9 DEF Fewer
    <3>2. h = 0
      BY <3>1, <1>1, <2>2, <2>5 DEF Counted, h
    <3>3. Way(m.src, k, m.to) /\ Way(m.src, m.from, m.to)
      BY <3>1, <1>1, <2>2, <2>6
    <3> QED
      BY <3>1, <3>2, <3>3, <1>1, <2>5, WaysApart
  <2>10. ASSUME NEW n \in Nodes, NEW i \in IDs
         PROVE  /\ heard'[n][i] \in 0 .. Most(n)
                /\ origin'[i] \in {n, NoNode} => heard'[n][i] = 0
                /\ \A k \in Nodes : Pending(i, k, n)' => heard'[n][i] < Most(n)
                /\ n # origin'[i] => \A k, j \in Nodes :
                     k # j /\ Pending(i, k, n)' /\ Pending(i, j, n)' => heard'[n][i] = 0
    <3>1. CASE n = m.to /\ i = m.id
      <4>1. heard'[n][i] = h + 1 /\ h + 1 \in 0 .. Most(n)
        BY <3>1, <2>3, <2>7
      <4>2. origin'[i] \notin {n, NoNode}
        BY <3>1, <2>5, BbmdConstants
      <4>3. ASSUME NEW k \in Nodes, Pending(i, k, n)' PROVE heard'[n][i] < Most(n)
        <5>1. h = 0 /\ n \in Bbmds
          BY <4>3, <3>1, <2>9
        <5> QED
          BY <5>1, <4>1 DEF Most, Bbmds
      <4>4. ASSUME NEW k \in Nodes, NEW j \in Nodes, k # j, Pending(i, k, n)', Pending(i, j, n)'
            PROVE  FALSE
        <5>1. /\ k # m.from /\ j # m.from /\ n \in {k, m.from} /\ n \in {j, m.from}
              /\ Pending(m.id, k, n) /\ Pending(m.id, j, n)
          BY <4>4, <3>1, <2>9
        <5>2. n \in {k, j}
          BY <5>1, <4>4, <3>1, <1>1, <2>5, <2>6, WaysApart
        <5> QED
          BY <5>1, <5>2, <4>4
      <4> QED
        BY <4>1, <4>2, <4>3, <4>4
    <3>2. CASE ~ (n = m.to /\ i = m.id)
      <4>1. heard'[n][i] = heard[n][i]
        BY <3>2, <1>1, <2>4 DEF HeardTyped
      <4>2. \A k \in Nodes : Pending(i, k, n)' => Pending(i, k, n)
        BY DEF Fewer
      <4> HIDE DEF Pending
      <4> QED
        BY <4>1, <4>2 DEF Counted
    <3> QED
      BY <3>1, <3>2
  <2> QED
    BY <2>8, <2>10 DEF Counted
<1> QED
  BY <1>1, <1>2, <1>3

----------------------------------------------------------------------------
(* What each handler of bvlc_bbmd_enabled_handler() adds.                  *)

\* A device is in the table of its own BBMD only.
Located == \A n, d \in Nodes : FD_Table[n][d] > 0 => d \in Foreign /\ Remote_BBMD[d] = n

LEMMA SentParts ==
  ASSUME OneWay, Located, NEW n \in Nodes, NEW src \in Nodes, NEW m, Carried(m)
  PROVE  /\ \A e \in ToDevices(n, src, m) :
              \E f \in Foreign \ {src} : /\ f # n /\ Remote_BBMD[f] = n
                                         /\ e = Msg("FORWARDED", n, f, src, m)
         /\ \A e \in ToPeers(n, src, m) : \E p \in Peers(n) \ {src} : e = Msg("FORWARDED", n, p, src, m)
         /\ \A e \in ToSubnet(n, src, m) : \E k \in Neighbours(n) : e = Msg("FORWARDED", n, k, src, m)
         /\ \A k \in Nodes : LET e == Msg("FORWARDED", n, k, src, m)
                             IN  /\ e \in Message /\ e.func = "FORWARDED" /\ e.from = n /\ e.to = k
                                 /\ e.src = src /\ e.id = m.id /\ e.intact = m.intact
<1>1. ASSUME NEW e \in ToDevices(n, src, m)
      PROVE  \E f \in Foreign \ {src} : /\ f # n /\ Remote_BBMD[f] = n
                                        /\ e = Msg("FORWARDED", n, f, src, m)
  BY <1>1 DEF ToDevices, Located
<1>2. \A e \in ToPeers(n, src, m) : \E p \in Peers(n) \ {src} : e = Msg("FORWARDED", n, p, src, m)
  BY DEF ToPeers
<1>3. \A e \in ToSubnet(n, src, m) : \E k \in Neighbours(n) : e = Msg("FORWARDED", n, k, src, m)
  BY DEF ToSubnet
<1>4. ASSUME NEW k \in Nodes
      PROVE  LET e == Msg("FORWARDED", n, k, src, m)
             IN  /\ e \in Message /\ e.func = "FORWARDED" /\ e.from = n /\ e.to = k
                 /\ e.src = src /\ e.id = m.id /\ e.intact = m.intact
  BY DEF Msg, Message, Functions, Carried
<1> QED
  BY <1>1, <1>2, <1>3, <1>4

LEMMA SentOnward ==
  ASSUME OneWay, NEW n \in Nodes, NEW src \in Nodes, NEW m, Carried(m), NEW to \in Nodes,
         NEW k \in Nodes, NEW j \in Nodes, Onward(Msg("FORWARDED", n, to, src, m), k, j)
  PROVE  /\ m.intact
         /\ to \notin Peers(n) => k = n /\ j = to
         /\ \/ k = n /\ j = to
            \/ to \in Peers(n) /\ k = to /\ j \in Neighbours(to)
  BY DEF Onward, Msg

LEMMA SentApart ==
  ASSUME OneWay, Located, NEW n \in Nodes, NEW src \in Nodes, NEW m, Carried(m), n \notin Foreign
  PROVE  /\ ToDevices(n, src, m) \cap ToPeers(n, src, m) = {}
         /\ ToSubnet(n, src, m) \cap ToDevices(n, src, m) = {}
         /\ ToSubnet(n, src, m) \cap ToPeers(n, src, m) = {}
         /\ LET D == ToSubnet(n, src, m) \cup ToDevices(n, src, m) \cup ToPeers(n, src, m)
            IN  \A d, e \in D : \A k, j \in Nodes : Onward(d, k, j) /\ Onward(e, k, j) => d = e
<1> DEFINE To(k) == Msg("FORWARDED", n, k, src, m)
<1>1. \A e \in ToDevices(n, src, m) : e = To(e.to) /\ e.to \in Foreign /\ Remote_BBMD[e.to] = n
  BY SentParts, PlacesOfNodes
<1>2. \A e \in ToPeers(n, src, m) : e = To(e.to) /\ e.to \in Peers(n)
  BY SentParts, PlacesOfNodes
<1>3. \A e \in ToSubnet(n, src, m) : e = To(e.to) /\ e.to \in Neighbours(n)
  <2>1. Neighbours(n) \subseteq Nodes
    BY DEF Neighbours
  <2> QED
    BY <2>1, SentParts
<1>4. /\ \A f \in Foreign : Remote_BBMD[f] = n => f \notin Peers(n) /\ f \notin Neighbours(n)
      /\ \A k \in Neighbours(n) : k \notin Peers(n)
  BY PlacesOfNodes DEF Neighbours
<1>5. ASSUME NEW d \in ToSubnet(n, src, m) \cup ToDevices(n, src, m) \cup ToPeers(n, src, m),
             NEW e \in ToSubnet(n, src, m) \cup ToDevices(n, src, m) \cup ToPeers(n, src, m),
             NEW k \in Nodes, NEW j \in Nodes, Onward(d, k, j), Onward(e, k, j)
      PROVE  d = e
  <2>1. d = To(d.to) /\ e = To(e.to) /\ d.to \in Nodes /\ e.to \in Nodes
    BY <1>1, <1>2, <1>3, PlacesOfNodes DEF Neighbours
  <2>2. \/ k = n /\ j = d.to
        \/ d.to \in Peers(n) /\ k = d.to
    BY <1>5, <2>1, SentOnward
  <2>3. \/ k = n /\ j = e.to
        \/ e.to \in Peers(n) /\ k = e.to
    BY <1>5, <2>1, SentOnward
  <2>4. n \notin Peers(n)
    BY PlacesOfNodes
  <2> QED
    BY <2>1, <2>2, <2>3, <2>4
<1> HIDE DEF To
<1> QED
  BY <1>1, <1>2, <1>3, <1>4, <1>5

\* A node passes on an Original-Broadcast.
LEMMA OriginalShares ==
  ASSUME OneWay, Located, TrafficTyped, Spreading, NEW m \in BagToSet(net),
         m.func = "ORIGINAL_BROADCAST", m.from # m.to
  PROVE  SharesOut(m, ToDevices(m.to, m.from, m) \cup ToPeers(m.to, m.from, m))
<1> DEFINE n == m.to
           D == ToDevices(n, m.from, m) \cup ToPeers(n, m.from, m)
<1>1. m \in Message /\ m.from \in Nodes /\ n \in Nodes /\ Carried(m)
  BY DEF TrafficTyped, Message, Carried
<1>2. m.intact /\ m.from = m.src /\ n \in Neighbours(m.src) /\ m.src \notin Foreign
  BY DEF Spreading, Routed
<1>3. ASSUME NEW e \in D
      PROVE  /\ e \in Message /\ e.id = m.id /\ e.src = m.src /\ e.func = "FORWARDED"
             /\ e.intact \/ e.to \in Foreign
             /\ \A k, j \in Nodes : Onward(e, k, j) => Onward(m, k, j) /\ ~ OwnWay(m, k, j)
  <2>1. CASE e \in ToDevices(n, m.from, m)
    <3>1. PICK f \in Foreign \ {m.src} : f # n /\ Remote_BBMD[f] = n /\ e = Msg("FORWARDED", n, f, m.src, m)
      BY <2>1, <1>1, <1>2, SentParts
    <3>2. f \in Nodes /\ f \notin Peers(n)
      BY <1>1, <3>1, PlacesOfNodes
    <3>3. \A k, j \in Nodes : Onward(e, k, j) => k = n /\ j = f
      BY <1>1, <1>2, <3>1, <3>2, SentOnward
    <3>4. Onward(m, n, f) /\ ~ OwnWay(m, n, f)
      BY <1>2, <3>1, <1>1 DEF Onward, OwnWay, Relayed
    <3> QED
      BY <3>1, <3>2, <3>3, <3>4, <1>1, <1>2, SentParts
  <2>2. CASE e \in ToPeers(n, m.from, m)
    <3>1. PICK p \in Peers(n) \ {m.src} : e = Msg("FORWARDED", n, p, m.src, m)
      BY <2>2, <1>1, <1>2, SentParts
    <3>2. p \in Nodes /\ p # n /\ Subnet[p] # Subnet[n]
      BY <1>1, PlacesOfNodes
    <3>3. \A k, j \in Nodes : Onward(e, k, j) => (k = n /\ j = p) \/ (k = p /\ j \in Neighbours(p))
      BY <1>1, <1>2, <3>1, <3>2, SentOnward
    <3>4. n \notin Neighbours(p)
      BY <3>2, <1>1 DEF Neighbours
    <3>5. \A k, j \in Nodes : (k = n /\ j = p) \/ (k = p /\ j \in Neighbours(p)) =>
             Onward(m, k, j) /\ ~ OwnWay(m, k, j)
      BY <1>2, <3>1, <3>2, <3>4 DEF Onward, OwnWay, Relayed
    <3> QED
      BY <3>1, <3>2, <3>3, <3>5, <1>1, <1>2, SentParts
  <2> QED
    BY <2>1, <2>2
<1>4. ASSUME NEW d \in D, NEW e \in D, NEW k \in Nodes, NEW j \in Nodes, Onward(d, k, j), Onward(e, k, j)
      PROVE  d = e
  <2>1. CASE n \notin Foreign
    BY <1>1, <1>4, <2>1, SentApart
  \* A foreign device has neither a table nor peers.
  <2>2. CASE n \in Foreign
    <3>1. Peers(n) = {}
      BY <2>2, PlacesOfNodes
    <3>2. ToDevices(n, m.from, m) = {}
      <4>1. \A x \in ToDevices(n, m.from, m) : \E f \in Foreign : Remote_BBMD[f] = n
        BY <1>1, SentParts
      <4>2. \A f \in Foreign : Remote_BBMD[f] # n
        BY <2>2, PlacesOfNodes
      <4> QED
        BY <4>1, <4>2
    <3> QED
      BY <3>1, <3>2, <1>4 DEF ToPeers
  <2> QED
    BY <2>1, <2>2
<1> QED
  BY <1>3, <1>4 DEF SharesOut


\* A BBMD broadcasts on its subnet what a peer has forwarded.
LEMMA ForwardedShares ==
  ASSUME OneWay, Located, TrafficTyped, Spreading, NEW m \in BagToSet(net),
         m.func = "FORWARDED", m.src # m.to
  PROVE  LET nested == [m EXCEPT !.intact = FALSE]
             A == ToDevices(m.to, m.src, nested)
             D == ToSubnet(m.to, m.src, m)
         IN  /\ SharesOut(m, A) /\ \A e \in A : ~ e.intact
             /\ bbmd_bdt_member_mask_is_unicast(m.to, m.from) =>
                  SharesOut(m, A \cup D) /\ A \cap D = {}
<1> DEFINE n == m.to
           nested == [m EXCEPT !.intact = FALSE]
           A == ToDevices(n, m.src, nested)
           D == ToSubnet(n, m.src, m)
<1>1. /\ m \in Message /\ m.from \in Nodes /\ n \in Nodes /\ m.src \in Nodes /\ Carried(m)
      /\ Carried(nested) /\ ~ nested.intact /\ nested.id = m.id
  BY DEF TrafficTyped, Message, Carried
<1>2. ASSUME NEW e \in A
      PROVE  /\ e \in Message /\ e.id = m.id /\ e.src = m.src /\ e.func = "FORWARDED"
             /\ ~ e.intact /\ e.to \in Foreign
  <2>1. PICK f \in Foreign : e = Msg("FORWARDED", n, f, m.src, nested)
    BY <1>1, SentParts
  <2>2. f \in Nodes
    BY PlacesOfNodes
  <2> HIDE DEF nested
  <2> QED
    BY <1>1, <2>1, <2>2, SentParts
<1>3. \A e \in A : \A k, j : ~ Onward(e, k, j)
  BY <1>2 DEF Onward
<1>4. SharesOut(m, A)
  <2> HIDE DEF A
  <2> QED
    BY <1>2, <1>3 DEF SharesOut
<1>5. ASSUME bbmd_bdt_member_mask_is_unicast(n, m.from)
      PROVE  SharesOut(m, A \cup D) /\ A \cap D = {}
  <2>1. m.from \in Peers(n) /\ m.from # n
    BY <1>5 DEF bbmd_bdt_member_mask_is_unicast, Peers
  <2>2. /\ n \in Bbmds /\ m.from \in Bbmds /\ Subnet[m.from] # Subnet[n] /\ n \notin Foreign
        /\ n \notin Peers(n)
    BY <1>1, <2>1, PlacesOfNodes
  <2>3. m.intact
    BY <2>2 DEF Spreading, Routed
  <2>4. n \in Peers(m.from)
    <3>1. Way(m.src, m.from, n)
      BY <1>1, <2>3 DEF Spreading, Onward
    <3>2. ~ (n \in Neighbours(m.from))
      BY <1>1, <2>2, PlacesOfNodes
    <3> QED
      BY <3>1, <3>2, <2>2 DEF Way, Relayed
  <2>5. \A e \in D : \E k \in Neighbours(n) : e = Msg("FORWARDED", n, k, m.src, m)
    BY <1>1, SentParts
  <2>6. ASSUME NEW e \in D
        PROVE  /\ e \in Message /\ e.id = m.id /\ e.src = m.src /\ e.func = "FORWARDED"
               /\ e.intact
               /\ \A k, j \in Nodes : Onward(e, k, j) => k = n /\ j = e.to /\ e.to \in Neighbours(n)
               /\ e = Msg("FORWARDED", n, e.to, m.src, m)
    <3>1. PICK x \in Neighbours(n) : e = Msg("FORWARDED", n, x, m.src, m)
      BY <2>5
    <3>2. x \in Nodes /\ x \notin Peers(n)
      BY <1>1, PlacesOfNodes DEF Neighbours
    <3>3. /\ e \in Message /\ e.func = "FORWARDED" /\ e.from = n /\ e.to = x
          /\ e.src = m.src /\ e.id = m.id /\ e.intact = m.intact
      <4>1. e \in Message
        BY <1>1, <3>1, <3>2, MsgOK DEF Functions
      <4> QED
        BY <3>1, <4>1 DEF Msg
    <3>4. \A k, j \in Nodes : Onward(e, k, j) => k = n /\ j = x
      BY <1>1, <3>1, <3>2, SentOnward
    <3> QED
      BY <2>3, <3>1, <3>3, <3>4
  <2>7. \A j \in Neighbours(n) : Onward(m, n, j) /\ ~ OwnWay(m, n, j)
    BY <2>1, <2>3, <2>4 DEF Onward, OwnWay
  <2>8. A \cap D = {}
    BY <1>2, <2>6
  <2> HIDE DEF A, D
  <2>10. SharesOut(m, A \cup D)
    BY <1>2, <1>3, <2>6, <2>7 DEF SharesOut
  <2> QED
    BY <2>8, <2>10
<1> QED
  BY <1>2, <1>4, <1>5

\* A BBMD distributes what a foreign device asks it to.
LEMMA DistributeShares ==
  ASSUME OneWay, Located, TrafficTyped, Spreading, NEW m \in BagToSet(net),
         m.func = "DISTRIBUTE"
  PROVE  SharesOut(m, ToSubnet(m.to, m.from, m) \cup ToDevices(m.to, m.from, m)
                        \cup ToPeers(m.to, m.from, m))
<1> DEFINE n == m.to
           D == ToSubnet(n, m.from, m) \cup ToDevices(n, m.from, m) \cup ToPeers(n, m.from, m)
<1>1. m \in Message /\ m.from \in Nodes /\ n \in Nodes /\ Carried(m)
  BY DEF TrafficTyped, Message, Carried
<1>2. m.intact /\ m.from = m.src /\ m.src \in Foreign /\ n = Remote_BBMD[m.src]
  BY DEF Spreading, Routed
<1>3. n \notin Foreign /\ n # m.src
  BY <1>2, PlacesOfNodes
<1>4. ASSUME NEW e \in D
      PROVE  /\ e \in Message /\ e.id = m.id /\ e.src = m.src /\ e.func = "FORWARDED"
             /\ e.intact
             /\ \A k, j \in Nodes : Onward(e, k, j) => Onward(m, k, j)
  <2>1. CASE e \in ToDevices(n, m.from, m)
    <3>1. PICK f \in Foreign \ {m.src} : f # n /\ Remote_BBMD[f] = n /\ e = Msg("FORWARDED", n, f, m.src, m)
      BY <2>1, <1>1, <1>2, SentParts
    <3>2. f \in Nodes /\ f \notin Peers(n)
      BY <1>1, <3>1, PlacesOfNodes
    <3>3. \A k, j \in Nodes : Onward(e, k, j) => k = n /\ j = f
      BY <1>1, <1>2, <3>1, <3>2, SentOnward
    <3>4. Onward(m, n, f)
      BY <1>2, <1>3, <3>1, <1>1 DEF Onward, Relayed
    <3> QED
      BY <3>1, <3>2, <3>3, <3>4, <1>1, <1>2, SentParts
  <2>2. CASE e \in ToPeers(n, m.from, m)
    <3>1. PICK p \in Peers(n) \ {m.src} : e = Msg("FORWARDED", n, p, m.src, m)
      BY <2>2, <1>1, <1>2, SentParts
    <3>2. p \in Nodes
      BY <1>1, PlacesOfNodes
    <3>3. \A k, j \in Nodes : Onward(e, k, j) => (k = n /\ j = p) \/ (k = p /\ j \in Neighbours(p))
      BY <1>1, <1>2, <3>1, <3>2, SentOnward
    <3>4. \A k, j \in Nodes : (k = n /\ j = p) \/ (k = p /\ j \in Neighbours(p)) => Onward(m, k, j)
      BY <1>2, <1>3, <3>1 DEF Onward, Relayed
    <3> QED
      BY <3>1, <3>2, <3>3, <3>4, <1>1, <1>2, SentParts
  <2>3. CASE e \in ToSubnet(n, m.from, m)
    <3>1. PICK x \in Neighbours(n) : e = Msg("FORWARDED", n, x, m.src, m)
      BY <2>3, <1>1, <1>2, SentParts
    <3>2. x \in Nodes /\ x \notin Peers(n)
      BY <1>1, PlacesOfNodes DEF Neighbours
    <3>3. \A k, j \in Nodes : Onward(e, k, j) => k = n /\ j = x
      BY <1>1, <1>2, <3>1, <3>2, SentOnward
    <3>4. Onward(m, n, x)
      BY <1>2, <3>1 DEF Onward
    <3> QED
      BY <3>1, <3>2, <3>3, <3>4, <1>1, <1>2, SentParts
  <2> QED
    BY <2>1, <2>2, <2>3
<1>5. \A d, e \in D : \A k, j \in Nodes : Onward(d, k, j) /\ Onward(e, k, j) => d = e
  BY <1>1, <1>3, SentApart
<1>6. \A k, j : ~ OwnWay(m, k, j)
  BY DEF OwnWay
<1> HIDE DEF D
<1>7. SharesOut(m, D)
  BY <1>4, <1>5, <1>6 DEF SharesOut
<1> QED
  BY <1>7 DEF D


----------------------------------------------------------------------------
(* One message is received.                                                *)

\* The higher layers of its addressee get it.
IsHeard(m) == Running(m.to) /\ m.func # "DISTRIBUTE" /\ m.to # m.src

\* What its addressee sends on its behalf.
PassedOn(m) ==
  IF ~ Running(m.to) \/ (m.func # "DISTRIBUTE" /\ m.to = m.src) THEN {}
  ELSE IF m.func = "ORIGINAL_BROADCAST"
    THEN ToDevices(m.to, m.from, m) \cup ToPeers(m.to, m.from, m)
  ELSE IF m.func = "FORWARDED"
    THEN ToDevices(m.to, m.src, [m EXCEPT !.intact = FALSE])
           \cup IF bbmd_bdt_member_mask_is_unicast(m.to, m.from)
                  THEN ToSubnet(m.to, m.src, m) ELSE {}
  ELSE ToSubnet(m.to, m.from, m) \cup ToDevices(m.to, m.from, m) \cup ToPeers(m.to, m.from, m)

LEMMA JoinNoMessages ==
  ASSUME NEW T, NEW D, NEW B, Joined(B, T, D)
  PROVE  Joined(B (+) NoMessages, T, D)
<1>1. NoMessages = SetToBag({})
  BY DEF NoMessages, SetToBag
<1>2. D \cup {} = D /\ {} \cap D = {}
  OBVIOUS
<1> QED
  BY <1>1, <1>2, JoinMore

LEMMA PassedOnOK ==
  ASSUME OneWay, Located, TrafficTyped, Spreading, NEW m \in BagToSet(net), Receive(m)
  PROVE  /\ Joined(net', Taken(m), PassedOn(m)) /\ SharesOut(m, PassedOn(m))
         /\ IF IsHeard(m) THEN Hears(m) ELSE UNCHANGED heard
         /\ UNCHANGED <<tables, origin, entitled, faults>>
<1> DEFINE n == m.to
           T == Taken(m)
<1>1. m \in Message /\ m.from \in Nodes /\ n \in Nodes /\ m.src \in Nodes /\ Carried(m)
  BY DEF TrafficTyped, Message, Carried
<1>2. m.func = "ORIGINAL_BROADCAST" => m.from = m.src
  BY DEF Spreading, Routed
<1>3. UNCHANGED <<tables, origin, entitled, faults>>
  BY DEF Receive
<1>4. SharesOut(m, {})
  BY DEF SharesOut
<1>5. CASE ~ Running(n)
  <2>1. net' = T /\ UNCHANGED heard /\ ~ IsHeard(m) /\ PassedOn(m) = {}
    BY <1>5 DEF Receive, IsHeard, PassedOn
  <2> QED
    BY <2>1, <1>3, <1>4, JoinNone
<1>6. CASE Running(n) /\ m.func # "DISTRIBUTE" /\ m.to = m.src
  <2>1. OriginalBroadcast(m) \/ ForwardedNPDU(m)
    BY <1>6 DEF Receive, DistributeBroadcast
  <2>2. net' = T /\ UNCHANGED heard
    BY <2>1, <1>2, <1>6 DEF OriginalBroadcast, ForwardedNPDU
  <2>3. ~ IsHeard(m) /\ PassedOn(m) = {}
    BY <1>6 DEF IsHeard, PassedOn
  <2> QED
    BY <2>2, <2>3, <1>3, <1>4, JoinNone
<1>7. CASE Running(n) /\ m.func = "ORIGINAL_BROADCAST" /\ m.to # m.src
  <2> DEFINE A == ToDevices(n, m.from, m)
             P == ToPeers(n, m.from, m)
  <2>1. PassedOn(m) = A \cup P /\ IsHeard(m)
    BY <1>7 DEF PassedOn, IsHeard
  <2>2. SharesOut(m, A \cup P)
    BY <1>2, <1>7, OriginalShares
  <2>3. OriginalBroadcast(m)
    BY <1>7 DEF Receive, ForwardedNPDU, DistributeBroadcast
  <2>4. net' = (T (+) SetToBag(A)) (+) SetToBag(P) /\ Hears(m)
    BY <2>3, <1>1, <1>2, <1>7, DevicesSent, PeersSent DEF OriginalBroadcast
  <2>5. A \cap P = {}
    <3>1. \A e \in A : e.to \in Foreign
      BY <1>1, SentParts, PlacesOfNodes
    <3>2. \A e \in P : e.to \in Bbmds
      BY <1>1, SentParts, PlacesOfNodes
    <3> QED
      BY <3>1, <3>2, PlacesOfNodes
  <2> HIDE DEF A, P, T
  <2>6. Joined(net', T, A \cup P)
    BY <2>4, <2>5, JoinOne, JoinMore
  <2> QED
    BY <2>1, <2>2, <2>4, <2>6, <1>3 DEF T
<1>8. CASE Running(n) /\ m.func = "FORWARDED" /\ m.to # m.src
  <2> DEFINE nested == [m EXCEPT !.intact = FALSE]
             A == ToDevices(n, m.src, nested)
             S == ToSubnet(n, m.src, m)
  <2>1. PassedOn(m) = A \cup (IF bbmd_bdt_member_mask_is_unicast(n, m.from) THEN S ELSE {})
        /\ IsHeard(m)
    BY <1>8 DEF PassedOn, IsHeard
  <2>2. /\ SharesOut(m, A)
        /\ bbmd_bdt_member_mask_is_unicast(n, m.from) => SharesOut(m, A \cup S) /\ S \cap A = {}
    BY <1>8, ForwardedShares
  <2>3. ForwardedNPDU(m)
    BY <1>8 DEF Receive, OriginalBroadcast, DistributeBroadcast
  <2>4. /\ net' = (T (+) SetToBag(A)) (+) IF bbmd_bdt_member_mask_is_unicast(n, m.from)
                                            THEN SetToBag(S) ELSE NoMessages
        /\ Hears(m)
    BY <2>3, <1>8, DevicesSent, SubnetSent DEF ForwardedNPDU
  <2> HIDE DEF A, S, T
  <2>5. Joined(T (+) SetToBag(A), T, A)
    BY JoinOne
  <2>6. CASE bbmd_bdt_member_mask_is_unicast(n, m.from)
    <3>1. Joined(net', T, A \cup S)
      BY <2>2, <2>4, <2>5, <2>6, JoinMore
    <3> QED
      BY <2>1, <2>2, <2>4, <2>6, <3>1, <1>3 DEF T
  <2>7. CASE ~ bbmd_bdt_member_mask_is_unicast(n, m.from)
    <3>1. Joined(net', T, A)
      BY <2>4, <2>5, <2>7, JoinNoMessages
    <3>2. PassedOn(m) = A
      BY <2>1, <2>7
    <3> QED
      BY <2>1, <2>2, <2>4, <3>1, <3>2, <1>3 DEF T
  <2> QED
    BY <2>6, <2>7
<1>9. CASE Running(n) /\ m.func = "DISTRIBUTE"
  <2> DEFINE S == ToSubnet(n, m.from, m)
             A == ToDevices(n, m.from, m)
             P == ToPeers(n, m.from, m)
  <2>1. PassedOn(m) = (S \cup A) \cup P /\ ~ IsHeard(m)
    BY <1>9 DEF PassedOn, IsHeard
  <2>2. SharesOut(m, (S \cup A) \cup P)
    BY <1>9, DistributeShares
  <2>3. DistributeBroadcast(m)
    BY <1>9 DEF Receive, OriginalBroadcast, ForwardedNPDU
  <2>4. net' = ((T (+) SetToBag(S)) (+) SetToBag(A)) (+) SetToBag(P) /\ UNCHANGED heard
    BY <2>3, <1>1, DevicesSent, SubnetSent, PeersSent DEF DistributeBroadcast
  <2>5. n \notin Foreign
    BY <1>9, PlacesOfNodes DEF Spreading, Routed
  <2>6. A \cap S = {} /\ P \cap (S \cup A) = {}
    BY <1>1, <2>5, SentApart
  <2> HIDE DEF S, A, P, T
  <2>7. Joined(T (+) SetToBag(S), T, S)
    BY JoinOne
  <2>8. Joined((T (+) SetToBag(S)) (+) SetToBag(A), T, S \cup A)
    BY <2>6, <2>7, JoinMore
  <2>9. Joined(net', T, (S \cup A) \cup P)
    BY <2>4, <2>6, <2>8, JoinMore
  <2> QED
    BY <2>1, <2>2, <2>4, <2>9, <1>3 DEF T
<1>10. m.func \in {"ORIGINAL_BROADCAST", "FORWARDED", "DISTRIBUTE"}
  BY <1>1 DEF Message, Functions
<1> QED
  BY <1>5, <1>6, <1>7, <1>8, <1>9, <1>10

LEMMA ReceiveSpreads ==
  ASSUME OneWay, Located, TrafficTyped, HeardTyped, Spreading, Counted,
         NEW m \in BagToSet(net), Receive(m)
  PROVE  Spreading' /\ Counted' /\ HeardTyped'
<1>1. /\ Joined(net', Taken(m), PassedOn(m)) /\ SharesOut(m, PassedOn(m))
      /\ IF IsHeard(m) THEN Hears(m) ELSE UNCHANGED heard
      /\ UNCHANGED <<tables, origin, entitled, faults>>
  BY PassedOnOK
<1>2. /\ Spreading'
      /\ \A i \in IDs, k, n \in Nodes :
           Pending(i, k, n)' => Pending(i, k, n) /\ ~ (m.intact /\ i = m.id /\ OwnWay(m, k, n))
  BY <1>1, SpreadStep
<1>3. Fewer
  BY <1>2 DEF Fewer
<1>4. CASE IsHeard(m)
  <2>1. m.from \in Nodes /\ m.to \in Nodes /\ m.id \in IDs
    BY DEF TrafficTyped, Message
  <2>2. OwnWay(m, m.from, m.to) /\ m.func # "DISTRIBUTE" /\ m.to # m.src
    BY <1>4 DEF OwnWay, IsHeard
  <2>3. m.intact => ~ Pending(m.id, m.from, m.to)'
    BY <1>2, <2>1, <2>2
  <2>4. Hears(m) /\ UNCHANGED origin
    BY <1>1, <1>4
  <2> QED
    BY <1>2, <1>3, <2>2, <2>3, <2>4, CountedHears
<1>5. CASE ~ IsHeard(m)
  <2>1. UNCHANGED <<heard, origin>>
    BY <1>1, <1>5
  <2>2. HeardTyped'
    BY <2>1 DEF HeardTyped
  <2> QED
    BY <1>2, <1>3, <2>1, <2>2, CountedStays
<1> QED
  BY <1>4, <1>5

LEMMA LoseSpreads ==
  ASSUME OneWay, TrafficTyped, HeardTyped, Spreading, Counted, NEW m \in BagToSet(net), Lose(m)
  PROVE  Spreading' /\ Counted' /\ HeardTyped'
<1>1. net' = Taken(m) /\ UNCHANGED <<heard, origin>>
  BY DEF Lose
<1>2. Joined(net', Taken(m), {}) /\ SharesOut(m, {})
  BY <1>1, JoinNone DEF SharesOut
<1>3. /\ Spreading'
      /\ \A i \in IDs, k, n \in Nodes : Pending(i, k, n)' => Pending(i, k, n)
  BY <1>1, <1>2, SpreadStep
<1>4. Fewer
  BY <1>3 DEF Fewer
<1>5. HeardTyped'
  BY <1>1 DEF HeardTyped
<1> QED
  BY <1>1, <1>3, <1>4, <1>5, CountedStays

----------------------------------------------------------------------------
(* A broadcast is sent.                                                    *)

Locally(n, m) == {Msg("ORIGINAL_BROADCAST", n, k, n, m) : k \in Neighbours(n)}

FirstSent(n, m) ==
  IF n \in Foreign THEN {Msg("DISTRIBUTE", n, Remote_BBMD[n], n, m)}
  ELSE (ToDevices(n, n, m) \cup ToPeers(n, n, m)) \cup Locally(n, m)

LEMMA FirstSentOK ==
  ASSUME OneWay, Located, NEW n \in Nodes, NEW i \in IDs, Broadcast(n, i)
  PROVE  LET m == [id |-> i, intact |-> TRUE]
         IN  /\ Carried(m) /\ m.id = i /\ m.intact
             /\ Joined(net', net, FirstSent(n, m))
<1> DEFINE m == [id |-> i, intact |-> TRUE]
           A == ToDevices(n, n, m)
           P == ToPeers(n, n, m)
           L == Locally(n, m)
<1>1. Carried(m) /\ m.id = i /\ m.intact
  BY DEF Carried
<1>2. CASE n \in Foreign
  <2>1. net' = net (+) SetToBag({Msg("DISTRIBUTE", n, Remote_BBMD[n], n, m)})
    BY <1>2 DEF Broadcast
  <2>2. FirstSent(n, m) = {Msg("DISTRIBUTE", n, Remote_BBMD[n], n, m)}
    BY <1>2 DEF FirstSent
  <2> HIDE DEF m
  <2> QED
    BY <1>1, <2>1, <2>2, JoinOne DEF m
<1>3. CASE n \notin Foreign
  <2>1. net' = net (+) ((SetToBag(A) (+) SetToBag(P)) (+) SetToBag(L))
    BY <1>3, DevicesSent, PeersSent DEF Broadcast, LocalBroadcast, Locally
  <2>2. FirstSent(n, m) = (A \cup P) \cup L
    BY <1>3 DEF FirstSent
  <2>3. A \cap P = {}
    BY <1>1, <1>3, SentApart
  <2>4. \A e \in L : e.func = "ORIGINAL_BROADCAST"
    BY DEF Locally, Msg
  <2>5. \A e \in A \cup P : e.func = "FORWARDED"
    BY DEF ToDevices, ToPeers, Msg
  <2>6. (A \cup P) \cap L = {}
    BY <2>4, <2>5
  <2> HIDE DEF A, P, L, m
  <2>7. net' = net (+) SetToBag((A \cup P) \cup L)
    BY <2>1, <2>3, <2>6, JoinPair
  <2>8. Joined(net', net, FirstSent(n, m))
    BY <2>2, <2>7, JoinOne
  <2> QED
    BY <1>1, <2>8 DEF m
<1> QED
  BY <1>2, <1>3

\* The messages a node sends go the ways of its broadcasts, each its own.
LEMMA FirstSentApart ==
  ASSUME OneWay, Located, NEW n \in Nodes, NEW m, Carried(m), m.intact
  PROVE  /\ \A e \in FirstSent(n, m) :
              /\ e \in Message /\ e.id = m.id /\ e.src = n /\ e.intact /\ e.from = n
              /\ e.func = "ORIGINAL_BROADCAST" => n \notin Foreign /\ e.to \in Neighbours(n)
              /\ e.func = "DISTRIBUTE" => n \in Foreign /\ e.to = Remote_BBMD[n]
              /\ \A k, j \in Nodes : Onward(e, k, j) => Way(n, k, j)
         /\ \A d, e \in FirstSent(n, m) : \A k, j \in Nodes :
              Onward(d, k, j) /\ Onward(e, k, j) => d = e
<1>1. Neighbours(n) \subseteq Nodes /\ n \in Neighbours(n)
  BY DEF Neighbours
<1>2. CASE n \in Foreign
  <2> DEFINE e == Msg("DISTRIBUTE", n, Remote_BBMD[n], n, m)
  <2>1. FirstSent(n, m) = {e}
    BY <1>2 DEF FirstSent
  <2>2. Remote_BBMD[n] \in Nodes
    BY <1>2, PlacesOfNodes
  <2>3. /\ e \in Message /\ e.id = m.id /\ e.src = n /\ e.intact /\ e.from = n
        /\ e.func = "DISTRIBUTE" /\ e.to = Remote_BBMD[n]
    BY <2>2 DEF Msg, Message, Functions, Carried
  <2> HIDE DEF e
  <2>4. \A k, j \in Nodes : Onward(e, k, j) => Way(n, k, j)
    BY <1>2, <2>3 DEF Onward, Way, Source, Gates
  <2> QED
    BY <1>2, <2>1, <2>3, <2>4
<1>3. CASE n \notin Foreign
  <2> DEFINE D == ToDevices(n, n, m) \cup ToPeers(n, n, m)
             L == Locally(n, m)
  <2>1. FirstSent(n, m) = D \cup L
    BY <1>3 DEF FirstSent
  <2>2. Source(n) = n /\ Gates(n) = Neighbours(n)
    BY <1>3 DEF Source, Gates
  \* What the others on the subnet relay.
  <2>3. ASSUME NEW x \in Neighbours(n), x # n, NEW k \in Nodes, NEW j \in Nodes, Relayed(x, n, k, j)
        PROVE  k # n /\ (k = x \/ (k \in Peers(x) /\ x \in Bbmds))
    BY <1>1, <2>3, PlacesOfNodes DEF Relayed
  <2>4. ASSUME NEW e \in L
        PROVE  /\ e \in Message /\ e.id = m.id /\ e.src = n /\ e.intact /\ e.from = n
               /\ e.func = "ORIGINAL_BROADCAST" /\ e.to \in Neighbours(n)
               /\ \A k, j \in Nodes : Onward(e, k, j) =>
                    (k = n /\ j = e.to) \/ (e.to # n /\ Relayed(e.to, n, k, j))
               /\ e = Msg("ORIGINAL_BROADCAST", n, e.to, n, m)
    <3>1. PICK x \in Neighbours(n) : e = Msg("ORIGINAL_BROADCAST", n, x, n, m)
      BY DEF Locally
    <3>2. x \in Nodes
      BY <1>1
    <3>3. /\ e \in Message /\ e.id = m.id /\ e.src = n /\ e.intact /\ e.from = n
          /\ e.func = "ORIGINAL_BROADCAST" /\ e.to = x
      BY <3>1, <3>2 DEF Msg, Message, Functions, Carried
    <3> QED
      BY <3>1, <3>3 DEF Onward
  <2>5. ASSUME NEW e \in D
        PROVE  /\ e \in Message /\ e.id = m.id /\ e.src = n /\ e.intact /\ e.from = n
               /\ e.func = "FORWARDED" /\ e.to \notin Neighbours(n)
               /\ \/ e.to \in Foreign \ {n} /\ Remote_BBMD[e.to] = n
                  \/ e.to \in Peers(n)
               /\ \A k, j \in Nodes : Onward(e, k, j) =>
                    (k = n /\ j = e.to) \/ (e.to \in Peers(n) /\ k = e.to /\ j \in Neighbours(k))
    <3>1. PICK x \in Nodes : /\ e = Msg("FORWARDED", n, x, n, m) /\ x \notin Neighbours(n)
                             /\ \/ x \in Foreign \ {n} /\ Remote_BBMD[x] = n
                                \/ x \in Peers(n)
      <4>1. CASE e \in ToDevices(n, n, m)
        BY <1>3, <4>1, SentParts, PlacesOfNodes
      <4>2. CASE e \in ToPeers(n, n, m)
        BY <4>2, SentParts, PlacesOfNodes
      <4> QED
        BY <4>1, <4>2
    <3>2. /\ e \in Message /\ e.id = m.id /\ e.src = n /\ e.intact /\ e.from = n
          /\ e.func = "FORWARDED" /\ e.to = x
      BY <3>1, SentParts
    <3>3. \A k, j \in Nodes : Onward(e, k, j) =>
             (k = n /\ j = x) \/ (x \in Peers(n) /\ k = x /\ j \in Neighbours(x))
      BY <3>1, SentOnward
    <3> QED
      BY <3>1, <3>2, <3>3
  <2>6. ASSUME NEW e \in L, NEW k \in Nodes, NEW j \in Nodes, Onward(e, k, j)
        PROVE  Way(n, k, j)
    BY <2>2, <2>4, <2>6 DEF Way
  <2>7. ASSUME NEW e \in D, NEW k \in Nodes, NEW j \in Nodes, Onward(e, k, j)
        PROVE  Way(n, k, j)
    <3>1. Relayed(n, n, k, j)
      BY <2>5, <2>7 DEF Relayed
    <3> QED
      BY <3>1, <1>1, <2>2 DEF Way
  <2>8. ASSUME NEW d \in L, NEW e \in L, NEW k \in Nodes, NEW j \in Nodes, Onward(d, k, j), Onward(e, k, j)
        PROVE  d = e
    <3>1. d.to \in Neighbours(n) /\ e.to \in Neighbours(n) /\ d.to \in Nodes /\ e.to \in Nodes
      BY <1>1, <2>4
    <3>2. (k = n /\ j = d.to) \/ (d.to # n /\ k # n /\ (k = d.to \/ (k \in Peers(d.to) /\ d.to \in Bbmds)))
      BY <2>3, <2>4, <2>8
    <3>3. (k = n /\ j = e.to) \/ (e.to # n /\ k # n /\ (k = e.to \/ (k \in Peers(e.to) /\ e.to \in Bbmds)))
      BY <2>3, <2>4, <2>8
    <3>4. Subnet[d.to] = Subnet[e.to]
      BY <3>1, PlacesOfNodes
    <3>5. d.to = e.to
      BY <3>1, <3>2, <3>3, <3>4, PlacesOfNodes
    <3> QED
      BY <2>4, <3>5
  <2>9. ASSUME NEW d \in L, NEW e \in D, NEW k \in Nodes, NEW j \in Nodes, Onward(d, k, j), Onward(e, k, j)
        PROVE  FALSE
    <3>1. d.to \in Neighbours(n) /\ e.to \notin Neighbours(n) /\ d.to \in Nodes
      BY <1>1, <2>4, <2>5
    <3>2. (k = n /\ j = d.to) \/ (d.to # n /\ k # n /\ (k = d.to \/ (k \in Peers(d.to) /\ d.to \in Bbmds)))
      BY <2>3, <2>4, <2>9
    <3>3. (k = n /\ j = e.to) \/ (e.to \in Peers(n) /\ k = e.to)
      BY <2>5, <2>9
    <3>4. CASE k = n /\ j = e.to
      BY <3>1, <3>2, <3>4
    <3>5. CASE e.to \in Peers(n) /\ k = e.to
      <4>1. n \in Bbmds /\ k \notin Neighbours(n)
        BY <3>1, <3>5, PlacesOfNodes
      <4>2. d.to # n /\ d.to \in Bbmds
        BY <1>1, <3>1, <3>2, <4>1
      <4> QED
        BY <3>1, <4>1, <4>2, PlacesOfNodes
    <3> QED
      BY <3>3, <3>4, <3>5
  <2>10. \A d, e \in D : \A k, j \in Nodes : Onward(d, k, j) /\ Onward(e, k, j) => d = e
    BY <1>3, SentApart
  <2> HIDE DEF D, L
  <2>11. \A d, e \in D \cup L : \A k, j \in Nodes : Onward(d, k, j) /\ Onward(e, k, j) => d = e
    BY <2>8, <2>9, <2>10
  <2> QED
    BY <1>3, <2>1, <2>4, <2>5, <2>6, <2>7, <2>11
<1> QED
  BY <1>2, <1>3

LEMMA BroadcastSpreads ==
  ASSUME OneWay, Located, TrafficTyped, HeardTyped, Spreading, Counted,
         NEW o \in Nodes, NEW i \in IDs, Broadcast(o, i)
  PROVE  Spreading' /\ Counted' /\ HeardTyped'
<1> DEFINE b == [id |-> i, intact |-> TRUE]
           D == FirstSent(o, b)
<1>1. Carried(b) /\ b.id = i /\ b.intact /\ Joined(net', net, D)
  BY FirstSentOK
<1> HIDE DEF b
<1>2. origin[i] = NoNode /\ origin' = [origin EXCEPT ![i] = o] /\ UNCHANGED heard
  BY DEF Broadcast
<1>3. /\ origin'[i] = o
      /\ \A c \in IDs : c # i => origin'[c] = origin[c]
  BY <1>2 DEF TrafficTyped
\* Nothing of it was in flight before.
<1>4. \A e \in BagToSet(net) : e.id \in IDs /\ e.id # i /\ e \in Message
  BY <1>2, BbmdConstants DEF TrafficTyped, Spreading, Routed, Message
<1>5. \A e \in D : /\ e \in Message /\ e.id = i /\ e.src = o /\ e.intact /\ e.from = o
                   /\ e.func = "ORIGINAL_BROADCAST" => o \notin Foreign /\ e.to \in Neighbours(o)
                   /\ e.func = "DISTRIBUTE" => o \in Foreign /\ e.to = Remote_BBMD[o]
                   /\ \A k, j \in Nodes : Onward(e, k, j) => Way(o, k, j)
  BY <1>1, FirstSentApart
<1>6. \A d, e \in D : \A k, j \in Nodes : Onward(d, k, j) /\ Onward(e, k, j) => d = e
  BY <1>1, FirstSentApart
<1> HIDE DEF D
<1>7. \A e \in BagToSet(net') : \/ e \in D /\ e \notin BagToSet(net)
                                \/ e \notin D /\ e \in BagToSet(net)
  BY <1>1, <1>4, <1>5 DEF Joined
<1>8. ASSUME NEW e \in BagToSet(net')
      PROVE  /\ Routed(e)' /\ (e.intact => net'[e] = 1)
             /\ \A k, n \in Nodes : Onward(e, k, n) => Way(e.src, k, n)
  <2>1. CASE e \in D /\ e \notin BagToSet(net)
    <3>1. net'[e] = 1
      BY <2>1, <1>1, <1>8 DEF Joined
    <3>2. Routed(e)'
      BY <2>1, <1>3, <1>5 DEF Routed
    <3> QED
      BY <2>1, <3>1, <3>2, <1>5
  <2>2. CASE e \notin D /\ e \in BagToSet(net)
    <3>1. Routed(e) /\ (e.intact => net[e] = 1) /\ \A k, n \in Nodes : Onward(e, k, n) => Way(e.src, k, n)
      BY <2>2 DEF Spreading
    <3>2. net[e] = 1 => net'[e] = 1
      BY <2>2, <1>1, <1>8 DEF Joined
    <3>3. Routed(e)'
      BY <2>2, <3>1, <1>3, <1>4 DEF Routed
    <3> QED
      BY <3>1, <3>2, <3>3
  <2> QED
    BY <2>1, <2>2, <1>7
<1>9. ASSUME NEW d \in BagToSet(net'), NEW e \in BagToSet(net'), d # e, d.id = e.id,
             NEW k \in Nodes, NEW n \in Nodes, Onward(d, k, n), Onward(e, k, n)
      PROVE  FALSE
  <2>1. CASE d \in D
    BY <2>1, <1>4, <1>5, <1>6, <1>7, <1>9
  <2>2. CASE d \in BagToSet(net)
    BY <2>2, <1>4, <1>5, <1>7, <1>9 DEF Spreading
  <2> QED
    BY <2>1, <2>2, <1>7
<1>10. Spreading'
  BY <1>8, <1>9 DEF Spreading
<1>11. ASSUME NEW c \in IDs, c # i, NEW k \in Nodes, NEW n \in Nodes, Pending(c, k, n)'
       PROVE  Pending(c, k, n)
  BY <1>5, <1>7, <1>11 DEF Pending
<1>12. ASSUME NEW n \in Nodes, NEW c \in IDs
       PROVE  /\ heard'[n][c] \in 0 .. Most(n)
              /\ origin'[c] \in {n, NoNode} => heard'[n][c] = 0
              /\ \A k \in Nodes : Pending(c, k, n)' => heard'[n][c] < Most(n)
              /\ n # origin'[c] => \A k, j \in Nodes :
                   k # j /\ Pending(c, k, n)' /\ Pending(c, j, n)' => heard'[n][c] = 0
  <2>1. CASE c = i
    <3>1. heard'[n][c] = 0
      BY <2>1, <1>2 DEF Counted
    <3>2. Most(n) \in {1, 2}
      BY DEF Most
    <3> QED
      BY <3>1, <3>2
  <2>2. CASE c # i
    <3>1. heard'[n][c] = heard[n][c] /\ origin'[c] = origin[c]
      BY <2>2, <1>2, <1>3
    <3>2. \A k \in Nodes : Pending(c, k, n)' => Pending(c, k, n)
      BY <2>2, <1>11
    <3> HIDE DEF Pending
    <3> QED
      BY <3>1, <3>2 DEF Counted
  <2> QED
    BY <2>1, <2>2
<1>13. HeardTyped'
  BY <1>2 DEF HeardTyped
<1> QED
  BY <1>10, <1>12, <1>13 DEF Counted

----------------------------------------------------------------------------
(* Nobody hears a broadcast twice.                                         *)

LEMMA LocatedTable ==
  ASSUME Located, \A n, d \in Nodes : FD_Table'[n][d] > 0 => FD_Table[n][d] > 0
  PROVE  Located'
  BY DEF Located

LEMMA LocatedStep ==
  ASSUME TablesTyped, Located, [BbmdNext]_bbmdVars
  PROVE  Located'
<1>0. FD_Table \in [Nodes -> Tables] /\ regs \subseteq Registrations
  BY DEF TablesTyped
<1>1. ASSUME UNCHANGED FD_Table PROVE Located'
  BY <1>1 DEF Located
<1>2. ASSUME NEW r \in regs, RegisterForeignDevice(r) PROVE Located'
  <2> DEFINE g == Remote_BBMD[r.from]
  <2>1. r.from \in Foreign /\ g \in Nodes
    BY <1>0, BbmdConstants DEF Registrations
  <2>2. FD_Table' = [FD_Table EXCEPT ![g] = fdt_entry_add(FD_Table[g], r.from)]
    BY <1>2 DEF RegisterForeignDevice
  <2>3. \A d \in Nodes : d # r.from => fdt_entry_add(FD_Table[g], r.from)[d] = FD_Table[g][d]
    BY <1>0, <2>1 DEF fdt_entry_add, Tables
  <2> HIDE DEF g
  <2>4. \A n, d \in Nodes : FD_Table'[n][d] > 0 /\ ~ (n = g /\ d = r.from) => FD_Table[n][d] > 0
    BY <1>0, <2>1, <2>2, <2>3
  <2> QED
    BY <2>1, <2>4 DEF Located, g
<1>3. ASSUME NEW f \in Foreign, DeleteForeignDevice(f) PROVE Located'
  <2>1. f \in Nodes /\ Remote_BBMD[f] \in Nodes
    BY BbmdConstants
  <2>2. FD_Table' = [FD_Table EXCEPT ![Remote_BBMD[f]] = [@ EXCEPT ![f] = 0]]
    BY <1>3 DEF DeleteForeignDevice
  <2>3. \A n, d \in Nodes : FD_Table'[n][d] > 0 => FD_Table[n][d] > 0
    BY <1>0, <2>1, <2>2 DEF Tables
  <2> QED
    BY <2>3, LocatedTable
<1>4. CASE Second
  <2>1. \A n, d \in Nodes : FD_Table'[n][d] = fdt_entry_aged(FD_Table[n][d])
    BY <1>4 DEF Second
  <2>2. \A n, d \in Nodes : FD_Table'[n][d] > 0 => FD_Table[n][d] > 0
    BY <1>0, <2>1 DEF fdt_entry_aged, Tables
  <2> QED
    BY <2>2, LocatedTable
<1> QED
  BY <1>1, <1>2, <1>3, <1>4
     DEF BbmdNext, bbmdVars, tables, Broadcast, Deliver, Receive, RegisterFrom, Start, Stop, Lose,
         LoseRegistration

OnceIInv == BbmdIInv /\ Located /\ HeardTyped /\ Spreading /\ Counted

LEMMA OnceInit ==
  ASSUME BbmdInit
  PROVE  Located /\ HeardTyped /\ Spreading /\ Counted
<1>1. BagToSet(net) = {}
  BY DEF BbmdInit, NoMessages, BagToSet
<1>2. \A n, d \in Nodes : FD_Table[n][d] = 0
  BY DEF BbmdInit
<1>3. HeardTyped /\ \A n \in Nodes, i \in IDs : heard[n][i] = 0
  BY DEF BbmdInit, HeardTyped
<1>4. Located
  BY <1>2 DEF Located
<1>5. Spreading
  BY <1>1 DEF Spreading
<1>6. \A i \in IDs, k, n \in Nodes : ~ Pending(i, k, n)
  BY <1>1 DEF Pending
<1>7. \A n \in Nodes : Most(n) \in {1, 2}
  BY DEF Most
<1>8. Counted
  BY <1>3, <1>6, <1>7 DEF Counted
<1> QED
  BY <1>3, <1>4, <1>5, <1>8

LEMMA OnceStep ==
  ASSUME OneWay, OnceIInv, [BbmdNext]_bbmdVars
  PROVE  OnceIInv'
<1>1. TablesTyped /\ TrafficTyped /\ Located /\ HeardTyped /\ Spreading /\ Counted
  BY DEF OnceIInv, BbmdIInv
<1>2. BbmdIInv'
  BY BbmdStep DEF OnceIInv
<1>3. Located'
  BY <1>1, LocatedStep
<1>4. ASSUME UNCHANGED traffic PROVE HeardTyped' /\ Spreading' /\ Counted'
  <2>1. UNCHANGED <<net, origin, heard>>
    BY <1>4 DEF traffic
  <2>2. HeardTyped' /\ Spreading'
    BY <1>1, <2>1 DEF HeardTyped, Spreading, Routed
  <2>3. Fewer
    BY <2>1 DEF Fewer, Pending
  <2> QED
    BY <1>1, <2>1, <2>2, <2>3, CountedStays
<1>5. ASSUME NEW n \in Senders, NEW i \in IDs, Broadcast(n, i)
      PROVE  HeardTyped' /\ Spreading' /\ Counted'
  BY <1>1, <1>5, BroadcastSpreads, BbmdConstants
<1>6. ASSUME NEW m \in BagToSet(net), Receive(m)
      PROVE  HeardTyped' /\ Spreading' /\ Counted'
  BY <1>1, <1>6, ReceiveSpreads
<1>7. ASSUME NEW m \in BagToSet(net), Lose(m)
      PROVE  HeardTyped' /\ Spreading' /\ Counted'
  BY <1>1, <1>7, LoseSpreads
<1>8. HeardTyped' /\ Spreading' /\ Counted'
  BY <1>4, <1>5, <1>6, <1>7
     DEF BbmdNext, bbmdVars, RegisterFrom, RegisterForeignDevice, Start, Stop, Second, Deliver,
         DeleteForeignDevice, LoseRegistration
<1> QED
  BY <1>2, <1>3, <1>8 DEF OnceIInv

LEMMA OnceInvariant ==
  ASSUME OneWay
  PROVE  BbmdSpec => []OnceIInv
<1>1. BbmdInit => OnceIInv
  BY OnceInit, BbmdInitOK DEF OnceIInv
<1>2. OnceIInv /\ [BbmdNext]_bbmdVars => OnceIInv'
  BY OnceStep
<1> QED
  BY <1>1, <1>2, PTL DEF BbmdSpec

\* In any set-up that is OneWay, of any number of nodes and subnets, nobody gets
\* a broadcast twice, a BBMD three times, or its sender at all, whatever
\* registers, expires, is lost or stops while it is under way (h_bbmd.c:314-466,
\* 561-625, 873-922, 1004-1083).
THEOREM NobodyHearsTwice ==
  ASSUME OneWay
  PROVE  BbmdSpec => []HeardOnce
<1>1. OnceIInv => HeardOnce
  <2> SUFFICES ASSUME OnceIInv, NEW n \in Nodes, NEW i \in IDs
               PROVE  heard[n][i] <= IF origin[i] = n THEN 0 ELSE IF IsBBMD(n) THEN 2 ELSE 1
    BY DEF HeardOnce
  <2> QED
    BY DEF OnceIInv, Counted, Most
<1> QED
  BY <1>1, OnceInvariant, PTL

----------------------------------------------------------------------------
(* No broadcast is forwarded in a circle.  Hops(m): how often m, and what  *)
(* is sent on its behalf, can be forwarded yet, as its addressee sees it.  *)

Hops(m) == IF m.to \in Foreign THEN 0
           ELSE IF m.func # "FORWARDED" THEN 3
           ELSE IF m.from \in Peers(m.to) THEN 2
           ELSE 1

\* The messages that take the place of m have fewer hops left.
RunsDown ==
  \A m \in BagToSet(net) : Receive(m) =>
    /\ Joined(net', Taken(m), PassedOn(m))
    /\ \A e \in PassedOn(m) : Hops(e) \in 0 .. Hops(m) - 1

LEMMA PassedOnRunsDown ==
  ASSUME OneWay, Located, TrafficTyped, Spreading, NEW m \in BagToSet(net),
         NEW e \in PassedOn(m)
  PROVE  Hops(e) \in 0 .. Hops(m) - 1
<1> DEFINE n == m.to
<1>1. m \in Message /\ m.from \in Nodes /\ n \in Nodes /\ m.src \in Nodes /\ Carried(m)
  BY DEF TrafficTyped, Message, Carried
<1> DEFINE nested == [m EXCEPT !.intact = FALSE]
<1>2. Carried(nested)
  BY <1>1 DEF Carried, Message
<1>3. ASSUME NEW src \in Nodes, NEW c, Carried(c)
      PROVE  /\ \A d \in ToDevices(n, src, c) : n \notin Foreign /\ Hops(d) = 0
             /\ \A d \in ToPeers(n, src, c) : n \notin Foreign /\ Hops(d) \in 0 .. 2
             /\ \A d \in ToSubnet(n, src, c) : Hops(d) \in 0 .. 1
  <2>1. ASSUME NEW d \in ToDevices(n, src, c) PROVE n \notin Foreign /\ Hops(d) = 0
    <3>1. PICK f \in Foreign : Remote_BBMD[f] = n /\ d = Msg("FORWARDED", n, f, src, c)
      BY <1>1, <2>1 DEF ToDevices, Located
    <3>2. d.to = f
      BY <3>1 DEF Msg
    <3> QED
      BY <3>1, <3>2, PlacesOfNodes DEF Hops
  <2>2. ASSUME NEW d \in ToPeers(n, src, c) PROVE n \notin Foreign /\ Hops(d) \in 0 .. 2
    <3>1. PICK p \in Peers(n) : d = Msg("FORWARDED", n, p, src, c)
      BY <1>1, <1>3, SentParts
    <3>2. d.func = "FORWARDED"
      BY <3>1 DEF Msg
    <3> QED
      BY <1>1, <3>1, <3>2, PlacesOfNodes DEF Hops
  <2>3. ASSUME NEW d \in ToSubnet(n, src, c) PROVE Hops(d) \in 0 .. 1
    <3>1. PICK k \in Neighbours(n) : d = Msg("FORWARDED", n, k, src, c)
      BY <1>1, <1>3, SentParts
    <3>2. d.func = "FORWARDED" /\ d.from = n /\ d.to = k
      BY <3>1 DEF Msg
    <3>3. k \in Nodes /\ Subnet[k] = Subnet[n]
      BY <1>1 DEF Neighbours
    <3>4. n \notin Peers(k)
      BY <1>1, <3>3, PlacesOfNodes
    <3> QED
      BY <3>2, <3>4 DEF Hops
  <2> QED
    BY <2>1, <2>2, <2>3
<1>4. m.func = "DISTRIBUTE" => n \notin Foreign
  BY PlacesOfNodes DEF Spreading, Routed
<1>5. /\ n \notin Foreign /\ m.func # "FORWARDED" => Hops(m) = 3
      /\ n \notin Foreign => Hops(m) \in 1 .. 3
      /\ bbmd_bdt_member_mask_is_unicast(n, m.from) => Hops(m) \in 2 .. 3
  <2>1. bbmd_bdt_member_mask_is_unicast(n, m.from) => m.from \in Peers(n)
    BY DEF bbmd_bdt_member_mask_is_unicast, Peers
  <2>2. n \in Foreign => Peers(n) = {}
    BY PlacesOfNodes
  <2> QED
    BY <2>1, <2>2 DEF Hops
<1> HIDE DEF Hops, nested, n
<1>6. CASE m.func = "ORIGINAL_BROADCAST"
  <2>1. e \in ToDevices(n, m.from, m) \cup ToPeers(n, m.from, m)
    BY <1>6 DEF PassedOn, n
  <2> QED
    BY <1>1, <1>3, <1>5, <1>6, <2>1
<1>7. CASE m.func = "FORWARDED"
  <2>1. \/ e \in ToDevices(n, m.src, nested)
        \/ bbmd_bdt_member_mask_is_unicast(n, m.from) /\ e \in ToSubnet(n, m.src, m)
    BY <1>7 DEF PassedOn, n, nested
  <2> QED
    BY <1>1, <1>2, <1>3, <1>5, <2>1
<1>8. CASE m.func = "DISTRIBUTE"
  <2>1. e \in ToSubnet(n, m.from, m) \cup ToDevices(n, m.from, m) \cup ToPeers(n, m.from, m)
    BY <1>8 DEF PassedOn, n
  <2> QED
    BY <1>1, <1>3, <1>4, <1>5, <1>8, <2>1
<1> QED
  BY <1>1, <1>6, <1>7, <1>8 DEF Message, Functions

\* Each time a message of a broadcast is received, what is sent on its behalf
\* can be forwarded less often than it, three times at most: in any set-up that
\* is OneWay no broadcast goes round, whoever is registered (h_bbmd.c:893).
THEOREM BroadcastsRunDown ==
  ASSUME OneWay
  PROVE  BbmdSpec => [][RunsDown]_bbmdVars
<1>1. OnceIInv => RunsDown
  <2>1. OnceIInv => Located /\ TrafficTyped /\ Spreading
    BY DEF OnceIInv, BbmdIInv
  <2> QED
    BY <2>1, PassedOnOK, PassedOnRunsDown DEF RunsDown
<1> QED
  BY <1>1, OnceInvariant, PTL

----------------------------------------------------------------------------
(* Everybody hears a broadcast.  Toward(m, n): m or what is sent on its    *)
(* behalf will come to n.                                                  *)

Toward(m, n) ==
  /\ m.intact
  /\ \/ m.func # "DISTRIBUTE" /\ m.to = n
     \/ m.func # "FORWARDED" /\ m.to # m.from /\ n \in Foreign /\ m.to = Remote_BBMD[n]
     \/ m.func = "DISTRIBUTE" /\ n \in Nodes \ Foreign
     \/ /\ m.func = "ORIGINAL_BROADCAST" /\ m.to # m.from
        /\ n \in Nodes \ Foreign /\ m.to \in Bbmds /\ n \notin Neighbours(m.to)
     \/ m.func = "FORWARDED" /\ m.to \in Peers(m.from) /\ n \in Neighbours(m.to)

\* Who has to get a broadcast runs and is registered.
Claims(n, i) ==
  /\ n \in Nodes /\ origin[i] \in Nodes /\ n # origin[i]
  /\ n \in Foreign => n \in alive /\ Registered(n)

Served(n, i) ==
  \/ heard[n][i] > 0
  \/ n \in Foreign /\ Home(n) # Home(origin[i])
  \/ \E m \in BagToSet(net) : m.id = i /\ Toward(m, n)

Coming ==
  /\ entitled \in [IDs -> SUBSET Nodes]
  /\ \A i \in IDs : \A n \in entitled[i] : Claims(n, i) /\ Served(n, i)

LEMMA HomesOfNodes ==
  ASSUME OneWay, Connected
  PROVE  /\ \A n \in Nodes \ Foreign : Home(n) \in Bbmds /\ Home(n) \in Neighbours(n)
         /\ \A n \in Nodes \ Foreign, b \in Bbmds : b \in Neighbours(n) => b = Home(n)
         /\ \A f \in Foreign : Home(f) = Remote_BBMD[f] /\ Remote_BBMD[f] \in Bbmds
         /\ \A b, c \in Bbmds : b # c => c \in Peers(b) /\ c # b
<1>1. ASSUME NEW n \in Nodes \ Foreign
      PROVE  Home(n) \in Bbmds /\ Home(n) \in Neighbours(n)
  <2>1. \E b \in Neighbours(n) : IsBBMD(b)
    BY DEF Connected, Bbmds
  <2>2. Home(n) = CHOOSE b \in Neighbours(n) : IsBBMD(b)
    BY DEF Home
  <2>3. Home(n) \in Neighbours(n) /\ IsBBMD(Home(n))
    BY <2>1, <2>2
  <2> QED
    BY <2>3 DEF Bbmds, Neighbours
<1>2. ASSUME NEW n \in Nodes \ Foreign, NEW b \in Bbmds, b \in Neighbours(n) PROVE b = Home(n)
  <2>1. Subnet[b] = Subnet[Home(n)]
    BY <1>1, <1>2 DEF Neighbours
  <2> QED
    BY <1>1, <2>1, PlacesOfNodes
<1>3. \A f \in Foreign : Home(f) = Remote_BBMD[f] /\ Remote_BBMD[f] \in Bbmds
  BY DEF Home, Connected
<1> QED
  BY <1>1, <1>2, <1>3 DEF Connected

\* Other nodes get it by the BBMD of their subnet.
LEMMA PeerTowards ==
  ASSUME OneWay, Connected, NEW b \in Bbmds, NEW n \in Nodes \ Foreign, n \notin Neighbours(b),
         NEW src \in Nodes, src \notin Neighbours(n) \/ src \in Foreign, NEW m, Carried(m), m.intact
  PROVE  \E e \in ToPeers(b, src, m) : e.id = m.id /\ Toward(e, n)
<1> DEFINE p == Home(n)
           e == Msg("FORWARDED", b, p, src, m)
<1>1. p \in Bbmds /\ p \in Neighbours(n) /\ p \in Nodes /\ b \in Nodes
  BY HomesOfNodes DEF Bbmds
<1>2. p # b /\ p \in Peers(b) /\ n \in Neighbours(p)
  BY <1>1, HomesOfNodes, PlacesOfNodes
<1>3. p # src
  BY <1>1, PlacesOfNodes
<1> HIDE DEF p
<1>4. e \in ToPeers(b, src, m)
  BY <1>2, <1>3 DEF ToPeers
<1>5. e.id = m.id /\ e.intact /\ e.func = "FORWARDED" /\ e.to = p /\ e.from = b
  BY DEF Msg
<1> HIDE DEF e
<1>6. Toward(e, n)
  BY <1>2, <1>5 DEF Toward
<1> QED
  BY <1>4, <1>5, <1>6

LEMMA SentTowards ==
  ASSUME NEW g, NEW src, NEW m, m.intact
  PROVE  /\ \A n \in Neighbours(g) : \E e \in ToSubnet(g, src, m) : e.id = m.id /\ Toward(e, n)
         /\ \A n \in Nodes \ {g, src} : FD_Table[g][n] > 0 =>
              \E e \in ToDevices(g, src, m) : e.id = m.id /\ Toward(e, n)
<1> DEFINE E(n) == Msg("FORWARDED", g, n, src, m)
<1>1. \A n : E(n).id = m.id /\ E(n).intact /\ E(n).func = "FORWARDED" /\ E(n).to = n
  BY DEF Msg
<1>2. \A n \in Neighbours(g) : E(n) \in ToSubnet(g, src, m)
  BY DEF ToSubnet
<1>3. \A n \in Nodes \ {g, src} : FD_Table[g][n] > 0 => E(n) \in ToDevices(g, src, m)
  BY DEF ToDevices
<1> HIDE DEF E
<1>4. \A n : Toward(E(n), n)
  BY <1>1 DEF Toward
<1> QED
  BY <1>1, <1>2, <1>3, <1>4

\* A new broadcast.
LEMMA FirstTowards ==
  ASSUME OneWay, Connected, NEW o \in Nodes, NEW n \in Nodes \ {o}, n \in Foreign => Registered(n),
         NEW m, Carried(m), m.intact
  PROVE  \/ n \in Foreign /\ Home(n) # Home(o)
         \/ \E e \in FirstSent(o, m) : e.id = m.id /\ Toward(e, n)
<1>1. CASE o \in Foreign
  <2> DEFINE e == Msg("DISTRIBUTE", o, Remote_BBMD[o], o, m)
  <2>1. e \in FirstSent(o, m)
    BY <1>1 DEF FirstSent
  <2>2. e.id = m.id /\ e.intact /\ e.func = "DISTRIBUTE" /\ e.from = o /\ e.to = Remote_BBMD[o]
    BY DEF Msg
  <2> HIDE DEF e
  <2>3. e.to # e.from
    BY <1>1, <2>2, PlacesOfNodes
  <2>4. CASE n \in Foreign
    <3>1. Home(n) = Remote_BBMD[n] /\ Home(o) = Remote_BBMD[o]
      BY <1>1, <2>4, HomesOfNodes
    <3>2. Remote_BBMD[n] = Remote_BBMD[o] => Toward(e, n)
      BY <2>2, <2>3, <2>4 DEF Toward
    <3> QED
      BY <2>1, <2>2, <2>4, <3>1, <3>2
  <2>5. CASE n \notin Foreign
    <3>1. Toward(e, n)
      BY <2>2, <2>5 DEF Toward
    <3> QED
      BY <2>1, <2>2, <3>1
  <2> QED
    BY <2>4, <2>5
<1>2. CASE o \notin Foreign
  <2> DEFINE b == Home(o)
             L(k) == Msg("ORIGINAL_BROADCAST", o, k, o, m)
  <2>1. b \in Bbmds /\ b \in Neighbours(o) /\ b \in Nodes
    BY <1>2, HomesOfNodes DEF Bbmds
  <2>2. \A k \in Neighbours(o) : L(k) \in FirstSent(o, m)
    BY <1>2 DEF FirstSent, Locally
  <2>3. \A k : /\ L(k).id = m.id /\ L(k).intact /\ L(k).func = "ORIGINAL_BROADCAST"
               /\ L(k).from = o /\ L(k).to = k
    BY DEF Msg
  <2> HIDE DEF b, L
  <2>4. CASE n \in Foreign
    <3>1. Home(n) = Remote_BBMD[n] /\ FD_Table[Remote_BBMD[n]][n] > 0
      BY <2>4, HomesOfNodes DEF Registered
    <3>2. CASE Remote_BBMD[n] # b
      BY <2>4, <3>1, <3>2 DEF b
    <3>3. CASE Remote_BBMD[n] = b /\ b = o
      <4>1. \E e \in ToDevices(o, o, m) : e.id = m.id /\ Toward(e, n)
        BY <3>1, <3>3, SentTowards
      <4> QED
        BY <1>2, <4>1 DEF FirstSent
    <3>4. CASE Remote_BBMD[n] = b /\ b # o
      <4>1. Toward(L(b), n)
        BY <2>3, <2>4, <3>4 DEF Toward
      <4> QED
        BY <2>1, <2>2, <2>3, <4>1
    <3> QED
      BY <3>2, <3>3, <3>4
  <2>5. CASE n \notin Foreign /\ n \in Neighbours(o)
    <3>1. Toward(L(n), n)
      BY <2>3 DEF Toward
    <3> QED
      BY <2>2, <2>3, <2>5, <3>1
  <2>6. CASE n \notin Foreign /\ n \notin Neighbours(o)
    <3>1. n \notin Neighbours(b) /\ o \notin Neighbours(n)
      BY <2>1, <2>6, PlacesOfNodes
    <3>2. CASE b = o
      <4>1. \E e \in ToPeers(o, o, m) : e.id = m.id /\ Toward(e, n)
        BY <2>1, <2>6, <3>1, <3>2, PeerTowards
      <4> QED
        BY <1>2, <4>1 DEF FirstSent
    <3>3. CASE b # o
      <4>1. Toward(L(b), n)
        BY <2>1, <2>3, <2>6, <3>1, <3>3 DEF Toward
      <4> QED
        BY <2>1, <2>2, <2>3, <4>1
    <3> QED
      BY <3>2, <3>3
  <2> QED
    BY <2>4, <2>5, <2>6
<1> QED
  BY <1>1, <1>2

\* A broadcast goes on until it has come.
LEMMA PassedTowards ==
  ASSUME OneWay, Connected, TrafficTyped, Spreading, NEW m \in BagToSet(net), NEW n,
         Claims(n, m.id), Toward(m, n)
  PROVE  (IsHeard(m) /\ m.to = n) \/ \E e \in PassedOn(m) : e.id = m.id /\ Toward(e, n)
<1> DEFINE g == m.to
<1>1. m \in Message /\ m.from \in Nodes /\ g \in Nodes /\ m.src \in Nodes /\ Carried(m) /\ m.intact
  BY DEF TrafficTyped, Message, Carried, Toward
<1>2. /\ n \in Nodes /\ n # m.src
      /\ n \in Foreign => n \in alive /\ FD_Table[Remote_BBMD[n]][n] > 0
  BY DEF Claims, Registered, Spreading, Routed
<1>3. /\ m.func = "ORIGINAL_BROADCAST" => m.from = m.src /\ g \in Neighbours(m.src)
      /\ m.func = "DISTRIBUTE" => m.from = m.src /\ m.src \in Foreign /\ g = Remote_BBMD[m.src]
  BY DEF Spreading, Routed
<1>4. m.func \in {"ORIGINAL_BROADCAST", "FORWARDED", "DISTRIBUTE"}
  BY <1>1 DEF Message, Functions
<1>5. CASE m.func # "DISTRIBUTE" /\ g = n
  BY <1>2, <1>5 DEF IsHeard, Running
<1>6. CASE m.func # "FORWARDED" /\ g # m.from /\ n \in Foreign /\ g = Remote_BBMD[n]
  <2>1. g \notin Foreign /\ g # m.src /\ n # g /\ m.from = m.src
    BY <1>3, <1>4, <1>6, PlacesOfNodes
  <2>2. ToDevices(g, m.from, m) \subseteq PassedOn(m)
    BY <1>4, <1>6, <2>1 DEF PassedOn, Running
  <2>3. \E e \in ToDevices(g, m.from, m) : e.id = m.id /\ Toward(e, n)
    BY <1>1, <1>2, <1>6, <2>1, SentTowards
  <2> QED
    BY <2>2, <2>3
<1>7. CASE m.func = "DISTRIBUTE" /\ n \in Nodes \ Foreign
  <2>1. g \notin Foreign /\ g \in Bbmds /\ m.from = m.src /\ m.src \in Foreign
    BY <1>3, <1>7, PlacesOfNodes, HomesOfNodes
  <2>2. ToSubnet(g, m.from, m) \cup ToPeers(g, m.from, m) \subseteq PassedOn(m)
    BY <1>7, <2>1 DEF PassedOn, Running
  <2>3. CASE n \in Neighbours(g)
    <3>1. \E e \in ToSubnet(g, m.from, m) : e.id = m.id /\ Toward(e, n)
      BY <1>1, <2>3, SentTowards
    <3> QED
      BY <2>2, <3>1
  <2>4. CASE n \notin Neighbours(g)
    <3>1. \E e \in ToPeers(g, m.from, m) : e.id = m.id /\ Toward(e, n)
      BY <1>1, <1>7, <2>1, <2>4, PeerTowards
    <3> QED
      BY <2>2, <3>1
  <2> QED
    BY <2>3, <2>4
<1>8. CASE /\ m.func = "ORIGINAL_BROADCAST" /\ g # m.from
           /\ n \in Nodes \ Foreign /\ g \in Bbmds /\ n \notin Neighbours(g)
  <2>1. g \notin Foreign /\ m.from = m.src /\ m.src \notin Neighbours(n)
    BY <1>1, <1>3, <1>8, PlacesOfNodes
  <2>2. ToPeers(g, m.from, m) \subseteq PassedOn(m)
    BY <1>8, <2>1 DEF PassedOn, Running
  <2>3. \E e \in ToPeers(g, m.from, m) : e.id = m.id /\ Toward(e, n)
    BY <1>1, <1>8, <2>1, PeerTowards
  <2> QED
    BY <2>2, <2>3
<1>9. CASE m.func = "FORWARDED" /\ g \in Peers(m.from) /\ n \in Neighbours(g)
  <2>1. /\ g \in Bbmds /\ m.from \in Bbmds /\ g \notin Foreign /\ g # m.from
        /\ Subnet[g] # Subnet[m.from]
    BY <1>1, <1>9, PlacesOfNodes
  <2>2. Way(m.src, m.from, g)
    BY <1>1, <1>9 DEF Spreading, Onward
  \* Nothing is sent to the node that it comes from.
  <2>3. g # m.src
    <3>1. SUFFICES ASSUME g = m.src PROVE FALSE
      OBVIOUS
    <3>2. Source(g) = g /\ Gates(g) = Neighbours(g)
      BY <2>1 DEF Source, Gates
    <3>3. PICK x \in Neighbours(g) : Relayed(x, g, m.from, g)
      BY <2>1, <2>2, <3>1, <3>2 DEF Way
    <3>4. x \in Nodes /\ Subnet[x] = Subnet[g]
      BY <3>3 DEF Neighbours
    <3> QED
      BY <1>1, <2>1, <3>3, <3>4, PlacesOfNodes DEF Relayed
  <2>4. bbmd_bdt_member_mask_is_unicast(g, m.from)
    <3>1. m.from \in Peers(g)
      BY <2>1, HomesOfNodes
    <3>2. PICK e \in BBMD_Table[g] : e.dest = m.from
      BY <3>1 DEF Peers
    <3>3. e \in [dest : Nodes, unicast : BOOLEAN] /\ e.unicast = TRUE
      BY <1>1, <3>2, BbmdConstants DEF OneWay
    <3>4. e = [dest |-> m.from, unicast |-> TRUE]
      BY <3>2, <3>3
    <3> QED
      BY <2>1, <3>2, <3>4 DEF bbmd_bdt_member_mask_is_unicast
  <2>5. ToSubnet(g, m.src, m) \subseteq PassedOn(m)
    BY <1>9, <2>1, <2>3, <2>4 DEF PassedOn, Running
  <2>6. \E e \in ToSubnet(g, m.src, m) : e.id = m.id /\ Toward(e, n)
    BY <1>1, <1>9, SentTowards
  <2> QED
    BY <2>5, <2>6
<1> HIDE DEF g
<1> QED
  BY <1>5, <1>6, <1>7, <1>8, <1>9 DEF Toward, g

----------------------------------------------------------------------------
(* So it comes to everyone who has to get it.                              *)

LEMMA ComingStays ==
  ASSUME Coming, UNCHANGED traffic, entitled' \in [IDs -> SUBSET Nodes],
         \A i \in IDs : entitled'[i] \subseteq entitled[i],
         \A i \in IDs : \A n \in entitled'[i] : n \in Foreign => n \in alive' /\ Registered(n)'
  PROVE  Coming'
<1>1. UNCHANGED <<net, origin, heard>>
  BY DEF traffic
<1>2. ASSUME NEW i \in IDs, NEW n \in entitled'[i] PROVE Claims(n, i)' /\ Served(n, i)'
  <2>1. Claims(n, i) /\ Served(n, i)
    BY DEF Coming
  <2>2. Claims(n, i)'
    BY <1>1, <2>1 DEF Claims
  <2>3. Served(n, i)'
    BY <1>1, <2>1 DEF Served
  <2> QED
    BY <2>2, <2>3
<1> QED
  BY <1>2 DEF Coming

\* The devices gone no longer have a claim.
LEMMA Disentitled ==
  ASSUME Coming, NEW gone, Disentitle(gone)
  PROVE  /\ entitled' \in [IDs -> SUBSET Nodes]
         /\ \A i \in IDs : entitled'[i] = entitled[i] \ gone
  BY DEF Coming, Disentitle

LEMMA BroadcastComing ==
  ASSUME OneWay, Connected, TablesTyped, TrafficTyped, Located, Coming,
         NEW o \in Nodes, NEW i \in IDs, Broadcast(o, i)
  PROVE  Coming'
<1> DEFINE b == [id |-> i, intact |-> TRUE]
           D == FirstSent(o, b)
           E == ((Nodes \ Foreign) \cup {f \in alive : Registered(f)}) \ {o}
<1>1. Carried(b) /\ b.id = i /\ b.intact /\ Joined(net', net, D)
  BY FirstSentOK
<1>2. /\ origin' = [origin EXCEPT ![i] = o] /\ entitled' = [entitled EXCEPT ![i] = E]
      /\ UNCHANGED <<heard, FD_Table, alive>>
  BY DEF Broadcast, tables
<1> HIDE DEF b
<1>3. BagToSet(net') = BagToSet(net) \cup D
  BY <1>1 DEF Joined
<1>4. \A n \in Nodes : n \in Foreign => (Registered(n)' <=> Registered(n))
  BY <1>2 DEF Registered
<1>5. \A n \in E : n \in Nodes /\ n # o /\ (n \in Foreign => n \in alive /\ Registered(n))
  <2>1. alive \subseteq Nodes
    BY BbmdConstants DEF TablesTyped
  <2> QED
    BY <2>1
<1>6. ASSUME NEW n \in E PROVE Claims(n, i)' /\ Served(n, i)'
  <2>1. origin'[i] = o
    BY <1>2 DEF TrafficTyped
  <2>2. Claims(n, i)'
    BY <1>2, <1>4, <1>5, <2>1 DEF Claims
  <2>3. \/ n \in Foreign /\ Home(n) # Home(o)
        \/ \E e \in D : e.id = i /\ Toward(e, n)
    BY <1>1, <1>5, FirstTowards
  <2> HIDE DEF D, E
  <2>4. Served(n, i)'
    BY <1>3, <2>1, <2>3 DEF Served
  <2> QED
    BY <2>2, <2>4
<1> HIDE DEF D
<1>7. E \in SUBSET Nodes
  BY <1>5
<1> HIDE DEF E
<1>8. ASSUME NEW c \in IDs, c # i, NEW n \in entitled[c] PROVE Claims(n, c)' /\ Served(n, c)'
  <2>1. Claims(n, c) /\ Served(n, c)
    BY DEF Coming
  <2>2. origin'[c] = origin[c] /\ UNCHANGED <<heard, alive>>
    BY <1>2, <1>8 DEF TrafficTyped
  <2>3. Claims(n, c)'
    BY <1>4, <2>1, <2>2 DEF Claims
  <2>4. Served(n, c)'
    BY <1>3, <2>1, <2>2 DEF Served
  <2> QED
    BY <2>3, <2>4
<1>9. entitled' \in [IDs -> SUBSET Nodes]
  BY <1>2, <1>7 DEF Coming
<1>10. \A c \in IDs : entitled'[c] = IF c = i THEN E ELSE entitled[c]
  BY <1>2 DEF Coming
<1> QED
  BY <1>6, <1>8, <1>9, <1>10 DEF Coming

\* What is still toward somebody stays in flight.
LEMMA StaysToward ==
  ASSUME Spreading, NEW m \in BagToSet(net), NEW D, Joined(net', Taken(m), D),
         NEW e \in BagToSet(net), e # m, NEW n, Toward(e, n)
  PROVE  e \in BagToSet(net')
<1>1. net[e] = 1
  BY DEF Toward, Spreading
<1>2. e \in BagToSet(Taken(m))
  BY <1>1, TakenOne
<1> QED
  BY <1>2 DEF Joined

LEMMA ReceiveComing ==
  ASSUME OneWay, Connected, Located, TrafficTyped, HeardTyped, Spreading, Coming,
         NEW m \in BagToSet(net), Receive(m)
  PROVE  Coming'
<1>1. /\ Joined(net', Taken(m), PassedOn(m))
      /\ IF IsHeard(m) THEN Hears(m) ELSE UNCHANGED heard
      /\ UNCHANGED <<tables, origin, entitled, faults>>
  BY PassedOnOK
<1>2. m \in Message /\ m.to \in Nodes /\ m.id \in IDs
  BY DEF TrafficTyped, Message
<1>3. PassedOn(m) \subseteq BagToSet(net')
  BY <1>1 DEF Joined
<1>4. ASSUME NEW n \in Nodes, NEW i \in IDs, heard[n][i] > 0 PROVE heard'[n][i] > 0
  <2>1. CASE UNCHANGED heard
    BY <2>1, <1>4
  <2>2. CASE heard' = [heard EXCEPT ![m.to][m.id] = IF @ < 3 THEN @ + 1 ELSE @]
    BY <2>2, <1>2, <1>4 DEF HeardTyped
  <2> QED
    BY <2>1, <2>2, <1>1 DEF Hears
<1>5. ASSUME IsHeard(m), m.intact PROVE heard'[m.to][m.id] > 0
  <2>1. heard' = [heard EXCEPT ![m.to][m.id] = IF @ < 3 THEN @ + 1 ELSE @]
    BY <1>1, <1>5 DEF Hears
  <2> QED
    BY <2>1, <1>2 DEF HeardTyped
<1>6. ASSUME NEW i \in IDs, NEW n \in entitled[i] PROVE Claims(n, i)' /\ Served(n, i)'
  <2>1. Claims(n, i) /\ Served(n, i)
    BY DEF Coming
  <2>2. UNCHANGED <<FD_Table, alive, origin>>
    BY <1>1 DEF tables
  <2>3. Claims(n, i)'
    BY <2>1, <2>2 DEF Claims, Registered
  <2>4. CASE heard[n][i] > 0
    <3>1. heard'[n][i] > 0
      BY <2>1, <2>4, <1>4 DEF Claims
    <3> QED
      BY <2>3, <3>1 DEF Served
  <2>5. CASE n \in Foreign /\ Home(n) # Home(origin[i])
    <3>1. origin'[i] = origin[i]
      BY <2>2
    <3> QED
      BY <2>3, <2>5, <3>1 DEF Served
  <2>6. ASSUME NEW e \in BagToSet(net), e.id = i, Toward(e, n) PROVE Served(n, i)'
    <3>1. CASE e # m
      <4>1. e \in BagToSet(net')
        BY <1>1, <2>6, <3>1, StaysToward
      <4> QED
        BY <2>6, <4>1 DEF Served
    <3>2. CASE e = m
      <4>1. (IsHeard(m) /\ m.to = n) \/ \E d \in PassedOn(m) : d.id = m.id /\ Toward(d, n)
        BY <2>1, <2>6, <3>2, PassedTowards
      <4>2. m.intact
        BY <2>6, <3>2 DEF Toward
      <4> QED
        BY <1>3, <1>5, <2>6, <3>2, <4>1, <4>2 DEF Served
    <3> QED
      BY <3>1, <3>2
  <2> QED
    BY <2>1, <2>3, <2>4, <2>5, <2>6 DEF Served
<1>7. UNCHANGED entitled
  BY <1>1
<1> QED
  BY <1>6, <1>7 DEF Coming

\* Of what is lost nobody need hear.
LEMMA LoseComing ==
  ASSUME TrafficTyped, Spreading, Coming, NEW m \in BagToSet(net), Lose(m)
  PROVE  Coming'
<1>1. /\ net' = Taken(m) /\ entitled' = [entitled EXCEPT ![m.id] = {}]
      /\ UNCHANGED <<FD_Table, alive, origin, heard>>
  BY DEF Lose, tables
<1>2. Joined(net', Taken(m), {})
  BY <1>1, JoinNone
<1>3. m.id \in IDs
  BY DEF TrafficTyped, Message
<1>4. ASSUME NEW i \in IDs, i # m.id, NEW n \in entitled[i] PROVE Claims(n, i)' /\ Served(n, i)'
  <2>1. Claims(n, i) /\ Served(n, i)
    BY DEF Coming
  <2>2. Claims(n, i)'
    BY <1>1, <2>1 DEF Claims, Registered
  <2>3. \A e \in BagToSet(net) : e.id = i /\ Toward(e, n) => e \in BagToSet(net')
    BY <1>2, <1>4, StaysToward
  <2>4. Served(n, i)'
    BY <1>1, <2>1, <2>3 DEF Served
  <2> QED
    BY <2>2, <2>4
<1>5. /\ entitled' \in [IDs -> SUBSET Nodes]
      /\ \A i \in IDs : entitled'[i] = IF i = m.id THEN {} ELSE entitled[i]
  BY <1>1, <1>3 DEF Coming
<1> QED
  BY <1>4, <1>5 DEF Coming

ComingIInv == OnceIInv /\ Coming

LEMMA ComingStep ==
  ASSUME OneWay, Connected, ComingIInv, [BbmdNext]_bbmdVars
  PROVE  ComingIInv'
<1>1. /\ TablesTyped /\ TrafficTyped /\ Located /\ HeardTyped /\ Spreading /\ Coming
      /\ entitled \in [IDs -> SUBSET Nodes]
  BY DEF ComingIInv, OnceIInv, BbmdIInv, Coming
<1>2. OnceIInv'
  BY OnceStep DEF ComingIInv
<1>3. /\ FD_Table \in [Nodes -> Tables] /\ regs \subseteq Registrations
      /\ FD_Table' \in [Nodes -> Tables]
  BY <1>1, <1>2 DEF OnceIInv, BbmdIInv, TablesTyped
<1>4. \A i \in IDs : \A n \in entitled[i] : n \in Nodes /\ (n \in Foreign => n \in alive /\ Registered(n))
  BY <1>1 DEF Coming, Claims
<1>5. ASSUME NEW n \in Senders, NEW i \in IDs, Broadcast(n, i) PROVE Coming'
  BY <1>1, <1>5, BroadcastComing, BbmdConstants
<1>6. ASSUME NEW i \in IDs, Deliver(i) PROVE Coming'
  BY <1>1, <1>6, ReceiveComing DEF Deliver
<1>7. ASSUME NEW f \in Foreign, RegisterFrom(f) PROVE Coming'
  <2>1. PICK r \in regs : RegisterForeignDevice(r)
    BY <1>7 DEF RegisterFrom
  <2> DEFINE g == Remote_BBMD[r.from]
  <2>2. r.from \in Foreign /\ r.from \in Nodes /\ g \in Nodes
    BY <1>3, BbmdConstants DEF Registrations
  <2>3. /\ FD_Table' = [FD_Table EXCEPT ![g] = fdt_entry_add(FD_Table[g], r.from)]
        /\ UNCHANGED <<alive, entitled, traffic>>
    BY <2>1 DEF RegisterForeignDevice
  <2>4. \A d \in Nodes : FD_Table[g][d] > 0 => fdt_entry_add(FD_Table[g], r.from)[d] > 0
    BY <1>3, <2>2, LifetimeOK DEF fdt_entry_add, Tables
  <2> HIDE DEF g
  <2>5. \A n, d \in Nodes : FD_Table[n][d] > 0 => FD_Table'[n][d] > 0
    BY <1>3, <2>2, <2>3, <2>4
  <2>6. \A d \in Foreign : Registered(d) => Registered(d)'
    BY <2>5, BbmdConstants DEF Registered
  <2> QED
    BY <1>1, <1>4, <2>3, <2>6, ComingStays
<1>8. ASSUME NEW f \in Foreign, Start(f) PROVE Coming'
  <2>1. UNCHANGED <<FD_Table, entitled, traffic>> /\ alive \subseteq alive'
    BY <1>8 DEF Start
  <2>2. \A n \in Foreign : Registered(n) => Registered(n)'
    BY <2>1 DEF Registered
  <2> QED
    BY <1>1, <1>4, <2>1, <2>2, ComingStays
<1>9. ASSUME NEW f \in Foreign, Stop(f) PROVE Coming'
  <2>1. Disentitle({f}) /\ UNCHANGED <<FD_Table, traffic>> /\ alive' = alive \ {f}
    BY <1>9 DEF Stop
  <2>2. \A n \in Foreign : Registered(n) => Registered(n)'
    BY <2>1 DEF Registered
  <2>3. entitled' \in [IDs -> SUBSET Nodes] /\ \A i \in IDs : entitled'[i] = entitled[i] \ {f}
    BY <1>1, <2>1, Disentitled
  <2> QED
    BY <1>1, <1>4, <2>1, <2>2, <2>3, ComingStays
<1>10. ASSUME NEW f \in Foreign, DeleteForeignDevice(f) PROVE Coming'
  <2>1. /\ Disentitle({f}) /\ UNCHANGED <<alive, traffic>>
        /\ FD_Table' = [FD_Table EXCEPT ![Remote_BBMD[f]] = [@ EXCEPT ![f] = 0]]
    BY <1>10 DEF DeleteForeignDevice
  <2>2. \A n \in Foreign : n # f /\ Registered(n) => Registered(n)'
    BY <1>3, <2>1, BbmdConstants DEF Registered, Tables
  <2>3. entitled' \in [IDs -> SUBSET Nodes] /\ \A i \in IDs : entitled'[i] = entitled[i] \ {f}
    BY <1>1, <2>1, Disentitled
  <2> QED
    BY <1>1, <1>4, <2>1, <2>2, <2>3, ComingStays
<1>11. ASSUME Second PROVE Coming'
  <2> DEFINE gone == {f \in Foreign : FD_Table'[Remote_BBMD[f]][f] = 0}
  <2>1. Disentitle(gone) /\ UNCHANGED <<alive, traffic>>
    BY <1>11 DEF Second
  <2>2. \A n \in Foreign : n \notin gone => Registered(n)'
    BY <1>3, BbmdConstants DEF Registered, Tables
  <2> HIDE DEF gone
  <2>3. entitled' \in [IDs -> SUBSET Nodes] /\ \A i \in IDs : entitled'[i] = entitled[i] \ gone
    BY <1>1, <2>1, Disentitled
  <2>4. \A i \in IDs : entitled'[i] \subseteq entitled[i]
    BY <2>3
  <2>5. \A i \in IDs : \A n \in entitled'[i] : n \in Foreign => n \in alive' /\ Registered(n)'
    BY <1>4, <2>1, <2>2, <2>3
  <2> QED
    BY <1>1, <2>1, <2>3, <2>4, <2>5, ComingStays
<1>12. ASSUME NEW m \in BagToSet(net), Lose(m) PROVE Coming'
  BY <1>1, <1>12, LoseComing
<1>13. ASSUME UNCHANGED <<FD_Table, alive, traffic, entitled>> PROVE Coming'
  <2>1. \A n \in Foreign : Registered(n) => Registered(n)'
    BY <1>13 DEF Registered
  <2> QED
    BY <1>1, <1>4, <1>13, <2>1, ComingStays
<1>14. ASSUME NEW r \in regs, LoseRegistration(r) PROVE Coming'
  BY <1>13, <1>14 DEF LoseRegistration
<1>15. ASSUME UNCHANGED bbmdVars PROVE Coming'
  <2>1. UNCHANGED <<FD_Table, alive, traffic, entitled>>
    BY <1>15 DEF bbmdVars, tables
  <2> QED
    BY <1>13, <2>1
<1>16. Coming'
  BY <1>5, <1>6, <1>7, <1>8, <1>9, <1>10, <1>11, <1>12, <1>14, <1>15 DEF BbmdNext
<1> QED
  BY <1>2, <1>16 DEF ComingIInv

\* In any set-up that is OneWay and Connected, broadcasts come to everyone by
\* exactly one way: nobody hears one twice, and when nothing of it is left in
\* flight everybody has heard it who had to, but for the foreign devices of other
\* BBMDs than the sender's (h_bbmd.c:314-466, 561-625, 873-922, 1004-1083).
THEOREM BroadcastsReachEveryone ==
  ASSUME OneWay, Connected
  PROVE  BbmdSpec => []BroadcastsArrive
<1>1. BbmdInit => ComingIInv
  <2> SUFFICES ASSUME BbmdInit PROVE ComingIInv
    OBVIOUS
  <2>1. OnceIInv
    BY OnceInit, BbmdInitOK DEF OnceIInv
  <2>2. entitled = [i \in IDs |-> {}]
    BY DEF BbmdInit
  <2> QED
    BY <2>1, <2>2 DEF ComingIInv, Coming
<1>2. ComingIInv /\ [BbmdNext]_bbmdVars => ComingIInv'
  BY ComingStep
<1>3. ComingIInv => EveryoneHears
  <2> SUFFICES ASSUME ComingIInv, NEW i \in IDs, ~ InFlight(i), NEW n \in entitled[i]
               PROVE  heard[n][i] > 0 \/ (n \in Foreign /\ Home(n) # Home(origin[i]))
    BY DEF EveryoneHears
  <2>1. Served(n, i)
    BY DEF ComingIInv, Coming
  <2> QED
    BY <2>1 DEF Served, InFlight
<1>4. ComingIInv => HeardOnce
  <2> SUFFICES ASSUME ComingIInv, NEW n \in Nodes, NEW i \in IDs
               PROVE  heard[n][i] <= IF origin[i] = n THEN 0 ELSE IF IsBBMD(n) THEN 2 ELSE 1
    BY DEF HeardOnce
  <2> QED
    BY DEF ComingIInv, OnceIInv, Counted, Most
<1> QED
  BY <1>1, <1>2, <1>3, <1>4, PTL DEF BbmdSpec, BroadcastsArrive

----------------------------------------------------------------------------
(* DeviceCommunicationControl.                                             *)

LEMMA DurationOf ==
  ASSUME NEW m \in Minutes
  PROVE  m \in Nat /\ m * MINUTE \in Nat /\ (m * MINUTE = 0 <=> m = 0)
<1>1. m \in Nat /\ MINUTE \in Nat /\ MINUTE > 0
  BY DccConstants
<1>2. m * MINUTE \in Nat
  BY <1>1
<1>3. m = 0 => m * MINUTE = 0
  BY <1>1
<1>4. m > 0 => m * MINUTE > 0
  BY <1>1
<1> QED
  BY <1>1, <1>2, <1>3, <1>4

LEMMA DccInitOK ==
  ASSUME DccInit
  PROVE  DccTypeOK
<1>1. /\ DCC_Enable_Disable = "ENABLE" /\ DCC_Time_Duration_Seconds = 0
      /\ indefinite = FALSE
  BY DEF DccInit
<1>2. SilenceHasEnd
  BY <1>1 DEF SilenceHasEnd, dcc_communication_enabled
<1> QED
  BY <1>1, <1>2 DEF DccTypeOK

LEMMA DccRequestOK ==
  ASSUME DccTypeOK, DccRequest
  PROVE  DccTypeOK'
<1>1. ASSUME NEW status \in Statuses, NEW minutes \in Minutes,
             dcc_set_status_duration(status, minutes)
      PROVE DccTypeOK'
  BY <1>1, DurationOf DEF dcc_set_status_duration, Duration, DccTypeOK, SilenceHasEnd,
                        dcc_communication_enabled
<1>2. ASSUME Device_Reinitialize PROVE DccTypeOK'
  BY <1>2 DEF Device_Reinitialize, dcc_set_status_duration, Duration, DccTypeOK,
              SilenceHasEnd, dcc_communication_enabled
<1> QED
  BY <1>1, <1>2 DEF DccRequest, handler_device_communication_control

LEMMA DccTimerOK ==
  ASSUME DccTypeOK, dcc_timer_seconds
  PROVE  DccTypeOK'
  BY DEF dcc_timer_seconds, StatusAfter, DccTypeOK, SilenceHasEnd,
         dcc_communication_enabled

----------------------------------------------------------------------------
(* The alarm.                                                              *)

\* What an unacknowledged transition is stamped with is its last occurrence.
AskedIsStamped ==
  \A t \in TransitionKinds :
    ~ Acked_Transitions[t].bIsAcked => Acked_Transitions[t].Time_Stamp = asked[t]

EventIInv == EventTypeOK /\ OperatorsKnow /\ AskedIsStamped

LEMMA Clock ==
  ASSUME clock \in Time
  PROVE  Now \in Time /\ Now \in 1 .. MaxTime /\ clock <= Now
  BY EventConstants DEF Time, Now

\* A report widens what was told by at most the transition and stamp reported.
\* Who wants to hear of the state is left with it, or hindered.
LEMMA Reported ==
  ASSUME EventTypeOK, OperatorsKnow,
         NEW state \in States, NEW stamp, Report(state, stamp)
  PROVE  /\ told' = told \/ told' = told \cup {<<TransitionTo(state), stamp>>}
         /\ shown' \in [Recipients -> States] /\ hindered' \subseteq Recipients
         /\ \A r \in Recipients \ hindered' :
              TransitionTo(state) \in Transitions[r] => shown'[r] = state
<1>1. PICK window, bound, got :
        /\ settings.Notification_Class => Reached(state, window, bound) \subseteq got
        /\ Told(got, state, stamp, OutOfReach(window, bound))
  BY DEF Report
<1> DEFINE out == OutOfReach(window, bound)
<1>2. /\ told' = IF got = {} THEN told ELSE told \cup {<<TransitionTo(state), stamp>>}
      /\ shown' = [r \in Recipients |-> IF r \in got THEN state ELSE shown[r]]
      /\ hindered' = {r \in Recipients :
                       /\ shown'[r] # state
                       /\ \/ r \in hindered
                          \/ r \in out /\ state # Event_State
                             /\ TransitionTo(state) \in Transitions[r]}
  BY <1>1 DEF Told
<1>3. shown' \in [Recipients -> States]
  BY <1>2 DEF EventTypeOK
<1>4. ASSUME NEW r \in Recipients \ hindered', TransitionTo(state) \in Transitions[r]
      PROVE  shown'[r] = state
  <2>1. shown'[r] = IF r \in got THEN state ELSE shown[r]
    BY <1>2, <1>4
  <2>2. SUFFICES ASSUME shown'[r] # state PROVE FALSE
    OBVIOUS
  <2>3. r \notin got /\ r \notin hindered /\ (state = Event_State \/ r \notin out)
    BY <1>2, <1>4, <2>1, <2>2
  <2>4. CASE state = Event_State
    BY <1>4, <2>1, <2>2, <2>3, <2>4 DEF OperatorsKnow
  \* Who wants it and is not out of reach is reached.
  <2>5. CASE r \notin out
    BY <1>1, <1>4, <2>3, <2>5 DEF OutOfReach, Reached, IsRecipientActive
  <2> QED
    BY <2>3, <2>4, <2>5
<1> QED
  BY <1>2, <1>3, <1>4

LEMMA EventInitOK ==
  ASSUME Init
  PROVE  EventIInv
<1>1. DccTypeOK
  BY DccInitOK DEF Init
<1>2. clock = 0 /\ 0 \in Time /\ 0 \in 0 .. 0
  BY EventConstants DEF Init, Time
<1>3. Remaining_Time_Delay \in Nat
  BY EventConstants DEF Init, Settings
<1>4. EventTypeOK
  BY <1>1, <1>2, <1>3 DEF Init, EventTypeOK, States
<1>5. OperatorsKnow /\ AskedIsStamped
  BY DEF Init, OperatorsKnow, AskedIsStamped
<1> QED
  BY <1>4, <1>5 DEF EventIInv

\* A step acknowledges only what somebody was told of.
AckStep ==
  \A t \in TransitionKinds :
    ~ Acked_Transitions[t].bIsAcked /\ Acked_Transitions'[t].bIsAcked =>
      \E n \in told : n[1] = t /\ n[2] >= asked[t]

LEMMA AckNotificationOK ==
  ASSUME EventIInv, AckNotification
  PROVE  EventIInv' /\ AckStep
<1> USE DEF EventIInv
<1>1. /\ Now \in Time /\ Now \in 1 .. MaxTime /\ clock <= Now /\ clock' = Now
      /\ clock \in Nat
  BY Clock, EventConstants DEF AckNotification, EventTypeOK, Time
<1>2. /\ told' = told \/ told' = told \cup {<<TransitionTo(Event_State), Now>>}
      /\ shown' \in [Recipients -> States] /\ hindered' \subseteq Recipients
      /\ \A r \in Recipients \ hindered' :
           TransitionTo(Event_State) \in Transitions[r] => shown'[r] = Event_State
  BY Reported DEF AckNotification, EventTypeOK
<1>3. UNCHANGED <<dccVars, value, Event_State, Remaining_Time_Delay,
                  Acked_Transitions, Event_Time_Stamps, asked>>
  BY DEF AckNotification
<1>4. 0 .. clock \subseteq 0 .. clock' /\ 1 .. clock \subseteq 1 .. clock' /\ Now \in 1 .. clock'
  BY <1>1
<1>5. DccTypeOK'
  BY <1>3 DEF EventTypeOK, DccTypeOK, SilenceHasEnd, dccVars, dcc_communication_enabled
<1>6. told' \subseteq TransitionKinds \X (1 .. clock')
  BY <1>2, <1>4 DEF EventTypeOK, TransitionTo, TransitionKinds
<1>8. /\ Acked_Transitions' \in
           [TransitionKinds -> [bIsAcked : BOOLEAN, Time_Stamp : 0 .. clock']]
      /\ Event_Time_Stamps' \in [TransitionKinds -> 0 .. clock']
      /\ asked' \in [TransitionKinds -> 0 .. clock']
  BY <1>3, <1>4 DEF EventTypeOK
<1>9. EventTypeOK'
  BY <1>1, <1>2, <1>3, <1>5, <1>6, <1>8 DEF EventTypeOK, AckNotification, value
<1>10. OperatorsKnow' /\ AskedIsStamped' /\ AckStep
  BY <1>2, <1>3 DEF OperatorsKnow, AskedIsStamped, AckStep
<1> QED
  BY <1>9, <1>10

LEMMA TransitionOK ==
  ASSUME EventIInv, Transition
  PROVE  EventIInv' /\ AckStep
<1> USE DEF EventIInv
<1>1. PICK state \in Leaves(Event_State) :
        LET t == TransitionTo(state) IN
        /\ Event_State' = state
        /\ Event_Time_Stamps' = [Event_Time_Stamps EXCEPT ![t] = Now]
        /\ Report(state, Now) /\ clock' = Now
        /\ \/ /\ Acked_Transitions' = [Acked_Transitions EXCEPT ![t] = Unacked(t, Now)]
              /\ asked' = [asked EXCEPT ![t] = Now]
           \/ UNCHANGED <<Acked_Transitions, asked>>
  BY Zenon DEF Transition
<1> DEFINE t == TransitionTo(state)
<1>2. state \in States /\ t \in TransitionKinds
  BY <1>1 DEF Leaves, States, TransitionTo, TransitionKinds
<1>3. /\ Now \in Time /\ Now \in 1 .. MaxTime /\ clock <= Now /\ clock' = Now
      /\ clock \in Nat
  BY <1>1, Clock, EventConstants DEF EventTypeOK, Time
<1>4. UNCHANGED <<dccVars, value, Remaining_Time_Delay, bSendAckNotify>>
  BY DEF Transition
<1>5. 0 .. clock \subseteq 0 .. clock' /\ 1 .. clock \subseteq 1 .. clock' /\ Now \in 1 .. clock'
      /\ Now \in 0 .. clock' /\ Now \in Nat
  BY <1>3
<1>6. /\ told' = told \/ told' = told \cup {<<t, Now>>}
      /\ shown' \in [Recipients -> States] /\ hindered' \subseteq Recipients
      /\ \A r \in Recipients \ hindered' : t \in Transitions[r] => shown'[r] = state
  BY <1>1, <1>2, Reported
<1> HIDE DEF t
<1>7. DccTypeOK'
  BY <1>4 DEF EventTypeOK, DccTypeOK, SilenceHasEnd, dccVars, dcc_communication_enabled
<1>8. told' \subseteq TransitionKinds \X (1 .. clock')
  BY <1>2, <1>5, <1>6 DEF EventTypeOK
<1>10. /\ Acked_Transitions \in
            [TransitionKinds -> [bIsAcked : BOOLEAN, Time_Stamp : 0 .. clock']]
       /\ asked \in [TransitionKinds -> 0 .. clock']
  BY <1>5 DEF EventTypeOK
<1>11. Unacked(t, Now) \in [bIsAcked : BOOLEAN, Time_Stamp : 0 .. clock']
  BY <1>5 DEF Unacked
<1>12. \/ /\ Acked_Transitions' = [Acked_Transitions EXCEPT ![t] = Unacked(t, Now)]
          /\ asked' = [asked EXCEPT ![t] = Now]
       \/ UNCHANGED <<Acked_Transitions, asked>>
  BY <1>1 DEF t
<1>13. /\ Acked_Transitions' \in
            [TransitionKinds -> [bIsAcked : BOOLEAN, Time_Stamp : 0 .. clock']]
       /\ asked' \in [TransitionKinds -> 0 .. clock']
  BY <1>5, <1>10, <1>11, <1>12
<1>14. /\ Event_Time_Stamps \in [TransitionKinds -> 0 .. clock']
       /\ Event_Time_Stamps' = [Event_Time_Stamps EXCEPT ![t] = Now]
  BY <1>1, <1>5 DEF EventTypeOK, t
<1>15. Event_Time_Stamps' \in [TransitionKinds -> 0 .. clock']
  BY <1>5, <1>14
<1>16. EventTypeOK'
  BY <1>1, <1>2, <1>3, <1>4, <1>6, <1>7, <1>8, <1>13, <1>15 DEF EventTypeOK, value
<1>17. \A k \in TransitionKinds :
         /\ asked[k] \in Nat /\ Event_Time_Stamps[k] \in Nat /\ Event_Time_Stamps[k] <= Now
         /\ Acked_Transitions[k].Time_Stamp \in Nat
         /\ Acked_Transitions[k].Time_Stamp <= Now
  BY <1>3 DEF EventTypeOK
<1>18. ASSUME NEW k \in TransitionKinds
       PROVE  /\ ~ Acked_Transitions'[k].bIsAcked =>
                   /\ Acked_Transitions'[k].Time_Stamp > 0
                   /\ Acked_Transitions'[k].Time_Stamp <= Event_Time_Stamps'[k]
                   /\ Acked_Transitions'[k].Time_Stamp = asked'[k]
              /\ Acked_Transitions'[k].bIsAcked => Acked_Transitions[k].bIsAcked
  <2>1. CASE k # t
    <3>1. /\ Acked_Transitions'[k] = Acked_Transitions[k] /\ asked'[k] = asked[k]
          /\ Event_Time_Stamps'[k] = Event_Time_Stamps[k]
      BY <1>10, <1>12, <1>14, <2>1
    <3> QED
      BY <3>1 DEF OperatorsKnow, AskedIsStamped
  <2>2. CASE k = t /\ UNCHANGED <<Acked_Transitions, asked>>
    <3>1. Event_Time_Stamps'[k] = Now
      BY <1>14, <2>2
    <3> QED
      BY <1>17, <2>2, <3>1 DEF OperatorsKnow, AskedIsStamped
  <2>3. CASE /\ k = t
             /\ Acked_Transitions' = [Acked_Transitions EXCEPT ![t] = Unacked(t, Now)]
             /\ asked' = [asked EXCEPT ![t] = Now]
    <3>1. /\ Event_Time_Stamps'[k] = Now /\ asked'[k] = Now
          /\ Acked_Transitions'[k] = Unacked(t, Now)
      BY <1>10, <1>14, <2>3
    <3>2. Unacked(t, Now).bIsAcked = FALSE /\ Unacked(t, Now).Time_Stamp = Now
      BY DEF Unacked
    <3> QED
      BY <1>3, <1>5, <3>1, <3>2
  <2> QED
    BY <1>12, <2>1, <2>2, <2>3
<1>19. OperatorsKnow' /\ AskedIsStamped' /\ AckStep
  <2>1. \A r \in Recipients \ hindered' :
          TransitionTo(Event_State') \in Transitions[r] => shown'[r] = Event_State'
    BY <1>1, <1>6 DEF t
  <2> QED
    BY <1>18, <2>1 DEF OperatorsKnow, AskedIsStamped, AckStep
<1> QED
  BY <1>16, <1>19

LEMMA AlarmAckOK ==
  ASSUME EventIInv, Analog_Input_Alarm_Ack
  PROVE  EventIInv' /\ AckStep
<1> USE DEF EventIInv
<1>1. PICK n \in told :
        /\ Acknowledges(n[1], n[2])
        /\ Acked_Transitions' = [Acked_Transitions EXCEPT ![n[1]].bIsAcked = TRUE]
  BY DEF Analog_Input_Alarm_Ack
<1> DEFINE t == n[1]
<1>2. t \in TransitionKinds /\ n[2] \in Nat
  BY DEF EventTypeOK
<1>3. /\ Acked_Transitions \in [TransitionKinds -> [bIsAcked : BOOLEAN, Time_Stamp : 0 .. clock]]
      /\ Acked_Transitions' = [Acked_Transitions EXCEPT ![t].bIsAcked = TRUE]
      /\ bSendAckNotify' = TRUE
      /\ UNCHANGED <<dccVars, value, Event_State, Remaining_Time_Delay,
                     Event_Time_Stamps, outside>>
  BY <1>1 DEF Analog_Input_Alarm_Ack, EventTypeOK
<1>4. /\ ~ Acked_Transitions[t].bIsAcked /\ Acked_Transitions[t].Time_Stamp <= n[2]
  BY <1>1 DEF Acknowledges
<1> HIDE DEF t
<1>5. Acked_Transitions' \in [TransitionKinds -> [bIsAcked : BOOLEAN, Time_Stamp : 0 .. clock]]
  <2>1. Acked_Transitions[t] \in [bIsAcked : BOOLEAN, Time_Stamp : 0 .. clock]
    BY <1>2, <1>3
  <2>2. [Acked_Transitions[t] EXCEPT !.bIsAcked = TRUE] \in
          [bIsAcked : BOOLEAN, Time_Stamp : 0 .. clock]
    BY <2>1
  <2> QED
    BY <1>2, <1>3, <2>2
<1>6. DccTypeOK'
  BY <1>3 DEF EventTypeOK, DccTypeOK, SilenceHasEnd, dccVars, dcc_communication_enabled
<1>7. EventTypeOK'
  BY <1>3, <1>5, <1>6 DEF EventTypeOK, value, outside
<1>8. /\ Acked_Transitions'[t].bIsAcked = TRUE
      /\ \A k \in TransitionKinds \ {t} : Acked_Transitions'[k] = Acked_Transitions[k]
  BY <1>2, <1>3
<1>9. OperatorsKnow' /\ AskedIsStamped'
  BY <1>3, <1>8 DEF OperatorsKnow, AskedIsStamped, outside
<1>10. n[2] >= asked[t]
  BY <1>2, <1>4 DEF AskedIsStamped
<1>11. AckStep
  BY <1>8, <1>10 DEF AckStep, t
<1> QED
  BY <1>7, <1>9, <1>11

LEMMA EventStep ==
  ASSUME EventIInv, Next
  PROVE  EventIInv' /\ AckStep
<1> USE DEF EventIInv
<1>1. CASE AckNotification
  BY <1>1, AckNotificationOK
<1>2. CASE AtRest \/ Wait
  <2>1. /\ Remaining_Time_Delay' \in Nat
        /\ UNCHANGED <<dccVars, value, Event_State, Acked_Transitions,
                       Event_Time_Stamps, bSendAckNotify, outside>>
    BY <1>2, EventConstants DEF AtRest, Wait, DelayOver, EventTypeOK, Settings
  <2>2. DccTypeOK'
    BY <2>1 DEF EventTypeOK, DccTypeOK, SilenceHasEnd, dccVars, dcc_communication_enabled
  <2>3. EventTypeOK'
    BY <2>1, <2>2 DEF EventTypeOK, value, outside
  <2> QED
    BY <2>1, <2>3 DEF OperatorsKnow, AskedIsStamped, AckStep, outside
<1>3. CASE Transition
  BY <1>3, TransitionOK
<1>4. CASE Analog_Input_Alarm_Ack
  BY <1>4, AlarmAckOK
<1>5. CASE Write_Property
  <2>1. PICK p \in DOMAIN Written : \E v \in Written[p] :
               /\ settings' = [settings EXCEPT ![p] = v]
               /\ Remaining_Time_Delay' = IF p = "Time_Delay" THEN v ELSE Remaining_Time_Delay
    BY <1>5 DEF Write_Property
  <2>2. PICK v \in Written[p] :
               /\ settings' = [settings EXCEPT ![p] = v]
               /\ Remaining_Time_Delay' = IF p = "Time_Delay" THEN v ELSE Remaining_Time_Delay
    BY <2>1
  <2>3. UNCHANGED <<dccVars, Present_Value, Event_State, Acked_Transitions,
                    Event_Time_Stamps, bSendAckNotify, outside>>
    BY <1>5 DEF Write_Property
  <2>4. settings \in Settings
    BY DEF EventTypeOK
  <2>5. p \in {"Time_Delay", "Limit_Enable", "Event_Enable", "Notification_Class", "Ack_Required"}
    BY EventConstants
  <2>6. settings' \in Settings
    BY <2>2, <2>4, <2>5 DEF Settings
  <2>7. Remaining_Time_Delay' \in Nat
    BY <2>2, EventConstants DEF EventTypeOK
  <2>8. DccTypeOK'
    BY <2>3 DEF EventTypeOK, DccTypeOK, SilenceHasEnd, dccVars, dcc_communication_enabled
  <2>9. EventTypeOK'
    BY <2>3, <2>6, <2>7, <2>8 DEF EventTypeOK, outside
  <2> QED
    BY <2>3, <2>9 DEF OperatorsKnow, AskedIsStamped, AckStep, outside
<1>6. CASE ValueChanges
  <2>1. /\ Present_Value' \in Present_Values
        /\ UNCHANGED <<dccVars, settings, alarm, outside>>
    BY <1>6 DEF ValueChanges
  <2>2. DccTypeOK'
    BY <2>1 DEF EventTypeOK, DccTypeOK, SilenceHasEnd, dccVars, dcc_communication_enabled
  <2>3. EventTypeOK'
    BY <2>1, <2>2 DEF EventTypeOK, alarm, outside
  <2> QED
    BY <2>1, <2>3 DEF OperatorsKnow, AskedIsStamped, AckStep, alarm, outside
<1>7. CASE (DccRequest \/ dcc_timer_seconds) /\ UNCHANGED <<value, alarm, outside>>
  <2>1. DccTypeOK'
    BY <1>7, DccRequestOK, DccTimerOK DEF EventTypeOK
  <2>2. EventTypeOK'
    BY <1>7, <2>1 DEF EventTypeOK, value, alarm, outside
  <2> QED
    BY <1>7, <2>2 DEF OperatorsKnow, AskedIsStamped, AckStep, value, alarm, outside
<1> QED
  BY <1>1, <1>2, <1>3, <1>4, <1>5, <1>6, <1>7 DEF Next, Analog_Input_Intrinsic_Reporting

LEMMA EventStutter ==
  ASSUME EventIInv, UNCHANGED vars
  PROVE  EventIInv'
  BY DEF EventIInv, vars, value, alarm, outside, dccVars, EventTypeOK, DccTypeOK, SilenceHasEnd,
         dcc_communication_enabled, OperatorsKnow, AskedIsStamped

\* The inductive invariant: besides the types and what the operators know, an
\* occurrence that waits for an acknowledgement has the stamp it was given when
\* it asked for one.
THEOREM EventInvariant == Spec => []EventIInv
<1>1. Init => EventIInv
  BY EventInitOK
<1>2. EventIInv /\ [Next]_vars => EventIInv'
  BY EventStep, EventStutter
<1> QED
  BY <1>1, <1>2, PTL DEF Spec

\* The alarm's state stays well typed, no stamp is in the future, and a silence
\* asked for with DeviceCommunicationControl has the end it was given.
THEOREM EventTypeCorrect == Spec => []EventTypeOK
<1>1. EventIInv => EventTypeOK
  BY DEF EventIInv
<1> QED
  BY <1>1, EventInvariant, PTL

\* Whoever wants to hear of the state the object is in was told it last, unless a
\* change was announced while it was out of reach and nothing reached it since;
\* and what waits for an acknowledgement can be acknowledged.
THEOREM OperatorsAlwaysKnow == Spec => []OperatorsKnow
<1>1. EventIInv => OperatorsKnow
  BY DEF EventIInv
<1> QED
  BY <1>1, EventInvariant, PTL

\* Nothing is acknowledged by an operator who was not told of it.
THEOREM AcknowledgedWasTold == Spec => AckedWasTold
<1>1. EventIInv /\ [Next]_vars => [AckStep]_vars
  BY EventStep
<1>2. Spec => [][AckStep]_vars
  BY <1>1, EventInvariant, PTL DEF Spec
<1> QED
  BY <1>2 DEF AckedWasTold, AckStep
==============================================================================
