------------------------ MODULE AddressCache_proofs ------------------------
(***************************************************************************)
(* Proofs about AddressCache, for every cache size, every set of devices   *)
(* and addresses and every address_cache file.                             *)
(***************************************************************************)
EXTENDS AddressCache, FiniteSetTheorems, SequenceTheorems, WellFoundedInduction, TLAPS

\* A non-empty set of naturals has a least element, and Min is it.
LEMMA MinNat ==
  ASSUME NEW T \in SUBSET Nat, T # {}
  PROVE  Min(T) \in T /\ \A y \in T : Min(T) <= y
<1> DEFINE R == OpToRel(<, Nat)
<1>1. PICK x \in T : \A y \in T : ~ (<<y, x>> \in R)
  BY WFMin, NatLessThanWellFounded
<1>2. R = {ss \in Nat \X Nat : ss[1] < ss[2]}
  BY Zenon DEF OpToRel
<1> HIDE DEF R
<1>3. ASSUME NEW y \in T PROVE x <= y
  <2>1. x \in Nat /\ y \in Nat
    OBVIOUS
  <2>2. <<y, x>> \in Nat \X Nat /\ <<y, x>>[1] = y /\ <<y, x>>[2] = x
    BY <2>1
  <2>3. <<y, x>> \notin R
    BY <1>1
  <2>4. ~ (y < x)
    BY <1>2, <2>2, <2>3, Zenon
  <2> QED
    BY <2>1, <2>4
<1> QED
  BY <1>3 DEF Min

\* The greatest element of a set below a bound, likewise.
LEMMA MaxNat ==
  ASSUME NEW n \in Nat, NEW T \in SUBSET (0 .. n), T # {}
  PROVE  Max(T) \in T /\ \A y \in T : Max(T) >= y
<1> DEFINE U == {n - x : x \in T}
<1>1. U \in SUBSET Nat /\ U # {}
  <2>1. \A x \in T : x \in Int /\ n - x \in Nat
    OBVIOUS
  <2>2. PICK x \in T : TRUE
    OBVIOUS
  <2>3. n - x \in U
    BY <2>2
  <2> QED
    BY <2>1, <2>3
<1>2. Min(U) \in U /\ \A y \in U : Min(U) <= y
  <2> HIDE DEF U
  <2> QED
    BY <1>1, MinNat
<1>3. PICK x \in T : Min(U) = n - x
  BY <1>2
<1>4. \A y \in T : x >= y
  <2> TAKE y \in T
  <2>1. n - y \in U
    OBVIOUS
  <2>2. n - x <= n - y
    BY <1>2, <1>3, <2>1
  <2> QED
    BY <2>2
<1> QED
  BY <1>4 DEF Max

\* A set that holds 0 and, with k - 1, also k holds the whole interval: what
\* lies outside has no least element.
LEMMA IntervalInduction ==
  ASSUME NEW n \in Nat, NEW G \in SUBSET (0 .. n), 0 \in G,
         \A k \in 1 .. n : k - 1 \in G => k \in G
  PROVE  G = 0 .. n
<1> DEFINE U == (0 .. n) \ G
<1> SUFFICES ASSUME U # {} PROVE FALSE
  OBVIOUS
<1>1. U \in SUBSET Nat
  OBVIOUS
<1>2. Min(U) \in U /\ \A y \in U : Min(U) <= y
  <2> HIDE DEF U
  <2> QED
    BY <1>1, MinNat
<1>3. Min(U) \in 1 .. n /\ Min(U) - 1 \in 0 .. n
  BY <1>2
<1>4. Min(U) - 1 \notin U
  BY <1>2, <1>3
<1> QED
  BY <1>2, <1>3, <1>4

----------------------------------------------------------------------------
(* Look-ups.                                                               *)

LEMMA CacheSize ==
  /\ Entries \in SUBSET Nat /\ None \notin Entries
  /\ 0 \in Entries /\ MAX_ADDRESS_CACHE - 1 \in Nat
  /\ Entries = 0 .. (MAX_ADDRESS_CACHE - 1)
  BY AddressConstants DEF Entries, None

LEMMA FirstOfSet ==
  ASSUME NEW S \in SUBSET Entries
  PROVE  \/ S = {} /\ FirstOf(S) = None
         \/ FirstOf(S) \in S /\ FirstOf(S) # None
<1>1. S \in SUBSET Nat
  BY CacheSize
<1> QED
  BY <1>1, MinNat, CacheSize DEF FirstOf

\* EntryOf() finds an entry in use for the device, if there is one.
LEMMA EntryFound ==
  ASSUME NEW c, NEW d
  PROVE  LET i == EntryOf(c, d)
         IN  \/ /\ i \in Entries /\ i # None
                /\ IN_USE \in c[i].Flags /\ c[i].device_id = d
             \/ /\ i = None
                /\ \A j \in Entries : ~ (IN_USE \in c[j].Flags /\ c[j].device_id = d)
<1> DEFINE S == {i \in Entries : IN_USE \in c[i].Flags /\ c[i].device_id = d}
<1>1. S \in SUBSET Entries
  OBVIOUS
<1>2. EntryOf(c, d) = FirstOf(S)
  BY DEF EntryOf
<1>3. \/ S = {} /\ FirstOf(S) = None
      \/ FirstOf(S) \in S /\ FirstOf(S) # None
  <2> HIDE DEF S
  <2> QED
    BY <1>1, FirstOfSet
<1> QED
  BY <1>2, <1>3

----------------------------------------------------------------------------
(* The inductive invariant, stated of a cache.                             *)

Used(e) == IN_USE \in e.Flags

\* An entry is free, pending, bound or static, and in use only for a device.
Proper(e) ==
  /\ e.Flags \in {{}, {IN_USE}, {IN_USE, BIND_REQ}, {IN_USE, STATIC}}
  /\ STATIC \in e.Flags => e.TimeToLive = FOREVER
  /\ Used(e) => e.device_id \in Devices

Single(c) ==
  \A i, j \in Entries :
    Used(c[i]) /\ Used(c[j]) /\ c[i].device_id = c[j].device_id => i = j

Good(c) == /\ c \in [Entries -> Entry] /\ Single(c)
           /\ \A i \in Entries : Proper(c[i])

\* A bound entry holds what its device reported last.
Latest(c, h) ==
  \A i \in Entries : Bound(c[i]) => c[i].address \in {NoAddress, h[c[i].device_id]}

CacheIInv == /\ Good(Address_Cache) /\ Latest(Address_Cache, heard)
             /\ Top_Protected_Entry \in Entries
             /\ Own_Device_ID \in Devices \cup {NoDevice}
             /\ heard \in [Devices -> Addresses \cup {NoAddress}]

LEMMA GoodEntry ==
  ASSUME NEW c, Good(c), NEW i \in Entries
  PROVE  /\ c[i] \in Entry /\ Proper(c[i])
         /\ Bound(c[i]) <=> c[i].Flags \in {{IN_USE}, {IN_USE, STATIC}}
         /\ Used(c[i]) <=> c[i].Flags # {}
         /\ STATIC \in c[i].Flags => Bound(c[i]) /\ Used(c[i])
         /\ ~ Bound(c[i]) /\ Used(c[i]) => c[i].Flags = {IN_USE, BIND_REQ}
<1>1. c[i] \in Entry /\ Proper(c[i])
  BY DEF Good
<1>2. c[i].Flags \in {{}, {IN_USE}, {IN_USE, BIND_REQ}, {IN_USE, STATIC}}
  BY <1>1 DEF Proper
<1> QED
  BY <1>1, <1>2 DEF Bound, Used, IN_USE, BIND_REQ, STATIC

\* With one entry per device a look-up is exact.
LEMMA LookUp ==
  ASSUME NEW c, Good(c), NEW i \in Entries, Bound(c[i])
  PROVE  address_get_by_device(c, c[i].device_id) = c[i].address
<1>1. Used(c[i])
  BY GoodEntry DEF Bound, Used
<1>2. EntryOf(c, c[i].device_id) = i /\ i # None
  BY <1>1, EntryFound, CacheSize DEF Good, Single, Used
<1> QED
  BY <1>2 DEF address_get_by_device

\* One entry is rewritten, for a device that has no other.
LEMMA Rewritten ==
  ASSUME NEW c, Good(c), NEW k \in Entries, NEW e \in Entry, Proper(e),
         NEW h, NEW hh, Latest(c, h),
         Used(e) => \A j \in Entries \ {k} : Used(c[j]) => c[j].device_id # e.device_id,
         \A j \in Entries \ {k} : Bound(c[j]) => hh[c[j].device_id] = h[c[j].device_id],
         Bound(e) => e.address \in {NoAddress, hh[e.device_id]}
  PROVE  LET new == [c EXCEPT ![k] = e]
         IN  Good(new) /\ Latest(new, hh)
<1> DEFINE new == [c EXCEPT ![k] = e]
<1>1. /\ new \in [Entries -> Entry] /\ new[k] = e
      /\ \A j \in Entries \ {k} : new[j] = c[j]
  BY DEF Good
<1> HIDE DEF new
<1>2. Single(new)
  BY <1>1 DEF Good, Single
<1>3. \A j \in Entries : Proper(new[j])
  BY <1>1 DEF Good
<1>4. Latest(new, hh)
  BY <1>1 DEF Latest
<1> QED
  BY <1>1, <1>2, <1>3, <1>4 DEF Good, new

----------------------------------------------------------------------------
(* The entry that an operation may take.                                   *)

\* An operation may give entry k of the cache to another device: it is not
\* static, and not a bound entry of the protected part.
Takeable(c, top, k) ==
  /\ k \in Entries /\ k # None
  /\ STATIC \notin c[k].Flags
  /\ Bound(c[k]) => k >= top

\* The shortest-lived of some entries, the last one of several.
LEMMA OldestOf ==
  ASSUME NEW c \in [Entries -> Entry], NEW S \in SUBSET Entries, S # {}
  PROVE  Max({i \in S : \A j \in S : c[i].TimeToLive <= c[j].TimeToLive}) \in S
<1> DEFINE times == {c[i].TimeToLive : i \in S}
           least == {i \in S : \A j \in S : c[i].TimeToLive <= c[j].TimeToLive}
<1>1. times \in SUBSET Nat /\ times # {}
  <2>1. \A i \in S : c[i].TimeToLive \in Nat
    BY AddressConstants DEF Entry
  <2> QED
    BY <2>1
<1>2. Min(times) \in times /\ \A y \in times : Min(times) <= y
  <2> HIDE DEF times
  <2> QED
    BY <1>1, MinNat
<1>3. PICK i \in S : Min(times) = c[i].TimeToLive
  BY <1>2
<1>4. \A j \in S : c[i].TimeToLive <= c[j].TimeToLive
  BY <1>2, <1>3
<1>5. i \in least
  BY <1>4
<1>6. least \in SUBSET (0 .. (MAX_ADDRESS_CACHE - 1)) /\ least # {}
  BY <1>5, CacheSize
<1>7. Max(least) \in least
  <2> HIDE DEF least
  <2> QED
    BY <1>6, MaxNat, CacheSize
<1> QED
  BY <1>7

\* A full cache gives up a dynamic entry, a bound one only outside the
\* protected part.
LEMMA OldestTakeable ==
  ASSUME NEW c \in [Entries -> Entry], NEW top \in Nat
  PROVE  LET k == address_remove_oldest(c, top)
         IN  k # None => Takeable(c, top, k)
<1> DEFINE Live(from, flags) ==
             {i \in from .. MAX_ADDRESS_CACHE - 1 :
                /\ c[i].Flags \cap {IN_USE, BIND_REQ, STATIC} = flags
                /\ c[i].TimeToLive < FOREVER}
           bound   == Live(top, {IN_USE})
           pending == Live(0, {IN_USE, BIND_REQ})
           k == address_remove_oldest(c, top)
           Least(S) == Max({i \in S : \A j \in S : c[i].TimeToLive <= c[j].TimeToLive})
<1>1. bound \in SUBSET Entries /\ pending \in SUBSET Entries
  BY CacheSize
<1>2. bound # {} => Least(bound) \in bound
  <2> HIDE DEF bound
  <2> QED
    BY <1>1, OldestOf
<1>3. pending # {} => Least(pending) \in pending
  <2> HIDE DEF pending
  <2> QED
    BY <1>1, OldestOf
<1>4. \/ k = None
      \/ bound # {} /\ k = Least(bound)
      \/ pending # {} /\ k = Least(pending)
  BY DEF address_remove_oldest
<1>5. ASSUME k \in bound PROVE Takeable(c, top, k)
  <2>1. k \in top .. MAX_ADDRESS_CACHE - 1 /\ k \in Entries
    BY <1>1, <1>5
  <2>2. STATIC \notin c[k].Flags
    BY <1>5 DEF STATIC, IN_USE
  <2> HIDE DEF k
  <2> QED
    BY <2>1, <2>2, CacheSize DEF Takeable
<1>6. ASSUME k \in pending PROVE Takeable(c, top, k)
  <2>1. k \in Entries
    BY <1>1, <1>6
  <2>2. STATIC \notin c[k].Flags /\ BIND_REQ \in c[k].Flags
    BY <1>6 DEF STATIC, IN_USE, BIND_REQ
  <2>3. ~ Bound(c[k])
    BY <2>2 DEF Bound, IN_USE, BIND_REQ
  <2> HIDE DEF k
  <2> QED
    BY <2>1, <2>2, <2>3, CacheSize DEF Takeable
<1> HIDE DEF k, bound, pending, Least
<1> QED
  BY <1>2, <1>3, <1>4, <1>5, <1>6 DEF k

\* A free entry can be taken as well.
LEMMA FreeTakeable ==
  ASSUME NEW c, Good(c), NEW top, NEW k \in Entries, ~ Used(c[k])
  PROVE  Takeable(c, top, k) /\ c[k].Flags = {}
  BY GoodEntry, CacheSize DEF Takeable, Used

\* What an operation leaves alone: static bindings stay, and a bound entry of
\* the protected part is not given to another device.
StaticKept(c, new) ==
  \A i \in Entries : STATIC \in c[i].Flags =>
    STATIC \in new[i].Flags /\ new[i].device_id = c[i].device_id

NotGivenAway(c, new, top) ==
  \A i \in Entries : i < top /\ Bound(c[i]) /\ Used(new[i])
    => new[i].device_id = c[i].device_id

LEMMA NothingDisturbed ==
  ASSUME NEW c, NEW top
  PROVE  StaticKept(c, c) /\ NotGivenAway(c, c, top)
  BY DEF StaticKept, NotGivenAway

LEMMA RewriteKeeps ==
  ASSUME NEW c, c \in [Entries -> Entry], NEW top \in Nat,
         NEW k \in Entries, NEW e \in Entry,
         \/ Takeable(c, top, k)
         \/ /\ e.device_id = c[k].device_id
            /\ STATIC \in c[k].Flags => STATIC \in e.Flags
  PROVE  LET new == [c EXCEPT ![k] = e]
         IN  StaticKept(c, new) /\ NotGivenAway(c, new, top)
<1> DEFINE new == [c EXCEPT ![k] = e]
<1>1. new[k] = e /\ \A j \in Entries \ {k} : new[j] = c[j]
  OBVIOUS
<1>2. k \in Nat
  BY CacheSize
<1> HIDE DEF new
<1>3. StaticKept(c, new)
  BY <1>1 DEF StaticKept, Takeable
<1>4. NotGivenAway(c, new, top)
  <2> SUFFICES ASSUME NEW i \in Entries, i < top, Bound(c[i]), Used(new[i])
               PROVE  new[i].device_id = c[i].device_id
    BY DEF NotGivenAway
  <2>1. CASE i = k
    BY <1>1, <1>2, <2>1 DEF Takeable
  <2>2. CASE i # k
    BY <1>1, <2>2
  <2> QED
    BY <2>1, <2>2
<1> QED
  BY <1>3, <1>4 DEF new

\* A device that is not in the cache may be heard of at any time.
LEMMA LatestElsewhere ==
  ASSUME NEW c, Good(c), NEW h \in [Devices -> Addresses \cup {NoAddress}], Latest(c, h),
         NEW d \in Devices, NEW a,
         \A j \in Entries : Used(c[j]) => c[j].device_id # d
  PROVE  Latest(c, [h EXCEPT ![d] = a])
<1>1. ASSUME NEW j \in Entries, Bound(c[j])
      PROVE  [h EXCEPT ![d] = a][c[j].device_id] = h[c[j].device_id]
  <2>1. Used(c[j]) /\ c[j].device_id \in Devices
    BY <1>1, GoodEntry DEF Proper
  <2> QED
    BY <2>1
<1> QED
  BY <1>1 DEF Latest

----------------------------------------------------------------------------
(* The operations keep the cache good.                                     *)

LEMMA Times == {0, SHORT_TIME, LONG_TIME, FOREVER} \subseteq 0 .. FOREVER /\ FOREVER \in Nat
  BY AddressConstants

LEMMA FlagSets ==
  /\ {} \in SUBSET AllFlags /\ {IN_USE} \in SUBSET AllFlags
  /\ {IN_USE, BIND_REQ} \in SUBSET AllFlags /\ {IN_USE, STATIC} \in SUBSET AllFlags
  BY DEF AllFlags

LEMMA Renewed ==
  ASSUME NEW e \in Entry, Proper(e), Used(e), NEW a \in Addresses
  PROVE  LET r == RenewedEntry(e, a)
         IN  /\ r \in Entry /\ Proper(r) /\ Used(r)
             /\ r.device_id = e.device_id /\ r.address = a
             /\ r.Flags = e.Flags \ {BIND_REQ}
<1> DEFINE r == RenewedEntry(e, a)
<1>1. e.Flags \in {{IN_USE}, {IN_USE, BIND_REQ}, {IN_USE, STATIC}}
  BY DEF Proper, Used
<1>2. \/ r = [e EXCEPT !.address = a, !.TimeToLive = LONG_TIME, !.Flags = @ \ {BIND_REQ}]
      \/ r = [e EXCEPT !.address = a, !.TimeToLive = SHORT_TIME, !.Flags = @ \ {BIND_REQ}]
      \/ r = [e EXCEPT !.address = a, !.TimeToLive = FOREVER, !.Flags = @ \ {BIND_REQ}]
  BY DEF RenewedEntry
<1>3. r \in Entry /\ r.device_id = e.device_id /\ r.address = a
      /\ r.Flags = e.Flags \ {BIND_REQ}
  BY <1>2, Times DEF Entry
<1>4. r.Flags \in {{IN_USE}, {IN_USE, STATIC}}
  BY <1>1, <1>3 DEF IN_USE, BIND_REQ, STATIC
<1>5. STATIC \in r.Flags => r.TimeToLive = FOREVER
  <2>1. ASSUME STATIC \in r.Flags PROVE STATIC \in e.Flags /\ BIND_REQ \notin e.Flags
    BY <1>1, <1>3, <2>1 DEF IN_USE, BIND_REQ, STATIC
  <2>2. ASSUME STATIC \in e.Flags, BIND_REQ \notin e.Flags PROVE r.TimeToLive = FOREVER
    BY <2>2 DEF RenewedEntry, Entry
  <2> QED
    BY <2>1, <2>2
<1>6. e.device_id \in Devices
  BY DEF Proper
<1> HIDE DEF r
<1> QED
  BY <1>3, <1>4, <1>5, <1>6 DEF Proper, Used, r

LEMMA NewGood ==
  ASSUME NEW d \in Devices, NEW a \in Addresses
  PROVE  LET r == NewEntry(d, a)
         IN  /\ r \in Entry /\ Proper(r) /\ Used(r)
             /\ r.device_id = d /\ r.address = a
<1> DEFINE r == NewEntry(d, a)
<1>1. r \in Entry /\ r.Flags = {IN_USE} /\ r.device_id = d /\ r.address = a
  BY Times, FlagSets DEF NewEntry, Entry
<1> HIDE DEF r
<1> QED
  BY <1>1 DEF Proper, Used, r, IN_USE, STATIC

LEMMA PendingGood ==
  ASSUME NEW e \in Entry, NEW d \in Devices
  PROVE  LET r == PendingEntry(e, d)
         IN  /\ r \in Entry /\ Proper(r) /\ Used(r) /\ ~ Bound(r)
             /\ r.device_id = d
<1> DEFINE r == PendingEntry(e, d)
<1>1. r \in Entry /\ r.Flags = {IN_USE, BIND_REQ} /\ r.device_id = d
  BY Times, FlagSets DEF PendingEntry, Entry
<1> HIDE DEF r
<1> QED
  BY <1>1 DEF Proper, Used, Bound, r, IN_USE, STATIC, BIND_REQ

\* The step of an operation on the cache, with what its devices reported.
OpKeeps(c, new, top, h) ==
  Good(new) /\ Latest(new, h) /\ StaticKept(c, new) /\ NotGivenAway(c, new, top)

\* What address_add() does, in one line: nothing, for the own device or for
\* lack of room; or one entry of the cache is the device's afterwards.
LEMMA AddCases ==
  ASSUME NEW c, Good(c), NEW top \in Nat, NEW own, NEW d \in Devices, NEW a \in Addresses
  PROVE  LET new == address_add(c, top, own, d, a)
             i   == EntryOf(c, d)
         IN  \/ d = own /\ new = c
             \/ i # None /\ new = [c EXCEPT ![i] = RenewedEntry(c[i], a)]
             \/ /\ i = None
                /\ \E k \in Entries : /\ Takeable(c, top, k)
                                      /\ new = [c EXCEPT ![k] = NewEntry(d, a)]
             \/ i = None /\ new = c
<1> DEFINE new == address_add(c, top, own, d, a)
           i == EntryOf(c, d)
           S == {j \in Entries : IN_USE \notin c[j].Flags}
           free == FirstOf(S)
           oldest == address_remove_oldest(c, top)
           k == IF free # None THEN free ELSE oldest
<1>1. \/ d = own /\ new = c
      \/ d # own /\ i # None /\ new = [c EXCEPT ![i] = RenewedEntry(c[i], a)]
      \/ d # own /\ i = None /\ k # None /\ new = [c EXCEPT ![k] = NewEntry(d, a)]
      \/ d # own /\ i = None /\ k = None /\ new = c
  <2>1. CASE d = own
    BY <2>1 DEF address_add
  <2>2. CASE d # own /\ i # None
    <3>1. i \in Entries
      BY <2>2, EntryFound
    <3>2. new = [c EXCEPT ![i] = RenewedEntry(@, a)]
      BY <2>2 DEF address_add
    <3> QED
      BY <2>2, <3>1, <3>2
  <2>3. CASE d # own /\ i = None
    BY <2>3 DEF address_add
  <2> QED
    BY <2>1, <2>2, <2>3
<1>2. S \in SUBSET Entries
  OBVIOUS
<1>3. free # None => free \in S
  <2> HIDE DEF S
  <2> QED
    BY <1>2, FirstOfSet
<1>4. free # None => Takeable(c, top, free)
  <2> HIDE DEF free
  <2> QED
    BY <1>3, FreeTakeable DEF Used
<1>5. oldest # None => Takeable(c, top, oldest)
  BY OldestTakeable DEF Good
<1>6. k # None => Takeable(c, top, k)
  <2> HIDE DEF free, oldest
  <2> QED
    BY <1>4, <1>5
<1> HIDE DEF new, i, k
<1>7. k # None => k \in Entries
  BY <1>6 DEF Takeable
<1> QED
  BY <1>1, <1>6, <1>7 DEF new, i

LEMMA AddressAdded ==
  ASSUME NEW c, Good(c), NEW top \in Nat, NEW own, NEW d \in Devices, NEW a \in Addresses,
         NEW h \in [Devices -> Addresses \cup {NoAddress}], Latest(c, h)
  PROVE  OpKeeps(c, address_add(c, top, own, d, a), top,
                 IF d = own THEN h ELSE [h EXCEPT ![d] = a])
<1> DEFINE new == address_add(c, top, own, d, a)
           i == EntryOf(c, d)
           hh == [h EXCEPT ![d] = a]
<1>1. hh[d] = a /\ \A x \in Devices \ {d} : hh[x] = h[x]
  OBVIOUS
<1>2. CASE d = own
  BY <1>2, NothingDisturbed DEF OpKeeps, address_add
<1>3. CASE d # own /\ i # None
  <2>1. i \in Entries /\ Used(c[i]) /\ c[i].device_id = d
    BY <1>3, EntryFound DEF Used
  <2>2. PICK e : e = RenewedEntry(c[i], a)
    OBVIOUS
  <2>3. new = [c EXCEPT ![i] = e]
    BY <1>3, <2>2, AddCases
  <2>4. c[i] \in Entry /\ Proper(c[i])
    BY <2>1, GoodEntry
  <2>5. /\ e \in Entry /\ Proper(e) /\ Used(e) /\ e.device_id = d /\ e.address = a
        /\ e.Flags = c[i].Flags \ {BIND_REQ}
    BY <2>1, <2>2, <2>4, Renewed
  <2> HIDE DEF new, i, hh
  <2>6. \A j \in Entries \ {i} : Used(c[j]) => c[j].device_id # d
    BY <2>1 DEF Good, Single
  <2>7. \A j \in Entries \ {i} : Bound(c[j]) => hh[c[j].device_id] = h[c[j].device_id]
    <3> TAKE j \in Entries \ {i}
    <3> HAVE Bound(c[j])
    <3>1. Used(c[j]) /\ c[j].device_id \in Devices
      BY GoodEntry DEF Proper
    <3> QED
      BY <1>1, <2>6, <3>1
  <2>8. Good(new) /\ Latest(new, hh)
    BY <1>1, <2>1, <2>3, <2>5, <2>6, <2>7, Rewritten
  <2>9. c \in [Entries -> Entry] /\ (STATIC \in c[i].Flags => STATIC \in e.Flags)
    BY <2>5 DEF Good, STATIC, BIND_REQ
  <2>10. StaticKept(c, new) /\ NotGivenAway(c, new, top)
    BY <2>1, <2>3, <2>5, <2>9, RewriteKeeps
  <2> QED
    BY <1>3, <2>8, <2>10 DEF OpKeeps, new, hh
<1>4. CASE d # own /\ i = None
  <2>1. \A j \in Entries : Used(c[j]) => c[j].device_id # d
    BY <1>4, EntryFound DEF Used
  <2>2. Latest(c, hh)
    BY <2>1, LatestElsewhere
  <2>3. ASSUME new = c PROVE OpKeeps(c, new, top, hh)
    BY <1>4, <2>2, <2>3, NothingDisturbed DEF OpKeeps
  <2>4. ASSUME NEW k \in Entries, Takeable(c, top, k),
               new = [c EXCEPT ![k] = NewEntry(d, a)]
        PROVE  OpKeeps(c, new, top, hh)
    <3>1. PICK e : e = NewEntry(d, a)
      OBVIOUS
    <3>2. /\ e \in Entry /\ Proper(e) /\ Used(e) /\ e.device_id = d /\ e.address = a
      BY <3>1, NewGood
    <3>3. new = [c EXCEPT ![k] = e]
      BY <2>4, <3>1
    <3> HIDE DEF new, hh, i
    <3>4. Good(new) /\ Latest(new, hh)
      BY <1>1, <2>1, <2>2, <3>2, <3>3, Rewritten
    <3>5. c \in [Entries -> Entry] /\ Takeable(c, top, k)
      BY <2>4 DEF Good
    <3>6. StaticKept(c, [c EXCEPT ![k] = e]) /\ NotGivenAway(c, [c EXCEPT ![k] = e], top)
      BY <3>2, <3>5, RewriteKeeps
    <3> QED
      BY <3>3, <3>4, <3>6 DEF OpKeeps
  <2>5. new = c \/ \E k \in Entries : /\ Takeable(c, top, k)
                                      /\ new = [c EXCEPT ![k] = NewEntry(d, a)]
    BY <1>4, AddCases
  <2> HIDE DEF new, hh, i
  <2>6. OpKeeps(c, new, top, hh)
    BY <1>4, <2>3, <2>4, <2>5
  <2> QED
    BY <1>4, <2>6 DEF new, hh
<1> QED
  BY <1>2, <1>3, <1>4

LEMMA BindingAdded ==
  ASSUME NEW c, Good(c), NEW top \in Nat, NEW d \in Devices, NEW a \in Addresses,
         NEW h \in [Devices -> Addresses \cup {NoAddress}], Latest(c, h)
  PROVE  OpKeeps(c, address_add_binding(c, d, a), top, [h EXCEPT ![d] = a])
<1> DEFINE new == address_add_binding(c, d, a)
           i == EntryOf(c, d)
           hh == [h EXCEPT ![d] = a]
<1>1. hh[d] = a /\ \A x \in Devices \ {d} : hh[x] = h[x]
  OBVIOUS
<1>2. CASE i = None
  <2>1. \A j \in Entries : Used(c[j]) => c[j].device_id # d
    BY <1>2, EntryFound DEF Used
  <2>2. new = c
    BY <1>2 DEF address_add_binding
  <2>3. Latest(c, hh)
    BY <2>1, LatestElsewhere
  <2> QED
    BY <2>2, <2>3, NothingDisturbed DEF OpKeeps
<1>3. CASE i # None
  <2>1. i \in Entries /\ Used(c[i]) /\ c[i].device_id = d
    BY <1>3, EntryFound DEF Used
  <2>2. PICK e : e = AnsweredEntry(c[i], a)
    OBVIOUS
  <2>3. new = [c EXCEPT ![i] = e]
    BY <1>3, <2>1, <2>2 DEF address_add_binding
  <2>4. c[i] \in Entry /\ Proper(c[i])
    BY <2>1, GoodEntry
  <2>5. /\ e \in Entry /\ e.device_id = d /\ e.address = a
        /\ e.Flags = c[i].Flags \ {BIND_REQ}
        /\ STATIC \in c[i].Flags => e.TimeToLive = c[i].TimeToLive
    BY <2>1, <2>2, <2>4, Times DEF AnsweredEntry, Entry
  <2>6. Used(e)
    BY <2>1, <2>5 DEF Used, IN_USE, BIND_REQ
  <2>7. e.Flags \in {{IN_USE}, {IN_USE, STATIC}}
    <3>1. c[i].Flags \in {{IN_USE}, {IN_USE, BIND_REQ}, {IN_USE, STATIC}}
      BY <2>1, <2>4 DEF Proper, Used
    <3> QED
      BY <2>5, <3>1 DEF IN_USE, BIND_REQ, STATIC
  <2>8. Proper(e)
    BY <2>4, <2>5, <2>7 DEF Proper
  <2> HIDE DEF new, i, hh
  <2>9. \A j \in Entries \ {i} : Used(c[j]) => c[j].device_id # d
    BY <2>1 DEF Good, Single
  <2>10. \A j \in Entries \ {i} : Bound(c[j]) => hh[c[j].device_id] = h[c[j].device_id]
    <3> TAKE j \in Entries \ {i}
    <3> HAVE Bound(c[j])
    <3>1. Used(c[j]) /\ c[j].device_id \in Devices
      BY GoodEntry DEF Proper
    <3>2. c[j].device_id # d
      BY <2>9, <3>1
    <3> QED
      BY <1>1, <3>1, <3>2
  <2>11. Good(new) /\ Latest(new, hh)
    <3>1. Used(e) => \A j \in Entries \ {i} : Used(c[j]) => c[j].device_id # e.device_id
      BY <2>5, <2>9
    <3>2. Bound(e) => e.address \in {NoAddress, hh[e.device_id]}
      BY <1>1, <2>5
    <3>3. i \in Entries /\ e \in Entry
      BY <2>1, <2>5
    <3>4. Good([c EXCEPT ![i] = e]) /\ Latest([c EXCEPT ![i] = e], hh)
      BY <2>8, <2>10, <3>1, <3>2, <3>3, Rewritten, Zenon
    <3> QED
      BY <2>3, <3>4
  <2>12. c \in [Entries -> Entry] /\ (STATIC \in c[i].Flags => STATIC \in e.Flags)
    BY <2>5 DEF Good, STATIC, BIND_REQ
  <2>13. StaticKept(c, new) /\ NotGivenAway(c, new, top)
    BY <2>1, <2>3, <2>5, <2>12, RewriteKeeps
  <2> QED
    BY <2>11, <2>13 DEF OpKeeps, new, hh
<1> QED
  BY <1>2, <1>3

LEMMA BindRequested ==
  ASSUME NEW c, Good(c), NEW top \in Nat, NEW d \in Devices, NEW h, Latest(c, h)
  PROVE  OpKeeps(c, address_device_bind_request(c, top, d), top, h)
<1> DEFINE new == address_device_bind_request(c, top, d)
           i == EntryOf(c, d)
           S == {j \in Entries : c[j].Flags \cap {IN_USE, RESERVED} = {}}
           free == FirstOf(S)
           oldest == address_remove_oldest(c, top)
           k == IF free # None THEN free ELSE oldest
<1>1. CASE i # None
  <2>1. i \in Entries
    BY <1>1, EntryFound
  <2>2. SHORT_TTL \notin c[i].Flags
    <3>1. c[i].Flags \in {{}, {IN_USE}, {IN_USE, BIND_REQ}, {IN_USE, STATIC}}
      BY <2>1, GoodEntry DEF Proper
    <3> QED
      BY <3>1 DEF IN_USE, BIND_REQ, STATIC, SHORT_TTL
  <2>3. new = c
    BY <1>1, <2>2 DEF address_device_bind_request
  <2> QED
    BY <2>3, NothingDisturbed DEF OpKeeps
<1>2. CASE i = None
  <2>1. \A j \in Entries : Used(c[j]) => c[j].device_id # d
    BY <1>2, EntryFound DEF Used
  <2>2. S \in SUBSET Entries
    OBVIOUS
  <2>3. free # None => free \in S
    <3> HIDE DEF S
    <3> QED
      BY <2>2, FirstOfSet
  <2>4. free # None => Takeable(c, top, free)
    <3> HIDE DEF free
    <3> QED
      BY <2>3, FreeTakeable DEF Used
  <2>5. oldest # None => Takeable(c, top, oldest)
    BY OldestTakeable DEF Good
  <2>6. k # None => Takeable(c, top, k)
    <3> HIDE DEF free, oldest
    <3> QED
      BY <2>4, <2>5
  <2>7. new = IF k # None THEN [c EXCEPT ![k] = PendingEntry(@, d)] ELSE c
    BY <1>2 DEF address_device_bind_request
  <2>8. CASE k = None
    BY <2>7, <2>8, NothingDisturbed DEF OpKeeps
  <2>9. CASE k # None
    <3> HIDE DEF k
    <3>1. k \in Entries /\ Takeable(c, top, k)
      BY <2>6, <2>9 DEF Takeable
    <3>2. PICK e : e = PendingEntry(c[k], d)
      OBVIOUS
    <3>3. new = [c EXCEPT ![k] = e]
      BY <2>7, <2>9, <3>1, <3>2
    <3>4. e \in Entry /\ Proper(e) /\ Used(e) /\ ~ Bound(e) /\ e.device_id = d
      BY <3>1, <3>2, PendingGood, GoodEntry
    <3> HIDE DEF new
    <3>5. Good(new) /\ Latest(new, h)
      BY <2>1, <3>1, <3>3, <3>4, Rewritten
    <3>6. StaticKept(c, new) /\ NotGivenAway(c, new, top)
      BY <3>1, <3>3, <3>4, RewriteKeeps DEF Good
    <3> QED
      BY <3>5, <3>6 DEF OpKeeps, new
  <2> QED
    BY <2>8, <2>9
<1> QED
  BY <1>1, <1>2

\* Setting a time to live touches one device; only making it dynamic ends a
\* static binding.
TimeKeeps(c, new, top, d, static, h) ==
  /\ Good(new) /\ Latest(new, h) /\ NotGivenAway(c, new, top)
  /\ static = TRUE => StaticKept(c, new)
  /\ \A j \in Entries : STATIC \in c[j].Flags /\ c[j].device_id # d => new[j] = c[j]

LEMMA TimeSet ==
  ASSUME NEW c, Good(c), NEW top \in Nat, NEW d, NEW t \in 0 .. FOREVER,
         NEW static, static = TRUE \/ static = FALSE, NEW h, Latest(c, h)
  PROVE  TimeKeeps(c, address_set_device_TTL(c, d, t, static), top, d, static, h)
<1> DEFINE new == address_set_device_TTL(c, d, t, static)
           i == EntryOf(c, d)
<1>1. CASE i = None
  <2>1. new = c
    BY <1>1 DEF address_set_device_TTL
  <2> QED
    BY <2>1, NothingDisturbed DEF TimeKeeps
<1>2. CASE i # None
  <2>1. i \in Entries /\ Used(c[i]) /\ c[i].device_id = d
    BY <1>2, EntryFound DEF Used
  <2>2. PICK e : e = TimedEntry(c[i], t, static)
    OBVIOUS
  <2>3. new = [c EXCEPT ![i] = e]
    BY <1>2, <2>1, <2>2 DEF address_set_device_TTL
  <2>4. c[i] \in Entry /\ Proper(c[i]) /\ c[i].Flags \in SUBSET AllFlags
    BY <2>1, GoodEntry DEF Entry
  <2>5. /\ e \in Entry /\ e.device_id = d /\ e.address = c[i].address
        /\ ~ Bound(c[i]) => e.Flags = c[i].Flags
        /\ Bound(c[i]) /\ static = TRUE =>
             e.Flags = c[i].Flags \cup {STATIC} /\ e.TimeToLive = FOREVER
        /\ Bound(c[i]) /\ static = FALSE => e.Flags = c[i].Flags \ {STATIC}
    <3>1. STATIC \in AllFlags
      BY DEF AllFlags
    <3>2. CASE ~ Bound(c[i])
      BY <2>1, <2>2, <2>4, <3>2 DEF TimedEntry, Entry
    <3>3. CASE Bound(c[i]) /\ static = TRUE
      <4>1. e = [c[i] EXCEPT !.Flags = @ \cup {STATIC}, !.TimeToLive = FOREVER]
        BY <2>2, <3>3 DEF TimedEntry
      <4> QED
        BY <2>1, <2>4, <3>1, <3>3, <4>1, Times DEF Entry
    <3>4. CASE Bound(c[i]) /\ static = FALSE
      <4>1. e = [c[i] EXCEPT !.Flags = @ \ {STATIC}, !.TimeToLive = t]
        BY <2>2, <3>4 DEF TimedEntry
      <4> QED
        BY <2>1, <2>4, <3>4, <4>1 DEF Entry
    <3> QED
      BY <3>2, <3>3, <3>4
  <2>6. Proper(e) /\ (Bound(e) => Bound(c[i]))
    <3>1. CASE ~ Bound(c[i])
      <4>1. e.Flags = {IN_USE, BIND_REQ}
        BY <2>1, <2>5, <3>1, GoodEntry
      <4> QED
        BY <2>1, <2>4, <2>5, <4>1 DEF Proper, Bound, IN_USE, BIND_REQ, STATIC
    <3>2. CASE Bound(c[i])
      <4>1. c[i].Flags \in {{IN_USE}, {IN_USE, STATIC}}
        BY <2>1, <3>2, GoodEntry
      <4>2. e.Flags \in {{IN_USE}, {IN_USE, STATIC}} /\ (STATIC \in e.Flags => static = TRUE)
        BY <2>5, <3>2, <4>1 DEF IN_USE, STATIC
      <4> QED
        BY <2>1, <2>4, <2>5, <3>2, <4>2 DEF Proper
    <3> QED
      BY <3>1, <3>2
  <2>7. static = TRUE /\ STATIC \in c[i].Flags => STATIC \in e.Flags
    BY <2>1, <2>5, GoodEntry
  <2> HIDE DEF new, i
  <2>8. \A j \in Entries \ {i} : Used(c[j]) => c[j].device_id # d
    BY <2>1 DEF Good, Single
  <2>9. Bound(e) => e.address \in {NoAddress, h[e.device_id]}
    BY <2>1, <2>5, <2>6 DEF Latest
  <2>10. Good(new) /\ Latest(new, h)
    BY <2>1, <2>3, <2>5, <2>6, <2>8, <2>9, Rewritten
  <2>11. /\ c \in [Entries -> Entry]
         /\ new[i] = e /\ \A j \in Entries \ {i} : new[j] = c[j]
    BY <2>1, <2>3 DEF Good
  <2>12. NotGivenAway(c, new, top)
    BY <2>1, <2>5, <2>11 DEF NotGivenAway
  <2>13. static = TRUE => StaticKept(c, new)
    BY <2>1, <2>5, <2>7, <2>11 DEF StaticKept
  <2>14. \A j \in Entries : STATIC \in c[j].Flags /\ c[j].device_id # d => new[j] = c[j]
    BY <2>1, <2>11
  <2> QED
    BY <2>10, <2>12, <2>13, <2>14 DEF new, TimeKeeps
<1> QED
  BY <1>1, <1>2

\* Every entry stays as it is, loses some of its life, or is cleared.
Thinned(c, new) ==
  /\ new \in [Entries -> Entry]
  /\ \A i \in Entries :
       \/ new[i].Flags = {}
       \/ /\ new[i].Flags = c[i].Flags /\ new[i].device_id = c[i].device_id
          /\ new[i].address = c[i].address
          /\ STATIC \in c[i].Flags => new[i].TimeToLive = c[i].TimeToLive

LEMMA ThinnedGood ==
  ASSUME NEW c, Good(c), NEW new, Thinned(c, new), NEW h, Latest(c, h), NEW top
  PROVE  Good(new) /\ Latest(new, h) /\ NotGivenAway(c, new, top)
<1>1. ASSUME NEW i \in Entries
      PROVE  /\ Proper(new[i])
             /\ Used(new[i]) => Used(c[i]) /\ new[i].device_id = c[i].device_id
             /\ Bound(new[i]) => Bound(c[i]) /\ new[i].address = c[i].address
                                 /\ new[i].device_id = c[i].device_id
  <2>1. Proper(c[i])
    BY GoodEntry
  <2>2. CASE new[i].Flags = {}
    BY <2>2 DEF Proper, Used, Bound
  <2>3. CASE /\ new[i].Flags = c[i].Flags /\ new[i].device_id = c[i].device_id
             /\ new[i].address = c[i].address
             /\ STATIC \in c[i].Flags => new[i].TimeToLive = c[i].TimeToLive
    BY <2>1, <2>3 DEF Proper, Used, Bound
  <2> QED
    BY <2>2, <2>3 DEF Thinned
<1>2. Single(new)
  BY <1>1 DEF Good, Single
<1>3. Latest(new, h)
  BY <1>1 DEF Latest
<1>4. NotGivenAway(c, new, top)
  BY <1>1 DEF NotGivenAway
<1> QED
  BY <1>1, <1>2, <1>3, <1>4 DEF Good, Thinned

LEMMA ClearedEntry ==
  ASSUME NEW e \in Entry
  PROVE  Cleared(e) \in Entry /\ Cleared(e).Flags = {}
  BY FlagSets DEF Cleared, Entry

\* Ageing and a partial initialisation spare the static entries.
LEMMA AgedThinned ==
  ASSUME NEW c, Good(c), NEW s \in Nat
  PROVE  LET new == [i \in Entries |-> Aged(c[i], s)]
         IN  Thinned(c, new) /\ StaticKept(c, new)
<1> DEFINE new == [i \in Entries |-> Aged(c[i], s)]
<1>1. ASSUME NEW i \in Entries
      PROVE  /\ new[i] \in Entry
             /\ STATIC \in c[i].Flags => new[i] = c[i]
             /\ \/ new[i].Flags = {}
                \/ /\ new[i].Flags = c[i].Flags /\ new[i].device_id = c[i].device_id
                   /\ new[i].address = c[i].address
                   /\ STATIC \in c[i].Flags => new[i].TimeToLive = c[i].TimeToLive
  <2>1. c[i] \in Entry
    BY GoodEntry
  <2>2. new[i] = Aged(c[i], s)
    OBVIOUS
  <2> HIDE DEF new
  <2>3. CASE new[i] = c[i]
    BY <2>1, <2>3
  <2>4. CASE STATIC \notin c[i].Flags /\ c[i].TimeToLive >= s
             /\ new[i] = [c[i] EXCEPT !.TimeToLive = @ - s]
    <3>1. c[i].TimeToLive \in 0 .. FOREVER
      BY <2>1 DEF Entry
    <3>2. c[i].TimeToLive - s \in 0 .. FOREVER
      BY <2>4, <3>1, Times
    <3> QED
      BY <2>1, <2>4, <3>2 DEF Entry
  <2>5. CASE STATIC \notin c[i].Flags /\ new[i] = Cleared(c[i])
    BY <2>1, <2>5, ClearedEntry
  <2> QED
    BY <2>2, <2>3, <2>4, <2>5 DEF Aged
<1>2. new \in [Entries -> Entry]
  BY <1>1
<1> HIDE DEF new
<1>3. Thinned(c, new)
  BY <1>1, <1>2 DEF Thinned
<1>4. StaticKept(c, new)
  BY <1>1 DEF StaticKept
<1> QED
  BY <1>3, <1>4 DEF new

LEMMA KeptThinned ==
  ASSUME NEW c, Good(c)
  PROVE  LET new == [i \in Entries |-> Kept(c[i])]
         IN  Thinned(c, new) /\ StaticKept(c, new)
<1> DEFINE new == [i \in Entries |-> Kept(c[i])]
<1>1. ASSUME NEW i \in Entries
      PROVE  /\ new[i] \in Entry
             /\ STATIC \in c[i].Flags => new[i] = c[i]
             /\ new[i] = c[i] \/ new[i].Flags = {}
  <2>1. c[i] \in Entry /\ Proper(c[i])
    BY GoodEntry
  <2>2. new[i] = Kept(c[i])
    OBVIOUS
  <2> HIDE DEF new
  <2>3. new[i] = c[i] \/ new[i] = Cleared(c[i])
    BY <2>2 DEF Kept
  <2>4. ASSUME STATIC \in c[i].Flags PROVE new[i] = c[i]
    <3>1. c[i].Flags = {IN_USE, STATIC} /\ c[i].TimeToLive = FOREVER /\ FOREVER # 0
      BY <2>1, <2>4, AddressConstants DEF Proper, IN_USE, BIND_REQ, STATIC
    <3> QED
      BY <2>2, <3>1 DEF Kept, IN_USE, BIND_REQ, STATIC, RESERVED
  <2> QED
    BY <2>1, <2>3, <2>4, ClearedEntry
<1>2. new \in [Entries -> Entry]
  BY <1>1
<1> HIDE DEF new
<1>3. Thinned(c, new)
  BY <1>1, <1>2 DEF Thinned
<1>4. StaticKept(c, new)
  BY <1>1 DEF StaticKept
<1> QED
  BY <1>3, <1>4 DEF new

----------------------------------------------------------------------------
(* Reading the address_cache file, line by line.                           *)

FileLine(c, top, own, l) ==
  address_set_device_TTL(address_add(c, top, own, l[1], l[2]), l[1], 0, TRUE)

\* f is the cache after each line of the file.
Reads(f, c, top, own, n) ==
  f = [j \in 0 .. n |-> IF j = 0 THEN c ELSE FileLine(f[j - 1], top, own, CacheFile[j])]

\* There is such a function, so the recursive definition has a value.
LEMMA ReadsExist ==
  ASSUME NEW c, NEW top, NEW own, NEW n \in Nat
  PROVE  \E f : Reads(f, c, top, own, n)
<1> DEFINE G == {k \in 0 .. n : \E f : Reads(f, c, top, own, k)}
<1>1. 0 \in G
  <2>1. [j \in 0 .. 0 |-> c] =
          [j \in 0 .. 0 |-> IF j = 0 THEN c
                            ELSE FileLine([i \in 0 .. 0 |-> c][j - 1], top, own, CacheFile[j])]
    OBVIOUS
  <2>2. Reads([j \in 0 .. 0 |-> c], c, top, own, 0)
    BY <2>1 DEF Reads
  <2> QED
    BY <2>2
<1>2. ASSUME NEW k \in 1 .. n, k - 1 \in G PROVE k \in G
  <2>1. PICK f : Reads(f, c, top, own, k - 1)
    BY <1>2
  <2> DEFINE g == [j \in 0 .. k |-> IF j < k THEN f[j]
                                    ELSE FileLine(f[k - 1], top, own, CacheFile[k])]
             Step(h, j) == IF j = 0 THEN c ELSE FileLine(h[j - 1], top, own, CacheFile[j])
  <2>2. ASSUME NEW j \in 0 .. k PROVE g[j] = Step(g, j)
    <3>1. CASE j = k
      <4>1. g[j - 1] = f[k - 1]
        BY <3>1
      <4> QED
        BY <3>1, <4>1
    <3>2. CASE j # k /\ j # 0
      <4>1. j \in 0 .. k - 1 /\ g[j - 1] = f[j - 1] /\ g[j] = f[j]
        BY <3>2
      <4>2. f[j] = FileLine(f[j - 1], top, own, CacheFile[j])
        BY <2>1, <3>2, <4>1 DEF Reads
      <4> QED
        BY <3>2, <4>1, <4>2
    <3>3. CASE j = 0
      <4>1. 0 \in 0 .. k - 1 /\ g[0] = f[0]
        OBVIOUS
      <4> QED
        BY <2>1, <3>3, <4>1 DEF Reads
    <3> QED
      BY <3>1, <3>2, <3>3
  <2>3. g = [j \in 0 .. k |-> g[j]]
    OBVIOUS
  <2> HIDE DEF g
  <2>4. g = [j \in 0 .. k |-> Step(g, j)]
    BY <2>2, <2>3
  <2> QED
    BY <2>4 DEF Reads
<1>3. G = 0 .. n
  <2> HIDE DEF G
  <2>1. G \in SUBSET (0 .. n)
    BY DEF G
  <2> QED
    BY <1>1, <1>2, <2>1, IntervalInduction
<1> QED
  BY <1>3

\* The file is read as the function says.
LEMMA FileIsRead ==
  ASSUME NEW c, NEW top, NEW own
  PROVE  \E f : /\ Reads(f, c, top, own, Len(CacheFile))
                /\ address_file_init(c, top, own) = f[Len(CacheFile)]
<1> DEFINE f == CHOOSE f : Reads(f, c, top, own, Len(CacheFile))
<1>1. Len(CacheFile) \in Nat
  BY AddressConstants
<1>2. Reads(f, c, top, own, Len(CacheFile))
  BY <1>1, ReadsExist
<1>3. address_file_init(c, top, own) = f[Len(CacheFile)]
  BY DEF address_file_init, Reads, FileLine
<1> QED
  BY <1>2, <1>3

\* What the file reports of the devices, line by line, likewise.
HeardLine(h, own, l) == IF l[1] = own THEN h ELSE [h EXCEPT ![l[1]] = l[2]]

Hears(f, h, own, n) ==
  f = [j \in 0 .. n |-> IF j = 0 THEN h ELSE HeardLine(f[j - 1], own, CacheFile[j])]

LEMMA HearsExist ==
  ASSUME NEW h, NEW own, NEW n \in Nat
  PROVE  \E f : Hears(f, h, own, n)
<1> DEFINE G == {k \in 0 .. n : \E f : Hears(f, h, own, k)}
<1>1. 0 \in G
  <2>1. [j \in 0 .. 0 |-> h] =
          [j \in 0 .. 0 |-> IF j = 0 THEN h
                            ELSE HeardLine([i \in 0 .. 0 |-> h][j - 1], own, CacheFile[j])]
    OBVIOUS
  <2>2. Hears([j \in 0 .. 0 |-> h], h, own, 0)
    BY <2>1 DEF Hears
  <2> QED
    BY <2>2
<1>2. ASSUME NEW k \in 1 .. n, k - 1 \in G PROVE k \in G
  <2>1. PICK f : Hears(f, h, own, k - 1)
    BY <1>2
  <2> DEFINE g == [j \in 0 .. k |-> IF j < k THEN f[j]
                                    ELSE HeardLine(f[k - 1], own, CacheFile[k])]
             Step(x, j) == IF j = 0 THEN h ELSE HeardLine(x[j - 1], own, CacheFile[j])
  <2>2. ASSUME NEW j \in 0 .. k PROVE g[j] = Step(g, j)
    <3>1. CASE j = k
      <4>1. g[j - 1] = f[k - 1]
        BY <3>1
      <4> QED
        BY <3>1, <4>1
    <3>2. CASE j # k /\ j # 0
      <4>1. j \in 0 .. k - 1 /\ g[j - 1] = f[j - 1] /\ g[j] = f[j]
        BY <3>2
      <4>2. f[j] = HeardLine(f[j - 1], own, CacheFile[j])
        BY <2>1, <3>2, <4>1 DEF Hears
      <4> QED
        BY <3>2, <4>1, <4>2
    <3>3. CASE j = 0
      <4>1. 0 \in 0 .. k - 1 /\ g[0] = f[0]
        OBVIOUS
      <4> QED
        BY <2>1, <3>3, <4>1 DEF Hears
    <3> QED
      BY <3>1, <3>2, <3>3
  <2>3. g = [j \in 0 .. k |-> g[j]]
    OBVIOUS
  <2> HIDE DEF g
  <2>4. g = [j \in 0 .. k |-> Step(g, j)]
    BY <2>2, <2>3
  <2> QED
    BY <2>4 DEF Hears
<1>3. G = 0 .. n
  <2> HIDE DEF G
  <2>1. G \in SUBSET (0 .. n)
    BY DEF G
  <2> QED
    BY <1>1, <1>2, <2>1, IntervalInduction
<1> QED
  BY <1>3

LEMMA FileIsHeard ==
  ASSUME NEW h, NEW own
  PROVE  \E f : /\ Hears(f, h, own, Len(CacheFile))
                /\ HeardFile(own, h) = f[Len(CacheFile)]
<1> DEFINE f == CHOOSE f : Hears(f, h, own, Len(CacheFile))
<1>1. Len(CacheFile) \in Nat
  BY AddressConstants
<1>2. Hears(f, h, own, Len(CacheFile))
  BY <1>1, HearsExist
<1>3. HeardFile(own, h) = f[Len(CacheFile)]
  BY DEF HeardFile, Hears, HeardLine
<1> QED
  BY <1>2, <1>3

Histories == [Devices -> Addresses \cup {NoAddress}]

\* One line keeps the cache good and its static bindings.
LEMMA LineKeeps ==
  ASSUME NEW c, Good(c), NEW top \in Nat, NEW own, NEW h \in Histories, Latest(c, h),
         NEW l \in Devices \X Addresses
  PROVE  LET new == FileLine(c, top, own, l)
             hh  == HeardLine(h, own, l)
         IN  /\ Good(new) /\ Latest(new, hh) /\ hh \in Histories
             /\ StaticKept(c, new)
<1> DEFINE mid == address_add(c, top, own, l[1], l[2])
           new == address_set_device_TTL(mid, l[1], 0, TRUE)
           hh  == HeardLine(h, own, l)
<1>1. l[1] \in Devices /\ l[2] \in Addresses
  OBVIOUS
<1>2. hh \in Histories
  BY <1>1 DEF HeardLine, Histories
<1>3. OpKeeps(c, mid, top, hh)
  <2>1. OpKeeps(c, mid, top, IF l[1] = own THEN h ELSE [h EXCEPT ![l[1]] = l[2]])
    BY <1>1, AddressAdded DEF Histories
  <2> QED
    BY <2>1 DEF HeardLine
<1>4. Good(mid) /\ Latest(mid, hh) /\ StaticKept(c, mid)
  BY <1>3 DEF OpKeeps
<1>5. 0 \in 0 .. FOREVER
  BY Times
<1> HIDE DEF mid, hh
<1>6. Good(new) /\ Latest(new, hh) /\ StaticKept(mid, new)
  BY <1>4, <1>5, TimeSet DEF TimeKeeps
<1>7. StaticKept(c, new)
  <2> HIDE DEF new
  <2> QED
    BY <1>4, <1>6 DEF StaticKept
<1> QED
  BY <1>2, <1>6, <1>7 DEF FileLine, mid, hh

\* So does the whole file.
LEMMA FileKeeps ==
  ASSUME NEW c, Good(c), NEW top \in Nat, NEW own, NEW h \in Histories, Latest(c, h)
  PROVE  LET new == address_file_init(c, top, own)
             hh  == HeardFile(own, h)
         IN  /\ Good(new) /\ Latest(new, hh) /\ hh \in Histories
             /\ StaticKept(c, new)
<1> DEFINE N == Len(CacheFile)
<1>1. N \in Nat /\ \A j \in 1 .. N : CacheFile[j] \in Devices \X Addresses
  BY AddressConstants
<1>2. PICK f : Reads(f, c, top, own, N) /\ address_file_init(c, top, own) = f[N]
  BY FileIsRead
<1>3. PICK g : Hears(g, h, own, N) /\ HeardFile(own, h) = g[N]
  BY FileIsHeard
<1> DEFINE Fine(j) == /\ Good(f[j]) /\ Latest(f[j], g[j]) /\ g[j] \in Histories
                      /\ StaticKept(c, f[j])
           G == {j \in 0 .. N : Fine(j)}
<1> HIDE DEF N
<1>4. 0 \in G
  <2>1. 0 \in 0 .. N
    BY <1>1
  <2>2. f[0] = c /\ g[0] = h
    BY <1>2, <1>3, <2>1 DEF Reads, Hears
  <2>3. StaticKept(c, c)
    BY DEF StaticKept
  <2> QED
    BY <2>1, <2>2, <2>3
<1>5. ASSUME NEW k \in 1 .. N, k - 1 \in G PROVE k \in G
  <2>1. Fine(k - 1)
    BY <1>5
  <2>2. k \in 0 .. N /\ k # 0
    BY <1>1
  <2>3. f[k] = FileLine(f[k - 1], top, own, CacheFile[k])
    BY <1>2, <2>2 DEF Reads
  <2>4. g[k] = HeardLine(g[k - 1], own, CacheFile[k])
    BY <1>3, <2>2 DEF Hears
  <2>5. CacheFile[k] \in Devices \X Addresses
    BY <1>1
  <2>6. /\ Good(f[k]) /\ Latest(f[k], g[k]) /\ g[k] \in Histories
        /\ StaticKept(f[k - 1], f[k])
    BY <2>1, <2>3, <2>4, <2>5, LineKeeps
  <2>7. StaticKept(c, f[k])
    BY <2>1, <2>6 DEF StaticKept
  <2> QED
    BY <2>2, <2>6, <2>7
<1>6. G = 0 .. N
  <2>1. G \in SUBSET (0 .. N)
    OBVIOUS
  <2> HIDE DEF G
  <2> QED
    BY <1>1, <1>4, <1>5, <2>1, IntervalInduction
<1>7. Fine(N)
  <2>1. N \in G
    <3> HIDE DEF G
    <3> QED
      BY <1>1, <1>6
  <2> QED
    BY <2>1
<1> QED
  BY <1>2, <1>3, <1>7

----------------------------------------------------------------------------
(* The inductive invariant.                                                *)

\* The history forgets the devices that a look-up no longer finds.
LEMMA Remembered ==
  ASSUME NEW h \in Histories, Good(Address_Cache'), Latest(Address_Cache', h), Remember(h)
  PROVE  heard' \in Histories /\ Latest(Address_Cache', heard')
<1>1. heard' \in Histories
  <2>1. NoAddress \in Addresses \cup {NoAddress} /\ \A d \in Devices : h[d] \in Addresses \cup {NoAddress}
    BY DEF Histories
  <2> QED
    BY <2>1 DEF Remember, Histories
<1>2. ASSUME NEW i \in Entries, Bound(Address_Cache'[i])
      PROVE  Address_Cache'[i].address \in {NoAddress, heard'[Address_Cache'[i].device_id]}
  <2>1. PICK new : new = Address_Cache'
    OBVIOUS
  <2>2. Good(new) /\ Latest(new, h) /\ Bound(new[i])
    BY <1>2, <2>1
  <2>3. PICK d : d = new[i].device_id
    OBVIOUS
  <2>4. d \in Devices
    BY <2>2, <2>3, GoodEntry DEF Proper
  <2>5. address_get_by_device(new, d) = new[i].address
    BY <2>2, <2>3, LookUp
  <2>6. new[i].address \in {NoAddress, h[d]}
    BY <2>2, <2>3 DEF Latest
  <2>7. heard'[d] = IF new[i].address = NoAddress THEN NoAddress ELSE h[d]
    BY <2>1, <2>4, <2>5 DEF Remember
  <2> QED
    BY <2>1, <2>3, <2>6, <2>7
<1> QED
  BY <1>1, <1>2 DEF Latest

\* What no step does: drop a static binding, except as told, and give away a
\* protected one.
StaticStep ==
  \A i \in Entries :
    LET d == Address_Cache[i].device_id
    IN  STATIC \in Address_Cache[i].Flags =>
          \/ STATIC \in Address_Cache'[i].Flags /\ Address_Cache'[i].device_id = d
          \/ RemoveDevice(d) \/ AddressInit
          \/ \E t \in UserTTLs : SetDeviceTTL(d, t, FALSE)

ProtectedStep ==
  \A i \in Entries :
    /\ i < Top_Protected_Entry /\ Bound(Address_Cache[i])
    /\ IN_USE \in Address_Cache'[i].Flags
    /\ Address_Cache'[i].device_id # Address_Cache[i].device_id
    => AddressInit \/ AddressInitPartial

StepFine == CacheIInv' /\ StaticStep /\ ProtectedStep

LEMMA EmptyGood == Good(Empty) /\ \A h : Latest(Empty, h)
<1>1. 0 \in 0 .. FOREVER
  BY Times
<1>2. Empty \in [Entries -> Entry]
  BY <1>1, FlagSets DEF Empty, Entry
<1>3. \A i \in Entries : Empty[i].Flags = {}
  BY DEF Empty
<1> HIDE DEF Empty
<1> QED
  BY <1>2, <1>3 DEF Good, Single, Proper, Latest, Used, Bound

LEMMA CacheInitOK ==
  ASSUME CacheInit
  PROVE  CacheIInv
<1> DEFINE h0 == [d \in Devices |-> NoAddress]
<1>1. h0 \in Histories /\ 0 \in Nat
  BY DEF Histories
<1>2. Good(Empty) /\ Latest(Empty, h0)
  BY EmptyGood
<1> HIDE DEF h0
<1>3. /\ Good(address_file_init(Empty, 0, NoDevice))
      /\ Latest(address_file_init(Empty, 0, NoDevice), HeardFile(NoDevice, h0))
      /\ HeardFile(NoDevice, h0) \in Histories
  BY <1>1, <1>2, FileKeeps
<1> QED
  BY <1>3, CacheSize DEF CacheInit, CacheIInv, Histories, h0

\* The steps that leave the settings alone and touch entries one by one.
LEMMA OpStep ==
  ASSUME CacheIInv, NEW h \in Histories,
         OpKeeps(Address_Cache, Address_Cache', Top_Protected_Entry, h),
         Remember(h), UNCHANGED settings
  PROVE  StepFine
<1>1. Good(Address_Cache') /\ Latest(Address_Cache', h)
  BY DEF OpKeeps
<1>2. heard' \in Histories /\ Latest(Address_Cache', heard')
  BY <1>1, Remembered
<1>3. CacheIInv'
  BY <1>1, <1>2 DEF CacheIInv, settings, Histories
<1>4. StaticStep
  BY DEF OpKeeps, StaticKept, StaticStep
<1>5. ProtectedStep
  BY DEF OpKeeps, NotGivenAway, ProtectedStep, Used
<1> QED
  BY <1>3, <1>4, <1>5 DEF StepFine

LEMMA CacheStep ==
  ASSUME CacheIInv, CacheNext
  PROVE  StepFine
<1>1. /\ Good(Address_Cache) /\ Latest(Address_Cache, heard)
      /\ Top_Protected_Entry \in Nat /\ Top_Protected_Entry \in Entries
      /\ Own_Device_ID \in Devices \cup {NoDevice} /\ heard \in Histories
  BY CacheSize DEF CacheIInv, Histories
<1> DEFINE c == Address_Cache
           top == Top_Protected_Entry
<1>2. ASSUME NEW d \in Devices, NEW a \in Addresses, AddressAdd(d, a) PROVE StepFine
  <2>1. PICK hh : hh = IF d = Own_Device_ID THEN heard ELSE [heard EXCEPT ![d] = a]
    OBVIOUS
  <2>2. hh \in Histories
    BY <1>1, <2>1 DEF Histories
  <2>3. OpKeeps(c, c', top, hh)
    BY <1>1, <1>2, <2>1, AddressAdded DEF AddressAdd, Histories
  <2> QED
    BY <1>2, <2>1, <2>2, <2>3, OpStep DEF AddressAdd
<1>3. ASSUME NEW d \in Devices, NEW a \in Addresses, AddBinding(d, a) PROVE StepFine
  <2>1. PICK hh : hh = [heard EXCEPT ![d] = a]
    OBVIOUS
  <2>2. hh \in Histories
    BY <1>1, <2>1 DEF Histories
  <2>3. OpKeeps(c, c', top, hh)
    BY <1>1, <1>3, <2>1, BindingAdded DEF AddBinding, Histories
  <2> QED
    BY <1>3, <2>1, <2>2, <2>3, OpStep DEF AddBinding
<1>4. ASSUME NEW d \in Devices, BindRequest(d) PROVE StepFine
  <2>1. OpKeeps(c, c', top, heard)
    BY <1>1, <1>4, BindRequested DEF BindRequest
  <2> QED
    BY <1>1, <1>4, <2>1, OpStep DEF BindRequest
<1>5. ASSUME NEW d \in Devices, RemoveDevice(d) PROVE StepFine
  <2>1. PICK i \in Entries : /\ i = EntryOf(c, d) /\ c[i].device_id = d
                             /\ c' = [c EXCEPT ![i] = Cleared(@)]
                             /\ Top_Protected_Entry' = IF i < top THEN top - 1 ELSE top
    BY <1>5, EntryFound DEF RemoveDevice
  <2>2. /\ c \in [Entries -> Entry]
        /\ c'[i] = Cleared(c[i]) /\ \A j \in Entries \ {i} : c'[j] = c[j]
    BY <1>1, <2>1 DEF Good
  <2>3. Thinned(c, c')
    <3>1. Cleared(c[i]) \in Entry /\ Cleared(c[i]).Flags = {}
      BY <2>2, ClearedEntry
    <3>2. c' \in [Entries -> Entry]
      BY <2>1, <2>2, <3>1
    <3> QED
      BY <2>2, <3>1, <3>2 DEF Thinned
  <2>4. Good(c') /\ Latest(c', heard) /\ NotGivenAway(c, c', top)
    BY <1>1, <2>3, ThinnedGood
  <2>5. heard' \in Histories /\ Latest(c', heard')
    BY <1>1, <1>5, <2>4, Remembered DEF RemoveDevice
  <2>6. Top_Protected_Entry' \in Entries
    BY <1>1, <2>1, CacheSize
  <2>7. CacheIInv'
    BY <1>1, <1>5, <2>4, <2>5, <2>6 DEF CacheIInv, RemoveDevice, Histories
  <2>8. StaticStep
    BY <1>5, <2>1, <2>2 DEF StaticStep
  <2>9. ProtectedStep
    BY <2>4 DEF NotGivenAway, ProtectedStep, Used
  <2> QED
    BY <2>7, <2>8, <2>9 DEF StepFine
<1>6. ASSUME NEW d \in Devices, NEW t \in UserTTLs, NEW static \in BOOLEAN,
             SetDeviceTTL(d, t, static)
      PROVE StepFine
  <2>1. t \in 0 .. FOREVER
    BY AddressConstants
  <2>2. c' = address_set_device_TTL(c, d, t, static) /\ UNCHANGED settings /\ Remember(heard)
    BY <1>6 DEF SetDeviceTTL
  <2>3. /\ Good(c') /\ Latest(c', heard) /\ NotGivenAway(c, c', top)
        /\ static = TRUE => StaticKept(c, c')
        /\ \A j \in Entries : STATIC \in c[j].Flags /\ c[j].device_id # d => c'[j] = c[j]
    <3>1. TimeKeeps(c, c', top, d, static, heard)
      BY <1>1, <2>1, <2>2, TimeSet
    <3> QED
      BY <3>1 DEF TimeKeeps
  <2>4. heard' \in Histories /\ Latest(c', heard')
    BY <1>1, <2>2, <2>3, Remembered
  <2>5. CacheIInv'
    BY <1>1, <2>2, <2>3, <2>4 DEF CacheIInv, settings, Histories
  <2>6. StaticStep
    <3>1. CASE static = TRUE
      BY <2>3, <3>1 DEF StaticKept, StaticStep
    <3>2. CASE static = FALSE
      <4>1. SetDeviceTTL(d, t, FALSE)
        BY <1>6, <3>2
      <4> SUFFICES ASSUME NEW j \in Entries, STATIC \in c[j].Flags
                   PROVE  \/ STATIC \in c'[j].Flags /\ c'[j].device_id = c[j].device_id
                          \/ \E u \in UserTTLs : SetDeviceTTL(c[j].device_id, u, FALSE)
        BY DEF StaticStep
      <4>2. CASE c[j].device_id = d
        BY <4>1, <4>2
      <4>3. CASE c[j].device_id # d
        BY <2>3, <4>3
      <4> QED
        BY <4>2, <4>3
    <3> QED
      BY <3>1, <3>2
  <2>7. ProtectedStep
    BY <2>3 DEF NotGivenAway, ProtectedStep, Used
  <2> QED
    BY <2>5, <2>6, <2>7 DEF StepFine
<1>7. ASSUME NEW s \in Periods, CacheTimer(s) PROVE StepFine
  <2>1. s \in Nat
    BY AddressConstants
  <2>2. c' = [i \in Entries |-> Aged(c[i], s)]
    BY <1>7 DEF CacheTimer
  <2>3. Thinned(c, c') /\ StaticKept(c, c')
    BY <1>1, <2>1, <2>2, AgedThinned
  <2>4. OpKeeps(c, c', top, heard)
    BY <1>1, <2>3, ThinnedGood DEF OpKeeps
  <2> QED
    BY <1>1, <1>7, <2>4, OpStep DEF CacheTimer
<1>8. ASSUME AddressInit PROVE StepFine
  <2>1. PICK e : e = [i \in Entries |-> Cleared(c[i])]
    OBVIOUS
  <2>2. c' = address_file_init(e, 0, Own_Device_ID) /\ Remember(HeardFile(Own_Device_ID, heard))
        /\ Top_Protected_Entry' = 0 /\ Own_Device_ID' = Own_Device_ID
    BY <1>8, <2>1 DEF AddressInit
  <2>3. Thinned(c, e)
    <3>1. \A i \in Entries : Cleared(c[i]) \in Entry /\ Cleared(c[i]).Flags = {}
      BY <1>1, ClearedEntry DEF Good
    <3> QED
      BY <2>1, <3>1 DEF Thinned
  <2>4. Good(e) /\ Latest(e, heard) /\ 0 \in Nat
    BY <1>1, <2>3, ThinnedGood
  <2>5. /\ Good(c') /\ Latest(c', HeardFile(Own_Device_ID, heard))
        /\ HeardFile(Own_Device_ID, heard) \in Histories
    BY <1>1, <2>2, <2>4, FileKeeps
  <2>6. heard' \in Histories /\ Latest(c', heard')
    BY <2>2, <2>5, Remembered
  <2>7. CacheIInv'
    BY <1>1, <2>2, <2>5, <2>6, CacheSize DEF CacheIInv, Histories
  <2>8. StaticStep /\ ProtectedStep
    BY <1>8 DEF StaticStep, ProtectedStep
  <2> QED
    BY <2>7, <2>8 DEF StepFine
<1>9. ASSUME AddressInitPartial PROVE StepFine
  <2>1. PICK e : e = [i \in Entries |-> Kept(c[i])]
    OBVIOUS
  <2>2. c' = address_file_init(e, top, Own_Device_ID) /\ Remember(HeardFile(Own_Device_ID, heard))
        /\ UNCHANGED settings
    BY <1>9, <2>1 DEF AddressInitPartial
  <2>3. Thinned(c, e) /\ StaticKept(c, e)
    BY <1>1, <2>1, KeptThinned
  <2>4. Good(e) /\ Latest(e, heard)
    BY <1>1, <2>3, ThinnedGood
  <2>5. /\ Good(c') /\ Latest(c', HeardFile(Own_Device_ID, heard))
        /\ HeardFile(Own_Device_ID, heard) \in Histories
        /\ StaticKept(e, c')
    BY <1>1, <2>2, <2>4, FileKeeps
  <2>6. heard' \in Histories /\ Latest(c', heard')
    BY <2>2, <2>5, Remembered
  <2>7. CacheIInv'
    BY <1>1, <2>2, <2>5, <2>6 DEF CacheIInv, settings, Histories
  <2>8. StaticStep
    BY <2>3, <2>5 DEF StaticKept, StaticStep
  <2>9. ProtectedStep
    BY <1>9 DEF ProtectedStep
  <2> QED
    BY <2>7, <2>8, <2>9 DEF StepFine
<1>10. ASSUME NEW i \in 0 .. MAX_ADDRESS_CACHE, ProtectedEntryIndexSet(i) PROVE StepFine
  <2>1. Top_Protected_Entry' \in Entries
    BY <1>10, CacheSize DEF ProtectedEntryIndexSet
  <2> QED
    BY <1>1, <1>10, <2>1 DEF ProtectedEntryIndexSet, CacheIInv, StepFine, StaticStep,
                             ProtectedStep, Histories
<1>11. ASSUME NEW d \in OwnIDs, OwnDeviceIDSet(d) PROVE StepFine
  <2>1. Own_Device_ID' \in Devices \cup {NoDevice}
    BY <1>11, AddressConstants DEF OwnDeviceIDSet
  <2> QED
    BY <1>1, <1>11, <2>1 DEF OwnDeviceIDSet, CacheIInv, StepFine, StaticStep,
                             ProtectedStep, Histories
<1> QED
  BY <1>2, <1>3, <1>4, <1>5, <1>6, <1>7, <1>8, <1>9, <1>10, <1>11
     DEF CacheNext, Inform, Timer

LEMMA CacheStutter ==
  ASSUME CacheIInv, UNCHANGED cacheVars
  PROVE  CacheIInv'
  BY DEF CacheIInv, cacheVars, settings

\* The inductive invariant: used entries are of a proper kind, one per device,
\* and a bound entry holds the address its device reported last.
THEOREM CacheInvariant == CacheSpec => []CacheIInv
<1>1. CacheInit => CacheIInv
  BY CacheInitOK
<1>2. CacheIInv /\ [CacheNext]_cacheVars => CacheIInv'
  BY CacheStep, CacheStutter DEF StepFine
<1> QED
  BY <1>1, <1>2, PTL DEF CacheSpec

\* The cache and its settings stay well typed, for every size of the cache
\* and every address_cache file.
THEOREM CacheTypeCorrect == CacheSpec => []CacheTypeOK
<1>1. CacheIInv => CacheTypeOK
  BY DEF CacheIInv, Good, CacheTypeOK
<1> QED
  BY <1>1, CacheInvariant, PTL

\* A device has one entry, of a proper kind, and a look-up returns the address
\* it reported last, after any order of I-Ams, bind requests, removals,
\* evictions, ageing and readings of the file.
THEOREM BindingsStayConsistent == CacheSpec => []BindingsConsistent
<1>1. CacheIInv => DevicesUnique
  BY DEF CacheIInv, Good, Single, Used, DevicesUnique
<1>2. CacheIInv => EntriesConsistent
  BY DEF CacheIInv, Good, Proper, EntriesConsistent
<1>3. ASSUME CacheIInv PROVE BoundAddressIsLatest
  <2> SUFFICES ASSUME NEW d \in Devices
               PROVE  address_get_by_device(Address_Cache, d) \in {NoAddress, heard[d]}
    BY DEF BoundAddressIsLatest
  <2>1. PICK i : i = EntryOf(Address_Cache, d)
    OBVIOUS
  <2>2. CASE i # None /\ Bound(Address_Cache[i])
    <3>1. i \in Entries /\ Address_Cache[i].device_id = d
      BY <2>1, <2>2, EntryFound
    <3>2. address_get_by_device(Address_Cache, d) = Address_Cache[i].address
      BY <2>1, <2>2 DEF address_get_by_device
    <3> QED
      BY <1>3, <2>2, <3>1, <3>2 DEF CacheIInv, Latest
  <2>3. CASE ~ (i # None /\ Bound(Address_Cache[i]))
    BY <2>1, <2>3 DEF address_get_by_device
  <2> QED
    BY <2>2, <2>3
<1>4. CacheIInv => BindingsConsistent
  BY <1>1, <1>2, <1>3 DEF BindingsConsistent
<1> QED
  BY <1>4, CacheInvariant, PTL

\* No step drops a static binding but the removal of its device, the request
\* to make it dynamic and a full initialisation; and a full cache never gives
\* the entry of a protected device to another one.
THEOREM BindingsStay == CacheSpec => BindingsKept
<1>1. CacheIInv /\ [CacheNext]_cacheVars => [StaticStep]_cacheVars /\ [ProtectedStep]_cacheVars
  BY CacheStep DEF StepFine
<1>2. CacheSpec => [][StaticStep]_cacheVars /\ [][ProtectedStep]_cacheVars
  BY <1>1, CacheInvariant, PTL DEF CacheSpec
<1> QED
  BY <1>2 DEF BindingsKept, StaticStays, ProtectedNotEvicted, StaticStep, ProtectedStep

----------------------------------------------------------------------------
(* ReadRange over the bound entries.                                       *)

\* A part of a table.
Slotted(S, size) == size \in Nat /\ S \in SUBSET (0 .. size - 1)

\* The number of slots before i grows by one behind each of them.
LEMMA BeforeGrows ==
  ASSUME NEW S, NEW size, Slotted(S, size)
  PROVE  /\ S \in SUBSET Nat /\ Cardinality(S) \in Nat
         /\ \A i \in Nat : Before(S, i) \in Nat
         /\ \A i, j \in Nat : i <= j => Before(S, i) <= Before(S, j)
         /\ \A i \in Nat : Before(S, i + 1) = Before(S, i) + (IF i \in S THEN 1 ELSE 0)
         /\ Before(S, 0) = 0
         /\ Before(S, size) = Cardinality(S)
<1> DEFINE B(i) == {j \in S : j < i}
<1>1. /\ S \in SUBSET Nat /\ size \in Nat
      /\ \A j \in S : j \in Nat /\ j < size
  BY DEF Slotted
<1>0. IsFiniteSet(S)
  <2>1. IsFiniteSet(0 .. size - 1)
    BY <1>1, FS_Interval
  <2>2. S \in SUBSET (0 .. size - 1)
    BY DEF Slotted
  <2> QED
    BY <2>1, <2>2, FS_Subset
<1>2. \A i \in Nat : IsFiniteSet(B(i))
  BY <1>0, FS_Subset
<1>3. \A i \in Nat : Before(S, i) = Cardinality(B(i))
  BY DEF Before
<1>4. \A i \in Nat : Before(S, i) \in Nat
  BY <1>2, <1>3, FS_CardinalityType
<1>5. ASSUME NEW i \in Nat, NEW j \in Nat, i <= j PROVE Before(S, i) <= Before(S, j)
  <2>1. B(i) \subseteq B(j)
    <3>1. \A k \in S : k < i => k < j
      BY <1>1, <1>5
    <3> QED
      BY <3>1
  <2> HIDE DEF B
  <2> QED
    BY <2>1, <1>2, <1>3, FS_Subset
<1>6. ASSUME NEW i \in Nat PROVE Before(S, i + 1) = Before(S, i) + (IF i \in S THEN 1 ELSE 0)
  <2>1. i \notin B(i) /\ i + 1 \in Nat
    OBVIOUS
  <2>2. B(i + 1) = IF i \in S THEN B(i) \cup {i} ELSE B(i)
    <3>1. \A k \in S : k < i + 1 <=> k < i \/ k = i
      BY <1>1
    <3> QED
      BY <3>1
  <2> HIDE DEF B
  <2>3. Cardinality(B(i) \cup {i}) = Cardinality(B(i)) + 1
    BY <1>2, <2>1, FS_AddElement
  <2> QED
    BY <1>3, <1>4, <2>1, <2>2, <2>3
<1>7. Before(S, 0) = 0
  <2>1. B(0) = {}
    <3>1. \A k \in S : ~ (k < 0)
      BY <1>1
    <3> QED
      BY <3>1
  <2> HIDE DEF B
  <2> QED
    BY <1>3, <2>1, FS_EmptySet
<1>8. Before(S, size) = Cardinality(S)
  <2>1. B(size) = S
    BY <1>1
  <2> HIDE DEF B
  <2> QED
    BY <1>1, <1>3, <2>1
<1>9. Cardinality(S) \in Nat
  BY <1>0, FS_CardinalityType
<1> QED
  BY <1>1, <1>4, <1>5, <1>6, <1>7, <1>8, <1>9

\* Ascending() lists each slot once, in table order.
LEMMA AscendingOrder ==
  ASSUME NEW S, NEW size, Slotted(S, size)
  PROVE  LET all == Ascending(S)
         IN  /\ all \in Seq(Nat) /\ Len(all) = Cardinality(S)
             /\ \A k \in 1 .. Len(all) : all[k] \in S /\ Before(S, all[k]) = k - 1
             /\ \A i \in S : Before(S, i) + 1 \in 1 .. Len(all) /\ all[Before(S, i) + 1] = i
<1> DEFINE all   == Ascending(S)
           total == Cardinality(S)
           U(i)  == Before(S, i)
           P(k)  == CHOOSE i \in S : U(i) = k - 1
<1>1. /\ S \in SUBSET Nat /\ total \in Nat
      /\ \A i \in Nat : U(i) \in Nat
      /\ \A i, j \in Nat : i <= j => U(i) <= U(j)
      /\ \A i \in Nat : U(i + 1) = U(i) + (IF i \in S THEN 1 ELSE 0)
      /\ U(0) = 0 /\ U(size) = total
  BY BeforeGrows
<1>2. size \in Nat /\ \A i \in S : i + 1 <= size
  BY DEF Slotted
<1>3. all = [k \in 1 .. total |-> P(k)]
  BY DEF Ascending
<1> HIDE DEF all, total, U
\* Behind the k-th slot there are k of them for the first time.
<1>4. ASSUME NEW k \in 1 .. total PROVE P(k) \in S /\ U(P(k)) = k - 1
  <2> DEFINE T == {i \in Nat : U(i) >= k}
  <2>1. size \in T /\ T \in SUBSET Nat
    BY <1>1, <1>2
  <2> DEFINE i == Min(T)
  <2>2. i \in T /\ \A y \in T : i <= y
    BY <2>1, MinNat
  <2> HIDE DEF i
  <2>3. k \in Nat \ {0} /\ i \in Nat /\ U(i) >= k
    BY <1>1, <2>2
  <2>4. i # 0
    BY <1>1, <2>3
  <2>5. i - 1 \in Nat /\ (i - 1) + 1 = i /\ i - 1 \notin T
    BY <2>2, <2>3, <2>4
  <2>6. U(i - 1) \in Nat /\ U(i) = U(i - 1) + (IF i - 1 \in S THEN 1 ELSE 0) /\ ~ (U(i - 1) >= k)
    <3>1. U((i - 1) + 1) = U(i - 1) + (IF i - 1 \in S THEN 1 ELSE 0)
      BY <1>1, <2>5
    <3> QED
      BY <1>1, <2>5, <3>1
  <2>7. i - 1 \in S /\ U(i - 1) = k - 1
    BY <2>3, <2>6
  <2> QED
    BY <2>7
<1> HIDE DEF P
<1>5. all \in Seq(Nat) /\ Len(all) = total /\ \A k \in 1 .. total : all[k] = P(k)
  <2>1. \A k \in 1 .. total : P(k) \in Nat
    BY <1>1, <1>4
  <2> QED
    BY <1>1, <1>3, <2>1
<1>6. ASSUME NEW i \in S, NEW j \in S, i < j PROVE U(i) < U(j)
  <2>1. i \in Nat /\ j \in Nat /\ i + 1 \in Nat /\ i + 1 <= j
    BY <1>1, <1>6
  <2>2. U(i + 1) = U(i) + 1 /\ U(i + 1) <= U(j) /\ U(i) \in Nat /\ U(j) \in Nat
    BY <1>1, <2>1
  <2> QED
    BY <2>2
<1>7. ASSUME NEW i \in S PROVE U(i) + 1 \in 1 .. total /\ P(U(i) + 1) = i
  <2>1. i \in Nat /\ U(i) \in Nat /\ U(i + 1) = U(i) + 1 /\ i + 1 \in Nat
    BY <1>1
  <2>2. U(i + 1) <= total
    BY <1>1, <1>2, <2>1
  <2>3. U(i) + 1 \in 1 .. total
    BY <1>1, <2>1, <2>2
  <2>4. P(U(i) + 1) \in S /\ U(P(U(i) + 1)) = U(i)
    BY <1>4, <2>1, <2>3
  <2>5. P(U(i) + 1) \in Nat /\ ~ (P(U(i) + 1) < i) /\ ~ (i < P(U(i) + 1))
    <3> DEFINE a == P(U(i) + 1)
    <3>1. a \in S /\ U(a) = U(i)
      BY <2>4
    <3> HIDE DEF a
    <3>2. a < i => U(a) < U(i)
      BY <1>6, <3>1
    <3>3. i < a => U(i) < U(a)
      BY <1>6, <3>1
    <3>4. a \in Nat
      BY <1>1, <3>1
    <3>5. ~ (a < i) /\ ~ (i < a)
      <4> HIDE DEF U
      <4> QED
        BY <2>1, <3>1, <3>2, <3>3
    <3> QED
      BY <3>4, <3>5 DEF a
  <2> QED
    BY <2>1, <2>3, <2>5
<1> QED
  BY <1>4, <1>5, <1>7 DEF all, total, U

\* The slots behind x are the list from where x comes in it.
LEMMA AscendingBehind ==
  ASSUME NEW S, NEW size, Slotted(S, size), NEW x \in Nat
  PROVE  LET behind == {i \in S : i > x}
             m      == Before(S, x + 1)
         IN  /\ Slotted(behind, size)
             /\ Cardinality(behind) = Cardinality(S) - m
             /\ \A k \in 1 .. Cardinality(behind) :
                  m + k \in 1 .. Cardinality(S) /\ Ascending(behind)[k] = Ascending(S)[m + k]
<1> DEFINE behind == {i \in S : i > x}
           m      == Before(S, x + 1)
           U(i)   == Before(S, i)
           V(i)   == Before(behind, i)
<1>1. /\ Slotted(behind, size) /\ size \in Nat /\ x + 1 \in Nat
      /\ \A j \in S : j \in Nat /\ j < size
  <2>1. behind \in SUBSET S
    OBVIOUS
  <2> HIDE DEF behind
  <2> QED
    BY <2>1 DEF Slotted
<1> HIDE DEF behind
<1>2. /\ \A i \in Nat : U(i) \in Nat /\ V(i) \in Nat
      /\ \A i, j \in Nat : i <= j => U(i) <= U(j)
      /\ \A i \in Nat : U(i + 1) = U(i) + (IF i \in S THEN 1 ELSE 0)
      /\ U(size) = Cardinality(S) /\ V(size) = Cardinality(behind)
      /\ Cardinality(S) \in Nat /\ Cardinality(behind) \in Nat /\ m \in Nat
  BY <1>1, BeforeGrows
<1>3. ASSUME NEW i \in Nat, i >= x + 1 PROVE V(i) = U(i) - m
  <2> DEFINE low == {j \in S : j < x + 1}
             up  == {j \in behind : j < i}
  <2>1. low \cup up = {j \in S : j < i} /\ low \cap up = {}
    <3>1. \A j \in S : (j < i) <=> (j < x + 1 \/ (j > x /\ j < i))
      BY <1>1, <1>3
    <3>2. \A j \in S : ~ (j < x + 1 /\ j > x)
      BY <1>1
    <3>3. up = {j \in S : j > x /\ j < i}
      BY DEF behind
    <3> HIDE DEF up
    <3> QED
      BY <3>1, <3>2, <3>3
  <2>2. IsFiniteSet(low) /\ IsFiniteSet(up)
    <3>1. IsFiniteSet(0 .. size - 1)
      BY <1>1, FS_Interval
    <3>2. low \in SUBSET (0 .. size - 1) /\ up \in SUBSET (0 .. size - 1)
      BY <1>1 DEF Slotted
    <3> QED
      BY <3>1, <3>2, FS_Subset
  <2>3. Cardinality(low) = m /\ Cardinality(up) = V(i) /\ Cardinality({j \in S : j < i}) = U(i)
    BY DEF Before
  <2> HIDE DEF low, up
  <2>4. Cardinality(low \cup up) = Cardinality(low) + Cardinality(up) - Cardinality({})
    BY <2>1, <2>2, FS_Union
  <2>5. U(i) = m + V(i)
    <3>1. U(i) = m + V(i) - 0
      BY <2>1, <2>3, <2>4, FS_EmptySet
    <3> HIDE DEF U, V, m
    <3> QED
      BY <1>2, <3>1
  <2> HIDE DEF U, V, m
  <2> QED
    BY <1>2, <2>5
<1>4. Cardinality(behind) = Cardinality(S) - m
  <2>1. CASE size >= x + 1
    BY <1>1, <1>2, <1>3, <2>1
  <2>2. CASE ~ (size >= x + 1)
    <3>1. behind = {} /\ {j \in S : j < x + 1} = S
      <4>1. \A j \in S : j < x + 1 /\ ~ (j > x)
        BY <1>1, <2>2
      <4> QED
        BY <4>1 DEF behind
    <3>2. m = Cardinality(S) /\ Cardinality(behind) = 0
      BY <3>1, FS_EmptySet DEF Before
    <3> QED
      BY <1>2, <3>2
  <2> QED
    BY <2>1, <2>2
<1>5. ASSUME NEW k \in 1 .. Cardinality(behind)
      PROVE  m + k \in 1 .. Cardinality(S) /\ Ascending(behind)[k] = Ascending(S)[m + k]
  <2>1. m + k \in 1 .. Cardinality(S) /\ k \in Nat \ {0}
    <3>1. /\ m \in Nat /\ Cardinality(S) \in Nat
          /\ Cardinality(behind) = Cardinality(S) - m
      BY <1>2, <1>4
    <3> HIDE DEF m
    <3> QED
      BY <3>1
  <2> DEFINE a == Ascending(S)[m + k]
  <2>2. a \in S /\ U(a) = m + k - 1
    <3>1. \A q \in 1 .. Cardinality(S) :
            Ascending(S)[q] \in S /\ Before(S, Ascending(S)[q]) = q - 1
      BY AscendingOrder
    <3> DEFINE q == m + k
    <3>2. q \in 1 .. Cardinality(S)
      BY <2>1
    <3>3. a = Ascending(S)[q]
      OBVIOUS
    <3>4. q - 1 = m + k - 1
      <4>1. m \in Nat
        BY <1>2
      <4> HIDE DEF m
      <4> QED
        BY <2>1, <4>1
    <3> HIDE DEF q, a
    <3>5. a \in S /\ Before(S, a) = q - 1
      BY <3>1, <3>2, <3>3
    <3> QED
      BY <3>4, <3>5
  <2> HIDE DEF a, m, U
  <2>3. a \in Nat /\ U(a) >= m /\ U(a + 1) = m + k /\ a + 1 \in Nat
    <3>1. a \in Nat /\ a + 1 \in Nat
      BY <1>1, <2>2
    <3>2. U(a + 1) = U(a) + 1
      BY <1>2, <2>2, <3>1
    <3> QED
      BY <1>2, <2>1, <2>2, <3>1, <3>2
  <2>4. a > x
    <3>1. a <= x => U(a + 1) <= m
      BY <1>1, <1>2, <2>3 DEF m, U
    <3> QED
      BY <1>2, <2>1, <2>3, <3>1
  <2>5. a \in behind /\ V(a) = k - 1
    BY <1>2, <1>3, <2>2, <2>3, <2>4 DEF behind
  <2>6. Ascending(behind)[V(a) + 1] = a
    BY <1>1, <2>5, AscendingOrder
  <2> QED
    BY <2>1, <2>5, <2>6 DEF a
<1> QED
  BY <1>1, <1>4, <1>5 DEF behind

\* Where the seek stops: at the first bound slot, or behind the bound slot
\* before the one it looks for (address.c:1045).
LEMMA SeekStop ==
  ASSUME NEW bound, NEW size, Slotted(bound, size), NEW n \in 1 .. Cardinality(bound)
  PROVE  LET all   == Ascending(bound)
             stops == SeekStops(bound, size, n)
         IN  /\ stops # {} /\ Min(stops) \in Nat
             /\ Before(bound, Min(stops)) = n - 1
             /\ Min(stops) = IF n = 1 THEN all[1] ELSE all[n - 1] + 1
<1> DEFINE all   == Ascending(bound)
           total == Cardinality(bound)
           U(i)  == Before(bound, i)
           stops == SeekStops(bound, size, n)
           stop  == IF n = 1 THEN all[1] ELSE all[n - 1] + 1
<1>1. /\ total \in Nat /\ size \in Nat
      /\ \A j \in bound : j \in Nat /\ j < size
      /\ \A i \in Nat : U(i) \in Nat
      /\ \A i, j \in Nat : i <= j => U(i) <= U(j)
      /\ \A i \in Nat : U(i + 1) = U(i) + (IF i \in bound THEN 1 ELSE 0)
  <2>1. size \in Nat /\ \A j \in bound : j \in Nat /\ j < size
    BY DEF Slotted
  <2>2. /\ Cardinality(bound) \in Nat
        /\ \A i \in Nat : Before(bound, i) \in Nat
        /\ \A i, j \in Nat : i <= j => Before(bound, i) <= Before(bound, j)
        /\ \A i \in Nat :
             Before(bound, i + 1) = Before(bound, i) + (IF i \in bound THEN 1 ELSE 0)
    BY BeforeGrows
  <2> QED
    BY <2>1, <2>2, Zenon
<1>2. \A k \in 1 .. total : all[k] \in bound /\ U(all[k]) = k - 1
  BY AscendingOrder
<1>3. n \in 1 .. total /\ n \in Nat \ {0} /\ 1 \in 1 .. total
  <2>1. total \in Nat /\ n \in 1 .. total
    BY <1>1, Zenon
  <2> HIDE DEF total
  <2> QED
    BY <2>1
<1>4. Min(bound) \in bound /\ \A i \in bound : Min(bound) <= i
  <2>1. bound \in SUBSET Nat /\ bound # {}
    BY <1>1, <1>2, <1>3
  <2> QED
    BY <2>1, MinNat
<1>5. stops = {p \in Min(bound) .. size - 1 : U(p) = n - 1}
  BY DEF SeekStops
<1> HIDE DEF all, total, U, stops
<1>6. stops \in SUBSET Nat
  BY <1>1, <1>4, <1>5
<1>7. stop \in Nat /\ U(stop) = n - 1 /\ Min(bound) <= stop /\ stop < size
  <2>1. CASE n = 1
    BY <1>1, <1>2, <1>3, <1>4, <2>1
  <2>2. CASE n # 1
    <3>1. n - 1 \in 1 .. total /\ (n - 1) - 1 \in Nat /\ ((n - 1) - 1) + 1 = n - 1
      BY <1>1, <1>3, <2>2
    <3> DEFINE q == all[n - 1]
    <3>2. q \in bound /\ U(q) = (n - 1) - 1
      BY <1>2, <3>1
    <3> HIDE DEF q
    <3>3. q \in Nat /\ U(q + 1) = n - 1 /\ Min(bound) <= q /\ Min(bound) \in Nat
      <4>1. q \in Nat
        BY <1>1, <3>2
      <4>2. U(q + 1) = U(q) + 1
        BY <1>1, <3>2, <4>1
      <4> QED
        BY <1>1, <1>4, <3>1, <3>2, <4>1, <4>2
    <3> DEFINE l == all[n]
    <3>4. l \in bound /\ U(l) = n - 1
      BY <1>2, <1>3
    <3> HIDE DEF l
    <3>5. l \in Nat /\ l < size
      BY <1>1, <3>4
    <3>6. ~ (l <= q)
      <4>1. l <= q => U(l) <= U(q)
        BY <1>1, <3>3, <3>5
      <4> QED
        BY <1>1, <1>3, <3>1, <3>2, <3>4, <4>1
    <3>7. q + 1 < size /\ q + 1 \in Nat /\ Min(bound) <= q + 1
      <4>1. q + 1 <= l
        BY <3>3, <3>5, <3>6
      <4> QED
        BY <1>1, <3>3, <3>5, <4>1
    <3>8. stop = q + 1
      BY <2>2 DEF q
    <3> HIDE DEF stop
    <3> QED
      BY <3>3, <3>7, <3>8
  <2> QED
    BY <2>1, <2>2
\* Before it the seek has not counted so far.
<1>8. ASSUME NEW p \in stops PROVE ~ (p < stop)
  <2>1. p \in Nat /\ U(p) = n - 1 /\ Min(bound) <= p
    BY <1>1, <1>4, <1>5, <1>6
  <2>2. CASE n = 1
    <3>1. stop \in bound /\ stop \in Nat /\ U(stop) = 0
      BY <1>1, <1>2, <1>3, <2>2
    <3> DEFINE m == Min(bound)
    <3>2. m \in bound /\ m \in Nat /\ m <= stop /\ m <= p /\ m + 1 \in Nat
      <4>1. m \in bound /\ m <= p /\ \A i \in bound : m <= i
        BY <1>4, <2>1
      <4> HIDE DEF m, stop
      <4>2. m <= stop /\ m \in Nat
        BY <1>1, <3>1, <4>1
      <4> QED
        BY <4>1, <4>2
    <3>3. U(m + 1) = U(m) + 1 /\ U(m) \in Nat
      <4> HIDE DEF m
      <4> QED
        BY <1>1, <3>2
    <3> HIDE DEF m, stop
    <3>4. m < stop => m + 1 <= stop /\ U(m + 1) <= U(stop)
      BY <1>1, <3>1, <3>2
    <3>5. ~ (m < stop)
      BY <3>1, <3>3, <3>4
    <3> QED
      BY <2>1, <3>1, <3>2, <3>5
  <2>3. CASE n # 1
    <3> DEFINE q == all[n - 1]
    <3>1. n - 1 \in 1 .. total /\ (n - 1) - 1 < n - 1
      BY <1>1, <1>3, <2>3
    <3>2. stop = q + 1 /\ q \in bound /\ U(q) = (n - 1) - 1
      BY <1>2, <2>3, <3>1
    <3> HIDE DEF q, stop
    <3>3. q \in Nat
      BY <1>1, <3>2
    <3>4. p <= q => U(p) <= U(q)
      BY <1>1, <2>1, <3>3
    <3>5. ~ (p <= q)
      BY <1>3, <2>1, <3>1, <3>2, <3>4
    <3> QED
      BY <2>1, <3>2, <3>3, <3>5
  <2> QED
    BY <2>2, <2>3
<1>9. stop \in stops
  <2>1. Min(bound) \in Nat
    BY <1>1, <1>4
  <2> HIDE DEF stop
  <2> QED
    BY <1>1, <1>5, <1>7, <2>1
<1>10. Min(stops) \in stops /\ \A y \in stops : Min(stops) <= y
  BY <1>6, <1>9, MinNat
<1>11. Min(stops) = stop
  <2> DEFINE p == Min(stops)
  <2>1. p \in Nat /\ p <= stop /\ ~ (p < stop) /\ stop \in Nat
    BY <1>6, <1>7, <1>8, <1>9, <1>10
  <2> HIDE DEF p, stop
  <2>2. p = stop
    BY <2>1
  <2> QED
    BY <2>2 DEF p
<1> HIDE DEF stop
<1> QED
  BY <1>6, <1>7, <1>9, <1>10, <1>11 DEF all, stops, U, stop

\* The bound entries asked for lie in one interval.
LEMMA AskedInterval ==
  ASSUME NEW total \in Nat, NEW ref \in Nat \ {0}, ref <= total,
         NEW count \in Int, count # 0
  PROVE  LET start  == RangeStart(ref, count)
             target == Min({start[1] + start[2] - 1, total})
         IN  /\ start[1] \in Nat \ {0} /\ target \in Nat /\ start[1] <= target /\ target <= total
             /\ Asked(total, ref, count) = start[1] .. target
<1> DEFINE start  == RangeStart(ref, count)
           far    == start[1] + start[2] - 1
           target == Min({far, total})
<1>2. Asked(total, ref, count) =
        {k \in 1 .. total : IF count > 0 THEN k \in ref .. ref + count - 1
                            ELSE k \in ref + count + 1 .. ref}
  BY DEF Asked
<1>3. /\ start[1] = IF count >= 0 \/ ref + count + 1 < 1 THEN (IF count >= 0 THEN ref ELSE 1)
                    ELSE ref + count + 1
      /\ start[2] = IF count >= 0 THEN count ELSE IF ref + count + 1 < 1 THEN ref ELSE - count
  BY DEF RangeStart
<1> HIDE DEF start
<1>4. far \in Nat
  BY <1>3
<1>5. target \in {far, total} /\ target <= far /\ target <= total
  BY <1>4, MinNat
<1> HIDE DEF target
<1>6. start[1] \in Nat \ {0} /\ target \in Nat /\ start[1] <= target /\ target <= total
  BY <1>3, <1>4, <1>5
<1>7. CASE count > 0
  <2>1. start[1] = ref /\ far = ref + count - 1
    BY <1>3, <1>7
  <2>2. Asked(total, ref, count) = {k \in 1 .. total : k \in ref .. ref + count - 1}
    BY <1>2, <1>7
  <2>3. \A k \in Int : k \in 1 .. total /\ k \in ref .. ref + count - 1 <=> k \in ref .. target
    BY <1>4, <1>5, <2>1
  <2>4. Asked(total, ref, count) = ref .. target
    BY <2>2, <2>3
  <2> QED
    BY <1>6, <2>1, <2>4 DEF start, target
<1>8. CASE ~ (count > 0)
  <2>1. count < 0 /\ far = ref /\ target = ref
    BY <1>3, <1>4, <1>5, <1>8
  <2>2. Asked(total, ref, count) = {k \in 1 .. total : k \in ref + count + 1 .. ref}
    BY <1>2, <1>8
  <2>3. \A k \in Int : k \in 1 .. total /\ k \in ref + count + 1 .. ref <=> k \in start[1] .. target
    BY <1>3, <2>1
  <2>4. Asked(total, ref, count) = start[1] .. target
    BY <2>2, <2>3
  <2> QED
    BY <1>6, <2>4 DEF start, target
<1> QED
  BY <1>7, <1>8

\* What the loop encodes from the place where the seek for bound entry n stops:
\* the bound entries from n on or, after a gap, one slot that is none of them
\* and then these.
ListsFrom(bound, size, n) ==
  LET all    == Ascending(bound)
      listed == Listed(bound, Min(SeekStops(bound, size, n)))
  IN  /\ listed \in Seq(Nat) /\ Len(listed) >= Cardinality(bound) - n + 1
      /\ AfterGap(all, n) =>
           /\ listed[1] = all[n - 1] + 1 /\ listed[1] \notin bound
           /\ \A k \in 2 .. Len(listed) : listed[k] = all[n + k - 2]
      /\ ~ AfterGap(all, n) =>
           \A k \in 1 .. Len(listed) : listed[k] = all[n + k - 1]

LEMMA ListedFrom ==
  ASSUME NEW bound, NEW size, Slotted(bound, size), NEW n \in 1 .. Cardinality(bound)
  PROVE  ListsFrom(bound, size, n)
<1> DEFINE all    == Ascending(bound)
           total  == Cardinality(bound)
           p      == Min(SeekStops(bound, size, n))
           behind == {i \in bound : i > p}
           rest   == Ascending(behind)
           m      == Before(bound, p + 1)
           listed == Listed(bound, p)
<1>1. total \in Nat /\ n \in Nat \ {0} /\ n <= total /\ n \in 1 .. total
  BY BeforeGrows
<1>2. /\ p \in Nat /\ Before(bound, p) = n - 1
      /\ p = IF n = 1 THEN all[1] ELSE all[n - 1] + 1
  BY SeekStop
<1> HIDE DEF p
<1>3. m = (n - 1) + (IF p \in bound THEN 1 ELSE 0)
  <2>1. Before(bound, p + 1) = Before(bound, p) + (IF p \in bound THEN 1 ELSE 0)
    BY <1>2, BeforeGrows
  <2> QED
    BY <1>2, <2>1
<1>4. /\ Slotted(behind, size) /\ Cardinality(behind) = total - m
      /\ \A k \in 1 .. Cardinality(behind) : rest[k] = all[m + k]
  BY <1>2, AscendingBehind
<1>5. rest \in Seq(Nat) /\ Len(rest) = total - m
  BY <1>4, AscendingOrder
<1>6. listed = <<p>> \o rest
  BY DEF Listed
<1> HIDE DEF rest, behind, listed, total, m
<1>7. /\ listed \in Seq(Nat) /\ Len(listed) = 1 + Len(rest) /\ listed[1] = p
      /\ \A k \in 2 .. Len(listed) : listed[k] = rest[k - 1]
  BY <1>2, <1>5, <1>6
<1>8. \A k \in 2 .. Len(listed) : listed[k] = all[m + k - 1]
  <2> SUFFICES ASSUME NEW k \in 2 .. Len(listed) PROVE listed[k] = all[m + k - 1]
    OBVIOUS
  <2> DEFINE j == k - 1
  <2>1. j \in 1 .. Cardinality(behind) /\ m + j = m + k - 1
    BY <1>1, <1>3, <1>4, <1>5, <1>7
  <2>2. rest[j] = all[m + j]
    BY <1>4, <2>1
  <2> QED
    BY <1>7, <2>1, <2>2
<1>9. Len(listed) >= total - n + 1
  BY <1>1, <1>3, <1>5, <1>7
\* The seek stops at a bound entry unless there is a gap.
<1>10. /\ all[n] \in bound
       /\ p \in bound => all[n] = p
  <2>1. all[n] \in bound
    BY <1>1, AscendingOrder DEF total
  <2>2. ASSUME p \in bound PROVE all[n] = p
    <3>1. all[Before(bound, p) + 1] = p
      BY <2>2, AscendingOrder
    <3>2. Before(bound, p) + 1 = n
      BY <1>1, <1>2
    <3> QED
      BY <3>1, <3>2
  <2> QED
    BY <2>1, <2>2
<1>11. AfterGap(all, n) <=> p \notin bound
  <2>1. CASE n = 1
    BY <1>1, <1>2, <1>10, <2>1 DEF AfterGap
  <2>2. CASE n # 1
    <3>1. n > 1 /\ p = all[n - 1] + 1
      BY <1>1, <1>2, <2>2
    <3>2. AfterGap(all, n) <=> all[n] # p
      BY <3>1 DEF AfterGap
    <3> QED
      BY <1>10, <3>2
  <2> QED
    BY <2>1, <2>2
<1>12. CASE p \notin bound
  <2>1. m = n - 1 /\ n # 1 /\ AfterGap(all, n)
    BY <1>1, <1>2, <1>3, <1>10, <1>11, <1>12
  <2>2. \A k \in 2 .. Len(listed) : listed[k] = all[n + k - 2]
    <3>1. \A k \in 2 .. Len(listed) : m + k - 1 = n + k - 2
      BY <1>1, <2>1
    <3> QED
      BY <1>8, <3>1
  <2> QED
    BY <1>2, <1>7, <1>9, <1>12, <2>1, <2>2 DEF ListsFrom, listed, total, p
<1>13. CASE p \in bound
  <2>1. m = n /\ ~ AfterGap(all, n) /\ all[n] = p
    BY <1>1, <1>3, <1>10, <1>11, <1>13
  <2>2. ASSUME NEW k \in 1 .. Len(listed) PROVE listed[k] = all[n + k - 1]
    <3>1. CASE k = 1
      <4>1. n + k - 1 = n
        BY <1>1, <3>1
      <4> QED
        BY <1>7, <2>1, <3>1, <4>1
    <3>2. CASE k # 1
      <4>1. k \in 2 .. Len(listed)
        BY <3>2
      <4> QED
        BY <1>8, <2>1, <4>1
    <3> QED
      BY <3>1, <3>2
  <2> QED
    BY <1>7, <1>9, <2>1, <2>2 DEF ListsFrom, listed, total, p
<1> QED
  BY <1>12, <1>13

\* Of a table of any size, whichever of its slots are bound, and for any
\* position, count and room, a ReadRange by position returns the first of the
\* bindings asked for, in table order, with MORE_ITEMS if some did not fit, but
\* after a gap it starts with one slot that is none (address.c:951-1118).
THEOREM AnyTableReadAsAsked ==
  \A size \in Nat : \A bound \in SUBSET (0 .. size - 1) : ReadAsAsked(bound, size)
<1> SUFFICES ASSUME NEW size \in Nat, NEW bound \in SUBSET (0 .. size - 1),
                    NEW ref \in 1 .. size + 1, NEW count \in (-(size + 1) .. size + 1) \ {0},
                    NEW room \in 0 .. size, NEW beyond \in BOOLEAN,
                    rr_address_list_encode(bound, size, ref, count, room, beyond).items # <<>>,
                    ref <= Len(Ascending(bound))
             PROVE  LET r    == rr_address_list_encode(bound, size, ref, count, room, beyond)
                        all  == Ascending(bound)
                        ask  == Asked(Len(all), ref, count)
                        from == Min(ask)
                        n    == Len(r.items)
                    IN  /\ IF AfterGap(all, from)
                             THEN /\ r.items[1] = all[from - 1] + 1 /\ r.items[1] \notin bound
                                  /\ \A k \in 2 .. n : r.items[k] = all[from + k - 2]
                             ELSE \A k \in 1 .. n : r.items[k] = all[from + k - 1]
                        /\ from + n - 1 \in ask
                        /\ r.more <=> n < Cardinality(ask)
  BY DEF ReadAsAsked
<1> DEFINE r      == rr_address_list_encode(bound, size, ref, count, room, beyond)
           all    == Ascending(bound)
           total  == Cardinality(bound)
           ask    == Asked(Len(all), ref, count)
           start  == RangeStart(ref, count)
           from   == start[1]
           target == Min({start[1] + start[2] - 1, total})
           wanted == target - from + 1
           items  == Min({wanted, room})
           listed == Listed(bound, Min(SeekStops(bound, size, from)))
<1>1. Slotted(bound, size)
  BY DEF Slotted
<1>2. Len(all) = total /\ total \in Nat
  BY <1>1, AscendingOrder, BeforeGrows
<1>3. /\ from \in Nat \ {0} /\ target \in Nat /\ from <= target /\ target <= total
      /\ ask = from .. target
  <2>1. /\ ref \in Nat \ {0} /\ count \in Int /\ count # 0
        /\ total \in Nat /\ ref <= total /\ ask = Asked(total, ref, count)
    BY <1>2
  <2> HIDE DEF total, ask
  <2> QED
    BY <2>1, AskedInterval
<1>4. r.items = SubSeq(listed, 1, items) /\ r.more = (room < wanted)
  BY DEF rr_address_list_encode, address_count
<1>5. /\ listed \in Seq(Nat) /\ Len(listed) >= total - from + 1
      /\ AfterGap(all, from) =>
           /\ listed[1] = all[from - 1] + 1 /\ listed[1] \notin bound
           /\ \A k \in 2 .. Len(listed) : listed[k] = all[from + k - 2]
      /\ ~ AfterGap(all, from) =>
           \A k \in 1 .. Len(listed) : listed[k] = all[from + k - 1]
  <2>1. from \in 1 .. Cardinality(bound)
    BY <1>2, <1>3
  <2> HIDE DEF from
  <2>2. ListsFrom(bound, size, from)
    BY <1>1, <2>1, ListedFrom
  <2> QED
    BY <2>2 DEF ListsFrom
<1> HIDE DEF r, all, total, ask, from, target, listed
<1>6. wanted \in Nat \ {0} /\ room \in Nat /\ wanted <= Len(listed)
  <2>1. Len(listed) \in Nat /\ Len(listed) >= total - from + 1
    BY <1>5
  <2> QED
    BY <1>2, <1>3, <2>1
<1>7. items \in {wanted, room} /\ items <= wanted /\ items <= room /\ items \in Nat
  <2> HIDE DEF wanted
  <2> QED
    BY <1>6, MinNat
<1> HIDE DEF items
<1>8. items <= Len(listed) /\ \A i \in 1 .. items : listed[i] \in Nat
  <2>1. Len(listed) \in Nat /\ \A i \in 1 .. Len(listed) : listed[i] \in Nat
    BY <1>5
  <2>2. items <= Len(listed)
    <3> HIDE DEF wanted
    <3> QED
      BY <1>6, <1>7, <2>1
  <2> QED
    BY <1>7, <2>1, <2>2
<1>9. Len(r.items) = items /\ \A k \in 1 .. items : r.items[k] = listed[k]
  <2>1. Len(SubSeq(listed, 1, items)) = IF 1 <= items THEN items - 1 + 1 ELSE 0
    BY <1>7, <1>8, SubSeqProperties
  <2>2. \A k \in 1 .. items - 1 + 1 : SubSeq(listed, 1, items)[k] = listed[1 + k - 1]
    BY <1>7, <1>8, SubSeqProperties
  <2> QED
    BY <1>4, <1>7, <2>1, <2>2
<1>10. items > 0
  <2>1. items = 0 => SubSeq(listed, 1, items) = <<>>
    BY <1>7, <1>8, SubSeqEmpty
  <2> QED
    BY <1>4, <1>7, <2>1 DEF r
<1>11. Min(ask) = from
  <2>1. ask \in SUBSET Nat /\ from \in ask /\ \A k \in ask : from <= k
    BY <1>3
  <2>2. Min(ask) \in ask /\ \A k \in ask : Min(ask) <= k
    BY <2>1, MinNat
  <2>3. Min(ask) \in Nat /\ from \in Nat /\ Min(ask) <= from /\ from <= Min(ask)
    BY <2>1, <2>2
  <2> QED
    BY <2>3
<1>12. Cardinality(ask) = wanted
  BY <1>3, FS_Interval
<1>13. from + items - 1 \in ask
  BY <1>3, <1>7, <1>10
<1>14. room < wanted <=> items < wanted
  BY <1>6, <1>7
<1> HIDE DEF wanted
<1>15. IF AfterGap(all, from)
         THEN /\ r.items[1] = all[from - 1] + 1 /\ r.items[1] \notin bound
              /\ \A k \in 2 .. items : r.items[k] = all[from + k - 2]
         ELSE \A k \in 1 .. items : r.items[k] = all[from + k - 1]
  <2>1. 1 \in 1 .. items /\ \A k \in 1 .. items : k \in 1 .. Len(listed)
    BY <1>7, <1>8, <1>10
  <2>2. \A k \in 2 .. items : k \in 1 .. items /\ k \in 2 .. Len(listed)
    BY <2>1
  <2> QED
    BY <1>5, <1>9, <2>1, <2>2
<1> QED
  BY <1>4, <1>9, <1>11, <1>12, <1>13, <1>14, <1>15 DEF r, all, ask

\* ReadRange of the cache in every reachable state is such a read, and so is
\* that of the tables that the run lists one by one.
THEOREM RangeIsWhatIsAsked == CacheSpec => []RangeIsAsked
<1>1. RangeIsAsked
  <2> DEFINE bound == {i \in Entries : Bound(Address_Cache[i])}
  <2>1. MAX_ADDRESS_CACHE \in Nat /\ bound \in SUBSET (0 .. MAX_ADDRESS_CACHE - 1)
    BY AddressConstants DEF Entries
  <2>2. ReadAsAsked(bound, MAX_ADDRESS_CACHE)
    <3> HIDE DEF bound
    <3> QED
      BY <2>1, AnyTableReadAsAsked
  <2>3. SmallTablesReadAsAsked
    BY AnyTableReadAsAsked DEF SmallTablesReadAsAsked
  <2> QED
    BY <2>2, <2>3 DEF RangeIsAsked
<1> QED
  BY <1>1, PTL

=============================================================================
