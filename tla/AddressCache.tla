---------------------------- MODULE AddressCache ----------------------------
(***************************************************************************)
(* The address binding cache: basic/binding/address.c, with the I-Am       *)
(* handlers of basic/service/h_iam.c that feed it.                         *)
(*                                                                         *)
(* A device id is bound to a BACnet address (with its max APDU, one value  *)
(* here).  An entry is bound, or holds a bind request that waits for an    *)
(* I-Am.  Entries age; a full cache drops its shortest-lived entry; static *)
(* entries, from the address_cache file or address_set_device_TTL(), stay. *)
(***************************************************************************)
EXTENDS Naturals, Integers, FiniteSets, FiniteSetsExt, Sequences

CONSTANTS MAX_ADDRESS_CACHE,    \* entries (255 in config.h)
          Devices,              \* device instance numbers
          NoDevice,             \* 0xFFFFFFFF: no own id set
          Addresses,            \* address and max APDU
          NoAddress,            \* what an entry never filled holds
          CacheFile,            \* lines of the address_cache file
          SHORT_TIME, LONG_TIME, FOREVER,
          OwnIDs,               \* values of address_own_device_id_set()
          UserTTLs,             \* times set by address_set_device_TTL()
          Periods,              \* seconds between two calls of the timer
          TableSizes            \* bound: tables that ReadRange is checked on

ASSUME AddressConstants ==
  /\ MAX_ADDRESS_CACHE \in Nat \ {0}
  /\ {SHORT_TIME, LONG_TIME, FOREVER} \subseteq Nat
  /\ SHORT_TIME < LONG_TIME /\ LONG_TIME < FOREVER
  /\ OwnIDs \subseteq Devices
  /\ UserTTLs \subseteq 0 .. FOREVER
  /\ Periods \subseteq Nat \ {0}
  /\ TableSizes \in Nat
  /\ NoDevice \notin Devices /\ NoAddress \notin Addresses
  /\ CacheFile \in Seq(Devices \X Addresses)

VARIABLES Address_Cache, Top_Protected_Entry, Own_Device_ID,
          heard           \* history: the last address a bound device reported

settings   == <<Top_Protected_Entry, Own_Device_ID>>
cacheVars  == <<Address_Cache, settings, heard>>

Entries == 0 .. MAX_ADDRESS_CACHE - 1
None    == MAX_ADDRESS_CACHE             \* the code's NULL pointer

IN_USE   == "IN_USE"
BIND_REQ == "BIND_REQ"
STATIC   == "STATIC"
SHORT_TTL == "SHORT_TTL"
RESERVED == "RESERVED"
AllFlags == {IN_USE, BIND_REQ, STATIC, SHORT_TTL, RESERVED}

Entry == [Flags : SUBSET AllFlags, device_id : Devices \cup {NoDevice},
          address : Addresses \cup {NoAddress}, TimeToLive : 0 .. FOREVER]

----------------------------------------------------------------------------
(* Look-ups.                                                               *)

FirstOf(S) == IF S = {} THEN None ELSE Min(S)

Bound(e) == e.Flags \cap {IN_USE, BIND_REQ} = {IN_USE}

\* The entry in use for a device, bound or not.
EntryOf(c, d) ==
  FirstOf({i \in Entries : IN_USE \in c[i].Flags /\ c[i].device_id = d})

address_get_by_device(c, d) ==
  LET i == EntryOf(c, d)
  IN  IF i # None /\ Bound(c[i]) THEN c[i].address ELSE NoAddress

\* Mutant: the first pass looks at the protected entries too.
Mut_address_remove_oldest(c, top) ==
  LET Live(from, flags) ==
        {i \in from .. MAX_ADDRESS_CACHE - 1 :
           /\ c[i].Flags \cap {IN_USE, BIND_REQ, STATIC} = flags
           /\ c[i].TimeToLive < FOREVER}
      bound   == Live(0, {IN_USE})
      pending == Live(0, {IN_USE, BIND_REQ})
      Oldest(S) == IF S = {} THEN None
                   ELSE Max({i \in S : \A j \in S : c[i].TimeToLive <= c[j].TimeToLive})
  IN  IF bound # {} THEN Oldest(bound) ELSE Oldest(pending)

\* The entry that a full cache gives up: the shortest-lived bound one outside
\* the protected part, or else the shortest-lived bind request; the last one
\* of several.  The caller fills it at once, so the RESERVED flag it carries
\* in between is never seen.
address_remove_oldest(c, top) ==
  LET Live(from, flags) ==
        {i \in from .. MAX_ADDRESS_CACHE - 1 :
           /\ c[i].Flags \cap {IN_USE, BIND_REQ, STATIC} = flags
           /\ c[i].TimeToLive < FOREVER}
      bound   == Live(top, {IN_USE})
      pending == Live(0, {IN_USE, BIND_REQ})
      Oldest(S) == IF S = {} THEN None
                   ELSE Max({i \in S : \A j \in S : c[i].TimeToLive <= c[j].TimeToLive})
  IN  IF top > MAX_ADDRESS_CACHE - 1 THEN None
      ELSE IF bound # {} THEN Oldest(bound) ELSE Oldest(pending)

----------------------------------------------------------------------------
(* Cache operations, as functions of the cache.                            *)

\* A device already in the cache gets the address; the time to live depends
\* on how it came there.
RenewedEntry(e, a) ==
  [e EXCEPT !.address = a,
            !.TimeToLive = IF BIND_REQ \in e.Flags THEN LONG_TIME
                           ELSE IF STATIC \in e.Flags THEN FOREVER
                           ELSE IF SHORT_TTL \in e.Flags THEN SHORT_TIME
                           ELSE LONG_TIME,
            !.Flags = @ \ {BIND_REQ}]

NewEntry(d, a) ==
  [Flags |-> {IN_USE}, device_id |-> d, address |-> a, TimeToLive |-> SHORT_TIME]

\* Mutant: a known device is entered a second time when its entry is pending.
Mut_address_add(c, top, own, d, a) ==
  LET i      == EntryOf(c, d)
      free   == FirstOf({j \in Entries : IN_USE \notin c[j].Flags})
      oldest == address_remove_oldest(c, top)
      k      == IF free # None THEN free ELSE oldest
  IN  IF d = own THEN c
      ELSE IF i # None /\ Bound(c[i]) THEN [c EXCEPT ![i] = RenewedEntry(@, a)]
      ELSE IF k # None THEN [c EXCEPT ![k] = NewEntry(d, a)]
      ELSE c

address_add(c, top, own, d, a) ==
  LET i      == EntryOf(c, d)
      free   == FirstOf({j \in Entries : IN_USE \notin c[j].Flags})
      oldest == address_remove_oldest(c, top)
      k      == IF free # None THEN free ELSE oldest
  IN  IF d = own THEN c
      ELSE IF i # None THEN [c EXCEPT ![i] = RenewedEntry(@, a)]
      ELSE IF k # None THEN [c EXCEPT ![k] = NewEntry(d, a)]
      ELSE c

\* Mutant: the entry is taken for the device without marking it as pending.
Mut_PendingEntry(e, d) ==
  [e EXCEPT !.Flags = {IN_USE}, !.device_id = d, !.TimeToLive = SHORT_TIME]

\* The entry keeps the address of its former user.
PendingEntry(e, d) ==
  [e EXCEPT !.Flags = {IN_USE, BIND_REQ}, !.device_id = d,
            !.TimeToLive = SHORT_TIME]

\* Mutant: asking again restarts the time a pending request has to live.
Mut_address_device_bind_request(c, top, d) ==
  LET i      == EntryOf(c, d)
      free   == FirstOf({j \in Entries : c[j].Flags \cap {IN_USE, RESERVED} = {}})
      oldest == address_remove_oldest(c, top)
      k      == IF i # None THEN i ELSE IF free # None THEN free ELSE oldest
  IN  IF k = None \/ (i # None /\ Bound(c[k])) THEN c
      ELSE [c EXCEPT ![k] = PendingEntry(@, d)]

\* A binding that came unasked for is kept longer once it is asked for.
LongerEntry(e) == [e EXCEPT !.Flags = @ \ {SHORT_TTL}, !.TimeToLive = LONG_TIME]

address_device_bind_request(c, top, d) ==
  LET i      == EntryOf(c, d)
      free   == FirstOf({j \in Entries : c[j].Flags \cap {IN_USE, RESERVED} = {}})
      oldest == address_remove_oldest(c, top)
      k      == IF free # None THEN free ELSE oldest
  IN  IF i # None
        THEN IF Bound(c[i]) /\ SHORT_TTL \in c[i].Flags
               THEN [c EXCEPT ![i] = LongerEntry(@)]
               ELSE c
      ELSE IF k # None THEN [c EXCEPT ![k] = PendingEntry(@, d)]
      ELSE c

\* The device of an entry answered; a static entry keeps its time to live.
AnsweredEntry(e, a) ==
  [e EXCEPT !.address = a, !.Flags = @ \ {BIND_REQ},
            !.TimeToLive = IF STATIC \in e.Flags THEN @ ELSE LONG_TIME]

address_add_binding(c, d, a) ==
  LET i == EntryOf(c, d)
  IN  IF i = None THEN c ELSE [c EXCEPT ![i] = AnsweredEntry(@, a)]

\* Mutant: the static flag is set without the endless time to live.
Mut_address_set_device_TTL(c, d, t, static) ==
  LET i == EntryOf(c, d)
  IN  IF i = None THEN c
      ELSE IF ~ Bound(c[i]) THEN [c EXCEPT ![i].TimeToLive = t]
      ELSE [c EXCEPT ![i] =
              [@ EXCEPT !.Flags = IF static THEN @ \cup {STATIC} ELSE @ \ {STATIC},
                        !.TimeToLive = t]]

\* A pending entry gets the time only; a bound one becomes static or dynamic.
TimedEntry(e, t, static) ==
  IF ~ Bound(e) THEN [e EXCEPT !.TimeToLive = t]
  ELSE [e EXCEPT !.Flags = IF static THEN @ \cup {STATIC} ELSE @ \ {STATIC},
                 !.TimeToLive = IF static THEN FOREVER ELSE t]

address_set_device_TTL(c, d, t, static) ==
  LET i == EntryOf(c, d)
  IN  IF i = None THEN c ELSE [c EXCEPT ![i] = TimedEntry(@, t, static)]

\* Every line of the file is added and made static.
address_file_init(c, top, own) ==
  LET Line(cc, l) ==
        address_set_device_TTL(address_add(cc, top, own, l[1], l[2]), l[1], 0, TRUE)
      read[n \in 0 .. Len(CacheFile)] ==
        IF n = 0 THEN c ELSE Line(read[n - 1], CacheFile[n])
  IN  read[Len(CacheFile)]

Cleared(e) == [e EXCEPT !.Flags = {}]

\* Mutant: ageing does not spare the static entries.
Mut_Aged(e, s) ==
  IF e.Flags \cap {IN_USE, RESERVED} = {} THEN e
  ELSE IF e.TimeToLive >= s THEN [e EXCEPT !.TimeToLive = @ - s]
  ELSE Cleared(e)

\* What address_cache_timer() makes of one entry.
Aged(e, s) ==
  IF e.Flags \cap {IN_USE, RESERVED} = {} \/ STATIC \in e.Flags THEN e
  ELSE IF e.TimeToLive >= s THEN [e EXCEPT !.TimeToLive = @ - s]
  ELSE Cleared(e)

\* What address_init_partial() keeps of one entry.
Kept(e) ==
  IF \/ IN_USE \in e.Flags /\ (BIND_REQ \in e.Flags \/ e.TimeToLive = 0)
     \/ RESERVED \in e.Flags
    THEN Cleared(e) ELSE e

----------------------------------------------------------------------------
(* ReadRange over the bound entries, in table order: rr_address_list_encode.*)
(* It reads nothing of a table but which slots are bound, so it is written  *)
(* for any table of `size' slots, of which those in `bound' are bound.      *)

\* How many slots of S lie before i, and all of them in order.
Before(S, i) == Cardinality({j \in S : j < i})
Ascending(S) == [k \in 1 .. Cardinality(S) |-> CHOOSE i \in S : Before(S, i) = k - 1]

address_count(bound) == Cardinality(bound)

\* Mutant: a negative count reaches one entry too far back.
Mut_RangeStart(ref, count) ==
  IF count >= 0 THEN <<ref, count>>
  ELSE IF ref + count < 1 THEN <<1, ref>>
  ELSE <<ref + count, - count>>

\* A negative count counts backwards from ref.
RangeStart(ref, count) ==
  IF count >= 0 THEN <<ref, count>>
  ELSE IF ref + count + 1 < 1 THEN <<1, ref>>
  ELSE <<ref + count + 1, - count>>

\* Mutant: the entry that the seek starts at is not counted.
Mut_SeekStops(bound, size, ref) ==
  {p \in Min(bound) .. size - 1 : Before(bound, p) = ref}

\* From the first bound slot on, the slots at which the seek has counted its
\* way to ref.  It stops at the first of them, whether that is bound or not.
SeekStops(bound, size, ref) ==
  {p \in Min(bound) .. size - 1 : Before(bound, p) = ref - 1}

\* What the loop encodes from slot p on: that slot, and then each bound one.
Listed(bound, p) == <<p>> \o Ascending({i \in bound : i > p})

\* The result of a "by position" request for `count' entries from `ref', with
\* room for `room' of them.  After each encoded entry the code looks for the
\* next bound one, before it knows whether it needs it: at the end of the
\* table that search fails and the function returns 0.  When the last entry
\* of the table is the one just encoded, the search starts behind the array
\* and `beyond' says whether the byte it finds there looks like a bound entry.
\* (That read is outside the array, so either outcome is possible.)
rr_address_list_encode(bound, size, ref, count, room, beyond) ==
  LET total  == address_count(bound)
      start  == RangeStart(ref, count)
      stops  == SeekStops(bound, size, start[1])
      target == Min({start[1] + start[2] - 1, total})
      wanted == target - start[1] + 1
      items  == Min({wanted, room})
      last   == start[1] + items - 1
      listed == Listed(bound, Min(stops))
      fails  == /\ items > 0 /\ items = Len(listed)
                /\ listed[items] = size - 1 => ~ beyond
      Nothing(n) == [ItemCount |-> n, items |-> <<>>,
                     first |-> FALSE, last |-> FALSE, more |-> FALSE]
  IN  IF total = 0 \/ start[1] > total \/ stops = {} THEN Nothing(0)
      ELSE IF fails THEN Nothing(items)
      ELSE [ItemCount |-> items,
            items |-> SubSeq(listed, 1, items),
            first |-> start[1] = 1,
            last  |-> items > 0 /\ last = total,
            more  |-> room < wanted]

----------------------------------------------------------------------------
(* The specification.                                                      *)

Empty == [i \in Entries |-> [Flags |-> {}, device_id |-> NoDevice,
                             address |-> NoAddress, TimeToLive |-> 0]]

\* What the file reports of the devices it names, after h.
HeardFile(own, h) ==
  LET Line(hh, l) == IF l[1] = own THEN hh ELSE [hh EXCEPT ![l[1]] = l[2]]
      read[n \in 0 .. Len(CacheFile)] ==
        IF n = 0 THEN h ELSE Line(read[n - 1], CacheFile[n])
  IN  read[Len(CacheFile)]

\* The history of the devices that are still in the cache.
Remember(h) ==
  heard' = [d \in Devices |->
              IF address_get_by_device(Address_Cache', d) = NoAddress
                THEN NoAddress ELSE h[d]]

CacheInit ==
  /\ Address_Cache = address_file_init(Empty, 0, NoDevice)
  /\ Top_Protected_Entry = 0
  /\ Own_Device_ID = NoDevice
  /\ heard = HeardFile(NoDevice, [d \in Devices |-> NoAddress])

\* An I-Am: handler_i_am_add().
AddressAdd(d, a) ==
  /\ Address_Cache' = address_add(Address_Cache, Top_Protected_Entry,
                                  Own_Device_ID, d, a)
  /\ Remember(IF d = Own_Device_ID THEN heard ELSE [heard EXCEPT ![d] = a])
  /\ UNCHANGED settings

\* The older I-Am handler: handler_i_am_bind().
AddBinding(d, a) ==
  /\ Address_Cache' = address_add_binding(Address_Cache, d, a)
  /\ Remember([heard EXCEPT ![d] = a])
  /\ UNCHANGED settings

BindRequest(d) ==
  /\ Address_Cache' = address_device_bind_request(Address_Cache,
                                                  Top_Protected_Entry, d)
  /\ Remember(heard)
  /\ UNCHANGED settings

RemoveDevice(d) ==
  LET i == EntryOf(Address_Cache, d)
  IN  /\ i # None
      /\ Address_Cache' = [Address_Cache EXCEPT ![i] = Cleared(@)]
      /\ Top_Protected_Entry' = IF i < Top_Protected_Entry
                                  THEN Top_Protected_Entry - 1
                                  ELSE Top_Protected_Entry
      /\ Remember(heard)
      /\ UNCHANGED Own_Device_ID

SetDeviceTTL(d, t, static) ==
  /\ Address_Cache' = address_set_device_TTL(Address_Cache, d, t, static)
  /\ Remember(heard)
  /\ UNCHANGED settings

CacheTimer(s) ==
  /\ Address_Cache' = [i \in Entries |-> Aged(Address_Cache[i], s)]
  /\ Remember(heard)
  /\ UNCHANGED settings

AddressInit ==
  /\ Top_Protected_Entry' = 0
  /\ Address_Cache' = address_file_init([i \in Entries |-> Cleared(Address_Cache[i])],
                                        0, Own_Device_ID)
  /\ Remember(HeardFile(Own_Device_ID, heard))
  /\ UNCHANGED Own_Device_ID

AddressInitPartial ==
  /\ Address_Cache' = address_file_init([i \in Entries |-> Kept(Address_Cache[i])],
                                        Top_Protected_Entry, Own_Device_ID)
  /\ Remember(HeardFile(Own_Device_ID, heard))
  /\ UNCHANGED settings

\* Mutant: the index is not checked.
Mut_ProtectedEntryIndexSet(i) ==
  /\ Top_Protected_Entry' = i
  /\ UNCHANGED <<Address_Cache, Own_Device_ID, heard>>

ProtectedEntryIndexSet(i) ==
  /\ i <= MAX_ADDRESS_CACHE - 1
  /\ Top_Protected_Entry' = i
  /\ UNCHANGED <<Address_Cache, Own_Device_ID, heard>>

OwnDeviceIDSet(d) ==
  /\ Own_Device_ID' = d
  /\ UNCHANGED <<Address_Cache, Top_Protected_Entry, heard>>

Timer == \E s \in Periods : CacheTimer(s)

Inform == \E d \in Devices, a \in Addresses : AddressAdd(d, a) \/ AddBinding(d, a)

CacheNext ==
  \/ Inform
  \/ \E d \in Devices : BindRequest(d) \/ RemoveDevice(d)
  \/ \E d \in Devices, t \in UserTTLs, static \in BOOLEAN : SetDeviceTTL(d, t, static)
  \/ Timer
  \/ AddressInit
  \/ AddressInitPartial
  \/ \E i \in 0 .. MAX_ADDRESS_CACHE : ProtectedEntryIndexSet(i)
  \/ \E d \in OwnIDs : OwnDeviceIDSet(d)

CacheSpec == CacheInit /\ [][CacheNext]_cacheVars

\* The main loop calls the timer for ever.
CacheFairSpec == CacheSpec /\ WF_cacheVars(Timer)

----------------------------------------------------------------------------
(* Properties.                                                             *)

\* The cache and its settings stay well typed.
CacheTypeOK ==
  /\ Address_Cache \in [Entries -> Entry]
  /\ Top_Protected_Entry \in Entries
  /\ Own_Device_ID \in Devices \cup {NoDevice}

\* No device has two entries in use, however adding, bind requests, eviction
\* and the file interleave: the first entry a look-up finds is the only one.
DevicesUnique ==
  \A i, j \in Entries :
    /\ IN_USE \in Address_Cache[i].Flags /\ IN_USE \in Address_Cache[j].Flags
    /\ Address_Cache[i].device_id = Address_Cache[j].device_id
    => i = j

\* An entry is free, pending, bound or static, nothing in between: a slot
\* freed for a caller never stays RESERVED, a pending entry is never static,
\* and a static one never expires.
EntriesConsistent ==
  \A i \in Entries :
    LET e == Address_Cache[i]
    IN  /\ e.Flags \in {{}, {IN_USE}, {IN_USE, BIND_REQ}, {IN_USE, STATIC}}
        /\ STATIC \in e.Flags => e.TimeToLive = FOREVER

\* A device is looked up with the address it reported last, never with the
\* one that a former user left in the entry.
BoundAddressIsLatest ==
  \A d \in Devices :
    address_get_by_device(Address_Cache, d) \in {NoAddress, heard[d]}

\* The bindings are consistent after any order of operations: a device has one
\* entry, of a proper kind, and is looked up with the address it reported last.
BindingsConsistent == DevicesUnique /\ EntriesConsistent /\ BoundAddressIsLatest

\* A static binding disappears only when its device is removed or made
\* dynamic or the whole cache is initialised: neither ageing nor a full cache
\* nor a partial initialisation drops it.
StaticStays ==
  [][\A i \in Entries :
       LET d == Address_Cache[i].device_id
       IN  STATIC \in Address_Cache[i].Flags =>
             \/ STATIC \in Address_Cache'[i].Flags /\ Address_Cache'[i].device_id = d
             \/ RemoveDevice(d) \/ AddressInit
             \/ \E t \in UserTTLs : SetDeviceTTL(d, t, FALSE)]_cacheVars

\* A full cache never gives the entry of a bound device in the protected part
\* to another device.
ProtectedNotEvicted ==
  [][\A i \in Entries :
       /\ i < Top_Protected_Entry /\ Bound(Address_Cache[i])
       /\ IN_USE \in Address_Cache'[i].Flags
       /\ Address_Cache'[i].device_id # Address_Cache[i].device_id
       => AddressInit \/ AddressInitPartial]_cacheVars

\* Neither ageing, nor a full cache, nor the file drops a binding that is to stay.
BindingsKept == StaticStays /\ ProtectedNotEvicted

\* A bind request that nobody answers goes away, also when its caller keeps
\* asking (address_bind_request() in a loop), unless address_set_device_TTL()
\* gives it a longer life: asking does not hold a cache entry for ever.
PendingOf(d) ==
  {i \in Entries : /\ {IN_USE, BIND_REQ} \subseteq Address_Cache[i].Flags
                   /\ Address_Cache[i].device_id = d}

Prolonged(d) == \E i \in PendingOf(d) : Address_Cache[i].TimeToLive > SHORT_TIME

BindRequestsSettle ==
  \A d \in Devices : PendingOf(d) # {} ~> (PendingOf(d) = {} \/ Prolonged(d))

\* The bound entries, by number, that a request by position asks for: |count|
\* of them, from ref on or, when count is negative, up to ref.
Asked(total, ref, count) ==
  {k \in 1 .. total : IF count > 0 THEN k \in ref .. ref + count - 1
                      ELSE k \in ref + count + 1 .. ref}

\* Bound entry n does not follow the one before it at once.
AfterGap(all, n) == n > 1 /\ all[n] # all[n - 1] + 1

\* Of a table, for every request: a reply that is not empty lists the first of
\* the bound entries that were asked for, in table order.  The exception is a
\* range that starts after a gap: there the reply starts with the slot behind
\* the last bound entry before the gap, which is pending or free, and the
\* bound entries follow one place late.  MORE_ITEMS is set exactly when there
\* are fewer items than were asked for.
ReadAsAsked(bound, size) ==
  \A ref \in 1 .. size + 1, count \in (-(size + 1) .. size + 1) \ {0},
     room \in 0 .. size, beyond \in BOOLEAN :
    LET r    == rr_address_list_encode(bound, size, ref, count, room, beyond)
        all  == Ascending(bound)
        ask  == Asked(Len(all), ref, count)
        from == Min(ask)
        n    == Len(r.items)
    IN  (r.items # <<>> /\ ref <= Len(all)) =>
          /\ IF AfterGap(all, from)
               THEN /\ r.items[1] = all[from - 1] + 1 /\ r.items[1] \notin bound
                    /\ \A k \in 2 .. n : r.items[k] = all[from + k - 2]
               ELSE \A k \in 1 .. n : r.items[k] = all[from + k - 1]
          /\ from + n - 1 \in ask
          /\ r.more <=> n < Cardinality(ask)

SmallTablesReadAsAsked ==
  \A size \in 1 .. TableSizes : \A bound \in SUBSET (0 .. size - 1) :
    ReadAsAsked(bound, size)

\* What ReadRange returns of the cache, and of any other small table, is what
\* was asked for, but for one slot that is none when the range starts after a gap.
RangeIsAsked ==
  /\ ReadAsAsked({i \in Entries : Bound(Address_Cache[i])}, MAX_ADDRESS_CACHE)
  /\ SmallTablesReadAsAsked
=============================================================================
