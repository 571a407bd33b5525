----------------------------- MODULE Tsm_proofs -----------------------------
(***************************************************************************)
(* Proofs about Tsm for every table size, id width, time-out and retry     *)
(* setting that TsmConstants allows.                                       *)
(***************************************************************************)
EXTENDS Tsm, FiniteSetTheorems, WellFoundedInduction, TLAPS

\* A non-empty set of naturals has a least element, and Min is it.
LEMMA MinNat ==
  ASSUME NEW T \in SUBSET Nat, T # {}
  PROVE  Min(T) \in T /\ \A y \in T : Min(T) <= y
<1> DEFINE R == OpToRel(<, Nat)
<1>1. PICK x \in T : \A y \in T : ~ (<<y, x>> \in R)
  BY WFMin, NatLessThanWellFounded
<1>2. R = {ss \in Nat \X Nat : ss[1] < ss[2]}
  BY Zenon DEF OpToRel
<1> HIDE DEF R
<1>3. ASSUME NEW y \in T PROVE x <= y
  <2>1. x \in Nat /\ y \in Nat
    OBVIOUS
  <2>2. <<y, x>> \in Nat \X Nat /\ <<y, x>>[1] = y /\ <<y, x>>[2] = x
    BY <2>1
  <2>3. <<y, x>> \notin R
    BY <1>1
  <2>4. ~ (y < x)
    BY <1>2, <2>2, <2>3, Zenon
  <2> QED
    BY <2>1, <2>4
<1> QED
  BY <1>3 DEF Min

\* What tsm_find_invokeID_index() answers.
LEMMA FindIndex ==
  ASSUME NEW list \in [Slots -> Slot], NEW id
  PROVE  LET x == tsm_find_invokeID_index(list, id)
         IN  \/ x \in Slots /\ list[x].InvokeID = id
             \/ /\ x = MAX_TSM_TRANSACTIONS /\ x \notin Slots
                /\ \A i \in Slots : list[i].InvokeID # id
<1> DEFINE found == {i \in Slots : list[i].InvokeID = id}
<1>1. CASE found = {}
  BY <1>1, TsmConstants DEF tsm_find_invokeID_index, Slots
<1>2. CASE found # {}
  <2>1. found \in SUBSET Nat
    BY TsmConstants DEF Slots
  <2>2. Min(found) \in found
    BY <1>2, <2>1, MinNat
  <2> QED
    BY <1>2, <2>2 DEF tsm_find_invokeID_index
<1> QED
  BY <1>1, <1>2

\* The pigeonhole argument behind the search loop of tsm_next_free_invokeID():
\* one slot is free, so fewer than MAX_TSM_TRANSACTIONS ids are in the table,
\* and there are at least that many ids.
LEMMA SomeIDUnused ==
  ASSUME NEW list \in [Slots -> Slot], tsm_transaction_available(list)
  PROVE  UnusedIDs(list) # {}
<1> SUFFICES ASSUME UnusedIDs(list) = {} PROVE FALSE
  OBVIOUS
<1>1. \A id \in InvokeIDs : \E i \in Slots : list[i].InvokeID = id
  BY FindIndex DEF UnusedIDs, tsm_invoke_id_free
<1>2. PICK z \in Slots : list[z].InvokeID = 0
  BY DEF tsm_transaction_available
<1> DEFINE U == Slots \ {z}
           g == [id \in InvokeIDs |-> CHOOSE i \in U : list[i].InvokeID = id]
<1>3. \A id \in InvokeIDs : \E i \in U : list[i].InvokeID = id
  <2> TAKE id \in InvokeIDs
  <2>1. PICK i \in Slots : list[i].InvokeID = id
    BY <1>1
  <2>2. id # 0
    BY TsmConstants DEF InvokeIDs
  <2>3. i \in U
    BY <1>2, <2>1, <2>2
  <2> QED
    BY <2>1, <2>3
<1>4. \A id \in InvokeIDs : g[id] \in U /\ list[g[id]].InvokeID = id
  BY <1>3
<1>5. g \in [InvokeIDs -> U]
  BY <1>4
<1>6. IsFiniteSet(Slots) /\ Cardinality(Slots) = MAX_TSM_TRANSACTIONS
  <2>1. 0 \in Int /\ MAX_TSM_TRANSACTIONS - 1 \in Int /\ ~ (0 > MAX_TSM_TRANSACTIONS - 1)
    BY TsmConstants
  <2> QED
    BY <2>1, FS_Interval, TsmConstants DEF Slots
<1>7. IsFiniteSet(InvokeIDs) /\ Cardinality(InvokeIDs) = MAX_INVOKE_ID
  <2>1. 1 \in Int /\ MAX_INVOKE_ID \in Int /\ ~ (1 > MAX_INVOKE_ID)
    BY TsmConstants
  <2> QED
    BY <2>1, FS_Interval, TsmConstants DEF InvokeIDs
<1>8. IsFiniteSet(U) /\ Cardinality(U) = MAX_TSM_TRANSACTIONS - 1
  BY <1>2, <1>6, FS_RemoveElement
<1>9. Cardinality(U) < Cardinality(InvokeIDs)
  BY <1>7, <1>8, TsmConstants
<1>10. \E x, y \in InvokeIDs : x # y /\ g[x] = g[y]
  <2> HIDE DEF U, g
  <2> QED
    BY <1>5, <1>7, <1>8, <1>9, FS_PigeonHole
<1> QED
  BY <1>4, <1>10

\* The id that tsm_next_free_invokeID() hands out is not in the table.
LEMMA FreshID ==
  ASSUME NEW list \in [Slots -> Slot], tsm_transaction_available(list),
         NEW current
  PROVE  /\ FirstUnusedID(list, current) \in InvokeIDs
         /\ \A i \in Slots : list[i].InvokeID # FirstUnusedID(list, current)
<1> DEFINE ahead == {id \in UnusedIDs(list) : id >= current}
<1>1. UnusedIDs(list) # {} /\ UnusedIDs(list) \in SUBSET Nat
  BY SomeIDUnused, TsmConstants DEF UnusedIDs, InvokeIDs
<1>2. ahead \in SUBSET Nat
  BY <1>1
<1>3. FirstUnusedID(list, current) \in UnusedIDs(list)
  <2>1. CASE ahead = {}
    BY <1>1, <2>1, MinNat DEF FirstUnusedID
  <2>2. CASE ahead # {}
    <3>1. Min(ahead) \in ahead
      BY <1>2, <2>2, MinNat
    <3> QED
      BY <2>2, <3>1 DEF FirstUnusedID
  <2> QED
    BY <2>1, <2>2
<1>4. FirstUnusedID(list, current) \in InvokeIDs
      /\ tsm_find_invokeID_index(list, FirstUnusedID(list, current))
           = MAX_TSM_TRANSACTIONS
  BY <1>3 DEF UnusedIDs, tsm_invoke_id_free
<1>5. MAX_TSM_TRANSACTIONS \notin Slots
  BY TsmConstants DEF Slots
<1> QED
  BY <1>4, <1>5, FindIndex

----------------------------------------------------------------------------
(* The table operations keep the table well formed.                        *)

\* The inductive invariant: UniqueInvokeIDs needs the type of the table, and
\* the refinement below needs that an unused slot is idle.
TsmIInv == TsmTypeOK /\ UniqueInvokeIDs /\ UnusedIsIdle

LEMMA SlotUpdate ==
  ASSUME NEW list \in [Slots -> Slot], NEW i \in Slots, NEW e \in Slot
  PROVE  /\ [list EXCEPT ![i] = e] \in [Slots -> Slot]
         /\ [list EXCEPT ![i] = e][i] = e
         /\ \A j \in Slots \ {i} : [list EXCEPT ![i] = e][j] = list[j]
  OBVIOUS

LEMMA ReservedSlotType ==
  ASSUME NEW e \in Slot, NEW id \in 0 .. MAX_INVOKE_ID,
         Timeout_Milliseconds \in Nat
  PROVE  /\ ReservedSlot(e, id) \in Slot
         /\ ReservedSlot(e, id).InvokeID = id
         /\ ReservedSlot(e, id).state = IDLE
  BY DEF Slot, ReservedSlot

LEMMA FreedSlot ==
  ASSUME NEW e \in Slot, NEW id \in 0 .. MAX_INVOKE_ID
  PROVE  LET f == [e EXCEPT !.state = IDLE, !.InvokeID = id]
         IN  f \in Slot /\ f.InvokeID = id /\ f.state = IDLE
  BY DEF Slot

LEMMA ResentSlotType ==
  ASSUME NEW e \in Slot, Timeout_Milliseconds \in Nat
  PROVE  /\ ResentSlot(e) \in Slot /\ ResentSlot(e).InvokeID = e.InvokeID
         /\ ResentSlot(e).request = e.request /\ ResentSlot(e).state = e.state
         /\ ResentSlot(e).RetryCount = e.RetryCount + 1
<1> DEFINE n == e.RetryCount + 1
<1>1. n \in Nat
  BY DEF Slot
<1>2. ResentSlot(e) = [e EXCEPT !.RequestTimer = Timeout_Milliseconds,
                                !.RetryCount = n]
  BY DEF ResentSlot
<1> HIDE DEF n
<1>3. /\ ResentSlot(e) \in Slot /\ ResentSlot(e).InvokeID = e.InvokeID
      /\ ResentSlot(e).request = e.request /\ ResentSlot(e).state = e.state
      /\ ResentSlot(e).RetryCount = n
  BY <1>1, <1>2 DEF Slot
<1> QED
  BY <1>3 DEF n

\* What the timer makes of a slot is a slot with the same id; it never leaves
\* IDLE, and keeps the request.
LEMMA TimerSlotKeeps ==
  ASSUME NEW e \in Slot, NEW ms \in Nat, Timeout_Milliseconds \in Nat
  PROVE  LET f == TimerSlot(e, ms)
         IN  /\ f \in Slot /\ f.InvokeID = e.InvokeID
             /\ f.request = e.request
             /\ e.state = IDLE => f.state = IDLE
<1>1. Remaining(e, ms) \in Nat
  BY DEF Remaining, Slot
<1>2. CASE Resends(e, ms)
  <2>1. TimerSlot(e, ms) = ResentSlot(e)
    BY <1>2 DEF TimerSlot
  <2> QED
    BY <2>1, ResentSlotType
<1>3. CASE ~ Resends(e, ms) /\ Fails(e, ms)
  BY <1>3 DEF TimerSlot, Slot
<1>4. CASE ~ Resends(e, ms) /\ ~ Fails(e, ms) /\ e.state = AWAIT
  BY <1>1, <1>4 DEF TimerSlot, Slot
<1>5. CASE ~ Resends(e, ms) /\ ~ Fails(e, ms) /\ e.state # AWAIT
  BY <1>5 DEF TimerSlot
<1> QED
  BY <1>2, <1>3, <1>4, <1>5

LEMMA InitIInv == TsmInit => TsmIInv
<1> SUFFICES ASSUME TsmInit PROVE TsmIInv
  OBVIOUS
<1>1. \A i \in Slots : TSM_List[i] \in Slot /\ TSM_List[i].InvokeID = 0
                       /\ TSM_List[i].state = IDLE
  BY TsmConstants DEF TsmInit, Slot, IDLE
<1>2. TsmTypeOK
  BY <1>1, TsmConstants DEF TsmInit, TsmTypeOK, InvokeIDs
<1> QED
  BY <1>1, <1>2 DEF TsmIInv, UniqueInvokeIDs, UnusedIsIdle

LEMMA NextFreeIInv == TsmIInv /\ NextFreeInvokeID => TsmIInv'
<1> SUFFICES ASSUME TsmIInv, NextFreeInvokeID PROVE TsmIInv'
  OBVIOUS
<1>1. CASE ~ tsm_transaction_available(TSM_List)
  <2>1. TSM_List' = TSM_List /\ Current_Invoke_ID' = Current_Invoke_ID
        /\ UNCHANGED config
    BY <1>1 DEF NextFreeInvokeID, tsm_next_free_invokeID
  <2> QED
    BY <2>1 DEF TsmIInv, TsmTypeOK, UniqueInvokeIDs, UnusedIsIdle, config
<1>2. CASE tsm_transaction_available(TSM_List)
  <2> DEFINE id == FirstUnusedID(TSM_List, Current_Invoke_ID)
             k  == tsm_find_first_free_index(TSM_List)
             e  == ReservedSlot(TSM_List[k], id)
  <2>0. TSM_List \in [Slots -> Slot]
    BY DEF TsmIInv, TsmTypeOK
  <2>1. id \in InvokeIDs /\ \A i \in Slots : TSM_List[i].InvokeID # id
    BY <1>2, <2>0, FreshID
  <2>2. k \in Slots
    BY <1>2, <2>0, FindIndex DEF tsm_find_first_free_index, tsm_transaction_available
  <2>3. /\ TSM_List' = [TSM_List EXCEPT ![k] = e]
        /\ Current_Invoke_ID' = NextInvokeID(id)
        /\ UNCHANGED config
    BY <1>2 DEF NextFreeInvokeID, tsm_next_free_invokeID
  <2>4. TSM_List[k] \in Slot /\ Timeout_Milliseconds \in Nat
    BY <2>0, <2>2, TsmConstants DEF TsmIInv, TsmTypeOK
  <2>5. e \in Slot /\ e.InvokeID = id /\ e.state = IDLE
    <3>1. id \in 0 .. MAX_INVOKE_ID
      BY <2>1 DEF InvokeIDs
    <3> QED
      BY <2>4, <3>1, ReservedSlotType, Zenon
  <2> HIDE DEF e, id, k
  <2>6. /\ TSM_List' \in [Slots -> Slot] /\ TSM_List'[k] = e
        /\ \A j \in Slots \ {k} : TSM_List'[j] = TSM_List[j]
    BY <2>0, <2>2, <2>3, <2>5, SlotUpdate
  <2>7. Current_Invoke_ID' \in InvokeIDs
    BY <2>1, <2>3, TsmConstants DEF NextInvokeID, InvokeIDs
  <2>8. TsmTypeOK'
    BY <2>3, <2>6, <2>7 DEF TsmIInv, TsmTypeOK, config
  <2>9. UniqueInvokeIDs'
    <3> SUFFICES ASSUME NEW i \in Slots, NEW j \in Slots,
                        TSM_List'[i].InvokeID = TSM_List'[j].InvokeID,
                        TSM_List'[i].InvokeID # 0
                 PROVE  i = j
      BY DEF UniqueInvokeIDs
    <3> QED
      BY <2>1, <2>2, <2>5, <2>6 DEF TsmIInv, UniqueInvokeIDs
  <2>10. UnusedIsIdle'
    BY <2>5, <2>6 DEF TsmIInv, UnusedIsIdle
  <2> QED
    BY <2>8, <2>9, <2>10 DEF TsmIInv
<1> QED
  BY <1>1, <1>2

LEMMA SetTransactionIInv ==
  ASSUME TsmIInv, NEW id \in InvokeIDs, NEW r \in Requests, SetTransaction(id, r)
  PROVE  TsmIInv'
<1> DEFINE k == tsm_find_invokeID_index(TSM_List, id)
           e == [TSM_List[k] EXCEPT !.state = AWAIT, !.RetryCount = 0,
                           !.RequestTimer = Timeout_Milliseconds, !.request = r]
<1>0. TSM_List \in [Slots -> Slot] /\ id # 0 /\ Timeout_Milliseconds \in Nat
  BY TsmConstants DEF TsmIInv, TsmTypeOK, InvokeIDs
<1>1. k \in Slots /\ TSM_List[k].InvokeID = id
  BY <1>0, FindIndex DEF SetTransaction, tsm_invoke_id_failed
<1>2. TSM_List' = [TSM_List EXCEPT ![k] = e]
      /\ UNCHANGED <<Current_Invoke_ID, config>>
  BY <1>0, <1>1 DEF SetTransaction, tsm_set_confirmed_unsegmented_transaction
<1>3. TSM_List[k] \in Slot
  BY <1>0, <1>1
<1>4. e \in Slot /\ e.InvokeID = id
  BY <1>0, <1>1, <1>3 DEF Slot, AWAIT
<1> HIDE DEF e, k
<1>5. /\ TSM_List' \in [Slots -> Slot] /\ TSM_List'[k] = e
      /\ \A j \in Slots \ {k} : TSM_List'[j] = TSM_List[j]
  BY <1>0, <1>1, <1>2, <1>4, SlotUpdate
<1>6. TsmTypeOK'
  BY <1>2, <1>5 DEF TsmIInv, TsmTypeOK, config
<1>7. \A j \in Slots : TSM_List'[j].InvokeID = TSM_List[j].InvokeID
  BY <1>1, <1>4, <1>5
<1>8. UniqueInvokeIDs'
  BY <1>7 DEF TsmIInv, UniqueInvokeIDs
<1>9. UnusedIsIdle'
  BY <1>0, <1>1, <1>4, <1>5 DEF TsmIInv, UnusedIsIdle
<1> QED
  BY <1>6, <1>8, <1>9 DEF TsmIInv

LEMMA FreeIInv ==
  ASSUME TsmIInv, NEW id \in 0 .. MAX_INVOKE_ID, FreeInvokeID(id)
  PROVE  TsmIInv'
<1> DEFINE k == tsm_find_invokeID_index(TSM_List, id)
           e == [TSM_List[k] EXCEPT !.state = IDLE, !.InvokeID = 0]
<1>0. TSM_List \in [Slots -> Slot]
  BY DEF TsmIInv, TsmTypeOK
<1>1. CASE k \notin Slots
  <2>1. UNCHANGED <<TSM_List, Current_Invoke_ID, config>>
    BY <1>1 DEF FreeInvokeID, tsm_free_invoke_id
  <2> QED
    BY <2>1 DEF TsmIInv, TsmTypeOK, UniqueInvokeIDs, UnusedIsIdle, config
<1>2. CASE k \in Slots
  <2>1. TSM_List' = [TSM_List EXCEPT ![k] = e]
        /\ UNCHANGED <<Current_Invoke_ID, config>>
    BY <1>2 DEF FreeInvokeID, tsm_free_invoke_id
  <2>2. TSM_List[k] \in Slot
    BY <1>0, <1>2
  <2>3. e \in Slot /\ e.InvokeID = 0 /\ e.state = IDLE
    <3>1. 0 \in 0 .. MAX_INVOKE_ID
      BY TsmConstants
    <3> QED
      BY <2>2, <3>1, FreedSlot
  <2> HIDE DEF e, k
  <2>4. /\ TSM_List' \in [Slots -> Slot] /\ TSM_List'[k] = e
        /\ \A j \in Slots \ {k} : TSM_List'[j] = TSM_List[j]
    BY <1>0, <1>2, <2>1, <2>3, SlotUpdate
  <2>5. TsmTypeOK'
    BY <2>1, <2>4 DEF TsmIInv, TsmTypeOK, config
  <2>6. UniqueInvokeIDs'
    BY <2>3, <2>4 DEF TsmIInv, UniqueInvokeIDs
  <2>7. UnusedIsIdle'
    BY <2>3, <2>4 DEF TsmIInv, UnusedIsIdle
  <2> QED
    BY <2>5, <2>6, <2>7 DEF TsmIInv
<1> QED
  BY <1>1, <1>2

LEMMA TimerIInv ==
  ASSUME TsmIInv, NEW ms \in Ticks, TimerMilliseconds(ms)
  PROVE  TsmIInv'
<1>1. TSM_List \in [Slots -> Slot] /\ ms \in Nat /\ Timeout_Milliseconds \in Nat
  BY TsmConstants DEF TsmIInv, TsmTypeOK
<1>2. \A i \in Slots : /\ TSM_List'[i] \in Slot
                       /\ TSM_List'[i].InvokeID = TSM_List[i].InvokeID
                       /\ TSM_List[i].state = IDLE => TSM_List'[i].state = IDLE
  BY <1>1, TimerSlotKeeps DEF TimerMilliseconds
<1>3. TsmTypeOK'
  BY <1>2 DEF TsmIInv, TsmTypeOK, TimerMilliseconds, config
<1>4. UniqueInvokeIDs'
  BY <1>2 DEF TsmIInv, UniqueInvokeIDs
<1>5. UnusedIsIdle'
  BY <1>2 DEF TsmIInv, UnusedIsIdle
<1> QED
  BY <1>3, <1>4, <1>5 DEF TsmIInv

LEMMA SettingsIInv ==
  ASSUME TsmIInv,
         \/ \E id \in 0 .. MAX_INVOKE_ID : InvokeIDSet(id)
         \/ \E ms \in Timeouts : ApduTimeoutSet(ms)
         \/ \E n \in Retries : ApduRetriesSet(n)
         \/ UNCHANGED tsmVars
  PROVE  TsmIInv'
<1>1. TSM_List' = TSM_List
  BY DEF InvokeIDSet, ApduTimeoutSet, ApduRetriesSet, tsmVars
<1>2. Current_Invoke_ID' \in InvokeIDs
  BY TsmConstants DEF InvokeIDSet, ApduTimeoutSet, ApduRetriesSet, tsmVars,
                      TsmIInv, TsmTypeOK, InvokeIDs
<1>3. Timeout_Milliseconds' \in Timeouts /\ Number_Of_Retries' \in Retries
  BY DEF InvokeIDSet, ApduTimeoutSet, ApduRetriesSet, tsmVars, TsmIInv,
         TsmTypeOK, config
<1> QED
  BY <1>1, <1>2, <1>3 DEF TsmIInv, TsmTypeOK, UniqueInvokeIDs, UnusedIsIdle

LEMMA NextIInv == TsmIInv /\ [TsmNext]_tsmVars => TsmIInv'
  BY NextFreeIInv, SetTransactionIInv, FreeIInv, TimerIInv, SettingsIInv
     DEF TsmNext, Timer

\* The inductive invariant holds in every reachable state.
LEMMA TsmInductive == TsmSpec => []TsmIInv
  BY InitIInv, NextIInv, PTL DEF TsmSpec

----------------------------------------------------------------------------
(* The theorems.                                                           *)

\* The table and the id counter of tsm.c keep their types: in particular the
\* counter, a wrapping uint8_t, is never 0.
THEOREM TsmTypeCorrect == TsmSpec => []TsmTypeOK
<1>1. TsmIInv => TsmTypeOK
  BY DEF TsmIInv
<1> QED
  BY <1>1, TsmInductive, PTL

\* tsm_next_free_invokeID() never puts an id into the table a second time,
\* for any number of slots and ids and any use of tsm_invokeID_set().
THEOREM InvokeIDsUnique == TsmSpec => []UniqueInvokeIDs
<1>1. TsmIInv => UniqueInvokeIDs
  BY DEF TsmIInv
<1> QED
  BY <1>1, TsmInductive, PTL

\* What the inductive invariant says of the table, also where other components
\* use it and their invariants contain this one.
LEMMA FreedSlotsLemma == TsmIInv => FreedSlotsAreIdle
<1> SUFFICES ASSUME TsmIInv PROVE FreedSlotsAreIdle
  OBVIOUS
<1> DEFINE idle == {i \in Slots : TSM_List[i].InvokeID = 0
                                   /\ TSM_List[i].state = IDLE}
<1>1. UnusedIsIdle
  BY DEF TsmIInv
<1>2. tsm_transaction_available(TSM_List) <=> idle # {}
  BY <1>1 DEF tsm_transaction_available, UnusedIsIdle
<1>3. IsFiniteSet(Slots)
  BY FS_Interval, TsmConstants DEF Slots
<1>4. IsFiniteSet(idle)
  BY <1>3, FS_Subset
<1>5. Cardinality(idle) \in Nat /\ (Cardinality(idle) = 0 <=> idle = {})
  BY <1>4, FS_EmptySet, FS_CardinalityType
<1>6. tsm_transaction_idle_count(TSM_List) > 0 <=> idle # {}
  BY <1>5 DEF tsm_transaction_idle_count
<1> QED
  BY <1>1, <1>2, <1>6 DEF FreedSlotsAreIdle

LEMMA TsmIInvSafe == TsmIInv => UniqueInvokeIDs /\ FreedSlotsAreIdle /\ SearchEnds
<1>1. TsmTypeOK => SearchEnds
  BY SomeIDUnused DEF TsmTypeOK, SearchEnds
<1> QED
  BY <1>1, FreedSlotsLemma DEF TsmIInv

\* A freed slot never retransmits, and the two functions that count free
\* slots, by id and by id and state, agree.
THEOREM FreedSlotsIdle == TsmSpec => []FreedSlotsAreIdle
  BY TsmIInvSafe, TsmInductive, PTL

\* The search loop of tsm_next_free_invokeID() always finds an id when it is
\* entered, also when the table has as many slots as there are ids.
THEOREM SearchAlwaysEnds == TsmSpec => []SearchEnds
  BY TsmIInvSafe, TsmInductive, PTL

----------------------------------------------------------------------------
(* The table implements the transaction service.  The refinement mapping   *)
(* reads an invoke id's state from the slot that holds it; uniqueness of   *)
(* the ids makes that slot unique.                                         *)

Unique(list) ==
  \A i, j \in Slots :
    list[i].InvokeID = list[j].InvokeID /\ list[i].InvokeID # 0 => i = j

SlotView(e) ==
  IF e.state = IDLE THEN [phase |-> "reserved"]
  ELSE [phase |-> "awaiting", request |-> e.request, retries |-> e.RetryCount]

LEMMA PendingPresent ==
  ASSUME NEW list \in [Slots -> Slot], Unique(list), NEW i \in Slots,
         list[i].InvokeID # 0
  PROVE  PendingIn(list, list[i].InvokeID) = SlotView(list[i])
<1> DEFINE x == tsm_find_invokeID_index(list, list[i].InvokeID)
<1>1. x \in Slots /\ list[x].InvokeID = list[i].InvokeID
  BY FindIndex
<1>2. x = i
  BY <1>1 DEF Unique
<1> QED
  BY <1>2 DEF PendingIn, SlotView

LEMMA PendingAbsent ==
  ASSUME NEW list \in [Slots -> Slot], NEW id,
         \A i \in Slots : list[i].InvokeID # id
  PROVE  PendingIn(list, id) = [phase |-> "unused"]
<1> DEFINE x == tsm_find_invokeID_index(list, id)
<1>1. x \notin Slots
  BY FindIndex
<1> QED
  BY <1>1 DEF PendingIn

\* A table operation that touches one slot leaves the view of every id that
\* the slot held neither before nor after.
LEMMA OtherIDs ==
  ASSUME NEW list \in [Slots -> Slot], NEW new \in [Slots -> Slot],
         Unique(list), Unique(new), NEW k \in Slots,
         \A j \in Slots \ {k} : new[j] = list[j],
         NEW x \in InvokeIDs, x # list[k].InvokeID, x # new[k].InvokeID
  PROVE  PendingIn(new, x) = PendingIn(list, x)
<1>0. x # 0
  BY TsmConstants DEF InvokeIDs
<1>1. CASE \E i \in Slots : list[i].InvokeID = x
  <2>1. PICK i \in Slots : list[i].InvokeID = x
    BY <1>1
  <2>2. new[i] = list[i] /\ new[i].InvokeID = x
    BY <2>1
  <2>3. PendingIn(list, x) = SlotView(list[i])
    BY <1>0, <2>1, PendingPresent
  <2>4. PendingIn(new, x) = SlotView(new[i])
    BY <1>0, <2>2, PendingPresent
  <2> QED
    BY <2>2, <2>3, <2>4
<1>2. CASE \A i \in Slots : list[i].InvokeID # x
  <2>1. \A i \in Slots : new[i].InvokeID # x
    BY <1>2
  <2> QED
    BY <1>2, <2>1, PendingAbsent
<1> QED
  BY <1>1, <1>2

\* An id is in use exactly when a slot holds it.
LEMMA UsedIDs ==
  ASSUME NEW list \in [Slots -> Slot], NEW id
  PROVE  PendingIn(list, id) # [phase |-> "unused"]
           <=> \E i \in Slots : list[i].InvokeID = id
<1> DEFINE x == tsm_find_invokeID_index(list, id)
<1>1. CASE x \in Slots
  <2>1. list[x].InvokeID = id
    BY <1>1, FindIndex
  <2>2. PendingIn(list, id) = SlotView(list[x])
    BY <1>1 DEF PendingIn, SlotView
  <2>3. SlotView(list[x]).phase # "unused"
    BY DEF SlotView
  <2> QED
    BY <1>1, <2>1, <2>2, <2>3
<1>2. CASE x \notin Slots
  <2>1. \A i \in Slots : list[i].InvokeID # id
    BY <1>2, FindIndex
  <2> QED
    BY <2>1, PendingAbsent
<1> QED
  BY <1>1, <1>2

\* While a slot is free fewer ids are in use than there are slots.
LEMMA RoomLeft ==
  ASSUME NEW list \in [Slots -> Slot], tsm_transaction_available(list)
  PROVE  Cardinality({id \in InvokeIDs : PendingIn(list, id) # [phase |-> "unused"]})
           < MAX_TSM_TRANSACTIONS
<1>1. PICK z \in Slots : list[z].InvokeID = 0
  BY DEF tsm_transaction_available
<1> DEFINE S == {id \in InvokeIDs : PendingIn(list, id) # [phase |-> "unused"]}
           T == Slots \ {z}
           g == [id \in S |-> CHOOSE i \in T : list[i].InvokeID = id]
<1>2. \A id \in S : \E i \in T : list[i].InvokeID = id
  <2> TAKE id \in S
  <2>1. PICK i \in Slots : list[i].InvokeID = id
    BY UsedIDs
  <2>2. id # 0
    BY TsmConstants DEF InvokeIDs
  <2>3. i \in T
    BY <1>1, <2>1, <2>2
  <2> QED
    BY <2>1, <2>3
<1>3. \A id \in S : g[id] \in T /\ list[g[id]].InvokeID = id
  BY <1>2
<1>4. g \in [S -> T] /\ \A x, y \in S : g[x] = g[y] => x = y
  BY <1>3
<1>5. IsFiniteSet(Slots) /\ Cardinality(Slots) = MAX_TSM_TRANSACTIONS
  <2>1. 0 \in Int /\ MAX_TSM_TRANSACTIONS - 1 \in Int /\ ~ (0 > MAX_TSM_TRANSACTIONS - 1)
    BY TsmConstants
  <2> QED
    BY <2>1, FS_Interval, TsmConstants DEF Slots
<1>6. IsFiniteSet(T) /\ Cardinality(T) = MAX_TSM_TRANSACTIONS - 1
  BY <1>1, <1>5, FS_RemoveElement
<1>7. IsFiniteSet(InvokeIDs)
  BY FS_Interval, TsmConstants DEF InvokeIDs
<1>8. IsFiniteSet(S) /\ Cardinality(S) \in Nat
  BY <1>7, FS_Subset, FS_CardinalityType
<1>9. ~ (Cardinality(T) < Cardinality(S))
  <2> SUFFICES ASSUME Cardinality(T) < Cardinality(S) PROVE FALSE
    OBVIOUS
  <2> HIDE DEF S, T, g
  <2>1. \E x, y \in S : x # y /\ g[x] = g[y]
    BY <1>4, <1>6, <1>8, FS_PigeonHole
  <2> QED
    BY <1>4, <2>1
<1> HIDE DEF S, T, g
<1>10. Cardinality(S) < MAX_TSM_TRANSACTIONS
  BY <1>6, <1>8, <1>9, TsmConstants
<1> QED
  BY <1>10 DEF S

View == [id \in InvokeIDs |-> PendingIn(TSM_List, id)]

\* An operation on one slot changes the view of the ids it held only.
LEMMA ViewUpdate ==
  ASSUME TsmIInv, TsmIInv', NEW k \in Slots, NEW id \in InvokeIDs, NEW v,
         \A j \in Slots \ {k} : TSM_List'[j] = TSM_List[j],
         TSM_List[k].InvokeID \in {0, id}, TSM_List'[k].InvokeID \in {0, id},
         PendingIn(TSM_List', id) = v
  PROVE  View' = [View EXCEPT ![id] = v]
<1>1. /\ TSM_List \in [Slots -> Slot] /\ TSM_List' \in [Slots -> Slot]
      /\ Unique(TSM_List) /\ Unique(TSM_List')
  BY DEF TsmIInv, TsmTypeOK, UniqueInvokeIDs, Unique
<1>2. ASSUME NEW x \in InvokeIDs, x # id
      PROVE  PendingIn(TSM_List', x) = PendingIn(TSM_List, x)
  <2>1. x # 0
    BY TsmConstants DEF InvokeIDs
  <2> QED
    BY <1>1, <1>2, <2>1, OtherIDs
<1> QED
  BY <1>2 DEF View

LEMMA ServiceInit == TsmInit => Service!Init
<1> SUFFICES ASSUME TsmInit PROVE Service!Init
  OBVIOUS
<1>1. \A i \in Slots : TSM_List[i].InvokeID = 0
  BY DEF TsmInit
<1>2. TSM_List \in [Slots -> Slot]
  BY InitIInv DEF TsmIInv, TsmTypeOK
<1>3. \A id \in InvokeIDs : PendingIn(TSM_List, id) = [phase |-> "unused"]
  <2> TAKE id \in InvokeIDs
  <2>1. id # 0
    BY TsmConstants DEF InvokeIDs
  <2> QED
    BY <1>1, <1>2, <2>1, PendingAbsent
<1> QED
  BY <1>3 DEF TsmInit, Service!Init, Service!Unused

LEMMA ServiceReserve ==
  ASSUME TsmIInv, TsmIInv', NextFreeInvokeID
  PROVE  Service!Next
<1>0. TSM_List \in [Slots -> Slot] /\ TSM_List' \in [Slots -> Slot]
      /\ Unique(TSM_List')
  BY DEF TsmIInv, TsmTypeOK, Unique, UniqueInvokeIDs
<1>1. CASE ~ tsm_transaction_available(TSM_List)
  <2>1. TSM_List' = TSM_List
    BY <1>1 DEF NextFreeInvokeID, tsm_next_free_invokeID
  <2> QED
    BY <2>1 DEF Service!Next, Service!Quiet, Quiet, NextFreeInvokeID, config
<1>2. CASE tsm_transaction_available(TSM_List)
  <2> DEFINE id == FirstUnusedID(TSM_List, Current_Invoke_ID)
             k  == tsm_find_first_free_index(TSM_List)
             e  == ReservedSlot(TSM_List[k], id)
  <2>1. id \in InvokeIDs /\ \A i \in Slots : TSM_List[i].InvokeID # id
    BY <1>0, <1>2, FreshID
  <2>2. k \in Slots /\ TSM_List[k].InvokeID = 0
    BY <1>0, <1>2, FindIndex DEF tsm_find_first_free_index, tsm_transaction_available
  <2>3. TSM_List' = [TSM_List EXCEPT ![k] = e]
    BY <1>2 DEF NextFreeInvokeID, tsm_next_free_invokeID
  <2>4. e.InvokeID = id /\ e.state = IDLE
    <3>1. id \in 0 .. MAX_INVOKE_ID
      BY <2>1 DEF InvokeIDs
    <3>2. TSM_List[k] \in Slot /\ Timeout_Milliseconds \in Nat
      BY <1>0, <2>2, TsmConstants DEF TsmIInv, TsmTypeOK
    <3> QED
      BY <3>1, <3>2, ReservedSlotType, Zenon
  <2> HIDE DEF e, id, k
  <2>5. /\ TSM_List'[k] = e
        /\ \A j \in Slots \ {k} : TSM_List'[j] = TSM_List[j]
    BY <1>0, <2>2, <2>3
  <2>6. id # 0
    BY <2>1, TsmConstants DEF InvokeIDs
  <2>7. PendingIn(TSM_List', id) = Service!Reserved
    <3>1. PendingIn(TSM_List', id) = SlotView(e)
      BY <1>0, <2>2, <2>4, <2>5, <2>6, PendingPresent
    <3> QED
      BY <2>4, <3>1 DEF SlotView, Service!Reserved
  <2>8. View' = [View EXCEPT ![id] = Service!Reserved]
    BY <2>1, <2>2, <2>4, <2>5, <2>7, ViewUpdate
  <2>9. View[id] = Service!Unused
    BY <1>0, <2>1, PendingAbsent DEF View, Service!Unused
  <2>10. Service!Cardinality(Service!InUse) < MAX_TSM_TRANSACTIONS
    <3>1. Service!InUse = {x \in InvokeIDs : PendingIn(TSM_List, x) # [phase |-> "unused"]}
      BY DEF Service!InUse, Service!Unused
    <3>2. Cardinality(Service!InUse) < MAX_TSM_TRANSACTIONS
      BY <1>0, <1>2, <3>1, RoomLeft
    <3>3. Service!Cardinality(Service!InUse) = Cardinality(Service!InUse)
      BY Zenon DEF Service!Cardinality, Cardinality
    <3> QED
      BY <3>2, <3>3
  <2>11. Service!Reserve(id)
    BY <2>8, <2>9, <2>10
       DEF Service!Reserve, Service!Quiet, Quiet, NextFreeInvokeID, config, View
  <2> QED
    BY <2>1, <2>11 DEF Service!Next
<1> QED
  BY <1>1, <1>2

LEMMA ServiceStart ==
  ASSUME TsmIInv, TsmIInv', NEW id \in InvokeIDs, NEW r \in Requests,
         SetTransaction(id, r)
  PROVE  Service!Start(id, r)
<1> DEFINE k == tsm_find_invokeID_index(TSM_List, id)
           e == [TSM_List[k] EXCEPT !.state = AWAIT, !.RetryCount = 0,
                           !.RequestTimer = Timeout_Milliseconds, !.request = r]
<1>0. /\ TSM_List \in [Slots -> Slot] /\ TSM_List' \in [Slots -> Slot]
      /\ Unique(TSM_List) /\ Unique(TSM_List') /\ id # 0
      /\ Timeout_Milliseconds \in Nat
  BY TsmConstants DEF TsmIInv, TsmTypeOK, InvokeIDs, Unique, UniqueInvokeIDs
<1>1. k \in Slots /\ TSM_List[k].InvokeID = id /\ TSM_List[k].state = IDLE
  BY <1>0, FindIndex DEF SetTransaction, tsm_invoke_id_failed
<1>2. TSM_List' = [TSM_List EXCEPT ![k] = e]
  BY <1>0, <1>1 DEF SetTransaction, tsm_set_confirmed_unsegmented_transaction
<1>3. TSM_List[k] \in Slot
  BY <1>0, <1>1
<1>4. /\ e.InvokeID = id /\ e.state = AWAIT /\ e.RetryCount = 0
      /\ e.request = r
  BY <1>0, <1>1, <1>3 DEF Slot
<1> HIDE DEF e, k
<1>5. /\ TSM_List'[k] = e
      /\ \A j \in Slots \ {k} : TSM_List'[j] = TSM_List[j]
  BY <1>0, <1>1, <1>2
<1>6. PendingIn(TSM_List', id) = Service!Awaiting(r, 0)
  <2>1. PendingIn(TSM_List', id) = SlotView(e)
    BY <1>0, <1>1, <1>4, <1>5, PendingPresent
  <2> QED
    BY <1>4, <2>1 DEF SlotView, Service!Awaiting, IDLE, AWAIT
<1>7. View' = [View EXCEPT ![id] = Service!Awaiting(r, 0)]
  BY <1>1, <1>4, <1>5, <1>6, ViewUpdate
<1>8. View[id] = Service!Reserved
  <2>1. PendingIn(TSM_List, id) = SlotView(TSM_List[k])
    BY <1>0, <1>1, PendingPresent
  <2> QED
    BY <1>1, <2>1 DEF SlotView, Service!Reserved, View
<1> QED
  BY <1>7, <1>8 DEF Service!Start, Service!Quiet, Quiet, SetTransaction, config, View

LEMMA ServiceRelease ==
  ASSUME TsmIInv, TsmIInv', NEW id \in 0 .. MAX_INVOKE_ID, FreeInvokeID(id)
  PROVE  Service!Next
<1> DEFINE k == tsm_find_invokeID_index(TSM_List, id)
           e == [TSM_List[k] EXCEPT !.state = IDLE, !.InvokeID = 0]
<1>0. /\ TSM_List \in [Slots -> Slot] /\ TSM_List' \in [Slots -> Slot]
      /\ Unique(TSM_List) /\ Unique(TSM_List')
  BY DEF TsmIInv, TsmTypeOK, Unique, UniqueInvokeIDs
<1>1. CASE k \notin Slots
  <2>1. TSM_List' = TSM_List
    BY <1>1 DEF FreeInvokeID, tsm_free_invoke_id
  <2> QED
    BY <2>1 DEF Service!Next, Service!Quiet, Quiet, FreeInvokeID, config
<1>2. CASE k \in Slots
  <2>1. TSM_List' = [TSM_List EXCEPT ![k] = e]
    BY <1>2 DEF FreeInvokeID, tsm_free_invoke_id
  <2>2. TSM_List[k] \in Slot /\ TSM_List[k].InvokeID = id
    BY <1>0, <1>2, FindIndex
  <2>3. e.InvokeID = 0 /\ e.state = IDLE
    <3>1. 0 \in 0 .. MAX_INVOKE_ID
      BY TsmConstants
    <3> QED
      BY <2>2, <3>1, FreedSlot
  <2> HIDE DEF e, k
  <2>4. /\ TSM_List'[k] = e
        /\ \A j \in Slots \ {k} : TSM_List'[j] = TSM_List[j]
    BY <1>0, <1>2, <2>1
  <2>5. CASE id = 0
    <3>1. ASSUME NEW x \in InvokeIDs
          PROVE  PendingIn(TSM_List', x) = PendingIn(TSM_List, x)
      <4>1. x # 0
        BY TsmConstants DEF InvokeIDs
      <4> QED
        BY <1>0, <1>2, <2>2, <2>3, <2>4, <2>5, <4>1, OtherIDs
    <3>2. View' = View
      BY <3>1 DEF View
    <3> QED
      BY <3>2 DEF Service!Next, Service!Quiet, Quiet, FreeInvokeID, config, View
  <2>6. CASE id # 0
    <3>1. id \in InvokeIDs
      BY <2>6, TsmConstants DEF InvokeIDs
    <3>2. \A i \in Slots : TSM_List'[i].InvokeID # id
      BY <1>2, <2>2, <2>3, <2>4, <2>6, <1>0 DEF Unique
    <3>3. PendingIn(TSM_List', id) = Service!Unused
      BY <1>0, <3>2, PendingAbsent DEF Service!Unused
    <3>4. View' = [View EXCEPT ![id] = Service!Unused]
      BY <1>2, <2>2, <2>3, <2>4, <3>1, <3>3, ViewUpdate
    <3>5. Service!Release(id)
      BY <3>4 DEF Service!Release, Service!Quiet, Quiet, FreeInvokeID, config, View
    <3> QED
      BY <3>1, <3>5 DEF Service!Next
  <2> QED
    BY <2>5, <2>6
<1> QED
  BY <1>1, <1>2

\* What the timer does to a slot, seen from outside.
LEMMA TimerView ==
  ASSUME NEW e \in Slot, NEW ms \in Nat, Timeout_Milliseconds \in Nat,
         Number_Of_Retries \in Nat
  PROVE  LET f == TimerSlot(e, ms)
         IN  /\ Resends(e, ms) =>
                   /\ e.state = AWAIT /\ e.RetryCount < Number_Of_Retries
                   /\ SlotView(f) = Service!Awaiting(e.request, e.RetryCount + 1)
             /\ Fails(e, ms) =>
                   /\ e.state = AWAIT /\ e.RetryCount >= Number_Of_Retries
                   /\ SlotView(f) = Service!Reserved
             /\ ~ Resends(e, ms) /\ ~ Fails(e, ms) => SlotView(f) = SlotView(e)
<1>1. CASE Resends(e, ms)
  <2>1. e.state = AWAIT /\ e.RetryCount < Number_Of_Retries /\ ~ Fails(e, ms)
    BY <1>1 DEF Resends, TimesOut, Fails, Slot
  <2>2. TimerSlot(e, ms) = ResentSlot(e)
    BY <1>1 DEF TimerSlot
  <2>3. /\ ResentSlot(e).request = e.request /\ ResentSlot(e).state = AWAIT
        /\ ResentSlot(e).RetryCount = e.RetryCount + 1
    BY <2>1, ResentSlotType
  <2>4. SlotView(ResentSlot(e)) = Service!Awaiting(e.request, e.RetryCount + 1)
    BY <2>3 DEF SlotView, Service!Awaiting, IDLE, AWAIT
  <2> QED
    BY <1>1, <2>1, <2>2, <2>4
<1>2. CASE ~ Resends(e, ms) /\ Fails(e, ms)
  <2>1. e.state = AWAIT /\ e.RetryCount >= Number_Of_Retries
    BY <1>2 DEF TimesOut, Fails
  <2>2. TimerSlot(e, ms).state = IDLE
    BY <1>2 DEF TimerSlot, Slot
  <2>3. SlotView(TimerSlot(e, ms)) = Service!Reserved
    BY <2>2 DEF SlotView, Service!Reserved
  <2> QED
    BY <1>2, <2>1, <2>3
<1>3. CASE ~ Resends(e, ms) /\ ~ Fails(e, ms)
  <2>1. /\ TimerSlot(e, ms).state = e.state
        /\ TimerSlot(e, ms).request = e.request
        /\ TimerSlot(e, ms).RetryCount = e.RetryCount
    BY <1>3 DEF TimerSlot, Slot
  <2>2. SlotView(TimerSlot(e, ms)) = SlotView(e)
    BY <2>1 DEF SlotView
  <2> QED
    BY <1>3, <2>2
<1> QED
  BY <1>1, <1>2, <1>3

LEMMA ServiceTick ==
  ASSUME TsmIInv, TsmIInv', NEW ms \in Ticks, TimerMilliseconds(ms)
  PROVE  Service!Next
<1> DEFINE Ids(S)  == {TSM_List[i].InvokeID : i \in S}
           R       == {i \in Slots : Resends(TSM_List[i], ms)}
           F       == {i \in Slots : Fails(TSM_List[i], ms)}
           again   == Ids(R)
           failed  == Ids(F)
<1>0. /\ TSM_List \in [Slots -> Slot] /\ TSM_List' \in [Slots -> Slot]
      /\ Unique(TSM_List) /\ Unique(TSM_List') /\ ms \in Nat
      /\ Timeout_Milliseconds \in Nat /\ Number_Of_Retries \in Nat
  BY TsmConstants DEF TsmIInv, TsmTypeOK, Unique, UniqueInvokeIDs
<1>1. \A i \in Slots : /\ TSM_List'[i] = TimerSlot(TSM_List[i], ms)
                       /\ TSM_List'[i].InvokeID = TSM_List[i].InvokeID
  BY <1>0, TimerSlotKeeps DEF TimerMilliseconds
<1>2. ASSUME NEW i \in R \cup F
      PROVE  /\ TSM_List[i].InvokeID \in InvokeIDs
             /\ TSM_List[i].InvokeID # 0
             /\ View[TSM_List[i].InvokeID].phase = "awaiting"
             /\ View[TSM_List[i].InvokeID].request = TSM_List[i].request
             /\ View[TSM_List[i].InvokeID].retries = TSM_List[i].RetryCount
  <2>1. i \in Slots /\ TSM_List[i].state = AWAIT
    BY DEF Resends, Fails, TimesOut
  <2>2. TSM_List[i].InvokeID # 0
    BY <2>1 DEF TsmIInv, UnusedIsIdle, IDLE, AWAIT
  <2>3. TSM_List[i].InvokeID \in InvokeIDs
    BY <1>0, <2>1, <2>2 DEF Slot, InvokeIDs
  <2>4. PendingIn(TSM_List, TSM_List[i].InvokeID) = SlotView(TSM_List[i])
    BY <1>0, <2>1, <2>2, PendingPresent
  <2>5. /\ SlotView(TSM_List[i]).phase = "awaiting"
        /\ SlotView(TSM_List[i]).request = TSM_List[i].request
        /\ SlotView(TSM_List[i]).retries = TSM_List[i].RetryCount
    BY <2>1 DEF SlotView, IDLE, AWAIT
  <2> QED
    BY <2>2, <2>3, <2>4, <2>5 DEF View
<1>3. again \in SUBSET Service!Waiting /\ failed \in SUBSET Service!Waiting
  <2>1. Service!Waiting = {id \in InvokeIDs : View[id].phase = "awaiting"}
    BY DEF Service!Waiting, View
  <2> QED
    BY <1>2, <2>1
<1>4. \A i \in R : TSM_List[i].RetryCount < Number_Of_Retries
  BY <1>0, TimerView
<1>5. \A i \in F : TSM_List[i].RetryCount >= Number_Of_Retries
  BY <1>0, TimerView
<1>6. R \cap F = {}
  <2>1. \A i \in Slots : TSM_List[i].RetryCount \in Nat
    BY <1>0 DEF Slot
  <2> QED
    BY <1>0, <1>4, <1>5, <2>1
<1>7. again \cap failed = {}
  BY <1>2, <1>6, <1>0 DEF Unique
<1>8. \A id \in again : View[id].retries < Number_Of_Retries
  BY <1>2, <1>4
<1>9. \A id \in failed : View[id].retries >= Number_Of_Retries
  BY <1>2, <1>5
<1>10. sent' = {<<id, View[id].request>> : id \in again}
  <2>1. sent' = {<<TSM_List[i].InvokeID, TSM_List[i].request>> : i \in R}
    BY DEF TimerMilliseconds
  <2>2. \A i \in R : View[TSM_List[i].InvokeID].request = TSM_List[i].request
    BY <1>2
  <2> QED
    BY <2>1, <2>2
<1>11. expired' = failed
  <2>1. expired' = failed \ {0}
    BY DEF TimerMilliseconds
  <2>2. 0 \notin failed
    BY <1>2
  <2> QED
    BY <2>1, <2>2
<1>12. ASSUME NEW id \in InvokeIDs
       PROVE  View'[id] = IF id \in again
                THEN Service!Awaiting(View[id].request, View[id].retries + 1)
                ELSE IF id \in failed THEN Service!Reserved ELSE View[id]
  <2>0. id # 0 /\ View[id] = PendingIn(TSM_List, id)
        /\ View'[id] = PendingIn(TSM_List', id)
    BY TsmConstants DEF InvokeIDs, View
  <2>1. CASE \E i \in Slots : TSM_List[i].InvokeID = id
    <3>1. PICK i \in Slots : TSM_List[i].InvokeID = id
      BY <2>1
    <3>2. View[id] = SlotView(TSM_List[i])
      BY <1>0, <2>0, <3>1, PendingPresent
    <3>3. View'[id] = SlotView(TimerSlot(TSM_List[i], ms))
      BY <1>0, <1>1, <2>0, <3>1, PendingPresent
    <3>4. (id \in again <=> i \in R) /\ (id \in failed <=> i \in F)
      BY <1>0, <2>0, <3>1 DEF Unique
    <3>5. TSM_List[i] \in Slot
      BY <1>0
    <3>6. CASE i \in R
      <4>1. View'[id] = Service!Awaiting(TSM_List[i].request, TSM_List[i].RetryCount + 1)
        BY <1>0, <3>3, <3>5, <3>6, TimerView
      <4>2. View[id].request = TSM_List[i].request
            /\ View[id].retries = TSM_List[i].RetryCount
        BY <1>2, <3>1, <3>6
      <4> QED
        BY <3>4, <3>6, <4>1, <4>2
    <3>7. CASE i \in F
      <4>1. View'[id] = Service!Reserved
        BY <1>0, <3>3, <3>5, <3>7, TimerView
      <4>2. i \notin R
        BY <1>6, <3>7
      <4> QED
        BY <3>4, <3>7, <4>1, <4>2
    <3>8. CASE i \notin R /\ i \notin F
      <4>1. View'[id] = View[id]
        BY <1>0, <3>2, <3>3, <3>5, <3>8, TimerView
      <4> QED
        BY <3>4, <3>8, <4>1
    <3> QED
      BY <3>6, <3>7, <3>8
  <2>2. CASE \A i \in Slots : TSM_List[i].InvokeID # id
    <3>1. id \notin again /\ id \notin failed
      BY <2>2
    <3>2. \A i \in Slots : TSM_List'[i].InvokeID # id
      BY <1>1, <2>2
    <3>3. PendingIn(TSM_List', id) = PendingIn(TSM_List, id)
      BY <1>0, <2>2, <3>2, PendingAbsent
    <3> QED
      BY <2>0, <3>1, <3>3
  <2> QED
    BY <2>1, <2>2
<1> HIDE DEF again, failed
<1>13. View' = [id \in InvokeIDs |-> IF id \in again
                THEN Service!Awaiting(View[id].request, View[id].retries + 1)
                ELSE IF id \in failed THEN Service!Reserved ELSE View[id]]
  <2>1. View' = [id \in InvokeIDs |-> View'[id]]
    BY DEF View
  <2> QED
    BY <1>12, <2>1
<1>14. Service!Tick(again, failed)
  BY <1>7, <1>8, <1>9, <1>10, <1>11, <1>13
     DEF Service!Tick, View, TimerMilliseconds, config
<1> QED
  BY <1>3, <1>14 DEF Service!Next

LEMMA ServiceSettings ==
  ASSUME \/ \E id \in 0 .. MAX_INVOKE_ID : InvokeIDSet(id)
         \/ \E ms \in Timeouts : ApduTimeoutSet(ms)
         \/ \E n \in Retries : ApduRetriesSet(n)
  PROVE  Service!Next
<1>1. TSM_List' = TSM_List /\ Service!Quiet
  BY DEF InvokeIDSet, ApduTimeoutSet, ApduRetriesSet, Quiet, Service!Quiet
<1>2. UNCHANGED Number_Of_Retries \/ \E n \in Retries : Number_Of_Retries' = n
  BY DEF InvokeIDSet, ApduTimeoutSet, ApduRetriesSet, config
<1> QED
  BY <1>1, <1>2 DEF Service!Next, Service!SetLimit

LEMMA ServiceNext ==
  ASSUME TsmIInv, TsmIInv', [TsmNext]_tsmVars
  PROVE  [Service!Next]_(Service!vars)
<1>1. CASE NextFreeInvokeID
  BY <1>1, ServiceReserve
<1>2. CASE \E id \in InvokeIDs, r \in Requests : SetTransaction(id, r)
  BY <1>2, ServiceStart DEF Service!Next
<1>3. CASE \E id \in 0 .. MAX_INVOKE_ID : FreeInvokeID(id)
  BY <1>3, ServiceRelease
<1>4. CASE Timer
  BY <1>4, ServiceTick DEF Timer
<1>5. CASE \/ \E id \in 0 .. MAX_INVOKE_ID : InvokeIDSet(id)
           \/ \E ms \in Timeouts : ApduTimeoutSet(ms)
           \/ \E n \in Retries : ApduRetriesSet(n)
  BY <1>5, ServiceSettings
<1>6. CASE UNCHANGED tsmVars
  BY <1>6 DEF tsmVars, config, Service!vars
<1> QED
  BY <1>1, <1>2, <1>3, <1>4, <1>5, <1>6 DEF TsmNext

\* The slot table of tsm.c implements the transaction service: ids are handed
\* out once, only registered requests that still wait are retransmitted, at
\* most as often as the retry limit allows, and only exhausted ones are
\* given up.
THEOREM TsmImplementsService == TsmSpec => ImplementsService
<1>1. TsmInit => Service!Init
  BY ServiceInit
<1>2. TsmIInv /\ TsmIInv' /\ [TsmNext]_tsmVars => [Service!Next]_(Service!vars)
  BY ServiceNext
<1> QED
  BY <1>1, <1>2, TsmInductive, PTL DEF TsmSpec, ImplementsService, Service!Spec

----------------------------------------------------------------------------
(* The table operations one by one, for the services that call several of  *)
(* them in one step.                                                       *)

Table(list) ==
  /\ list \in [Slots -> Slot]
  /\ Unique(list)
  /\ \A i \in Slots : list[i].InvokeID = 0 => list[i].state = IDLE

LEMMA TsmTable == TsmIInv <=> TsmTypeOK /\ Table(TSM_List)
  BY DEF TsmIInv, TsmTypeOK, UniqueInvokeIDs, UnusedIsIdle, Table, Unique

\* tsm_free_invoke_id() empties the slot of the id and no other.
LEMMA FreeTable ==
  ASSUME NEW list, Table(list), NEW id \in InvokeIDs
  PROVE  LET new == tsm_free_invoke_id(list, id)
         IN  /\ Table(new)
             /\ \A i \in Slots :
                  IF list[i].InvokeID = id
                    THEN new[i].InvokeID = 0 /\ new[i].state = IDLE
                    ELSE new[i] = list[i]
<1> DEFINE k   == tsm_find_invokeID_index(list, id)
           e   == [list[k] EXCEPT !.state = IDLE, !.InvokeID = 0]
           new == tsm_free_invoke_id(list, id)
<1>0. list \in [Slots -> Slot] /\ Unique(list) /\ id # 0
  BY TsmConstants DEF Table, InvokeIDs
<1>1. CASE k \notin Slots
  <2>1. new = list /\ \A i \in Slots : list[i].InvokeID # id
    BY <1>0, <1>1, FindIndex DEF tsm_free_invoke_id
  <2> QED
    BY <2>1
<1>2. CASE k \in Slots
  <2>1. new = [list EXCEPT ![k] = e]
    BY <1>2 DEF tsm_free_invoke_id
  <2>2. list[k] \in Slot /\ list[k].InvokeID = id
    BY <1>0, <1>2, FindIndex
  <2>3. e \in Slot /\ e.InvokeID = 0 /\ e.state = IDLE
    <3>1. 0 \in 0 .. MAX_INVOKE_ID
      BY TsmConstants
    <3> QED
      BY <2>2, <3>1, FreedSlot
  <2> HIDE DEF e, k, new
  <2>4. /\ new \in [Slots -> Slot] /\ new[k] = e
        /\ \A j \in Slots \ {k} : new[j] = list[j]
    BY <1>0, <1>2, <2>1, <2>3, SlotUpdate
  <2>5. \A i \in Slots : list[i].InvokeID = id <=> i = k
    BY <1>0, <1>2, <2>2 DEF Unique
  <2>6. Unique(new)
    BY <1>0, <2>3, <2>4 DEF Unique
  <2>7. Table(new)
    BY <2>3, <2>4, <2>6 DEF Table
  <2>8. \A i \in Slots : IF list[i].InvokeID = id
                           THEN new[i].InvokeID = 0 /\ new[i].state = IDLE
                           ELSE new[i] = list[i]
    BY <2>3, <2>4, <2>5
  <2> QED
    BY <2>7, <2>8 DEF new
<1> QED
  BY <1>1, <1>2

\* tsm_next_free_invokeID() puts a new id into one free slot.
LEMMA ReserveTable ==
  ASSUME NEW list, Table(list), NEW current, Timeout_Milliseconds \in Nat
  PROVE  LET r == tsm_next_free_invokeID(list, current)
         IN  IF tsm_transaction_available(list)
             THEN /\ r.invokeID \in InvokeIDs /\ r.current \in InvokeIDs
                  /\ Table(r.list)
                  /\ \E k \in Slots :
                       /\ list[k].InvokeID = 0
                       /\ r.list[k].InvokeID = r.invokeID
                       /\ \A j \in Slots \ {k} : /\ r.list[j] = list[j]
                                                 /\ list[j].InvokeID # r.invokeID
             ELSE r.invokeID = 0 /\ r.current = current /\ r.list = list
<1>0. list \in [Slots -> Slot] /\ Unique(list)
  BY DEF Table
<1>1. CASE ~ tsm_transaction_available(list)
  BY <1>1 DEF tsm_next_free_invokeID
<1>2. CASE tsm_transaction_available(list)
  <2> DEFINE id == FirstUnusedID(list, current)
             k  == tsm_find_first_free_index(list)
             e  == ReservedSlot(list[k], id)
             new == [list EXCEPT ![k] = e]
             r  == tsm_next_free_invokeID(list, current)
  <2>1. id \in InvokeIDs /\ \A i \in Slots : list[i].InvokeID # id
    BY <1>0, <1>2, FreshID
  <2>2. k \in Slots /\ list[k].InvokeID = 0
    BY <1>0, <1>2, FindIndex DEF tsm_find_first_free_index, tsm_transaction_available
  <2>3. r.list = new /\ r.current = NextInvokeID(id) /\ r.invokeID = id
    BY <1>2 DEF tsm_next_free_invokeID
  <2>4. e \in Slot /\ e.InvokeID = id /\ e.state = IDLE
    <3>1. id \in 0 .. MAX_INVOKE_ID
      BY <2>1 DEF InvokeIDs
    <3>2. list[k] \in Slot
      BY <1>0, <2>2
    <3> QED
      BY <3>1, <3>2, ReservedSlotType, Zenon
  <2>5. NextInvokeID(id) \in InvokeIDs
    <3> HIDE DEF id
    <3> QED
      BY <2>1, TsmConstants DEF NextInvokeID, InvokeIDs
  <2> HIDE DEF e, id, k
  <2>6. /\ new \in [Slots -> Slot] /\ new[k] = e
        /\ \A j \in Slots \ {k} : new[j] = list[j]
    BY <1>0, <2>2, <2>4, SlotUpdate
  <2> HIDE DEF new
  <2>7. Unique(new)
    BY <1>0, <2>1, <2>2, <2>4, <2>6 DEF Unique
  <2>8. Table(new)
    BY <1>0, <2>4, <2>6, <2>7 DEF Table
  <2> HIDE DEF r
  <2>9. /\ list[k].InvokeID = 0 /\ r.list[k].InvokeID = r.invokeID
        /\ \A j \in Slots \ {k} : r.list[j] = list[j] /\ list[j].InvokeID # r.invokeID
    BY <2>1, <2>2, <2>3, <2>4, <2>6
  <2>10. r.invokeID \in InvokeIDs /\ r.current \in InvokeIDs /\ Table(r.list)
    BY <2>1, <2>3, <2>5, <2>8
  <2> QED
    BY <1>2, <2>2, <2>9, <2>10 DEF r
<1> QED
  BY <1>1, <1>2

\* tsm_set_confirmed_unsegmented_transaction() makes the slot of the id wait.
LEMMA SetTable ==
  ASSUME NEW list, Table(list), NEW id \in InvokeIDs, NEW r \in Requests,
         Timeout_Milliseconds \in Nat
  PROVE  LET new == tsm_set_confirmed_unsegmented_transaction(list, id, r)
         IN  /\ Table(new)
             /\ \A i \in Slots :
                  IF list[i].InvokeID = id
                    THEN /\ new[i].InvokeID = id /\ new[i].request = r
                         /\ new[i].state = AWAIT
                    ELSE new[i] = list[i]
<1> DEFINE k   == tsm_find_invokeID_index(list, id)
           e   == [list[k] EXCEPT !.state = AWAIT, !.RetryCount = 0,
                         !.RequestTimer = Timeout_Milliseconds, !.request = r]
           new == tsm_set_confirmed_unsegmented_transaction(list, id, r)
<1>0. list \in [Slots -> Slot] /\ Unique(list) /\ id # 0
  BY TsmConstants DEF Table, InvokeIDs
<1>1. CASE k \notin Slots
  <2>1. new = list /\ \A i \in Slots : list[i].InvokeID # id
    BY <1>0, <1>1, FindIndex DEF tsm_set_confirmed_unsegmented_transaction
  <2> QED
    BY <2>1
<1>2. CASE k \in Slots
  <2>1. new = [list EXCEPT ![k] = e]
    BY <1>0, <1>2 DEF tsm_set_confirmed_unsegmented_transaction
  <2>2. list[k] \in Slot /\ list[k].InvokeID = id
    BY <1>0, <1>2, FindIndex
  <2>3. e \in Slot /\ e.InvokeID = id /\ e.request = r /\ e.state = AWAIT
    BY <2>2 DEF Slot, AWAIT
  <2> HIDE DEF e, k, new
  <2>4. /\ new \in [Slots -> Slot] /\ new[k] = e
        /\ \A j \in Slots \ {k} : new[j] = list[j]
    BY <1>0, <1>2, <2>1, <2>3, SlotUpdate
  <2>5. \A i \in Slots : list[i].InvokeID = id <=> i = k
    BY <1>0, <1>2, <2>2 DEF Unique
  <2>6. \A j \in Slots : new[j].InvokeID = list[j].InvokeID
    BY <2>2, <2>3, <2>4
  <2>7. Unique(new)
    BY <1>0, <2>6 DEF Unique
  <2>8. Table(new)
    BY <1>0, <2>3, <2>4, <2>7 DEF Table
  <2>9. \A i \in Slots : IF list[i].InvokeID = id
                           THEN /\ new[i].InvokeID = id /\ new[i].request = r
                                /\ new[i].state = AWAIT
                           ELSE new[i] = list[i]
    BY <2>3, <2>4, <2>5
  <2> QED
    BY <2>8, <2>9 DEF new
<1> QED
  BY <1>1, <1>2

\* A step of a service that replaces the table and the counter.
LEMMA TsmStep ==
  ASSUME TsmIInv, Table(TSM_List'), Current_Invoke_ID' \in InvokeIDs,
         UNCHANGED config
  PROVE  TsmIInv'
  BY DEF TsmIInv, TsmTypeOK, UniqueInvokeIDs, UnusedIsIdle, Table, Unique, config
=============================================================================
