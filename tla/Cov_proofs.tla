----------------------------- MODULE Cov_proofs -----------------------------
(***************************************************************************)
(* Proofs about Cov, for every number of subscriptions, addresses, slots   *)
(* and ids, and about the objects that CovObjects adds to it, for every    *)
(* number of them, any values and any increments.                          *)
(***************************************************************************)
EXTENDS CovObjects, Tsm_proofs

----------------------------------------------------------------------------
(* The transaction table under the COV task.                               *)

\* A transaction that has an id is the notification of some subscription.
RequestsKnown ==
  \A i \in Slots : TSM_List[i].InvokeID # 0 => TSM_List[i].request \in Subs

\* The settled transactions are gone, and no others.
LEMMA ReleasedTable ==
  ASSUME TsmIInv, NEW ids \in SUBSET (0 .. MAX_INVOKE_ID)
  PROVE  /\ Table(Released(ids))
         /\ \A i \in Slots :
              IF TSM_List[i].InvokeID \in ids \ {0}
                THEN Released(ids)[i].InvokeID = 0
                ELSE Released(ids)[i] = TSM_List[i]
<1>0. Table(TSM_List) /\ TSM_List \in [Slots -> Slot]
  BY TsmTable DEF Table
<1>1. ASSUME NEW i \in Slots
      PROVE  /\ Released(ids)[i] \in Slot
             /\ Released(ids)[i].InvokeID = 0 => Released(ids)[i].state = IDLE
             /\ IF TSM_List[i].InvokeID \in ids \ {0}
                  THEN Released(ids)[i].InvokeID = 0
                  ELSE Released(ids)[i] = TSM_List[i]
  <2>1. CASE TSM_List[i].InvokeID \in ids \ {0}
    <3> DEFINE new == tsm_free_invoke_id(TSM_List, TSM_List[i].InvokeID)
    <3>1. TSM_List[i].InvokeID \in InvokeIDs
      <4>1. \A id \in ids \ {0} : id \in InvokeIDs
        BY TsmConstants DEF InvokeIDs
      <4> QED
        BY <2>1, <4>1
    <3>2. Table(new) /\ new[i].InvokeID = 0 /\ new[i].state = IDLE
      BY <1>0, <3>1, FreeTable
    <3>3. new[i] \in Slot
      BY <3>2 DEF Table
    <3>4. Released(ids)[i] = new[i]
      BY <2>1 DEF Released
    <3> QED
      BY <2>1, <3>2, <3>3, <3>4
  <2>2. CASE TSM_List[i].InvokeID \notin ids \ {0}
    <3>1. Released(ids)[i] = TSM_List[i]
      BY <2>2 DEF Released
    <3> QED
      BY <1>0, <2>2, <3>1 DEF Table
  <2> QED
    BY <2>1, <2>2
<1>2. Released(ids) \in [Slots -> Slot]
  BY <1>1 DEF Released
<1>3. Unique(Released(ids))
  BY <1>0, <1>1 DEF Unique, Table
<1> QED
  BY <1>1, <1>2, <1>3 DEF Table

\* A confirmed notification: its transaction enters a free slot with a new id.
LEMMA SentTable ==
  ASSUME TsmIInv, tsm_transaction_available(TSM_List), NEW s \in Requests
  PROVE  LET r    == tsm_next_free_invokeID(TSM_List, Current_Invoke_ID)
             list == tsm_set_confirmed_unsegmented_transaction(r.list, r.invokeID, s)
         IN  /\ r.invokeID \in InvokeIDs /\ r.current \in InvokeIDs
             /\ Table(list)
             /\ \E k \in Slots :
                  /\ list[k].InvokeID = r.invokeID /\ list[k].request = s
                  /\ \A j \in Slots \ {k} : list[j] = TSM_List[j]
<1> DEFINE r    == tsm_next_free_invokeID(TSM_List, Current_Invoke_ID)
           list == tsm_set_confirmed_unsegmented_transaction(r.list, r.invokeID, s)
<1>0. Table(TSM_List) /\ Timeout_Milliseconds \in Nat
  BY TsmTable, TsmConstants DEF TsmIInv, TsmTypeOK
<1>1. /\ r.invokeID \in InvokeIDs /\ r.current \in InvokeIDs /\ Table(r.list)
      /\ \E k \in Slots : /\ r.list[k].InvokeID = r.invokeID
                          /\ \A j \in Slots \ {k} :
                               /\ r.list[j] = TSM_List[j]
                               /\ TSM_List[j].InvokeID # r.invokeID
  BY <1>0, ReserveTable
<1> HIDE DEF r
<1>2. /\ Table(list)
      /\ \A i \in Slots :
           IF r.list[i].InvokeID = r.invokeID
             THEN list[i].InvokeID = r.invokeID /\ list[i].request = s
             ELSE list[i] = r.list[i]
  BY <1>0, <1>1, SetTable
<1> HIDE DEF list
<1>3. PICK k \in Slots : /\ r.list[k].InvokeID = r.invokeID
                         /\ \A j \in Slots \ {k} :
                              /\ r.list[j] = TSM_List[j]
                              /\ TSM_List[j].InvokeID # r.invokeID
  BY <1>1
<1>4. /\ list[k].InvokeID = r.invokeID /\ list[k].request = s
      /\ \A j \in Slots \ {k} : list[j] = TSM_List[j]
  BY <1>2, <1>3
<1> QED
  BY <1>1, <1>2, <1>4 DEF list, r

----------------------------------------------------------------------------
(* The address table.                                                      *)

\* Where cov_address_add() puts an address: it finds the only place that has
\* it, or a free one, or it answers an index outside the table.
LEMMA AddressAdd ==
  ASSUME COV_Addresses \in [Dests -> Addresses \cup {NoAddress}],
         AddressesCounted, NEW src \in Addresses
  PROVE  LET i == cov_address_add(src)
         IN  /\ i \in 0 .. MAX_COV_ADDRESSES
             /\ WithAddress(src) \in [Dests -> Addresses \cup {NoAddress}]
             /\ \A j \in Dests : /\ COV_Addresses[j] = src => j = i
                                 /\ j = i => WithAddress(src)[j] = src
                                 /\ j # i => WithAddress(src)[j] = COV_Addresses[j]
             /\ i \in Dests => COV_Addresses[i] \in {src, NoAddress}
             /\ i \notin Dests => \A j \in Dests : COV_Addresses[j] \notin {src, NoAddress}
<1> DEFINE i    == cov_address_add(src)
           same == {j \in Dests : COV_Addresses[j] = src}
           free == {j \in Dests : COV_Addresses[j] = NoAddress}
<1>0. Dests \in SUBSET Nat /\ src # NoAddress /\ MAX_COV_ADDRESSES \notin Dests
      /\ MAX_COV_ADDRESSES \in 0 .. MAX_COV_ADDRESSES
      /\ \A j \in Dests : j \in 0 .. MAX_COV_ADDRESSES
  BY CovConstants DEF Dests
<1>1. /\ same # {} => i \in same
      /\ same = {} /\ free # {} => i \in free
      /\ same = {} /\ free = {} => i = MAX_COV_ADDRESSES
  <2>1. same # {} => Min(same) \in same
    BY <1>0, MinNat
  <2>2. free # {} => Min(free) \in free
    BY <1>0, MinNat
  <2> QED
    BY <2>1, <2>2 DEF cov_address_add
<1>2. WithAddress(src) =
        IF i \in Dests THEN [COV_Addresses EXCEPT ![i] = src] ELSE COV_Addresses
  BY DEF WithAddress
<1> HIDE DEF i
<1>3. \A j, k \in same : j = k
  BY <1>0 DEF AddressesCounted
<1>4. /\ i \in 0 .. MAX_COV_ADDRESSES
      /\ \A j \in Dests : COV_Addresses[j] = src => j = i
      /\ i \in Dests => COV_Addresses[i] \in {src, NoAddress}
      /\ i \notin Dests => same = {} /\ free = {}
  BY <1>0, <1>1, <1>3
<1>5. WithAddress(src) \in [Dests -> Addresses \cup {NoAddress}]
  BY <1>2
<1>6. \A j \in Dests : /\ j = i => WithAddress(src)[j] = src
                       /\ j # i => WithAddress(src)[j] = COV_Addresses[j]
  BY <1>2
<1> QED
  BY <1>4, <1>5, <1>6 DEF i

\* A subscription that was made or renewed.
LEMMA AddressTaken ==
  ASSUME COV_Addresses \in [Dests -> Addresses \cup {NoAddress}],
         AddressesCounted, NEW src \in Addresses, NEW s \in Subs,
         \/ ~ COV_Subscriptions[s].valid
         \/ cov_address_get(COV_Subscriptions[s].dest_index) \in {src, NoAddress},
         COV_Subscriptions'[s].valid,
         COV_Subscriptions'[s].dest_index = cov_address_add(src),
         \A t \in Subs \ {s} : COV_Subscriptions'[t] = COV_Subscriptions[t],
         COV_Addresses' = WithAddress(src)
  PROVE  /\ COV_Addresses' \in [Dests -> Addresses \cup {NoAddress}]
         /\ AddressesCounted'
<1> DEFINE i == cov_address_add(src)
<1>0. /\ COV_Addresses' \in [Dests -> Addresses \cup {NoAddress}]
      /\ \A j \in Dests : /\ COV_Addresses[j] = src => j = i
                          /\ j = i => COV_Addresses'[j] = src
                          /\ j # i => COV_Addresses'[j] = COV_Addresses[j]
      /\ src # NoAddress
  BY AddressAdd, CovConstants
<1> HIDE DEF i
<1>1. ASSUME NEW j \in Dests
      PROVE  COV_Addresses'[j] # NoAddress <=>
               \E t \in Subs : COV_Subscriptions'[t].valid
                               /\ COV_Subscriptions'[t].dest_index = j
  <2>1. CASE j = i
    BY <1>0, <2>1 DEF i
  <2>2. CASE j # i
    <3>1. COV_Addresses'[j] = COV_Addresses[j]
      BY <1>0, <2>2
    <3>2. ASSUME COV_Subscriptions[s].valid, COV_Subscriptions[s].dest_index = j
          PROVE  FALSE
      <4>1. COV_Addresses[j] # NoAddress
        BY <3>2 DEF AddressesCounted
      <4>2. COV_Addresses[j] = src
        BY <3>2, <4>1 DEF cov_address_get
      <4> QED
        BY <1>0, <2>2, <4>2
    <3>3. \A t \in Subs : COV_Subscriptions'[t].valid
                            /\ COV_Subscriptions'[t].dest_index = j
                            <=> COV_Subscriptions[t].valid
                                /\ COV_Subscriptions[t].dest_index = j
      BY <2>2, <3>2 DEF i
    <3> QED
      BY <3>1, <3>3 DEF AddressesCounted
  <2> QED
    BY <2>1, <2>2
<1>2. ASSUME NEW j \in Dests, NEW k \in Dests,
             COV_Addresses'[j] = COV_Addresses'[k], COV_Addresses'[j] # NoAddress
      PROVE  j = k
  BY <1>0, <1>2 DEF AddressesCounted
<1> QED
  BY <1>0, <1>1, <1>2 DEF AddressesCounted

\* Subscriptions that ended.
LEMMA AddressesLeft ==
  ASSUME COV_Addresses \in [Dests -> Addresses \cup {NoAddress}],
         AddressesCounted,
         \A s \in Subs : COV_Subscriptions'[s].valid =>
           /\ COV_Subscriptions[s].valid
           /\ COV_Subscriptions'[s].dest_index = COV_Subscriptions[s].dest_index,
         COV_Addresses' = cov_address_remove_unused(COV_Subscriptions')
  PROVE  /\ COV_Addresses' \in [Dests -> Addresses \cup {NoAddress}]
         /\ AddressesCounted'
<1>1. \A j \in Dests :
        COV_Addresses'[j] =
          IF \E s \in Subs : COV_Subscriptions'[s].valid
                             /\ COV_Subscriptions'[s].dest_index = j
            THEN COV_Addresses[j] ELSE NoAddress
  BY DEF cov_address_remove_unused
<1>2. COV_Addresses' \in [Dests -> Addresses \cup {NoAddress}]
  BY DEF cov_address_remove_unused
<1>3. \A j \in Dests : COV_Addresses'[j] # NoAddress <=>
        \E s \in Subs : COV_Subscriptions'[s].valid
                        /\ COV_Subscriptions'[s].dest_index = j
  BY <1>1 DEF AddressesCounted
<1>4. ASSUME NEW j \in Dests, NEW k \in Dests,
             COV_Addresses'[j] = COV_Addresses'[k], COV_Addresses'[j] # NoAddress
      PROVE  j = k
  BY <1>1, <1>4 DEF AddressesCounted
<1> QED
  BY <1>2, <1>3, <1>4 DEF AddressesCounted

\* Steps that leave who is subscribed from where alone.
LEMMA AddressesSame ==
  ASSUME COV_Addresses \in [Dests -> Addresses \cup {NoAddress}],
         AddressesCounted, UNCHANGED COV_Addresses,
         \A s \in Subs :
           /\ COV_Subscriptions'[s].valid <=> COV_Subscriptions[s].valid
           /\ COV_Subscriptions'[s].dest_index = COV_Subscriptions[s].dest_index
  PROVE  /\ COV_Addresses' \in [Dests -> Addresses \cup {NoAddress}]
         /\ AddressesCounted'
<1>1. \A j \in Dests : (\E s \in Subs : COV_Subscriptions'[s].valid
                                        /\ COV_Subscriptions'[s].dest_index = j)
        <=> \E s \in Subs : COV_Subscriptions[s].valid
                            /\ COV_Subscriptions[s].dest_index = j
  OBVIOUS
<1> QED
  BY <1>1 DEF AddressesCounted

----------------------------------------------------------------------------
(* The inductive invariant.  TransactionsOwned needs that a slot with an   *)
(* id holds the number of a subscription; AddressesCounted needs nothing   *)
(* but types.                                                              *)

CovIInv == /\ CovTypeOK /\ TsmIInv
           /\ AddressesCounted
           /\ TransactionsOwned /\ RequestsKnown

LEMMA SubsNat == Subs \in SUBSET Nat /\ Subs = Requests
  BY CovConstants DEF Subs

\* No transaction is new, and the subscriptions of those that are left keep
\* what their transactions need.
LEMMA OwnersKept ==
  ASSUME TransactionsOwned, RequestsKnown,
         \A i \in Slots : TSM_List'[i].InvokeID # 0 =>
           /\ TSM_List'[i].InvokeID = TSM_List[i].InvokeID
           /\ TSM_List'[i].request = TSM_List[i].request
           /\ LET e == COV_Subscriptions[TSM_List[i].request]
                  f == COV_Subscriptions'[TSM_List[i].request]
              IN  /\ f.valid <=> e.valid
                  /\ f.issueConfirmedNotifications <=> e.issueConfirmedNotifications
                  /\ f.invokeID = e.invokeID
  PROVE  TransactionsOwned' /\ RequestsKnown'
  BY DEF TransactionsOwned, RequestsKnown

\* The transactions of the subscriptions that are forgotten are released.
LEMMA OwnersReleased ==
  ASSUME CovIInv, NEW forgotten \in SUBSET Subs,
         TSM_List' = Released({COV_Subscriptions[s].invokeID : s \in forgotten}),
         UNCHANGED <<Current_Invoke_ID, config>>,
         \A s \in Subs :
           LET e == COV_Subscriptions[s]
               f == COV_Subscriptions'[s]
           IN  \/ s \in forgotten
               \/ e.valid /\ e.issueConfirmedNotifications =>
                    /\ f.valid /\ f.issueConfirmedNotifications
                    /\ f.invokeID = e.invokeID
  PROVE  TsmIInv' /\ TransactionsOwned' /\ RequestsKnown'
<1> DEFINE ids == {COV_Subscriptions[s].invokeID : s \in forgotten}
<1>0. /\ COV_Subscriptions \in [Subs -> Subscription] /\ TsmIInv
      /\ TransactionsOwned /\ RequestsKnown /\ Current_Invoke_ID \in InvokeIDs
  BY DEF CovIInv, CovTypeOK, TsmIInv, TsmTypeOK
<1>1. ids \in SUBSET (0 .. MAX_INVOKE_ID)
  BY <1>0 DEF Subscription
<1> HIDE DEF ids
<1>2. /\ Table(TSM_List')
      /\ \A i \in Slots :
           IF TSM_List[i].InvokeID \in ids \ {0}
             THEN TSM_List'[i].InvokeID = 0
             ELSE TSM_List'[i] = TSM_List[i]
  BY <1>0, <1>1, ReleasedTable DEF ids
<1>3. TsmIInv'
  BY <1>0, <1>2, TsmStep
<1>4. ASSUME NEW i \in Slots, TSM_List'[i].InvokeID # 0
      PROVE  /\ TSM_List'[i] = TSM_List[i]
             /\ TSM_List[i].request \in Subs
             /\ TSM_List[i].request \notin forgotten
  <2>1. TSM_List'[i] = TSM_List[i] /\ TSM_List[i].InvokeID \notin ids \ {0}
    BY <1>2, <1>4
  <2>2. /\ TSM_List[i].request \in Subs
        /\ COV_Subscriptions[TSM_List[i].request].invokeID = TSM_List[i].InvokeID
    BY <1>0, <1>4, <2>1 DEF TransactionsOwned, RequestsKnown
  <2>3. TSM_List[i].request \notin forgotten
    BY <1>4, <2>1, <2>2 DEF ids
  <2> QED
    BY <2>1, <2>2, <2>3
<1>5. TransactionsOwned'
  BY <1>0, <1>4 DEF TransactionsOwned
<1>6. RequestsKnown'
  BY <1>4 DEF RequestsKnown
<1> QED
  BY <1>3, <1>5, <1>6

LEMMA MatchingMin ==
  ASSUME NEW src, NEW process, NEW obj, Matching(src, process, obj) # {}
  PROVE  LET s == Min(Matching(src, process, obj))
         IN  /\ s \in Subs /\ COV_Subscriptions[s].valid
             /\ COV_Subscriptions[s].object = obj
             /\ COV_Subscriptions[s].process = process
             /\ cov_address_get(COV_Subscriptions[s].dest_index) \in {src, NoAddress}
<1>1. Matching(src, process, obj) \in SUBSET Nat
  BY SubsNat DEF Matching
<1>2. Min(Matching(src, process, obj)) \in Matching(src, process, obj)
  BY <1>1, MinNat
<1> QED
  BY <1>2 DEF Matching

LEMMA CancelledType ==
  ASSUME NEW e \in Subscription
  PROVE  Cancelled(e) \in Subscription /\ ~ Cancelled(e).valid
<1>1. 0 \in 0 .. MAX_INVOKE_ID /\ MAX_COV_ADDRESSES \in 0 .. MAX_COV_ADDRESSES
  BY CovConstants, TsmConstants
<1> QED
  BY <1>1 DEF Subscription, Cancelled

LEMMA RenewedType ==
  ASSUME NEW e \in Subscription, NEW d \in 0 .. MAX_COV_ADDRESSES,
         NEW c \in BOOLEAN, NEW l \in Nat
  PROVE  LET f == Renewed(e, d, c, l)
         IN  /\ f \in Subscription /\ f.dest_index = d
             /\ f.valid = e.valid /\ f.object = e.object /\ f.process = e.process
             /\ f.send_requested /\ f.issueConfirmedNotifications = c
<1>1. 0 \in 0 .. MAX_INVOKE_ID
  BY TsmConstants
<1> QED
  BY <1>1 DEF Subscription, Renewed

LEMMA ExpiredType ==
  ASSUME NEW e \in Subscription
  PROVE  Expired(e) \in Subscription /\ ~ Expired(e).valid
<1>1. (IF e.issueConfirmedNotifications THEN 0 ELSE e.invokeID) \in 0 .. MAX_INVOKE_ID
  BY TsmConstants DEF Subscription
<1>2. MAX_COV_ADDRESSES \in 0 .. MAX_COV_ADDRESSES
  BY CovConstants
<1> QED
  BY <1>1, <1>2 DEF Subscription, Expired

LEMMA RemainsType ==
  ASSUME NEW e \in Subscription
  PROVE  LET f == [e EXCEPT !.lifetime = Remains(e)]
         IN  /\ f \in Subscription /\ f.valid = e.valid
             /\ f.dest_index = e.dest_index /\ f.invokeID = e.invokeID
             /\ f.issueConfirmedNotifications = e.issueConfirmedNotifications
             /\ f.send_requested = e.send_requested /\ f.object = e.object
             /\ f.process = e.process
<1>1. Remains(e) \in Nat
  BY DEF Remains, Subscription
<1> QED
  BY <1>1 DEF Subscription

----------------------------------------------------------------------------
(* Every action keeps the invariant.                                       *)

LEMMA CancelIInv ==
  ASSUME CovIInv, NEW src \in Addresses, NEW process, NEW obj,
         Cancel(src, process, obj)
  PROVE  CovIInv'
<1> DEFINE s == Min(Matching(src, process, obj))
<1>0. /\ COV_Subscriptions \in [Subs -> Subscription]
      /\ COV_Addresses \in [Dests -> Addresses \cup {NoAddress}]
      /\ AddressesCounted /\ due \in SUBSET Subs
  BY DEF CovIInv, CovTypeOK
<1>1. s \in Subs
  BY MatchingMin DEF Cancel
<1>2. /\ COV_Subscriptions' = [COV_Subscriptions EXCEPT ![s] = Cancelled(@)]
      /\ COV_Addresses' = cov_address_remove_unused(COV_Subscriptions')
      /\ TSM_List' = Released({COV_Subscriptions[s].invokeID})
      /\ due' = due \ {s}
      /\ UNCHANGED <<Current_Invoke_ID, config, task, world>>
  BY DEF Cancel
<1> HIDE DEF s
<1>3. Cancelled(COV_Subscriptions[s]) \in Subscription
      /\ ~ Cancelled(COV_Subscriptions[s]).valid
  BY <1>0, <1>1, CancelledType
<1>4. /\ COV_Subscriptions' \in [Subs -> Subscription]
      /\ ~ COV_Subscriptions'[s].valid
      /\ \A t \in Subs \ {s} : COV_Subscriptions'[t] = COV_Subscriptions[t]
  BY <1>0, <1>1, <1>2, <1>3
<1>5. /\ COV_Addresses' \in [Dests -> Addresses \cup {NoAddress}]
      /\ AddressesCounted'
  BY <1>0, <1>2, <1>4, AddressesLeft
<1>6. TSM_List' = Released({COV_Subscriptions[t].invokeID : t \in {s}})
  BY <1>2
<1>7. TsmIInv' /\ TransactionsOwned' /\ RequestsKnown'
  BY <1>1, <1>2, <1>4, <1>6, OwnersReleased
<1>8. CovTypeOK'
  BY <1>0, <1>2, <1>4, <1>5, <1>7 DEF CovIInv, CovTypeOK, TsmIInv, task, world
<1> QED
  BY <1>5, <1>7, <1>8 DEF CovIInv

LEMMA RenewIInv ==
  ASSUME CovIInv, NEW src \in Addresses, NEW process, NEW obj,
         NEW confirmed \in BOOLEAN, NEW lifetime \in Nat,
         Renew(src, process, obj, confirmed, lifetime)
  PROVE  CovIInv'
<1> DEFINE s == Min(Matching(src, process, obj))
           d == cov_address_add(src)
<1>0. /\ COV_Subscriptions \in [Subs -> Subscription]
      /\ COV_Addresses \in [Dests -> Addresses \cup {NoAddress}]
      /\ AddressesCounted /\ due \in SUBSET Subs
  BY DEF CovIInv, CovTypeOK
<1>1. /\ s \in Subs /\ COV_Subscriptions[s].valid
      /\ cov_address_get(COV_Subscriptions[s].dest_index) \in {src, NoAddress}
  BY MatchingMin DEF Renew
<1>2. /\ COV_Subscriptions' =
           [COV_Subscriptions EXCEPT ![s] = Renewed(@, d, confirmed, lifetime)]
      /\ COV_Addresses' = WithAddress(src)
      /\ TSM_List' = Released({COV_Subscriptions[s].invokeID})
      /\ due' = due \cup {s}
      /\ UNCHANGED <<Current_Invoke_ID, config, task, world>>
  BY DEF Renew
<1>3. d \in 0 .. MAX_COV_ADDRESSES
  BY <1>0, AddressAdd
<1> HIDE DEF s, d
<1>4. LET f == Renewed(COV_Subscriptions[s], d, confirmed, lifetime)
      IN  f \in Subscription /\ f.valid = COV_Subscriptions[s].valid /\ f.dest_index = d
  <2> DEFINE e == COV_Subscriptions[s]
  <2>1. e \in Subscription /\ 0 \in 0 .. MAX_INVOKE_ID
    BY <1>0, <1>1, TsmConstants
  <2> HIDE DEF e
  <2>2. Renewed(e, d, confirmed, lifetime) \in Subscription
    BY <1>3, <2>1 DEF Subscription, Renewed
  <2>3. /\ Renewed(e, d, confirmed, lifetime).valid = e.valid
        /\ Renewed(e, d, confirmed, lifetime).dest_index = d
    BY <2>1 DEF Subscription, Renewed
  <2> QED
    BY <2>2, <2>3 DEF e
<1>5. /\ COV_Subscriptions' \in [Subs -> Subscription]
      /\ COV_Subscriptions'[s].valid /\ COV_Subscriptions'[s].dest_index = d
      /\ \A t \in Subs \ {s} : COV_Subscriptions'[t] = COV_Subscriptions[t]
  BY <1>0, <1>1, <1>2, <1>4
<1>6. /\ COV_Addresses' \in [Dests -> Addresses \cup {NoAddress}]
      /\ AddressesCounted'
  BY <1>0, <1>1, <1>2, <1>5, AddressTaken DEF d
<1>7. TSM_List' = Released({COV_Subscriptions[t].invokeID : t \in {s}})
  BY <1>2
<1>8. TsmIInv' /\ TransactionsOwned' /\ RequestsKnown'
  BY <1>1, <1>2, <1>5, <1>7, OwnersReleased
<1>9. CovTypeOK'
  BY <1>0, <1>1, <1>2, <1>5, <1>6, <1>8 DEF CovIInv, CovTypeOK, TsmIInv, task, world
<1> QED
  BY <1>6, <1>8, <1>9 DEF CovIInv

LEMMA SubscribeIInv ==
  ASSUME CovIInv, NEW src \in Addresses, NEW process \in Processes,
         NEW obj \in Objects, NEW confirmed \in BOOLEAN, NEW lifetime \in Nat,
         Subscribe(src, process, obj, confirmed, lifetime)
  PROVE  CovIInv'
<1> DEFINE s == Min(FreeSubs)
           d == cov_address_add(src)
           e == [valid |-> TRUE, dest_index |-> d, object |-> obj,
                 process |-> process, issueConfirmedNotifications |-> confirmed,
                 invokeID |-> 0, lifetime |-> lifetime, send_requested |-> TRUE]
<1>0. /\ COV_Subscriptions \in [Subs -> Subscription]
      /\ COV_Addresses \in [Dests -> Addresses \cup {NoAddress}]
      /\ AddressesCounted /\ due \in SUBSET Subs
      /\ TransactionsOwned /\ RequestsKnown
  BY DEF CovIInv, CovTypeOK
<1>1. s \in Subs /\ ~ COV_Subscriptions[s].valid
  <2>1. FreeSubs \in SUBSET Nat /\ FreeSubs # {}
    BY SubsNat DEF FreeSubs, Subscribe
  <2>2. Min(FreeSubs) \in FreeSubs
    BY <2>1, MinNat
  <2> QED
    BY <2>2 DEF FreeSubs
<1>2. /\ COV_Subscriptions' = [COV_Subscriptions EXCEPT ![s] = e]
      /\ COV_Addresses' = WithAddress(src)
      /\ due' = due \cup {s}
      /\ UNCHANGED <<tsmVars, task, world>>
  BY DEF Subscribe
<1>3. d \in 0 .. MAX_COV_ADDRESSES /\ 0 \in 0 .. MAX_INVOKE_ID
  BY <1>0, AddressAdd, TsmConstants
<1> HIDE DEF s, d
<1>4. e \in Subscription /\ e.valid /\ e.dest_index = d
  BY <1>3 DEF Subscription
<1> HIDE DEF e
<1>5. /\ COV_Subscriptions' \in [Subs -> Subscription]
      /\ COV_Subscriptions'[s].valid /\ COV_Subscriptions'[s].dest_index = d
      /\ \A t \in Subs \ {s} : COV_Subscriptions'[t] = COV_Subscriptions[t]
  BY <1>0, <1>1, <1>2, <1>4
<1>6. /\ COV_Addresses' \in [Dests -> Addresses \cup {NoAddress}]
      /\ AddressesCounted'
  BY <1>0, <1>1, <1>2, <1>5, AddressTaken DEF d
<1>7. TSM_List' = TSM_List /\ TsmIInv'
  BY <1>2 DEF tsmVars, config, CovIInv, TsmIInv, TsmTypeOK, UniqueInvokeIDs,
              UnusedIsIdle
<1>8. \A i \in Slots : TSM_List[i].InvokeID # 0 =>
                         TSM_List[i].request \in Subs \ {s}
  BY <1>0, <1>1 DEF TransactionsOwned, RequestsKnown
<1>9. TransactionsOwned' /\ RequestsKnown'
  BY <1>0, <1>5, <1>7, <1>8, OwnersKept
<1>10. CovTypeOK'
  BY <1>0, <1>1, <1>2, <1>5, <1>6, <1>7 DEF CovIInv, CovTypeOK, TsmIInv, task, world
<1> QED
  BY <1>6, <1>7, <1>9, <1>10 DEF CovIInv

LEMMA SecondsIInv == CovIInv /\ handler_cov_timer_seconds => CovIInv'
<1> SUFFICES ASSUME CovIInv, handler_cov_timer_seconds PROVE CovIInv'
  OBVIOUS
<1> DEFINE gone      == {s \in Subs : Expires(COV_Subscriptions[s])}
           forgotten == {s \in gone : COV_Subscriptions[s].issueConfirmedNotifications}
<1>0. /\ COV_Subscriptions \in [Subs -> Subscription]
      /\ COV_Addresses \in [Dests -> Addresses \cup {NoAddress}]
      /\ AddressesCounted /\ due \in SUBSET Subs
  BY DEF CovIInv, CovTypeOK
<1>1. /\ COV_Subscriptions' =
           [s \in Subs |-> LET e == COV_Subscriptions[s] IN
              IF s \in gone THEN Expired(e)
              ELSE IF e.valid THEN [e EXCEPT !.lifetime = Remains(e)]
              ELSE e]
      /\ COV_Addresses' = IF gone = {} THEN COV_Addresses
                          ELSE cov_address_remove_unused(COV_Subscriptions')
      /\ TSM_List' = Released({COV_Subscriptions[s].invokeID : s \in forgotten})
      /\ due' = due \ gone
      /\ UNCHANGED <<Current_Invoke_ID, config, task, world>>
  BY DEF handler_cov_timer_seconds
<1>2. ASSUME NEW s \in Subs
      PROVE  LET e == COV_Subscriptions[s]
                 f == COV_Subscriptions'[s]
             IN  /\ f \in Subscription
                 /\ s \in gone => ~ f.valid
                 /\ s \notin gone =>
                      /\ f.valid = e.valid /\ f.dest_index = e.dest_index
                      /\ f.invokeID = e.invokeID
                      /\ f.issueConfirmedNotifications = e.issueConfirmedNotifications
  BY <1>0, <1>1, ExpiredType, RemainsType
<1>3. COV_Subscriptions' \in [Subs -> Subscription]
  BY <1>1, <1>2
<1>4. /\ COV_Addresses' \in [Dests -> Addresses \cup {NoAddress}]
      /\ AddressesCounted'
  <2>1. CASE gone = {}
    <3>1. COV_Addresses' = COV_Addresses
      BY <1>1, <2>1
    <3>2. \A s \in Subs :
            /\ COV_Subscriptions'[s].valid <=> COV_Subscriptions[s].valid
            /\ COV_Subscriptions'[s].dest_index = COV_Subscriptions[s].dest_index
      BY <1>2, <2>1
    <3> QED
      BY <1>0, <3>1, <3>2, AddressesSame
  <2>2. CASE gone # {}
    <3>1. COV_Addresses' = cov_address_remove_unused(COV_Subscriptions')
      BY <1>1, <2>2
    <3>2. \A s \in Subs : COV_Subscriptions'[s].valid =>
            /\ COV_Subscriptions[s].valid
            /\ COV_Subscriptions'[s].dest_index = COV_Subscriptions[s].dest_index
      BY <1>2
    <3> QED
      BY <1>0, <3>1, <3>2, AddressesLeft
  <2> QED
    BY <2>1, <2>2
<1>5. TsmIInv' /\ TransactionsOwned' /\ RequestsKnown'
  <2>1. forgotten \in SUBSET Subs
    OBVIOUS
  <2>2. \A s \in Subs :
          LET e == COV_Subscriptions[s]
              f == COV_Subscriptions'[s]
          IN  \/ s \in forgotten
              \/ e.valid /\ e.issueConfirmedNotifications =>
                   /\ f.valid /\ f.issueConfirmedNotifications
                   /\ f.invokeID = e.invokeID
    BY <1>2
  <2> HIDE DEF forgotten
  <2> QED
    BY <1>1, <2>1, <2>2, OwnersReleased
<1>6. CovTypeOK'
  BY <1>0, <1>1, <1>3, <1>4, <1>5 DEF CovIInv, CovTypeOK, TsmIInv, task, world
<1> QED
  BY <1>4, <1>5, <1>6 DEF CovIInv

\* The steps of the task: a step changes at most the current subscription,
\* and neither its validity nor its address.
LEMMA FlaggedIInv ==
  ASSUME CovIInv, NEW v \in BOOLEAN, NEW marks \in BOOLEAN,
         COV_Subscriptions' =
           IF marks THEN [COV_Subscriptions EXCEPT ![index].send_requested = v]
                    ELSE COV_Subscriptions,
         UNCHANGED <<TSM_List, Current_Invoke_ID, config, COV_Addresses>>
  PROVE  /\ COV_Subscriptions' \in [Subs -> Subscription]
         /\ \A s \in Subs \ {index} : COV_Subscriptions'[s] = COV_Subscriptions[s]
         /\ LET e == COV_Subscriptions[index]
                f == COV_Subscriptions'[index]
            IN  f.valid = e.valid /\ f.object = e.object
         /\ COV_Addresses' \in [Dests -> Addresses \cup {NoAddress}]
         /\ AddressesCounted'
         /\ TsmIInv' /\ TransactionsOwned' /\ RequestsKnown'
<1>0. /\ COV_Subscriptions \in [Subs -> Subscription] /\ index \in Subs
      /\ COV_Addresses \in [Dests -> Addresses \cup {NoAddress}]
      /\ AddressesCounted /\ TsmIInv /\ TransactionsOwned /\ RequestsKnown
  BY DEF CovIInv, CovTypeOK
<1>1. \A s \in Subs :
        LET e == COV_Subscriptions[s]
            f == COV_Subscriptions'[s]
        IN  /\ f \in Subscription
            /\ s # index => f = e
            /\ f.valid = e.valid /\ f.dest_index = e.dest_index
            /\ f.issueConfirmedNotifications = e.issueConfirmedNotifications
            /\ f.invokeID = e.invokeID /\ f.object = e.object
  BY <1>0 DEF Subscription
<1>2. COV_Subscriptions' \in [Subs -> Subscription]
  BY <1>0, <1>1
<1>3. /\ COV_Addresses' \in [Dests -> Addresses \cup {NoAddress}]
      /\ AddressesCounted'
  BY <1>0, <1>1, AddressesSame
<1>4. TsmIInv'
  BY <1>0 DEF TsmIInv, TsmTypeOK, UniqueInvokeIDs, UnusedIsIdle, config
<1>5. \A i \in Slots : TSM_List[i].InvokeID # 0 => TSM_List[i].request \in Subs
  BY <1>0 DEF RequestsKnown
<1>6. TransactionsOwned' /\ RequestsKnown'
  BY <1>0, <1>1, <1>5, OwnersKept
<1> QED
  BY <1>0, <1>1, <1>2, <1>3, <1>4, <1>6

LEMMA AdvanceType ==
  ASSUME index \in Subs, NEW next, Advance(next)
  PROVE  index' \in Subs /\ cov_task_state' \in {cov_task_state, next}
  BY CovConstants DEF Advance, Subs

LEMMA MarkIInv == CovIInv /\ (TaskIdle \/ TaskMark \/ TaskClear) => CovIInv'
<1> SUFFICES ASSUME CovIInv, TaskIdle \/ TaskMark \/ TaskClear PROVE CovIInv'
  OBVIOUS
<1> DEFINE marks == TaskMark /\ cur.valid /\ cur.object \in changed
<1>0. CovTypeOK /\ index \in Subs /\ 0 \in Subs /\ changed \in SUBSET Objects
  BY CovConstants DEF CovIInv, CovTypeOK, Subs
<1>1. /\ COV_Subscriptions' =
           IF marks THEN [COV_Subscriptions EXCEPT ![index].send_requested = TRUE]
                    ELSE COV_Subscriptions
      /\ UNCHANGED <<TSM_List, Current_Invoke_ID, config, COV_Addresses, due>>
  BY DEF TaskIdle, TaskMark, TaskClear, tsmVars
<1>2. marks \in BOOLEAN
  OBVIOUS
<1> HIDE DEF marks
<1>3. /\ COV_Subscriptions' \in [Subs -> Subscription]
      /\ COV_Addresses' \in [Dests -> Addresses \cup {NoAddress}]
      /\ AddressesCounted' /\ TsmIInv' /\ TransactionsOwned' /\ RequestsKnown'
  BY <1>1, <1>2, FlaggedIInv
<1>4. /\ index' \in Subs
      /\ cov_task_state' \in {"COV_STATE_IDLE", "COV_STATE_MARK", "COV_STATE_CLEAR",
                              "COV_STATE_FREE", "COV_STATE_SEND"}
  BY <1>0, AdvanceType DEF TaskIdle, TaskMark, TaskClear, CovTypeOK
<1>5. changed' \in SUBSET Objects
  BY <1>0 DEF TaskIdle, TaskMark, TaskClear, world
<1> QED
  BY <1>0, <1>1, <1>3, <1>4, <1>5 DEF CovIInv, CovTypeOK, TsmIInv

LEMMA FreeStepIInv == CovIInv /\ TaskFree => CovIInv'
<1> SUFFICES ASSUME CovIInv, TaskFree PROVE CovIInv'
  OBVIOUS
<1>0. /\ COV_Subscriptions \in [Subs -> Subscription] /\ index \in Subs
      /\ COV_Addresses \in [Dests -> Addresses \cup {NoAddress}]
      /\ AddressesCounted /\ TsmIInv /\ TransactionsOwned /\ RequestsKnown
      /\ changed \in SUBSET Objects /\ due \in SUBSET Subs
      /\ Current_Invoke_ID \in InvokeIDs
  BY DEF CovIInv, CovTypeOK, TsmIInv, TsmTypeOK
<1>1. /\ UNCHANGED <<Current_Invoke_ID, config, COV_Addresses, changed, due>>
      /\ index' \in Subs
      /\ cov_task_state' \in {"COV_STATE_FREE", "COV_STATE_SEND"}
  BY <1>0, AdvanceType DEF TaskFree, world
<1> DEFINE id    == cur.invokeID
           frees == /\ cur.valid /\ cur.issueConfirmedNotifications /\ id # 0
                    /\ Settled(id)
<1>2. CASE frees
  <2>1. /\ TSM_List' = tsm_free_invoke_id(TSM_List, id)
        /\ COV_Subscriptions' = [COV_Subscriptions EXCEPT ![index].invokeID = 0]
    BY <1>2 DEF TaskFree
  <2>2. id \in InvokeIDs
    <3>1. id \in 0 .. MAX_INVOKE_ID
      BY <1>0 DEF cur, Subscription
    <3> QED
      BY <1>2, <3>1, TsmConstants DEF InvokeIDs
  <2> HIDE DEF id
  <2>3. Table(TSM_List)
    BY <1>0, TsmTable
  <2>4. /\ Table(TSM_List')
        /\ \A i \in Slots : IF TSM_List[i].InvokeID = id
                              THEN TSM_List'[i].InvokeID = 0
                              ELSE TSM_List'[i] = TSM_List[i]
    BY <2>1, <2>2, <2>3, FreeTable
  <2>5. TsmIInv'
    BY <1>0, <1>1, <2>4, TsmStep
  <2>6. 0 \in 0 .. MAX_INVOKE_ID
    BY TsmConstants
  <2>7. \A s \in Subs :
          LET e == COV_Subscriptions[s]
              f == COV_Subscriptions'[s]
          IN  /\ f \in Subscription
              /\ s # index => f = e
              /\ f.valid = e.valid /\ f.dest_index = e.dest_index
    BY <1>0, <2>1, <2>6 DEF Subscription
  <2>8. COV_Subscriptions' \in [Subs -> Subscription]
    BY <1>0, <2>1, <2>7
  <2>9. /\ COV_Addresses' \in [Dests -> Addresses \cup {NoAddress}]
        /\ AddressesCounted'
    BY <1>0, <1>1, <2>7, AddressesSame
  <2>10. ASSUME NEW i \in Slots, TSM_List'[i].InvokeID # 0
         PROVE  /\ TSM_List'[i] = TSM_List[i]
                /\ TSM_List[i].request \in Subs
                /\ TSM_List[i].request # index
    <3>1. TSM_List'[i] = TSM_List[i] /\ TSM_List[i].InvokeID # id
      BY <2>4, <2>10
    <3>2. /\ TSM_List[i].request \in Subs
          /\ COV_Subscriptions[TSM_List[i].request].invokeID = TSM_List[i].InvokeID
      BY <1>0, <2>10, <3>1 DEF TransactionsOwned, RequestsKnown
    <3> QED
      BY <3>1, <3>2 DEF id, cur
  <2>11. TransactionsOwned' /\ RequestsKnown'
    BY <1>0, <2>7, <2>10, OwnersKept
  <2>12. CovTypeOK'
    BY <1>0, <1>1, <2>5, <2>8, <2>9 DEF CovIInv, CovTypeOK, TsmIInv
  <2> QED
    BY <2>5, <2>9, <2>11, <2>12 DEF CovIInv
<1>3. CASE ~ frees
  <2>1. UNCHANGED <<TSM_List, COV_Subscriptions>>
    BY <1>3 DEF TaskFree
  <2>2. FALSE \in BOOLEAN /\ COV_Subscriptions' =
          IF FALSE THEN [COV_Subscriptions EXCEPT ![index].send_requested = FALSE]
                   ELSE COV_Subscriptions
    BY <2>1
  <2>3. /\ COV_Addresses' \in [Dests -> Addresses \cup {NoAddress}]
        /\ AddressesCounted' /\ TsmIInv' /\ TransactionsOwned' /\ RequestsKnown'
    BY <1>1, <2>1, <2>2, FlaggedIInv
  <2> QED
    BY <1>0, <1>1, <2>1, <2>3 DEF CovIInv, CovTypeOK, TsmIInv
<1> QED
  BY <1>2, <1>3

LEMMA SendIInv == CovIInv /\ TaskSend => CovIInv'
<1> SUFFICES ASSUME CovIInv, TaskSend PROVE CovIInv'
  OBVIOUS
<1>0. /\ COV_Subscriptions \in [Subs -> Subscription] /\ index \in Subs
      /\ COV_Addresses \in [Dests -> Addresses \cup {NoAddress}]
      /\ AddressesCounted /\ TsmIInv /\ TransactionsOwned /\ RequestsKnown
      /\ changed \in SUBSET Objects /\ due \in SUBSET Subs
      /\ Current_Invoke_ID \in InvokeIDs
  BY DEF CovIInv, CovTypeOK, TsmIInv, TsmTypeOK
<1>1. /\ UNCHANGED <<config, COV_Addresses, changed>>
      /\ index' \in Subs
      /\ cov_task_state' \in {"COV_STATE_SEND", "COV_STATE_IDLE"}
  BY <1>0, AdvanceType DEF TaskSend, world
<1> DEFINE sends == /\ MaySend(cur)
                    /\ communication /\ cov_address_get(cur.dest_index) # NoAddress
<1>2. CASE sends /\ cur.issueConfirmedNotifications
  <2> DEFINE r    == tsm_next_free_invokeID(TSM_List, Current_Invoke_ID)
             list == tsm_set_confirmed_unsegmented_transaction(
                       r.list, r.invokeID, index)
  <2>1. PICK ok \in Sends :
          /\ TSM_List' = list /\ Current_Invoke_ID' = r.current
          /\ COV_Subscriptions' = [COV_Subscriptions EXCEPT
               ![index].invokeID = r.invokeID, ![index].send_requested = ~ ok]
          /\ due' = IF ok THEN due \ {index} ELSE due
    BY <1>2 DEF TaskSend, cov_send_request
  <2>2. /\ r.invokeID \in InvokeIDs /\ r.current \in InvokeIDs
        /\ Table(list)
        /\ \E k \in Slots :
             /\ list[k].InvokeID = r.invokeID /\ list[k].request = index
             /\ \A j \in Slots \ {k} : list[j] = TSM_List[j]
    <3>1. tsm_transaction_available(TSM_List) /\ index \in Requests
      BY <1>0, <1>2, SubsNat DEF MaySend
    <3> QED
      BY <1>0, <3>1, SentTable
  <2> HIDE DEF r, list
  <2>3. PICK k \in Slots :
          /\ list[k].InvokeID = r.invokeID /\ list[k].request = index
          /\ \A j \in Slots \ {k} : list[j] = TSM_List[j]
    BY <2>2
  <2>4. TsmIInv'
    BY <1>0, <1>1, <2>1, <2>2, TsmStep
  <2>5. /\ r.invokeID \in 0 .. MAX_INVOKE_ID
        /\ \E v \in BOOLEAN : COV_Subscriptions' = [COV_Subscriptions EXCEPT
             ![index].invokeID = r.invokeID, ![index].send_requested = v]
    <3>1. r.invokeID \in 0 .. MAX_INVOKE_ID
      BY <2>2, TsmConstants DEF InvokeIDs
    <3>2. (~ ok) \in BOOLEAN
      OBVIOUS
    <3> QED
      BY <2>1, <3>1, <3>2, Zenon
  <2>6. \A s \in Subs :
          LET e == COV_Subscriptions[s]
              f == COV_Subscriptions'[s]
          IN  /\ f \in Subscription
              /\ s # index => f = e
              /\ s = index => f.invokeID = r.invokeID
              /\ f.valid = e.valid /\ f.dest_index = e.dest_index
              /\ f.issueConfirmedNotifications = e.issueConfirmedNotifications
    <3>1. PICK v \in BOOLEAN : COV_Subscriptions' = [COV_Subscriptions EXCEPT
            ![index].invokeID = r.invokeID, ![index].send_requested = v]
      BY <2>5
    <3> DEFINE id == r.invokeID
               e  == COV_Subscriptions[index]
               f  == [[e EXCEPT !.invokeID = id] EXCEPT !.send_requested = v]
    <3>2. id \in 0 .. MAX_INVOKE_ID /\ e \in Subscription
      BY <1>0, <2>5
    <3>3. COV_Subscriptions' = [COV_Subscriptions EXCEPT ![index] = f]
      BY <1>0, <3>1 DEF Subscription
    <3> HIDE DEF id, e
    <3>4. /\ f \in Subscription /\ f.invokeID = id
          /\ f.valid = e.valid /\ f.dest_index = e.dest_index
          /\ f.issueConfirmedNotifications = e.issueConfirmedNotifications
      BY <3>2 DEF Subscription
    <3> HIDE DEF f
    <3> QED
      BY <1>0, <3>3, <3>4 DEF id, e
  <2>7. COV_Subscriptions' \in [Subs -> Subscription]
    BY <1>0, <2>1, <2>6
  <2>8. /\ COV_Addresses' \in [Dests -> Addresses \cup {NoAddress}]
        /\ AddressesCounted'
    BY <1>0, <1>1, <2>6, AddressesSame
  <2>9. cur.valid /\ cur.issueConfirmedNotifications /\ cur.invokeID = 0
    BY <1>2 DEF MaySend
  <2>10. \A j \in Slots : TSM_List[j].InvokeID # 0 =>
           /\ TSM_List[j].request \in Subs
           /\ TSM_List[j].request # index
    BY <1>0, <2>9 DEF TransactionsOwned, RequestsKnown, cur
  <2>11. TransactionsOwned' /\ RequestsKnown'
    <3> SUFFICES ASSUME NEW i \in Slots, TSM_List'[i].InvokeID # 0
                 PROVE  LET f == COV_Subscriptions'[TSM_List'[i].request]
                        IN  /\ f.valid /\ f.issueConfirmedNotifications
                            /\ f.invokeID = TSM_List'[i].InvokeID
                            /\ TSM_List'[i].request \in Subs
      BY DEF TransactionsOwned, RequestsKnown
    <3>1. CASE i = k
      BY <1>0, <2>1, <2>3, <2>6, <2>9, <3>1 DEF cur
    <3>2. CASE i # k
      <4>1. TSM_List'[i] = TSM_List[i]
        BY <2>1, <2>3, <3>2
      <4>2. TSM_List[i].request \in Subs \ {index}
        BY <2>10, <4>1
      <4> QED
        BY <1>0, <2>6, <4>1, <4>2 DEF TransactionsOwned
    <3> QED
      BY <3>1, <3>2
  <2>12. CovTypeOK'
    BY <1>0, <1>1, <2>1, <2>4, <2>7, <2>8 DEF CovIInv, CovTypeOK, TsmIInv
  <2> QED
    BY <2>4, <2>8, <2>11, <2>12 DEF CovIInv
<1>3. CASE sends /\ ~ cur.issueConfirmedNotifications
  <2>1. PICK ok \in Sends :
          /\ UNCHANGED <<TSM_List, Current_Invoke_ID>>
          /\ COV_Subscriptions' = [COV_Subscriptions EXCEPT
               ![index].invokeID = @, ![index].send_requested = ~ ok]
          /\ due' = IF ok THEN due \ {index} ELSE due
    BY <1>3 DEF TaskSend, cov_send_request
  <2>2. PICK v \in BOOLEAN : COV_Subscriptions' =
          IF TRUE THEN [COV_Subscriptions EXCEPT ![index].send_requested = v]
                  ELSE COV_Subscriptions
    <3>1. PICK v \in BOOLEAN : COV_Subscriptions' = [COV_Subscriptions EXCEPT
            ![index].invokeID = @, ![index].send_requested = v]
      <4>1. (~ ok) \in BOOLEAN
        OBVIOUS
      <4> QED
        BY <2>1, <4>1, Zenon
    <3>2. COV_Subscriptions' = [COV_Subscriptions EXCEPT ![index].send_requested = v]
      BY <1>0, <3>1 DEF Subscription
    <3> QED
      BY <3>2
  <2>3. /\ COV_Subscriptions' \in [Subs -> Subscription]
        /\ COV_Addresses' \in [Dests -> Addresses \cup {NoAddress}]
        /\ AddressesCounted' /\ TsmIInv' /\ TransactionsOwned' /\ RequestsKnown'
    BY <1>1, <2>1, <2>2, FlaggedIInv
  <2> QED
    BY <1>0, <1>1, <2>1, <2>3 DEF CovIInv, CovTypeOK, TsmIInv
<1>4. CASE ~ sends
  <2>1. UNCHANGED <<TSM_List, Current_Invoke_ID, COV_Subscriptions, due>>
    BY <1>4 DEF TaskSend
  <2>2. COV_Subscriptions' =
          IF FALSE THEN [COV_Subscriptions EXCEPT ![index].send_requested = FALSE]
                   ELSE COV_Subscriptions
    BY <2>1
  <2>3. /\ COV_Addresses' \in [Dests -> Addresses \cup {NoAddress}]
        /\ AddressesCounted' /\ TsmIInv' /\ TransactionsOwned' /\ RequestsKnown'
    BY <1>1, <2>1, <2>2, FlaggedIInv
  <2> QED
    BY <1>0, <1>1, <2>1, <2>3 DEF CovIInv, CovTypeOK, TsmIInv
<1> QED
  BY <1>2, <1>3, <1>4

\* An object's change, a reply, the transaction timer, the end of a
\* communication control: none of them touches subscriptions or addresses.
LEMMA ChangeIInv ==
  ASSUME CovIInv, NEW o \in Objects, Change(o)
  PROVE  CovIInv'
<1>1. /\ UNCHANGED <<tsmVars, COV_Subscriptions, COV_Addresses, index, cov_task_state>>
      /\ changed' \subseteq Objects /\ due' \subseteq Subs
  BY DEF Change, CovIInv, CovTypeOK, task
<1> QED
  BY <1>1 DEF CovIInv, CovTypeOK, TsmIInv, TsmTypeOK, UniqueInvokeIDs, UnusedIsIdle,
              AddressesCounted, TransactionsOwned, RequestsKnown, tsmVars, config

LEMMA ReplyIInv == CovIInv /\ Reply => CovIInv'
<1> SUFFICES ASSUME CovIInv, NEW id \in InvokeIDs, FreeInvokeID(id), UNCHANGED covOnly
             PROVE  CovIInv'
  BY DEF Reply
<1>0. TsmIInv /\ Table(TSM_List)
  BY TsmTable DEF CovIInv
<1>1. TsmIInv'
  BY <1>0, FreeIInv, TsmConstants DEF InvokeIDs
<1>2. \A i \in Slots : TSM_List'[i].InvokeID # 0 => TSM_List'[i] = TSM_List[i]
  BY <1>0, FreeTable DEF FreeInvokeID
<1> QED
  BY <1>1, <1>2 DEF covOnly, CovIInv, CovTypeOK, TsmIInv, AddressesCounted,
                    TransactionsOwned, RequestsKnown

LEMMA TsmTimerIInv == CovIInv /\ TsmTimer => CovIInv'
<1> SUFFICES ASSUME CovIInv, NEW ms \in Ticks, TimerMilliseconds(ms), UNCHANGED covOnly
             PROVE  CovIInv'
  BY DEF TsmTimer, Timer
<1>0. /\ TsmIInv /\ TSM_List \in [Slots -> Slot] /\ ms \in Nat
      /\ Timeout_Milliseconds \in Nat
  BY TsmConstants DEF CovIInv, TsmIInv, TsmTypeOK
<1>1. TsmIInv'
  BY <1>0, TimerIInv
<1>2. \A i \in Slots : /\ TSM_List'[i].InvokeID = TSM_List[i].InvokeID
                       /\ TSM_List'[i].request = TSM_List[i].request
  BY <1>0, TimerSlotKeeps DEF TimerMilliseconds
<1> QED
  BY <1>1, <1>2 DEF covOnly, CovIInv, CovTypeOK, TsmIInv, AddressesCounted,
                    TransactionsOwned, RequestsKnown

LEMMA StutterIInv ==
  ASSUME CovIInv, SetCommunication \/ UNCHANGED covVars
  PROVE  CovIInv'
<1>1. UNCHANGED <<tsmVars, COV_Subscriptions, COV_Addresses, index, cov_task_state,
                  changed, due>>
  BY DEF SetCommunication, covVars, covOnly, task
<1> QED
  BY <1>1 DEF CovIInv, CovTypeOK, TsmIInv, TsmTypeOK, UniqueInvokeIDs, UnusedIsIdle,
              AddressesCounted, TransactionsOwned, RequestsKnown, tsmVars, config

LEMMA CovInitIInv == CovInit => CovIInv
<1> SUFFICES ASSUME CovInit PROVE CovIInv
  OBVIOUS
<1>1. TsmIInv
  BY InitIInv DEF CovInit
<1>2. PICK p \in Processes, o \in Objects :
        COV_Subscriptions =
          [s \in Subs |->
             [valid |-> FALSE, issueConfirmedNotifications |-> FALSE,
              send_requested |-> FALSE, dest_index |-> MAX_COV_ADDRESSES,
              invokeID |-> 0, process |-> p, object |-> o, lifetime |-> 0]]
  BY DEF CovInit
<1>3. /\ 0 \in 0 .. MAX_INVOKE_ID /\ MAX_COV_ADDRESSES \in 0 .. MAX_COV_ADDRESSES
      /\ 0 \in Subs
  BY CovConstants, TsmConstants DEF Subs
<1>4. /\ COV_Subscriptions \in [Subs -> Subscription]
      /\ \A s \in Subs : ~ COV_Subscriptions[s].valid
  BY <1>2, <1>3 DEF Subscription
<1>5. CovTypeOK
  BY <1>1, <1>3, <1>4 DEF CovInit, CovTypeOK, TsmIInv
<1>6. AddressesCounted
  BY <1>4 DEF CovInit, AddressesCounted
<1>7. \A i \in Slots : TSM_List[i].InvokeID = 0
  BY DEF CovInit, TsmInit
<1> QED
  BY <1>1, <1>5, <1>6, <1>7 DEF CovIInv, TransactionsOwned, RequestsKnown

\* A subscription request from somewhere.
LEMMA RequestIInv == CovIInv /\ handler_cov_subscribe => CovIInv'
<1> SUFFICES ASSUME CovIInv, NEW k \in Subscribers,
                    \/ Cancel(k[1], k[2], k[3])
                    \/ \E confirmed \in Confirmed, lifetime \in Lifetimes :
                         \/ Renew(k[1], k[2], k[3], confirmed, lifetime)
                         \/ Subscribe(k[1], k[2], k[3], confirmed, lifetime)
             PROVE  CovIInv'
  BY DEF handler_cov_subscribe
<1>1. k[1] \in Addresses /\ k[2] \in Processes /\ k[3] \in Objects
  BY CovConstants
<1>2. CASE Cancel(k[1], k[2], k[3])
  BY <1>1, <1>2, CancelIInv
<1>3. ASSUME NEW confirmed \in Confirmed, NEW lifetime \in Lifetimes,
             \/ Renew(k[1], k[2], k[3], confirmed, lifetime)
             \/ Subscribe(k[1], k[2], k[3], confirmed, lifetime)
      PROVE  CovIInv'
  <2>1. confirmed \in BOOLEAN /\ lifetime \in Nat
    BY CovConstants
  <2>2. CASE Renew(k[1], k[2], k[3], confirmed, lifetime)
    BY <1>1, <2>1, <2>2, RenewIInv, Zenon
  <2>3. CASE Subscribe(k[1], k[2], k[3], confirmed, lifetime)
    BY <1>1, <2>1, <2>3, SubscribeIInv, Zenon
  <2> QED
    BY <1>3, <2>2, <2>3
<1> QED
  BY <1>2, <1>3

LEMMA CovNextIInv == CovIInv /\ [CovNext]_covVars => CovIInv'
  BY RequestIInv, SecondsIInv, MarkIInv, FreeStepIInv, SendIInv, ChangeIInv,
     ReplyIInv, TsmTimerIInv, StutterIInv
     DEF CovNext, CovService, handler_cov_fsm

\* The inductive invariant holds in every reachable state.
LEMMA CovInductive == CovSpec => []CovIInv
  BY CovInitIInv, CovNextIInv, PTL DEF CovSpec

\* The tables of h_cov.c and the position of its task stay well typed: in
\* particular dest_index and invokeID of a subscription stay in range.
THEOREM CovTypeCorrect == CovSpec => []CovTypeOK
<1>1. CovIInv => CovTypeOK
  BY DEF CovIInv
<1> QED
  BY <1>1, CovInductive, PTL

\* The transaction table is sound also as h_cov.c uses it, which reads the slots
\* of its notifications and frees them itself: every id is held once, the slots
\* it frees are idle, and the search for an id ends.
THEOREM CovKeepsTsm ==
  CovSpec => [](UniqueInvokeIDs /\ FreedSlotsAreIdle /\ SearchEnds)
<1>1. CovIInv => UniqueInvokeIDs /\ FreedSlotsAreIdle /\ SearchEnds
  BY TsmIInvSafe DEF CovIInv
<1> QED
  BY <1>1, CovInductive, PTL

\* No address is left behind and none is removed too early, and no transaction
\* outlives the notification it carries, in any order of subscribing, renewing,
\* cancelling, expiring, sending and answering.
THEOREM CovTablesAgree == CovSpec => [](AddressesCounted /\ TransactionsOwned)
<1>1. CovIInv => AddressesCounted /\ TransactionsOwned
  BY DEF CovIInv
<1> QED
  BY <1>1, CovInductive, PTL

----------------------------------------------------------------------------
(* Who is subscribed.  A step leaves the contexts of the subscriptions     *)
(* alone, apart from ending some, or it enters one context, in place of an *)
(* old subscription or in an unused one.                                   *)

AddressOf(s) == cov_address_get(COV_Subscriptions[s].dest_index)

Same(s) ==
  /\ COV_Subscriptions[s].valid
  /\ COV_Subscriptions'[s].object = COV_Subscriptions[s].object
  /\ COV_Subscriptions'[s].process = COV_Subscriptions[s].process
  /\ COV_Subscriptions'[s].dest_index = COV_Subscriptions[s].dest_index
  /\ AddressOf(s)' = AddressOf(s)

Kept == \A s \in Subs : COV_Subscriptions'[s].valid => Same(s)

Matches(s, k) ==
  /\ COV_Subscriptions[s].valid
  /\ COV_Subscriptions[s].process = k[2] /\ COV_Subscriptions[s].object = k[3]
  /\ AddressOf(s) \in {k[1], NoAddress}

Entered(s, k) ==
  /\ COV_Subscriptions'[s].valid /\ COV_Subscriptions'[s].send_requested
  /\ COV_Subscriptions'[s].process = k[2] /\ COV_Subscriptions'[s].object = k[3]
  /\ COV_Subscriptions'[s].dest_index = cov_address_add(k[1])
  /\ AddressOf(s)' = IF cov_address_add(k[1]) \in Dests THEN k[1] ELSE NoAddress
  /\ \A t \in Subs \ {s} :
       /\ COV_Subscriptions'[t] = COV_Subscriptions[t]
       /\ COV_Subscriptions'[t].valid => Same(t)
  /\ \/ Matches(s, k)
     \/ \A t \in Subs : ~ Matches(t, k)
  /\ due' = due \cup {s} /\ changed' = changed

LEMMA AddressStays ==
  ASSUME NEW s \in Subs, COV_Subscriptions'[s].valid,
         COV_Subscriptions'[s].dest_index = COV_Subscriptions[s].dest_index,
         COV_Addresses' \in {COV_Addresses, cov_address_remove_unused(COV_Subscriptions')}
  PROVE  AddressOf(s)' = AddressOf(s)
  BY DEF AddressOf, cov_address_get, cov_address_remove_unused

\* Steps that end subscriptions or change no more than their flags and ids.
LEMMA KeptShape ==
  ASSUME COV_Addresses' \in {COV_Addresses, cov_address_remove_unused(COV_Subscriptions')},
         \A s \in Subs :
           LET e == COV_Subscriptions[s]
               f == COV_Subscriptions'[s]
           IN  f.valid => /\ e.valid /\ f.object = e.object
                          /\ f.process = e.process /\ f.dest_index = e.dest_index
  PROVE  Kept
  BY AddressStays DEF Kept, Same

\* cov_address_add() overwrites no address that a subscription uses.
LEMMA OthersStay ==
  ASSUME CovIInv, NEW src \in Addresses, COV_Addresses' = WithAddress(src),
         NEW t \in Subs, COV_Subscriptions[t].valid,
         COV_Subscriptions'[t] = COV_Subscriptions[t]
  PROVE  Same(t)
<1> DEFINE i == cov_address_add(src)
           j == COV_Subscriptions[t].dest_index
<1>1. /\ \A x \in Dests : /\ x = i => COV_Addresses'[x] = src
                          /\ x # i => COV_Addresses'[x] = COV_Addresses[x]
      /\ i \in Dests => COV_Addresses[i] \in {src, NoAddress}
  BY AddressAdd DEF CovIInv, CovTypeOK
<1> HIDE DEF i
<1>2. j \in Dests => COV_Addresses[j] # NoAddress
  BY DEF CovIInv, AddressesCounted
<1>3. AddressOf(t)' = AddressOf(t)
  BY <1>1, <1>2 DEF AddressOf, cov_address_get
<1> QED
  BY <1>3 DEF Same

LEMMA RenewShape ==
  ASSUME CovIInv, NEW k \in Subscribers,
         NEW confirmed \in BOOLEAN, NEW lifetime \in Nat,
         Renew(k[1], k[2], k[3], confirmed, lifetime)
  PROVE  \E s \in Subs : Entered(s, k)
<1> DEFINE d == cov_address_add(k[1])
<1>0. k[1] \in Addresses /\ COV_Subscriptions \in [Subs -> Subscription]
      /\ COV_Addresses \in [Dests -> Addresses \cup {NoAddress}] /\ AddressesCounted
  BY CovConstants DEF CovIInv, CovTypeOK
<1>1. PICK s \in Subs : s = Min(Matching(k[1], k[2], k[3])) /\ Matches(s, k)
  BY MatchingMin DEF Renew, Matches, AddressOf
<1> DEFINE e == COV_Subscriptions[s]
<1>2. /\ COV_Subscriptions' =
           [COV_Subscriptions EXCEPT ![s] = Renewed(@, d, confirmed, lifetime)]
      /\ COV_Addresses' = WithAddress(k[1])
      /\ due' = due \cup {s} /\ changed' = changed
  BY <1>1 DEF Renew, world
<1>3. d \in Dests => COV_Addresses'[d] = k[1]
  BY <1>0, <1>2, AddressAdd
<1> HIDE DEF d
<1>4. e \in Subscription /\ e.valid /\ e.process = k[2] /\ e.object = k[3]
  BY <1>0, <1>1 DEF Matches
<1>5. COV_Subscriptions'[s] = Renewed(e, d, confirmed, lifetime)
      /\ \A t \in Subs \ {s} : COV_Subscriptions'[t] = COV_Subscriptions[t]
  BY <1>0, <1>1, <1>2
<1> HIDE DEF e
<1>6. LET f == Renewed(e, d, confirmed, lifetime)
      IN  /\ f.valid = e.valid /\ f.send_requested = TRUE
          /\ f.process = e.process /\ f.object = e.object /\ f.dest_index = d
  BY <1>4 DEF Renewed, Subscription
<1>7. AddressOf(s)' = IF d \in Dests THEN k[1] ELSE NoAddress
  BY <1>3, <1>5, <1>6 DEF AddressOf, cov_address_get
<1>8. \A t \in Subs \ {s} : COV_Subscriptions'[t].valid => Same(t)
  <2> SUFFICES ASSUME NEW t \in Subs \ {s}, COV_Subscriptions'[t].valid
               PROVE  Same(t)
    OBVIOUS
  <2>1. COV_Subscriptions'[t] = COV_Subscriptions[t]
    BY <1>5
  <2>2. COV_Subscriptions[t].valid
    BY <2>1
  <2> QED
    BY <1>0, <1>2, <2>1, <2>2, OthersStay
<1> QED
  BY <1>1, <1>2, <1>4, <1>5, <1>6, <1>7, <1>8 DEF Entered, d

LEMMA SubscribeShape ==
  ASSUME CovIInv, NEW k \in Subscribers,
         NEW confirmed \in BOOLEAN, NEW lifetime \in Nat,
         Subscribe(k[1], k[2], k[3], confirmed, lifetime)
  PROVE  \E s \in Subs : ~ COV_Subscriptions[s].valid /\ Entered(s, k)
<1> DEFINE d == cov_address_add(k[1])
<1>0. k[1] \in Addresses /\ COV_Subscriptions \in [Subs -> Subscription]
      /\ COV_Addresses \in [Dests -> Addresses \cup {NoAddress}] /\ AddressesCounted
  BY CovConstants DEF CovIInv, CovTypeOK
<1>1. PICK s \in Subs : s = Min(FreeSubs) /\ ~ COV_Subscriptions[s].valid
  <2>1. FreeSubs \in SUBSET Nat /\ FreeSubs # {}
    BY SubsNat DEF FreeSubs, Subscribe
  <2>2. Min(FreeSubs) \in FreeSubs
    BY <2>1, MinNat
  <2> QED
    BY <2>2 DEF FreeSubs
<1>2. /\ COV_Subscriptions' = [COV_Subscriptions EXCEPT ![s] =
           [valid |-> TRUE, dest_index |-> d,
            object |-> k[3], process |-> k[2],
            issueConfirmedNotifications |-> confirmed, invokeID |-> 0,
            lifetime |-> lifetime, send_requested |-> TRUE]]
      /\ COV_Addresses' = WithAddress(k[1])
      /\ due' = due \cup {s} /\ changed' = changed
  BY <1>1 DEF Subscribe, world
<1>3. d \in Dests => COV_Addresses'[d] = k[1]
  BY <1>0, <1>2, AddressAdd
<1>4. \A t \in Subs : ~ Matches(t, k)
  BY DEF Subscribe, Matching, Matches, AddressOf
<1> HIDE DEF d
<1>5. LET f == COV_Subscriptions'[s]
      IN  /\ f.valid = TRUE /\ f.send_requested = TRUE
          /\ f.process = k[2] /\ f.object = k[3] /\ f.dest_index = d
          /\ \A t \in Subs \ {s} : COV_Subscriptions'[t] = COV_Subscriptions[t]
  BY <1>0, <1>1, <1>2
<1>6. AddressOf(s)' = IF d \in Dests THEN k[1] ELSE NoAddress
  BY <1>3, <1>5 DEF AddressOf, cov_address_get
<1>7. \A t \in Subs \ {s} : COV_Subscriptions'[t].valid => Same(t)
  <2> SUFFICES ASSUME NEW t \in Subs \ {s}, COV_Subscriptions'[t].valid
               PROVE  Same(t)
    OBVIOUS
  <2>1. COV_Subscriptions'[t] = COV_Subscriptions[t]
    BY <1>5
  <2>2. COV_Subscriptions[t].valid
    BY <2>1
  <2> QED
    BY <1>0, <1>2, <2>1, <2>2, OthersStay
<1> QED
  BY <1>1, <1>2, <1>4, <1>5, <1>6, <1>7 DEF Entered, d

LEMMA CancelShape ==
  ASSUME CovIInv, NEW k \in Subscribers, Cancel(k[1], k[2], k[3])
  PROVE  \E s \in Subs : /\ ~ COV_Subscriptions'[s].valid
                         /\ \A t \in Subs \ {s} :
                              COV_Subscriptions'[t] = COV_Subscriptions[t]
                         /\ due' = due \ {s} /\ changed' = changed /\ Kept
<1>0. COV_Subscriptions \in [Subs -> Subscription]
  BY DEF CovIInv, CovTypeOK
<1>1. PICK s \in Subs : s = Min(Matching(k[1], k[2], k[3]))
  BY MatchingMin DEF Cancel
<1>2. /\ COV_Subscriptions' = [COV_Subscriptions EXCEPT ![s] = Cancelled(@)]
      /\ COV_Addresses' = cov_address_remove_unused(COV_Subscriptions')
      /\ due' = due \ {s} /\ changed' = changed
  BY <1>1 DEF Cancel, world
<1>3. ~ Cancelled(COV_Subscriptions[s]).valid
  BY <1>0, CancelledType
<1>4. /\ ~ COV_Subscriptions'[s].valid
      /\ \A t \in Subs \ {s} : COV_Subscriptions'[t] = COV_Subscriptions[t]
  BY <1>0, <1>2, <1>3
<1> QED
  BY <1>2, <1>4, KeptShape

LEMMA SecondsShape ==
  ASSUME CovIInv, handler_cov_timer_seconds
  PROVE  /\ Kept /\ changed' = changed
         /\ \A s \in Subs :
              LET e == COV_Subscriptions[s]
                  f == COV_Subscriptions'[s]
              IN  /\ e.valid /\ ~ f.valid => s \notin due'
                  /\ e.valid /\ f.valid =>
                       f.send_requested = e.send_requested /\ f.object = e.object
         /\ due' \subseteq due
<1> DEFINE gone == {s \in Subs : Expires(COV_Subscriptions[s])}
<1>0. COV_Subscriptions \in [Subs -> Subscription]
  BY DEF CovIInv, CovTypeOK
<1>1. /\ COV_Subscriptions' =
           [s \in Subs |-> LET e == COV_Subscriptions[s] IN
              IF s \in gone THEN Expired(e)
              ELSE IF e.valid THEN [e EXCEPT !.lifetime = Remains(e)]
              ELSE e]
      /\ COV_Addresses' = IF gone = {} THEN COV_Addresses
                          ELSE cov_address_remove_unused(COV_Subscriptions')
      /\ due' = due \ gone /\ changed' = changed
  BY DEF handler_cov_timer_seconds, world
<1>2. ASSUME NEW s \in Subs
      PROVE  LET e == COV_Subscriptions[s]
                 f == COV_Subscriptions'[s]
             IN  /\ s \in gone => ~ f.valid
                 /\ s \notin gone =>
                      /\ f.valid = e.valid /\ f.dest_index = e.dest_index
                      /\ f.object = e.object /\ f.process = e.process
                      /\ f.send_requested = e.send_requested
  BY <1>0, <1>1, ExpiredType, RemainsType
<1>3. \A s \in gone : COV_Subscriptions[s].valid
  BY DEF Expires
<1> HIDE DEF gone
<1>4. Kept
  BY <1>1, <1>2, <1>3, KeptShape
<1> QED
  BY <1>1, <1>2, <1>4

\* The steps of the task.
Flagged(fields) ==
  /\ COV_Addresses' = COV_Addresses
  /\ \A s \in Subs :
       LET e == COV_Subscriptions[s]
           f == COV_Subscriptions'[s]
       IN  /\ f.valid = e.valid /\ f.object = e.object
           /\ f.process = e.process /\ f.dest_index = e.dest_index
           /\ s \notin fields => f.send_requested = e.send_requested

LEMMA MarkShape ==
  ASSUME CovIInv, TaskMark
  PROVE  /\ Flagged({index}) /\ due' = due /\ changed' = changed
         /\ COV_Subscriptions[index].send_requested
              => COV_Subscriptions'[index].send_requested
<1>0. COV_Subscriptions \in [Subs -> Subscription] /\ index \in Subs
  BY DEF CovIInv, CovTypeOK
<1>1. /\ COV_Subscriptions' =
           IF cur.valid /\ cur.object \in changed
             THEN [COV_Subscriptions EXCEPT ![index].send_requested = TRUE]
             ELSE COV_Subscriptions
      /\ COV_Addresses' = COV_Addresses /\ due' = due /\ changed' = changed
  BY DEF TaskMark, world
<1>2. \A s \in Subs : COV_Subscriptions[s] \in Subscription
  BY <1>0
<1> QED
  BY <1>0, <1>1, <1>2 DEF Flagged, Subscription

LEMMA FreeShape ==
  ASSUME CovIInv, TaskFree
  PROVE  Flagged({}) /\ due' = due /\ changed' = changed
<1>0. COV_Subscriptions \in [Subs -> Subscription] /\ index \in Subs
  BY DEF CovIInv, CovTypeOK
<1>1. /\ COV_Subscriptions' \in
           {COV_Subscriptions, [COV_Subscriptions EXCEPT ![index].invokeID = 0]}
      /\ COV_Addresses' = COV_Addresses /\ due' = due /\ changed' = changed
  BY DEF TaskFree, world
<1>2. \A s \in Subs : COV_Subscriptions[s] \in Subscription
  BY <1>0
<1> QED
  BY <1>0, <1>1, <1>2 DEF Flagged, Subscription

\* A notification that went out is no longer due; one that failed is asked
\* for again.
LEMMA SendShape ==
  ASSUME CovIInv, TaskSend
  PROVE  /\ Flagged({index}) /\ changed' = changed
         /\ \/ /\ due' = due \ {index}
               /\ COV_Subscriptions[index].send_requested
               /\ ~ COV_Subscriptions'[index].send_requested
            \/ /\ due' = due
               /\ COV_Subscriptions[index].send_requested
                    => COV_Subscriptions'[index].send_requested
<1>0. COV_Subscriptions \in [Subs -> Subscription] /\ index \in Subs
  BY DEF CovIInv, CovTypeOK
<1>1. COV_Addresses' = COV_Addresses /\ changed' = changed
  BY DEF TaskSend, world
<1>2. CASE UNCHANGED <<COV_Subscriptions, due>>
  BY <1>1, <1>2 DEF Flagged
<1>3. CASE MaySend(cur) /\ cov_send_request
  <2>0. COV_Subscriptions[index].send_requested
    BY <1>3 DEF MaySend, cur
  <2> DEFINE newID ==
               IF cur.issueConfirmedNotifications
               THEN tsm_next_free_invokeID(TSM_List, Current_Invoke_ID).invokeID
               ELSE COV_Subscriptions[index].invokeID
  <2>1. PICK ok \in Sends :
          /\ COV_Subscriptions' = [COV_Subscriptions EXCEPT
               ![index].invokeID = newID, ![index].send_requested = ~ ok]
          /\ due' = IF ok THEN due \ {index} ELSE due
    BY <1>0, <1>3 DEF cov_send_request
  <2> HIDE DEF newID
  <2>2. ok \in BOOLEAN
    BY CovConstants
  <2>3. ASSUME NEW v \in BOOLEAN,
               COV_Subscriptions' = [COV_Subscriptions EXCEPT
                 ![index].invokeID = newID, ![index].send_requested = v]
        PROVE  Flagged({index}) /\ COV_Subscriptions'[index].send_requested = v
    <3>1. \A s \in Subs : COV_Subscriptions[s] \in Subscription
      BY <1>0
    <3> QED
      BY <1>0, <1>1, <2>3, <3>1 DEF Flagged, Subscription
  <2>4. CASE ok
    <3>1. COV_Subscriptions' = [COV_Subscriptions EXCEPT
            ![index].invokeID = newID, ![index].send_requested = FALSE]
      BY <2>1, <2>4
    <3>2. Flagged({index}) /\ COV_Subscriptions'[index].send_requested = FALSE
      BY <2>3, <3>1
    <3> QED
      BY <1>1, <2>0, <2>1, <2>4, <3>2
  <2>5. CASE ~ ok
    <3>1. COV_Subscriptions' = [COV_Subscriptions EXCEPT
            ![index].invokeID = newID, ![index].send_requested = TRUE]
      BY <2>1, <2>5
    <3>2. Flagged({index}) /\ COV_Subscriptions'[index].send_requested = TRUE
      BY <2>3, <3>1
    <3> QED
      BY <1>1, <2>1, <2>5, <3>2
  <2> QED
    BY <2>2, <2>4, <2>5
<1> QED
  BY <1>2, <1>3 DEF TaskSend

LEMMA StepShape ==
  ASSUME CovIInv, [CovNext]_covVars
  PROVE  Kept \/ \E k \in Subscribers, s \in Subs : Entered(s, k)
<1>1. ASSUME NEW fields, Flagged(fields)
      PROVE  Kept
  BY <1>1, KeptShape DEF Flagged
<1>2. CASE handler_cov_subscribe
  <2>1. PICK k \in Subscribers :
          \/ Cancel(k[1], k[2], k[3])
          \/ \E confirmed \in BOOLEAN, lifetime \in Nat :
               \/ Renew(k[1], k[2], k[3], confirmed, lifetime)
               \/ Subscribe(k[1], k[2], k[3], confirmed, lifetime)
    BY <1>2, CovConstants DEF handler_cov_subscribe
  <2>2. ASSUME NEW confirmed \in BOOLEAN, NEW lifetime \in Nat,
               \/ Renew(k[1], k[2], k[3], confirmed, lifetime)
               \/ Subscribe(k[1], k[2], k[3], confirmed, lifetime)
        PROVE  \E s \in Subs : Entered(s, k)
    <3>1. CASE Renew(k[1], k[2], k[3], confirmed, lifetime)
      BY <3>1, RenewShape, Zenon
    <3>2. CASE Subscribe(k[1], k[2], k[3], confirmed, lifetime)
      <4>1. \E s \in Subs : ~ COV_Subscriptions[s].valid /\ Entered(s, k)
        BY <3>2, SubscribeShape, Zenon
      <4> QED
        BY <4>1
    <3> QED
      BY <2>2, <3>1, <3>2
  <2> QED
    BY <2>1, <2>2, CancelShape
<1>3. CASE \/ UNCHANGED covVars \/ TaskIdle \/ TaskClear \/ Reply \/ TsmTimer
           \/ SetCommunication \/ \E o \in Objects : Change(o)
  <2>1. UNCHANGED <<COV_Subscriptions, COV_Addresses>>
    BY <1>3 DEF covVars, covOnly, TaskIdle, TaskClear, Reply, TsmTimer,
                SetCommunication, Change
  <2> QED
    BY <2>1, KeptShape
<1>4. CASE handler_cov_timer_seconds
  BY <1>4, SecondsShape
<1>5. CASE TaskMark \/ TaskFree \/ TaskSend
  BY <1>1, <1>5, MarkShape, FreeShape, SendShape
<1> QED
  BY <1>2, <1>3, <1>4, <1>5 DEF CovNext, CovService, handler_cov_fsm

----------------------------------------------------------------------------
(* With room for every address no context is subscribed twice.             *)

Addressed ==
  \A s \in Subs : COV_Subscriptions[s].valid => COV_Subscriptions[s].dest_index \in Dests

LEMMA AddressRoom ==
  ASSUME IsFiniteSet(Addresses), Cardinality(Addresses) <= MAX_COV_ADDRESSES,
         CovIInv, NEW src \in Addresses
  PROVE  cov_address_add(src) \in Dests
<1> SUFFICES ASSUME cov_address_add(src) \notin Dests PROVE FALSE
  OBVIOUS
<1> DEFINE T == Addresses \ {src}
<1>0. COV_Addresses \in [Dests -> Addresses \cup {NoAddress}] /\ AddressesCounted
  BY DEF CovIInv, CovTypeOK
<1>1. \A j \in Dests : COV_Addresses[j] \notin {src, NoAddress}
  BY <1>0, AddressAdd
<1>2. COV_Addresses \in [Dests -> T]
  BY <1>0, <1>1
<1>3. IsFiniteSet(Dests) /\ Cardinality(Dests) = MAX_COV_ADDRESSES
  <2>1. 0 \in Int /\ MAX_COV_ADDRESSES - 1 \in Int /\ ~ (0 > MAX_COV_ADDRESSES - 1)
    BY CovConstants
  <2> QED
    BY <2>1, FS_Interval, CovConstants DEF Dests
<1>4. IsFiniteSet(T) /\ Cardinality(T) = Cardinality(Addresses) - 1
  BY FS_RemoveElement
<1>5. Cardinality(T) < Cardinality(Dests)
  BY <1>3, <1>4, FS_CardinalityType, CovConstants
<1>6. \E x, y \in Dests : x # y /\ COV_Addresses[x] = COV_Addresses[y]
  <2> HIDE DEF T
  <2> QED
    BY <1>2, <1>3, <1>4, <1>5, FS_PigeonHole
<1> QED
  BY <1>0, <1>1, <1>6 DEF AddressesCounted

LEMMA AddressedStep ==
  ASSUME IsFiniteSet(Addresses), Cardinality(Addresses) <= MAX_COV_ADDRESSES,
         CovIInv, Addressed, [CovNext]_covVars
  PROVE  Addressed'
<1>1. CASE Kept
  BY <1>1 DEF Kept, Same, Addressed
<1>2. ASSUME NEW k \in Subscribers, NEW s \in Subs, Entered(s, k)
      PROVE  Addressed'
  <2>1. k[1] \in Addresses
    BY CovConstants
  <2>2. COV_Subscriptions'[s].dest_index \in Dests
    BY <1>2, <2>1, AddressRoom DEF Entered
  <2> QED
    BY <1>2, <2>2 DEF Entered, Addressed
<1> QED
  BY <1>1, <1>2, StepShape

\* A renewal finds the subscription of its own context; a new subscription is
\* made only when none has its context.
LEMMA ContextsStep ==
  ASSUME CovIInv, Addressed, ContextsUnique, [CovNext]_covVars
  PROVE  ContextsUnique'
<1> USE DEF ContextsUnique
<1>0. \A s \in Subs : COV_Subscriptions[s].valid => AddressOf(s) # NoAddress
  BY DEF Addressed, CovIInv, AddressesCounted, AddressOf, cov_address_get
<1>1. CASE Kept
  BY <1>1 DEF Kept, Same, AddressOf
<1>2. ASSUME NEW k \in Subscribers, NEW s \in Subs, Entered(s, k)
      PROVE  ContextsUnique'
  <2>1. k[1] # NoAddress
    BY CovConstants
  <2>2. ASSUME NEW t \in Subs \ {s}, COV_Subscriptions'[t].valid,
               COV_Subscriptions'[t].object = k[3],
               COV_Subscriptions'[t].process = k[2],
               AddressOf(t)' = AddressOf(s)'
        PROVE  FALSE
    <3>1. Same(t) /\ AddressOf(t) # NoAddress
      BY <1>0, <1>2, <2>2 DEF Entered, Same
    <3>2. AddressOf(t) = k[1]
      BY <1>2, <2>2, <3>1 DEF Entered, Same
    <3>3. Matches(t, k)
      BY <2>2, <3>1, <3>2 DEF Same, Matches
    <3>4. Matches(s, k) /\ AddressOf(s) = k[1]
      BY <1>0, <1>2, <3>3 DEF Entered, Matches
    <3> QED
      BY <3>2, <3>3, <3>4 DEF Matches, AddressOf
  <2>3. \A t \in Subs \ {s} : COV_Subscriptions'[t].valid => Same(t)
    BY <1>2 DEF Entered
  <2>4. /\ COV_Subscriptions'[s].object = k[3]
        /\ COV_Subscriptions'[s].process = k[2]
    BY <1>2 DEF Entered
  <2> SUFFICES ASSUME NEW t \in Subs, NEW u \in Subs,
                      COV_Subscriptions'[t].valid, COV_Subscriptions'[u].valid,
                      COV_Subscriptions'[t].object = COV_Subscriptions'[u].object,
                      COV_Subscriptions'[t].process = COV_Subscriptions'[u].process,
                      AddressOf(t)' = AddressOf(u)'
               PROVE  t = u
    BY DEF AddressOf
  <2>5. CASE t = s \/ u = s
    BY <2>2, <2>4, <2>5
  <2>6. CASE t # s /\ u # s
    BY <2>3, <2>6 DEF Same, AddressOf
  <2> QED
    BY <2>5, <2>6
<1> QED
  BY <1>1, <1>2, StepShape

\* When the address table has room for every subscriber's address, a renewal
\* or a cancellation always finds its own subscription, so that no subscriber
\* gets notified twice or keeps a subscription it cancelled; and the tables of
\* subscriptions, addresses and transactions agree.  Without room a subscriber
\* may take over another one's unaddressed subscription.
THEOREM SubscriptionsStayConsistent ==
  ASSUME IsFiniteSet(Addresses), Cardinality(Addresses) <= MAX_COV_ADDRESSES
  PROVE  CovSpec => []SubscriptionsConsistent
<1> DEFINE Inv == CovIInv /\ Addressed /\ ContextsUnique
<1>1. CovInit => Inv
  <2> SUFFICES ASSUME CovInit PROVE Addressed /\ ContextsUnique
    BY CovInitIInv
  <2>1. \A s \in Subs : ~ COV_Subscriptions[s].valid
    BY DEF CovInit
  <2> QED
    BY <2>1 DEF Addressed, ContextsUnique
<1>2. Inv /\ [CovNext]_covVars => Inv'
  BY CovNextIInv, AddressedStep, ContextsStep
<1>3. Inv => SubscriptionsConsistent
  BY DEF CovIInv, SubscriptionsConsistent
<1> QED
  BY <1>1, <1>2, <1>3, PTL DEF CovSpec

----------------------------------------------------------------------------
(* When every object has at most one subscriber no change is lost.         *)

\* Every subscription is some subscriber's.
Served ==
  \A s \in Subs : COV_Subscriptions[s].valid => \E k \in Subscribers : Matches(s, k)

OnePerObject ==
  \A s, t \in Subs :
    /\ COV_Subscriptions[s].valid /\ COV_Subscriptions[t].valid
    /\ COV_Subscriptions[s].object = COV_Subscriptions[t].object
    => s = t

DueIsValid == \A s \in due : s \in Subs /\ COV_Subscriptions[s].valid

LEMMA ServedStep ==
  ASSUME CovIInv, Served, [CovNext]_covVars
  PROVE  Served'
<1>1. ASSUME NEW s \in Subs, COV_Subscriptions'[s].valid, Same(s)
      PROVE  \E k \in Subscribers : Matches(s, k)'
  BY <1>1 DEF Served, Same, Matches
<1>2. CASE Kept
  BY <1>1, <1>2 DEF Kept, Served
<1>3. ASSUME NEW k \in Subscribers, NEW s \in Subs, Entered(s, k)
      PROVE  Served'
  <2>1. Matches(s, k)'
    BY <1>3 DEF Entered, Matches
  <2> QED
    BY <1>1, <1>3, <2>1 DEF Entered, Served
<1> QED
  BY <1>2, <1>3, StepShape

LEMMA OnePerObjectStep ==
  ASSUME \A k, l \in Subscribers : k[3] = l[3] => k = l,
         CovIInv, Served, OnePerObject, [CovNext]_covVars
  PROVE  OnePerObject'
<1>1. CASE Kept
  <2> SUFFICES ASSUME NEW s \in Subs, NEW t \in Subs,
                      COV_Subscriptions'[s].valid, COV_Subscriptions'[t].valid,
                      COV_Subscriptions'[s].object = COV_Subscriptions'[t].object
               PROVE  s = t
    BY DEF OnePerObject
  <2>1. Same(s) /\ Same(t)
    BY <1>1 DEF Kept
  <2> QED
    BY <2>1 DEF Same, OnePerObject
<1>2. ASSUME NEW k \in Subscribers, NEW s \in Subs, Entered(s, k)
      PROVE  OnePerObject'
  <2>1. ASSUME NEW t \in Subs \ {s}, COV_Subscriptions'[t].valid,
               COV_Subscriptions'[t].object = k[3]
        PROVE  FALSE
    <3>1. Same(t) /\ COV_Subscriptions[t].object = k[3]
      BY <1>2, <2>1 DEF Entered, Same
    <3>2. PICK l \in Subscribers : Matches(t, l)
      BY <3>1 DEF Served, Same
    <3>3. l = k
      BY <3>1, <3>2 DEF Matches
    <3>4. Matches(s, k)
      BY <1>2, <3>2, <3>3 DEF Entered
    <3> QED
      BY <3>2, <3>3, <3>4 DEF Matches, OnePerObject
  <2>2. COV_Subscriptions'[s].object = k[3]
    BY <1>2 DEF Entered
  <2>3. \A t \in Subs \ {s} : COV_Subscriptions'[t].valid => Same(t)
    BY <1>2 DEF Entered
  <2> SUFFICES ASSUME NEW t \in Subs, NEW u \in Subs,
                      COV_Subscriptions'[t].valid, COV_Subscriptions'[u].valid,
                      COV_Subscriptions'[t].object = COV_Subscriptions'[u].object
               PROVE  t = u
    BY DEF OnePerObject
  <2>4. CASE t = s \/ u = s
    BY <2>1, <2>2, <2>4
  <2>5. CASE t # s /\ u # s
    <3>1. Same(t) /\ Same(u)
      BY <2>3, <2>5
    <3> QED
      BY <3>1 DEF Same, OnePerObject
  <2> QED
    BY <2>4, <2>5
<1> QED
  BY <1>1, <1>2, StepShape

DueIsKept == DueIsValid /\ NoLostChange

\* A step of the task that may set or reset the mark of the subscriptions in
\* `fields' only.
LEMMA FlaggedDue ==
  ASSUME DueIsKept, NEW fields, Flagged(fields), changed' = changed,
         due' \subseteq due,
         \A s \in due' \cap fields : COV_Subscriptions[s].send_requested
                                       => COV_Subscriptions'[s].send_requested
  PROVE  DueIsKept'
  BY DEF DueIsKept, DueIsValid, NoLostChange, Flagged

LEMMA EnteredDue ==
  ASSUME DueIsKept, NEW k, NEW s \in Subs, Entered(s, k)
  PROVE  DueIsKept'
  BY DEF DueIsKept, DueIsValid, NoLostChange, Entered

LEMMA CancelDue ==
  ASSUME CovIInv, DueIsKept, NEW k \in Subscribers, Cancel(k[1], k[2], k[3])
  PROVE  DueIsKept'
<1>1. PICK s \in Subs : /\ \A t \in Subs \ {s} :
                             COV_Subscriptions'[t] = COV_Subscriptions[t]
                        /\ due' = due \ {s} /\ changed' = changed
  BY CancelShape
<1> QED
  BY <1>1 DEF DueIsKept, DueIsValid, NoLostChange

LEMMA SecondsDue ==
  ASSUME CovIInv, DueIsKept, handler_cov_timer_seconds
  PROVE  DueIsKept'
<1>1. /\ changed' = changed /\ due' \subseteq due
      /\ \A s \in Subs :
           LET e == COV_Subscriptions[s]
               f == COV_Subscriptions'[s]
           IN  e.valid /\ f.valid =>
                 f.send_requested = e.send_requested /\ f.object = e.object
  BY SecondsShape
<1>2. ASSUME NEW s \in due'
      PROVE  COV_Subscriptions'[s].valid
  <2> DEFINE e == COV_Subscriptions[s]
  <2>1. /\ COV_Subscriptions \in [Subs -> Subscription]
        /\ s \in due /\ s \in Subs /\ e.valid /\ ~ Expires(e)
    BY <1>2 DEF handler_cov_timer_seconds, DueIsKept, DueIsValid, CovIInv, CovTypeOK
  <2>2. COV_Subscriptions'[s] = [e EXCEPT !.lifetime = Remains(e)]
    BY <2>1 DEF handler_cov_timer_seconds
  <2>3. [e EXCEPT !.lifetime = Remains(e)].valid = e.valid
    BY <2>1, RemainsType
  <2> QED
    BY <2>1, <2>2, <2>3
<1> QED
  BY <1>1, <1>2 DEF DueIsKept, DueIsValid, NoLostChange

\* The CLEAR pass: the flag that goes is that of the one subscription whose
\* mark is set.
LEMMA ClearDue ==
  ASSUME CovIInv, OnePerObject, DueIsKept, TaskClear
  PROVE  DueIsKept'
<1>1. /\ COV_Subscriptions' = COV_Subscriptions /\ due' = due
      /\ changed' = IF Clears(cur) THEN changed \ {cur.object} ELSE changed
      /\ index \in Subs
  BY DEF TaskClear, CovIInv, CovTypeOK
<1>2. ASSUME NEW s \in due, Clears(cur), COV_Subscriptions[s].object = cur.object
      PROVE  COV_Subscriptions[s].send_requested
  <2>1. s = index
    BY <1>1, <1>2 DEF DueIsKept, DueIsValid, OnePerObject, Clears, cur
  <2> QED
    BY <1>2, <2>1 DEF Clears, cur
<1> QED
  BY <1>1, <1>2 DEF DueIsKept, DueIsValid, NoLostChange

LEMMA DueStep ==
  ASSUME CovIInv, OnePerObject, DueIsKept, [CovNext]_covVars
  PROVE  DueIsKept'
<1>1. CASE handler_cov_subscribe
  <2>1. PICK k \in Subscribers :
          \/ Cancel(k[1], k[2], k[3])
          \/ \E confirmed \in BOOLEAN, lifetime \in Nat :
               \/ Renew(k[1], k[2], k[3], confirmed, lifetime)
               \/ Subscribe(k[1], k[2], k[3], confirmed, lifetime)
    BY <1>1, CovConstants DEF handler_cov_subscribe
  <2>2. ASSUME NEW confirmed \in BOOLEAN, NEW lifetime \in Nat,
               \/ Renew(k[1], k[2], k[3], confirmed, lifetime)
               \/ Subscribe(k[1], k[2], k[3], confirmed, lifetime)
        PROVE  \E s \in Subs : Entered(s, k)
    <3>1. CASE Renew(k[1], k[2], k[3], confirmed, lifetime)
      BY <3>1, RenewShape, Zenon
    <3>2. CASE Subscribe(k[1], k[2], k[3], confirmed, lifetime)
      <4>1. \E s \in Subs : ~ COV_Subscriptions[s].valid /\ Entered(s, k)
        BY <3>2, SubscribeShape, Zenon
      <4> QED
        BY <4>1
    <3> QED
      BY <2>2, <3>1, <3>2
  <2> QED
    BY <2>1, <2>2, CancelDue, EnteredDue
<1>2. CASE handler_cov_timer_seconds
  BY <1>2, SecondsDue
<1>3. CASE TaskMark
  BY <1>3, MarkShape, FlaggedDue
<1>4. CASE TaskClear
  BY <1>4, ClearDue
<1>5. CASE TaskFree
  BY <1>5, FreeShape, FlaggedDue
<1>6. CASE TaskSend
  BY <1>6, SendShape, FlaggedDue
<1>7. CASE \E o \in Objects : Change(o)
  BY <1>7 DEF Change, DueIsKept, DueIsValid, NoLostChange
<1>8. CASE UNCHANGED covVars \/ TaskIdle \/ Reply \/ TsmTimer \/ SetCommunication
  <2>1. UNCHANGED <<COV_Subscriptions, due, changed>>
    BY <1>8 DEF covVars, covOnly, TaskIdle, Reply, TsmTimer, SetCommunication, world
  <2> QED
    BY <2>1 DEF DueIsKept, DueIsValid, NoLostChange
<1> QED
  BY <1>1, <1>2, <1>3, <1>4, <1>5, <1>6, <1>7, <1>8
     DEF CovNext, CovService, handler_cov_fsm

\* However changes, requests and the four passes of the task interleave, a
\* subscription that has not got the current value is marked or its object is
\* still flagged, provided no object has two subscribers: with two, the CLEAR
\* pass takes the flag away from the one that the MARK pass has not seen.
THEOREM NoChangeIsLost ==
  ASSUME \A k, l \in Subscribers : k[3] = l[3] => k = l
  PROVE  CovSpec => []NoLostChange
<1> DEFINE Inv == CovIInv /\ Served /\ OnePerObject /\ DueIsKept
<1>1. CovInit => Inv
  <2> SUFFICES ASSUME CovInit PROVE Served /\ OnePerObject /\ DueIsKept
    BY CovInitIInv
  <2>1. (\A s \in Subs : ~ COV_Subscriptions[s].valid) /\ due = {}
    BY DEF CovInit
  <2> QED
    <3>1. Served
      BY <2>1 DEF Served
    <3>2. OnePerObject
      BY <2>1 DEF OnePerObject
    <3>3. DueIsKept
      BY <2>1 DEF DueIsKept, DueIsValid, NoLostChange
    <3> QED
      BY <3>1, <3>2, <3>3
<1>2. Inv /\ [CovNext]_covVars => Inv'
  BY CovNextIInv, ServedStep, OnePerObjectStep, DueStep
<1>3. Inv => NoLostChange
  BY DEF DueIsKept
<1> QED
  BY <1>1, <1>2, <1>3, PTL DEF CovSpec

----------------------------------------------------------------------------
(* The objects.  What Cov knows of an object is its flag; CovObjects adds  *)
(* when the flag is raised.                                                *)

\* The objects raise flags as Cov assumes: a write either is a Change or is
\* no step of the service at all, and nothing else of it is different.
THEOREM ObjectsImplementChanges == CoSpec => CovSpec
<1>1. CoInit => CovInit
  BY DEF CoInit
<1>2. ASSUME [CoNext]_coVars
      PROVE  [CovNext]_covVars
  <2>1. CASE UNCHANGED coVars
    BY <2>1 DEF coVars
  <2>2. CASE CovService
    BY <2>2 DEF CovNext
  <2>3. ASSUME NEW o \in Objects, Write(o)
        PROVE  [CovNext]_covVars
    <3>1. ASSUME NEW new, NEW flagged, Becomes(o, new, flagged)
          PROVE  Change(o) \/ UNCHANGED covVars
      BY <3>1 DEF Becomes
    <3>2. Change(o) \/ UNCHANGED covVars
      BY <2>3, <3>1 DEF Write, Present_Value_Set, COV_Increment_Set,
                        Out_Of_Service_Set, Polarity_Set
    <3> QED
      BY <3>2 DEF CovNext
  <2> QED
    BY <1>2, <2>1, <2>2, <2>3 DEF CoNext
<1> QED
  BY <1>1, <1>2, PTL DEF CoSpec, CovSpec

\* An analog object has not drifted by its increment since it was flagged.
Unflagged(e) ==
  \/ cov_delta(e.Prior_Value, e.Present_Value) = 0
  \/ cov_delta(e.Prior_Value, e.Present_Value) < e.COV_Increment

Sound(e) ==
  /\ e \in Object
  /\ e.kind # "BINARY_INPUT" => ~ e.Polarity
  /\ e.kind \in Analog => Unflagged(e)

\* What was shown of an analog object is what a notification after its last
\* flag showed; of another one, its value but for the polarity.
Shown(t, e) ==
  /\ t \in Picture
  /\ e.kind \in Analog =>
       /\ ~ t.polarity
       /\ \/ cov_delta(e.Prior_Value, t.value) = 0
          \/ cov_delta(e.Prior_Value, t.value) < t.increment
  /\ e.kind \notin Analog =>
       t.value = IF t.polarity THEN 1 - e.Present_Value ELSE e.Present_Value
  /\ e.kind # "ANALOG_VALUE" => t.out_of_service = e.Out_Of_Service

ObjectOf(s) == object[COV_Subscriptions[s].object]

Pictured ==
  /\ object \in [Objects -> Object] /\ \A o \in Objects : Sound(object[o])
  /\ DOMAIN told = Subs
  /\ \A s \in Subs : COV_Subscriptions[s].valid /\ s \notin due
                       => Shown(told[s], ObjectOf(s))

\* A notification shows the object as it is.
LEMMA EncodedShown ==
  ASSUME NEW o \in Objects, Sound(object[o])
  PROVE  Shown(Encode_Value_List(o), object[o])
<1> DEFINE e == object[o]
           t == Encode_Value_List(o)
<1>1. /\ e \in Object /\ (e.kind \in Analog => ~ e.Polarity /\ Unflagged(e))
      /\ e.Present_Value \in Int /\ e.Out_Of_Service \in BOOLEAN
      /\ e.COV_Increment \in Nat /\ e.Polarity \in BOOLEAN
  BY DEF Sound, Analog, Object
<1>2. /\ t.value = IF e.Polarity THEN 1 - e.Present_Value ELSE e.Present_Value
      /\ t.out_of_service = e.Out_Of_Service
      /\ t.increment = e.COV_Increment /\ t.polarity = e.Polarity
  BY DEF Encode_Value_List
<1>3. t \in Picture
  BY <1>1 DEF Encode_Value_List, Picture
<1> HIDE DEF e, t
<1> QED
  BY <1>1, <1>2, <1>3 DEF Shown, Unflagged, e, t

\* Such a picture is a good one: two drifts of less than an increment each are
\* less than the two increments together.
LEMMA ShownFollows ==
  ASSUME NEW s \in Subs, COV_Subscriptions[s].object \in Objects,
         Sound(ObjectOf(s)), Shown(told[s], ObjectOf(s))
  PROVE  Follows(s)
<1> DEFINE o   == COV_Subscriptions[s].object
           e   == object[o]
           t   == told[s]
           now == Encode_Value_List(o)
<1>1. /\ e \in Object /\ (e.kind \in Analog => ~ e.Polarity /\ Unflagged(e))
      /\ e.Present_Value \in Int /\ e.Prior_Value \in Int
      /\ e.COV_Increment \in Nat /\ e.Polarity \in BOOLEAN
  BY DEF Sound, Analog, Object, ObjectOf
<1>2. /\ now.value = IF e.Polarity THEN 1 - e.Present_Value ELSE e.Present_Value
      /\ now.out_of_service = e.Out_Of_Service
      /\ now.increment = e.COV_Increment /\ now.polarity = e.Polarity
  BY DEF Encode_Value_List
<1>3. /\ Shown(t, e) /\ t \in Picture /\ t.value \in Int /\ t.increment \in Nat
      /\ t.polarity \in BOOLEAN /\ t # Unknown
  BY CovObjectsConstants DEF Shown, Picture, ObjectOf
<1> HIDE DEF e, t, now, o
<1>4. \/ t.out_of_service = now.out_of_service
      \/ e.kind = "ANALOG_VALUE"
  BY <1>2, <1>3 DEF Shown
<1>5. ASSUME t.polarity = now.polarity
      PROVE  \/ cov_delta(t.value, now.value) = 0
             \/ e.kind \in Analog
                /\ cov_delta(t.value, now.value) < t.increment + now.increment
  <2>1. CASE e.kind \notin Analog
    <3>1. t.value = now.value /\ now.value \in Int
      BY <1>1, <1>2, <1>3, <1>5, <2>1 DEF Shown
    <3> QED
      BY <1>3, <3>1 DEF cov_delta
  <2>2. CASE e.kind \in Analog
    <3>1. /\ now.value = e.Present_Value
          /\ \/ cov_delta(e.Prior_Value, t.value) = 0
             \/ cov_delta(e.Prior_Value, t.value) < t.increment
          /\ \/ cov_delta(e.Prior_Value, e.Present_Value) = 0
             \/ cov_delta(e.Prior_Value, e.Present_Value) < now.increment
      BY <1>1, <1>2, <1>3, <2>2 DEF Shown, Unflagged
    <3> DEFINE p == e.Prior_Value
               v == e.Present_Value
               w == t.value
               i == t.increment
               j == now.increment
    <3>2. p \in Int /\ v \in Int /\ w \in Int /\ i \in Nat /\ j \in Nat
      BY <1>1, <1>2, <1>3
    <3> HIDE DEF p, v, w, i, j
    <3>3. /\ cov_delta(p, w) = 0 \/ cov_delta(p, w) < i
          /\ cov_delta(p, v) = 0 \/ cov_delta(p, v) < j
      BY <3>1 DEF p, v, w, i, j
    <3>4. cov_delta(w, v) = 0 \/ cov_delta(w, v) < i + j
      BY <3>2, <3>3 DEF cov_delta
    <3> QED
      BY <2>2, <3>1, <3>4 DEF v, w, i, j
  <2> QED
    BY <2>1, <2>2
<1> QED
  BY <1>3, <1>4, <1>5 DEF Follows, ValueKnown, o, e, t, now

\* What the service does to a subscription that is not due: nothing, or it has
\* just been told.
LEMMA NotDueShape ==
  ASSUME CovIInv, CovService, NEW s \in Subs,
         COV_Subscriptions'[s].valid, s \notin due'
  PROVE  LET e == COV_Subscriptions[s]
             f == COV_Subscriptions'[s]
         IN  /\ e.valid /\ f.object = e.object /\ f.dest_index = e.dest_index
             /\ s \in due => e.send_requested /\ ~ f.send_requested
<1> DEFINE e == COV_Subscriptions[s]
           f == COV_Subscriptions'[s]
<1>1. CASE handler_cov_subscribe
  <2>1. PICK k \in Subscribers :
          \/ Cancel(k[1], k[2], k[3])
          \/ \E confirmed \in BOOLEAN, lifetime \in Nat :
               \/ Renew(k[1], k[2], k[3], confirmed, lifetime)
               \/ Subscribe(k[1], k[2], k[3], confirmed, lifetime)
    BY <1>1, CovConstants DEF handler_cov_subscribe
  <2>2. CASE Cancel(k[1], k[2], k[3])
    <3>1. PICK t \in Subs : ~ COV_Subscriptions'[t].valid /\ due' = due \ {t} /\ Kept
      BY <2>2, CancelShape
    <3> QED
      BY <3>1 DEF Kept, Same
  <2>3. ASSUME NEW confirmed \in BOOLEAN, NEW lifetime \in Nat,
               \/ Renew(k[1], k[2], k[3], confirmed, lifetime)
               \/ Subscribe(k[1], k[2], k[3], confirmed, lifetime)
        PROVE  \E t \in Subs : Entered(t, k)
    <3>1. CASE Renew(k[1], k[2], k[3], confirmed, lifetime)
      BY <3>1, RenewShape, Zenon
    <3>2. CASE Subscribe(k[1], k[2], k[3], confirmed, lifetime)
      <4>1. \E t \in Subs : ~ COV_Subscriptions[t].valid /\ Entered(t, k)
        BY <3>2, SubscribeShape, Zenon
      <4> QED
        BY <4>1
    <3> QED
      BY <2>3, <3>1, <3>2
  <2>4. ASSUME NEW t \in Subs, Entered(t, k)
        PROVE  s \in Subs \ {t} /\ s \notin due /\ Same(s)
    BY <2>4 DEF Entered
  <2> QED
    BY <2>1, <2>2, <2>3, <2>4 DEF Same
<1>2. CASE handler_cov_timer_seconds
  <2>1. Same(s)
    BY <1>2, SecondsShape DEF Kept
  <2>2. ASSUME Expires(e) PROVE FALSE
    <3>1. f = Expired(e) /\ e \in Subscription
      BY <1>2, <2>2 DEF handler_cov_timer_seconds, CovIInv, CovTypeOK
    <3> QED
      BY <3>1, ExpiredType
  <2>3. s \notin due
    BY <1>2, <2>2 DEF handler_cov_timer_seconds
  <2> QED
    BY <2>1, <2>3 DEF Same
<1>3. CASE TaskMark \/ TaskFree
  BY <1>3, MarkShape, FreeShape DEF Flagged
<1>4. CASE TaskSend
  BY <1>4, SendShape DEF Flagged
<1>5. CASE TaskIdle \/ TaskClear \/ Reply \/ TsmTimer \/ SetCommunication
  <2>1. UNCHANGED <<COV_Subscriptions, due>>
    BY <1>5 DEF covOnly, TaskIdle, TaskClear, Reply, TsmTimer, SetCommunication
  <2> QED
    BY <2>1
<1> QED
  BY <1>1, <1>2, <1>3, <1>4, <1>5 DEF CovService, handler_cov_fsm

LEMMA ServicePictured ==
  ASSUME CovIInv, Pictured, CovService, Quietly
  PROVE  Pictured'
<1>1. object' = object /\ DOMAIN told' = Subs
  BY DEF Quietly, Told
<1>2. ASSUME NEW s \in Subs, COV_Subscriptions'[s].valid, s \notin due'
      PROVE  Shown(told'[s], ObjectOf(s)')
  <2> DEFINE e == COV_Subscriptions[s]
             f == COV_Subscriptions'[s]
  <2>1. /\ e.valid /\ f.object = e.object /\ f.dest_index = e.dest_index
        /\ s \in due => e.send_requested /\ ~ f.send_requested
    BY <1>2, NotDueShape
  <2>2. told'[s] = IF e.send_requested /\ ~ f.send_requested
                     THEN Encode_Value_List(f.object) ELSE told[s]
    BY <1>2, <2>1 DEF Quietly, Told
  <2>3. ObjectOf(s)' = object[e.object] /\ e.object \in Objects
    BY <1>1, <2>1 DEF ObjectOf, CovIInv, CovTypeOK, Subscription
  <2>4. Shown(Encode_Value_List(e.object), object[e.object])
    BY <2>3, EncodedShown DEF Pictured
  <2>5. s \notin due => Shown(told[s], object[e.object])
    BY <2>1 DEF Pictured, ObjectOf
  <2> HIDE DEF e, f
  <2> QED
    BY <2>1, <2>2, <2>3, <2>4, <2>5
<1> QED
  BY <1>1, <1>2 DEF Pictured

\* A write: the object stays sound, and what is shown after its last flag
\* changes with the flag only.
LEMMA BecomesPictured ==
  ASSUME CovIInv, Pictured, NEW o \in Objects, NEW new, NEW flagged \in BOOLEAN,
         Becomes(o, new, flagged), Sound(new), new.kind = object[o].kind,
         ~ flagged =>
           /\ new.kind \in Analog => new.Prior_Value = object[o].Prior_Value
           /\ new.kind \notin Analog => new.Present_Value = object[o].Present_Value
           /\ new.kind # "ANALOG_VALUE" => new.Out_Of_Service = object[o].Out_Of_Service
  PROVE  Pictured'
<1>1. /\ object' = [object EXCEPT ![o] = new] /\ told' = told
      /\ IF flagged THEN Change(o) ELSE UNCHANGED covVars
  BY DEF Becomes
<1>2. /\ object' \in [Objects -> Object] /\ object'[o] = new
      /\ \A p \in Objects \ {o} : object'[p] = object[p]
      /\ \A p \in Objects : Sound(object'[p])
  BY <1>1 DEF Pictured, Sound
<1>3. /\ COV_Subscriptions' = COV_Subscriptions /\ due \subseteq due'
      /\ flagged => \A s \in Subs : /\ COV_Subscriptions[s].valid
                                     /\ COV_Subscriptions[s].object = o => s \in due'
  BY <1>1 DEF Change, covVars, covOnly
<1>4. ASSUME NEW s \in Subs, COV_Subscriptions[s].valid, s \notin due'
      PROVE  Shown(told[s], ObjectOf(s)')
  <2>1. Shown(told[s], ObjectOf(s)) /\ COV_Subscriptions[s].object \in Objects
    BY <1>3, <1>4 DEF Pictured, CovIInv, CovTypeOK, Subscription
  <2>2. CASE COV_Subscriptions[s].object # o
    <3>1. ObjectOf(s)' = ObjectOf(s)
      BY <1>2, <1>3, <2>1, <2>2 DEF ObjectOf
    <3> QED
      BY <2>1, <3>1
  <2>3. CASE COV_Subscriptions[s].object = o
    <3>1. ~ flagged /\ ObjectOf(s)' = new /\ ObjectOf(s) = object[o]
      BY <1>2, <1>3, <1>4, <2>3 DEF ObjectOf
    <3> QED
      BY <2>1, <3>1 DEF Shown
  <2> QED
    BY <2>2, <2>3
<1> QED
  BY <1>1, <1>2, <1>3, <1>4 DEF Pictured

LEMMA DetectedSound ==
  ASSUME NEW new \in Object, new.kind \in Analog, ~ new.Polarity
  PROVE  /\ Sound(Detected(new)) /\ Detected(new).kind = new.kind
         /\ Detects(new) \in BOOLEAN
         /\ ~ Detects(new) => Detected(new) = new
<1>1. /\ new.Prior_Value \in Int /\ new.Present_Value \in Int
      /\ new.COV_Increment \in Nat
  BY DEF Object
<1>2. CASE Detects(new)
  <2> DEFINE e == [new EXCEPT !.Prior_Value = new.Present_Value]
  <2>1. /\ e \in Object /\ e.kind = new.kind /\ ~ e.Polarity
        /\ e.Prior_Value = new.Present_Value /\ e.Present_Value = new.Present_Value
    BY <1>1 DEF Object
  <2>2. Detected(new) = e
    BY <1>2 DEF Detected
  <2> HIDE DEF e
  <2>3. Unflagged(e)
    BY <1>1, <2>1 DEF Unflagged, cov_delta
  <2> QED
    BY <1>2, <2>1, <2>2, <2>3 DEF Sound, Detects
<1>3. CASE ~ Detects(new)
  <2>1. Detected(new) = new
    BY <1>3 DEF Detected
  <2>2. Unflagged(new)
    BY <1>1, <1>3 DEF Unflagged, Detects, cov_delta
  <2> QED
    BY <1>3, <2>1, <2>2 DEF Sound, Detects
<1> QED
  BY <1>2, <1>3 DEF Detects

\* A write to an analog object's value or increment.
LEMMA AnalogPictured ==
  ASSUME CovIInv, Pictured, NEW o \in Objects, NEW new \in Object,
         new.kind \in Analog, new.kind = object[o].kind, ~ new.Polarity,
         new.Prior_Value = object[o].Prior_Value,
         new.Out_Of_Service = object[o].Out_Of_Service,
         Becomes(o, Detected(new), Detects(new))
  PROVE  Pictured'
<1>1. /\ Sound(Detected(new)) /\ Detected(new).kind = new.kind
      /\ Detects(new) \in BOOLEAN
      /\ ~ Detects(new) => Detected(new) = new
  BY DetectedSound
<1> HIDE DEF Detected, Detects
<1>2. ~ Detects(new) =>
        /\ Detected(new).kind \in Analog => Detected(new).Prior_Value = object[o].Prior_Value
        /\ Detected(new).kind \notin Analog => Detected(new).Present_Value = object[o].Present_Value
        /\ Detected(new).kind # "ANALOG_VALUE" => Detected(new).Out_Of_Service = object[o].Out_Of_Service
  BY <1>1
<1> DEFINE e == Detected(new)
           d == Detects(new)
<1>3. /\ Becomes(o, e, d) /\ Sound(e) /\ e.kind = object[o].kind /\ d \in BOOLEAN
      /\ ~ d => /\ e.kind \in Analog => e.Prior_Value = object[o].Prior_Value
                /\ e.kind \notin Analog => e.Present_Value = object[o].Present_Value
                /\ e.kind # "ANALOG_VALUE" => e.Out_Of_Service = object[o].Out_Of_Service
  BY <1>1, <1>2
<1> HIDE DEF e, d
<1> QED
  BY <1>3, BecomesPictured

\* The values of a kind are numbers, and a binary input's are 0 and 1.
LEMMA ValuesAreNumbers ==
  ASSUME NEW k \in Kinds, NEW v \in Values[k]
  PROVE  v \in Int
<1>1. k \in Analog \cup {"BINARY_INPUT", "MULTISTATE_VALUE"}
  BY CovObjectsConstants
<1>2. CASE k \in Analog
  BY <1>2, CovObjectsConstants
<1>3. CASE k = "BINARY_INPUT"
  BY <1>3, CovObjectsConstants
<1>4. CASE k = "MULTISTATE_VALUE"
  BY <1>4, CovObjectsConstants
<1> QED
  BY <1>1, <1>2, <1>3, <1>4

LEMMA WritePictured ==
  ASSUME CovIInv, Pictured, NEW o \in Objects, Write(o)
  PROVE  Pictured'
<1> DEFINE e == object[o]
<1>1. /\ e \in Object /\ Sound(e) /\ e.kind \in Kinds
      /\ e.Present_Value \in Int /\ e.Polarity \in BOOLEAN
      /\ e.kind \in Analog => ~ e.Polarity /\ e.kind # "BINARY_INPUT"
  BY DEF Pictured, Sound, Object, Analog
<1>2. CASE Present_Value_Set(o)
  <2>1. PICK value \in Values[e.kind] :
          LET stored == IF e.Polarity THEN 1 - value ELSE value
              new    == [e EXCEPT !.Present_Value = stored]
          IN  IF e.kind \in Analog THEN Becomes(o, Detected(new), Detects(new))
              ELSE Becomes(o, new, stored # e.Present_Value)
    BY <1>2 DEF Present_Value_Set
  <2> DEFINE stored == IF e.Polarity THEN 1 - value ELSE value
             new    == [e EXCEPT !.Present_Value = stored]
  <2>2. stored \in Int
    BY <1>1, ValuesAreNumbers
  <2> HIDE DEF stored
  <2>3. /\ new \in Object /\ new.kind = e.kind /\ new.Polarity = e.Polarity
        /\ new.Prior_Value = e.Prior_Value /\ new.Out_Of_Service = e.Out_Of_Service
        /\ new.Present_Value = stored
    BY <1>1, <2>2 DEF Object
  <2>4. /\ e.kind \in Analog => Becomes(o, Detected(new), Detects(new))
        /\ e.kind \notin Analog => Becomes(o, new, stored # e.Present_Value)
    BY <2>1 DEF stored
  <2> HIDE DEF new
  <2>5. CASE e.kind \in Analog
    BY <1>1, <2>3, <2>4, <2>5, AnalogPictured
  <2>6. CASE e.kind \notin Analog
    <3>1. Sound(new)
      BY <1>1, <2>3, <2>6 DEF Sound
    <3> DEFINE d == stored # e.Present_Value
    <3>2. d \in BOOLEAN /\ Becomes(o, new, d) /\ (~ d => new.Present_Value = e.Present_Value)
      BY <2>3, <2>4, <2>6
    <3> HIDE DEF d
    <3> QED
      BY <2>3, <2>6, <3>1, <3>2, BecomesPictured
  <2> QED
    BY <2>5, <2>6
<1>3. CASE COV_Increment_Set(o)
  <2>1. PICK i \in DOMAIN Increments :
          LET new == [e EXCEPT !.COV_Increment = Increments[i]]
          IN  Becomes(o, Detected(new), Detects(new))
    BY <1>3 DEF COV_Increment_Set
  <2> DEFINE new == [e EXCEPT !.COV_Increment = Increments[i]]
  <2>2. e.kind \in Analog /\ Increments[i] \in Nat
    BY <1>3, CovObjectsConstants DEF COV_Increment_Set
  <2>3. /\ new \in Object /\ new.kind = e.kind /\ new.Polarity = e.Polarity
        /\ new.Prior_Value = e.Prior_Value /\ new.Out_Of_Service = e.Out_Of_Service
    BY <1>1, <2>2 DEF Object
  <2>4. Becomes(o, Detected(new), Detects(new))
    BY <2>1
  <2> HIDE DEF new
  <2> QED
    BY <1>1, <2>2, <2>3, <2>4, AnalogPictured
<1>4. CASE Out_Of_Service_Set(o)
  <2>1. PICK v \in BOOLEAN :
          Becomes(o, [e EXCEPT !.Out_Of_Service = v], OutOfServiceFlags(o, v))
    BY <1>4 DEF Out_Of_Service_Set
  <2> DEFINE new == [e EXCEPT !.Out_Of_Service = v]
             d   == OutOfServiceFlags(o, v)
  <2>2. /\ new \in Object /\ new.kind = e.kind /\ new.Polarity = e.Polarity
        /\ new.Prior_Value = e.Prior_Value /\ new.Present_Value = e.Present_Value
        /\ new.COV_Increment = e.COV_Increment /\ new.Out_Of_Service = v
    BY <1>1 DEF Object
  <2>3. d \in BOOLEAN /\ (~ d => e.kind = "ANALOG_VALUE" \/ v = e.Out_Of_Service)
    BY DEF OutOfServiceFlags
  <2>4. Becomes(o, new, d)
    BY <2>1
  <2> HIDE DEF new, d
  <2>5. Sound(new)
    BY <1>1, <2>2 DEF Sound, Unflagged
  <2> QED
    BY <2>2, <2>3, <2>4, <2>5, BecomesPictured
<1>5. CASE Polarity_Set(o)
  <2>1. PICK v \in BOOLEAN : Becomes(o, [e EXCEPT !.Polarity = v], FALSE)
    BY <1>5 DEF Polarity_Set
  <2> DEFINE new == [e EXCEPT !.Polarity = v]
  <2>2. /\ new \in Object /\ new.kind = e.kind /\ e.kind = "BINARY_INPUT"
        /\ new.Prior_Value = e.Prior_Value /\ new.Present_Value = e.Present_Value
        /\ new.Out_Of_Service = e.Out_Of_Service
    BY <1>1, <1>5 DEF Object, Polarity_Set
  <2>3. Becomes(o, new, FALSE)
    BY <2>1
  <2> HIDE DEF new
  <2>4. Sound(new)
    BY <2>2 DEF Sound, Analog
  <2> QED
    BY <2>2, <2>3, <2>4, BecomesPictured
<1> QED
  BY <1>2, <1>3, <1>4, <1>5 DEF Write

LEMMA PicturedStep ==
  ASSUME CovIInv, Pictured, [CoNext]_coVars
  PROVE  Pictured'
<1>1. CASE UNCHANGED coVars
  <2>1. UNCHANGED <<object, told, COV_Subscriptions, due>>
    BY <1>1 DEF coVars, covVars, covOnly
  <2> QED
    BY <2>1 DEF Pictured, ObjectOf
<1>2. CASE CovService /\ Quietly
  BY <1>2, ServicePictured
<1>3. ASSUME NEW o \in Objects, Write(o) PROVE Pictured'
  BY <1>3, WritePictured
<1> QED
  BY <1>1, <1>2, <1>3 DEF CoNext

LEMMA PicturedInit == CoInit => Pictured
<1> SUFFICES ASSUME CoInit PROVE Pictured
  OBVIOUS
<1>1. DOMAIN told = Subs /\ \A s \in Subs : ~ COV_Subscriptions[s].valid
  BY DEF CoInit, CovInit
<1>2. Increments[1] \in Nat
  BY CovObjectsConstants
<1> DEFINE First(k) == [kind |-> k, Present_Value |-> IF k = "MULTISTATE_VALUE" THEN 1 ELSE 0,
                        Prior_Value |-> 0, COV_Increment |-> Increments[1],
                        Out_Of_Service |-> FALSE, Polarity |-> FALSE]
<1>3. ASSUME NEW k \in Kinds PROVE Sound(First(k))
  <2>1. First(k) \in Object
    BY <1>2 DEF Object
  <2>2. k \in Analog => Unflagged(First(k))
    BY <1>2 DEF Unflagged, cov_delta, Analog
  <2> QED
    BY <2>1, <2>2 DEF Sound
<1>4. object \in [Objects -> {First(k) : k \in Kinds}]
  BY DEF CoInit, Device_Init
<1> HIDE DEF First
<1>5. \A o \in Objects : Sound(object[o])
  BY <1>3, <1>4
<1>6. object \in [Objects -> Object]
  BY <1>4, <1>5 DEF Sound
<1> QED
  BY <1>1, <1>5, <1>6 DEF Pictured

\* For any objects, values, increments and number of subscribers: whose picture
\* of an object is wrong is one who is due to be told (h_cov.c, ai.c, av.c,
\* bi.c, msv.c).
WrongAreDue ==
  \A s \in Subs : COV_Subscriptions[s].valid /\ ~ Follows(s) => s \in due

LEMMA PicturesAreGood == CovIInv /\ Pictured => WrongAreDue
<1> SUFFICES ASSUME CovIInv, Pictured, NEW s \in Subs,
                    COV_Subscriptions[s].valid, s \notin due
             PROVE  Follows(s)
  BY DEF WrongAreDue
<1>1. COV_Subscriptions[s].object \in Objects
  BY DEF CovIInv, CovTypeOK, Subscription
<1> QED
  BY <1>1, ShownFollows DEF Pictured, ObjectOf

LEMMA PicturesInvariant == CoSpec => [](CovIInv /\ Pictured)
<1>1. CoInit => Pictured
  BY PicturedInit
<1>2. CovIInv /\ Pictured /\ [CoNext]_coVars => Pictured'
  BY PicturedStep
<1>3. CoSpec => []CovIInv
  BY ObjectsImplementChanges, CovInductive, PTL
<1> QED
  BY <1>1, <1>2, <1>3, PTL DEF CoSpec

\* The code of the objects raises each flag that a subscriber needs: no drift,
\* change of increment, or order of writes leaves one with a wrong picture who
\* is not due to be told, but for the changes that have no flag at all.
THEOREM WrongPicturesAreDue == CoSpec => []WrongAreDue
<1> QED
  BY PicturesInvariant, PicturesAreGood, PTL

\* And with one subscriber to an object (see NoChangeIsLost) the passes of the
\* task keep it: nobody whose picture is wrong is forgotten.
THEOREM NobodyIsForgotten ==
  ASSUME \A k, l \in Subscribers : k[3] = l[3] => k = l
  PROVE  CoSpec => []WrongAreMarked
<1>1. WrongAreDue /\ NoLostChange => WrongAreMarked
  BY DEF WrongAreDue, NoLostChange, WrongAreMarked
<1>2. CoSpec => []NoLostChange
  BY NoChangeIsLost, ObjectsImplementChanges, PTL
<1> QED
  BY <1>1, <1>2, WrongPicturesAreDue, PTL
=============================================================================
