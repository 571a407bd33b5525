--------------------------- MODULE RpClient_proofs ---------------------------
(***************************************************************************)
(* Proofs about RpClient: for any number of devices, addresses, slots, ids *)
(* and polls, a read returns the answer to its own request, leaks no       *)
(* transaction slot and panics for two reasons only.                       *)
(***************************************************************************)
EXTENDS RpClient, Tsm_proofs

----------------------------------------------------------------------------
(* The inductive invariant.  A read in progress has its id in its entry of *)
(* TARGET_ADDRESSES; while the entry waits and the transaction is gone,    *)
(* the reply that ended it came from another address.  The client runs no  *)
(* transaction timer, so a slot with an id awaits its confirmation.        *)

SlotsAwait == \A i \in Slots : TSM_List[i].InvokeID # 0 => TSM_List[i].state = AWAIT

AtHome == \A d \in Devices : target[d] # NoTarget => target[d].addr = Home[d]

Misdirected(id, addr) == \E m \in requests : m.id = id /\ m.to # addr

AnswerOK(t, list, id) ==
  /\ t \in TargetDevice
  /\ t.request.id = id /\ t.request.status # "None"
  /\ t.request.status = "Done" /\ t.value.outcome = "Ok"
       => t.value.id = id /\ t.value.from = t.addr
  /\ t.request.status = "Ongoing" /\ id # 0
       => \/ \E i \in Slots : list[i].InvokeID = id
          \/ Misdirected(id, t.addr)

Answering == Reading => AnswerOK(target[client.device], TSM_List, client.id)

RpIInv == /\ RpTypeOK /\ TsmIInv
          /\ SlotsAccounted /\ SlotsAwait
          /\ AtHome /\ Answering /\ PanicCauses

Reader == [phase : {"receive", "check", "panicked"}, device : Devices,
           id : 0 .. MAX_INVOKE_ID, polls : 0 .. MAX_POLLS]

LEMMA ReaderType ==
  ASSUME RpTypeOK, client.phase \in {"receive", "check", "panicked"}
  PROVE  client \in Reader
  BY DEF RpTypeOK, Reader, Idle

LEMMA InvokeIDTypes ==
  /\ 0 \in 0 .. MAX_INVOKE_ID /\ 0 \notin InvokeIDs
  /\ InvokeIDs = (0 .. MAX_INVOKE_ID) \ {0}
  BY TsmConstants DEF InvokeIDs

LEMMA IDFree ==
  ASSUME NEW list \in [Slots -> Slot], NEW id
  PROVE  tsm_invoke_id_free(list, id) <=> \A i \in Slots : list[i].InvokeID # id
<1>1. MAX_TSM_TRANSACTIONS \notin Slots
  BY TsmConstants DEF Slots
<1> QED
  BY <1>1, FindIndex DEF tsm_invoke_id_free

\* No transaction of the client fails.
LEMMA IDFailed ==
  ASSUME TsmIInv, SlotsAwait, NEW id
  PROVE  /\ tsm_invoke_id_failed(TSM_List, id) => id = 0
         /\ id = 0 => \/ tsm_invoke_id_free(TSM_List, id)
                      \/ tsm_invoke_id_failed(TSM_List, id)
<1> DEFINE x == tsm_find_invokeID_index(TSM_List, id)
<1>1. /\ TSM_List \in [Slots -> Slot] /\ MAX_TSM_TRANSACTIONS \notin Slots
      /\ \A i \in Slots : TSM_List[i].InvokeID = 0 => TSM_List[i].state = IDLE
      /\ IDLE # AWAIT
  BY TsmConstants DEF TsmIInv, TsmTypeOK, UnusedIsIdle, Slots, IDLE, AWAIT
<1>2. \/ x \in Slots /\ TSM_List[x].InvokeID = id
      \/ x = MAX_TSM_TRANSACTIONS
  BY <1>1, FindIndex
<1> QED
  BY <1>1, <1>2 DEF tsm_invoke_id_failed, tsm_invoke_id_free, SlotsAwait

----------------------------------------------------------------------------
(* What a request makes of the transaction table.                          *)

Placed(s, d) ==
  /\ Table(s.list) /\ s.current \in InvokeIDs
  /\ s.invokeID \in 0 .. MAX_INVOKE_ID
  /\ s.invokeID # 0 => /\ bound[d] # NoAddress
                       /\ \E i \in Slots : s.list[i].InvokeID = s.invokeID
  /\ \A i \in Slots : s.list[i].InvokeID # 0 =>
       \/ s.list[i] = TSM_List[i] /\ s.list[i].InvokeID # s.invokeID
       \/ s.list[i].InvokeID = s.invokeID /\ s.list[i].state = AWAIT

LEMMA SendTable ==
  ASSUME TsmIInv, NEW d \in Devices, NEW p \in Requests, NEW fits \in BOOLEAN
  PROVE  Placed(Send_Read_Property_Request(d, p, fits), d)
<1> DEFINE r == tsm_next_free_invokeID(TSM_List, Current_Invoke_ID)
           s == Send_Read_Property_Request(d, p, fits)
           free == tsm_transaction_available(TSM_List)
<1>0. /\ Table(TSM_List) /\ Timeout_Milliseconds \in Nat
      /\ Current_Invoke_ID \in InvokeIDs
  BY TsmTable, TsmConstants DEF TsmIInv, TsmTypeOK
<1>1. IF free
      THEN /\ r.invokeID \in InvokeIDs /\ r.current \in InvokeIDs /\ Table(r.list)
           /\ \E k \in Slots : /\ TSM_List[k].InvokeID = 0
                               /\ r.list[k].InvokeID = r.invokeID
                               /\ \A j \in Slots \ {k} :
                                    /\ r.list[j] = TSM_List[j]
                                    /\ TSM_List[j].InvokeID # r.invokeID
      ELSE r.invokeID = 0 /\ r.current = Current_Invoke_ID /\ r.list = TSM_List
  BY <1>0, ReserveTable
<1>2. s = IF bound[d] = NoAddress
            THEN [list |-> TSM_List, current |-> Current_Invoke_ID, invokeID |-> 0]
          ELSE IF ~ fits
            THEN [r EXCEPT !.list = IF r.invokeID = 0 THEN @
                                    ELSE tsm_free_invoke_id(@, r.invokeID),
                           !.invokeID = 0]
          ELSE [r EXCEPT !.list =
                  tsm_set_confirmed_unsegmented_transaction(@, r.invokeID, p)]
  BY DEF Send_Read_Property_Request
<1>3. r = [list |-> r.list, current |-> r.current, invokeID |-> r.invokeID]
  BY DEF tsm_next_free_invokeID
<1> SUFFICES Placed(s, d)
  OBVIOUS
<1> HIDE DEF r, s, free
<1>4. CASE bound[d] = NoAddress
  BY <1>0, <1>2, <1>4, InvokeIDTypes DEF Placed
<1>5. CASE bound[d] # NoAddress /\ ~ free
  <2>1. tsm_set_confirmed_unsegmented_transaction(TSM_List, 0, p) = TSM_List
    BY DEF tsm_set_confirmed_unsegmented_transaction
  <2>2. s.list = TSM_List /\ s.current = Current_Invoke_ID /\ s.invokeID = 0
    BY <1>1, <1>2, <1>3, <1>5, <2>1
  <2> QED
    BY <1>0, <2>2, InvokeIDTypes DEF Placed
<1>6. CASE bound[d] # NoAddress /\ free /\ ~ fits
  <2> DEFINE new == tsm_free_invoke_id(r.list, r.invokeID)
  <2>1. s.list = new /\ s.current = r.current /\ s.invokeID = 0
    BY <1>1, <1>2, <1>3, <1>6, InvokeIDTypes
  <2>2. /\ Table(new)
        /\ \A i \in Slots : IF r.list[i].InvokeID = r.invokeID
                              THEN new[i].InvokeID = 0
                              ELSE new[i] = r.list[i]
    BY <1>1, <1>6, FreeTable
  <2> HIDE DEF new
  <2>3. \A i \in Slots : new[i].InvokeID # 0 => new[i] = TSM_List[i]
    BY <1>1, <1>6, <2>2
  <2> QED
    BY <1>1, <1>6, <2>1, <2>2, <2>3, InvokeIDTypes DEF Placed
<1>7. CASE bound[d] # NoAddress /\ free /\ fits
  <2> DEFINE new == tsm_set_confirmed_unsegmented_transaction(r.list, r.invokeID, p)
  <2>1. s.list = new /\ s.current = r.current /\ s.invokeID = r.invokeID
    BY <1>2, <1>3, <1>7
  <2>2. /\ Table(new)
        /\ \A i \in Slots : IF r.list[i].InvokeID = r.invokeID
                              THEN new[i].InvokeID = r.invokeID /\ new[i].state = AWAIT
                              ELSE new[i] = r.list[i]
    BY <1>0, <1>1, <1>7, SetTable
  <2> HIDE DEF new
  <2> QED
    BY <1>1, <1>7, <2>1, <2>2, InvokeIDTypes DEF Placed
<1> QED
  BY <1>4, <1>5, <1>6, <1>7

----------------------------------------------------------------------------
(* One bip_receive().                                                      *)

\* What it makes of the state, whatever the client does around it.
Received ==
  /\ TsmIInv'
  /\ bound' \in [Devices -> Addresses \cup {NoAddress}]
  /\ target' \in [Devices -> TargetDevice \cup {NoTarget}]
  /\ abandoned' \subseteq InvokeIDs /\ discovered' \subseteq IAms
  /\ \A i \in Slots : TSM_List'[i].InvokeID # 0 =>
       /\ TSM_List'[i] = TSM_List[i]
       /\ TSM_List[i].InvokeID \in abandoned => TSM_List[i].InvokeID \in abandoned'
  /\ AtHome'
  /\ Reading => AnswerOK(target'[client.device], TSM_List', client.id)

LEMMA AckType ==
  ASSUME NEW t \in TargetDevice, NEW m \in Request, NEW reply \in Replies
  PROVE  LET u == Handled(t, m, reply)
         IN  /\ u \in TargetDevice /\ u.addr = t.addr
             /\ u.request.id = m.id /\ u.request.status \in {"Done", "Error"}
             /\ u.request.status = "Done" /\ u.value.outcome = "Ok"
                  => u.value.id = m.id /\ u.value.from = m.to
<1>0. /\ m.id \in 0 .. MAX_INVOKE_ID /\ m.to \in Addresses
      /\ 0 \in 0 .. MAX_INVOKE_ID
  BY InvokeIDTypes DEF Request
<1>1. CASE reply = "error"
  <2> DEFINE q == [id |-> m.id, status |-> "Error"]
  <2>1. Handled(t, m, reply) = [t EXCEPT !.request = q]
    BY <1>1 DEF Handled, my_error_handler
  <2>2. q \in [id : 0 .. MAX_INVOKE_ID, status : {"None", "Ongoing", "Done", "Error"}]
        /\ q.id = m.id /\ q.status = "Error"
    BY <1>0
  <2> HIDE DEF q
  <2>3. LET u == [t EXCEPT !.request = q]
        IN  u \in TargetDevice /\ u.addr = t.addr /\ u.request = q
    BY <2>2 DEF TargetDevice
  <2> QED
    BY <2>1, <2>2, <2>3
<1>2. CASE reply # "error"
  <2> DEFINE q == [id |-> m.id, status |-> "Done"]
             v == IF reply = "value" THEN Value(m) ELSE Failure("FailedToDecodeData")
  <2>1. Handled(t, m, reply) = [t EXCEPT !.value = v, !.request = q]
    BY <1>2 DEF Handled, my_readprop_ack_handler
  <2>2. q \in [id : 0 .. MAX_INVOKE_ID, status : {"None", "Ongoing", "Done", "Error"}]
        /\ q.id = m.id /\ q.status = "Done"
    BY <1>0
  <2>3. /\ v \in Results
        /\ v.outcome = "Ok" => v.id = m.id /\ v.from = m.to
    BY <1>0 DEF Value, Failure, Results, Outcomes
  <2> HIDE DEF q, v
  <2>4. LET u == [t EXCEPT !.value = v, !.request = q]
        IN  u \in TargetDevice /\ u.addr = t.addr /\ u.request = q /\ u.value = v
    BY <2>2, <2>3 DEF TargetDevice
  <2> QED
    BY <2>1, <2>2, <2>3, <2>4
<1> QED
  BY <1>1, <1>2

\* The reply is handled for the device that has asked at this address, if
\* there is one: no two devices are built with the same address.
LEMMA ReplyReceived ==
  ASSUME RpIInv, Reply, UNCHANGED <<Current_Invoke_ID, config>>
  PROVE  Received
<1>1. PICK m \in requests, reply \in Replies :
        /\ LET matching == find_matching_device(m.to, m.id)
           IN  IF matching = {} THEN UNCHANGED target
               ELSE \E d \in matching :
                      target' = [target EXCEPT ![d] = Handled(@, m, reply)]
        /\ TSM_List' = tsm_free_invoke_id(TSM_List, m.id)
        /\ abandoned' = abandoned \ {m.id}
        /\ UNCHANGED <<bound, discovered>>
  BY DEF Reply
<1>2. /\ TsmIInv /\ Table(TSM_List) /\ Current_Invoke_ID \in InvokeIDs
      /\ target \in [Devices -> TargetDevice \cup {NoTarget}]
      /\ bound \in [Devices -> Addresses \cup {NoAddress}]
      /\ abandoned \subseteq InvokeIDs /\ discovered \subseteq IAms
      /\ m \in Request /\ m.id \in InvokeIDs /\ AtHome
  BY TsmTable DEF RpIInv, RpTypeOK, TsmIInv, TsmTypeOK, Request
<1>3. /\ Table(TSM_List')
      /\ \A i \in Slots : IF TSM_List[i].InvokeID = m.id
                            THEN TSM_List'[i].InvokeID = 0
                            ELSE TSM_List'[i] = TSM_List[i]
  BY <1>1, <1>2, FreeTable
<1>4. TsmIInv'
  BY <1>2, <1>3, TsmStep
<1>5. CASE find_matching_device(m.to, m.id) = {}
  <2>1. target' = target
    BY <1>1, <1>5
  <2>2. ASSUME Reading
        PROVE  AnswerOK(target[client.device], TSM_List', client.id)
    <3> DEFINE t == target[client.device]
    <3>1. /\ client \in Reader /\ client.device \in Devices
          /\ AnswerOK(t, TSM_List, client.id)
      BY <2>2, ReaderType DEF RpIInv, Answering, Reading, Reader
    <3>2. t # NoTarget /\ t.request.id = client.id /\ t.request.status # "None"
      BY <3>1, RpTargets DEF AnswerOK
    <3>3. m.id = client.id => m.to # t.addr
      BY <1>5, <3>1, <3>2 DEF find_matching_device
    <3>4. CASE m.id = client.id
      BY <3>1, <3>3, <3>4 DEF AnswerOK, Misdirected
    <3>5. CASE m.id # client.id
      BY <1>3, <3>1, <3>5 DEF AnswerOK
    <3> QED
      BY <3>4, <3>5
  <2> QED
    BY <1>1, <1>2, <1>3, <1>4, <2>1, <2>2 DEF Received, AtHome
<1>6. CASE find_matching_device(m.to, m.id) # {}
  <2>1. PICK d \in Devices :
          /\ target' = [target EXCEPT ![d] = Handled(@, m, reply)]
          /\ target[d] # NoTarget /\ target[d].addr = m.to
          /\ target[d].request.id = m.id
    BY <1>1, <1>6 DEF find_matching_device
  <2> DEFINE u == Handled(target[d], m, reply)
  <2>2. /\ u \in TargetDevice /\ u.addr = target[d].addr
        /\ u.request.id = m.id /\ u.request.status \in {"Done", "Error"}
        /\ u.request.status = "Done" /\ u.value.outcome = "Ok"
             => u.value.id = m.id /\ u.value.from = m.to
    <3>1. target[d] \in TargetDevice
      BY <1>2, <2>1
    <3> QED
      BY <1>2, <3>1, AckType
  <2> HIDE DEF u
  <2>3. /\ target' \in [Devices -> TargetDevice \cup {NoTarget}]
        /\ target'[d] = u
        /\ \A e \in Devices \ {d} : target'[e] = target[e]
    BY <1>2, <2>1, <2>2 DEF u
  <2>4. AtHome'
    BY <1>2, <2>1, <2>2, <2>3 DEF AtHome
  <2>5. ASSUME Reading
        PROVE  AnswerOK(target'[client.device], TSM_List', client.id)
    <3> DEFINE t == target[client.device]
    <3>1. /\ client \in Reader /\ client.device \in Devices
          /\ AnswerOK(t, TSM_List, client.id)
      BY <2>5, ReaderType DEF RpIInv, Answering, Reading, Reader
    <3>2. CASE client.device = d
      <4>1. client.id = m.id
        BY <2>1, <3>1, <3>2 DEF AnswerOK
      <4> QED
        BY <2>1, <2>2, <2>3, <3>2, <4>1 DEF AnswerOK
    <3>3. CASE client.device # d
      <4>1. target'[client.device] = t /\ t # NoTarget
        BY <2>3, <3>1, <3>3, RpTargets DEF AnswerOK
      <4>2. t.addr # m.to
        BY <1>2, <2>1, <3>1, <3>3, <4>1, RpConstants DEF AtHome
      <4>3. CASE m.id = client.id
        BY <3>1, <4>1, <4>2, <4>3 DEF AnswerOK, Misdirected
      <4>4. CASE m.id # client.id
        BY <1>3, <3>1, <4>1, <4>4 DEF AnswerOK
      <4> QED
        BY <4>3, <4>4
    <3> QED
      BY <3>2, <3>3
  <2> QED
    BY <1>1, <1>2, <1>3, <1>4, <2>3, <2>4, <2>5 DEF Received
<1> QED
  BY <1>5, <1>6

LEMMA BipReceived ==
  ASSUME RpIInv, bip_receive, UNCHANGED <<Current_Invoke_ID, config>>
  PROVE  Received
<1>1. CASE UNCHANGED <<TSM_List, bound, target, abandoned, discovered>>
  BY <1>1 DEF RpIInv, RpTypeOK, Received, AtHome, Answering, TsmIInv, TsmTypeOK,
              UniqueInvokeIDs, UnusedIsIdle, config
<1>2. CASE IAm
  <2>1. PICK msg \in IAms :
          /\ bound' = IF i_am = "bind" /\ bound[msg[1]] # NoAddress
                      THEN [bound EXCEPT ![msg[1]] = msg[2]] ELSE bound
          /\ discovered' = IF i_am = "collect" THEN discovered \cup {msg}
                           ELSE discovered
          /\ UNCHANGED <<TSM_List, target, abandoned>>
    BY <1>2 DEF IAm
  <2>2. msg[1] \in Devices /\ msg[2] \in Addresses
    BY RpConstants
  <2>3. /\ bound' \in [Devices -> Addresses \cup {NoAddress}]
        /\ discovered' \subseteq IAms
    BY <2>1, <2>2 DEF RpIInv, RpTypeOK
  <2>4. TsmIInv'
    BY <2>1 DEF RpIInv, TsmIInv, TsmTypeOK, UniqueInvokeIDs, UnusedIsIdle, config
  <2> QED
    BY <2>1, <2>3, <2>4 DEF RpIInv, RpTypeOK, Received, AtHome, Answering
<1> QED
  BY <1>1, <1>2, ReplyReceived DEF bip_receive

----------------------------------------------------------------------------
(* Every action keeps the invariant.                                       *)

LEMMA RpInitIInv == RpInit => RpIInv
<1> SUFFICES ASSUME RpInit PROVE RpIInv
  OBVIOUS
<1>1. TsmIInv /\ \A i \in Slots : TSM_List[i].InvokeID = 0
  BY InitIInv DEF RpInit, TsmInit
<1>2. /\ client = Idle /\ ~ Reading /\ client.phase # "panicked"
      /\ \A d \in Devices : target[d] = NoTarget
  BY DEF RpInit, Idle, Reading
<1>3. NoValue \in Results
  BY InvokeIDTypes DEF NoValue, Failure, Results, Outcomes
<1>4. RpTypeOK
  BY <1>1, <1>3 DEF RpInit, RpTypeOK, TsmIInv
<1> QED
  BY <1>1, <1>2, <1>4 DEF RpIInv, SlotsAccounted, SlotsAwait, AtHome, Answering, PanicCauses

\* Between two operations the client reads nothing.
LEMMA IdleStep ==
  ASSUME RpIInv, client.phase \in {"idle", "whois"}, client'.phase \in {"idle", "whois"},
         UNCHANGED <<tsmVars, abandoned>>, AtHome', RpTypeOK'
  PROVE  RpIInv'
<1>1. ~ Reading /\ ~ Reading' /\ client'.phase # "panicked"
  BY DEF Reading
<1>2. TsmIInv'
  BY DEF RpIInv, TsmIInv, TsmTypeOK, UniqueInvokeIDs, UnusedIsIdle, tsmVars, config
<1>3. SlotsAccounted' /\ SlotsAwait'
  BY <1>1 DEF RpIInv, SlotsAccounted, SlotsAwait, tsmVars
<1> QED
  BY <1>1, <1>2, <1>3 DEF RpIInv, Answering, PanicCauses

LEMMA ConnectIInv ==
  ASSUME RpIInv, NEW d \in Devices, Connect(d)
  PROVE  RpIInv'
<1> DEFINE t == [addr |-> Home[d], request |-> NoRequestID, value |-> NoValue]
<1>1. /\ client' = client /\ client.phase = "idle"
      /\ bound' = [bound EXCEPT ![d] = Home[d]]
      /\ target' = [target EXCEPT ![d] = t]
      /\ i_am' \in {i_am, "bind"}
      /\ UNCHANGED <<tsmVars, result, requests, abandoned, discovered>>
  BY DEF Connect, Init_service_handlers
<1>2. t \in TargetDevice
  BY RpConstants, InvokeIDTypes
     DEF TargetDevice, NoRequestID, NoValue, Failure, Results, Outcomes
<1>3. t.addr = Home[d]
  OBVIOUS
<1> HIDE DEF t
<1>4. RpTypeOK'
  BY <1>1, <1>2, RpConstants DEF RpIInv, RpTypeOK, TsmTypeOK, tsmVars, config
<1>5. AtHome'
  BY <1>1, <1>3 DEF RpIInv, RpTypeOK, AtHome
<1> QED
  BY <1>1, <1>4, <1>5, IdleStep

LEMMA QuietIInv ==
  ASSUME RpIInv,
         (\E d \in Devices : Disconnect(d)) \/ StartWhoIs \/ FinishWhoIs
  PROVE  RpIInv'
<1>1. /\ client.phase \in {"idle", "whois"}
      /\ client' \in {Idle, [phase |-> "whois"]}
      /\ client'.phase \in {"idle", "whois"}
      /\ UNCHANGED <<tsmVars, target, result, requests, abandoned>>
  BY DEF RpIInv, RpTypeOK, Disconnect, StartWhoIs, FinishWhoIs, Idle
<1>2. /\ bound' \in [Devices -> Addresses \cup {NoAddress}]
      /\ i_am' \in {"none", "bind", "collect"} /\ discovered' \subseteq IAms
  BY DEF RpIInv, RpTypeOK, Disconnect, StartWhoIs, FinishWhoIs, stack
<1>3. RpTypeOK'
  BY <1>1, <1>2 DEF RpIInv, RpTypeOK, TsmTypeOK, tsmVars, config
<1>4. AtHome'
  BY <1>1 DEF RpIInv, AtHome
<1> QED
  BY <1>1, <1>3, <1>4, IdleStep

LEMMA ReadPropIInv ==
  ASSUME RpIInv, NEW d \in Devices, NEW p \in Requests, NEW fits \in BOOLEAN,
         ReadProp(d, p, fits)
  PROVE  RpIInv'
<1> DEFINE s == Send_Read_Property_Request(d, p, fits)
           q == [id |-> s.invokeID, status |-> "Ongoing"]
<1>1. /\ client.phase = "idle" /\ target[d] # NoTarget
      /\ TSM_List' = s.list /\ Current_Invoke_ID' = s.current
      /\ requests' = Sent(d, s.invokeID)
      /\ abandoned' = abandoned \ {s.invokeID}
      /\ target' = [target EXCEPT ![d].request = q]
      /\ client' = [phase |-> "receive", device |-> d, id |-> s.invokeID, polls |-> 0]
      /\ result' = NoValue
      /\ UNCHANGED <<config, bound, stack, discovered>>
  BY DEF ReadProp
<1>2. Placed(s, d)
  BY SendTable DEF RpIInv
<1> HIDE DEF s
<1>3. /\ TsmIInv /\ TsmIInv' /\ s.invokeID \in 0 .. MAX_INVOKE_ID
  BY <1>1, <1>2, TsmStep DEF RpIInv, Placed
<1>4. target[d] \in TargetDevice /\ target[d].addr = Home[d]
  BY <1>1 DEF RpIInv, RpTypeOK, AtHome
<1>5. q \in [id : 0 .. MAX_INVOKE_ID, status : {"None", "Ongoing", "Done", "Error"}]
      /\ q.id = s.invokeID /\ q.status = "Ongoing"
  BY <1>3
<1> HIDE DEF q
<1>6. LET t == [target[d] EXCEPT !.request = q]
      IN  t \in TargetDevice /\ t.addr = Home[d] /\ t.request = q
  BY <1>4, <1>5 DEF TargetDevice
<1>7. /\ target' \in [Devices -> TargetDevice \cup {NoTarget}]
      /\ target'[d] \in TargetDevice /\ target'[d].addr = Home[d]
      /\ target'[d].request = q
      /\ \A e \in Devices \ {d} : target'[e] = target[e]
  BY <1>1, <1>6 DEF RpIInv, RpTypeOK
<1>8. AtHome'
  BY <1>7 DEF RpIInv, AtHome
<1>9. requests' \subseteq Request
  <2>1. s.invokeID # 0 =>
          bound[d] \in Addresses /\ s.invokeID \in InvokeIDs
    BY <1>2, <1>3, InvokeIDTypes DEF Placed, RpIInv, RpTypeOK
  <2> QED
    BY <1>1, <2>1 DEF Sent, Request, RpIInv, RpTypeOK
<1>10. /\ Reading' /\ client'.device = d /\ client'.id = s.invokeID
       /\ client'.phase # "panicked"
       /\ client' \in Reader
  <2>1. 0 \in 0 .. MAX_POLLS
    BY RpConstants
  <2> QED
    BY <1>1, <1>3, <2>1 DEF Reading, Reader
<1>11. RpTypeOK'
  <2>1. result' \in Results
    BY <1>1, InvokeIDTypes DEF NoValue, Failure, Results, Outcomes
  <2> QED
    BY <1>1, <1>3, <1>7, <1>9, <1>10, <2>1
       DEF RpIInv, RpTypeOK, TsmIInv, Reader, stack
<1>12. SlotsAccounted' /\ SlotsAwait'
  <2>1. ~ Reading
    BY <1>1 DEF Reading
  <2>2. \A i \in Slots : TSM_List[i].InvokeID # 0 =>
          TSM_List[i].InvokeID \in abandoned /\ TSM_List[i].state = AWAIT
    BY <2>1 DEF RpIInv, SlotsAccounted, SlotsAwait
  <2>3. \A i \in Slots : TSM_List'[i].InvokeID # 0 =>
          \/ TSM_List'[i] = TSM_List[i] /\ TSM_List'[i].InvokeID # s.invokeID
          \/ TSM_List'[i].InvokeID = s.invokeID /\ TSM_List'[i].state = AWAIT
    BY <1>1, <1>2 DEF Placed
  <2> QED
    BY <1>1, <1>10, <2>2, <2>3 DEF SlotsAccounted, SlotsAwait
<1>13. Answering'
  <2>1. s.invokeID # 0 => \E i \in Slots : TSM_List'[i].InvokeID = s.invokeID
    BY <1>1, <1>2 DEF Placed
  <2> QED
    BY <1>5, <1>7, <1>10, <2>1 DEF Answering, AnswerOK
<1> QED
  BY <1>3, <1>8, <1>10, <1>11, <1>12, <1>13 DEF RpIInv, PanicCauses

LEMMA ReceiveIInv == RpIInv /\ (Receive \/ PollWhoIs) => RpIInv'
<1> SUFFICES ASSUME RpIInv, Receive \/ PollWhoIs PROVE RpIInv'
  OBVIOUS
<1>1. /\ UNCHANGED <<Current_Invoke_ID, config, result, requests, stack>>
      /\ Received
  BY BipReceived DEF Receive, PollWhoIs
<1>2. /\ client'.phase # "panicked"
      /\ client' \in {Idle, [phase |-> "whois"]} \cup Reader
      /\ Reading <=> Reading'
      /\ Reading => client'.device = client.device /\ client'.id = client.id
  <2>1. CASE PollWhoIs
    BY <2>1 DEF PollWhoIs, RpIInv, RpTypeOK, Reader, Reading
  <2>2. CASE Receive
    <3> DEFINE n == Min({client.polls + 1, MAX_POLLS})
    <3>1. client \in Reader /\ Reading
      BY <2>2, ReaderType DEF Receive, RpIInv, Reading
    <3>2. n \in 0 .. MAX_POLLS
      <4>1. {client.polls + 1, MAX_POLLS} \in SUBSET Nat
        BY <3>1, RpConstants DEF Reader
      <4>2. /\ n \in {client.polls + 1, MAX_POLLS}
            /\ \A y \in {client.polls + 1, MAX_POLLS} : n <= y
        BY <4>1, MinNat
      <4> QED
        BY <4>1, <4>2
    <3>3. client' = [client EXCEPT !.phase = "check", !.polls = n]
      BY <2>2 DEF Receive
    <3> HIDE DEF n
    <3> QED
      BY <3>1, <3>2, <3>3 DEF Reader, Reading
  <2> QED
    BY <2>1, <2>2
<1>3. RpTypeOK'
  BY <1>1, <1>2 DEF Received, RpIInv, RpTypeOK, TsmIInv, stack, Reader
<1>4. SlotsAccounted' /\ SlotsAwait'
  BY <1>1, <1>2 DEF Received, RpIInv, SlotsAccounted, SlotsAwait
<1>5. Answering'
  BY <1>1, <1>2 DEF Received, Answering, AnswerOK, Misdirected
<1> QED
  BY <1>1, <1>2, <1>3, <1>4, <1>5 DEF Received, RpIInv, PanicCauses

\* What read_prop_at() finds when its transaction is over.
LEMMA TakeIInv ==
  ASSUME RpIInv, client.phase = "check", tsm_invoke_id_free(TSM_List, client.id),
         Take(client.device),
         UNCHANGED <<tsmVars, bound, requests, stack, discovered, abandoned>>
  PROVE  /\ RpIInv'
         /\ client'.phase = "idle" /\ result'.outcome = "Ok"
              => result'.id = client.id /\ result'.from = target[client.device].addr
<1> DEFINE d == client.device
           t == target[d]
<1>1. /\ client \in Reader /\ Reading /\ d \in Devices
      /\ AnswerOK(t, TSM_List, client.id)
      /\ \A i \in Slots : TSM_List[i].InvokeID # client.id
      /\ target \in [Devices -> TargetDevice \cup {NoTarget}]
      /\ result \in Results
  BY ReaderType, IDFree
     DEF RpIInv, RpTypeOK, TsmTypeOK, Answering, Reading, Reader
<1>2. PICK v \in Results :
        target' = [target EXCEPT ![d].request = NoRequestID, ![d].value = v]
  <2>1. t.value \in Results /\ NoValue \in Results
    BY <1>1, InvokeIDTypes
       DEF AnswerOK, TargetDevice, NoValue, Failure, Results, Outcomes
  <2>2. target' = [target EXCEPT ![d].request = NoRequestID,
                     ![d].value = IF t.request.status = "Done" THEN NoValue ELSE t.value]
    BY <1>1 DEF Take, AnswerOK, TargetDevice
  <2> QED
    BY <2>1, <2>2
<1>3. /\ target' \in [Devices -> TargetDevice \cup {NoTarget}]
      /\ target'[d] \in TargetDevice /\ target'[d].addr = t.addr
      /\ \A e \in Devices \ {d} : target'[e] = target[e]
  <2> DEFINE u == [[t EXCEPT !.request = NoRequestID] EXCEPT !.value = v]
  <2>1. NoRequestID \in [id : 0 .. MAX_INVOKE_ID,
                         status : {"None", "Ongoing", "Done", "Error"}]
    BY InvokeIDTypes DEF NoRequestID
  <2>2. t \in TargetDevice
    BY <1>1 DEF AnswerOK
  <2>3. u \in TargetDevice /\ u.addr = t.addr
    BY <2>1, <2>2 DEF TargetDevice
  <2>4. target' = [target EXCEPT ![d] = u]
    BY <1>1, <1>2, <2>2 DEF TargetDevice
  <2> HIDE DEF u
  <2> QED
    BY <1>1, <2>3, <2>4
<1>4. /\ ~ Reading'
      /\ client' = Idle \/ (client' \in Reader /\ client'.phase = "panicked")
      /\ client'.phase = "panicked" =>
           /\ client'.id = client.id /\ client'.device = d
           /\ t.request.status = "Ongoing"
      /\ result' \in Results
      /\ client'.phase = "idle" /\ result'.outcome = "Ok"
           => t.request.status = "Done" /\ result' = t.value
  <2>1. /\ t.value \in Results /\ t.request.status \in {"Done", "Ongoing", "Error"}
    BY <1>1 DEF AnswerOK, TargetDevice
  <2>2. /\ Failure("NoValueWasExtracted") \in Results /\ Failure("BacnetError") \in Results
        /\ Failure("NoValueWasExtracted").outcome # "Ok"
        /\ Failure("BacnetError").outcome # "Ok"
    BY InvokeIDTypes DEF Failure, Results, Outcomes
  <2>3. CASE t.request.status = "Done"
    <3>1. client' = Idle
          /\ result' = IF t.value = NoValue THEN Failure("NoValueWasExtracted") ELSE t.value
      BY <2>3 DEF Take, Return
    <3> QED
      BY <2>1, <2>2, <2>3, <3>1 DEF Idle, Reading
  <2>4. CASE t.request.status = "Error"
    <3>1. client' = Idle /\ result' = Failure("BacnetError")
      BY <2>4 DEF Take, Return
    <3> QED
      BY <2>2, <3>1 DEF Idle, Reading
  <2>5. CASE t.request.status = "Ongoing"
    <3>1. client' = [client EXCEPT !.phase = "panicked"] /\ result' = result
      BY <2>5 DEF Take
    <3> QED
      BY <1>1, <2>5, <3>1 DEF Reader, Reading
  <2> QED
    BY <2>1, <2>3, <2>4, <2>5
<1>5. TsmIInv'
  BY DEF RpIInv, TsmIInv, TsmTypeOK, UniqueInvokeIDs, UnusedIsIdle, tsmVars, config
<1>6. RpTypeOK'
  BY <1>3, <1>4, <1>5 DEF RpIInv, RpTypeOK, TsmIInv, Reader, stack
<1>7. SlotsAccounted' /\ SlotsAwait'
  BY <1>1 DEF RpIInv, SlotsAccounted, SlotsAwait, tsmVars
<1>8. AtHome'
  BY <1>1, <1>3, RpTargets DEF RpIInv, AtHome, AnswerOK
<1>9. PanicCauses'
  <2>1. client'.phase = "panicked" => (client.id # 0 => Misdirected(client.id, t.addr))
    BY <1>1, <1>4 DEF AnswerOK
  <2>2. client'.phase = "panicked" =>
          client'.id = client.id /\ target'[client'.device].addr = t.addr
    BY <1>3, <1>4
  <2> QED
    BY <2>1, <2>2 DEF PanicCauses, Misdirected
<1>10. client'.phase = "idle" /\ result'.outcome = "Ok"
         => result'.id = client.id /\ result'.from = t.addr
  BY <1>1, <1>4 DEF AnswerOK
<1> QED
  BY <1>4, <1>5, <1>6, <1>7, <1>8, <1>9, <1>10 DEF RpIInv, Answering

\* What it does while its transaction is not over.
LEMMA WaitIInv ==
  ASSUME RpIInv, client.phase = "check", ~ tsm_invoke_id_free(TSM_List, client.id),
         Check
  PROVE  /\ RpIInv'
         /\ client'.phase = "idle" => result'.outcome # "Ok"
<1>1. /\ client \in Reader /\ Reading
      /\ UNCHANGED <<tsmVars, bound, requests, stack, discovered, target>>
      /\ \/ /\ tsm_invoke_id_failed(TSM_List, client.id)
            /\ Return(Failure("TsmTimeout")) /\ abandoned' = abandoned
         \/ /\ ~ tsm_invoke_id_failed(TSM_List, client.id)
            /\ Return(Failure("ApduTimeout"))
            /\ abandoned' = abandoned \cup {client.id}
         \/ /\ client' = [client EXCEPT !.phase = "receive"]
            /\ UNCHANGED <<result, abandoned>>
  BY ReaderType DEF RpIInv, Check, Reading
<1>2. TsmIInv'
  BY <1>1 DEF RpIInv, TsmIInv, TsmTypeOK, UniqueInvokeIDs, UnusedIsIdle, tsmVars, config
<1>3. AtHome'
  BY <1>1 DEF RpIInv, AtHome
<1>4. CASE client' = [client EXCEPT !.phase = "receive"]
           /\ UNCHANGED <<result, abandoned>>
  <2>1. /\ client' \in Reader /\ Reading' /\ client'.phase = "receive"
        /\ client'.id = client.id /\ client'.device = client.device
    BY <1>1, <1>4 DEF Reader, Reading
  <2>2. RpTypeOK'
    BY <1>1, <1>2, <1>4, <2>1 DEF RpIInv, RpTypeOK, TsmIInv, Reader, stack
  <2>3. SlotsAccounted' /\ SlotsAwait'
    BY <1>1, <1>4, <2>1 DEF RpIInv, SlotsAccounted, SlotsAwait, tsmVars
  <2>4. Answering'
    BY <1>1, <2>1 DEF RpIInv, Answering, AnswerOK, Misdirected, tsmVars
  <2> QED
    BY <1>2, <1>3, <2>1, <2>2, <2>3, <2>4 DEF RpIInv, PanicCauses
<1>5. ASSUME NEW e \in {"TsmTimeout", "ApduTimeout"}, Return(Failure(e)),
             \/ client.id = 0 /\ abandoned' = abandoned
             \/ client.id # 0 /\ abandoned' = abandoned \cup {client.id}
      PROVE  RpIInv' /\ result'.outcome # "Ok"
  <2>1. /\ client' = Idle /\ ~ Reading' /\ client'.phase = "idle"
        /\ result' \in Results /\ result'.outcome # "Ok"
    BY <1>5, InvokeIDTypes DEF Return, Failure, Results, Outcomes, Idle, Reading
  <2>2. abandoned' \subseteq InvokeIDs
    BY <1>1, <1>5, InvokeIDTypes DEF RpIInv, RpTypeOK, Reader
  <2>3. RpTypeOK'
    BY <1>1, <1>2, <2>1, <2>2 DEF RpIInv, RpTypeOK, TsmIInv, stack
  <2>4. SlotsAccounted' /\ SlotsAwait'
    BY <1>1, <1>5 DEF RpIInv, SlotsAccounted, SlotsAwait, tsmVars
  <2> QED
    BY <1>2, <1>3, <2>1, <2>3, <2>4 DEF RpIInv, PanicCauses, Answering
<1>6. /\ tsm_invoke_id_failed(TSM_List, client.id) => client.id = 0
      /\ ~ tsm_invoke_id_failed(TSM_List, client.id) => client.id # 0
  BY IDFailed DEF RpIInv
<1>7. client' = [client EXCEPT !.phase = "receive"] => client'.phase # "idle"
  BY <1>1 DEF Reader
<1> QED
  BY <1>1, <1>4, <1>5, <1>6, <1>7

LEMMA CheckIInv ==
  ASSUME RpIInv, Check
  PROVE  /\ RpIInv'
         /\ client'.phase = "idle" /\ result'.outcome = "Ok"
              => result'.id = client.id /\ result'.from = target[client.device].addr
<1>1. CASE tsm_invoke_id_free(TSM_List, client.id)
  <2>1. /\ client.phase = "check" /\ Take(client.device)
        /\ UNCHANGED <<tsmVars, bound, requests, stack, discovered, abandoned>>
    BY <1>1 DEF Check
  <2> QED
    BY <1>1, <2>1, TakeIInv
<1>2. CASE ~ tsm_invoke_id_free(TSM_List, client.id)
  BY <1>2, WaitIInv DEF Check
<1> QED
  BY <1>1, <1>2

LEMMA RpStutterIInv == RpIInv /\ UNCHANGED rpVars => RpIInv'
  BY DEF RpIInv, RpTypeOK, TsmIInv, TsmTypeOK, UniqueInvokeIDs, UnusedIsIdle,
         SlotsAccounted, SlotsAwait, AtHome, Answering, AnswerOK, Misdirected,
         PanicCauses, Reading, rpVars, tsmVars, config, stack

LEMMA RpNextIInv == RpIInv /\ [RpNext]_rpVars => RpIInv'
  BY ConnectIInv, QuietIInv, ReadPropIInv, ReceiveIInv, CheckIInv, RpStutterIInv
     DEF RpNext

\* The inductive invariant holds in every reachable state.
LEMMA RpInductive == RpSpec => []RpIInv
  BY RpInitIInv, RpNextIInv, PTL DEF RpSpec

----------------------------------------------------------------------------
(* The theorems.                                                           *)

\* The client's records and the transaction table under them keep their types.
THEOREM RpTypeCorrect == RpSpec => []RpTypeOK
<1>1. RpIInv => RpTypeOK
  BY DEF RpIInv
<1> QED
  BY <1>1, RpInductive, PTL

\* The transaction table is sound also as the client uses it, which never frees
\* the id of a read that ran out of time: every id is held once, free slots are
\* idle, and the search for an id ends.
THEOREM RpKeepsTsm ==
  RpSpec => [](UniqueInvokeIDs /\ FreedSlotsAreIdle /\ SearchEnds)
<1>1. RpIInv => UniqueInvokeIDs /\ FreedSlotsAreIdle /\ SearchEnds
  BY TsmIInvSafe DEF RpIInv
<1> QED
  BY <1>1, RpInductive, PTL

\* No path through a request leaks a transaction slot: an id that is in use
\* belongs to the read in progress or to one that ran out of time.
THEOREM NoSlotLeaks == RpSpec => []SlotsAccounted
<1>1. RpIInv => SlotsAccounted
  BY DEF RpIInv
<1> QED
  BY <1>1, RpInductive, PTL

\* read_prop_at() reaches its panic! only without an invoke id or when the
\* request went to another address than the one it is waiting for.
THEOREM PanicsForTwoReasons == RpSpec => []PanicCauses
<1>1. RpIInv => PanicCauses
  BY DEF RpIInv
<1> QED
  BY <1>1, RpInductive, PTL

\* A value that read_prop_at() returns answers its own request and comes from
\* the device it asked, whatever the network does with replies.
THEOREM ReadsOwnAnswer == RpSpec => ReadReturnsOwnAnswer
<1> DEFINE Answered == Reading /\ client'.phase = "idle" /\ result'.outcome = "Ok"
                         => /\ result'.id = client.id
                            /\ result'.from = target[client.device].addr
<1>1. RpIInv /\ [RpNext]_rpVars => [Answered]_rpVars
  <2> SUFFICES ASSUME RpIInv, RpNext, Reading, client'.phase = "idle",
                      result'.outcome = "Ok"
               PROVE  /\ result'.id = client.id
                      /\ result'.from = target[client.device].addr
    OBVIOUS
  <2>1. CASE Check
    BY <2>1, CheckIInv
  <2>2. CASE Receive
    <3>1. client \in Reader
      BY <2>2, ReaderType DEF Receive, RpIInv
    <3>2. client'.phase = "check"
      BY <2>2, <3>1 DEF Receive, Reader
    <3> QED
      BY <3>2
  <2>3. ~ Check /\ ~ Receive => client.phase \in {"idle", "whois"}
    BY DEF RpNext, Connect, Disconnect, ReadProp, StartWhoIs, PollWhoIs, FinishWhoIs
  <2> QED
    BY <2>1, <2>2, <2>3 DEF Reading
<1> QED
  BY <1>1, RpInductive, PTL DEF RpSpec, ReadReturnsOwnAnswer
=============================================================================
