-------------------------------- MODULE Cov --------------------------------
(***************************************************************************)
(* Change-of-value subscriptions and notifications                         *)
(* (basic/service/h_cov.c) on top of the transaction table (Tsm).          *)
(*                                                                         *)
(* The main loop alternates between handling one received message, one     *)
(* step of the COV task (handler_cov_fsm), the per-second COV timer and    *)
(* the TSM timer; objects change between any two of them.  The task makes  *)
(* four passes over the subscriptions, one subscription per call: mark     *)
(* those whose object changed, clear the objects' change flags, release    *)
(* settled transactions, send.                                             *)
(***************************************************************************)
EXTENDS Tsm

CONSTANTS MAX_COV_SUBCRIPTIONS, MAX_COV_ADDRESSES,
          Objects,        \* objects that support COV
          Processes,      \* subscriber process identifiers
          Addresses, NoAddress,
          Subscribers,    \* <<address, process, object>>: the contexts asked for
          Lifetimes,      \* lifetimes asked for, in seconds; 0 is for ever
          Confirmed,      \* kinds of notification asked for
          Communications, \* values dcc_communication_enabled() may take
          Sends           \* results datalink_send_pdu() may have

Subs  == 0 .. MAX_COV_SUBCRIPTIONS - 1
Dests == 0 .. MAX_COV_ADDRESSES - 1

\* The requests in the transaction table are the subscriptions' notifications.
ASSUME CovConstants ==
  /\ MAX_COV_SUBCRIPTIONS \in Nat \ {0} /\ MAX_COV_ADDRESSES \in Nat \ {0}
  /\ Subs = Requests
  /\ NoAddress \notin Addresses
  /\ Subscribers \subseteq Addresses \X Processes \X Objects
  /\ Lifetimes \subseteq Nat
  /\ Confirmed \subseteq BOOLEAN
  /\ Communications \subseteq BOOLEAN /\ Sends \subseteq BOOLEAN

VARIABLES COV_Subscriptions, COV_Addresses,
          index, cov_task_state,   \* the static variables of the task
          changed,        \* objects whose COV flag is set
          communication,  \* dcc_communication_enabled()
          due             \* history: subscriptions whose object changed, or that
                          \* were made, since they were last notified

covOnly == <<COV_Subscriptions, COV_Addresses, index, cov_task_state, changed,
             communication, due>>
covVars == <<tsmVars, covOnly>>
task    == <<index, cov_task_state>>
world   == <<changed, communication>>

Subscription ==
  [valid : BOOLEAN, issueConfirmedNotifications : BOOLEAN,
   send_requested : BOOLEAN, dest_index : 0 .. MAX_COV_ADDRESSES,
   invokeID : 0 .. MAX_INVOKE_ID, process : Processes, object : Objects,
   lifetime : Nat]

CovInit ==
  /\ TsmInit
  /\ COV_Subscriptions \in
       {[s \in Subs |->
          [valid |-> FALSE, issueConfirmedNotifications |-> FALSE,
           send_requested |-> FALSE, dest_index |-> MAX_COV_ADDRESSES,
           invokeID |-> 0, process |-> p, object |-> o, lifetime |-> 0]] :
         p \in Processes, o \in Objects}
  /\ COV_Addresses = [i \in Dests |-> NoAddress]
  /\ index = 0 /\ cov_task_state = "COV_STATE_IDLE"
  /\ changed = {} /\ communication \in Communications
  /\ due = {}

----------------------------------------------------------------------------
(* The address table.  Any index that is no table index stands for the     *)
(* invalid ones: MAX_COV_ADDRESSES, and -1 stored in an unsigned.          *)

cov_address_get(i) == IF i \in Dests THEN COV_Addresses[i] ELSE NoAddress

\* Mutant: addresses stay when their last subscription goes.
Mut_cov_address_remove_unused(subs) == COV_Addresses

cov_address_remove_unused(subs) ==
  [i \in Dests |->
     IF \E s \in Subs : subs[s].valid /\ subs[s].dest_index = i
       THEN COV_Addresses[i] ELSE NoAddress]

cov_address_add(dest) ==
  LET same == {i \in Dests : COV_Addresses[i] = dest}
      free == {i \in Dests : COV_Addresses[i] = NoAddress}
  IN  IF same # {} THEN Min(same)
      ELSE IF free # {} THEN Min(free)
      ELSE MAX_COV_ADDRESSES

WithAddress(dest) ==
  LET i == cov_address_add(dest)
  IN  IF i \in Dests THEN [COV_Addresses EXCEPT ![i] = dest] ELSE COV_Addresses

----------------------------------------------------------------------------
(* SubscribeCOV (handler_cov_subscribe, cov_list_subscribe).               *)

\* Mutant: the search stops at the first unused subscription.
Mut_Matching(src, process, object) ==
  {s \in Subs : LET e == COV_Subscriptions[s] IN
     /\ \A t \in 0 .. s : COV_Subscriptions[t].valid
     /\ e.object = object /\ e.process = process
     /\ cov_address_get(e.dest_index) \in {src, NoAddress}}

\* A subscription without an address matches any subscriber.
Matching(src, process, object) ==
  {s \in Subs : LET e == COV_Subscriptions[s] IN
     /\ e.valid /\ e.object = object /\ e.process = process
     /\ cov_address_get(e.dest_index) \in {src, NoAddress}}

FreeSubs == {s \in Subs : ~ COV_Subscriptions[s].valid}

Cancelled(e) == [e EXCEPT !.valid = FALSE, !.dest_index = MAX_COV_ADDRESSES,
                          !.invokeID = 0]

Renewed(e, dest_index, confirmed, lifetime) ==
  [e EXCEPT !.dest_index = dest_index,
            !.issueConfirmedNotifications = confirmed, !.lifetime = lifetime,
            !.send_requested = TRUE, !.invokeID = 0]

\* Mutant: the transaction of the previous notification is left alone.
Mut_Released(ids) == TSM_List

\* The table without the given transactions; 0 stands for none.
Released(ids) ==
  [i \in Slots |-> IF TSM_List[i].InvokeID \in ids \ {0}
                     THEN tsm_free_invoke_id(TSM_List, TSM_List[i].InvokeID)[i]
                     ELSE TSM_List[i]]

Cancel(src, process, object) ==
  LET found == Matching(src, process, object)
      s     == Min(found)
  IN  /\ found # {}
      /\ COV_Subscriptions' = [COV_Subscriptions EXCEPT ![s] = Cancelled(@)]
      /\ COV_Addresses' = cov_address_remove_unused(COV_Subscriptions')
      /\ TSM_List' = Released({COV_Subscriptions[s].invokeID})
      /\ due' = due \ {s}
      /\ UNCHANGED <<Current_Invoke_ID, config, task, world>> /\ Quiet

Renew(src, process, object, confirmed, lifetime) ==
  LET found == Matching(src, process, object)
      s     == Min(found)
  IN  /\ found # {}
      /\ COV_Subscriptions' = [COV_Subscriptions EXCEPT
           ![s] = Renewed(@, cov_address_add(src), confirmed, lifetime)]
      /\ COV_Addresses' = WithAddress(src)
      /\ TSM_List' = Released({COV_Subscriptions[s].invokeID})
      /\ due' = due \cup {s}
      /\ UNCHANGED <<Current_Invoke_ID, config, task, world>> /\ Quiet

Subscribe(src, process, object, confirmed, lifetime) ==
  LET s == Min(FreeSubs)
  IN  /\ Matching(src, process, object) = {} /\ FreeSubs # {}
      /\ COV_Subscriptions' = [COV_Subscriptions EXCEPT ![s] =
           [valid |-> TRUE, dest_index |-> cov_address_add(src),
            object |-> object, process |-> process,
            issueConfirmedNotifications |-> confirmed, invokeID |-> 0,
            lifetime |-> lifetime, send_requested |-> TRUE]]
      /\ COV_Addresses' = WithAddress(src)
      /\ due' = due \cup {s}
      /\ UNCHANGED <<tsmVars, task, world>>

\* Requests that find nothing to cancel or no room change nothing.
handler_cov_subscribe ==
  \E k \in Subscribers :
    \/ Cancel(k[1], k[2], k[3])
    \/ \E confirmed \in Confirmed, lifetime \in Lifetimes :
         \/ Renew(k[1], k[2], k[3], confirmed, lifetime)
         \/ Subscribe(k[1], k[2], k[3], confirmed, lifetime)

----------------------------------------------------------------------------
(* The per-second timer.                                                   *)

Remains(e) == IF e.lifetime >= 1 THEN e.lifetime - 1 ELSE 0
Expires(e) == e.valid /\ e.lifetime # 0 /\ Remains(e) = 0

\* Only a confirmed subscription gives its transaction back.
Expired(e) ==
  [e EXCEPT !.valid = FALSE, !.dest_index = MAX_COV_ADDRESSES, !.lifetime = 0,
            !.invokeID = IF e.issueConfirmedNotifications THEN 0 ELSE @]

handler_cov_timer_seconds ==
  LET expired_subs == {s \in Subs : Expires(COV_Subscriptions[s])}
  IN  /\ COV_Subscriptions' =
           [s \in Subs |-> LET e == COV_Subscriptions[s] IN
              IF s \in expired_subs THEN Expired(e)
              ELSE IF e.valid THEN [e EXCEPT !.lifetime = Remains(e)]
              ELSE e]
      /\ COV_Addresses' = IF expired_subs = {} THEN COV_Addresses
                          ELSE cov_address_remove_unused(COV_Subscriptions')
      /\ TSM_List' = Released({COV_Subscriptions[s].invokeID : s \in
           {t \in expired_subs : COV_Subscriptions[t].issueConfirmedNotifications}})
      /\ due' = due \ expired_subs
      /\ UNCHANGED <<Current_Invoke_ID, config, task, world>> /\ Quiet

----------------------------------------------------------------------------
(* The COV task: handler_cov_fsm(), one subscription per call.             *)

cur == COV_Subscriptions[index]

\* To the next subscription, or to the next pass.
Advance(next) ==
  IF index + 1 = MAX_COV_SUBCRIPTIONS
    THEN index' = 0 /\ cov_task_state' = next
    ELSE index' = index + 1 /\ UNCHANGED cov_task_state

TaskIdle ==
  /\ cov_task_state = "COV_STATE_IDLE"
  /\ index' = 0 /\ cov_task_state' = "COV_STATE_MARK"
  /\ UNCHANGED <<tsmVars, COV_Subscriptions, COV_Addresses, world, due>>

TaskMark ==
  /\ cov_task_state = "COV_STATE_MARK"
  /\ COV_Subscriptions' =
       IF cur.valid /\ cur.object \in changed
         THEN [COV_Subscriptions EXCEPT ![index].send_requested = TRUE]
         ELSE COV_Subscriptions
  /\ Advance("COV_STATE_CLEAR")
  /\ UNCHANGED <<tsmVars, COV_Addresses, world, due>>

\* Mutant: the flag of every subscribed object is cleared.
Mut_Clears(e) == e.valid

Clears(e) == e.valid /\ e.send_requested

TaskClear ==
  /\ cov_task_state = "COV_STATE_CLEAR"
  /\ changed' = IF Clears(cur) THEN changed \ {cur.object} ELSE changed
  /\ Advance("COV_STATE_FREE")
  /\ UNCHANGED <<tsmVars, COV_Subscriptions, COV_Addresses, communication, due>>

\* Mutant: a failed transaction is not given back.
Mut_Settled(id) == tsm_invoke_id_free(TSM_List, id)

Settled(id) == tsm_invoke_id_free(TSM_List, id) \/ tsm_invoke_id_failed(TSM_List, id)

TaskFree ==
  /\ cov_task_state = "COV_STATE_FREE"
  /\ IF /\ cur.valid /\ cur.issueConfirmedNotifications /\ cur.invokeID # 0
        /\ Settled(cur.invokeID)
       THEN /\ TSM_List' = tsm_free_invoke_id(TSM_List, cur.invokeID)
            /\ COV_Subscriptions' = [COV_Subscriptions EXCEPT ![index].invokeID = 0]
       ELSE UNCHANGED <<TSM_List, COV_Subscriptions>>
  /\ Advance("COV_STATE_SEND")
  /\ UNCHANGED <<Current_Invoke_ID, config, COV_Addresses, world, due>> /\ Quiet

MaySend(e) ==
  /\ e.valid /\ e.send_requested
  /\ e.issueConfirmedNotifications =>
       e.invokeID = 0 /\ tsm_transaction_available(TSM_List)

\* cov_send_request(): the value is read when the notification is sent.
cov_send_request ==
  LET r == tsm_next_free_invokeID(TSM_List, Current_Invoke_ID)
  IN  \E ok \in Sends :
        /\ IF cur.issueConfirmedNotifications
             THEN /\ TSM_List' = tsm_set_confirmed_unsegmented_transaction(
                                   r.list, r.invokeID, index)
                  /\ Current_Invoke_ID' = r.current
             ELSE UNCHANGED <<TSM_List, Current_Invoke_ID>>
        /\ COV_Subscriptions' = [COV_Subscriptions EXCEPT
             ![index].invokeID = IF cur.issueConfirmedNotifications
                                   THEN r.invokeID ELSE @,
             ![index].send_requested = ~ ok]
        /\ due' = IF ok THEN due \ {index} ELSE due

TaskSend ==
  /\ cov_task_state = "COV_STATE_SEND"
  /\ IF /\ MaySend(cur)
        /\ communication /\ cov_address_get(cur.dest_index) # NoAddress
       THEN cov_send_request
       ELSE UNCHANGED <<TSM_List, Current_Invoke_ID, COV_Subscriptions, due>>
  /\ Advance("COV_STATE_IDLE")
  /\ UNCHANGED <<config, COV_Addresses, world>> /\ Quiet

handler_cov_fsm == TaskIdle \/ TaskMark \/ TaskClear \/ TaskFree \/ TaskSend

----------------------------------------------------------------------------
(* The rest of the main loop.                                              *)

\* An object flags a change (see CovObjects).
Change(o) ==
  /\ changed' = changed \cup {o}
  /\ due' = due \cup {s \in Subs : COV_Subscriptions[s].valid
                                   /\ COV_Subscriptions[s].object = o}
  /\ UNCHANGED <<tsmVars, COV_Subscriptions, COV_Addresses, task, communication>>

\* The subscriber acknowledges, rejects or aborts a notification.
Reply == (\E id \in InvokeIDs : FreeInvokeID(id)) /\ UNCHANGED covOnly

\* DeviceCommunicationControl, and the end of its time.
SetCommunication ==
  /\ communication' \in Communications
  /\ UNCHANGED <<tsmVars, COV_Subscriptions, COV_Addresses, task, changed, due>>

TsmTimer == Timer /\ UNCHANGED covOnly

CovService ==
  \/ handler_cov_subscribe
  \/ handler_cov_timer_seconds
  \/ handler_cov_fsm
  \/ Reply \/ TsmTimer \/ SetCommunication

CovNext == CovService \/ \E o \in Objects : Change(o)

CovSpec == CovInit /\ [][CovNext]_covVars

----------------------------------------------------------------------------
(* Properties.                                                             *)

\* The state of h_cov.c stays well typed over the transaction table.
CovTypeOK ==
  /\ TsmTypeOK
  /\ COV_Subscriptions \in [Subs -> Subscription]
  /\ COV_Addresses \in [Dests -> Addresses \cup {NoAddress}]
  /\ index \in Subs
  /\ cov_task_state \in {"COV_STATE_IDLE", "COV_STATE_MARK", "COV_STATE_CLEAR",
                         "COV_STATE_FREE", "COV_STATE_SEND"}
  /\ changed \subseteq Objects
  /\ due \subseteq Subs

\* The address table holds exactly the addresses of the valid subscriptions,
\* each once, through every order of subscribing, cancelling and expiring.
AddressesCounted ==
  /\ \A i \in Dests : COV_Addresses[i] # NoAddress <=>
       \E s \in Subs : COV_Subscriptions[s].valid
                       /\ COV_Subscriptions[s].dest_index = i
  /\ \A i, j \in Dests :
       COV_Addresses[i] = COV_Addresses[j] /\ COV_Addresses[i] # NoAddress => i = j

\* A subscriber never has two subscriptions of one process to one object, as
\* long as the address table has had room for every subscriber: with the table
\* full a renewal may take over another subscriber's unaddressed subscription.
ContextsUnique ==
  \A s, t \in Subs : LET e == COV_Subscriptions[s] f == COV_Subscriptions[t] IN
    /\ e.valid /\ f.valid /\ e.object = f.object /\ e.process = f.process
    /\ cov_address_get(e.dest_index) = cov_address_get(f.dest_index)
    => s = t

\* Every transaction in the table is the notification of a valid confirmed
\* subscription that still knows its id: cancelling, renewing, expiring and
\* failing leave no transaction behind that would be retransmitted or would
\* occupy its slot for ever.
TransactionsOwned ==
  \A i \in Slots : TSM_List[i].InvokeID # 0 =>
    LET e == COV_Subscriptions[TSM_List[i].request] IN
      /\ e.valid /\ e.issueConfirmedNotifications
      /\ e.invokeID = TSM_List[i].InvokeID

\* The three tables of subscriptions, addresses and transactions refer to each
\* other rightly after any order of subscribing, cancelling, expiring, renewing
\* and notifying.
SubscriptionsConsistent == AddressesCounted /\ ContextsUnique /\ TransactionsOwned

\* A subscription whose subscriber does not have the current value is marked
\* for sending, or its object is still flagged as changed: no interleaving of
\* changes with the passes of the task loses a change.
NoLostChange ==
  \A s \in due : \/ COV_Subscriptions[s].send_requested
                 \/ COV_Subscriptions[s].object \in changed

\* Every change is eventually reported (or the subscription ends), however
\* often the object changes and whether or not notifications are confirmed.
ChangesReported == \A s \in Subs : s \in due ~> s \notin due
=============================================================================
