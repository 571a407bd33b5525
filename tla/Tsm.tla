-------------------------------- MODULE Tsm --------------------------------
(***************************************************************************)
(* The transaction state machine of the stack: basic/tsm/tsm.c, with the   *)
(* APDU time-out and retry settings of basic/service/h_apdu.c.             *)
(*                                                                         *)
(* TSM_List is a fixed table.  A slot with InvokeID 0 is unused; a slot    *)
(* with an id and state IDLE is reserved (its request is not sent yet) or  *)
(* failed (every retry timed out); a slot in AWAIT_CONFIRMATION is         *)
(* retransmitted from the timer until it is freed or fails.  The table is  *)
(* used by one thread, so each function of the API is one action.          *)
(***************************************************************************)
EXTENDS Naturals, FiniteSets, FiniteSetsExt

CONSTANTS MAX_TSM_TRANSACTIONS, \* slots of the table (255 in config.h)
          MAX_INVOKE_ID,        \* largest invoke id (255: a uint8_t)
          Timeouts,             \* values apdu_timeout_set() is called with
          Retries,              \* values apdu_retries_set() is called with
          Ticks,                \* milliseconds between two timer calls
          Requests,             \* destination, NPDU data and APDU, together
          NoRequest             \* what a slot of the zeroed table holds

ASSUME TsmConstants ==
  /\ MAX_TSM_TRANSACTIONS \in Nat \ {0}
  /\ MAX_INVOKE_ID \in Nat \ {0}
  /\ MAX_TSM_TRANSACTIONS <= MAX_INVOKE_ID
  /\ Timeouts \subseteq Nat
  /\ Retries \subseteq Nat
  /\ Ticks \subseteq Nat \ {0}
  /\ NoRequest \notin Requests

VARIABLES TSM_List, Current_Invoke_ID,
          Timeout_Milliseconds, Number_Of_Retries,
          sent,       \* <<id, request>> given to datalink_send_pdu() by the
                      \* last step of the timer
          expired     \* ids given to Timeout_Function by it

config  == <<Timeout_Milliseconds, Number_Of_Retries>>
tsmVars == <<TSM_List, Current_Invoke_ID, config, sent, expired>>

Slots     == 0 .. MAX_TSM_TRANSACTIONS - 1
InvokeIDs == 1 .. MAX_INVOKE_ID

IDLE  == "TSM_STATE_IDLE"
AWAIT == "TSM_STATE_AWAIT_CONFIRMATION"

Slot == [InvokeID : 0 .. MAX_INVOKE_ID, state : {IDLE, AWAIT},
         RetryCount : Nat, RequestTimer : Nat,
         request : Requests \cup {NoRequest}]

----------------------------------------------------------------------------
(* Look-ups.  Like the code, they answer MAX_TSM_TRANSACTIONS for "none".  *)

tsm_find_invokeID_index(list, id) ==
  LET found == {i \in Slots : list[i].InvokeID = id}
  IN  IF found = {} THEN MAX_TSM_TRANSACTIONS ELSE Min(found)

tsm_find_first_free_index(list) == tsm_find_invokeID_index(list, 0)

\* Mutant: takes an idle slot for a free one.
Mut_transaction_available(list) == \E i \in Slots : list[i].state = IDLE

tsm_transaction_available(list) == \E i \in Slots : list[i].InvokeID = 0

tsm_transaction_idle_count(list) ==
  Cardinality({i \in Slots : list[i].InvokeID = 0 /\ list[i].state = IDLE})

tsm_invoke_id_free(list, id) ==
  tsm_find_invokeID_index(list, id) = MAX_TSM_TRANSACTIONS

tsm_invoke_id_failed(list, id) ==
  LET index == tsm_find_invokeID_index(list, id)
  IN  index \in Slots /\ list[index].state = IDLE

----------------------------------------------------------------------------
(* Table operations, as functions of the table, so that the services that  *)
(* call several of them in one go can compose them.                        *)

\* Mutant: the counter wraps without skipping zero.
Mut_NextInvokeID(id) == IF id = MAX_INVOKE_ID THEN 0 ELSE id + 1

\* Current_Invoke_ID++ on a uint8_t, skipping zero.
NextInvokeID(id) == IF id = MAX_INVOKE_ID THEN 1 ELSE id + 1

UnusedIDs(list) == {id \in InvokeIDs : tsm_invoke_id_free(list, id)}

\* Mutant: the counter's value is taken without looking whether it is in use.
Mut_FirstUnusedID(list, current) == current

\* The id at which the while loop of tsm_next_free_invokeID() stops: the
\* first unused one at or after `current', in cyclic order.
FirstUnusedID(list, current) ==
  LET ahead == {id \in UnusedIDs(list) : id >= current}
  IN  IF ahead # {} THEN Min(ahead) ELSE Min(UnusedIDs(list))

ReservedSlot(e, id) ==
  [e EXCEPT !.InvokeID = id, !.state = IDLE, !.RequestTimer = Timeout_Milliseconds]

\* The table, the counter and the id returned (0: no room).
tsm_next_free_invokeID(list, current) ==
  IF ~ tsm_transaction_available(list)
    THEN [list |-> list, current |-> current, invokeID |-> 0]
    ELSE LET id == FirstUnusedID(list, current)
         IN  [list     |-> [list EXCEPT ![tsm_find_first_free_index(list)] =
                                              ReservedSlot(@, id)],
              current  |-> NextInvokeID(id),
              invokeID |-> id]

\* Mutant: the retry count of the slot's previous user is kept.
Mut_set_transaction(list, id, r) ==
  LET index == tsm_find_invokeID_index(list, id)
  IN  IF id = 0 \/ index \notin Slots THEN list
      ELSE [list EXCEPT ![index] =
              [@ EXCEPT !.state = AWAIT,
                        !.RequestTimer = Timeout_Milliseconds, !.request = r]]

tsm_set_confirmed_unsegmented_transaction(list, id, r) ==
  LET index == tsm_find_invokeID_index(list, id)
  IN  IF id = 0 \/ index \notin Slots THEN list
      ELSE [list EXCEPT ![index] =
              [@ EXCEPT !.state = AWAIT, !.RetryCount = 0,
                        !.RequestTimer = Timeout_Milliseconds, !.request = r]]

\* Mutant: gives the id back and leaves the state.
Mut_free_invoke_id(list, id) ==
  LET index == tsm_find_invokeID_index(list, id)
  IN  IF index \notin Slots THEN list
      ELSE [list EXCEPT ![index].InvokeID = 0]

tsm_free_invoke_id(list, id) ==
  LET index == tsm_find_invokeID_index(list, id)
  IN  IF index \notin Slots THEN list
      ELSE [list EXCEPT ![index] = [@ EXCEPT !.state = IDLE, !.InvokeID = 0]]

\* What tsm_timer_milliseconds() makes of one slot.
Remaining(e, ms) == IF e.RequestTimer > ms THEN e.RequestTimer - ms ELSE 0
TimesOut(e, ms)  == e.state = AWAIT /\ Remaining(e, ms) = 0
Resends(e, ms)   == TimesOut(e, ms) /\ e.RetryCount < Number_Of_Retries
Fails(e, ms)     == TimesOut(e, ms) /\ e.RetryCount >= Number_Of_Retries

ResentSlot(e) ==
  [e EXCEPT !.RequestTimer = Timeout_Milliseconds, !.RetryCount = e.RetryCount + 1]

\* Mutant: a retransmission is not counted.
Mut_TimerSlot(e, ms) ==
  IF Resends(e, ms)
    THEN [e EXCEPT !.RequestTimer = Timeout_Milliseconds]
  ELSE IF Fails(e, ms)
    THEN [e EXCEPT !.RequestTimer = 0, !.state = IDLE]
  ELSE IF e.state = AWAIT
    THEN [e EXCEPT !.RequestTimer = Remaining(e, ms)]
  ELSE e

TimerSlot(e, ms) ==
  IF Resends(e, ms)
    THEN ResentSlot(e)
  ELSE IF Fails(e, ms)
    THEN [e EXCEPT !.RequestTimer = 0, !.state = IDLE]
  ELSE IF e.state = AWAIT
    THEN [e EXCEPT !.RequestTimer = Remaining(e, ms)]
  ELSE e

----------------------------------------------------------------------------
(* The specification: any sequence of calls a client of the API can make.  *)

TsmInit ==
  /\ TSM_List = [i \in Slots |-> [InvokeID |-> 0, state |-> IDLE,
                                  RetryCount |-> 0, RequestTimer |-> 0,
                                  request |-> NoRequest]]
  /\ Current_Invoke_ID = 1
  /\ Timeout_Milliseconds \in Timeouts
  /\ Number_Of_Retries \in Retries
  /\ sent = {} /\ expired = {}

Quiet == sent' = {} /\ expired' = {}

NextFreeInvokeID ==
  LET r == tsm_next_free_invokeID(TSM_List, Current_Invoke_ID)
  IN  /\ TSM_List' = r.list
      /\ Current_Invoke_ID' = r.current
      /\ UNCHANGED config /\ Quiet

\* Every caller registers its request right after it got the id, so never
\* while the id already awaits a confirmation.
SetTransaction(id, r) ==
  /\ tsm_invoke_id_failed(TSM_List, id)
  /\ TSM_List' = tsm_set_confirmed_unsegmented_transaction(TSM_List, id, r)
  /\ UNCHANGED <<Current_Invoke_ID, config>> /\ Quiet

\* Called for every reply that carries an id, whoever sent it, and by callers
\* that give up; id 0 is what a Segment-ACK frees.
FreeInvokeID(id) ==
  /\ TSM_List' = tsm_free_invoke_id(TSM_List, id)
  /\ UNCHANGED <<Current_Invoke_ID, config>> /\ Quiet

TimerMilliseconds(ms) ==
  /\ TSM_List' = [i \in Slots |-> TimerSlot(TSM_List[i], ms)]
  /\ sent' = {<<TSM_List[i].InvokeID, TSM_List[i].request>> :
                i \in {j \in Slots : Resends(TSM_List[j], ms)}}
  /\ expired' = {TSM_List[i].InvokeID :
                i \in {j \in Slots : Fails(TSM_List[j], ms)}} \ {0}
  /\ UNCHANGED <<Current_Invoke_ID, config>>

InvokeIDSet(id) ==
  /\ Current_Invoke_ID' = IF id = 0 THEN 1 ELSE id
  /\ UNCHANGED <<TSM_List, config>> /\ Quiet

ApduTimeoutSet(ms) ==
  /\ Timeout_Milliseconds' = ms
  /\ UNCHANGED <<TSM_List, Current_Invoke_ID, Number_Of_Retries>> /\ Quiet

ApduRetriesSet(n) ==
  /\ Number_Of_Retries' = n
  /\ UNCHANGED <<TSM_List, Current_Invoke_ID, Timeout_Milliseconds>> /\ Quiet

Timer == \E ms \in Ticks : TimerMilliseconds(ms)

TsmNext ==
  \/ NextFreeInvokeID
  \/ \E id \in InvokeIDs, r \in Requests : SetTransaction(id, r)
  \/ \E id \in 0 .. MAX_INVOKE_ID : FreeInvokeID(id)
  \/ Timer
  \/ \E id \in 0 .. MAX_INVOKE_ID : InvokeIDSet(id)
  \/ \E ms \in Timeouts : ApduTimeoutSet(ms)
  \/ \E n \in Retries : ApduRetriesSet(n)

TsmSpec == TsmInit /\ [][TsmNext]_tsmVars

\* The main loop of every application calls the timer for ever.
TsmFairSpec == TsmSpec /\ WF_tsmVars(Timer)

----------------------------------------------------------------------------
(* Properties.                                                             *)

\* The state of tsm.c stays well typed; the id counter never becomes 0.
TsmTypeOK ==
  /\ TSM_List \in [Slots -> Slot]
  /\ Current_Invoke_ID \in InvokeIDs
  /\ Timeout_Milliseconds \in Timeouts
  /\ Number_Of_Retries \in Retries

\* Two slots never hold the same invoke id, whatever the counter is set to
\* and however it wraps: tsm_find_invokeID_index() finds the only one.
UniqueInvokeIDs ==
  \A i, j \in Slots :
    TSM_List[i].InvokeID = TSM_List[j].InvokeID /\ TSM_List[i].InvokeID # 0
      => i = j

\* A slot whose id was given back is not awaiting anything, so the timer
\* never retransmits for it, and tsm_transaction_idle_count() counts exactly
\* the slots tsm_transaction_available() looks for.
UnusedIsIdle ==
  \A i \in Slots : TSM_List[i].InvokeID = 0 => TSM_List[i].state = IDLE

FreedSlotsAreIdle ==
  /\ UnusedIsIdle
  /\ tsm_transaction_available(TSM_List)
       <=> tsm_transaction_idle_count(TSM_List) > 0

\* While a slot is free some id is unused, so that the search loop of
\* tsm_next_free_invokeID() ends.
SearchEnds == tsm_transaction_available(TSM_List) => UnusedIDs(TSM_List) # {}

\* A request that was sent is eventually confirmed, freed or failed: the
\* timer does not retransmit it for ever.
RequestsSettle ==
  \A i \in Slots : TSM_List[i].state = AWAIT ~> TSM_List[i].state = IDLE

\* What a slot table shows of an invoke id.
PendingIn(list, id) ==
  LET index == tsm_find_invokeID_index(list, id)
  IN  IF index \notin Slots THEN [phase |-> "unused"]
      ELSE IF list[index].state = IDLE THEN [phase |-> "reserved"]
      ELSE [phase |-> "awaiting", request |-> list[index].request,
            retries |-> list[index].RetryCount]

Service == INSTANCE TsmService
             WITH pending <- [id \in InvokeIDs |-> PendingIn(TSM_List, id)],
                  limit <- Number_Of_Retries,
                  Capacity <- MAX_TSM_TRANSACTIONS,
                  Limits <- Retries

\* The slot table with its timers and its wrapping id counter implements the
\* transaction service: no id is handed out twice, nothing is retransmitted
\* after its id was freed or more often than the retry limit allows, and
\* always with the bytes registered for that id.
ImplementsService == Service!Spec
=============================================================================
