----------------------------- MODULE RpClient ------------------------------
(***************************************************************************)
(* The Rust client: connecting to devices, reading their properties and    *)
(* discovering devices (bacnet/src/lib.rs and whois.rs), on top of         *)
(* ReadProperty requests (basic/service/s_rp.c), the dispatch of replies   *)
(* (h_apdu.c) and the transaction table (Tsm).                             *)
(*                                                                         *)
(* The library is not thread-safe (whois.rs:9), so there is one client     *)
(* thread.  The network loses, delays, reorders and duplicates datagrams:  *)
(* a request, once sent, may be answered any number of times, differently  *)
(* each time.  A datagram does not outlive a whole turn of the invoke id   *)
(* counter (assumption; see Sent).  The client never calls the TSM timer,  *)
(* so nothing is retransmitted.                                            *)
(***************************************************************************)
EXTENDS Tsm

CONSTANTS Devices, Addresses,
          Home,        \* the address each device is built with
          IAms,        \* <<device, address>>: the I-Am messages devices send
          NoAddress, NoTarget,
          MAX_POLLS    \* polls by which the 3 s of read_prop_at() are over

ASSUME RpConstants ==
  /\ Home \in [Devices -> Addresses]
  /\ \A d, e \in Devices : Home[d] = Home[e] => d = e
  /\ IAms \subseteq Devices \X Addresses
  /\ NoAddress \notin Addresses
  /\ MAX_POLLS \in Nat \ {0}

VARIABLES bound,       \* what address_get_by_device() finds
          target,      \* TARGET_ADDRESSES
          client,      \* the client thread
          result,      \* what its read returned
          requests,    \* ReadProperty requests that were sent
          abandoned,   \* history: ids of unanswered reads that ran out of time
          initialised, \* BACNET_STACK_INIT was called
          i_am,        \* the installed I-Am handler
          socket,      \* the BACnet/IP socket is open
          discovered   \* DISCOVERED_DEVICES

stack  == <<initialised, i_am, socket>>
rpVars == <<tsmVars, bound, target, client, result, requests, abandoned,
            stack, discovered>>

Request == [to : Addresses, id : InvokeIDs]

\* Result<BACnetValue>: a value names the answer it was decoded from.
Value(m)   == [outcome |-> "Ok", from |-> m.to, id |-> m.id]
Failure(e) == [outcome |-> e, from |-> NoAddress, id |-> 0]

NoValue     == Failure("None")
NoRequestID == [id |-> 0, status |-> "None"]

Outcomes == {"None", "Ok", "FailedToDecodeData", "NoValueWasExtracted",
             "BacnetError", "TsmTimeout", "ApduTimeout"}
Results  == [outcome : Outcomes, from : Addresses \cup {NoAddress},
             id : 0 .. MAX_INVOKE_ID]

TargetDevice ==
  [addr    : Addresses,
   request : [id : 0 .. MAX_INVOKE_ID,
              status : {"None", "Ongoing", "Done", "Error"}],
   value   : Results]

ASSUME RpTargets == NoTarget \notin TargetDevice

Idle == [phase |-> "idle"]

RpInit ==
  /\ TsmInit
  /\ bound = [d \in Devices |-> NoAddress]
  /\ target = [d \in Devices |-> NoTarget]
  /\ client = Idle /\ result = NoValue
  /\ requests = {} /\ abandoned = {}
  /\ initialised = FALSE /\ i_am = "none" /\ socket = FALSE
  /\ discovered = {}

----------------------------------------------------------------------------
(* Requests (s_rp.c).                                                      *)

\* Mutant: the id of a request that does not fit is not given back.
Mut_Send_Read_Property_Request(d, p, fits) ==
  LET r == tsm_next_free_invokeID(TSM_List, Current_Invoke_ID)
  IN  IF bound[d] = NoAddress
        THEN [list |-> TSM_List, current |-> Current_Invoke_ID, invokeID |-> 0]
      ELSE IF ~ fits THEN [r EXCEPT !.invokeID = 0]
      ELSE [r EXCEPT !.list =
              tsm_set_confirmed_unsegmented_transaction(@, r.invokeID, p)]

\* `fits': the request is shorter than the max_apdu of the binding.  With an
\* id 0 (no free slot) both calls on the table leave it as it is.
Send_Read_Property_Request(d, p, fits) ==
  LET r == tsm_next_free_invokeID(TSM_List, Current_Invoke_ID)
  IN  IF bound[d] = NoAddress
        THEN [list |-> TSM_List, current |-> Current_Invoke_ID, invokeID |-> 0]
      ELSE IF ~ fits
        THEN [r EXCEPT !.list = IF r.invokeID = 0 THEN @
                                ELSE tsm_free_invoke_id(@, r.invokeID),
                       !.invokeID = 0]
      ELSE [r EXCEPT !.list =
              tsm_set_confirmed_unsegmented_transaction(@, r.invokeID, p)]

\* The requests in the network after one more.  Nothing that carries the id
\* of an earlier use is left when the id is used again.
Sent(d, id) ==
  {m \in requests : m.id # id} \cup
    (IF socket /\ id # 0 THEN {[to |-> bound[d], id |-> id]}
                         ELSE {})

----------------------------------------------------------------------------
(* Replies (h_apdu.c and the handlers of lib.rs), as functions of the      *)
(* devices table.                                                          *)

find_matching_device(src, id) ==
  {d \in Devices : /\ target[d] # NoTarget
                   /\ target[d].addr = src
                   /\ target[d].request.status # "None"
                   /\ target[d].request.id = id}

\* Mutant: only the status is set when the value cannot be decoded.
Mut_my_readprop_ack_handler(t, m, decodes) ==
  [t EXCEPT !.value = IF decodes THEN Value(m) ELSE @,
            !.request = [id |-> m.id, status |-> "Done"]]

my_readprop_ack_handler(t, m, decodes) ==
  [t EXCEPT !.value = IF decodes THEN Value(m) ELSE Failure("FailedToDecodeData"),
            !.request = [id |-> m.id, status |-> "Done"]]

\* Mutant: an error is logged and forgotten.
Mut_my_error_handler(t, m) == t

\* my_error_handler(), my_abort_handler() and my_reject_handler().
my_error_handler(t, m) == [t EXCEPT !.request = [id |-> m.id, status |-> "Error"]]

Replies == {"value", "undecodable", "error"}

\* What the handler of a reply makes of the matching device.
Handled(t, m, reply) ==
  IF reply = "error" THEN my_error_handler(t, m)
                     ELSE my_readprop_ack_handler(t, m, reply = "value")

\* Complex-ACK, Error, Reject or Abort: the handler, then the id is freed.
\* With two matching devices the map decides which one is handled.
Reply ==
  \E m \in requests, reply \in Replies :
    /\ LET matching == find_matching_device(m.to, m.id)
       IN  IF matching = {} THEN UNCHANGED target
           ELSE \E d \in matching :
                  target' = [target EXCEPT ![d] = Handled(@, m, reply)]
    /\ TSM_List' = tsm_free_invoke_id(TSM_List, m.id)
    /\ abandoned' = abandoned \ {m.id}
    /\ UNCHANGED <<bound, discovered>>

\* handler_i_am_bind() moves a binding that exists; i_am_handler() of the
\* discovery collects the device.
IAm ==
  \E msg \in IAms :
    /\ bound' = IF i_am = "bind" /\ bound[msg[1]] # NoAddress
                THEN [bound EXCEPT ![msg[1]] = msg[2]] ELSE bound
    /\ discovered' = IF i_am = "collect" THEN discovered \cup {msg}
                     ELSE discovered
    /\ UNCHANGED <<TSM_List, target, abandoned>>

\* One bip_receive() with the npdu_handler() of what it returned.
bip_receive ==
  \/ UNCHANGED <<TSM_List, bound, target, abandoned, discovered>>
  \/ socket /\ (Reply \/ IAm)

----------------------------------------------------------------------------
(* The client's operations.                                                *)

Init_service_handlers ==
  /\ initialised' = TRUE
  /\ IF initialised THEN UNCHANGED <<i_am, socket>>
                    ELSE i_am' = "bind" /\ socket' = TRUE

\* address_add() and address_bind_request() succeed: the cache has room.
Connect(d) ==
  /\ client.phase = "idle"
  /\ Init_service_handlers
  /\ bound' = [bound EXCEPT ![d] = Home[d]]
  /\ target' = [target EXCEPT ![d] =
                  [addr |-> Home[d], request |-> NoRequestID, value |-> NoValue]]
  /\ UNCHANGED <<tsmVars, client, result, requests, abandoned, discovered>>

\* The device stays in TARGET_ADDRESSES.
Disconnect(d) ==
  /\ client.phase = "idle"
  /\ bound' = [bound EXCEPT ![d] = NoAddress]
  /\ UNCHANGED <<tsmVars, target, client, result, requests, abandoned, stack,
                 discovered>>

\* read_prop_at() up to its loop.
ReadProp(d, p, fits) ==
  /\ client.phase = "idle"
  /\ target[d] # NoTarget
  /\ LET s == Send_Read_Property_Request(d, p, fits)
     IN  /\ TSM_List' = s.list
         /\ Current_Invoke_ID' = s.current
         /\ requests' = Sent(d, s.invokeID)
         /\ abandoned' = abandoned \ {s.invokeID}
         /\ target' = [target EXCEPT ![d].request =
                                [id |-> s.invokeID, status |-> "Ongoing"]]
         /\ client' = [phase |-> "receive", device |-> d,
                       id |-> s.invokeID, polls |-> 0]
  /\ result' = NoValue
  /\ UNCHANGED <<config, sent, expired, bound, stack, discovered>>

Receive ==
  /\ client.phase = "receive"
  /\ bip_receive
  /\ client' = [client EXCEPT !.phase = "check", !.polls = Min({@ + 1, MAX_POLLS})]
  /\ UNCHANGED <<Current_Invoke_ID, config, sent, expired, result, requests,
                 stack>>

Return(r) == client' = Idle /\ result' = r

\* The id is free: the hand-over through TARGET_ADDRESSES.
Take(d) ==
  LET t == target[d]
  IN  /\ target' = [target EXCEPT ![d].request = NoRequestID,
                      ![d].value = IF t.request.status = "Done" THEN NoValue ELSE @]
      /\ CASE t.request.status = "Done" ->
                Return(IF t.value = NoValue THEN Failure("NoValueWasExtracted")
                                            ELSE t.value)
           [] t.request.status = "Error" -> Return(Failure("BacnetError"))
           [] OTHER -> client' = [client EXCEPT !.phase = "panicked"]
                       /\ UNCHANGED result

\* Mutant: the loop only ends with the transaction.
Mut_MayGoOn == [again |-> TRUE, giveUp |-> FALSE]

\* The 3 s may be over at any poll, and are at the MAX_POLLSth.
MayGoOn == [again |-> client.polls < MAX_POLLS, giveUp |-> TRUE]

Check ==
  /\ client.phase = "check"
  /\ IF tsm_invoke_id_free(TSM_List, client.id)
       THEN Take(client.device) /\ UNCHANGED abandoned
     ELSE /\ UNCHANGED target
          /\ IF tsm_invoke_id_failed(TSM_List, client.id)
               THEN Return(Failure("TsmTimeout")) /\ UNCHANGED abandoned
             ELSE \/ /\ MayGoOn.giveUp /\ Return(Failure("ApduTimeout"))
                     /\ abandoned' = abandoned \cup {client.id}
                  \/ /\ MayGoOn.again
                     /\ client' = [client EXCEPT !.phase = "receive"]
                     /\ UNCHANGED <<result, abandoned>>
  /\ UNCHANGED <<tsmVars, bound, requests, stack, discovered>>

\* whois() up to its loop: forgets every binding, takes over the I-Am handler.
StartWhoIs ==
  /\ client.phase = "idle"
  /\ bound' = [d \in Devices |-> NoAddress]
  /\ i_am' = "collect" /\ socket' = TRUE
  /\ client' = [phase |-> "whois"]
  /\ UNCHANGED <<tsmVars, target, result, requests, abandoned, initialised,
                 discovered>>

PollWhoIs ==
  /\ client.phase = "whois"
  /\ bip_receive
  /\ UNCHANGED <<Current_Invoke_ID, config, sent, expired, client, result,
                 requests, stack>>

\* bip_cleanup(), and the discovered devices are drained.
FinishWhoIs ==
  /\ client.phase = "whois"
  /\ socket' = FALSE
  /\ discovered' = {}
  /\ client' = Idle
  /\ UNCHANGED <<tsmVars, bound, target, result, requests, abandoned,
                 initialised, i_am>>

RpNext ==
  \/ \E d \in Devices : Connect(d) \/ Disconnect(d)
  \/ \E d \in Devices, p \in Requests, fits \in BOOLEAN : ReadProp(d, p, fits)
  \/ Receive \/ Check
  \/ StartWhoIs \/ PollWhoIs \/ FinishWhoIs

RpSpec == RpInit /\ [][RpNext]_rpVars

\* The thread keeps running: bip_receive() returns after 100 ms at most.
RpFairSpec == RpSpec /\ WF_rpVars(Receive) /\ WF_rpVars(Check)

----------------------------------------------------------------------------
(* Properties.                                                             *)

Reading == client.phase \in {"receive", "check"}

\* The state of the client and of the transaction table under it stays well
\* typed.
RpTypeOK ==
  /\ TsmTypeOK
  /\ bound \in [Devices -> Addresses \cup {NoAddress}]
  /\ target \in [Devices -> TargetDevice \cup {NoTarget}]
  /\ client \in {Idle, [phase |-> "whois"]} \cup
       [phase : {"receive", "check", "panicked"}, device : Devices,
        id : 0 .. MAX_INVOKE_ID, polls : 0 .. MAX_POLLS]
  /\ result \in Results
  /\ requests \subseteq Request
  /\ abandoned \subseteq InvokeIDs
  /\ i_am \in {"none", "bind", "collect"}
  /\ discovered \subseteq IAms

\* Whatever answers arrive late, twice, out of order or undecodable, and
\* whatever an earlier read left in TARGET_ADDRESSES, a value returned by
\* read_prop_at() comes from the device it asked and answers its own request.
ReadReturnsOwnAnswer ==
  [][Reading /\ client'.phase = "idle" /\ result'.outcome = "Ok"
       => /\ result'.id = client.id
          /\ result'.from = target[client.device].addr]_rpVars

\* read_prop_at() panics only when it got no invoke id (the table is full),
\* or when its request went to an address other than the one TARGET_ADDRESSES
\* holds; late, duplicated and undecodable replies never make it panic.
PanicCauses ==
  client.phase = "panicked" =>
    \/ client.id = 0
    \/ \E m \in requests :
         m.id = client.id /\ m.to # target[client.device].addr

\* A transaction slot is in use only for the read in progress or for one that
\* gave up waiting: no path through a request leaks its slot.
SlotsAccounted ==
  \A i \in Slots :
    TSM_List[i].InvokeID # 0 =>
      \/ TSM_List[i].InvokeID \in abandoned
      \/ Reading /\ TSM_List[i].InvokeID = client.id

\* Every read ends, although nobody may answer.
ReadsEnd == Reading ~> ~ Reading
=============================================================================
