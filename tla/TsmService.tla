---------------------------- MODULE TsmService ----------------------------
(***************************************************************************)
(* What the transaction state machine of basic/tsm/tsm.c promises to the   *)
(* services that use it, without slots, timers or an id counter: a partial *)
(* map from invoke ids to requests.                                        *)
(*                                                                         *)
(*   - an id that is handed out was not in use;                            *)
(*   - at most Capacity ids are in use at a time;                          *)
(*   - only a request that still awaits its confirmation is retransmitted, *)
(*     with the destination and the bytes that were registered for its id, *)
(*     and at most `limit' times;                                          *)
(*   - a request is given up only after it was retransmitted that often,   *)
(*     and its id then stays reserved until somebody frees it.             *)
(***************************************************************************)
EXTENDS Naturals, FiniteSets

CONSTANTS InvokeIDs,    \* the ids a request can carry
          Capacity,     \* how many ids may be in use at a time
          Limits,       \* the values the number of retries can be set to
          Requests      \* destination, NPDU data and APDU of a request

VARIABLES pending,      \* invoke id -> what the service knows of it
          limit,        \* the number of retries in force
          sent,         \* <<id, request>> retransmitted by the last step
          expired       \* ids reported to the time-out callback by it

vars == <<pending, limit, sent, expired>>

Unused      == [phase |-> "unused"]
Reserved    == [phase |-> "reserved"]
Awaiting(r, n) == [phase |-> "awaiting", request |-> r, retries |-> n]

InUse    == {id \in InvokeIDs : pending[id] # Unused}
Waiting  == {id \in InvokeIDs : pending[id].phase = "awaiting"}

Quiet    == sent' = {} /\ expired' = {}

Init == /\ pending = [id \in InvokeIDs |-> Unused]
        /\ limit \in Limits
        /\ sent = {} /\ expired = {}

\* A fresh id is reserved for a caller, while there is room.
Reserve(id) ==
  /\ Cardinality(InUse) < Capacity
  /\ pending[id] = Unused
  /\ pending' = [pending EXCEPT ![id] = Reserved]
  /\ UNCHANGED limit /\ Quiet

\* The caller registers what it sends under the id.
Start(id, r) ==
  /\ pending[id] = Reserved
  /\ pending' = [pending EXCEPT ![id] = Awaiting(r, 0)]
  /\ UNCHANGED limit /\ Quiet

\* Time passes: some waiting requests are sent again, some are given up.
Tick(again, failed) ==
  /\ again \cap failed = {}
  /\ \A id \in again  : pending[id].retries < limit
  /\ \A id \in failed : pending[id].retries >= limit
  /\ pending' = [id \in InvokeIDs |->
                   IF id \in again
                     THEN Awaiting(pending[id].request, pending[id].retries + 1)
                     ELSE IF id \in failed THEN Reserved ELSE pending[id]]
  /\ sent' = {<<id, pending[id].request>> : id \in again}
  /\ expired' = failed
  /\ UNCHANGED limit

\* The confirmation came, or the caller gave up.
Release(id) ==
  /\ pending' = [pending EXCEPT ![id] = Unused]
  /\ UNCHANGED limit /\ Quiet

SetLimit(n) == limit' = n /\ UNCHANGED pending /\ Quiet

Next ==
  \/ \E id \in InvokeIDs : Reserve(id) \/ Release(id)
  \/ \E id \in InvokeIDs, r \in Requests : Start(id, r)
  \/ \E again, failed \in SUBSET Waiting : Tick(again, failed)
  \/ \E n \in Limits : SetLimit(n)
  \/ UNCHANGED <<pending, limit>> /\ Quiet

Spec == Init /\ [][Next]_vars
=============================================================================
