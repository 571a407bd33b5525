-------------------------------- MODULE Bbmd --------------------------------
(***************************************************************************)
(* Broadcasts over several BACnet/IP subnets: the BBMDs that forward them  *)
(* (basic/bbmd/h_bbmd.c), their foreign device tables (datalink/bvlc.c)    *)
(* and the registration of foreign devices (datalink/dlenv.c).             *)
(*                                                                         *)
(* Every node runs bvlc_bbmd_enabled_handler(); a node with peers in its   *)
(* Broadcast-Distribution-Table is a BBMD.  UDP reorders and loses, and a  *)
(* socket hears what it broadcasts itself (ports/linux binds INADDR_ANY).  *)
(* NAT handling is off and the Broadcast-Distribution-Tables are those     *)
(* that dlenv.c has read from the environment.  The timers of all nodes    *)
(* advance together; GRACE stands for the 30 seconds of bvlc.c, and a      *)
(* registration takes less than that to arrive.                            *)
(***************************************************************************)
EXTENDS Naturals, FiniteSets, Bags

CONSTANTS Nodes,
          Subnet,          \* the subnet of each node
          BBMD_Table,      \* node -> set of [dest, unicast] entries
          Remote_BBMD,     \* foreign device -> the BBMD it registers with
          TTL,             \* BBMD_TTL_Seconds of the foreign devices
          GRACE,
          MAX_SECONDS,     \* UINT16_MAX
          MAX_FD_ENTRIES,
          Senders,         \* nodes whose higher layers send broadcasts
          IDs, NoNode,     \* the broadcasts they send
          MAX_FAULTS       \* losses, deletions and stops

Foreign == DOMAIN Remote_BBMD

ASSUME BbmdConstants ==
  /\ BBMD_Table \in [Nodes -> SUBSET [dest : Nodes, unicast : BOOLEAN]]
  /\ Foreign \subseteq Nodes /\ \A f \in Foreign : Remote_BBMD[f] \in Nodes \ Foreign
  /\ TTL \in Nat \ {0} /\ GRACE \in Nat \ {0} /\ MAX_SECONDS \in Nat
  /\ GRACE < MAX_SECONDS /\ TTL <= MAX_SECONDS
  /\ MAX_FD_ENTRIES \in Nat \ {0} /\ MAX_FAULTS \in Nat
  /\ Senders \subseteq Nodes /\ NoNode \notin Nodes

VARIABLES FD_Table,      \* node -> device -> ttl_seconds_remaining; 0 is no entry
          BBMD_Timer,    \* BBMD_Timer_Seconds of each foreign device
          alive,         \* foreign devices that are running
          regs,          \* Register-Foreign-Device messages in flight
          net,           \* the other messages in flight
          origin,        \* who sent each broadcast
          heard,         \* how often each node's higher layers got it
          entitled,      \* history: who has to get it
          settled,       \* history: devices registered and not disturbed since
          faults

tables   == <<FD_Table, BBMD_Timer, alive, regs, settled>>
traffic  == <<net, origin, heard>>
bbmdVars == <<tables, traffic, entitled, faults>>

Functions == {"ORIGINAL_BROADCAST", "FORWARDED", "DISTRIBUTE"}

\* src: the address a Forwarded-NPDU carries.  intact: the payload is the
\* NPDU; npdu_handler() drops anything else by its version octet.
Message == [func : Functions, from : Nodes, to : Nodes, src : Nodes,
            id : IDs, intact : BOOLEAN]

Msg(func, from, to, src, m) ==
  [func |-> func, from |-> from, to |-> to, src |-> src,
   id |-> m.id, intact |-> m.intact]

NoMessages == [m \in {} |-> 0]

----------------------------------------------------------------------------
(* What a node sends on behalf of a broadcast m with the source src, as    *)
(* bags of messages.                                                       *)

Neighbours(n) == {k \in Nodes : Subnet[k] = Subnet[n]}

LocalBroadcast(n, func, src, m) ==
  SetToBag({Msg(func, n, k, src, m) : k \in Neighbours(n)})

bbmd_forward_npdu(n, src, m) == LocalBroadcast(n, "FORWARDED", src, m)

\* The destination of an entry: its BBMD, or everybody on its subnet.
Addressed(e) == IF e.unicast THEN {e.dest} ELSE Neighbours(e.dest)

\* One message for every entry that it is addressed by.
bbmd_bdt_forward_npdu(n, src, m) ==
  LET Sent(e) == IF e.unicast /\ e.dest \in {n, src} THEN {}
                 ELSE {Msg("FORWARDED", n, k, src, m) : k \in Addressed(e)}
  IN  [msg \in UNION {Sent(e) : e \in BBMD_Table[n]} |->
         Cardinality({e \in BBMD_Table[n] : msg \in Sent(e)})]

bbmd_fdt_forward_npdu(n, src, m) ==
  SetToBag({Msg("FORWARDED", n, f, src, m) :
              f \in {d \in Nodes \ {n, src} : FD_Table[n][d] > 0}})

\* Mutant: the node itself counts as a peer.
Mut_bbmd_bdt_member_mask_is_unicast(n, addr) ==
  [dest |-> addr, unicast |-> TRUE] \in BBMD_Table[n]

bbmd_bdt_member_mask_is_unicast(n, addr) ==
  addr # n /\ [dest |-> addr, unicast |-> TRUE] \in BBMD_Table[n]

----------------------------------------------------------------------------
(* The foreign device table.                                               *)

Registered(f) == FD_Table[Remote_BBMD[f]][f] > 0

Full(table) == Cardinality({d \in Nodes : table[d] > 0}) >= MAX_FD_ENTRIES

\* Mutant: the entry lives for the time asked for and no longer.
Mut_Lifetime == TTL

\* The grace period is added as far as the counter goes.
Lifetime == IF TTL < MAX_SECONDS - GRACE THEN TTL + GRACE ELSE MAX_SECONDS

\* Mutant: the table takes more entries than it has.
Mut_fdt_entry_add(table, addr) == [table EXCEPT ![addr] = Lifetime]

\* bvlc_foreign_device_table_entry_add()
fdt_entry_add(table, addr) ==
  IF table[addr] > 0 \/ ~ Full(table) THEN [table EXCEPT ![addr] = Lifetime]
                                      ELSE table

\* Mutant: the last second never passes.
Mut_fdt_entry_aged(remaining) == IF remaining > 1 THEN remaining - 1 ELSE remaining

fdt_entry_aged(remaining) == IF remaining > 0 THEN remaining - 1 ELSE 0

----------------------------------------------------------------------------
(* The specification.                                                      *)

BbmdInit ==
  /\ FD_Table = [n \in Nodes |-> [d \in Nodes |-> 0]]
  /\ BBMD_Timer = [f \in Foreign |-> 0]
  /\ alive = {} /\ regs = {} /\ settled = {}
  /\ net = NoMessages
  /\ origin = [i \in IDs |-> NoNode]
  /\ heard = [n \in Nodes |-> [i \in IDs |-> 0]]
  /\ entitled = [i \in IDs |-> {}]
  /\ faults = 0

Running(n) == n \in Foreign => n \in alive

\* The devices gone no longer have a claim on the broadcasts under way.
Disentitle(gone) == entitled' = [i \in IDs |-> entitled[i] \ gone]

\* bvlc_send_pdu() of a broadcast
Broadcast(n, i) ==
  LET m == [id |-> i, intact |-> TRUE]
  IN  /\ Running(n) /\ origin[i] = NoNode
      /\ origin' = [origin EXCEPT ![i] = n]
      /\ net' = net (+)
           IF n \in Foreign
             THEN SetToBag({Msg("DISTRIBUTE", n, Remote_BBMD[n], n, m)})
             ELSE bbmd_fdt_forward_npdu(n, n, m) (+) bbmd_bdt_forward_npdu(n, n, m)
                    (+) LocalBroadcast(n, "ORIGINAL_BROADCAST", n, m)
      /\ entitled' = [entitled EXCEPT ![i] =
           ((Nodes \ Foreign) \cup {f \in alive : Registered(f)}) \ {n}]
      /\ UNCHANGED <<tables, heard, faults>>

Taken(m) == net (-) SetToBag({m})

\* The higher layers of a node get the NPDU; the counter stops at 3.
Hears(m) ==
  heard' = IF m.intact THEN [heard EXCEPT ![m.to][m.id] = IF @ < 3 THEN @ + 1 ELSE @]
                       ELSE heard

\* Mutant: a node takes its own broadcast for somebody else's.
Mut_OriginalBroadcast(m) ==
  LET n == m.to IN
  /\ m.func = "ORIGINAL_BROADCAST"
  /\ net' = Taken(m) (+) bbmd_fdt_forward_npdu(n, m.from, m)
                     (+) bbmd_bdt_forward_npdu(n, m.from, m)
  /\ Hears(m)

\* bvlc_bbmd_enabled_handler(), by function code.  What a node broadcast
\* itself it was also the one to forward.
OriginalBroadcast(m) ==
  LET n == m.to IN
  /\ m.func = "ORIGINAL_BROADCAST"
  /\ IF m.from = n THEN net' = Taken(m) /\ UNCHANGED heard
     ELSE /\ net' = Taken(m) (+) bbmd_fdt_forward_npdu(n, m.from, m)
                             (+) bbmd_bdt_forward_npdu(n, m.from, m)
          /\ Hears(m)

\* The foreign devices are sent the whole message as if it were an NPDU.
ForwardedNPDU(m) ==
  LET n      == m.to
      nested == [m EXCEPT !.intact = FALSE]
  IN  /\ m.func = "FORWARDED"
      /\ IF m.src = n THEN net' = Taken(m) /\ UNCHANGED heard
         ELSE /\ net' = Taken(m) (+) bbmd_fdt_forward_npdu(n, m.src, nested)
                   (+) IF bbmd_bdt_member_mask_is_unicast(n, m.from)
                         THEN LocalBroadcast(n, "FORWARDED", m.src, m)
                         ELSE NoMessages
              /\ Hears(m)

\* Mutant: the BBMD's own subnet is left out.
Mut_DistributeBroadcast(m) ==
  LET n == m.to IN
  /\ m.func = "DISTRIBUTE"
  /\ net' = Taken(m) (+) bbmd_fdt_forward_npdu(n, m.from, m)
                     (+) bbmd_bdt_forward_npdu(n, m.from, m)
  /\ UNCHANGED heard

\* Whoever asks for it, registered or not.
DistributeBroadcast(m) ==
  LET n == m.to IN
  /\ m.func = "DISTRIBUTE"
  /\ net' = Taken(m) (+) bbmd_forward_npdu(n, m.from, m)
                     (+) bbmd_fdt_forward_npdu(n, m.from, m)
                     (+) bbmd_bdt_forward_npdu(n, m.from, m)
  /\ UNCHANGED heard

Receive(m) ==
  /\ IF Running(m.to)
       THEN OriginalBroadcast(m) \/ ForwardedNPDU(m) \/ DistributeBroadcast(m)
       ELSE net' = Taken(m) /\ UNCHANGED heard
  /\ UNCHANGED <<tables, origin, entitled, faults>>

RegisterForeignDevice(r) ==
  LET n == Remote_BBMD[r.from] IN
  /\ FD_Table' = [FD_Table EXCEPT ![n] = fdt_entry_add(@, r.from)]
  /\ regs' = regs \ {r}
  /\ settled' = IF FD_Table'[n][r.from] > 0 THEN settled \cup ({r.from} \cap alive)
                ELSE settled
  /\ UNCHANGED <<BBMD_Timer, alive, traffic, entitled, faults>>

Registration(f) == [from |-> f, age |-> 0]

\* dlenv_init() of a foreign device
Start(f) ==
  /\ f \notin alive
  /\ alive' = alive \cup {f}
  /\ regs' = regs \cup {Registration(f)}
  /\ BBMD_Timer' = [BBMD_Timer EXCEPT ![f] = TTL]
  /\ UNCHANGED <<FD_Table, settled, traffic, entitled, faults>>

\* Mutant: the timer is not wound up again after it has run out.
Mut_TimerAfter(t) == t - 1

TimerAfter(t) == IF t <= 1 THEN TTL ELSE t - 1

\* bvlc_maintenance_timer() and dlenv_maintenance_timer() of every node.
Second ==
  LET renewing == {f \in alive : BBMD_Timer[f] = 1}
  IN  /\ \A r \in regs : r.age + 1 < GRACE
      /\ FD_Table' = [n \in Nodes |->
                        [d \in Nodes |-> fdt_entry_aged(FD_Table[n][d])]]
      /\ BBMD_Timer' = [f \in Foreign |->
           IF f \in alive /\ BBMD_Timer[f] > 0 THEN TimerAfter(BBMD_Timer[f])
           ELSE BBMD_Timer[f]]
      /\ regs' = {[r EXCEPT !.age = @ + 1] : r \in regs}
                   \cup {Registration(f) : f \in renewing}
      /\ Disentitle({f \in Foreign : FD_Table'[Remote_BBMD[f]][f] = 0})
      /\ UNCHANGED <<alive, settled, traffic, faults>>

Fault == faults < MAX_FAULTS /\ faults' = faults + 1

Lose(m) ==
  /\ Fault
  /\ net' = Taken(m)
  /\ entitled' = [entitled EXCEPT ![m.id] = {}]
  /\ UNCHANGED <<tables, origin, heard>>

LoseRegistration(r) ==
  /\ Fault
  /\ regs' = regs \ {r}
  /\ settled' = settled \ {r.from}
  /\ UNCHANGED <<FD_Table, BBMD_Timer, alive, traffic, entitled>>

\* A management station deletes an entry.
DeleteForeignDevice(f) ==
  /\ Fault
  /\ FD_Table' = [FD_Table EXCEPT ![Remote_BBMD[f]][f] = 0]
  /\ settled' = settled \ {f}
  /\ Disentitle({f})
  /\ UNCHANGED <<BBMD_Timer, alive, regs, traffic>>

Stop(f) ==
  /\ Fault /\ f \in alive
  /\ alive' = alive \ {f}
  /\ BBMD_Timer' = [BBMD_Timer EXCEPT ![f] = 0]
  /\ settled' = settled \ {f}
  /\ Disentitle({f})
  /\ UNCHANGED <<FD_Table, regs, traffic>>

Deliver(i) == \E m \in BagToSet(net) : m.id = i /\ Receive(m)

RegisterFrom(f) == \E r \in regs : r.from = f /\ RegisterForeignDevice(r)

BbmdNext ==
  \/ \E n \in Senders, i \in IDs : Broadcast(n, i)
  \/ \E i \in IDs : Deliver(i)
  \/ \E f \in Foreign : RegisterFrom(f) \/ Start(f) \/ Stop(f) \/ DeleteForeignDevice(f)
  \/ Second
  \/ \E m \in BagToSet(net) : Lose(m)
  \/ \E r \in regs : LoseRegistration(r)

BbmdSpec == BbmdInit /\ [][BbmdNext]_bbmdVars

\* Messages that are not lost arrive, and time passes.
BbmdFairSpec ==
  /\ BbmdSpec
  /\ \A i \in IDs : WF_bbmdVars(Deliver(i))
  /\ \A f \in Foreign : WF_bbmdVars(RegisterFrom(f))
  /\ WF_bbmdVars(Second)

----------------------------------------------------------------------------
(* Properties.                                                             *)

Peers(n)    == {e.dest : e \in BBMD_Table[n]} \ {n}
IsBBMD(n)   == Peers(n) # {}
InFlight(i) == \E m \in BagToSet(net) : m.id = i

\* Tables, timers and messages stay well typed; a foreign device table never
\* holds more entries than it has.
BbmdTypeOK ==
  /\ FD_Table \in [Nodes -> [Nodes -> 0 .. MAX_SECONDS]]
  /\ \A n \in Nodes : Cardinality({d \in Nodes : FD_Table[n][d] > 0}) <= MAX_FD_ENTRIES
  /\ BBMD_Timer \in [Foreign -> 0 .. TTL]
  /\ alive \subseteq Foreign /\ settled \subseteq alive
  /\ regs \subseteq [from : Foreign, age : 0 .. GRACE - 1]
  /\ BagToSet(net) \subseteq Message
  /\ origin \in [IDs -> Nodes \cup {NoNode}]

\* No device gets a broadcast twice and nobody gets its own back, whichever
\* way it was sent and whatever registers or expires meanwhile.  A BBMD may
\* get it twice: from its peer, and from its own local broadcast of it.
HeardOnce ==
  \A n \in Nodes, i \in IDs :
    heard[n][i] <= IF origin[i] = n THEN 0 ELSE IF IsBBMD(n) THEN 2 ELSE 1

\* The BBMD on whose behalf a node's broadcasts are distributed.
Home(n) == IF n \in Foreign THEN Remote_BBMD[n]
           ELSE CHOOSE b \in Neighbours(n) : IsBBMD(b)

\* When nothing of a broadcast is left in flight and none of it was lost,
\* every node of every subnet has got it, and so has every foreign device
\* that was registered all the time with the sender's BBMD.
EveryoneHears ==
  \A i \in IDs : ~ InFlight(i) =>
    \A n \in entitled[i] :
      heard[n][i] > 0 \/ (n \in Foreign /\ Home(n) # Home(origin[i]))

\* How the tables have to be set up for HeardOnce: all entries with the mask
\* 255.255.255.255, peers that are BBMDs, one BBMD on a subnet, and foreign
\* devices on subnets without a BBMD, theirs or another.
Bbmds == {n \in Nodes : IsBBMD(n)}

OneWay ==
  /\ \A n \in Nodes : Peers(n) \subseteq Bbmds /\ \A e \in BBMD_Table[n] : e.unicast
  /\ \A b, c \in Bbmds : Subnet[b] = Subnet[c] => b = c
  /\ \A f \in Foreign : Neighbours(f) \cap (Bbmds \cup {Remote_BBMD[f]}) = {}

\* ... and for EveryoneHears: a BBMD for everybody, and all of them peers.
Connected ==
  /\ \A n \in Nodes \ Foreign : Neighbours(n) \cap Bbmds # {}
  /\ \A f \in Foreign : Remote_BBMD[f] \in Bbmds
  /\ \A b, c \in Bbmds : b # c => c \in Peers(b)

\* Broadcasts come to everyone by exactly one way.
BroadcastsArrive == HeardOnce /\ EveryoneHears

\* A broadcast dies out: no message is forwarded in a circle.
BroadcastsEnd == \A i \in IDs : InFlight(i) ~> ~ InFlight(i)

\* A foreign device that has registered stays in the table of its BBMD as long
\* as it runs, no registration is lost and nobody deletes its entry: each
\* renewal arrives before the entry expires.
StaysRegistered == \A f \in settled : Registered(f)

\* A foreign device that keeps running gets (back) into the table for good,
\* after losses, deletions and restarts, unless others fill it.
ComesBack ==
  \A f \in Foreign : <>[](f \in alive) =>
    <>[](Registered(f) \/ Full(FD_Table[Remote_BBMD[f]]))

\* A foreign device that has stopped leaves the table, so that its place is
\* free and nothing is forwarded to it.
StoppedForgotten ==
  \A f \in Foreign : <>[](f \notin alive) => <>[](~ Registered(f))

\* Broadcasts die out, and the foreign device tables settle on the devices that
\* run.
BbmdSettles == BroadcastsEnd /\ ComesBack /\ StoppedForgotten

\* h_bbmd.c:913 on Forwarded-NPDUs from a peer: "the constructed BVLL
\* Forwarded-NPDU message shall be unicast to each foreign device in the
\* BBMD's FDT", so that foreign devices get the broadcasts of every subnet.
ForeignHears ==
  \A i \in IDs : ~ InFlight(i) =>
    \A n \in entitled[i] \cap Foreign : heard[n][i] > 0
=============================================================================
