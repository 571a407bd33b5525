----------------------------- MODULE PacketPorts -----------------------------
(***************************************************************************)
(* What the MS/TP driver promises the stack and the master node: a bounded *)
(* queue of packets to send, from which they go out one by one in order,   *)
(* save that the reply to the request at hand may overtake; and a place    *)
(* for one received frame, which the stack gets once and unchanged.        *)
(*                                                                         *)
(* One exception is part of it: while the number of the next packet has    *)
(* turned over and that of the first has not, taking a reply from the      *)
(* middle removes the first packet in its stead.                           *)
(***************************************************************************)
EXTENDS Naturals, Sequences, SequencesExt

CONSTANTS CAPACITY,          \* packets the queue holds
          Packets,           \* what is sent
          Answers(_, _),     \* the packet is a reply to the request
          Frames,            \* what is received
          EmptyFrames,       \* those without data
          Nothing            \* no frame, no request

VARIABLES queue,             \* packets that wait to be sent
          sent,              \* the packet that goes out, or none of Packets
          request,           \* the request that waits for its reply, or Nothing
          turned,            \* the last packet's number is below the first one's
          inbox,             \* the frame that waits for the stack, or Nothing
          got                \* the frame that the stack has just got, or Nothing

portVars == <<queue, sent, request, turned, inbox, got>>

PortsInit ==
  /\ queue = << >> /\ inbox = Nothing /\ request = Nothing /\ turned = FALSE
  /\ sent \notin Packets /\ got = Nothing

Queue(p) ==
  /\ Len(queue) < CAPACITY /\ queue' = Append(queue, p)
  /\ turned' \in BOOLEAN
  /\ UNCHANGED <<sent, request, inbox, got>>

SendFirst ==
  /\ sent \notin Packets /\ queue # << >> /\ request = Nothing
  /\ sent' = Head(queue) /\ queue' = Tail(queue)
  /\ turned' \in BOOLEAN
  /\ UNCHANGED <<request, inbox, got>>

SendReply(i) ==
  /\ sent \notin Packets /\ request # Nothing /\ Answers(queue[i], request)
  /\ sent' = queue[i] /\ request' = Nothing
  /\ queue' = IF turned /\ i > 1 THEN Tail(queue) ELSE RemoveAt(queue, i)
  /\ turned' \in BOOLEAN
  /\ UNCHANGED <<inbox, got>>

GoesOut == /\ sent \in Packets /\ sent' \notin Packets
           /\ UNCHANGED <<queue, request, turned, inbox, got>>

\* The time for a reply is over.
Postpone == /\ request # Nothing /\ request' = Nothing
            /\ UNCHANGED <<queue, sent, turned, inbox, got>>

\* A frame is put in its place, when there is room for it.  Whether or not
\* there is, a request keeps the master waiting for the reply.
Accept(f) == /\ inbox = Nothing /\ inbox' = f
             /\ UNCHANGED <<queue, sent, request, turned, got>>

Await(f) == /\ request = Nothing /\ request' = f
            /\ UNCHANGED <<queue, sent, turned, inbox, got>>

AcceptAndAwait(f) == /\ inbox = Nothing /\ inbox' = f
                     /\ request = Nothing /\ request' = f
                     /\ UNCHANGED <<queue, sent, turned, got>>

\* The stack gets the frame, unless there is no data in it.
Receive ==
  /\ got = Nothing /\ inbox # Nothing /\ inbox' = Nothing
  /\ got' = IF inbox \in EmptyFrames THEN Nothing ELSE inbox
  /\ UNCHANGED <<queue, sent, request, turned>>

Handled == /\ got # Nothing /\ got' = Nothing
           /\ UNCHANGED <<queue, sent, request, turned, inbox>>

PortsNext ==
  \/ \E p \in Packets : Queue(p)
  \/ SendFirst
  \/ \E i \in DOMAIN queue : SendReply(i)
  \/ GoesOut \/ Postpone \/ Receive \/ Handled
  \/ \E f \in Frames : Accept(f) \/ Await(f) \/ AcceptAndAwait(f)

PortsSpec == PortsInit /\ [][PortsNext]_portVars
=============================================================================
