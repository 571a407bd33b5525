----------------------------- MODULE PacketQueues -----------------------------
(***************************************************************************)
(* The packets between the two threads of the MS/TP driver: the stack's,   *)
(* which calls dlmstp_receive() and dlmstp_send_pdu(), and the master      *)
(* node's, which calls MSTP_Put_Receive(), MSTP_Get_Send() and             *)
(* MSTP_Get_Reply().  There are two drivers: ports/linux/dlmstp.c, where a *)
(* mutex and a condition guard the received packet and a reply is sent     *)
(* from the head of the queue only, and ports/linux/dlmstp_linux.c, where  *)
(* a semaphore counts received packets and replies are searched for.  In   *)
(* both the queue of packets to send is a ring buffer without a lock.      *)
(*                                                                         *)
(* A step reads or writes one thing that both threads use; memory is       *)
(* sequentially consistent.                                                *)
(***************************************************************************)
EXTENDS Ringbuf, FiniteSets

CONSTANTS Requests,           \* frames received that expect a reply, by invoke id
          OtherFrames,        \* frames received that do not
          EmptyFrames,        \* those of them with no data
          Own,                \* packets the stack sends that are no replies
          Expecting,          \* those of them with data_expecting_reply
          Nothing

ASSUME PacketQueuesConstants ==
  /\ EmptyFrames \subseteq OtherFrames /\ Expecting \subseteq Own
  /\ Requests \cap (OtherFrames \cup Own) = {}
  /\ Nothing \notin Requests \cup OtherFrames \cup Own

VARIABLES driver,             \* "dlmstp" or "dlmstp_linux", whichever is linked
          PDU_Queue,          \* the ring buffer of packets to send
          Receive_Packet,     \* the one received packet
          flag,               \* its semaphore, or: the waiting thread is signalled
          stack,              \* where the stack's thread is, and its locals
          master              \* where the master's thread is, and its locals

pqVars == <<driver, PDU_Queue, Receive_Packet, flag, stack, master>>

Linux  == driver = "dlmstp_linux"
Frames == Requests \cup OtherFrames
Data   == Requests \cup Own               \* a reply is named by its request

\* struct mstp_pdu_packet; a fresh one holds zeros, which no packet does.
Packet(d)  == [der |-> d \in Expecting, data |-> d]
Packets    == {Packet(d) : d \in Data}
ZeroPacket == [der |-> FALSE, data |-> Nothing]

\* dlmstp_compare_data_expecting_reply()
Matches(p, r) == p.data = r

At(thread, pc) == thread.pc = pc

IdleStack  == [pc |-> "LOOP", data |-> Nothing, e |-> NoElement]
IdleMaster == [pc |-> "IDLE", frame |-> Nothing, e |-> NoElement, index |-> 0,
               pkt |-> ZeroPacket]

\* dlmstp_init()
PqInit ==
  /\ driver \in {"dlmstp", "dlmstp_linux"}
  /\ PDU_Queue = RingbufInit(ZeroPacket)
  /\ Receive_Packet = [ready |-> FALSE, pdu |-> Nothing, pdu_len |-> FALSE]
  /\ flag = 0 /\ stack = IdleStack /\ master = IdleMaster

----------------------------------------------------------------------------
(* The stack's thread.                                                     *)

StackGoes(next) == stack' = next
SendUnchanged == UNCHANGED <<driver, Receive_Packet, flag, master>>

\* dlmstp_send_pdu(): a free element is looked for, ...
SendPdu(d) ==
  /\ LET e == DataPeek(PDU_Queue)
     IN  StackGoes(IF e = NoElement THEN IdleStack
                   ELSE [pc |-> "FILL_DER", data |-> d, e |-> e])
  /\ SendUnchanged /\ UNCHANGED PDU_Queue

SendOwn(d)  == At(stack, "LOOP") /\ SendPdu(d)

\* The handler of a received request replies, or does not.
SendReply   == At(stack, "HANDLE") /\ stack.data \in Requests /\ SendPdu(stack.data)
LeaveUnanswered ==
  /\ At(stack, "HANDLE") /\ StackGoes(IdleStack)
  /\ SendUnchanged /\ UNCHANGED PDU_Queue

\* ... filled field by field ...
FillDer ==
  /\ At(stack, "FILL_DER") /\ StackGoes([stack EXCEPT !.pc = "FILL_DATA"])
  /\ PDU_Queue' = [PDU_Queue EXCEPT !.buffer[stack.e].der = stack.data \in Expecting]
  /\ SendUnchanged

FillData ==
  /\ At(stack, "FILL_DATA") /\ StackGoes([stack EXCEPT !.pc = "PUT"])
  /\ PDU_Queue' = [PDU_Queue EXCEPT !.buffer[stack.e].data = stack.data]
  /\ SendUnchanged

\* ... and put.
Put ==
  /\ At(stack, "PUT") /\ StackGoes(IdleStack)
  /\ PDU_Queue' = DataPut(PDU_Queue, stack.e)
  /\ SendUnchanged

\* dlmstp_receive(): waits, ...
CallReceive ==
  /\ At(stack, "LOOP") /\ StackGoes([stack EXCEPT !.pc = "WAIT"])
  /\ UNCHANGED <<driver, PDU_Queue, Receive_Packet, flag, master>>

Take == IF Receive_Packet.pdu_len THEN Receive_Packet.pdu ELSE Nothing

\* What the caller of dlmstp_receive() does with f.
Handle(f) == IF f # Nothing THEN [IdleStack EXCEPT !.pc = "HANDLE", !.data = f]
             ELSE IdleStack

ReceiveUnchanged == UNCHANGED <<driver, PDU_Queue, master>>

Mut_Wake ==
  /\ At(stack, "WAIT") /\ ~ Linux
  /\ LET f == IF Receive_Packet.ready /\ flag > 0 THEN Take ELSE Nothing
     IN  StackGoes(Handle(f))
  /\ flag' = 0
  /\ Receive_Packet' = IF flag > 0 THEN [Receive_Packet EXCEPT !.ready = FALSE]
                       ELSE Receive_Packet
  /\ ReceiveUnchanged

\* ... in dlmstp.c until it is signalled or the time is over, whichever it
\* is, and takes the packet that is there, all with the mutex locked; ...
Wake ==
  /\ At(stack, "WAIT") /\ ~ Linux
  /\ LET f == IF Receive_Packet.ready THEN Take ELSE Nothing
     IN  StackGoes(Handle(f))
  /\ Receive_Packet' = [Receive_Packet EXCEPT !.ready = FALSE]
  /\ flag' = 0
  /\ ReceiveUnchanged

\* ... in dlmstp_linux.c until the semaphore lets it pass or the time is over.
TimedWait ==
  /\ At(stack, "WAIT") /\ Linux
  /\ IF flag > 0 THEN flag' = flag - 1 /\ StackGoes([stack EXCEPT !.pc = "COPY"])
     ELSE flag' = flag /\ StackGoes(IdleStack)
  /\ UNCHANGED Receive_Packet /\ ReceiveUnchanged

Copy ==
  /\ At(stack, "COPY")
  /\ StackGoes(IF Receive_Packet.ready
                THEN [stack EXCEPT !.pc = "CLEAR", !.data = Take] ELSE IdleStack)
  /\ UNCHANGED <<Receive_Packet, flag>> /\ ReceiveUnchanged

Clear ==
  /\ At(stack, "CLEAR") /\ StackGoes(Handle(stack.data))
  /\ Receive_Packet' = [Receive_Packet EXCEPT !.ready = FALSE]
  /\ UNCHANGED flag /\ ReceiveUnchanged

----------------------------------------------------------------------------
(* The master's thread.                                                    *)

MasterGoes(next) == master' = next
QueueUnchanged   == UNCHANGED <<driver, PDU_Queue, stack>>

\* ANSWER_DATA_REQUEST after a request, IDLE after the rest.
AfterPut(f) == IF f \in Requests THEN [IdleMaster EXCEPT !.pc = "ANSWER", !.frame = f]
               ELSE IdleMaster

Filled(f) == [ready |-> FALSE, pdu |-> f, pdu_len |-> f \notin EmptyFrames]

\* IDLE, and a data frame for this station: MSTP_Put_Receive() of dlmstp.c,
\* with the mutex locked.
PutReceive(f) ==
  /\ At(master, "IDLE") /\ ~ Linux /\ MasterGoes(AfterPut(f))
  /\ IF Receive_Packet.ready THEN UNCHANGED <<Receive_Packet, flag>>
     ELSE /\ Receive_Packet' = [Filled(f) EXCEPT !.ready = TRUE]
          /\ flag' = IF At(stack, "WAIT") THEN 1 ELSE 0
  /\ QueueUnchanged

\* The same of dlmstp_linux.c, without one.
TestReady(f) ==
  /\ At(master, "IDLE") /\ Linux
  /\ MasterGoes(IF Receive_Packet.ready THEN AfterPut(f)
                ELSE [IdleMaster EXCEPT !.pc = "FILL", !.frame = f])
  /\ UNCHANGED <<Receive_Packet, flag>> /\ QueueUnchanged

Fill ==
  /\ At(master, "FILL") /\ MasterGoes([master EXCEPT !.pc = "READY"])
  /\ Receive_Packet' = Filled(master.frame)
  /\ UNCHANGED flag /\ QueueUnchanged

SetReady ==
  /\ At(master, "READY") /\ MasterGoes([master EXCEPT !.pc = "POST"])
  /\ Receive_Packet' = [Receive_Packet EXCEPT !.ready = TRUE]
  /\ UNCHANGED flag /\ QueueUnchanged

Post ==
  /\ At(master, "POST") /\ MasterGoes(AfterPut(master.frame)) /\ flag' = flag + 1
  /\ UNCHANGED Receive_Packet /\ QueueUnchanged

MasterUnchanged == UNCHANGED <<driver, Receive_Packet, flag, stack>>
QueueKept     == UNCHANGED PDU_Queue
First           ==  PDU_Queue.buffer[Peek(PDU_Queue)]

\* USE_TOKEN: MSTP_Get_Send() looks for a packet and reads it.
GetSend ==
  /\ At(master, "IDLE") /\ ~ Empty(PDU_Queue)
  /\ MasterGoes([master EXCEPT !.pc = "SEND_DATA", !.pkt.der = First.der])
  /\ MasterUnchanged /\ QueueKept

SendData ==
  /\ At(master, "SEND_DATA")
  /\ MasterGoes([master EXCEPT !.pc = "POP", !.pkt.data = First.data])
  /\ MasterUnchanged /\ QueueKept

\* RS485_Send_Frame()
Out == [IdleMaster EXCEPT !.pc = "SEND_FRAME", !.pkt = master.pkt]

SendFrame ==
  /\ At(master, "SEND_FRAME") /\ MasterGoes(IdleMaster)
  /\ MasterUnchanged /\ QueueKept

Mut_PopFirst ==
  /\ At(master, "POP") /\ MasterGoes(Out)
  /\ UNCHANGED PDU_Queue
  /\ MasterUnchanged

\* The packet is removed, and its frame goes out.
PopFirst ==
  /\ At(master, "POP") /\ MasterGoes(Out)
  /\ PDU_Queue' = Pop(PDU_Queue)
  /\ MasterUnchanged

NoReply == [master EXCEPT !.pc = "NO_REPLY", !.e = NoElement]

\* A look at the element e: the end of the search, its reply, or this.
Compare(e, this) ==
  CASE e = NoElement -> NoReply
    [] e # NoElement /\ Matches(PDU_Queue.buffer[e], master.frame) ->
         [master EXCEPT !.pc = "REPLY_DATA", !.e = e,
                        !.pkt.der = PDU_Queue.buffer[e].der]
    [] OTHER -> this

\* ANSWER_DATA_REQUEST: MSTP_Get_Reply(), again and again, looks for a packet
\* that matches the request, at the head of the queue ...
CompareFirst ==
  /\ master.pc \in {"ANSWER", "NO_REPLY"}
  /\ LET e == Peek(PDU_Queue)
     IN  MasterGoes(Compare(e, IF Linux THEN [master EXCEPT !.pc = "NEXT", !.e = e]
                               ELSE NoReply))
  /\ MasterUnchanged /\ QueueKept

\* ... in dlmstp_linux.c also behind it, ...
CompareNext ==
  /\ At(master, "NEXT")
  /\ LET e == PeekNext(PDU_Queue, master.e)
     IN  MasterGoes(Compare(e, [master EXCEPT !.e = e]))
  /\ MasterUnchanged /\ QueueKept

\* ... reads it ...
ReplyData ==
  /\ At(master, "REPLY_DATA")
  /\ MasterGoes([master EXCEPT !.pc = IF Linux THEN "FIND" ELSE "POP",
                               !.pkt.data = PDU_Queue.buffer[master.e].data,
                               !.index = IF Linux THEN PDU_Queue.head ELSE 0])
  /\ MasterUnchanged /\ QueueKept

\* ... and, in dlmstp_linux.c, removes it from wherever it is.
FindReply ==
  /\ At(master, "FIND")
  /\ MasterGoes([master EXCEPT !.pc = "POP_FOUND",
                               !.index = FindElement(PDU_Queue, master.e, @)])
  /\ MasterUnchanged /\ QueueKept

PopReply ==
  /\ At(master, "POP_FOUND") /\ MasterGoes(Out)
  /\ PDU_Queue' = PopFound(PDU_Queue, master.index)
  /\ MasterUnchanged

\* Without a reply within Treply_delay: REPLY_POSTPONED.
PostponeReply ==
  /\ At(master, "NO_REPLY") /\ MasterGoes(IdleMaster)
  /\ MasterUnchanged /\ QueueKept

----------------------------------------------------------------------------
StackGoesOn ==
  SendReply \/ LeaveUnanswered \/ FillDer \/ FillData \/ Put
  \/ Wake \/ TimedWait \/ Copy \/ Clear

StackNext == StackGoesOn \/ CallReceive \/ \E d \in Own : SendOwn(d)

MasterGoesOn ==
  \/ Fill \/ SetReady \/ Post \/ SendFrame \/ SendData \/ PopFirst
  \/ CompareFirst \/ CompareNext \/ ReplyData \/ FindReply \/ PopReply

MasterNext ==
  \/ MasterGoesOn \/ GetSend \/ PostponeReply
  \/ \E f \in Frames : PutReceive(f) \/ TestReady(f)

PqNext == StackNext \/ MasterNext

\* Both threads run on, and no wait for a packet is for ever.  The stack calls
\* dlmstp_receive() between any two packets it sends; the token comes again
\* and again; Treply_delay ends.
PqFairness ==
  /\ WF_pqVars(StackGoesOn) /\ SF_pqVars(CallReceive)
  /\ WF_pqVars(MasterGoesOn) /\ SF_pqVars(GetSend) /\ SF_pqVars(PostponeReply)

PqSpec == PqInit /\ [][PqNext]_pqVars
PqFairSpec == PqSpec /\ PqFairness

----------------------------------------------------------------------------
\* The master's thread holds a request that waits for its reply.
Replying == master.pc \in {"ANSWER", "NO_REPLY", "NEXT", "REPLY_DATA", "FIND", "POP_FOUND"}
            \/ (At(master, "POP") /\ master.frame # Nothing)

Waiting == [n \in 1 .. Count(PDU_Queue) |->
              PDU_Queue.buffer[Element(PDU_Queue.tail + n - 1)]]

\* The counters never drift apart by more than the elements there are, and the
\* semaphore is up only for a packet that is there.
PqTypeOK ==
  /\ PDU_Queue \in [head : Counts, tail : Counts,
                    buffer : [Elements -> [der : BOOLEAN, data : Data \cup {Nothing}]]]
  /\ Count(PDU_Queue) <= ELEMENT_COUNT
  /\ Receive_Packet \in [ready : BOOLEAN, pdu : Frames \cup {Nothing}, pdu_len : BOOLEAN]
  /\ flag \in 0 .. 1 /\ (flag = 1 /\ Linux => Receive_Packet.ready)
  /\ stack.e \in Elements \cup {NoElement} /\ stack.data \in Data \cup Frames \cup {Nothing}
  /\ master.e \in Elements \cup {NoElement} /\ master.index \in Counts

\* The queue and the one-packet buffer are what PacketPorts promises, for both
\* drivers and every interleaving of the two threads: nothing is lost, sent
\* twice, torn or reordered on its way.
Ports == INSTANCE PacketPorts WITH
  CAPACITY <- ELEMENT_COUNT, queue <- Waiting, Answers <- Matches,
  sent <- IF At(master, "SEND_FRAME") THEN master.pkt ELSE ZeroPacket,
  got <- IF stack.pc \in {"CLEAR", "HANDLE"} THEN stack.data ELSE Nothing,
  request <- IF Replying THEN master.frame ELSE Nothing,
  inbox <- IF Receive_Packet.ready /\ ~ At(stack, "CLEAR") THEN Receive_Packet.pdu
           ELSE Nothing,
  turned <- PDU_Queue.head < PDU_Queue.tail
PortsPromise == Ports!PortsSpec

\* The search of dlmstp_linux.c ends without a reply only when none is in the
\* queue, unless head has turned over and tail has not.
NothingMissed ==
  [][Linux /\ ~ At(master, "NO_REPLY") /\ master'.pc = "NO_REPLY" =>
       \/ \A n \in DOMAIN Waiting : ~ Matches(Waiting[n], master.frame)
       \/ PDU_Queue.head < PDU_Queue.tail]_pqVars

\* The stack gets every frame that was put for it, also one that was put while
\* it was not waiting.
PutIsReceived == Receive_Packet.ready ~> ~ Receive_Packet.ready

\* Every packet that was queued moves on: the queue gets empty again and
\* again, or one packet after the other leaves it.
QueueDrains ==
  \/ []<>Empty(PDU_Queue)
  \/ []<><<PDU_Queue'.tail # PDU_Queue.tail>>_pqVars

\* Packets move on in both directions.
PacketsMove == PutIsReceived /\ QueueDrains
=============================================================================
