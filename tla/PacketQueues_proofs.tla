------------------------ MODULE PacketQueues_proofs ------------------------
(***************************************************************************)
(* Proofs about PacketQueues: the types, what the search for a reply may   *)
(* miss, and that both MS/TP drivers implement PacketPorts, for any size   *)
(* of the ring buffer, any width of its counters and any packets.          *)
(*                                                                         *)
(* A packet that waits is named by its place, from 0 at the tail; what a   *)
(* thread knows of it stays true because the other one writes to the       *)
(* element behind the last place only, and only the master's thread moves  *)
(* the tail.                                                               *)
(***************************************************************************)
EXTENDS PacketQueues, SequenceTheorems, TLAPS

----------------------------------------------------------------------------
(* The inductive invariant of the packet queues.                           *)

StackPcs == {"LOOP", "FILL_DER", "FILL_DATA", "PUT", "WAIT", "COPY", "CLEAR", "HANDLE"}

\* A request of dlmstp_linux.c goes through more steps than one of dlmstp.c.
LinuxPcs  == {"FILL", "READY", "POST", "NEXT", "FIND", "POP_FOUND"}
AskedPcs  == {"ANSWER", "NO_REPLY", "NEXT", "REPLY_DATA", "FIND", "POP_FOUND"}
MasterPcs == {"IDLE", "SEND_DATA", "POP", "SEND_FRAME"} \cup LinuxPcs \cup AskedPcs

\* The element of the packet that waits k places behind the first.
Held(k) == Element(PDU_Queue.tail + k)
Places  == 0 .. Count(PDU_Queue) - 1
InPlace(k) == PDU_Queue.buffer[Held(k)]

PqTyped ==
  /\ driver \in {"dlmstp", "dlmstp_linux"}
  /\ PDU_Queue \in [head : Counts, tail : Counts,
                    buffer : [Elements -> [der : BOOLEAN, data : Data \cup {Nothing}]]]
  /\ Count(PDU_Queue) <= ELEMENT_COUNT
  /\ Receive_Packet \in [ready : BOOLEAN, pdu : Frames \cup {Nothing}, pdu_len : BOOLEAN]
  /\ flag \in 0 .. 1
  /\ stack \in [pc : StackPcs, data : Data \cup Frames \cup {Nothing},
                e : Elements \cup {NoElement}]
  /\ master \in [pc : MasterPcs, frame : Frames \cup {Nothing},
                 e : Elements \cup {NoElement}, index : Counts,
                 pkt : [der : BOOLEAN, data : Data \cup {Nothing}]]

\* What the stack's thread has done to the element it fills: the one behind
\* the last packet, so that no packet changes while it waits.
Filling ==
  /\ \A k \in Places : InPlace(k) \in Packets
  /\ stack.pc \in {"FILL_DER", "FILL_DATA", "PUT"} =>
       stack.e = Element(PDU_Queue.head) /\ ~ Full(PDU_Queue) /\ stack.data \in Data
  /\ stack.pc \in {"FILL_DATA", "PUT"} =>
       PDU_Queue.buffer[stack.e].der = (stack.data \in Expecting)
  /\ At(stack, "PUT") => PDU_Queue.buffer[stack.e].data = stack.data

\* The received packet, and who may touch it: between the two threads of
\* dlmstp_linux.c it is filled only when it is not ready, and the stack's
\* thread reads it only after the semaphore let it pass.
Inbox ==
  /\ Receive_Packet.ready =>
       /\ Receive_Packet.pdu \in Frames
       /\ Receive_Packet.pdu_len = (Receive_Packet.pdu \notin EmptyFrames)
  /\ Linux /\ flag = 1 => Receive_Packet.ready /\ stack.pc \notin {"COPY", "CLEAR"}
  /\ stack.pc \in {"COPY", "CLEAR"} => Linux /\ Receive_Packet.ready /\ flag = 0
  /\ At(stack, "CLEAR") => stack.data = Take
  /\ At(stack, "HANDLE") => stack.data \in Frames
  /\ master.pc \in LinuxPcs => Linux
  /\ master.pc \in {"FILL", "READY"} => ~ Receive_Packet.ready
  /\ master.pc \in {"FILL", "READY", "POST"} => master.frame \in Frames
  /\ At(master, "READY") => Receive_Packet = Filled(master.frame)
  /\ At(master, "POST") => /\ Receive_Packet.ready /\ flag = 0
                           /\ stack.pc \notin {"COPY", "CLEAR"}

\* The packet that the master's thread has found k places behind the first.
Found(k) ==
  /\ master.e = Held(k) /\ InPlace(k).data = master.frame
  /\ master.pkt.der = InPlace(k).der
  /\ Linux \/ k = 0

\* What the master's thread knows of the packets that wait.
Reading ==
  /\ master.pc \in {"IDLE", "SEND_DATA"} => master.frame = Nothing
  /\ master.pc \in AskedPcs => master.frame \in Requests
  /\ At(master, "SEND_DATA") => 0 \in Places /\ master.pkt.der = InPlace(0).der
  /\ At(master, "POP") => /\ 0 \in Places /\ master.pkt = InPlace(0)
                          /\ \/ master.frame = Nothing
                             \/ master.frame \in Requests /\ Matches(InPlace(0), master.frame)
  /\ At(master, "NEXT") =>
       \E k \in Places : /\ master.e = Held(k)
                         /\ \A j \in 0 .. k : ~ Matches(InPlace(j), master.frame)
  /\ At(master, "REPLY_DATA") => \E k \in Places : Found(k)
  /\ At(master, "FIND") => \E k \in Places : Found(k) /\ master.pkt = InPlace(k)
  /\ At(master, "POP_FOUND") =>
       \E k \in Places : /\ Found(k) /\ master.pkt = InPlace(k)
                         /\ \/ master.index = PDU_Queue.tail + k
                            \/ PDU_Queue.head < PDU_Queue.tail
  /\ At(master, "SEND_FRAME") => master.pkt \in Packets

PqIInv == PqTyped /\ Filling /\ Inbox /\ Reading

----------------------------------------------------------------------------
(* Lemmas about the ring buffer.                                           *)

\* Every natural is a multiple of m and its remainder.
LEMMA Quotient ==
  ASSUME NEW m \in Nat \ {0}, NEW a \in Nat
  PROVE  /\ a % m \in 0 .. m - 1
         /\ \E q \in Nat : a = m * q + (a % m)
<1>1. a % m \in 0 .. m - 1
  OBVIOUS
<1>2. a = m * (a \div m) + (a % m) /\ a \div m \in Nat
  OBVIOUS
<1> QED
  BY <1>1, <1>2

LEMMA Remainder ==
  ASSUME NEW m \in Nat \ {0}, NEW q \in Nat, NEW r \in 0 .. m - 1
  PROVE  (m * q + r) % m = r
OBVIOUS

\* Numbers that are less than m apart have different remainders.
LEMMA RemaindersApart ==
  ASSUME NEW m \in Nat \ {0}, NEW a \in Nat, NEW b \in Nat, a < b, b < a + m
  PROVE  a % m # b % m
<1>1. PICK q \in Nat : a = m * q + (a % m)
  BY Quotient
<1>2. PICK p \in Nat : b = m * p + (b % m)
  BY Quotient
<1>3. SUFFICES ASSUME a % m = b % m
               PROVE  FALSE
  OBVIOUS
<1>4. b - a = m * p - m * q
  BY <1>1, <1>2, <1>3
<1>5. b - a = m * (p - q) /\ p - q \in Int
  BY <1>4
<1>6. p - q > 0
  BY <1>5
<1>7. m * (p - q) >= m
  BY <1>5, <1>6
<1> QED
  BY <1>5, <1>7

\* Counts go up by one and, at the end, back to 0; the difference of two is the
\* number of steps from the second to the first.
LEMMA CountArithmetic ==
  ASSUME NEW m \in Counts, NEW n \in Counts
  PROVE  /\ Inc(n) \in Counts
         /\ Inc(n) = IF n = UINT - 1 THEN 0 ELSE n + 1
         /\ Minus(m, n) \in Counts
         /\ Minus(m, n) = IF n <= m THEN m - n ELSE m + UINT - n
<1>1. UINT \in Nat \ {0} /\ m \in Nat /\ m < UINT /\ n \in Nat /\ n < UINT
  BY RingbufConstants DEF Counts
<1>2. Inc(n) = IF n = UINT - 1 THEN 0 ELSE n + 1
  <2>1. CASE n = UINT - 1
    BY <2>1, <1>1, Remainder, (UINT * 1 + 0) % UINT = 0 DEF Inc
  <2>2. CASE n # UINT - 1
    <3>1. n + 1 \in 0 .. UINT - 1 /\ UINT * 0 + (n + 1) = n + 1
      BY <2>2, <1>1
    <3>2. (UINT * 0 + (n + 1)) % UINT = n + 1
      BY <3>1, <1>1, Remainder
    <3> QED
      BY <3>1, <3>2, <2>2 DEF Inc
  <2> QED
    BY <2>1, <2>2
<1>3. Minus(m, n) = IF n <= m THEN m - n ELSE m + UINT - n
  <2>1. CASE n <= m
    <3>1. m - n \in 0 .. UINT - 1 /\ UINT * 1 + (m - n) = m + UINT - n
      BY <2>1, <1>1
    <3>2. (UINT * 1 + (m - n)) % UINT = m - n
      BY <3>1, <1>1, Remainder
    <3> QED
      BY <3>1, <3>2, <2>1 DEF Minus
  <2>2. CASE ~ (n <= m)
    <3>1. m + UINT - n \in 0 .. UINT - 1 /\ UINT * 0 + (m + UINT - n) = m + UINT - n
      BY <2>2, <1>1
    <3>2. (UINT * 0 + (m + UINT - n)) % UINT = m + UINT - n
      BY <3>1, <1>1, Remainder
    <3> QED
      BY <3>1, <3>2, <2>2 DEF Minus
  <2> QED
    BY <2>1, <2>2
<1> QED
  BY <1>1, <1>2, <1>3 DEF Counts

\* The element of a count stays the same when the count turns over.
LEMMA ElementTurns ==
  ASSUME NEW n \in Nat
  PROVE  Element(n) \in Elements /\ Element(n + UINT) = Element(n)
<1>1. ELEMENT_COUNT \in Nat \ {0} /\ UINT \in Nat /\ UINT % ELEMENT_COUNT = 0
  BY RingbufConstants
<1>2. PICK p \in Nat : UINT = ELEMENT_COUNT * p + (UINT % ELEMENT_COUNT)
  BY <1>1, Quotient
<1>3. PICK q \in Nat : n = ELEMENT_COUNT * q + (n % ELEMENT_COUNT)
  BY <1>1, Quotient
<1>4. n % ELEMENT_COUNT \in 0 .. ELEMENT_COUNT - 1
  BY <1>1, Quotient
<1>5. n + UINT = ELEMENT_COUNT * (q + p) + (n % ELEMENT_COUNT)
  BY <1>1, <1>2, <1>3, <1>4
<1>6. (ELEMENT_COUNT * (q + p) + (n % ELEMENT_COUNT)) % ELEMENT_COUNT
        = n % ELEMENT_COUNT
  BY <1>1, <1>4, Remainder, q + p \in Nat
<1> QED
  BY <1>4, <1>5, <1>6 DEF Element, Elements

LEMMA ElementInc ==
  ASSUME NEW t \in Counts, NEW n \in Nat
  PROVE  Element(Inc(t) + n) = Element(t + 1 + n)
<1>1. CASE t = UINT - 1
  <2>1. Inc(t) + n = n /\ t + 1 + n = n + UINT
    BY <1>1, CountArithmetic, RingbufConstants
  <2> QED
    BY <2>1, ElementTurns
<1>2. CASE t # UINT - 1
  <2>1. Inc(t) + n = t + 1 + n
    BY <1>2, CountArithmetic, RingbufConstants
  <2> QED
    BY <2>1
<1> QED
  BY <1>1, <1>2

\* Counts less than the size of the buffer apart have different elements.
LEMMA ElementsApart ==
  ASSUME NEW a \in Nat, NEW b \in Nat, a # b, a < b + ELEMENT_COUNT, b < a + ELEMENT_COUNT
  PROVE  Element(a) # Element(b)
<1>1. ELEMENT_COUNT \in Nat \ {0}
  BY RingbufConstants
<1>2. CASE a < b
  BY <1>1, <1>2, RemaindersApart DEF Element
<1>3. CASE b < a
  BY <1>1, <1>3, RemaindersApart DEF Element
<1> QED
  BY <1>2, <1>3

\* The element before that of n is that of n - 1.
LEMMA ElementBelow ==
  ASSUME NEW n \in Nat \ {0}
  PROVE  (Element(n) + ELEMENT_COUNT - 1) % ELEMENT_COUNT = Element(n - 1)
<1> DEFINE E == ELEMENT_COUNT
<1>1. E \in Nat \ {0}
  BY RingbufConstants
<1> HIDE DEF E
<1> DEFINE p == n - 1
<1> DEFINE r == p % E
<1>0. p \in Nat
  OBVIOUS
<1>9. n = p + 1
  OBVIOUS
<1> HIDE DEF p
<1>2. PICK q \in Nat : p = E * q + r
  BY <1>0, <1>1, Quotient
<1>3. r \in 0 .. E - 1
  BY <1>0, <1>1, Quotient
<1> HIDE DEF r
<1>4. CASE r = E - 1
  <2>1. n = E * (q + 1) + 0 /\ q + 1 \in Nat
    BY <1>1, <1>2, <1>4, <1>9
  <2>2. n % E = 0
    BY <1>1, <2>1, Remainder
  <2>3. (E * 0 + (E - 1)) % E = E - 1
    BY <1>1, Remainder
  <2> QED
    BY <1>1, <1>4, <2>2, <2>3 DEF p, r, Element, E
<1>5. CASE r # E - 1
  <2>1. n = E * q + (r + 1)
    BY <1>1, <1>2, <1>3, <1>9
  <2>2. n % E = r + 1
    BY <1>1, <1>3, <1>5, <2>1, Remainder
  <2>3. (E * 1 + r) % E = r
    BY <1>1, <1>3, Remainder
  <2>4. E * 1 + r = (r + 1) + E - 1
    BY <1>1, <1>3
  <2> QED
    BY <1>1, <2>2, <2>3, <2>4 DEF p, r, Element, E
<1> QED
  BY <1>4, <1>5

----------------------------------------------------------------------------
(* Lemmas about the queue of packets.                                      *)

\* The places of the packets that wait are different elements, and the one
\* behind them is that of head.
LEMMA QueuePlaces ==
  ASSUME PqTyped
  PROVE  /\ PDU_Queue.head \in Counts /\ PDU_Queue.tail \in Counts
         /\ PDU_Queue.head \in Nat /\ PDU_Queue.tail \in Nat
         /\ Count(PDU_Queue) \in 0 .. ELEMENT_COUNT
         /\ Count(PDU_Queue) = IF PDU_Queue.tail <= PDU_Queue.head
                               THEN PDU_Queue.head - PDU_Queue.tail
                               ELSE PDU_Queue.head + UINT - PDU_Queue.tail
         /\ \A k \in Nat : Held(k) \in Elements
         /\ Held(Count(PDU_Queue)) = Element(PDU_Queue.head)
         /\ \A j, k \in Nat : j # k /\ j < k + ELEMENT_COUNT /\ k < j + ELEMENT_COUNT
                                => Held(j) # Held(k)
         /\ Element(PDU_Queue.head) \in Elements
<1> DEFINE h == PDU_Queue.head
           t == PDU_Queue.tail
           c == Count(PDU_Queue)
<1>1. h \in Counts /\ t \in Counts /\ h \in Nat /\ t \in Nat
  BY RingbufConstants DEF PqTyped, Counts
<1>2. /\ c \in 0 .. ELEMENT_COUNT
      /\ c = IF t <= h THEN h - t ELSE h + UINT - t
  <2>1. c = Minus(h, t)
    BY DEF Count
  <2>2. c \in Counts /\ c = IF t <= h THEN h - t ELSE h + UINT - t
    BY <1>1, <2>1, CountArithmetic
  <2>3. c <= ELEMENT_COUNT
    BY DEF PqTyped
  <2> QED
    BY <2>2, <2>3, RingbufConstants DEF Counts
<1>3. \A k \in Nat : Held(k) \in Elements
  BY <1>1, ElementTurns DEF Held
<1>4. Held(c) = Element(h)
  <2>1. CASE t <= h
    BY <1>1, <1>2, <2>1, t + c = h DEF Held
  <2>2. CASE ~ (t <= h)
    BY <1>1, <1>2, <2>2, RingbufConstants, t + c = h + UINT, ElementTurns DEF Held
  <2> QED
    BY <2>1, <2>2
<1>5. ASSUME NEW j \in Nat, NEW k \in Nat, j # k,
             j < k + ELEMENT_COUNT, k < j + ELEMENT_COUNT
      PROVE  Held(j) # Held(k)
  <2>1. t + j \in Nat /\ t + k \in Nat /\ t + j # t + k
    BY <1>1, <1>5
  <2>2. t + j < (t + k) + ELEMENT_COUNT /\ t + k < (t + j) + ELEMENT_COUNT
    BY <1>1, <1>5, RingbufConstants
  <2> QED
    BY <2>1, <2>2, ElementsApart DEF Held
<1> QED
  BY <1>1, <1>2, <1>3, <1>4, <1>5, ElementTurns

\* What is written to the element of head changes no packet that waits.
LEMMA WriteBehind ==
  ASSUME PqTyped, ~ Full(PDU_Queue),
         PDU_Queue'.head = PDU_Queue.head, PDU_Queue'.tail = PDU_Queue.tail,
         \A e \in Elements \ {Element(PDU_Queue.head)} :
           PDU_Queue'.buffer[e] = PDU_Queue.buffer[e]
  PROVE  /\ Count(PDU_Queue)' = Count(PDU_Queue)
         /\ \A k \in Nat : Held(k)' = Held(k)
         /\ \A k \in Places : InPlace(k)' = InPlace(k)
<1>1. Count(PDU_Queue)' = Count(PDU_Queue) /\ \A k \in Nat : Held(k)' = Held(k)
  BY DEF Count, Held
<1>2. ASSUME NEW k \in Places
      PROVE  InPlace(k)' = InPlace(k)
  <2>1. k \in Nat /\ k < Count(PDU_Queue) /\ Count(PDU_Queue) < ELEMENT_COUNT
    BY QueuePlaces, RingbufConstants DEF Places, Full
  <2>2. Held(k) # Element(PDU_Queue.head) /\ Held(k) \in Elements
    BY <2>1, QueuePlaces, RingbufConstants
  <2> QED
    BY <1>1, <2>1, <2>2 DEF InPlace
<1> QED
  BY <1>1, <1>2

\* A packet that is put waits behind all others.
LEMMA PutBehind ==
  ASSUME PqTyped, ~ Full(PDU_Queue),
         PDU_Queue' = [PDU_Queue EXCEPT !.head = Inc(@)]
  PROVE  /\ Count(PDU_Queue)' = Count(PDU_Queue) + 1
         /\ \A k \in Nat : Held(k)' = Held(k) /\ InPlace(k)' = InPlace(k)
         /\ PDU_Queue'.head \in Counts /\ PDU_Queue'.tail = PDU_Queue.tail
         /\ PDU_Queue'.buffer = PDU_Queue.buffer
         /\ PDU_Queue.head < PDU_Queue.tail => PDU_Queue'.head < PDU_Queue'.tail
<1> DEFINE h == PDU_Queue.head
           t == PDU_Queue.tail
<1>1. /\ PDU_Queue'.head = Inc(h) /\ PDU_Queue'.tail = t
      /\ PDU_Queue'.buffer = PDU_Queue.buffer
  BY DEF PqTyped
<1>2. /\ h \in Counts /\ t \in Counts /\ h \in Nat /\ t \in Nat /\ h < UINT /\ t < UINT
      /\ UINT \in Nat /\ ELEMENT_COUNT \in Nat
      /\ ELEMENT_COUNT < UINT /\ Count(PDU_Queue) < ELEMENT_COUNT
  BY QueuePlaces, RingbufConstants DEF Full, Counts
<1>3. /\ Inc(h) \in Counts
      /\ Inc(h) = IF h = UINT - 1 THEN 0 ELSE h + 1
  BY <1>2, CountArithmetic
<1>4. Count(PDU_Queue) = IF t <= h THEN h - t ELSE h + UINT - t
  BY QueuePlaces
<1>5. Count(PDU_Queue)' = Minus(Inc(h), t)
  BY <1>1 DEF Count
<1>6. Minus(Inc(h), t) = IF t <= Inc(h) THEN Inc(h) - t ELSE Inc(h) + UINT - t
  BY <1>2, <1>3, CountArithmetic
<1>7. Minus(Inc(h), t) = Count(PDU_Queue) + 1
  BY <1>2, <1>3, <1>4, <1>6
<1>8. h < t => Inc(h) < t
  BY <1>2, <1>3, <1>4
<1>9. \A k \in Nat : Held(k)' = Held(k) /\ InPlace(k)' = InPlace(k)
  BY <1>1 DEF Held, InPlace
<1> QED
  BY <1>1, <1>3, <1>5, <1>7, <1>8, <1>9

\* When tail moves on, each packet moves a place ahead.
LEMMA MoveAhead ==
  ASSUME PqTyped, 0 \in Places, PDU_Queue'.head = PDU_Queue.head,
         PDU_Queue'.tail = Inc(PDU_Queue.tail)
  PROVE  /\ Count(PDU_Queue)' = Count(PDU_Queue) - 1
         /\ \A k \in Nat : Held(k)' = Held(k + 1)
         /\ PDU_Queue'.tail \in Counts
<1> DEFINE h == PDU_Queue.head
           t == PDU_Queue.tail
<1>1. /\ h \in Counts /\ t \in Counts /\ h \in Nat /\ t \in Nat /\ h < UINT /\ t < UINT
      /\ UINT \in Nat /\ ELEMENT_COUNT \in Nat /\ ELEMENT_COUNT < UINT
      /\ 0 < Count(PDU_Queue) /\ Count(PDU_Queue) <= ELEMENT_COUNT
  BY QueuePlaces, RingbufConstants DEF Counts, Places
<1>2. /\ Inc(t) \in Counts
      /\ Inc(t) = IF t = UINT - 1 THEN 0 ELSE t + 1
  BY <1>1, CountArithmetic
<1>3. Count(PDU_Queue) = IF t <= h THEN h - t ELSE h + UINT - t
  BY QueuePlaces
<1>4. Minus(h, Inc(t)) = IF Inc(t) <= h THEN h - Inc(t) ELSE h + UINT - Inc(t)
  BY <1>1, <1>2, CountArithmetic
<1>5. Count(PDU_Queue)' = Count(PDU_Queue) - 1
  BY <1>1, <1>2, <1>3, <1>4 DEF Count
<1>6. ASSUME NEW k \in Nat
      PROVE  Held(k)' = Held(k + 1)
  <2>1. t + 1 + k = t + (k + 1)
    BY <1>1
  <2> QED
    BY <1>1, <2>1, ElementInc DEF Held
<1> QED
  BY <1>2, <1>5, <1>6

\* A reply that is removed from place k: the packets before it move a place
\* back, unless head has turned over and tail has not.
LEMMA PopFoundMoves ==
  ASSUME PqTyped, NEW k \in Places, NEW this_index \in Counts,
         this_index = PDU_Queue.tail + k \/ PDU_Queue.head < PDU_Queue.tail,
         PDU_Queue' = PopFound(PDU_Queue, this_index)
  PROVE  /\ PDU_Queue'.head = PDU_Queue.head
         /\ PDU_Queue'.tail = Inc(PDU_Queue.tail)
         /\ PDU_Queue' \in [head : Counts, tail : Counts,
                            buffer : [Elements -> [der : BOOLEAN, data : Data \cup {Nothing}]]]
         /\ \A j \in 0 .. Count(PDU_Queue) - 2 :
              InPlace(j)' = IF PDU_Queue.head < PDU_Queue.tail \/ j >= k
                            THEN InPlace(j + 1) ELSE InPlace(j)
         /\ ~ Full(PDU_Queue) => PDU_Queue'.buffer[Element(PDU_Queue.head)]
                                   = PDU_Queue.buffer[Element(PDU_Queue.head)]
<1> DEFINE h == PDU_Queue.head
           t == PDU_Queue.tail
           c == Count(PDU_Queue)
           moved == IF this_index < h THEN {n \in Counts : t < n /\ n <= this_index}
                    ELSE {}
           below(e) == PDU_Queue.buffer[(e + ELEMENT_COUNT - 1) % ELEMENT_COUNT]
           buffer == [e \in Elements |-> IF \E n \in moved : Element(n) = e
                                         THEN below(e) ELSE PDU_Queue.buffer[e]]
           Packet_ == [der : BOOLEAN, data : Data \cup {Nothing}]
<1>1. /\ h \in Counts /\ t \in Counts /\ h \in Nat /\ t \in Nat /\ h < UINT /\ t < UINT
      /\ UINT \in Nat /\ ELEMENT_COUNT \in Nat \ {0} /\ ELEMENT_COUNT < UINT
      /\ c \in Nat /\ c <= ELEMENT_COUNT /\ k \in Nat /\ k < c /\ this_index \in Nat
      /\ c = IF t <= h THEN h - t ELSE h + UINT - t
  BY QueuePlaces, RingbufConstants DEF Counts, Places
<1>2. /\ PDU_Queue'.head = h /\ PDU_Queue'.tail = Inc(t)
      /\ PDU_Queue'.buffer = buffer
      /\ PDU_Queue' = [PDU_Queue EXCEPT !.tail = Inc(t), !.buffer = buffer]
  BY DEF PqTyped, PopFound
<1>3. Inc(t) \in Counts
  BY <1>1, CountArithmetic
<1>4. \A e \in Elements : below(e) \in Packet_ /\ PDU_Queue.buffer[e] \in Packet_
  <2>1. PDU_Queue.buffer \in [Elements -> Packet_]
    BY DEF PqTyped
  <2>2. ASSUME NEW e \in Elements
        PROVE  (e + ELEMENT_COUNT - 1) % ELEMENT_COUNT \in Elements
    BY <1>1, Quotient, e + ELEMENT_COUNT - 1 \in Nat DEF Elements
  <2> QED
    BY <2>1, <2>2
<1>5. buffer \in [Elements -> Packet_]
  BY <1>4
<1> HIDE DEF buffer
<1>6. PDU_Queue' \in [head : Counts, tail : Counts, buffer : [Elements -> Packet_]]
  BY <1>2, <1>3, <1>5 DEF PqTyped
<1>7. h < t => moved = {}
  BY <1>1 DEF Counts
<1>8. ~ (h < t) => moved = {n \in Counts : t < n /\ n <= t + k}
  BY <1>1
<1> HIDE DEF moved
<1>9. ASSUME NEW j \in 0 .. c - 2
      PROVE  InPlace(j)' = IF h < t \/ j >= k THEN InPlace(j + 1) ELSE InPlace(j)
  <2>1. j \in Nat /\ j + 1 \in Nat /\ j + 1 < c
    BY <1>1
  <2>2. Held(j)' = Held(j + 1) /\ Held(j + 1) \in Elements
    BY <1>2, <2>1, MoveAhead, QueuePlaces, 0 \in Places, <1>1 DEF Places
  <2>3. InPlace(j)' = buffer[Held(j + 1)]
    BY <1>2, <2>2 DEF InPlace
  <2>4. CASE h < t \/ j >= k
    <3>1. ~ \E n \in moved : Element(n) = Held(j + 1)
      <4>1. CASE h < t
        BY <4>1, <1>7
      <4>2. CASE ~ (h < t) /\ j >= k
        <5>1. SUFFICES ASSUME NEW n \in moved
                       PROVE  Element(n) # Held(j + 1)
          OBVIOUS
        <5>2. n \in Nat /\ t < n /\ n <= t + k
          BY <1>8, <4>2, RingbufConstants DEF Counts
        <5>3. t + (j + 1) \in Nat /\ n # t + (j + 1) /\ n < t + (j + 1) + ELEMENT_COUNT
              /\ t + (j + 1) < n + ELEMENT_COUNT
          BY <1>1, <2>1, <4>2, <5>2
        <5> QED
          BY <5>2, <5>3, ElementsApart DEF Held
      <4> QED
        BY <2>4, <4>1, <4>2
    <3> QED
      BY <2>2, <2>3, <2>4, <3>1 DEF buffer, InPlace
  <2>5. CASE ~ (h < t) /\ j < k
    <3>1. t + (j + 1) \in moved /\ Element(t + (j + 1)) = Held(j + 1)
      BY <1>1, <1>8, <2>1, <2>5 DEF Counts, Held
    <3>2. InPlace(j)' = below(Held(j + 1))
      BY <2>2, <2>3, <3>1 DEF buffer
    <3>3. (Held(j + 1) + ELEMENT_COUNT - 1) % ELEMENT_COUNT = Held(j)
      BY <1>1, <2>1, t + (j + 1) \in Nat \ {0}, t + (j + 1) - 1 = t + j, ElementBelow
      DEF Held
    <3> QED
      BY <1>1, <2>1, <2>5, <3>2, <3>3 DEF InPlace
  <2> QED
    BY <1>1, <2>1, <2>4, <2>5
<1>10. ASSUME ~ Full(PDU_Queue)
       PROVE  buffer[Element(h)] = PDU_Queue.buffer[Element(h)]
  <2>1. Element(h) \in Elements
    BY QueuePlaces
  <2>2. ~ \E n \in moved : Element(n) = Element(h)
    <3>1. CASE h < t
      BY <3>1, <1>7
    <3>2. CASE ~ (h < t)
      <4>1. SUFFICES ASSUME NEW n \in moved
                     PROVE  Element(n) # Element(h)
        OBVIOUS
      <4>2. n \in Nat /\ t < n /\ n <= t + k
        BY <1>8, <3>2, RingbufConstants DEF Counts
      <4>3. n # h /\ n < h + ELEMENT_COUNT /\ h < n + ELEMENT_COUNT
        BY <1>1, <3>2, <4>2
      <4> QED
        BY <1>1, <4>2, <4>3, ElementsApart
    <3> QED
      BY <3>1, <3>2
  <2> QED
    BY <2>1, <2>2 DEF buffer
<1> QED
  BY <1>2, <1>6, <1>9, <1>10

----------------------------------------------------------------------------
(* The invariant is inductive.                                             *)

LEMMA PqInitially == PqInit => PqIInv
<1> SUFFICES ASSUME PqInit
             PROVE  PqIInv
  OBVIOUS
<1>1. 0 \in Counts /\ UINT \in Nat \ {0} /\ ELEMENT_COUNT \in Nat
  BY RingbufConstants DEF Counts
<1>2. /\ PDU_Queue = [head |-> 0, tail |-> 0, buffer |-> [e \in Elements |-> ZeroPacket]]
      /\ ZeroPacket \in [der : BOOLEAN, data : Data \cup {Nothing}]
  BY DEF PqInit, RingbufInit, ZeroPacket
<1>3. Count(PDU_Queue) = 0 /\ Places = {}
  BY <1>1, <1>2, CountArithmetic DEF Count, Places
<1>4. PqTyped
  BY <1>1, <1>2, <1>3 DEF PqInit, PqTyped, IdleStack, IdleMaster, StackPcs, MasterPcs
<1>5. Filling /\ Inbox /\ Reading
  BY <1>3 DEF PqInit, Filling, Inbox, Reading, IdleStack, IdleMaster, At, LinuxPcs, AskedPcs
<1> QED
  BY <1>4, <1>5 DEF PqIInv

\* Every step keeps the variables and the locals of both threads typed.
LEMMA PqTypedKept ==
  ASSUME PqIInv, PqNext
  PROVE  PqTyped'
<1> DEFINE Packet_ == [der : BOOLEAN, data : Data \cup {Nothing}]
           Queue_  == [head : Counts, tail : Counts, buffer : [Elements -> Packet_]]
           Stack_  == [pc : StackPcs, data : Data \cup Frames \cup {Nothing},
                       e : Elements \cup {NoElement}]
           Master_ == [pc : MasterPcs, frame : Frames \cup {Nothing},
                       e : Elements \cup {NoElement}, index : Counts, pkt : Packet_]
           Inbox_  == [ready : BOOLEAN, pdu : Frames \cup {Nothing}, pdu_len : BOOLEAN]
<1>1. /\ PDU_Queue \in Queue_ /\ Count(PDU_Queue) <= ELEMENT_COUNT
      /\ Receive_Packet \in Inbox_ /\ flag \in 0 .. 1 /\ stack \in Stack_
      /\ master \in Master_ /\ driver \in {"dlmstp", "dlmstp_linux"}
  BY DEF PqIInv, PqTyped
<1>2. /\ IdleStack \in Stack_ /\ IdleMaster \in Master_ /\ ZeroPacket \in Packet_
  BY CountArithmetic, RingbufConstants
  DEF IdleStack, IdleMaster, ZeroPacket, StackPcs, MasterPcs, Counts
<1>3. \A b \in Queue_ : Peek(b) \in Elements \cup {NoElement}
                        /\ DataPeek(b) \in Elements \cup {NoElement}
  BY ElementTurns, RingbufConstants DEF Peek, DataPeek, Counts
<1>4. SUFFICES /\ PDU_Queue' \in Queue_ /\ Count(PDU_Queue)' <= ELEMENT_COUNT
               /\ Receive_Packet' \in Inbox_ /\ flag' \in 0 .. 1 /\ stack' \in Stack_
               /\ master' \in Master_ /\ driver' = driver
  BY <1>1 DEF PqTyped
<1>5. UNCHANGED PDU_Queue => PDU_Queue' \in Queue_ /\ Count(PDU_Queue)' <= ELEMENT_COUNT
  BY <1>1 DEF Count
<1>6. \A d \in Data : SendPdu(d) => stack' \in Stack_
  BY <1>2, <1>3, <1>1 DEF SendPdu, StackGoes, StackPcs
<1>7. CASE \E d \in Own : SendOwn(d)
  BY <1>7, <1>1, <1>5, <1>6 DEF SendOwn, SendPdu, SendUnchanged, Data
<1>8. CASE SendReply
  BY <1>8, <1>1, <1>5, <1>6 DEF SendReply, SendPdu, SendUnchanged, Data
<1>9. CASE LeaveUnanswered
  BY <1>9, <1>1, <1>2, <1>5 DEF LeaveUnanswered, StackGoes, SendUnchanged
<1>10. CASE FillDer
  <2>1. /\ stack' = [stack EXCEPT !.pc = "FILL_DATA"]
        /\ PDU_Queue' = [PDU_Queue EXCEPT !.buffer[stack.e].der = stack.data \in Expecting]
        /\ UNCHANGED <<driver, Receive_Packet, flag, master>>
    BY <1>10 DEF FillDer, StackGoes, SendUnchanged
  <2>2. stack' \in Stack_
    BY <2>1, <1>1 DEF StackPcs
  <2>3. PICK der \in BOOLEAN : PDU_Queue' = [PDU_Queue EXCEPT !.buffer[stack.e].der = der]
    <3>1. (stack.data \in Expecting) \in BOOLEAN
      OBVIOUS
    <3> QED
      BY <2>1, <3>1, Zenon
  <2>4. PDU_Queue' \in Queue_ /\ PDU_Queue'.head = PDU_Queue.head
        /\ PDU_Queue'.tail = PDU_Queue.tail
    <3>1. PDU_Queue.buffer \in [Elements -> Packet_]
      BY <1>1
    <3>2. [PDU_Queue.buffer EXCEPT ![stack.e].der = der] \in [Elements -> Packet_]
      BY <3>1
    <3> QED
      BY <2>3, <3>2, <1>1
  <2> QED
    BY <2>1, <2>2, <2>4, <1>1 DEF Count
<1>11. CASE FillData
  <2>1. /\ stack' = [stack EXCEPT !.pc = "PUT"]
        /\ PDU_Queue' = [PDU_Queue EXCEPT !.buffer[stack.e].data = stack.data]
        /\ UNCHANGED <<driver, Receive_Packet, flag, master>>
    BY <1>11 DEF FillData, StackGoes, SendUnchanged
  <2>2. stack' \in Stack_
    BY <2>1, <1>1 DEF StackPcs
  <2>3. stack.data \in Data
    BY <1>11 DEF FillData, At, PqIInv, Filling
  <2>4. PDU_Queue' \in Queue_ /\ PDU_Queue'.head = PDU_Queue.head
        /\ PDU_Queue'.tail = PDU_Queue.tail
    BY <2>1, <2>3, <1>1
  <2> QED
    BY <2>1, <2>2, <2>4, <1>1 DEF Count
<1>12. CASE Put
  <2>1. /\ stack' = IdleStack /\ PDU_Queue' = DataPut(PDU_Queue, stack.e)
        /\ UNCHANGED <<driver, Receive_Packet, flag, master>>
    BY <1>12 DEF Put, StackGoes, SendUnchanged
  <2>2. ~ Full(PDU_Queue) /\ stack.e = Element(PDU_Queue.head)
    BY <1>12 DEF Put, At, PqIInv, Filling
  <2>3. PDU_Queue' = [PDU_Queue EXCEPT !.head = Inc(@)]
    BY <2>1, <2>2 DEF DataPut
  <2>4. Count(PDU_Queue)' = Count(PDU_Queue) + 1 /\ PDU_Queue'.head \in Counts
    BY <2>2, <2>3, PutBehind DEF PqIInv
  <2>5. PDU_Queue' \in Queue_
    BY <2>3, <2>4, <1>1
  <2>6. Count(PDU_Queue)' <= ELEMENT_COUNT
    BY <2>2, <2>4, QueuePlaces, RingbufConstants DEF PqIInv, Full
  <2> QED
    BY <2>1, <2>5, <2>6, <1>1, <1>2
<1>13. CASE CallReceive
  BY <1>13, <1>1, <1>5 DEF CallReceive, StackGoes, StackPcs
<1>14. Take \in Frames \cup {Nothing}
  BY <1>1 DEF Take
<1>15. \A f \in Frames \cup {Nothing} : Handle(f) \in Stack_
  BY <1>2 DEF Handle, IdleStack, StackPcs
<1>16. CASE Wake
  <2>1. /\ stack' = Handle(IF Receive_Packet.ready THEN Take ELSE Nothing)
        /\ Receive_Packet' = [Receive_Packet EXCEPT !.ready = FALSE]
        /\ flag' = 0 /\ UNCHANGED <<driver, PDU_Queue, master>>
    BY <1>16 DEF Wake, StackGoes, ReceiveUnchanged
  <2>2. (IF Receive_Packet.ready THEN Take ELSE Nothing) \in Frames \cup {Nothing}
    BY <1>14
  <2>3. stack' \in Stack_
    BY <2>1, <2>2, <1>15
  <2>4. Receive_Packet' \in Inbox_
    BY <2>1, <1>1
  <2>5. flag' \in 0 .. 1
    BY <2>1
  <2> QED
    BY <2>1, <2>3, <2>4, <2>5, <1>1, <1>5
<1>17. CASE TimedWait
  BY <1>17, <1>1, <1>2, <1>5 DEF TimedWait, StackGoes, ReceiveUnchanged, StackPcs
<1>18. CASE Copy
  BY <1>18, <1>1, <1>2, <1>5, <1>14 DEF Copy, StackGoes, ReceiveUnchanged, StackPcs
<1>19. CASE Clear
  <2>1. /\ stack' = Handle(Take)
        /\ Receive_Packet' = [Receive_Packet EXCEPT !.ready = FALSE]
        /\ UNCHANGED <<driver, PDU_Queue, master, flag>>
    BY <1>19 DEF Clear, At, StackGoes, ReceiveUnchanged, PqIInv, Inbox
  <2> QED
    BY <2>1, <1>1, <1>5, <1>14, <1>15
<1>20. StackNext => /\ PDU_Queue' \in Queue_ /\ Count(PDU_Queue)' <= ELEMENT_COUNT
                    /\ Receive_Packet' \in Inbox_ /\ flag' \in 0 .. 1 /\ stack' \in Stack_
                    /\ master' \in Master_ /\ driver' = driver
  BY <1>7, <1>8, <1>9, <1>10, <1>11, <1>12, <1>13, <1>16, <1>17, <1>18, <1>19
  DEF StackNext, StackGoesOn
<1>21. \A f \in Frames : AfterPut(f) \in Master_ /\ Filled(f) \in Inbox_
  BY <1>2 DEF AfterPut, IdleMaster, MasterPcs, AskedPcs, Filled
<1>22. CASE \E f \in Frames : PutReceive(f)
  <2>1. PICK f \in Frames : PutReceive(f)
    BY <1>22
  <2>2. [Filled(f) EXCEPT !.ready = TRUE] \in Inbox_
    BY DEF Filled
  <2>4. Receive_Packet' \in Inbox_ /\ flag' \in 0 .. 1
    <3>1. CASE Receive_Packet.ready
      BY <2>1, <3>1, <1>1 DEF PutReceive
    <3>2. CASE ~ Receive_Packet.ready
      <4>1. Receive_Packet' = [Filled(f) EXCEPT !.ready = TRUE]
        BY <2>1, <3>2 DEF PutReceive
      <4>2. flag' = 0 \/ flag' = 1
        BY <2>1, <3>2 DEF PutReceive
      <4>3. flag' \in 0 .. 1
        BY <4>2
      <4> QED
        BY <2>2, <4>1, <4>3
    <3> QED
      BY <3>1, <3>2
  <2>3. /\ master' = AfterPut(f) /\ UNCHANGED <<driver, PDU_Queue, stack>>
    BY <2>1 DEF PutReceive, MasterGoes, QueueUnchanged
  <2> QED
    BY <2>3, <2>4, <1>1, <1>5, <1>21
<1>23. CASE \E f \in Frames : TestReady(f)
  <2>1. PICK f \in Frames : TestReady(f)
    BY <1>23
  <2>2. master' \in Master_
    BY <2>1, <1>2, <1>21 DEF TestReady, MasterGoes, MasterPcs, LinuxPcs
  <2> QED
    BY <2>1, <2>2, <1>1, <1>5 DEF TestReady, QueueUnchanged
<1>24. CASE Fill
  BY <1>24, <1>1, <1>5, <1>21
  DEF Fill, At, MasterGoes, QueueUnchanged, PqIInv, Inbox, MasterPcs, LinuxPcs
<1>25. CASE SetReady
  BY <1>25, <1>1, <1>5 DEF SetReady, MasterGoes, QueueUnchanged, MasterPcs, LinuxPcs
<1>26. CASE Post
  BY <1>26, <1>1, <1>5, <1>21 DEF Post, At, MasterGoes, QueueUnchanged, PqIInv, Inbox
<1>27. Empty(PDU_Queue) \/ First \in Packet_
  <2>1. Element(PDU_Queue.tail) \in Elements /\ PDU_Queue.buffer \in [Elements -> Packet_]
    BY <1>1, RingbufConstants, ElementTurns DEF Counts
  <2> QED
    BY <2>1 DEF First, Peek
<1>28. CASE GetSend
  <2>1. First.der \in BOOLEAN /\ "SEND_DATA" \in MasterPcs
    BY <1>27, <1>28 DEF GetSend, MasterPcs
  <2>2. master' = [master EXCEPT !.pc = "SEND_DATA", !.pkt.der = First.der]
    BY <1>28 DEF GetSend, MasterGoes
  <2>3. master' \in Master_
    BY <2>1, <2>2, <1>1
  <2> QED
    BY <1>28, <2>3, <1>1, <1>5 DEF GetSend, MasterUnchanged, QueueKept
<1>29. CASE SendData
  <2>1. First \in Packet_
    BY <1>27, <1>29, QueuePlaces, RingbufConstants
    DEF SendData, At, PqIInv, Reading, Places, Empty
  <2> QED
    BY <2>1, <1>29, <1>1, <1>5
    DEF SendData, MasterGoes, MasterUnchanged, QueueKept, MasterPcs
<1>30. Out \in Master_
  BY <1>1, <1>2 DEF Out, IdleMaster, MasterPcs
<1>31. CASE SendFrame
  BY <1>31, <1>1, <1>2, <1>5 DEF SendFrame, MasterGoes, MasterUnchanged, QueueKept
<1>32. CASE PopFirst
  <2>1. /\ master' = Out /\ PDU_Queue' = Pop(PDU_Queue)
        /\ UNCHANGED <<driver, Receive_Packet, flag, stack>>
    BY <1>32 DEF PopFirst, MasterGoes, MasterUnchanged
  <2>2. 0 \in Places /\ ~ Empty(PDU_Queue)
    BY <1>32, QueuePlaces, RingbufConstants
    DEF PopFirst, At, PqIInv, Reading, Places, Empty
  <2>3. PDU_Queue' = [PDU_Queue EXCEPT !.tail = Inc(@)]
    BY <2>1, <2>2 DEF Pop
  <2>4. PDU_Queue'.head = PDU_Queue.head /\ PDU_Queue'.tail = Inc(PDU_Queue.tail)
    BY <2>3, <1>1
  <2>5. Count(PDU_Queue)' = Count(PDU_Queue) - 1 /\ PDU_Queue'.tail \in Counts
    BY <2>2, <2>4, MoveAhead DEF PqIInv
  <2>6. PDU_Queue' \in Queue_
    BY <2>3, <2>4, <2>5, <1>1
  <2>7. Count(PDU_Queue)' <= ELEMENT_COUNT
    BY <2>5, QueuePlaces, RingbufConstants DEF PqIInv
  <2> QED
    BY <2>1, <2>6, <2>7, <1>1, <1>30
<1>33. ASSUME NEW e \in Elements \cup {NoElement}, NEW this \in Master_
       PROVE  Compare(e, this) \in Master_
  <2>1. NoReply \in Master_
    BY <1>1 DEF NoReply, MasterPcs, AskedPcs
  <2>2. e # NoElement => PDU_Queue.buffer[e] \in Packet_
    BY <1>1
  <2> QED
    <3>1. CASE e = NoElement
      BY <3>1, <2>1 DEF Compare
    <3>2. CASE e # NoElement
      <4>1. PDU_Queue.buffer[e].der \in BOOLEAN /\ "REPLY_DATA" \in MasterPcs
        BY <3>2, <2>2 DEF MasterPcs, AskedPcs
      <4>2. [master EXCEPT !.pc = "REPLY_DATA", !.e = e,
                           !.pkt.der = PDU_Queue.buffer[e].der] \in Master_
        BY <4>1, <1>1
      <4> QED
        BY <3>2, <4>2 DEF Compare
    <3> QED
      BY <3>1, <3>2
<1>34. CASE CompareFirst
  <2>1. [master EXCEPT !.pc = "NEXT", !.e = Peek(PDU_Queue)] \in Master_ /\ NoReply \in Master_
    BY <1>1, <1>3 DEF NoReply, MasterPcs, AskedPcs
  <2>2. master' \in Master_
    BY <1>34, <2>1, <1>1, <1>3, <1>33 DEF CompareFirst, MasterGoes
  <2> QED
    BY <1>34, <2>2, <1>1, <1>5 DEF CompareFirst, MasterUnchanged, QueueKept
<1>35. CASE CompareNext
  <2>1. PeekNext(PDU_Queue, master.e) \in Elements \cup {NoElement}
    BY <1>1, ElementTurns, RingbufConstants DEF PeekNext, Counts
  <2>2. [master EXCEPT !.e = PeekNext(PDU_Queue, master.e)] \in Master_
    BY <2>1, <1>1
  <2>3. master' \in Master_
    BY <1>35, <2>1, <2>2, <1>33 DEF CompareNext, MasterGoes
  <2> QED
    BY <1>35, <2>3, <1>1, <1>5 DEF CompareNext, MasterUnchanged, QueueKept
<1>36. CASE ReplyData
  <2>1. master.e \in Elements /\ PDU_Queue.buffer[master.e] \in Packet_
    BY <1>36, <1>1, QueuePlaces DEF ReplyData, At, PqIInv, Reading, Found, Places
  <2>2. 0 \in Counts
    BY RingbufConstants DEF Counts
  <2> QED
    BY <1>36, <2>1, <2>2, <1>1, <1>5
    DEF ReplyData, MasterGoes, MasterUnchanged, QueueKept, MasterPcs, LinuxPcs
<1>37. CASE FindReply
  <2>1. FindElement(PDU_Queue, master.e, master.index) \in Counts
    BY <1>1 DEF FindElement
  <2> QED
    BY <1>37, <2>1, <1>1, <1>5
    DEF FindReply, MasterGoes, MasterUnchanged, QueueKept, MasterPcs, LinuxPcs
<1>38. CASE PopReply
  <2>1. /\ master' = Out /\ PDU_Queue' = PopFound(PDU_Queue, master.index)
        /\ UNCHANGED <<driver, Receive_Packet, flag, stack>>
    BY <1>38 DEF PopReply, MasterGoes, MasterUnchanged
  <2>2. PICK k \in Places : \/ master.index = PDU_Queue.tail + k
                            \/ PDU_Queue.head < PDU_Queue.tail
    BY <1>38 DEF PopReply, At, PqIInv, Reading
  <2>3. /\ PDU_Queue'.head = PDU_Queue.head /\ PDU_Queue'.tail = Inc(PDU_Queue.tail)
        /\ PDU_Queue' \in Queue_
    BY <2>1, <2>2, <1>1, PopFoundMoves DEF PqIInv
  <2>4. 0 \in Places
    BY <2>2, QueuePlaces, RingbufConstants DEF PqIInv, Places
  <2>5. Count(PDU_Queue)' = Count(PDU_Queue) - 1
    BY <2>3, <2>4, MoveAhead DEF PqIInv
  <2>6. Count(PDU_Queue)' <= ELEMENT_COUNT
    BY <2>5, QueuePlaces, RingbufConstants DEF PqIInv
  <2> QED
    BY <2>1, <2>3, <2>6, <1>1, <1>30
<1>39. CASE PostponeReply
  BY <1>39, <1>1, <1>2, <1>5 DEF PostponeReply, MasterGoes, MasterUnchanged, QueueKept
<1> QED
  BY <1>20, <1>22, <1>23, <1>24, <1>25, <1>26, <1>28, <1>29, <1>31, <1>32, <1>34, <1>35,
     <1>36, <1>37, <1>38, <1>39 DEF PqNext, MasterNext, MasterGoesOn

\* The stack's thread and the master's thread keep off each other's hands at
\* the received packet.
LEMMA InboxKept ==
  ASSUME PqIInv, PqNext
  PROVE  Inbox'
<1>1. PqTyped /\ Inbox
  BY DEF PqIInv
<1>2. flag \in 0 .. 1 /\ "pc" \in DOMAIN stack /\ "pc" \in DOMAIN master
  BY <1>1 DEF PqTyped
<1>3. Nothing \notin Frames /\ Requests \subseteq Frames
  BY PacketQueuesConstants DEF Frames
<1>4. \A d : SendPdu(d) => /\ stack'.pc \in {"LOOP", "FILL_DER"}
                           /\ UNCHANGED <<driver, Receive_Packet, flag, master>>
  BY DEF SendPdu, StackGoes, IdleStack, SendUnchanged
<1>5. CASE \E d \in Own : SendOwn(d)
  BY <1>5, <1>4, <1>1 DEF SendOwn, Inbox, At, Linux, Filled
<1>6. CASE SendReply
  BY <1>6, <1>4, <1>1 DEF SendReply, Inbox, At, Linux, Filled
<1>7. CASE LeaveUnanswered
  BY <1>7, <1>1 DEF LeaveUnanswered, StackGoes, SendUnchanged, IdleStack, Inbox, At, Linux,
                    Filled
<1>8. CASE FillDer \/ FillData \/ Put
  <2>1. stack'.pc \in {"FILL_DATA", "PUT", "LOOP"}
        /\ UNCHANGED <<driver, Receive_Packet, flag, master>>
    BY <1>8, <1>1
    DEF FillDer, FillData, Put, StackGoes, SendUnchanged, IdleStack, PqTyped
  <2> QED
    BY <2>1, <1>1 DEF Inbox, At, Linux, Filled
<1>9. CASE CallReceive
  <2>1. stack'.pc = "WAIT" /\ UNCHANGED <<driver, Receive_Packet, flag, master>>
    BY <1>9, <1>1 DEF CallReceive, StackGoes, PqTyped
  <2> QED
    BY <2>1, <1>1 DEF Inbox, At, Linux, Filled
<1>10. \A f : /\ Handle(f).pc \in {"LOOP", "HANDLE"}
              /\ Handle(f).pc = "HANDLE" => f # Nothing /\ Handle(f).data = f
  BY DEF Handle, IdleStack
<1>11. Receive_Packet.ready => Take \in Frames \cup {Nothing}
  BY <1>1 DEF Take, Inbox
<1>12. CASE Wake
  <2>1. /\ stack' = Handle(IF Receive_Packet.ready THEN Take ELSE Nothing)
        /\ Receive_Packet' = [Receive_Packet EXCEPT !.ready = FALSE]
        /\ UNCHANGED <<driver, PDU_Queue, master>> /\ ~ Linux
    BY <1>12 DEF Wake, StackGoes, ReceiveUnchanged
  <2>2. /\ stack'.pc \in {"LOOP", "HANDLE"}
        /\ stack'.pc = "HANDLE" => stack'.data \in Frames
    BY <2>1, <1>10, <1>11
  <2>3. Receive_Packet'.ready = FALSE
    BY <2>1, <1>1 DEF PqTyped
  <2> QED
    BY <2>1, <2>2, <2>3, <1>1 DEF Inbox, At, Linux, LinuxPcs
<1>13. CASE TimedWait
  <2>1. /\ UNCHANGED <<driver, Receive_Packet, master>> /\ Linux
        /\ \/ flag = 1 /\ flag' = 0 /\ stack'.pc = "COPY"
           \/ flag = 0 /\ flag' = 0 /\ stack'.pc = "LOOP"
    BY <1>13, <1>1 DEF TimedWait, StackGoes, ReceiveUnchanged, IdleStack, PqTyped
  <2> QED
    BY <2>1, <1>1 DEF Inbox, At, Linux, Filled
<1>14. CASE Copy
  <2>1. /\ UNCHANGED <<driver, Receive_Packet, flag, master>> /\ stack.pc = "COPY"
        /\ stack'.pc = "CLEAR" /\ stack'.data = Take
    BY <1>14, <1>1 DEF Copy, At, StackGoes, ReceiveUnchanged, PqTyped, Inbox
  <2> QED
    BY <2>1, <1>1 DEF Inbox, At, Linux, Filled, Take
<1>15. CASE Clear
  <2>1. /\ stack.pc = "CLEAR" /\ stack' = Handle(stack.data) /\ stack.data = Take
        /\ Receive_Packet' = [Receive_Packet EXCEPT !.ready = FALSE]
        /\ UNCHANGED <<driver, flag, master>>
    BY <1>15, <1>1 DEF Clear, At, StackGoes, ReceiveUnchanged, Inbox
  <2>2. Linux /\ Receive_Packet.ready /\ flag = 0 /\ master.pc # "POST"
        /\ master.pc \notin {"FILL", "READY"}
    BY <2>1, <1>1 DEF Inbox, At
  <2>3. /\ stack'.pc \in {"LOOP", "HANDLE"}
        /\ stack'.pc = "HANDLE" => stack'.data \in Frames
    BY <2>1, <2>2, <1>10, <1>11
  <2>4. Receive_Packet'.ready = FALSE
    BY <2>1, <1>1 DEF PqTyped
  <2> QED
    BY <2>1, <2>2, <2>3, <2>4, <1>1 DEF Inbox, At, Linux
<1>16. \A f \in Frames : AfterPut(f).pc \in {"IDLE", "ANSWER"}
  BY DEF AfterPut, IdleMaster
<1>17. CASE \E f \in Frames : PutReceive(f)
  <2>1. PICK f \in Frames : PutReceive(f)
    BY <1>17
  <2>2. /\ master'.pc \in {"IDLE", "ANSWER"} /\ ~ Linux /\ driver' = driver /\ stack' = stack
        /\ \/ Receive_Packet' = Receive_Packet
           \/ Receive_Packet' = [Filled(f) EXCEPT !.ready = TRUE]
    BY <2>1, <1>16 DEF PutReceive, MasterGoes, QueueUnchanged
  <2>3. Receive_Packet'.ready => /\ Receive_Packet'.pdu \in Frames
          /\ Receive_Packet'.pdu_len = (Receive_Packet'.pdu \notin EmptyFrames)
    BY <2>2, <1>1 DEF Inbox, Filled
  <2> QED
    BY <2>2, <2>3, <1>1 DEF Inbox, At, Linux, LinuxPcs
<1>18. CASE \E f \in Frames : TestReady(f)
  <2>1. PICK f \in Frames : TestReady(f)
    BY <1>18
  <2>2. /\ Linux /\ UNCHANGED <<driver, stack, Receive_Packet, flag>>
        /\ \/ master'.pc \in {"IDLE", "ANSWER"}
           \/ ~ Receive_Packet.ready /\ master'.pc = "FILL" /\ master'.frame = f
    BY <2>1, <1>16 DEF TestReady, MasterGoes, QueueUnchanged, IdleMaster
  <2> QED
    BY <2>2, <1>1 DEF Inbox, At, Linux, LinuxPcs, Take
<1>19. CASE Fill
  <2>1. /\ master.pc = "FILL" /\ master'.pc = "READY" /\ master'.frame = master.frame
        /\ Receive_Packet' = Filled(master.frame)
        /\ UNCHANGED <<driver, stack, flag>>
    BY <1>19, <1>1 DEF Fill, At, MasterGoes, QueueUnchanged, PqTyped
  <2>2. Linux /\ ~ Receive_Packet.ready /\ master.frame \in Frames
    BY <2>1, <1>1 DEF Inbox, LinuxPcs
  <2>3. stack.pc \notin {"COPY", "CLEAR"} /\ flag # 1
    BY <2>2, <1>1 DEF Inbox
  <2>4. Receive_Packet'.ready = FALSE
    BY <2>1 DEF Filled
  <2> QED
    BY <2>1, <2>2, <2>3, <2>4, <1>1 DEF Inbox, At, Linux, LinuxPcs, Filled
<1>20. CASE SetReady
  <2>1. /\ master.pc = "READY" /\ master'.pc = "POST" /\ master'.frame = master.frame
        /\ Receive_Packet' = [Receive_Packet EXCEPT !.ready = TRUE]
        /\ UNCHANGED <<driver, stack, flag>>
    BY <1>20, <1>1 DEF SetReady, At, MasterGoes, QueueUnchanged, PqTyped
  <2>2. Linux /\ ~ Receive_Packet.ready /\ master.frame \in Frames
        /\ Receive_Packet = Filled(master.frame)
    BY <2>1, <1>1 DEF Inbox, At, LinuxPcs
  <2>3. stack.pc \notin {"COPY", "CLEAR"} /\ flag = 0
    BY <2>2, <1>1, <1>2 DEF Inbox
  <2>4. /\ Receive_Packet'.ready /\ Receive_Packet'.pdu = master.frame
        /\ Receive_Packet'.pdu_len = (master.frame \notin EmptyFrames)
    BY <2>1, <2>2 DEF Filled
  <2> QED
    BY <2>1, <2>2, <2>3, <2>4, <1>1 DEF Inbox, At, Linux, LinuxPcs
<1>21. CASE Post
  <2>1. /\ master.pc = "POST" /\ flag' = flag + 1 /\ master.frame \in Frames
        /\ UNCHANGED <<driver, stack, Receive_Packet>>
        /\ master'.pc \in {"IDLE", "ANSWER"}
    BY <1>21, <1>1, <1>16 DEF Post, At, MasterGoes, QueueUnchanged, Inbox
  <2>2. Receive_Packet.ready /\ stack.pc \notin {"COPY", "CLEAR"}
    BY <2>1, <1>1 DEF Inbox, At
  <2> QED
    BY <2>1, <2>2, <1>1 DEF Inbox, At, Linux, LinuxPcs
<1>22. CASE \/ GetSend \/ SendData \/ SendFrame \/ PopFirst \/ CompareFirst \/ CompareNext
            \/ ReplyData \/ FindReply \/ PopReply \/ PostponeReply
  <2>1. UNCHANGED <<driver, Receive_Packet, flag, stack>>
    BY <1>22 DEF GetSend, SendData, SendFrame, PopFirst, CompareFirst, CompareNext,
                 ReplyData, FindReply, PopReply, PostponeReply, MasterUnchanged
  <2>2. /\ master'.pc \in MasterPcs \ {"FILL", "READY", "POST"}
        /\ master'.pc \in LinuxPcs => Linux
    <3>1. CASE GetSend \/ SendData \/ SendFrame \/ PopFirst \/ PopReply \/ PostponeReply
      <4>1. master'.pc \in {"SEND_DATA", "POP", "IDLE", "SEND_FRAME"}
        <5>1. CASE GetSend \/ SendData
          BY <5>1, <1>1 DEF GetSend, SendData, MasterGoes, PqTyped
        <5>2. CASE SendFrame \/ PopFirst \/ PopReply \/ PostponeReply
          <6>1. master' = IdleMaster \/ master' = Out
            BY <5>2 DEF SendFrame, PopFirst, PopReply, PostponeReply, MasterGoes
          <6>2. Out.pc = "SEND_FRAME" /\ IdleMaster.pc = "IDLE"
            BY DEF Out, IdleMaster
          <6> QED
            BY <6>1, <6>2
        <5> QED
          BY <3>1, <5>1, <5>2
      <4> QED
        BY <4>1 DEF MasterPcs, LinuxPcs
    <3>2. /\ NoReply.pc = "NO_REPLY"
          /\ \A e, this : \/ Compare(e, this).pc = "NO_REPLY"
                          \/ Compare(e, this).pc = "REPLY_DATA"
                          \/ Compare(e, this).pc = this.pc
      BY <1>1 DEF Compare, NoReply, PqTyped
    <3>3. CASE CompareFirst
      <4>1. \/ master'.pc \in {"NO_REPLY", "REPLY_DATA"}
            \/ Linux /\ master'.pc = "NEXT"
        <5>1. CASE Linux
          <6>1. master' = Compare(Peek(PDU_Queue),
                                  [master EXCEPT !.pc = "NEXT", !.e = Peek(PDU_Queue)])
            BY <3>3, <5>1 DEF CompareFirst, MasterGoes
          <6>2. [master EXCEPT !.pc = "NEXT", !.e = Peek(PDU_Queue)].pc = "NEXT"
            BY <1>1 DEF PqTyped
          <6> QED
            BY <5>1, <6>1, <6>2, <3>2
        <5>2. CASE ~ Linux
          <6>1. master' = Compare(Peek(PDU_Queue), NoReply)
            BY <3>3, <5>2 DEF CompareFirst, MasterGoes
          <6> QED
            BY <6>1, <3>2
        <5> QED
          BY <5>1, <5>2
      <4> QED
        BY <4>1 DEF MasterPcs, LinuxPcs, AskedPcs
    <3>4. CASE CompareNext
      <4>1. /\ master' = Compare(PeekNext(PDU_Queue, master.e),
                                 [master EXCEPT !.e = PeekNext(PDU_Queue, master.e)])
            /\ master.pc = "NEXT"
        BY <3>4 DEF CompareNext, MasterGoes, At
      <4>2. [master EXCEPT !.e = PeekNext(PDU_Queue, master.e)].pc = "NEXT"
        BY <4>1, <1>1 DEF PqTyped
      <4>3. Linux /\ master'.pc \in {"NO_REPLY", "REPLY_DATA", "NEXT"}
        BY <4>1, <4>2, <3>2, <1>1 DEF Inbox, LinuxPcs
      <4> QED
        BY <4>3 DEF MasterPcs, LinuxPcs, AskedPcs
    <3>5. CASE ReplyData
      BY <3>5, <1>1 DEF ReplyData, MasterGoes, PqTyped, MasterPcs, LinuxPcs
    <3>6. CASE FindReply
      BY <3>6, <1>1 DEF FindReply, At, MasterGoes, PqTyped, MasterPcs, LinuxPcs, Inbox
    <3> QED
      BY <1>22, <3>1, <3>3, <3>4, <3>5, <3>6
  <2> QED
    BY <2>1, <2>2, <1>1 DEF Inbox, At, Linux, LinuxPcs, Take
<1> QED
  BY <1>5, <1>6, <1>7, <1>8, <1>9, <1>12, <1>13, <1>14, <1>15, <1>17, <1>18, <1>19, <1>20,
     <1>21, <1>22
  DEF PqNext, StackNext, StackGoesOn, MasterNext, MasterGoesOn

\* A packet that waits does not change, and the one behind them is what the
\* stack's thread says it is.
LEMMA FillingKept ==
  ASSUME PqIInv, PqNext
  PROVE  Filling'
<1> DEFINE next == PDU_Queue'.buffer
<1>1. PqTyped /\ Filling /\ Inbox /\ Reading
  BY DEF PqIInv
<1>2. \A d \in Data : Packet(d) \in Packets
  BY DEF Packets
<1>3. CASE UNCHANGED PDU_Queue /\ stack'.pc \notin {"FILL_DER", "FILL_DATA", "PUT"}
  BY <1>3, <1>1 DEF Filling, At, Places, Count, InPlace, Held
<1>4. \A d \in Data : SendPdu(d) => Filling'
  <2>1. SUFFICES ASSUME NEW d \in Data, SendPdu(d)
                 PROVE  Filling'
    OBVIOUS
  <2>2. UNCHANGED PDU_Queue
    BY <2>1 DEF SendPdu
  <2>3. CASE Full(PDU_Queue)
    <3>1. stack' = IdleStack
      BY <2>1, <2>3 DEF SendPdu, DataPeek, StackGoes
    <3> QED
      BY <1>3, <2>2, <3>1 DEF IdleStack
  <2>4. CASE ~ Full(PDU_Queue)
    <3>1. Element(PDU_Queue.head) # NoElement
      BY <1>1, QueuePlaces, RingbufConstants DEF Elements
    <3>2. stack' = [pc |-> "FILL_DER", data |-> d, e |-> Element(PDU_Queue.head)]
      BY <2>1, <2>4, <3>1 DEF SendPdu, DataPeek, StackGoes
    <3> QED
      BY <2>2, <2>4, <3>2, <1>1 DEF Filling, At, Places, Count, InPlace, Held, Full
  <2> QED
    BY <2>3, <2>4
<1>5. CASE (\E d \in Own : SendOwn(d)) \/ SendReply
  BY <1>4, <1>5 DEF SendOwn, SendReply, Data
<1>6. CASE LeaveUnanswered \/ Wake \/ TimedWait \/ Copy \/ Clear \/ CallReceive
  <2>1. UNCHANGED PDU_Queue
    BY <1>6 DEF LeaveUnanswered, Wake, TimedWait, Copy, Clear, CallReceive, ReceiveUnchanged
  <2>2. /\ \A f : Handle(f).pc \in {"LOOP", "HANDLE"}
        /\ IdleStack.pc = "LOOP"
    BY DEF Handle, IdleStack
  <2>3. CASE LeaveUnanswered \/ Wake \/ Clear
    BY <2>1, <2>2, <2>3, <1>3 DEF LeaveUnanswered, Wake, Clear, StackGoes
  <2>4. CASE TimedWait \/ Copy \/ CallReceive
    <3>1. stack'.pc \in {"LOOP", "COPY", "CLEAR", "WAIT"}
      BY <2>2, <2>4, <1>1 DEF TimedWait, Copy, CallReceive, StackGoes, PqTyped
    <3> QED
      BY <2>1, <3>1, <1>3
  <2> QED
    BY <1>6, <2>3, <2>4
<1>7. CASE FillDer \/ FillData
  <2>1. /\ stack.pc \in {"FILL_DER", "FILL_DATA"} /\ stack.e = Element(PDU_Queue.head)
        /\ ~ Full(PDU_Queue) /\ stack.data \in Data
        /\ stack'.data = stack.data /\ stack'.e = stack.e
    BY <1>7, <1>1 DEF FillDer, FillData, At, StackGoes, Filling, PqTyped
  <2>2. /\ PDU_Queue'.head = PDU_Queue.head /\ PDU_Queue'.tail = PDU_Queue.tail
        /\ \A e \in Elements \ {stack.e} : next[e] = PDU_Queue.buffer[e]
    BY <1>7, <1>1 DEF FillDer, FillData, PqTyped
  <2>3. /\ Count(PDU_Queue)' = Count(PDU_Queue)
        /\ \A k \in Places : InPlace(k)' = InPlace(k)
    BY <2>1, <2>2, <1>1, WriteBehind
  <2>4. /\ Places' = Places /\ ~ Full(PDU_Queue)'
    BY <2>1, <2>3 DEF Places, Full
  <2>5. \A k \in Places' : InPlace(k)' \in Packets
    BY <2>3, <2>4, <1>1 DEF Filling
  <2>6. stack'.e = Element(PDU_Queue'.head) /\ ~ Full(PDU_Queue)' /\ stack'.data \in Data
    BY <2>1, <2>2, <2>4
  <2>7. stack.e \in Elements /\ PDU_Queue.buffer \in
          [Elements -> [der : BOOLEAN, data : Data \cup {Nothing}]]
    BY <2>1, <1>1, QueuePlaces DEF PqTyped
  <2>8. next[stack'.e].der = (stack'.data \in Expecting)
    <3>1. CASE FillDer
      <4>1. PDU_Queue' = [PDU_Queue EXCEPT !.buffer[stack.e].der = stack.data \in Expecting]
        BY <3>1 DEF FillDer
      <4>2. next = [PDU_Queue.buffer EXCEPT ![stack.e].der = stack.data \in Expecting]
        BY <4>1, <1>1 DEF PqTyped
      <4> QED
        BY <4>2, <2>1, <2>7
    <3>2. CASE FillData
      <4>1. PDU_Queue' = [PDU_Queue EXCEPT !.buffer[stack.e].data = stack.data]
        BY <3>2 DEF FillData
      <4>2. next = [PDU_Queue.buffer EXCEPT ![stack.e].data = stack.data]
        BY <4>1, <1>1 DEF PqTyped
      <4>3. PDU_Queue.buffer[stack.e].der = (stack.data \in Expecting)
        BY <3>2, <1>1 DEF FillData, At, Filling
      <4> QED
        BY <4>2, <4>3, <2>1, <2>7
    <3> QED
      BY <1>7, <3>1, <3>2
  <2>9. stack'.pc = "PUT" => next[stack'.e].data = stack'.data
    <3>1. CASE FillDer
      BY <3>1, <1>1 DEF FillDer, StackGoes, PqTyped
    <3>2. CASE FillData
      <4>1. PDU_Queue' = [PDU_Queue EXCEPT !.buffer[stack.e].data = stack.data]
        BY <3>2 DEF FillData
      <4>2. next = [PDU_Queue.buffer EXCEPT ![stack.e].data = stack.data]
        BY <4>1, <1>1 DEF PqTyped
      <4> QED
        BY <4>2, <2>1, <2>7
    <3> QED
      BY <1>7, <3>1, <3>2
  <2> QED
    BY <2>5, <2>6, <2>8, <2>9 DEF Filling, At
<1>8. CASE Put
  <2>1. /\ stack.e = Element(PDU_Queue.head) /\ ~ Full(PDU_Queue) /\ stack.data \in Data
        /\ PDU_Queue.buffer[stack.e].der = (stack.data \in Expecting)
        /\ PDU_Queue.buffer[stack.e].data = stack.data
        /\ stack'.pc = "LOOP"
    BY <1>8, <1>1 DEF Put, At, StackGoes, Filling, IdleStack
  <2>2. PDU_Queue' = [PDU_Queue EXCEPT !.head = Inc(@)]
    BY <1>8, <2>1 DEF Put, DataPut
  <2>3. /\ Count(PDU_Queue)' = Count(PDU_Queue) + 1
        /\ \A k \in Nat : InPlace(k)' = InPlace(k)
    BY <2>1, <2>2, <1>1, PutBehind
  <2>4. InPlace(Count(PDU_Queue)) = Packet(stack.data)
    <3>1. InPlace(Count(PDU_Queue)) = PDU_Queue.buffer[stack.e] /\ stack.e \in Elements
      BY <2>1, <1>1, QueuePlaces DEF InPlace
    <3>2. PDU_Queue.buffer[stack.e] \in [der : BOOLEAN, data : Data \cup {Nothing}]
      BY <3>1, <1>1 DEF PqTyped
    <3> QED
      BY <2>1, <3>1, <3>2 DEF Packet
  <2>5. ASSUME NEW k \in Places'
        PROVE  InPlace(k)' \in Packets
    <3>1. k \in Nat /\ (k \in Places \/ k = Count(PDU_Queue))
      BY <2>3, <1>1, QueuePlaces, RingbufConstants DEF Places
    <3> QED
      BY <2>1, <2>3, <2>4, <3>1, <1>1, <1>2 DEF Filling
  <2> QED
    BY <2>1, <2>5 DEF Filling, At
<1>9. ASSUME UNCHANGED stack, 0 \in Places, PDU_Queue'.head = PDU_Queue.head,
             PDU_Queue'.tail = Inc(PDU_Queue.tail),
             ~ Full(PDU_Queue) => next[Element(PDU_Queue.head)]
                                    = PDU_Queue.buffer[Element(PDU_Queue.head)],
             \A k \in 0 .. Count(PDU_Queue) - 2 : InPlace(k)' \in {InPlace(k), InPlace(k + 1)}
      PROVE  Filling'
  <2>1. Count(PDU_Queue)' = Count(PDU_Queue) - 1
    BY <1>1, <1>9, MoveAhead
  <2>2. ~ Full(PDU_Queue)'
    BY <2>1, <1>1, QueuePlaces, RingbufConstants DEF Full
  <2>3. ASSUME NEW k \in Places'
        PROVE  InPlace(k)' \in Packets
    <3>1. k \in 0 .. Count(PDU_Queue) - 2 /\ k \in Places /\ k + 1 \in Places
      BY <2>1, <1>1, QueuePlaces, RingbufConstants DEF Places
    <3> QED
      BY <3>1, <1>1, <1>9 DEF Filling
  <2> QED
    BY <2>2, <2>3, <1>1, <1>9 DEF Filling, At
<1>10. CASE PopFirst
  <2>1. 0 \in Places /\ ~ Empty(PDU_Queue)
    BY <1>10, <1>1, QueuePlaces, RingbufConstants DEF PopFirst, At, Reading, Places, Empty
  <2>2. UNCHANGED stack /\ PDU_Queue' = [PDU_Queue EXCEPT !.tail = Inc(@)]
    BY <1>10, <2>1 DEF PopFirst, MasterUnchanged, Pop
  <2>3. /\ PDU_Queue'.head = PDU_Queue.head /\ PDU_Queue'.tail = Inc(PDU_Queue.tail)
        /\ next = PDU_Queue.buffer
    BY <2>2, <1>1 DEF PqTyped
  <2>4. ASSUME NEW k \in 0 .. Count(PDU_Queue) - 2
        PROVE  InPlace(k)' = InPlace(k + 1)
    BY <2>1, <2>3, <1>1, MoveAhead, QueuePlaces, RingbufConstants DEF InPlace
  <2> QED
    BY <2>1, <2>2, <2>3, <2>4, <1>9
<1>11. CASE PopReply
  <2>1. PICK k \in Places : \/ master.index = PDU_Queue.tail + k
                            \/ PDU_Queue.head < PDU_Queue.tail
    BY <1>11, <1>1 DEF PopReply, At, Reading
  <2>2. 0 \in Places
    BY <2>1, <1>1, QueuePlaces, RingbufConstants DEF Places
  <2>3. UNCHANGED stack /\ PDU_Queue' = PopFound(PDU_Queue, master.index)
        /\ master.index \in Counts
    BY <1>11, <1>1 DEF PopReply, MasterUnchanged, PqTyped
  <2>4. /\ PDU_Queue'.head = PDU_Queue.head /\ PDU_Queue'.tail = Inc(PDU_Queue.tail)
        /\ \A j \in 0 .. Count(PDU_Queue) - 2 : InPlace(j)' \in {InPlace(j), InPlace(j + 1)}
        /\ ~ Full(PDU_Queue) => next[Element(PDU_Queue.head)]
                                  = PDU_Queue.buffer[Element(PDU_Queue.head)]
    BY <2>1, <2>3, <1>1, PopFoundMoves
  <2> QED
    BY <2>2, <2>3, <2>4, <1>9
<1>12. CASE MasterNext /\ UNCHANGED PDU_Queue
  <2>1. UNCHANGED stack
    BY <1>12 DEF MasterNext, MasterGoesOn, Fill, SetReady, Post, SendFrame, SendData,
       PopFirst, CompareFirst, CompareNext, ReplyData, FindReply, PopReply, GetSend,
       PostponeReply, PutReceive, TestReady, MasterUnchanged, QueueUnchanged
  <2> QED
    BY <2>1, <1>1, <1>12 DEF Filling, At, Places, Count, InPlace, Held, Full
<1>13. MasterNext => PopFirst \/ PopReply \/ UNCHANGED PDU_Queue
  BY DEF MasterNext, MasterGoesOn, Fill, SetReady, Post, SendFrame, SendData,
     CompareFirst, CompareNext, ReplyData, FindReply, GetSend,
     PostponeReply, PutReceive, TestReady, QueueKept, QueueUnchanged
<1> QED
  BY <1>5, <1>6, <1>7, <1>8, <1>10, <1>11, <1>12, <1>13 DEF PqNext, StackNext, StackGoesOn

\* The search goes from each place to the next, and ends behind the last
\* packet or, when head has turned over and tail has not, maybe before.
LEMMA NextPlace ==
  ASSUME PqTyped, NEW k \in Places
  PROVE  \/ /\ PeekNext(PDU_Queue, Held(k)) = NoElement
            /\ k + 1 = Count(PDU_Queue) \/ PDU_Queue.head < PDU_Queue.tail
         \/ /\ k + 1 \in Places /\ PeekNext(PDU_Queue, Held(k)) = Held(k + 1)
            /\ Held(k + 1) # NoElement
<1> DEFINE h == PDU_Queue.head
           t == PDU_Queue.tail
           c == Count(PDU_Queue)
           passed == {n \in Counts : t <= n /\ n < Minus(h, 1) /\ Element(n) = Held(k)}
<1>1. /\ h \in Counts /\ t \in Counts /\ h \in Nat /\ t \in Nat /\ h < UINT /\ t < UINT
      /\ UINT \in Nat /\ ELEMENT_COUNT \in Nat \ {0} /\ ELEMENT_COUNT < UINT
      /\ c \in Nat /\ c <= ELEMENT_COUNT /\ k \in Nat /\ k < c
      /\ c = IF t <= h THEN h - t ELSE h + UINT - t
  BY QueuePlaces, RingbufConstants DEF Counts, Places
<1>2. 1 \in Counts
  BY <1>1 DEF Counts
<1>3. Minus(h, 1) = IF 1 <= h THEN h - 1 ELSE h + UINT - 1
  BY <1>1, <1>2, CountArithmetic
<1>4. ~ Empty(PDU_Queue)
  BY <1>1 DEF Empty
<1>5. PeekNext(PDU_Queue, Held(k)) = IF passed = {} THEN NoElement
                                     ELSE Element((CHOOSE n \in passed : TRUE) + 1)
  BY <1>4 DEF PeekNext
<1>6. ASSUME NEW n \in passed
      PROVE  n = t + k /\ k + 1 < c
  <2>1. n \in Nat /\ t <= n /\ n < Minus(h, 1) /\ Element(n) = Held(k)
    BY <1>1 DEF Counts
  <2>2. n - t \in Nat /\ n - t < c - 1
    BY <1>1, <1>3, <2>1
  <2>3. Held(n - t) = Held(k)
    BY <1>1, <2>1, t + (n - t) = n DEF Held
  <2>4. n - t = k
    BY <1>1, <2>2, <2>3, QueuePlaces
  <2> QED
    BY <1>1, <2>1, <2>2, <2>4
<1>7. ASSUME k + 1 # c, ~ (h < t)
      PROVE  t + k \in passed
  BY <1>1, <1>3, <1>7 DEF Counts, Held
<1> HIDE DEF passed
<1>8. CASE passed = {}
  BY <1>5, <1>7, <1>8
<1>9. CASE passed # {}
  <2>1. PICK n \in passed : n = CHOOSE m \in passed : TRUE
    BY <1>9
  <2>2. PeekNext(PDU_Queue, Held(k)) = Element(t + k + 1) /\ k + 1 < c
    BY <1>5, <1>6, <1>9, <2>1
  <2>3. t + k + 1 = t + (k + 1) /\ k + 1 \in Nat /\ k + 1 \in Places
    BY <1>1, <2>2 DEF Places
  <2>4. PeekNext(PDU_Queue, Held(k)) = Held(k + 1) /\ Held(k + 1) \in Elements
    BY <2>2, <2>3, QueuePlaces DEF Held
  <2> QED
    BY <2>3, <2>4, RingbufConstants DEF Elements
<1> QED
  BY <1>8, <1>9

\* A packet is found again at the count of its place, likewise.
LEMMA PlaceFound ==
  ASSUME PqTyped, NEW k \in Places, NEW default
  PROVE  \/ FindElement(PDU_Queue, Held(k), default) = PDU_Queue.tail + k
         \/ PDU_Queue.head < PDU_Queue.tail
<1> DEFINE h == PDU_Queue.head
           t == PDU_Queue.tail
           c == Count(PDU_Queue)
           found == {n \in Counts : t <= n /\ n < h /\ Element(n) = Held(k)}
<1>1. /\ h \in Nat /\ t \in Nat /\ h < UINT /\ t < UINT
      /\ UINT \in Nat /\ ELEMENT_COUNT \in Nat \ {0}
      /\ c \in Nat /\ c <= ELEMENT_COUNT /\ k \in Nat /\ k < c
      /\ c = IF t <= h THEN h - t ELSE h + UINT - t
  BY QueuePlaces, RingbufConstants DEF Counts, Places
<1>2. SUFFICES ASSUME ~ (h < t)
               PROVE  FindElement(PDU_Queue, Held(k), default) = t + k
  OBVIOUS
<1>3. t + k \in found
  BY <1>1, <1>2 DEF Counts, Held
<1>4. ASSUME NEW n \in found
      PROVE  n = t + k
  <2>1. n \in Nat /\ t <= n /\ n < h /\ Element(n) = Held(k)
    BY <1>1 DEF Counts
  <2>2. n - t \in Nat /\ n - t < c
    BY <1>1, <2>1
  <2>3. Held(n - t) = Held(k)
    BY <1>1, <2>1, t + (n - t) = n DEF Held
  <2>4. n - t = k
    BY <1>1, <2>2, <2>3, QueuePlaces
  <2> QED
    BY <1>1, <2>1, <2>4
<1> QED
  BY <1>3, <1>4 DEF FindElement

\* What the master's thread has read stays true while the other one puts
\* packets behind.
LEMMA ReadingSteady ==
  ASSUME PqTyped, Reading, UNCHANGED <<driver, master>>,
         PDU_Queue'.tail = PDU_Queue.tail,
         PDU_Queue.head < PDU_Queue.tail => PDU_Queue'.head < PDU_Queue'.tail,
         Count(PDU_Queue)' \in Nat, Count(PDU_Queue) <= Count(PDU_Queue)',
         \A k \in Places : InPlace(k)' = InPlace(k)
  PROVE  Reading'
<1>1. \A k \in Nat : Held(k)' = Held(k)
  BY DEF Held
<1>2. Places \subseteq Nat /\ Places \subseteq Places'
  BY QueuePlaces DEF Places
<1>3. \A k \in Places : \A j \in 0 .. k : j \in Places
  BY QueuePlaces DEF Places
<1>4. \A k \in Places : Found(k) => Found(k)'
  BY <1>1, <1>2 DEF Found, Linux
<1>5. ASSUME At(master, "NEXT")
      PROVE  \E k \in Places' : /\ master'.e = Held(k)'
                                /\ \A j \in 0 .. k : ~ Matches(InPlace(j)', master'.frame)
  <2>1. PICK k \in Places : /\ master.e = Held(k)
                            /\ \A j \in 0 .. k : ~ Matches(InPlace(j), master.frame)
    BY <1>5 DEF Reading
  <2> QED
    BY <2>1, <1>1, <1>2, <1>3
<1>6. ASSUME At(master, "POP_FOUND")
      PROVE  \E k \in Places' : /\ Found(k)' /\ master'.pkt = InPlace(k)'
                                /\ \/ master'.index = PDU_Queue'.tail + k
                                   \/ PDU_Queue'.head < PDU_Queue'.tail
  BY <1>6, <1>2, <1>4 DEF Reading
<1>7. ASSUME At(master, "FIND")
      PROVE  \E k \in Places' : Found(k)' /\ master'.pkt = InPlace(k)'
  BY <1>7, <1>2, <1>4 DEF Reading
<1>8. ASSUME At(master, "REPLY_DATA")
      PROVE  \E k \in Places' : Found(k)'
  BY <1>8, <1>2, <1>4 DEF Reading
<1>9. ASSUME At(master, "SEND_DATA") \/ At(master, "POP")
      PROVE  0 \in Places' /\ InPlace(0)' = InPlace(0)
  BY <1>9, <1>2 DEF Reading
<1> QED
  BY <1>5, <1>6, <1>7, <1>8, <1>9 DEF Reading, At, Matches

\* Between two steps of the master's thread its packet stays where it is, and
\* each step finds out what the next one relies on.
LEMMA ReadingKept ==
  ASSUME PqIInv, PqNext
  PROVE  Reading'
<1>1. PqTyped /\ Filling /\ Inbox /\ Reading
  BY DEF PqIInv
<1>2. /\ \A k \in Nat : Held(k) \in Elements
      /\ Places \subseteq Nat
      /\ 0 \in Places <=> ~ Empty(PDU_Queue)
      /\ Count(PDU_Queue) \in Nat
  BY <1>1, QueuePlaces, RingbufConstants DEF Places, Empty
<1>3. Peek(PDU_Queue) = IF 0 \in Places THEN Held(0) ELSE NoElement
  <2>1. PDU_Queue.tail + 0 = PDU_Queue.tail
    BY <1>1, QueuePlaces
  <2> QED
    BY <2>1, <1>2 DEF Peek, Held
<1>4. 0 \in Places => First = InPlace(0)
  BY <1>3 DEF First, InPlace
<1>5. \A k \in Places : /\ InPlace(k) = PDU_Queue.buffer[Held(k)]
                        /\ InPlace(k) \in [der : BOOLEAN, data : Data \cup {Nothing}]
                        /\ InPlace(k) \in Packets
  BY <1>1, <1>2 DEF InPlace, PqTyped, Filling
<1>6. UNCHANGED PDU_Queue =>
        /\ \A k \in Nat : Held(k)' = Held(k) /\ InPlace(k)' = InPlace(k)
        /\ Count(PDU_Queue)' = Count(PDU_Queue) /\ Places' = Places
  BY DEF Held, InPlace, Count, Places
<1>7. CASE StackNext
  <2>1. UNCHANGED <<driver, master>>
    BY <1>7 DEF StackNext, StackGoesOn, SendOwn, SendReply, SendPdu, LeaveUnanswered,
       FillDer, FillData, Put, Wake, TimedWait, Copy, Clear, CallReceive, SendUnchanged,
       ReceiveUnchanged
  <2>2. CASE UNCHANGED PDU_Queue
    BY <2>1, <2>2, <1>1, <1>2, <1>6, ReadingSteady
  <2>3. CASE FillDer \/ FillData
    <3>1. ~ Full(PDU_Queue) /\ stack.e = Element(PDU_Queue.head)
      BY <2>3, <1>1 DEF FillDer, FillData, At, Filling
    <3>2. /\ PDU_Queue'.head = PDU_Queue.head /\ PDU_Queue'.tail = PDU_Queue.tail
          /\ \A e \in Elements \ {stack.e} : PDU_Queue'.buffer[e] = PDU_Queue.buffer[e]
      BY <2>3, <1>1 DEF FillDer, FillData, PqTyped
    <3>3. /\ Count(PDU_Queue)' = Count(PDU_Queue)
          /\ \A k \in Places : InPlace(k)' = InPlace(k)
      BY <3>1, <3>2, <1>1, WriteBehind
    <3> QED
      BY <2>1, <3>2, <3>3, <1>1, <1>2, ReadingSteady
  <2>4. CASE Put
    <3>1. ~ Full(PDU_Queue) /\ PDU_Queue' = [PDU_Queue EXCEPT !.head = Inc(@)]
      BY <2>4, <1>1 DEF Put, At, Filling, DataPut
    <3>2. /\ Count(PDU_Queue)' = Count(PDU_Queue) + 1 /\ PDU_Queue'.tail = PDU_Queue.tail
          /\ \A k \in Nat : InPlace(k)' = InPlace(k)
          /\ PDU_Queue.head < PDU_Queue.tail => PDU_Queue'.head < PDU_Queue'.tail
      BY <3>1, <1>1, PutBehind
    <3> QED
      BY <2>1, <3>2, <1>1, <1>2, ReadingSteady
  <2>5. FillDer \/ FillData \/ Put \/ UNCHANGED PDU_Queue
    BY <1>7 DEF StackNext, StackGoesOn, SendOwn, SendReply, SendPdu, LeaveUnanswered,
       Wake, TimedWait, Copy, Clear, CallReceive, ReceiveUnchanged
  <2> QED
    BY <2>2, <2>3, <2>4, <2>5
<1>8. ASSUME NEW f \in Frames, master' = AfterPut(f)
      PROVE  Reading'
  <2>1. \/ master'.pc = "ANSWER" /\ master'.frame \in Requests
        \/ master'.pc = "IDLE" /\ master'.frame = Nothing
    BY <1>8 DEF AfterPut, IdleMaster
  <2> QED
    BY <2>1 DEF Reading, At, AskedPcs
<1>9. master' = IdleMaster => Reading'
  BY DEF Reading, At, AskedPcs, IdleMaster
<1>10. CASE \E f \in Frames : PutReceive(f) \/ TestReady(f)
  <2>1. PICK f \in Frames : PutReceive(f) \/ TestReady(f)
    BY <1>10
  <2>2. master' = AfterPut(f) \/ master'.pc = "FILL"
    BY <2>1 DEF PutReceive, TestReady, MasterGoes, IdleMaster
  <2> QED
    BY <2>2, <1>8 DEF Reading, At, AskedPcs
<1>11. CASE Fill \/ SetReady
  <2>1. master'.pc \in {"READY", "POST"}
    BY <1>11, <1>1 DEF Fill, SetReady, MasterGoes, PqTyped
  <2> QED
    BY <2>1 DEF Reading, At, AskedPcs
<1>12. CASE Post
  BY <1>8, <1>12, <1>1 DEF Post, MasterGoes, At, Inbox
<1>13. CASE SendFrame \/ PostponeReply
  BY <1>9, <1>13 DEF SendFrame, PostponeReply, MasterGoes
<1>14. CASE GetSend
  <2>1. /\ master.pc = "IDLE" /\ master.frame = Nothing /\ 0 \in Places
        /\ UNCHANGED PDU_Queue
    BY <1>14, <1>1, <1>2 DEF GetSend, At, Reading, QueueKept
  <2>2. /\ master'.pc = "SEND_DATA" /\ master'.frame = Nothing
        /\ master'.pkt.der = InPlace(0).der
    BY <1>14, <2>1, <1>1, <1>4 DEF GetSend, MasterGoes, PqTyped
  <2> QED
    BY <2>1, <2>2, <1>6 DEF Reading, At, AskedPcs
<1>15. CASE SendData
  <2>1. /\ master.frame = Nothing /\ 0 \in Places /\ master.pkt.der = InPlace(0).der
        /\ UNCHANGED PDU_Queue
    BY <1>15, <1>1 DEF SendData, At, Reading, QueueKept
  <2>2. /\ master'.pc = "POP" /\ master'.frame = Nothing
        /\ master'.pkt = [master.pkt EXCEPT !.data = InPlace(0).data]
    BY <1>15, <2>1, <1>1, <1>4 DEF SendData, MasterGoes, PqTyped
  <2>3. master'.pkt = InPlace(0)
    BY <2>1, <2>2, <1>1, <1>5 DEF PqTyped
  <2> QED
    BY <2>1, <2>2, <2>3, <1>6 DEF Reading, At, AskedPcs
<1>16. ASSUME master.pkt \in Packets, master' = Out
       PROVE  Reading'
  <2>1. /\ master'.pc = "SEND_FRAME" /\ master'.pkt = master.pkt
    BY <1>16 DEF Out, IdleMaster
  <2> QED
    BY <2>1, <1>16 DEF Reading, At, AskedPcs
<1>17. CASE PopFirst \/ PopReply
  <2>1. master' = Out
    BY <1>17 DEF PopFirst, PopReply, MasterGoes
  <2>2. master.pkt \in Packets
    BY <1>17, <1>1, <1>5 DEF PopFirst, PopReply, At, Reading
  <2> QED
    BY <2>1, <2>2, <1>16
\* What a comparison with the packet k places behind the first tells.
<1>18. ASSUME master.pc \in AskedPcs, UNCHANGED <<PDU_Queue, driver>>, NEW k \in Places,
              Linux \/ k = 0, NEW this, master' = Compare(Held(k), this),
              ~ Matches(InPlace(k), master.frame) =>
                Reading' \/ (this = NoReply) \/
                (/\ this.pc = "NEXT" /\ this.frame = master.frame /\ this.e = Held(k)
                 /\ \A j \in 0 .. k : ~ Matches(InPlace(j), master.frame))
       PROVE  Reading'
  <2>1. Held(k) # NoElement /\ master.frame \in Requests /\ k \in Nat
    BY <1>1, <1>2, <1>18, RingbufConstants DEF Reading, Elements
  <2>2. CASE Matches(InPlace(k), master.frame)
    <3>1. master' = [master EXCEPT !.pc = "REPLY_DATA", !.e = Held(k),
                                   !.pkt.der = InPlace(k).der]
      BY <1>18, <2>1, <2>2, <1>5 DEF Compare
    <3>2. /\ master'.pc = "REPLY_DATA" /\ master'.e = Held(k)
          /\ master'.frame = master.frame /\ master'.pkt.der = InPlace(k).der
      BY <3>1, <1>1 DEF PqTyped
    <3>3. Found(k)'
      BY <1>6, <1>18, <2>1, <2>2, <3>2 DEF Found, Matches, Linux
    <3> QED
      BY <1>6, <1>18, <2>1, <3>2, <3>3 DEF Reading, At, AskedPcs
  <2>3. CASE ~ Matches(InPlace(k), master.frame)
    <3>1. master' = this
      BY <1>18, <2>1, <2>3, <1>5 DEF Compare
    <3>2. CASE this = NoReply
      <4>1. master'.pc = "NO_REPLY" /\ master'.frame = master.frame
        BY <3>1, <3>2, <1>1 DEF NoReply, PqTyped
      <4> QED
        BY <4>1, <2>1 DEF Reading, At, AskedPcs
    <3>3. CASE /\ this.pc = "NEXT" /\ this.frame = master.frame /\ this.e = Held(k)
               /\ \A j \in 0 .. k : ~ Matches(InPlace(j), master.frame)
      <4>1. \A j \in 0 .. k : ~ Matches(InPlace(j), master.frame)'
        BY <1>6, <1>18, <2>1, <3>1, <3>3 DEF Matches
      <4>2. \E i \in Places' : /\ master'.e = Held(i)'
                               /\ \A j \in 0 .. i : ~ Matches(InPlace(j), master.frame)'
        BY <1>6, <1>18, <2>1, <3>1, <3>3, <4>1
      <4> QED
        BY <2>1, <3>1, <3>3, <4>2 DEF Reading, At, AskedPcs
    <3> QED
      BY <1>18, <2>3, <3>2, <3>3
  <2> QED
    BY <2>2, <2>3
<1>19. ASSUME master.pc \in AskedPcs, NEW this, master' = Compare(NoElement, this)
       PROVE  Reading'
  <2>1. master'.pc = "NO_REPLY" /\ master'.frame \in Requests
    BY <1>1, <1>19 DEF Compare, NoReply, PqTyped, Reading
  <2> QED
    BY <2>1 DEF Reading, At, AskedPcs
<1>20. CASE CompareFirst
  <2> DEFINE this == IF Linux THEN [master EXCEPT !.pc = "NEXT", !.e = Peek(PDU_Queue)]
                     ELSE NoReply
  <2>1. /\ master.pc \in AskedPcs /\ UNCHANGED <<PDU_Queue, driver>>
        /\ master' = Compare(Peek(PDU_Queue), this)
    BY <1>20 DEF CompareFirst, AskedPcs, MasterGoes, MasterUnchanged, QueueKept
  <2>2. CASE 0 \notin Places
    BY <1>3, <1>19, <2>1, <2>2
  <2>3. CASE 0 \in Places
    <3>1. \/ this = NoReply
          \/ this.pc = "NEXT" /\ this.frame = master.frame /\ this.e = Held(0)
      BY <1>1, <1>3, <2>3 DEF PqTyped
    <3>2. ~ Matches(InPlace(0), master.frame) =>
            \A j \in 0 .. 0 : ~ Matches(InPlace(j), master.frame)
      OBVIOUS
    <3>3. master' = Compare(Held(0), this)
      BY <1>3, <2>1, <2>3
    <3> HIDE DEF this
    <3> QED
      BY <1>18, <2>1, <2>3, <3>1, <3>2, <3>3
  <2> QED
    BY <2>2, <2>3
<1>21. CASE CompareNext
  <2> DEFINE e == PeekNext(PDU_Queue, master.e)
             this == [master EXCEPT !.e = e]
  <2>1. /\ master.pc = "NEXT" /\ UNCHANGED <<PDU_Queue, driver>>
        /\ master' = Compare(e, this) /\ Linux
    BY <1>21, <1>1 DEF CompareNext, MasterGoes, MasterUnchanged, QueueKept, At, Inbox, LinuxPcs
  <2>2. PICK k \in Places : /\ master.e = Held(k)
                            /\ \A j \in 0 .. k : ~ Matches(InPlace(j), master.frame)
    BY <2>1, <1>1 DEF Reading, At
  <2>3. CASE e = NoElement
    BY <1>19, <2>1, <2>3 DEF AskedPcs
  <2>4. CASE e # NoElement
    <3>1. k + 1 \in Places /\ e = Held(k + 1) /\ k \in Nat
      BY <1>1, <1>2, <2>2, <2>4, NextPlace
    <3>2. this.pc = "NEXT" /\ this.frame = master.frame /\ this.e = Held(k + 1)
      BY <1>1, <2>1, <3>1 DEF PqTyped
    <3>3. ~ Matches(InPlace(k + 1), master.frame) =>
            \A j \in 0 .. k + 1 : ~ Matches(InPlace(j), master.frame)
      <4>1. \A j \in 0 .. k + 1 : j \in 0 .. k \/ j = k + 1
        BY <3>1
      <4> QED
        BY <2>2, <4>1
    <3>4. master' = Compare(Held(k + 1), this) /\ master.pc \in AskedPcs
      BY <2>1, <3>1 DEF AskedPcs
    <3> HIDE DEF this, e
    <3> QED
      BY <1>18, <2>1, <3>1, <3>2, <3>3, <3>4
  <2> QED
    BY <2>3, <2>4
<1>22. CASE ReplyData
  <2>1. PICK k \in Places : Found(k)
    BY <1>22, <1>1 DEF ReplyData, At, Reading
  <2>2. master.frame \in Requests /\ UNCHANGED <<PDU_Queue, driver>>
    BY <1>22, <1>1 DEF ReplyData, At, Reading, AskedPcs, MasterUnchanged, QueueKept
  <2>3. /\ master'.pc = (IF Linux THEN "FIND" ELSE "POP")
        /\ master'.frame = master.frame /\ master'.e = master.e
        /\ master'.pkt = [master.pkt EXCEPT !.data = InPlace(k).data]
    BY <1>22, <2>1, <1>1, <1>5 DEF ReplyData, MasterGoes, PqTyped, Found
  <2>4. master'.pkt = InPlace(k)
    BY <2>1, <2>3, <1>1, <1>5 DEF Found, PqTyped
  <2>5. k \in Places' /\ InPlace(k)' = InPlace(k) /\ Held(k)' = Held(k)
    BY <1>2, <1>6, <2>2
  <2>6. Found(k)'
    BY <2>1, <2>2, <2>3, <2>4, <2>5 DEF Found, Linux
  <2>7. CASE Linux
    BY <2>2, <2>3, <2>4, <2>5, <2>6, <2>7 DEF Reading, At, AskedPcs
  <2>8. CASE ~ Linux
    <3>1. k = 0 /\ Matches(InPlace(k), master.frame)
      BY <2>1, <2>8 DEF Found, Matches
    <3> QED
      BY <2>2, <2>3, <2>4, <2>5, <2>8, <3>1 DEF Reading, At, AskedPcs, Matches
  <2> QED
    BY <2>7, <2>8
<1>23. CASE FindReply
  <2>1. PICK k \in Places : Found(k) /\ master.pkt = InPlace(k)
    BY <1>23, <1>1 DEF FindReply, At, Reading
  <2>2. master.frame \in Requests /\ UNCHANGED <<PDU_Queue, driver>>
    BY <1>23, <1>1 DEF FindReply, At, Reading, AskedPcs, MasterUnchanged, QueueKept
  <2>3. /\ master'.pc = "POP_FOUND" /\ master'.frame = master.frame /\ master'.e = master.e
        /\ master'.pkt = master.pkt
        /\ master'.index = FindElement(PDU_Queue, Held(k), master.index)
    BY <1>23, <2>1, <1>1 DEF FindReply, MasterGoes, PqTyped, Found
  <2>4. \/ master'.index = PDU_Queue.tail + k
        \/ PDU_Queue.head < PDU_Queue.tail
    BY <2>3, <1>1, PlaceFound
  <2>5. k \in Places' /\ InPlace(k)' = InPlace(k) /\ Held(k)' = Held(k)
    BY <1>2, <1>6, <2>2
  <2>6. Found(k)'
    BY <2>1, <2>2, <2>3, <2>5 DEF Found, Linux
  <2> QED
    BY <2>1, <2>2, <2>3, <2>4, <2>5, <2>6 DEF Reading, At, AskedPcs
<1> QED
  BY <1>7, <1>10, <1>11, <1>12, <1>13, <1>14, <1>15, <1>17, <1>20, <1>21, <1>22, <1>23
  DEF PqNext, MasterNext, MasterGoesOn

\* The invariant holds all the time.
LEMMA PqInductive == PqSpec => []PqIInv
<1>1. PqInit => PqIInv
  BY PqInitially
<1>2. PqIInv /\ [PqNext]_pqVars => PqIInv'
  <2>1. CASE UNCHANGED pqVars
    BY <2>1 DEF pqVars, PqIInv, PqTyped, Filling, Inbox, Reading, At, Places, Held, InPlace,
       Found, Count, Full, Linux, Take, Matches, Filled
  <2>2. ASSUME PqIInv, PqNext
        PROVE  PqIInv'
    BY <2>2, PqTypedKept, FillingKept, InboxKept, ReadingKept DEF PqIInv
  <2> QED
    BY <2>1, <2>2
<1> QED
  BY <1>1, <1>2, PTL DEF PqSpec

----------------------------------------------------------------------------
(* The theorems.                                                           *)

\* The two threads of each MS/TP driver keep the ring buffer, whose counters
\* never drift apart by more than the elements there are, and the received
\* packet of their types; the semaphore of dlmstp_linux.c is up only for a
\* packet that is there.
THEOREM PqTypeCorrect == PqSpec => []PqTypeOK
<1>1. PqIInv => PqTypeOK
  BY DEF PqIInv, PqTyped, Inbox, PqTypeOK
<1> QED
  BY <1>1, PqInductive, PTL

\* MSTP_Get_Reply() of dlmstp_linux.c gives up the search for a reply only when
\* none of the packets that wait is one, or when head has turned over and tail
\* has not.
THEOREM RepliesAreFound == PqSpec => NothingMissed
<1>1. ASSUME PqIInv, PqNext, Linux, ~ At(master, "NO_REPLY"), master'.pc = "NO_REPLY",
             ~ (PDU_Queue.head < PDU_Queue.tail),
             NEW n \in DOMAIN Waiting
      PROVE  ~ Matches(Waiting[n], master.frame)
  <2> DEFINE k == n - 1
  <2>1. PqTyped /\ Reading
    BY <1>1 DEF PqIInv
  <2>2. /\ n \in 1 .. Count(PDU_Queue) /\ Count(PDU_Queue) \in Nat
        /\ k \in Places /\ 0 \in Places /\ k \in Nat
    BY <1>1, <2>1, QueuePlaces, RingbufConstants DEF Waiting, Places
  <2>3. Waiting[n] = InPlace(k)
    <3>1. PDU_Queue.tail + n - 1 = PDU_Queue.tail + k
      BY <2>1, <2>2, QueuePlaces
    <3> QED
      BY <2>2, <3>1 DEF Waiting, InPlace, Held
  <2>4. /\ AfterPut(master.frame).pc \in {"IDLE", "ANSWER"} /\ IdleMaster.pc = "IDLE"
        /\ Out.pc = "SEND_FRAME"
    BY DEF AfterPut, Out, IdleMaster
  <2>5. CompareFirst \/ CompareNext
    <3>1. \A f : AfterPut(f).pc \in {"IDLE", "ANSWER"}
      BY DEF AfterPut, IdleMaster
    <3>2. ~ (\E f \in Frames : PutReceive(f) \/ TestReady(f))
      BY <1>1, <3>1 DEF PutReceive, TestReady, MasterGoes, IdleMaster
    <3>3. ~ StackNext
      <4>1. StackNext => UNCHANGED master
        BY DEF StackNext, StackGoesOn, SendOwn, SendReply, SendPdu, LeaveUnanswered,
           FillDer, FillData, Put, Wake, TimedWait, Copy, Clear, CallReceive, SendUnchanged,
           ReceiveUnchanged
      <4> QED
        BY <1>1, <4>1 DEF At
    <3>4. ~ (Fill \/ SetReady \/ Post \/ SendFrame \/ PostponeReply)
      BY <1>1, <2>1, <2>4 DEF Fill, SetReady, Post, SendFrame, PostponeReply, MasterGoes,
         PqTyped
    <3>5. ~ (GetSend \/ SendData \/ PopFirst \/ PopReply)
      BY <1>1, <2>1, <2>4 DEF GetSend, SendData, PopFirst, PopReply, MasterGoes, PqTyped
    <3>6. ~ (ReplyData \/ FindReply)
      BY <1>1, <2>1 DEF ReplyData, FindReply, MasterGoes, PqTyped
    <3> QED
      BY <1>1, <3>2, <3>3, <3>4, <3>5, <3>6 DEF PqNext, MasterNext, MasterGoesOn
  <2>6. CASE CompareFirst
    <3>1. Peek(PDU_Queue) = Held(0) /\ Held(0) # NoElement
      <4>1. PDU_Queue.tail + 0 = PDU_Queue.tail /\ Held(0) \in Elements /\ ~ Empty(PDU_Queue)
        BY <2>1, <2>2, QueuePlaces DEF Empty, Places
      <4> QED
        BY <4>1, RingbufConstants DEF Peek, Held, Elements
    <3>2. master' = Compare(Held(0), [master EXCEPT !.pc = "NEXT", !.e = Held(0)])
      BY <1>1, <2>6, <3>1 DEF CompareFirst, MasterGoes
    <3>3. \/ master'.pc = "REPLY_DATA"
          \/ master'.pc = "NEXT"
      BY <2>1, <3>1, <3>2 DEF Compare, PqTyped
    <3> QED
      BY <1>1, <3>3
  <2>7. CASE CompareNext
    <3> DEFINE e == PeekNext(PDU_Queue, master.e)
    <3>1. master.pc = "NEXT" /\ master' = Compare(e, [master EXCEPT !.e = e])
      BY <2>7 DEF CompareNext, At, MasterGoes
    <3>2. PICK i \in Places : /\ master.e = Held(i)
                              /\ \A j \in 0 .. i : ~ Matches(InPlace(j), master.frame)
      BY <2>1, <3>1 DEF Reading, At
    <3>3. e = NoElement
      <4>1. SUFFICES ASSUME e # NoElement
                     PROVE  FALSE
        OBVIOUS
      <4> HIDE DEF e
      <4>2. \/ master'.pc = "REPLY_DATA"
            \/ master'.pc = "NEXT"
        BY <2>1, <3>1, <4>1 DEF Compare, PqTyped
      <4> QED
        BY <1>1, <4>2
    <3>4. i + 1 = Count(PDU_Queue)
      BY <1>1, <2>1, <3>2, <3>3, NextPlace
    <3>5. k \in 0 .. i
      BY <2>2, <3>2, <3>4 DEF Places
    <3> QED
      BY <2>3, <3>2, <3>5
  <2> QED
    BY <2>5, <2>6, <2>7
<1>2. PqIInv /\ [PqNext]_pqVars =>
        [Linux /\ ~ At(master, "NO_REPLY") /\ master'.pc = "NO_REPLY" =>
           \/ \A n \in DOMAIN Waiting : ~ Matches(Waiting[n], master.frame)
           \/ PDU_Queue.head < PDU_Queue.tail]_pqVars
  BY <1>1
<1> QED
  BY <1>2, PqInductive, PTL DEF PqSpec, NothingMissed

----------------------------------------------------------------------------
(* The refinement of PacketPorts, step by step.                            *)

\* A sequence without its element i.
LEMMA SeqWithout ==
  ASSUME NEW S, NEW s \in Seq(S), NEW i \in 1 .. Len(s)
  PROVE  LET t == SubSeq(s, 1, i - 1) \o SubSeq(s, i + 1, Len(s))
         IN  /\ t \in Seq(S) /\ Len(t) = Len(s) - 1
             /\ \A n \in 1 .. Len(s) - 1 : t[n] = IF n < i THEN s[n] ELSE s[n + 1]
<1> DEFINE a == SubSeq(s, 1, i - 1)
           b == SubSeq(s, i + 1, Len(s))
<1>1. Len(s) \in Nat /\ i \in Nat /\ 1 <= i /\ i <= Len(s)
      /\ \A n \in 1 .. Len(s) : s[n] \in S
  BY LenProperties, ElementOfSeq
<1>2. \A n \in 1 .. i - 1 : s[n] \in S
  BY <1>1
<1>3. \A n \in i + 1 .. Len(s) : s[n] \in S
  BY <1>1
<1>4. /\ a \in Seq(S) /\ Len(a) = i - 1
      /\ \A n \in 1 .. i - 1 : a[n] = s[n]
  <2>1. /\ a \in Seq(S) /\ Len(a) = IF 1 <= i - 1 THEN (i - 1) - 1 + 1 ELSE 0
        /\ \A n \in 1 .. (i - 1) - 1 + 1 : a[n] = s[1 + n - 1]
    BY <1>1, <1>2, i - 1 \in Int, SubSeqProperties
  <2> QED
    BY <1>1, <2>1
<1>5. /\ b \in Seq(S) /\ Len(b) = Len(s) - i
      /\ \A n \in 1 .. Len(s) - i : b[n] = s[i + n]
  <2>1. /\ b \in Seq(S) /\ Len(b) = IF i + 1 <= Len(s) THEN Len(s) - (i + 1) + 1 ELSE 0
        /\ \A n \in 1 .. Len(s) - (i + 1) + 1 : b[n] = s[(i + 1) + n - 1]
    BY <1>1, <1>3, i + 1 \in Int, SubSeqProperties
  <2> QED
    BY <1>1, <2>1
<1> HIDE DEF a, b
<1>6. /\ a \o b \in Seq(S) /\ Len(a \o b) = Len(s) - 1
      /\ \A n \in 1 .. Len(s) - 1 : (a \o b)[n] = IF n <= i - 1 THEN a[n] ELSE b[n - (i - 1)]
  BY <1>1, <1>4, <1>5, ConcatProperties
<1>7. ASSUME NEW n \in 1 .. Len(s) - 1
      PROVE  (a \o b)[n] = IF n < i THEN s[n] ELSE s[n + 1]
  <2>1. CASE n < i
    BY <1>1, <1>4, <1>6, <2>1
  <2>2. CASE ~ (n < i)
    <3>1. n - (i - 1) \in 1 .. Len(s) - i /\ i + (n - (i - 1)) = n + 1
      BY <1>1, <2>2
    <3> QED
      BY <1>1, <1>5, <1>6, <2>2, <3>1
  <2> QED
    BY <2>1, <2>2
<1> QED
  BY <1>6, <1>7 DEF a, b

\* The queue, as the sequence of the packets that wait.
LEMMA WaitingIs ==
  ASSUME PqTyped, Filling
  PROVE  /\ Waiting \in Seq(Packets) /\ Len(Waiting) = Count(PDU_Queue)
         /\ \A k \in Places : Waiting[k + 1] = InPlace(k)
         /\ Waiting = << >> <=> 0 \notin Places
<1> DEFINE c == Count(PDU_Queue)
<1>1. c \in Nat /\ PDU_Queue.tail \in Nat
  BY QueuePlaces, RingbufConstants
<1>2. ASSUME NEW n \in 1 .. c
      PROVE  Waiting[n] = InPlace(n - 1) /\ Waiting[n] \in Packets
  <2>1. n - 1 \in Places /\ PDU_Queue.tail + n - 1 = PDU_Queue.tail + (n - 1)
    BY <1>1 DEF Places
  <2>2. Waiting[n] = InPlace(n - 1)
    BY <2>1 DEF Waiting, InPlace, Held
  <2> QED
    BY <2>1, <2>2 DEF Filling
<1>3. Waiting \in [1 .. c -> Packets]
  BY <1>2 DEF Waiting
<1>4. Waiting \in Seq(Packets) /\ Len(Waiting) = c
  BY <1>1, <1>3, SeqDef
<1>5. ASSUME NEW k \in Places
      PROVE  Waiting[k + 1] = InPlace(k)
  <2>1. k + 1 \in 1 .. c /\ (k + 1) - 1 = k
    BY <1>1 DEF Places
  <2> QED
    BY <1>2, <2>1
<1>6. Waiting = << >> <=> 0 \notin Places
  BY <1>1, <1>4, EmptySeq DEF Places
<1> QED
  BY <1>4, <1>5, <1>6

\* The same of the next state.
LEMMA WaitingIsNext ==
  PqTyped' /\ Filling' =>
    /\ Waiting' \in Seq(Packets) /\ Len(Waiting') = Count(PDU_Queue)'
    /\ \A k \in Places' : Waiting'[k + 1] = InPlace(k)'
<1>1. PqTyped /\ Filling =>
        /\ Waiting \in Seq(Packets) /\ Len(Waiting) = Count(PDU_Queue)
        /\ \A k \in Places : Waiting[k + 1] = InPlace(k)
  BY WaitingIs
<1>2. (PqTyped /\ Filling =>
         /\ Waiting \in Seq(Packets) /\ Len(Waiting) = Count(PDU_Queue)
         /\ \A k \in Places : Waiting[k + 1] = InPlace(k))'
  BY <1>1, PTL
<1> QED
  BY <1>2

LEMMA PortsInitially == PqInit => Ports!PortsInit
<1> SUFFICES ASSUME PqInit
             PROVE  Ports!PortsInit
  OBVIOUS
<1>1. PqTyped /\ Filling
  BY PqInitially DEF PqIInv
<1>2. PDU_Queue.head = 0 /\ PDU_Queue.tail = 0
  BY DEF PqInit, RingbufInit
<1>3. 0 \notin Places
  <2>1. Count(PDU_Queue) = 0
    BY <1>1, <1>2, QueuePlaces
  <2> QED
    BY <2>1 DEF Places
<1>4. Waiting = << >>
  BY <1>1, <1>3, WaitingIs
<1>5. ZeroPacket \notin Packets
  BY PacketQueuesConstants DEF ZeroPacket, Packets, Packet, Data
<1> QED
  BY <1>2, <1>4, <1>5
  DEF PqInit, Ports!PortsInit, IdleStack, IdleMaster, At, Replying

\* The variables of PacketPorts, as the driver implements them.
Sent      == IF At(master, "SEND_FRAME") THEN master.pkt ELSE ZeroPacket
Got       == IF stack.pc \in {"CLEAR", "HANDLE"} THEN stack.data ELSE Nothing
Request   == IF Replying THEN master.frame ELSE Nothing
InboxHeld == IF Receive_Packet.ready /\ ~ At(stack, "CLEAR") THEN Receive_Packet.pdu
             ELSE Nothing
Turned    == PDU_Queue.head < PDU_Queue.tail

PortsUnchanged == UNCHANGED <<Waiting, Sent, Request, Turned, InboxHeld, Got>>

\* The steps of the stack's thread that send.
LEMMA PortsOfSending ==
  ASSUME PqIInv, (\E d \in Own : SendOwn(d)) \/ SendReply \/ LeaveUnanswered
                 \/ FillDer \/ FillData \/ Put
  PROVE  Ports!PortsNext \/ PortsUnchanged
<1>1. PqTyped /\ Filling /\ Inbox
  BY DEF PqIInv
<1>2. UNCHANGED <<driver, Receive_Packet, flag, master>>
  BY DEF SendOwn, SendReply, SendPdu, LeaveUnanswered, FillDer, FillData, Put, SendUnchanged
<1>3. Sent' = Sent /\ Request' = Request
  BY <1>2 DEF Sent, Request, Replying, At
<1>4. stack.pc # "CLEAR" /\ stack'.pc \notin {"CLEAR", "HANDLE"}
  BY <1>1 DEF SendOwn, SendReply, SendPdu, LeaveUnanswered, FillDer, FillData, Put,
     StackGoes, IdleStack, At, PqTyped
<1>5. InboxHeld' = InboxHeld /\ Got' = Nothing
  BY <1>2, <1>4 DEF InboxHeld, Got, At
<1>6. UNCHANGED PDU_Queue => Waiting' = Waiting /\ Turned' = Turned
  BY DEF Waiting, Turned, Count
<1>7. CASE SendReply \/ LeaveUnanswered
  <2>1. UNCHANGED PDU_Queue /\ stack.pc = "HANDLE" /\ stack.data \in Frames
    BY <1>7, <1>1 DEF SendReply, SendPdu, LeaveUnanswered, At, Inbox
  <2>2. Got \in Frames /\ Nothing \notin Frames
    BY <2>1, PacketQueuesConstants DEF Got, Frames
  <2>3. Ports!Handled
    BY <1>3, <1>5, <1>6, <2>1, <2>2
    DEF Ports!Handled, Sent, Request, Turned, InboxHeld, Got
  <2> QED
    BY <2>3 DEF Ports!PortsNext
<1>8. CASE (\E d \in Own : SendOwn(d)) \/ FillDer \/ FillData \/ Put
  <2>1. stack.pc \notin {"CLEAR", "HANDLE"}
    BY <1>8 DEF SendOwn, FillDer, FillData, Put, At
  <2>2. Got = Nothing
    BY <2>1 DEF Got
  <2>3. CASE \E d \in Own : SendOwn(d)
    <3>1. UNCHANGED PDU_Queue
      BY <2>3 DEF SendOwn, SendPdu
    <3> QED
      BY <1>3, <1>5, <1>6, <2>2, <3>1 DEF PortsUnchanged
  <2>4. CASE FillDer \/ FillData
    <3>1. ~ Full(PDU_Queue) /\ stack.e = Element(PDU_Queue.head)
      BY <2>4, <1>1 DEF FillDer, FillData, At, Filling
    <3>2. /\ PDU_Queue'.head = PDU_Queue.head /\ PDU_Queue'.tail = PDU_Queue.tail
          /\ \A e \in Elements \ {stack.e} : PDU_Queue'.buffer[e] = PDU_Queue.buffer[e]
      BY <2>4, <1>1 DEF FillDer, FillData, PqTyped
    <3>3. /\ Count(PDU_Queue)' = Count(PDU_Queue)
          /\ \A k \in Places : InPlace(k)' = InPlace(k)
      BY <3>1, <3>2, <1>1, WriteBehind
    <3>4. ASSUME NEW n \in 1 .. Count(PDU_Queue)
          PROVE  PDU_Queue'.buffer[Element(PDU_Queue'.tail + n - 1)]
                   = PDU_Queue.buffer[Element(PDU_Queue.tail + n - 1)]
      <4>1. n - 1 \in Places /\ PDU_Queue.tail + n - 1 = PDU_Queue.tail + (n - 1)
        BY <1>1, QueuePlaces, RingbufConstants DEF Places
      <4> QED
        BY <3>2, <3>3, <4>1 DEF InPlace, Held
    <3>5. Waiting' = Waiting /\ Turned' = Turned
      BY <3>2, <3>3, <3>4 DEF Waiting, Turned
    <3> QED
      BY <1>3, <1>5, <2>2, <3>5 DEF PortsUnchanged
  <2>5. CASE Put
    <3>1. /\ ~ Full(PDU_Queue) /\ PDU_Queue' = [PDU_Queue EXCEPT !.head = Inc(@)]
          /\ stack.data \in Data
      BY <2>5, <1>1 DEF Put, At, Filling, DataPut
    <3>2. /\ Count(PDU_Queue)' = Count(PDU_Queue) + 1
          /\ \A k \in Nat : InPlace(k)' = InPlace(k)
          /\ PDU_Queue'.tail = PDU_Queue.tail
      BY <3>1, <1>1, PutBehind
    <3>3. PqTyped' /\ Filling'
      BY <2>5, PqTypedKept, FillingKept DEF PqNext, StackNext, StackGoesOn
    <3>4. /\ Waiting \in Seq(Packets) /\ Len(Waiting) = Count(PDU_Queue)
          /\ \A k \in Places : Waiting[k + 1] = InPlace(k)
      BY <1>1, WaitingIs
    <3>5. /\ Waiting' \in Seq(Packets) /\ Len(Waiting') = Count(PDU_Queue)'
          /\ \A k \in Places' : Waiting'[k + 1] = InPlace(k)'
      BY <3>3, WaitingIsNext
    <3>6. InPlace(Count(PDU_Queue)) = Packet(stack.data) /\ Packet(stack.data) \in Packets
      <4>1. /\ PDU_Queue.buffer[stack.e].der = (stack.data \in Expecting)
            /\ PDU_Queue.buffer[stack.e].data = stack.data
            /\ stack.e = Element(PDU_Queue.head)
        BY <2>5, <1>1 DEF Put, At, Filling
      <4>2. InPlace(Count(PDU_Queue)) = PDU_Queue.buffer[stack.e] /\ stack.e \in Elements
        BY <4>1, <1>1, QueuePlaces DEF InPlace
      <4>3. PDU_Queue.buffer[stack.e] \in [der : BOOLEAN, data : Data \cup {Nothing}]
        BY <4>2, <1>1 DEF PqTyped
      <4> QED
        BY <3>1, <4>1, <4>2, <4>3 DEF Packet, Packets
    <3>7. Waiting' = Append(Waiting, Packet(stack.data))
      <4> DEFINE s == Append(Waiting, Packet(stack.data))
      <4>1. Count(PDU_Queue) \in Nat
        BY <1>1, QueuePlaces, RingbufConstants
      <4>2. /\ s \in Seq(Packets) /\ Len(s) = Count(PDU_Queue) + 1
            /\ \A n \in 1 .. Len(Waiting) : s[n] = Waiting[n]
            /\ s[Len(Waiting) + 1] = Packet(stack.data)
        BY <3>4, <3>6
      <4>3. ASSUME NEW n \in 1 .. Count(PDU_Queue) + 1
            PROVE  Waiting'[n] = s[n]
        <5>1. n - 1 \in Places' /\ n = (n - 1) + 1 /\ n - 1 \in Nat
          BY <3>2, <4>1 DEF Places
        <5>2. Waiting'[n] = InPlace(n - 1)
          BY <3>2, <3>5, <5>1
        <5>3. CASE n = Count(PDU_Queue) + 1
          BY <3>4, <3>6, <4>1, <4>2, <5>2, <5>3, n - 1 = Count(PDU_Queue)
        <5>4. CASE n # Count(PDU_Queue) + 1
          <6>1. n - 1 \in Places /\ n \in 1 .. Len(Waiting)
            BY <3>4, <4>1, <5>4 DEF Places
          <6> QED
            BY <3>4, <4>2, <5>1, <5>2, <6>1
        <5> QED
          BY <5>3, <5>4
      <4>4. Len(Waiting') = Len(s)
        BY <3>2, <3>5, <4>2
      <4> HIDE DEF s
      <4>5. Waiting' = s
        BY <3>2, <3>5, <4>2, <4>3, <4>4, SeqEqual
      <4> QED
        BY <4>5 DEF s
    <3>8. Len(Waiting) < ELEMENT_COUNT
      BY <3>1, <3>4, <1>1, QueuePlaces, RingbufConstants DEF Full
    <3>9. Ports!Queue(Packet(stack.data))
      BY <1>3, <1>5, <2>2, <3>7, <3>8
      DEF Ports!Queue, Sent, Request, Turned, InboxHeld, Got
    <3> QED
      BY <3>6, <3>9 DEF Ports!PortsNext
  <2> QED
    BY <1>8, <2>3, <2>4, <2>5
<1> QED
  BY <1>7, <1>8

\* The steps of the stack's thread that receive.
LEMMA PortsOfReceiving ==
  ASSUME PqIInv, Wake \/ TimedWait \/ Copy \/ Clear \/ CallReceive
  PROVE  Ports!PortsNext \/ PortsUnchanged
<1>1. PqTyped /\ Inbox
  BY DEF PqIInv
<1>2. UNCHANGED <<driver, PDU_Queue, master>>
  BY DEF Wake, TimedWait, Copy, Clear, CallReceive, ReceiveUnchanged
<1>3. /\ Sent' = Sent /\ Request' = Request /\ Turned' = Turned /\ Waiting' = Waiting
  BY <1>2 DEF Sent, Request, Replying, At, Turned, Waiting, Count
<1>4. Nothing \notin Frames /\ EmptyFrames \subseteq Frames
  BY PacketQueuesConstants DEF Frames
<1>5. /\ \A f : f # Nothing => Handle(f).pc = "HANDLE" /\ Handle(f).data = f
      /\ Handle(Nothing).pc = "LOOP" /\ IdleStack.pc = "LOOP"
  BY DEF Handle, IdleStack
<1>6. Receive_Packet.ready =>
        Take = IF Receive_Packet.pdu \in EmptyFrames THEN Nothing ELSE Receive_Packet.pdu
  BY <1>1 DEF Take, Inbox
\* The packet is handed over: here, at once, or between "COPY" and "CLEAR".
<1>7. ASSUME InboxHeld \in Frames, Got = Nothing, InboxHeld' = Nothing,
             Got' = IF InboxHeld \in EmptyFrames THEN Nothing ELSE InboxHeld
      PROVE  Ports!Receive
  BY <1>3, <1>4, <1>7 DEF Ports!Receive, Sent, Request, Turned, InboxHeld, Got
<1>8. CASE Wake
  <2>1. /\ stack.pc = "WAIT" /\ Got = Nothing
        /\ stack' = Handle(IF Receive_Packet.ready THEN Take ELSE Nothing)
        /\ Receive_Packet' = [Receive_Packet EXCEPT !.ready = FALSE]
    BY <1>8 DEF Wake, At, StackGoes, Got
  <2>2. Receive_Packet'.ready = FALSE
    BY <2>1, <1>1 DEF PqTyped
  <2>3. InboxHeld' = Nothing
    BY <2>2 DEF InboxHeld
  <2>4. CASE Receive_Packet.ready
    <3>1. InboxHeld = Receive_Packet.pdu /\ InboxHeld \in Frames
      BY <2>1, <2>4, <1>1 DEF InboxHeld, At, Inbox
    <3>2. stack' = Handle(IF InboxHeld \in EmptyFrames THEN Nothing ELSE InboxHeld)
      BY <2>1, <2>4, <3>1, <1>6
    <3>3. Got' = IF InboxHeld \in EmptyFrames THEN Nothing ELSE InboxHeld
      BY <3>1, <3>2, <1>4, <1>5 DEF Got
    <3> QED
      BY <1>7, <2>1, <2>3, <3>1, <3>3 DEF Ports!PortsNext
  <2>5. CASE ~ Receive_Packet.ready
    <3>1. Got' = Nothing /\ InboxHeld = Nothing
      BY <2>1, <2>5, <1>5 DEF Got, InboxHeld
    <3> QED
      BY <1>3, <2>1, <2>3, <3>1 DEF PortsUnchanged
  <2> QED
    BY <2>4, <2>5
<1>9. CASE TimedWait \/ CallReceive
  <2>1. /\ stack.pc \in {"WAIT", "LOOP"} /\ stack'.pc \in {"COPY", "WAIT", "LOOP"}
        /\ UNCHANGED Receive_Packet
    BY <1>9, <1>1, <1>5 DEF TimedWait, CallReceive, At, StackGoes, PqTyped
  <2>2. Got = Nothing /\ Got' = Nothing /\ InboxHeld' = InboxHeld
    BY <2>1 DEF Got, InboxHeld, At
  <2> QED
    BY <1>3, <2>2 DEF PortsUnchanged
<1>10. CASE Copy
  <2>1. /\ stack.pc = "COPY" /\ Receive_Packet.ready /\ UNCHANGED Receive_Packet
        /\ stack' = [stack EXCEPT !.pc = "CLEAR", !.data = Take]
    BY <1>10, <1>1 DEF Copy, At, StackGoes, Inbox
  <2>2. stack'.pc = "CLEAR" /\ stack'.data = Take
    BY <2>1, <1>1 DEF PqTyped
  <2>3. /\ InboxHeld = Receive_Packet.pdu /\ InboxHeld \in Frames /\ Got = Nothing
        /\ InboxHeld' = Nothing /\ Got' = Take
    BY <2>1, <2>2, <1>1 DEF InboxHeld, Got, At, Inbox
  <2> QED
    BY <1>6, <1>7, <2>1, <2>3 DEF Ports!PortsNext
<1>11. CASE Clear
  <2>1. /\ stack.pc = "CLEAR" /\ stack' = Handle(stack.data)
        /\ Receive_Packet' = [Receive_Packet EXCEPT !.ready = FALSE]
    BY <1>11 DEF Clear, At, StackGoes
  <2>2. Receive_Packet'.ready = FALSE
    BY <2>1, <1>1 DEF PqTyped
  <2>3. InboxHeld = Nothing /\ InboxHeld' = Nothing /\ Got = stack.data
    BY <2>1, <2>2 DEF InboxHeld, At, Got
  <2>4. Got' = stack.data
    <3>1. CASE stack.data = Nothing
      BY <2>1, <3>1, <1>5 DEF Got
    <3>2. CASE stack.data # Nothing
      BY <2>1, <3>2, <1>5 DEF Got
    <3> QED
      BY <3>1, <3>2
  <2> QED
    BY <1>3, <2>3, <2>4 DEF PortsUnchanged
<1> QED
  BY <1>8, <1>9, <1>10, <1>11

\* The steps of the master's thread that put a received frame.
LEMMA PortsOfPutting ==
  ASSUME PqIInv,
         (\E f \in Frames : PutReceive(f) \/ TestReady(f)) \/ Fill \/ SetReady \/ Post
  PROVE  Ports!PortsNext \/ PortsUnchanged
<1>1. PqTyped /\ Inbox /\ Reading
  BY DEF PqIInv
<1>2. UNCHANGED <<driver, PDU_Queue, stack>>
  BY DEF PutReceive, TestReady, Fill, SetReady, Post, QueueUnchanged
<1>3. Got' = Got /\ Turned' = Turned /\ Waiting' = Waiting
  BY <1>2 DEF Got, Turned, Waiting, Count
<1>4. /\ master.pc \in {"IDLE", "FILL", "READY", "POST"}
      /\ master'.pc \in {"IDLE", "ANSWER", "FILL", "READY", "POST"}
  <2>1. \A f : AfterPut(f).pc \in {"IDLE", "ANSWER"}
    BY DEF AfterPut, IdleMaster
  <2>2. CASE (\E f \in Frames : PutReceive(f) \/ TestReady(f)) \/ Post
    BY <2>1, <2>2 DEF PutReceive, TestReady, Post, At, MasterGoes, IdleMaster
  <2>3. CASE Fill \/ SetReady
    BY <2>3, <1>1 DEF Fill, SetReady, At, MasterGoes, PqTyped
  <2> QED
    BY <2>2, <2>3
<1>5. /\ Sent' = Sent /\ Request = Nothing
      /\ Request' = IF master'.pc = "ANSWER" THEN master'.frame ELSE Nothing
  BY <1>4 DEF Sent, Request, Replying, At
<1>6. Nothing \notin Frames /\ Requests \subseteq Frames
  BY PacketQueuesConstants DEF Frames
\* After a request its reply is awaited.
<1>7. ASSUME NEW f \in Frames, master' = AfterPut(f)
      PROVE  Request' = Nothing \/ Request' = f
  <2>1. master'.pc = "IDLE" \/ (master'.pc = "ANSWER" /\ master'.frame = f)
    BY <1>7 DEF AfterPut, IdleMaster
  <2> QED
    BY <2>1, <1>5
<1>8. ASSUME NEW f \in Frames, InboxHeld' = InboxHeld, Request' = Nothing \/ Request' = f
      PROVE  Ports!PortsNext \/ PortsUnchanged
  <2>1. CASE Request' = Nothing
    BY <2>1, <1>3, <1>5, <1>8 DEF PortsUnchanged
  <2>2. CASE Request' = f
    <3>1. Ports!Await(f)
      BY <2>2, <1>3, <1>5, <1>8 DEF Ports!Await, Sent, Request, Turned, InboxHeld, Got
    <3> QED
      BY <3>1 DEF Ports!PortsNext
  <2> QED
    BY <1>8, <2>1, <2>2
<1>9. ASSUME NEW f \in Frames, InboxHeld = Nothing, InboxHeld' = f,
             Request' = Nothing \/ Request' = f
      PROVE  Ports!PortsNext
  <2>1. CASE Request' = Nothing
    <3>1. Ports!Accept(f)
      BY <2>1, <1>3, <1>5, <1>9 DEF Ports!Accept, Sent, Request, Turned, InboxHeld, Got
    <3> QED
      BY <3>1 DEF Ports!PortsNext
  <2>2. CASE Request' = f
    <3>1. Ports!AcceptAndAwait(f)
      BY <2>2, <1>3, <1>5, <1>9
      DEF Ports!AcceptAndAwait, Sent, Request, Turned, InboxHeld, Got
    <3> QED
      BY <3>1 DEF Ports!PortsNext
  <2> QED
    BY <1>9, <2>1, <2>2
<1>10. CASE \E f \in Frames : PutReceive(f)
  <2>1. PICK f \in Frames : PutReceive(f)
    BY <1>10
  <2>2. master' = AfterPut(f) /\ ~ Linux
    BY <2>1 DEF PutReceive, MasterGoes
  <2>3. stack.pc # "CLEAR" /\ stack'.pc # "CLEAR"
    BY <2>2, <1>1, <1>2 DEF Inbox
  <2>4. CASE Receive_Packet.ready
    <3>1. UNCHANGED Receive_Packet
      BY <2>1, <2>4 DEF PutReceive
    <3>2. InboxHeld' = InboxHeld
      BY <2>3, <3>1 DEF InboxHeld, At
    <3> QED
      BY <1>7, <1>8, <2>2, <3>2
  <2>5. CASE ~ Receive_Packet.ready
    <3>1. Receive_Packet' = [Filled(f) EXCEPT !.ready = TRUE]
      BY <2>1, <2>5 DEF PutReceive
    <3>2. Receive_Packet'.ready /\ Receive_Packet'.pdu = f
      BY <3>1 DEF Filled
    <3>3. InboxHeld = Nothing /\ InboxHeld' = f
      BY <2>3, <2>5, <3>2 DEF InboxHeld, At
    <3> QED
      BY <1>7, <1>9, <2>2, <3>3
  <2> QED
    BY <2>4, <2>5
<1>11. CASE \E f \in Frames : TestReady(f)
  <2>1. PICK f \in Frames : TestReady(f)
    BY <1>11
  <2>2. InboxHeld' = InboxHeld
    BY <2>1, <1>2 DEF TestReady, InboxHeld, At
  <2>3. master' = AfterPut(f) \/ master'.pc = "FILL"
    BY <2>1 DEF TestReady, MasterGoes, IdleMaster
  <2>4. Request' = Nothing \/ Request' = f
    BY <2>3, <1>5, <1>7
  <2> QED
    BY <1>8, <2>2, <2>4
<1>12. CASE Fill
  <2>1. /\ master.pc = "FILL" /\ Receive_Packet' = Filled(master.frame)
        /\ master'.pc = "READY"
    BY <1>12, <1>1 DEF Fill, At, MasterGoes, PqTyped
  <2>2. ~ Receive_Packet.ready /\ Receive_Packet'.ready = FALSE
    BY <2>1, <1>1 DEF Inbox, Filled
  <2>3. InboxHeld' = InboxHeld /\ Request' = Nothing
    BY <2>1, <2>2, <1>5 DEF InboxHeld
  <2> QED
    BY <1>3, <1>5, <2>3 DEF PortsUnchanged
<1>13. CASE SetReady
  <2>1. /\ master.pc = "READY" /\ master'.pc = "POST"
        /\ Receive_Packet' = [Receive_Packet EXCEPT !.ready = TRUE]
    BY <1>13, <1>1 DEF SetReady, At, MasterGoes, PqTyped
  <2>2. ~ Receive_Packet.ready /\ Receive_Packet = Filled(master.frame)
        /\ master.frame \in Frames /\ stack.pc # "CLEAR"
    BY <2>1, <1>1 DEF Inbox, At
  <2>3. Receive_Packet'.ready /\ Receive_Packet'.pdu = master.frame
    BY <2>1, <2>2 DEF Filled
  <2>4. InboxHeld = Nothing /\ InboxHeld' = master.frame /\ Request' = Nothing
    BY <2>1, <2>2, <2>3, <1>2, <1>5 DEF InboxHeld, At
  <2> QED
    BY <1>9, <2>2, <2>4
<1>14. CASE Post
  <2>1. master' = AfterPut(master.frame) /\ master.frame \in Frames
        /\ UNCHANGED Receive_Packet
    BY <1>14, <1>1 DEF Post, At, MasterGoes, Inbox
  <2>2. InboxHeld' = InboxHeld
    BY <2>1, <1>2 DEF InboxHeld, At
  <2> QED
    BY <1>7, <1>8, <2>1, <2>2
<1> QED
  BY <1>10, <1>11, <1>12, <1>13, <1>14

\* The steps of the master's thread that look for a packet, and those that end
\* with its frame or without one.
LEMMA PortsOfLooking ==
  ASSUME PqIInv,
         GetSend \/ SendData \/ CompareFirst \/ CompareNext \/ ReplyData \/ FindReply
         \/ SendFrame \/ PostponeReply
  PROVE  Ports!PortsNext \/ PortsUnchanged
<1>1. PqTyped /\ Inbox /\ Reading
  BY DEF PqIInv
<1>2. UNCHANGED <<driver, PDU_Queue, Receive_Packet, flag, stack>>
  BY DEF GetSend, SendData, CompareFirst, CompareNext, ReplyData, FindReply, SendFrame,
     PostponeReply, MasterUnchanged, QueueKept
<1>3. /\ Got' = Got /\ InboxHeld' = InboxHeld /\ Turned' = Turned /\ Waiting' = Waiting
  BY <1>2 DEF Got, InboxHeld, At, Turned, Waiting, Count
<1>4. Nothing \notin Requests /\ ZeroPacket \notin Packets
  BY PacketQueuesConstants DEF ZeroPacket, Packets, Packet, Data
<1>5. CASE GetSend \/ SendData
  <2>1. /\ master.pc \in {"IDLE", "SEND_DATA"} /\ master'.pc \in {"SEND_DATA", "POP"}
        /\ master.frame = Nothing /\ master'.frame = Nothing
    BY <1>5, <1>1 DEF GetSend, SendData, At, MasterGoes, PqTyped, Reading
  <2>2. Sent' = Sent /\ Request' = Request
    BY <2>1 DEF Sent, Request, Replying, At
  <2> QED
    BY <1>3, <2>2 DEF PortsUnchanged
<1>6. ASSUME master.pc \in {"ANSWER", "NO_REPLY", "NEXT", "REPLY_DATA", "FIND"},
             master.frame \in Requests, master'.frame = master.frame,
             master'.pc \in AskedPcs \cup {"POP"}
      PROVE  PortsUnchanged
  BY <1>3, <1>4, <1>6 DEF PortsUnchanged, Sent, Request, Replying, At, AskedPcs
<1>7. CASE CompareFirst \/ CompareNext
  <2>1. /\ NoReply.pc = "NO_REPLY" /\ NoReply.frame = master.frame
    BY <1>1 DEF NoReply, PqTyped
  <2>2. ASSUME NEW e, NEW this, this.pc \in {"NEXT", "NO_REPLY"}, this.frame = master.frame
        PROVE  /\ Compare(e, this).pc \in {"NEXT", "NO_REPLY", "REPLY_DATA"}
               /\ Compare(e, this).frame = master.frame
    BY <2>1, <2>2, <1>1 DEF Compare, PqTyped
  <2>3. CASE CompareFirst
    <3> DEFINE this == IF Linux THEN [master EXCEPT !.pc = "NEXT", !.e = Peek(PDU_Queue)]
                       ELSE NoReply
    <3>1. this.pc \in {"NEXT", "NO_REPLY"} /\ this.frame = master.frame
      BY <2>1, <1>1 DEF PqTyped
    <3>2. master' = Compare(Peek(PDU_Queue), this)
      BY <2>3 DEF CompareFirst, MasterGoes
    <3> HIDE DEF this
    <3>3. /\ master'.pc \in AskedPcs \cup {"POP"} /\ master'.frame = master.frame
      BY <2>2, <3>1, <3>2 DEF AskedPcs
    <3>4. master.pc \in {"ANSWER", "NO_REPLY"} /\ master.frame \in Requests
      BY <2>3, <1>1 DEF CompareFirst, Reading, AskedPcs
    <3> QED
      BY <1>6, <3>3, <3>4
  <2>4. CASE CompareNext
    <3> DEFINE e == PeekNext(PDU_Queue, master.e)
               this == [master EXCEPT !.e = e]
    <3>1. master.pc = "NEXT" /\ master' = Compare(e, this)
      BY <2>4 DEF CompareNext, At, MasterGoes
    <3>2. this.pc = "NEXT" /\ this.frame = master.frame
      BY <3>1, <1>1 DEF PqTyped
    <3> HIDE DEF this, e
    <3>3. /\ master'.pc \in AskedPcs \cup {"POP"} /\ master'.frame = master.frame
      BY <2>2, <3>1, <3>2 DEF AskedPcs
    <3>4. master.frame \in Requests
      BY <3>1, <1>1 DEF Reading, AskedPcs
    <3> QED
      BY <1>6, <3>1, <3>3, <3>4
  <2> QED
    BY <1>7, <2>3, <2>4
<1>8. CASE ReplyData \/ FindReply
  <2>1. /\ master.pc \in {"REPLY_DATA", "FIND"} /\ master'.frame = master.frame
        /\ master'.pc \in {"FIND", "POP", "POP_FOUND"}
    BY <1>8, <1>1 DEF ReplyData, FindReply, At, MasterGoes, PqTyped
  <2>2. master.frame \in Requests
    BY <2>1, <1>1 DEF Reading, AskedPcs
  <2> QED
    BY <1>6, <2>1, <2>2 DEF AskedPcs
<1>9. CASE SendFrame
  <2>1. master.pc = "SEND_FRAME" /\ master.pkt \in Packets /\ master'.pc = "IDLE"
    BY <1>9, <1>1 DEF SendFrame, At, MasterGoes, Reading, IdleMaster
  <2>2. Sent \in Packets /\ Sent' = ZeroPacket /\ Request = Nothing /\ Request' = Nothing
    BY <2>1 DEF Sent, Request, Replying, At
  <2>3. Ports!GoesOut
    BY <1>3, <1>4, <2>2 DEF Ports!GoesOut, Sent, Request, Turned, InboxHeld, Got
  <2> QED
    BY <2>3 DEF Ports!PortsNext
<1>10. CASE PostponeReply
  <2>1. master.pc = "NO_REPLY" /\ master.frame \in Requests /\ master'.pc = "IDLE"
    BY <1>10, <1>1 DEF PostponeReply, At, MasterGoes, Reading, AskedPcs, IdleMaster
  <2>2. Request \in Requests /\ Request' = Nothing /\ Sent' = Sent
    BY <2>1 DEF Sent, Request, Replying, At
  <2>3. Ports!Postpone
    BY <1>3, <1>4, <2>2 DEF Ports!Postpone, Sent, Request, Turned, InboxHeld, Got
  <2> QED
    BY <2>3 DEF Ports!PortsNext
<1> QED
  BY <1>5, <1>7, <1>8, <1>9, <1>10

\* The steps that take the packet that goes out from the queue.
LEMMA PortsOfPopping ==
  ASSUME PqIInv, PopFirst \/ PopReply
  PROVE  Ports!PortsNext
<1>1. PqTyped /\ Filling /\ Inbox /\ Reading
  BY DEF PqIInv
<1>2. UNCHANGED <<driver, Receive_Packet, flag, stack>> /\ master' = Out
  BY DEF PopFirst, PopReply, MasterUnchanged, MasterGoes
<1>3. Got' = Got /\ InboxHeld' = InboxHeld
  BY <1>2 DEF Got, InboxHeld, At
<1>4. Nothing \notin Requests /\ ZeroPacket \notin Packets
  BY PacketQueuesConstants DEF ZeroPacket, Packets, Packet, Data
<1>5. master.pc \in {"POP", "POP_FOUND"}
  BY DEF PopFirst, PopReply, At
<1>6. Sent = ZeroPacket /\ Sent' = master.pkt /\ Request' = Nothing
  <2>1. Out.pc = "SEND_FRAME" /\ Out.pkt = master.pkt
    BY DEF Out, IdleMaster
  <2> QED
    BY <1>2, <1>5, <2>1 DEF Sent, Request, Replying, At
<1>7. Turned' \in BOOLEAN /\ Turned \in BOOLEAN
  BY DEF Turned
<1>8. PqTyped' /\ Filling'
  BY PqTypedKept, FillingKept DEF PqNext, MasterNext, MasterGoesOn
<1>9. /\ Waiting \in Seq(Packets) /\ Len(Waiting) = Count(PDU_Queue)
      /\ \A k \in Places : Waiting[k + 1] = InPlace(k)
      /\ Waiting = << >> <=> 0 \notin Places
  BY <1>1, WaitingIs
<1>10. /\ Waiting' \in Seq(Packets) /\ Len(Waiting') = Count(PDU_Queue)'
       /\ \A k \in Places' : Waiting'[k + 1] = InPlace(k)'
  BY <1>8, WaitingIsNext
<1>11. Count(PDU_Queue) \in Nat
  BY <1>1, QueuePlaces, RingbufConstants
\* The sequence that is left, from its elements.
<1>12. ASSUME NEW i \in 1 .. Count(PDU_Queue), Count(PDU_Queue)' = Count(PDU_Queue) - 1,
              \A j \in 0 .. Count(PDU_Queue) - 2 :
                InPlace(j)' = IF j + 1 >= i THEN InPlace(j + 1) ELSE InPlace(j)
       PROVE  Waiting' = Ports!RemoveAt(Waiting, i)
  <2> DEFINE t == SubSeq(Waiting, 1, i - 1) \o SubSeq(Waiting, i + 1, Len(Waiting))
  <2>1. /\ t \in Seq(Packets) /\ Len(t) = Count(PDU_Queue) - 1
        /\ \A n \in 1 .. Count(PDU_Queue) - 1 : t[n] = IF n < i THEN Waiting[n]
                                                       ELSE Waiting[n + 1]
    <3>1. Waiting \in Seq(Packets) /\ i \in 1 .. Len(Waiting)
      BY <1>9
    <3>2. /\ t \in Seq(Packets) /\ Len(t) = Len(Waiting) - 1
          /\ \A n \in 1 .. Len(Waiting) - 1 : t[n] = IF n < i THEN Waiting[n]
                                                   ELSE Waiting[n + 1]
      BY <3>1, SeqWithout
    <3> QED
      BY <1>9, <3>2
  <2> HIDE DEF t
  <2>2. ASSUME NEW n \in 1 .. Count(PDU_Queue) - 1
        PROVE  Waiting'[n] = t[n]
    <3>1. /\ n - 1 \in 0 .. Count(PDU_Queue) - 2 /\ n - 1 \in Places' /\ n - 1 \in Places
          /\ n \in Places /\ n = (n - 1) + 1 /\ i \in Nat
      BY <1>11, <1>12 DEF Places
    <3>2. Waiting'[n] = InPlace(n - 1)'
      BY <1>10, <3>1
    <3>3. Waiting[n] = InPlace(n - 1) /\ Waiting[n + 1] = InPlace(n)
      BY <1>9, <3>1
    <3>4. InPlace(n - 1)' = IF n >= i THEN InPlace(n) ELSE InPlace(n - 1)
      BY <1>12, <3>1
    <3> QED
      BY <2>1, <3>1, <3>2, <3>3, <3>4
  <2>3. Waiting' = t
    BY <1>10, <1>12, <2>1, <2>2, SeqEqual
  <2> QED
    BY <2>3 DEF t, Ports!RemoveAt
<1>13. ASSUME 0 \in Places, Count(PDU_Queue)' = Count(PDU_Queue) - 1,
              \A j \in 0 .. Count(PDU_Queue) - 2 : InPlace(j)' = InPlace(j + 1)
       PROVE  Waiting' = Tail(Waiting) /\ Head(Waiting) = InPlace(0)
  <2>1. /\ Tail(Waiting) \in Seq(Packets) /\ Len(Tail(Waiting)) = Count(PDU_Queue) - 1
        /\ \A n \in 1 .. Count(PDU_Queue) - 1 : Tail(Waiting)[n] = Waiting[n + 1]
    BY <1>9, <1>13, HeadTailProperties
  <2>2. ASSUME NEW n \in 1 .. Count(PDU_Queue) - 1
        PROVE  Waiting'[n] = Tail(Waiting)[n]
    <3>1. /\ n - 1 \in 0 .. Count(PDU_Queue) - 2 /\ n - 1 \in Places'
          /\ n \in Places /\ n = (n - 1) + 1
      BY <1>11, <1>13 DEF Places
    <3> QED
      BY <1>9, <1>10, <1>13, <2>1, <3>1
  <2>3. Waiting' = Tail(Waiting)
    BY <1>10, <1>13, <2>1, <2>2, SeqEqual
  <2>4. Head(Waiting) = Waiting[1] /\ Waiting[1] = InPlace(0)
    BY <1>9, <1>13, 0 + 1 = 1
  <2> QED
    BY <2>3, <2>4
<1>14. CASE PopFirst
  <2>1. /\ 0 \in Places /\ master.pkt = InPlace(0) /\ master.pc = "POP" /\ ~ Empty(PDU_Queue)
        /\ \/ master.frame = Nothing
           \/ master.frame \in Requests /\ Matches(InPlace(0), master.frame)
    BY <1>14, <1>1, QueuePlaces, RingbufConstants DEF PopFirst, At, Reading, Places, Empty
  <2>2. PDU_Queue' = [PDU_Queue EXCEPT !.tail = Inc(@)]
    BY <1>14, <2>1 DEF PopFirst, Pop
  <2>3. /\ PDU_Queue'.head = PDU_Queue.head /\ PDU_Queue'.tail = Inc(PDU_Queue.tail)
        /\ PDU_Queue'.buffer = PDU_Queue.buffer
    BY <2>2, <1>1 DEF PqTyped
  <2>4. /\ Count(PDU_Queue)' = Count(PDU_Queue) - 1
        /\ \A k \in Nat : Held(k)' = Held(k + 1)
    BY <2>1, <2>3, <1>1, MoveAhead
  <2>5. ASSUME NEW j \in 0 .. Count(PDU_Queue) - 2
        PROVE  InPlace(j)' = InPlace(j + 1)
    BY <2>3, <2>4, <1>11 DEF InPlace
  <2>6. Waiting' = Tail(Waiting) /\ Head(Waiting) = InPlace(0) /\ Waiting # << >>
    BY <1>9, <1>13, <2>1, <2>4, <2>5
  <2>7. CASE master.frame = Nothing
    <3>1. Request = Nothing
      BY <2>7 DEF Request
    <3>2. Ports!SendFirst
      BY <1>3, <1>4, <1>6, <1>7, <2>1, <2>6, <3>1
      DEF Ports!SendFirst, Sent, Request, Turned, InboxHeld, Got
    <3> QED
      BY <3>2 DEF Ports!PortsNext
  <2>8. CASE master.frame \in Requests /\ Matches(InPlace(0), master.frame)
    <3>1. Request = master.frame /\ Request # Nothing
      BY <2>1, <2>8, <1>4 DEF Request, Replying, At
    <3>2. 1 \in 1 .. Count(PDU_Queue) /\ 1 \in DOMAIN Waiting /\ Waiting[1] = InPlace(0)
      BY <1>9, <1>11, <2>1, 0 + 1 = 1 DEF Places
    <3>3. Waiting' = Ports!RemoveAt(Waiting, 1)
      BY <1>11, <1>12, <2>4, <2>5, <3>2
    <3>4. Ports!SendReply(1)
      BY <1>3, <1>4, <1>6, <1>7, <2>1, <2>8, <3>1, <3>2, <3>3
      DEF Ports!SendReply, Sent, Request, Turned, InboxHeld, Got
    <3> QED
      BY <3>2, <3>4 DEF Ports!PortsNext
  <2> QED
    BY <2>1, <2>7, <2>8
<1>15. CASE PopReply
  <2>1. PICK k \in Places : /\ Found(k) /\ master.pkt = InPlace(k)
                            /\ \/ master.index = PDU_Queue.tail + k
                               \/ PDU_Queue.head < PDU_Queue.tail
    BY <1>15, <1>1 DEF PopReply, At, Reading
  <2>2. /\ master.pc = "POP_FOUND" /\ master.frame \in Requests
        /\ PDU_Queue' = PopFound(PDU_Queue, master.index) /\ master.index \in Counts
    BY <1>15, <1>1 DEF PopReply, At, Reading, AskedPcs, PqTyped
  <2>3. 0 \in Places /\ k \in Nat /\ k + 1 \in 1 .. Count(PDU_Queue)
    BY <1>11 DEF Places
  <2>4. /\ PDU_Queue'.head = PDU_Queue.head /\ PDU_Queue'.tail = Inc(PDU_Queue.tail)
        /\ \A j \in 0 .. Count(PDU_Queue) - 2 :
             InPlace(j)' = IF PDU_Queue.head < PDU_Queue.tail \/ j >= k
                           THEN InPlace(j + 1) ELSE InPlace(j)
    BY <2>1, <2>2, <1>1, PopFoundMoves
  <2>5. Count(PDU_Queue)' = Count(PDU_Queue) - 1
    BY <2>3, <2>4, <1>1, MoveAhead
  <2>6. Request = master.frame /\ Request # Nothing
    BY <2>2, <1>4 DEF Request, Replying, At
  <2>7. k + 1 \in DOMAIN Waiting /\ Waiting[k + 1] = master.pkt
        /\ Matches(Waiting[k + 1], master.frame)
    BY <1>9, <2>1, <2>3 DEF Found, Matches
  <2>8. Waiting' = IF Turned /\ k + 1 > 1 THEN Tail(Waiting)
                   ELSE Ports!RemoveAt(Waiting, k + 1)
    <3>1. CASE Turned /\ k + 1 > 1
      <4>1. \A j \in 0 .. Count(PDU_Queue) - 2 : InPlace(j)' = InPlace(j + 1)
        BY <2>4, <3>1 DEF Turned
      <4> QED
        BY <1>13, <2>3, <2>5, <3>1, <4>1
    <3>2. CASE ~ (Turned /\ k + 1 > 1)
      <4>1. \A j \in 0 .. Count(PDU_Queue) - 2 :
              InPlace(j)' = IF j + 1 >= k + 1 THEN InPlace(j + 1) ELSE InPlace(j)
        BY <2>3, <2>4, <3>2, <1>11 DEF Turned
      <4> QED
        BY <1>12, <2>3, <2>5, <3>2, <4>1
    <3> QED
      BY <3>1, <3>2
  <2>9. Ports!SendReply(k + 1)
    BY <1>3, <1>4, <1>6, <1>7, <2>6, <2>7, <2>8
    DEF Ports!SendReply, Sent, Request, Turned, InboxHeld, Got
  <2> QED
    BY <2>7, <2>9 DEF Ports!PortsNext
<1> QED
  BY <1>14, <1>15

\* Both MS/TP drivers keep what PacketPorts promises the stack and the master
\* node, for every size of the ring buffer, every width of its counters and
\* every interleaving of the two threads: no packet and no received frame is
\* lost, taken twice, torn or overtaken, but by the reply to the request at
\* hand, and but for the one exception PacketPorts names.
THEOREM DriversKeepPorts == PqSpec => PortsPromise
<1>1. PqInit => Ports!PortsInit
  BY PortsInitially
<1>2. PqIInv /\ [PqNext]_pqVars => [Ports!PortsNext]_(Ports!portVars)
  <2>1. PortsUnchanged => UNCHANGED Ports!portVars
    BY DEF PortsUnchanged, Ports!portVars, Sent, Request, Turned, InboxHeld, Got
  <2>2. UNCHANGED pqVars => UNCHANGED Ports!portVars
    BY DEF pqVars, Ports!portVars, Waiting, Count, At, Replying
  <2>3. ASSUME PqIInv, PqNext
        PROVE  Ports!PortsNext \/ PortsUnchanged
    BY <2>3, PortsOfSending, PortsOfReceiving, PortsOfPutting, PortsOfLooking, PortsOfPopping
    DEF PqNext, StackNext, StackGoesOn, MasterNext, MasterGoesOn
  <2> QED
    BY <2>1, <2>2, <2>3
<1> QED
  BY <1>1, <1>2, PqInductive, PTL DEF PqSpec, PortsPromise, Ports!PortsSpec
=============================================================================
