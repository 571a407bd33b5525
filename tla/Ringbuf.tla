------------------------------- MODULE Ringbuf -------------------------------
(***************************************************************************)
(* The ring buffer of basic/sys/ringbuf.c, on a record [head, tail,        *)
(* buffer].  head and tail count all packets that were ever put and got,   *)
(* modulo the UINT values of `unsigned'; the element that belongs to a     *)
(* count is buffer[count % ELEMENT_COUNT].                                 *)
(***************************************************************************)
EXTENDS Naturals

CONSTANTS ELEMENT_COUNT,      \* elements of the buffer, a power of two
          UINT,               \* number of values of `unsigned', another one
          NoElement           \* NULL

ASSUME RingbufConstants ==
  /\ ELEMENT_COUNT \in Nat \ {0}
  /\ UINT \in Nat /\ UINT > ELEMENT_COUNT /\ UINT % ELEMENT_COUNT = 0
  /\ NoElement \notin Nat

Counts   == 0 .. UINT - 1
Elements == 0 .. ELEMENT_COUNT - 1

Inc(n)   == (n + 1) % UINT
Minus(m, n) == (m + UINT - n) % UINT
Element(n) == n % ELEMENT_COUNT

Count(b) == Minus(b.head, b.tail)

Mut_Full(b) == Count(b) > ELEMENT_COUNT

Full(b)  == Count(b) = ELEMENT_COUNT
Empty(b) == Count(b) = 0

\* The element to get next, and the one to fill next.
Peek(b)     == IF Empty(b) THEN NoElement ELSE Element(b.tail)
DataPeek(b) == IF Full(b) THEN NoElement ELSE Element(b.head)

Mut_PeekNext(b, e) ==
  LET passed == {n \in Counts : /\ b.tail <= n /\ n < Minus(b.head, 2)
                                /\ Element(n) = e}
  IN  IF Empty(b) \/ passed = {} THEN NoElement
      ELSE Element((CHOOSE n \in passed : TRUE) + 1)

\* The element after e.  The loop compares counts, so it finds none when head
\* has turned over to 1 or more and tail has not.
PeekNext(b, e) ==
  LET passed == {n \in Counts : /\ b.tail <= n /\ n < Minus(b.head, 1)
                                /\ Element(n) = e}
  IN  IF Empty(b) \/ passed = {} THEN NoElement
      ELSE Element((CHOOSE n \in passed : TRUE) + 1)

\* Ringbuf_Data_Put() of the element e that was peeked.
DataPut(b, e) ==
  IF ~ Full(b) /\ Element(b.head) = e THEN [b EXCEPT !.head = Inc(@)] ELSE b

Pop(b) == IF Empty(b) THEN b ELSE [b EXCEPT !.tail = Inc(@)]

\* Ringbuf_Pop_Element() in two parts, for head may move between them: the
\* search for e, with the head read before it as the default, ...
FindElement(b, e, default) ==
  LET found == {n \in Counts : b.tail <= n /\ n < b.head /\ Element(n) = e}
  IN  IF found = {} THEN default ELSE CHOOSE n \in found : TRUE

Mut_PopFound(b, this_index) == [b EXCEPT !.tail = Inc(@)]

\* ... and the gap at this_index filled from below.  Whether or not e was
\* found, tail moves on.
PopFound(b, this_index) ==
  LET moved == IF this_index < b.head THEN {n \in Counts : b.tail < n /\ n <= this_index}
               ELSE {}
  IN  [b EXCEPT !.tail = Inc(@),
                !.buffer = [e \in Elements |->
                              IF \E n \in moved : Element(n) = e
                              THEN b.buffer[(e + ELEMENT_COUNT - 1) % ELEMENT_COUNT]
                              ELSE b.buffer[e]]]

\* Ringbuf_Init()
RingbufInit(contents) == [head |-> 0, tail |-> 0,
                          buffer |-> [e \in Elements |-> contents]]
=============================================================================
