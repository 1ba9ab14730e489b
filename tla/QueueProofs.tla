------------------------------- MODULE QueueProofs -------------------------------
(* For every capacity that fits in a uint8_t, the ring of queue.c stays in bounds *)
(* and implements the bounded FIFO.                                               *)
EXTENDS Queue, SequenceTheorems, TLAPS

lap(n, c) == IF n < 0 THEN c - 1 ELSE IF n < c THEN n ELSE n - c

\* From one slot before the ring to the end of its second lap, % is a conditional
\* subtraction: the only fact about the modulo that queue.c relies on.
LEMMA ModLemma ==
  ASSUME NEW c \in Nat \ {0}, NEW n \in -1 .. (2 * c - 1)
  PROVE  n % c = lap(n, c)
<1>1. CASE n < 0
  BY <1>1 DEF lap
<1>2. CASE 0 <= n /\ n < c
  BY <1>2 DEF lap
<1>3. CASE n >= c
  BY <1>3 DEF lap
<1> QED BY <1>1, <1>2, <1>3

\* The store into a uint8_t loses nothing for the values queue.c computes.
LEMMA Uint8Lemma ==
  ASSUME NEW n \in 0 .. (ByteRange - 1)
  PROVE  uint8(n) = n
<1>1. ByteRange \in Nat \ {0} /\ n \in -1 .. (2 * ByteRange - 1)
  BY RingAssumption
<1> QED BY <1>1, ModLemma DEF uint8

\* An index advanced by queue.c is the next slot of the ring.
LEMMA FollowingLemma ==
  ASSUME NEW s \in Slot
  PROVE  /\ following(s) = IF s = Capacity - 1 THEN 0 ELSE s + 1
         /\ following(s) \in Slot
<1>1. Capacity \in Nat \ {0} /\ s + 1 \in -1 .. (2 * Capacity - 1)
  BY RingAssumption DEF Slot
<1>2. (s + 1) % Capacity = IF s = Capacity - 1 THEN 0 ELSE s + 1
  <2>1. (s + 1) % Capacity = lap(s + 1, Capacity)
    BY <1>1, ModLemma
  <2> QED BY <2>1, RingAssumption DEF lap, Slot
<1>3. (s + 1) % Capacity \in 0 .. (ByteRange - 1)
  BY <1>2, RingAssumption DEF Slot
<1> QED BY <1>2, <1>3, Uint8Lemma, RingAssumption DEF following, Slot

RingTypeOK == TypeOK /\ RingInv

\* createQueue leaves a ring whose indices agree.
LEMMA InitRing == createQueue => RingTypeOK
<1> SUFFICES ASSUME createQueue PROVE RingTypeOK
  OBVIOUS
<1>1. Capacity - 1 \in 0 .. (ByteRange - 1)
  BY RingAssumption
<1>2. rear = Capacity - 1
  BY <1>1, Uint8Lemma DEF createQueue
<1>3. (-1) % Capacity = Capacity - 1
  <2>1. Capacity \in Nat \ {0} /\ -1 \in -1 .. (2 * Capacity - 1)
    BY RingAssumption
  <2>2. (-1) % Capacity = lap(-1, Capacity)
    BY <2>1, ModLemma
  <2> QED BY <2>2 DEF lap
<1>4. front + size - 1 = -1
  BY DEF createQueue
<1> QED BY <1>2, <1>3, <1>4, RingAssumption
        DEF createQueue, RingTypeOK, TypeOK, RingInv, Slot, Byte

\* Every call of queue.c preserves the agreement of front, rear and size.
LEMMA NextRing == RingTypeOK /\ [Next]_vars => RingTypeOK'
<1> SUFFICES ASSUME RingTypeOK, [Next]_vars PROVE RingTypeOK'
  OBVIOUS
<1> USE RingAssumption
<1>a. /\ Capacity \in Nat \ {0}
      /\ front \in Slot /\ rear \in Slot /\ size \in 0 .. Capacity
      /\ front + size - 1 \in -1 .. (2 * Capacity - 1)
      /\ array \in [Slot -> Byte] /\ out \in Byte
  BY DEF RingTypeOK, TypeOK, Slot
<1>b. rear = lap(front + size - 1, Capacity)
  <2>1. (front + size - 1) % Capacity = lap(front + size - 1, Capacity)
    BY <1>a, ModLemma
  <2> QED BY <2>1 DEF RingTypeOK, RingInv
<1>1. ASSUME NEW item \in Item, addToQueue(item) PROVE RingTypeOK'
  <2>1. CASE queueIsFull
    BY <1>1, <2>1 DEF addToQueue, queueIsFull, vars, RingTypeOK, TypeOK, RingInv
  <2>2. CASE ~queueIsFull
    <3>1. rear' = following(rear) /\ front' = front
      BY <1>1, <2>2 DEF addToQueue
    <3>2. rear' \in Slot /\ rear' = IF rear = Capacity - 1 THEN 0 ELSE rear + 1
      BY <3>1, <1>a, FollowingLemma
    <3>3. size' = size + 1
      <4>1. size + 1 \in 0 .. (ByteRange - 1)
        BY <1>a, <2>2 DEF queueIsFull
      <4> QED BY <4>1, <1>1, <2>2, Uint8Lemma DEF addToQueue
    <3>4. size' \in 0 .. Capacity
      BY <3>3, <1>a, <2>2 DEF queueIsFull
    <3>5. array' \in [Slot -> Byte] /\ out' \in Byte
      BY <1>1, <2>2, <1>a DEF addToQueue, Byte
    <3>6. front' + size' - 1 \in -1 .. (2 * Capacity - 1)
      BY <3>1, <3>3, <3>4, <1>a, <2>2 DEF Slot, queueIsFull
    <3>7. rear' = (front' + size' - 1) % Capacity
      <4>1. (front' + size' - 1) % Capacity = lap(front' + size' - 1, Capacity)
        BY <3>6, <1>a, ModLemma
      <4> QED BY <4>1, <3>1, <3>2, <3>3, <1>a, <1>b DEF Slot, lap
    <3> QED BY <3>1, <3>2, <3>4, <3>5, <3>7, <1>a DEF RingTypeOK, TypeOK, RingInv
  <2> QED BY <2>1, <2>2
<1>2. ASSUME removeFromQueue PROVE RingTypeOK'
  <2>1. CASE queueIsEmpty
    BY <1>2, <2>1, <1>a DEF removeFromQueue, queueIsEmpty, RingTypeOK, TypeOK, RingInv, Byte
  <2>2. CASE ~queueIsEmpty
    <3>1. front' = following(front) /\ rear' = rear /\ array' = array
      BY <1>2, <2>2 DEF removeFromQueue
    <3>2. front' \in Slot /\ front' = IF front = Capacity - 1 THEN 0 ELSE front + 1
      BY <3>1, <1>a, FollowingLemma
    <3>3. size' = size - 1
      <4>1. size - 1 \in 0 .. (ByteRange - 1)
        BY <1>a, <2>2 DEF queueIsEmpty
      <4> QED BY <4>1, <1>2, <2>2, Uint8Lemma DEF removeFromQueue
    <3>4. size' \in 0 .. Capacity
      BY <3>3, <1>a, <2>2 DEF queueIsEmpty
    <3>5. out' \in Byte
      BY <1>2, <2>2, <1>a DEF removeFromQueue
    <3>6. front' + size' - 1 \in -1 .. (2 * Capacity - 1)
      BY <3>2, <3>3, <3>4, <1>a, <2>2 DEF Slot, queueIsEmpty
    <3>7. rear' = (front' + size' - 1) % Capacity
      <4>1. (front' + size' - 1) % Capacity = lap(front' + size' - 1, Capacity)
        BY <3>6, <1>a, ModLemma
      <4> QED BY <4>1, <3>1, <3>2, <3>3, <1>a, <1>b, <2>2 DEF Slot, lap, queueIsEmpty
    <3> QED BY <3>1, <3>2, <3>4, <3>5, <3>7, <1>a DEF RingTypeOK, TypeOK, RingInv
  <2> QED BY <2>1, <2>2
<1>3. ASSUME queueFront PROVE RingTypeOK'
  BY <1>3, <1>a DEF queueFront, queueIsEmpty, RingTypeOK, TypeOK, RingInv, Byte
<1>4. ASSUME queueRear PROVE RingTypeOK'
  BY <1>4, <1>a DEF queueRear, queueIsEmpty, RingTypeOK, TypeOK, RingInv, Byte
<1>5. CASE UNCHANGED vars
  BY <1>5 DEF vars, RingTypeOK, TypeOK, RingInv
<1> QED BY <1>1, <1>2, <1>3, <1>4, <1>5 DEF Next

\* No call of queue.c ever indexes outside the malloc'ed bytes, and no uint8_t
\* wraps, for every capacity below the range of a uint8_t.
THEOREM QueueTypeOK == Spec => []TypeOK
<1>1. Spec => []RingTypeOK
  BY InitRing, NextRing, PTL DEF Spec
<1>2. RingTypeOK => TypeOK
  BY DEF RingTypeOK
<1> QED BY <1>1, <1>2, PTL

\* front, rear and size, moved by different calls, always describe one run of slots.
THEOREM QueueRingInv == Spec => []RingInv
<1>1. Spec => []RingTypeOK
  BY InitRing, NextRing, PTL DEF Spec
<1>2. RingTypeOK => RingInv
  BY DEF RingTypeOK
<1> QED BY <1>1, <1>2, PTL

----------------------------------------------------------------------------------
(* The refinement: the run of size slots from front on is the abstract queue.     *)

\* The bytes of the n slots from f on: ringContents is run(front, size, array).
run(f, n, a) == [k \in 1 .. n |-> a[(f + k - 1) % Capacity]]

\* The k-th byte of a run is in the slot k - 1 after its first, the lap taken off.
LEMMA RunLemma ==
  ASSUME NEW f \in Slot, NEW n \in 0 .. Capacity, NEW a \in [Slot -> Byte]
  PROVE  /\ run(f, n, a) \in Seq(Byte)
         /\ Len(run(f, n, a)) = n
         /\ \A k \in 1 .. n : /\ lap(f + k - 1, Capacity) \in Slot
                              /\ run(f, n, a)[k] = a[lap(f + k - 1, Capacity)]
<1>1. Capacity \in Nat \ {0}
  BY RingAssumption
<1>2. ASSUME NEW k \in 1 .. n
      PROVE  /\ (f + k - 1) % Capacity = lap(f + k - 1, Capacity)
             /\ lap(f + k - 1, Capacity) \in Slot
  <2>1. f + k - 1 \in -1 .. (2 * Capacity - 1)
    BY <1>1 DEF Slot
  <2>2. (f + k - 1) % Capacity = lap(f + k - 1, Capacity)
    BY <1>1, <2>1, ModLemma
  <2> QED BY <2>2, <1>1 DEF lap, Slot
<1>3. run(f, n, a) \in [1 .. n -> Byte]
  BY <1>1, <1>2 DEF run
<1>4. run(f, n, a) \in Seq(Byte) /\ Len(run(f, n, a)) = n
  BY <1>1, <1>3
<1>5. ASSUME NEW k \in 1 .. n
      PROVE  run(f, n, a)[k] = a[lap(f + k - 1, Capacity)]
  BY <1>2, <1>5 DEF run
<1> QED BY <1>2, <1>4, <1>5

\* The same for the ring itself.
LEMMA ContentsLemma ==
  ASSUME RingTypeOK
  PROVE  /\ ringContents \in Seq(Byte)
         /\ Len(ringContents) = size
         /\ \A k \in 1 .. size : /\ lap(front + k - 1, Capacity) \in Slot
                                 /\ ringContents[k] = array[lap(front + k - 1, Capacity)]
<1>1. ringContents = run(front, size, array)
  BY DEF ringContents, run
<1>2. front \in Slot /\ size \in 0 .. Capacity /\ array \in [Slot -> Byte]
  BY DEF RingTypeOK, TypeOK
<1> QED BY <1>1, <1>2, RunLemma

\* A byte added to a ring that is not full goes to the end of the contents and
\* disturbs none of the others.
LEMMA AddContents ==
  ASSUME RingTypeOK, RingTypeOK', NEW item \in Item, addToQueue(item), ~queueIsFull
  PROVE  ringContents' = Append(ringContents, item)
<1> USE RingAssumption
<1>1. /\ Capacity \in Nat \ {0} /\ front \in Slot /\ rear \in Slot /\ size \in 0 .. (Capacity - 1)
      /\ array \in [Slot -> Byte] /\ item \in Byte
  BY DEF RingTypeOK, TypeOK, queueIsFull, Byte
<1>2. front' = front /\ array' = [array EXCEPT ![rear'] = item] /\ rear' \in Slot
  BY DEF addToQueue, RingTypeOK, TypeOK
<1>3. size' = size + 1
  <2>1. size + 1 \in 0 .. (ByteRange - 1)
    BY <1>1
  <2> QED BY <2>1, Uint8Lemma DEF addToQueue
<1>4. rear' = lap(front + size, Capacity)
  <2>1. front' + size' - 1 \in -1 .. (2 * Capacity - 1) /\ front' + size' - 1 = front + size
    BY <1>1, <1>2, <1>3 DEF Slot
  <2>2. (front' + size' - 1) % Capacity = lap(front' + size' - 1, Capacity)
    BY <1>1, <2>1, ModLemma
  <2> QED BY <2>1, <2>2 DEF RingTypeOK, RingInv
<1>5. /\ ringContents' \in Seq(Byte) /\ Len(ringContents') = size + 1
      /\ \A k \in 1 .. (size + 1) : ringContents'[k] = array'[lap(front + k - 1, Capacity)]
  <2>1. /\ ringContents' \in Seq(Byte) /\ Len(ringContents') = size'
        /\ \A k \in 1 .. size' : ringContents'[k] = array'[lap(front' + k - 1, Capacity)]
    <3>1. ringContents' = run(front', size', array')
      BY DEF ringContents, run
    <3>2. front' \in Slot /\ size' \in 0 .. Capacity /\ array' \in [Slot -> Byte]
      BY DEF RingTypeOK, TypeOK
    <3> QED BY <3>1, <3>2, RunLemma
  <2> QED BY <2>1, <1>2, <1>3
<1>6. /\ Append(ringContents, item) \in Seq(Byte)
      /\ Len(Append(ringContents, item)) = size + 1
      /\ \A k \in 1 .. (size + 1) :
           Append(ringContents, item)[k] = IF k = size + 1 THEN item ELSE ringContents[k]
  BY <1>1, ContentsLemma
<1>7. ASSUME NEW k \in 1 .. (size + 1)
      PROVE  ringContents'[k] = Append(ringContents, item)[k]
  <2>1. CASE k = size + 1
    <3>1. front + k - 1 = front + size
      BY <2>1, <1>1 DEF Slot
    <3>2. array'[rear'] = item
      BY <1>1, <1>2
    <3> QED BY <2>1, <3>1, <3>2, <1>4, <1>5, <1>6
  <2>2. CASE k \in 1 .. size
    <3>1. /\ lap(front + k - 1, Capacity) \in Slot
          /\ ringContents[k] = array[lap(front + k - 1, Capacity)]
      BY <2>2, ContentsLemma
    <3>2. lap(front + k - 1, Capacity) # rear'
      BY <2>2, <1>1, <1>4 DEF lap, Slot
    <3>3. array'[lap(front + k - 1, Capacity)] = array[lap(front + k - 1, Capacity)]
      BY <3>1, <3>2, <1>1, <1>2
    <3>4. k # size + 1
      BY <2>2, <1>1
    <3> QED BY <3>1, <3>3, <3>4, <1>5, <1>6
  <2>3. k = size + 1 \/ k \in 1 .. size
    BY <1>1
  <2> QED BY <2>1, <2>2, <2>3
<1> QED BY <1>1, <1>5, <1>6, <1>7, SeqEqual

\* A byte removed from a ring that is not empty is the head of the contents, and
\* the others keep their order.
LEMMA RemoveContents ==
  ASSUME RingTypeOK, RingTypeOK', removeFromQueue, ~queueIsEmpty
  PROVE  ringContents # << >> /\ ringContents' = Tail(ringContents)
<1> USE RingAssumption
<1>1. /\ Capacity \in Nat \ {0} /\ front \in Slot /\ size \in 1 .. Capacity
  BY DEF RingTypeOK, TypeOK, queueIsEmpty
<1>2. front' = (IF front = Capacity - 1 THEN 0 ELSE front + 1) /\ array' = array
  BY <1>1, FollowingLemma DEF removeFromQueue
<1>3. size' = size - 1
  <2>1. size - 1 \in 0 .. (ByteRange - 1)
    BY <1>1
  <2> QED BY <2>1, Uint8Lemma DEF removeFromQueue
<1>4. /\ ringContents' \in Seq(Byte) /\ Len(ringContents') = size - 1
      /\ \A k \in 1 .. (size - 1) : ringContents'[k] = array[lap(front' + k - 1, Capacity)]
  <2>1. /\ ringContents' \in Seq(Byte) /\ Len(ringContents') = size'
        /\ \A k \in 1 .. size' : ringContents'[k] = array'[lap(front' + k - 1, Capacity)]
    <3>1. ringContents' = run(front', size', array')
      BY DEF ringContents, run
    <3>2. front' \in Slot /\ size' \in 0 .. Capacity /\ array' \in [Slot -> Byte]
      BY DEF RingTypeOK, TypeOK
    <3> QED BY <3>1, <3>2, RunLemma
  <2> QED BY <2>1, <1>2, <1>3
<1>5. ringContents # << >>
  BY <1>1, ContentsLemma, EmptySeq
<1>6. /\ Tail(ringContents) \in Seq(Byte) /\ Len(Tail(ringContents)) = size - 1
      /\ \A k \in 1 .. (size - 1) : Tail(ringContents)[k] = ringContents[k + 1]
  BY <1>1, <1>5, ContentsLemma, HeadTailProperties
<1>7. ASSUME NEW k \in 1 .. (size - 1)
      PROVE  ringContents'[k] = Tail(ringContents)[k]
  <2>1. k + 1 \in 1 .. size
    BY <1>1
  <2>2. ringContents[k + 1] = array[lap(front + (k + 1) - 1, Capacity)]
    BY <2>1, ContentsLemma
  <2>3. lap(front + (k + 1) - 1, Capacity) = lap(front' + k - 1, Capacity)
    BY <2>1, <1>1, <1>2 DEF lap, Slot
  <2> QED BY <2>2, <2>3, <1>4, <1>6
<1> QED BY <1>1, <1>4, <1>5, <1>6, <1>7, SeqEqual

\* The answers of the two readers are the ends of the contents.
LEMMA EndsOfContents ==
  ASSUME RingTypeOK
  PROVE  /\ queueIsEmpty <=> ringContents = << >>
         /\ queueIsFull <=> Len(ringContents) = Capacity
         /\ ~queueIsEmpty => /\ Head(ringContents) = array[front]
                             /\ ringContents[Len(ringContents)] = array[rear]
<1> USE RingAssumption
<1>1. /\ Capacity \in Nat \ {0} /\ front \in Slot /\ size \in 0 .. Capacity
      /\ rear = lap(front + size - 1, Capacity)
  <2>1. Capacity \in Nat \ {0} /\ front \in Slot /\ size \in 0 .. Capacity
    BY DEF RingTypeOK, TypeOK
  <2>2. front + size - 1 \in -1 .. (2 * Capacity - 1)
    BY <2>1 DEF Slot
  <2> QED BY <2>1, <2>2, ModLemma DEF RingTypeOK, RingInv
<1>2. queueIsEmpty <=> ringContents = << >>
  BY <1>1, ContentsLemma, EmptySeq DEF queueIsEmpty
<1>3. queueIsFull <=> Len(ringContents) = Capacity
  BY ContentsLemma DEF queueIsFull
<1>4. ASSUME ~queueIsEmpty
      PROVE  Head(ringContents) = array[front] /\ ringContents[Len(ringContents)] = array[rear]
  <2>1. 1 \in 1 .. size /\ size \in 1 .. size
    BY <1>1, <1>4 DEF queueIsEmpty
  <2>2. ringContents[1] = array[lap(front + 1 - 1, Capacity)] /\ lap(front + 1 - 1, Capacity) = front
    BY <2>1, <1>1, ContentsLemma DEF lap, Slot
  <2>3. Head(ringContents) = ringContents[1]
    BY <1>2, <1>4, ContentsLemma
  <2>4. ringContents[size] = array[rear]
    BY <2>1, <1>1, ContentsLemma
  <2> QED BY <2>2, <2>3, <2>4, ContentsLemma
<1> QED BY <1>2, <1>3, <1>4

\* Every call of queue.c is a call of the abstract queue.
LEMMA NextRefines ==
  ASSUME RingTypeOK, RingTypeOK', [Next]_vars
  PROVE  [Abstract!Next]_<<ringContents, out>>
<1>1. ASSUME NEW item \in Item, addToQueue(item) PROVE Abstract!Add(item)
  <2>1. CASE queueIsFull
    <3>1. UNCHANGED vars
      BY <1>1, <2>1 DEF addToQueue
    <3>2. ringContents' = ringContents /\ out' = out
      BY <3>1 DEF vars, ringContents
    <3> QED BY <3>2, <2>1, EndsOfContents
            DEF Abstract!Add, Abstract!addToQueue, Abstract!queueIsFull
  <2>2. CASE ~queueIsFull
    <3>1. ringContents' = Append(ringContents, item) /\ out' = out
      BY <1>1, <2>2, AddContents DEF addToQueue
    <3> QED BY <3>1, <2>2, EndsOfContents
            DEF Abstract!Add, Abstract!addToQueue, Abstract!queueIsFull
  <2> QED BY <2>1, <2>2
<1>2. ASSUME removeFromQueue PROVE Abstract!Remove
  <2>1. CASE queueIsEmpty
    <3>1. ringContents' = ringContents /\ out' = 0
      BY <1>2, <2>1 DEF removeFromQueue, ringContents
    <3> QED BY <3>1, <2>1, EndsOfContents
            DEF Abstract!Remove, Abstract!queueFront, Abstract!removed, Abstract!queueIsEmpty
  <2>2. CASE ~queueIsEmpty
    <3>1. ringContents' = Tail(ringContents) /\ out' = array[front]
      BY <1>2, <2>2, RemoveContents DEF removeFromQueue
    <3> QED BY <3>1, <2>2, EndsOfContents
            DEF Abstract!Remove, Abstract!queueFront, Abstract!removed, Abstract!queueIsEmpty
  <2> QED BY <2>1, <2>2
<1>3. ASSUME queueFront PROVE Abstract!Front
  <2>1. ringContents' = ringContents /\ out' = IF queueIsEmpty THEN 0 ELSE array[front]
    BY <1>3 DEF queueFront, ringContents
  <2> QED BY <2>1, EndsOfContents DEF Abstract!Front, Abstract!queueFront, Abstract!queueIsEmpty
<1>4. ASSUME queueRear PROVE Abstract!Rear
  <2>1. ringContents' = ringContents /\ out' = IF queueIsEmpty THEN 0 ELSE array[rear]
    BY <1>4 DEF queueRear, ringContents
  <2> QED BY <2>1, EndsOfContents DEF Abstract!Rear, Abstract!queueRear, Abstract!queueIsEmpty
<1>5. ASSUME UNCHANGED vars PROVE UNCHANGED <<ringContents, out>>
  BY <1>5 DEF vars, ringContents
<1> QED BY <1>1, <1>2, <1>3, <1>4, <1>5 DEF Next, Abstract!Next

\* For every capacity below the range of a uint8_t, queue.c is the bounded FIFO of
\* BoundedFifo: no wrap of an index reorders, repeats, loses or overwrites a byte.
THEOREM QueueImplementsFifo == Spec => ImplementsFifo
<1>1. createQueue => Abstract!Init
  <2>1. createQueue => ringContents = << >> /\ out = 0
    BY InitRing, ContentsLemma, EmptySeq DEF createQueue
  <2> QED BY <2>1 DEF Abstract!Init
<1>2. Spec => []RingTypeOK
  BY InitRing, NextRing, PTL DEF Spec
<1>3. RingTypeOK /\ RingTypeOK' /\ [Next]_vars => [Abstract!Next]_<<ringContents, out>>
  BY NextRefines
<1> QED BY <1>1, <1>2, <1>3, PTL DEF Spec, ImplementsFifo, Abstract!Spec
==================================================================================
