---------------------------------- MODULE Queue ----------------------------------
(* queue.c: the byte ring behind the transmit and receive queues of the serial    *)
(* port. front, rear and size are uint8_t, capacity is an unsigned, so that every *)
(* store into an index is reduced modulo ByteRange.                               *)
EXTENDS Integers, Sequences

CONSTANTS Capacity,  \* the argument of createQueue (10 for both serial queues)
          ByteRange, \* 2^8, the width of front, rear and size
          Item       \* the bytes clients add

\* A ring of ByteRange bytes would never be full: size wraps to 0. createQueue is
\* only called with 10.
ASSUME RingAssumption == /\ ByteRange \in Nat
                         /\ Capacity \in 1 .. (ByteRange - 1)
                         /\ Item \subseteq 0 .. (ByteRange - 1)

VARIABLES front, rear, size, \* the three uint8_t of the struct
          array,             \* the malloc'ed bytes
          out                \* the value the last reading call returned

vars == <<front, rear, size, array, out>>

Slot == 0 .. (Capacity - 1)

Byte == 0 .. (ByteRange - 1)

uint8(n) == n % ByteRange

\* createQueue: rear starts one slot before front; malloc leaves the bytes arbitrary.
createQueue == /\ front = 0
               /\ size = 0
               /\ rear = uint8(Capacity - 1)
               /\ array \in [Slot -> Byte]
               /\ out = 0

queueIsFull == size = Capacity

queueIsEmpty == size = 0

\* Mutant: the increment of an index without its modulo.
followingUnwrapped(s) == uint8(s + 1)

\* The slot that follows slot s in the ring, as the uint8_t the code stores.
following(s) == uint8((s + 1) % Capacity)

\* Mutant: the byte is stored before rear is advanced.
addToQueueLate(item) ==
  \/ /\ queueIsFull
     /\ UNCHANGED vars
  \/ /\ ~queueIsFull
     /\ rear' = following(rear)
     /\ array' = [array EXCEPT ![rear] = item]
     /\ size' = uint8(size + 1)
     /\ UNCHANGED <<front, out>>

addToQueue(item) ==
  \/ /\ queueIsFull
     /\ UNCHANGED vars
  \/ /\ ~queueIsFull
     /\ rear' = following(rear)
     /\ array' = [array EXCEPT ![rear'] = item]
     /\ size' = uint8(size + 1)
     /\ UNCHANGED <<front, out>>

\* Mutant: the byte is counted out but front stays.
removeFromQueueStuck ==
  /\ out' = IF queueIsEmpty THEN 0 ELSE array[front]
  /\ size' = IF queueIsEmpty THEN size ELSE uint8(size - 1)
  /\ UNCHANGED <<front, rear, array>>

removeFromQueue ==
  \/ /\ queueIsEmpty
     /\ out' = 0
     /\ UNCHANGED <<front, rear, size, array>>
  \/ /\ ~queueIsEmpty
     /\ out' = array[front]
     /\ front' = following(front)
     /\ size' = uint8(size - 1)
     /\ UNCHANGED <<rear, array>>

queueFront == /\ out' = IF queueIsEmpty THEN 0 ELSE array[front]
              /\ UNCHANGED <<front, rear, size, array>>

queueRear == /\ out' = IF queueIsEmpty THEN 0 ELSE array[rear]
             /\ UNCHANGED <<front, rear, size, array>>

Next == \/ \E item \in Item : addToQueue(item)
        \/ removeFromQueue
        \/ queueFront
        \/ queueRear

Spec == createQueue /\ [][Next]_vars

----------------------------------------------------------------------------------
(* Properties *)

\* Every index stays inside the malloc'ed bytes and every uint8_t keeps its type:
\* what array[rear] = item and item = array[front] need to stay in bounds.
TypeOK == /\ front \in Slot
          /\ rear \in Slot
          /\ size \in 0 .. Capacity
          /\ array \in [Slot -> Byte]
          /\ out \in Byte

\* The two indices and the counter, each advanced by a different call of queue.c,
\* always describe the same run of slots: rear is the slot of the last of the size
\* bytes counted from front.
RingInv == rear = (front + size - 1) % Capacity

\* The bytes in the ring, oldest first.
ringContents == [k \in 1 .. size |-> array[(front + k - 1) % Capacity]]

Abstract == INSTANCE BoundedFifo WITH contents <- ringContents

\* queue.c implements the bounded FIFO of BoundedFifo: whatever the wrapping of the
\* indices, bytes leave in the order they came, none is lost, duplicated or
\* overwritten, and a full queue refuses a byte without harm.
ImplementsFifo == Abstract!Spec

==================================================================================
