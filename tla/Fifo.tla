---------------------------------- MODULE Fifo ----------------------------------
(* What a client of queue.c may rely on: a byte queue that is a sequence, oldest  *)
(* byte first. addToQueue drops the byte when the queue is full, and the readers  *)
(* answer 0 when it is empty, exactly as a queued 0 would.                        *)
EXTENDS Naturals, Sequences

queueIsFull(q, capacity) == Len(q) = capacity

queueIsEmpty(q) == q = << >>

addToQueue(q, capacity, item) ==
  IF queueIsFull(q, capacity) THEN q ELSE Append(q, item)

\* removeFromQueue answers queueFront(q) and leaves removed(q).
queueFront(q) == IF queueIsEmpty(q) THEN 0 ELSE Head(q)

removed(q) == IF queueIsEmpty(q) THEN q ELSE Tail(q)

queueRear(q) == IF queueIsEmpty(q) THEN 0 ELSE q[Len(q)]
==================================================================================
