------------------------------- MODULE BoundedFifo -------------------------------
(* The abstract machine that queue.c promises (queue.h): the bytes come out in    *)
(* the order in which they went in, each once, and a byte offered to a full queue *)
(* is refused without disturbing the others. Queue.tla implements it.             *)
EXTENDS Fifo

CONSTANTS Capacity,  \* the argument of createQueue
          Item       \* the bytes clients add

VARIABLES contents,  \* the queued bytes, oldest first
          out        \* the value the last reading call returned

Init == /\ contents = << >>
        /\ out = 0

Add(item) == /\ contents' = addToQueue(contents, Capacity, item)
             /\ out' = out

Remove == /\ out' = queueFront(contents)
          /\ contents' = removed(contents)

Front == /\ out' = queueFront(contents)
         /\ contents' = contents

Rear == /\ out' = queueRear(contents)
        /\ contents' = contents

Next == \/ \E item \in Item : Add(item)
        \/ Remove
        \/ Front
        \/ Rear

Spec == Init /\ [][Next]_<<contents, out>>
==================================================================================
