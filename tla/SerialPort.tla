------------------------------- MODULE SerialPort --------------------------------
(* serialPort.c: the driver one machine runs on its UART, as operators from the   *)
(* state of a machine to its next state. Of the record s they use                 *)
(*   s.txq, s.rxq  transmitQueue and receiveQueue,                                *)
(*   s.thr         the transmitter holding register (LSR.THRE: it is empty),      *)
(*   s.fifo        the receiver FIFO of the UART (LSR.DR: it is not empty).       *)
EXTENDS Fifo

CONSTANTS QueueCapacity, \* createQueue(10) in sp_subscribe_int
          FifoDepth      \* 16 bytes on the 16550A the code enables, 1 without FIFO

ASSUME SerialAssumption == QueueCapacity \in Nat \ {0} /\ FifoDepth \in Nat \ {0}

\* The bytes of the protocol (serialConst.h, main.c). 0 is no byte at all: it is
\* what readFromQueue answers when nothing has arrived.
VM_CONNECTED == 250
RECEIVE_VM_CONNECTED == 253
BEGIN_MESSAGE == 249
YOUR_TURN == 248

sp_check_write(s) == s.thr = << >>

sp_check_read(s) == s.fifo # << >>

\* At most one byte leaves the queue per call, and only into an empty register.
sp_write(s) ==
  IF ~queueIsEmpty(s.txq) /\ sp_check_write(s)
  THEN [s EXCEPT !.thr = <<queueFront(s.txq)>>, !.txq = removed(s.txq)]
  ELSE s

\* The byte is taken out of the UART even when the receive queue has no room for it.
sp_read(s) ==
  IF sp_check_read(s)
  THEN [s EXCEPT !.rxq = addToQueue(s.rxq, QueueCapacity, Head(s.fifo)),
                 !.fifo = Tail(s.fifo)]
  ELSE s

\* The IIR reports received data before an empty transmitter.
sp_ih(s) == IF sp_check_read(s) THEN sp_read(s) ELSE sp_write(s)

\* sp_clear reads until the UART is empty, then empties the receive queue.
sp_clear(s) == [s EXCEPT !.fifo = << >>, !.rxq = << >>]

addToTransmitQueue(s, data) ==
  [s EXCEPT !.txq = addToQueue(s.txq, QueueCapacity, data)]

\* readFromQueue answers queueFront(s.rxq) and leaves this.
afterRead(s) == [s EXCEPT !.rxq = removed(s.rxq)]

\* The wire: the byte of the sender's register reaches the receiver's FIFO, or is
\* lost to an overrun if the FIFO is full.
received(s, byte) == [s EXCEPT !.fifo = addToQueue(s.fifo, FifoDepth, byte)]

\* sp_configure_end turns the UART's FIFOs off, which empties both. A byte whose
\* transmission has begun may still go out: `sent` says whether it does.
sp_configure_end(s, sent) ==
  [s EXCEPT !.fifo = << >>, !.thr = IF sent THEN s.thr ELSE << >>]
==================================================================================
