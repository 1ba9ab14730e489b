---------------------------------- MODULE Uart -----------------------------------
(* sp_configure_init of serialPort.c, one access to a register at a time, against *)
(* a 16550 that goes on receiving meanwhile: the other machine may have been      *)
(* started first. A register is the set of its bits.                              *)
EXTENDS Integers, Sequences

CONSTANT MaxBytes  \* bound on the bytes that arrive: the other machine sends one,
                   \* VM_CONNECTED, and waits for the answer

\* LCR
SP_8BITS == {}     \* BIT(0) & BIT(1)
SP_DLAB == {7}

\* IER
SP_RECEIVED_INTERRUPT == {0}
SP_TRANSMITTER_INTERRUPT == {1}
SP_RECEIVER_LINE_INTERRUPT == {2}

\* FCR
SP_ENABLE_FIFO == {0}
SP_CLEAR_RECEIVER_FIFO == {1}
SP_CLEAR_TRASMITTER_FIFO == {2}

VARIABLES step,       \* the access of configuration that comes next
          aux,        \* the value sys_inb has read for it; << >> before
          lcr, ier, fcr, divisor,
          rx,         \* bytes in the receiver
          overrun,    \* LSR
          due, thre,  \* received data, the empty transmitter wait to be reported
          arrived     \* bytes that arrived so far

device == <<lcr, ier, fcr, divisor, rx, overrun, due, thre, arrived>>
vars == <<step, aux, device>>

----------------------------------------------------------------------------------
(* The driver: what it does to its registers, in order *)

\* A register is read, bits are cleared and set in the value, and it is written back.
update(port, clear, set) == [port |-> port, clear |-> clear, set |-> set]

write(port, value) == [port |-> port, value |-> value]

sp_set_number_of_bits_per_char(number_of_bits) == <<update("LCR", {0, 1}, number_of_bits)>>

\* 115200 / 115200: one, in the two latches of the divisor.
sp_set_bitrate == <<update("LCR", {}, SP_DLAB), write("DLL", 1), write("DLM", 0),
                    update("LCR", SP_DLAB, {})>>

sp_enable(port, bit, enable) == <<IF enable THEN update(port, {}, bit) ELSE update(port, bit, {})>>

configuration ==
  sp_set_number_of_bits_per_char(SP_8BITS) \o sp_set_bitrate
    \o sp_enable("IER", SP_RECEIVED_INTERRUPT, TRUE)
    \o sp_enable("IER", SP_TRANSMITTER_INTERRUPT, TRUE)
    \o sp_enable("IER", SP_RECEIVER_LINE_INTERRUPT, TRUE)
    \o sp_enable("FCR", SP_ENABLE_FIFO, TRUE)
    \o sp_enable("FCR", SP_CLEAR_TRASMITTER_FIFO, TRUE)
    \o sp_enable("FCR", SP_CLEAR_RECEIVER_FIFO, TRUE)

configured == step > Len(configuration)

current == configuration[step]

\* The byte may be there already, and the last game may have left the FIFOs on.
Init == /\ step = 1 /\ aux = << >>
        /\ lcr = {0, 1} /\ ier = {} /\ divisor = [DLL |-> 1, DLM |-> 0]
        /\ fcr \in {{}, {0}}
        /\ rx \in 0 .. 1 /\ overrun = FALSE /\ due = (rx > 0) /\ thre = FALSE
        /\ arrived = rx

----------------------------------------------------------------------------------
(* The device *)

fifoOn == 0 \in fcr

depth == IF fifoOn THEN 16 ELSE 1

\* With both of its upper bits set the receiver reports 14 bytes, or fewer after a while.
ReceivesByte ==
  /\ ~configured /\ arrived < MaxBytes
  /\ arrived' = arrived + 1
  /\ rx' = IF rx < depth THEN rx + 1 ELSE rx
  /\ overrun' = (overrun \/ rx = depth)
  /\ due' = (due \/ ~({6, 7} \subseteq fcr) \/ rx' >= 14)
  /\ UNCHANGED <<step, aux, lcr, ier, fcr, divisor, thre>>

CharTimeout ==
  /\ ~configured /\ rx > 0 /\ ~due
  /\ due' = TRUE
  /\ UNCHANGED <<step, aux, lcr, ier, fcr, divisor, rx, overrun, thre, arrived>>

\* The cause the IIR reports; bit 0 says that there is none.
cause == CASE overrun /\ 2 \in ier -> {1, 2}
           [] ~(overrun /\ 2 \in ier) /\ due /\ 0 \in ier -> {2}
           [] ~(overrun /\ 2 \in ier) /\ ~(due /\ 0 \in ier) /\ thre /\ 1 \in ier -> {1}
           [] OTHER -> {0}

IIR == cause \cup (IF fifoOn THEN {6, 7} ELSE {})

\* sys_inb. The FCR can be written only: at its address the IIR is read, and a
\* transmitter reported there is not reported again.
Inb ==
  /\ ~configured /\ aux = << >> /\ "set" \in DOMAIN current
  /\ aux' = <<CASE current.port = "LCR" -> lcr
                [] current.port = "IER" -> ier
                [] current.port = "FCR" -> IIR>>
  /\ thre' = (thre /\ ~(current.port = "FCR" /\ cause = {1}))
  /\ UNCHANGED <<step, lcr, ier, fcr, divisor, rx, overrun, due, arrived>>

\* The value that the driver writes back.
changed == (aux[1] \ current.clear) \cup current.set

setLCR == lcr' = changed /\ UNCHANGED <<ier, fcr, divisor, rx, due, thre>>

\* The transmitter is empty: it is reported as soon as it may be.
setIER == /\ ier' = changed
          /\ thre' = (thre \/ (1 \in changed /\ 1 \notin ier))
          /\ UNCHANGED <<lcr, fcr, divisor, rx, due>>

\* To switch the FIFOs is to empty them; with bit 0 clear, the other bits have no effect.
setFCR == LET empties == (0 \in changed) # fifoOn \/ {0, 1} \subseteq changed
          IN  /\ fcr' = IF 0 \in changed THEN changed \ {1, 2} ELSE {}
              /\ rx' = IF empties THEN 0 ELSE rx
              /\ due' = (due /\ ~empties)
              /\ UNCHANGED <<lcr, ier, divisor, thre>>

\* sys_outb.
Outb ==
  /\ ~configured /\ ("set" \in DOMAIN current => aux # << >>)
  /\ CASE current.port = "LCR" -> setLCR
       [] current.port = "IER" -> setIER
       [] current.port = "FCR" -> setFCR
       [] OTHER -> /\ divisor' = [divisor EXCEPT ![current.port] = current.value]
                   /\ UNCHANGED <<lcr, ier, fcr, rx, due, thre>>
  /\ step' = step + 1 /\ aux' = << >>
  /\ UNCHANGED <<overrun, arrived>>

Next == ReceivesByte \/ CharTimeout \/ Inb \/ Outb

Spec == Init /\ [][Next]_vars

----------------------------------------------------------------------------------
(* Properties *)

\* "em conjunto com FIFO para garantir que não são perdidos dados" (the report, page 8:
\* together with the FIFO, to ensure that no data are lost): once the port is configured
\* its FIFOs are on. sp_enable ("enable or disable the bit in the port given",
\* serialPort.h:24) writes back what it reads, which for the FCR is the IIR.
FifoIsOn == configured => fifoOn
==================================================================================
