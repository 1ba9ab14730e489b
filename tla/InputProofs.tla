------------------------------- MODULE InputProofs -------------------------------
(* For every screen, device, name size and capacity of the event queue.           *)
EXTENDS Input, MouseProofs

----------------------------------------------------------------------------------
(* The event queue *)

OneEach(queue) == \A k, l \in DOMAIN queue : queue[k].type = queue[l].type => k = l

\* One more event, of a device that has none in the queue yet.
LEMMA PushLemma ==
  ASSUME NEW queue \in Seq(Event), OneEach(queue), Len(queue) < EventCapacity,
         NEW event \in Event, \A k \in DOMAIN queue : queue[k].type # event.type
  PROVE  /\ pushEvent(queue, event) = Append(queue, event)
         /\ pushEvent(queue, event) \in Seq(Event)
         /\ Len(pushEvent(queue, event)) = Len(queue) + 1
         /\ OneEach(pushEvent(queue, event))
         /\ \A k \in DOMAIN pushEvent(queue, event) :
              \/ k \in DOMAIN queue /\ pushEvent(queue, event)[k] = queue[k]
              \/ pushEvent(queue, event)[k] = event
<1>1. Len(queue) # EventCapacity
  BY InputAssumption
<1>2. pushEvent(queue, event) = Append(queue, event)
  BY <1>1 DEF pushEvent
<1>3. /\ Append(queue, event) \in Seq(Event)
      /\ Len(Append(queue, event)) = Len(queue) + 1
      /\ DOMAIN Append(queue, event) = 1 .. (Len(queue) + 1) /\ DOMAIN queue = 1 .. Len(queue)
      /\ Len(queue) \in Nat
      /\ \A k \in 1 .. Len(queue) : Append(queue, event)[k] = queue[k]
      /\ Append(queue, event)[Len(queue) + 1] = event
  OBVIOUS
<1>4. \A k \in 1 .. (Len(queue) + 1) : k \in 1 .. Len(queue) \/ k = Len(queue) + 1
  BY <1>3
<1>5. OneEach(Append(queue, event))
  BY <1>3, <1>4 DEF OneEach
<1> HIDE DEF OneEach
<1>6. \A k \in DOMAIN Append(queue, event) :
        \/ k \in DOMAIN queue /\ Append(queue, event)[k] = queue[k]
        \/ Append(queue, event)[k] = event
  BY <1>3, <1>4
<1> QED BY <1>2, <1>3, <1>5, <1>6

\* The last event goes, the others keep their places.
LEMMA PopLemma ==
  ASSUME NEW queue \in Seq(Event), queue # << >>
  PROVE  LET rest == SubSeq(queue, 1, Len(queue) - 1)
         IN  /\ rest \in Seq(Event) /\ Len(rest) = Len(queue) - 1
             /\ Len(queue) \in DOMAIN queue /\ queue[Len(queue)] \in Event
             /\ DOMAIN rest = 1 .. (Len(queue) - 1) /\ DOMAIN queue = 1 .. Len(queue)
             /\ \A k \in DOMAIN rest : rest[k] = queue[k]
<1>1. Len(queue) \in Nat /\ Len(queue) # 0 /\ DOMAIN queue = 1 .. Len(queue)
  OBVIOUS
<1>2. Len(queue) - 1 \in Nat /\ Len(queue) \in 1 .. Len(queue)
  BY <1>1
<1>3. queue[Len(queue)] \in Event
  BY <1>2
<1> DEFINE rest == SubSeq(queue, 1, Len(queue) - 1)
<1>4. /\ rest \in Seq(Event) /\ Len(rest) = Len(queue) - 1
      /\ \A k \in 1 .. (Len(queue) - 1) : rest[k] = queue[k]
  BY <1>1, <1>2
<1>5. DOMAIN rest = 1 .. (Len(queue) - 1)
  BY <1>4
<1> QED BY <1>1, <1>2, <1>3, <1>4, <1>5

----------------------------------------------------------------------------------
(* The controller and the handlers that read it *)

KbcByte == [aux : BOOLEAN, byte : Byte, error : BOOLEAN]

WireTypes == /\ pc \in Place
             /\ out \in {<< >>} \cup {<<b>> : b \in KbcByte}
             /\ pending \subseteq {"timer", "mouse", "kb", "tty"}
             /\ in \in {<< >>, <<BYTE_TO_MOUSE>>, <<DIS_DATA_REPORTING>>}
             /\ counter \in 0 .. 1

PacketTypes == PacketInv /\ sent \in 0 .. 2

\* No command is under way while the loop runs, and the keyboard is the program's.
Idle == inLoop => in = << >> /\ ~toMouse /\ ~owesAck /\ "tty" \notin pending

\* A byte of the mouse in the buffer is the one its packet goes on with.
Carried == inLoop /\ out # << >> /\ out[1].aux =>
             /\ out[1].byte \in (IF sent = 0 THEN Flags ELSE Moves)
             /\ out[1].error \in Errors

\* The counter and the keyboard agree on whether a prefix has been read.
Prefixed == inLoop => /\ out # << >> /\ ~out[1].aux => (prefixed <=> out[1].byte = TWO_BYTES)
                      /\ counter = 1 => IF out # << >> /\ ~out[1].aux
                                        THEN out[1].byte # TWO_BYTES ELSE prefixed

WireInv == WireTypes /\ PacketTypes /\ Idle /\ Carried /\ Prefixed /\ NoByteLeftBehind

LEMMA BytesLemma == /\ Flags \subseteq Byte /\ Moves \subseteq Byte /\ Codes \subseteq Byte
                    /\ TWO_BYTES \in Byte /\ ACK \in Byte
                    /\ Errors \subseteq BOOLEAN /\ Flagged \subseteq BOOLEAN
BY MouseAssumption, InputAssumption DEF Byte, TWO_BYTES, ACK

LEMMA WireInit == InputInit => WireInv
<1> SUFFICES ASSUME InputInit PROVE WireInv
  OBVIOUS
<1>1. WireTypes
  BY DEF InputInit, WireTypes, Place
<1>2. PacketTypes
  <2>1. Init /\ sent \in 0 .. 2
    BY DEF InputInit, Init
  <2> QED BY <2>1, AlignInit DEF AlignInv, PacketTypes
<1>3. Idle /\ Carried /\ Prefixed /\ NoByteLeftBehind
  BY DEF InputInit, Idle, Carried, Prefixed, NoByteLeftBehind
<1> QED BY <1>1, <1>2, <1>3 DEF WireInv

\* A device puts a byte into the empty buffer.
LEMMA WireEmits ==
  ASSUME WireInv, NEW aux \in BOOLEAN, NEW byte \in Byte, NEW error \in BOOLEAN, NEW irq,
         emits(aux, byte, error, irq), irq \in {"mouse", "kb", "tty"},
         inLoop => irq = IF aux THEN "mouse" ELSE "kb",
         UNCHANGED <<vars, program>>
  PROVE  /\ out' = <<[aux |-> aux, byte |-> byte, error |-> error]>> /\ out = << >>
         /\ out' \in {<<b>> : b \in KbcByte}
         /\ pending' \subseteq {"timer", "mouse", "kb", "tty"}
         /\ NoByteLeftBehind' /\ PacketTypes'
         /\ pc' = pc /\ inLoop' = inLoop /\ counter' = counter /\ i' = i /\ sent' = sent
<1>1. /\ out' = <<[aux |-> aux, byte |-> byte, error |-> error]>> /\ out = << >>
      /\ pending' = pending \cup {irq}
  BY DEF emits
<1>2. /\ pc' = pc /\ inLoop' = inLoop /\ counter' = counter /\ i' = i /\ sent' = sent
  BY DEF vars, program, inLoop
<1>3. out'[1] = [aux |-> aux, byte |-> byte, error |-> error] /\ out' # << >>
  BY <1>1
<1>4. out'[1].aux = aux
  BY <1>3
<1>5. NoByteLeftBehind'
  BY <1>1, <1>2, <1>4 DEF NoByteLeftBehind
<1>6. PacketTypes'
  BY DEF WireInv, PacketTypes, PacketInv, vars
<1>7. pending' \subseteq {"timer", "mouse", "kb", "tty"}
  BY <1>1 DEF WireInv, WireTypes
<1>8. out' \in {<<b>> : b \in KbcByte}
  BY <1>1 DEF KbcByte
<1> QED BY <1>1, <1>2, <1>5, <1>6, <1>7, <1>8

LEMMA WireDevices ==
  ASSUME WireInv,
         \/ TimerTicks
         \/ \E byte \in Flags \cup Moves, error \in Errors : MouseSends(byte, error)
         \/ \E byte \in Codes \cup {TWO_BYTES}, error \in Flagged : KeyboardSends(byte, error)
         \/ MouseAcks \/ TakesInput \/ TtyReads
  PROVE  WireInv'
<1> USE DEF WireInv
<1>1. ASSUME TimerTicks PROVE WireInv'
  <2>1. /\ pc' = pc /\ out' = out /\ pending' = pending \cup {"timer"} /\ in' = in
        /\ counter' = counter /\ toMouse' = toMouse /\ owesAck' = owesAck /\ prefixed' = prefixed
        /\ i' = i /\ bytes' = bytes /\ sent' = sent
        /\ valid_packet' = valid_packet /\ memory' = memory
    BY <1>1 DEF TimerTicks, vars, program, controller
  <2> QED BY <2>1 DEF WireTypes, PacketTypes, PacketInv, Idle, Carried, Prefixed, NoByteLeftBehind, inLoop
<1>2. ASSUME NEW byte \in Flags \cup Moves, NEW error \in Errors, MouseSends(byte, error) PROVE WireInv'
  <2>1. /\ (inLoop => byte \in (IF sent = 0 THEN Flags ELSE Moves))
        /\ emits(TRUE, byte, error, "mouse") /\ UNCHANGED <<vars, program, controller, prefixed>>
    BY <1>2 DEF MouseSends
  <2>2. byte \in Byte /\ error \in BOOLEAN
    BY <1>2, BytesLemma
  <2>3. /\ out' = <<[aux |-> TRUE, byte |-> byte, error |-> error]>> /\ out = << >>
        /\ out' \in {<<b>> : b \in KbcByte}
        /\ pending' \subseteq {"timer", "mouse", "kb", "tty"}
        /\ NoByteLeftBehind' /\ PacketTypes'
        /\ pc' = pc /\ inLoop' = inLoop /\ counter' = counter /\ i' = i /\ sent' = sent
    BY <2>1, <2>2, WireEmits
  <2>4. in' = in /\ toMouse' = toMouse /\ owesAck' = owesAck /\ prefixed' = prefixed
    BY <2>1 DEF controller
  <2>5. pending' = pending \cup {"mouse"}
    BY <2>1 DEF emits
  <2>6. out' # << >> /\ out'[1].aux = TRUE /\ out'[1].byte = byte /\ out'[1].error = error
    BY <2>3
  <2>7. WireTypes'
    BY <2>3, <2>4 DEF WireTypes
  <2>8. Idle'
    BY <2>3, <2>4, <2>5 DEF Idle
  <2>9. Carried'
    BY <1>2, <2>1, <2>3, <2>6 DEF Carried
  <2>10. Prefixed'
    BY <2>3, <2>4, <2>6 DEF Prefixed
  <2> QED BY <2>3, <2>7, <2>8, <2>9, <2>10
<1>3. ASSUME NEW byte \in Codes \cup {TWO_BYTES}, NEW error \in Flagged, KeyboardSends(byte, error)
      PROVE  WireInv'
  <2> DEFINE irq == IF inLoop THEN "kb" ELSE "tty"
  <2>1. /\ (prefixed => byte # TWO_BYTES) /\ prefixed' = (byte = TWO_BYTES)
        /\ emits(FALSE, byte, error, irq) /\ UNCHANGED <<vars, program, controller>>
    BY <1>3 DEF KeyboardSends
  <2>2. byte \in Byte /\ error \in BOOLEAN
    BY <1>3, BytesLemma
  <2>3. /\ out' = <<[aux |-> FALSE, byte |-> byte, error |-> error]>> /\ out = << >>
        /\ out' \in {<<b>> : b \in KbcByte}
        /\ pending' \subseteq {"timer", "mouse", "kb", "tty"}
        /\ NoByteLeftBehind' /\ PacketTypes'
        /\ pc' = pc /\ inLoop' = inLoop /\ counter' = counter /\ i' = i /\ sent' = sent
    BY <2>1, <2>2, WireEmits
  <2>4. in' = in /\ toMouse' = toMouse /\ owesAck' = owesAck
    BY <2>1 DEF controller
  <2>5. pending' = pending \cup {irq}
    BY <2>1 DEF emits
  <2>6. out' # << >> /\ out'[1].aux = FALSE /\ out'[1].byte = byte
    BY <2>3
  <2>7. WireTypes'
    BY <2>3, <2>4 DEF WireTypes
  <2>8. Idle'
    BY <2>3, <2>4, <2>5 DEF Idle
  <2>9. Carried'
    BY <2>6 DEF Carried
  <2>10. Prefixed'
    BY <2>1, <2>3, <2>6 DEF Prefixed
  <2> QED BY <2>3, <2>7, <2>8, <2>9, <2>10
<1>4. ASSUME MouseAcks PROVE WireInv'
  <2>1. ~inLoop
    BY <1>4 DEF MouseAcks, Idle
  <2>2. emits(TRUE, ACK, FALSE, "mouse") /\ UNCHANGED <<vars, program, in>>
    BY <1>4 DEF MouseAcks
  <2>3. /\ out' \in {<<b>> : b \in KbcByte}
        /\ pending' \subseteq {"timer", "mouse", "kb", "tty"}
        /\ NoByteLeftBehind' /\ PacketTypes'
        /\ pc' = pc /\ inLoop' = inLoop /\ counter' = counter
    BY <2>1, <2>2, BytesLemma, WireEmits
  <2> QED BY <2>1, <2>2, <2>3 DEF WireTypes, Idle, Carried, Prefixed
<1>5. ASSUME TakesInput PROVE WireInv'
  <2>1. ~inLoop
    BY <1>5 DEF TakesInput, Idle
  <2>2. /\ in' = << >> /\ pc' = pc /\ counter' = counter /\ out' = out /\ pending' = pending
        /\ i' = i /\ bytes' = bytes /\ sent' = sent
        /\ valid_packet' = valid_packet /\ memory' = memory
    BY <1>5 DEF TakesInput, vars, program
  <2> QED BY <2>1, <2>2 DEF WireTypes, PacketTypes, PacketInv, Idle, Carried, Prefixed, NoByteLeftBehind, inLoop
<1>6. ASSUME TtyReads PROVE WireInv'
  <2>1. ~inLoop
    BY <1>6 DEF TtyReads, Idle
  <2>2. /\ in' = in /\ pc' = pc /\ counter' = counter /\ pending' = pending \ {"tty"}
        /\ out' \in {<< >>, out} /\ i' = i /\ bytes' = bytes /\ sent' = sent
        /\ valid_packet' = valid_packet /\ memory' = memory
    BY <1>6 DEF TtyReads, vars, program, controller
  <2> QED BY <2>1, <2>2 DEF WireTypes, PacketTypes, PacketInv, Idle, Carried, Prefixed, NoByteLeftBehind, inLoop
<1> QED BY <1>1, <1>2, <1>3, <1>4, <1>5, <1>6

byMouse == "mouse" \in pending /\ mouseReads
byKeyboard == "kb" \in pending /\ ~byMouse /\ keyboardReads

\* What a notification does to the controller and the counters.
LEMMA NotifyLemma ==
  ASSUME WireInv, Notify
  PROVE  /\ pc = "receive" /\ pc' = "drain" /\ pending' = {} /\ in' = in
         /\ toMouse' = toMouse /\ owesAck' = owesAck /\ prefixed' = prefixed
         /\ running /\ cursor' = cursor
         /\ \E s \in stored(byMouse /\ ~out[1].error) :
              /\ events' = afterKeyboard(pending, s)
              /\ byMouse => mouse_ih(out[1].byte, out[1].error, s)
         /\ byMouse => handedOver(out[1].byte, out[1].error) /\ out' = << >>
         /\ ~byMouse => UNCHANGED <<i, bytes, valid_packet, sent, quiet, flagged, memory>>
         /\ byKeyboard => counter' = nextCounter(out[1].byte) /\ out' = << >>
         /\ ~byKeyboard => counter' = counter
         /\ ~byMouse /\ ~byKeyboard => out' = out
BY DEF Notify, controller, byMouse, byKeyboard

\* The byte that mouse_ih reads, and the outcome of its store.
LEMMA NotifiedByte ==
  ASSUME WireInv, Notify, byMouse
  PROVE  /\ out # << >> /\ out[1].byte \in Byte /\ out[1].error \in BOOLEAN
         /\ out[1].byte \in (IF sent = 0 THEN Flags ELSE Moves) /\ out[1].error \in Errors
         /\ (byMouse /\ ~out[1].error) = ~out[1].error
<1>1. out # << >> /\ out[1].aux /\ inLoop
  BY NotifyLemma DEF byMouse, mouseReads, inLoop
<1>2. out[1].byte \in Byte /\ out[1].error \in BOOLEAN
  BY <1>1 DEF WireInv, WireTypes, KbcByte
<1>3. out[1].byte \in (IF sent = 0 THEN Flags ELSE Moves) /\ out[1].error \in Errors
  BY <1>1 DEF WireInv, Carried
<1>4. (byMouse /\ ~out[1].error) = ~out[1].error
  BY <1>2
<1> QED BY <1>1, <1>2, <1>3, <1>4

LEMMA WireNotify ==
  ASSUME WireInv, Notify
  PROVE  WireInv'
<1> USE DEF WireInv
<1> USE NotifyLemma
<1>1. inLoop /\ inLoop'
  BY DEF inLoop
<1>2. out # << >> => out[1] \in KbcByte
  BY DEF WireTypes
<1>3. out # << >> => out[1].aux \in BOOLEAN /\ out[1].byte \in Byte /\ out[1].error \in BOOLEAN
  BY <1>2 DEF KbcByte
<1>4. CASE byMouse
  <2>1. out # << >> /\ out[1].aux /\ out' = << >>
    BY <1>4 DEF byMouse, mouseReads
  <2>2. ~byKeyboard /\ counter' = counter
    BY <1>4 DEF byKeyboard
  <2>3. WireTypes'
    BY <2>1, <2>2 DEF WireTypes, Place
  <2>4. PacketTypes'
    <3>1. PICK s \in stored(~out[1].error) : mouse_ih(out[1].byte, out[1].error, s)
      BY <1>4, NotifiedByte
    <3>2. PacketInv'
      BY <1>4, <3>1, NotifiedByte, PacketByte DEF PacketTypes
    <3>3. sent' \in 0 .. 2
      BY <1>4 DEF handedOver, PacketTypes
    <3> QED BY <3>2, <3>3 DEF PacketTypes
  <2>5. Prefixed'
    BY <1>1, <2>1, <2>2 DEF Prefixed
  <2> QED BY <1>1, <2>1, <2>3, <2>4, <2>5 DEF Idle, Carried, NoByteLeftBehind
<1>5. CASE byKeyboard
  <2>1. out # << >> /\ ~out[1].aux /\ out' = << >> /\ ~byMouse
    BY <1>5 DEF byKeyboard, keyboardReads
  <2>2. PacketTypes'
    BY <2>1 DEF PacketTypes, PacketInv
  <2>3. counter' = IF out[1].byte # TWO_BYTES THEN 0 ELSE counter + 1
    BY <1>5 DEF nextCounter
  <2>4. counter = 1 => out[1].byte # TWO_BYTES
    BY <1>1, <2>1 DEF Prefixed
  <2>5. counter' \in 0 .. 1 /\ (counter' = 1 => out[1].byte = TWO_BYTES)
    BY <2>3, <2>4 DEF WireTypes
  <2>6. counter' = 1 => prefixed
    BY <1>1, <2>1, <2>5 DEF Prefixed
  <2>7. WireTypes'
    BY <2>1, <2>5 DEF WireTypes, Place
  <2> QED BY <1>1, <2>1, <2>2, <2>6, <2>7 DEF Idle, Carried, Prefixed, NoByteLeftBehind
<1>6. CASE ~byMouse /\ ~byKeyboard
  <2>1. out' = out /\ counter' = counter /\ i' = i /\ bytes' = bytes /\ sent' = sent
        /\ valid_packet' = valid_packet /\ memory' = memory
    BY <1>6
  <2>2. out # << >> => ~out[1].aux /\ out[1].error
    BY <1>1, <1>6 DEF NoByteLeftBehind, byMouse, byKeyboard, mouseReads, keyboardReads
  <2>3. WireTypes' /\ PacketTypes'
    BY <2>1 DEF WireTypes, PacketTypes, PacketInv, Place
  <2> QED BY <1>1, <2>1, <2>2, <2>3 DEF Idle, Carried, Prefixed, NoByteLeftBehind
<1> QED BY <1>4, <1>5, <1>6

\* The other steps of the program take no byte while the loop runs.
LEMMA WireProgram ==
  ASSUME WireInv, PopEvent \/ (\E over \in BOOLEAN : EndTurn(over)) \/ WriteCommand \/ WriteArg \/ ReadReturn
  PROVE  WireInv'
<1> USE DEF WireInv
<1>1. ASSUME PopEvent PROVE WireInv'
  <2>1. /\ pc' = pc /\ out' = out /\ pending' = pending /\ in' = in
        /\ counter' = counter /\ toMouse' = toMouse /\ owesAck' = owesAck /\ prefixed' = prefixed
        /\ i' = i /\ bytes' = bytes /\ sent' = sent
        /\ valid_packet' = valid_packet /\ memory' = memory
    BY <1>1 DEF PopEvent, controller
  <2> QED BY <2>1 DEF WireTypes, PacketTypes, PacketInv, Idle, Carried, Prefixed, NoByteLeftBehind, inLoop
<1>2. ASSUME NEW over \in BOOLEAN, EndTurn(over) PROVE WireInv'
  <2>1. /\ pc = "drain" /\ pc' = (IF over THEN "command" ELSE "receive")
        /\ pending' = (IF over THEN pending \ {"timer", "kb"} ELSE pending)
        /\ out' = out /\ in' = in /\ counter' = counter /\ toMouse' = toMouse /\ owesAck' = owesAck
        /\ prefixed' = prefixed /\ i' = i /\ bytes' = bytes /\ sent' = sent
        /\ valid_packet' = valid_packet /\ memory' = memory
    BY <1>2 DEF EndTurn, vars, controller
  <2>2. inLoop /\ inLoop' = ~over
    BY <2>1 DEF inLoop
  <2>3. WireTypes' /\ PacketTypes'
    BY <2>1 DEF WireTypes, PacketTypes, PacketInv, Place
  <2> QED BY <2>1, <2>2, <2>3 DEF Idle, Carried, Prefixed, NoByteLeftBehind
<1>3. ASSUME NEW from \in {"command", "arg"}, NEW byte \in {BYTE_TO_MOUSE, DIS_DATA_REPORTING},
             NEW to \in {"arg", "answer"}, writes(from, byte, to)
      PROVE  WireInv'
  <2>1. /\ pc' = to /\ in' = <<byte>> /\ out' = out /\ pending' = pending /\ counter' = counter
        /\ i' = i /\ bytes' = bytes /\ sent' = sent
        /\ valid_packet' = valid_packet /\ memory' = memory
    BY <1>3 DEF writes, vars
  <2>2. ~inLoop'
    BY <2>1 DEF inLoop
  <2> QED BY <2>1, <2>2 DEF WireTypes, PacketTypes, PacketInv, Idle, Carried, Prefixed, NoByteLeftBehind, Place
<1>4. ASSUME ReadReturn PROVE WireInv'
  <2>1. /\ pc' = "done" /\ in' = in /\ out' = << >> /\ pending' = pending /\ counter' = counter
        /\ i' = i /\ bytes' = bytes /\ sent' = sent
        /\ valid_packet' = valid_packet /\ memory' = memory
    BY <1>4 DEF ReadReturn, vars, controller
  <2>2. ~inLoop'
    BY <2>1 DEF inLoop
  <2> QED BY <2>1, <2>2 DEF WireTypes, PacketTypes, PacketInv, Idle, Carried, Prefixed, NoByteLeftBehind, Place
<1> QED BY <1>1, <1>2, <1>3, <1>4 DEF WriteCommand, WriteArg

LEMMA WireStep == WireInv /\ [InputNext]_inputVars => WireInv'
<1> SUFFICES ASSUME WireInv, [InputNext]_inputVars PROVE WireInv'
  OBVIOUS
<1>1. CASE UNCHANGED inputVars
  BY <1>1 DEF inputVars, vars, program, controller, WireInv, WireTypes, PacketTypes, PacketInv, Idle, Carried,
              Prefixed, NoByteLeftBehind, inLoop
<1>2. CASE InputNext
  BY <1>2, WireDevices, WireNotify, WireProgram DEF InputNext
<1> QED BY <1>1, <1>2

----------------------------------------------------------------------------------
(* What a notification leaves in the queue *)

QueueInv == /\ events \in Seq(Event) /\ OneEach(events) /\ Len(events) <= EventCapacity
            /\ pc # "drain" => events = << >>

\* The packet in the event of an interrupt.
completed(s) == mouse_packet(out[1].byte, out[1].error, s)

LEMMA NotifyEvents ==
  ASSUME WireInv, events = << >>, Notify, NEW s \in stored(byMouse /\ ~out[1].error),
         events' = afterKeyboard(pending, s), byMouse => mouse_ih(out[1].byte, out[1].error, s)
  PROVE  /\ events' \in Seq(Event) /\ OneEach(events') /\ Len(events') <= 3
         /\ (\E k \in DOMAIN events' : events'[k].type = "MOUSE") <=> byMouse /\ pushes(out[1].error, s)
         /\ \A k \in DOMAIN events' : events'[k].type = "MOUSE" => events'[k].mouse_packet = completed(s)
<1> DEFINE q1 == afterTimer(pending)
           q2 == afterMouse(pending, s)
           q3 == afterKeyboard(pending, s)
           frameEvent == [type |-> "NEW_FRAME"]
           mouseEvent == [type |-> "MOUSE", mouse_packet |-> completed(s)]
           keyEvent == [type |-> "KEYBOARD", scanCode |-> out[1].byte]
<1>1. EventCapacity \in Nat /\ EventCapacity >= 3
  BY InputAssumption
<1>2. out # << >> => out[1].byte \in Byte
  BY DEF WireInv, WireTypes, KbcByte
<1>3. frameEvent \in Event /\ frameEvent.type = "NEW_FRAME"
  BY DEF Event
<1>4. byMouse => mouseEvent \in Event
  <2> SUFFICES ASSUME byMouse PROVE mouseEvent \in Event
    OBVIOUS
  <2>1. mouse_packet(out[1].byte, out[1].error, s) \in Packet
    BY NotifiedByte, PacketByte DEF WireInv, PacketTypes
  <2> QED BY <2>1 DEF Event, completed
<1>5. out # << >> => keyEvent \in Event
  BY <1>2 DEF Event
<1>6. mouseEvent.type = "MOUSE" /\ mouseEvent.mouse_packet = completed(s) /\ keyEvent.type = "KEYBOARD"
  OBVIOUS
<1> HIDE DEF frameEvent, mouseEvent, keyEvent
<1>7. events \in Seq(Event) /\ OneEach(events) /\ Len(events) = 0 /\ DOMAIN events = {}
  BY DEF OneEach
<1>8. /\ q1 \in Seq(Event) /\ OneEach(q1) /\ Len(q1) <= 1
      /\ \A k \in DOMAIN q1 : q1[k].type = "NEW_FRAME"
  <2>1. CASE "timer" \in pending
    <3>1. q1 = pushEvent(events, frameEvent)
      BY <2>1 DEF afterTimer, frameEvent
    <3> HIDE DEF q1
    <3>2. Len(events) < EventCapacity
      BY <1>1, <1>7
    <3>3. /\ q1 \in Seq(Event) /\ OneEach(q1) /\ Len(q1) = Len(events) + 1
          /\ \A k \in DOMAIN q1 : \/ k \in DOMAIN events /\ q1[k] = events[k]
                                  \/ q1[k] = frameEvent
      BY <1>3, <1>7, <3>1, <3>2, PushLemma
    <3> QED BY <1>3, <1>7, <3>3
  <2>2. CASE "timer" \notin pending
    BY <2>2, <1>7 DEF afterTimer
  <2> QED BY <2>1, <2>2
<1>9. /\ q2 \in Seq(Event) /\ OneEach(q2) /\ Len(q2) <= 2
      /\ \A k \in DOMAIN q2 : q2[k].type = "NEW_FRAME" \/ q2[k] = mouseEvent
      /\ (\E k \in DOMAIN q2 : q2[k].type = "MOUSE") <=> byMouse /\ pushes(out[1].error, s)
  <2>1. CASE byMouse /\ pushes(out[1].error, s)
    <3>1. q2 = pushEvent(q1, mouseEvent) /\ out # << >>
      BY <2>1 DEF afterMouse, mouseEvent, completed, byMouse, mouseReads
    <3>2. \A k \in DOMAIN q1 : q1[k].type # mouseEvent.type
      BY <1>6, <1>8
    <3> HIDE DEF q1, q2
    <3>3. /\ q2 \in Seq(Event) /\ OneEach(q2) /\ q2 = Append(q1, mouseEvent) /\ Len(q2) = Len(q1) + 1
          /\ \A k \in DOMAIN q2 : \/ k \in DOMAIN q1 /\ q2[k] = q1[k]
                                  \/ q2[k] = mouseEvent
      BY <1>1, <1>4, <1>8, <2>1, <3>1, <3>2, PushLemma
    <3>4. Len(q1) + 1 \in DOMAIN q2 /\ q2[Len(q1) + 1] = mouseEvent
      BY <3>3, <1>8
    <3>5. \E k \in DOMAIN q2 : q2[k].type = "MOUSE"
      BY <3>4, <1>6
    <3>6. Len(q2) <= 2
      BY <3>3, <1>8
    <3> QED BY <2>1, <1>8, <3>3, <3>5, <3>6
  <2>2. CASE ~(byMouse /\ pushes(out[1].error, s))
    <3>1. q2 = q1
      BY <2>2 DEF afterMouse, byMouse
    <3> HIDE DEF q1, q2
    <3>2. Len(q1) <= 2
      BY <1>8
    <3> QED BY <2>2, <1>8, <3>1, <3>2
  <2> QED BY <2>1, <2>2
<1>10. /\ q3 \in Seq(Event) /\ OneEach(q3) /\ Len(q3) <= 3
       /\ \A k \in DOMAIN q3 : q3[k].type = "MOUSE" => q3[k] = mouseEvent
       /\ (\E k \in DOMAIN q3 : q3[k].type = "MOUSE") <=> (\E k \in DOMAIN q2 : q2[k].type = "MOUSE")
  <2>1. CASE "kb" \in pending /\ keyboardReads /\ out[1].byte # TWO_BYTES
    <3>1. q3 = pushEvent(q2, keyEvent) /\ out # << >>
      BY <2>1 DEF afterKeyboard, keyEvent, keyboardReads
    <3>2. \A k \in DOMAIN q2 : q2[k].type # keyEvent.type
      BY <1>6, <1>9
    <3> HIDE DEF q2, q3
    <3>3. /\ q3 \in Seq(Event) /\ OneEach(q3) /\ q3 = Append(q2, keyEvent) /\ Len(q3) = Len(q2) + 1
          /\ \A k \in DOMAIN q3 : \/ k \in DOMAIN q2 /\ q3[k] = q2[k]
                                  \/ q3[k] = keyEvent
      BY <1>1, <1>5, <1>9, <3>1, <3>2, PushLemma
    <3>4. \A k \in DOMAIN q2 : k \in DOMAIN q3 /\ q3[k] = q2[k]
      BY <3>3, <1>9
    <3>5. Len(q3) <= 3
      BY <3>3, <1>9
    <3>6. \A k \in DOMAIN q3 : q3[k].type = "MOUSE" => q3[k] = mouseEvent /\ k \in DOMAIN q2
      BY <1>6, <1>9, <3>3
    <3> QED BY <3>3, <3>4, <3>5, <3>6
  <2>2. CASE ~("kb" \in pending /\ keyboardReads /\ out[1].byte # TWO_BYTES)
    <3>1. q3 = q2
      BY <2>2 DEF afterKeyboard
    <3> HIDE DEF q2, q3
    <3>2. Len(q2) <= 3
      BY <1>9
    <3> QED BY <1>9, <3>1, <3>2
  <2> QED BY <2>1, <2>2
<1>11. events' = q3
  OBVIOUS
<1> HIDE DEF q1, q2, q3
<1> QED BY <1>6, <1>9, <1>10, <1>11

\* The steps that leave the queue, the cursor and the name alone.
Elsewhere == \/ TimerTicks
             \/ \E byte \in Flags \cup Moves, error \in Errors : MouseSends(byte, error)
             \/ \E byte \in Codes \cup {TWO_BYTES}, error \in Flagged : KeyboardSends(byte, error)
             \/ MouseAcks \/ TakesInput \/ TtyReads
             \/ (\E over \in BOOLEAN : EndTurn(over))
             \/ WriteCommand \/ WriteArg \/ ReadReturn
             \/ UNCHANGED inputVars

LEMMA StepCases == [InputNext]_inputVars => Notify \/ PopEvent \/ Elsewhere
BY DEF InputNext, Elsewhere

LEMMA ElsewhereLemma ==
  ASSUME Elsewhere
  PROVE  /\ events' = events /\ cursor' = cursor /\ name' = name /\ name_size' = name_size
         /\ UNCHANGED <<i, bytes, valid_packet, sent, quiet, flagged, memory>>
         /\ pc' = pc \/ (pc = "drain" /\ events = << >>) \/ (pc # "drain" /\ pc' # "drain")
         /\ counter' = counter /\ naming' = naming
<1> USE DEF vars, program
<1>1. ASSUME UNCHANGED <<vars, program>>
      PROVE  /\ events' = events /\ cursor' = cursor /\ name' = name /\ name_size' = name_size
             /\ UNCHANGED <<i, bytes, valid_packet, sent, quiet, flagged, memory>>
             /\ pc' = pc /\ counter' = counter /\ naming' = naming
  BY <1>1
<1>2. \/ UNCHANGED <<vars, program>>
      \/ (\E over \in BOOLEAN : EndTurn(over)) \/ WriteCommand \/ WriteArg \/ ReadReturn
  BY DEF Elsewhere, inputVars, TimerTicks, MouseSends, KeyboardSends, MouseAcks, TakesInput, TtyReads
<1>3. CASE \E over \in BOOLEAN : EndTurn(over)
  BY <1>3 DEF EndTurn, drained
<1>4. CASE WriteCommand \/ WriteArg
  BY <1>4 DEF WriteCommand, WriteArg, writes
<1>5. CASE ReadReturn
  BY <1>5 DEF ReadReturn
<1> QED BY <1>1, <1>2, <1>3, <1>4, <1>5

LEMMA QueueStep ==
  ASSUME WireInv, QueueInv, [InputNext]_inputVars
  PROVE  QueueInv'
<1>1. CASE Notify
  <2>1. events = << >>
    BY <1>1, NotifyLemma DEF QueueInv
  <2>2. events' \in Seq(Event) /\ OneEach(events') /\ Len(events') <= 3
    <3>1. PICK s \in stored(byMouse /\ ~out[1].error) :
            /\ events' = afterKeyboard(pending, s)
            /\ byMouse => mouse_ih(out[1].byte, out[1].error, s)
      BY <1>1, NotifyLemma
    <3> QED BY <1>1, <2>1, <3>1, NotifyEvents
  <2>3. Len(events') <= EventCapacity
    BY <2>2, InputAssumption
  <2> QED BY <1>1, <2>2, <2>3, NotifyLemma DEF QueueInv
<1>2. CASE PopEvent
  <2>1. pc = "drain" /\ pc' = pc /\ events # << >> /\ events' = SubSeq(events, 1, Len(events) - 1)
    BY <1>2 DEF PopEvent
  <2>2. /\ events' \in Seq(Event) /\ Len(events') = Len(events) - 1
        /\ DOMAIN events' \subseteq DOMAIN events
        /\ \A k \in DOMAIN events' : events'[k] = events[k]
    BY <2>1, PopLemma DEF QueueInv
  <2>3. OneEach(events')
    BY <2>2 DEF QueueInv, OneEach
  <2>4. Len(events') <= EventCapacity
    BY <2>2, InputAssumption DEF QueueInv
  <2> QED BY <2>1, <2>2, <2>3, <2>4 DEF QueueInv
<1>3. CASE Elsewhere
  BY <1>3, ElsewhereLemma DEF QueueInv
<1> QED BY <1>1, <1>2, <1>3, StepCases

LEMMA QueueInit == InputInit => QueueInv
<1> SUFFICES ASSUME InputInit PROVE QueueInv
  OBVIOUS
<1>1. events = << >>
  BY DEF InputInit
<1>2. events \in Seq(Event) /\ Len(events) = 0 /\ DOMAIN events = {}
  BY <1>1
<1> QED BY <1>1, <1>2, InputAssumption DEF QueueInv, OneEach

\* The event that is popped.
LEMMA PoppedLemma ==
  ASSUME QueueInv, PopEvent
  PROVE  LET event == events[Len(events)]
         IN  /\ event.type = "MOUSE" => event.mouse_packet \in Packet
             /\ event.type = "KEYBOARD" => event.scanCode \in Byte
             /\ cursor' = IF event.type = "MOUSE" THEN updateCursor(cursor, event.mouse_packet) ELSE cursor
             /\ IF event.type = "KEYBOARD" /\ naming THEN name_choice_ih(event.scanCode)
                ELSE UNCHANGED <<naming, name, name_size>>
             /\ UNCHANGED <<i, bytes, valid_packet, sent, quiet, flagged, memory>>
<1> DEFINE event == events[Len(events)]
<1>1. event \in Event
  BY PopLemma DEF QueueInv, PopEvent
<1>2. \A e \in Event : /\ e.type = "MOUSE" => e.mouse_packet \in Packet
                       /\ e.type = "KEYBOARD" => e.scanCode \in Byte
  BY DEF Event
<1> QED BY <1>1, <1>2 DEF PopEvent

----------------------------------------------------------------------------------
(* The cursor and the name *)

LEMMA CursorKept ==
  ASSUME WireInv, QueueInv, CursorOnScreen, [InputNext]_inputVars
  PROVE  CursorOnScreen'
<1>1. CASE PopEvent
  BY <1>1, PoppedLemma, UpdateCursorLemma DEF CursorOnScreen
<1>2. CASE Notify
  BY <1>2, NotifyLemma DEF CursorOnScreen
<1>3. CASE Elsewhere
  BY <1>3, ElsewhereLemma DEF CursorOnScreen
<1> QED BY <1>1, <1>2, <1>3, StepCases

\* Behind the name there is nothing but zeros.
NameInv == /\ name \in [0 .. MAX_NAME_SIZE -> Byte] /\ name_size \in 0 .. MAX_NAME_SIZE
           /\ \A k \in 0 .. MAX_NAME_SIZE : name[k] = 0 <=> k >= name_size

\* The three ways to change it: a letter less, a zero behind it, a letter more.
LEMMA NameChange ==
  ASSUME NameInv, MAX_NAME_SIZE \in Nat, NEW k \in 0 .. MAX_NAME_SIZE, NEW value \in Byte,
         name' = [name EXCEPT ![k] = value],
         \/ value = 0 /\ k = name_size /\ name_size' = name_size
         \/ value = 0 /\ k = name_size - 1 /\ name_size' = name_size - 1
         \/ value # 0 /\ k = name_size /\ name_size' = name_size + 1 /\ name_size < MAX_NAME_SIZE
  PROVE  NameInv'
<1>1. name' \in [0 .. MAX_NAME_SIZE -> Byte]
  BY DEF NameInv
<1>2. name_size \in 0 .. MAX_NAME_SIZE /\ name_size' \in 0 .. MAX_NAME_SIZE
  BY DEF NameInv
<1>3. \A l \in 0 .. MAX_NAME_SIZE : name'[l] = IF l = k THEN value ELSE name[l]
  BY DEF NameInv
<1>4. \A l \in 0 .. MAX_NAME_SIZE : name[l] = 0 <=> l >= name_size
  BY DEF NameInv
<1>5. \A l \in 0 .. MAX_NAME_SIZE : name'[l] = 0 <=> l >= name_size'
  BY <1>2, <1>3, <1>4
<1> QED BY <1>1, <1>2, <1>5 DEF NameInv

LEMMA NameKept ==
  ASSUME WireInv, QueueInv, NameInv, [InputNext]_inputVars
  PROVE  NameInv'
<1>1. CASE PopEvent
  <2>1. ASSUME NEW code \in Byte, name_choice_ih(code) PROVE NameInv'
    <3>1. /\ MAX_NAME_SIZE \in Nat /\ name_size \in Nat /\ name_size <= MAX_NAME_SIZE
          /\ code \in 0 .. 255 /\ 0 \in Byte
      BY InputAssumption DEF NameInv, Byte
    <3> DEFINE release == code >= 128
               erases == release /\ code = BACK_SPACE /\ hasLetter
               enters == release /\ code = ENTER /\ hasLetter
               types == release /\ code # BACK_SPACE /\ ~enters /\ hasRoom
    <3>2. /\ name_size' = IF erases THEN name_size - 1 ELSE IF types THEN name_size + 1 ELSE name_size
          /\ name' = CASE erases -> erased(name_size - 1)
                       [] enters -> [name EXCEPT ![name_size] = 0]
                       [] types -> [name EXCEPT ![name_size] = code]
                       [] OTHER -> name
      BY <2>1 DEF name_choice_ih
    <3>3. ~(erases /\ enters) /\ ~(erases /\ types) /\ ~(enters /\ types)
      BY DEF BACK_SPACE, ENTER
    <3>4. CASE erases
      <4>1. name_size' = name_size - 1 /\ name' = [name EXCEPT ![name_size - 1] = 0]
        BY <3>2, <3>3, <3>4 DEF erased
      <4>2. name_size - 1 \in 0 .. MAX_NAME_SIZE
        BY <3>1, <3>4 DEF hasLetter
      <4> HIDE DEF erases
      <4> QED BY <3>1, <4>1, <4>2, NameChange
    <3>5. CASE enters
      <4>1. name_size' = name_size /\ name' = [name EXCEPT ![name_size] = 0]
        BY <3>2, <3>3, <3>5
      <4>2. name_size \in 0 .. MAX_NAME_SIZE
        BY <3>1
      <4> QED BY <3>1, <4>1, <4>2, NameChange
    <3>6. CASE types
      <4>1. name_size' = name_size + 1 /\ name' = [name EXCEPT ![name_size] = code]
        BY <3>2, <3>3, <3>6
      <4>2. name_size \in 0 .. MAX_NAME_SIZE /\ name_size < MAX_NAME_SIZE /\ code # 0
        BY <3>1, <3>6 DEF hasRoom
      <4> QED BY <3>1, <4>1, <4>2, NameChange
    <3>7. CASE ~erases /\ ~enters /\ ~types
      <4>1. name_size' = name_size /\ name' = name
        BY <3>2, <3>7
      <4> QED BY <4>1 DEF NameInv
    <3> QED BY <3>4, <3>5, <3>6, <3>7
  <2> QED BY <1>1, <2>1, PoppedLemma DEF NameInv
<1>2. CASE Notify
  BY <1>2 DEF Notify, NameInv
<1>3. CASE Elsewhere
  BY <1>3, ElsewhereLemma DEF NameInv
<1> QED BY <1>1, <1>2, <1>3, StepCases

LEMMA NameInit == InputInit => NameInv
<1> SUFFICES ASSUME InputInit PROVE NameInv
  OBVIOUS
<1>1. name = [k \in 0 .. MAX_NAME_SIZE |-> 0] /\ name_size = 0
  BY DEF InputInit
<1>2. 0 \in Byte /\ MAX_NAME_SIZE \in Nat
  BY InputAssumption DEF Byte
<1>3. name \in [0 .. MAX_NAME_SIZE -> Byte] /\ \A k \in 0 .. MAX_NAME_SIZE : name[k] = 0
  BY <1>1, <1>2
<1> QED BY <1>1, <1>2, <1>3 DEF NameInv

----------------------------------------------------------------------------------
(* Every step is a step of Mouse, or none *)

toBe(c, queue) ==
  IF \E k \in DOMAIN queue : queue[k].type = "MOUSE"
  THEN updateCursor(c, queue[CHOOSE k \in DOMAIN queue : queue[k].type = "MOUSE"].mouse_packet)
  ELSE c

LEMMA ToBeLemma ==
  ASSUME NEW c, NEW queue, OneEach(queue)
  PROVE  /\ (\A k \in DOMAIN queue : queue[k].type # "MOUSE") => toBe(c, queue) = c
         /\ \A k \in DOMAIN queue :
              queue[k].type = "MOUSE" => toBe(c, queue) = updateCursor(c, queue[k].mouse_packet)
<1>1. ASSUME NEW k \in DOMAIN queue, queue[k].type = "MOUSE"
      PROVE  toBe(c, queue) = updateCursor(c, queue[k].mouse_packet)
  <2>1. (CHOOSE l \in DOMAIN queue : queue[l].type = "MOUSE") = k
    BY <1>1 DEF OneEach
  <2> QED BY <1>1, <2>1 DEF toBe
<1>2. (\A k \in DOMAIN queue : queue[k].type # "MOUSE") => toBe(c, queue) = c
  BY DEF toBe
<1> QED BY <1>1, <1>2

LEMMA SameOperators ==
  /\ \A c, p : M!updateCursor(c, p) = updateCursor(c, p)
  /\ \A error, s : M!pushes(error, s) <=> pushes(error, s)
  /\ \A byte, error, s : M!mouse_packet(byte, error, s) = mouse_packet(byte, error, s)
  /\ \A storing : M!stored(storing) = stored(storing)
  /\ \A byte, error, s : M!mouse_ih(byte, error, s) <=> mouse_ih(byte, error, s)
  /\ \A byte, error : M!handedOver(byte, error) <=> handedOver(byte, error)
<1>1. \A byte : M!FIRST_BYTE(byte) <=> FIRST_BYTE(byte)
  BY DEF M!FIRST_BYTE, FIRST_BYTE, M!bit, bit
<1>2. \A c, p : M!updateCursor(c, p) = updateCursor(c, p)
  BY DEF M!updateCursor, updateCursor, M!clamped, clamped
<1>3. \A error, s : M!completes(error, s) <=> completes(error, s)
  BY DEF M!completes, completes
<1>4. \A byte, error : M!skips(byte, error) <=> skips(byte, error)
  BY <1>1 DEF M!skips, skips
<1>5. \A byte, error : M!packet(byte, error) = packet(byte, error)
  BY <1>4 DEF M!packet, packet
<1>6. \A p : M!decoded(p) = decoded(p)
  BY DEF M!decoded, decoded, M!delta, delta, M!bit, bit
<1>7. \A storing : M!stored(storing) = stored(storing)
  BY <1>6 DEF M!stored, stored, M!hits, hits
<1>8. \A byte, error, s : M!nextIndex(byte, error, s) = nextIndex(byte, error, s)
  BY <1>3, <1>4 DEF M!nextIndex, nextIndex
<1>9. \A byte, error, s : M!mouse_ih(byte, error, s) <=> mouse_ih(byte, error, s)
  BY <1>5, <1>8 DEF M!mouse_ih, mouse_ih
<1>10. \A byte, error : M!handedOver(byte, error) <=> handedOver(byte, error)
  BY <1>1 DEF M!handedOver, handedOver
<1>11. \A error, s : M!pushes(error, s) <=> pushes(error, s)
  BY <1>3 DEF M!pushes, pushes
<1>12. \A byte, error, s : M!mouse_packet(byte, error, s) = mouse_packet(byte, error, s)
  BY <1>3, <1>5, <1>6 DEF M!mouse_packet, mouse_packet
<1> QED BY <1>2, <1>7, <1>9, <1>10, <1>11, <1>12

LEMMA MouseStep ==
  ASSUME WireInv, QueueInv, QueueInv', [InputNext]_inputVars
  PROVE  [M!Next]_(M!vars)
<1>1. cursorToBe = toBe(cursor, events) /\ cursorToBe' = toBe(cursor', events')
  BY DEF cursorToBe, toBe
<1>2. OneEach(events) /\ OneEach(events')
  BY DEF QueueInv
<1>3. CASE Elsewhere
  BY <1>1, <1>3, ElsewhereLemma DEF M!vars
<1>4. CASE PopEvent
  <2> DEFINE last == Len(events)
  <2>1. UNCHANGED <<i, bytes, valid_packet, sent, quiet, flagged, memory>>
    BY <1>4 DEF PopEvent
  <2>2. /\ events # << >> /\ events' = SubSeq(events, 1, Len(events) - 1)
        /\ cursor' = IF events[last].type = "MOUSE" THEN updateCursor(cursor, events[last].mouse_packet)
                     ELSE cursor
    BY <1>4 DEF PopEvent
  <2>3. /\ last \in DOMAIN events /\ DOMAIN events' = 1 .. (last - 1) /\ DOMAIN events = 1 .. last
        /\ last \in Nat
        /\ \A k \in DOMAIN events' : events'[k] = events[k]
    BY <2>2, PopLemma DEF QueueInv
  <2> HIDE DEF last
  <2>4. DOMAIN events = DOMAIN events' \cup {last} /\ last \notin DOMAIN events'
    BY <2>3
  <2>5. CASE events[last].type = "MOUSE"
    <3>1. cursorToBe = updateCursor(cursor, events[last].mouse_packet)
      BY <1>1, <1>2, <2>3, <2>5, ToBeLemma
    <3>2. \A k \in DOMAIN events' : events'[k].type # "MOUSE"
      BY <1>2, <2>3, <2>4, <2>5 DEF OneEach
    <3>3. cursorToBe' = cursor'
      BY <1>1, <1>2, <3>2, ToBeLemma
    <3> QED BY <2>1, <2>2, <2>5, <3>1, <3>3 DEF M!vars
  <2>6. CASE events[last].type # "MOUSE"
    <3>1. CASE \E k \in DOMAIN events' : events'[k].type = "MOUSE"
      <4>1. PICK k \in DOMAIN events' : events'[k].type = "MOUSE"
        BY <3>1
      <4>2. k \in DOMAIN events /\ events[k].type = "MOUSE" /\ events'[k] = events[k]
        BY <2>3, <2>4, <4>1
      <4>3. /\ cursorToBe' = updateCursor(cursor', events[k].mouse_packet)
            /\ cursorToBe = updateCursor(cursor, events[k].mouse_packet)
        BY <1>1, <1>2, <4>1, <4>2, ToBeLemma
      <4> QED BY <2>1, <2>2, <2>6, <4>3 DEF M!vars
    <3>2. CASE \A k \in DOMAIN events' : events'[k].type # "MOUSE"
      <4>1. \A k \in DOMAIN events : events[k].type # "MOUSE"
        BY <2>3, <2>4, <2>6, <3>2
      <4>2. cursorToBe' = cursor' /\ cursorToBe = cursor
        BY <1>1, <1>2, <3>2, <4>1, ToBeLemma
      <4> QED BY <2>1, <2>2, <2>6, <4>2 DEF M!vars
    <3> QED BY <3>1, <3>2
  <2> QED BY <2>5, <2>6
<1>5. CASE Notify
  <2>1. events = << >> /\ cursor' = cursor
    BY <1>5, NotifyLemma DEF QueueInv
  <2>2. cursorToBe = cursor
    <3>1. DOMAIN events = {}
      BY <2>1
    <3> QED BY <1>1, <1>2, <3>1, ToBeLemma
  <2>3. PICK s \in stored(byMouse /\ ~out[1].error) :
          /\ events' = afterKeyboard(pending, s)
          /\ byMouse => mouse_ih(out[1].byte, out[1].error, s)
    BY <1>5, NotifyLemma
  <2>4. /\ (\E k \in DOMAIN events' : events'[k].type = "MOUSE") <=> byMouse /\ pushes(out[1].error, s)
        /\ \A k \in DOMAIN events' : events'[k].type = "MOUSE" => events'[k].mouse_packet = completed(s)
    BY <1>5, <2>1, <2>3, NotifyEvents
  <2>5. byMouse /\ pushes(out[1].error, s) => cursorToBe' = updateCursor(cursor, completed(s))
    BY <1>1, <1>2, <2>1, <2>4, ToBeLemma
  <2>6. ~(byMouse /\ pushes(out[1].error, s)) => cursorToBe' = cursor
    BY <1>1, <1>2, <2>1, <2>4, ToBeLemma
  <2>7. CASE ~byMouse
    BY <1>5, <2>2, <2>6, <2>7, NotifyLemma DEF M!vars
  <2>8. CASE byMouse
    <3> DEFINE byte == out[1].byte
               error == out[1].error
    <3>1. s \in stored(~error) /\ mouse_ih(byte, error, s) /\ handedOver(byte, error) /\ running
      BY <1>5, <2>3, <2>8, NotifyLemma, NotifiedByte
    <3>2. byte \in (IF sent = 0 THEN Flags ELSE Moves) /\ error \in Errors
      BY <1>5, <2>8, NotifiedByte
    <3>3. cursorToBe' = IF pushes(error, s) THEN updateCursor(cursorToBe, mouse_packet(byte, error, s))
                        ELSE cursorToBe
      BY <2>2, <2>5, <2>6, <2>8 DEF completed
    <3> HIDE DEF byte, error
    <3>4. M!Interrupt(byte, error)
      BY <3>1, <3>3, SameOperators DEF M!Interrupt, M!running, running
    <3> QED BY <3>2, <3>4 DEF M!Next
  <2> QED BY <2>7, <2>8
<1> QED BY <1>3, <1>4, <1>5, StepCases

----------------------------------------------------------------------------------
(* The theorems *)

\* While the loop runs no byte is left in the controller without an interrupt that will
\* fetch it, however the interrupts of the three devices fall into notifications.
THEOREM InputLeavesNoByte == InputSpec => []NoByteLeftBehind
<1>1. WireInv => NoByteLeftBehind
  BY DEF WireInv
<1> QED BY <1>1, WireInit, WireStep, PTL DEF InputSpec

\* scancode_bytes is never written past its second element.
THEOREM InputScancodeFits == InputSpec => []ScancodeFits
<1>1. WireInv => ScancodeFits
  BY DEF WireInv, WireTypes, ScancodeFits
<1> QED BY <1>1, WireInit, WireStep, PTL DEF InputSpec

\* The stack of event_queue.c never holds two events of one device, so popping the
\* last one first never reverses the events of a device.
THEOREM InputOneEventPerDevice == InputSpec => []OneEventPerDevice
<1>1. QueueInv => OneEventPerDevice
  BY DEF QueueInv, OneEach, OneEventPerDevice
<1>2. WireInv /\ QueueInv /\ [InputNext]_inputVars => QueueInv'
  BY QueueStep
<1> QED BY <1>1, <1>2, WireInit, WireStep, QueueInit, PTL DEF InputSpec

\* The cursor of the machine stays on the screen, packets waiting in the queue included.
THEOREM InputCursorOnScreen == InputSpec => []CursorOnScreen
<1>1. InputInit => CursorOnScreen
  BY MouseAssumption DEF InputInit, Init, CursorOnScreen
<1>2. WireInv /\ QueueInv /\ [InputNext]_inputVars => QueueInv'
  BY QueueStep
<1>3. WireInv /\ QueueInv /\ CursorOnScreen /\ [InputNext]_inputVars => CursorOnScreen'
  BY CursorKept
<1> QED BY <1>1, <1>2, <1>3, WireInit, WireStep, QueueInit, PTL DEF InputSpec

\* Whatever keys are typed in whatever order, the name draw_name reads ends inside its
\* array, where name_size says.
THEOREM InputNameIsTerminated == InputSpec => []NameIsTerminated
<1>1. InputInit => NameInv
  BY NameInit
<1>2. WireInv /\ QueueInv /\ [InputNext]_inputVars => QueueInv'
  BY QueueStep
<1>3. WireInv /\ QueueInv /\ NameInv /\ [InputNext]_inputVars => NameInv'
  BY NameKept
<1>4. NameInv => NameIsTerminated
  <2> SUFFICES ASSUME NameInv PROVE NameIsTerminated
    OBVIOUS
  <2>1. MAX_NAME_SIZE \in Nat
    BY InputAssumption
  <2> QED BY <2>1 DEF NameInv, NameIsTerminated
<1> QED BY <1>1, <1>2, <1>3, <1>4, WireInit, WireStep, QueueInit, PTL DEF InputSpec

\* The mouse behaves as Mouse says although it shares the KBC with the keyboard and its
\* packets wait in a stack: initial states and steps of Input are those of Mouse, with the
\* packet in the queue taken as handled.
THEOREM InputImplementsMouse == InputSpec => ImplementsMouse
<1>1. InputInit => M!Init
  <2> SUFFICES ASSUME InputInit PROVE M!Init
    OBVIOUS
  <2>1. events = << >> /\ Init
    BY DEF InputInit
  <2>2. DOMAIN events = {}
    BY <2>1
  <2>3. cursorToBe = cursor
    BY <2>2 DEF cursorToBe
  <2> QED BY <2>1, <2>3 DEF Init, M!Init
<1>2. WireInv /\ QueueInv /\ [InputNext]_inputVars => QueueInv'
  BY QueueStep
<1>3. WireInv /\ QueueInv /\ QueueInv' /\ [InputNext]_inputVars => [M!Next]_(M!vars)
  BY MouseStep
<1> QED BY <1>1, <1>2, <1>3, WireInit, WireStep, QueueInit, PTL DEF InputSpec, ImplementsMouse, M!Spec

\* Between the interrupt and the event of a packet the cursor moves alone: what a quiet
\* packet brings about has to last until then.
QuietInv == AlignInv /\ (~flagged /\ sent = 0 /\ quiet => i = 0)

\* The counters of the packet in the whole machine.
LEMMA QuietStep ==
  ASSUME WireInv, QuietInv, [InputNext]_inputVars
  PROVE  QuietInv' /\ (~flagged' /\ i = sent => i' = sent')
<1>1. ASSUME UNCHANGED <<i, bytes, valid_packet, sent, quiet, flagged, memory>>
      PROVE  QuietInv' /\ (~flagged' /\ i = sent => i' = sent')
  BY <1>1 DEF QuietInv, AlignInv, PacketInv, OnlyErrorsOverrun, NoPacketAfterError
<1>2. CASE Elsewhere
  BY <1>1, <1>2, ElsewhereLemma
<1>3. CASE PopEvent
  BY <1>1, <1>3 DEF PopEvent
<1>4. CASE Notify
  <2>1. CASE ~byMouse
    BY <1>1, <1>4, <2>1, NotifyLemma
  <2>2. CASE byMouse
    <3>1. PICK s \in stored(~out[1].error) :
            mouse_ih(out[1].byte, out[1].error, s) /\ handedOver(out[1].byte, out[1].error)
      BY <1>4, <2>2, NotifyLemma, NotifiedByte
    <3>2. out[1].byte \in (IF sent = 0 THEN Flags ELSE Moves) /\ out[1].error \in Errors
      BY <1>4, <2>2, NotifiedByte
    <3> QED BY <3>1, <3>2, AlignByte DEF QuietInv
  <2> QED BY <2>1, <2>2
<1> QED BY <1>2, <1>3, <1>4, StepCases

LEMMA QuietInit == InputInit => QuietInv
BY AlignInit DEF InputInit, Init, QuietInv

\* The steps that leave the variables of Mouse alone are none of its properties.
LEMMA QuietActions ==
  ASSUME WireInv, QuietInv, [InputNext]_inputVars
  PROVE  /\ [~flagged' /\ i = sent => i' = sent']_vars
         /\ [~flagged' /\ sent' = 0 /\ quiet' => i' = 0]_vars
BY QuietStep DEF QuietInv

\* With the keyboard at the same controller and packets waiting in the queue, mouse_ih
\* still never loses the count of the bytes of a packet before an error.
THEOREM InputStaysAligned == InputSpec => StaysAligned
<1>1. WireInv /\ QuietInv /\ [InputNext]_inputVars => QuietInv'
  BY QuietStep
<1>2. WireInv /\ QuietInv /\ [InputNext]_inputVars => [~flagged' /\ i = sent => i' = sent']_vars
  BY QuietActions
<1> QED BY <1>1, <1>2, WireInit, WireStep, QuietInit, PTL DEF InputSpec, StaysAligned

\* A machine that begins in the middle of a packet is in step after one quiet packet.
THEOREM InputQuietPacketAligns == InputSpec => QuietPacketAligns
<1>1. WireInv /\ QuietInv /\ [InputNext]_inputVars => QuietInv'
  BY QuietStep
<1>2. WireInv /\ QuietInv /\ [InputNext]_inputVars => [~flagged' /\ sent' = 0 /\ quiet' => i' = 0]_vars
  BY QuietActions
<1> QED BY <1>1, <1>2, WireInit, WireStep, QuietInit, PTL DEF InputSpec, QuietPacketAligns

\* In the whole machine too the store of mouse_ih leaves pp.bytes after a byte with an
\* error only.
THEOREM InputOnlyErrorsOverrun == InputSpec => []OnlyErrorsOverrun
<1>1. WireInv /\ QuietInv /\ [InputNext]_inputVars => QuietInv'
  BY QuietStep
<1>2. QuietInv => OnlyErrorsOverrun
  BY DEF QuietInv, AlignInv
<1> QED BY <1>1, <1>2, WireInit, WireStep, QuietInit, PTL DEF InputSpec

\* One byte of the mouse with an error, and the machine completes no packet any more until
\* a store behind pp has hit something.
THEOREM InputNoPacketAfterError == InputSpec => []NoPacketAfterError
<1>1. WireInv /\ QuietInv /\ [InputNext]_inputVars => QuietInv'
  BY QuietStep
<1>2. QuietInv => NoPacketAfterError
  BY DEF QuietInv, AlignInv
<1> QED BY <1>1, <1>2, WireInit, WireStep, QuietInit, PTL DEF InputSpec

----------------------------------------------------------------------------------
(* The types *)

CursorTypes == cursor \in [x : Int, y : Int, pressed : BOOLEAN, released : BOOLEAN]

DeviceBits == toMouse \in BOOLEAN /\ reporting \in BOOLEAN /\ owesAck \in BOOLEAN /\ prefixed \in BOOLEAN

ProgramBits == quiet \in BOOLEAN /\ flagged \in BOOLEAN /\ naming \in BOOLEAN

LEMMA DeviceBitsKept ==
  ASSUME DeviceBits, [InputNext]_inputVars
  PROVE  DeviceBits'
<1>1. CASE UNCHANGED inputVars
  BY <1>1, Zenon DEF inputVars, controller, DeviceBits
<1>2. ASSUME UNCHANGED <<controller, prefixed>> PROVE DeviceBits'
  BY <1>2, Zenon DEF controller, DeviceBits
<1>3. CASE TimerTicks \/ (\E byte \in Flags \cup Moves, error \in Errors : MouseSends(byte, error)) \/ TtyReads
  BY <1>2, <1>3, Zenon DEF TimerTicks, MouseSends, TtyReads
<1>4. CASE \E byte \in Codes \cup {TWO_BYTES}, error \in Flagged : KeyboardSends(byte, error)
  <2>1. PICK byte \in Codes \cup {TWO_BYTES} : prefixed' = (byte = TWO_BYTES)
    BY <1>4, Zenon DEF KeyboardSends
  <2>2. toMouse' = toMouse /\ reporting' = reporting /\ owesAck' = owesAck
    BY <1>4, Zenon DEF KeyboardSends, controller
  <2>3. prefixed' \in BOOLEAN
    BY <2>1
  <2> QED BY <2>2, <2>3, Zenon DEF DeviceBits
<1>5. CASE MouseAcks
  BY <1>5, Zenon DEF MouseAcks, DeviceBits
<1>6. CASE TakesInput
  <2>1. /\ toMouse' = (Head(in) = BYTE_TO_MOUSE) /\ prefixed' = prefixed
        /\ reporting' = (reporting /\ ~(toMouse /\ Head(in) = DIS_DATA_REPORTING))
        /\ owesAck' = (owesAck \/ (toMouse /\ Head(in) = DIS_DATA_REPORTING))
    BY <1>6 DEF TakesInput
  <2> QED BY <2>1 DEF DeviceBits
<1>7. CASE Notify \/ PopEvent \/ (\E over \in BOOLEAN : EndTurn(over)) \/ WriteCommand \/ WriteArg \/ ReadReturn
  BY <1>7, Zenon DEF Notify, PopEvent, EndTurn, WriteCommand, WriteArg, writes, ReadReturn, controller, DeviceBits
<1> QED BY <1>1, <1>3, <1>4, <1>5, <1>6, <1>7 DEF InputNext

LEMMA ProgramBitsKept ==
  ASSUME WireInv, QueueInv, ProgramBits, CursorTypes, CursorOnScreen, [InputNext]_inputVars
  PROVE  ProgramBits' /\ CursorTypes'
<1>1. CASE Elsewhere
  BY <1>1, ElsewhereLemma DEF ProgramBits, CursorTypes
<1>2. CASE PopEvent
  <2> DEFINE event == events[Len(events)]
  <2>1. /\ event.type = "MOUSE" => event.mouse_packet \in Packet
        /\ cursor' = IF event.type = "MOUSE" THEN updateCursor(cursor, event.mouse_packet) ELSE cursor
        /\ IF event.type = "KEYBOARD" /\ naming THEN name_choice_ih(event.scanCode)
           ELSE UNCHANGED <<naming, name, name_size>>
        /\ flagged' = flagged /\ quiet' = quiet
    BY <1>2, PoppedLemma
  <2> HIDE DEF event
  <2>2. naming' \in BOOLEAN
    BY <2>1 DEF name_choice_ih, ProgramBits
  <2>3. ASSUME NEW p \in Packet
        PROVE  updateCursor(cursor, p) \in [x : Int, y : Int, pressed : BOOLEAN, released : BOOLEAN]
    <3>1. updateCursor(cursor, p).x \in Int /\ updateCursor(cursor, p).y \in Int
      BY UpdateCursorLemma, MouseAssumption
    <3>2. /\ updateCursor(cursor, p).x = clamped(cursor.x, p.delta_x, HRes, 11)
          /\ updateCursor(cursor, p).y = clamped(cursor.y, -p.delta_y, VRes, 19)
      BY DEF updateCursor
    <3>3. p.lb \in BOOLEAN /\ (cursor.pressed /\ ~p.lb) \in BOOLEAN
      BY DEF Packet
    <3> QED BY <3>1, <3>2, <3>3, Zenon DEF updateCursor
  <2> QED BY <2>1, <2>2, <2>3 DEF ProgramBits, CursorTypes
<1>3. CASE Notify
  <2>1. cursor' = cursor /\ naming' = naming
    BY <1>3 DEF Notify
  <2>2. CASE ~byMouse
    BY <1>3, <2>1, <2>2, NotifyLemma DEF ProgramBits, CursorTypes
  <2>3. CASE byMouse
    <3>1. handedOver(out[1].byte, out[1].error)
      BY <1>3, <2>3, NotifyLemma
    <3>2. flagged' \in BOOLEAN /\ quiet' \in BOOLEAN
      BY <3>1 DEF handedOver
    <3> QED BY <2>1, <3>2 DEF ProgramBits, CursorTypes
  <2> QED BY <2>2, <2>3
<1> QED BY <1>1, <1>2, <1>3, StepCases

LEMMA AtMostOne ==
  ASSUME NEW S, NEW s \in {<< >>} \cup {<<b>> : b \in S}
  PROVE  s \in Seq(S) /\ Len(s) <= 1
<1>1. CASE s = << >>
  BY <1>1
<1>2. CASE s \in {<<b>> : b \in S}
  <2>1. PICK b \in S : s = <<b>>
    BY <1>2
  <2>2. <<b>> \in Seq(S)
    OBVIOUS
  <2>3. Len(<<b>>) = 1
    OBVIOUS
  <2> QED BY <2>1, <2>2, <2>3
<1> QED BY <1>1, <1>2

\* Whatever the devices send, for as long as no store behind pp has hit the data of others:
\* one byte at a time in the controller, events and name in their arrays, and every
\* variable of its type.
THEOREM InputTypes == InputSpec => []InputTypeOK
<1> DEFINE Types == WireInv /\ QueueInv /\ NameInv /\ DeviceBits /\ ProgramBits /\ CursorTypes /\ CursorOnScreen
<1>1. InputInit => CursorOnScreen /\ DeviceBits /\ ProgramBits /\ CursorTypes
  <2> SUFFICES ASSUME InputInit PROVE CursorOnScreen /\ DeviceBits /\ ProgramBits /\ CursorTypes
    OBVIOUS
  <2>1. cursor = [x |-> 0, y |-> 0, pressed |-> FALSE, released |-> FALSE]
    BY DEF InputInit, Init
  <2>2. CursorOnScreen /\ CursorTypes
    BY <2>1, ScreenLemma DEF CursorOnScreen, CursorTypes
  <2>3. DeviceBits /\ ProgramBits
    BY Zenon DEF InputInit, Init, DeviceBits, ProgramBits
  <2> QED BY <2>2, <2>3
<1>2. InputInit => NameInv
  BY NameInit
<1>3. Types /\ [InputNext]_inputVars => Types'
  BY WireStep, QueueStep, NameKept, DeviceBitsKept, ProgramBitsKept, CursorKept
<1>4. Types => InputTypeOK
  <2> SUFFICES ASSUME Types PROVE InputTypeOK
    OBVIOUS
  <2>1. TypeOK
    BY DEF WireInv, PacketTypes, PacketInv, ProgramBits, CursorTypes, TypeOK
  <2>2. out \in Seq([aux : BOOLEAN, byte : Byte, error : BOOLEAN]) /\ Len(out) <= 1
    <3>1. out \in Seq(KbcByte) /\ Len(out) <= 1
      BY AtMostOne DEF WireInv, WireTypes
    <3> QED BY <3>1, Zenon DEF KbcByte
  <2>3. in \in Seq({BYTE_TO_MOUSE, DIS_DATA_REPORTING}) /\ Len(in) <= 1
    <3>1. in \in {<< >>} \cup {<<b>> : b \in {BYTE_TO_MOUSE, DIS_DATA_REPORTING}}
      BY DEF WireInv, WireTypes
    <3> QED BY <3>1, AtMostOne
  <2>4. events \in Seq(Event) /\ Len(events) <= EventCapacity
    BY DEF QueueInv
  <2>5. pc \in Place /\ pending \subseteq {"timer", "mouse", "kb", "tty"} /\ counter \in Nat
    BY DEF WireInv, WireTypes
  <2>6. name \in [0 .. MAX_NAME_SIZE -> Byte] /\ name_size \in 0 .. MAX_NAME_SIZE
    BY DEF NameInv
  <2> QED BY <2>1, <2>2, <2>3, <2>4, <2>5, <2>6, Zenon DEF InputTypeOK, DeviceBits, ProgramBits
<1> HIDE DEF Types
<1>5. InputInit => Types
  BY <1>1, <1>2, WireInit, QueueInit DEF Types
<1> QED BY <1>3, <1>4, <1>5, PTL DEF InputSpec
==================================================================================
