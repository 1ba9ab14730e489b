---------------------------------- MODULE Input ----------------------------------
(* The input of one machine, from the devices to the handlers: the keyboard       *)
(* controller (KBC) that keyboard and mouse share, the interrupts it raises,      *)
(* keyboard_int_handler and mouse_ih, the event queue of event_queue.c, the loop  *)
(* that empties it, the name the keys write, and the KBC commands that silence    *)
(* the mouse when the program ends. The assembly of mouse packets and the cursor  *)
(* are those of Mouse. What the screens do with the events is the subject of      *)
(* Chess; this module only tells the name screen from the others.                 *)
EXTENDS Mouse, Sequences

CONSTANTS Codes,         \* the scancodes of the keyboard, the prefix excepted
          Flagged,       \* may the KBC flag a scancode with PAR_ERR or TIMEOUT_ERR?
          MAX_NAME_SIZE, \* 8 in main.c
          EventCapacity  \* createEventQueue(100)

TWO_BYTES == 224
BACK_SPACE == 142
ENTER == 156
BYTE_TO_MOUSE == 212
DIS_DATA_REPORTING == 245
ACK == 250

ASSUME InputAssumption == /\ Codes \subseteq Byte \ {TWO_BYTES}
                          /\ Flagged \subseteq BOOLEAN
                          /\ MAX_NAME_SIZE \in Nat \ {0}
                          /\ EventCapacity \in Nat /\ EventCapacity >= 3

VARIABLES pc,        \* where the program is: see Place
          out,       \* the KBC's output buffer (OBF_FULL: not empty), with its status bits
          pending,   \* interrupts raised and not yet in a notification; "tty" is the
                     \* keyboard's once the program has given up its own hook
          prefixed,  \* the keyboard: a prefix has been sent, its code comes next
          counter,   \* the next element of scancode_bytes
          events,    \* eventQueue->array up to size
          naming,    \* *gameState = START
          name, name_size,
          in,        \* the KBC's input buffer (IBF_FULL: not empty)
          toMouse,   \* the KBC passes the next argument on to the mouse
          reporting, \* the mouse sends packets
          owesAck    \* the mouse has to acknowledge a command

program == <<pc, counter, events, naming, name, name_size>>
controller == <<in, toMouse, reporting, owesAck>>
inputVars == <<vars, program, controller, out, pending, prefixed>>

\* In driver_receive; emptying the event queue; the three steps of
\* mouse_disable_data_reporting; after it.
Place == {"receive", "drain", "command", "arg", "answer", "done"}

inLoop == pc \in {"receive", "drain"}

\* Reporting was switched on, with interrupts, before the menu.
InputInit ==
  /\ Init
  /\ pc = "receive" /\ out = << >> /\ pending = {} /\ prefixed = FALSE
  /\ counter = 0 /\ events = << >>
  /\ naming = TRUE /\ name = [k \in 0 .. MAX_NAME_SIZE |-> 0] /\ name_size = 0
  /\ in = << >> /\ toMouse = FALSE /\ reporting = TRUE /\ owesAck = FALSE

----------------------------------------------------------------------------------
(* The devices *)

\* A byte enters the output buffer, and its interrupt is raised. The buffer holds
\* one byte: the devices wait until it has been read.
emits(aux, byte, error, irq) ==
  /\ out = << >>
  /\ out' = <<[aux |-> aux, byte |-> byte, error |-> error]>>
  /\ pending' = pending \cup {irq}

TimerTicks == /\ inLoop
              /\ pending' = pending \cup {"timer"}
              /\ UNCHANGED <<vars, program, controller, out, prefixed>>

\* Once the program leaves, nothing counts the bytes of a packet any more.
MouseSends(byte, error) ==
  /\ reporting
  /\ inLoop => byte \in (IF sent = 0 THEN Flags ELSE Moves)
  /\ emits(TRUE, byte, error, "mouse")
  /\ UNCHANGED <<vars, program, controller, prefixed>>

KeyboardSends(byte, error) ==
  /\ prefixed => byte # TWO_BYTES
  /\ prefixed' = (byte = TWO_BYTES)
  /\ emits(FALSE, byte, error, IF inLoop THEN "kb" ELSE "tty")
  /\ UNCHANGED <<vars, program, controller>>

\* The mouse answers a command before it sends anything else.
MouseAcks ==
  /\ owesAck
  /\ owesAck' = FALSE
  /\ emits(TRUE, ACK, FALSE, "mouse")
  /\ UNCHANGED <<vars, program, in, toMouse, reporting, prefixed>>

\* The KBC takes the byte out of its input buffer. An argument no command announced
\* is the keyboard's.
TakesInput ==
  /\ in # << >>
  /\ in' = << >>
  /\ toMouse' = (Head(in) = BYTE_TO_MOUSE)
  /\ LET disabled == toMouse /\ Head(in) = DIS_DATA_REPORTING
     IN  /\ reporting' = (reporting /\ ~disabled)
         /\ owesAck' = (owesAck \/ disabled)
  /\ UNCHANGED <<vars, program, out, pending, prefixed>>

\* The terminal driver of the system serves the keyboard again.
TtyReads ==
  /\ "tty" \in pending
  /\ pending' = pending \ {"tty"}
  /\ out' = IF out # << >> /\ ~out[1].aux THEN << >> ELSE out
  /\ UNCHANGED <<vars, program, controller, prefixed>>

----------------------------------------------------------------------------------
(* One turn of the main loop: the interrupts of a notification *)

pushEvent(queue, event) == IF Len(queue) = EventCapacity THEN queue ELSE Append(queue, event)

\* Mutant: a byte that cannot begin a packet is left in the controller.
mouseReads_late == out # << >> /\ out[1].aux /\ (i = 0 => FIRST_BYTE(out[1].byte))

\* mouse_ih reads bytes of the mouse only, with an error or not.
mouseReads == out # << >> /\ out[1].aux

\* keyboard_int_handler leaves a byte with an error in the buffer.
keyboardReads == out # << >> /\ ~out[1].aux /\ ~out[1].error

\* Mutant: the counter goes back to 0 at the end of a prefixed code only.
nextCounter_prefix(scancode) == IF scancode # TWO_BYTES /\ counter = 1 THEN 0 ELSE counter + 1

nextCounter(scancode) == IF scancode # TWO_BYTES THEN 0 ELSE counter + 1

\* The events that the three handlers push, in the order of the branches.
afterTimer(irqs) ==
  IF "timer" \in irqs THEN pushEvent(events, [type |-> "NEW_FRAME"]) ELSE events

\* Mutant: pp is copied before the byte is in it.
afterMouse_stale(irqs, s) ==
  IF "mouse" \in irqs /\ mouseReads /\ pushes(out[1].error, s)
  THEN pushEvent(afterTimer(irqs), [type |-> "MOUSE", mouse_packet |-> decoded(bytes)])
  ELSE afterTimer(irqs)

afterMouse(irqs, s) ==
  IF "mouse" \in irqs /\ mouseReads /\ pushes(out[1].error, s)
  THEN pushEvent(afterTimer(irqs),
                 [type |-> "MOUSE", mouse_packet |-> mouse_packet(out[1].byte, out[1].error, s)])
  ELSE afterTimer(irqs)

afterKeyboard(irqs, s) ==
  IF "kb" \in irqs /\ keyboardReads /\ out[1].byte # TWO_BYTES
  THEN pushEvent(afterMouse(irqs, s), [type |-> "KEYBOARD", scanCode |-> out[1].byte])
  ELSE afterMouse(irqs, s)

\* driver_receive answers with every interrupt raised since the last call.
Notify ==
  LET byMouse == "mouse" \in pending /\ mouseReads
      byKeyboard == "kb" \in pending /\ ~byMouse /\ keyboardReads
  IN  /\ running /\ pc = "receive" /\ pending # {}
      /\ pc' = "drain"
      /\ pending' = {}
      /\ \E s \in stored(byMouse /\ ~out[1].error) :
           /\ events' = afterKeyboard(pending, s)
           /\ IF byMouse THEN mouse_ih(out[1].byte, out[1].error, s)
              ELSE UNCHANGED <<i, bytes, valid_packet, memory>>
      /\ IF byMouse THEN handedOver(out[1].byte, out[1].error) ELSE UNCHANGED <<sent, quiet, flagged>>
      /\ counter' = IF byKeyboard THEN nextCounter(out[1].byte) ELSE counter
      /\ out' = IF byMouse \/ byKeyboard THEN << >> ELSE out
      /\ UNCHANGED <<cursor, naming, name, name_size, controller, prefixed>>

----------------------------------------------------------------------------------
(* The events *)

\* Mutant: BACK_SPACE shortens the name and leaves the letter.
erased_not(k) == name

erased(k) == [name EXCEPT ![k] = 0]

\* Mutant: keys that need a letter are obeyed without one.
hasLetter_always == TRUE

hasLetter == name_size > 0

hasRoom == name_size < MAX_NAME_SIZE

\* name_choice_ih: any release but BACK_SPACE is a letter, and ENTER is one too in an
\* empty name.
name_choice_ih(code) ==
  LET release == code >= 128
      erases == release /\ code = BACK_SPACE /\ hasLetter
      enters == release /\ code = ENTER /\ hasLetter
      types == release /\ code # BACK_SPACE /\ ~enters /\ hasRoom
  IN  /\ naming' = (naming /\ ~enters)
      /\ name_size' = IF erases THEN name_size - 1 ELSE IF types THEN name_size + 1 ELSE name_size
      /\ name' = CASE erases -> erased(name_size - 1)
                   [] enters -> [name EXCEPT ![name_size] = 0]
                   [] types -> [name EXCEPT ![name_size] = code]
                   [] OTHER -> name

\* popEvent: the last event pushed. Then its handlers.
PopEvent ==
  LET event == events[Len(events)]
  IN  /\ running /\ pc = "drain" /\ events # << >>
      /\ events' = SubSeq(events, 1, Len(events) - 1)
      /\ cursor' = IF event.type = "MOUSE" THEN updateCursor(cursor, event.mouse_packet) ELSE cursor
      /\ IF event.type = "KEYBOARD" /\ naming THEN name_choice_ih(event.scanCode)
         ELSE UNCHANGED <<naming, name, name_size>>
      /\ UNCHANGED <<pc, counter, i, bytes, valid_packet, sent, quiet, flagged, memory,
                     controller, out, pending, prefixed>>

\* Mutant: one event a turn.
drained_one == TRUE

drained == events = << >>

\* The next turn, or, when the game is over, the end: timer_unsubscribe_int and
\* keyboard_unsubscribe_int, and what had been raised for them is forgotten. (The serial
\* port's part of the end is LeaveLoop and Close in Chess; a winner may hang in it and
\* never get here.)
EndTurn(over) ==
  /\ running /\ pc = "drain" /\ drained
  /\ over => ~naming
  /\ pc' = IF over THEN "command" ELSE "receive"
  /\ pending' = IF over THEN pending \ {"timer", "kb"} ELSE pending
  /\ UNCHANGED <<vars, counter, events, naming, name, name_size, controller, out, prefixed>>

----------------------------------------------------------------------------------
(* mouse_disable_data_reporting. The loops poll the status until they may go on:  *)
(* their counter of three attempts is never decremented, so none of them gives up.*)

mayWrite == in = << >>

\* write_kbc_command, write_kbc_arg: from one place to the next, with a byte.
writes(from, byte, to) ==
  /\ pc = from /\ mayWrite
  /\ in' = <<byte>>
  /\ pc' = to
  /\ UNCHANGED <<vars, counter, events, naming, name, name_size, toMouse, reporting, owesAck,
                 out, pending, prefixed>>

WriteCommand == writes("command", BYTE_TO_MOUSE, "arg")

WriteArg == writes("arg", DIS_DATA_REPORTING, "answer")

\* Mutant: the answer is looked for in the other buffer.
mayRead_input == in # << >>

mayRead == out # << >>

\* read_kbc_return takes whatever byte is there; nobody looks at the result.
ReadReturn ==
  /\ pc = "answer" /\ mayRead
  /\ out' = << >>
  /\ pc' = "done"
  /\ UNCHANGED <<vars, counter, events, naming, name, name_size, controller, pending, prefixed>>

----------------------------------------------------------------------------------
InputNext ==
  \/ TimerTicks
  \/ \E byte \in Flags \cup Moves, error \in Errors : MouseSends(byte, error)
  \/ \E byte \in Codes \cup {TWO_BYTES}, error \in Flagged : KeyboardSends(byte, error)
  \/ MouseAcks \/ TakesInput \/ TtyReads
  \/ Notify \/ PopEvent \/ \E over \in BOOLEAN : EndTurn(over)
  \/ WriteCommand \/ WriteArg \/ ReadReturn

\* The program runs; the KBC takes what is written to it, and does not keep the
\* acknowledgement back for ever behind scancodes.
InputFairness == /\ WF_inputVars(WriteCommand) /\ WF_inputVars(WriteArg)
                 /\ WF_inputVars(ReadReturn) /\ WF_inputVars(TakesInput)
                 /\ SF_inputVars(MouseAcks)

InputSpec == InputInit /\ [][InputNext]_inputVars /\ InputFairness

----------------------------------------------------------------------------------
(* Properties *)

Event == [type : {"NEW_FRAME"}]
           \cup [type : {"MOUSE"}, mouse_packet : Packet]
           \cup [type : {"KEYBOARD"}, scanCode : Byte]

InputTypeOK ==
  /\ TypeOK
  /\ pc \in Place
  /\ out \in Seq([aux : BOOLEAN, byte : Byte, error : BOOLEAN]) /\ Len(out) <= 1
  /\ pending \subseteq {"timer", "mouse", "kb", "tty"}
  /\ prefixed \in BOOLEAN /\ counter \in Nat
  /\ events \in Seq(Event) /\ Len(events) <= EventCapacity
  /\ naming \in BOOLEAN
  /\ name \in [0 .. MAX_NAME_SIZE -> Byte] /\ name_size \in 0 .. MAX_NAME_SIZE
  /\ in \in Seq({BYTE_TO_MOUSE, DIS_DATA_REPORTING}) /\ Len(in) <= 1
  /\ toMouse \in BOOLEAN /\ reporting \in BOOLEAN /\ owesAck \in BOOLEAN

\* No byte is left behind: while the loop runs, a byte in the controller has an
\* interrupt on its way that will fetch it. Both handlers read the same buffer, and
\* the controller sends nothing more until one of them has. (keyboard_int_handler
\* leaves a byte with an error where it is: keyboard and mouse are dead from then on.)
NoByteLeftBehind ==
  inLoop /\ out # << >> =>
    \/ (IF out[1].aux THEN "mouse" ELSE "kb") \in pending
    \/ out[1].error /\ ~out[1].aux

\* The queue of event_queue.c is a stack, yet the events of one device are never
\* handled out of order, and the stack never gets near its capacity: it never holds
\* two events of the same device.
OneEventPerDevice ==
  \A k, l \in DOMAIN events : events[k].type = events[l].type => k = l

\* scancode_bytes[counter++] stays in its two elements: no sequence of codes, with or
\* without prefix, lost to errors or not, moves the counter past the second one.
ScancodeFits == counter <= 1

\* draw_name reads the name up to its first 0 on every frame, while keys change it: the
\* first 0 is where the name ends, and it is inside the array.
NameIsTerminated ==
  /\ name[name_size] = 0
  /\ \A k \in 0 .. name_size - 1 : name[k] # 0

\* When the program ends the mouse is silent, although the answer read_kbc_return
\* takes may be a byte of a packet or a scancode instead of the acknowledgement.
MouseIsSilenced == pc = "command" ~> pc = "done" /\ ~reporting

\* The cursor as it will be when the event in the queue has been handled.
cursorToBe ==
  IF \E k \in DOMAIN events : events[k].type = "MOUSE"
  THEN updateCursor(cursor, events[CHOOSE k \in DOMAIN events : events[k].type = "MOUSE"].mouse_packet)
  ELSE cursor

M == INSTANCE Mouse WITH cursor <- cursorToBe

\* Sharing the KBC with the keyboard, waiting in the event queue and being popped
\* last-in first-out change nothing for the mouse: the machine behaves as Mouse, whose
\* theorems therefore hold of it.
ImplementsMouse == M!Spec
==================================================================================
