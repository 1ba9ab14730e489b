# LC-Chess in TLA+

LC-Chess (`src/proj/src`) is a chess game for two Minix machines joined by a serial
line. Each machine runs one single-threaded program: a loop that takes the interrupts
of the timer, the mouse, the keyboard and the UART, turns them into events, and hands
the events to the handler of the screen it shows. Everything the two players see of
each other goes through one byte at a time on the line. This directory models that
program, checks it with TLC on small instances and proves its safety properties with TLAPS.

## 1. The system

| part | state | operations | talks to |
|---|---|---|---|
| `queue.c` byte ring | `front`, `rear`, `size` (uint8), the bytes | create, add, remove, front, rear | `serialPort.c` |
| `serialPort.c` UART driver | transmit and receive queue, the UART's holding register and FIFO | `sp_write`, `sp_read`, `sp_ih`, `sp_clear`, `sp_unsubscribe_int`, `sp_emptyTransmitQueue` | main loop, peer |
| `main.c` screens | `GameState`, name length, `player`, `myTurn`, `endGame`, `won`, `animation`, the dragged piece, the half-received move | `name_choice_ih`, `waiting_ih`, `choosing_ih`, `waiting_choosing_ih`, `playing_ih`, exit path | all others |
| `board.c`, `piece.c` | 64 pointers to pieces, the squares painted orange; per piece its image position, target, `is_moving`, `priority_draw`, `change`, `pawn_moved`; the buffer `mem_pieces` | `initBoard`, `possiblePosition`, `updateBoard`, `drawBoardPieces`, `movePiece`, `updatePiece` | `playing_ih` |
| `cursor.c` | position, `pressed`, `released` | `updateCursor` | mouse events |
| `event_queue.c` | array and size | push, pop (a stack) | main loop |
| `mouse.c`, `keyboard.c`, `timer.c` | packet under assembly, `scancode_bytes` and its counter, tick count | interrupt handlers, KBC commands | main loop; one keyboard controller (KBC) for keyboard and mouse |
| `videocard.c`, `letter.c` | frame buffers, images | drawing | all |

How a game goes. A player types a name; ENTER clears the port, sends `VM_CONNECTED` and
waits. A waiting machine that reads `VM_CONNECTED` becomes the chooser of the colours
and answers `RECEIVE_VM_CONNECTED`, which makes the other wait for its colour. The
choice is sent as one byte. A move is four bytes: `BEGIN_MESSAGE`, old position, new
position, `YOUR_TURN`. The machine that takes a king has won at its next event; the
machine that receives such a move has lost.

What is hard about it. The two machines run at unrelated speeds; a machine writes at
most one byte per turn of its loop and reads one per frame; bytes are dropped silently
when a queue is full; a received 0 cannot be told from nothing; the handshake has no tie
break; a drag lasts many frames and uses what was true when it began; what a pawn may do
depends on an animation; keyboard and mouse share a controller with room for one byte, and
its commands are polled for ever; resting pieces are drawn from a cached buffer; the port is
programmed while the peer may already be sending; and leaving the program flushes hardware
that may hold the last move. `PROJECT.json` lists these hazards line by line, with the properties that watch them.

## 2. The modules

* `Fifo`: the queue as its clients see it, a sequence with refusal when full and 0 when
  empty. `BoundedFifo` is the abstract machine built on it.
* `Queue`: `queue.c` itself, with uint8 indices (`ByteRange`). `Queue!ImplementsFifo` is
  the refinement: the contents are the `size` bytes from `front` on. It is what allows
  the other modules to use sequences.
* `Board`: geometry (with the unsigned division that sends pixels left of the board to
  column 72796055), initial position, `possiblePosition`, drop test. A piece is named by
  the square it starts on, so a board maps squares to names, and the type of a piece
  follows from its name. The bishop's and the pawn's cases read `board->board` without looking at
  the coordinates (`occupied`): beside the board the read finds a square of another row or a word
  outside the array, which is NULL or not as the constant `Beyond` says. `draw_rectangle` gets
  its coordinates as `uint16_t` and refuses those off the board; a square is orange when its top
  left pixel is.
* `ChessRules`: the moves of chess as a reference, stated without loops or rays.
* `SerialPort`: the driver's functions, and the UART as a one-byte transmitter and a
  FIFO. They are operators from the record of one machine to its next record.
* `Chess`: the program. `vm[p]` is the record of machine `p`; its fields have the names of
  the C variables. The handlers are operators with the names of the C functions. The
  actions are `MainLoop` (one turn of the loop, with the interrupts of one notification),
  `Deliver` (a byte crosses the line), `LeaveLoop` and `Close` (the code after the loop).
  `hist` is history for the properties and influences nothing.
* `Mouse`: `mouse_ih` and `updateCursor` with a PS/2 device that sends packets byte by byte.
  `Interrupt` is one byte: its handling by `mouse_ih` and, if it completes a packet, the
  move of the cursor, which the main loop does in the same turn. `sent` is the device's own
  count of the bytes of the packet, which the program cannot see. The store `pp.bytes[i]=byte` is
  not checked by the code, nor here: `stored` gives the outcomes of one past the packet. Inside
  `pp` (`PacketSize` bytes) it changes fields that the next complete packet sets anew. Behind `pp`
  it is undefined behaviour: it may hit those of `updateMouse`, `i` and `valid_packet` that the
  linker put there (`Neighbours`; a hit `updateMouse` makes an event of whatever `pp` holds,
  displacements out of `Strays`), nothing of interest, or other data of the program; after the
  last (`memory = "lost"`) nothing is said of the program any more, and it stops.
* `Input` extends `Mouse` with the rest of the way from the devices to the handlers: the
  KBC's output buffer with its AUX and error bits (`out`), the interrupts that wait for the
  next notification (`pending`), the scancode counter, the event array, the name buffer, and
  the commands of the exit path. `Notify` is one notification, with the branches of all
  interrupts in it; `PopEvent` one event and its handlers; `EndTurn` the next turn or the end
  (without the serial port's part of the end, in which a winner may hang: run `winner`);
  `WriteCommand`, `WriteArg`, `ReadReturn` the three steps of `mouse_disable_data_reporting`.
  The devices (`TimerTicks`, `MouseSends`, `KeyboardSends`, `MouseAcks`, `TakesInput`) and the
  system's own keyboard driver, which takes over once the program has unsubscribed
  (`TtyReads`), run in between. `ImplementsMouse` is the refinement: with the packet in the
  queue taken as handled (`cursorToBe`) every step is a step of `Mouse` or none.
* `Pieces`: the images of the pieces on one machine. `NewFrame`, `FrameWithMove`,
  `FrameWithTurn` are the timer event with what the received byte does; `PickUp`, `Drag`,
  `Drop`, `Point` the mouse event; `ToggleAnimation` the key. `frame` is what a timer event
  puts on the screen: the cached buffer and the pieces with priority.
* `Uart`: `sp_configure_init` as a list of register accesses (`configuration`), executed one
  port read or write at a time against a 16550 that receives meanwhile.
* `MCBoard`, `MCHandshake`, `MCGame`, `MCMidgame`, `MCPieces`: instances for TLC. (`Queue`,
  `Mouse`, `Input` and `Uart` need none.)
* `Protocol`: the inductive invariant of `Chess`, the states that two machines and the line
  between them can be in. Definitions only; section 6 says what they are for.
* `QueueProofs`, `MouseProofs`, `InputProofs`, `PiecesProofs`, `BoardProofs`: theorems about one
  module each. `ChessProofs` (types and the line), `ProtocolProofs` (one lemma per handler) and
  `ProtocolTheorems` (the step, and the theorems) are about `Chess` and build on each other.

How they fit together. `Queue` entitles `SerialPort` and `Chess` to use sequences. `Input`
entitles `Mouse` to take an interrupt and the event of its packet as one step, and `Chess` to
take the events of a turn as one of each device, handled in a fixed order. `Mouse` bounds
the `Spots` of `Chess`. `Pieces` shows what `Chess` assumes of `pawn_moved`
(`UnmarkedPawnWillBeMarked`). `Board` says which drops are accepted, and `BoardProofs` that they
are the moves of chess.

A turn of the main loop is one atomic step: the machine is single threaded and touches
the outside only through the UART, whose reads and writes come first in the turn (the
extra `sp_read` of `waiting_choosing_ih` comes later; a byte that arrives in between is a
byte that arrived before the turn). Events are handled keyboard, mouse, timer: the event
queue is a stack that each turn empties.

## 3. Abstractions

* **Mouse.** A packet brings the cursor to one of the pixels of the constant `Spots` with
  the left button down or up. Pixels inside one square are alike to every handler, and the
  code imposes no limit on how far packets may move the cursor between two events of
  interest, so a set with one pixel per square or button of interest loses nothing of those
  squares. `pressed` and `released` are computed as `updateCursor` does.
* **Keyboard.** A key event is a scancode of `Codes`. The handlers look at releases only;
  a press changes nothing, and `Codes` holds none. In `Chess` a name is its length; in `Input`
  it is the array, and a letter its scancode (`getLetter` is a table).
* **Notifications.** In `Chess` any set of interrupts may come together, with a mouse and a key
  event in one turn. `Input` shows that the KBC's single byte allows one of the two at a time, so
  `Chess` explores more than the hardware does.
* **KBC.** The output buffer holds one byte, and a device waits until it is read. An interrupt is
  raised once per byte. A byte may carry a parity or timeout error; the two are alike to the
  code. Once the loop has ended the mouse may send any byte of a packet: nobody counts them.
* **UART.** In `Chess` the FIFOs are on and characters have 8 bits, which is not what the
  configuration gives (section 5). The transmitter is one byte, the receiver a FIFO of `FifoDepth`. The interrupt
  handler serves received data before an empty transmitter. `sp_configure_end` switches the
  FIFOs off; whether the byte in the transmitter still goes out is hardware timing, and both
  outcomes are explored (`sent`).
* **The line** neither loses nor reorders bytes: it takes any time for each one. What is
  lost is lost by the code (full queues, `sp_clear`, `sp_configure_end`).
* **A NULL dereference** (`movePiece` of an empty square) is the phase `crashed`.
* **Animation.** In `Chess` a piece glides for some frames; the only effect that outlives the glide
  is `pawn_moved`, set on the first animated frame of a pawn that is on the board. `Pieces` has
  the glide pixel by pixel, and leaves out what `Board` and `Chess` have: any square without a
  piece of the mover's accepts, and the turn goes back and forth.
* **Drawing** is left out, except that the squares painted orange are state (`playing_ih`
  reads the colour of the square back to decide on a drop) and, in `Pieces`, which images a
  frame holds and where.

## 4. The runs

| run | what it shows | bounds |
|---|---|---|
| `queue` | the ring stays in bounds (`TypeOK`), its indices agree (`RingInv`), it is a FIFO (`ImplementsFifo`) | capacity 3 with 2-bit indices: `size` reaches the largest index value, as a capacity of 255 would for uint8; all initial memory contents |
| `board_moves` | a dropped piece stays exactly where chess allows it (`AcceptedMovesAreChess`, `ChessMovesAreAccepted`) | each type of piece of each colour on corner, edge, home and inner squares, with one other piece of either colour, a king or a pawn, on any square; rays are independent of each other, so one blocker decides each ray |
| `progress` | types, colours opposite; both machines leave the waiting screen (`HandshakeCompletes`), a colour arrives (`ColourArrives`), a passed turn arrives (`TurnArrives`), the loser is told (`LoserIsTold`) | two starts: the names (one letter, both buttons, crossed ENTER keys included) and a position with a hanging king, reachable in `game`. Each interrupt alone, none, or all four in a notification; `clash` has all 16 combinations. No animation key: the animation only touches the marks of the pawns, on which none of these properties depends |
| `game` | the nine properties below | queues and FIFOs of 8 bytes, the least that `RoomAssumption` allows, with a first move that may follow the colour at once; the line 1. e4 f5 2. Qh5 and the captures and detours its squares allow, white chosen by machine 1 (`FirstChooses`: the machines are alike, and `progress` covers the rest) |
| `input` | the properties of the whole input path, below | a 13x21 screen, so that both edges are one packet apart; displacements of both signs, with and without the bit that marks a first byte; the device begins anywhere in a packet; errors on any byte of either device; stores past a packet of 4 bytes (12 in the program; 3 are the bytes, the fourth is inside `pp` and behind them) that may hit `updateMouse`; BACK_SPACE, ENTER and prefixes; a name of one letter, so that it is empty, full and erased (ENTER is a letter in an empty name; a letter in a full name is left to `InputTypes` and `InputNameIsTerminated`). 840,000 states. Stores that hit `i` and `valid_packet` do not fit into five minutes: the theorems allow them |
| `pieces` | images end up where the board says (`ImagesMatchBoard`), an unmarked pawn will be marked (`UnmarkedPawnWillBeMarked`), no frame shows an outdated buffer (`FrameShowsBoard`), glides end (`GlideEnds`) | four squares two pixels wide, a pawn and an enemy: pieces are picked up, dropped and captured in mid glide; spots exactly on a square, one pixel beside it and beside the board. A third piece does not finish in five minutes; nor do spots at the left or upper edge of the screen, where a dragged image wraps to 65535 and its way back is as many frames long |
| `clash`, `winner`, `corner`, `pawn`, `fifo`, `mouse` | section 5 | the smallest position that shows it; one greeting for `fifo`; the real screen and packet size, and all three neighbours, for `mouse` |

`game` watches what two machines of unrelated speed could get wrong: the turn is neither
duplicated nor lost (`OneTurn`); who may move sees the position the other sees
(`BoardsAgree`); what a drag remembers is still true when it ends (`DragIsCurrent`); a
received move has a piece to move (`NoNullMove`); a game without a king is over on both
machines (`KingGoneMeansOver`); no piece is doubled (`NoPieceTwice`); verdicts agree
(`VerdictsAgree`); every change of a board is one chess move (`MovesAreChess`); and no queue or
FIFO is full when a byte comes (`NoByteIsDropped`).
The hypotheses of these nine name three known failures and nothing else: `Clash` (crossed ENTER keys,
run `clash`), `hist.corner` (a 0 was sent, run `corner`) and `hist.flushed` (closing the port
threw away the byte in the transmitter). Two of the hypotheses were found by proving, not by TLC.
`VerdictsAgree` needs `hist.flushed`: a loser that misses a byte of the last move plays on and may
take the winner's king on its own board. `NoByteIsDropped` needs `~Clash`: two machines that
both hold the turn may send one move after the other, and a slow reader falls behind. Deadlock is not checked in these runs: the program ends, and both machines may be done.

`input` watches what a shared controller and a stack could get wrong: a byte in the
controller always has an interrupt that will fetch it (`NoByteLeftBehind`); the stack never
reverses the events of a device (`OneEventPerDevice`); the prefix buffer does not overflow
(`ScancodeFits`); the name ends where its size says (`NameIsTerminated`); the cursor stays on the
screen (`CursorOnScreen`); packets are found (`QuietPacketAligns`) and kept (`StaysAligned`) up to
the first error; only an error takes the index past the packet (`OnlyErrorsOverrun`), and after it
no packet is completed (`NoPacketAfterError`); the commands at the end silence the mouse
(`MouseIsSilenced`) although `read_kbc_return` may take a scancode for the acknowledgement; and the
whole is `Mouse` (`ImplementsMouse`). Deadlock is not checked: the program ends.

Every property has a mutant of the code that breaks it, next to the definition it mutates
and marked `Mutant` in the modules.

**Fairness** (`Fairness`). The timer interrupts a running machine 60 times a second for ever,
and most of its notifications complete neither a packet (every third byte of the mouse does)
nor a key, so turns of the loop that only draw a frame are weakly fair; a byte in a
transmitter arrives; the code after the loop runs. Users owe nothing: no fairness on keys or
clicks. In `Input` (`InputFairness`) the three steps of the command are weakly fair, because the
program has nothing else to do then, and so is the KBC that takes what is written to it. The
acknowledgement is strongly fair: it competes with scancodes for one buffer, and the controller
does not prefer the keyboard for ever. In `Pieces` frames are weakly fair: the timer interrupts
for ever.

## 5. Where the code does not do what is said of it

* `clash`: two ENTER keys that cross make both machines choosers, and both players may
  hold the turn (report, page 8: the opponent cannot pick up pieces).
* `corner`: column 0, row 0 is sent as the byte 0, which the receiver takes for an empty
  queue; the move is not played there, but the turn passes (report, page 8).
* `winner`: `sp_emptyTransmitQueue` spins while the queue *is* empty. A winner whose last
  byte has already left hangs before its verdict (`serialPort.h:106`, report page 4).
* `pawn`: with the animation off `pawn_moved` is never set; a pawn may double-step again.
* `fifo`: `sp_enable` writes back what it reads, but at the FCR's address the IIR is read, whose
  bit 0 means that no interrupt is pending, and bit 0 of the FCR is the FIFO enable. With the
  FIFOs left on by the last game and a greeting in the receiver, the configuration ends with
  the FIFOs off (`serialPort.h:24`, report page 8).
* `mouse`: `mouse.c:36` resets `valid_packet` "for future reading" after a packet with an error, but
  not `i`, which goes on to 3. No byte is read into a packet any more (`ReadsIntoPacket` is
  violated): the bytes that follow are stored behind `pp.bytes` and, from index 12 on, behind `pp`.

Met on the way, and part of what the passing runs say:

* One byte of the mouse with a parity or timeout error and the mouse is dead, unless a store behind
  `pp` happens to hit the variables of `mouse_ih` (`NoPacketAfterError`).
* A scancode with an error is never read by anyone: keyboard and mouse are blocked from then on
  (the exception in `NoByteLeftBehind`).
* The loops of the KBC commands never decrement their counter of attempts: they poll for ever.
  `MouseIsSilenced` therefore needs a controller that answers.
* A white pawn is never offered the black king (`type<5`), the black pawn is offered the white
  one (`spared` in `MCBoard`).
* A glide that ends while the piece is dragged takes its drawing priority away: until it is
  dropped, the hand is empty on the screen (the exception in `FrameShowsBoard`).
* `SP_8BITS` is `BIT(0) & BIT(1)`, which is 0: it asks for characters of 5 bits.

## 6. The proofs

`QueueProofs`, for every capacity in 1..255 (`RingAssumption`: a capacity of 256 would wrap
`size`; the code only uses 10). `TypeOK` is not inductive for what the refinement needs:
that `array[rear] = item` does not overwrite a byte still queued depends on `rear` being
where `front` and `size` say. `RingTypeOK == TypeOK /\ RingInv` is inductive. All
arithmetic goes through one fact, `ModLemma`: between -1 and 2c - 1, `n % c` is a
conditional subtraction (`lap`). From it
* `QueueTypeOK`, `QueueRingInv`: `Spec => []TypeOK`, `Spec => []RingInv`;
* `QueueImplementsFifo`: `Spec => ImplementsFifo`. `RunLemma` says which slot holds the k-th
  byte of a run; `AddContents` and `RemoveContents` that an addition appends and a removal
  takes the tail (the slot written differs from every slot in use); `EndsOfContents` that
  the readers answer the two ends. This is what entitles `SerialPort` and `Chess` to treat
  the queues as sequences, for the real capacity of 10 and not only for the 3 of the run.

`MouseProofs`, for every resolution with room for the cursor, every size of a packet, every choice of
variables behind it and any displacements found in it (`MouseAssumption`). `StoredLemma` has what the
proofs need of the unchecked store: inside `pp` it leaves the variables around it alone, behind `pp`
it leaves something of their type and a trace in `memory`.
* `CursorStaysOnScreen`, with any errors: inductive with the types of the index and the
  bytes (`CursorInv`); the arithmetic is `ClampedLemma`, one coordinate and any displacement.
  For 800x600 it is the range that `ChessAssumption` asks of `Spots`.
* `AlignmentIsKept`, `AlignmentIsFound`, up to the first byte with an error, and
  `ErrorsEndThePackets` about what comes after it: from `AlignInv`. Its strengthenings are that two bytes into a
  packet without look-alikes the index is 0 or 2, never 1, and from both the third byte leads
  to 0; and that, as long as nothing behind `pp` has been hit, an invalid packet has its index past
  0, so that by the time it is valid again the index is past 2. `AlignByte` is the one step, which `InputProofs` uses too.

`InputProofs`, for every screen, device, keyboard, name size and event capacity of at least 3
(`MouseAssumption`, `InputAssumption`). Four invariants:
* `WireInv`, the controller and the handlers that read it. `NoByteLeftBehind` is inductive only
  together with what the bytes are: a byte of the mouse is the one its packet goes on with
  (`Carried`), and a command is under way only outside the loop (`Idle`). `ScancodeFits` needs
  `Prefixed`: when the counter is 1, either the byte in the buffer is the one after the prefix
  or the keyboard still owes it. Hence `InputLeavesNoByte`, `InputScancodeFits`.
* `QueueInv`, the event array: empty whenever the loop receives, at most one event of each
  device, packets of bytes. A notification finds it empty and pushes at most three events of
  different devices (`NotifyEvents`), so the capacity is never reached. Hence
  `InputOneEventPerDevice` and, with `UpdateCursorLemma`, `InputCursorOnScreen`.
* `NameInv`: behind the name there is nothing but zeros, which `NameIsTerminated` does not say and
  the step after BACK_SPACE needs. Hence `InputNameIsTerminated`.
* `QuietInv`: what a quiet packet brings about lasts until its event is popped, a step that
  changes only the cursor. Hence `InputStaysAligned`, `InputQuietPacketAligns`,
  `InputOnlyErrorsOverrun`, `InputNoPacketAfterError`.

`InputImplementsMouse` follows from the first two: a notification that completes a packet is
an `Interrupt` of `Mouse` (`cursorToBe` jumps to where the packet leads), popping it is a stutter
(the cursor catches up), and a second packet in the queue would break both. `InputTypes` puts
the types together.

`ChessProofs`, from `SerialAssumption` and `ChessAssumption` only:
* `ChessTypeOK`: `Spec => []TypeOK`. One lemma per handler says that it maps a well-formed
  machine to a well-formed machine whatever its input; `SetField` is the fact about records
  they share. The substance is in the leaves: every byte decodes to a square
  (`DecodeLemma`), also one that a desynchronised stream delivers in the wrong place; pixels
  outside the board never reach an index (`PickUpType`, `DropType`, through `onBoard`);
  painting stays on the board (`PossibleLemma`); queues and name stay within their buffers.

`ChessProofs` also has the facts about the line that the next proof rests on: the bytes on their
way from one machine to the other, `bytesTo(r, s) = r.rxq \o r.fifo \o s.thr \o s.txq`, are one
sequence; moving a byte from one buffer to the next does not change it, a write appends and a
read takes the head, and a full buffer would be the only exception.

`ProtocolProofs` and `ProtocolTheorems`, from the same assumptions and `RoomAssumption` (every
queue and FIFO has room for 8 bytes: the code has 10 and the hardware 16). None of the
properties of `game` is inductive: each says what holds when both machines look at the board,
and none what is between them. `ProtocolInv` says that. Unless the ENTER keys crossed, the pair is
* at the `Start`: each has sent nothing or one greeting;
* in the `Hand`shake: one machine has read a greeting, and what it sent is a part of one fixed
  script (`wire`): greeting, answer, colour and, if it chose white, its first move;
* in the `Game`: at `Rest` (one has the turn, the line is empty), in `Fly` (a move of one, or what
  is left of it, is on the line and nobody has the turn) or `Dead` (the loser left before it
  read the turn that came with the move).
`Flight` ties the bytes to the boards: as long as the new position is on its way, the sender's
board is the receiver's with the move played (`Behind`), the receiver has remembered the old
position if it has read it, and the sender has ended its game just if the move takes a king on
the receiver's board; after that the boards are equal and the receiver has left just if it
lost (`Told`). After a move over the corner the boards are not compared any more (`ok`). After
a byte was thrown away by `sp_configure_end` only the turn is followed (`LooseHand`,
`LooseGame`: it is the last byte of its queue, and nobody else has it), which is what `OneTurn`
needs. `Local` is about one machine: no piece on two squares, the dragged piece is where it was
picked up and only on turn, both kings are there just until the game is over.

Every handler keeps this: a lemma each for `playing_ih` (the frame with the received byte, the
drag, the drop), the handshake screens, the interrupt handler and the exit path, for the
machine as writer and as reader; `NextInv` puts them together, on one machine `p` and its peer
(`View`). TLC checked `ProtocolInv` on instances of the handshake, of `game`, of an ending and of
`corner`, with the positions cut down to those that occur, before it was proved; it is in none of the runs because it
enumerates two positions in every state. From it
* `NoByteDropped`: at most 7 bytes are on their way (the script has no more);
* `TurnIsToken`, `ColoursDiffer`, `BoardsStayEqual`, `DragStaysCurrent`, `NoNullDereference`,
  `VerdictsStayEqual`, `KingGoneIsOver`, `NoPieceOnTwoSquares`: the invariants of `progress` and
  `game`, for games of any length, on the whole board, at any speed, with any keys and clicks.

`PiecesProofs`, for every board of squares at least two pixels wide that fits a uint16_t, any set of
pieces and any way of the cursor (`PiecesAssumption`). `FrameShowsBoard` is about the cached
buffer, so `PiecesInv` has to say what the buffer holds between two frames: `BufferIsCurrent`,
unless something makes the next frame draw it again (`outdated`), it shows each resting piece
once, where it is. Whether a piece is in the buffer hangs on its priority, hence
`GlidesInFront`: a piece that glides has priority, unless it was put back on its square in mid
glide, and then the next frame stops it. `UnmarkedPawnWillBeMarked` needs `MarkedBeforeTurn`: a
frame comes between the opponent's move and this player's turn, because the turn is a byte of
its own. With `OneSquare` and `InHand` the conjunction is inductive (TLC checked it on `pieces`
first). Hence `PiecesTypeOK`, `ImagesFollowBoard`, `PawnsAreMarked`, `FramesShowBoard`.

`BoardProofs`, on every position and not only the two or three pieces of `board_moves`:
`MovesAgree` says that the drop of a piece is accepted just when it is a chess move, the white
pawn in front of the black king excepted, whatever lies around the array (`Beyond` is any set).
`ColumnOnScreen`, `RowOnScreen`, `Painted`: for all columns and rows the loops compute with (-7..14,
`Near`) the `uint16_t` conversion and the unsigned division never turn coordinates beside the board into
a square of another row. So what is read beside the board does not matter: the ray has left
the board by then, and nothing it paints from there on counts (`RayReaches` needs `occupied` on the
board only, `Read`). `RayReaches` with `BetweenSteps`: the loop that stops at the first piece
reaches the squares of its line with nothing strictly in between, which `ChessRules` states
with a cross product. `OnLine`: lines and diagonals are displacements. `KnightReaches`,
`KingReaches`, `PawnReaches`, `RookReaches`, `BishopReaches` put them together, and `Landing` that
the comparison with `b_king` tells the teams apart. `AcceptedAreChess` and `ChessAreAccepted` are
the two invariants of the run (`PositionsAssumption`: what is put on the board are pieces, on squares).

Only model-checked: all liveness (`HandshakeCompletes`, `ColourArrives`, `TurnArrives`,
`LoserIsTold`, `MouseIsSilenced`, `GlideEnds`: fairness and ENABLED are beyond the prover) and
`MovesAreChess`, which is true only while the animation is on (run `pawn`): `game` has no key
that switches it off, and a theorem would have to say so.

## 7. Not modelled

The program is `src/proj/src`, about 2200 lines of C, and the models cover what in it keeps
state. The rest of the repository is not the program: `.minix-src` and the copies of it and of
the project inside `proj/src/imgs` are headers of the operating system and a duplicate,
`src/lab*` are course exercises. Left out of the program itself:

* drawing, VBE calls, mapping of video memory, XPM loading, the table of letters (`videocard.c`,
  `letter.c`, `imgs/`): memory copies without control of interest, except `draw_rectangle`, on
  which the moves depend;
* `timer.c`: the counter of ticks is read by nobody; the interrupt itself is `TimerTicks`. Its
  frequency is set by kernel calls. `utils.c`: wrappers of kernel calls;
* the menu and the start of the program, which set up what the initial states describe, and
  `mouse_enable_data_reporting`, the library's call there;
* errors returned by kernel calls, which the code reports and does not handle.

## 8. Plan

Done: `Fifo`, `BoundedFifo`, `Queue` and its refinement; `Board` against `ChessRules`;
`SerialPort` and `Chess` with the handshake, a game and its ending; `Mouse`, and `Input` that
implements it; `Pieces`; `Uart`; all safety invariants of the passing runs proved. Left:

1. `MovesAreChess` for keyboards without the animation key: `ProtocolInv` with the moves on the line
   being chess moves of the receiver's board, the orange squares being those of the dragged
   piece, and every pawn away from home marked by the time it may be picked up; then
   `MovesAgree`.
2. The step from `Pieces` to `Chess`: that `pawn_moved` and `moving` of `Chess` are what `Pieces` says.
