------------------------------ MODULE ChessProofs --------------------------------
(* For every queue capacity, FIFO depth, name length and choice of inputs, each   *)
(* handler of main.c keeps the state of its machine well formed; and what the     *)
(* operations of the port do to the bytes on their way between the machines.      *)
EXTENDS Protocol, SequenceTheorems, TLAPS

Bytes == 0 .. 255

----------------------------------------------------------------------------------
(* Queues *)

\* addToQueue never makes a queue longer than its capacity.
LEMMA AddBounded ==
  ASSUME NEW c \in Nat, NEW q \in BoundedSeq(Bytes, c), NEW item \in Bytes
  PROVE  addToQueue(q, c, item) \in BoundedSeq(Bytes, c)
<1>1. CASE queueIsFull(q, c)
  BY <1>1 DEF addToQueue
<1>2. CASE ~queueIsFull(q, c)
  <2>1. q \in Seq(Bytes) /\ Len(q) \in Nat /\ Len(q) < c
    BY <1>2 DEF queueIsFull, BoundedSeq
  <2>2. Append(q, item) \in Seq(Bytes) /\ Len(Append(q, item)) = Len(q) + 1
    BY <2>1
  <2>3. Append(q, item) \in BoundedSeq(Bytes, c)
    BY <2>1, <2>2 DEF BoundedSeq
  <2> QED BY <2>3, <1>2 DEF addToQueue
<1> QED BY <1>1, <1>2

\* A queue that is not empty has a first byte, and stays bounded without it.
LEMMA TailBounded ==
  ASSUME NEW c \in Nat, NEW q \in BoundedSeq(Bytes, c), q # << >>
  PROVE  Head(q) \in Bytes /\ Tail(q) \in BoundedSeq(Bytes, c)
<1>1. q \in Seq(Bytes) /\ Len(q) \in Nat /\ Len(q) <= c
  BY DEF BoundedSeq
<1>2. Head(q) \in Bytes /\ Tail(q) \in Seq(Bytes) /\ Len(Tail(q)) = Len(q) - 1
  BY <1>1, HeadTailProperties
<1> QED BY <1>1, <1>2 DEF BoundedSeq

\* What readFromQueue answers and leaves.
LEMMA ReadBounded ==
  ASSUME NEW c \in Nat, NEW q \in BoundedSeq(Bytes, c)
  PROVE  queueFront(q) \in Bytes /\ removed(q) \in BoundedSeq(Bytes, c)
BY TailBounded DEF queueFront, removed, queueIsEmpty, Bytes

\* The queues a machine starts with and those it empties.
LEMMA EmptyBounded ==
  ASSUME NEW c \in Nat
  PROVE  << >> \in BoundedSeq(Bytes, c)
BY EmptySeq DEF BoundedSeq

\* The transmitter holding register is a queue of one byte.
LEMMA OneBounded ==
  ASSUME NEW b \in Bytes
  PROVE  <<b>> \in BoundedSeq(Bytes, 1)
<1>1. <<b>> \in Seq(Bytes) /\ Len(<<b>>) = 1
  OBVIOUS
<1> QED BY <1>1 DEF BoundedSeq

----------------------------------------------------------------------------------
(* Records *)

\* A machine stays well formed when one of its variables gets a value of its type.
LEMMA SetField ==
  ASSUME NEW s \in VM
  PROVE  /\ \A x \in Phase : [s EXCEPT !.phase = x] \in VM
         /\ \A x \in GameState : [s EXCEPT !.gameState = x] \in VM
         /\ \A x \in 0 .. MAX_NAME_SIZE : [s EXCEPT !.name_size = x] \in VM
         /\ \A x \in BOOLEAN : [s EXCEPT !.pressed = x] \in VM
         /\ \A x \in {NOT_DECIDED, BLACK, WHITE} : [s EXCEPT !.player = x] \in VM
         /\ \A x \in BOOLEAN : [s EXCEPT !.myTurn = x] \in VM
         /\ \A x \in BOOLEAN : [s EXCEPT !.endGame = x] \in VM
         /\ \A x \in BOOLEAN : [s EXCEPT !.won = x] \in VM
         /\ \A x \in BOOLEAN : [s EXCEPT !.animation = x] \in VM
         /\ \A x \in [Square -> Ids \cup {NULL}] : [s EXCEPT !.board = x] \in VM
         /\ \A x \in Ids \cup {NULL} : [s EXCEPT !.dragging = x] \in VM
         /\ \A x \in Square : [s EXCEPT !.from = x] \in VM
         /\ \A x \in SUBSET Square : [s EXCEPT !.lit = x] \in VM
         /\ \A x \in 0 .. 1 : [s EXCEPT !.byteOfMove = x] \in VM
         /\ \A x \in Square : [s EXCEPT !.old = x] \in VM
         /\ \A x \in SUBSET Ids : [s EXCEPT !.pawn_moved = x] \in VM
         /\ \A x \in SUBSET Ids : [s EXCEPT !.moving = x] \in VM
         /\ \A x \in BoundedSeq(0 .. 255, QueueCapacity) : [s EXCEPT !.txq = x] \in VM
         /\ \A x \in BoundedSeq(0 .. 255, QueueCapacity) : [s EXCEPT !.rxq = x] \in VM
         /\ \A x \in BoundedSeq(0 .. 255, 1) : [s EXCEPT !.thr = x] \in VM
         /\ \A x \in BoundedSeq(0 .. 255, FifoDepth) : [s EXCEPT !.fifo = x] \in VM
<1>1. \A x \in Phase : [s EXCEPT !.phase = x] \in VM
  BY DEF VM
<1>2. \A x \in GameState : [s EXCEPT !.gameState = x] \in VM
  BY DEF VM
<1>3. \A x \in 0 .. MAX_NAME_SIZE : [s EXCEPT !.name_size = x] \in VM
  BY DEF VM
<1>4. \A x \in BOOLEAN : [s EXCEPT !.pressed = x] \in VM
  BY DEF VM
<1>5. \A x \in {NOT_DECIDED, BLACK, WHITE} : [s EXCEPT !.player = x] \in VM
  BY DEF VM
<1>6. \A x \in BOOLEAN : [s EXCEPT !.myTurn = x] \in VM
  BY DEF VM
<1>7. \A x \in BOOLEAN : [s EXCEPT !.endGame = x] \in VM
  BY DEF VM
<1>8. \A x \in BOOLEAN : [s EXCEPT !.won = x] \in VM
  BY DEF VM
<1>9. \A x \in BOOLEAN : [s EXCEPT !.animation = x] \in VM
  BY DEF VM
<1>10. \A x \in [Square -> Ids \cup {NULL}] : [s EXCEPT !.board = x] \in VM
  BY DEF VM
<1>11. \A x \in Ids \cup {NULL} : [s EXCEPT !.dragging = x] \in VM
  BY DEF VM
<1>12. \A x \in Square : [s EXCEPT !.from = x] \in VM
  BY DEF VM
<1>13. \A x \in SUBSET Square : [s EXCEPT !.lit = x] \in VM
  BY DEF VM
<1>14. \A x \in 0 .. 1 : [s EXCEPT !.byteOfMove = x] \in VM
  BY DEF VM
<1>15. \A x \in Square : [s EXCEPT !.old = x] \in VM
  BY DEF VM
<1>16. \A x \in SUBSET Ids : [s EXCEPT !.pawn_moved = x] \in VM
  BY DEF VM
<1>17. \A x \in SUBSET Ids : [s EXCEPT !.moving = x] \in VM
  BY DEF VM
<1>18. \A x \in BoundedSeq(0 .. 255, QueueCapacity) : [s EXCEPT !.txq = x] \in VM
  BY DEF VM
<1>19. \A x \in BoundedSeq(0 .. 255, QueueCapacity) : [s EXCEPT !.rxq = x] \in VM
  BY DEF VM
<1>20. \A x \in BoundedSeq(0 .. 255, 1) : [s EXCEPT !.thr = x] \in VM
  BY DEF VM
<1>21. \A x \in BoundedSeq(0 .. 255, FifoDepth) : [s EXCEPT !.fifo = x] \in VM
  BY DEF VM
<1> QED BY <1>1, <1>2, <1>3, <1>4, <1>5, <1>6, <1>7, <1>8, <1>9, <1>10, <1>11, <1>12, <1>13, <1>14, <1>15, <1>16, <1>17, <1>18, <1>19, <1>20, <1>21

----------------------------------------------------------------------------------
(* serialPort.c *)

\* sp_write moves a byte from the queue into the empty holding register.
LEMMA WriteType == ASSUME NEW s \in VM PROVE sp_write(s) \in VM
<1>1. QueueCapacity \in Nat /\ s.txq \in BoundedSeq(Bytes, QueueCapacity)
  BY SerialAssumption DEF VM, Bytes
<1>2. /\ <<queueFront(s.txq)>> \in BoundedSeq(0 .. 255, 1)
      /\ removed(s.txq) \in BoundedSeq(0 .. 255, QueueCapacity)
  BY <1>1, ReadBounded, OneBounded DEF Bytes
<1>3. [s EXCEPT !.thr = <<queueFront(s.txq)>>, !.txq = removed(s.txq)] \in VM
  BY <1>2, SetField
<1> QED BY <1>3 DEF sp_write

\* sp_read takes a byte out of the UART, whether or not the queue has room for it.
LEMMA ReadType == ASSUME NEW s \in VM PROVE sp_read(s) \in VM
<1>1. /\ QueueCapacity \in Nat /\ FifoDepth \in Nat
      /\ s.rxq \in BoundedSeq(Bytes, QueueCapacity) /\ s.fifo \in BoundedSeq(Bytes, FifoDepth)
  BY SerialAssumption DEF VM, Bytes
<1>2. CASE sp_check_read(s)
  <2>1. Head(s.fifo) \in Bytes /\ Tail(s.fifo) \in BoundedSeq(Bytes, FifoDepth)
    BY <1>1, <1>2, TailBounded DEF sp_check_read
  <2>2. addToQueue(s.rxq, QueueCapacity, Head(s.fifo)) \in BoundedSeq(Bytes, QueueCapacity)
    BY <1>1, <2>1, AddBounded
  <2>3. [s EXCEPT !.rxq = addToQueue(s.rxq, QueueCapacity, Head(s.fifo)),
                  !.fifo = Tail(s.fifo)] \in VM
    BY <2>1, <2>2, SetField DEF Bytes
  <2> QED BY <1>2, <2>3 DEF sp_read
<1>3. CASE ~sp_check_read(s)
  BY <1>3 DEF sp_read
<1> QED BY <1>2, <1>3

\* The serial port part of one turn of the main loop.
LEMMA SerialPartType == ASSUME NEW s \in VM, NEW irqs PROVE serialPart(s, irqs) \in VM
<1>1. sp_ih(s) \in VM
  BY ReadType, WriteType DEF sp_ih
<1>2. (IF "sp" \in irqs THEN sp_ih(s) ELSE s) \in VM
  BY <1>1
<1> QED BY <1>2, ReadType, WriteType DEF serialPart

\* sp_clear leaves both receive buffers empty.
LEMMA ClearType == ASSUME NEW s \in VM PROVE sp_clear(s) \in VM
<1>1. << >> \in BoundedSeq(0 .. 255, QueueCapacity) /\ << >> \in BoundedSeq(0 .. 255, FifoDepth)
  BY SerialAssumption, EmptyBounded DEF Bytes
<1> QED BY <1>1, SetField DEF sp_clear

\* addToTransmitQueue never overflows the transmit queue.
LEMMA TransmitType ==
  ASSUME NEW s \in VM, NEW data \in Bytes
  PROVE  addToTransmitQueue(s, data) \in VM
<1>1. QueueCapacity \in Nat /\ s.txq \in BoundedSeq(Bytes, QueueCapacity)
  BY SerialAssumption DEF VM, Bytes
<1>2. addToQueue(s.txq, QueueCapacity, data) \in BoundedSeq(0 .. 255, QueueCapacity)
  BY <1>1, AddBounded DEF Bytes
<1> QED BY <1>2, SetField DEF addToTransmitQueue

\* readFromQueue answers a byte and shortens the receive queue.
LEMMA AfterReadType ==
  ASSUME NEW s \in VM
  PROVE  afterRead(s) \in VM /\ queueFront(s.rxq) \in Bytes
<1>1. QueueCapacity \in Nat /\ s.rxq \in BoundedSeq(Bytes, QueueCapacity)
  BY SerialAssumption DEF VM, Bytes
<1>2. queueFront(s.rxq) \in Bytes /\ removed(s.rxq) \in BoundedSeq(0 .. 255, QueueCapacity)
  BY <1>1, ReadBounded DEF Bytes
<1> QED BY <1>2, SetField DEF afterRead

\* A byte of the wire lands in the FIFO of the UART or is lost.
LEMMA ReceivedType ==
  ASSUME NEW s \in VM, NEW byte \in Bytes
  PROVE  received(s, byte) \in VM
<1>1. FifoDepth \in Nat /\ s.fifo \in BoundedSeq(Bytes, FifoDepth)
  BY SerialAssumption DEF VM, Bytes
<1>2. addToQueue(s.fifo, FifoDepth, byte) \in BoundedSeq(0 .. 255, FifoDepth)
  BY <1>1, AddBounded DEF Bytes
<1> QED BY <1>2, SetField DEF received

----------------------------------------------------------------------------------
(* The screens before the game *)

\* The protocol's constants are bytes and screens.
LEMMA Constants ==
  /\ VM_CONNECTED \in Bytes /\ RECEIVE_VM_CONNECTED \in Bytes
  /\ BEGIN_MESSAGE \in Bytes /\ YOUR_TURN \in Bytes
  /\ WHITE \in Bytes /\ BLACK \in Bytes
  /\ {"START", "WAITING", "PLAYING", "CHOOSING_PLAYER", "WAIT_CHOOSING_PLAYER", "EXIT"} \subseteq GameState
  /\ {"run", "spin", "closing", "done", "crashed"} \subseteq Phase
BY DEF VM_CONNECTED, RECEIVE_VM_CONNECTED, BEGIN_MESSAGE, YOUR_TURN, WHITE, BLACK, Bytes,
       GameState, Phase

\* The name never outgrows its buffer.
LEMMA NameType == ASSUME NEW s \in VM, NEW code PROVE name_choice_ih(s, code) \in VM
<1>1. s.name_size \in 0 .. MAX_NAME_SIZE /\ MAX_NAME_SIZE \in Nat
  BY ChessAssumption DEF VM
<1>2. s.name_size > 0 => [s EXCEPT !.name_size = s.name_size - 1] \in VM
  <2>1. s.name_size > 0 => s.name_size - 1 \in 0 .. MAX_NAME_SIZE
    BY <1>1
  <2> QED BY <2>1, SetField
<1>3. s.name_size < MAX_NAME_SIZE => [s EXCEPT !.name_size = s.name_size + 1] \in VM
  <2>1. s.name_size < MAX_NAME_SIZE => s.name_size + 1 \in 0 .. MAX_NAME_SIZE
    BY <1>1
  <2> QED BY <2>1, SetField
<1>4. [addToTransmitQueue(sp_clear(s), VM_CONNECTED) EXCEPT !.gameState = "WAITING"] \in VM
  <2>1. addToTransmitQueue(sp_clear(s), VM_CONNECTED) \in VM
    BY ClearType, TransmitType, Constants
  <2> QED BY <2>1, SetField, Constants
<1> QED BY <1>2, <1>3, <1>4 DEF name_choice_ih

\* The waiting screen and its answer to a greeting.
LEMMA WaitingType == ASSUME NEW s \in VM PROVE waiting_ih(s) \in VM
<1> DEFINE t == afterRead(s)
<1>1. t \in VM
  BY AfterReadType
<1>2. addToTransmitQueue(t, RECEIVE_VM_CONNECTED) \in VM
  BY <1>1, TransmitType, Constants
<1>3. [addToTransmitQueue(t, RECEIVE_VM_CONNECTED) EXCEPT !.gameState = "CHOOSING_PLAYER"] \in VM
  BY <1>2, SetField, Constants
<1>4. [t EXCEPT !.gameState = "WAIT_CHOOSING_PLAYER"] \in VM
  BY <1>1, SetField, Constants
<1> QED BY <1>1, <1>3, <1>4 DEF waiting_ih

\* The choice of a colour.
LEMMA ChoosingType == ASSUME NEW s \in VM, NEW x, NEW y PROVE choosing_ih(s, x, y) \in VM
<1> DEFINE colour == playerButton(x, y)
           t == addToTransmitQueue(s, opposite(colour))
<1>1. colour \in {NOT_DECIDED, BLACK, WHITE}
  BY DEF playerButton
<1>2. t \in VM
  BY TransmitType, Constants DEF opposite
<1>3. (colour = WHITE) \in BOOLEAN
  OBVIOUS
<1> HIDE DEF t
<1>4. [t EXCEPT !.player = colour, !.gameState = "PLAYING", !.myTurn = (colour = WHITE)] \in VM
  BY <1>1, <1>2, <1>3, SetField, Constants
<1> QED BY <1>4 DEF choosing_ih, t

\* The colour received from the chooser.
LEMMA WaitingChoosingType == ASSUME NEW s \in VM PROVE waiting_choosing_ih(s) \in VM
<1> DEFINE t == sp_read(s)
           white == queueFront(t.rxq) = WHITE
           u == afterRead(t)
<1>1. u \in VM
  BY ReadType, AfterReadType
<1>2. white \in BOOLEAN /\ (IF white THEN WHITE ELSE BLACK) \in {NOT_DECIDED, BLACK, WHITE}
  OBVIOUS
<1> HIDE DEF u, white
<1>3. [u EXCEPT !.myTurn = white, !.player = IF white THEN WHITE ELSE BLACK,
                !.gameState = "PLAYING"] \in VM
  BY <1>1, <1>2, SetField, Constants
<1> QED BY <1>1, <1>3 DEF waiting_choosing_ih, u, white

----------------------------------------------------------------------------------
(* The game *)

\* Every pair of board coordinates is an index of the 64 pointers.
LEMMA PositionLemma ==
  ASSUME NEW x \in 0 .. 7, NEW y \in 0 .. 7
  PROVE  get_position(x, y) \in Square
BY DEF get_position, Square

\* Whatever byte arrives, the position it stands for is a square of the board.
LEMMA DecodeLemma == ASSUME NEW byte \in Bytes PROVE decode(byte) \in Square
<1>1. (byte \div 8) % 8 \in 0 .. 7 /\ byte % 8 \in 0 .. 7
  BY DEF Bytes
<1> QED BY <1>1, PositionLemma DEF decode

\* A position on the wire is a byte, below every control byte of the protocol.
LEMMA EncodeLemma == ASSUME NEW sq \in Square PROVE encode(sq) \in 0 .. 63
<1>1. sq % 8 \in 0 .. 7 /\ sq \div 8 \in 0 .. 7
  BY DEF Square
<1> QED BY <1>1 DEF encode, Col, Row

\* draw_rectangle paints squares of the board only.
LEMMA PossibleLemma ==
  ASSUME NEW board, NEW moved, NEW id, NEW x, NEW y
  PROVE  possiblePosition(board, moved, id, x, y) \subseteq Square
<1>1. ASSUME NEW squares PROVE paint(squares) \subseteq Square
  BY PositionLemma DEF paint, draw_rectangle
<1> QED BY <1>1 DEF possiblePosition

\* movePiece puts pieces, and nothing else, among the moving ones.
LEMMA MovePieceType == ASSUME NEW s \in VM, NEW id \in Ids PROVE movePiece(s, id) \in VM
<1> DEFINE m == IF isPawn(id) /\ id \notin s.pawn_moved THEN s.moving \cup {id} ELSE s.moving
<1>1. s.moving \in SUBSET Ids
  BY DEF VM
<1>2. m \in SUBSET Ids
  BY <1>1
<1> HIDE DEF m
<1>3. [s EXCEPT !.moving = m] \in VM
  BY <1>2, SetField
<1> QED BY <1>3 DEF movePiece, m

\* A frame of the animation.
LEMMA UpdateBoardType == ASSUME NEW s \in VM PROVE updateBoard(s) \in VM
<1> DEFINE advancing == {id \in s.moving : \E sq \in Square : s.board[sq] = id}
           m == s.moving \ advancing
           q == IF s.animation THEN s.pawn_moved \cup advancing ELSE s.pawn_moved
<1>1. s.moving \in SUBSET Ids /\ s.pawn_moved \in SUBSET Ids
  BY DEF VM
<1>2. m \in SUBSET Ids /\ q \in SUBSET Ids
  BY <1>1
<1> HIDE DEF m, q
<1>3. [s EXCEPT !.moving = m, !.pawn_moved = q] \in VM
  BY <1>2, SetField
<1> QED BY <1>3 DEF updateBoard, m, q

\* A received move, well formed or not, leaves a board of pieces.
LEMMA PlayReceivedType ==
  ASSUME NEW s \in VM, NEW sq \in Square
  PROVE  playReceived(s, sq) \in VM
<1>1. /\ s.board \in [Square -> Ids \cup {NULL}] /\ s.old \in Square
      /\ s.gameState \in GameState /\ s.won \in BOOLEAN
  BY DEF VM
<1>2. CASE s.board[s.old] = NULL
  <2>1. [s EXCEPT !.phase = "crashed"] \in VM
    BY SetField, Constants
  <2> QED BY <1>2, <2>1 DEF playReceived
<1>3. CASE s.board[s.old] # NULL
  <2> DEFINE t == movePiece(s, s.board[s.old])
             g == IF kingAt(s.board, sq) THEN "EXIT" ELSE s.gameState
             w == IF kingAt(s.board, sq) THEN FALSE ELSE s.won
             b == put(s.board, s.old, sq)
  <2>1. s.board[s.old] \in Ids
    BY <1>1, <1>3
  <2>2. t \in VM
    BY <2>1, MovePieceType
  <2>3. g \in GameState
    BY <1>1, Constants
  <2>4. w \in BOOLEAN
    BY <1>1
  <2>5. b \in [Square -> Ids \cup {NULL}]
    BY <1>1, <2>1 DEF put
  <2> HIDE DEF t, g, w, b
  <2>6. [t EXCEPT !.gameState = g, !.won = w, !.board = b] \in VM
    BY <2>2, <2>3, <2>4, <2>5, SetField
  <2> QED BY <1>3, <2>6 DEF playReceived, t, g, w, b
<1> QED BY <1>2, <1>3

\* A frame of the game: at most one byte, whatever it is.
LEMMA FrameType == ASSUME NEW s \in VM PROVE playing_frame(s) \in VM
<1> DEFINE byte == queueFront(s.rxq)
           t == afterRead(updateBoard(s))
<1>1. t \in VM
  BY UpdateBoardType, AfterReadType
<1>2. decode(byte) \in Square
  BY AfterReadType, DecodeLemma
<1> HIDE DEF byte, t
<1>b. PICK zero \in 0 .. 1, one \in 0 .. 1 : zero = 0 /\ one = 1
  OBVIOUS
<1>3. [t EXCEPT !.byteOfMove = 0] \in VM
  <2>1. [t EXCEPT !.byteOfMove = zero] \in VM
    BY <1>1, SetField
  <2> QED BY <2>1, <1>b
<1>4. [t EXCEPT !.myTurn = TRUE] \in VM
  BY <1>1, SetField
<1>5. [t EXCEPT !.old = decode(byte), !.byteOfMove = 1] \in VM
  <2>1. [t EXCEPT !.old = decode(byte), !.byteOfMove = one] \in VM
    BY <1>1, <1>2, SetField
  <2> QED BY <2>1, <1>b
<1>6. playReceived(t, decode(byte)) \in VM
  BY <1>1, <1>2, PlayReceivedType
<1> QED BY <1>1, <1>3, <1>4, <1>5, <1>6 DEF playing_frame, byte, t

\* The key that switches the animation.
LEMMA KeyType == ASSUME NEW s \in VM, NEW code PROVE playing_key(s, code) \in VM
<1>1. (~s.animation) \in BOOLEAN
  OBVIOUS
<1>2. [s EXCEPT !.animation = ~s.animation] \in VM
  BY <1>1, SetField
<1> QED BY <1>2 DEF playing_key

\* A press: only a piece of the board is ever dragged, from a square of the board.
LEMMA PickUpType == ASSUME NEW s \in VM, NEW x, NEW y PROVE pickUp(s, x, y) \in VM
<1> DEFINE sq == get_position(getBoardX(x), getBoardY(y))
           l == possiblePosition(s.board, s.board[sq] \in s.pawn_moved,
                                 s.board[sq], getBoardX(x), getBoardY(y))
           c == /\ s.pressed /\ s.myTurn
                /\ onBoard(getBoardX(x), getBoardY(y))
                /\ s.board[sq] # NULL /\ ownPiece(s, s.board[sq])
<1>1. CASE c
  <2>1. sq \in Square
    BY <1>1, PositionLemma DEF onBoard
  <2>2. s.board[sq] \in Ids \cup {NULL}
    BY <2>1 DEF VM
  <2>3. l \in SUBSET Square
    BY PossibleLemma
  <2> HIDE DEF sq, l
  <2>4. [s EXCEPT !.dragging = s.board[sq], !.from = sq, !.lit = l] \in VM
    BY <2>1, <2>2, <2>3, SetField
  <2> QED BY <1>1, <2>4 DEF pickUp, sq, l
<1>2. CASE ~c
  BY <1>2 DEF pickUp
<1> QED BY <1>1, <1>2

\* The four bytes of a move.
LEMMA SendMoveType ==
  ASSUME NEW s \in VM, NEW a \in Square, NEW b \in Square
  PROVE  sendMove(s, a, b) \in VM
<1>1. encode(a) \in Bytes /\ encode(b) \in Bytes
  BY EncodeLemma DEF Bytes
<1>2. addToTransmitQueue(s, BEGIN_MESSAGE) \in VM
  BY TransmitType, Constants
<1>3. addToTransmitQueue(addToTransmitQueue(s, BEGIN_MESSAGE), encode(a)) \in VM
  BY <1>1, <1>2, TransmitType
<1>4. addToTransmitQueue(addToTransmitQueue(addToTransmitQueue(s, BEGIN_MESSAGE), encode(a)),
                         encode(b)) \in VM
  BY <1>1, <1>3, TransmitType
<1> QED BY <1>4, TransmitType, Constants DEF sendMove

\* A release of a dragged piece.
LEMMA DropType ==
  ASSUME NEW s \in VM, s.dragging # NULL, NEW x, NEW y
  PROVE  drop(s, x, y) \in VM
<1> DEFINE sq == get_position(getBoardX(x), getBoardY(y))
           moves == onBoard(getBoardX(x), getBoardY(y)) /\ accepts(s.board, s.lit, s.dragging, sq)
           u == sendMove(movePiece(s, s.dragging), s.from, sq)
           e == s.endGame \/ kingAt(s.board, sq)
           b == [s.board EXCEPT ![s.from] = NULL, ![sq] = s.dragging]
           t == IF moves THEN [u EXCEPT !.endGame = e, !.board = b, !.myTurn = FALSE] ELSE s
<1>1. /\ s.board \in [Square -> Ids \cup {NULL}] /\ s.from \in Square
      /\ s.dragging \in Ids
  BY DEF VM
<1>2. t \in VM
  <2>1. CASE moves
    <3>1. sq \in Square
      BY <2>1, PositionLemma DEF onBoard
    <3>2. u \in VM
      BY <1>1, <3>1, MovePieceType, SendMoveType
    <3>3. e \in BOOLEAN
      OBVIOUS
    <3>4. b \in [Square -> Ids \cup {NULL}]
      BY <1>1, <3>1
    <3> HIDE DEF u, e, b
    <3>5. [u EXCEPT !.endGame = e, !.board = b, !.myTurn = FALSE] \in VM
      BY <3>2, <3>3, <3>4, SetField
    <3> QED BY <2>1, <3>5
  <2>2. CASE ~moves
    BY <2>2
  <2> QED BY <2>1, <2>2
<1>3. [t EXCEPT !.dragging = NULL, !.lit = {}] \in VM
  <2> HIDE DEF t
  <2> QED BY <1>2, SetField
<1> QED BY <1>3 DEF drop

\* A mouse event of the game.
LEMMA MouseType ==
  ASSUME NEW s \in VM, NEW x, NEW y, NEW released
  PROVE  playing_mouse(s, x, y, released) \in VM
<1> DEFINE t == IF s.dragging = NULL THEN pickUp(s, x, y) ELSE s
<1>1. t \in VM
  BY PickUpType
<1> HIDE DEF t
<1>2. t.dragging # NULL => drop(t, x, y) \in VM
  BY <1>1, DropType
<1> QED BY <1>1, <1>2 DEF playing_mouse, t

\* The end of a won game.
LEMMA NoteEndType == ASSUME NEW s \in VM PROVE noteEnd(s) \in VM
<1>1. [s EXCEPT !.won = TRUE, !.gameState = "EXIT"] \in VM
  BY SetField, Constants
<1> QED BY <1>1 DEF noteEnd

----------------------------------------------------------------------------------
(* The main loop and the actions *)

\* One turn of the main loop, with any interrupts and any input.
LEMMA IterationType ==
  ASSUME NEW s \in VM, NEW irqs, NEW code, NEW spot, NEW lb \in BOOLEAN
  PROVE  iteration(s, irqs, code, spot, lb) \in VM
<1>1. ASSUME NEW t \in VM PROVE onKeyboard(t, code) \in VM
  BY NameType, KeyType, NoteEndType DEF onKeyboard
<1>2. ASSUME NEW t \in VM PROVE onMouse(t, spot[1], spot[2], lb) \in VM
  <2>1. [t EXCEPT !.pressed = lb] \in VM
    BY SetField
  <2> QED BY <2>1, ChoosingType, MouseType, NoteEndType DEF onMouse
<1>3. ASSUME NEW t \in VM PROVE onNewFrame(t) \in VM
  BY WaitingType, WaitingChoosingType, FrameType, NoteEndType DEF onNewFrame
<1> DEFINE afterSerial == serialPart(s, irqs)
           afterKey == IF "kb" \in irqs THEN onKeyboard(afterSerial, code) ELSE afterSerial
           afterMouse == IF "mouse" \in irqs THEN onMouse(afterKey, spot[1], spot[2], lb)
                         ELSE afterKey
<1>4. afterSerial \in VM
  BY SerialPartType
<1> HIDE DEF afterSerial
<1>5. afterKey \in VM
  BY <1>1, <1>4
<1> HIDE DEF afterKey
<1>6. afterMouse \in VM
  BY <1>2, <1>5
<1> HIDE DEF afterMouse
<1> QED BY <1>3, <1>6 DEF iteration, afterSerial, afterKey, afterMouse

HistType == [choosers : SUBSET Peer, corner : BOOLEAN, flushed : BOOLEAN]

\* The history stays history.
LEMMA RecordType ==
  ASSUME hist \in HistType, NEW flushes \in BOOLEAN, Record(flushes)
  PROVE  hist' \in HistType
BY DEF Record, HistType

\* The machines as they are switched on.
LEMMA InitType == Init => TypeOK
<1>1. /\ << >> \in BoundedSeq(0 .. 255, QueueCapacity) /\ << >> \in BoundedSeq(0 .. 255, FifoDepth)
      /\ << >> \in BoundedSeq(0 .. 255, 1)
  BY SerialAssumption, EmptyBounded DEF Bytes
<1>2. initBoard \in [Square -> Ids \cup {NULL}]
  BY DEF initBoard
<1>3. 0 \in 0 .. MAX_NAME_SIZE /\ 0 \in Square /\ 0 \in 0 .. 1
  BY ChessAssumption DEF Square
<1>4. started \in VM
  BY <1>1, <1>2, <1>3, Constants DEF started, VM
<1> QED BY <1>4 DEF Init, TypeOK

\* Every step of either machine, of the line, or of the code after the loop.
LEMMA NextType == TypeOK /\ [Next]_vars => TypeOK'
<1> SUFFICES ASSUME TypeOK, [Next]_vars PROVE TypeOK'
  OBVIOUS
<1>1. vm \in [Peer -> VM] /\ hist \in HistType
  BY DEF TypeOK, HistType
<1>2. ASSUME vm' \in [Peer -> VM], NEW flushes \in BOOLEAN, Record(flushes) PROVE TypeOK'
  BY <1>1, <1>2, RecordType DEF TypeOK, HistType
<1>3. ASSUME NEW p \in Peer, NEW irqs, NEW code, NEW spot, NEW lb \in BOOLEAN,
             MainLoop(p, irqs, code, spot, lb)
      PROVE  TypeOK'
  <2>1. iteration(vm[p], irqs, code, spot, lb) \in VM
    BY <1>1, IterationType
  <2>2. vm' \in [Peer -> VM]
    BY <1>1, <1>3, <2>1 DEF MainLoop
  <2> QED BY <1>2, <1>3, <2>2 DEF MainLoop
<1>4. ASSUME NEW p \in Peer, Deliver(p) PROVE TypeOK'
  <2>1. vm[p] \in VM /\ vm[Other(p)] \in VM /\ Other(p) \in Peer
    BY <1>1 DEF Peer, Other
  <2>2. Head(vm[p].thr) \in Bytes
    <3>1. vm[p].thr \in BoundedSeq(Bytes, 1) /\ vm[p].thr # << >>
      BY <2>1, <1>4 DEF VM, Bytes, Deliver
    <3> QED BY <3>1, TailBounded
  <2>3. received(vm[Other(p)], Head(vm[p].thr)) \in VM
    BY <2>1, <2>2, ReceivedType
  <2>4. [vm[p] EXCEPT !.thr = << >>] \in VM
    <3>1. << >> \in BoundedSeq(0 .. 255, 1)
      BY EmptyBounded DEF Bytes
    <3> QED BY <3>1, <2>1, SetField
  <2>5. vm' = [[vm EXCEPT ![p] = [vm[p] EXCEPT !.thr = << >>]]
                 EXCEPT ![Other(p)] = received(vm[Other(p)], Head(vm[p].thr))]
    BY <1>1, <1>4 DEF Deliver
  <2>6. vm' \in [Peer -> VM]
    BY <1>1, <2>3, <2>4, <2>5
  <2> QED BY <1>2, <1>4, <2>6 DEF Deliver
<1>5. ASSUME NEW p \in Peer, NEW sent \in BOOLEAN, LeaveLoop(p, sent) PROVE TypeOK'
  <2> DEFINE u == sp_configure_end(vm[p], sent)
  <2>1. vm[p] \in VM
    BY <1>1
  <2>2. u \in VM
    <3> DEFINE th == IF sent THEN vm[p].thr ELSE << >>
    <3>1. << >> \in BoundedSeq(0 .. 255, 1) /\ << >> \in BoundedSeq(0 .. 255, FifoDepth)
      BY EmptyBounded, SerialAssumption DEF Bytes
    <3>2. th \in BoundedSeq(0 .. 255, 1)
      BY <2>1, <3>1 DEF VM
    <3> HIDE DEF th
    <3>3. [vm[p] EXCEPT !.fifo = << >>, !.thr = th] \in VM
      BY <2>1, <3>1, <3>2, SetField
    <3> QED BY <3>3 DEF sp_configure_end, th
  <2> HIDE DEF u
  <2>3. [sp_clear(u) EXCEPT !.phase = "closing"] \in VM
    BY <2>2, ClearType, SetField, Constants
  <2>4. [vm[p] EXCEPT !.phase = "spin"] \in VM
    BY <2>1, SetField, Constants
  <2>5. vm' \in [Peer -> VM]
    BY <1>1, <1>5, <2>3, <2>4 DEF LeaveLoop, u
  <2> QED BY <1>2, <1>5, <2>5 DEF LeaveLoop
<1>6. ASSUME NEW p \in Peer, Close(p) PROVE TypeOK'
  <2>1. vm[p] \in VM
    BY <1>1
  <2>2. [vm[p] EXCEPT !.phase = "done"] \in VM /\ sp_write(vm[p]) \in VM
    BY <2>1, SetField, Constants, WriteType
  <2>3. vm' \in [Peer -> VM]
    BY <1>1, <1>6, <2>2 DEF Close
  <2> QED BY <1>2, <1>6, <2>3 DEF Close
<1>7. CASE UNCHANGED vars
  BY <1>7 DEF vars, TypeOK
<1> QED BY <1>3, <1>4, <1>5, <1>6, <1>7 DEF Next

\* Whatever bytes arrive in whatever order, on two machines of any speed, with any
\* input: every index into the board is one of its 64 squares, the name fits its
\* buffer, no queue outgrows its capacity and only pieces are dragged.
THEOREM ChessTypeOK == Spec => []TypeOK
BY InitType, NextType, PTL DEF Spec

----------------------------------------------------------------------------------
(* The line: the bytes on their way from one machine to the other are one         *)
(* sequence, whichever of the four buffers each is in. What every operation of    *)
(* serialPort.c does to that sequence, and to the part of the script it holds.    *)

(* The script *)

\* A queue with a part of the script has its next byte in front, and holds the rest
\* once that is read.
LEMMA CarriesNext ==
  ASSUME NEW q \in Seq(Bytes), q # << >>, NEW lo \in 0 .. 7, NEW hi \in 0 .. 7,
         NEW colour, NEW x, NEW y, Carries(q, lo, hi, colour, x, y)
  PROVE  /\ lo < hi
         /\ Head(q) = wire(lo + 1, colour, x, y)
         /\ Carries(Tail(q), lo + 1, hi, colour, x, y)
<1>1. Len(q) \in Nat \ {0} /\ Len(q) = hi - lo
  BY EmptySeq DEF Carries
<1>2. \A k \in 1 .. Len(q) : q[k] = wire(lo + k, colour, x, y)
  BY DEF Carries
<1>3. Head(q) = q[1]
  BY <1>1
<1>4. /\ Len(Tail(q)) = Len(q) - 1
      /\ \A k \in 1 .. Len(Tail(q)) : Tail(q)[k] = q[k + 1]
  BY HeadTailProperties
<1>5. ASSUME NEW k \in 1 .. Len(Tail(q)) PROVE Tail(q)[k] = wire((lo + 1) + k, colour, x, y)
  <2>1. k + 1 \in 1 .. Len(q) /\ lo + (k + 1) = (lo + 1) + k
    BY <1>1, <1>4
  <2>2. q[k + 1] = wire(lo + (k + 1), colour, x, y)
    BY <2>1, <1>2
  <2> QED BY <2>1, <2>2, <1>4
<1>6. Len(Tail(q)) = hi - (lo + 1)
  BY <1>1, <1>4
<1>7. 1 \in 1 .. Len(q) /\ lo < hi
  BY <1>1
<1> QED BY <1>2, <1>3, <1>5, <1>6, <1>7 DEF Carries

\* The part of the script is empty when the queue is.
LEMMA CarriesNone ==
  ASSUME NEW q \in Seq(Bytes), NEW lo \in 0 .. 7, NEW hi \in 0 .. 7,
         NEW colour, NEW x, NEW y, Carries(q, lo, hi, colour, x, y)
  PROVE  (q = << >> <=> lo = hi) /\ lo <= hi /\ Len(q) = hi - lo /\ Len(q) <= 7
<1>1. Len(q) \in Nat /\ Len(q) = hi - lo
  BY DEF Carries
<1>2. q = << >> <=> Len(q) = 0
  BY EmptySeq
<1> QED BY <1>1, <1>2

\* An empty queue holds an empty part of any script.
LEMMA CarriesEmpty ==
  ASSUME NEW q \in Seq(Bytes), q = << >>, NEW lo \in 0 .. 7, NEW colour, NEW x, NEW y
  PROVE  Carries(q, lo, lo, colour, x, y)
<1>1. Len(q) = 0
  BY EmptySeq
<1> QED BY <1>1 DEF Carries

\* The next byte of the script is sent.
LEMMA CarriesAppend ==
  ASSUME NEW q \in Seq(Bytes), NEW lo \in 0 .. 7, NEW hi \in 0 .. 6,
         NEW colour, NEW x, NEW y, Carries(q, lo, hi, colour, x, y),
         NEW b \in Bytes, b = wire(hi + 1, colour, x, y)
  PROVE  Append(q, b) \in Seq(Bytes) /\ Carries(Append(q, b), lo, hi + 1, colour, x, y)
<1>1. Len(q) \in Nat /\ Len(q) = hi - lo
  BY DEF Carries
<1>2. \A k \in 1 .. Len(q) : q[k] = wire(lo + k, colour, x, y)
  BY DEF Carries
<1>3. /\ Append(q, b) \in Seq(Bytes)
      /\ Len(Append(q, b)) = Len(q) + 1
      /\ \A i \in 1 .. Len(q) : Append(q, b)[i] = q[i]
      /\ Append(q, b)[Len(q) + 1] = b
  BY AppendProperties
<1>4. ASSUME NEW k \in 1 .. Len(Append(q, b))
      PROVE  Append(q, b)[k] = wire(lo + k, colour, x, y)
  <2>1. CASE k = Len(q) + 1
    <3>1. lo + k = hi + 1
      BY <1>1, <2>1
    <3> QED BY <3>1, <2>1, <1>3
  <2>2. CASE k # Len(q) + 1
    <3>1. k \in 1 .. Len(q)
      BY <1>1, <1>3, <2>2
    <3> QED BY <3>1, <1>2, <1>3
  <2> QED BY <2>1, <2>2
<1>5. Len(Append(q, b)) = (hi + 1) - lo
  BY <1>1, <1>3
<1> QED BY <1>3, <1>4, <1>5 DEF Carries

\* Before they are sent, the colour and the move may still be any.
LEMMA CarriesAny ==
  ASSUME NEW q \in Seq(Bytes), NEW lo \in 0 .. 7, NEW hi \in 0 .. 3,
         NEW colour, NEW x, NEW y, NEW colour2, NEW x2, NEW y2,
         Carries(q, lo, hi, colour, x, y), hi <= 2 \/ colour = colour2
  PROVE  Carries(q, lo, hi, colour2, x2, y2)
<1>1. Len(q) \in Nat /\ Len(q) = hi - lo
  BY DEF Carries
<1>2. ASSUME NEW k \in 1 .. Len(q) PROVE q[k] = wire(lo + k, colour2, x2, y2)
  <2>1. q[k] = wire(lo + k, colour, x, y)
    BY DEF Carries
  <2>2. lo + k \in 1 .. hi
    BY <1>1
  <2>3. wire(lo + k, colour, x, y) = wire(lo + k, colour2, x2, y2)
    BY <2>2 DEF wire
  <2> QED BY <2>1, <2>3
<1> QED BY <1>1, <1>2 DEF Carries

\* Once the colour has been read it no longer matters.
LEMMA CarriesLate ==
  ASSUME NEW q \in Seq(Bytes), NEW lo \in 3 .. 7, NEW hi \in 0 .. 7,
         NEW colour, NEW x, NEW y, NEW colour2,
         Carries(q, lo, hi, colour, x, y)
  PROVE  Carries(q, lo, hi, colour2, x, y)
<1>1. Len(q) \in Nat /\ Len(q) = hi - lo
  BY DEF Carries
<1>2. ASSUME NEW k \in 1 .. Len(q) PROVE q[k] = wire(lo + k, colour2, x, y)
  <2>1. q[k] = wire(lo + k, colour, x, y)
    BY DEF Carries
  <2>2. lo + k \in 4 .. 7
    BY <1>1
  <2>3. wire(lo + k, colour, x, y) = wire(lo + k, colour2, x, y)
    BY <2>2 DEF wire
  <2> QED BY <2>1, <2>3
<1> QED BY <1>1, <1>2 DEF Carries

\* A queue whose first bytes are thrown away holds a later part of the script.
LEMMA CarriesSuffix ==
  ASSUME NEW p \in Seq(Bytes), NEW q \in Seq(Bytes), NEW lo \in 0 .. 7, NEW hi \in 0 .. 7,
         NEW colour, NEW x, NEW y, Carries(p \o q, lo, hi, colour, x, y)
  PROVE  \E low \in lo .. hi : Carries(q, low, hi, colour, x, y)
<1>1. /\ Len(p) \in Nat /\ Len(q) \in Nat /\ Len(p \o q) = Len(p) + Len(q)
      /\ \A i \in 1 .. Len(p) + Len(q) :
           (p \o q)[i] = IF i <= Len(p) THEN p[i] ELSE q[i - Len(p)]
  BY ConcatProperties, LenProperties
<1>2. Len(p \o q) = hi - lo /\ \A k \in 1 .. Len(p \o q) : (p \o q)[k] = wire(lo + k, colour, x, y)
  BY DEF Carries
<1> DEFINE low == lo + Len(p)
<1>3. low \in lo .. hi /\ Len(q) = hi - low
  BY <1>1, <1>2
<1>4. ASSUME NEW k \in 1 .. Len(q) PROVE q[k] = wire(low + k, colour, x, y)
  <2>1. /\ Len(p) + k \in 1 .. Len(p) + Len(q) /\ ~(Len(p) + k <= Len(p))
        /\ (Len(p) + k) - Len(p) = k /\ lo + (Len(p) + k) = low + k
    BY <1>1
  <2>2. (p \o q)[Len(p) + k] = q[k]
    BY <2>1, <1>1
  <2>3. (p \o q)[Len(p) + k] = wire(lo + (Len(p) + k), colour, x, y)
    BY <2>1, <1>1, <1>2
  <2> QED BY <2>1, <2>2, <2>3
<1>5. Carries(q, low, hi, colour, x, y)
  BY <1>3, <1>4 DEF Carries
<1> QED BY <1>3, <1>5

----------------------------------------------------------------------------------
(* The line *)

\* The four buffers are sequences of bytes.
LEMMA BufferTypes ==
  ASSUME NEW m \in VM
  PROVE  /\ m.rxq \in Seq(Bytes) /\ m.fifo \in Seq(Bytes)
         /\ m.thr \in Seq(Bytes) /\ m.txq \in Seq(Bytes)
         /\ Len(m.thr) <= 1
BY DEF VM, BoundedSeq, Bytes

\* What is on its way is longer than each of its parts.
LEMMA LineType ==
  ASSUME NEW r \in VM, NEW s \in VM
  PROVE  /\ bytesTo(r, s) \in Seq(Bytes)
         /\ Len(bytesTo(r, s)) \in Nat
         /\ Len(r.rxq) <= Len(bytesTo(r, s)) /\ Len(r.fifo) <= Len(bytesTo(r, s))
         /\ Len(s.thr) <= Len(bytesTo(r, s)) /\ Len(s.txq) <= Len(bytesTo(r, s))
         /\ s.thr # << >> => Len(r.fifo) < Len(bytesTo(r, s))
<1>1. /\ r.rxq \in Seq(Bytes) /\ r.fifo \in Seq(Bytes)
      /\ s.thr \in Seq(Bytes) /\ s.txq \in Seq(Bytes)
  BY BufferTypes
<1>2. /\ r.rxq \o r.fifo \in Seq(Bytes) /\ Len(r.rxq \o r.fifo) = Len(r.rxq) + Len(r.fifo)
  BY <1>1, ConcatProperties
<1>3. /\ r.rxq \o r.fifo \o s.thr \in Seq(Bytes)
      /\ Len(r.rxq \o r.fifo \o s.thr) = Len(r.rxq \o r.fifo) + Len(s.thr)
  BY <1>1, <1>2, ConcatProperties
<1>4. /\ bytesTo(r, s) \in Seq(Bytes)
      /\ Len(bytesTo(r, s)) = Len(r.rxq \o r.fifo \o s.thr) + Len(s.txq)
  BY <1>1, <1>3, ConcatProperties DEF bytesTo
<1>5. /\ Len(r.rxq) \in Nat /\ Len(r.fifo) \in Nat /\ Len(s.thr) \in Nat /\ Len(s.txq) \in Nat
      /\ s.thr # << >> => Len(s.thr) # 0
  BY <1>1, EmptySeq, LenProperties
<1>6. Len(bytesTo(r, s)) = ((Len(r.rxq) + Len(r.fifo)) + Len(s.thr)) + Len(s.txq)
  BY <1>2, <1>3, <1>4
<1> DEFINE n == Len(bytesTo(r, s))  a == Len(r.rxq)  b == Len(r.fifo)
           c == Len(s.thr)  d == Len(s.txq)
<1>7. /\ n = ((a + b) + c) + d /\ a \in Nat /\ b \in Nat /\ c \in Nat /\ d \in Nat
  BY <1>5, <1>6
<1> HIDE DEF n, a, b, c, d
<1>8. n \in Nat /\ a <= n /\ b <= n /\ c <= n /\ d <= n /\ (c # 0 => b < n)
  BY <1>7
<1> QED BY <1>4, <1>5, <1>8 DEF n, a, b, c, d

\* The next byte leaves the second of two buffers for the end of the first.
LEMMA Shift ==
  ASSUME NEW p \in Seq(Bytes), NEW q \in Seq(Bytes), q # << >>
  PROVE  Append(p, Head(q)) \o Tail(q) = p \o q
<1>1. Head(q) \in Bytes /\ Tail(q) \in Seq(Bytes) /\ <<Head(q)>> \in Seq(Bytes)
  BY HeadTailProperties
<1>2. Append(p, Head(q)) = p \o <<Head(q)>>
  BY <1>1, AppendIsConcat
<1>3. (p \o <<Head(q)>>) \o Tail(q) = p \o (<<Head(q)>> \o Tail(q))
  BY <1>1, ConcatAssociative
<1>4. <<Head(q)>> \o Tail(q) = q
  <2> DEFINE one == <<Head(q)>>
  <2>1. one \in Seq(Bytes) /\ Len(one) = 1 /\ one[1] = Head(q)
    BY <1>1
  <2> HIDE DEF one
  <2>2. /\ Len(Tail(q)) = Len(q) - 1 /\ Len(q) \in Nat \ {0} /\ Head(q) = q[1]
        /\ \A i \in 1 .. Len(Tail(q)) : Tail(q)[i] = q[i + 1]
    BY HeadTailProperties, EmptySeq
  <2>3. /\ one \o Tail(q) \in Seq(Bytes)
        /\ Len(one \o Tail(q)) = Len(one) + Len(Tail(q))
        /\ \A i \in 1 .. Len(one) + Len(Tail(q)) :
             (one \o Tail(q))[i] = IF i <= Len(one) THEN one[i] ELSE Tail(q)[i - Len(one)]
    BY <1>1, <2>1, ConcatProperties
  <2>4. Len(one \o Tail(q)) = Len(q)
    BY <2>1, <2>2, <2>3
  <2>5. ASSUME NEW i \in 1 .. Len(q) PROVE (one \o Tail(q))[i] = q[i]
    <3>1. CASE i = 1
      BY <3>1, <2>1, <2>2, <2>3
    <3>2. CASE i # 1
      <4>1. i - 1 \in 1 .. Len(Tail(q)) /\ (i - 1) + 1 = i /\ ~(i <= 1) /\ i \in 1 .. Len(one) + Len(Tail(q))
        BY <3>2, <2>1, <2>2
      <4>2. (one \o Tail(q))[i] = Tail(q)[i - 1]
        BY <4>1, <2>1, <2>3
      <4> QED BY <4>1, <4>2, <2>2
    <3> QED BY <3>1, <3>2
  <2>6. one \o Tail(q) = q
    BY <2>3, <2>4, <2>5, SeqEqual
  <2> QED BY <2>6 DEF one
<1> QED BY <1>2, <1>3, <1>4

\* sp_write changes no byte of the line and nothing else of the machine.
LEMMA WriteLine ==
  ASSUME NEW s \in VM, NEW o \in VM
  PROVE  bytesTo(o, sp_write(s)) = bytesTo(o, s) /\ bytesTo(sp_write(s), o) = bytesTo(s, o)
<1> DEFINE t == [s EXCEPT !.thr = <<queueFront(s.txq)>>, !.txq = removed(s.txq)]
<1>1. CASE ~queueIsEmpty(s.txq) /\ sp_check_write(s)
  <2>1. s.txq # << >> /\ s.thr = << >> /\ sp_write(s) = t
    BY <1>1 DEF queueIsEmpty, sp_check_write, sp_write
  <2>2. /\ t.rxq = s.rxq /\ t.fifo = s.fifo
        /\ t.thr = <<Head(s.txq)>> /\ t.txq = Tail(s.txq)
    BY <2>1 DEF VM, queueFront, removed, queueIsEmpty
  <2> HIDE DEF t
  <2>3. /\ o.rxq \in Seq(Bytes) /\ o.fifo \in Seq(Bytes) /\ s.txq \in Seq(Bytes)
        /\ o.rxq \o o.fifo \in Seq(Bytes)
    BY BufferTypes, ConcatProperties
  <2> DEFINE p == o.rxq \o o.fifo
  <2>4. p \o << >> = p
    BY <2>3, ConcatEmptySeq
  <2>5. Append(p, Head(s.txq)) = p \o <<Head(s.txq)>>
    BY <2>1, <2>3, AppendIsConcat, HeadTailProperties
  <2>6. Append(p, Head(s.txq)) \o Tail(s.txq) = p \o s.txq
    BY <2>1, <2>3, Shift
  <2>7. bytesTo(o, t) = bytesTo(o, s)
    BY <2>1, <2>2, <2>4, <2>5, <2>6 DEF bytesTo
  <2> QED BY <2>1, <2>2, <2>7 DEF bytesTo
<1>2. CASE ~(~queueIsEmpty(s.txq) /\ sp_check_write(s))
  BY <1>2 DEF sp_write
<1> QED BY <1>1, <1>2

\* Nor does sp_read, as long as the receive queue has room.
LEMMA ReadLine ==
  ASSUME NEW s \in VM, NEW o \in VM, Len(bytesTo(s, o)) <= 7
  PROVE  bytesTo(o, sp_read(s)) = bytesTo(o, s) /\ bytesTo(sp_read(s), o) = bytesTo(s, o)
<1> DEFINE t == [s EXCEPT !.rxq = addToQueue(s.rxq, QueueCapacity, Head(s.fifo)),
                          !.fifo = Tail(s.fifo)]
<1>1. CASE sp_check_read(s)
  <2>1. s.fifo # << >> /\ sp_read(s) = t
    BY <1>1 DEF sp_check_read, sp_read
  <2>2. Len(s.rxq) \in Nat /\ Len(s.rxq) <= 7
    BY LineType, BufferTypes, LenProperties
  <2>3. addToQueue(s.rxq, QueueCapacity, Head(s.fifo)) = Append(s.rxq, Head(s.fifo))
    BY <2>2, RoomAssumption, SerialAssumption DEF addToQueue, queueIsFull
  <2>4. /\ t.rxq = Append(s.rxq, Head(s.fifo)) /\ t.fifo = Tail(s.fifo)
        /\ t.thr = s.thr /\ t.txq = s.txq
    BY <2>3 DEF VM
  <2> HIDE DEF t
  <2>5. t.rxq \o t.fifo = s.rxq \o s.fifo
    <3>1. s.rxq \in Seq(Bytes) /\ s.fifo \in Seq(Bytes)
      BY BufferTypes
    <3>2. Append(s.rxq, Head(s.fifo)) \o Tail(s.fifo) = s.rxq \o s.fifo
      BY <2>1, <3>1, Shift
    <3> QED BY <2>4, <3>2
  <2> QED BY <2>1, <2>4, <2>5 DEF bytesTo
<1>2. CASE ~sp_check_read(s)
  BY <1>2 DEF sp_read
<1> QED BY <1>1, <1>2

\* Neither touches the game.
LEMMA WriteSame == ASSUME NEW s \in VM PROVE SameGame(s, sp_write(s))
BY DEF VM, SameGame, sp_write

LEMMA ReadSame == ASSUME NEW s \in VM PROVE SameGame(s, sp_read(s))
BY DEF VM, SameGame, sp_read

\* The serial port part of a turn of the main loop moves bytes along and loses none.
LEMMA SerialLine ==
  ASSUME NEW s \in VM, NEW o \in VM, Len(bytesTo(s, o)) <= 7, NEW irqs
  PROVE  LET t == serialPart(s, irqs)
         IN  /\ t \in VM /\ SameGame(s, t)
             /\ bytesTo(o, t) = bytesTo(o, s) /\ bytesTo(t, o) = bytesTo(s, o)
<1> DEFINE u == IF "sp" \in irqs THEN sp_ih(s) ELSE s
           v == sp_write(u)
           t == sp_read(v)
<1>1. u \in {s, sp_read(s), sp_write(s)}
  BY DEF sp_ih
<1>2. u \in VM /\ SameGame(s, u) /\ bytesTo(o, u) = bytesTo(o, s) /\ bytesTo(u, o) = bytesTo(s, o)
  <2>1. SameGame(s, s)
    BY DEF SameGame
  <2> QED BY <1>1, <2>1, ReadType, WriteType, ReadSame, WriteSame, ReadLine, WriteLine
<1> HIDE DEF u
<1>3. v \in VM /\ SameGame(u, v) /\ bytesTo(o, v) = bytesTo(o, u) /\ bytesTo(v, o) = bytesTo(u, o)
  BY <1>2, WriteType, WriteSame, WriteLine
<1> HIDE DEF v
<1>4. t \in VM /\ SameGame(v, t) /\ bytesTo(o, t) = bytesTo(o, v) /\ bytesTo(t, o) = bytesTo(v, o)
  BY <1>2, <1>3, ReadType, ReadSame, ReadLine
<1> HIDE DEF t
<1>5. SameGame(s, t)
  BY <1>2, <1>3, <1>4 DEF SameGame
<1>6. serialPart(s, irqs) = t
  BY DEF serialPart, t, v, u
<1> QED BY <1>2, <1>3, <1>4, <1>5, <1>6

\* addToTransmitQueue puts a byte at the end of the line.
LEMMA AddLine ==
  ASSUME NEW s \in VM, NEW o \in VM, Len(bytesTo(o, s)) <= 7, NEW b \in Bytes
  PROVE  LET t == addToTransmitQueue(s, b)
         IN  /\ t \in VM /\ SameGame(s, t)
             /\ bytesTo(o, t) = Append(bytesTo(o, s), b) /\ bytesTo(t, o) = bytesTo(s, o)
             /\ t.txq = Append(s.txq, b)
<1> DEFINE t == addToTransmitQueue(s, b)
<1>1. Len(s.txq) \in Nat /\ Len(s.txq) <= 7
  BY LineType, BufferTypes, LenProperties
<1>2. addToQueue(s.txq, QueueCapacity, b) = Append(s.txq, b)
  BY <1>1, RoomAssumption, SerialAssumption DEF addToQueue, queueIsFull
<1>3. t.rxq = s.rxq /\ t.fifo = s.fifo /\ t.thr = s.thr /\ t.txq = Append(s.txq, b)
  BY <1>2 DEF VM, addToTransmitQueue
<1>4. SameGame(s, t)
  BY DEF VM, SameGame, addToTransmitQueue
<1>5. t \in VM
  BY TransmitType
<1> HIDE DEF t
<1> DEFINE p == o.rxq \o o.fifo \o s.thr
<1>6. p \in Seq(Bytes) /\ s.txq \in Seq(Bytes) /\ <<b>> \in Seq(Bytes)
  <2>1. /\ o.rxq \in Seq(Bytes) /\ o.fifo \in Seq(Bytes)
        /\ s.thr \in Seq(Bytes) /\ s.txq \in Seq(Bytes)
    BY BufferTypes
  <2>2. o.rxq \o o.fifo \in Seq(Bytes)
    BY <2>1, ConcatProperties
  <2>3. p \in Seq(Bytes)
    BY <2>1, <2>2, ConcatProperties
  <2>4. <<b>> \in Seq(Bytes)
    OBVIOUS
  <2> QED BY <2>1, <2>3, <2>4
<1> HIDE DEF p
<1>7. Append(s.txq, b) = s.txq \o <<b>> /\ p \o s.txq \in Seq(Bytes)
  BY <1>6, AppendIsConcat, ConcatProperties
<1>8. Append(p \o s.txq, b) = (p \o s.txq) \o <<b>>
  BY <1>7, AppendIsConcat
<1>9. (p \o s.txq) \o <<b>> = p \o (s.txq \o <<b>>)
  <2>1. ASSUME NEW d \in Seq(Bytes), NEW one \in Seq(Bytes)
        PROVE  (p \o d) \o one = p \o (d \o one)
    BY <1>6, ConcatAssociative
  <2> QED BY <1>6, <2>1
<1>10. p \o Append(s.txq, b) = Append(p \o s.txq, b)
  BY <1>7, <1>8, <1>9
<1> QED BY <1>3, <1>4, <1>5, <1>10 DEF bytesTo, p, t

\* The front of two queues in a row is the front of the first, if it has one.
LEMMA TakeFirst ==
  ASSUME NEW p \in Seq(Bytes), p # << >>, NEW q \in Seq(Bytes)
  PROVE  p \o q # << >> /\ Head(p \o q) = Head(p) /\ Tail(p \o q) = Tail(p) \o q
<1>1. /\ Head(p) \in Bytes /\ Tail(p) \in Seq(Bytes)
      /\ Append(<< >>, Head(p)) = <<Head(p)>>
  BY HeadTailProperties
<1>2. /\ p \o q \in Seq(Bytes) /\ Len(p \o q) = Len(p) + Len(q)
      /\ \A i \in 1 .. Len(p) + Len(q) : (p \o q)[i] = IF i <= Len(p) THEN p[i] ELSE q[i - Len(p)]
      /\ Len(p) \in Nat \ {0} /\ Len(q) \in Nat
  BY ConcatProperties, EmptySeq, LenProperties
<1>3. Len(p \o q) # 0 /\ 1 \in 1 .. Len(p) + Len(q) /\ 1 <= Len(p)
  BY <1>2
<1>4. p \o q # << >>
  BY <1>2, <1>3, EmptySeq
<1>5. Head(p \o q) = (p \o q)[1] /\ Head(p) = p[1]
  BY <1>2, <1>3
<1>6. Head(p \o q) = Head(p)
  BY <1>2, <1>3, <1>5
<1>7. /\ Tail(p \o q) \in Seq(Bytes) /\ Len(Tail(p \o q)) = Len(p \o q) - 1
      /\ \A i \in 1 .. Len(Tail(p \o q)) : Tail(p \o q)[i] = (p \o q)[i + 1]
  BY <1>2, <1>4, HeadTailProperties
<1>8. /\ Len(Tail(p)) = Len(p) - 1
      /\ \A i \in 1 .. Len(Tail(p)) : Tail(p)[i] = p[i + 1]
  BY HeadTailProperties
<1>9. /\ Tail(p) \o q \in Seq(Bytes) /\ Len(Tail(p) \o q) = Len(Tail(p)) + Len(q)
      /\ \A i \in 1 .. Len(Tail(p)) + Len(q) :
           (Tail(p) \o q)[i] = IF i <= Len(Tail(p)) THEN Tail(p)[i] ELSE q[i - Len(Tail(p))]
  BY <1>1, ConcatProperties
<1>10. Len(Tail(p) \o q) = Len(Tail(p \o q))
  BY <1>2, <1>7, <1>8, <1>9
<1>11. ASSUME NEW i \in 1 .. Len(Tail(p \o q)) PROVE Tail(p \o q)[i] = (Tail(p) \o q)[i]
  <2>1. /\ i + 1 \in 1 .. Len(p) + Len(q) /\ i \in 1 .. Len(Tail(p)) + Len(q)
        /\ (i + 1) - Len(p) = i - Len(Tail(p))
        /\ (i + 1 <= Len(p)) <=> (i <= Len(Tail(p)))
        /\ i <= Len(Tail(p)) => i \in 1 .. Len(Tail(p))
    BY <1>2, <1>7, <1>8
  <2>2. Tail(p \o q)[i] = (p \o q)[i + 1]
    BY <1>7
  <2>3. CASE i <= Len(Tail(p))
    <3>1. (p \o q)[i + 1] = p[i + 1]
      BY <2>1, <2>3, <1>2
    <3>2. (Tail(p) \o q)[i] = Tail(p)[i]
      BY <2>1, <2>3, <1>9
    <3> QED BY <2>1, <2>2, <2>3, <3>1, <3>2, <1>8
  <2>4. CASE ~(i <= Len(Tail(p)))
    <3>1. (p \o q)[i + 1] = q[(i + 1) - Len(p)]
      BY <2>1, <2>4, <1>2
    <3>2. (Tail(p) \o q)[i] = q[i - Len(Tail(p))]
      BY <2>1, <2>4, <1>9
    <3> QED BY <2>1, <2>2, <3>1, <3>2
  <2> QED BY <2>3, <2>4
<1>12. Tail(p \o q) = Tail(p) \o q
  BY <1>7, <1>9, <1>10, <1>11, SeqEqual
<1> QED BY <1>4, <1>6, <1>12

\* readFromQueue takes the first byte of the line, or answers 0.
LEMMA TakeLine ==
  ASSUME NEW s \in VM, NEW o \in VM
  PROVE  LET t == afterRead(s)
         IN  /\ t \in VM /\ SameGame(s, t) /\ t.txq = s.txq
             /\ bytesTo(o, t) = bytesTo(o, s)
             /\ \/ /\ queueFront(s.rxq) = 0
                   /\ bytesTo(t, o) = bytesTo(s, o)
                \/ /\ bytesTo(s, o) # << >>
                   /\ queueFront(s.rxq) = Head(bytesTo(s, o))
                   /\ bytesTo(t, o) = Tail(bytesTo(s, o))
<1> DEFINE t == afterRead(s)
<1>1. t.rxq = removed(s.rxq) /\ t.fifo = s.fifo /\ t.thr = s.thr /\ t.txq = s.txq
  BY DEF VM, afterRead
<1>2. SameGame(s, t)
  BY DEF VM, SameGame, afterRead
<1>3. t \in VM
  BY AfterReadType
<1> HIDE DEF t
<1>4. CASE s.rxq = << >>
  <2>1. queueFront(s.rxq) = 0 /\ t.rxq = s.rxq
    BY <1>1, <1>4 DEF queueFront, removed, queueIsEmpty
  <2> QED BY <1>1, <1>2, <1>3, <2>1 DEF bytesTo, t
<1>5. CASE s.rxq # << >>
  <2> DEFINE a == s.rxq  b == s.fifo  c == o.thr  d == o.txq
  <2>1. queueFront(a) = Head(a) /\ t.rxq = Tail(a)
    BY <1>1, <1>5 DEF queueFront, removed, queueIsEmpty
  <2>2. a \in Seq(Bytes) /\ b \in Seq(Bytes) /\ c \in Seq(Bytes) /\ d \in Seq(Bytes) /\ a # << >>
    BY <1>5, BufferTypes
  <2> HIDE DEF a, b, c, d
  <2>3. /\ a \o b # << >> /\ Head(a \o b) = Head(a) /\ Tail(a \o b) = Tail(a) \o b
        /\ a \o b \in Seq(Bytes)
    BY <2>2, TakeFirst, ConcatProperties
  <2>4. /\ a \o b \o c # << >> /\ Head(a \o b \o c) = Head(a)
        /\ Tail(a \o b \o c) = Tail(a) \o b \o c
        /\ a \o b \o c \in Seq(Bytes)
    BY <2>2, <2>3, TakeFirst, ConcatProperties
  <2>5. /\ a \o b \o c \o d # << >> /\ Head(a \o b \o c \o d) = Head(a)
        /\ Tail(a \o b \o c \o d) = Tail(a) \o b \o c \o d
    BY <2>2, <2>4, TakeFirst
  <2> QED BY <1>1, <1>2, <1>3, <2>1, <2>5 DEF bytesTo, a, b, c, d, t
<1> QED BY <1>4, <1>5

\* sp_clear throws away the front of what is on its way to the machine.
LEMMA ClearLine ==
  ASSUME NEW s \in VM, NEW o \in VM
  PROVE  LET t == sp_clear(s)
         IN  /\ t \in VM /\ SameGame(s, t)
             /\ bytesTo(o, t) = bytesTo(o, s)
             /\ t.thr = s.thr /\ t.txq = s.txq
             /\ \E pre \in Seq(Bytes) : bytesTo(s, o) = pre \o bytesTo(t, o)
<1> DEFINE t == sp_clear(s)
<1>1. t.rxq = << >> /\ t.fifo = << >> /\ t.thr = s.thr /\ t.txq = s.txq
  BY DEF VM, sp_clear
<1>2. SameGame(s, t)
  BY DEF VM, SameGame, sp_clear
<1>3. t \in VM
  BY ClearType
<1> HIDE DEF t
<1>4. ASSUME NEW p \in Seq(Bytes), NEW c \in Seq(Bytes), NEW d \in Seq(Bytes)
      PROVE  p \o c \o d = p \o (<< >> \o << >> \o c \o d)
  <2>1. << >> \o << >> = << >> /\ << >> \o c = c
    BY ConcatEmptySeq, EmptySeq
  <2>2. p \o c \o d = p \o (c \o d)
    BY ConcatAssociative
  <2> QED BY <2>1, <2>2
<1>5. /\ s.rxq \in Seq(Bytes) /\ s.fifo \in Seq(Bytes)
      /\ o.thr \in Seq(Bytes) /\ o.txq \in Seq(Bytes)
  BY BufferTypes
<1>6. s.rxq \o s.fifo \in Seq(Bytes)
  BY <1>5, ConcatProperties
<1>7. bytesTo(s, o) = (s.rxq \o s.fifo) \o bytesTo(t, o)
  <2>1. /\ bytesTo(s, o) = (s.rxq \o s.fifo) \o o.thr \o o.txq
        /\ bytesTo(t, o) = << >> \o << >> \o o.thr \o o.txq
    BY <1>1 DEF bytesTo
  <2>2. (s.rxq \o s.fifo) \o o.thr \o o.txq
          = (s.rxq \o s.fifo) \o (<< >> \o << >> \o o.thr \o o.txq)
    BY <1>4, <1>5, <1>6
  <2> QED BY <2>1, <2>2
<1>8. bytesTo(o, t) = bytesTo(o, s)
  BY <1>1 DEF bytesTo
<1> QED BY <1>1, <1>2, <1>3, <1>6, <1>7, <1>8 DEF t

\* A register that is not empty holds one byte.
LEMMA Register ==
  ASSUME NEW s \in VM, s.thr # << >>
  PROVE  s.thr = <<Head(s.thr)>> /\ Head(s.thr) \in Bytes
<1> DEFINE q == s.thr
<1>1. q \in Seq(Bytes) /\ Len(q) \in Nat /\ Len(q) <= 1 /\ q # << >>
  BY BufferTypes, LenProperties
<1> HIDE DEF q
<1>2. Len(q) = 1 /\ Head(q) = q[1] /\ Head(q) \in Bytes
  <2>1. Len(q) # 0 /\ Head(q) \in Bytes
    BY <1>1, EmptySeq, HeadTailProperties
  <2>2. Len(q) = 1
    <3>1. \A n \in Nat : n <= 1 /\ n # 0 => n = 1
      OBVIOUS
    <3> QED BY <1>1, <2>1, <3>1
  <2>3. Head(q) = q[1]
    BY <1>1
  <2> QED BY <2>1, <2>2, <2>3
<1>3. ASSUME NEW one \in Seq(Bytes), Len(one) = 1, one[1] = Head(q) PROVE q = one
  BY <1>1, <1>2, <1>3, SeqEqual
<1>4. <<Head(q)>> \in Seq(Bytes) /\ Len(<<Head(q)>>) = 1 /\ <<Head(q)>>[1] = Head(q)
  BY <1>2
<1>5. q = <<Head(q)>>
  BY <1>3, <1>4
<1> QED BY <1>2, <1>5 DEF q

\* A byte that crosses the wire stays where it is in the line: the FIFO has room.
LEMMA DeliverLine ==
  ASSUME NEW s \in VM, NEW o \in VM, s.thr # << >>, Len(bytesTo(o, s)) <= 7
  PROVE  LET t == [s EXCEPT !.thr = << >>]
             r == received(o, Head(s.thr))
         IN  /\ t \in VM /\ SameGame(s, t) /\ r \in VM /\ SameGame(o, r)
             /\ bytesTo(r, t) = bytesTo(o, s) /\ bytesTo(t, r) = bytesTo(s, o)
<1> DEFINE t == [s EXCEPT !.thr = << >>]
           r == received(o, Head(s.thr))
<1>1. s.thr = <<Head(s.thr)>> /\ Head(s.thr) \in Bytes
  BY Register
<1>2. t.rxq = s.rxq /\ t.fifo = s.fifo /\ t.thr = << >> /\ t.txq = s.txq
  BY DEF VM
<1>3. SameGame(s, t) /\ SameGame(o, r)
  BY DEF VM, SameGame, received
<1>4. t \in VM
  <2>1. << >> \in BoundedSeq(0 .. 255, 1)
    BY EmptyBounded DEF Bytes
  <2> QED BY <2>1, SetField
<1>5. r \in VM
  BY <1>1, ReceivedType
<1>6. Len(o.fifo) \in Nat /\ Len(o.fifo) <= 7
  BY LineType, BufferTypes, LenProperties
<1>7. addToQueue(o.fifo, FifoDepth, Head(s.thr)) = Append(o.fifo, Head(s.thr))
  BY <1>6, RoomAssumption, SerialAssumption DEF addToQueue, queueIsFull
<1>8. r.rxq = o.rxq /\ r.fifo = Append(o.fifo, Head(s.thr)) /\ r.thr = o.thr /\ r.txq = o.txq
  BY <1>7 DEF VM, received
<1> HIDE DEF t, r
<1>9. /\ o.rxq \in Seq(Bytes) /\ o.fifo \in Seq(Bytes)
      /\ s.thr \in Seq(Bytes) /\ s.txq \in Seq(Bytes)
  BY BufferTypes
<1>10. Append(o.fifo, Head(s.thr)) = o.fifo \o s.thr
  BY <1>1, <1>9, AppendIsConcat
<1>11. ASSUME NEW a \in Seq(Bytes), NEW b \in Seq(Bytes), NEW c \in Seq(Bytes)
       PROVE  a \o (b \o c) \o << >> = a \o b \o c
  <2>1. a \o (b \o c) = a \o b \o c
    BY ConcatAssociative
  <2>2. a \o b \in Seq(Bytes)
    BY ConcatProperties
  <2>3. a \o b \o c \in Seq(Bytes)
    BY <2>2, ConcatProperties
  <2> QED BY <2>1, <2>3, ConcatEmptySeq
<1>12. bytesTo(r, t) = bytesTo(o, s)
  <2>1. bytesTo(r, t) = o.rxq \o (o.fifo \o s.thr) \o << >> \o s.txq
    BY <1>2, <1>8, <1>10 DEF bytesTo
  <2>2. o.rxq \o (o.fifo \o s.thr) \o << >> = o.rxq \o o.fifo \o s.thr
    BY <1>9, <1>11
  <2> QED BY <2>1, <2>2 DEF bytesTo
<1>13. bytesTo(t, r) = bytesTo(s, o)
  BY <1>2, <1>8 DEF bytesTo
<1> QED BY <1>3, <1>4, <1>5, <1>12, <1>13 DEF t, r

\* A machine after sp_unsubscribe_int, up to its last loop.
portClosed(s, sent) == [sp_clear(sp_configure_end(s, sent)) EXCEPT !.phase = "closing"]

\* A machine that closes its port throws away the front of what is on its way to it,
\* and may take one byte out of the middle of what it sent.
Leaves(s, t, o) ==
  /\ SameGame([s EXCEPT !.phase = "closing"], t)
  /\ \E pre \in Seq(Bytes) : bytesTo(s, o) = pre \o bytesTo(t, o)
  /\ \/ t.thr = s.thr /\ bytesTo(o, t) = bytesTo(o, s)
     \/ /\ t.thr # s.thr
        /\ \E p, q \in Seq(Bytes), b \in Bytes :
             bytesTo(o, s) = Append(p, b) \o q /\ bytesTo(o, t) = p \o q

LEMMA LeaveLine ==
  ASSUME NEW s \in VM, NEW o \in VM, NEW sent \in BOOLEAN
  PROVE  portClosed(s, sent) \in VM /\ Leaves(s, portClosed(s, sent), o)
<1> DEFINE u == sp_configure_end(s, sent)
           v == sp_clear(u)
           t == [v EXCEPT !.phase = "closing"]
<1>0. portClosed(s, sent) = t
  BY DEF portClosed
<1>1. /\ u.rxq = s.rxq /\ u.fifo = << >> /\ u.thr = (IF sent THEN s.thr ELSE << >>)
      /\ u.txq = s.txq
  BY DEF VM, sp_configure_end
<1>2. u \in VM
  <2> DEFINE th == IF sent THEN s.thr ELSE << >>
  <2>1. << >> \in BoundedSeq(0 .. 255, 1) /\ << >> \in BoundedSeq(0 .. 255, FifoDepth)
    BY EmptyBounded, SerialAssumption DEF Bytes
  <2>2. th \in BoundedSeq(0 .. 255, 1)
    BY <2>1 DEF VM
  <2> HIDE DEF th
  <2>3. [s EXCEPT !.fifo = << >>, !.thr = th] \in VM
    BY <2>1, <2>2, SetField
  <2> QED BY <2>3 DEF sp_configure_end, th
<1>3. SameGame(s, u)
  BY DEF VM, SameGame, sp_configure_end
<1> HIDE DEF u
<1>4. /\ v \in VM /\ SameGame(u, v)
      /\ v.rxq = << >> /\ v.fifo = << >> /\ v.thr = u.thr /\ v.txq = u.txq
  <2>1. v.rxq = << >> /\ v.fifo = << >>
    BY <1>2 DEF sp_clear, VM
  <2> QED BY <1>2, <2>1, ClearLine
<1> HIDE DEF v
<1>5. t \in VM
  BY <1>4, SetField, Constants
<1>6. /\ t.rxq = << >> /\ t.fifo = << >> /\ t.thr = (IF sent THEN s.thr ELSE << >>)
      /\ t.txq = s.txq
  BY <1>1, <1>4 DEF VM
<1>7. SameGame([s EXCEPT !.phase = "closing"], t)
  BY <1>3, <1>4 DEF VM, SameGame
<1> HIDE DEF t
<1>8. \E pre \in Seq(Bytes) : bytesTo(s, o) = pre \o bytesTo(t, o)
  <2>1. \E pre \in Seq(Bytes) : bytesTo(s, o) = pre \o bytesTo(sp_clear(s), o)
    BY ClearLine
  <2>2. sp_clear(s).rxq = << >> /\ sp_clear(s).fifo = << >>
    BY DEF VM, sp_clear
  <2> QED BY <2>1, <2>2, <1>6 DEF bytesTo
<1> DEFINE p == o.rxq \o o.fifo  q == s.txq
<1>9. p \in Seq(Bytes) /\ q \in Seq(Bytes)
  BY BufferTypes, ConcatProperties
<1>10. bytesTo(o, s) = p \o s.thr \o q /\ bytesTo(o, t) = p \o t.thr \o q
  BY <1>6 DEF bytesTo
<1>11. CASE t.thr = s.thr
  BY <1>5, <1>7, <1>8, <1>10, <1>11, <1>0 DEF Leaves
<1>12. CASE t.thr # s.thr
  <2>1. t.thr = << >> /\ s.thr # << >>
    BY <1>6, <1>12
  <2>2. s.thr = <<Head(s.thr)>> /\ Head(s.thr) \in Bytes
    BY <2>1, Register
  <2> HIDE DEF p, q
  <2>3. Append(p, Head(s.thr)) = p \o s.thr
    BY <1>9, <2>2, AppendIsConcat
  <2>4. p \o t.thr = p
    BY <1>9, <2>1, ConcatEmptySeq
  <2>5. bytesTo(o, s) = Append(p, Head(s.thr)) \o q /\ bytesTo(o, t) = p \o q
    BY <1>10, <2>3, <2>4
  <2> QED BY <1>5, <1>7, <1>8, <1>9, <1>12, <2>2, <2>5, <1>0 DEF Leaves
<1> QED BY <1>11, <1>12
==================================================================================
