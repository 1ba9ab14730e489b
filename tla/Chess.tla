---------------------------------- MODULE Chess ----------------------------------
(* main.c with board.c, piece.c, cursor.c and serialPort.c: two machines, each    *)
(* running proj_main_loop, joined by a serial line.                               *)
(*                                                                                *)
(* The program is one thread per machine. A step of a machine is one turn of its  *)
(* main loop: a notification of the kernel with a set of pending interrupts, one  *)
(* sp_write and one sp_read, and the handlers of the events the interrupts pushed.*)
(* The event queue of event_queue.c is a stack that every turn empties: keyboard, *)
(* then mouse, then timer, the reverse of the order in which they were pushed.    *)
(* The handlers are operators from the state of a machine to its next state and   *)
(* have the names of the functions.                                               *)
EXTENDS ChessRules, SerialPort

CONSTANTS MAX_NAME_SIZE, \* 8 in main.c
          Codes,         \* the scancodes users may produce
          Spots,         \* the pixels <<x, y>> mouse packets may bring the cursor to
          Notifications  \* the sets of interrupts one kernel message may carry

ASSUME ChessAssumption ==
  /\ MAX_NAME_SIZE \in Nat \ {0}
  /\ Codes \subseteq 0 .. 255
  /\ Spots \subseteq (0 .. 788) \X (0 .. 580)
  /\ Notifications \subseteq SUBSET {"timer", "sp", "mouse", "kb"}
  /\ {"timer"} \in Notifications

\* The queues hold what the protocol ever has on its way: createQueue(10), and the
\* FIFO of the 16550A.
ASSUME RoomAssumption == QueueCapacity >= 8 /\ FifoDepth >= 8

Peer == {1, 2}

Other(p) == 3 - p

VARIABLES vm,   \* the state of each machine
          hist  \* history, for the properties only: see Record

vars == <<vm, hist>>

\* Player
NOT_DECIDED == 0
BLACK == 1
WHITE == 2

BACK_SPACE == 142
ENTER == 156
KEY_Z == 172

GameState == {"START", "WAITING", "PLAYING", "CHOOSING_PLAYER", "WAIT_CHOOSING_PLAYER", "EXIT"}

\* Where a machine's single thread is: in the main loop; spinning for ever in
\* sp_emptyTransmitQueue; in the last loop of sp_unsubscribe_int; back in text mode;
\* or dead of a NULL dereference.
Phase == {"run", "spin", "closing", "done", "crashed"}

BoundedSeq(S, n) == {q \in Seq(S) : Len(q) <= n}

VM == [phase : Phase,
       gameState : GameState,
       name_size : 0 .. MAX_NAME_SIZE,
       pressed : BOOLEAN,                 \* cursor.pressed
       player : {NOT_DECIDED, BLACK, WHITE},
       myTurn : BOOLEAN, endGame : BOOLEAN, won : BOOLEAN, animation : BOOLEAN,
       board : [Square -> Ids \cup {NULL}],
       dragging : Ids \cup {NULL},        \* dragging_piece
       from : Square,                     \* inicialPieceCol, inicialPieceRow
       lit : SUBSET Square,               \* the squares painted orange
       byteOfMove : 0 .. 1,               \* 1: the old position has been received
       old : Square,                      \* move.old_col, move.old_row
       pawn_moved : SUBSET Ids,
       moving : SUBSET Ids,               \* pawns of is_moving, not yet pawn_moved
       txq : BoundedSeq(0 .. 255, QueueCapacity),
       rxq : BoundedSeq(0 .. 255, QueueCapacity),
       thr : BoundedSeq(0 .. 255, 1),
       fifo : BoundedSeq(0 .. 255, FifoDepth)]

\* A machine whose menu has been shown: the globals and statics of main.c.
started == [phase |-> "run", gameState |-> "START", name_size |-> 0, pressed |-> FALSE,
            player |-> NOT_DECIDED, myTurn |-> FALSE, endGame |-> FALSE, won |-> FALSE,
            animation |-> TRUE, board |-> initBoard, dragging |-> NULL, from |-> 0,
            lit |-> {}, byteOfMove |-> 0, old |-> 0, pawn_moved |-> {}, moving |-> {},
            txq |-> << >>, rxq |-> << >>, thr |-> << >>, fifo |-> << >>]

----------------------------------------------------------------------------------
(* The name screen and the handshake *)

\* Releases are codes with bit 7; every handler ignores the others.
isRelease(code) == code >= 128

\* Mutant: the length is not tested before a letter is appended.
name_choice_ih_unbounded(s, code) ==
  IF ~isRelease(code) THEN s
  ELSE IF code = BACK_SPACE /\ s.name_size > 0
  THEN [s EXCEPT !.name_size = s.name_size - 1]
  ELSE IF code = ENTER /\ s.name_size > 0
  THEN [addToTransmitQueue(sp_clear(s), VM_CONNECTED) EXCEPT !.gameState = "WAITING"]
  ELSE IF code # BACK_SPACE /\ s.name_size <= MAX_NAME_SIZE
  THEN [s EXCEPT !.name_size = s.name_size + 1]
  ELSE s

name_choice_ih(s, code) ==
  IF ~isRelease(code) THEN s
  ELSE IF code = BACK_SPACE /\ s.name_size > 0
  THEN [s EXCEPT !.name_size = s.name_size - 1]
  ELSE IF code = ENTER /\ s.name_size > 0
  THEN [addToTransmitQueue(sp_clear(s), VM_CONNECTED) EXCEPT !.gameState = "WAITING"]
  ELSE IF code # BACK_SPACE /\ s.name_size < MAX_NAME_SIZE
  THEN [s EXCEPT !.name_size = s.name_size + 1]
  ELSE s

\* Mutant: the greeting is not answered.
waiting_ih_noAnswer(s) ==
  LET byte == queueFront(s.rxq)
      t == afterRead(s)
  IN  CASE byte = VM_CONNECTED -> [t EXCEPT !.gameState = "CHOOSING_PLAYER"]
        [] byte = RECEIVE_VM_CONNECTED -> [t EXCEPT !.gameState = "WAIT_CHOOSING_PLAYER"]
        [] OTHER -> t

waiting_ih(s) ==
  LET byte == queueFront(s.rxq)
      t == afterRead(s)
  IN  CASE byte = VM_CONNECTED ->
             [addToTransmitQueue(t, RECEIVE_VM_CONNECTED) EXCEPT !.gameState = "CHOOSING_PLAYER"]
        [] byte = RECEIVE_VM_CONNECTED -> [t EXCEPT !.gameState = "WAIT_CHOOSING_PLAYER"]
        [] OTHER -> t

\* cursorClickPlayer: the colour of the button under the cursor, if any.
playerButton(x, y) ==
  IF x \in 308 .. 465 /\ y \in 63 .. 103 THEN BLACK
  ELSE IF x \in 308 .. 465 /\ y \in 518 .. 557 THEN WHITE
  ELSE NOT_DECIDED

\* Mutant: the peer is sent the colour of the sender.
sameColour(colour) == colour

opposite(colour) == IF colour = WHITE THEN BLACK ELSE WHITE

\* Mutants: the colour is not sent; the screen is not left.
choosing_ih_silent(s, x, y) ==
  LET colour == playerButton(x, y)
  IN  IF s.pressed /\ colour # NOT_DECIDED
      THEN [s EXCEPT !.player = colour, !.gameState = "PLAYING", !.myTurn = (colour = WHITE)]
      ELSE s

choosing_ih_stay(s, x, y) ==
  LET colour == playerButton(x, y)
  IN  IF s.pressed /\ colour # NOT_DECIDED
      THEN [addToTransmitQueue(s, opposite(colour)) EXCEPT
              !.player = colour, !.myTurn = (colour = WHITE)]
      ELSE s

\* A click is the button held down, not its edge.
choosing_ih(s, x, y) ==
  LET colour == playerButton(x, y)
  IN  IF s.pressed /\ colour # NOT_DECIDED
      THEN [addToTransmitQueue(s, opposite(colour)) EXCEPT
              !.player = colour, !.gameState = "PLAYING", !.myTurn = (colour = WHITE)]
      ELSE s

\* It reads the UART once more than the main loop does; any byte is a colour.
waiting_choosing_ih(s) ==
  LET t == sp_read(s)
      byte == queueFront(t.rxq)
      white == byte = WHITE
  IN  IF byte # 0
      THEN [afterRead(t) EXCEPT !.myTurn = white, !.player = IF white THEN WHITE ELSE BLACK,
                                !.gameState = "PLAYING"]
      ELSE afterRead(t)

----------------------------------------------------------------------------------
(* The game *)

\* A position on the wire: (col << 3) | row, and back with COL_MASK and ROW_MASK.
\* The corner (0,0) is the byte 0.
\* Mutant: (row << 3) | col.
encode_rowFirst(sq) == sq

encode(sq) == 8 * Col(sq) + Row(sq)

decode(byte) == get_position((byte \div 8) % 8, byte % 8)

isPawn(id) == type[id] \in {b_pawn, w_pawn}

\* The effect of movePiece that outlives the animation: a pawn that has not moved
\* yet waits for its first animated frame.
movePiece(s, id) ==
  [s EXCEPT !.moving = IF isPawn(id) /\ id \notin s.pawn_moved THEN s.moving \cup {id} ELSE s.moving]

\* updateBoard: pieces still on the board advance. updatePiece sets pawn_moved;
\* updatePiece_no_animation does not.
updateBoard(s) ==
  LET advancing == {id \in s.moving : \E sq \in Square : s.board[sq] = id}
  IN  [s EXCEPT !.moving = s.moving \ advancing,
                !.pawn_moved = IF s.animation THEN s.pawn_moved \cup advancing ELSE s.pawn_moved]

\* Mutant: the piece is left on its old square as well.
put_copy(board, a, b) == [board EXCEPT ![b] = board[a]]

put(board, a, b) == [board EXCEPT ![b] = board[a], ![a] = NULL]

\* Mutant: only the white king counts.
kingAt_white(board, sq) == board[sq] # NULL /\ type[board[sq]] = w_king

kingAt(board, sq) == board[sq] # NULL /\ isKing(board[sq])

\* Mutant: the loser is told that it won.
playReceived_won(s, sq) ==
  IF s.board[s.old] = NULL
  THEN [s EXCEPT !.phase = "crashed"]
  ELSE [movePiece(s, s.board[s.old]) EXCEPT
          !.gameState = IF kingAt(s.board, sq) THEN "EXIT" ELSE s.gameState,
          !.won = kingAt(s.board, sq),
          !.board = put(s.board, s.old, sq)]

\* The second position of a move has arrived: the received move is played, even if
\* it takes a king. From an empty square it dereferences NULL.
playReceived(s, sq) ==
  IF s.board[s.old] = NULL
  THEN [s EXCEPT !.phase = "crashed"]
  ELSE [movePiece(s, s.board[s.old]) EXCEPT
          !.gameState = IF kingAt(s.board, sq) THEN "EXIT" ELSE s.gameState,
          !.won = IF kingAt(s.board, sq) THEN FALSE ELSE s.won,
          !.board = put(s.board, s.old, sq)]

\* One byte per frame. byteOfMove goes back to 0 at BEGIN_MESSAGE only.
playing_frame(s) ==
  LET byte == queueFront(s.rxq)
      t == afterRead(updateBoard(s))
  IN  CASE byte = BEGIN_MESSAGE -> [t EXCEPT !.byteOfMove = 0]
        [] byte = YOUR_TURN -> [t EXCEPT !.myTurn = TRUE]
        [] byte = 0 -> t
        [] OTHER -> IF t.byteOfMove = 0
                    THEN [t EXCEPT !.old = decode(byte), !.byteOfMove = 1]
                    ELSE playReceived(t, decode(byte))

playing_key(s, code) == IF code = KEY_Z THEN [s EXCEPT !.animation = ~s.animation] ELSE s

ownPiece(s, id) == \/ type[id] > b_king /\ s.player = WHITE
                   \/ type[id] <= b_king /\ s.player = BLACK

\* Mutant: the turn is not tested.
pickUp_anyTime(s, x, y) ==
  LET sq == get_position(getBoardX(x), getBoardY(y))
  IN  IF /\ s.pressed
         /\ onBoard(getBoardX(x), getBoardY(y))
         /\ s.board[sq] # NULL /\ ownPiece(s, s.board[sq])
      THEN [s EXCEPT !.dragging = s.board[sq], !.from = sq,
                     !.lit = possiblePosition(s.board, s.board[sq] \in s.pawn_moved,
                                              s.board[sq], getBoardX(x), getBoardY(y))]
      ELSE s

\* Button held, my turn, nothing dragged: pick up the piece under the cursor.
pickUp(s, x, y) ==
  LET sq == get_position(getBoardX(x), getBoardY(y))
  IN  IF /\ s.pressed /\ s.myTurn
         /\ onBoard(getBoardX(x), getBoardY(y))
         /\ s.board[sq] # NULL /\ ownPiece(s, s.board[sq])
      THEN [s EXCEPT !.dragging = s.board[sq], !.from = sq,
                     !.lit = possiblePosition(s.board, s.board[sq] \in s.pawn_moved,
                                              s.board[sq], getBoardX(x), getBoardY(y))]
      ELSE s

\* Mutant: the turn is passed before the positions are sent.
sendMove_turnFirst(s, a, b) ==
  addToTransmitQueue(
    addToTransmitQueue(
      addToTransmitQueue(
        addToTransmitQueue(s, BEGIN_MESSAGE), YOUR_TURN), encode(a)), encode(b))

\* The four bytes of a move, as playing_ih queues them.
sendMove(s, a, b) ==
  addToTransmitQueue(
    addToTransmitQueue(
      addToTransmitQueue(
        addToTransmitQueue(s, BEGIN_MESSAGE), encode(a)), encode(b)), YOUR_TURN)

\* Mutants: the mover keeps the turn; a winning move is not sent.
drop_keepTurn(s, x, y) ==
  LET sq == get_position(getBoardX(x), getBoardY(y))
      t == IF onBoard(getBoardX(x), getBoardY(y)) /\ accepts(s.board, s.lit, s.dragging, sq)
           THEN [sendMove(movePiece(s, s.dragging), s.from, sq) EXCEPT
                   !.endGame = (s.endGame \/ kingAt(s.board, sq)),
                   !.board = [s.board EXCEPT ![s.from] = NULL, ![sq] = s.dragging]]
           ELSE s
  IN  [t EXCEPT !.dragging = NULL, !.lit = {}]

drop_silentWin(s, x, y) ==
  LET sq == get_position(getBoardX(x), getBoardY(y))
      t == IF onBoard(getBoardX(x), getBoardY(y)) /\ accepts(s.board, s.lit, s.dragging, sq)
           THEN [(IF kingAt(s.board, sq) THEN s
                  ELSE sendMove(movePiece(s, s.dragging), s.from, sq)) EXCEPT
                   !.endGame = (s.endGame \/ kingAt(s.board, sq)),
                   !.board = [s.board EXCEPT ![s.from] = NULL, ![sq] = s.dragging],
                   !.myTurn = FALSE]
           ELSE s
  IN  [t EXCEPT !.dragging = NULL, !.lit = {}]

\* The dragged piece is released: it moves if the square accepts it, else it goes
\* back; either way the orange squares are redrawn.
drop(s, x, y) ==
  LET sq == get_position(getBoardX(x), getBoardY(y))
      t == IF onBoard(getBoardX(x), getBoardY(y)) /\ accepts(s.board, s.lit, s.dragging, sq)
           THEN [sendMove(movePiece(s, s.dragging), s.from, sq) EXCEPT
                   !.endGame = (s.endGame \/ kingAt(s.board, sq)),
                   !.board = [s.board EXCEPT ![s.from] = NULL, ![sq] = s.dragging],
                   !.myTurn = FALSE]
           ELSE s
  IN  [t EXCEPT !.dragging = NULL, !.lit = {}]

playing_mouse(s, x, y, released) ==
  LET t == IF s.dragging = NULL THEN pickUp(s, x, y) ELSE s
  IN  IF released /\ t.dragging # NULL THEN drop(t, x, y) ELSE t

\* Every event of a game that this machine has won ends it; the event is handled
\* all the same.
noteEnd(s) == IF s.endGame THEN [s EXCEPT !.won = TRUE, !.gameState = "EXIT"] ELSE s

----------------------------------------------------------------------------------
(* inputHandler for each type of event, and the main loop *)

running(s) == s.phase = "run"

onKeyboard(s, code) ==
  CASE s.gameState = "START" -> name_choice_ih(s, code)
    [] s.gameState = "PLAYING" -> playing_key(noteEnd(s), code)
    [] OTHER -> s

\* updateCursor, then inputHandler. released is the falling edge of this packet.
onMouse(s, x, y, lb) ==
  LET released == s.pressed /\ ~lb
      t == [s EXCEPT !.pressed = lb]
  IN  CASE s.gameState = "CHOOSING_PLAYER" -> choosing_ih(t, x, y)
        [] s.gameState = "PLAYING" -> playing_mouse(noteEnd(t), x, y, released)
        [] OTHER -> t

onNewFrame(s) ==
  CASE s.gameState = "WAITING" -> waiting_ih(s)
    [] s.gameState = "WAIT_CHOOSING_PLAYER" -> waiting_choosing_ih(s)
    [] s.gameState = "PLAYING" -> playing_frame(noteEnd(s))
    [] OTHER -> s

\* Mutant: an iteration never writes to the UART by itself, only on its interrupt.
serialPart_noWrite(s, irqs) == sp_read(IF "sp" \in irqs THEN sp_ih(s) ELSE s)

serialPart(s, irqs) == sp_read(sp_write(IF "sp" \in irqs THEN sp_ih(s) ELSE s))

iteration(s, irqs, code, spot, lb) ==
  LET afterSerial == serialPart(s, irqs)
      afterKey == IF "kb" \in irqs THEN onKeyboard(afterSerial, code) ELSE afterSerial
      afterMouse == IF "mouse" \in irqs THEN onMouse(afterKey, spot[1], spot[2], lb) ELSE afterKey
  IN  IF "timer" \in irqs THEN onNewFrame(afterMouse) ELSE afterMouse

----------------------------------------------------------------------------------
(* The two machines *)

Init == /\ vm = [p \in Peer |-> started]
        /\ hist = [choosers |-> {}, corner |-> FALSE, flushed |-> FALSE]

\* History: who was ever asked to choose the colours, whether a move ever touched
\* the corner whose position is the byte 0, and whether closing the port ever threw
\* away a byte.
Record(flushes) ==
  hist' = [choosers |-> hist.choosers \cup {p \in Peer : vm'[p].gameState = "CHOOSING_PLAYER"},
           corner |-> hist.corner \/ \E p \in Peer : \E i \in DOMAIN vm'[p].txq : vm'[p].txq[i] = 0,
           flushed |-> hist.flushed \/ flushes]

\* One turn of the main loop of machine p. The notification may carry no interrupt
\* that pushes an event: the first bytes of a mouse packet, a scancode prefix.
MainLoop(p, irqs, code, spot, lb) ==
  /\ running(vm[p])
  /\ vm[p].gameState # "EXIT"
  /\ vm' = [vm EXCEPT ![p] = iteration(vm[p], irqs, code, spot, lb)]
  /\ Record(FALSE)

\* The byte in p's transmitter reaches the other machine's UART.
Deliver(p) ==
  /\ vm[p].thr # << >>
  /\ vm' = [vm EXCEPT ![p].thr = << >>,
                      ![Other(p)] = received(vm[Other(p)], Head(vm[p].thr))]
  /\ Record(FALSE)

\* The code after the loop: sp_emptyTransmitQueue when won, which spins while the
\* queue IS empty, and sp_unsubscribe_int up to its last loop.
LeaveLoop(p, sent) ==
  /\ running(vm[p])
  /\ vm[p].gameState = "EXIT"
  /\ vm' = [vm EXCEPT ![p] =
              IF vm[p].won /\ queueIsEmpty(vm[p].txq)
              THEN [vm[p] EXCEPT !.phase = "spin"]
              ELSE [sp_clear(sp_configure_end(vm[p], sent)) EXCEPT !.phase = "closing"]]
  /\ Record(vm'[p].thr # vm[p].thr)

\* while (!queueIsEmpty(transmitQueue)) sp_write(); then text mode and the verdict.
Close(p) ==
  /\ vm[p].phase = "closing"
  /\ vm' = [vm EXCEPT ![p] = IF queueIsEmpty(vm[p].txq)
                             THEN [vm[p] EXCEPT !.phase = "done"]
                             ELSE sp_write(vm[p])]
  /\ Record(FALSE)

Next == \E p \in Peer :
          \/ \E irqs \in Notifications :
             \E code \in IF "kb" \in irqs THEN Codes ELSE {0} :
             \E spot \in IF "mouse" \in irqs THEN Spots ELSE {<<0, 0>>} :
             \E lb \in IF "mouse" \in irqs THEN BOOLEAN ELSE {FALSE} :
               MainLoop(p, irqs, code, spot, lb)
          \/ Deliver(p)
          \/ \E sent \in BOOLEAN : LeaveLoop(p, sent)
          \/ Close(p)

Spec == Init /\ [][Next]_vars

\* The timer interrupts 60 times a second for ever, more often than a user produces
\* events: a running machine keeps taking turns that only draw a frame. Users owe
\* nothing.
Frame(p) == MainLoop(p, {"timer"}, 0, <<0, 0>>, FALSE)

Fairness == \A p \in Peer : /\ WF_vars(Frame(p))
                            /\ WF_vars(Deliver(p))
                            /\ WF_vars(\E sent \in BOOLEAN : LeaveLoop(p, sent))
                            /\ WF_vars(Close(p))

FairSpec == Spec /\ Fairness

----------------------------------------------------------------------------------
(* Properties *)

TypeOK == /\ vm \in [Peer -> VM]
          /\ hist \in [choosers : SUBSET Peer, corner : BOOLEAN, flushed : BOOLEAN]

\* The bytes on their way to p, the next one to be read first.
pipeline(p) == vm[p].rxq \o vm[p].fifo \o vm[Other(p)].thr \o vm[Other(p)].txq

\* Both machines read VM_CONNECTED while WAITING: the ENTER keys crossed.
Clash == hist.choosers = Peer

playing(p) == vm[p].phase = "run" /\ vm[p].gameState = "PLAYING"

\* addToQueue drops a byte of a full queue without a word, and so does a full UART
\* FIFO. Unless the ENTER keys crossed it never happens: all the bytes on their way to
\* a machine together fit in each queue on the way, whatever the speed of the machines.
NoByteIsDropped ==
  ~Clash => \A p \in Peer : Len(pipeline(p)) < QueueCapacity /\ Len(pipeline(p)) < FifoDepth

\* The right to move: the flag of a machine, or the byte that will set it.
turnBytes(p) == {i \in DOMAIN pipeline(p) : pipeline(p)[i] = YOUR_TURN}

tokens == Cardinality({p \in Peer : vm[p].myTurn})
          + Cardinality(turnBytes(1)) + Cardinality(turnBytes(2))

\* Unless the ENTER keys crossed, the turn is never duplicated, and while both
\* machines are in the game it is never lost.
OneTurn == ~Clash => /\ tokens <= 1
                     /\ playing(1) /\ playing(2) => tokens = 1

\* Two machines that are in the game play different colours.
OppositeColours ==
  ~Clash /\ playing(1) /\ playing(2) => {vm[1].player, vm[2].player} = {BLACK, WHITE}

\* When a player may move, both machines show the same position: the peer's move
\* has been played here and this machine's last one there.
BoardsAgree ==
  ~Clash /\ ~hist.corner =>
    \A p \in Peer : playing(1) /\ playing(2) /\ vm[p].myTurn => vm[1].board = vm[2].board

\* The position remembered when a piece is picked up is still its position when it
\* is dropped, and only the player whose turn it is holds a piece.
DragIsCurrent ==
  \A p \in Peer : vm[p].dragging # NULL /\ ~Clash =>
    vm[p].myTurn /\ vm[p].board[vm[p].from] = vm[p].dragging

\* A received move never starts from an empty square (movePiece would dereference
\* NULL), unless the ENTER keys crossed, a corner move was lost, or the winner threw
\* away a byte as it left.
NoNullMove ==
  (\E p \in Peer : vm[p].phase = "crashed") => Clash \/ hist.corner \/ hist.flushed

kings(board) == {board[sq] : sq \in Square} \cap {id \in Ids : isKing(id)}

\* A game goes on exactly as long as both kings are on the board: whichever machine
\* takes a king, neither plays on without it (crossed ENTER keys aside).
KingGoneMeansOver ==
  \A p \in Peer : running(vm[p]) /\ ~Clash =>
    (Cardinality(kings(vm[p].board)) < 2 <=>
       (vm[p].gameState = "EXIT" \/ vm[p].endGame))

\* No piece is ever on two squares, unless the ENTER keys crossed (the peer then
\* moves a piece this player is dragging).
NoPieceTwice ==
  \A p \in Peer : ~Clash =>
    Cardinality({vm[p].board[sq] : sq \in Square} \ {NULL})
      = Cardinality({sq \in Square : vm[p].board[sq] # NULL})

lost(p) == vm[p].gameState = "EXIT" /\ ~vm[p].won

\* The verdicts agree: a machine that tells its player "You lost!" has a peer that
\* took the king, and the two players are never both told they won. (Crossed ENTER
\* keys and corner moves part the boards; a byte of the last move thrown away lets the
\* loser play on.)
VerdictsAgree ==
  ~(Clash \/ hist.corner \/ hist.flushed) =>
    /\ \A p \in Peer : lost(p) => vm[Other(p)].endGame
    /\ ~(vm[1].won /\ vm[2].won)

\* Every piece that changes its square, on the machine that moved it or on the peer
\* that was told, makes a chess move: also under the interleaving of a frame, whose
\* updateBoard decides pawn_moved, with the next drag. Pieces are named by their
\* home squares, so a pawn away from home has moved. (Crossed ENTER keys, a corner
\* move or a byte thrown away at the end garble what the peer is told.)
MovesAreChess ==
  [][\A p \in Peer :
       vm'[p].board # vm[p].board /\ ~(Clash \/ hist.corner \/ hist.flushed) =>
         LET changed == {sq \in Square : vm'[p].board[sq] # vm[p].board[sq]}
         IN  \E a, b \in changed :
               /\ changed = {a, b}
               /\ vm[p].board[a] # NULL
               /\ vm'[p].board[a] = NULL
               /\ vm'[p].board[b] = vm[p].board[a]
               /\ ChessMove(vm[p].board, a # vm[p].board[a], vm[p].board[a], a, b)]_vars

\* Once both players have pressed ENTER, both machines leave the waiting screen: no
\* order of the two keys, the clearing of the port and the two greetings leaves a
\* machine waiting for a greeting that was thrown away.
HandshakeCompletes ==
  (\A p \in Peer : vm[p].gameState # "START")
    ~> (\A p \in Peer : vm[p].gameState \notin {"START", "WAITING"})

\* The colour chosen on one machine reaches the other, which enters the game.
ColourArrives ==
  \A p \in Peer : vm[p].gameState = "PLAYING"
                    ~> (Clash \/ vm[Other(p)].gameState \in {"PLAYING", "EXIT"})

\* A turn that was passed arrives, or the game is over.
TurnArrives ==
  \A p \in Peer : turnBytes(p) # {} ~> (vm[p].myTurn \/ vm[p].gameState = "EXIT" \/ Clash
                                          \/ vm[p].phase = "crashed")

\* The loser learns of the capture of its king, unless the winner's closing of the
\* port threw a byte of the last move away.
LoserIsTold ==
  \A p \in Peer : vm[p].endGame ~> (lost(Other(p)) \/ Clash \/ hist.corner \/ hist.flushed)

----------------------------------------------------------------------------------
(* What the documents say and the code does not do *)

\* "enquanto um jogador esta a jogar o oponente nao consegue pegar em pecas" (report,
\* page 8): the two players never have the turn together.
TurnIsExclusive == ~(vm[1].myTurn /\ vm[2].myTurn)

\* "comunicar ao oponente qual a jogada realizada" (report, page 8): every move
\* reaches the peer's board before the peer may move.
EveryMoveIsCommunicated ==
  \A p \in Peer : playing(1) /\ playing(2) /\ vm[p].myTurn => vm[1].board = vm[2].board

\* "mover as pecas de maneira legal" (Project Specification.pdf): a pawn advances two
\* rows from its home square only.
PawnsDoubleStepFromHome ==
  [][\A p \in Peer :
       vm'[p].board # vm[p].board =>
         \A a, b \in {sq \in Square : vm'[p].board[sq] # vm[p].board[sq]} :
           /\ vm[p].board[a] # NULL /\ isPawn(vm[p].board[a])
           /\ vm'[p].board[b] = vm[p].board[a]
           /\ abs(Row(a) - Row(b)) = 2
           => a = vm[p].board[a]]_vars

\* "When a player's king is captured a message "You won!" or "You lost!" is shown"
\* (report, page 4): the machine that took the king gets to its verdict.
WinnerIsTold == \A p \in Peer : vm[p].endGame ~> vm[p].phase = "done"
==================================================================================
