---------------------------------- MODULE Pieces ---------------------------------
(* piece.c and the drawing half of board.c on one machine in the game: where the  *)
(* image of each piece is while it is dragged, glides and rests, and what a frame *)
(* shows. board.c keeps two kinds of pieces apart: those that move (priority_draw)*)
(* are drawn anew in every frame, the others are kept in a buffer, mem_pieces,    *)
(* that is redrawn only when a piece says that it changed.                        *)
(*                                                                                *)
(* Every event of the main loop is a step. Which squares accept a piece is the    *)
(* subject of Board, and the order of turns and messages that of Chess: here any  *)
(* square without a piece of the mover's does, and the turn goes back and forth.  *)
EXTENDS Integers, FiniteSets

CONSTANTS Side,   \* squares along an edge of the board: 8
          Width,  \* rectangle_width and rectangle_height: 59
          Ids,    \* the pieces
          Mine,   \* those of this player
          Pawns,
          Home,   \* where each piece begins
          Spots,  \* the pixels mouse packets may bring the cursor to
          NULL

UINT16_MAX == 65535

Square == (0 .. Side - 1) \X (0 .. Side - 1)

ASSUME PiecesAssumption ==
  /\ Side \in Nat \ {0} /\ Width \in Nat \ {0, 1}
  /\ \A n \in 0 .. Side - 1 : n * Width <= UINT16_MAX
  /\ Mine \subseteq Ids /\ Pawns \subseteq Ids /\ NULL \notin Ids
  /\ Home \in [Ids -> Square] /\ \A a, b \in Ids : Home[a] = Home[b] => a = b
  /\ Spots \subseteq Nat \X Nat

VARIABLES board, piece,
          dragging, from,  \* dragging_piece, inicialPieceCol/Row
          pressed,         \* cursor.pressed
          animation,
          turn,            \* "mine"; "theirs"; "coming": their move is played, YOUR_TURN is not in yet
          redrawPieces,
          mem_pieces       \* the images in the buffer: <<piece, x, y>>

vars == <<board, piece, dragging, from, pressed, animation, turn, redrawPieces, mem_pieces>>

\* uint16_t
Coordinate == 0 .. UINT16_MAX

Piece == [x : Coordinate, y : Coordinate,                \* absolute_x, absolute_y
          target_x : Coordinate, target_y : Coordinate,
          is_moving : BOOLEAN, priority_draw : BOOLEAN, change : BOOLEAN, pawn_moved : BOOLEAN]

\* getScreenX and getScreenY, from the corner of the board.
screenOf(sq) == <<sq[1] * Width, sq[2] * Width>>

\* getBoardX and getBoardY.
squareAt(spot) == <<spot[1] \div Width, spot[2] \div Width>>

onBoard(id) == \E sq \in Square : board[sq] = id

\* initPiece does not initialise change; a target is set before it is read.
Init ==
  /\ board = [sq \in Square |-> IF \E id \in Ids : Home[id] = sq
                                THEN CHOOSE id \in Ids : Home[id] = sq ELSE NULL]
  /\ \E changed \in [Ids -> BOOLEAN] :
       piece = [id \in Ids |-> [x |-> screenOf(Home[id])[1], y |-> screenOf(Home[id])[2],
                                target_x |-> 0, target_y |-> 0, is_moving |-> FALSE,
                                priority_draw |-> FALSE, change |-> changed[id],
                                pawn_moved |-> FALSE]]
  /\ dragging = NULL /\ from = <<0, 0>>
  /\ pressed = FALSE /\ animation = TRUE
  /\ turn \in {"mine", "theirs"}
  /\ redrawPieces = TRUE /\ mem_pieces = {}

----------------------------------------------------------------------------------
(* piece.c, as operators from a piece to the next one *)

setPiecePosition(p, pos) == [p EXCEPT !.x = pos[1] % (UINT16_MAX + 1), !.y = pos[2] % (UINT16_MAX + 1)]

movePiece(p, pos) ==
  [p EXCEPT !.change = TRUE, !.is_moving = TRUE, !.priority_draw = TRUE,
            !.target_x = pos[1], !.target_y = pos[2]]

changePiecePriority(p, priority) == [p EXCEPT !.priority_draw = priority, !.change = TRUE]

\* Mutant: the comparisons the wrong way round.
towards_away(pos, target) ==
  IF target - pos > 0 THEN pos - 1 ELSE IF target - pos < 0 THEN pos + 1 ELSE pos

towards(pos, target) ==
  IF target - pos > 0 THEN pos + 1 ELSE IF target - pos < 0 THEN pos - 1 ELSE pos

\* Mutant: the piece is never at rest.
stopped_moving(p) == [p EXCEPT !.priority_draw = FALSE, !.change = TRUE]

\* Mutant: a piece that stops does not say so.
stopped_silent(p) == [p EXCEPT !.is_moving = FALSE, !.priority_draw = FALSE]

stopped(p) == [p EXCEPT !.is_moving = FALSE, !.priority_draw = FALSE, !.change = TRUE]

arrived(p) == p.x = p.target_x /\ p.y = p.target_y

\* Both coordinates advance, and the first step of a pawn is recorded. A piece stops
\* in the frame after the one in which it arrives.
updatePiece(id, p) ==
  IF arrived(p) THEN stopped(p)
  ELSE [p EXCEPT !.x = towards(p.x, p.target_x), !.y = towards(p.y, p.target_y),
                 !.pawn_moved = p.pawn_moved \/ id \in Pawns]

updatePiece_no_animation(p) == stopped([p EXCEPT !.x = p.target_x, !.y = p.target_y])

----------------------------------------------------------------------------------
(* NEW_FRAME *)

\* What updateBoard does to a piece on the board, before it looks at change.
updated(id) ==
  IF ~(onBoard(id) /\ piece[id].is_moving) THEN piece[id]
  ELSE IF animation THEN updatePiece(id, piece[id])
  ELSE updatePiece_no_animation(piece[id])

\* drawBoardPieces, after updateBoard: the images it draws of the pieces with or
\* without priority, the buffer it leaves, and what is on the screen.
images(priority) == {<<id, updated(id).x, updated(id).y>> :
                       id \in {k \in Ids : onBoard(k) /\ updated(k).priority_draw = priority}}

buffer == IF redrawPieces \/ \E id \in Ids : onBoard(id) /\ updated(id).change
          THEN images(FALSE) ELSE mem_pieces

frame == buffer \cup images(TRUE)

draws == redrawPieces' = FALSE /\ mem_pieces' = buffer

\* The pieces after updateBoard.
afterUpdate(id) == IF onBoard(id) THEN [updated(id) EXCEPT !.change = FALSE] ELSE piece[id]

\* A frame in which no byte, or one that moves nothing, is received.
NewFrame ==
  /\ draws
  /\ piece' = [id \in Ids |-> afterUpdate(id)]
  /\ UNCHANGED <<board, dragging, from, pressed, animation, turn>>

\* The last byte of a position is received: the opponent's piece moves.
FrameWithMove(a, b) ==
  LET id == board[a]
  IN  /\ turn = "theirs"
      /\ id \in Ids \ Mine /\ board[b] \notin Ids \ Mine
      /\ draws
      /\ piece' = [k \in Ids |-> IF k = id THEN movePiece(afterUpdate(k), screenOf(b)) ELSE afterUpdate(k)]
      /\ board' = [board EXCEPT ![b] = id, ![a] = NULL]
      /\ turn' = "coming"
      /\ UNCHANGED <<dragging, from, pressed, animation>>

FrameWithTurn ==
  /\ turn = "coming"
  /\ draws
  /\ piece' = [id \in Ids |-> afterUpdate(id)]
  /\ turn' = "mine"
  /\ UNCHANGED <<board, dragging, from, pressed, animation>>

----------------------------------------------------------------------------------
(* KEYBOARD and MOUSE *)

ToggleAnimation ==
  /\ animation' = ~animation
  /\ UNCHANGED <<board, piece, dragging, from, pressed, turn, redrawPieces, mem_pieces>>

\* The centre of the dragged image follows the cursor; near the left and the upper
\* edge of the screen a coordinate wraps.
Drag(spot, lb) ==
  /\ dragging # NULL /\ ~(pressed /\ ~lb)
  /\ piece' = [piece EXCEPT ![dragging] =
                 setPiecePosition(@, <<spot[1] - Width \div 2, spot[2] - Width \div 2>>)]
  /\ pressed' = lb
  /\ UNCHANGED <<board, dragging, from, animation, turn, redrawPieces, mem_pieces>>

\* The square under the cursor is looked up on the board: its piece may still be
\* gliding elsewhere.
PickUp(spot) ==
  LET sq == squareAt(spot)
  IN  /\ dragging = NULL /\ turn = "mine"
      /\ sq \in Square /\ board[sq] \in Mine
      /\ dragging' = board[sq] /\ from' = sq
      /\ piece' = [piece EXCEPT ![board[sq]] = changePiecePriority(@, TRUE)]
      /\ pressed' = TRUE
      /\ UNCHANGED <<board, animation, turn, redrawPieces, mem_pieces>>

\* Any other packet with nothing dragged.
Point(spot, lb) ==
  /\ dragging = NULL
  /\ ~(lb /\ turn = "mine" /\ squareAt(spot) \in Square /\ board[squareAt(spot)] \in Mine)
  /\ pressed' = lb
  /\ UNCHANGED <<board, piece, dragging, from, animation, turn, redrawPieces, mem_pieces>>

\* Mutant: the glide begins where the piece was let go, over the new square itself.
glide_here(p, a, b) == movePiece(setPiecePosition(p, screenOf(b)), screenOf(b))

\* An accepted piece is put back where it came from and glides to the new square.
glide(p, a, b) == movePiece(setPiecePosition(p, screenOf(a)), screenOf(b))

\* Mutant: a refused piece stays where it was let go.
back_not(p, a) == p

\* A refused one is put back at once, even if it was still gliding there.
back(p, a) == setPiecePosition(p, screenOf(a))

\* The button is released over sq: the piece stays there, or goes back at once.
Drop(spot, accepted) ==
  LET sq == squareAt(spot)
      p == changePiecePriority(piece[dragging], FALSE)
  IN  /\ dragging # NULL /\ pressed
      /\ accepted => sq \in Square /\ sq # from /\ board[sq] \notin Mine
      /\ IF accepted
         THEN /\ piece' = [piece EXCEPT ![dragging] = glide(p, from, sq)]
              /\ board' = [board EXCEPT ![from] = NULL, ![sq] = dragging]
              /\ turn' = "theirs"
         ELSE /\ piece' = [piece EXCEPT ![dragging] = back(p, from)]
              /\ UNCHANGED <<board, turn>>
      /\ dragging' = NULL /\ pressed' = FALSE
      /\ redrawPieces' = TRUE
      /\ UNCHANGED <<from, animation, mem_pieces>>

Next == \/ NewFrame \/ FrameWithTurn \/ \E a, b \in Square : FrameWithMove(a, b)
        \/ ToggleAnimation
        \/ \E spot \in Spots : \/ PickUp(spot)
                               \/ \E lb \in BOOLEAN : Drag(spot, lb) \/ Point(spot, lb)
                               \/ \E accepted \in BOOLEAN : Drop(spot, accepted)

Frame == NewFrame \/ FrameWithTurn \/ \E a, b \in Square : FrameWithMove(a, b)

\* The timer interrupts for ever.
Spec == Init /\ [][Next]_vars /\ WF_vars(Frame)

----------------------------------------------------------------------------------
(* Properties *)

TypeOK == /\ board \in [Square -> Ids \cup {NULL}]
          /\ piece \in [Ids -> Piece]
          /\ dragging \in Ids \cup {NULL} /\ from \in Square
          /\ pressed \in BOOLEAN /\ animation \in BOOLEAN
          /\ turn \in {"mine", "theirs", "coming"}
          /\ redrawPieces \in BOOLEAN
          /\ mem_pieces \subseteq Ids \X Coordinate \X Coordinate

\* The image of a piece that is neither gliding nor dragged is on the square the board
\* says, and a glide leads there: also when a piece is picked up, captured or moved on
\* in the middle of its glide.
ImagesMatchBoard ==
  \A sq \in Square :
    board[sq] # NULL =>
      LET p == piece[board[sq]]
      IN  IF p.is_moving THEN <<p.target_x, p.target_y>> = screenOf(sq)
          ELSE board[sq] = dragging \/ <<p.x, p.y>> = screenOf(sq)

\* What Chess takes for granted about pawn_moved: whatever is dragged or received, a
\* pawn that is still gliding and not marked yet has a pixel to go, so its next frame, if
\* the animation is on, marks it. (With the animation off the glide ends at once and the
\* pawn stays unmarked: that is the run of MCPawn.)
UnmarkedPawnWillBeMarked ==
  \A id \in Pawns : onBoard(id) /\ piece[id].is_moving /\ ~piece[id].pawn_moved => ~arrived(piece[id])

\* Whenever a frame is drawn, it shows each piece on the board once, at its place, and
\* no other: the buffer is never out of date. (The piece in the player's hand may be
\* shown where it was: a glide that ends while the piece is dragged takes its priority
\* away.)
FrameShowsBoard ==
  \A id \in Ids :
    LET shown == {image \in frame : image[1] = id}
    IN  /\ onBoard(id) => Cardinality(shown) = 1
        /\ ~onBoard(id) => shown = {}
        /\ onBoard(id) /\ id # dragging => shown = {<<id, updated(id).x, updated(id).y>>}

\* A glide ends, unless the piece is picked up, taken or sent somewhere else.
GlideEnds ==
  \A id \in Ids, sq \in Square :
    (piece[id].is_moving /\ board[sq] = id)
      ~> (~piece[id].is_moving \/ board[sq] # id \/ dragging = id)
==================================================================================
