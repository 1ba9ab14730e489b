------------------------------ MODULE PiecesProofs -------------------------------
(* For every board, set of pieces and way of the cursor: the images of the pieces *)
(* follow the board, and every frame shows it.                                    *)
EXTENDS Pieces, FiniteSetTheorems, TLAPS

----------------------------------------------------------------------------------
(* The inductive invariant *)

\* A piece is on one square at most.
OneSquare == \A a, b \in Square : board[a] # NULL /\ board[a] = board[b] => a = b

\* A piece of this player's is in its hand, on its turn only, and still on the board
\* where it was picked up.
InHand == dragging # NULL => turn = "mine" /\ dragging \in Mine /\ board[from] = dragging

\* By the time this player may pick up a pawn a frame has marked it.
MarkedBeforeTurn ==
  turn # "theirs" =>
    \A id \in Pawns \cap Mine : onBoard(id) /\ piece[id].is_moving => piece[id].pawn_moved

\* A piece glides in front of the others, unless it was put back on its square in the
\* middle of its glide: then the next frame ends the glide.
GlidesInFront ==
  \A id \in Ids : onBoard(id) /\ piece[id].is_moving /\ ~piece[id].priority_draw =>
                    arrived(piece[id]) /\ id # dragging

\* Something makes the next frame draw the buffer again.
outdated == redrawPieces \/ \E id \in Ids : onBoard(id) /\ piece[id].change

imagesOf(id, set) == {image \in set : image[1] = id}

\* Otherwise it holds the pieces at rest, each where it is; the one in the hand, if it
\* is there, somewhere.
BufferIsCurrent ==
  ~outdated =>
    \A id \in Ids :
      /\ ~onBoard(id) \/ piece[id].priority_draw => imagesOf(id, mem_pieces) = {}
      /\ onBoard(id) /\ ~piece[id].priority_draw =>
           \E x, y \in Coordinate :
             /\ imagesOf(id, mem_pieces) = {<<id, x, y>>}
             /\ id # dragging => x = piece[id].x /\ y = piece[id].y

PiecesInv == /\ TypeOK
             /\ OneSquare /\ InHand
             /\ ImagesMatchBoard
             /\ UnmarkedPawnWillBeMarked /\ MarkedBeforeTurn
             /\ GlidesInFront /\ BufferIsCurrent

----------------------------------------------------------------------------------
(* One piece *)

LEMMA Maximum == UINT16_MAX \in Nat
BY DEF UINT16_MAX

LEMMA Modulo ==
  ASSUME NEW m \in Nat, NEW x \in Int
  PROVE  x % (m + 1) \in 0 .. m /\ (x \in 0 .. m => x % (m + 1) = x)
OBVIOUS

\* The images of two squares are apart, and on the screen.
LEMMA ScreenApart ==
  ASSUME NEW a \in Square, NEW b \in Square
  PROVE  /\ screenOf(a) \in Coordinate \X Coordinate
         /\ screenOf(a) = screenOf(b) => a = b
<1>1. /\ a[1] \in 0 .. Side - 1 /\ a[2] \in 0 .. Side - 1 /\ a = <<a[1], a[2]>>
      /\ b[1] \in 0 .. Side - 1 /\ b[2] \in 0 .. Side - 1 /\ b = <<b[1], b[2]>>
  BY DEF Square
<1>2. Side \in Nat /\ Width \in Nat \ {0} /\ \A n \in 0 .. Side - 1 : n * Width <= UINT16_MAX
  BY PiecesAssumption
<1>3. \A n \in 0 .. Side - 1 : n * Width \in Coordinate
  BY <1>2, Maximum DEF Coordinate
<1>4. \A n, m \in 0 .. Side - 1 : n * Width = m * Width => n = m
  BY <1>2
<1> QED BY <1>1, <1>3, <1>4 DEF screenOf

\* setPiecePosition keeps the position of a square.
LEMMA Positioned ==
  ASSUME NEW p \in Piece, NEW x \in Int, NEW y \in Int
  PROVE  LET q == setPiecePosition(p, <<x, y>>)
         IN  /\ q \in Piece
             /\ x \in Coordinate => q.x = x
             /\ y \in Coordinate => q.y = y
             /\ q.target_x = p.target_x /\ q.target_y = p.target_y
             /\ q.is_moving = p.is_moving /\ q.priority_draw = p.priority_draw
             /\ q.change = p.change /\ q.pawn_moved = p.pawn_moved
<1> DEFINE c == x % (UINT16_MAX + 1)
           d == y % (UINT16_MAX + 1)
<1>1. c \in Coordinate /\ d \in Coordinate /\ (x \in Coordinate => c = x) /\ (y \in Coordinate => d = y)
  BY Maximum, Modulo DEF Coordinate
<1>2. setPiecePosition(p, <<x, y>>) = [p EXCEPT !.x = c, !.y = d]
  BY DEF setPiecePosition
<1> HIDE DEF c, d
<1> QED BY <1>1, <1>2 DEF Piece

LEMMA PositionedOn ==
  ASSUME NEW p \in Piece, NEW sq \in Square
  PROVE  LET q == setPiecePosition(p, screenOf(sq))
         IN  /\ q \in Piece /\ <<q.x, q.y>> = screenOf(sq)
             /\ q.target_x = p.target_x /\ q.target_y = p.target_y
             /\ q.is_moving = p.is_moving /\ q.priority_draw = p.priority_draw
             /\ q.change = p.change /\ q.pawn_moved = p.pawn_moved
<1>1. PICK x \in Coordinate, y \in Coordinate : screenOf(sq) = <<x, y>>
  BY ScreenApart
<1>2. x \in Int /\ y \in Int
  BY Maximum DEF Coordinate
<1> DEFINE q == setPiecePosition(p, <<x, y>>)
<1>3. /\ q \in Piece /\ q.x = x /\ q.y = y
      /\ q.target_x = p.target_x /\ q.target_y = p.target_y
      /\ q.is_moving = p.is_moving /\ q.priority_draw = p.priority_draw
      /\ q.change = p.change /\ q.pawn_moved = p.pawn_moved
  BY <1>2, Positioned
<1> QED BY <1>1, <1>3

LEMMA Moved ==
  ASSUME NEW p \in Piece, NEW sq \in Square
  PROVE  LET q == movePiece(p, screenOf(sq))
         IN  /\ q \in Piece /\ <<q.target_x, q.target_y>> = screenOf(sq)
             /\ q.x = p.x /\ q.y = p.y /\ q.pawn_moved = p.pawn_moved
             /\ q.is_moving = TRUE /\ q.priority_draw = TRUE /\ q.change = TRUE
<1>1. PICK x \in Coordinate, y \in Coordinate : screenOf(sq) = <<x, y>>
  BY ScreenApart
<1>2. movePiece(p, screenOf(sq)) = [p EXCEPT !.change = TRUE, !.is_moving = TRUE, !.priority_draw = TRUE,
                                             !.target_x = x, !.target_y = y]
  BY <1>1 DEF movePiece
<1> QED BY <1>1, <1>2 DEF Piece

LEMMA Prioritised ==
  ASSUME NEW p \in Piece, NEW priority \in BOOLEAN
  PROVE  LET q == changePiecePriority(p, priority)
         IN  /\ q \in Piece /\ q.priority_draw = priority /\ q.change = TRUE
             /\ q.x = p.x /\ q.y = p.y /\ q.target_x = p.target_x /\ q.target_y = p.target_y
             /\ q.is_moving = p.is_moving /\ q.pawn_moved = p.pawn_moved
BY DEF changePiecePriority, Piece

LEMMA Towards ==
  ASSUME NEW pos \in Coordinate, NEW target \in Coordinate
  PROVE  towards(pos, target) \in Coordinate
BY Maximum DEF towards, Coordinate

\* What a frame does to a piece that glides.
Ends(p, q) ==
  /\ ~q.is_moving /\ ~q.priority_draw /\ q.change
  /\ q.x = p.target_x /\ q.y = p.target_y /\ q.pawn_moved = p.pawn_moved

Glides(id, p, q) ==
  /\ q.is_moving /\ q.priority_draw = p.priority_draw /\ q.change = p.change
  /\ q.target_x = p.target_x /\ q.target_y = p.target_y
  /\ id \in Pawns => q.pawn_moved

LEMMA Updated ==
  ASSUME TypeOK, NEW id \in Ids
  PROVE  LET p == piece[id]
             q == updated(id)
             glides == onBoard(id) /\ p.is_moving
         IN  /\ p \in Piece /\ q \in Piece
             /\ ~glides => q = p
             /\ glides /\ (arrived(p) \/ ~animation) => Ends(p, q)
             /\ glides /\ ~arrived(p) /\ animation => Glides(id, p, q)
<1> DEFINE p == piece[id]
           q == updated(id)
           glides == onBoard(id) /\ p.is_moving
<1>1. p \in Piece
  BY DEF TypeOK
<1> HIDE DEF p
<1>2. ASSUME NEW r \in Piece
      PROVE  /\ stopped(r) \in Piece /\ ~stopped(r).is_moving /\ ~stopped(r).priority_draw
             /\ stopped(r).change /\ stopped(r).x = r.x /\ stopped(r).y = r.y
             /\ stopped(r).pawn_moved = r.pawn_moved
  BY DEF stopped, Piece
<1>3. CASE glides /\ ~animation
  <2> DEFINE r == [p EXCEPT !.x = p.target_x, !.y = p.target_y]
  <2>1. /\ r \in Piece /\ r.x = p.target_x /\ r.y = p.target_y /\ r.pawn_moved = p.pawn_moved
    BY <1>1 DEF Piece
  <2>2. q = stopped(r)
    BY <1>3 DEF updated, updatePiece_no_animation, p
  <2> HIDE DEF r, q
  <2>3. q \in Piece /\ Ends(p, q)
    BY <1>2, <2>1, <2>2 DEF Ends
  <2> QED BY <1>1, <1>3, <2>3 DEF p, q
<1>4. CASE glides /\ animation /\ arrived(p)
  <2>1. q = stopped(p)
    BY <1>4 DEF updated, updatePiece, p
  <2>2. p.x = p.target_x /\ p.y = p.target_y
    BY <1>4 DEF arrived
  <2> HIDE DEF q
  <2>3. q \in Piece /\ Ends(p, q)
    BY <1>1, <1>2, <2>1, <2>2 DEF Ends
  <2> QED BY <1>1, <1>4, <2>3 DEF p, q
<1>5. CASE glides /\ animation /\ ~arrived(p)
  <2> DEFINE c == towards(p.x, p.target_x)
             d == towards(p.y, p.target_y)
             m == p.pawn_moved \/ id \in Pawns
  <2>1. c \in Coordinate /\ d \in Coordinate /\ m \in BOOLEAN /\ (id \in Pawns => m = TRUE)
    BY <1>1, Towards DEF Piece
  <2>2. q = [p EXCEPT !.x = c, !.y = d, !.pawn_moved = m]
    BY <1>5 DEF updated, updatePiece, p
  <2> HIDE DEF c, d, m, q
  <2>3. q \in Piece
    BY <1>1, <2>1, <2>2 DEF Piece
  <2>4. Glides(id, p, q)
    BY <1>1, <1>5, <2>1, <2>2 DEF Piece, Glides
  <2> QED BY <1>1, <1>5, <2>3, <2>4 DEF p, q
<1>6. CASE ~glides
  <2>1. q = p
    BY <1>6 DEF updated, p
  <2> QED BY <1>1, <1>6, <2>1 DEF p
<1> QED BY <1>3, <1>4, <1>5, <1>6, <1>1

----------------------------------------------------------------------------------
(* One frame *)

\* A piece on square sq after a frame: it says that nothing changed; it rests on its
\* square, or is in the hand, or glides there in front of the others; a pawn that
\* glides is marked.
Drawn(id, sq, q) ==
  /\ q \in Piece /\ ~q.change
  /\ IF q.is_moving THEN <<q.target_x, q.target_y>> = screenOf(sq) /\ q.priority_draw
     ELSE id = dragging \/ <<q.x, q.y>> = screenOf(sq)
  /\ id \in Pawns /\ q.is_moving => q.pawn_moved

LEMMA AfterFrame ==
  ASSUME PiecesInv, NEW id \in Ids
  PROVE  /\ afterUpdate(id) \in Piece
         /\ \A sq \in Square : board[sq] = id => Drawn(id, sq, afterUpdate(id))
         /\ ~onBoard(id) => afterUpdate(id) = piece[id]
         /\ onBoard(id) => /\ ~afterUpdate(id).change
                           /\ afterUpdate(id).x = updated(id).x /\ afterUpdate(id).y = updated(id).y
                           /\ afterUpdate(id).priority_draw = updated(id).priority_draw
<1> DEFINE p == piece[id]
           u == updated(id)
           q == afterUpdate(id)
<1>1. /\ p \in Piece /\ u \in Piece
      /\ ~(onBoard(id) /\ p.is_moving) => u = p
      /\ onBoard(id) /\ p.is_moving /\ (arrived(p) \/ ~animation) => Ends(p, u)
      /\ onBoard(id) /\ p.is_moving /\ ~arrived(p) /\ animation => Glides(id, p, u)
  BY Updated DEF PiecesInv
<1>2. ~onBoard(id) => q = p
  BY DEF afterUpdate
<1>3. onBoard(id) => q = [u EXCEPT !.change = FALSE]
  BY DEF afterUpdate
<1> HIDE DEF q, u
<1>4. onBoard(id) => /\ q \in Piece /\ ~q.change /\ q.x = u.x /\ q.y = u.y
                     /\ q.target_x = u.target_x /\ q.target_y = u.target_y
                     /\ q.is_moving = u.is_moving /\ q.priority_draw = u.priority_draw
                     /\ q.pawn_moved = u.pawn_moved
  BY <1>1, <1>3 DEF Piece
<1>5. ASSUME NEW sq \in Square, board[sq] = id PROVE Drawn(id, sq, q)
  <2>1. onBoard(id) /\ id # NULL
    BY <1>5, PiecesAssumption DEF onBoard
  <2>2. IF p.is_moving THEN <<p.target_x, p.target_y>> = screenOf(sq)
        ELSE id = dragging \/ <<p.x, p.y>> = screenOf(sq)
    BY <1>5, <2>1 DEF PiecesInv, ImagesMatchBoard
  <2>3. p.is_moving /\ ~p.priority_draw => arrived(p)
    BY <2>1 DEF PiecesInv, GlidesInFront
  <2> HIDE DEF p
  <2>4. CASE ~p.is_moving
    BY <1>1, <1>4, <2>1, <2>2, <2>4 DEF Drawn
  <2>5. CASE p.is_moving /\ (arrived(p) \/ ~animation)
    <3>1. Ends(p, u)
      BY <1>1, <2>1, <2>5
    <3> QED BY <1>4, <2>1, <2>2, <2>5, <3>1 DEF Drawn, Ends
  <2>6. CASE p.is_moving /\ ~arrived(p) /\ animation
    <3>1. Glides(id, p, u)
      BY <1>1, <2>1, <2>6
    <3> QED BY <1>4, <2>1, <2>2, <2>3, <2>6, <3>1 DEF Drawn, Glides
  <2> QED BY <1>1, <2>4, <2>5, <2>6
<1> QED BY <1>1, <1>2, <1>4, <1>5 DEF q, u

\* The images drawn with a given priority.
LEMMA ImagesOf ==
  ASSUME NEW id \in Ids, NEW priority
  PROVE  imagesOf(id, images(priority)) =
           IF onBoard(id) /\ updated(id).priority_draw = priority
           THEN {<<id, updated(id).x, updated(id).y>>} ELSE {}
<1> DEFINE K == {k \in Ids : onBoard(k) /\ updated(k).priority_draw = priority}
           image(k) == <<k, updated(k).x, updated(k).y>>
<1>1. images(priority) = {image(k) : k \in K}
  BY DEF images
<1>2. \A k : image(k)[1] = k
  OBVIOUS
<1>3. id \in K <=> onBoard(id) /\ updated(id).priority_draw = priority
  OBVIOUS
<1> HIDE DEF K, image
<1>4. imagesOf(id, images(priority)) = IF id \in K THEN {image(id)} ELSE {}
  BY <1>1, <1>2 DEF imagesOf
<1> QED BY <1>3, <1>4 DEF image

\* The buffer after a frame.
LEMMA AfterBuffer ==
  ASSUME PiecesInv, NEW id \in Ids
  PROVE  LET q == afterUpdate(id)
         IN  /\ ~onBoard(id) \/ q.priority_draw => imagesOf(id, buffer) = {}
             /\ onBoard(id) /\ ~q.priority_draw =>
                  \E x, y \in Coordinate :
                    /\ imagesOf(id, buffer) = {<<id, x, y>>}
                    /\ id # dragging => x = q.x /\ y = q.y
<1> DEFINE p == piece[id]
           u == updated(id)
           q == afterUpdate(id)
           again == redrawPieces \/ \E k \in Ids : onBoard(k) /\ updated(k).change
<1>1. /\ p \in Piece /\ u \in Piece
      /\ ~(onBoard(id) /\ p.is_moving) => u = p
      /\ onBoard(id) /\ p.is_moving /\ (arrived(p) \/ ~animation) => Ends(p, u)
      /\ onBoard(id) /\ p.is_moving /\ ~arrived(p) /\ animation => Glides(id, p, u)
  BY Updated DEF PiecesInv
<1>2. /\ q \in Piece
      /\ onBoard(id) => q.x = u.x /\ q.y = u.y /\ q.priority_draw = u.priority_draw
  BY AfterFrame
<1>3. u.x \in Coordinate /\ u.y \in Coordinate /\ u.priority_draw \in BOOLEAN
  BY <1>1 DEF Piece
<1>4. CASE again
  <2>1. buffer = images(FALSE)
    BY <1>4 DEF buffer
  <2>2. imagesOf(id, buffer) = IF onBoard(id) /\ u.priority_draw = FALSE
                               THEN {<<id, u.x, u.y>>} ELSE {}
    BY <2>1, ImagesOf
  <2> HIDE DEF q, u
  <2> QED BY <1>2, <1>3, <2>2 DEF q
<1>5. CASE ~again
  <2>1. buffer = mem_pieces
    BY <1>5 DEF buffer
  <2>2. \A k \in Ids : onBoard(k) /\ piece[k].change => updated(k).change
    <3> SUFFICES ASSUME NEW k \in Ids, onBoard(k), piece[k].change PROVE updated(k).change
      OBVIOUS
    <3>1. updated(k) = piece[k] \/ Ends(piece[k], updated(k)) \/ Glides(k, piece[k], updated(k))
      BY Updated DEF PiecesInv
    <3> QED BY <3>1 DEF Ends, Glides
  <2>3. ~outdated
    BY <1>5, <2>2 DEF outdated
  <2>4. /\ ~onBoard(id) \/ p.priority_draw => imagesOf(id, buffer) = {}
        /\ onBoard(id) /\ ~p.priority_draw =>
             \E x, y \in Coordinate :
               /\ imagesOf(id, buffer) = {<<id, x, y>>}
               /\ id # dragging => x = p.x /\ y = p.y
    BY <2>1, <2>3 DEF PiecesInv, BufferIsCurrent
  <2>5. CASE ~onBoard(id)
    BY <2>4, <2>5
  <2>6. CASE onBoard(id)
    <3>1. ~u.change
      BY <1>5, <2>6
    <3>2. p.is_moving => ~arrived(p) /\ animation /\ Glides(id, p, u)
      BY <1>1, <2>6, <3>1 DEF Ends
    <3>3. p.is_moving => p.priority_draw
      BY <2>6, <3>2 DEF PiecesInv, GlidesInFront
    <3> HIDE DEF p, u, q
    <3>4. u.priority_draw = p.priority_draw
      BY <1>1, <3>2 DEF Glides
    <3>5. ~p.priority_draw => u = p
      BY <1>1, <3>3
    <3> QED BY <1>2, <2>4, <2>6, <3>4, <3>5 DEF q
  <2> QED BY <2>5, <2>6
<1> QED BY <1>4, <1>5

\* What a frame drawn in such a state shows.
LEMMA FrameShows == PiecesInv => FrameShowsBoard
<1> SUFFICES ASSUME PiecesInv, NEW id \in Ids
             PROVE  LET shown == {image \in frame : image[1] = id}
                    IN  /\ onBoard(id) => Cardinality(shown) = 1
                        /\ ~onBoard(id) => shown = {}
                        /\ onBoard(id) /\ id # dragging => shown = {<<id, updated(id).x, updated(id).y>>}
  BY DEF FrameShowsBoard
<1> DEFINE u == updated(id)
           q == afterUpdate(id)
           shown == {image \in frame : image[1] = id}
<1>1. shown = imagesOf(id, buffer) \cup imagesOf(id, images(TRUE))
  BY DEF frame, imagesOf
<1>2. imagesOf(id, images(TRUE)) = IF onBoard(id) /\ u.priority_draw = TRUE
                                   THEN {<<id, u.x, u.y>>} ELSE {}
  BY ImagesOf
<1>3. /\ ~onBoard(id) \/ q.priority_draw => imagesOf(id, buffer) = {}
      /\ onBoard(id) /\ ~q.priority_draw =>
           \E x, y \in Coordinate :
             /\ imagesOf(id, buffer) = {<<id, x, y>>}
             /\ id # dragging => x = q.x /\ y = q.y
  BY AfterBuffer
<1>4. /\ u \in Piece
      /\ onBoard(id) => q.x = u.x /\ q.y = u.y /\ q.priority_draw = u.priority_draw
  BY Updated, AfterFrame DEF PiecesInv
<1>5. u.priority_draw \in BOOLEAN
  BY <1>4 DEF Piece
<1> HIDE DEF u, q, shown
<1>6. CASE ~onBoard(id)
  BY <1>1, <1>2, <1>3, <1>6 DEF shown
<1>7. CASE onBoard(id)
  <2>1. PICK x, y : shown = {<<id, x, y>>} /\ (id # dragging => x = u.x /\ y = u.y)
    <3>1. CASE u.priority_draw = TRUE
      <4>1. shown = {<<id, u.x, u.y>>}
        BY <1>1, <1>2, <1>3, <1>4, <1>7, <3>1
      <4> QED BY <4>1
    <3>2. CASE u.priority_draw = FALSE
      <4>1. PICK x \in Coordinate, y \in Coordinate :
              imagesOf(id, buffer) = {<<id, x, y>>} /\ (id # dragging => x = q.x /\ y = q.y)
        BY <1>3, <1>4, <1>7, <3>2
      <4>2. shown = {<<id, x, y>>}
        BY <1>1, <1>2, <3>2, <4>1
      <4> QED BY <1>4, <1>7, <4>1, <4>2
    <3> QED BY <1>5, <3>1, <3>2
  <2>2. Cardinality(shown) = 1
    BY <2>1, FS_Singleton
  <2>3. id # dragging => shown = {<<id, u.x, u.y>>}
    BY <2>1
  <2> QED BY <1>7, <2>2, <2>3 DEF shown, u
<1> QED BY <1>6, <1>7

----------------------------------------------------------------------------------
(* The actions *)

LEMMA BufferType ==
  ASSUME PiecesInv
  PROVE  buffer \subseteq Ids \X Coordinate \X Coordinate
<1>1. \A id \in Ids : updated(id) \in Piece
  BY Updated DEF PiecesInv
<1>2. \A id \in Ids : updated(id).x \in Coordinate /\ updated(id).y \in Coordinate
  BY <1>1 DEF Piece
<1>3. images(FALSE) \subseteq Ids \X Coordinate \X Coordinate
  BY <1>2 DEF images
<1> QED BY <1>3 DEF buffer, PiecesInv, TypeOK

\* A frame that moves nothing.
LEMMA FrameKeeps ==
  ASSUME PiecesInv, draws, piece' = [id \in Ids |-> afterUpdate(id)],
         UNCHANGED <<board, dragging, from, pressed, animation>>,
         turn' = turn \/ (turn = "coming" /\ turn' = "mine")
  PROVE  PiecesInv'
<1>1. /\ board' = board /\ dragging' = dragging /\ from' = from
      /\ pressed' = pressed /\ animation' = animation
      /\ redrawPieces' = FALSE /\ mem_pieces' = buffer
      /\ \A id \in Ids : piece'[id] = afterUpdate(id)
  BY DEF draws
<1>2. \A id : onBoard(id)' <=> onBoard(id)
  BY <1>1 DEF onBoard
<1>3. ASSUME NEW id \in Ids
      PROVE  /\ piece'[id] \in Piece
             /\ \A sq \in Square : board[sq] = id => Drawn(id, sq, piece'[id])
             /\ onBoard(id) => ~piece'[id].change
  BY <1>1, AfterFrame
<1>4. ASSUME NEW id \in Ids, onBoard(id)
      PROVE  /\ piece'[id].is_moving => piece'[id].priority_draw
             /\ id \in Pawns /\ piece'[id].is_moving => piece'[id].pawn_moved
  BY <1>3, <1>4 DEF onBoard, Drawn
<1>5. TypeOK'
  <2>1. piece' \in [Ids -> Piece]
    BY <1>3
  <2>2. mem_pieces' \subseteq Ids \X Coordinate \X Coordinate
    BY <1>1, BufferType
  <2> QED BY <1>1, <2>1, <2>2 DEF PiecesInv, TypeOK
<1>6. OneSquare' /\ InHand'
  BY <1>1 DEF PiecesInv, OneSquare, InHand
<1>7. ImagesMatchBoard'
  <2> SUFFICES ASSUME NEW sq \in Square, board[sq] # NULL
               PROVE  LET p == piece'[board[sq]]
                      IN  IF p.is_moving THEN <<p.target_x, p.target_y>> = screenOf(sq)
                          ELSE board[sq] = dragging \/ <<p.x, p.y>> = screenOf(sq)
    BY <1>1 DEF ImagesMatchBoard
  <2>1. board[sq] \in Ids
    BY DEF PiecesInv, TypeOK
  <2>2. Drawn(board[sq], sq, piece'[board[sq]])
    BY <1>3, <2>1
  <2> QED BY <2>2 DEF Drawn
<1>8. UnmarkedPawnWillBeMarked' /\ MarkedBeforeTurn'
  BY <1>2, <1>4, PiecesAssumption DEF UnmarkedPawnWillBeMarked, MarkedBeforeTurn
<1>9. GlidesInFront'
  BY <1>2, <1>4 DEF GlidesInFront
<1>10. BufferIsCurrent'
  <2> SUFFICES ASSUME NEW id \in Ids
               PROVE  /\ ~onBoard(id) \/ piece'[id].priority_draw => imagesOf(id, mem_pieces') = {}
                      /\ onBoard(id) /\ ~piece'[id].priority_draw =>
                           \E x, y \in Coordinate :
                             /\ imagesOf(id, mem_pieces') = {<<id, x, y>>}
                             /\ id # dragging => x = piece'[id].x /\ y = piece'[id].y
    BY <1>1, <1>2 DEF BufferIsCurrent
  <2> QED BY <1>1, AfterBuffer
<1> QED BY <1>5, <1>6, <1>7, <1>8, <1>9, <1>10 DEF PiecesInv

\* A frame in which the opponent's piece moves.
LEMMA MoveKeeps ==
  ASSUME PiecesInv, NEW a \in Square, NEW b \in Square, FrameWithMove(a, b)
  PROVE  PiecesInv'
<1>0. PICK id \in Ids : id = board[a]
  BY DEF FrameWithMove
<1> DEFINE q == afterUpdate(id)
<1>1. /\ id \in Ids /\ id \notin Mine /\ id # NULL /\ a # b /\ board[b] # id
      /\ turn = "theirs" /\ dragging = NULL
  BY <1>0, PiecesAssumption DEF FrameWithMove, PiecesInv, InHand
<1>2. /\ dragging' = NULL /\ from' = from /\ pressed' = pressed /\ animation' = animation
      /\ turn' = "coming" /\ redrawPieces' = FALSE /\ mem_pieces' = buffer
  BY <1>1 DEF FrameWithMove, draws
<1>3. /\ board' \in [Square -> Ids \cup {NULL}]
      /\ \A sq \in Square : board'[sq] = IF sq = a THEN NULL ELSE IF sq = b THEN id ELSE board[sq]
  BY <1>0, <1>1 DEF FrameWithMove, PiecesInv, TypeOK
<1>4. /\ piece'[id] = movePiece(q, screenOf(b))
      /\ \A k \in Ids : k # id => piece'[k] = afterUpdate(k)
      /\ DOMAIN piece' = Ids
      /\ piece' = [k \in Ids |-> piece'[k]]
  BY <1>0, <1>1 DEF FrameWithMove
<1>5. q \in Piece /\ Drawn(id, a, q)
  BY <1>0, <1>1, AfterFrame
<1> HIDE DEF q
<1>6. /\ piece'[id] \in Piece /\ <<piece'[id].target_x, piece'[id].target_y>> = screenOf(b)
      /\ piece'[id].x = q.x /\ piece'[id].y = q.y /\ piece'[id].pawn_moved = q.pawn_moved
      /\ piece'[id].is_moving = TRUE /\ piece'[id].priority_draw = TRUE /\ piece'[id].change = TRUE
  <2> DEFINE r == movePiece(q, screenOf(b))
  <2>1. /\ r \in Piece /\ <<r.target_x, r.target_y>> = screenOf(b)
        /\ r.x = q.x /\ r.y = q.y /\ r.pawn_moved = q.pawn_moved
        /\ r.is_moving = TRUE /\ r.priority_draw = TRUE /\ r.change = TRUE
    BY <1>5, Moved
  <2> HIDE DEF r
  <2> QED BY <1>4, <2>1 DEF r
<1>7. ASSUME NEW k \in Ids, NEW sq \in Square, k # id, board'[sq] = k
      PROVE  board[sq] = k /\ piece'[k] = afterUpdate(k) /\ Drawn(k, sq, piece'[k])
  <2>1. board[sq] = k
    BY <1>3, <1>7, PiecesAssumption
  <2> QED BY <1>4, <1>7, <2>1, AfterFrame
<1>8. ASSUME NEW k \in Ids, k # id, onBoard(k)'
      PROVE  /\ piece'[k].is_moving => piece'[k].priority_draw
             /\ k \in Pawns /\ piece'[k].is_moving => piece'[k].pawn_moved
  BY <1>7, <1>8 DEF onBoard, Drawn
<1>9. TypeOK'
  <2>1. \A k \in Ids : piece'[k] \in Piece
    BY <1>4, <1>6, AfterFrame
  <2>2. piece' \in [Ids -> Piece]
    BY <1>4, <2>1
  <2>3. mem_pieces' \subseteq Ids \X Coordinate \X Coordinate
    BY <1>2, BufferType
  <2> QED BY <1>1, <1>2, <1>3, <2>2, <2>3 DEF PiecesInv, TypeOK
<1>10. OneSquare'
  <2> SUFFICES ASSUME NEW c \in Square, NEW d \in Square, board'[c] # NULL, board'[c] = board'[d]
               PROVE  c = d
    BY DEF OneSquare
  <2>1. \A e \in Square : board[e] = id => e = a
    BY <1>0, <1>1 DEF PiecesInv, OneSquare
  <2> QED BY <1>1, <1>3, <2>1 DEF PiecesInv, OneSquare
<1>11. InHand'
  BY <1>2 DEF InHand
<1>12. ImagesMatchBoard'
  <2> SUFFICES ASSUME NEW sq \in Square, board'[sq] # NULL
               PROVE  LET p == piece'[board'[sq]]
                      IN  IF p.is_moving THEN <<p.target_x, p.target_y>> = screenOf(sq)
                          ELSE board'[sq] = dragging' \/ <<p.x, p.y>> = screenOf(sq)
    BY DEF ImagesMatchBoard
  <2>1. board'[sq] \in Ids
    BY <1>3
  <2>2. CASE board'[sq] = id
    <3>1. sq = b
      BY <1>0, <1>1, <1>3, <2>2 DEF PiecesInv, OneSquare
    <3> QED BY <1>6, <2>2, <3>1
  <2>3. CASE board'[sq] # id
    <3>1. Drawn(board'[sq], sq, piece'[board'[sq]])
      BY <1>7, <2>1, <2>3
    <3> QED BY <1>1, <1>2, <2>1, <3>1, PiecesAssumption DEF Drawn
  <2> QED BY <2>2, <2>3
<1>13. UnmarkedPawnWillBeMarked'
  <2> SUFFICES ASSUME NEW k \in Pawns, onBoard(k)', piece'[k].is_moving, ~piece'[k].pawn_moved
               PROVE  ~arrived(piece'[k])
    BY DEF UnmarkedPawnWillBeMarked
  <2>1. k = id
    BY <1>8, PiecesAssumption
  <2>2. <<q.x, q.y>> = screenOf(a)
    BY <1>1, <1>5, <1>6, <2>1, PiecesAssumption DEF Drawn
  <2>3. screenOf(a) # screenOf(b)
    BY <1>1, ScreenApart
  <2> QED BY <1>6, <2>1, <2>2, <2>3 DEF arrived
<1>14. MarkedBeforeTurn'
  BY <1>1, <1>8, PiecesAssumption DEF MarkedBeforeTurn
<1>15. GlidesInFront'
  BY <1>6, <1>8 DEF GlidesInFront
<1>16. BufferIsCurrent'
  <2>1. onBoard(id)'
    BY <1>1, <1>3 DEF onBoard
  <2> QED BY <1>1, <1>6, <2>1 DEF BufferIsCurrent, outdated
<1> QED BY <1>9, <1>10, <1>11, <1>12, <1>13, <1>14, <1>15, <1>16 DEF PiecesInv

LEMMA PickUpKeeps ==
  ASSUME PiecesInv, NEW spot \in Spots, PickUp(spot)
  PROVE  PiecesInv'
<1>1. PICK sq \in Square, id \in Mine :
        /\ board[sq] = id /\ dragging = NULL /\ turn = "mine"
        /\ dragging' = id /\ from' = sq /\ pressed' = TRUE
        /\ piece' = [piece EXCEPT ![id] = changePiecePriority(piece[id], TRUE)]
        /\ UNCHANGED <<board, animation, turn, redrawPieces, mem_pieces>>
  BY DEF PickUp
<1>2. id \in Ids /\ id # NULL /\ piece \in [Ids -> Piece] /\ onBoard(id)
  BY <1>1, PiecesAssumption DEF PiecesInv, TypeOK, onBoard
<1> DEFINE p == piece[id]
           q == changePiecePriority(p, TRUE)
<1>3. /\ q \in Piece /\ q.priority_draw = TRUE /\ q.change = TRUE
      /\ q.x = p.x /\ q.y = p.y /\ q.target_x = p.target_x /\ q.target_y = p.target_y
      /\ q.is_moving = p.is_moving /\ q.pawn_moved = p.pawn_moved
  BY <1>2, Prioritised
<1> HIDE DEF q
<1>4. /\ piece' \in [Ids -> Piece] /\ piece'[id] = q
      /\ \A k \in Ids : k # id => piece'[k] = piece[k]
  BY <1>1, <1>2, <1>3 DEF q
<1>5. \A k \in Ids : /\ piece'[k].is_moving = piece[k].is_moving
                     /\ piece'[k].pawn_moved = piece[k].pawn_moved
                     /\ piece'[k].x = piece[k].x /\ piece'[k].y = piece[k].y
                     /\ piece'[k].target_x = piece[k].target_x
                     /\ piece'[k].target_y = piece[k].target_y
  BY <1>3, <1>4
<1>6. board' = board /\ \A k : onBoard(k)' <=> onBoard(k)
  BY <1>1 DEF onBoard
<1>7. \A k \in Ids : arrived(piece'[k]) <=> arrived(piece[k])
  BY <1>5 DEF arrived
<1>8. TypeOK'
  BY <1>1, <1>2, <1>4 DEF PiecesInv, TypeOK
<1>9. OneSquare' /\ InHand'
  BY <1>1 DEF PiecesInv, OneSquare, InHand
<1>10. ImagesMatchBoard'
  <2> SUFFICES ASSUME NEW c \in Square, board[c] # NULL
               PROVE  LET u == piece'[board[c]]
                      IN  IF u.is_moving THEN <<u.target_x, u.target_y>> = screenOf(c)
                          ELSE board[c] = dragging' \/ <<u.x, u.y>> = screenOf(c)
    BY <1>6 DEF ImagesMatchBoard
  <2>1. board[c] \in Ids
    BY DEF PiecesInv, TypeOK
  <2>2. LET u == piece[board[c]]
        IN  IF u.is_moving THEN <<u.target_x, u.target_y>> = screenOf(c)
            ELSE <<u.x, u.y>> = screenOf(c)
    BY <1>1 DEF PiecesInv, ImagesMatchBoard
  <2> QED BY <1>5, <2>1, <2>2
<1>11. UnmarkedPawnWillBeMarked' /\ MarkedBeforeTurn'
  BY <1>1, <1>5, <1>6, <1>7, PiecesAssumption DEF PiecesInv, UnmarkedPawnWillBeMarked, MarkedBeforeTurn
<1>12. GlidesInFront'
  BY <1>1, <1>3, <1>4, <1>5, <1>6, <1>7 DEF PiecesInv, GlidesInFront
<1>13. BufferIsCurrent'
  BY <1>2, <1>3, <1>4, <1>6 DEF BufferIsCurrent, outdated
<1> QED BY <1>8, <1>9, <1>10, <1>11, <1>12, <1>13 DEF PiecesInv

LEMMA DragKeeps ==
  ASSUME PiecesInv, NEW spot \in Spots, NEW lb \in BOOLEAN, Drag(spot, lb)
  PROVE  PiecesInv'
<1> DEFINE x == spot[1] - Width \div 2
           y == spot[2] - Width \div 2
<1>1. PICK id \in Ids :
        /\ id = dragging
        /\ piece' = [piece EXCEPT ![id] = setPiecePosition(piece[id], <<x, y>>)]
        /\ pressed' = lb
        /\ UNCHANGED <<board, dragging, from, animation, turn, redrawPieces, mem_pieces>>
  BY DEF Drag, PiecesInv, TypeOK
<1>2. /\ id # NULL /\ piece \in [Ids -> Piece]
      /\ turn = "mine" /\ id \in Mine /\ board[from] = id /\ onBoard(id)
  BY <1>1, PiecesAssumption DEF PiecesInv, TypeOK, InHand, onBoard
<1>3. x \in Int /\ y \in Int
  BY PiecesAssumption
<1> DEFINE p == piece[id]
           q == setPiecePosition(p, <<x, y>>)
<1>4. /\ q \in Piece
      /\ q.target_x = p.target_x /\ q.target_y = p.target_y
      /\ q.is_moving = p.is_moving /\ q.priority_draw = p.priority_draw
      /\ q.change = p.change /\ q.pawn_moved = p.pawn_moved
  <2> HIDE DEF x, y
  <2> QED BY <1>2, <1>3, Positioned
<1> HIDE DEF q, x, y
<1>5. /\ piece' \in [Ids -> Piece] /\ piece'[id] = q
      /\ \A k \in Ids : k # id => piece'[k] = piece[k]
  BY <1>1, <1>2, <1>4 DEF q
<1>6. \A k \in Ids : /\ piece'[k].is_moving = piece[k].is_moving
                     /\ piece'[k].pawn_moved = piece[k].pawn_moved
                     /\ piece'[k].priority_draw = piece[k].priority_draw
                     /\ piece'[k].change = piece[k].change
                     /\ piece'[k].target_x = piece[k].target_x
                     /\ piece'[k].target_y = piece[k].target_y
  BY <1>4, <1>5
<1>7. /\ board' = board /\ dragging' = id /\ turn' = turn /\ mem_pieces' = mem_pieces
      /\ \A k : onBoard(k)' <=> onBoard(k)
  BY <1>1 DEF onBoard
<1>8. TypeOK'
  BY <1>1, <1>5 DEF PiecesInv, TypeOK
<1>9. OneSquare' /\ InHand'
  BY <1>1 DEF PiecesInv, OneSquare, InHand
<1>10. ImagesMatchBoard'
  BY <1>1, <1>5, <1>6, <1>7 DEF PiecesInv, TypeOK, ImagesMatchBoard
<1>11. MarkedBeforeTurn'
  BY <1>6, <1>7, PiecesAssumption DEF PiecesInv, MarkedBeforeTurn
<1>12. UnmarkedPawnWillBeMarked'
  <2> SUFFICES ASSUME NEW k \in Pawns, onBoard(k)', piece'[k].is_moving, ~piece'[k].pawn_moved
               PROVE  ~arrived(piece'[k])
    BY DEF UnmarkedPawnWillBeMarked
  <2>1. k \in Ids /\ onBoard(k) /\ piece[k].is_moving /\ ~piece[k].pawn_moved
    BY <1>6, <1>7, PiecesAssumption
  <2>2. k # id
    BY <1>2, <2>1, PiecesAssumption DEF PiecesInv, MarkedBeforeTurn
  <2> QED BY <1>5, <2>1, <2>2 DEF PiecesInv, UnmarkedPawnWillBeMarked
<1>13. GlidesInFront'
  BY <1>1, <1>5, <1>6, <1>7 DEF PiecesInv, GlidesInFront
<1>14. BufferIsCurrent'
  <2>1. outdated' <=> outdated
    BY <1>1, <1>6, <1>7 DEF outdated
  <2> SUFFICES ASSUME ~outdated, NEW k \in Ids
               PROVE  /\ ~onBoard(k) \/ piece'[k].priority_draw => imagesOf(k, mem_pieces') = {}
                      /\ onBoard(k) /\ ~piece'[k].priority_draw =>
                           \E c, d \in Coordinate :
                             /\ imagesOf(k, mem_pieces') = {<<k, c, d>>}
                             /\ k # dragging' => c = piece'[k].x /\ d = piece'[k].y
    BY <1>7, <2>1 DEF BufferIsCurrent
  <2>2. /\ ~onBoard(k) \/ piece[k].priority_draw => imagesOf(k, mem_pieces) = {}
        /\ onBoard(k) /\ ~piece[k].priority_draw =>
             \E c, d \in Coordinate :
               /\ imagesOf(k, mem_pieces) = {<<k, c, d>>}
               /\ k # dragging => c = piece[k].x /\ d = piece[k].y
    BY DEF PiecesInv, BufferIsCurrent
  <2> QED BY <1>1, <1>5, <1>6, <1>7, <2>2
<1> QED BY <1>8, <1>9, <1>10, <1>11, <1>12, <1>13, <1>14 DEF PiecesInv

LEMMA DropKeeps ==
  ASSUME PiecesInv, NEW spot \in Spots, NEW accepted \in BOOLEAN, Drop(spot, accepted)
  PROVE  PiecesInv'
<1>1. PICK id \in Ids, a \in Square : id = dragging /\ a = from
  BY DEF Drop, PiecesInv, TypeOK
<1> DEFINE p == piece[id]
           r == changePiecePriority(p, FALSE)
           q == setPiecePosition(r, screenOf(a))
<1>2. /\ id # NULL /\ piece \in [Ids -> Piece] /\ board \in [Square -> Ids \cup {NULL}]
      /\ turn = "mine" /\ id \in Mine /\ board[a] = id /\ onBoard(id)
  BY <1>1, PiecesAssumption DEF PiecesInv, TypeOK, InHand, onBoard
<1>3. \A sq \in Square : board[sq] = id => sq = a
  BY <1>2 DEF PiecesInv, OneSquare
<1>4. /\ dragging' = NULL /\ pressed' = FALSE /\ redrawPieces' = TRUE
      /\ UNCHANGED <<from, animation, mem_pieces>>
  BY DEF Drop
<1>5. /\ q \in Piece /\ <<q.x, q.y>> = screenOf(a)
      /\ q.target_x = p.target_x /\ q.target_y = p.target_y
      /\ q.is_moving = p.is_moving /\ q.priority_draw = FALSE
      /\ q.pawn_moved = p.pawn_moved
  <2>1. /\ r \in Piece /\ r.priority_draw = FALSE
        /\ r.target_x = p.target_x /\ r.target_y = p.target_y
        /\ r.is_moving = p.is_moving /\ r.pawn_moved = p.pawn_moved
    BY <1>2, Prioritised
  <2> HIDE DEF r
  <2>2. /\ q \in Piece /\ <<q.x, q.y>> = screenOf(a)
        /\ q.target_x = r.target_x /\ q.target_y = r.target_y
        /\ q.is_moving = r.is_moving /\ q.priority_draw = r.priority_draw
        /\ q.pawn_moved = r.pawn_moved
    BY <2>1, PositionedOn
  <2> HIDE DEF q
  <2> QED BY <2>1, <2>2
<1>6. (OneSquare' /\ InHand' /\ BufferIsCurrent') \/ accepted
  BY <1>4 DEF Drop, PiecesInv, OneSquare, InHand, BufferIsCurrent, outdated
<1>7. CASE ~accepted
  <2>1. /\ piece' = [piece EXCEPT ![id] = q]
        /\ board' = board /\ turn' = turn
    BY <1>1, <1>7 DEF Drop, back
  <2> HIDE DEF q
  <2>2. /\ piece' \in [Ids -> Piece] /\ piece'[id] = q
        /\ \A k \in Ids : k # id => piece'[k] = piece[k]
    BY <1>2, <1>5, <2>1
  <2>3. \A k \in Ids : /\ piece'[k].is_moving = piece[k].is_moving
                       /\ piece'[k].pawn_moved = piece[k].pawn_moved
                       /\ piece'[k].target_x = piece[k].target_x
                       /\ piece'[k].target_y = piece[k].target_y
    BY <1>5, <2>2
  <2>4. \A k : onBoard(k)' <=> onBoard(k)
    BY <2>1 DEF onBoard
  <2>5. TypeOK'
    BY <1>1, <1>4, <2>1, <2>2 DEF PiecesInv, TypeOK
  <2>6. ImagesMatchBoard'
    <3> SUFFICES ASSUME NEW sq \in Square, board[sq] # NULL
                 PROVE  LET u == piece'[board[sq]]
                        IN  IF u.is_moving THEN <<u.target_x, u.target_y>> = screenOf(sq)
                            ELSE board[sq] = dragging' \/ <<u.x, u.y>> = screenOf(sq)
      BY <2>1 DEF ImagesMatchBoard
    <3>1. board[sq] \in Ids
      BY <1>2
    <3>2. LET u == piece[board[sq]]
          IN  IF u.is_moving THEN <<u.target_x, u.target_y>> = screenOf(sq)
              ELSE board[sq] = dragging \/ <<u.x, u.y>> = screenOf(sq)
      BY DEF PiecesInv, ImagesMatchBoard
    <3>3. CASE board[sq] = id
      <4>1. sq = a
        BY <1>3, <3>3
      <4> QED BY <1>5, <2>2, <2>3, <3>1, <3>2, <3>3, <4>1
    <3>4. CASE board[sq] # id
      BY <1>1, <2>2, <3>1, <3>2, <3>4
    <3> QED BY <3>3, <3>4
  <2>7. MarkedBeforeTurn'
    BY <2>1, <2>3, <2>4, PiecesAssumption DEF PiecesInv, MarkedBeforeTurn
  <2>8. UnmarkedPawnWillBeMarked'
    <3> SUFFICES ASSUME NEW k \in Pawns, onBoard(k)', piece'[k].is_moving, ~piece'[k].pawn_moved
                 PROVE  ~arrived(piece'[k])
      BY DEF UnmarkedPawnWillBeMarked
    <3>1. k \in Ids /\ onBoard(k) /\ piece[k].is_moving /\ ~piece[k].pawn_moved
      BY <2>3, <2>4, PiecesAssumption
    <3>2. k # id
      BY <1>2, <3>1, PiecesAssumption DEF PiecesInv, MarkedBeforeTurn
    <3> QED BY <2>2, <3>1, <3>2 DEF PiecesInv, UnmarkedPawnWillBeMarked
  <2>9. GlidesInFront'
    <3> SUFFICES ASSUME NEW k \in Ids, onBoard(k), piece'[k].is_moving, ~piece'[k].priority_draw
                 PROVE  arrived(piece'[k]) /\ k # dragging'
      BY <2>4 DEF GlidesInFront
    <3>1. k # NULL
      BY PiecesAssumption
    <3>2. CASE k = id
      <4>1. p.is_moving /\ <<p.target_x, p.target_y>> = screenOf(a)
        BY <1>2, <2>3, <3>2 DEF PiecesInv, ImagesMatchBoard
      <4>2. arrived(q)
        BY <1>5, <4>1 DEF arrived
      <4> QED BY <1>4, <2>2, <3>1, <3>2, <4>2
    <3>3. CASE k # id
      BY <1>4, <2>2, <3>1, <3>3 DEF PiecesInv, GlidesInFront
    <3> QED BY <3>2, <3>3
  <2> QED BY <1>6, <1>7, <2>5, <2>6, <2>7, <2>8, <2>9 DEF PiecesInv
<1>8. CASE accepted
  <2>1. PICK b \in Square :
          /\ b # a /\ board[b] \notin Mine
          /\ piece' = [piece EXCEPT ![id] = movePiece(q, screenOf(b))]
          /\ board' = [board EXCEPT ![a] = NULL, ![b] = id]
          /\ turn' = "theirs"
    BY <1>1, <1>8 DEF Drop, glide
  <2> DEFINE t == movePiece(q, screenOf(b))
  <2> HIDE DEF q
  <2>2. /\ t \in Piece /\ <<t.target_x, t.target_y>> = screenOf(b)
        /\ t.x = q.x /\ t.y = q.y
        /\ t.is_moving = TRUE /\ t.priority_draw = TRUE
    BY <1>5, Moved
  <2> HIDE DEF t
  <2>3. /\ piece' \in [Ids -> Piece] /\ piece'[id] = t
        /\ \A k \in Ids : k # id => piece'[k] = piece[k]
    BY <1>2, <2>1, <2>2 DEF t
  <2>4. /\ board' \in [Square -> Ids \cup {NULL}]
        /\ \A sq \in Square : board'[sq] = IF sq = a THEN NULL ELSE IF sq = b THEN id ELSE board[sq]
    BY <1>2, <2>1
  <2>5. ASSUME NEW k \in Ids, k # id, onBoard(k)' PROVE onBoard(k)
    BY <2>4, <2>5, PiecesAssumption DEF onBoard
  <2>6. TypeOK'
    BY <1>1, <1>4, <2>1, <2>3, <2>4 DEF PiecesInv, TypeOK
  <2>7. OneSquare'
    <3> SUFFICES ASSUME NEW c \in Square, NEW d \in Square, board'[c] # NULL, board'[c] = board'[d]
                 PROVE  c = d
      BY DEF OneSquare
    <3> QED BY <1>2, <1>3, <2>4 DEF PiecesInv, OneSquare
  <2>8. InHand' /\ MarkedBeforeTurn' /\ BufferIsCurrent'
    BY <1>4, <2>1 DEF InHand, MarkedBeforeTurn, BufferIsCurrent, outdated
  <2>9. ImagesMatchBoard'
    <3> SUFFICES ASSUME NEW sq \in Square, board'[sq] # NULL
                 PROVE  LET u == piece'[board'[sq]]
                        IN  IF u.is_moving THEN <<u.target_x, u.target_y>> = screenOf(sq)
                            ELSE board'[sq] = dragging' \/ <<u.x, u.y>> = screenOf(sq)
      BY DEF ImagesMatchBoard
    <3>1. board'[sq] \in Ids
      BY <2>4
    <3>2. CASE board'[sq] = id
      <4>1. sq = b
        BY <1>2, <1>3, <2>4, <3>2
      <4> QED BY <2>2, <2>3, <3>2, <4>1
    <3>3. CASE board'[sq] # id
      <4>1. board[sq] = board'[sq] /\ board[sq] # dragging
        BY <1>1, <2>4, <3>3
      <4>2. LET u == piece[board[sq]]
            IN  IF u.is_moving THEN <<u.target_x, u.target_y>> = screenOf(sq)
                ELSE board[sq] = dragging \/ <<u.x, u.y>> = screenOf(sq)
        BY <4>1 DEF PiecesInv, ImagesMatchBoard
      <4> QED BY <2>3, <3>1, <3>3, <4>1, <4>2
    <3> QED BY <3>2, <3>3
  <2>10. UnmarkedPawnWillBeMarked'
    <3> SUFFICES ASSUME NEW k \in Pawns, onBoard(k)', piece'[k].is_moving, ~piece'[k].pawn_moved
                 PROVE  ~arrived(piece'[k])
      BY DEF UnmarkedPawnWillBeMarked
    <3>1. CASE k = id
      <4>1. screenOf(a) # screenOf(b)
        BY <2>1, ScreenApart
      <4> QED BY <1>5, <2>2, <2>3, <3>1, <4>1 DEF arrived
    <3>2. CASE k # id
      <4>1. k \in Ids /\ onBoard(k) /\ piece'[k] = piece[k]
        BY <2>3, <2>5, <3>2, PiecesAssumption
      <4> QED BY <4>1 DEF PiecesInv, UnmarkedPawnWillBeMarked
    <3> QED BY <3>1, <3>2
  <2>11. GlidesInFront'
    <3> SUFFICES ASSUME NEW k \in Ids, onBoard(k)', piece'[k].is_moving, ~piece'[k].priority_draw
                 PROVE  arrived(piece'[k]) /\ k # dragging'
      BY DEF GlidesInFront
    <3>1. k # id /\ k # NULL
      BY <2>2, <2>3, PiecesAssumption
    <3>2. onBoard(k) /\ piece'[k] = piece[k]
      BY <2>3, <2>5, <3>1
    <3> QED BY <1>4, <3>1, <3>2 DEF PiecesInv, GlidesInFront
  <2> QED BY <2>6, <2>7, <2>8, <2>9, <2>10, <2>11 DEF PiecesInv
<1> QED BY <1>7, <1>8

----------------------------------------------------------------------------------

LEMMA InitPieces == Init => PiecesInv
<1> SUFFICES ASSUME Init PROVE PiecesInv
  OBVIOUS
<1>1. /\ dragging = NULL /\ from = <<0, 0>> /\ pressed = FALSE /\ animation = TRUE
      /\ turn \in {"mine", "theirs"} /\ redrawPieces = TRUE /\ mem_pieces = {}
  BY DEF Init
<1>2. ASSUME NEW sq \in Square
      PROVE  /\ board[sq] \in Ids \cup {NULL}
             /\ \A id \in Ids : board[sq] = id => Home[id] = sq
  <2>1. board[sq] = IF \E id \in Ids : Home[id] = sq THEN CHOOSE id \in Ids : Home[id] = sq ELSE NULL
    BY DEF Init
  <2> QED BY <2>1, PiecesAssumption
<1>3. DOMAIN board = Square /\ board = [sq \in Square |-> board[sq]]
  BY DEF Init
<1>4. ASSUME NEW id \in Ids
      PROVE  /\ piece[id] \in Piece /\ <<piece[id].x, piece[id].y>> = screenOf(Home[id])
             /\ ~piece[id].is_moving
  <2>1. Home[id] \in Square
    BY PiecesAssumption
  <2>2. PICK x \in Coordinate, y \in Coordinate : screenOf(Home[id]) = <<x, y>>
    BY <2>1, ScreenApart
  <2>3. PICK c \in BOOLEAN :
          piece[id] = [x |-> x, y |-> y, target_x |-> 0, target_y |-> 0, is_moving |-> FALSE,
                       priority_draw |-> FALSE, change |-> c, pawn_moved |-> FALSE]
    <3>1. PICK changed \in [Ids -> BOOLEAN] :
            piece = [k \in Ids |-> [x |-> screenOf(Home[k])[1], y |-> screenOf(Home[k])[2],
                                    target_x |-> 0, target_y |-> 0, is_moving |-> FALSE,
                                    priority_draw |-> FALSE, change |-> changed[k],
                                    pawn_moved |-> FALSE]]
      BY DEF Init
    <3>2. screenOf(Home[id])[1] = x /\ screenOf(Home[id])[2] = y
      BY <2>2
    <3>3. changed[id] \in BOOLEAN
      BY <3>1
    <3> QED BY <3>1, <3>2, <3>3
  <2>4. 0 \in Coordinate
    BY Maximum DEF Coordinate
  <2> QED BY <2>2, <2>3, <2>4 DEF Piece
<1>5. TypeOK
  <2>1. piece = [id \in Ids |-> piece[id]]
    BY DEF Init
  <2>2. piece \in [Ids -> Piece]
    BY <1>4, <2>1
  <2>3. board \in [Square -> Ids \cup {NULL}]
    BY <1>2, <1>3
  <2>4. <<0, 0>> \in Square
    BY PiecesAssumption DEF Square
  <2> QED BY <1>1, <2>2, <2>3, <2>4 DEF TypeOK
<1>6. OneSquare
  <2> SUFFICES ASSUME NEW a \in Square, NEW b \in Square, board[a] # NULL, board[a] = board[b]
               PROVE  a = b
    BY DEF OneSquare
  <2>1. board[a] \in Ids
    BY <1>2
  <2> QED BY <1>2, <2>1
<1>7. ImagesMatchBoard
  <2> SUFFICES ASSUME NEW sq \in Square, board[sq] # NULL
               PROVE  LET p == piece[board[sq]]
                      IN  ~p.is_moving /\ <<p.x, p.y>> = screenOf(sq)
    BY DEF ImagesMatchBoard
  <2>1. board[sq] \in Ids /\ Home[board[sq]] = sq
    BY <1>2
  <2> QED BY <1>4, <2>1
<1>8. InHand /\ BufferIsCurrent
  BY <1>1 DEF InHand, BufferIsCurrent, outdated
<1>9. UnmarkedPawnWillBeMarked /\ MarkedBeforeTurn /\ GlidesInFront
  BY <1>4, PiecesAssumption DEF UnmarkedPawnWillBeMarked, MarkedBeforeTurn, GlidesInFront
<1> QED BY <1>5, <1>6, <1>7, <1>8, <1>9 DEF PiecesInv

\* An event that touches no piece.
LEMMA StillKeeps ==
  ASSUME PiecesInv, pressed' \in BOOLEAN, animation' \in BOOLEAN,
         UNCHANGED <<board, piece, dragging, from, turn, redrawPieces, mem_pieces>>
  PROVE  PiecesInv'
<1>1. \A k : onBoard(k)' <=> onBoard(k)
  BY DEF onBoard
<1>2. outdated' <=> outdated
  BY <1>1 DEF outdated
<1>3. TypeOK' /\ OneSquare' /\ InHand' /\ ImagesMatchBoard'
  BY DEF PiecesInv, TypeOK, OneSquare, InHand, ImagesMatchBoard
<1>4. UnmarkedPawnWillBeMarked' /\ MarkedBeforeTurn' /\ GlidesInFront'
  BY <1>1 DEF PiecesInv, UnmarkedPawnWillBeMarked, MarkedBeforeTurn, GlidesInFront
<1>5. BufferIsCurrent'
  BY <1>1, <1>2 DEF PiecesInv, BufferIsCurrent
<1> QED BY <1>3, <1>4, <1>5 DEF PiecesInv

LEMMA NextPieces == PiecesInv /\ [Next]_vars => PiecesInv'
<1> SUFFICES ASSUME PiecesInv, [Next]_vars PROVE PiecesInv'
  OBVIOUS
<1>1. CASE NewFrame
  BY <1>1, FrameKeeps DEF NewFrame
<1>2. CASE FrameWithTurn
  BY <1>2, FrameKeeps DEF FrameWithTurn
<1>3. ASSUME NEW a \in Square, NEW b \in Square, FrameWithMove(a, b) PROVE PiecesInv'
  BY <1>3, MoveKeeps
<1>4. CASE ToggleAnimation
  BY <1>4, StillKeeps DEF ToggleAnimation, PiecesInv, TypeOK
<1>5. ASSUME NEW spot \in Spots, NEW lb \in BOOLEAN, Point(spot, lb) PROVE PiecesInv'
  BY <1>5, StillKeeps DEF Point, PiecesInv, TypeOK
<1>6. CASE UNCHANGED vars
  BY <1>6, StillKeeps DEF vars, PiecesInv, TypeOK
<1> QED BY <1>1, <1>2, <1>3, <1>4, <1>5, <1>6, PickUpKeeps, DragKeeps, DropKeeps DEF Next

\* For every board, player, way of the cursor and order of frames, moves and clicks:
\* the pieces, the board and the buffer fit together.
THEOREM PiecesHold == Spec => []PiecesInv
BY InitPieces, NextPieces, PTL DEF Spec

\* Coordinates stay in uint16_t and every piece that is looked up is one of the pieces.
THEOREM PiecesTypeOK == Spec => []TypeOK
<1>1. PiecesInv => TypeOK
  BY DEF PiecesInv
<1> QED BY <1>1, PiecesHold, PTL

\* Images rest on the squares the board says, or glide towards them.
THEOREM ImagesFollowBoard == Spec => []ImagesMatchBoard
<1>1. PiecesInv => ImagesMatchBoard
  BY DEF PiecesInv
<1> QED BY <1>1, PiecesHold, PTL

\* A pawn that has been moved is marked before it can be moved again.
THEOREM PawnsAreMarked == Spec => []UnmarkedPawnWillBeMarked
<1>1. PiecesInv => UnmarkedPawnWillBeMarked
  BY DEF PiecesInv
<1> QED BY <1>1, PiecesHold, PTL

\* Every frame shows each piece on the board once, where it is, and nothing else: no
\* event leaves an image in the buffer that is out of date.
THEOREM FramesShowBoard == Spec => []FrameShowsBoard
BY FrameShows, PiecesHold, PTL
==================================================================================
