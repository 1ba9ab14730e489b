---------------------------------- MODULE Board ----------------------------------
(* board.c, piece.h and the tests main.c makes on a board: the geometry of the    *)
(* screen, the initial position, the squares possiblePosition paints orange, and  *)
(* whether a piece dropped on a square moves there.                               *)
(* A piece is named by the square it starts on, so that Ids stands for the 32     *)
(* malloc'ed Piece structs; board[s] is the pointer stored at square s.           *)
EXTENDS Integers, FiniteSets

CONSTANT Beyond \* the indices outside board->board at which a read finds no NULL

\* PieceType
b_pawn == 0
b_knight == 1
b_bishop == 2
b_rook == 3
b_queen == 4
b_king == 5
w_pawn == 6
w_knight == 7
w_bishop == 8
w_rook == 9
w_queen == 10
w_king == 11

Square == 0 .. 63

Ids == 0 .. 15 \cup 48 .. 63

NULL == -1

get_position(x, y) == x + y * 8

Col(s) == s % 8

Row(s) == s \div 8

onBoard(x, y) == x \in 0 .. 7 /\ y \in 0 .. 7

\* The back rank of initBoard, as the types of the black pieces.
backRank == [x \in 0 .. 7 |->
               CASE x \in {0, 7} -> b_rook
                 [] x \in {1, 6} -> b_knight
                 [] x \in {2, 5} -> b_bishop
                 [] x = 3 -> b_queen
                 [] x = 4 -> b_king]

type == [id \in Ids |-> CASE Row(id) = 0 -> backRank[Col(id)]
                          [] Row(id) = 1 -> b_pawn
                          [] Row(id) = 6 -> w_pawn
                          [] Row(id) = 7 -> backRank[Col(id)] + w_pawn]

initBoard == [s \in Square |-> IF s \in Ids THEN s ELSE NULL]

isKing(id) == type[id] \in {b_king, w_king}

----------------------------------------------------------------------------------
(* Geometry, for the 800x600 mode 0x115 that proj_main_loop sets.                 *)

rectangle_width == 59         \* (600 - 128) / 8, also rectangle_height
left_rectangle_width == 65    \* (800 - 8 * 59) * 0.20, truncated
top_margin == 64              \* vertical_margin / 2

getScreenX(col) == col * rectangle_width + left_rectangle_width

getScreenY(row) == top_margin + row * rectangle_width

\* The subtraction and the division are unsigned: left of the margin the result is
\* not negative but 2^32 / 59 or so (2^32 = 59 * 72796055 + 51).
unsignedDiv59(n) == IF n >= 0 THEN n \div rectangle_width
                    ELSE 72796055 + ((n + 51) \div rectangle_width)

getBoardX(absoluteX) == unsignedDiv59(absoluteX - left_rectangle_width)

getBoardY(absoluteY) == unsignedDiv59(absoluteY - top_margin)

----------------------------------------------------------------------------------
(* possiblePosition. The result is the set of squares left orange: those whose    *)
(* top left pixel, the one playing_ih looks at, is painted.                       *)

uint16(n) == n % 2^16

\* draw_rectangle(board->mem_board, x, y, 59, 59, orange), for uint16_t x and y.
draw_rectangle(x, y) ==
  IF onBoard(getBoardX(x), getBoardY(y))
  THEN {get_position(c, r) : c \in {k \in 0 .. 7 : getScreenX(k) \in x .. (x + rectangle_width - 1)},
                             r \in {k \in 0 .. 7 : getScreenY(k) \in y .. (y + rectangle_width - 1)}}
  ELSE {}

\* The calls for a set of columns and rows, of which some are beside the board.
paint(squares) ==
  UNION {draw_rectangle(uint16(getScreenX(c[1])), uint16(getScreenY(c[2]))) : c \in squares}

\* board->board[y*8+x] as the bishop's and the pawn's cases read it, without a test of
\* x and y: beside the board it is a square of another row, or a word outside the array.
occupied(board, x, y) ==
  LET n == get_position(x, y)
  IN  IF n \in Square THEN board[n] # NULL ELSE n \in Beyond

\* Mutant: a ray that does not stop at the first piece.
rayThrough(board, x, y, dx, dy) == {<<x + i * dx, y + i * dy>> : i \in 1 .. 7}

\* The squares from (x,y) towards (dx,dy), up to and with the first piece. (The rook's
\* loops end at the edge of the board, beyond which nothing is painted.)
ray(board, x, y, dx, dy) ==
  {<<x + i * dx, y + i * dy>> :
     i \in {n \in 1 .. 7 : \A j \in 1 .. (n - 1) : ~occupied(board, x + j * dx, y + j * dy)}}

bishopRays(board, x, y) ==
  UNION {ray(board, x, y, d[1], d[2]) : d \in {-1, 1} \X {-1, 1}}

\* The rook loops start on the piece's own square and paint it as well.
rookRays(board, x, y) ==
  {<<x, y>>} \cup UNION {ray(board, x, y, d[1], d[2]) : d \in {<<0, 1>>, <<0, -1>>, <<1, 0>>, <<-1, 0>>}}

\* Mutant: the flat hops are forgotten.
knightHops_tall(x, y) == {<<x + d[1], y + d[2]>> : d \in {-1, 1} \X {-2, 2}}

knightHops(x, y) ==
  {<<x + d[1], y + d[2]>> : d \in ({-2, 2} \X {-1, 1}) \cup ({-1, 1} \X {-2, 2})}

kingSteps(x, y) ==
  {<<x + d[1], y + d[2]>> : d \in ({-1, 0, 1} \X {-1, 0, 1}) \ {<<0, 0>>}}

\* Pawns: step is the row direction, prey the types painted on the diagonals.
pawnTargets(board, moved, x, y, step, prey) ==
  {c \in {x - 1, x + 1} \X {y + step} :
     /\ onBoard(c[1], c[2]) /\ occupied(board, c[1], c[2])
     /\ type[board[get_position(c[1], c[2])]] \in prey}
  \cup {<<x, y + i * step>> :
          i \in {n \in 1 .. (IF moved THEN 1 ELSE 2) : \A j \in 1 .. n : ~occupied(board, x, y + j * step)}}

possiblePosition(board, moved, id, x, y) ==
  paint(CASE type[id] = b_pawn -> pawnTargets(board, moved, x, y, 1, b_king .. w_king)
          [] type[id] = w_pawn -> pawnTargets(board, moved, x, y, -1, b_pawn .. b_queen)
          [] type[id] \in {b_knight, w_knight} -> knightHops(x, y)
          [] type[id] \in {b_king, w_king} -> kingSteps(x, y)
          [] type[id] \in {b_rook, w_rook} -> rookRays(board, x, y)
          [] type[id] \in {b_bishop, w_bishop} -> bishopRays(board, x, y)
          [] type[id] \in {b_queen, w_queen} ->
               bishopRays(board, x, y) \cup rookRays(board, x, y))

\* The test of playing_ih on two pieces: the enumeration puts black below white.
sameTeam(id1, id2) == (type[id1] > b_king) <=> (type[id2] > b_king)

\* Mutant: an occupied square is always taken.
accepts_anything(board, lit, id, s) == s \in lit

\* What playing_ih makes of a piece dropped on square s while the squares lit are
\* orange: it moves there if s is orange and free or held by the other team.
accepts(board, lit, id, s) ==
  s \in lit /\ (board[s] = NULL \/ ~sameTeam(id, board[s]))
==================================================================================
