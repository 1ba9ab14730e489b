------------------------------- MODULE ChessRules --------------------------------
(* The reference that possiblePosition is compared with: the moves of the pieces  *)
(* as a player knows them, stated on displacements and on the squares in between, *)
(* not on loops and rays. No castling, en passant, promotion or check: the code   *)
(* has none, the game ends when a king is taken.                                  *)
EXTENDS Board

abs(n) == IF n < 0 THEN -n ELSE n

isWhite(id) == type[id] >= w_pawn

kind(id) == type[id] % 6

\* s lies strictly inside the segment from a to b.
between(a, s, b) ==
  LET dx == Col(b) - Col(a)
      dy == Row(b) - Row(a)
      ex == Col(s) - Col(a)
      ey == Row(s) - Row(a)
  IN  /\ s \notin {a, b}
      /\ ex * dy = ey * dx
      /\ ex * dx >= 0 /\ ey * dy >= 0
      /\ abs(ex) <= abs(dx) /\ abs(ey) <= abs(dy)

ChessMove(board, moved, id, a, b) ==
  LET dx == Col(b) - Col(a)
      dy == Row(b) - Row(a)
      forward == IF isWhite(id) THEN -1 ELSE 1
      clear == \A s \in Square : between(a, s, b) => board[s] = NULL
      free == board[b] = NULL
      enemy == ~free /\ isWhite(board[b]) # isWhite(id)
      straight == (dx = 0 \/ dy = 0) /\ clear
      diagonal == abs(dx) = abs(dy) /\ clear
  IN  /\ a # b
      /\ free \/ enemy
      /\ \/ kind(id) = b_pawn /\ dx = 0 /\ dy = forward /\ free
         \/ kind(id) = b_pawn /\ dx = 0 /\ dy = 2 * forward /\ free /\ clear /\ ~moved
         \/ kind(id) = b_pawn /\ abs(dx) = 1 /\ dy = forward /\ enemy
         \/ kind(id) = b_knight /\ {abs(dx), abs(dy)} = {1, 2}
         \/ kind(id) = b_bishop /\ diagonal
         \/ kind(id) = b_rook /\ straight
         \/ kind(id) = b_queen /\ (straight \/ diagonal)
         \/ kind(id) = b_king /\ abs(dx) <= 1 /\ abs(dy) <= 1
==================================================================================
