------------------------------- MODULE MCMidgame ---------------------------------
(* Games entered in the middle: both machines are in the game, every byte has     *)
(* been delivered, and white, on machine 1, is to move. Each of the three starts  *)
(* is a state that a game from Init reaches. ProgressSpec begins at Init as well. *)
EXTENDS Chess

\* In a Board, mem_board and mem_pieces come before the array; 64 is what follows it.
MCBeyond == {-2, -1, 64}

\* A pixel of the square of column c and row r that is on no button.
at(c, r) == <<getScreenX(c) + 3, getScreenY(r) + 20>>

a8 == 0
a7 == 8
a5 == 24
f7 == 13
f5 == 29
e2 == 52
e4 == 36
d1 == 59
h5 == 31

inGame(position, moved) ==
  [started EXCEPT !.gameState = "PLAYING", !.name_size = 1, !.board = position,
                  !.pawn_moved = moved]

\* The machines after white's last move w -> _ and black's last move b -> _.
whiteToMove(position, moved, w, b) ==
  /\ vm = [p \in Peer |->
             IF p = 1
             THEN [inGame(position, moved) EXCEPT
                     !.player = WHITE, !.myTurn = TRUE, !.byteOfMove = 1, !.old = b, !.from = w]
             ELSE [inGame(position, moved) EXCEPT
                     !.player = BLACK, !.byteOfMove = 1, !.old = w, !.from = b]]
  /\ hist = [choosers |-> {1}, corner |-> FALSE, flushed |-> FALSE]

\* The interrupts one notification may carry.
MouseAndTimer == {{}, {"timer"}, {"sp"}, {"mouse"}, {"timer", "mouse"}}

WithKeys == {{"timer"}, {"mouse"}, {"kb"}}

MCCodes == {KEY_Z}

----------------------------------------------------------------------------------
(* After 1. e4 f5 2. Qh5 fxe4: the queen can take the king, or step next to it.   *)

EndingInit ==
  whiteToMove([initBoard EXCEPT ![e2] = NULL, ![d1] = NULL, ![f7] = NULL, ![h5] = d1, ![e4] = f7],
              {e2, f7}, d1, f5)

EndingSpec == EndingInit /\ [][Next]_vars /\ Fairness

\* h5, f7, e8.
EndingSpots == {at(7, 3), at(5, 1), at(4, 0)}

\* Or from the very beginning: what has to happen, in the handshake and at the end.
ProgressSpec == (Init \/ EndingInit) /\ [][Next]_vars /\ Fairness

\* A letter and the end of a name.
ProgressCodes == {158, ENTER}

\* Each interrupt alone, none of them, and all of them in one notification.
ProgressNotifications == {{}, {"timer"}, {"sp"}, {"mouse"}, {"kb"}, {"timer", "sp", "mouse", "kb"}}

\* The white button, off the board; the black one, a pixel of e8; h5, f7.
ProgressSpots == {<<330, 540>>, <<330, 80>>, at(7, 3), at(5, 1)}

----------------------------------------------------------------------------------
(* After 1. e4 a5: the black rook is free to leave its corner.                    *)

CornerInit ==
  whiteToMove([initBoard EXCEPT ![e2] = NULL, ![e4] = e2, ![a7] = NULL, ![a5] = a7],
              {e2, a7}, e2, a7)

CornerSpec == CornerInit /\ [][Next]_vars

\* e4, e5, a8, a6.
CornerSpots == {at(4, 4), at(4, 3), at(0, 0), at(0, 2)}

----------------------------------------------------------------------------------
(* Before the first move, with the key that turns the animation off.              *)

PawnInit ==
  /\ vm = [p \in Peer |->
             IF p = 1 THEN [inGame(initBoard, {}) EXCEPT !.player = WHITE, !.myTurn = TRUE]
             ELSE [inGame(initBoard, {}) EXCEPT !.player = BLACK]]
  /\ hist = [choosers |-> {1}, corner |-> FALSE, flushed |-> FALSE]

PawnSpec == PawnInit /\ [][Next]_vars

\* e2, e4, e6, h7, h6.
PawnSpots == {at(4, 6), at(4, 4), at(4, 2), at(7, 1), at(7, 2)}
==================================================================================
