--------------------------------- MODULE MCBoard ---------------------------------
(* possiblePosition against ChessRules. A position is built by putting pieces on  *)
(* an empty board: first one of Movers on one of MoverSquares, then up to         *)
(* MaxBlockers of Blockers anywhere. In every position every piece is tried on    *)
(* every square.                                                                  *)
EXTENDS ChessRules

\* In a Board, mem_board and mem_pieces come before the array; 64 is what follows it.
MCBeyond == {-2, -1, 64}

CONSTANTS Movers, Blockers, MoverSquares, MaxBlockers

ASSUME PositionsAssumption ==
  /\ Movers \subseteq Ids /\ Blockers \subseteq Ids
  /\ MoverSquares \subseteq Square

VARIABLES board, \* the position
          moved  \* the pieces with pawn_moved set

Pieces == {board[s] : s \in Square} \ {NULL}

Init == /\ board = [s \in Square |-> NULL]
        /\ moved = {}

put(id, s) == /\ id \notin Pieces
              /\ board[s] = NULL
              /\ board' = [board EXCEPT ![s] = id]

PutMover(id, s, hasMoved) == /\ Pieces = {}
                             /\ put(id, s)
                             /\ hasMoved => type[id] \in {b_pawn, w_pawn}
                             /\ moved' = IF hasMoved THEN {id} ELSE {}

PutBlocker(id, s) == /\ Cardinality(Pieces) \in 1 .. MaxBlockers
                     /\ put(id, s)
                     /\ moved' = moved \cup {id}

Next == \/ \E id \in Movers, s \in MoverSquares, hasMoved \in BOOLEAN : PutMover(id, s, hasMoved)
        \/ \E id \in Blockers, s \in Square : PutBlocker(id, s)

Spec == Init /\ [][Next]_<<board, moved>>

held == {s \in Square : board[s] # NULL}

\* The squares on which the piece of square a may be dropped to stay.
accepted(a) ==
  LET lit == possiblePosition(board, board[a] \in moved, board[a], Col(a), Row(a))
  IN  {b \in Square : accepts(board, lit, board[a], b)}

\* The squares a chess player may move it to.
legal(a) == {b \in Square : ChessMove(board, board[a] \in moved, board[a], a, b)}

\* The one difference: a white pawn is never offered the black king (the w_pawn
\* case tests type<5, and b_king is 5).
spared(a) == {b \in held : type[board[a]] = w_pawn /\ type[board[b]] = b_king}

\* Whatever square a player drops a piece on, playing_ih lets it stay only where a
\* chess piece of that type may go from there: no jump over a piece, no capture of
\* a friend, no step off the board into another row.
AcceptedMovesAreChess == \A a \in held : accepted(a) \subseteq legal(a)

\* Conversely every chess move is offered, on every square and against every
\* blocker, the capture of the black king by a white pawn excepted.
ChessMovesAreAccepted == \A a \in held : legal(a) \ spared(a) \subseteq accepted(a)
==================================================================================
