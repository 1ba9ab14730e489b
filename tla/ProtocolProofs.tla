----------------------------- MODULE ProtocolProofs ------------------------------
(* Two machines of any speed, with any inputs and any interleaving of their turns *)
(* with the bytes of the line, stay within ProtocolInv; the safety properties of  *)
(* Chess follow from it.                                                          *)
EXTENDS ChessProofs

----------------------------------------------------------------------------------
(* What the handlers of the game do to the line and to the game *)

\* The effect of one received byte on a machine in the game.
Reads(s, t, byte) ==
  \/ byte = 0 /\ SameGame(s, t)
  \/ byte = BEGIN_MESSAGE /\ SameGame([s EXCEPT !.byteOfMove = 0], t)
  \/ byte = YOUR_TURN /\ SameGame([s EXCEPT !.myTurn = TRUE], t)
  \/ /\ byte \notin {0, BEGIN_MESSAGE, YOUR_TURN}
     /\ \/ /\ s.byteOfMove = 0
           /\ SameGame([s EXCEPT !.old = decode(byte), !.byteOfMove = 1], t)
        \/ /\ s.byteOfMove = 1
           /\ s.board[s.old] = NULL
           /\ SameGame([s EXCEPT !.phase = "crashed"], t)
        \/ /\ s.byteOfMove = 1
           /\ s.board[s.old] # NULL
           /\ SameGame([s EXCEPT
                !.gameState = IF kingAt(s.board, decode(byte)) THEN "EXIT" ELSE s.gameState,
                !.won = IF kingAt(s.board, decode(byte)) THEN FALSE ELSE s.won,
                !.board = put(s.board, s.old, decode(byte))], t)

\* updateBoard and movePiece matter to the animation only.
LEMMA UpdateSame ==
  ASSUME NEW s \in VM, NEW id \in Ids
  PROVE  /\ SameGame(s, updateBoard(s)) /\ SameGame(s, movePiece(s, id))
         /\ \A o : bytesTo(o, updateBoard(s)) = bytesTo(o, s)
                   /\ bytesTo(updateBoard(s), o) = bytesTo(s, o)
         /\ \A o : bytesTo(o, movePiece(s, id)) = bytesTo(o, s)
                   /\ bytesTo(movePiece(s, id), o) = bytesTo(s, o)
         /\ updateBoard(s).txq = s.txq /\ movePiece(s, id).txq = s.txq
         /\ updateBoard(s).rxq = s.rxq
<1>1. SameGame(s, updateBoard(s)) /\ SameGame(s, movePiece(s, id))
  BY DEF VM, SameGame, updateBoard, movePiece
<1>2. /\ updateBoard(s).txq = s.txq /\ updateBoard(s).rxq = s.rxq
      /\ updateBoard(s).thr = s.thr /\ updateBoard(s).fifo = s.fifo
      /\ movePiece(s, id).txq = s.txq /\ movePiece(s, id).rxq = s.rxq
      /\ movePiece(s, id).thr = s.thr /\ movePiece(s, id).fifo = s.fifo
  BY DEF VM, updateBoard, movePiece
<1> QED BY <1>1, <1>2 DEF bytesTo

\* A frame of the game reads one byte of the line or none.
LEMMA FrameLine ==
  ASSUME NEW s \in VM, NEW o \in VM
  PROVE  LET t == playing_frame(s)
         IN  /\ t \in VM /\ t.txq = s.txq /\ bytesTo(o, t) = bytesTo(o, s)
             /\ \/ bytesTo(t, o) = bytesTo(s, o) /\ SameGame(s, t)
                \/ /\ bytesTo(s, o) # << >>
                   /\ bytesTo(t, o) = Tail(bytesTo(s, o))
                   /\ Reads(s, t, Head(bytesTo(s, o)))
<1> DEFINE u == updateBoard(s)
           v == afterRead(u)
           byte == queueFront(s.rxq)
           t == playing_frame(s)
<1>1. /\ u \in VM /\ SameGame(s, u) /\ bytesTo(o, u) = bytesTo(o, s)
      /\ bytesTo(u, o) = bytesTo(s, o) /\ u.txq = s.txq /\ u.rxq = s.rxq
  <2>1. 0 \in Ids
    BY DEF Ids
  <2> QED BY <2>1, UpdateBoardType, UpdateSame
<1> HIDE DEF u
<1>2. /\ v \in VM /\ SameGame(u, v) /\ v.txq = u.txq
      /\ bytesTo(o, v) = bytesTo(o, u)
      /\ \/ byte = 0 /\ bytesTo(v, o) = bytesTo(u, o)
         \/ bytesTo(u, o) # << >> /\ byte = Head(bytesTo(u, o)) /\ bytesTo(v, o) = Tail(bytesTo(u, o))
  BY <1>1, TakeLine
<1> HIDE DEF v
<1>3. SameGame(s, v)
  BY <1>1, <1>2 DEF SameGame
<1>4. t \in VM
  BY FrameType
<1>5. /\ t.txq = v.txq /\ t.rxq = v.rxq /\ t.fifo = v.fifo /\ t.thr = v.thr
      /\ Reads(s, t, byte)
  <2>1. t = CASE byte = BEGIN_MESSAGE -> [v EXCEPT !.byteOfMove = 0]
              [] byte = YOUR_TURN -> [v EXCEPT !.myTurn = TRUE]
              [] byte = 0 -> v
              [] OTHER -> IF v.byteOfMove = 0
                          THEN [v EXCEPT !.old = decode(byte), !.byteOfMove = 1]
                          ELSE playReceived(v, decode(byte))
    BY DEF playing_frame, v, u
  <2> HIDE DEF t, byte
  <2>2. CASE byte = BEGIN_MESSAGE
    <3>1. t = [v EXCEPT !.byteOfMove = 0]
      BY <2>1, <2>2 DEF BEGIN_MESSAGE, YOUR_TURN
    <3>2. SameGame([s EXCEPT !.byteOfMove = 0], t)
      BY <3>1, <1>2, <1>3 DEF VM, SameGame
    <3> QED BY <1>2, <2>2, <3>1, <3>2 DEF VM, Reads
  <2>3. CASE byte = YOUR_TURN
    <3>1. t = [v EXCEPT !.myTurn = TRUE]
      BY <2>1, <2>3 DEF BEGIN_MESSAGE, YOUR_TURN
    <3>2. SameGame([s EXCEPT !.myTurn = TRUE], t)
      BY <3>1, <1>2, <1>3 DEF VM, SameGame
    <3> QED BY <1>2, <2>3, <3>1, <3>2 DEF VM, Reads
  <2>4. CASE byte = 0
    <3>1. t = v
      BY <2>1, <2>4 DEF BEGIN_MESSAGE, YOUR_TURN
    <3> QED BY <2>4, <3>1, <1>3 DEF Reads
  <2>5. CASE byte \notin {0, BEGIN_MESSAGE, YOUR_TURN}
    <3>1. t = IF v.byteOfMove = 0 THEN [v EXCEPT !.old = decode(byte), !.byteOfMove = 1]
              ELSE playReceived(v, decode(byte))
      BY <2>1, <2>5
    <3>2. CASE s.byteOfMove = 0
      <4>1. t = [v EXCEPT !.old = decode(byte), !.byteOfMove = 1]
        BY <3>1, <3>2, <1>3 DEF SameGame
      <4>2. SameGame([s EXCEPT !.old = decode(byte), !.byteOfMove = 1], t)
        BY <4>1, <1>2, <1>3 DEF VM, SameGame
      <4> QED BY <1>2, <2>5, <3>2, <4>1, <4>2 DEF VM, Reads
    <3>3. CASE s.byteOfMove # 0
      <4>1. s.byteOfMove = 1
        BY <3>3 DEF VM
      <4>2. t = playReceived(v, decode(byte)) /\ v.board = s.board /\ v.old = s.old
            /\ v.gameState = s.gameState /\ v.won = s.won
        BY <3>1, <3>3, <1>3 DEF SameGame
      <4>3. CASE s.board[s.old] = NULL
        <5>1. t = [v EXCEPT !.phase = "crashed"]
          BY <4>2, <4>3 DEF playReceived
        <5>2. SameGame([s EXCEPT !.phase = "crashed"], t)
          BY <5>1, <1>2, <1>3 DEF VM, SameGame
        <5> QED BY <1>2, <2>5, <4>1, <4>3, <5>1, <5>2 DEF VM, Reads
      <4>4. CASE s.board[s.old] # NULL
        <5> DEFINE k == kingAt(s.board, decode(byte))
                   g == IF k THEN "EXIT" ELSE s.gameState
                   w == IF k THEN FALSE ELSE s.won
                   b == put(s.board, s.old, decode(byte))
                   m == movePiece(v, s.board[s.old])
        <5>1. t = [m EXCEPT !.gameState = g, !.won = w, !.board = b]
          BY <4>2, <4>4 DEF playReceived
        <5>2. s.board[s.old] \in Ids
          BY <4>4 DEF VM
        <5>3. SameGame(v, m) /\ m \in VM
          BY <1>2, <5>2, UpdateSame, MovePieceType
        <5>4. m.txq = v.txq /\ m.rxq = v.rxq /\ m.fifo = v.fifo /\ m.thr = v.thr
          BY <1>2 DEF VM, movePiece
        <5> HIDE DEF g, w, b, m
        <5>5. SameGame([s EXCEPT !.gameState = g, !.won = w, !.board = b], t)
          BY <5>1, <5>3, <1>3 DEF VM, SameGame
        <5>6. t.txq = v.txq /\ t.rxq = v.rxq /\ t.fifo = v.fifo /\ t.thr = v.thr
          BY <5>1, <5>3, <5>4 DEF VM
        <5>7. Reads(s, t, byte)
          BY <2>5, <4>1, <4>4, <5>5 DEF Reads, g, w, b
        <5> QED BY <5>6, <5>7
      <4> QED BY <4>3, <4>4
    <3> QED BY <3>2, <3>3
  <2> QED BY <2>2, <2>3, <2>4, <2>5
<1>6. bytesTo(o, t) = bytesTo(o, v) /\ bytesTo(t, o) = bytesTo(v, o)
  BY <1>5 DEF bytesTo
<1>7. byte = 0 => SameGame(s, t)
  BY <1>5 DEF Reads, BEGIN_MESSAGE, YOUR_TURN
<1> QED BY <1>1, <1>2, <1>4, <1>5, <1>6, <1>7

\* noteEnd touches no queue.
LEMMA EndLine ==
  ASSUME NEW s \in VM, NEW o \in VM
  PROVE  LET t == noteEnd(s)
         IN  /\ t \in VM /\ t.txq = s.txq
             /\ bytesTo(o, t) = bytesTo(o, s) /\ bytesTo(t, o) = bytesTo(s, o)
             /\ \/ ~s.endGame /\ t = s
                \/ s.endGame /\ SameGame([s EXCEPT !.won = TRUE, !.gameState = "EXIT"], t)
<1> DEFINE t == noteEnd(s)
<1>1. CASE ~s.endGame
  BY <1>1 DEF noteEnd
<1>2. CASE s.endGame
  <2>1. t = [s EXCEPT !.won = TRUE, !.gameState = "EXIT"]
    BY <1>2 DEF noteEnd
  <2>2. t.txq = s.txq /\ t.rxq = s.rxq /\ t.fifo = s.fifo /\ t.thr = s.thr
    BY <2>1 DEF VM
  <2>3. SameGame([s EXCEPT !.won = TRUE, !.gameState = "EXIT"], t)
    BY <2>1 DEF SameGame
  <2> QED BY <1>2, <2>2, <2>3, NoteEndType DEF bytesTo
<1> QED BY <1>1, <1>2

\* A press sends nothing; only the player whose turn it is takes a piece of the board.
LEMMA PickUpLine ==
  ASSUME NEW s \in VM, NEW o \in VM, NEW x, NEW y
  PROVE  LET t == pickUp(s, x, y)
         IN  /\ t \in VM /\ t.txq = s.txq
             /\ bytesTo(o, t) = bytesTo(o, s) /\ bytesTo(t, o) = bytesTo(s, o)
             /\ \/ t = s
                \/ /\ s.myTurn
                   /\ \E sq \in Square :
                        /\ s.board[sq] # NULL
                        /\ SameGame([s EXCEPT !.dragging = s.board[sq], !.from = sq], t)
<1> DEFINE sq == get_position(getBoardX(x), getBoardY(y))
           l == possiblePosition(s.board, s.board[sq] \in s.pawn_moved,
                                 s.board[sq], getBoardX(x), getBoardY(y))
           c == /\ s.pressed /\ s.myTurn
                /\ onBoard(getBoardX(x), getBoardY(y))
                /\ s.board[sq] # NULL /\ ownPiece(s, s.board[sq])
           t == pickUp(s, x, y)
<1>1. CASE c
  <2>1. sq \in Square
    BY <1>1, PositionLemma DEF onBoard
  <2>2. t = [s EXCEPT !.dragging = s.board[sq], !.from = sq, !.lit = l]
    BY <1>1 DEF pickUp
  <2>3. s.myTurn /\ s.board[sq] # NULL
    BY <1>1
  <2> HIDE DEF sq, l, t
  <2>4. t.txq = s.txq /\ t.rxq = s.rxq /\ t.fifo = s.fifo /\ t.thr = s.thr
    BY <2>2 DEF VM
  <2>5. SameGame([s EXCEPT !.dragging = s.board[sq], !.from = sq], t)
    BY <2>2 DEF VM, SameGame
  <2> QED BY <2>1, <2>3, <2>4, <2>5, PickUpType DEF bytesTo, t
<1>2. CASE ~c
  BY <1>2 DEF pickUp
<1> QED BY <1>1, <1>2

\* The four bytes of a move at the end of q.
moveAfter(q, x, y) == Append(Append(Append(Append(q, BEGIN_MESSAGE), x), y), YOUR_TURN)

\* sendMove appends exactly them: there is room.
LEMMA SendLine ==
  ASSUME NEW s \in VM, NEW o \in VM, Len(bytesTo(o, s)) <= 4,
         NEW a \in Square, NEW b \in Square
  PROVE  LET t == sendMove(s, a, b)
         IN  /\ t \in VM /\ SameGame(s, t) /\ bytesTo(t, o) = bytesTo(s, o)
             /\ bytesTo(o, t) = moveAfter(bytesTo(o, s), encode(a), encode(b))
             /\ t.txq = moveAfter(s.txq, encode(a), encode(b))
<1> DEFINE t1 == addToTransmitQueue(s, BEGIN_MESSAGE)
           t2 == addToTransmitQueue(t1, encode(a))
           t3 == addToTransmitQueue(t2, encode(b))
           t4 == addToTransmitQueue(t3, YOUR_TURN)
<1>1. encode(a) \in Bytes /\ encode(b) \in Bytes /\ BEGIN_MESSAGE \in Bytes /\ YOUR_TURN \in Bytes
  BY EncodeLemma, Constants DEF Bytes
<1>2. ASSUME NEW u \in VM, NEW n \in 4 .. 7, Len(bytesTo(o, u)) <= n, NEW d \in Bytes
      PROVE  LET v == addToTransmitQueue(u, d)
             IN  /\ v \in VM /\ SameGame(u, v) /\ bytesTo(v, o) = bytesTo(u, o)
                 /\ bytesTo(o, v) = Append(bytesTo(o, u), d)
                 /\ v.txq = Append(u.txq, d)
                 /\ Len(bytesTo(o, v)) <= n + 1
  <2>1. bytesTo(o, u) \in Seq(Bytes) /\ Len(bytesTo(o, u)) \in Nat
    BY LineType
  <2>2. Len(bytesTo(o, u)) <= 7
    BY <1>2, <2>1
  <2>3. Len(Append(bytesTo(o, u), d)) = Len(bytesTo(o, u)) + 1
    BY <2>1, AppendProperties
  <2>4. Len(bytesTo(o, u)) + 1 <= n + 1
    BY <1>2, <2>1
  <2> QED BY <2>2, <2>3, <2>4, AddLine
<1>3. /\ t1 \in VM /\ SameGame(s, t1) /\ bytesTo(t1, o) = bytesTo(s, o)
      /\ bytesTo(o, t1) = Append(bytesTo(o, s), BEGIN_MESSAGE)
      /\ t1.txq = Append(s.txq, BEGIN_MESSAGE) /\ Len(bytesTo(o, t1)) <= 5
  <2>1. 4 \in 4 .. 7 /\ 4 + 1 = 5
    OBVIOUS
  <2> QED BY <1>1, <1>2, <2>1
<1> HIDE DEF t1
<1>4. /\ t2 \in VM /\ SameGame(t1, t2) /\ bytesTo(t2, o) = bytesTo(t1, o)
      /\ bytesTo(o, t2) = Append(bytesTo(o, t1), encode(a))
      /\ t2.txq = Append(t1.txq, encode(a)) /\ Len(bytesTo(o, t2)) <= 6
  <2>1. PICK n \in 4 .. 7 : n = 5 /\ n + 1 = 6
    OBVIOUS
  <2>2. t1 \in VM /\ Len(bytesTo(o, t1)) <= n /\ encode(a) \in Bytes
    BY <1>1, <1>3, <2>1
  <2>3. /\ t2 \in VM /\ SameGame(t1, t2) /\ bytesTo(t2, o) = bytesTo(t1, o)
        /\ bytesTo(o, t2) = Append(bytesTo(o, t1), encode(a))
        /\ t2.txq = Append(t1.txq, encode(a)) /\ Len(bytesTo(o, t2)) <= n + 1
    BY <1>2, <2>2
  <2> QED BY <2>1, <2>3
<1> HIDE DEF t2
<1>5. /\ t3 \in VM /\ SameGame(t2, t3) /\ bytesTo(t3, o) = bytesTo(t2, o)
      /\ bytesTo(o, t3) = Append(bytesTo(o, t2), encode(b))
      /\ t3.txq = Append(t2.txq, encode(b)) /\ Len(bytesTo(o, t3)) <= 7
  <2>1. PICK n \in 4 .. 7 : n = 6 /\ n + 1 = 7
    OBVIOUS
  <2>2. t2 \in VM /\ Len(bytesTo(o, t2)) <= n /\ encode(b) \in Bytes
    BY <1>1, <1>4, <2>1
  <2>3. /\ t3 \in VM /\ SameGame(t2, t3) /\ bytesTo(t3, o) = bytesTo(t2, o)
        /\ bytesTo(o, t3) = Append(bytesTo(o, t2), encode(b))
        /\ t3.txq = Append(t2.txq, encode(b)) /\ Len(bytesTo(o, t3)) <= n + 1
    BY <1>2, <2>2
  <2> QED BY <2>1, <2>3
<1> HIDE DEF t3
<1>6. /\ t4 \in VM /\ SameGame(t3, t4) /\ bytesTo(t4, o) = bytesTo(t3, o)
      /\ bytesTo(o, t4) = Append(bytesTo(o, t3), YOUR_TURN)
      /\ t4.txq = Append(t3.txq, YOUR_TURN)
  BY <1>1, <1>5, AddLine
<1> HIDE DEF t4
<1>7. SameGame(s, t4)
  BY <1>3, <1>4, <1>5, <1>6 DEF SameGame
<1>8. sendMove(s, a, b) = t4
  BY DEF sendMove, t4, t3, t2, t1
<1> QED BY <1>3, <1>4, <1>5, <1>6, <1>7, <1>8 DEF moveAfter

\* A release sends a move, and passes the turn, or puts the piece back.
LEMMA DropLine ==
  ASSUME NEW s \in VM, NEW o \in VM, Len(bytesTo(o, s)) <= 4, s.dragging # NULL, NEW x, NEW y
  PROVE  LET t == drop(s, x, y)
         IN  /\ t \in VM /\ bytesTo(t, o) = bytesTo(s, o)
             /\ \/ /\ bytesTo(o, t) = bytesTo(o, s) /\ t.txq = s.txq
                   /\ SameGame([s EXCEPT !.dragging = NULL], t)
                \/ \E sq \in Square :
                     /\ s.board[sq] = NULL \/ ~sameTeam(s.dragging, s.board[sq])
                     /\ bytesTo(o, t) = moveAfter(bytesTo(o, s), encode(s.from), encode(sq))
                     /\ t.txq = moveAfter(s.txq, encode(s.from), encode(sq))
                     /\ SameGame([s EXCEPT
                          !.dragging = NULL, !.myTurn = FALSE,
                          !.endGame = (s.endGame \/ kingAt(s.board, sq)),
                          !.board = [s.board EXCEPT ![s.from] = NULL, ![sq] = s.dragging]], t)
<1> DEFINE sq == get_position(getBoardX(x), getBoardY(y))
           moves == onBoard(getBoardX(x), getBoardY(y)) /\ accepts(s.board, s.lit, s.dragging, sq)
           m == movePiece(s, s.dragging)
           u == sendMove(m, s.from, sq)
           e == s.endGame \/ kingAt(s.board, sq)
           b == [s.board EXCEPT ![s.from] = NULL, ![sq] = s.dragging]
           v == [u EXCEPT !.endGame = e, !.board = b, !.myTurn = FALSE]
           t == drop(s, x, y)
<1>1. t \in VM
  BY DropType
<1>2. CASE ~moves
  <2>1. t = [s EXCEPT !.dragging = NULL, !.lit = {}]
    BY <1>2 DEF drop
  <2>2. t.txq = s.txq /\ t.rxq = s.rxq /\ t.fifo = s.fifo /\ t.thr = s.thr
    BY <2>1 DEF VM
  <2>3. SameGame([s EXCEPT !.dragging = NULL], t)
    BY <2>1 DEF VM, SameGame
  <2> QED BY <1>1, <2>2, <2>3 DEF bytesTo
<1>3. CASE moves
  <2>1. sq \in Square
    BY <1>3, PositionLemma DEF onBoard
  <2>2. s.board[sq] = NULL \/ ~sameTeam(s.dragging, s.board[sq])
    BY <1>3 DEF accepts
  <2>3. s.from \in Square /\ s.dragging \in Ids
    BY DEF VM
  <2>4. t = [v EXCEPT !.dragging = NULL, !.lit = {}]
    BY <1>3 DEF drop
  <2>5. /\ m \in VM /\ SameGame(s, m) /\ m.txq = s.txq
        /\ bytesTo(o, m) = bytesTo(o, s) /\ bytesTo(m, o) = bytesTo(s, o)
    BY <2>3, MovePieceType, UpdateSame
  <2> HIDE DEF m, sq
  <2>6. /\ u \in VM /\ SameGame(m, u) /\ bytesTo(u, o) = bytesTo(m, o)
        /\ bytesTo(o, u) = moveAfter(bytesTo(o, m), encode(s.from), encode(sq))
        /\ u.txq = moveAfter(m.txq, encode(s.from), encode(sq))
    BY <2>1, <2>3, <2>5, SendLine
  <2> HIDE DEF u
  <2>7. SameGame(s, u)
    BY <2>5, <2>6 DEF SameGame
  <2> HIDE DEF e, b
  <2>8. t.txq = u.txq /\ t.rxq = u.rxq /\ t.fifo = u.fifo /\ t.thr = u.thr
    BY <2>4, <2>6 DEF VM
  <2>9. SameGame([s EXCEPT !.dragging = NULL, !.myTurn = FALSE, !.endGame = e, !.board = b], t)
    BY <2>4, <2>6, <2>7 DEF VM, SameGame
  <2> HIDE DEF t
  <2>10. bytesTo(t, o) = bytesTo(u, o) /\ bytesTo(o, t) = bytesTo(o, u)
    BY <2>8 DEF bytesTo
  <2> QED BY <1>1, <2>1, <2>2, <2>5, <2>6, <2>8, <2>9, <2>10 DEF e, b, t
<1> QED BY <1>2, <1>3

----------------------------------------------------------------------------------
(* What the invariant depends on *)

\* The pieces in the players' hands do not matter to the pair, nor how far a machine
\* that has left the loop has got.
SameTurn(s, t) ==
  /\ t.phase = "run" <=> s.phase = "run"
  /\ t.phase = "crashed" <=> s.phase = "crashed"
  /\ t.gameState = s.gameState
  /\ t.player = s.player /\ t.myTurn = s.myTurn
  /\ t.endGame = s.endGame /\ t.won = s.won
  /\ t.board = s.board /\ t.byteOfMove = s.byteOfMove /\ t.old = s.old

\* Steps that change neither the game nor the line keep the pair in its state.
LEMMA SamePair ==
  ASSUME NEW a, NEW b, NEW c, NEW d, SameTurn(a, c), SameTurn(b, d),
         NEW ab, NEW ba, NEW flushed, NEW ok
  PROVE  /\ Start(a, b, ab, ba) => Start(c, d, ab, ba)
         /\ Hand(a, b, ab, ba, ok) => Hand(c, d, ab, ba, ok)
         /\ Game(a, b, ab, ba, ok) => Game(c, d, ab, ba, ok)
         /\ LooseHand(a, b, ab, ba) => LooseHand(c, d, ab, ba)
         /\ LooseGame(a, b, ab, ba) => LooseGame(c, d, ab, ba)
         /\ After(a, b, ab, ba, flushed, ok) => After(c, d, ab, ba, flushed, ok)
<1>1. /\ (c.phase = "run" <=> a.phase = "run") /\ (c.phase = "crashed" <=> a.phase = "crashed")
      /\ c.gameState = a.gameState
      /\ c.player = a.player /\ c.myTurn = a.myTurn
      /\ c.endGame = a.endGame /\ c.won = a.won
      /\ c.board = a.board /\ c.byteOfMove = a.byteOfMove /\ c.old = a.old
  BY DEF SameTurn
<1>2. /\ (d.phase = "run" <=> b.phase = "run") /\ (d.phase = "crashed" <=> b.phase = "crashed")
      /\ d.gameState = b.gameState
      /\ d.player = b.player /\ d.myTurn = b.myTurn
      /\ d.endGame = b.endGame /\ d.won = b.won
      /\ d.board = b.board /\ d.byteOfMove = b.byteOfMove /\ d.old = b.old
  BY DEF SameTurn
<1>3. /\ (Quiet(a) <=> Quiet(c)) /\ (Quiet(b) <=> Quiet(d))
      /\ (Sender(a) <=> Sender(c)) /\ (Sender(b) <=> Sender(d))
  BY <1>1, <1>2 DEF Quiet, Sender
<1>4. (Sync(a, b) <=> Sync(c, d)) /\ (Sync(b, a) <=> Sync(d, c))
  BY <1>1, <1>2, <1>3 DEF Sync
<1>5. (Told(a, b) <=> Told(c, d)) /\ (Told(b, a) <=> Told(d, c))
  BY <1>1, <1>2, <1>3 DEF Told
<1>6. \A x, y : (Behind(a, b, x, y) <=> Behind(c, d, x, y)) /\ (Behind(b, a, x, y) <=> Behind(d, c, x, y))
  BY <1>1, <1>2, <1>3 DEF Behind
<1>7. \A lo, x, y : /\ Flight(a, b, lo, x, y) <=> Flight(c, d, lo, x, y)
                    /\ Flight(b, a, lo, x, y) <=> Flight(d, c, lo, x, y)
  BY <1>1, <1>2, <1>5, <1>6 DEF Flight
<1>8. Start(a, b, ab, ba) => Start(c, d, ab, ba)
  BY <1>1, <1>2, <1>3 DEF Start, Hello
<1>9. Hand(a, b, ab, ba, ok) => Hand(c, d, ab, ba, ok)
  BY <1>1, <1>2, <1>4, <1>6 DEF Hand
<1>10. Turn(a, b, ab, ba, ok) => Turn(c, d, ab, ba, ok)
  BY <1>1, <1>2, <1>4, <1>5, <1>7 DEF Turn, Rest, Fly, Dead
<1>11. Turn(b, a, ba, ab, ok) => Turn(d, c, ba, ab, ok)
  BY <1>1, <1>2, <1>4, <1>5, <1>7 DEF Turn, Rest, Fly, Dead
<1>12. Game(a, b, ab, ba, ok) => Game(c, d, ab, ba, ok)
  BY <1>1, <1>2, <1>10, <1>11 DEF Game
<1>13. LooseHand(a, b, ab, ba) => LooseHand(c, d, ab, ba)
  BY <1>1, <1>2 DEF LooseHand
<1>14. LooseGame(a, b, ab, ba) => LooseGame(c, d, ab, ba)
  BY <1>1, <1>2 DEF LooseGame, AtMostOne
<1> QED BY <1>8, <1>9, <1>12, <1>13, <1>14 DEF After

\* A corner move only makes the invariant say less.
LEMMA LessOk ==
  ASSUME NEW a, NEW b, NEW ab, NEW ba, NEW flushed, NEW ok, NEW less, less => ok
  PROVE  /\ Hand(a, b, ab, ba, ok) => Hand(a, b, ab, ba, less)
         /\ Game(a, b, ab, ba, ok) => Game(a, b, ab, ba, less)
         /\ After(a, b, ab, ba, flushed, ok) => After(a, b, ab, ba, flushed, less)
<1>1. Hand(a, b, ab, ba, ok) => Hand(a, b, ab, ba, less)
  BY DEF Hand
<1>2. /\ Turn(a, b, ab, ba, ok) => Turn(a, b, ab, ba, less)
      /\ Turn(b, a, ba, ab, ok) => Turn(b, a, ba, ab, less)
  BY DEF Turn, Rest, Fly, Dead
<1>3. Game(a, b, ab, ba, ok) => Game(a, b, ab, ba, less)
  BY <1>2 DEF Game
<1> QED BY <1>1, <1>3 DEF After

\* In the game the machines play the same part.
LEMMA Symmetric ==
  ASSUME NEW a, NEW b, NEW ab, NEW ba, NEW ok
  PROVE  /\ Game(a, b, ab, ba, ok) <=> Game(b, a, ba, ab, ok)
         /\ LooseGame(a, b, ab, ba) <=> LooseGame(b, a, ba, ab)
         /\ Start(a, b, ab, ba) <=> Start(b, a, ba, ab)
BY DEF Game, LooseGame, AtMostOne, Start

\* There are never more than 7 bytes on the way, and none once a player may move.
LEMMA FewBytes ==
  ASSUME NEW a, NEW b, NEW ab \in Seq(Bytes), NEW ba \in Seq(Bytes), NEW flushed, NEW ok
  PROVE  /\ Start(a, b, ab, ba) \/ After(a, b, ab, ba, flushed, ok)
              => Len(ab) <= 7 /\ Len(ba) <= 7
         /\ Start(a, b, ab, ba) \/ After(a, b, ab, ba, flushed, ok)
              => (a.myTurn => ba = << >>) /\ (b.myTurn => ab = << >>)
<1>1. \A q \in Seq(Bytes) : q = << >> => Len(q) <= 7
  BY EmptySeq
<1>2. Start(a, b, ab, ba) => /\ Len(ab) <= 7 /\ Len(ba) <= 7
                             /\ ~a.myTurn /\ ~b.myTurn
  BY <1>1 DEF Start, Hello, Carries
<1>3. Hand(a, b, ab, ba, ok) => Len(ab) <= 7 /\ Len(ba) <= 7 /\ ba = << >> /\ ~b.myTurn
  BY <1>1 DEF Hand, Carries
<1>4. ASSUME NEW c, NEW d, NEW cd \in Seq(Bytes), NEW dc \in Seq(Bytes), Turn(c, d, cd, dc, ok)
      PROVE  /\ Len(cd) <= 7 /\ Len(dc) <= 7 /\ dc = << >>
             /\ ~d.myTurn /\ (c.myTurn => cd = << >>)
  BY <1>1, <1>4 DEF Turn, Rest, Fly, Dead, Carries
<1>5. Game(a, b, ab, ba, ok) => /\ Len(ab) <= 7 /\ Len(ba) <= 7
                                /\ (a.myTurn => ba = << >>) /\ (b.myTurn => ab = << >>)
  BY <1>4 DEF Game
<1>6. LooseHand(a, b, ab, ba) => Len(ab) <= 7 /\ Len(ba) <= 7 /\ ~a.myTurn /\ ~b.myTurn
  BY <1>1 DEF LooseHand, TurnLast
<1>7. LooseGame(a, b, ab, ba) => /\ Len(ab) <= 7 /\ Len(ba) <= 7
                                 /\ (a.myTurn => ba = << >>) /\ (b.myTurn => ab = << >>)
  BY DEF LooseGame, TurnLast, AtMostOne
<1> QED BY <1>2, <1>3, <1>5, <1>6, <1>7 DEF After

----------------------------------------------------------------------------------
(* The handlers of the game, on the pair *)

\* The winner notices that it has won.
LEMMA EndPair ==
  ASSUME NEW s \in VM, NEW t \in VM, NEW o \in VM, NEW so, NEW os, NEW ok,
         s.phase = "run", s.gameState = "PLAYING", s.endGame,
         SameGame([s EXCEPT !.won = TRUE, !.gameState = "EXIT"], t)
  PROVE  /\ Hand(s, o, so, os, ok) => Hand(t, o, so, os, ok)
         /\ Game(s, o, so, os, ok) => Game(t, o, so, os, ok)
         /\ LooseGame(s, o, so, os) => LooseGame(t, o, so, os)
<1>1. /\ t.phase = s.phase /\ t.gameState = "EXIT" /\ t.player = s.player
      /\ t.myTurn = s.myTurn /\ t.endGame = s.endGame /\ t.won = TRUE
      /\ t.board = s.board /\ t.byteOfMove = s.byteOfMove /\ t.old = s.old
  BY DEF VM, SameGame
<1>2. ~Quiet(s) /\ (Sender(s) => Sender(t))
  BY <1>1 DEF Quiet, Sender
<1>3. \A x, y : Behind(s, o, x, y) => Behind(t, o, x, y)
  BY <1>1, <1>2 DEF Behind
<1>4. Told(s, o) => Told(t, o)
  BY <1>1, <1>2 DEF Told
<1>5. \A lo, x, y : Flight(s, o, lo, x, y) => Flight(t, o, lo, x, y)
  BY <1>1, <1>3, <1>4 DEF Flight
<1>6. ~Sync(s, o) /\ ~Sync(o, s) /\ ~Told(o, s)
  BY <1>2 DEF Sync, Told
<1>7. \A x, y : \A lo \in 3 .. 6 : ~Flight(o, s, lo, x, y)
  <2>1. \A x, y : ~Behind(o, s, x, y)
    BY <1>2 DEF Behind
  <2> QED BY <1>6, <2>1 DEF Flight
<1>8. Hand(s, o, so, os, ok) => Hand(t, o, so, os, ok)
  <2> SUFFICES ASSUME Hand(s, o, so, os, ok) PROVE Hand(t, o, so, os, ok)
    OBVIOUS
  <2>1. PICK lo \in 0 .. 2, hi \in {2, 3, 7}, x \in Position, y \in Position :
       /\ Carries(so, lo, hi, opposite(s.player), x, y)
       /\ o.gameState = IF lo = 2 THEN "WAIT_CHOOSING_PLAYER" ELSE "WAITING"
       /\ hi = 2 => s.gameState = "CHOOSING_PLAYER" /\ ~s.myTurn /\ ~s.endGame
       /\ hi = 3 => /\ s.gameState = "PLAYING" /\ ~s.endGame
                    /\ s.player \in {BLACK, WHITE} /\ (s.myTurn <=> s.player = WHITE)
       /\ hi = 7 => /\ s.gameState \in {"PLAYING", "EXIT"} /\ ~s.myTurn
                    /\ s.player = WHITE
       /\ ok => IF hi = 7 THEN Behind(s, o, x, y) ELSE Sync(s, o)
    BY DEF Hand
  <2>2. hi = 7
    BY <2>1
  <2>3. /\ Carries(so, lo, hi, opposite(t.player), x, y)
        /\ t.gameState \in {"PLAYING", "EXIT"} /\ ~t.myTurn /\ t.player = WHITE
        /\ ok => Behind(t, o, x, y)
    BY <1>1, <1>3, <2>1, <2>2
  <2>4. os = << >> /\ ~o.myTurn
    BY DEF Hand
  <2> QED BY <2>1, <2>2, <2>3, <2>4 DEF Hand
<1>9. Turn(s, o, so, os, ok) => Turn(t, o, so, os, ok)
  BY <1>1, <1>4, <1>5, <1>6 DEF Turn, Rest, Fly, Dead
<1>10. Turn(o, s, os, so, ok) => Turn(o, t, os, so, ok)
  BY <1>1, <1>6, <1>7 DEF Turn, Rest, Fly, Dead
<1>11. Game(s, o, so, os, ok) => Game(t, o, so, os, ok)
  BY <1>1, <1>9, <1>10 DEF Game
<1>12. LooseGame(s, o, so, os) => LooseGame(t, o, so, os)
  BY <1>1 DEF LooseGame, AtMostOne
<1> QED BY <1>8, <1>11, <1>12

\* The receiver decodes the square the sender encoded.
LEMMA DecodeEncode == ASSUME NEW sq \in Square PROVE decode(encode(sq)) = sq
<1>1. PICK r \in 0 .. 7, c \in 0 .. 7 : sq = 8 * r + c
  BY DEF Square
<1>2. sq % 8 = c /\ sq \div 8 = r
  BY <1>1
<1>3. ((8 * c + r) \div 8) % 8 = c /\ (8 * c + r) % 8 = r
  OBVIOUS
<1>4. decode(encode(sq)) = c + r * 8
  BY <1>2, <1>3 DEF decode, encode, Col, Row, get_position
<1> QED BY <1>1, <1>4

\* The four bytes of a move complete the script.
LEMMA CarriesMove ==
  ASSUME NEW q \in Seq(Bytes), NEW lo \in 0 .. 3, NEW colour, NEW x0, NEW y0,
         Carries(q, lo, 3, colour, x0, y0), NEW x \in Position, NEW y \in Position
  PROVE  /\ moveAfter(q, x, y) \in Seq(Bytes)
         /\ Carries(moveAfter(q, x, y), lo, 7, colour, x, y)
<1>0. x \in Bytes /\ y \in Bytes
  BY DEF Bytes, Position
<1> DEFINE q4 == Append(q, BEGIN_MESSAGE)
           q5 == Append(q4, x)
           q6 == Append(q5, y)
           q7 == Append(q6, YOUR_TURN)
<1>1. Carries(q, lo, 3, colour, x, y)
  BY CarriesAny
<1>2. q4 \in Seq(Bytes) /\ Carries(q4, lo, 4, colour, x, y)
  <2>1. BEGIN_MESSAGE = wire(3 + 1, colour, x, y)
    BY DEF wire
  <2> QED BY <1>1, <2>1, CarriesAppend, Constants
<1> HIDE DEF q4
<1>3. q5 \in Seq(Bytes) /\ Carries(q5, lo, 5, colour, x, y)
  <2>1. x = wire(4 + 1, colour, x, y)
    BY DEF wire
  <2> QED BY <1>0, <1>2, <2>1, CarriesAppend
<1> HIDE DEF q5
<1>4. q6 \in Seq(Bytes) /\ Carries(q6, lo, 6, colour, x, y)
  <2>1. y = wire(5 + 1, colour, x, y)
    BY DEF wire
  <2> QED BY <1>0, <1>3, <2>1, CarriesAppend
<1> HIDE DEF q6
<1>5. q7 \in Seq(Bytes) /\ Carries(q7, lo, 7, colour, x, y)
  <2>1. YOUR_TURN = wire(6 + 1, colour, x, y)
    BY DEF wire
  <2> QED BY <1>4, <2>1, CarriesAppend, Constants
<1>6. moveAfter(q, x, y) = q7
  BY DEF moveAfter, q4, q5, q6
<1> QED BY <1>5, <1>6

\* YOUR_TURN is the last byte of the script and no other byte of it.
LEMMA WireTurn ==
  ASSUME NEW n \in 1 .. 7, NEW colour \in {BLACK, WHITE}, NEW x \in Position, NEW y \in Position,
         wire(n, colour, x, y) = YOUR_TURN
  PROVE  n = 7
BY DEF wire, YOUR_TURN, VM_CONNECTED, RECEIVE_VM_CONNECTED, BEGIN_MESSAGE, BLACK, WHITE, Position

LEMMA CarriesTurnLast ==
  ASSUME NEW q \in Seq(Bytes), NEW lo \in 0 .. 7, NEW hi \in 0 .. 7,
         NEW colour \in {BLACK, WHITE}, NEW x \in Position, NEW y \in Position,
         Carries(q, lo, hi, colour, x, y)
  PROVE  TurnLast(q)
<1>1. Len(q) \in Nat /\ Len(q) = hi - lo /\ Len(q) <= 7
  BY DEF Carries
<1>2. ASSUME NEW i \in 1 .. Len(q), q[i] = YOUR_TURN PROVE i = Len(q)
  <2>1. wire(lo + i, colour, x, y) = YOUR_TURN
    BY <1>2 DEF Carries
  <2>2. lo + i \in 1 .. 7 /\ lo + i <= hi
    BY <1>1
  <2>3. lo + i = 7
    BY <2>1, <2>2, WireTurn
  <2> QED BY <1>1, <2>2, <2>3
<1> QED BY <1>1, <1>2 DEF TurnLast

\* A move is made: it is on its way, and the mover's turn is over.
LEMMA MovePair ==
  ASSUME NEW s \in VM, NEW t \in VM, NEW o \in VM,
         NEW so \in Seq(Bytes), NEW os, NEW ok \in BOOLEAN,
         s.gameState = "PLAYING", s.phase = "run",
         Local(s), s.dragging # NULL, NEW sq \in Square,
         s.board[sq] = NULL \/ ~sameTeam(s.dragging, s.board[sq]),
         SameGame([s EXCEPT
                     !.dragging = NULL, !.myTurn = FALSE,
                     !.endGame = (s.endGame \/ kingAt(s.board, sq)),
                     !.board = [s.board EXCEPT ![s.from] = NULL, ![sq] = s.dragging]], t)
  PROVE  LET x == encode(s.from)
             y == encode(sq)
             so2 == moveAfter(so, x, y)
             ok2 == ok /\ x # 0 /\ y # 0
         IN  /\ Hand(s, o, so, os, ok) => Hand(t, o, so2, os, ok2)
             /\ Game(s, o, so, os, ok) => Game(t, o, so2, os, ok2)
             /\ LooseGame(s, o, so, os) => LooseGame(t, o, so2, os)
<1> DEFINE x == encode(s.from)
           y == encode(sq)
           so2 == moveAfter(so, x, y)
           ok2 == ok /\ x # 0 /\ y # 0
           b == [s.board EXCEPT ![s.from] = NULL, ![sq] = s.dragging]
           e == s.endGame \/ kingAt(s.board, sq)
<1>1. /\ s.from \in Square /\ s.dragging \in Ids /\ s.board \in [Square -> Ids \cup {NULL}]
      /\ o.board \in [Square -> Ids \cup {NULL}]
  BY DEF VM
<1>2. s.myTurn /\ s.board[s.from] = s.dragging
  BY DEF Local
<1>3. s.from # sq
  BY <1>2 DEF sameTeam
<1>4. x \in Position /\ y \in Position /\ decode(x) = s.from /\ decode(y) = sq
  BY <1>1, EncodeLemma, DecodeEncode DEF Position
<1> HIDE DEF x, y
<1>5. /\ t.phase = s.phase /\ t.gameState = s.gameState /\ t.player = s.player
      /\ t.myTurn = FALSE /\ t.endGame = e /\ t.won = s.won
      /\ t.board = b /\ t.byteOfMove = s.byteOfMove /\ t.old = s.old
  <2> HIDE DEF e, b
  <2>1. SameGame([s EXCEPT !.dragging = NULL, !.myTurn = FALSE, !.endGame = e, !.board = b], t)
    BY DEF e, b
  <2> QED BY <2>1 DEF VM, SameGame
<1>6. Sync(s, o) /\ x # 0 /\ y # 0 => Behind(t, o, x, y)
  <2> SUFFICES ASSUME Sync(s, o), x # 0, y # 0 PROVE Behind(t, o, x, y)
    OBVIOUS
  <2>1. s.board = o.board /\ Quiet(s) /\ Quiet(o)
    BY DEF Sync
  <2>2. Sender(t)
    BY <1>5, <2>1 DEF Quiet, Sender
  <2>3. o.board[decode(x)] # NULL
    BY <1>1, <1>2, <1>4, <2>1
  <2>4. t.board = put(o.board, decode(x), decode(y))
    BY <1>1, <1>2, <1>3, <1>4, <1>5, <2>1 DEF put
  <2>5. t.endGame <=> kingAt(o.board, decode(y))
    BY <1>4, <1>5, <2>1 DEF Quiet
  <2> QED BY <2>1, <2>2, <2>3, <2>4, <2>5 DEF Behind
<1> HIDE DEF b, e
<1>7. Hand(s, o, so, os, ok) => Hand(t, o, so2, os, ok2)
  <2> SUFFICES ASSUME Hand(s, o, so, os, ok) PROVE Hand(t, o, so2, os, ok2)
    OBVIOUS
  <2>1. PICK lo \in 0 .. 2, hi \in {2, 3, 7}, x0 \in Position, y0 \in Position :
       /\ Carries(so, lo, hi, opposite(s.player), x0, y0)
       /\ o.gameState = IF lo = 2 THEN "WAIT_CHOOSING_PLAYER" ELSE "WAITING"
       /\ hi = 2 => s.gameState = "CHOOSING_PLAYER" /\ ~s.myTurn /\ ~s.endGame
       /\ hi = 3 => /\ s.gameState = "PLAYING" /\ ~s.endGame
                    /\ s.player \in {BLACK, WHITE} /\ (s.myTurn <=> s.player = WHITE)
       /\ hi = 7 => /\ s.gameState \in {"PLAYING", "EXIT"} /\ ~s.myTurn
                    /\ s.player = WHITE
       /\ ok => IF hi = 7 THEN Behind(s, o, x0, y0) ELSE Sync(s, o)
    BY DEF Hand
  <2>2. hi = 3 /\ s.player = WHITE
    BY <1>2, <2>1
  <2>3. lo \in 0 .. 3 /\ Carries(so, lo, 3, opposite(t.player), x0, y0)
    BY <1>5, <2>1, <2>2
  <2>4. Carries(so2, lo, 7, opposite(t.player), x, y)
    BY <1>4, <2>3, CarriesMove
  <2>5. t.gameState \in {"PLAYING", "EXIT"} /\ ~t.myTurn /\ t.player = WHITE
    BY <1>5, <2>2
  <2>6. ok2 => Behind(t, o, x, y)
    BY <1>6, <2>1, <2>2
  <2>7. os = << >> /\ ~o.myTurn
    BY DEF Hand
  <2> HIDE DEF ok2, so2
  <2> QED BY <1>4, <2>1, <2>4, <2>5, <2>6, <2>7 DEF Hand
<1>8. so = << >> => /\ so2 \in Seq(Bytes) /\ Carries(so2, 3, 7, BLACK, x, y)
  <2> SUFFICES ASSUME so = << >>
               PROVE  so2 \in Seq(Bytes) /\ Carries(so2, 3, 7, BLACK, x, y)
    OBVIOUS
  <2>1. Carries(so, 3, 3, BLACK, x, y)
    <3>1. \A lo \in 0 .. 7 : Carries(so, lo, lo, BLACK, x, y)
      BY CarriesEmpty
    <3> QED BY <3>1
  <2>2. PICK lo \in 0 .. 3 : lo = 3
    OBVIOUS
  <2>3. Carries(so, lo, 3, BLACK, x, y)
    BY <2>1, <2>2
  <2>4. so2 \in Seq(Bytes) /\ Carries(so2, lo, 7, BLACK, x, y)
    BY <1>4, <2>3, CarriesMove
  <2> QED BY <2>2, <2>4
<1>9. Game(s, o, so, os, ok) => Game(t, o, so2, os, ok2)
  <2> SUFFICES ASSUME Game(s, o, so, os, ok) PROVE Game(t, o, so2, os, ok2)
    OBVIOUS
  <2>1. Rest(s, o, so, os, ok)
    BY <1>2 DEF Game, Turn, Rest, Fly, Dead
  <2>2. so = << >> /\ os = << >> /\ ~o.myTurn /\ (ok => Sync(s, o))
    BY <2>1 DEF Rest
  <2>3. ok2 => Flight(t, o, 3, x, y)
    BY <1>6, <2>2 DEF Flight
  <2> HIDE DEF so2, ok2
  <2>4. Fly(t, o, so2, os, ok2)
    BY <1>4, <1>5, <1>8, <2>2, <2>3 DEF Fly
  <2> QED BY <1>5, <2>4 DEF Game, Turn
<1>10. LooseGame(s, o, so, os) => LooseGame(t, o, so2, os)
  <2> SUFFICES ASSUME LooseGame(s, o, so, os) PROVE LooseGame(t, o, so2, os)
    OBVIOUS
  <2>1. so = << >> /\ os = << >> /\ ~o.myTurn
    BY <1>2 DEF LooseGame, AtMostOne
  <2>2. TurnLast(so2)
    BY <1>4, <1>8, <2>1, CarriesTurnLast
  <2> QED BY <1>5, <2>1, <2>2 DEF LooseGame, AtMostOne
<1> QED BY <1>7, <1>9, <1>10 DEF x, y

\* TurnLast survives a read, and a turn that is read was alone.
LEMMA TurnLastTail ==
  ASSUME NEW q \in Seq(Bytes), q # << >>, TurnLast(q)
  PROVE  /\ Tail(q) \in Seq(Bytes) /\ TurnLast(Tail(q))
         /\ Head(q) = YOUR_TURN => Tail(q) = << >>
<1> DEFINE r == Tail(q)  n == Len(q)  m == Len(r)
<1>1. /\ r \in Seq(Bytes) /\ m = n - 1 /\ n \in Nat \ {0} /\ m \in Nat
      /\ \A i \in 1 .. m : r[i] = q[i + 1]
  BY HeadTailProperties, EmptySeq, LenProperties
<1>2. Head(q) = q[1]
  BY EmptySeq
<1>3. n <= 7 /\ \A i \in 1 .. n : q[i] = YOUR_TURN => i = n
  BY DEF TurnLast
<1>4. m = 0 => r = << >>
  BY <1>1, EmptySeq
<1> HIDE DEF r, n, m
<1>5. ASSUME Head(q) = YOUR_TURN PROVE r = << >>
  <2>1. 1 \in 1 .. n
    BY <1>1
  <2>2. 1 = n
    BY <1>2, <1>3, <1>5, <2>1
  <2>3. m = 0
    BY <1>1, <2>2
  <2> QED BY <1>4, <2>3
<1>6. ASSUME NEW i \in 1 .. m, r[i] = YOUR_TURN PROVE i = m
  <2>1. i + 1 \in 1 .. n /\ i \in Nat
    BY <1>1
  <2>2. q[i + 1] = YOUR_TURN
    BY <1>1, <1>6
  <2>3. i + 1 = n
    BY <1>3, <2>1, <2>2
  <2> QED BY <1>1, <2>1, <2>3
<1>7. m <= 7
  BY <1>1, <1>3
<1> QED BY <1>1, <1>5, <1>6, <1>7 DEF TurnLast, r, m

\* The fields after a received byte, in each of the cases of Reads.
LEMMA ReadFields ==
  ASSUME NEW s \in VM, NEW t \in VM, NEW byte, Reads(s, t, byte)
  PROVE  /\ t.player = s.player /\ t.endGame = s.endGame
         /\ byte = YOUR_TURN => t.myTurn
         /\ byte # YOUR_TURN => t.myTurn = s.myTurn
         /\ t.gameState \in {s.gameState, "EXIT"}
         /\ s.phase # "run" => t.phase # "run"
         /\ byte = BEGIN_MESSAGE => /\ t.byteOfMove = 0 /\ t.phase = s.phase
                                    /\ t.board = s.board /\ t.won = s.won /\ t.gameState = s.gameState
         /\ byte = YOUR_TURN => /\ t.phase = s.phase
                                /\ t.board = s.board /\ t.won = s.won /\ t.gameState = s.gameState
         /\ byte \notin {0, BEGIN_MESSAGE, YOUR_TURN} /\ s.byteOfMove = 0 =>
              /\ t.byteOfMove = 1 /\ t.old = decode(byte) /\ t.phase = s.phase
              /\ t.board = s.board /\ t.won = s.won /\ t.gameState = s.gameState
         /\ byte \notin {0, BEGIN_MESSAGE, YOUR_TURN} /\ s.byteOfMove = 1 /\ s.board[s.old] # NULL =>
              /\ t.phase = s.phase /\ t.board = put(s.board, s.old, decode(byte))
              /\ t.won = (IF kingAt(s.board, decode(byte)) THEN FALSE ELSE s.won)
              /\ t.gameState = (IF kingAt(s.board, decode(byte)) THEN "EXIT" ELSE s.gameState)
<1>1. CASE byte = 0 /\ SameGame(s, t)
  BY <1>1 DEF SameGame, BEGIN_MESSAGE, YOUR_TURN
<1>2. CASE byte = BEGIN_MESSAGE /\ SameGame([s EXCEPT !.byteOfMove = 0], t)
  BY <1>2 DEF VM, SameGame, BEGIN_MESSAGE, YOUR_TURN
<1>3. CASE byte = YOUR_TURN /\ SameGame([s EXCEPT !.myTurn = TRUE], t)
  BY <1>3 DEF VM, SameGame, BEGIN_MESSAGE, YOUR_TURN
<1>4. CASE /\ byte \notin {0, BEGIN_MESSAGE, YOUR_TURN} /\ s.byteOfMove = 0
           /\ SameGame([s EXCEPT !.old = decode(byte), !.byteOfMove = 1], t)
  BY <1>4 DEF VM, SameGame
<1>5. CASE /\ byte \notin {0, BEGIN_MESSAGE, YOUR_TURN} /\ s.byteOfMove = 1
           /\ s.board[s.old] = NULL /\ SameGame([s EXCEPT !.phase = "crashed"], t)
  BY <1>5 DEF VM, SameGame
<1>6. CASE /\ byte \notin {0, BEGIN_MESSAGE, YOUR_TURN} /\ s.byteOfMove = 1
           /\ s.board[s.old] # NULL
           /\ SameGame([s EXCEPT
                !.gameState = IF kingAt(s.board, decode(byte)) THEN "EXIT" ELSE s.gameState,
                !.won = IF kingAt(s.board, decode(byte)) THEN FALSE ELSE s.won,
                !.board = put(s.board, s.old, decode(byte))], t)
  <2> DEFINE g == IF kingAt(s.board, decode(byte)) THEN "EXIT" ELSE s.gameState
             w == IF kingAt(s.board, decode(byte)) THEN FALSE ELSE s.won
             b == put(s.board, s.old, decode(byte))
  <2>1. g \in {s.gameState, "EXIT"}
    OBVIOUS
  <2>2. SameGame([s EXCEPT !.gameState = g, !.won = w, !.board = b], t)
    BY <1>6
  <2> HIDE DEF g, w, b
  <2>3. /\ t.player = s.player /\ t.endGame = s.endGame /\ t.myTurn = s.myTurn
        /\ t.phase = s.phase /\ t.gameState = g /\ t.won = w /\ t.board = b
    BY <2>2 DEF VM, SameGame
  <2>4. byte # YOUR_TURN /\ byte # BEGIN_MESSAGE /\ s.byteOfMove # 0
    BY <1>6
  <2>5. t.gameState \in {s.gameState, "EXIT"}
    BY <2>1, <2>3
  <2>6. /\ t.won = (IF kingAt(s.board, decode(byte)) THEN FALSE ELSE s.won)
        /\ t.gameState = (IF kingAt(s.board, decode(byte)) THEN "EXIT" ELSE s.gameState)
        /\ t.board = put(s.board, s.old, decode(byte))
    BY <2>3 DEF g, w, b
  <2> QED BY <2>3, <2>4, <2>5, <2>6
<1> QED BY <1>1, <1>2, <1>3, <1>4, <1>5, <1>6 DEF Reads

\* A byte of a move is read.
LEMMA ReadPair ==
  ASSUME NEW s \in VM, NEW t \in VM, NEW o \in VM,
         NEW so \in Seq(Bytes), NEW os \in Seq(Bytes), NEW ok,
         s.gameState = "PLAYING" \/ s.endGame, s.gameState \in {"PLAYING", "EXIT"},
         os # << >>, Reads(s, t, Head(os))
  PROVE  /\ Hand(s, o, so, os, ok) => Hand(t, o, so, Tail(os), ok)
         /\ Game(s, o, so, os, ok) => Game(t, o, so, Tail(os), ok)
         /\ LooseGame(s, o, so, os) => LooseGame(t, o, so, Tail(os))
<1> DEFINE byte == Head(os)
<1>1. /\ t.player = s.player /\ t.endGame = s.endGame
      /\ byte = YOUR_TURN => t.myTurn
      /\ byte # YOUR_TURN => t.myTurn = s.myTurn
      /\ t.gameState \in {"PLAYING", "EXIT"}
      /\ s.phase # "run" => t.phase # "run"
  BY ReadFields
<1>2. ~Hand(s, o, so, os, ok)
  BY DEF Hand
<1>3. LooseGame(s, o, so, os) => LooseGame(t, o, so, Tail(os))
  <2> SUFFICES ASSUME LooseGame(s, o, so, os) PROVE LooseGame(t, o, so, Tail(os))
    OBVIOUS
  <2>1. ~s.myTurn /\ ~o.myTurn /\ so = << >> /\ TurnLast(os) /\ TurnLast(so)
    BY DEF LooseGame, AtMostOne
  <2>2. /\ Tail(os) \in Seq(Bytes) /\ TurnLast(Tail(os))
        /\ byte = YOUR_TURN => Tail(os) = << >>
    BY <2>1, TurnLastTail
  <2>3. CASE byte = YOUR_TURN
    BY <1>1, <2>1, <2>2, <2>3 DEF LooseGame, AtMostOne
  <2>4. CASE byte # YOUR_TURN
    BY <1>1, <2>1, <2>2, <2>4 DEF LooseGame, AtMostOne
  <2> QED BY <2>3, <2>4
<1>4. Game(s, o, so, os, ok) => Game(t, o, so, Tail(os), ok)
  <2> SUFFICES ASSUME Game(s, o, so, os, ok) PROVE Game(t, o, so, Tail(os), ok)
    OBVIOUS
  <2>1. Fly(o, s, os, so, ok)
    BY DEF Game, Turn, Rest, Fly, Dead
  <2>2. ~s.myTurn /\ ~o.myTurn /\ so = << >>
    BY <2>1 DEF Fly
  <2>3. PICK lo \in 3 .. 6, x \in Position, y \in Position :
          Carries(os, lo, 7, BLACK, x, y) /\ (ok => Flight(o, s, lo, x, y))
    BY <2>1 DEF Fly
  <2>4. byte = wire(lo + 1, BLACK, x, y) /\ Carries(Tail(os), lo + 1, 7, BLACK, x, y)
    <3>1. lo \in 0 .. 7
      OBVIOUS
    <3> QED BY <2>3, <3>1, CarriesNext
  <2>5. Tail(os) \in Seq(Bytes)
    BY HeadTailProperties
  <2> HIDE DEF byte
  <2>6. ASSUME NEW n \in 3 .. 6, n = lo + 1, byte # YOUR_TURN, ok => Flight(o, t, n, x, y)
        PROVE  Game(t, o, so, Tail(os), ok)
    <3>1. Carries(Tail(os), n, 7, BLACK, x, y) /\ ~t.myTurn
      BY <2>4, <2>6, <1>1, <2>2
    <3>2. Fly(o, t, Tail(os), so, ok)
      BY <2>2, <2>6, <3>1 DEF Fly
    <3> QED BY <1>1, <3>2 DEF Game, Turn
  <2>r. Reads(s, t, byte)
    BY DEF byte
  <2>7. CASE lo = 3
    <3>1. byte = BEGIN_MESSAGE
      BY <2>4, <2>7 DEF wire
    <3>2. /\ t.byteOfMove = 0 /\ t.phase = s.phase /\ t.endGame = s.endGame
          /\ t.board = s.board /\ t.won = s.won /\ t.gameState = s.gameState
      BY <2>r, <3>1, ReadFields
    <3>3. Behind(o, s, x, y) => Behind(o, t, x, y)
      BY <3>2 DEF Behind, Quiet
    <3>4. ok => Flight(o, t, 4, x, y)
      BY <2>3, <2>7, <3>2, <3>3 DEF Flight
    <3>5. byte # YOUR_TURN
      BY <3>1 DEF BEGIN_MESSAGE, YOUR_TURN
    <3> QED BY <2>6, <2>7, <3>4, <3>5
  <2>8. CASE lo = 4
    <3>1. byte = x
      BY <2>4, <2>8 DEF wire
    <3>2. byte # YOUR_TURN /\ byte # BEGIN_MESSAGE
      BY <3>1 DEF BEGIN_MESSAGE, YOUR_TURN, Position
    <3>3. ok => Flight(o, t, 5, x, y)
      <4> SUFFICES ASSUME ok PROVE Flight(o, t, 5, x, y)
        OBVIOUS
      <4>1. Behind(o, s, x, y) /\ s.byteOfMove = 0
        BY <2>3, <2>8 DEF Flight
      <4>2. x # 0
        BY <4>1 DEF Behind
      <4>3. /\ t.byteOfMove = 1 /\ t.old = decode(x) /\ t.phase = s.phase /\ t.endGame = s.endGame
            /\ t.board = s.board /\ t.won = s.won /\ t.gameState = s.gameState
        <5>1. byte \notin {0, BEGIN_MESSAGE, YOUR_TURN}
          BY <3>1, <3>2, <4>2
        <5>2. /\ t.byteOfMove = 1 /\ t.old = decode(byte) /\ t.phase = s.phase
              /\ t.board = s.board /\ t.won = s.won /\ t.gameState = s.gameState
          <6>1. byte \notin {0, BEGIN_MESSAGE, YOUR_TURN} /\ s.byteOfMove = 0
            BY <4>1, <5>1
          <6> QED BY ONLY <2>r, <6>1, ReadFields, s \in VM, t \in VM, Zenon
        <5> QED BY <1>1, <3>1, <5>2
      <4>4. Behind(o, t, x, y)
        BY <4>1, <4>3 DEF Behind, Quiet
      <4> QED BY <4>3, <4>4 DEF Flight
    <3> QED BY <2>6, <2>8, <3>2, <3>3
  <2>9. CASE lo = 5
    <3>1. byte = y
      BY <2>4, <2>9 DEF wire
    <3>2. byte # YOUR_TURN /\ byte # BEGIN_MESSAGE
      BY <3>1 DEF BEGIN_MESSAGE, YOUR_TURN, Position
    <3>3. ok => Flight(o, t, 6, x, y)
      <4> SUFFICES ASSUME ok PROVE Flight(o, t, 6, x, y)
        OBVIOUS
      <4>1. Behind(o, s, x, y) /\ s.byteOfMove = 1 /\ s.old = decode(x)
        BY <2>3, <2>9 DEF Flight
      <4>2. y # 0 /\ s.board[s.old] # NULL /\ Quiet(s) /\ Sender(o)
            /\ o.board = put(s.board, s.old, decode(y))
            /\ (o.endGame <=> kingAt(s.board, decode(y)))
        BY <4>1 DEF Behind
      <4>3. /\ t.phase = s.phase /\ t.board = put(s.board, s.old, decode(y)) /\ t.endGame = s.endGame
            /\ t.won = (IF kingAt(s.board, decode(y)) THEN FALSE ELSE s.won)
            /\ t.gameState = (IF kingAt(s.board, decode(y)) THEN "EXIT" ELSE s.gameState)
        <5>1. byte \notin {0, BEGIN_MESSAGE, YOUR_TURN}
          BY <3>1, <3>2, <4>2
        <5>2. /\ t.phase = s.phase /\ t.board = put(s.board, s.old, decode(byte))
              /\ t.won = (IF kingAt(s.board, decode(byte)) THEN FALSE ELSE s.won)
              /\ t.gameState = (IF kingAt(s.board, decode(byte)) THEN "EXIT" ELSE s.gameState)
          BY <2>r, <4>1, <4>2, <5>1, ReadFields
        <5> QED BY <1>1, <3>1, <5>2
      <4>4. Told(o, t)
        BY <4>2, <4>3 DEF Told, Quiet
      <4> QED BY <4>2, <4>3, <4>4 DEF Flight
    <3> QED BY <2>6, <2>9, <3>2, <3>3
  <2>10. CASE lo = 6
    <3>1. byte = YOUR_TURN
      BY <2>4, <2>10 DEF wire
    <3>2. Tail(os) = << >>
      <4>1. ASSUME NEW q \in Seq(Bytes), NEW n \in 0 .. 7, n = 7, Carries(q, n, 7, BLACK, x, y)
            PROVE  q = << >>
        BY <4>1, CarriesNone
      <4>2. \E n \in 0 .. 7 : n = 7 /\ Carries(Tail(os), n, 7, BLACK, x, y)
        BY <2>4, <2>10
      <4> QED BY <2>5, <4>1, <4>2
    <3>3. /\ t.myTurn /\ t.phase = s.phase /\ t.endGame = s.endGame
          /\ t.board = s.board /\ t.won = s.won /\ t.gameState = s.gameState
      BY <2>r, <3>1, ReadFields
    <3>4. ok => Sync(t, o)
      <4> SUFFICES ASSUME ok PROVE Sync(t, o)
        OBVIOUS
      <4>1. o.board = s.board /\ Told(o, s)
        BY <2>3, <2>10 DEF Flight
      <4>2. s.gameState # "EXIT"
        BY <4>1 DEF Told
      <4>3. Quiet(t) /\ Quiet(o)
        BY <4>1, <4>2, <3>3 DEF Told, Quiet, Sender
      <4> QED BY <3>3, <4>1, <4>3 DEF Sync
    <3>5. Rest(t, o, so, Tail(os), ok)
      BY <2>2, <3>2, <3>3, <3>4 DEF Rest
    <3> QED BY <1>1, <3>5 DEF Game, Turn
  <2> QED BY <2>7, <2>8, <2>9, <2>10
<1> QED BY <1>2, <1>3, <1>4

----------------------------------------------------------------------------------
(* The screens before the game, on the line and on the pair *)

\* The colour is queued and the game begins, or nothing happens.
LEMMA ChoosingLine ==
  ASSUME NEW s \in VM, NEW o \in VM, Len(bytesTo(o, s)) <= 7, NEW x, NEW y
  PROVE  LET t == choosing_ih(s, x, y)
         IN  /\ t \in VM
             /\ \/ t = s
                \/ \E colour \in {BLACK, WHITE} :
                     /\ bytesTo(o, t) = Append(bytesTo(o, s), opposite(colour))
                     /\ bytesTo(t, o) = bytesTo(s, o)
                     /\ SameGame([s EXCEPT !.player = colour, !.gameState = "PLAYING",
                                           !.myTurn = (colour = WHITE)], t)
<1> DEFINE colour == playerButton(x, y)
           u == addToTransmitQueue(s, opposite(colour))
           t == choosing_ih(s, x, y)
<1>1. t \in VM
  BY ChoosingType
<1>2. CASE ~(s.pressed /\ colour # NOT_DECIDED)
  BY <1>1, <1>2 DEF choosing_ih
<1>3. CASE s.pressed /\ colour # NOT_DECIDED
  <2>1. colour \in {BLACK, WHITE}
    BY <1>3 DEF playerButton
  <2>2. t = [u EXCEPT !.player = colour, !.gameState = "PLAYING", !.myTurn = (colour = WHITE)]
    BY <1>3 DEF choosing_ih
  <2>3. opposite(colour) \in Bytes
    BY Constants DEF opposite
  <2>4. /\ u \in VM /\ SameGame(s, u) /\ bytesTo(u, o) = bytesTo(s, o)
        /\ bytesTo(o, u) = Append(bytesTo(o, s), opposite(colour))
    BY <2>3, AddLine
  <2> DEFINE white == colour = WHITE
  <2> HIDE DEF colour, u, t, white
  <2>5. t.txq = u.txq /\ t.rxq = u.rxq /\ t.fifo = u.fifo /\ t.thr = u.thr
    BY <2>2, <2>4 DEF VM
  <2>6. SameGame([s EXCEPT !.player = colour, !.gameState = "PLAYING", !.myTurn = white], t)
    <3>1. t = [u EXCEPT !.player = colour, !.gameState = "PLAYING", !.myTurn = white]
      BY <2>2 DEF white
    <3> QED BY <2>4, <3>1 DEF VM, SameGame
  <2>7. bytesTo(t, o) = bytesTo(u, o) /\ bytesTo(o, t) = bytesTo(o, u)
    BY <2>5 DEF bytesTo
  <2> QED BY <1>1, <2>1, <2>4, <2>6, <2>7 DEF t, white
<1> QED BY <1>2, <1>3

\* The colours are chosen.
LEMMA ChoosePair ==
  ASSUME NEW s \in VM, NEW t \in VM, NEW o \in VM, NEW so \in Seq(Bytes), NEW os, NEW ok,
         s.gameState = "CHOOSING_PLAYER", NEW colour \in {BLACK, WHITE},
         SameGame([s EXCEPT !.player = colour, !.gameState = "PLAYING",
                            !.myTurn = (colour = WHITE)], t),
         Hand(s, o, so, os, ok)
  PROVE  Hand(t, o, Append(so, opposite(colour)), os, ok)
<1> DEFINE white == colour = WHITE
<1>1. /\ t.phase = s.phase /\ t.gameState = "PLAYING" /\ t.player = colour
      /\ t.myTurn = white /\ t.endGame = s.endGame /\ t.won = s.won
      /\ t.board = s.board /\ t.byteOfMove = s.byteOfMove /\ t.old = s.old
  <2> HIDE DEF white
  <2>1. SameGame([s EXCEPT !.player = colour, !.gameState = "PLAYING", !.myTurn = white], t)
    BY DEF white
  <2> QED BY <2>1 DEF VM, SameGame
<1>2. PICK lo \in 0 .. 2, hi \in {2, 3, 7}, x \in Position, y \in Position :
       /\ Carries(so, lo, hi, opposite(s.player), x, y)
       /\ o.gameState = IF lo = 2 THEN "WAIT_CHOOSING_PLAYER" ELSE "WAITING"
       /\ hi = 2 => s.gameState = "CHOOSING_PLAYER" /\ ~s.myTurn /\ ~s.endGame
       /\ hi = 3 => /\ s.gameState = "PLAYING" /\ ~s.endGame
                    /\ s.player \in {BLACK, WHITE} /\ (s.myTurn <=> s.player = WHITE)
       /\ hi = 7 => /\ s.gameState \in {"PLAYING", "EXIT"} /\ ~s.myTurn
                    /\ s.player = WHITE
       /\ ok => IF hi = 7 THEN Behind(s, o, x, y) ELSE Sync(s, o)
  BY DEF Hand
<1>3. hi = 2
  BY <1>2
<1>4. PICK l \in 0 .. 7, h \in 0 .. 6 : l = lo /\ h = 2
  OBVIOUS
<1>5. Carries(so, l, h, opposite(colour), x, y)
  <2>1. h \in 0 .. 3 /\ h <= 2 /\ Carries(so, l, h, opposite(s.player), x, y)
    BY <1>2, <1>3, <1>4
  <2> QED BY <2>1, CarriesAny
<1>6. opposite(colour) \in Bytes /\ opposite(colour) = wire(h + 1, opposite(colour), x, y)
  BY <1>4, Constants DEF opposite, wire
<1>7. Carries(Append(so, opposite(colour)), l, h + 1, opposite(colour), x, y)
  BY <1>5, <1>6, CarriesAppend
<1>8. Carries(Append(so, opposite(colour)), lo, 3, opposite(t.player), x, y)
  BY <1>1, <1>4, <1>7
<1>9. ok => Sync(t, o)
  BY <1>1, <1>2, <1>3 DEF Sync, Quiet
<1>10. os = << >> /\ ~o.myTurn
  BY DEF Hand
<1>11. ~t.endGame /\ t.player \in {BLACK, WHITE} /\ (t.myTurn <=> t.player = WHITE)
  BY <1>1, <1>2, <1>3
<1> QED BY <1>1, <1>2, <1>8, <1>9, <1>10, <1>11 DEF Hand

\* A frame of the waiting screen: a greeting is answered, an answer opens the wait for
\* the colour, any other byte is dropped.
LEMMA WaitingLine ==
  ASSUME NEW s \in VM, NEW o \in VM, Len(bytesTo(o, s)) <= 7
  PROVE  LET t == waiting_ih(s)
             byte == Head(bytesTo(s, o))
         IN  /\ t \in VM
             /\ \/ /\ bytesTo(t, o) = bytesTo(s, o) /\ bytesTo(o, t) = bytesTo(o, s)
                   /\ SameGame(s, t)
                \/ /\ bytesTo(s, o) # << >> /\ bytesTo(t, o) = Tail(bytesTo(s, o))
                   /\ \/ /\ byte = VM_CONNECTED
                         /\ bytesTo(o, t) = Append(bytesTo(o, s), RECEIVE_VM_CONNECTED)
                         /\ SameGame([s EXCEPT !.gameState = "CHOOSING_PLAYER"], t)
                      \/ /\ byte = RECEIVE_VM_CONNECTED /\ bytesTo(o, t) = bytesTo(o, s)
                         /\ SameGame([s EXCEPT !.gameState = "WAIT_CHOOSING_PLAYER"], t)
                      \/ /\ byte \notin {VM_CONNECTED, RECEIVE_VM_CONNECTED}
                         /\ bytesTo(o, t) = bytesTo(o, s) /\ SameGame(s, t)
<1> DEFINE byte == queueFront(s.rxq)
           u == afterRead(s)
           t == waiting_ih(s)
<1>1. /\ u \in VM /\ SameGame(s, u) /\ bytesTo(o, u) = bytesTo(o, s)
      /\ \/ byte = 0 /\ bytesTo(u, o) = bytesTo(s, o)
         \/ /\ bytesTo(s, o) # << >> /\ byte = Head(bytesTo(s, o))
            /\ bytesTo(u, o) = Tail(bytesTo(s, o))
  BY TakeLine
<1>2. t \in VM
  BY WaitingType
<1>3. CASE byte = VM_CONNECTED
  <2> DEFINE v == addToTransmitQueue(u, RECEIVE_VM_CONNECTED)
  <2>1. t = [v EXCEPT !.gameState = "CHOOSING_PLAYER"]
    BY <1>3 DEF waiting_ih, VM_CONNECTED, RECEIVE_VM_CONNECTED
  <2>2. /\ v \in VM /\ SameGame(u, v) /\ bytesTo(v, o) = bytesTo(u, o)
        /\ bytesTo(o, v) = Append(bytesTo(o, u), RECEIVE_VM_CONNECTED)
    BY <1>1, Constants, AddLine
  <2>3. byte # 0
    BY <1>3 DEF VM_CONNECTED
  <2> HIDE DEF u, v, t, byte
  <2>4. t.txq = v.txq /\ t.rxq = v.rxq /\ t.fifo = v.fifo /\ t.thr = v.thr
    BY <2>1, <2>2 DEF VM
  <2>5. SameGame([s EXCEPT !.gameState = "CHOOSING_PLAYER"], t)
    BY <1>1, <2>1, <2>2 DEF VM, SameGame
  <2>6. bytesTo(t, o) = bytesTo(v, o) /\ bytesTo(o, t) = bytesTo(o, v)
    BY <2>4 DEF bytesTo
  <2> QED BY <1>1, <1>2, <1>3, <2>2, <2>3, <2>5, <2>6 DEF t
<1>4. CASE byte = RECEIVE_VM_CONNECTED
  <2>1. t = [u EXCEPT !.gameState = "WAIT_CHOOSING_PLAYER"]
    BY <1>4 DEF waiting_ih, VM_CONNECTED, RECEIVE_VM_CONNECTED
  <2>3. byte # 0
    BY <1>4 DEF RECEIVE_VM_CONNECTED
  <2> HIDE DEF u, t, byte
  <2>4. t.txq = u.txq /\ t.rxq = u.rxq /\ t.fifo = u.fifo /\ t.thr = u.thr
    BY <2>1, <1>1 DEF VM
  <2>5. SameGame([s EXCEPT !.gameState = "WAIT_CHOOSING_PLAYER"], t)
    BY <1>1, <2>1 DEF VM, SameGame
  <2>6. bytesTo(t, o) = bytesTo(u, o) /\ bytesTo(o, t) = bytesTo(o, u)
    BY <2>4 DEF bytesTo
  <2> QED BY <1>1, <1>2, <1>4, <2>3, <2>5, <2>6 DEF t
<1>5. CASE byte \notin {VM_CONNECTED, RECEIVE_VM_CONNECTED}
  <2>1. t = u
    BY <1>5 DEF waiting_ih, VM_CONNECTED, RECEIVE_VM_CONNECTED
  <2> HIDE DEF u, t, byte
  <2> QED BY <1>1, <1>2, <1>5, <2>1 DEF t
<1> QED BY <1>3, <1>4, <1>5

\* The first greeting that is read makes its reader the one who chooses the colours.
LEMMA GreetingPair ==
  ASSUME NEW s \in VM, NEW t \in VM, NEW o \in VM,
         NEW so \in Seq(Bytes), NEW os \in Seq(Bytes), NEW ok, os # << >>,
         SameGame([s EXCEPT !.gameState = "CHOOSING_PLAYER"], t),
         Start(s, o, so, os)
  PROVE  Hand(t, o, Append(so, RECEIVE_VM_CONNECTED), Tail(os), ok)
<1>1. /\ t.phase = s.phase /\ t.gameState = "CHOOSING_PLAYER" /\ t.myTurn = s.myTurn
      /\ t.endGame = s.endGame /\ t.won = s.won /\ t.board = s.board
  BY DEF VM, SameGame
<1>2. Hello(s, so) /\ Hello(o, os)
  BY DEF Start
<1>3. o.gameState = "WAITING" /\ Carries(os, 0, 1, BLACK, 0, 0)
  BY <1>2 DEF Hello
<1>4. /\ ~t.myTurn /\ ~t.endGame /\ ~o.myTurn /\ Sync(t, o)
  BY <1>1, <1>2 DEF Hello, Sync, Quiet
<1>5. Tail(os) = << >>
  <2>1. PICK z \in 0 .. 7, n \in 0 .. 7 : z = 0 /\ n = 1
    OBVIOUS
  <2>2. Carries(Tail(os), z + 1, n, BLACK, 0, 0)
    <3>1. Carries(os, z, n, BLACK, 0, 0)
      BY <1>3, <2>1
    <3> QED BY <3>1, CarriesNext
  <2>3. Tail(os) \in Seq(Bytes)
    BY HeadTailProperties
  <2>4. Carries(Tail(os), n, n, BLACK, 0, 0)
    BY <2>1, <2>2
  <2> HIDE DEF Carries
  <2> QED BY <2>3, <2>4, CarriesNone
<1>6. PICK lo \in 0 .. 1 : Carries(so, lo, 1, opposite(t.player), 0, 0)
  <2>1. PICK z \in 0 .. 7, n \in 0 .. 3 : z = 0 /\ n = 1
    OBVIOUS
  <2>2. CASE so = << >>
    <3>1. n \in 0 .. 7
      OBVIOUS
    <3>2. Carries(so, n, n, opposite(t.player), 0, 0)
      BY <2>2, <3>1, CarriesEmpty
    <3> QED BY <2>1, <3>2
  <2>3. CASE so # << >>
    <3>1. Carries(so, z, n, BLACK, 0, 0)
      BY <1>2, <2>1, <2>3 DEF Hello
    <3>2. n <= 2
      BY <2>1
    <3>3. Carries(so, z, n, opposite(t.player), 0, 0)
      BY <3>1, <3>2, CarriesAny
    <3> QED BY <2>1, <3>3
  <2> QED BY <2>2, <2>3
<1>7. Carries(Append(so, RECEIVE_VM_CONNECTED), lo, 2, opposite(t.player), 0, 0)
  <2>1. PICK h \in 0 .. 6 : h = 1
    OBVIOUS
  <2>2. lo \in 0 .. 7
    OBVIOUS
  <2>3. RECEIVE_VM_CONNECTED = wire(h + 1, opposite(t.player), 0, 0)
    BY <2>1 DEF wire
  <2>4. Carries(so, lo, h, opposite(t.player), 0, 0)
    BY <1>6, <2>1
  <2>5. Carries(Append(so, RECEIVE_VM_CONNECTED), lo, h + 1, opposite(t.player), 0, 0)
    BY <2>2, <2>3, <2>4, CarriesAppend, Constants
  <2> QED BY <2>1, <2>5
<1>8. 0 \in Position /\ lo \in 0 .. 2 /\ lo # 2
  BY DEF Position
<1> QED BY <1>1, <1>3, <1>4, <1>5, <1>7, <1>8 DEF Hand

\* The second element of a queue becomes its first.
LEMMA TailElements ==
  ASSUME NEW q \in Seq(Bytes), q # << >>
  PROVE  /\ Tail(q) \in Seq(Bytes) /\ Len(Tail(q)) = Len(q) - 1
         /\ \A i \in 1 .. Len(Tail(q)) : Tail(q)[i] = q[i + 1]
         /\ Head(q) = q[1] /\ Len(q) \in Nat /\ Len(q) >= 1
<1>1. Len(q) \in Nat /\ Len(q) # 0
  BY LenProperties, EmptySeq
<1>2. Head(q) = q[1] /\ Tail(q) \in Seq(Bytes) /\ Len(Tail(q)) = Len(q) - 1
  BY HeadTailProperties
<1>3. \A i \in 1 .. Len(Tail(q)) : Tail(q)[i] = q[i + 1]
  BY HeadTailProperties, <1>2
<1> QED BY <1>1, <1>2, <1>3

\* The waiting machine reads the answer to its greeting, or what is left of it.
LEMMA AnswerPair ==
  ASSUME NEW s \in VM, NEW t \in VM, NEW o \in VM,
         NEW so \in Seq(Bytes), NEW os \in Seq(Bytes), NEW ok, os # << >>,
         s.gameState = "WAITING",
         \/ /\ Head(os) = RECEIVE_VM_CONNECTED
            /\ SameGame([s EXCEPT !.gameState = "WAIT_CHOOSING_PLAYER"], t)
         \/ Head(os) \notin {VM_CONNECTED, RECEIVE_VM_CONNECTED} /\ SameGame(s, t)
  PROVE  /\ Hand(o, s, os, so, ok) => Hand(o, t, Tail(os), so, ok)
         /\ LooseHand(o, s, os, so) => LooseHand(o, t, Tail(os), so)
<1>1. /\ t.phase = s.phase /\ t.myTurn = s.myTurn
      /\ t.endGame = s.endGame /\ t.won = s.won /\ t.board = s.board
      /\ t.byteOfMove = s.byteOfMove /\ t.old = s.old
      /\ t.gameState = IF Head(os) = RECEIVE_VM_CONNECTED THEN "WAIT_CHOOSING_PLAYER" ELSE "WAITING"
  BY DEF VM, SameGame
<1>2. Hand(o, s, os, so, ok) => Hand(o, t, Tail(os), so, ok)
  <2> SUFFICES ASSUME Hand(o, s, os, so, ok) PROVE Hand(o, t, Tail(os), so, ok)
    OBVIOUS
  <2>1. PICK lo \in 0 .. 2, hi \in {2, 3, 7}, x \in Position, y \in Position :
       /\ Carries(os, lo, hi, opposite(o.player), x, y)
       /\ s.gameState = IF lo = 2 THEN "WAIT_CHOOSING_PLAYER" ELSE "WAITING"
       /\ hi = 2 => o.gameState = "CHOOSING_PLAYER" /\ ~o.myTurn /\ ~o.endGame
       /\ hi = 3 => /\ o.gameState = "PLAYING" /\ ~o.endGame
                    /\ o.player \in {BLACK, WHITE} /\ (o.myTurn <=> o.player = WHITE)
       /\ hi = 7 => /\ o.gameState \in {"PLAYING", "EXIT"} /\ ~o.myTurn
                    /\ o.player = WHITE
       /\ ok => IF hi = 7 THEN Behind(o, s, x, y) ELSE Sync(o, s)
    BY DEF Hand
  <2>2. lo # 2
    BY <2>1
  <2>3. /\ Head(os) = wire(lo + 1, opposite(o.player), x, y)
        /\ Carries(Tail(os), lo + 1, hi, opposite(o.player), x, y)
    <3>1. PICK l \in 0 .. 7, h \in 0 .. 7 : l = lo /\ h = hi
      OBVIOUS
    <3>2. Carries(os, l, h, opposite(o.player), x, y)
      BY <2>1, <3>1
    <3>3. /\ Head(os) = wire(l + 1, opposite(o.player), x, y)
          /\ Carries(Tail(os), l + 1, h, opposite(o.player), x, y)
      BY <3>2, CarriesNext
    <3> QED BY <3>1, <3>3
  <2>4. lo = 1 /\ Head(os) = RECEIVE_VM_CONNECTED
    <3>1. lo = 0 => Head(os) = VM_CONNECTED
      BY <2>3 DEF wire
    <3>2. Head(os) # VM_CONNECTED
      BY DEF VM_CONNECTED, RECEIVE_VM_CONNECTED
    <3>3. lo = 1
      BY <2>2, <3>1, <3>2
    <3> QED BY <2>3, <3>3 DEF wire
  <2>5. Carries(Tail(os), 2, hi, opposite(o.player), x, y)
    BY <2>3, <2>4
  <2>6. t.gameState = "WAIT_CHOOSING_PLAYER"
    BY <1>1, <2>4
  <2>7. ok => IF hi = 7 THEN Behind(o, t, x, y) ELSE Sync(o, t)
    <3>1. Quiet(s) => Quiet(t)
      BY <1>1, <2>6 DEF Quiet
    <3> QED BY <1>1, <2>1, <3>1 DEF Behind, Sync
  <2>8. so = << >> /\ ~t.myTurn
    BY <1>1 DEF Hand
  <2> QED BY <2>1, <2>5, <2>6, <2>7, <2>8 DEF Hand
<1>3. LooseHand(o, s, os, so) => LooseHand(o, t, Tail(os), so)
  <2> SUFFICES ASSUME LooseHand(o, s, os, so) PROVE LooseHand(o, t, Tail(os), so)
    OBVIOUS
  <2>1. /\ o.gameState = "EXIT" /\ o.phase # "run" /\ ~o.myTurn /\ ~s.myTurn
        /\ so = << >> /\ TurnLast(os)
        /\ \A i \in 1 .. (Len(os) - 1) :
             os[i] = RECEIVE_VM_CONNECTED => os[i + 1] \in {BLACK, BEGIN_MESSAGE}
    BY DEF LooseHand
  <2>2. TurnLast(Tail(os))
    BY <2>1, TurnLastTail
  <2> DEFINE r == Tail(os)
             n == Len(os)
             m == Len(r)
  <2>3. /\ r \in Seq(Bytes) /\ m = n - 1 /\ n \in Nat /\ n >= 1
        /\ \A i \in 1 .. m : r[i] = os[i + 1]
        /\ Head(os) = os[1]
    BY TailElements
  <2>4. \A i \in 1 .. (n - 1) :
             os[i] = RECEIVE_VM_CONNECTED => os[i + 1] \in {BLACK, BEGIN_MESSAGE}
    BY <2>1
  <2>5. r # << >> => m # 0
    BY <2>3, EmptySeq
  <2>6. TurnLast(r)
    BY <2>2
  <2> HIDE DEF r, n, m
  <2>7. m \in Nat /\ (r # << >> => m >= 1 /\ 1 \in 1 .. m /\ 1 \in 1 .. (n - 1))
    BY <2>3, <2>5
  <2>8. CASE Head(os) = RECEIVE_VM_CONNECTED
    <3>1. r # << >> => r[1] \in {BLACK, BEGIN_MESSAGE}
      <4> SUFFICES ASSUME r # << >> PROVE r[1] \in {BLACK, BEGIN_MESSAGE}
        OBVIOUS
      <4>1. r[1] = os[1 + 1]
        BY <2>3, <2>7
      <4>2. os[1] = RECEIVE_VM_CONNECTED
        BY <2>3, <2>8
      <4>3. os[1 + 1] \in {BLACK, BEGIN_MESSAGE}
        BY <2>4, <2>7, <4>2
      <4> QED BY <4>1, <4>3
    <3>2. t.gameState = "WAIT_CHOOSING_PLAYER" /\ ~t.myTurn
      BY <1>1, <2>1, <2>8
    <3>3. LooseHand(o, t, r, so)
      BY <2>1, <2>6, <3>1, <3>2 DEF LooseHand
    <3> QED BY <3>3 DEF r
  <2>9. CASE Head(os) # RECEIVE_VM_CONNECTED
    <3>1. \A i \in 1 .. (m - 1) :
             r[i] = RECEIVE_VM_CONNECTED => r[i + 1] \in {BLACK, BEGIN_MESSAGE}
      <4> SUFFICES ASSUME NEW i \in 1 .. (m - 1), r[i] = RECEIVE_VM_CONNECTED
                   PROVE  r[i + 1] \in {BLACK, BEGIN_MESSAGE}
        OBVIOUS
      <4>1. i \in 1 .. m /\ i + 1 \in 1 .. m /\ i + 1 \in 1 .. (n - 1)
        BY <2>3, <2>7
      <4>2. r[i] = os[i + 1] /\ r[i + 1] = os[(i + 1) + 1]
        BY <2>3, <4>1
      <4> QED BY <2>4, <4>1, <4>2
    <3>2. t.gameState = "WAITING" /\ ~t.myTurn
      BY <1>1, <2>1, <2>9
    <3>3. LooseHand(o, t, r, so)
      BY <2>1, <2>6, <3>1, <3>2 DEF LooseHand, m
    <3> QED BY <3>3 DEF r
  <2> QED BY <2>8, <2>9
<1> QED BY <1>2, <1>3

\* A frame of the wait for the colour: the first byte that is not 0 is one.
LEMMA ColourLine ==
  ASSUME NEW s \in VM, NEW o \in VM, Len(bytesTo(s, o)) <= 7
  PROVE  LET t == waiting_choosing_ih(s)
             byte == Head(bytesTo(s, o))
         IN  /\ t \in VM /\ bytesTo(o, t) = bytesTo(o, s)
             /\ \/ bytesTo(t, o) = bytesTo(s, o) /\ SameGame(s, t)
                \/ /\ bytesTo(s, o) # << >> /\ bytesTo(t, o) = Tail(bytesTo(s, o))
                   /\ \/ byte = 0 /\ SameGame(s, t)
                      \/ /\ byte # 0
                         /\ SameGame([s EXCEPT !.myTurn = (byte = WHITE),
                                               !.player = IF byte = WHITE THEN WHITE ELSE BLACK,
                                               !.gameState = "PLAYING"], t)
<1> DEFINE r == sp_read(s)
           byte == queueFront(r.rxq)
           u == afterRead(r)
           t == waiting_choosing_ih(s)
           white == byte = WHITE
           colour == IF white THEN WHITE ELSE BLACK
<1>1. /\ r \in VM /\ SameGame(s, r)
      /\ bytesTo(o, r) = bytesTo(o, s) /\ bytesTo(r, o) = bytesTo(s, o)
  BY ReadType, ReadSame, ReadLine
<1>2. /\ u \in VM /\ SameGame(r, u) /\ bytesTo(o, u) = bytesTo(o, r)
      /\ \/ byte = 0 /\ bytesTo(u, o) = bytesTo(r, o)
         \/ /\ bytesTo(r, o) # << >> /\ byte = Head(bytesTo(r, o))
            /\ bytesTo(u, o) = Tail(bytesTo(r, o))
  <2> HIDE DEF r
  <2> QED BY <1>1, TakeLine
<1>3. t \in VM
  BY WaitingChoosingType
<1>4. t = IF byte # 0
          THEN [u EXCEPT !.myTurn = white, !.player = colour, !.gameState = "PLAYING"]
          ELSE u
  BY DEF waiting_choosing_ih
<1>5. SameGame(s, u)
  BY <1>1, <1>2 DEF SameGame
<1>6. CASE byte = 0
  <2>1. t = u
    BY <1>4, <1>6
  <2> HIDE DEF r, u, t, byte
  <2> QED BY <1>1, <1>2, <1>3, <1>5, <1>6, <2>1 DEF t
<1>7. CASE byte # 0
  <2>1. t = [u EXCEPT !.myTurn = white, !.player = colour, !.gameState = "PLAYING"]
    BY <1>4, <1>7
  <2> HIDE DEF r, u, t, byte, white, colour
  <2>2. t.txq = u.txq /\ t.rxq = u.rxq /\ t.fifo = u.fifo /\ t.thr = u.thr
    BY <1>2, <2>1 DEF VM
  <2>3. SameGame([s EXCEPT !.myTurn = white, !.player = colour, !.gameState = "PLAYING"], t)
    BY <1>2, <1>5, <2>1 DEF VM, SameGame
  <2>4. bytesTo(t, o) = bytesTo(u, o) /\ bytesTo(o, t) = bytesTo(o, u)
    BY <2>2 DEF bytesTo
  <2>5. /\ bytesTo(s, o) # << >> /\ byte = Head(bytesTo(s, o))
        /\ bytesTo(t, o) = Tail(bytesTo(s, o)) /\ bytesTo(o, t) = bytesTo(o, s)
    BY <1>1, <1>2, <1>7, <2>4
  <2> QED BY <1>3, <1>7, <2>3, <2>5 DEF t, white, colour
<1> QED BY <1>6, <1>7

\* The colour is read and the game begins on both machines.
LEMMA ColourPair ==
  ASSUME NEW s \in VM, NEW t \in VM, NEW o \in VM,
         NEW so \in Seq(Bytes), NEW os \in Seq(Bytes), NEW ok, os # << >>,
         s.gameState = "WAIT_CHOOSING_PLAYER",
         \/ Head(os) = 0 /\ SameGame(s, t)
         \/ /\ Head(os) # 0
            /\ SameGame([s EXCEPT !.myTurn = (Head(os) = WHITE),
                                  !.player = IF Head(os) = WHITE THEN WHITE ELSE BLACK,
                                  !.gameState = "PLAYING"], t)
  PROVE  /\ Hand(o, s, os, so, ok) => Game(o, t, Tail(os), so, ok)
         /\ LooseHand(o, s, os, so) => LooseGame(o, t, Tail(os), so)
<1> DEFINE white == Head(os) = WHITE
           colour == IF white THEN WHITE ELSE BLACK
<1>1. ASSUME Head(os) # 0
      PROVE  /\ t.phase = s.phase /\ t.endGame = s.endGame /\ t.won = s.won /\ t.board = s.board
             /\ t.byteOfMove = s.byteOfMove /\ t.old = s.old
             /\ t.gameState = "PLAYING" /\ t.myTurn = white /\ t.player = colour
  <2>1. SameGame([s EXCEPT !.myTurn = white, !.player = colour, !.gameState = "PLAYING"], t)
    BY <1>1
  <2> HIDE DEF white, colour
  <2> QED BY <2>1 DEF VM, SameGame
<1>2. Hand(o, s, os, so, ok) => Game(o, t, Tail(os), so, ok)
  <2> SUFFICES ASSUME Hand(o, s, os, so, ok) PROVE Game(o, t, Tail(os), so, ok)
    OBVIOUS
  <2>1. PICK lo \in 0 .. 2, hi \in {2, 3, 7}, x \in Position, y \in Position :
       /\ Carries(os, lo, hi, opposite(o.player), x, y)
       /\ s.gameState = IF lo = 2 THEN "WAIT_CHOOSING_PLAYER" ELSE "WAITING"
       /\ hi = 2 => o.gameState = "CHOOSING_PLAYER" /\ ~o.myTurn /\ ~o.endGame
       /\ hi = 3 => /\ o.gameState = "PLAYING" /\ ~o.endGame
                    /\ o.player \in {BLACK, WHITE} /\ (o.myTurn <=> o.player = WHITE)
       /\ hi = 7 => /\ o.gameState \in {"PLAYING", "EXIT"} /\ ~o.myTurn
                    /\ o.player = WHITE
       /\ ok => IF hi = 7 THEN Behind(o, s, x, y) ELSE Sync(o, s)
    BY DEF Hand
  <2>2. lo = 2
    BY <2>1
  <2>3. /\ lo < hi /\ Head(os) = wire(lo + 1, opposite(o.player), x, y)
        /\ Carries(Tail(os), lo + 1, hi, opposite(o.player), x, y)
    <3>1. PICK l \in 0 .. 7, h \in 0 .. 7 : l = lo /\ h = hi
      OBVIOUS
    <3>2. Carries(os, l, h, opposite(o.player), x, y)
      BY <2>1, <3>1
    <3>3. /\ l < h /\ Head(os) = wire(l + 1, opposite(o.player), x, y)
          /\ Carries(Tail(os), l + 1, h, opposite(o.player), x, y)
      BY <3>2, CarriesNext
    <3> QED BY <3>1, <3>3
  <2>4. /\ hi \in {3, 7} /\ Head(os) = opposite(o.player)
        /\ Carries(Tail(os), 3, hi, opposite(o.player), x, y)
    BY <2>2, <2>3 DEF wire
  <2>5. Head(os) # 0
    BY <2>4 DEF opposite, BLACK, WHITE
  <2>6. /\ t.phase = s.phase /\ t.endGame = s.endGame /\ t.won = s.won /\ t.board = s.board
        /\ t.gameState = "PLAYING" /\ t.myTurn = white /\ t.player = colour
    BY <1>1, <2>5
  <2>7. so = << >>
    BY DEF Hand
  <2>8. Quiet(s) => Quiet(t)
    BY <2>6 DEF Quiet
  <2>9. Tail(os) \in Seq(Bytes)
    BY HeadTailProperties
  <2>10. CASE hi = 3
    <3>1. Tail(os) = << >>
      <4>1. PICK l \in 0 .. 7 : l = 3
        OBVIOUS
      <4>2. Carries(Tail(os), l, l, opposite(o.player), x, y)
        BY <2>4, <2>10, <4>1
      <4> HIDE DEF Carries
      <4> QED BY <2>9, <4>2, CarriesNone
    <3>2. ok => Sync(o, t) /\ Sync(t, o)
      BY <2>1, <2>6, <2>8, <2>10 DEF Sync
    <3>3. CASE o.player = WHITE
      <4>1. Head(os) = BLACK /\ o.myTurn
        BY <2>1, <2>4, <2>10, <3>3 DEF opposite
      <4>n. Head(os) # WHITE
        BY <4>1 DEF BLACK, WHITE
      <4>2. t.player = BLACK /\ ~t.myTurn
        BY <2>6, <4>n
      <4>3. Rest(o, t, Tail(os), so, ok)
        BY <2>7, <3>1, <3>2, <4>1, <4>2 DEF Rest
      <4> QED BY <2>1, <2>6, <2>10, <3>3, <4>2, <4>3 DEF Game, Turn
    <3>4. CASE o.player = BLACK
      <4>1. Head(os) = WHITE /\ ~o.myTurn
        BY <2>1, <2>4, <2>10, <3>4 DEF opposite, BLACK, WHITE
      <4>2. t.player = WHITE /\ t.myTurn
        BY <2>6, <4>1
      <4>3. Rest(t, o, so, Tail(os), ok)
        BY <2>7, <3>1, <3>2, <4>1, <4>2 DEF Rest
      <4> QED BY <2>1, <2>6, <2>10, <3>4, <4>2, <4>3 DEF Game, Turn
    <3> QED BY <2>1, <2>10, <3>3, <3>4
  <2>11. CASE hi = 7
    <3>1. o.player = WHITE /\ ~o.myTurn /\ o.gameState \in {"PLAYING", "EXIT"}
      BY <2>1, <2>11
    <3>2. Head(os) = BLACK
      BY <2>4, <3>1 DEF opposite
    <3>n. Head(os) # WHITE
      BY <3>2 DEF BLACK, WHITE
    <3>3. t.player = BLACK /\ ~t.myTurn
      BY <2>6, <3>n
    <3>4. Carries(Tail(os), 3, 7, BLACK, x, y)
      BY <2>4, <2>11, <3>1 DEF opposite
    <3>5. ok => Flight(o, t, 3, x, y)
      <4>1. Behind(o, s, x, y) => Behind(o, t, x, y)
        BY <2>6, <2>8 DEF Behind
      <4> QED BY <2>1, <2>11, <4>1 DEF Flight
    <3>6. Fly(o, t, Tail(os), so, ok)
      BY <2>7, <3>1, <3>3, <3>4, <3>5 DEF Fly
    <3> QED BY <2>6, <3>1, <3>3, <3>6 DEF Game, Turn
  <2> QED BY <2>4, <2>10, <2>11
<1>3. LooseHand(o, s, os, so) => LooseGame(o, t, Tail(os), so)
  <2> SUFFICES ASSUME LooseHand(o, s, os, so) PROVE LooseGame(o, t, Tail(os), so)
    OBVIOUS
  <2>1. /\ o.gameState = "EXIT" /\ o.phase # "run" /\ ~o.myTurn
        /\ so = << >> /\ TurnLast(os) /\ os[1] \in {BLACK, BEGIN_MESSAGE}
    BY DEF LooseHand
  <2>2. Head(os) \in {BLACK, BEGIN_MESSAGE}
    BY <2>1, TailElements
  <2>3. Head(os) # 0 /\ Head(os) # WHITE
    BY <2>2 DEF BLACK, WHITE, BEGIN_MESSAGE
  <2>4. t.gameState = "PLAYING" /\ ~t.myTurn
    BY <1>1, <2>3
  <2>5. TurnLast(Tail(os)) /\ TurnLast(so)
    <3>1. TurnLast(Tail(os))
      BY <2>1, TurnLastTail
    <3>2. Len(so) = 0
      BY <2>1
    <3>3. TurnLast(so)
      BY <3>2 DEF TurnLast
    <3> QED BY <3>1, <3>3
  <2> QED BY <2>1, <2>4, <2>5 DEF LooseGame, AtMostOne
<1> QED BY <1>2, <1>3

\* ENTER clears the port and queues the greeting; any other key changes only the name.
LEMMA NameLine ==
  ASSUME NEW s \in VM, NEW o \in VM, Len(bytesTo(o, s)) <= 7, NEW code
  PROVE  LET t == name_choice_ih(s, code)
         IN  /\ t \in VM
             /\ \/ /\ bytesTo(t, o) = bytesTo(s, o) /\ bytesTo(o, t) = bytesTo(o, s)
                   /\ SameGame(s, t)
                \/ /\ bytesTo(o, t) = Append(bytesTo(o, s), VM_CONNECTED)
                   /\ \E pre \in Seq(Bytes) : bytesTo(s, o) = pre \o bytesTo(t, o)
                   /\ SameGame([s EXCEPT !.gameState = "WAITING"], t)
<1> DEFINE t == name_choice_ih(s, code)
           u == sp_clear(s)
           v == addToTransmitQueue(u, VM_CONNECTED)
           w == [v EXCEPT !.gameState = "WAITING"]
<1>1. t \in VM
  BY NameType
<1>2. \/ t = s \/ t = [s EXCEPT !.name_size = s.name_size - 1]
      \/ t = [s EXCEPT !.name_size = s.name_size + 1] \/ t = w
  BY DEF name_choice_ih
<1>3. CASE t = s
  BY <1>1, <1>3 DEF SameGame
<1>4. ASSUME NEW n, t = [s EXCEPT !.name_size = n]
      PROVE  /\ bytesTo(t, o) = bytesTo(s, o) /\ bytesTo(o, t) = bytesTo(o, s)
             /\ SameGame(s, t)
  <2> HIDE DEF t
  <2>1. t.txq = s.txq /\ t.rxq = s.rxq /\ t.fifo = s.fifo /\ t.thr = s.thr
    BY <1>4 DEF VM
  <2>2. SameGame(s, t)
    BY <1>4 DEF VM, SameGame
  <2> QED BY <2>1, <2>2 DEF bytesTo
<1>5. CASE t = w
  <2>1. /\ u \in VM /\ SameGame(s, u) /\ bytesTo(o, u) = bytesTo(o, s)
        /\ \E pre \in Seq(Bytes) : bytesTo(s, o) = pre \o bytesTo(u, o)
    BY ClearLine
  <2>2. /\ v \in VM /\ SameGame(u, v) /\ bytesTo(v, o) = bytesTo(u, o)
        /\ bytesTo(o, v) = Append(bytesTo(o, u), VM_CONNECTED)
    <3> HIDE DEF u
    <3> QED BY <2>1, Constants, AddLine
  <2> HIDE DEF u, v, t
  <2>3. t.txq = v.txq /\ t.rxq = v.rxq /\ t.fifo = v.fifo /\ t.thr = v.thr
    BY <1>5, <2>2 DEF VM
  <2>4. SameGame([s EXCEPT !.gameState = "WAITING"], t)
    BY <1>5, <2>1, <2>2 DEF VM, SameGame
  <2>5. bytesTo(t, o) = bytesTo(v, o) /\ bytesTo(o, t) = bytesTo(o, v)
    BY <2>3 DEF bytesTo
  <2> QED BY <1>1, <2>1, <2>2, <2>4, <2>5 DEF t
<1> QED BY <1>1, <1>2, <1>3, <1>4, <1>5

\* A greeting is sent. Clearing the port may throw the peer's greeting away, which the
\* peer's answer to this one makes up for.
LEMMA EnterPair ==
  ASSUME NEW s \in VM, NEW t \in VM, NEW o \in VM, NEW so \in Seq(Bytes),
         NEW pre \in Seq(Bytes), NEW rest \in Seq(Bytes), s.gameState = "START",
         SameGame([s EXCEPT !.gameState = "WAITING"], t),
         Start(s, o, so, pre \o rest)
  PROVE  Start(t, o, Append(so, VM_CONNECTED), rest)
<1>1. /\ t.phase = s.phase /\ t.gameState = "WAITING" /\ t.myTurn = s.myTurn
      /\ t.endGame = s.endGame /\ t.won = s.won /\ t.board = s.board
  BY DEF VM, SameGame
<1>2. Hello(s, so) /\ Hello(o, pre \o rest)
  BY DEF Start
<1>3. so = << >>
  BY <1>2 DEF Hello
<1>4. Carries(Append(so, VM_CONNECTED), 0, 1, BLACK, 0, 0)
  <2>1. PICK z \in 0 .. 6, y \in 0 .. 7 : z = 0 /\ y = 0
    OBVIOUS
  <2>2. Carries(so, y, z, BLACK, 0, 0)
    BY <1>3, <2>1, CarriesEmpty
  <2>3. VM_CONNECTED = wire(z + 1, BLACK, 0, 0)
    BY <2>1 DEF wire
  <2>4. Carries(Append(so, VM_CONNECTED), y, z + 1, BLACK, 0, 0)
    BY <2>2, <2>3, CarriesAppend, Constants
  <2> QED BY <2>1, <2>4
<1>5. Hello(t, Append(so, VM_CONNECTED))
  BY <1>1, <1>2, <1>4 DEF Hello, Quiet
<1>6. Hello(o, rest)
  <2>1. CASE rest = << >>
    BY <1>2, <2>1 DEF Hello
  <2>2. CASE rest # << >>
    <3>1. pre \o rest # << >>
      <4>1. Len(rest) # 0 /\ Len(rest) \in Nat /\ Len(pre) \in Nat
        BY <2>2, EmptySeq, LenProperties
      <4>2. Len(pre \o rest) = Len(pre) + Len(rest)
        BY ConcatProperties
      <4>3. Len(pre \o rest) # 0
        BY <4>1, <4>2
      <4> QED BY <4>3
    <3>2. o.gameState = "WAITING" /\ Carries(pre \o rest, 0, 1, BLACK, 0, 0)
      BY <1>2, <3>1 DEF Hello
    <3>3. PICK z \in 0 .. 7, n \in 0 .. 7 : z = 0 /\ n = 1
      OBVIOUS
    <3>4. PICK low \in z .. n : Carries(rest, low, n, BLACK, 0, 0)
      <4>1. Carries(pre \o rest, z, n, BLACK, 0, 0)
        BY <3>2, <3>3
      <4> QED BY <4>1, CarriesSuffix
    <3>5. low \in 0 .. 7 /\ low \in 0 .. 1
      BY <3>3
    <3>6. low # n
      BY <2>2, <3>4, <3>5, CarriesNone
    <3>7. low = 0
      BY <3>3, <3>5, <3>6
    <3>8. Carries(rest, 0, 1, BLACK, 0, 0)
      BY <3>3, <3>4, <3>7
    <3> QED BY <1>2, <3>2, <3>8 DEF Hello
  <2> QED BY <2>1, <2>2
<1> QED BY <1>5, <1>6 DEF Start

----------------------------------------------------------------------------------
(* Each machine by itself *)

\* A move keeps every piece but the one it takes, each on one square.
LEMMA PutBoard ==
  ASSUME NEW board \in [Square -> Ids \cup {NULL}], NEW a \in Square, NEW b \in Square,
         board[a] # NULL, Injective(board)
  PROVE  /\ Injective(put(board, a, b))
         /\ bothKings(put(board, a, b)) <=> bothKings(board) /\ ~kingAt(board, b)
<1> DEFINE after == put(board, a, b)
<1>1. /\ DOMAIN after = Square
      /\ \A sq \in Square : after[sq] = IF sq = a THEN NULL ELSE IF sq = b THEN board[a] ELSE board[sq]
  BY DEF put
<1> HIDE DEF after
<1>2. Injective(after)
  BY <1>1 DEF Injective
<1>3. \A id \in Ids : id # NULL
  BY DEF Ids, NULL
<1>4. ASSUME NEW id \in Ids
      PROVE  (\E sq \in Square : after[sq] = id) <=> (\E sq \in Square : board[sq] = id) /\ board[b] # id
  <2>1. ASSUME NEW sq \in Square, after[sq] = id
        PROVE  (\E c \in Square : board[c] = id) /\ board[b] # id
    BY <1>1, <1>3, <2>1 DEF Injective
  <2>2. ASSUME NEW sq \in Square, board[sq] = id, board[b] # id
        PROVE  \E c \in Square : after[c] = id
    <3>1. sq # b
      BY <2>2
    <3>2. CASE sq = a
      <4>1. a # b
        BY <3>1, <3>2
      <4>2. after[b] = id
        BY <1>1, <2>2, <3>2, <4>1
      <4> QED BY <4>2
    <3>3. CASE sq # a
      <4>1. after[sq] = id
        BY <1>1, <2>2, <3>1, <3>3
      <4> QED BY <4>1
    <3> QED BY <3>2, <3>3
  <2> QED BY <2>1, <2>2
<1>5. ASSUME bothKings(after)
      PROVE  bothKings(board) /\ ~kingAt(board, b)
  <2>1. bothKings(board)
    BY <1>4, <1>5 DEF bothKings
  <2>2. ~kingAt(board, b)
    <3> SUFFICES ASSUME kingAt(board, b) PROVE FALSE
      OBVIOUS
    <3>1. board[b] \in Ids /\ isKing(board[b])
      BY DEF kingAt
    <3>2. \E sq \in Square : after[sq] = board[b]
      BY <1>5, <3>1 DEF bothKings
    <3> QED BY <1>4, <3>1, <3>2
  <2> QED BY <2>1, <2>2
<1>6. ASSUME bothKings(board), ~kingAt(board, b)
      PROVE  bothKings(after)
  <2> SUFFICES ASSUME NEW id \in Ids, isKing(id)
               PROVE  \E sq \in Square : after[sq] = id
    BY DEF bothKings
  <2>1. \E sq \in Square : board[sq] = id
    BY <1>6 DEF bothKings
  <2>2. board[b] # id
    BY <1>3, <1>6 DEF kingAt
  <2> QED BY <1>4, <2>1, <2>2
<1> QED BY <1>2, <1>5, <1>6 DEF after

\* The initial position has both kings, and every piece on its own square.
LEMMA InitialBoard == Injective(initBoard) /\ bothKings(initBoard)
<1>1. Ids \subseteq Square
  BY DEF Ids, Square
<1>2. \A sq \in Square : initBoard[sq] = IF sq \in Ids THEN sq ELSE NULL
  BY DEF initBoard
<1>3. Injective(initBoard)
  BY <1>2 DEF Injective
<1>4. bothKings(initBoard)
  BY <1>1, <1>2 DEF bothKings
<1> QED BY <1>3, <1>4

\* What Local depends on.
LEMMA LocalSame ==
  ASSUME NEW s, NEW t, SameGame(s, t), Local(s)
  PROVE  Local(t)
BY DEF Local, SameGame

\* A screen before the game is left by a machine that holds no piece.
LEMMA LocalScreen ==
  ASSUME NEW s, NEW t, Local(s), ~s.myTurn,
         s.gameState \notin {"EXIT", "PLAYING"}, t.gameState # "EXIT",
         t.board = s.board, t.dragging = s.dragging, t.endGame = s.endGame
  PROVE  Local(t)
<1>1. ~s.endGame /\ s.dragging = NULL
  BY DEF Local
<1> QED BY <1>1 DEF Local

\* The end of a won game is noted.
LEMMA LocalEnd ==
  ASSUME NEW s \in VM, NEW t, Local(s), s.endGame,
         SameGame([s EXCEPT !.won = TRUE, !.gameState = "EXIT"], t)
  PROVE  Local(t) /\ t.endGame /\ t.gameState = "EXIT" /\ t.myTurn = s.myTurn
         /\ t.phase = s.phase
<1>1. /\ t.gameState = "EXIT" /\ t.endGame = s.endGame /\ t.board = s.board /\ t.phase = s.phase
      /\ t.dragging = s.dragging /\ t.from = s.from /\ t.myTurn = s.myTurn
  BY DEF VM, SameGame
<1> QED BY <1>1 DEF Local

\* A piece is picked up.
LEMMA LocalPick ==
  ASSUME NEW s \in VM, NEW t, Local(s), s.myTurn, NEW sq \in Square,
         SameGame([s EXCEPT !.dragging = s.board[sq], !.from = sq], t)
  PROVE  Local(t)
<1>1. /\ t.gameState = s.gameState /\ t.endGame = s.endGame /\ t.board = s.board
      /\ t.dragging = s.board[sq] /\ t.from = sq /\ t.myTurn = s.myTurn
  BY DEF VM, SameGame
<1> QED BY <1>1 DEF Local

\* A piece is put back.
LEMMA LocalBack ==
  ASSUME NEW s \in VM, NEW t, Local(s), SameGame([s EXCEPT !.dragging = NULL], t)
  PROVE  Local(t)
<1>1. /\ t.gameState = s.gameState /\ t.endGame = s.endGame /\ t.board = s.board
      /\ t.dragging = NULL /\ t.from = s.from /\ t.myTurn = s.myTurn
  BY DEF VM, SameGame
<1> QED BY <1>1 DEF Local

\* A piece moves: the square it came from is the one it was picked up from.
LEMMA LocalMove ==
  ASSUME NEW s \in VM, NEW t, Local(s), s.dragging # NULL, s.gameState = "PLAYING",
         NEW sq \in Square, s.board[sq] = NULL \/ ~sameTeam(s.dragging, s.board[sq]),
         SameGame([s EXCEPT
                     !.dragging = NULL, !.myTurn = FALSE,
                     !.endGame = (s.endGame \/ kingAt(s.board, sq)),
                     !.board = [s.board EXCEPT ![s.from] = NULL, ![sq] = s.dragging]], t)
  PROVE  Local(t)
<1> DEFINE e == s.endGame \/ kingAt(s.board, sq)
           b == [s.board EXCEPT ![s.from] = NULL, ![sq] = s.dragging]
<1>1. /\ t.gameState = s.gameState /\ t.endGame = e /\ t.board = b
      /\ t.dragging = NULL /\ ~t.myTurn
  <2>1. SameGame([s EXCEPT !.dragging = NULL, !.myTurn = FALSE, !.endGame = e, !.board = b], t)
    OBVIOUS
  <2> HIDE DEF e, b
  <2> QED BY <2>1 DEF VM, SameGame
<1>2. s.board \in [Square -> Ids \cup {NULL}] /\ s.from \in Square
  BY DEF VM
<1>3. s.board[s.from] = s.dragging /\ Injective(s.board)
  BY DEF Local
<1>4. s.from # sq
  BY <1>3 DEF sameTeam
<1>5. b = put(s.board, s.from, sq)
  BY <1>2, <1>3, <1>4 DEF put
<1>6. Injective(b) /\ (bothKings(b) <=> bothKings(s.board) /\ ~kingAt(s.board, sq))
  BY <1>2, <1>3, <1>5, PutBoard
<1>7. bothKings(s.board) <=> ~s.endGame
  BY DEF Local
<1> HIDE DEF b
<1> QED BY <1>1, <1>6, <1>7 DEF Local

\* A byte is read by a machine that is not to move.
LEMMA LocalRead ==
  ASSUME NEW s \in VM, NEW t, Local(s), ~s.myTurn, s.gameState \in {"PLAYING", "EXIT"},
         s.endGame => s.gameState = "EXIT", NEW byte \in Bytes, Reads(s, t, byte)
  PROVE  Local(t)
<1>1. s.dragging = NULL
  BY DEF Local
<1>2. ASSUME t.board = s.board, t.dragging = s.dragging, t.endGame = s.endGame,
             t.gameState = s.gameState
      PROVE  Local(t)
  BY <1>1, <1>2 DEF Local
<1>3. CASE SameGame(s, t)
  BY <1>3, LocalSame
<1>4. CASE SameGame([s EXCEPT !.byteOfMove = 0], t)
  BY <1>2, <1>4 DEF VM, SameGame
<1>5. CASE SameGame([s EXCEPT !.myTurn = TRUE], t)
  BY <1>2, <1>5 DEF VM, SameGame
<1>6. CASE SameGame([s EXCEPT !.old = decode(byte), !.byteOfMove = 1], t)
  BY <1>2, <1>6 DEF VM, SameGame
<1>7. CASE SameGame([s EXCEPT !.phase = "crashed"], t)
  BY <1>2, <1>7 DEF VM, SameGame
<1>8. ASSUME s.board[s.old] # NULL,
             SameGame([s EXCEPT
               !.gameState = IF kingAt(s.board, decode(byte)) THEN "EXIT" ELSE s.gameState,
               !.won = IF kingAt(s.board, decode(byte)) THEN FALSE ELSE s.won,
               !.board = put(s.board, s.old, decode(byte))], t)
      PROVE  Local(t)
  <2> DEFINE king == kingAt(s.board, decode(byte))
             g == IF king THEN "EXIT" ELSE s.gameState
             w == IF king THEN FALSE ELSE s.won
             b == put(s.board, s.old, decode(byte))
  <2>1. /\ t.gameState = g /\ t.endGame = s.endGame /\ t.board = b
        /\ t.dragging = s.dragging
    <3>1. SameGame([s EXCEPT !.gameState = g, !.won = w, !.board = b], t)
      BY <1>8
    <3> HIDE DEF g, w, b
    <3> QED BY <3>1 DEF VM, SameGame
  <2>2. s.board \in [Square -> Ids \cup {NULL}] /\ s.old \in Square /\ decode(byte) \in Square
    BY DecodeLemma DEF VM
  <2>3. Injective(s.board) /\ (bothKings(s.board) <=> ~(s.gameState = "EXIT" \/ s.endGame))
    BY DEF Local
  <2>4. Injective(b) /\ (bothKings(b) <=> bothKings(s.board) /\ ~king)
    BY <1>8, <2>2, <2>3, PutBoard
  <2> HIDE DEF b, king
  <2> QED BY <1>1, <2>1, <2>3, <2>4 DEF Local
<1> QED BY <1>3, <1>4, <1>5, <1>6, <1>7, <1>8 DEF Reads

----------------------------------------------------------------------------------
(* One turn of the main loop of machine s, the other one being o *)

\* Nobody has read a greeting; s was asked for the colours; o was.
Begun(s, o) == Start(s, o, bytesTo(o, s), bytesTo(s, o))

Chose(s, o, flushed, ok) == After(s, o, bytesTo(o, s), bytesTo(s, o), flushed, ok)

Waits(s, o, flushed, ok) == After(o, s, bytesTo(s, o), bytesTo(o, s), flushed, ok)

\* The invariant seen from s.
Joint(s, o, flushed, ok) ==
  (~flushed /\ Begun(s, o)) \/ Chose(s, o, flushed, ok) \/ Waits(s, o, flushed, ok)

\* s became t and the pair is in the same state.
Stays(s, t, o, flushed, ok, less) ==
  /\ Begun(s, o) => Begun(t, o)
  /\ Chose(s, o, flushed, ok) => Chose(t, o, flushed, less)
  /\ Waits(s, o, flushed, ok) => Waits(t, o, flushed, less)

\* No byte of the queue stands for the corner.
Clean(q) == \A i \in DOMAIN q : q[i] # 0

\* The line is short enough for what s does, and a player to move has nothing to read.
LEMMA JointBytes ==
  ASSUME NEW s \in VM, NEW o \in VM, NEW flushed, NEW ok, Joint(s, o, flushed, ok)
  PROVE  /\ bytesTo(o, s) \in Seq(Bytes) /\ bytesTo(s, o) \in Seq(Bytes)
         /\ Len(bytesTo(o, s)) <= 7 /\ Len(bytesTo(s, o)) <= 7
         /\ bytesTo(s, o) # << >> => ~s.myTurn
<1>1. bytesTo(o, s) \in Seq(Bytes) /\ bytesTo(s, o) \in Seq(Bytes)
  BY LineType
<1> QED BY <1>1, FewBytes DEF Joint, Begun, Chose, Waits

\* A player to move has a line with at most three bytes, the handshake's.
LEMMA JointRoom ==
  ASSUME NEW s \in VM, NEW o \in VM, NEW flushed, NEW ok, Joint(s, o, flushed, ok), s.myTurn
  PROVE  Len(bytesTo(o, s)) <= 4
<1> DEFINE so == bytesTo(o, s)
           os == bytesTo(s, o)
<1>1. so \in Seq(Bytes) /\ os \in Seq(Bytes)
  BY LineType
<1>2. so = << >> => Len(so) <= 4
  OBVIOUS
<1> HIDE DEF so, os
<1>3. ~Start(s, o, so, os)
  BY DEF Start, Hello
<1>4. Hand(s, o, so, os, ok) => Len(so) <= 4
  <2> SUFFICES ASSUME Hand(s, o, so, os, ok) PROVE Len(so) <= 4
    OBVIOUS
  <2>1. PICK lo \in 0 .. 2, hi \in {2, 3, 7}, x \in Position, y \in Position :
       /\ Carries(so, lo, hi, opposite(s.player), x, y)
       /\ hi = 2 => ~s.myTurn
       /\ hi = 7 => ~s.myTurn
    BY DEF Hand
  <2>2. hi = 3
    BY <2>1
  <2>3. Len(so) = hi - lo
    BY <2>1 DEF Carries
  <2> QED BY <2>2, <2>3
<1>5. Game(s, o, so, os, ok) => so = << >>
  BY DEF Game, Turn, Rest, Fly, Dead
<1>6. LooseGame(s, o, so, os) => so = << >>
  BY DEF LooseGame, AtMostOne
<1>7. Game(o, s, os, so, ok) => so = << >>
  BY <1>5, Symmetric
<1>8. LooseGame(o, s, os, so) => so = << >>
  BY <1>6, Symmetric
<1>9. ~LooseHand(s, o, so, os) /\ ~LooseHand(o, s, os, so) /\ ~Hand(o, s, os, so, ok)
  BY DEF LooseHand, Hand
<1>10. Start(s, o, so, os) \/ After(s, o, so, os, flushed, ok) \/ After(o, s, os, so, flushed, ok)
  BY DEF Joint, Begun, Chose, Waits, so, os
<1> QED BY <1>2, <1>3, <1>4, <1>5, <1>6, <1>7, <1>8, <1>9, <1>10 DEF After, so

\* What changes neither the line nor the game changes nothing here.
LEMMA StaysSame ==
  ASSUME NEW s, NEW t, NEW o, NEW flushed, NEW ok, SameTurn(s, t),
         bytesTo(o, t) = bytesTo(o, s), bytesTo(t, o) = bytesTo(s, o)
  PROVE  Stays(s, t, o, flushed, ok, ok)
<1>1. SameTurn(o, o)
  BY DEF SameTurn
<1> DEFINE so == bytesTo(o, s)
           os == bytesTo(s, o)
<1>2. /\ Start(s, o, so, os) => Start(t, o, so, os)
      /\ After(s, o, so, os, flushed, ok) => After(t, o, so, os, flushed, ok)
  <2> HIDE DEF so, os
  <2> QED BY <1>1, SamePair
<1>3. After(o, s, os, so, flushed, ok) => After(o, t, os, so, flushed, ok)
  <2> HIDE DEF so, os
  <2> QED BY <1>1, SamePair
<1> QED BY <1>2, <1>3 DEF Stays, Begun, Chose, Waits

LEMMA SameGameTurn == ASSUME NEW s, NEW t, SameGame(s, t) PROVE SameTurn(s, t)
BY DEF SameGame, SameTurn

\* One step of a turn after the other.
LEMMA StaysTwice ==
  ASSUME NEW s, NEW t, NEW u, NEW o, NEW flushed, NEW ok, NEW less,
         Stays(s, t, o, flushed, ok, ok), Stays(t, u, o, flushed, ok, less)
  PROVE  Stays(s, u, o, flushed, ok, less)
BY DEF Stays

LEMMA StaysJoint ==
  ASSUME NEW s, NEW t, NEW o, NEW flushed, NEW ok, NEW less,
         Stays(s, t, o, flushed, ok, less), Joint(s, o, flushed, ok)
  PROVE  Joint(t, o, flushed, less)
BY DEF Stays, Joint

\* What the pair may say less of, it may.
LEMMA StaysLess ==
  ASSUME NEW s, NEW t, NEW o, NEW flushed, NEW ok, NEW less, less => ok,
         Stays(s, t, o, flushed, ok, ok)
  PROVE  Stays(s, t, o, flushed, ok, less)
<1>1. /\ Chose(t, o, flushed, ok) => Chose(t, o, flushed, less)
      /\ Waits(t, o, flushed, ok) => Waits(t, o, flushed, less)
  BY LessOk DEF Chose, Waits
<1> QED BY <1>1 DEF Stays

\* In the game the two machines play the same part: what holds of the machine that
\* chose the colours holds of the other.
LEMMA StaysGame ==
  ASSUME NEW s, NEW t, NEW o, NEW flushed, NEW ok, NEW less,
         s.gameState = "PLAYING",
         Hand(s, o, bytesTo(o, s), bytesTo(s, o), ok)
           => Hand(t, o, bytesTo(o, t), bytesTo(t, o), less),
         Game(s, o, bytesTo(o, s), bytesTo(s, o), ok)
           => Game(t, o, bytesTo(o, t), bytesTo(t, o), less),
         LooseGame(s, o, bytesTo(o, s), bytesTo(s, o))
           => LooseGame(t, o, bytesTo(o, t), bytesTo(t, o))
  PROVE  Stays(s, t, o, flushed, ok, less)
<1> DEFINE so == bytesTo(o, s)
           os == bytesTo(s, o)
           to == bytesTo(o, t)
           ot == bytesTo(t, o)
<1>1. /\ Hand(s, o, so, os, ok) => Hand(t, o, to, ot, less)
      /\ Game(s, o, so, os, ok) => Game(t, o, to, ot, less)
      /\ LooseGame(s, o, so, os) => LooseGame(t, o, to, ot)
  OBVIOUS
<1> HIDE DEF so, os, to, ot
<1>2. ~Start(s, o, so, os)
  BY DEF Start, Hello
<1>3. ~LooseHand(s, o, so, os) /\ ~LooseHand(o, s, os, so) /\ ~Hand(o, s, os, so, ok)
  BY DEF LooseHand, Hand
<1>4. After(s, o, so, os, flushed, ok) => After(t, o, to, ot, flushed, less)
  BY <1>1, <1>3 DEF After
<1>5. After(o, s, os, so, flushed, ok) => After(o, t, ot, to, flushed, less)
  BY <1>1, <1>3, Symmetric DEF After
<1> QED BY <1>2, <1>4, <1>5 DEF Stays, Begun, Chose, Waits, so, os, to, ot

\* The serial port part of a turn.
LEMMA SerialStep ==
  ASSUME NEW s \in VM, NEW o \in VM, NEW flushed, NEW ok, Joint(s, o, flushed, ok),
         Local(s), NEW irqs
  PROVE  LET t == serialPart(s, irqs)
         IN  /\ t \in VM /\ Local(t) /\ t.phase = s.phase /\ t.gameState = s.gameState
             /\ Stays(s, t, o, flushed, ok, ok)
<1> DEFINE t == serialPart(s, irqs)
<1>1. /\ t \in VM /\ SameGame(s, t)
      /\ bytesTo(o, t) = bytesTo(o, s) /\ bytesTo(t, o) = bytesTo(s, o)
  BY JointBytes, SerialLine
<1> HIDE DEF t
<1>2. Stays(s, t, o, flushed, ok, ok)
  BY <1>1, SameGameTurn, StaysSame
<1>3. Local(t) /\ t.phase = s.phase /\ t.gameState = s.gameState
  BY <1>1, LocalSame DEF SameGame
<1> QED BY <1>1, <1>2, <1>3 DEF t

\* Every event of the game begins with noteEnd.
LEMMA EndStep ==
  ASSUME NEW s \in VM, NEW o \in VM, NEW flushed, NEW ok, Local(s),
         s.phase = "run", s.gameState = "PLAYING"
  PROVE  LET t == noteEnd(s)
         IN  /\ t \in VM /\ Local(t) /\ t.phase = "run" /\ t.txq = s.txq
             /\ Stays(s, t, o, flushed, ok, ok)
             /\ \/ ~s.endGame /\ t = s
                \/ t.endGame /\ t.gameState = "EXIT" /\ ~t.myTurn
<1> DEFINE t == noteEnd(s)
<1>1. /\ t \in VM /\ t.txq = s.txq
      /\ bytesTo(o, t) = bytesTo(o, s) /\ bytesTo(t, o) = bytesTo(s, o)
      /\ \/ ~s.endGame /\ t = s
         \/ s.endGame /\ SameGame([s EXCEPT !.won = TRUE, !.gameState = "EXIT"], t)
  BY EndLine
<1> HIDE DEF t
<1>2. CASE ~s.endGame /\ t = s
  BY <1>1, <1>2 DEF Stays, t
<1>3. CASE s.endGame /\ SameGame([s EXCEPT !.won = TRUE, !.gameState = "EXIT"], t)
  <2>1. /\ Local(t) /\ t.endGame /\ t.gameState = "EXIT" /\ t.myTurn = s.myTurn
        /\ t.phase = s.phase
    BY <1>3, LocalEnd
  <2>2. ~s.myTurn
    BY <1>3 DEF Local
  <2> DEFINE so == bytesTo(o, s)
             os == bytesTo(s, o)
  <2>3. /\ Hand(s, o, so, os, ok) => Hand(t, o, so, os, ok)
        /\ Game(s, o, so, os, ok) => Game(t, o, so, os, ok)
        /\ LooseGame(s, o, so, os) => LooseGame(t, o, so, os)
    <3> HIDE DEF so, os
    <3> QED BY <1>1, <1>3, EndPair
  <2>4. Stays(s, t, o, flushed, ok, ok)
    BY <1>1, <2>3, StaysGame
  <2> QED BY <1>1, <2>1, <2>2, <2>4 DEF t
<1> QED BY <1>1, <1>2, <1>3

\* A key. Only ENTER on the name screen says anything to the peer.
LEMMA KeyStep ==
  ASSUME NEW s \in VM, NEW o \in VM, NEW flushed, NEW ok, Joint(s, o, flushed, ok),
         Local(s), s.phase = "run", NEW code
  PROVE  LET t == onKeyboard(s, code)
         IN  /\ t \in VM /\ Local(t) /\ t.phase = "run"
             /\ t.gameState = "CHOOSING_PLAYER" => s.gameState = "CHOOSING_PLAYER"
             /\ Stays(s, t, o, flushed, ok, ok)
<1> DEFINE t == onKeyboard(s, code)
<1>1. CASE s.gameState = "START"
  <2>1. t = name_choice_ih(s, code)
    BY <1>1 DEF onKeyboard
  <2>2. /\ t \in VM
        /\ \/ /\ bytesTo(t, o) = bytesTo(s, o) /\ bytesTo(o, t) = bytesTo(o, s)
              /\ SameGame(s, t)
           \/ /\ bytesTo(o, t) = Append(bytesTo(o, s), VM_CONNECTED)
              /\ \E pre \in Seq(Bytes) : bytesTo(s, o) = pre \o bytesTo(t, o)
              /\ SameGame([s EXCEPT !.gameState = "WAITING"], t)
    <3> DEFINE n == name_choice_ih(s, code)
    <3>1. Len(bytesTo(o, s)) <= 7
      BY JointBytes
    <3>2. /\ n \in VM
          /\ \/ /\ bytesTo(n, o) = bytesTo(s, o) /\ bytesTo(o, n) = bytesTo(o, s)
                /\ SameGame(s, n)
             \/ /\ bytesTo(o, n) = Append(bytesTo(o, s), VM_CONNECTED)
                /\ \E pre \in Seq(Bytes) : bytesTo(s, o) = pre \o bytesTo(n, o)
                /\ SameGame([s EXCEPT !.gameState = "WAITING"], n)
      BY <3>1, NameLine
    <3>3. t = n
      BY <2>1
    <3> HIDE DEF n, t
    <3> QED BY <3>2, <3>3
  <2> HIDE DEF t
  <2>3. CASE bytesTo(t, o) = bytesTo(s, o) /\ bytesTo(o, t) = bytesTo(o, s) /\ SameGame(s, t)
    <3>1. Stays(s, t, o, flushed, ok, ok)
      BY <2>3, SameGameTurn, StaysSame
    <3>2. Local(t) /\ t.phase = s.phase /\ t.gameState = s.gameState
      BY <2>3, LocalSame DEF SameGame
    <3> QED BY <2>2, <3>1, <3>2 DEF t
  <2>4. CASE /\ bytesTo(o, t) = Append(bytesTo(o, s), VM_CONNECTED)
             /\ \E pre \in Seq(Bytes) : bytesTo(s, o) = pre \o bytesTo(t, o)
             /\ SameGame([s EXCEPT !.gameState = "WAITING"], t)
    <3>1. PICK pre \in Seq(Bytes) : bytesTo(s, o) = pre \o bytesTo(t, o)
      BY <2>4
    <3>2. bytesTo(o, s) \in Seq(Bytes) /\ bytesTo(t, o) \in Seq(Bytes)
      BY <2>2, LineType
    <3>3. Begun(s, o) => Begun(t, o)
      <4> SUFFICES ASSUME Begun(s, o) PROVE Begun(t, o)
        OBVIOUS
      <4>1. Start(s, o, bytesTo(o, s), pre \o bytesTo(t, o))
        BY <3>1 DEF Begun
      <4>2. Start(t, o, Append(bytesTo(o, s), VM_CONNECTED), bytesTo(t, o))
        <5> DEFINE so == bytesTo(o, s)
                   ot == bytesTo(t, o)
        <5>1. so \in Seq(Bytes) /\ ot \in Seq(Bytes) /\ Start(s, o, so, pre \o ot)
          BY <3>2, <4>1
        <5> HIDE DEF so, ot
        <5>2. Start(t, o, Append(so, VM_CONNECTED), ot)
          BY <1>1, <2>2, <2>4, <5>1, EnterPair
        <5> QED BY <5>2 DEF so, ot
      <4> QED BY <2>4, <4>2 DEF Begun
    <3>4. ~Chose(s, o, flushed, ok) /\ ~Waits(s, o, flushed, ok)
      BY <1>1 DEF Chose, Waits, After, Hand, Game, LooseHand, LooseGame
    <3>5. /\ t.gameState = "WAITING" /\ t.phase = s.phase /\ t.board = s.board
          /\ t.dragging = s.dragging /\ t.endGame = s.endGame
      BY <2>4 DEF VM, SameGame
    <3>6. Begun(s, o)
      BY <3>4 DEF Joint
    <3>7. ~s.myTurn
      BY <3>6 DEF Begun, Start, Hello
    <3>8. Local(t)
      BY <1>1, <3>5, <3>7, LocalScreen
    <3> QED BY <2>2, <3>3, <3>4, <3>5, <3>8 DEF Stays, t
  <2> QED BY <2>2, <2>3, <2>4
<1>2. CASE s.gameState = "PLAYING"
  <2> DEFINE u == noteEnd(s)
  <2>1. /\ u \in VM /\ Local(u) /\ u.phase = "run"
        /\ Stays(s, u, o, flushed, ok, ok)
        /\ u = s \/ u.gameState = "EXIT"
    BY <1>2, EndStep
  <2>2. t = playing_key(u, code)
    BY <1>2 DEF onKeyboard
  <2>3. t = u \/ t = [u EXCEPT !.animation = ~u.animation]
    BY <2>2 DEF playing_key
  <2>4. t \in VM
    BY <2>1, <2>2, KeyType
  <2> HIDE DEF t, u
  <2>5. /\ SameGame(u, t) /\ t.txq = u.txq /\ t.rxq = u.rxq /\ t.fifo = u.fifo /\ t.thr = u.thr
    <3>1. ASSUME NEW z, t = [u EXCEPT !.animation = z]
          PROVE  /\ SameGame(u, t)
                 /\ t.txq = u.txq /\ t.rxq = u.rxq /\ t.fifo = u.fifo /\ t.thr = u.thr
      BY <2>1, <3>1 DEF VM, SameGame
    <3>2. CASE t = u
      BY <3>2 DEF SameGame
    <3> QED BY <2>3, <3>1, <3>2
  <2>6. bytesTo(o, t) = bytesTo(o, u) /\ bytesTo(t, o) = bytesTo(u, o)
    BY <2>5 DEF bytesTo
  <2>7. Stays(u, t, o, flushed, ok, ok)
    BY <2>5, <2>6, SameGameTurn, StaysSame
  <2>8. Stays(s, t, o, flushed, ok, ok)
    BY <2>1, <2>7, StaysTwice
  <2>9. Local(t) /\ t.phase = "run" /\ t.gameState = u.gameState
    BY <2>1, <2>5, LocalSame DEF SameGame
  <2>10. t.gameState # "CHOOSING_PLAYER"
    BY <1>2, <2>1, <2>9
  <2> QED BY <2>4, <2>8, <2>9, <2>10 DEF t
<1>3. CASE s.gameState \notin {"START", "PLAYING"}
  <2>1. t = s
    BY <1>3 DEF onKeyboard
  <2> QED BY <2>1 DEF Stays
<1> QED BY <1>1, <1>2, <1>3

\* A press of the button in the game.
LEMMA PickStep ==
  ASSUME NEW s \in VM, NEW o \in VM, NEW flushed, NEW ok, Local(s), NEW x, NEW y
  PROVE  LET t == pickUp(s, x, y)
         IN  /\ t \in VM /\ Local(t) /\ t.phase = s.phase /\ t.gameState = s.gameState
             /\ Stays(s, t, o, flushed, ok, ok)
             /\ ~s.myTurn => t = s
<1> DEFINE t == pickUp(s, x, y)
<1>1. /\ t \in VM /\ t.txq = s.txq
      /\ bytesTo(o, t) = bytesTo(o, s) /\ bytesTo(t, o) = bytesTo(s, o)
      /\ \/ t = s
         \/ /\ s.myTurn
            /\ \E sq \in Square :
                 /\ s.board[sq] # NULL
                 /\ SameGame([s EXCEPT !.dragging = s.board[sq], !.from = sq], t)
  BY ONLY PickUpLine, s \in VM, o \in VM, Zenon
<1> HIDE DEF t
<1>2. CASE t = s
  BY <1>1, <1>2 DEF Stays, t
<1>3. ASSUME s.myTurn, NEW sq \in Square,
             SameGame([s EXCEPT !.dragging = s.board[sq], !.from = sq], t)
      PROVE  Local(t) /\ SameTurn(s, t) /\ t.phase = s.phase
  <2>1. Local(t)
    BY <1>3, LocalPick
  <2>2. SameTurn(s, t) /\ t.phase = s.phase
    BY <1>3 DEF VM, SameGame, SameTurn
  <2> QED BY <2>1, <2>2
<1>4. CASE t # s
  <2>1. Local(t) /\ SameTurn(s, t) /\ t.phase = s.phase /\ s.myTurn
    BY <1>1, <1>3, <1>4
  <2>2. Stays(s, t, o, flushed, ok, ok)
    BY <1>1, <2>1, StaysSame
  <2>3. t.phase = s.phase /\ t.gameState = s.gameState
    BY <2>1 DEF SameTurn
  <2> QED BY <1>1, <2>1, <2>2, <2>3 DEF t
<1> QED BY <1>2, <1>4

\* The bytes of a move are in the queue it was appended to.
LEMMA CleanMove ==
  ASSUME NEW q \in Seq(Bytes), NEW x \in Bytes, NEW y \in Bytes, Clean(moveAfter(q, x, y))
  PROVE  x # 0 /\ y # 0
<1> DEFINE q1 == Append(q, BEGIN_MESSAGE)
           q2 == Append(q1, x)
           q3 == Append(q2, y)
           q4 == Append(q3, YOUR_TURN)
<1>1. q1 \in Seq(Bytes) /\ Len(q1) = Len(q) + 1 /\ Len(q) \in Nat
  BY Constants, AppendProperties, LenProperties
<1> HIDE DEF q1
<1>2. q2 \in Seq(Bytes) /\ Len(q2) = Len(q1) + 1 /\ q2[Len(q1) + 1] = x
  BY <1>1, AppendProperties
<1> HIDE DEF q2
<1>3. /\ q3 \in Seq(Bytes) /\ Len(q3) = Len(q2) + 1 /\ q3[Len(q2) + 1] = y
      /\ \A i \in 1 .. Len(q2) : q3[i] = q2[i]
  BY <1>2, AppendProperties
<1> HIDE DEF q3
<1>4. /\ q4 \in Seq(Bytes) /\ Len(q4) = Len(q3) + 1
      /\ \A i \in 1 .. Len(q3) : q4[i] = q3[i]
  BY <1>3, Constants, AppendProperties
<1>5. Clean(q4)
  BY DEF moveAfter, q1, q2, q3
<1>6. DOMAIN q4 = 1 .. Len(q4)
  BY <1>4, LenProperties
<1> HIDE DEF q4
<1> DEFINE n == Len(q)
<1>7. n \in Nat /\ Len(q1) = n + 1 /\ Len(q2) = n + 2 /\ Len(q3) = n + 3 /\ Len(q4) = n + 4
  BY <1>1, <1>2, <1>3, <1>4
<1>8. q4[n + 2] = x
  <2>1. q2[n + 2] = x
    BY <1>2, <1>7
  <2>2. n + 2 \in 1 .. Len(q2) /\ n + 2 \in 1 .. Len(q3)
    BY <1>7
  <2> QED BY <1>3, <1>4, <2>1, <2>2
<1>9. q4[n + 3] = y
  <2>1. q3[n + 3] = y
    BY <1>3, <1>7
  <2>2. n + 3 \in 1 .. Len(q3)
    BY <1>7
  <2> QED BY <1>4, <2>1, <2>2
<1>10. n + 2 \in 1 .. Len(q4) /\ n + 3 \in 1 .. Len(q4)
  BY <1>7
<1> QED BY <1>5, <1>6, <1>8, <1>9, <1>10 DEF Clean

\* A release of the button in the game.
LEMMA DropStep ==
  ASSUME NEW s \in VM, NEW o \in VM, NEW flushed, NEW ok \in BOOLEAN, Joint(s, o, flushed, ok),
         Local(s), s.phase = "run", s.gameState = "PLAYING", s.dragging # NULL, NEW x, NEW y
  PROVE  LET t == drop(s, x, y)
         IN  /\ t \in VM /\ Local(t) /\ t.phase = s.phase /\ t.gameState = s.gameState
             /\ Stays(s, t, o, flushed, ok, ok /\ Clean(t.txq))
<1> DEFINE t == drop(s, x, y)
           so == bytesTo(o, s)
           os == bytesTo(s, o)
<1>1. s.myTurn /\ s.from \in Square
  BY DEF Local, VM
<1>2. Len(so) <= 4 /\ so \in Seq(Bytes) /\ os \in Seq(Bytes) /\ s.txq \in Seq(Bytes)
  BY <1>1, JointRoom, LineType, BufferTypes
<1>3. /\ t \in VM /\ bytesTo(t, o) = os
      /\ \/ /\ bytesTo(o, t) = so /\ t.txq = s.txq
            /\ SameGame([s EXCEPT !.dragging = NULL], t)
         \/ \E sq \in Square :
              /\ s.board[sq] = NULL \/ ~sameTeam(s.dragging, s.board[sq])
              /\ bytesTo(o, t) = moveAfter(so, encode(s.from), encode(sq))
              /\ t.txq = moveAfter(s.txq, encode(s.from), encode(sq))
              /\ SameGame([s EXCEPT
                   !.dragging = NULL, !.myTurn = FALSE,
                   !.endGame = (s.endGame \/ kingAt(s.board, sq)),
                   !.board = [s.board EXCEPT ![s.from] = NULL, ![sq] = s.dragging]], t)
  BY <1>2, DropLine
<1> HIDE DEF t
<1>4. CASE bytesTo(o, t) = so /\ SameGame([s EXCEPT !.dragging = NULL], t)
  <2>1. Local(t)
    BY <1>4, LocalBack
  <2>2. SameTurn(s, t) /\ t.phase = s.phase
    BY <1>4 DEF VM, SameGame, SameTurn
  <2>3. Stays(s, t, o, flushed, ok, ok)
    BY <1>3, <1>4, <2>2, StaysSame
  <2>4. Stays(s, t, o, flushed, ok, ok /\ Clean(t.txq))
    BY <2>3, StaysLess
  <2> QED BY <1>3, <2>1, <2>2, <2>4 DEF SameTurn, t
<1>5. ASSUME NEW sq \in Square,
              s.board[sq] = NULL \/ ~sameTeam(s.dragging, s.board[sq]),
              bytesTo(o, t) = moveAfter(so, encode(s.from), encode(sq)),
              t.txq = moveAfter(s.txq, encode(s.from), encode(sq)),
              SameGame([s EXCEPT
                   !.dragging = NULL, !.myTurn = FALSE,
                   !.endGame = (s.endGame \/ kingAt(s.board, sq)),
                   !.board = [s.board EXCEPT ![s.from] = NULL, ![sq] = s.dragging]], t)
      PROVE  /\ Local(t) /\ t.phase = s.phase /\ t.gameState = s.gameState
             /\ Stays(s, t, o, flushed, ok, ok /\ Clean(t.txq))
  <2> DEFINE a == encode(s.from)
             b == encode(sq)
             less == ok /\ Clean(t.txq)
             full == ok /\ a # 0 /\ b # 0
             to == moveAfter(so, a, b)
  <2>1. Local(t)
    BY <1>5, LocalMove
  <2>2. t.phase = s.phase /\ t.gameState = s.gameState
    <3> DEFINE e == s.endGame \/ kingAt(s.board, sq)
               c == [s.board EXCEPT ![s.from] = NULL, ![sq] = s.dragging]
    <3>1. SameGame([s EXCEPT !.dragging = NULL, !.myTurn = FALSE, !.endGame = e, !.board = c], t)
      BY <1>5
    <3> HIDE DEF e, c
    <3> QED BY <3>1 DEF VM, SameGame
  <2>3. /\ Hand(s, o, so, os, ok) => Hand(t, o, to, os, full)
        /\ Game(s, o, so, os, ok) => Game(t, o, to, os, full)
        /\ LooseGame(s, o, so, os) => LooseGame(t, o, to, os)
    <3>1. t \in VM /\ so \in Seq(Bytes)
      BY <1>2, <1>3
    <3> HIDE DEF so, os
    <3> QED BY <1>5, <3>1, MovePair
  <2>4. less => full
    <3> SUFFICES ASSUME ok, Clean(t.txq) PROVE a # 0 /\ b # 0
      OBVIOUS
    <3>1. a \in Bytes /\ b \in Bytes
      BY <1>1, EncodeLemma DEF Bytes
    <3>2. Clean(moveAfter(s.txq, a, b))
      BY <1>5
    <3> HIDE DEF a, b
    <3> QED BY <1>2, <3>1, <3>2, CleanMove
  <2>5. /\ Hand(s, o, so, os, ok) => Hand(t, o, to, os, less)
        /\ Game(s, o, so, os, ok) => Game(t, o, to, os, less)
    <3> HIDE DEF so, os, to, less, full
    <3> QED BY <2>3, <2>4, LessOk
  <2>6. Stays(s, t, o, flushed, ok, less)
    <3>1. bytesTo(o, t) = to /\ bytesTo(t, o) = os
      BY <1>3, <1>5
    <3> HIDE DEF less, to
    <3> QED BY <2>3, <2>5, <3>1, StaysGame
  <2> QED BY <2>1, <2>2, <2>6
<1> QED BY <1>3, <1>4, <1>5 DEF t

\* A mouse event of the game: a press, a release, or both.
LEMMA PlayingMouseStep ==
  ASSUME NEW s \in VM, NEW o \in VM, NEW flushed, NEW ok \in BOOLEAN, Joint(s, o, flushed, ok),
         Local(s), s.phase = "run", s.gameState = "PLAYING" \/ ~s.myTurn,
         NEW x, NEW y, NEW released
  PROVE  LET t == playing_mouse(s, x, y, released)
         IN  /\ t \in VM /\ Local(t) /\ t.phase = "run" /\ t.gameState = s.gameState
             /\ Stays(s, t, o, flushed, ok, ok /\ Clean(t.txq))
<1> DEFINE p == pickUp(s, x, y)
           u == IF s.dragging = NULL THEN p ELSE s
           d == drop(u, x, y)
           t == playing_mouse(s, x, y, released)
<1>1. t = IF released /\ u.dragging # NULL THEN d ELSE u
  BY DEF playing_mouse
<1>2. /\ p \in VM /\ Local(p) /\ p.phase = s.phase /\ p.gameState = s.gameState
      /\ Stays(s, p, o, flushed, ok, ok)
      /\ ~s.myTurn => p = s
  BY PickStep
<1> HIDE DEF p
<1>3. /\ u \in VM /\ Local(u) /\ u.phase = "run" /\ u.gameState = s.gameState
      /\ Stays(s, u, o, flushed, ok, ok)
      /\ ~s.myTurn => u = s
  BY <1>2 DEF Stays
<1> HIDE DEF u
<1>4. CASE ~(released /\ u.dragging # NULL)
  <2>1. t = u
    BY <1>1, <1>4
  <2>2. Stays(s, u, o, flushed, ok, ok /\ Clean(u.txq))
    BY <1>3, StaysLess
  <2> QED BY <1>3, <2>1, <2>2
<1>5. CASE released /\ u.dragging # NULL
  <2>1. t = d
    BY <1>1, <1>5
  <2>2. u.gameState = "PLAYING"
    <3>1. u.myTurn
      BY <1>3, <1>5 DEF Local
    <3> QED BY <1>3, <3>1
  <2>3. Joint(u, o, flushed, ok)
    BY <1>3, StaysJoint
  <2>4. /\ d \in VM /\ Local(d) /\ d.phase = u.phase /\ d.gameState = u.gameState
        /\ Stays(u, d, o, flushed, ok, ok /\ Clean(d.txq))
    BY <1>3, <1>5, <2>2, <2>3, DropStep
  <2> HIDE DEF d
  <2>5. Stays(s, d, o, flushed, ok, ok /\ Clean(d.txq))
    <3> DEFINE less == ok /\ Clean(d.txq)
    <3>1. Stays(u, d, o, flushed, ok, less)
      BY <2>4
    <3> HIDE DEF less
    <3>2. Stays(s, d, o, flushed, ok, less)
      BY <1>3, <3>1, StaysTwice
    <3> QED BY <3>2 DEF less
  <2> QED BY <1>3, <2>1, <2>4, <2>5
<1> QED BY <1>4, <1>5

\* The choice of the colours: only a machine whose peer waits for it gets there.
LEMMA ChoosingStep ==
  ASSUME NEW s \in VM, NEW o \in VM, NEW flushed, NEW ok, Joint(s, o, flushed, ok),
         Local(s), s.gameState = "CHOOSING_PLAYER", NEW x, NEW y
  PROVE  LET t == choosing_ih(s, x, y)
         IN  /\ t \in VM /\ Local(t) /\ t.phase = s.phase
             /\ Stays(s, t, o, flushed, ok, ok)
<1> DEFINE t == choosing_ih(s, x, y)
           so == bytesTo(o, s)
           os == bytesTo(s, o)
<1>1. so \in Seq(Bytes) /\ os \in Seq(Bytes) /\ Len(so) <= 7
  BY JointBytes
<1>2. /\ t \in VM
      /\ \/ t = s
         \/ \E colour \in {BLACK, WHITE} :
              /\ bytesTo(o, t) = Append(so, opposite(colour))
              /\ bytesTo(t, o) = os
              /\ SameGame([s EXCEPT !.player = colour, !.gameState = "PLAYING",
                                    !.myTurn = (colour = WHITE)], t)
  BY ONLY <1>1, ChoosingLine, s \in VM, o \in VM, Zenon
<1> HIDE DEF t
<1>3. CASE t = s
  BY <1>2, <1>3 DEF Stays, t
<1>4. ASSUME NEW colour \in {BLACK, WHITE},
             bytesTo(o, t) = Append(so, opposite(colour)), bytesTo(t, o) = os,
             SameGame([s EXCEPT !.player = colour, !.gameState = "PLAYING",
                                !.myTurn = (colour = WHITE)], t)
      PROVE  Local(t) /\ t.phase = s.phase /\ Stays(s, t, o, flushed, ok, ok)
  <2>1. ~Begun(s, o) /\ ~Waits(s, o, flushed, ok)
    BY DEF Begun, Start, Hello, Waits, After, Hand, Game, LooseHand, LooseGame
  <2>2. ~flushed /\ Hand(s, o, so, os, ok)
    BY <2>1 DEF Joint, Chose, After, Game, LooseHand, LooseGame
  <2>3. ~s.myTurn
    BY <2>2 DEF Hand
  <2>4. /\ t.gameState = "PLAYING" /\ t.phase = s.phase /\ t.board = s.board
        /\ t.dragging = s.dragging /\ t.endGame = s.endGame
    <3> DEFINE white == colour = WHITE
    <3>1. SameGame([s EXCEPT !.player = colour, !.gameState = "PLAYING", !.myTurn = white], t)
      BY <1>4
    <3> HIDE DEF white
    <3> QED BY <3>1 DEF VM, SameGame
  <2>5. Local(t)
    BY <2>3, <2>4, LocalScreen
  <2>6. Hand(t, o, Append(so, opposite(colour)), os, ok)
    <3>1. so \in Seq(Bytes) /\ t \in VM
      BY <1>1, <1>2
    <3> HIDE DEF so, os
    <3> QED BY <1>4, <2>2, <3>1, ChoosePair
  <2>7. Chose(t, o, flushed, ok)
    BY <1>4, <2>2, <2>6 DEF Chose, After
  <2> QED BY <2>1, <2>4, <2>5, <2>7 DEF Stays
<1> QED BY <1>2, <1>3, <1>4 DEF t

\* A mouse event.
LEMMA MouseStep ==
  ASSUME NEW s \in VM, NEW o \in VM, NEW flushed, NEW ok \in BOOLEAN, Joint(s, o, flushed, ok),
         Local(s), s.phase = "run", NEW x, NEW y, NEW lb \in BOOLEAN
  PROVE  LET t == onMouse(s, x, y, lb)
         IN  /\ t \in VM /\ Local(t) /\ t.phase = "run"
             /\ t.gameState = "CHOOSING_PLAYER" => s.gameState = "CHOOSING_PLAYER"
             /\ Stays(s, t, o, flushed, ok,
                      ok /\ (t.gameState \in {"PLAYING", "EXIT"} => Clean(t.txq)))
<1> DEFINE released == s.pressed /\ ~lb
           u == [s EXCEPT !.pressed = lb]
           t == onMouse(s, x, y, lb)
<1>1. u \in VM
  BY SetField
<1>2. /\ SameGame(s, u) /\ u.txq = s.txq /\ u.rxq = s.rxq /\ u.fifo = s.fifo /\ u.thr = s.thr
  BY DEF VM, SameGame
<1>3. t = CASE s.gameState = "CHOOSING_PLAYER" -> choosing_ih(u, x, y)
            [] s.gameState = "PLAYING" -> playing_mouse(noteEnd(u), x, y, released)
            [] OTHER -> u
  BY DEF onMouse
<1> HIDE DEF u, t, released
<1>4. bytesTo(o, u) = bytesTo(o, s) /\ bytesTo(u, o) = bytesTo(s, o)
  BY <1>2 DEF bytesTo
<1>5. /\ Local(u) /\ u.phase = "run" /\ u.gameState = s.gameState
      /\ Stays(s, u, o, flushed, ok, ok)
  <2>1. Local(u) /\ u.phase = "run" /\ u.gameState = s.gameState
    BY <1>2, LocalSame DEF SameGame
  <2>2. Stays(s, u, o, flushed, ok, ok)
    BY <1>2, <1>4, SameGameTurn, StaysSame
  <2> QED BY <2>1, <2>2
<1>6. Joint(u, o, flushed, ok)
  BY <1>5, StaysJoint
<1> DEFINE less == ok /\ (t.gameState \in {"PLAYING", "EXIT"} => Clean(t.txq))
<1>7. ASSUME t \in VM, Local(t), t.phase = "run",
             t.gameState = "CHOOSING_PLAYER" => s.gameState = "CHOOSING_PLAYER",
             Stays(u, t, o, flushed, ok, less)
      PROVE  /\ t \in VM /\ Local(t) /\ t.phase = "run"
             /\ t.gameState = "CHOOSING_PLAYER" => s.gameState = "CHOOSING_PLAYER"
             /\ Stays(s, t, o, flushed, ok, less)
  <2> HIDE DEF less
  <2> QED BY <1>5, <1>7, StaysTwice
<1>8. CASE s.gameState = "CHOOSING_PLAYER"
  <2>1. t = choosing_ih(u, x, y)
    BY <1>3, <1>8
  <2>2. /\ t \in VM /\ Local(t) /\ t.phase = "run"
        /\ Stays(u, t, o, flushed, ok, ok)
    BY <1>1, <1>5, <1>6, <1>8, <2>1, ChoosingStep
  <2>3. Stays(u, t, o, flushed, ok, less)
    <3>1. less => ok
      OBVIOUS
    <3> HIDE DEF less
    <3> QED BY <2>2, <3>1, StaysLess
  <2> QED BY <1>7, <1>8, <2>2, <2>3 DEF t
<1>9. CASE s.gameState = "PLAYING"
  <2> DEFINE v == noteEnd(u)
  <2>1. t = playing_mouse(v, x, y, released)
    BY <1>3, <1>9
  <2>2. /\ v \in VM /\ Local(v) /\ v.phase = "run"
        /\ Stays(u, v, o, flushed, ok, ok)
        /\ \/ ~u.endGame /\ v = u
           \/ v.endGame /\ v.gameState = "EXIT" /\ ~v.myTurn
    BY <1>1, <1>5, <1>9, EndStep
  <2> HIDE DEF v
  <2>3. Joint(v, o, flushed, ok)
    BY <1>6, <2>2, StaysJoint
  <2>4. (v.gameState = "PLAYING" \/ ~v.myTurn) /\ v.gameState \in {"PLAYING", "EXIT"}
    BY <1>5, <1>9, <2>2
  <2>5. /\ t \in VM /\ Local(t) /\ t.phase = "run" /\ t.gameState = v.gameState
        /\ Stays(v, t, o, flushed, ok, ok /\ Clean(t.txq))
    <3> DEFINE w == playing_mouse(v, x, y, released)
    <3>1. /\ w \in VM /\ Local(w) /\ w.phase = "run" /\ w.gameState = v.gameState
          /\ Stays(v, w, o, flushed, ok, ok /\ Clean(w.txq))
      BY <2>2, <2>3, <2>4, PlayingMouseStep
    <3> HIDE DEF w
    <3>2. t = w
      BY <2>1 DEF w
    <3> QED BY <3>1, <3>2
  <2>6. less <=> ok /\ Clean(t.txq)
    BY <2>4, <2>5
  <2>7. Stays(v, t, o, flushed, ok, less)
    BY <2>4, <2>5
  <2>8. Stays(u, t, o, flushed, ok, less)
    <3> HIDE DEF less
    <3> QED BY <2>2, <2>7, StaysTwice
  <2> QED BY <1>7, <1>9, <2>4, <2>5, <2>8 DEF t
<1>10. CASE s.gameState \notin {"CHOOSING_PLAYER", "PLAYING"}
  <2>1. t = u
    BY <1>3, <1>10
  <2>2. Stays(u, t, o, flushed, ok, ok)
    BY <2>1 DEF Stays
  <2>3. Stays(u, t, o, flushed, ok, less)
    <3>1. less => ok
      OBVIOUS
    <3> HIDE DEF less
    <3> QED BY <2>2, <3>1, StaysLess
  <2> QED BY <1>1, <1>5, <1>7, <1>10, <2>1, <2>3 DEF t
<1> QED BY <1>8, <1>9, <1>10

\* s became t by the frame that ends a turn: it may have read a greeting.
Moves(s, t, o, flushed, ok, less) ==
  /\ Begun(s, o) => \/ Begun(t, o)
                    \/ t.gameState = "CHOOSING_PLAYER" /\ Chose(t, o, FALSE, less)
  /\ Chose(s, o, flushed, ok) => Chose(t, o, flushed, less)
  /\ Waits(s, o, flushed, ok) => Waits(t, o, flushed, less) \/ t.gameState = "CHOOSING_PLAYER"

LEMMA StaysMoves ==
  ASSUME NEW s, NEW t, NEW o, NEW flushed, NEW ok, NEW less, Stays(s, t, o, flushed, ok, less)
  PROVE  Moves(s, t, o, flushed, ok, less)
BY DEF Stays, Moves

LEMMA StaysThenMoves ==
  ASSUME NEW s, NEW t, NEW u, NEW o, NEW flushed, NEW ok, NEW less,
         Stays(s, t, o, flushed, ok, less), Moves(t, u, o, flushed, less, less)
  PROVE  Moves(s, u, o, flushed, ok, less)
BY DEF Stays, Moves

\* A frame of the waiting screen.
LEMMA WaitingStep ==
  ASSUME NEW s \in VM, NEW o \in VM, NEW flushed, NEW ok, Joint(s, o, flushed, ok),
         Local(s), s.gameState = "WAITING"
  PROVE  LET t == waiting_ih(s)
         IN  t \in VM /\ Local(t) /\ Moves(s, t, o, flushed, ok, ok)
<1> DEFINE t == waiting_ih(s)
           so == bytesTo(o, s)
           os == bytesTo(s, o)
           to == bytesTo(o, t)
           ot == bytesTo(t, o)
<1>1. so \in Seq(Bytes) /\ os \in Seq(Bytes) /\ Len(so) <= 7
  BY JointBytes
<1>2. /\ t \in VM
      /\ \/ ot = os /\ to = so /\ SameGame(s, t)
         \/ /\ os # << >> /\ ot = Tail(os)
            /\ \/ /\ Head(os) = VM_CONNECTED
                  /\ to = Append(so, RECEIVE_VM_CONNECTED)
                  /\ SameGame([s EXCEPT !.gameState = "CHOOSING_PLAYER"], t)
               \/ /\ Head(os) = RECEIVE_VM_CONNECTED /\ to = so
                  /\ SameGame([s EXCEPT !.gameState = "WAIT_CHOOSING_PLAYER"], t)
               \/ /\ Head(os) \notin {VM_CONNECTED, RECEIVE_VM_CONNECTED}
                  /\ to = so /\ SameGame(s, t)
  BY <1>1, WaitingLine
<1>3. ~Chose(s, o, flushed, ok)
  BY DEF Chose, After, Hand, Game, LooseHand, LooseGame
<1>4. Waits(s, o, flushed, ok) => /\ flushed => LooseHand(o, s, os, so)
                                  /\ ~flushed => Hand(o, s, os, so, ok)
  BY DEF Waits, After, Game, LooseGame
<1>5. ~s.myTurn
  <2>1. Begun(s, o) => ~s.myTurn
    BY DEF Begun, Start, Hello
  <2>2. Waits(s, o, flushed, ok) => ~s.myTurn
    BY <1>4 DEF LooseHand, Hand
  <2> QED BY <1>3, <2>1, <2>2 DEF Joint
<1> HIDE DEF t
<1>6. CASE ot = os /\ to = so /\ SameGame(s, t)
  <2>1. Stays(s, t, o, flushed, ok, ok)
    BY <1>6, SameGameTurn, StaysSame
  <2>2. Moves(s, t, o, flushed, ok, ok)
    BY <2>1, StaysMoves
  <2>3. Local(t)
    BY <1>6, LocalSame
  <2> QED BY <1>2, <2>2, <2>3 DEF t
<1>7. CASE /\ os # << >> /\ ot = Tail(os) /\ Head(os) = VM_CONNECTED
           /\ to = Append(so, RECEIVE_VM_CONNECTED)
           /\ SameGame([s EXCEPT !.gameState = "CHOOSING_PLAYER"], t)
  <2>1. /\ t.gameState = "CHOOSING_PLAYER" /\ t.board = s.board
        /\ t.dragging = s.dragging /\ t.endGame = s.endGame
    BY <1>7 DEF VM, SameGame
  <2>2. Local(t)
    BY <1>5, <2>1, LocalScreen
  <2>3. Start(s, o, so, os) => Hand(t, o, Append(so, RECEIVE_VM_CONNECTED), Tail(os), ok)
    <3>1. so \in Seq(Bytes) /\ os \in Seq(Bytes) /\ t \in VM
      BY <1>1, <1>2
    <3> HIDE DEF so, os
    <3> QED BY <1>7, <3>1, GreetingPair
  <2>4. Begun(s, o) => Chose(t, o, FALSE, ok)
    BY <1>7, <2>3 DEF Begun, Chose, After
  <2> QED BY <1>2, <1>3, <2>1, <2>2, <2>4 DEF Moves, t
<1>8. CASE /\ os # << >> /\ ot = Tail(os) /\ to = so
           /\ \/ /\ Head(os) = RECEIVE_VM_CONNECTED
                 /\ SameGame([s EXCEPT !.gameState = "WAIT_CHOOSING_PLAYER"], t)
              \/ /\ Head(os) \notin {VM_CONNECTED, RECEIVE_VM_CONNECTED}
                 /\ SameGame(s, t)
  <2>1. /\ t.gameState # "EXIT" /\ t.board = s.board
        /\ t.dragging = s.dragging /\ t.endGame = s.endGame
    BY <1>8 DEF VM, SameGame
  <2>2. Local(t)
    BY <1>5, <2>1, LocalScreen
  <2>3. /\ Hand(o, s, os, so, ok) => Hand(o, t, Tail(os), so, ok)
        /\ LooseHand(o, s, os, so) => LooseHand(o, t, Tail(os), so)
    <3>1. so \in Seq(Bytes) /\ os \in Seq(Bytes) /\ t \in VM
      BY <1>1, <1>2
    <3> HIDE DEF so, os
    <3> QED BY <1>8, <3>1, AnswerPair
  <2>4. Waits(s, o, flushed, ok) => Waits(t, o, flushed, ok)
    BY <1>4, <1>8, <2>3 DEF Waits, After
  <2>5. ~Begun(s, o)
    <3> SUFFICES ASSUME Begun(s, o) PROVE FALSE
      OBVIOUS
    <3>1. Carries(os, 0, 1, BLACK, 0, 0)
      BY <1>8 DEF Begun, Start, Hello
    <3>2. PICK z \in 0 .. 7, n \in 0 .. 7 : z = 0 /\ n = 1
      OBVIOUS
    <3>3. Carries(os, z, n, BLACK, 0, 0)
      BY <3>1, <3>2
    <3>4. Head(os) = wire(z + 1, BLACK, 0, 0)
      <4> HIDE DEF os
      <4> QED BY <1>1, <1>8, <3>3, CarriesNext
    <3>5. Head(os) = VM_CONNECTED
      BY <3>2, <3>4 DEF wire
    <3> QED BY <1>8, <3>5 DEF VM_CONNECTED, RECEIVE_VM_CONNECTED
  <2> QED BY <1>2, <1>3, <2>2, <2>4, <2>5 DEF Moves, t
<1> QED BY <1>2, <1>6, <1>7, <1>8

\* A frame of the wait for the colour.
LEMMA ColourStep ==
  ASSUME NEW s \in VM, NEW o \in VM, NEW flushed, NEW ok, Joint(s, o, flushed, ok),
         Local(s), s.gameState = "WAIT_CHOOSING_PLAYER"
  PROVE  LET t == waiting_choosing_ih(s)
         IN  t \in VM /\ Local(t) /\ Moves(s, t, o, flushed, ok, ok)
<1> DEFINE t == waiting_choosing_ih(s)
           so == bytesTo(o, s)
           os == bytesTo(s, o)
           to == bytesTo(o, t)
           ot == bytesTo(t, o)
<1>1. so \in Seq(Bytes) /\ os \in Seq(Bytes) /\ Len(os) <= 7
  BY JointBytes
<1>2. /\ t \in VM /\ to = so
      /\ \/ ot = os /\ SameGame(s, t)
         \/ /\ os # << >> /\ ot = Tail(os)
            /\ \/ Head(os) = 0 /\ SameGame(s, t)
               \/ /\ Head(os) # 0
                  /\ SameGame([s EXCEPT !.myTurn = (Head(os) = WHITE),
                                        !.player = IF Head(os) = WHITE THEN WHITE ELSE BLACK,
                                        !.gameState = "PLAYING"], t)
  BY ONLY <1>1, ColourLine, s \in VM, o \in VM, Zenon
<1>3. ~Begun(s, o) /\ ~Chose(s, o, flushed, ok)
  BY DEF Begun, Start, Hello, Chose, After, Hand, Game, LooseHand, LooseGame
<1>4. /\ Waits(s, o, flushed, ok)
      /\ flushed => LooseHand(o, s, os, so)
      /\ ~flushed => Hand(o, s, os, so, ok)
  BY <1>3 DEF Joint, Waits, After, Game, LooseGame
<1>5. ~s.myTurn
  BY <1>4 DEF LooseHand, Hand
<1> HIDE DEF t
<1>6. CASE ot = os /\ SameGame(s, t)
  <2>1. Stays(s, t, o, flushed, ok, ok)
    BY <1>2, <1>6, SameGameTurn, StaysSame
  <2>2. Moves(s, t, o, flushed, ok, ok)
    BY <2>1, StaysMoves
  <2>3. Local(t)
    BY <1>6, LocalSame
  <2> QED BY <1>2, <2>2, <2>3 DEF t
<1>7. CASE /\ os # << >> /\ ot = Tail(os)
           /\ \/ Head(os) = 0 /\ SameGame(s, t)
              \/ /\ Head(os) # 0
                 /\ SameGame([s EXCEPT !.myTurn = (Head(os) = WHITE),
                                       !.player = IF Head(os) = WHITE THEN WHITE ELSE BLACK,
                                       !.gameState = "PLAYING"], t)
  <2>1. Local(t)
    <3>1. CASE SameGame(s, t)
      BY <3>1, LocalSame
    <3>2. CASE SameGame([s EXCEPT !.myTurn = (Head(os) = WHITE),
                                  !.player = IF Head(os) = WHITE THEN WHITE ELSE BLACK,
                                  !.gameState = "PLAYING"], t)
      <4> DEFINE white == Head(os) = WHITE
                 colour == IF white THEN WHITE ELSE BLACK
      <4>1. SameGame([s EXCEPT !.myTurn = white, !.player = colour, !.gameState = "PLAYING"], t)
        BY <3>2
      <4> HIDE DEF white, colour
      <4>2. /\ t.gameState = "PLAYING" /\ t.board = s.board
            /\ t.dragging = s.dragging /\ t.endGame = s.endGame
        BY <4>1 DEF VM, SameGame
      <4> QED BY <1>5, <4>2, LocalScreen
    <3> QED BY <1>7, <3>1, <3>2
  <2>2. /\ Hand(o, s, os, so, ok) => Game(o, t, Tail(os), so, ok)
        /\ LooseHand(o, s, os, so) => LooseGame(o, t, Tail(os), so)
    <3>1. so \in Seq(Bytes) /\ os \in Seq(Bytes) /\ t \in VM
      BY <1>1, <1>2
    <3> HIDE DEF so, os
    <3> QED BY ONLY <1>7, <3>1, ColourPair, s \in VM, o \in VM,
                    s.gameState = "WAIT_CHOOSING_PLAYER", Zenon
  <2>3. Waits(t, o, flushed, ok)
    BY <1>2, <1>4, <1>7, <2>2 DEF Waits, After
  <2> QED BY <1>2, <1>3, <2>1, <2>3 DEF Moves, t
<1> QED BY <1>2, <1>6, <1>7

\* A frame of the game, noteEnd included.
LEMMA PlayingFrameStep ==
  ASSUME NEW s \in VM, NEW o \in VM, NEW flushed, NEW ok, Joint(s, o, flushed, ok),
         Local(s), s.phase = "run", s.gameState = "PLAYING"
  PROVE  LET t == playing_frame(noteEnd(s))
         IN  /\ t \in VM /\ Local(t) /\ t.txq = s.txq
             /\ Stays(s, t, o, flushed, ok, ok)
<1> DEFINE u == noteEnd(s)
           t == playing_frame(u)
           uo == bytesTo(o, u)
           ou == bytesTo(u, o)
<1>1. /\ u \in VM /\ Local(u) /\ u.phase = "run" /\ u.txq = s.txq
      /\ Stays(s, u, o, flushed, ok, ok)
      /\ \/ ~s.endGame /\ u = s
         \/ u.endGame /\ u.gameState = "EXIT" /\ ~u.myTurn
  BY EndStep
<1> HIDE DEF u
<1>2. /\ u.gameState \in {"PLAYING", "EXIT"}
      /\ u.gameState = "PLAYING" \/ u.endGame
      /\ u.endGame => u.gameState = "EXIT"
  BY <1>1
<1>3. Joint(u, o, flushed, ok)
  BY <1>1, StaysJoint
<1>4. /\ uo \in Seq(Bytes) /\ ou \in Seq(Bytes) /\ (ou # << >> => ~u.myTurn)
  BY <1>1, <1>3, JointBytes
<1>5. /\ t \in VM /\ t.txq = u.txq /\ bytesTo(o, t) = uo
      /\ \/ bytesTo(t, o) = ou /\ SameGame(u, t)
         \/ /\ ou # << >> /\ bytesTo(t, o) = Tail(ou)
            /\ Reads(u, t, Head(ou))
  BY <1>1, FrameLine
<1> HIDE DEF t
<1>6. CASE bytesTo(t, o) = ou /\ SameGame(u, t)
  <2>1. Stays(u, t, o, flushed, ok, ok)
    BY <1>5, <1>6, SameGameTurn, StaysSame
  <2>2. Stays(s, t, o, flushed, ok, ok)
    BY <1>1, <2>1, StaysTwice
  <2>3. Local(t)
    BY <1>1, <1>6, LocalSame
  <2> QED BY <1>1, <1>5, <2>2, <2>3 DEF t, u
<1>7. CASE ou # << >> /\ bytesTo(t, o) = Tail(ou) /\ Reads(u, t, Head(ou))
  <2>1. Local(t)
    <3>1. Head(ou) \in Bytes
      BY <1>4, <1>7, HeadTailProperties
    <3> HIDE DEF ou
    <3> QED BY <1>1, <1>2, <1>4, <1>7, <3>1, LocalRead
  <2>2. /\ Hand(u, o, uo, ou, ok) => Hand(t, o, uo, Tail(ou), ok)
        /\ Game(u, o, uo, ou, ok) => Game(t, o, uo, Tail(ou), ok)
        /\ LooseGame(u, o, uo, ou) => LooseGame(t, o, uo, Tail(ou))
    <3> HIDE DEF uo, ou
    <3> QED BY <1>1, <1>2, <1>4, <1>5, <1>7, ReadPair
  <2>3. Stays(u, t, o, flushed, ok, ok)
    <3> DEFINE to == bytesTo(o, t)
               ot == bytesTo(t, o)
    <3>1. /\ Hand(u, o, uo, ou, ok) => Hand(t, o, to, ot, ok)
          /\ Game(u, o, uo, ou, ok) => Game(t, o, to, ot, ok)
          /\ LooseGame(u, o, uo, ou) => LooseGame(t, o, to, ot)
      BY <1>5, <1>7, <2>2
    <3> HIDE DEF uo, ou, to, ot
    <3>2. ~Start(u, o, uo, ou)
      BY <1>2 DEF Start, Hello
    <3>3. ~LooseHand(o, u, ou, uo) /\ ~Hand(o, u, ou, uo, ok)
      BY <1>2 DEF LooseHand, Hand
    <3>4. ~LooseHand(u, o, uo, ou)
      BY <1>1 DEF LooseHand
    <3>5. After(u, o, uo, ou, flushed, ok) => After(t, o, to, ot, flushed, ok)
      BY <3>1, <3>4 DEF After
    <3>6. After(o, u, ou, uo, flushed, ok) => After(o, t, ot, to, flushed, ok)
      BY <3>1, <3>3, Symmetric DEF After
    <3> QED BY <3>2, <3>5, <3>6 DEF Stays, Begun, Chose, Waits, uo, ou, to, ot
  <2>4. Stays(s, t, o, flushed, ok, ok)
    BY <1>1, <2>3, StaysTwice
  <2> QED BY <1>1, <1>5, <2>1, <2>4 DEF t, u
<1> QED BY <1>5, <1>6, <1>7

\* A frame.
LEMMA FrameStep ==
  ASSUME NEW s \in VM, NEW o \in VM, NEW flushed, NEW ok, Joint(s, o, flushed, ok),
         Local(s), s.phase = "run"
  PROVE  LET t == onNewFrame(s)
         IN  /\ t \in VM /\ Local(t)
             /\ Moves(s, t, o, flushed, ok, ok)
             /\ s.gameState \in {"PLAYING", "EXIT"} => t.txq = s.txq
<1> DEFINE t == onNewFrame(s)
<1>1. CASE s.gameState = "WAITING"
  <2>1. t = waiting_ih(s)
    BY <1>1 DEF onNewFrame
  <2> HIDE DEF t
  <2> QED BY <1>1, <2>1, WaitingStep DEF t
<1>2. CASE s.gameState = "WAIT_CHOOSING_PLAYER"
  <2>1. t = waiting_choosing_ih(s)
    BY <1>2 DEF onNewFrame
  <2> HIDE DEF t
  <2> QED BY <1>2, <2>1, ColourStep DEF t
<1>3. CASE s.gameState = "PLAYING"
  <2>1. t = playing_frame(noteEnd(s))
    BY <1>3 DEF onNewFrame
  <2> HIDE DEF t
  <2> QED BY <1>3, <2>1, PlayingFrameStep, StaysMoves DEF t
<1>4. CASE s.gameState \notin {"WAITING", "WAIT_CHOOSING_PLAYER", "PLAYING"}
  <2>1. t = s
    BY <1>4 DEF onNewFrame
  <2> QED BY <2>1 DEF Moves
<1> QED BY <1>1, <1>2, <1>3, <1>4

\* A whole turn of the main loop.
LEMMA IterationStep ==
  ASSUME NEW s \in VM, NEW o \in VM, NEW flushed, NEW ok \in BOOLEAN, Joint(s, o, flushed, ok),
         Local(s), s.phase = "run", NEW irqs, NEW code, NEW spot, NEW lb \in BOOLEAN
  PROVE  LET t == iteration(s, irqs, code, spot, lb)
         IN  t \in VM /\ Local(t) /\ Moves(s, t, o, flushed, ok, ok /\ Clean(t.txq))
<1> DEFINE a == serialPart(s, irqs)
           b == IF "kb" \in irqs THEN onKeyboard(a, code) ELSE a
           c == IF "mouse" \in irqs THEN onMouse(b, spot[1], spot[2], lb) ELSE b
           t == IF "timer" \in irqs THEN onNewFrame(c) ELSE c
           full == ok /\ (c.gameState \in {"PLAYING", "EXIT"} => Clean(c.txq))
           less == ok /\ Clean(t.txq)
<1>1. t = iteration(s, irqs, code, spot, lb)
  BY DEF iteration
<1>2. /\ a \in VM /\ Local(a) /\ a.phase = "run"
      /\ Stays(s, a, o, flushed, ok, ok)
  BY SerialStep
<1> HIDE DEF a
<1>3. Joint(a, o, flushed, ok)
  BY <1>2, StaysJoint
<1>4. /\ b \in VM /\ Local(b) /\ b.phase = "run"
      /\ Stays(a, b, o, flushed, ok, ok)
  <2>1. CASE "kb" \in irqs
    BY <1>2, <1>3, <2>1, KeyStep
  <2>2. CASE "kb" \notin irqs
    BY <1>2, <2>2 DEF Stays
  <2> QED BY <2>1, <2>2
<1> HIDE DEF b
<1>5. Joint(b, o, flushed, ok)
  BY <1>3, <1>4, StaysJoint
<1>6. /\ c \in VM /\ Local(c) /\ c.phase = "run"
      /\ Stays(b, c, o, flushed, ok, full)
  <2>1. CASE "mouse" \in irqs
    <3> DEFINE m == onMouse(b, spot[1], spot[2], lb)
    <3>1. /\ m \in VM /\ Local(m) /\ m.phase = "run"
          /\ Stays(b, m, o, flushed, ok,
                   ok /\ (m.gameState \in {"PLAYING", "EXIT"} => Clean(m.txq)))
      BY <1>4, <1>5, MouseStep
    <3>2. c = m
      BY <2>1
    <3> HIDE DEF m, c
    <3> QED BY <3>1, <3>2
  <2>2. CASE "mouse" \notin irqs
    <3>1. c = b
      BY <2>2
    <3> HIDE DEF c
    <3>2. full => ok
      OBVIOUS
    <3>3. Stays(b, c, o, flushed, ok, ok)
      BY <3>1 DEF Stays
    <3> HIDE DEF full
    <3>4. Stays(b, c, o, flushed, ok, full)
      BY <3>2, <3>3, StaysLess
    <3> QED BY <1>4, <3>1, <3>4
  <2> QED BY <2>1, <2>2
<1> HIDE DEF c
<1>7. Joint(c, o, flushed, full) /\ Stays(s, c, o, flushed, ok, full)
  <2> HIDE DEF full
  <2>1. Stays(s, b, o, flushed, ok, ok)
    BY <1>2, <1>4, StaysTwice
  <2> QED BY <1>5, <1>6, <2>1, StaysJoint, StaysTwice
<1>8. /\ t \in VM /\ Local(t) /\ Moves(c, t, o, flushed, full, full)
      /\ c.gameState \in {"PLAYING", "EXIT"} => t.txq = c.txq
  <2>1. CASE "timer" \in irqs
    <3> DEFINE f == onNewFrame(c)
    <3>1. /\ f \in VM /\ Local(f) /\ Moves(c, f, o, flushed, full, full)
          /\ c.gameState \in {"PLAYING", "EXIT"} => f.txq = c.txq
      <4> HIDE DEF full
      <4> QED BY <1>6, <1>7, FrameStep
    <3>2. t = f
      BY <2>1
    <3> HIDE DEF f, t, full
    <3> QED BY <3>1, <3>2
  <2>2. CASE "timer" \notin irqs
    <3>1. t = c
      BY <2>2
    <3> HIDE DEF t, full
    <3> QED BY <1>6, <3>1 DEF Moves
  <2> QED BY <2>1, <2>2
<1> HIDE DEF t
<1>9. less => full
  BY <1>8
<1>10. Moves(s, t, o, flushed, ok, full)
  <2> HIDE DEF full
  <2> QED BY <1>7, <1>8, StaysThenMoves
<1>11. /\ Chose(t, o, flushed, full) => Chose(t, o, flushed, less)
       /\ Chose(t, o, FALSE, full) => Chose(t, o, FALSE, less)
       /\ Waits(t, o, flushed, full) => Waits(t, o, flushed, less)
  <2> HIDE DEF full, less
  <2> QED BY <1>9, LessOk DEF Chose, Waits
<1>12. Moves(s, t, o, flushed, ok, less)
  <2> HIDE DEF full, less
  <2> QED BY <1>10, <1>11 DEF Moves
<1> QED BY <1>1, <1>8, <1>12

----------------------------------------------------------------------------------
(* A machine leaves the game *)

\* to is the queue so without one of its bytes.
Loses(so, to) ==
  /\ so \in Seq(Bytes) /\ to \in Seq(Bytes)
  /\ Len(so) \in Nat /\ Len(to) = Len(so) - 1
  /\ \E k \in 1 .. Len(so) :
       \A i \in 1 .. Len(to) : to[i] = IF i < k THEN so[i] ELSE so[i + 1]

\* Where the bytes of a queue are once one of them has been taken out.
LEMMA RemoveByte ==
  ASSUME NEW p \in Seq(Bytes), NEW q \in Seq(Bytes), NEW b \in Bytes
  PROVE  Loses(Append(p, b) \o q, p \o q)
<1> SUFFICES ASSUME NEW so, so = Append(p, b) \o q, NEW to, to = p \o q
             PROVE  Loses(so, to)
  OBVIOUS
<1> DEFINE pb == Append(p, b)
           m == Len(p)
           n == Len(q)
<1>1. /\ m \in Nat /\ n \in Nat /\ pb \in Seq(Bytes) /\ Len(pb) = m + 1
      /\ \A i \in 1 .. m : pb[i] = p[i]
  BY LenProperties, AppendProperties
<1> HIDE DEF pb
<1>2. /\ so \in Seq(Bytes) /\ Len(so) = Len(pb) + n
      /\ \A i \in 1 .. Len(so) : so[i] = IF i <= Len(pb) THEN pb[i] ELSE q[i - Len(pb)]
  <2>1. so = pb \o q
    BY DEF pb
  <2>2. ASSUME NEW u \in Seq(Bytes), NEW v \in Seq(Bytes)
        PROVE  /\ u \o v \in Seq(Bytes) /\ Len(u \o v) = Len(u) + Len(v)
               /\ \A i \in 1 .. Len(u \o v) :
                    (u \o v)[i] = IF i <= Len(u) THEN u[i] ELSE v[i - Len(u)]
    BY ConcatProperties
  <2> QED BY ONLY <1>1, <2>1, <2>2, q \in Seq(Bytes)
<1>3. /\ to \in Seq(Bytes) /\ Len(to) = m + n
      /\ \A i \in 1 .. Len(to) : to[i] = IF i <= m THEN p[i] ELSE q[i - m]
  BY ConcatProperties
<1> DEFINE s == Len(so)
           t == Len(to)
           k == m + 1
<1> HIDE DEF m, n
<1>4. s = m + 1 + n /\ t = m + n /\ s \in Nat /\ k \in 1 .. s
  BY <1>1, <1>2, <1>3
<1>5. ASSUME NEW i \in 1 .. t PROVE to[i] = IF i < k THEN so[i] ELSE so[i + 1]
  <2>1. to[i] = IF i <= m THEN p[i] ELSE q[i - m]
    BY <1>3
  <2>2. CASE i <= m
    <3>1. i \in 1 .. m /\ i \in 1 .. s /\ i <= m + 1 /\ i < k
      BY <1>1, <1>4, <2>2
    <3>2. so[i] = p[i]
      BY <1>1, <1>2, <3>1
    <3> QED BY <2>1, <2>2, <3>1, <3>2
  <2>3. CASE ~(i <= m)
    <3>1. /\ i + 1 \in 1 .. s /\ ~(i + 1 <= m + 1) /\ (i + 1) - (m + 1) = i - m /\ ~(i < k)
      BY <1>1, <1>4, <2>3
    <3>2. so[i + 1] = q[(i + 1) - (m + 1)]
      BY <1>1, <1>2, <3>1
    <3>3. so[i + 1] = q[i - m]
      BY ONLY <3>1, <3>2, Zenon
    <3>4. to[i] = q[i - m]
      BY <2>1, <2>3
    <3>5. ~(i < k)
      BY <3>1
    <3>6. to[i] = so[i + 1]
      BY ONLY <3>3, <3>4, Zenon
    <3> HIDE DEF k
    <3> QED BY ONLY <3>5, <3>6, Zenon
  <2> QED BY <2>2, <2>3
<1>6. t = s - 1
  BY <1>1, <1>4
<1>7. \E j \in 1 .. s : \A i \in 1 .. t : to[i] = IF i < j THEN so[i] ELSE so[i + 1]
  <2> HIDE DEF k, s, t
  <2> QED BY ONLY <1>4, <1>5, Zenon
<1> QED BY ONLY <1>2, <1>3, <1>4, <1>6, <1>7, Zenon DEF Loses, s, t

\* The turn stays last when a byte is lost, and when the front of the queue is.
LEMMA TurnLastRemove ==
  ASSUME NEW so \in Seq(Bytes), NEW to \in Seq(Bytes), TurnLast(so),
         Len(so) \in Nat, Len(to) = Len(so) - 1, NEW k \in 1 .. Len(so),
         \A i \in 1 .. Len(to) : to[i] = IF i < k THEN so[i] ELSE so[i + 1]
  PROVE  TurnLast(to)
<1> DEFINE n == Len(so)
           m == Len(to)
<1>1. /\ n \in Nat /\ m = n - 1 /\ n <= 7 /\ k \in 1 .. n
      /\ \A i \in 1 .. n : so[i] = YOUR_TURN => i = n
      /\ \A i \in 1 .. m : to[i] = IF i < k THEN so[i] ELSE so[i + 1]
  BY DEF TurnLast
<1> HIDE DEF n, m
<1>2. ASSUME NEW i \in 1 .. m, to[i] = YOUR_TURN PROVE i = m
  <2>1. CASE i < k
    <3>1. so[i] = YOUR_TURN /\ i \in 1 .. n
      BY <1>1, <1>2, <2>1
    <3>2. i = n
      BY <1>1, <3>1
    <3> QED BY <1>1, <3>2
  <2>2. CASE ~(i < k)
    <3>1. so[i + 1] = YOUR_TURN /\ i + 1 \in 1 .. n
      BY <1>1, <1>2, <2>2
    <3>2. i + 1 = n
      BY <1>1, <3>1
    <3> QED BY <1>1, <3>2
  <2> QED BY <2>1, <2>2
<1>3. m <= 7
  BY <1>1
<1> QED BY <1>2, <1>3 DEF TurnLast, m

LEMMA TurnLastSuffix ==
  ASSUME NEW p \in Seq(Bytes), NEW q \in Seq(Bytes), TurnLast(p \o q)
  PROVE  TurnLast(q)
<1> DEFINE r == p \o q
           m == Len(p)
           n == Len(q)
<1>1. /\ m \in Nat /\ n \in Nat /\ Len(r) = m + n
      /\ \A i \in 1 .. Len(r) : r[i] = IF i <= m THEN p[i] ELSE q[i - m]
  BY LenProperties, ConcatProperties
<1>2. m + n <= 7 /\ \A i \in 1 .. (m + n) : r[i] = YOUR_TURN => i = m + n
  BY <1>1 DEF TurnLast
<1> HIDE DEF r, m, n
<1>3. ASSUME NEW i \in 1 .. n, q[i] = YOUR_TURN PROVE i = n
  <2>1. m + i \in 1 .. (m + n) /\ ~(m + i <= m) /\ (m + i) - m = i
    BY <1>1
  <2>2. r[m + i] = YOUR_TURN
    BY <1>1, <1>3, <2>1
  <2>3. m + i = m + n
    BY <1>2, <2>1, <2>2
  <2> QED BY <1>1, <2>3
<1>4. n <= 7
  BY <1>1, <1>2
<1> QED BY <1>3, <1>4 DEF TurnLast, n

\* A queue that is empty has an empty rest.
LEMMA EmptySuffix ==
  ASSUME NEW p \in Seq(Bytes), NEW q \in Seq(Bytes), p \o q = << >>
  PROVE  q = << >>
<1>1. Len(p \o q) = Len(p) + Len(q) /\ Len(p) \in Nat /\ Len(q) \in Nat
  BY ConcatProperties, LenProperties
<1>2. Len(p \o q) = 0
  OBVIOUS
<1>3. Len(q) = 0
  BY <1>1, <1>2
<1> QED BY <1>3, EmptySeq

\* The answer to a greeting is the second byte of the script and no other.
LEMMA WireAnswer ==
  ASSUME NEW n \in 1 .. 7, NEW x \in Position, NEW y \in Position,
         wire(n, BLACK, x, y) = RECEIVE_VM_CONNECTED
  PROVE  n = 2
BY DEF wire, Position, BLACK, VM_CONNECTED, RECEIVE_VM_CONNECTED, BEGIN_MESSAGE, YOUR_TURN

\* A machine that won before its peer read the colour, and threw a byte away: the peer
\* takes the colour or the byte after it, which is not white either.
LEMMA LoseHandByte ==
  ASSUME NEW so \in Seq(Bytes), NEW to \in Seq(Bytes), NEW lo \in 0 .. 2,
         NEW x \in Position, NEW y \in Position, Carries(so, lo, 7, BLACK, x, y),
         Len(so) \in Nat, Len(to) = Len(so) - 1, NEW k \in 1 .. Len(so),
         \A i \in 1 .. Len(to) : to[i] = IF i < k THEN so[i] ELSE so[i + 1]
  PROVE  /\ lo = 2 => to[1] \in {BLACK, BEGIN_MESSAGE}
         /\ \A i \in 1 .. (Len(to) - 1) :
              to[i] = RECEIVE_VM_CONNECTED => to[i + 1] \in {BLACK, BEGIN_MESSAGE}
<1> DEFINE n == Len(so)
           m == Len(to)
<1>1. /\ n = 7 - lo /\ m = n - 1 /\ k \in 1 .. n
      /\ \A i \in 1 .. n : so[i] = wire(lo + i, BLACK, x, y)
      /\ \A i \in 1 .. m : to[i] = IF i < k THEN so[i] ELSE so[i + 1]
  BY DEF Carries
<1> HIDE DEF n, m
<1>2. wire(3, BLACK, x, y) = BLACK /\ wire(4, BLACK, x, y) = BEGIN_MESSAGE
  BY DEF wire
<1>3. ASSUME NEW j \in 1 .. n, lo + j \in {3, 4} PROVE so[j] \in {BLACK, BEGIN_MESSAGE}
  <2>1. so[j] = wire(lo + j, BLACK, x, y)
    BY <1>1
  <2> QED BY <1>2, <1>3, <2>1
<1>4. lo = 2 => to[1] \in {BLACK, BEGIN_MESSAGE}
  <2> SUFFICES ASSUME lo = 2 PROVE to[1] \in {BLACK, BEGIN_MESSAGE}
    OBVIOUS
  <2>1. n = 5 /\ m = 4 /\ 1 \in 1 .. m /\ 1 \in 1 .. n /\ 2 \in 1 .. n
    BY <1>1
  <2>2. so[1] \in {BLACK, BEGIN_MESSAGE} /\ so[2] \in {BLACK, BEGIN_MESSAGE}
    BY <1>3, <2>1
  <2>3. to[1] = so[1] \/ to[1] = so[1 + 1]
    BY <1>1, <2>1
  <2>4. 1 + 1 = 2
    OBVIOUS
  <2> QED BY <2>2, <2>3, <2>4
<1>5. ASSUME NEW i \in 1 .. (m - 1), to[i] = RECEIVE_VM_CONNECTED
      PROVE  to[i + 1] \in {BLACK, BEGIN_MESSAGE}
  <2>1. /\ i \in 1 .. m /\ i + 1 \in 1 .. m /\ i \in 1 .. n /\ i + 1 \in 1 .. n
        /\ (i + 1) + 1 \in 1 .. n /\ lo + i \in 1 .. 7 /\ lo + (i + 1) \in 1 .. 7
    BY <1>1
  <2>2. ASSUME NEW j \in 1 .. n, lo + j \in 1 .. 7, so[j] = RECEIVE_VM_CONNECTED
        PROVE  lo + j = 2
    <3>1. wire(lo + j, BLACK, x, y) = RECEIVE_VM_CONNECTED
      BY <1>1, <2>2
    <3> QED BY <2>2, <3>1, WireAnswer
  <2>3. CASE i < k
    <3>1. so[i] = RECEIVE_VM_CONNECTED
      BY <1>1, <1>5, <2>1, <2>3
    <3>2. lo + i = 2
      BY <2>1, <2>2, <3>1
    <3>3. lo + (i + 1) = 3 /\ lo + ((i + 1) + 1) = 4
      BY <3>2
    <3>4. so[i + 1] \in {BLACK, BEGIN_MESSAGE} /\ so[(i + 1) + 1] \in {BLACK, BEGIN_MESSAGE}
      BY <1>3, <2>1, <3>3
    <3>5. to[i + 1] = so[i + 1] \/ to[i + 1] = so[(i + 1) + 1]
      BY <1>1, <2>1
    <3> QED BY <3>4, <3>5
  <2>4. CASE ~(i < k)
    <3>1. so[i + 1] = RECEIVE_VM_CONNECTED
      BY <1>1, <1>5, <2>1, <2>4
    <3>2. lo + (i + 1) = 2
      BY <2>1, <2>2, <3>1
    <3>3. lo + ((i + 1) + 1) = 3
      BY <3>2
    <3>4. so[(i + 1) + 1] \in {BLACK, BEGIN_MESSAGE}
      BY <1>3, <2>1, <3>3
    <3>5. ~(i + 1 < k)
      BY <2>4
    <3>6. to[i + 1] = so[(i + 1) + 1]
      BY <1>1, <2>1, <3>5
    <3> QED BY <3>4, <3>6
  <2> QED BY <2>3, <2>4
<1> QED BY <1>4, <1>5 DEF m

\* s became t by leaving the main loop.
Left(s, t) ==
  /\ t.phase \notin {"run", "crashed"} /\ t.gameState = s.gameState
  /\ t.player = s.player /\ t.myTurn = s.myTurn
  /\ t.endGame = s.endGame /\ t.won = s.won
  /\ t.board = s.board /\ t.byteOfMove = s.byteOfMove /\ t.old = s.old

\* Leaving the loop is not seen by the pair,
LEMMA LeftPair ==
  ASSUME NEW s, NEW t, NEW o, NEW so, NEW os, NEW ok, s.gameState = "EXIT", Left(s, t)
  PROVE  /\ Hand(s, o, so, os, ok) => Hand(t, o, so, os, ok)
         /\ Game(s, o, so, os, ok) => Game(t, o, so, os, ok)
         /\ LooseHand(s, o, so, os) => LooseHand(t, o, so, os)
         /\ LooseGame(s, o, so, os) => LooseGame(t, o, so, os)
<1>1. Sync(s, o) => Sync(t, o)
  BY DEF Left, Sync, Quiet
<1>2. Sync(o, s) => Sync(o, t)
  BY DEF Left, Sync, Quiet
<1>3. ASSUME NEW x, NEW y
      PROVE  (Behind(s, o, x, y) => Behind(t, o, x, y)) /\ (Behind(o, s, x, y) => Behind(o, t, x, y))
  BY DEF Left, Behind, Sender, Quiet
<1>4. ASSUME NEW lo, NEW x, NEW y
      PROVE  /\ Flight(s, o, lo, x, y) => Flight(t, o, lo, x, y)
             /\ Flight(o, s, lo, x, y) => Flight(o, t, lo, x, y)
  <2>1. Told(s, o) => Told(t, o)
    BY DEF Left, Told, Sender
  <2>2. Told(o, s) => Told(o, t)
    BY DEF Left, Told, Sender
  <2> QED BY <1>3, <2>1, <2>2 DEF Left, Flight
<1>5. Hand(s, o, so, os, ok) => Hand(t, o, so, os, ok)
  <2> SUFFICES ASSUME Hand(s, o, so, os, ok) PROVE Hand(t, o, so, os, ok)
    OBVIOUS
  <2>1. PICK lo \in 0 .. 2, hi \in {2, 3, 7}, x \in Position, y \in Position :
       /\ Carries(so, lo, hi, opposite(s.player), x, y)
       /\ o.gameState = IF lo = 2 THEN "WAIT_CHOOSING_PLAYER" ELSE "WAITING"
       /\ hi = 2 => s.gameState = "CHOOSING_PLAYER" /\ ~s.myTurn /\ ~s.endGame
       /\ hi = 3 => /\ s.gameState = "PLAYING" /\ ~s.endGame
                    /\ s.player \in {BLACK, WHITE} /\ (s.myTurn <=> s.player = WHITE)
       /\ hi = 7 => /\ s.gameState \in {"PLAYING", "EXIT"} /\ ~s.myTurn
                    /\ s.player = WHITE
       /\ ok => IF hi = 7 THEN Behind(s, o, x, y) ELSE Sync(s, o)
    BY DEF Hand
  <2>2. /\ Carries(so, lo, hi, opposite(t.player), x, y) /\ hi = 7 /\ ~t.myTurn
        /\ t.player = WHITE /\ t.gameState = "EXIT"
        /\ ok => Behind(t, o, x, y)
    BY <1>3, <2>1 DEF Left
  <2>3. os = << >> /\ ~o.myTurn
    BY DEF Hand
  <2> QED BY <2>1, <2>2, <2>3 DEF Hand
<1>6. Turn(s, o, so, os, ok) => Turn(t, o, so, os, ok)
  <2>1. Rest(s, o, so, os, ok) => Rest(t, o, so, os, ok)
    BY <1>1 DEF Left, Rest
  <2>2. Fly(s, o, so, os, ok) => Fly(t, o, so, os, ok)
    BY <1>4 DEF Left, Fly
  <2>3. Dead(s, o, so, os, ok) => Dead(t, o, so, os, ok)
    BY DEF Left, Dead, Told, Sender
  <2> QED BY <2>1, <2>2, <2>3 DEF Turn
<1>7. Turn(o, s, os, so, ok) => Turn(o, t, os, so, ok)
  <2>1. Rest(o, s, os, so, ok) => Rest(o, t, os, so, ok)
    BY <1>2 DEF Left, Rest
  <2>2. Fly(o, s, os, so, ok) => Fly(o, t, os, so, ok)
    BY <1>4 DEF Left, Fly
  <2>3. Dead(o, s, os, so, ok) => Dead(o, t, os, so, ok)
    BY DEF Left, Dead, Told, Sender
  <2> QED BY <2>1, <2>2, <2>3 DEF Turn
<1>8. Game(s, o, so, os, ok) => Game(t, o, so, os, ok)
  BY <1>6, <1>7 DEF Left, Game
<1>9. LooseHand(s, o, so, os) => LooseHand(t, o, so, os)
  BY DEF Left, LooseHand
<1>10. LooseGame(s, o, so, os) => LooseGame(t, o, so, os)
  BY DEF Left, LooseGame, AtMostOne
<1> QED BY <1>5, <1>8, <1>9, <1>10

\* and neither is that it throws away what it has not read: that was at most the turn,
\* after the move that took its king,
LEMMA CutPair ==
  ASSUME NEW s, NEW t, NEW o, NEW so \in Seq(Bytes), NEW pre \in Seq(Bytes), NEW ot \in Seq(Bytes),
         NEW ok, s.gameState = "EXIT", t.gameState = "EXIT", t.phase # "run", Left(s, t)
  PROVE  /\ Hand(s, o, so, pre \o ot, ok) => Hand(t, o, so, ot, ok)
         /\ Game(s, o, so, pre \o ot, ok) => Game(t, o, so, ot, ok)
         /\ LooseHand(s, o, so, pre \o ot) => LooseHand(t, o, so, ot)
         /\ LooseGame(s, o, so, pre \o ot) => LooseGame(t, o, so, ot)
<1> DEFINE os == pre \o ot
<1>1. os \in Seq(Bytes) /\ (os = << >> => ot = << >>)
  BY ConcatProperties, EmptySuffix
<1>2. /\ Hand(s, o, so, os, ok) => Hand(t, o, so, os, ok)
      /\ Game(s, o, so, os, ok) => Game(t, o, so, os, ok)
      /\ LooseHand(s, o, so, os) => LooseHand(t, o, so, os)
      /\ LooseGame(s, o, so, os) => LooseGame(t, o, so, os)
  <2> HIDE DEF os
  <2> QED BY LeftPair
<1>3. Hand(t, o, so, os, ok) => os = << >>
  BY DEF Hand
<1>4. LooseHand(t, o, so, os) => os = << >>
  BY DEF LooseHand
<1>5. LooseGame(t, o, so, os) => LooseGame(t, o, so, ot)
  <2>1. TurnLast(os) => TurnLast(ot)
    BY TurnLastSuffix
  <2> HIDE DEF os
  <2> QED BY <1>1, <2>1 DEF LooseGame, AtMostOne
<1>6. Fly(o, t, os, so, ok) => Fly(o, t, ot, so, ok) \/ Dead(o, t, ot, so, ok)
  <2> SUFFICES ASSUME Fly(o, t, os, so, ok) PROVE Fly(o, t, ot, so, ok) \/ Dead(o, t, ot, so, ok)
    OBVIOUS
  <2>1. ~o.myTurn /\ ~t.myTurn /\ so = << >>
    BY DEF Fly
  <2>2. PICK lo \in 3 .. 6, x \in Position, y \in Position :
          Carries(os, lo, 7, BLACK, x, y) /\ (ok => Flight(o, t, lo, x, y))
    BY DEF Fly
  <2>3. ok => lo = 6 /\ Told(o, t)
    <3> SUFFICES ASSUME ok PROVE lo = 6 /\ Told(o, t)
      OBVIOUS
    <3>1. Flight(o, t, lo, x, y)
      BY <2>2
    <3>2. ~(lo <= 5)
      BY <3>1 DEF Flight, Behind, Quiet
    <3>3. lo = 6
      BY <3>2
    <3> QED BY <3>1, <3>3 DEF Flight
  <2>4. PICK low \in lo .. 7 : Carries(ot, low, 7, BLACK, x, y)
    <3>1. PICK l \in 0 .. 7, h \in 0 .. 7 : l = lo /\ h = 7
      OBVIOUS
    <3>2. Carries(pre \o ot, l, h, BLACK, x, y)
      BY <2>2, <3>1
    <3>3. \E low \in l .. h : Carries(ot, low, h, BLACK, x, y)
      BY <3>2, CarriesSuffix
    <3> QED BY <3>1, <3>3
  <2>5. CASE low = 7
    <3>1. ot = << >>
      <4>1. PICK l \in 0 .. 7 : l = 7
        OBVIOUS
      <4>2. Carries(ot, l, l, BLACK, x, y)
        BY <2>4, <2>5, <4>1
      <4> HIDE DEF Carries
      <4> QED BY <4>2, CarriesNone
    <3> QED BY <2>1, <2>3, <3>1 DEF Dead
  <2>6. CASE low # 7
    <3>1. low \in 3 .. 6
      BY <2>6
    <3>2. ok => low = lo
      BY <2>3, <3>1
    <3> QED BY <2>1, <2>2, <2>4, <3>1, <3>2 DEF Fly
  <2> QED BY <2>5, <2>6
<1>7. Game(t, o, so, os, ok) => Game(t, o, so, ot, ok)
  <2> HIDE DEF os
  <2>1. Turn(t, o, so, os, ok) => Turn(t, o, so, ot, ok)
    BY <1>1 DEF Turn, Rest, Fly, Dead
  <2>2. Rest(o, t, os, so, ok) => Rest(o, t, ot, so, ok)
    BY <1>1 DEF Rest
  <2>3. Dead(o, t, os, so, ok) => Dead(o, t, ot, so, ok)
    BY <1>1 DEF Dead
  <2>4. Turn(o, t, os, so, ok) => Turn(o, t, ot, so, ok)
    BY <1>6, <2>2, <2>3 DEF Turn
  <2> QED BY <2>1, <2>4 DEF Game
<1>8. Hand(t, o, so, os, ok) => Hand(t, o, so, ot, ok)
  <2> HIDE DEF os
  <2> QED BY <1>1, <1>3
<1>9. LooseHand(t, o, so, os) => LooseHand(t, o, so, ot)
  <2> HIDE DEF os
  <2> QED BY <1>1, <1>4
<1> QED BY <1>2, <1>5, <1>7, <1>8, <1>9

\* but a byte of its own that it throws away is.
LEMMA FlushPair ==
  ASSUME NEW s, NEW t, NEW o, NEW p \in Seq(Bytes), NEW q \in Seq(Bytes), NEW b \in Bytes,
         NEW os \in Seq(Bytes), NEW ok,
         s.gameState = "EXIT", t.gameState = "EXIT", t.phase # "run", t.myTurn = s.myTurn
  PROVE  /\ Hand(s, o, Append(p, b) \o q, os, ok) => LooseHand(t, o, p \o q, os)
         /\ Game(s, o, Append(p, b) \o q, os, ok) => LooseGame(t, o, p \o q, os)
         /\ LooseGame(s, o, Append(p, b) \o q, os) => LooseGame(t, o, p \o q, os)
<1>1. PICK so, to : so = Append(p, b) \o q /\ to = p \o q
  OBVIOUS
<1>2. /\ so \in Seq(Bytes) /\ to \in Seq(Bytes)
      /\ Len(so) \in Nat /\ Len(to) = Len(so) - 1
      /\ \E k \in 1 .. Len(so) :
              \A i \in 1 .. Len(to) : to[i] = IF i < k THEN so[i] ELSE so[i + 1]
  <2>1. Loses(Append(p, b) \o q, p \o q)
    BY RemoveByte
  <2>2. Loses(so, to)
    BY <1>1, <2>1
  <2> QED BY <2>2 DEF Loses
<1>3. PICK k \in 1 .. Len(so) :
              \A i \in 1 .. Len(to) : to[i] = IF i < k THEN so[i] ELSE so[i + 1]
  BY <1>2
<1>4. so # << >>
  <2>1. so = << >> => Len(so) = 0
    OBVIOUS
  <2> QED BY <1>2, <1>3, <2>1
<1>5. TurnLast(so) => TurnLast(to)
  BY <1>2, <1>3, TurnLastRemove
<1>6. os = << >> => TurnLast(os)
  <2>1. os = << >> => Len(os) = 0
    OBVIOUS
  <2> QED BY <2>1 DEF TurnLast
<1>7. Hand(s, o, so, os, ok) => LooseHand(t, o, to, os)
  <2> SUFFICES ASSUME Hand(s, o, so, os, ok) PROVE LooseHand(t, o, to, os)
    OBVIOUS
  <2>1. PICK lo \in 0 .. 2, hi \in {2, 3, 7}, x \in Position, y \in Position :
       /\ Carries(so, lo, hi, opposite(s.player), x, y)
       /\ o.gameState = IF lo = 2 THEN "WAIT_CHOOSING_PLAYER" ELSE "WAITING"
       /\ hi = 2 => s.gameState = "CHOOSING_PLAYER"
       /\ hi = 3 => s.gameState = "PLAYING"
       /\ hi = 7 => ~s.myTurn /\ s.player = WHITE
    BY DEF Hand
  <2>2. hi = 7
    BY <2>1
  <2>3. Carries(so, lo, 7, BLACK, x, y) /\ ~t.myTurn
    BY <2>1, <2>2 DEF opposite
  <2>4. os = << >> /\ ~o.myTurn
    BY DEF Hand
  <2>5. /\ lo = 2 => to[1] \in {BLACK, BEGIN_MESSAGE}
        /\ \A i \in 1 .. (Len(to) - 1) :
              to[i] = RECEIVE_VM_CONNECTED => to[i + 1] \in {BLACK, BEGIN_MESSAGE}
    BY <1>2, <1>3, <2>3, LoseHandByte
  <2>6. TurnLast(to)
    <3>1. PICK l \in 0 .. 7, h \in 0 .. 7, c \in {BLACK, WHITE} : l = lo /\ h = 7 /\ c = BLACK
      OBVIOUS
    <3>2. Carries(so, l, h, c, x, y)
      BY <2>3, <3>1
    <3>3. TurnLast(so)
      BY <1>2, <3>2, CarriesTurnLast
    <3> QED BY <1>5, <3>3
  <2>7. lo = 2 <=> o.gameState = "WAIT_CHOOSING_PLAYER"
    BY <2>1
  <2>8. o.gameState \in {"WAITING", "WAIT_CHOOSING_PLAYER"}
    BY <2>1
  <2> QED BY <2>3, <2>4, <2>5, <2>6, <2>7, <2>8 DEF LooseHand
<1>8. Game(s, o, so, os, ok) => LooseGame(t, o, to, os)
  <2> SUFFICES ASSUME Game(s, o, so, os, ok) PROVE LooseGame(t, o, to, os)
    OBVIOUS
  <2>1. Fly(s, o, so, os, ok) /\ o.gameState \in {"PLAYING", "EXIT"}
    BY <1>4 DEF Game, Turn, Rest, Fly, Dead
  <2>2. ~t.myTurn /\ ~o.myTurn /\ os = << >>
    BY <2>1 DEF Fly
  <2>3. PICK lo \in 3 .. 6, x \in Position, y \in Position : Carries(so, lo, 7, BLACK, x, y)
    BY <2>1 DEF Fly
  <2>4. TurnLast(to)
    <3>1. PICK l \in 0 .. 7, h \in 0 .. 7, c \in {BLACK, WHITE} : l = lo /\ h = 7 /\ c = BLACK
      OBVIOUS
    <3>2. Carries(so, l, h, c, x, y)
      BY <2>3, <3>1
    <3>3. TurnLast(so)
      BY <1>2, <3>2, CarriesTurnLast
    <3> QED BY <1>5, <3>3
  <2> QED BY <1>6, <2>1, <2>2, <2>4 DEF LooseGame, AtMostOne
<1>9. LooseGame(s, o, so, os) => LooseGame(t, o, to, os)
  BY <1>4, <1>5 DEF LooseGame, AtMostOne
<1> QED BY <1>1, <1>7, <1>8, <1>9

\* The end of the main loop, up to the last loop of sp_unsubscribe_int.
LEMMA LeaveStep ==
  ASSUME NEW s \in VM, NEW o \in VM, NEW flushed \in BOOLEAN, NEW ok, Joint(s, o, flushed, ok),
         Local(s), s.phase = "run", s.gameState = "EXIT", NEW sent \in BOOLEAN
  PROVE  LET t == IF s.won /\ queueIsEmpty(s.txq)
                  THEN [s EXCEPT !.phase = "spin"]
                  ELSE [sp_clear(sp_configure_end(s, sent)) EXCEPT !.phase = "closing"]
             after == flushed \/ t.thr # s.thr
         IN  /\ t \in VM /\ Local(t) /\ ~Begun(s, o) /\ t.gameState = "EXIT"
             /\ Chose(s, o, flushed, ok) => Chose(t, o, after, ok)
             /\ Waits(s, o, flushed, ok) => Waits(t, o, after, ok)
<1> DEFINE spin == [s EXCEPT !.phase = "spin"]
           close == [sp_clear(sp_configure_end(s, sent)) EXCEPT !.phase = "closing"]
           t == IF s.won /\ queueIsEmpty(s.txq) THEN spin ELSE close
           after == flushed \/ t.thr # s.thr
           so == bytesTo(o, s)
           os == bytesTo(s, o)
           to == bytesTo(o, t)
           ot == bytesTo(t, o)
<1>1. /\ ~Begun(s, o)
      /\ ~LooseHand(s, o, so, os) /\ ~LooseHand(o, s, os, so) /\ ~Hand(o, s, os, so, ok)
  BY DEF Begun, Start, Hello, LooseHand, Hand
<1>2. so \in Seq(Bytes) /\ os \in Seq(Bytes)
  BY LineType
<1>3. /\ Chose(s, o, flushed, ok) => IF flushed THEN LooseGame(s, o, so, os)
                                     ELSE Hand(s, o, so, os, ok) \/ Game(s, o, so, os, ok)
      /\ Waits(s, o, flushed, ok) => IF flushed THEN LooseGame(s, o, so, os)
                                     ELSE Game(s, o, so, os, ok)
  <2>1. /\ Game(o, s, os, so, ok) <=> Game(s, o, so, os, ok)
        /\ LooseGame(o, s, os, so) <=> LooseGame(s, o, so, os)
    <3> HIDE DEF so, os
    <3> QED BY Symmetric
  <2> QED BY <1>1, <2>1 DEF Chose, Waits, After
\* It is enough to show it of the machine that chose the colours.
<1>4. ASSUME NEW u \in VM, NEW fl \in BOOLEAN,
             flushed => fl,
             ~fl => /\ Hand(s, o, so, os, ok) => Hand(u, o, bytesTo(o, u), bytesTo(u, o), ok)
                    /\ Game(s, o, so, os, ok) => Game(u, o, bytesTo(o, u), bytesTo(u, o), ok),
             fl /\ flushed => (LooseGame(s, o, so, os) => LooseGame(u, o, bytesTo(o, u), bytesTo(u, o))),
             fl /\ ~flushed =>
                    /\ Hand(s, o, so, os, ok) => LooseHand(u, o, bytesTo(o, u), bytesTo(u, o))
                    /\ Game(s, o, so, os, ok) => LooseGame(u, o, bytesTo(o, u), bytesTo(u, o))
      PROVE  /\ Chose(s, o, flushed, ok) => Chose(u, o, fl, ok)
             /\ Waits(s, o, flushed, ok) => Waits(u, o, fl, ok)
  <2> DEFINE uo == bytesTo(o, u)
             ou == bytesTo(u, o)
  <2>1. /\ Game(o, u, ou, uo, ok) <=> Game(u, o, uo, ou, ok)
        /\ LooseGame(o, u, ou, uo) <=> LooseGame(u, o, uo, ou)
    <3> HIDE DEF uo, ou
    <3> QED BY Symmetric
  <2>2. /\ Chose(u, o, fl, ok) <=> IF fl THEN LooseHand(u, o, uo, ou) \/ LooseGame(u, o, uo, ou)
                                   ELSE Hand(u, o, uo, ou, ok) \/ Game(u, o, uo, ou, ok)
        /\ (IF fl THEN LooseGame(u, o, uo, ou) ELSE Game(u, o, uo, ou, ok)) => Waits(u, o, fl, ok)
    BY <2>1 DEF Chose, Waits, After
  <2> HIDE DEF uo, ou, so, os
  <2>3. /\ ~fl => /\ Hand(s, o, so, os, ok) => Hand(u, o, uo, ou, ok)
                  /\ Game(s, o, so, os, ok) => Game(u, o, uo, ou, ok)
        /\ fl /\ flushed => (LooseGame(s, o, so, os) => LooseGame(u, o, uo, ou))
        /\ fl /\ ~flushed => /\ Hand(s, o, so, os, ok) => LooseHand(u, o, uo, ou)
                             /\ Game(s, o, so, os, ok) => LooseGame(u, o, uo, ou)
    BY <1>4 DEF uo, ou
  <2> QED BY <1>3, <1>4, <2>2, <2>3
<1>5. CASE s.won /\ queueIsEmpty(s.txq)
  <2>1. t = spin
    BY <1>5
  <2>2. spin \in VM
    BY SetField, Constants
  <2> HIDE DEF t
  <2>3. /\ t \in VM /\ t.phase = "spin" /\ t.gameState = "EXIT" /\ t.thr = s.thr /\ t.txq = s.txq
        /\ t.rxq = s.rxq /\ t.fifo = s.fifo /\ Left(s, t)
        /\ t.board = s.board /\ t.dragging = s.dragging /\ t.from = s.from
        /\ t.endGame = s.endGame /\ t.myTurn = s.myTurn
    BY <2>1, <2>2 DEF VM, Left
  <2>4. to = so /\ ot = os
    BY <2>3 DEF bytesTo
  <2>5. Local(t)
    BY <2>3 DEF Local
  <2>6. /\ Hand(s, o, so, os, ok) => Hand(t, o, so, os, ok)
        /\ Game(s, o, so, os, ok) => Game(t, o, so, os, ok)
        /\ LooseGame(s, o, so, os) => LooseGame(t, o, so, os)
    <3> HIDE DEF so, os
    <3> QED BY <2>3, LeftPair
  <2>7. after = flushed
    BY <2>3
  <2>8. /\ Chose(s, o, flushed, ok) => Chose(t, o, flushed, ok)
        /\ Waits(s, o, flushed, ok) => Waits(t, o, flushed, ok)
    BY <1>4, <2>3, <2>4, <2>6
  <2> QED BY <1>1, <2>3, <2>5, <2>7, <2>8 DEF t
<1>6. CASE ~(s.won /\ queueIsEmpty(s.txq))
  <2>1. t = close
    BY <1>6
  <2>2. /\ close \in VM /\ SameGame([s EXCEPT !.phase = "closing"], close)
        /\ \E pre \in Seq(Bytes) : os = pre \o bytesTo(close, o)
        /\ \/ close.thr = s.thr /\ bytesTo(o, close) = so
           \/ /\ close.thr # s.thr
              /\ \E p, q \in Seq(Bytes), b \in Bytes :
                   so = Append(p, b) \o q /\ bytesTo(o, close) = p \o q
    <3>1. close = portClosed(s, sent)
      BY DEF portClosed
    <3>2. portClosed(s, sent) \in VM /\ Leaves(s, portClosed(s, sent), o)
      BY LeaveLine
    <3>3. close \in VM /\ Leaves(s, close, o)
      BY ONLY <3>1, <3>2
    <3> HIDE DEF close
    <3> QED BY <3>3 DEF Leaves
  <2> HIDE DEF t, close
  <2>3. /\ t \in VM /\ t.phase = "closing" /\ t.gameState = "EXIT" /\ Left(s, t)
        /\ t.board = s.board /\ t.dragging = s.dragging /\ t.from = s.from
        /\ t.endGame = s.endGame /\ t.myTurn = s.myTurn
    BY <2>1, <2>2 DEF VM, SameGame, Left
  <2>4. PICK pre \in Seq(Bytes) : os = pre \o ot
    BY <2>1, <2>2
  <2>5. Local(t)
    BY <2>3 DEF Local
  <2>6. to \in Seq(Bytes) /\ ot \in Seq(Bytes)
    BY <2>3, LineType
  <2>7. /\ Hand(s, o, so, os, ok) => Hand(t, o, so, ot, ok)
        /\ Game(s, o, so, os, ok) => Game(t, o, so, ot, ok)
        /\ LooseGame(s, o, so, os) => LooseGame(t, o, so, ot)
    <3> HIDE DEF so, os, ot
    <3> QED BY <1>2, <2>3, <2>4, <2>6, CutPair
  <2>8. CASE t.thr = s.thr /\ to = so
    <3>1. after = flushed
      BY <2>8
    <3>2. /\ Chose(s, o, flushed, ok) => Chose(t, o, flushed, ok)
          /\ Waits(s, o, flushed, ok) => Waits(t, o, flushed, ok)
      BY <1>4, <2>3, <2>7, <2>8
    <3> QED BY <1>1, <2>3, <2>5, <3>1, <3>2 DEF t, close
  <2>9. CASE t.thr # s.thr /\ \E p, q \in Seq(Bytes), b \in Bytes : so = Append(p, b) \o q /\ to = p \o q
    <3>1. after = TRUE
      BY <2>9
    <3>2. PICK p \in Seq(Bytes), q \in Seq(Bytes), b \in Bytes : so = Append(p, b) \o q /\ to = p \o q
      BY <2>9
    <3>3. /\ Hand(t, o, so, ot, ok) => LooseHand(t, o, to, ot)
          /\ Game(t, o, so, ot, ok) => LooseGame(t, o, to, ot)
          /\ LooseGame(t, o, so, ot) => LooseGame(t, o, to, ot)
      <4> HIDE DEF so, to, ot
      <4> QED BY <2>3, <2>6, <3>2, FlushPair
    <3>4. /\ Chose(s, o, flushed, ok) => Chose(t, o, TRUE, ok)
          /\ Waits(s, o, flushed, ok) => Waits(t, o, TRUE, ok)
      BY <1>4, <2>3, <2>7, <3>3
    <3> QED BY <1>1, <2>3, <2>5, <3>1, <3>4 DEF t, close
  <2>10. \/ t.thr = s.thr /\ to = so
         \/ t.thr # s.thr /\ \E p, q \in Seq(Bytes), b \in Bytes : so = Append(p, b) \o q /\ to = p \o q
    <3> HIDE DEF so
    <3> QED BY <2>1, <2>2
  <2> QED BY <2>8, <2>9, <2>10
<1> QED BY <1>5, <1>6

\* The last loop of sp_unsubscribe_int.
LEMMA CloseStep ==
  ASSUME NEW s \in VM, NEW o \in VM, NEW flushed, NEW ok,
         Local(s), s.phase = "closing"
  PROVE  LET t == IF queueIsEmpty(s.txq) THEN [s EXCEPT !.phase = "done"] ELSE sp_write(s)
         IN  /\ t \in VM /\ Local(t) /\ t.gameState = s.gameState
             /\ Stays(s, t, o, flushed, ok, ok)
<1> DEFINE done == [s EXCEPT !.phase = "done"]
           t == IF queueIsEmpty(s.txq) THEN done ELSE sp_write(s)
<1>1. CASE queueIsEmpty(s.txq)
  <2>1. t = done
    BY <1>1
  <2>2. done \in VM
    BY SetField, Constants
  <2> HIDE DEF t
  <2>3. /\ t \in VM /\ t.phase = "done" /\ SameTurn(s, t) /\ t.gameState = s.gameState
        /\ t.thr = s.thr /\ t.txq = s.txq /\ t.rxq = s.rxq /\ t.fifo = s.fifo
        /\ t.board = s.board /\ t.dragging = s.dragging /\ t.from = s.from
        /\ t.endGame = s.endGame /\ t.myTurn = s.myTurn
    BY <2>1, <2>2 DEF VM, SameTurn
  <2>4. bytesTo(o, t) = bytesTo(o, s) /\ bytesTo(t, o) = bytesTo(s, o)
    BY <2>3 DEF bytesTo
  <2>5. Local(t)
    BY <2>3 DEF Local
  <2>6. Stays(s, t, o, flushed, ok, ok)
    BY <2>3, <2>4, StaysSame
  <2> QED BY <2>3, <2>5, <2>6 DEF t
<1>2. CASE ~queueIsEmpty(s.txq)
  <2>1. t = sp_write(s)
    BY <1>2
  <2>2. /\ sp_write(s) \in VM /\ SameGame(s, sp_write(s))
        /\ bytesTo(o, sp_write(s)) = bytesTo(o, s) /\ bytesTo(sp_write(s), o) = bytesTo(s, o)
    BY WriteType, WriteSame, WriteLine
  <2> HIDE DEF t
  <2>3. /\ t \in VM /\ SameGame(s, t)
        /\ bytesTo(o, t) = bytesTo(o, s) /\ bytesTo(t, o) = bytesTo(s, o)
    BY <2>1, <2>2
  <2>4. Local(t) /\ Stays(s, t, o, flushed, ok, ok)
    BY <2>3, LocalSame, SameGameTurn, StaysSame
  <2>5. t.gameState = s.gameState
    BY <2>3 DEF SameGame
  <2> QED BY <2>3, <2>4, <2>5 DEF t
<1> QED BY <1>1, <1>2

\* A byte crosses the wire.
LEMMA DeliverStep ==
  ASSUME NEW s \in VM, NEW o \in VM, NEW flushed, NEW ok, Joint(s, o, flushed, ok),
         Local(s), Local(o), s.thr # << >>
  PROVE  LET t == [s EXCEPT !.thr = << >>]
             r == received(o, Head(s.thr))
         IN  /\ t \in VM /\ r \in VM /\ Local(t) /\ Local(r)
             /\ t.gameState = s.gameState /\ r.gameState = o.gameState
             /\ Begun(s, o) => Begun(t, r)
             /\ Chose(s, o, flushed, ok) => Chose(t, r, flushed, ok)
             /\ Waits(s, o, flushed, ok) => Waits(t, r, flushed, ok)
<1> DEFINE t == [s EXCEPT !.thr = << >>]
           r == received(o, Head(s.thr))
           so == bytesTo(o, s)
           os == bytesTo(s, o)
<1>1. /\ t \in VM /\ SameGame(s, t) /\ r \in VM /\ SameGame(o, r)
      /\ bytesTo(r, t) = so /\ bytesTo(t, r) = os
  BY JointBytes, DeliverLine
<1> HIDE DEF t, r
<1>2. SameTurn(s, t) /\ SameTurn(o, r) /\ Local(t) /\ Local(r)
  BY <1>1, SameGameTurn, LocalSame
<1>3. t.gameState = s.gameState /\ r.gameState = o.gameState
  BY <1>1 DEF SameGame
<1>4. /\ Start(s, o, so, os) => Start(t, r, so, os)
      /\ After(s, o, so, os, flushed, ok) => After(t, r, so, os, flushed, ok)
  <2> HIDE DEF so, os
  <2> QED BY <1>2, SamePair
<1>5. After(o, s, os, so, flushed, ok) => After(r, t, os, so, flushed, ok)
  <2> HIDE DEF so, os
  <2> QED BY <1>2, SamePair
<1> QED BY <1>1, <1>2, <1>3, <1>4, <1>5 DEF Begun, Chose, Waits, t, r
==================================================================================
