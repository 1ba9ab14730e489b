-------------------------------- MODULE Protocol ---------------------------------
(* The inductive invariant behind the safety properties of Chess: every state     *)
(* that two machines and the line between them can be in, unless the ENTER keys   *)
(* crossed. The handlers of main.c never mention most of it: it is what the code  *)
(* relies on without saying so.                                                   *)
EXTENDS Chess

\* The bytes on their way from machine s to machine r; pipeline(p) for two records.
bytesTo(r, s) == r.rxq \o r.fifo \o s.thr \o s.txq

\* All that the machine that chooses the colours ever says before it is answered, if
\* it plays white: two greetings, the colour of the peer and a move from x to y. Later
\* moves are the bytes 4 to 7 again.
wire(n, colour, x, y) ==
  IF n = 1 THEN VM_CONNECTED
  ELSE IF n = 2 THEN RECEIVE_VM_CONNECTED
  ELSE IF n = 3 THEN colour
  ELSE IF n = 4 THEN BEGIN_MESSAGE
  ELSE IF n = 5 THEN x
  ELSE IF n = 6 THEN y
  ELSE YOUR_TURN

\* The queue q holds the bytes lo + 1 to hi of that script.
Carries(q, lo, hi, colour, x, y) ==
  /\ Len(q) = hi - lo
  /\ \A k \in 1 .. Len(q) : q[k] = wire(lo + k, colour, x, y)

\* The two machines differ in their queues, at most, as far as the game is concerned.
SameGame(s, t) ==
  /\ t.phase = s.phase /\ t.gameState = s.gameState
  /\ t.player = s.player /\ t.myTurn = s.myTurn
  /\ t.endGame = s.endGame /\ t.won = s.won
  /\ t.board = s.board /\ t.dragging = s.dragging /\ t.from = s.from
  /\ t.byteOfMove = s.byteOfMove /\ t.old = s.old

\* The positions a byte can stand for.
Position == 0 .. 63

----------------------------------------------------------------------------------
(* What the two machines know of each other's game *)

\* The game goes on, as far as this machine knows.
Quiet(m) == ~m.endGame /\ ~m.won /\ m.gameState # "EXIT" /\ m.phase # "crashed"

\* Between two moves.
Sync(a, b) == a.board = b.board /\ Quiet(a) /\ Quiet(b)

\* The machine that moved last ends its game by winning it.
Sender(a) == /\ a.phase # "crashed"
             /\ a.gameState = "EXIT" => a.won
             /\ a.won => a.endGame

\* The last move of a, from x to y, is not on the board of b yet.
Behind(a, b, x, y) ==
  /\ Sender(a) /\ Quiet(b)
  /\ b.board[decode(x)] # NULL
  /\ a.board = put(b.board, decode(x), decode(y))
  /\ a.endGame <=> kingAt(b.board, decode(y))
  /\ x # 0 /\ y # 0

\* The last move of a has been played by b, which has left the game if it lost it.
Told(a, b) ==
  /\ Sender(a)
  /\ b.phase # "crashed" /\ ~b.endGame /\ ~b.won
  /\ b.gameState = "EXIT" <=> a.endGame

\* b has read the first lo bytes of the script.
Flight(a, b, lo, x, y) ==
  /\ lo <= 5 => Behind(a, b, x, y)
  /\ lo = 4 => b.byteOfMove = 0
  /\ lo = 5 => b.byteOfMove = 1 /\ b.old = decode(x)
  /\ lo = 6 => a.board = b.board /\ Told(a, b)

----------------------------------------------------------------------------------
(* The states of the pair. ab and ba are the bytes from a to b and from b to a;   *)
(* ok: every move so far could be sent, none touched the corner (0,0).            *)

\* Before a greeting has been read.
Hello(m, q) ==
  /\ m.board = initBoard /\ Quiet(m) /\ ~m.myTurn
  /\ m.gameState \in {"START", "WAITING"}
  /\ q # << >> => m.gameState = "WAITING" /\ Carries(q, 0, 1, BLACK, 0, 0)

Start(a, b, ab, ba) == Hello(a, ab) /\ Hello(b, ba)

\* c has read a greeting and w has not read the colour. A machine that chose white may
\* have moved already.
Hand(c, w, cw, wc, ok) ==
  /\ wc = << >> /\ ~w.myTurn
  /\ \E lo \in 0 .. 2, hi \in {2, 3, 7} : \E x, y \in Position :
       /\ Carries(cw, lo, hi, opposite(c.player), x, y)
       /\ w.gameState = IF lo = 2 THEN "WAIT_CHOOSING_PLAYER" ELSE "WAITING"
       /\ hi = 2 => c.gameState = "CHOOSING_PLAYER" /\ ~c.myTurn /\ ~c.endGame
       /\ hi = 3 => /\ c.gameState = "PLAYING" /\ ~c.endGame
                    /\ c.player \in {BLACK, WHITE} /\ (c.myTurn <=> c.player = WHITE)
       /\ hi = 7 => /\ c.gameState \in {"PLAYING", "EXIT"} /\ ~c.myTurn
                    /\ c.player = WHITE
       /\ ok => IF hi = 7 THEN Behind(c, w, x, y) ELSE Sync(c, w)

\* a is to move.
Rest(a, b, ab, ba, ok) ==
  /\ a.myTurn /\ ~b.myTurn
  /\ ab = << >> /\ ba = << >>
  /\ ok => Sync(a, b)

\* A move of a, or what is left of it, is on its way.
Fly(a, b, ab, ba, ok) ==
  /\ ~a.myTurn /\ ~b.myTurn
  /\ ba = << >>
  /\ \E lo \in 3 .. 6 : \E x, y \in Position :
       /\ Carries(ab, lo, 7, BLACK, x, y)
       /\ ok => Flight(a, b, lo, x, y)

\* b left before it read that it is its turn.
Dead(a, b, ab, ba, ok) ==
  /\ ~a.myTurn /\ ~b.myTurn
  /\ ab = << >> /\ ba = << >>
  /\ b.phase # "run"
  /\ ok => Told(a, b) /\ b.gameState = "EXIT"

Turn(a, b, ab, ba, ok) ==
  Rest(a, b, ab, ba, ok) \/ Fly(a, b, ab, ba, ok) \/ Dead(a, b, ab, ba, ok)

\* Both machines are in the game.
Game(a, b, ab, ba, ok) ==
  /\ a.gameState \in {"PLAYING", "EXIT"} /\ b.gameState \in {"PLAYING", "EXIT"}
  /\ \/ a.player = WHITE /\ b.player = BLACK
     \/ a.player = BLACK /\ b.player = WHITE
  /\ Turn(a, b, ab, ba, ok) \/ Turn(b, a, ba, ab, ok)

----------------------------------------------------------------------------------
(* The states after a machine that left threw a byte away *)

\* The turn is the last byte of a queue, if any.
TurnLast(q) == Len(q) <= 7 /\ \A i \in 1 .. Len(q) : q[i] = YOUR_TURN => i = Len(q)

\* At most one of the machines has the turn, or one of the queues a byte.
AtMostOne(a, b, ab, ba) ==
  /\ a.myTurn => ~b.myTurn /\ ab = << >> /\ ba = << >>
  /\ b.myTurn => ab = << >> /\ ba = << >>
  /\ ab = << >> \/ ba = << >>

\* In the game.
LooseGame(a, b, ab, ba) ==
  /\ a.gameState \in {"PLAYING", "EXIT"} /\ b.gameState \in {"PLAYING", "EXIT"}
  /\ a.phase # "run" \/ b.phase # "run"
  /\ AtMostOne(a, b, ab, ba)
  /\ TurnLast(ab) /\ TurnLast(ba)

\* Before w has read the colour: it cannot take another byte for white's.
LooseHand(c, w, cw, wc) ==
  /\ c.gameState = "EXIT" /\ c.phase # "run"
  /\ w.gameState \in {"WAITING", "WAIT_CHOOSING_PLAYER"}
  /\ ~c.myTurn /\ ~w.myTurn
  /\ wc = << >> /\ TurnLast(cw)
  /\ w.gameState = "WAIT_CHOOSING_PLAYER" /\ cw # << >> => cw[1] \in {BLACK, BEGIN_MESSAGE}
  /\ w.gameState = "WAITING" =>
       \A i \in 1 .. (Len(cw) - 1) :
         cw[i] = RECEIVE_VM_CONNECTED => cw[i + 1] \in {BLACK, BEGIN_MESSAGE}

\* c was asked for the colours.
After(c, w, cw, wc, flushed, ok) ==
  IF flushed THEN LooseHand(c, w, cw, wc) \/ LooseGame(c, w, cw, wc)
  ELSE Hand(c, w, cw, wc, ok) \/ Game(c, w, cw, wc, ok)

----------------------------------------------------------------------------------
(* Each machine by itself *)

\* No piece is on two squares.
Injective(board) ==
  \A a, b \in Square : board[a] # NULL /\ board[a] = board[b] => a = b

bothKings(board) == \A id \in Ids : isKing(id) => \E sq \in Square : board[sq] = id

Local(m) ==
  /\ Injective(m.board)
  /\ m.dragging # NULL => m.myTurn /\ m.board[m.from] = m.dragging
  /\ m.endGame => m.gameState = "EXIT" \/ (m.gameState = "PLAYING" /\ ~m.myTurn)
  /\ bothKings(m.board) <=> ~(m.gameState = "EXIT" \/ m.endGame)

----------------------------------------------------------------------------------

Shape(p) == After(vm[p], vm[Other(p)], pipeline(Other(p)), pipeline(p),
                  hist.flushed, ~hist.corner)

\* The inductive invariant, with TypeOK.
ProtocolInv ==
  Clash \/ /\ \A p \in Peer : Local(vm[p])
           /\ \/ /\ hist.choosers = {} /\ ~hist.flushed
                 /\ Start(vm[1], vm[2], pipeline(2), pipeline(1))
              \/ \E p \in Peer : hist.choosers = {p} /\ Shape(p)
==================================================================================
