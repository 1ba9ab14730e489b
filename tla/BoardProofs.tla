------------------------------- MODULE BoardProofs -------------------------------
(* possiblePosition and the test playing_ih makes when a piece is dropped, against *)
(* the rules of chess, on every position.                                          *)
EXTENDS MCBoard, TLAPS

----------------------------------------------------------------------------------
(* Squares *)

LEMMA Coordinates ==
  ASSUME NEW s \in Square
  PROVE  Col(s) \in 0 .. 7 /\ Row(s) \in 0 .. 7 /\ s = get_position(Col(s), Row(s))
BY DEF Square, Col, Row, get_position

LEMMA Apart ==
  ASSUME NEW s \in Square, NEW t \in Square, Col(s) = Col(t), Row(s) = Row(t)
  PROVE  s = t
BY Coordinates

LEMMA Placed ==
  ASSUME NEW x \in 0 .. 7, NEW y \in 0 .. 7
  PROVE  /\ get_position(x, y) \in Square
         /\ Col(get_position(x, y)) = x /\ Row(get_position(x, y)) = y
BY DEF Square, Col, Row, get_position

\* The columns and the rows possiblePosition computes with.
Near == -7 .. 14

\* One axis of draw_rectangle: left of the board (or above it) getScreenX is negative or
\* within the margin, and the uint16_t of the one and the unsigned division of the
\* other are beyond the board.
LEMMA Unwrapped == ASSUME NEW n \in 0 .. 2000 PROVE uint16(n) = n
BY DEF uint16

LEMMA Wrapped == ASSUME NEW n \in Int, n < 0, n + 2000 >= 0 PROVE uint16(n) \in Int /\ uint16(n) > 2000
BY DEF uint16

LEMMA ColumnOnScreen ==
  ASSUME NEW c \in Near, NEW k \in 0 .. 7
  PROVE  LET x == uint16(getScreenX(c))
         IN  /\ getBoardX(x) \in 0 .. 7 <=> c \in 0 .. 7
             /\ c \in 0 .. 7 => (getScreenX(k) \in x .. (x + rectangle_width - 1) <=> k = c)
<1> DEFINE n == getScreenX(c)
           x == uint16(n)
<1>1. n = 59 * c + 65 /\ n \in Int /\ n <= 2000 /\ n + 2000 >= 0 /\ getScreenX(k) = 59 * k + 65
  BY DEF getScreenX, rectangle_width, left_rectangle_width, Near
<1> HIDE DEF n, x
<1>2. /\ n >= 0 => x = n
      /\ n < 0 => x \in Int /\ x > 2000
  <2>1. CASE n >= 0
    <3>1. n \in 0 .. 2000
      BY <1>1, <2>1
    <3>2. x = n
      BY <3>1, Unwrapped DEF x
    <3> QED BY <1>1, <2>1, <3>2
  <2>2. CASE n < 0
    <3>1. n \in Int /\ n < 0 /\ n + 2000 >= 0
      BY <1>1, <2>2
    <3>2. x \in Int /\ x > 2000
      <4>1. uint16(n) \in Int /\ uint16(n) > 2000
        BY <3>1, Wrapped
      <4> QED BY <4>1 DEF x
    <3> QED BY <1>1, <2>2, <3>2
  <2> QED BY <1>1, <2>1, <2>2
<1>3. ASSUME NEW i \in Int
      PROVE  /\ i >= 65 => getBoardX(i) = (i - 65) \div 59
             /\ i \in 0 .. (65 - 1) => getBoardX(i) > 7
  BY DEF getBoardX, unsignedDiv59, rectangle_width, left_rectangle_width
<1>4. CASE c >= 0
  <2>1. c \in 0 .. 14 /\ n \in 0 .. 2000 /\ x = 59 * c + 65
    BY <1>1, <1>2, <1>4 DEF Near
  <2>2. getBoardX(x) = c
    <3>1. x \in Int /\ x >= 65 /\ x - 65 = 59 * c
      BY <2>1
    <3>2. (59 * c) \div 59 = c
      BY <2>1
    <3> QED BY <1>3, <3>1, <3>2
  <2>3. 59 * k + 65 \in x .. (x + 59 - 1) <=> k = c
    BY <2>1
  <2> QED BY <1>1, <2>1, <2>2, <2>3 DEF x, n, rectangle_width
<1>5. CASE c = -1
  <2>1. x \in 0 .. (65 - 1)
    BY <1>1, <1>2, <1>5
  <2>2. getBoardX(x) > 7
    BY <1>3, <2>1
  <2> QED BY <1>5, <2>2 DEF x, n
<1>6. CASE c < -1
  <2>1. x \in Int /\ x > 2000
    BY <1>1, <1>2, <1>6 DEF Near
  <2>2. (x - 65) \div 59 > 7
    BY <2>1
  <2>3. getBoardX(x) > 7
    BY <1>3, <2>1, <2>2
  <2> QED BY <1>6, <2>3 DEF x, n
<1> QED BY <1>4, <1>5, <1>6 DEF Near

LEMMA RowOnScreen ==
  ASSUME NEW c \in Near, NEW k \in 0 .. 7
  PROVE  LET y == uint16(getScreenY(c))
         IN  /\ getBoardY(y) \in 0 .. 7 <=> c \in 0 .. 7
             /\ c \in 0 .. 7 => (getScreenY(k) \in y .. (y + rectangle_width - 1) <=> k = c)
<1> DEFINE n == getScreenY(c)
           y == uint16(n)
<1>1. n = 59 * c + 64 /\ n \in Int /\ n <= 2000 /\ n + 2000 >= 0 /\ getScreenY(k) = 59 * k + 64
  BY DEF getScreenY, rectangle_width, top_margin, Near
<1> HIDE DEF n, y
<1>2. /\ n >= 0 => y = n
      /\ n < 0 => y \in Int /\ y > 2000
  <2>1. CASE n >= 0
    <3>1. n \in 0 .. 2000
      BY <1>1, <2>1
    <3>2. y = n
      BY <3>1, Unwrapped DEF y
    <3> QED BY <1>1, <2>1, <3>2
  <2>2. CASE n < 0
    <3>1. n \in Int /\ n < 0 /\ n + 2000 >= 0
      BY <1>1, <2>2
    <3>2. y \in Int /\ y > 2000
      <4>1. uint16(n) \in Int /\ uint16(n) > 2000
        BY <3>1, Wrapped
      <4> QED BY <4>1 DEF y
    <3> QED BY <1>1, <2>2, <3>2
  <2> QED BY <1>1, <2>1, <2>2
<1>3. ASSUME NEW i \in Int
      PROVE  /\ i >= 64 => getBoardY(i) = (i - 64) \div 59
             /\ i \in 0 .. (64 - 1) => getBoardY(i) > 7
  BY DEF getBoardY, unsignedDiv59, rectangle_width, top_margin
<1>4. CASE c >= 0
  <2>1. c \in 0 .. 14 /\ n \in 0 .. 2000 /\ y = 59 * c + 64
    BY <1>1, <1>2, <1>4 DEF Near
  <2>2. getBoardY(y) = c
    <3>1. y \in Int /\ y >= 64 /\ y - 64 = 59 * c
      BY <2>1
    <3>2. (59 * c) \div 59 = c
      BY <2>1
    <3> QED BY <1>3, <3>1, <3>2
  <2>3. 59 * k + 64 \in y .. (y + 59 - 1) <=> k = c
    BY <2>1
  <2> QED BY <1>1, <2>1, <2>2, <2>3 DEF y, n, rectangle_width
<1>5. CASE c = -1
  <2>1. y \in 0 .. (64 - 1)
    BY <1>1, <1>2, <1>5
  <2>2. getBoardY(y) > 7
    BY <1>3, <2>1
  <2> QED BY <1>5, <2>2 DEF y, n
<1>6. CASE c < -1
  <2>1. y \in Int /\ y > 2000
    BY <1>1, <1>2, <1>6 DEF Near
  <2>2. (y - 64) \div 59 > 7
    BY <2>1
  <2>3. getBoardY(y) > 7
    BY <1>3, <2>1, <2>2
  <2> QED BY <1>6, <2>3 DEF y, n
<1> QED BY <1>4, <1>5, <1>6 DEF Near

\* draw_rectangle paints the squares of the board and nothing else: no pair of
\* coordinates beside the board is taken for a square of another row.
LEMMA Painted ==
  ASSUME NEW S \in SUBSET (Near \X Near), NEW b \in Square
  PROVE  b \in paint(S) <=> <<Col(b), Row(b)>> \in S
<1> DEFINE drawn(c) == draw_rectangle(uint16(getScreenX(c[1])), uint16(getScreenY(c[2])))
<1>1. b \in paint(S) <=> \E c \in S : b \in drawn(c)
  BY DEF paint
<1>2. ASSUME NEW c \in S
      PROVE  b \in drawn(c) <=> c = <<Col(b), Row(b)>>
  <2> DEFINE x == uint16(getScreenX(c[1]))
             y == uint16(getScreenY(c[2]))
             cs == {k \in 0 .. 7 : getScreenX(k) \in x .. (x + rectangle_width - 1)}
             rs == {k \in 0 .. 7 : getScreenY(k) \in y .. (y + rectangle_width - 1)}
  <2>1. c[1] \in Near /\ c[2] \in Near /\ c = <<c[1], c[2]>>
    OBVIOUS
  <2>2. onBoard(getBoardX(x), getBoardY(y)) <=> onBoard(c[1], c[2])
    BY <2>1, ColumnOnScreen, RowOnScreen DEF onBoard
  <2>3. drawn(c) = IF onBoard(c[1], c[2]) THEN {get_position(k, l) : k \in cs, l \in rs} ELSE {}
    BY <2>2 DEF draw_rectangle
  <2>4. onBoard(c[1], c[2]) => cs = {c[1]} /\ rs = {c[2]}
    BY <2>1, ColumnOnScreen, RowOnScreen DEF onBoard
  <2> HIDE DEF cs, rs, drawn
  <2>5. b \in drawn(c) <=> onBoard(c[1], c[2]) /\ b = get_position(c[1], c[2])
    BY <2>3, <2>4
  <2>6. Col(b) \in 0 .. 7 /\ Row(b) \in 0 .. 7 /\ b = get_position(Col(b), Row(b))
    BY Coordinates
  <2>7. onBoard(c[1], c[2]) /\ b = get_position(c[1], c[2]) => Col(b) = c[1] /\ Row(b) = c[2]
    BY Placed DEF onBoard
  <2> QED BY <2>1, <2>5, <2>6, <2>7 DEF onBoard
<1> HIDE DEF drawn
<1> QED BY <1>1, <1>2

\* On the board a read is of the square; Beyond plays no part.
LEMMA Read ==
  ASSUME NEW position, NEW x \in 0 .. 7, NEW y \in 0 .. 7
  PROVE  occupied(position, x, y) <=> position[get_position(x, y)] # NULL
BY Placed DEF occupied

LEMMA Occupied ==
  ASSUME NEW position, NEW s \in Square
  PROVE  occupied(position, Col(s), Row(s)) <=> position[s] # NULL
BY Coordinates, Read

----------------------------------------------------------------------------------
(* Rays *)

\* The square s is k steps from a towards (dx,dy).
Steps(a, s, k, dx, dy) == Col(s) = Col(a) + k * dx /\ Row(s) = Row(a) + k * dy

LEMMA Product ==
  ASSUME NEW i \in 1 .. 7, NEW n \in Int, NEW m \in Int
  PROVE  /\ n * i = m * i <=> n = m
         /\ n * i >= 0 <=> n >= 0
         /\ n * (-i) = -(n * i) /\ n * 0 = 0 /\ 0 * n = 0
<1>1. i \in {1, 2, 3, 4, 5, 6, 7}
  OBVIOUS
<1> QED BY <1>1

\* The squares strictly inside a segment along a ray are the steps before its end.
LEMMA BetweenSteps ==
  ASSUME NEW a \in Square, NEW b \in Square, NEW s \in Square, NEW i \in 1 .. 7,
         NEW dx \in {-1, 0, 1}, NEW dy \in {-1, 0, 1}, dx # 0 \/ dy # 0,
         Steps(a, b, i, dx, dy)
  PROVE  between(a, s, b) <=> \E j \in 1 .. (i - 1) : Steps(a, s, j, dx, dy)
<1> DEFINE ex == Col(s) - Col(a)
           ey == Row(s) - Row(a)
<1>1. /\ Col(a) \in Int /\ Row(a) \in Int /\ Col(s) \in Int /\ Row(s) \in Int
      /\ Col(b) \in Int /\ Row(b) \in Int
  BY Coordinates
<1>2. Col(b) - Col(a) = i * dx /\ Row(b) - Row(a) = i * dy /\ ex \in Int /\ ey \in Int
  BY <1>1 DEF Steps
<1>3. /\ s = a <=> ex = 0 /\ ey = 0
      /\ s = b <=> ex = i * dx /\ ey = i * dy
  <2>1. s = a <=> Col(s) = Col(a) /\ Row(s) = Row(a)
    BY Apart
  <2>2. s = b <=> Col(s) = Col(b) /\ Row(s) = Row(b)
    BY Apart
  <2> QED BY <1>1, <1>2, <2>1, <2>2
<1>4. \A j \in 1 .. (i - 1) : Steps(a, s, j, dx, dy) <=> ex = j * dx /\ ey = j * dy
  BY <1>1 DEF Steps
<1>5. between(a, s, b) <=>
        /\ ~(ex = 0 /\ ey = 0) /\ ~(ex = i * dx /\ ey = i * dy)
        /\ ex * (i * dy) = ey * (i * dx)
        /\ ex * (i * dx) >= 0 /\ ey * (i * dy) >= 0
        /\ abs(ex) <= abs(i * dx) /\ abs(ey) <= abs(i * dy)
  BY <1>2, <1>3 DEF between
<1> HIDE DEF ex, ey
<1>6. CASE dx = 0 /\ dy = 1
  BY <1>2, <1>4, <1>5, <1>6, Product DEF abs
<1>7. CASE dx = 0 /\ dy = -1
  BY <1>2, <1>4, <1>5, <1>7, Product DEF abs
<1>8. CASE dx = 1 /\ dy = 0
  BY <1>2, <1>4, <1>5, <1>8, Product DEF abs
<1>9. CASE dx = -1 /\ dy = 0
  BY <1>2, <1>4, <1>5, <1>9, Product DEF abs
<1>10. CASE dx = 1 /\ dy = 1
  BY <1>2, <1>4, <1>5, <1>10, Product DEF abs
<1>11. CASE dx = 1 /\ dy = -1
  BY <1>2, <1>4, <1>5, <1>11, Product DEF abs
<1>12. CASE dx = -1 /\ dy = 1
  BY <1>2, <1>4, <1>5, <1>12, Product DEF abs
<1>13. CASE dx = -1 /\ dy = -1
  BY <1>2, <1>4, <1>5, <1>13, Product DEF abs
<1> QED BY <1>6, <1>7, <1>8, <1>9, <1>10, <1>11, <1>12, <1>13

Clear(position, a, b) == \A s \in Square : between(a, s, b) => position[s] = NULL

\* A ray reaches the squares with nothing in between.
LEMMA RayReaches ==
  ASSUME NEW position, NEW a \in Square, NEW b \in Square,
         NEW dx \in {-1, 0, 1}, NEW dy \in {-1, 0, 1}, dx # 0 \/ dy # 0
  PROVE  <<Col(b), Row(b)>> \in ray(position, Col(a), Row(a), dx, dy)
           <=> Clear(position, a, b) /\ \E i \in 1 .. 7 : Steps(a, b, i, dx, dy)
<1> DEFINE x == Col(a)
           y == Row(a)
           open(n) == \A j \in 1 .. (n - 1) : ~occupied(position, x + j * dx, y + j * dy)
<1>1. /\ x \in 0 .. 7 /\ y \in 0 .. 7 /\ Col(b) \in 0 .. 7 /\ Row(b) \in 0 .. 7
  BY Coordinates
<1>2. ASSUME NEW i \in 1 .. 7, Steps(a, b, i, dx, dy)
      PROVE  open(i) <=> Clear(position, a, b)
  <2>1. ASSUME NEW j \in 1 .. (i - 1)
        PROVE  x + j * dx \in 0 .. 7 /\ y + j * dy \in 0 .. 7
    <3>1. Col(b) = x + i * dx /\ Row(b) = y + i * dy
      BY <1>2 DEF Steps
    <3> HIDE DEF x, y
    <3>2. ASSUME NEW z \in 0 .. 7, NEW d \in {-1, 0, 1}, z + i * d \in 0 .. 7
          PROVE  z + j * d \in 0 .. 7
      <4>1. CASE d = 0
        BY <4>1
      <4>2. CASE d = 1
        BY <3>2, <4>2
      <4>3. CASE d = -1
        BY <3>2, <4>3
      <4> QED BY <4>1, <4>2, <4>3
    <3> QED BY <1>1, <3>1, <3>2
  <2>2. ASSUME NEW j \in 1 .. (i - 1)
        PROVE  LET s == get_position(x + j * dx, y + j * dy)
               IN  /\ s \in Square /\ Steps(a, s, j, dx, dy)
                   /\ occupied(position, x + j * dx, y + j * dy) <=> position[s] # NULL
    <3> DEFINE u == x + j * dx
               v == y + j * dy
               s == get_position(u, v)
    <3>1. u \in 0 .. 7 /\ v \in 0 .. 7
      BY <2>1
    <3>2. s \in Square /\ Col(s) = u /\ Row(s) = v
      <4> HIDE DEF u, v
      <4> QED BY <3>1, Placed
    <3>3. occupied(position, u, v) <=> position[s] # NULL
      <4> HIDE DEF u, v
      <4> QED BY <3>1, Read
    <3> QED BY <3>2, <3>3 DEF Steps
  <2>3. ASSUME open(i), NEW s \in Square, between(a, s, b)
        PROVE  position[s] = NULL
    <3>1. PICK j \in 1 .. (i - 1) : Steps(a, s, j, dx, dy)
      BY <1>2, <2>3, BetweenSteps
    <3>2. s = get_position(x + j * dx, y + j * dy)
      BY <3>1, Coordinates DEF Steps
    <3> QED BY <2>2, <2>3, <3>2
  <2>4. ASSUME Clear(position, a, b), NEW j \in 1 .. (i - 1)
        PROVE  ~occupied(position, x + j * dx, y + j * dy)
    <3> DEFINE s == get_position(x + j * dx, y + j * dy)
    <3>1. /\ s \in Square /\ Steps(a, s, j, dx, dy)
          /\ occupied(position, x + j * dx, y + j * dy) <=> position[s] # NULL
      BY <2>2
    <3> HIDE DEF s
    <3>2. between(a, s, b)
      BY <1>2, <3>1, BetweenSteps
    <3> QED BY <2>4, <3>1, <3>2 DEF Clear
  <2> QED BY <2>3, <2>4 DEF Clear
<1>3. <<Col(b), Row(b)>> \in ray(position, x, y, dx, dy)
        <=> \E i \in 1 .. 7 : open(i) /\ Steps(a, b, i, dx, dy)
  BY DEF ray, Steps
<1> HIDE DEF open
<1> QED BY <1>2, <1>3

\* Two squares on a line are some steps apart.
Reach(a, b, dx, dy) == \E i \in 1 .. 7 : Steps(a, b, i, dx, dy)

LEMMA Negation ==
  ASSUME NEW w \in -7 .. 7
  PROVE  w < 0 <=> \E i \in 1 .. 7 : w = i * (-1)
<1>1. w < 0 => -w \in 1 .. 7 /\ w = (-w) * (-1)
  OBVIOUS
<1> QED BY <1>1

LEMMA OnLine ==
  ASSUME NEW a \in Square, NEW b \in Square
  PROVE  LET u == Col(b) - Col(a)
             v == Row(b) - Row(a)
         IN  /\ a # b /\ (u = 0 \/ v = 0)
                  <=> Reach(a, b, 0, 1) \/ Reach(a, b, 0, -1) \/ Reach(a, b, 1, 0) \/ Reach(a, b, -1, 0)
             /\ a # b /\ abs(u) = abs(v)
                  <=> Reach(a, b, 1, 1) \/ Reach(a, b, 1, -1) \/ Reach(a, b, -1, 1) \/ Reach(a, b, -1, -1)
<1>1. /\ Col(a) \in 0 .. 7 /\ Row(a) \in 0 .. 7 /\ Col(b) \in 0 .. 7 /\ Row(b) \in 0 .. 7
      /\ a = b <=> Col(a) = Col(b) /\ Row(a) = Row(b)
  BY Coordinates, Apart
<1> DEFINE u == Col(b) - Col(a)
           v == Row(b) - Row(a)
<1>2. u \in -7 .. 7 /\ v \in -7 .. 7 /\ (a = b <=> u = 0 /\ v = 0)
  BY <1>1
<1>3. ASSUME NEW dx \in Int, NEW dy \in Int
      PROVE  Reach(a, b, dx, dy) <=> \E i \in 1 .. 7 : u = i * dx /\ v = i * dy
  <2>1. ASSUME NEW i \in 1 .. 7
        PROVE  Steps(a, b, i, dx, dy) <=> u = i * dx /\ v = i * dy
    <3> DEFINE p == i * dx
               q == i * dy
    <3>1. p \in Int /\ q \in Int
      OBVIOUS
    <3>2. Steps(a, b, i, dx, dy) <=> Col(b) = Col(a) + p /\ Row(b) = Row(a) + q
      BY DEF Steps
    <3> HIDE DEF p, q
    <3>3. Steps(a, b, i, dx, dy) <=> u = p /\ v = q
      BY <1>1, <3>1, <3>2
    <3> QED BY <3>3 DEF p, q
  <2> HIDE DEF u, v
  <2> QED BY <2>1 DEF Reach
<1> HIDE DEF u, v
<1>4. /\ Reach(a, b, 0, 1) <=> u = 0 /\ v > 0
      /\ Reach(a, b, 0, -1) <=> u = 0 /\ v < 0
      /\ Reach(a, b, 1, 0) <=> u > 0 /\ v = 0
      /\ Reach(a, b, -1, 0) <=> u < 0 /\ v = 0
  <2>1. Reach(a, b, 0, 1) <=> u = 0 /\ v > 0
    BY <1>2, <1>3
  <2>2. Reach(a, b, 0, -1) <=> u = 0 /\ v < 0
    BY <1>2, <1>3, Negation
  <2>3. Reach(a, b, 1, 0) <=> u > 0 /\ v = 0
    BY <1>2, <1>3
  <2>4. Reach(a, b, -1, 0) <=> u < 0 /\ v = 0
    BY <1>2, <1>3, Negation
  <2> QED BY <2>1, <2>2, <2>3, <2>4
<1>5. /\ Reach(a, b, 1, 1) <=> u > 0 /\ v = u
      /\ Reach(a, b, 1, -1) <=> u > 0 /\ v = -u
      /\ Reach(a, b, -1, 1) <=> u < 0 /\ v = -u
      /\ Reach(a, b, -1, -1) <=> u < 0 /\ v = u
  <2>1. Reach(a, b, 1, 1) <=> u > 0 /\ v = u
    BY <1>2, <1>3
  <2>2. Reach(a, b, 1, -1) <=> u > 0 /\ v = -u
    BY <1>2, <1>3, Negation
  <2>3. Reach(a, b, -1, 1) <=> u < 0 /\ v = -u
    BY <1>2, <1>3, Negation
  <2>4. Reach(a, b, -1, -1) <=> u < 0 /\ v = u
    BY <1>2, <1>3, Negation
  <2> QED BY <2>1, <2>2, <2>3, <2>4
<1>6. /\ a # b /\ (u = 0 \/ v = 0)
           <=> Reach(a, b, 0, 1) \/ Reach(a, b, 0, -1) \/ Reach(a, b, 1, 0) \/ Reach(a, b, -1, 0)
  BY <1>2, <1>4
<1>7. /\ a # b /\ abs(u) = abs(v)
           <=> Reach(a, b, 1, 1) \/ Reach(a, b, 1, -1) \/ Reach(a, b, -1, 1) \/ Reach(a, b, -1, -1)
  BY <1>2, <1>5 DEF abs
<1> QED BY <1>6, <1>7 DEF u, v

\* Rooks and bishops reach the squares of their lines up to the first piece.
LEMMA RookReaches ==
  ASSUME NEW position, NEW a \in Square, NEW b \in Square, a # b
  PROVE  <<Col(b), Row(b)>> \in rookRays(position, Col(a), Row(a))
           <=> /\ Col(b) - Col(a) = 0 \/ Row(b) - Row(a) = 0
               /\ Clear(position, a, b)
<1> DEFINE c == <<Col(b), Row(b)>>
           R(dx, dy) == ray(position, Col(a), Row(a), dx, dy)
<1>1. c \in rookRays(position, Col(a), Row(a)) <=>
        c = <<Col(a), Row(a)>> \/ c \in R(0, 1) \/ c \in R(0, -1) \/ c \in R(1, 0) \/ c \in R(-1, 0)
  BY DEF rookRays
<1>2. c # <<Col(a), Row(a)>>
  BY Apart
<1>3. ASSUME NEW dx \in {-1, 0, 1}, NEW dy \in {-1, 0, 1}, dx # 0 \/ dy # 0
      PROVE  c \in R(dx, dy) <=> Clear(position, a, b) /\ Reach(a, b, dx, dy)
  BY <1>3, RayReaches DEF Reach
<1> HIDE DEF c, R
<1>4. /\ c \in R(0, 1) <=> Clear(position, a, b) /\ Reach(a, b, 0, 1)
      /\ c \in R(0, -1) <=> Clear(position, a, b) /\ Reach(a, b, 0, -1)
      /\ c \in R(1, 0) <=> Clear(position, a, b) /\ Reach(a, b, 1, 0)
      /\ c \in R(-1, 0) <=> Clear(position, a, b) /\ Reach(a, b, -1, 0)
  BY <1>3
<1>5. Col(b) - Col(a) = 0 \/ Row(b) - Row(a) = 0
        <=> Reach(a, b, 0, 1) \/ Reach(a, b, 0, -1) \/ Reach(a, b, 1, 0) \/ Reach(a, b, -1, 0)
  BY OnLine
<1> QED BY <1>1, <1>2, <1>4, <1>5 DEF c

LEMMA BishopReaches ==
  ASSUME NEW position, NEW a \in Square, NEW b \in Square, a # b
  PROVE  <<Col(b), Row(b)>> \in bishopRays(position, Col(a), Row(a))
           <=> /\ abs(Col(b) - Col(a)) = abs(Row(b) - Row(a))
               /\ Clear(position, a, b)
<1> DEFINE c == <<Col(b), Row(b)>>
           R(dx, dy) == ray(position, Col(a), Row(a), dx, dy)
<1>1. c \in bishopRays(position, Col(a), Row(a)) <=>
        c \in R(1, 1) \/ c \in R(1, -1) \/ c \in R(-1, 1) \/ c \in R(-1, -1)
  <2>1. {-1, 1} \X {-1, 1} = {<<1, 1>>, <<1, -1>>, <<-1, 1>>, <<-1, -1>>}
    OBVIOUS
  <2>2. bishopRays(position, Col(a), Row(a)) =
          UNION {R(d[1], d[2]) : d \in {<<1, 1>>, <<1, -1>>, <<-1, 1>>, <<-1, -1>>}}
    BY <2>1 DEF bishopRays
  <2> HIDE DEF R
  <2> QED BY <2>2
<1>2. ASSUME NEW dx \in {-1, 0, 1}, NEW dy \in {-1, 0, 1}, dx # 0 \/ dy # 0
      PROVE  c \in R(dx, dy) <=> Clear(position, a, b) /\ Reach(a, b, dx, dy)
  BY <1>2, RayReaches DEF Reach
<1> HIDE DEF c, R
<1>3. /\ c \in R(1, 1) <=> Clear(position, a, b) /\ Reach(a, b, 1, 1)
      /\ c \in R(1, -1) <=> Clear(position, a, b) /\ Reach(a, b, 1, -1)
      /\ c \in R(-1, 1) <=> Clear(position, a, b) /\ Reach(a, b, -1, 1)
      /\ c \in R(-1, -1) <=> Clear(position, a, b) /\ Reach(a, b, -1, -1)
  BY <1>2
<1>4. abs(Col(b) - Col(a)) = abs(Row(b) - Row(a))
        <=> Reach(a, b, 1, 1) \/ Reach(a, b, 1, -1) \/ Reach(a, b, -1, 1) \/ Reach(a, b, -1, -1)
  BY OnLine
<1> QED BY <1>1, <1>3, <1>4 DEF c

----------------------------------------------------------------------------------
(* Types and teams *)

LEMMA Types ==
  ASSUME NEW id \in Ids
  PROVE  type[id] \in 0 .. 11
<1>1. backRank \in [0 .. 7 -> 0 .. 5]
  BY DEF backRank, b_pawn, b_knight, b_bishop, b_rook, b_queen, b_king
<1>2. id \in Square /\ Row(id) \in {0, 1, 6, 7}
  BY DEF Ids, Square, Row
<1>3. backRank[Col(id)] \in 0 .. 5
  BY <1>1, <1>2, Coordinates
<1>4. /\ Row(id) = 0 => type[id] = backRank[Col(id)]
      /\ Row(id) = 1 => type[id] = 0
      /\ Row(id) = 6 => type[id] = 6
      /\ Row(id) = 7 => type[id] = backRank[Col(id)] + 6
  BY DEF type, b_pawn, w_pawn
<1> QED BY <1>2, <1>3, <1>4

\* The enumeration of PieceType: kinds in the order of the black pieces, then the
\* white ones, so that one comparison tells the teams apart.
LEMMA Kinds ==
  ASSUME NEW id \in Ids
  PROVE  /\ isWhite(id) <=> type[id] > b_king
         /\ kind(id) = 0 <=> type[id] \in {b_pawn, w_pawn}
         /\ kind(id) = 1 <=> type[id] \in {b_knight, w_knight}
         /\ kind(id) = 2 <=> type[id] \in {b_bishop, w_bishop}
         /\ kind(id) = 3 <=> type[id] \in {b_rook, w_rook}
         /\ kind(id) = 4 <=> type[id] \in {b_queen, w_queen}
         /\ kind(id) = 5 <=> type[id] \in {b_king, w_king}
         /\ kind(id) \in 0 .. 5
<1> DEFINE t == type[id]
<1>1. t \in 0 .. 11
  BY Types
<1> HIDE DEF t
<1>2. kind(id) = t % 6
  BY DEF kind, t
<1>3. isWhite(id) <=> t >= 6
  BY DEF isWhite, w_pawn, t
<1>4. /\ t % 6 = 0 <=> t \in {0, 6}
      /\ t % 6 = 1 <=> t \in {1, 7}
      /\ t % 6 = 2 <=> t \in {2, 8}
      /\ t % 6 = 3 <=> t \in {3, 9}
      /\ t % 6 = 4 <=> t \in {4, 10}
      /\ t % 6 = 5 <=> t \in {5, 11}
      /\ t % 6 \in 0 .. 5
  BY <1>1
<1>5. isWhite(id) <=> t > 5
  BY <1>1, <1>3
<1> QED BY <1>2, <1>4, <1>5 DEF t, b_pawn, b_knight, b_bishop, b_rook, b_queen, b_king,
                                 w_pawn, w_knight, w_bishop, w_rook, w_queen, w_king

Position == [Square -> Ids \cup {NULL}]

Free(position, b) == position[b] = NULL

Enemy(position, id, b) == position[b] # NULL /\ (isWhite(position[b]) # isWhite(id))

\* The test playing_ih makes on the square of the drop.
LEMMA Landing ==
  ASSUME NEW position \in Position, NEW id \in Ids, NEW lit, NEW b \in Square
  PROVE  accepts(position, lit, id, b)
           <=> b \in lit /\ (Free(position, b) \/ Enemy(position, id, b))
<1>1. CASE position[b] = NULL
  BY <1>1 DEF accepts, Free
<1>2. CASE position[b] # NULL
  <2> DEFINE q == position[b]
  <2>1. q \in Ids
    BY <1>2 DEF Position
  <2> HIDE DEF q
  <2>2. /\ isWhite(id) <=> type[id] > b_king
        /\ isWhite(q) <=> type[q] > b_king
    BY <2>1, Kinds
  <2>3. sameTeam(id, q) <=> isWhite(q) = isWhite(id)
    <3>1. isWhite(id) \in BOOLEAN /\ isWhite(q) \in BOOLEAN
      BY DEF isWhite
    <3> QED BY <2>2, <3>1, Zenon DEF sameTeam
  <2> QED BY <1>2, <2>3 DEF accepts, Free, Enemy, q
<1> QED BY <1>1, <1>2

----------------------------------------------------------------------------------
(* What each kind of piece paints *)

Dx(a, b) == Col(b) - Col(a)

Dy(a, b) == Row(b) - Row(a)

LEMMA Displacement ==
  ASSUME NEW a \in Square, NEW b \in Square
  PROVE  /\ Col(a) \in Int /\ Row(a) \in Int
         /\ Dx(a, b) \in -7 .. 7 /\ Dy(a, b) \in -7 .. 7
         /\ Col(b) = Col(a) + Dx(a, b) /\ Row(b) = Row(a) + Dy(a, b)
         /\ a = b <=> Dx(a, b) = 0 /\ Dy(a, b) = 0
<1>1. /\ Col(a) \in 0 .. 7 /\ Row(a) \in 0 .. 7 /\ Col(b) \in 0 .. 7 /\ Row(b) \in 0 .. 7
      /\ a = b <=> Col(a) = Col(b) /\ Row(a) = Row(b)
  BY Coordinates, Apart
<1> DEFINE p == Col(a)
           q == Row(a)
           r == Col(b)
           t == Row(b)
<1> HIDE DEF p, q, r, t
<1>2. p \in 0 .. 7 /\ q \in 0 .. 7 /\ r \in 0 .. 7 /\ t \in 0 .. 7
  BY <1>1 DEF p, q, r, t
<1>3. Dx(a, b) = r - p /\ Dy(a, b) = t - q
  BY DEF Dx, Dy, p, q, r, t
<1>4. /\ r - p \in -7 .. 7 /\ t - q \in -7 .. 7
      /\ r = p + (r - p) /\ t = q + (t - q)
      /\ r - p = 0 <=> p = r
      /\ t - q = 0 <=> q = t
  BY <1>2
<1>5. a = b <=> p = r /\ q = t
  BY <1>1 DEF p, q, r, t
<1>6. a = b <=> Dx(a, b) = 0 /\ Dy(a, b) = 0
  BY <1>3, <1>4, <1>5
<1> QED BY <1>2, <1>3, <1>4, <1>6 DEF p, q, r, t

LEMMA Close ==
  ASSUME NEW x \in 0 .. 7, NEW d \in -7 .. 7
  PROVE  x + d \in Near
BY DEF Near

LEMMA KnightReaches ==
  ASSUME NEW a \in Square, NEW b \in Square
  PROVE  /\ <<Col(b), Row(b)>> \in knightHops(Col(a), Row(a))
              <=> {abs(Dx(a, b)), abs(Dy(a, b))} = {1, 2}
         /\ knightHops(Col(a), Row(a)) \in SUBSET (Near \X Near)
<1> DEFINE u == Dx(a, b)
           v == Dy(a, b)
           D == ({-2, 2} \X {-1, 1}) \cup ({-1, 1} \X {-2, 2})
<1>1. /\ Col(a) \in Int /\ Row(a) \in Int /\ u \in -7 .. 7 /\ v \in -7 .. 7
      /\ Col(b) = Col(a) + u /\ Row(b) = Row(a) + v
  BY Displacement
<1> HIDE DEF u, v
<1>2. <<Col(b), Row(b)>> \in knightHops(Col(a), Row(a))
        <=> \E d \in D : Col(b) = Col(a) + d[1] /\ Row(b) = Row(a) + d[2]
  BY DEF knightHops
<1>3. \A d \in D : d[1] \in Int /\ d[2] \in Int /\ d = <<d[1], d[2]>>
  OBVIOUS
<1>4. <<Col(b), Row(b)>> \in knightHops(Col(a), Row(a)) <=> <<u, v>> \in D
  <2>1. ASSUME NEW d \in D
        PROVE  Col(b) = Col(a) + d[1] /\ Row(b) = Row(a) + d[2] <=> d = <<u, v>>
    BY <1>1, <1>3
  <2> HIDE DEF D
  <2> QED BY <1>1, <1>2, <2>1
<1>5. <<u, v>> \in D <=> (u \in {-2, 2} /\ v \in {-1, 1}) \/ (u \in {-1, 1} /\ v \in {-2, 2})
  OBVIOUS
<1>6. /\ u \in {-2, 2} <=> abs(u) = 2
      /\ u \in {-1, 1} <=> abs(u) = 1
      /\ v \in {-2, 2} <=> abs(v) = 2
      /\ v \in {-1, 1} <=> abs(v) = 1
  BY <1>1 DEF abs
<1>7. \A p, q : {p, q} = {1, 2} <=> (p = 2 /\ q = 1) \/ (p = 1 /\ q = 2)
  OBVIOUS
<1>8. knightHops(Col(a), Row(a)) \in SUBSET (Near \X Near)
  <2>1. ASSUME NEW d \in D PROVE Col(a) + d[1] \in Near /\ Row(a) + d[2] \in Near
    <3>1. d[1] \in -7 .. 7 /\ d[2] \in -7 .. 7
      OBVIOUS
    <3> QED BY <3>1, Coordinates, Close
  <2> QED BY <2>1 DEF knightHops
<1> QED BY <1>4, <1>5, <1>6, <1>7, <1>8 DEF u, v

LEMMA KingReaches ==
  ASSUME NEW a \in Square, NEW b \in Square, a # b
  PROVE  /\ <<Col(b), Row(b)>> \in kingSteps(Col(a), Row(a))
              <=> abs(Dx(a, b)) <= 1 /\ abs(Dy(a, b)) <= 1
         /\ kingSteps(Col(a), Row(a)) \in SUBSET (Near \X Near)
<1> DEFINE u == Dx(a, b)
           v == Dy(a, b)
           D == ({-1, 0, 1} \X {-1, 0, 1}) \ {<<0, 0>>}
<1>1. /\ Col(a) \in Int /\ Row(a) \in Int /\ u \in -7 .. 7 /\ v \in -7 .. 7
      /\ Col(b) = Col(a) + u /\ Row(b) = Row(a) + v
      /\ ~(u = 0 /\ v = 0)
  BY Displacement
<1> HIDE DEF u, v
<1>2. <<Col(b), Row(b)>> \in kingSteps(Col(a), Row(a))
        <=> \E d \in D : Col(b) = Col(a) + d[1] /\ Row(b) = Row(a) + d[2]
  BY DEF kingSteps
<1>3. \A d \in D : d[1] \in Int /\ d[2] \in Int /\ d = <<d[1], d[2]>>
  OBVIOUS
<1>4. <<Col(b), Row(b)>> \in kingSteps(Col(a), Row(a)) <=> <<u, v>> \in D
  <2>1. ASSUME NEW d \in D
        PROVE  Col(b) = Col(a) + d[1] /\ Row(b) = Row(a) + d[2] <=> d = <<u, v>>
    BY <1>1, <1>3
  <2> HIDE DEF D
  <2> QED BY <1>1, <1>2, <2>1
<1>5. <<u, v>> \in D <=> u \in {-1, 0, 1} /\ v \in {-1, 0, 1}
  BY <1>1
<1>6. /\ u \in {-1, 0, 1} <=> abs(u) <= 1
      /\ v \in {-1, 0, 1} <=> abs(v) <= 1
  BY <1>1 DEF abs
<1>7. kingSteps(Col(a), Row(a)) \in SUBSET (Near \X Near)
  <2>1. ASSUME NEW d \in D PROVE Col(a) + d[1] \in Near /\ Row(a) + d[2] \in Near
    <3>1. d[1] \in -7 .. 7 /\ d[2] \in -7 .. 7
      OBVIOUS
    <3> QED BY <3>1, Coordinates, Close
  <2> QED BY <2>1 DEF kingSteps
<1> QED BY <1>4, <1>5, <1>6, <1>7 DEF u, v

LEMMA RaysOfPairs ==
  ASSUME NEW position, NEW x \in 0 .. 7, NEW y \in 0 .. 7
  PROVE  /\ rookRays(position, x, y) \in SUBSET (Near \X Near)
         /\ bishopRays(position, x, y) \in SUBSET (Near \X Near)
<1>1. ASSUME NEW i \in 1 .. 7, NEW d \in {-1, 0, 1}
      PROVE  i * d \in -7 .. 7
  <2>1. CASE d = -1 BY <2>1
  <2>2. CASE d = 0 BY <2>2
  <2>3. CASE d = 1 BY <2>3
  <2> QED BY <2>1, <2>2, <2>3
<1>2. ASSUME NEW dx \in {-1, 0, 1}, NEW dy \in {-1, 0, 1}
      PROVE  ray(position, x, y, dx, dy) \in SUBSET (Near \X Near)
  <2>1. ASSUME NEW i \in 1 .. 7
        PROVE  x + i * dx \in Near /\ y + i * dy \in Near
    BY <1>1, Close
  <2> QED BY <2>1 DEF ray
<1>3. bishopRays(position, x, y) \in SUBSET (Near \X Near)
  BY <1>2 DEF bishopRays
<1>4. rookRays(position, x, y) \in SUBSET (Near \X Near)
  <2>1. <<x, y>> \in Near \X Near
    BY DEF Near
  <2> QED BY <1>2, <2>1 DEF rookRays
<1> QED BY <1>3, <1>4

\* A pawn captures diagonally what it may take, steps on a free square, and makes the
\* first double step over a free square onto a free square.
LEMMA PawnReaches ==
  ASSUME NEW position \in Position, NEW a \in Square, NEW b \in Square,
         NEW hasMoved \in BOOLEAN, NEW step \in {-1, 1}, NEW prey \in SUBSET Int
  PROVE  /\ <<Col(b), Row(b)>> \in pawnTargets(position, hasMoved, Col(a), Row(a), step, prey)
              <=> \/ /\ abs(Dx(a, b)) = 1 /\ Dy(a, b) = step
                     /\ ~Free(position, b) /\ type[position[b]] \in prey
                  \/ Dx(a, b) = 0 /\ Dy(a, b) = step /\ Free(position, b)
                  \/ /\ Dx(a, b) = 0 /\ Dy(a, b) = 2 * step /\ ~hasMoved
                     /\ Free(position, b) /\ Clear(position, a, b)
         /\ pawnTargets(position, hasMoved, Col(a), Row(a), step, prey) \in SUBSET (Near \X Near)
<1> DEFINE x == Col(a)
           y == Row(a)
           u == Dx(a, b)
           v == Dy(a, b)
           c == <<Col(b), Row(b)>>
           side == {d \in {x - 1, x + 1} \X {y + step} :
                      /\ onBoard(d[1], d[2]) /\ occupied(position, d[1], d[2])
                      /\ type[position[get_position(d[1], d[2])]] \in prey}
           open(n) == \A j \in 1 .. n : ~occupied(position, x, y + j * step)
           last == IF hasMoved THEN 1 ELSE 2
           ahead == {<<x, y + i * step>> : i \in {n \in 1 .. last : open(n)}}
<1>1. /\ x \in Int /\ y \in Int /\ u \in -7 .. 7 /\ v \in -7 .. 7
      /\ Col(b) = x + u /\ Row(b) = y + v
  BY Displacement
<1>2. pawnTargets(position, hasMoved, x, y, step, prey) = side \cup ahead
  BY DEF pawnTargets
<1>3. /\ occupied(position, Col(b), Row(b)) <=> ~Free(position, b)
      /\ b = get_position(Col(b), Row(b))
  BY Occupied, Coordinates DEF Free
<1>4. c \in side <=> /\ abs(u) = 1 /\ v = step
                     /\ ~Free(position, b) /\ type[position[b]] \in prey
  <2>1. c \in {x - 1, x + 1} \X {y + step} <=> abs(u) = 1 /\ v = step
    <3> HIDE DEF x, y, u, v
    <3>1. c \in {x - 1, x + 1} \X {y + step} <=> (x + u = x - 1 \/ x + u = x + 1) /\ y + v = y + step
      BY <1>1
    <3>2. (x + u = x - 1 \/ x + u = x + 1) <=> abs(u) = 1
      BY <1>1 DEF abs
    <3>3. y + v = y + step <=> v = step
      BY <1>1
    <3> QED BY <3>1, <3>2, <3>3
  <2>2. c[1] = Col(b) /\ c[2] = Row(b)
    OBVIOUS
  <2>3. c \in side <=> /\ c \in {x - 1, x + 1} \X {y + step}
                       /\ onBoard(Col(b), Row(b)) /\ occupied(position, Col(b), Row(b))
                       /\ type[position[get_position(Col(b), Row(b))]] \in prey
    BY <2>2
  <2>4. onBoard(Col(b), Row(b))
    BY Coordinates DEF onBoard
  <2> QED BY <1>3, <2>1, <2>3, <2>4
<1>5. c \in ahead <=> \E i \in 1 .. last : open(i) /\ u = 0 /\ v = i * step
  <2>1. ASSUME NEW i \in 1 .. last
        PROVE  c = <<x, y + i * step>> <=> u = 0 /\ v = i * step
    <3> DEFINE p == i * step
    <3>1. p \in Int
      OBVIOUS
    <3> HIDE DEF p, x, y, u, v
    <3>2. c = <<x, y + p>> <=> x + u = x /\ y + v = y + p
      BY <1>1
    <3>3. c = <<x, y + p>> <=> u = 0 /\ v = p
      BY <1>1, <3>1, <3>2
    <3> QED BY <3>3 DEF p
  <2> HIDE DEF c, open, last, u, v, x, y
  <2> QED BY <2>1
<1>6. ASSUME u = 0, v = step
      PROVE  open(1) <=> Free(position, b)
  <2>1. Col(b) = x /\ Row(b) = y + 1 * step
    BY <1>1, <1>6
  <2>2. 1 .. 1 = {1}
    OBVIOUS
  <2> QED BY <1>3, <2>1, <2>2
<1>7. ASSUME u = 0, v = 2 * step
      PROVE  open(2) <=> Free(position, b) /\ Clear(position, a, b)
  <2>1. Col(b) = x /\ Row(b) = y + 2 * step /\ Steps(a, b, 2, 0, step)
    BY <1>1, <1>7 DEF Steps
  <2>2. 1 .. 2 = {1, 2}
    OBVIOUS
  <2>3. open(2) <=> ~occupied(position, x, y + 1 * step) /\ Free(position, b)
    BY <1>3, <2>1, <2>2
  <2> DEFINE m == get_position(x, y + 1 * step)
  <2>4. x \in 0 .. 7 /\ y + 1 * step \in 0 .. 7
    <3>1. x \in 0 .. 7 /\ y \in 0 .. 7 /\ y + 2 * step \in 0 .. 7
      BY <2>1, Coordinates
    <3> HIDE DEF x, y
    <3>2. CASE step = 1
      BY <3>1, <3>2
    <3>3. CASE step = -1
      BY <3>1, <3>3
    <3> QED BY <3>2, <3>3
  <2>5. /\ m \in Square /\ Col(m) = x /\ Row(m) = y + 1 * step
        /\ occupied(position, x, y + 1 * step) <=> position[m] # NULL
    <3> DEFINE w == y + 1 * step
    <3>1. m = get_position(x, w) /\ w \in 0 .. 7 /\ x \in 0 .. 7
      BY <2>4
    <3> HIDE DEF w, x, y, m
    <3>2. m \in Square /\ Col(m) = x /\ Row(m) = w
      BY <3>1, Placed
    <3>3. occupied(position, x, w) <=> position[m] # NULL
      BY <3>1, Read
    <3> QED BY <3>2, <3>3 DEF w
  <2> HIDE DEF m
  <2>6. ASSUME NEW s \in Square
        PROVE  between(a, s, b) <=> s = m
    <3>1. PICK two \in 1 .. 7 : two = 2
      OBVIOUS
    <3>2. between(a, s, b) <=> \E j \in 1 .. (two - 1) : Steps(a, s, j, 0, step)
      BY <2>1, <3>1, BetweenSteps
    <3>3. 1 .. (two - 1) = {1}
      BY <3>1
    <3>4. between(a, s, b) <=> Steps(a, s, 1, 0, step)
      BY <3>2, <3>3
    <3>5. Steps(a, s, 1, 0, step) <=> Col(s) = Col(m) /\ Row(s) = Row(m)
      BY <1>1, <2>5 DEF Steps
    <3> QED BY <2>5, <3>4, <3>5, Apart
  <2>7. Clear(position, a, b) <=> position[m] = NULL
    BY <2>5, <2>6 DEF Clear
  <2> QED BY <2>3, <2>5, <2>7
<1>8. c \in ahead <=> \/ u = 0 /\ v = step /\ Free(position, b)
                      \/ u = 0 /\ v = 2 * step /\ ~hasMoved /\ Free(position, b) /\ Clear(position, a, b)
  <2>1. 1 * step = step
    OBVIOUS
  <2>2. CASE hasMoved
    <3>1. 1 .. last = {1}
      BY <2>2
    <3> HIDE DEF open, last, u, v, ahead
    <3> QED BY <1>5, <1>6, <2>1, <2>2, <3>1
  <2>3. CASE ~hasMoved
    <3>1. 1 .. last = {1, 2}
      BY <2>3
    <3> HIDE DEF open, last, u, v, ahead
    <3>2. c \in ahead <=> (open(1) /\ u = 0 /\ v = step) \/ (open(2) /\ u = 0 /\ v = 2 * step)
      BY <1>5, <2>1, <3>1
    <3> QED BY <1>6, <1>7, <2>3, <3>2
  <2> QED BY <2>2, <2>3
<1>9. side \cup ahead \in SUBSET (Near \X Near)
  <2>1. side \in SUBSET (Near \X Near)
    <3>1. x \in 0 .. 7 /\ y \in 0 .. 7
      BY Coordinates
    <3> HIDE DEF x, y
    <3>2. {x - 1, x + 1} \X {y + step} \in SUBSET (Near \X Near)
      BY <3>1 DEF Near
    <3> QED BY <3>2
  <2>2. ahead \in SUBSET (Near \X Near)
    <3> HIDE DEF open, x, y
    <3>1. last \in {1, 2}
      OBVIOUS
    <3>2. x \in 0 .. 7 /\ y \in 0 .. 7
      BY Coordinates DEF x, y
    <3>3. ASSUME NEW i \in 1 .. last PROVE <<x, y + i * step>> \in Near \X Near
      <4>1. i \in {1, 2}
        BY <3>1
      <4>2. i * step \in {-2, -1, 1, 2}
        BY <4>1
      <4> QED BY <3>2, <4>2 DEF Near
    <3> HIDE DEF last
    <3> QED BY <3>3
  <2> QED BY <2>1, <2>2
<1>10. c \in pawnTargets(position, hasMoved, x, y, step, prey) <=> c \in side \/ c \in ahead
  BY <1>2
<1> HIDE DEF side, ahead
<1> QED BY <1>2, <1>4, <1>8, <1>9, <1>10

----------------------------------------------------------------------------------
(* The moves of the program are the moves of chess *)

\* A piece of kind k that is white or not goes from a to b, as ChessMove has it.
Pattern(position, hasMoved, k, forward, id, a, b) ==
  \/ k = 0 /\ Dx(a, b) = 0 /\ Dy(a, b) = forward /\ Free(position, b)
  \/ k = 0 /\ Dx(a, b) = 0 /\ Dy(a, b) = 2 * forward /\ Free(position, b) /\ Clear(position, a, b) /\ ~hasMoved
  \/ k = 0 /\ abs(Dx(a, b)) = 1 /\ Dy(a, b) = forward /\ Enemy(position, id, b)
  \/ k = 1 /\ {abs(Dx(a, b)), abs(Dy(a, b))} = {1, 2}
  \/ k = 2 /\ abs(Dx(a, b)) = abs(Dy(a, b)) /\ Clear(position, a, b)
  \/ k = 3 /\ (Dx(a, b) = 0 \/ Dy(a, b) = 0) /\ Clear(position, a, b)
  \/ k = 4 /\ (Dx(a, b) = 0 \/ Dy(a, b) = 0 \/ abs(Dx(a, b)) = abs(Dy(a, b))) /\ Clear(position, a, b)
  \/ k = 5 /\ abs(Dx(a, b)) <= 1 /\ abs(Dy(a, b)) <= 1

LEMMA ChessMovePattern ==
  ASSUME NEW position, NEW hasMoved, NEW id, NEW a, NEW b
  PROVE  ChessMove(position, hasMoved, id, a, b)
           <=> /\ a # b
               /\ Free(position, b) \/ Enemy(position, id, b)
               /\ Pattern(position, hasMoved, kind(id), IF isWhite(id) THEN -1 ELSE 1, id, a, b)
BY DEF ChessMove, Pattern, Dx, Dy, Free, Enemy, Clear,
       b_pawn, b_knight, b_bishop, b_rook, b_queen, b_king

\* The squares possiblePosition paints, piece by piece.
Paints(position, hasMoved, id, a, S) ==
  possiblePosition(position, hasMoved, id, Col(a), Row(a)) = paint(S)

LEMMA Lit ==
  ASSUME NEW position \in Position, NEW hasMoved \in BOOLEAN, NEW id \in Ids, NEW a \in Square
  PROVE  /\ type[id] = 0 => Paints(position, hasMoved, id, a, pawnTargets(position, hasMoved, Col(a), Row(a), 1, b_king .. w_king))
         /\ type[id] = 6 => Paints(position, hasMoved, id, a, pawnTargets(position, hasMoved, Col(a), Row(a), -1, b_pawn .. b_queen))
         /\ type[id] \in {1, 7} => Paints(position, hasMoved, id, a, knightHops(Col(a), Row(a)))
         /\ type[id] \in {2, 8} => Paints(position, hasMoved, id, a, bishopRays(position, Col(a), Row(a)))
         /\ type[id] \in {3, 9} => Paints(position, hasMoved, id, a, rookRays(position, Col(a), Row(a)))
         /\ type[id] \in {4, 10} => Paints(position, hasMoved, id, a,
                                           bishopRays(position, Col(a), Row(a)) \cup rookRays(position, Col(a), Row(a)))
         /\ type[id] \in {5, 11} => Paints(position, hasMoved, id, a, kingSteps(Col(a), Row(a)))
<1> DEFINE P == pawnTargets(position, hasMoved, Col(a), Row(a), 1, b_king .. w_king)
           Q == pawnTargets(position, hasMoved, Col(a), Row(a), -1, b_pawn .. b_queen)
           N == knightHops(Col(a), Row(a))
           B == bishopRays(position, Col(a), Row(a))
           R == rookRays(position, Col(a), Row(a))
           K == kingSteps(Col(a), Row(a))
           t == type[id]
<1>1. possiblePosition(position, hasMoved, id, Col(a), Row(a)) =
        paint(CASE t = 0 -> P [] t = 6 -> Q [] t \in {1, 7} -> N [] t \in {5, 11} -> K
                [] t \in {3, 9} -> R [] t \in {2, 8} -> B [] t \in {4, 10} -> B \cup R)
  BY DEF possiblePosition, b_pawn, b_knight, b_bishop, b_rook, b_queen, b_king,
         w_pawn, w_knight, w_bishop, w_rook, w_queen, w_king
<1> HIDE DEF P, Q, N, B, R, K, t
<1> DEFINE S == CASE t = 0 -> P [] t = 6 -> Q [] t \in {1, 7} -> N [] t \in {5, 11} -> K
                [] t \in {3, 9} -> R [] t \in {2, 8} -> B [] t \in {4, 10} -> B \cup R
<1>2. /\ t = 0 => S = P
      /\ t = 6 => S = Q
      /\ t \in {1, 7} => S = N
      /\ t \in {2, 8} => S = B
      /\ t \in {3, 9} => S = R
      /\ t \in {4, 10} => S = B \cup R
      /\ t \in {5, 11} => S = K
  OBVIOUS
<1>3. Paints(position, hasMoved, id, a, S)
  BY <1>1 DEF Paints
<1> HIDE DEF S
<1> QED BY <1>2, <1>3 DEF P, Q, N, B, R, K, t

\* On every position, whatever stands where: dropping the piece of a on b is accepted
\* just when it is a chess move, the capture of the black king by a white pawn excepted.
THEOREM MovesAgree ==
  ASSUME NEW position \in Position, NEW hasMoved \in BOOLEAN, NEW id \in Ids,
         NEW a \in Square, NEW b \in Square, position[a] = id
  PROVE  accepts(position, possiblePosition(position, hasMoved, id, Col(a), Row(a)), id, b)
           <=> /\ ChessMove(position, hasMoved, id, a, b)
               /\ ~(type[id] = w_pawn /\ position[b] # NULL /\ type[position[b]] = b_king)
<1> DEFINE lit == possiblePosition(position, hasMoved, id, Col(a), Row(a))
           c == <<Col(b), Row(b)>>
           t == type[id]
           land == Free(position, b) \/ Enemy(position, id, b)
           spare == type[id] = w_pawn /\ position[b] # NULL /\ type[position[b]] = b_king
           Pat(k, f) == Pattern(position, hasMoved, k, f, id, a, b)
<1>1. accepts(position, lit, id, b) <=> b \in lit /\ land
  BY Landing
<1>2. CASE a = b
  <2>1. ~Free(position, b)
    BY <1>2 DEF Free, Ids, NULL
  <2>2. ~Enemy(position, id, b)
    BY <1>2 DEF Enemy
  <2>3. ~ChessMove(position, hasMoved, id, a, b)
    BY <1>2, ChessMovePattern
  <2> QED BY <1>1, <2>1, <2>2, <2>3
<1>3. CASE a # b
  <2>1. ChessMove(position, hasMoved, id, a, b)
          <=> land /\ Pat(kind(id), IF isWhite(id) THEN -1 ELSE 1)
    BY <1>3, ChessMovePattern
  <2>2. t \in 0 .. 11
    BY Types
  <2>3. /\ isWhite(id) <=> t > 5
        /\ kind(id) = 0 <=> t \in {0, 6}
        /\ kind(id) = 1 <=> t \in {1, 7}
        /\ kind(id) = 2 <=> t \in {2, 8}
        /\ kind(id) = 3 <=> t \in {3, 9}
        /\ kind(id) = 4 <=> t \in {4, 10}
        /\ kind(id) = 5 <=> t \in {5, 11}
    BY Kinds DEF b_pawn, b_knight, b_bishop, b_rook, b_queen, b_king,
                 w_pawn, w_knight, w_bishop, w_rook, w_queen, w_king
  <2>4. spare => t = 6
    BY DEF w_pawn
  <2>5. Col(a) \in 0 .. 7 /\ Row(a) \in 0 .. 7
    BY Coordinates
  <2>6. ASSUME NEW S \in SUBSET (Near \X Near), lit = paint(S)
        PROVE  b \in lit <=> c \in S
    BY <2>6, Painted
  <2> HIDE DEF lit, c, t, spare, Pat, land
  <2> SUFFICES land => (b \in lit <=> Pat(kind(id), IF isWhite(id) THEN -1 ELSE 1) /\ ~spare)
    BY <1>1, <2>1 DEF lit, spare
  <2>7. CASE t \in {1, 7}
    <3>1. lit = paint(knightHops(Col(a), Row(a)))
      BY <2>7, Lit DEF lit, t, Paints
    <3>2. b \in lit <=> {abs(Dx(a, b)), abs(Dy(a, b))} = {1, 2}
      BY <2>6, <3>1, KnightReaches DEF c
    <3>3. kind(id) = 1 /\ ~spare
      BY <2>3, <2>4, <2>7
    <3> QED BY <3>2, <3>3 DEF Pat, Pattern
  <2>8. CASE t \in {5, 11}
    <3>1. lit = paint(kingSteps(Col(a), Row(a)))
      BY <2>8, Lit DEF lit, t, Paints
    <3>2. b \in lit <=> abs(Dx(a, b)) <= 1 /\ abs(Dy(a, b)) <= 1
      BY <1>3, <2>6, <3>1, KingReaches DEF c
    <3>3. kind(id) = 5 /\ ~spare
      BY <2>3, <2>4, <2>8
    <3> QED BY <3>2, <3>3 DEF Pat, Pattern
  <2>9. /\ c \in rookRays(position, Col(a), Row(a))
             <=> (Dx(a, b) = 0 \/ Dy(a, b) = 0) /\ Clear(position, a, b)
        /\ c \in bishopRays(position, Col(a), Row(a))
             <=> abs(Dx(a, b)) = abs(Dy(a, b)) /\ Clear(position, a, b)
    BY <1>3, RookReaches, BishopReaches DEF c, Dx, Dy
  <2>10. CASE t \in {3, 9}
    <3>1. lit = paint(rookRays(position, Col(a), Row(a)))
      BY <2>10, Lit DEF lit, t, Paints
    <3>2. b \in lit <=> c \in rookRays(position, Col(a), Row(a))
      BY <2>5, <2>6, <3>1, RaysOfPairs
    <3>3. kind(id) = 3 /\ ~spare
      BY <2>3, <2>4, <2>10
    <3> QED BY <2>9, <3>2, <3>3 DEF Pat, Pattern
  <2>11. CASE t \in {2, 8}
    <3>1. lit = paint(bishopRays(position, Col(a), Row(a)))
      BY <2>11, Lit DEF lit, t, Paints
    <3>2. b \in lit <=> c \in bishopRays(position, Col(a), Row(a))
      BY <2>5, <2>6, <3>1, RaysOfPairs
    <3>3. kind(id) = 2 /\ ~spare
      BY <2>3, <2>4, <2>11
    <3> QED BY <2>9, <3>2, <3>3 DEF Pat, Pattern
  <2>12. CASE t \in {4, 10}
    <3> DEFINE S == bishopRays(position, Col(a), Row(a)) \cup rookRays(position, Col(a), Row(a))
    <3>1. lit = paint(S)
      BY <2>12, Lit DEF lit, t, Paints
    <3>2. S \in SUBSET (Near \X Near)
      BY <2>5, RaysOfPairs
    <3>3. b \in lit <=> c \in S
      <4> HIDE DEF S
      <4> QED BY <2>6, <3>1, <3>2
    <3>4. kind(id) = 4 /\ ~spare
      BY <2>3, <2>4, <2>12
    <3> QED BY <2>9, <3>3, <3>4 DEF Pat, Pattern
  <2>13. ASSUME ~Free(position, b)
         PROVE  /\ position[b] \in Ids /\ type[position[b]] \in 0 .. 11
                /\ isWhite(position[b]) <=> type[position[b]] > 5
    <3>1. position[b] \in Ids
      BY <2>13 DEF Free, Position
    <3> QED BY <3>1, Types, Kinds DEF b_king
  <2>14. CASE t = 0
    <3>1. lit = paint(pawnTargets(position, hasMoved, Col(a), Row(a), 1, b_king .. w_king))
      BY <2>14, Lit DEF lit, t, Paints
    <3>2. PICK one \in {-1, 1} : one = 1
      OBVIOUS
    <3> DEFINE prey == b_king .. w_king
               S == pawnTargets(position, hasMoved, Col(a), Row(a), one, prey)
    <3>3. lit = paint(S) /\ prey \in SUBSET Int
      BY <3>1, <3>2 DEF b_pawn, b_king, b_queen, w_king
    <3> HIDE DEF prey
    <3>4. b \in lit
            <=> \/ /\ abs(Dx(a, b)) = 1 /\ Dy(a, b) = one
                   /\ ~Free(position, b) /\ type[position[b]] \in prey
                \/ Dx(a, b) = 0 /\ Dy(a, b) = one /\ Free(position, b)
                \/ /\ Dx(a, b) = 0 /\ Dy(a, b) = 2 * one /\ ~hasMoved
                   /\ Free(position, b) /\ Clear(position, a, b)
      <4>1. /\ c \in S
                 <=> \/ /\ abs(Dx(a, b)) = 1 /\ Dy(a, b) = one
                        /\ ~Free(position, b) /\ type[position[b]] \in prey
                     \/ Dx(a, b) = 0 /\ Dy(a, b) = one /\ Free(position, b)
                     \/ /\ Dx(a, b) = 0 /\ Dy(a, b) = 2 * one /\ ~hasMoved
                        /\ Free(position, b) /\ Clear(position, a, b)
            /\ S \in SUBSET (Near \X Near)
        BY <3>2, <3>3, PawnReaches DEF c
      <4> HIDE DEF S
      <4> QED BY <2>6, <3>3, <4>1
    <3>5. kind(id) = 0 /\ ~spare /\ ~isWhite(id)
      BY <2>3, <2>4, <2>14
    <3>6. land => (~Free(position, b) /\ type[position[b]] \in prey
                     <=> Enemy(position, id, b))
      <4>1. CASE Free(position, b)
        BY <4>1 DEF Free, Enemy
      <4>2. CASE ~Free(position, b)
        <5>1. land => Enemy(position, id, b)
          BY <4>2 DEF land
        <5>2. Enemy(position, id, b) => type[position[b]] > 5
          <6>1. isWhite(position[b]) \in BOOLEAN /\ isWhite(id) \in BOOLEAN
            BY DEF isWhite
          <6> QED BY <2>13, <3>5, <4>2, <6>1, Zenon DEF Enemy
        <5>3. Enemy(position, id, b) => type[position[b]] \in prey
          BY <2>13, <4>2, <5>2 DEF prey, b_king, w_king
        <5> QED BY <4>2, <5>1, <5>3
      <4> QED BY <4>1, <4>2
    <3>7. (IF isWhite(id) THEN -1 ELSE 1) = one
      BY <3>2, <3>5
    <3>8. Pat(kind(id), one) <=>
            \/ abs(Dx(a, b)) = 1 /\ Dy(a, b) = one /\ Enemy(position, id, b)
            \/ Dx(a, b) = 0 /\ Dy(a, b) = one /\ Free(position, b)
            \/ /\ Dx(a, b) = 0 /\ Dy(a, b) = 2 * one /\ ~hasMoved
               /\ Free(position, b) /\ Clear(position, a, b)
      BY <3>5 DEF Pat, Pattern
    <3>9. land => (b \in lit <=> Pat(kind(id), one))
      BY <3>4, <3>6, <3>8, Zenon
    <3> QED BY <3>5, <3>7, <3>9
  <2>15. CASE t = 6
    <3>1. lit = paint(pawnTargets(position, hasMoved, Col(a), Row(a), -1, b_pawn .. b_queen))
      BY <2>15, Lit DEF lit, t, Paints
    <3>2. PICK one \in {-1, 1} : one = -1
      OBVIOUS
    <3> DEFINE prey == b_pawn .. b_queen
               S == pawnTargets(position, hasMoved, Col(a), Row(a), one, prey)
    <3>3. lit = paint(S) /\ prey \in SUBSET Int
      BY <3>1, <3>2 DEF b_pawn, b_king, b_queen, w_king
    <3> HIDE DEF prey
    <3>4. b \in lit
            <=> \/ /\ abs(Dx(a, b)) = 1 /\ Dy(a, b) = one
                   /\ ~Free(position, b) /\ type[position[b]] \in prey
                \/ Dx(a, b) = 0 /\ Dy(a, b) = one /\ Free(position, b)
                \/ /\ Dx(a, b) = 0 /\ Dy(a, b) = 2 * one /\ ~hasMoved
                   /\ Free(position, b) /\ Clear(position, a, b)
      <4>1. /\ c \in S
                 <=> \/ /\ abs(Dx(a, b)) = 1 /\ Dy(a, b) = one
                        /\ ~Free(position, b) /\ type[position[b]] \in prey
                     \/ Dx(a, b) = 0 /\ Dy(a, b) = one /\ Free(position, b)
                     \/ /\ Dx(a, b) = 0 /\ Dy(a, b) = 2 * one /\ ~hasMoved
                        /\ Free(position, b) /\ Clear(position, a, b)
            /\ S \in SUBSET (Near \X Near)
        BY <3>2, <3>3, PawnReaches DEF c
      <4> HIDE DEF S
      <4> QED BY <2>6, <3>3, <4>1
    <3>5. kind(id) = 0 /\ isWhite(id)
      BY <2>3, <2>15
    <3>6. ~Free(position, b) /\ type[position[b]] \in prey
            <=> Enemy(position, id, b) /\ ~spare
      <4>1. CASE Free(position, b)
        BY <4>1 DEF Free, Enemy
      <4>2. CASE ~Free(position, b)
        <5>1. Enemy(position, id, b) <=> ~(type[position[b]] > 5)
          <6>1. isWhite(position[b]) \in BOOLEAN /\ isWhite(id) \in BOOLEAN
            BY DEF isWhite
          <6> QED BY <2>13, <3>5, <4>2, <6>1, Zenon DEF Enemy, Free
        <5>2. spare <=> type[position[b]] = 5
          BY <2>15, <4>2 DEF spare, Free, t, w_pawn, b_king
        <5> QED BY <2>13, <4>2, <5>1, <5>2 DEF prey, b_pawn, b_queen
      <4> QED BY <4>1, <4>2
    <3>7. (IF isWhite(id) THEN -1 ELSE 1) = one
      BY <3>2, <3>5
    <3>8. Pat(kind(id), one) <=>
            \/ abs(Dx(a, b)) = 1 /\ Dy(a, b) = one /\ Enemy(position, id, b)
            \/ Dx(a, b) = 0 /\ Dy(a, b) = one /\ Free(position, b)
            \/ /\ Dx(a, b) = 0 /\ Dy(a, b) = 2 * one /\ ~hasMoved
               /\ Free(position, b) /\ Clear(position, a, b)
      BY <3>5 DEF Pat, Pattern
    <3>9. Free(position, b) => ~spare
      BY DEF Free, spare
    <3>10. b \in lit <=> Pat(kind(id), one) /\ ~spare
      BY <3>4, <3>6, <3>8, <3>9, Zenon
    <3> QED BY <3>7, <3>10
  <2> QED BY <2>2, <2>7, <2>8, <2>10, <2>11, <2>12, <2>14, <2>15
<1> QED BY <1>2, <1>3

----------------------------------------------------------------------------------
(* The specification of MCBoard *)

LEMMA PutKeepsPosition ==
  ASSUME board \in Position, NEW id \in Ids, NEW s \in Square, put(id, s)
  PROVE  board' \in Position
BY DEF put, Position

LEMMA PositionHolds == Spec => [](board \in Position)
<1>1. Init => board \in Position
  BY DEF Init, Position
<1>2. board \in Position /\ [Next]_<<board, moved>> => (board \in Position)'
  <2> SUFFICES ASSUME board \in Position, [Next]_<<board, moved>>
               PROVE  board' \in Position
    OBVIOUS
  <2>1. ASSUME NEW id \in Movers, NEW s \in MoverSquares, NEW hasMoved \in BOOLEAN, PutMover(id, s, hasMoved)
        PROVE  board' \in Position
    BY <2>1, PositionsAssumption, PutKeepsPosition DEF PutMover
  <2>2. ASSUME NEW id \in Blockers, NEW s \in Square, PutBlocker(id, s)
        PROVE  board' \in Position
    BY <2>2, PositionsAssumption, PutKeepsPosition DEF PutBlocker
  <2>3. CASE UNCHANGED <<board, moved>>
    BY <2>3
  <2> QED BY <2>1, <2>2, <2>3 DEF Next
<1> QED BY <1>1, <1>2, PTL DEF Spec

\* On every position and for every piece of it, the accepted squares are the legal
\* ones without the spared ones.
LEMMA AcceptedIsLegal ==
  ASSUME board \in Position, NEW a \in held, NEW b \in Square
  PROVE  b \in accepted(a) <=> b \in legal(a) /\ b \notin spared(a)
<1> DEFINE id == board[a]
           m == id \in moved
           lit == possiblePosition(board, m, id, Col(a), Row(a))
<1>1. a \in Square /\ id \in Ids /\ m \in BOOLEAN
  BY DEF held, Position
<1>2. b \in accepted(a) <=> accepts(board, lit, id, b)
  BY DEF accepted
<1>3. b \in legal(a) <=> ChessMove(board, m, id, a, b)
  BY DEF legal
<1>4. b \in spared(a) <=> type[id] = w_pawn /\ board[b] # NULL /\ type[board[b]] = b_king
  BY DEF spared, held
<1>5. PICK q \in Position, n \in BOOLEAN, i \in Ids : q = board /\ n = m /\ i = id
  BY <1>1
<1>6. accepts(q, possiblePosition(q, n, i, Col(a), Row(a)), i, b)
        <=> ChessMove(q, n, i, a, b) /\ ~(type[i] = w_pawn /\ q[b] # NULL /\ type[q[b]] = b_king)
  BY <1>1, <1>5, MovesAgree
<1> QED BY <1>2, <1>3, <1>4, <1>5, <1>6

\* AcceptedMovesAreChess: a drop that playing_ih accepts is a chess move, in every
\* position, with any number of pieces on any squares.
THEOREM AcceptedAreChess == Spec => []AcceptedMovesAreChess
<1>1. board \in Position => AcceptedMovesAreChess
  <2> SUFFICES ASSUME board \in Position, NEW a \in held, NEW b \in accepted(a)
               PROVE  b \in legal(a)
    BY DEF AcceptedMovesAreChess
  <2>1. b \in Square
    BY DEF accepted
  <2> QED BY <2>1, AcceptedIsLegal
<1> QED BY <1>1, PositionHolds, PTL

\* ChessMovesAreAccepted: possiblePosition paints every chess move, in every position,
\* but the capture of the black king by a white pawn.
THEOREM ChessAreAccepted == Spec => []ChessMovesAreAccepted
<1>1. board \in Position => ChessMovesAreAccepted
  <2> SUFFICES ASSUME board \in Position, NEW a \in held, NEW b \in legal(a) \ spared(a)
               PROVE  b \in accepted(a)
    BY DEF ChessMovesAreAccepted
  <2>1. b \in Square
    BY DEF legal
  <2> QED BY <2>1, AcceptedIsLegal
<1> QED BY <1>1, PositionHolds, PTL
==================================================================================
