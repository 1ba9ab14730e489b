---------------------------- MODULE ProtocolTheorems -----------------------------
(* The invariant of Protocol holds of every behaviour of Chess, and with it the   *)
(* safety properties of the two machines.                                         *)
EXTENDS ProtocolProofs, FiniteSetTheorems

----------------------------------------------------------------------------------
(* The invariant seen from machine p *)

LEMMA Peers ==
  ASSUME NEW p \in Peer
  PROVE  /\ Other(p) \in Peer /\ Other(p) # p /\ Other(Other(p)) = p
         /\ Peer = {p, Other(p)}
BY DEF Peer, Other

View(v, h, p) ==
  LET s == v[p]
      o == v[Other(p)]
  IN  /\ Local(s) /\ Local(o)
      /\ \/ h.choosers = {} /\ ~h.flushed /\ Begun(s, o)
         \/ h.choosers = {p} /\ Chose(s, o, h.flushed, ~h.corner)
         \/ h.choosers = {Other(p)} /\ Waits(s, o, h.flushed, ~h.corner)

\* The invariant of the two machines of any state, of the next one too.
Inv(v, h) ==
  h.choosers = Peer \/
    /\ \A p \in Peer : Local(v[p])
    /\ \/ /\ h.choosers = {} /\ ~h.flushed
          /\ Begun(v[1], v[2])
       \/ \E p \in Peer : h.choosers = {p} /\ Chose(v[p], v[Other(p)], h.flushed, ~h.corner)

LEMMA InvView ==
  ASSUME NEW v, NEW h, NEW p \in Peer
  PROVE  Inv(v, h) <=> h.choosers = Peer \/ View(v, h, p)
<1> DEFINE o == Other(p)
<1>1. o \in Peer /\ o # p /\ Other(o) = p /\ Peer = {p, o}
  BY Peers
<1>2. Begun(v[p], v[o]) <=> Begun(v[1], v[2])
  <2>1. CASE p = 1
    BY <2>1 DEF Other
  <2>2. CASE p = 2
    BY <2>2 DEF Other, Begun, Start
  <2> QED BY <2>1, <2>2 DEF Peer
<1>3. Waits(v[p], v[o], h.flushed, ~h.corner) <=> Chose(v[o], v[Other(o)], h.flushed, ~h.corner)
  BY <1>1 DEF Waits, Chose
<1> HIDE DEF o
<1>4. (\A r \in Peer : Local(v[r])) <=> Local(v[p]) /\ Local(v[o])
  BY <1>1
<1>5. (\E r \in Peer : h.choosers = {r} /\ Chose(v[r], v[Other(r)], h.flushed, ~h.corner))
        <=> \/ h.choosers = {p} /\ Chose(v[p], v[o], h.flushed, ~h.corner)
            \/ h.choosers = {o} /\ Waits(v[p], v[o], h.flushed, ~h.corner)
  BY <1>1, <1>3 DEF o
<1> QED BY <1>2, <1>4, <1>5 DEF Inv, View, o

LEMMA InvNow == ProtocolInv <=> Inv(vm, hist)
<1>1. \A p \in Peer : pipeline(p) = bytesTo(vm[p], vm[Other(p)])
  BY DEF pipeline, bytesTo
<1>2. pipeline(1) = bytesTo(vm[1], vm[2]) /\ pipeline(2) = bytesTo(vm[2], vm[1])
  BY <1>1 DEF Peer, Other
<1>3. \A p \in Peer : Shape(p) <=> Chose(vm[p], vm[Other(p)], hist.flushed, ~hist.corner)
  BY <1>1, Peers DEF Shape, Chose
<1>4. Start(vm[1], vm[2], pipeline(2), pipeline(1)) <=> Begun(vm[1], vm[2])
  BY <1>2 DEF Begun
<1> QED BY <1>3, <1>4 DEF ProtocolInv, Clash, Inv

LEMMA InvNext == ProtocolInv' <=> Inv(vm', hist')
<1>1. (ProtocolInv <=> Inv(vm, hist))'
  BY InvNow, PTL
<1> QED BY <1>1

\* A machine that was not asked for the colours does not show the screen that asks.
LEMMA Asked ==
  ASSUME NEW s, NEW o, NEW flushed, NEW ok
  PROVE  /\ Begun(s, o) => s.gameState # "CHOOSING_PLAYER" /\ o.gameState # "CHOOSING_PLAYER"
         /\ Chose(s, o, flushed, ok) => o.gameState # "CHOOSING_PLAYER"
         /\ Waits(s, o, flushed, ok) => s.gameState # "CHOOSING_PLAYER"
<1>1. ASSUME NEW c, NEW w, NEW cw, NEW wc, After(c, w, cw, wc, flushed, ok)
      PROVE  w.gameState # "CHOOSING_PLAYER"
  BY <1>1 DEF After, Hand, Game, LooseHand, LooseGame
<1>2. Begun(s, o) => s.gameState # "CHOOSING_PLAYER" /\ o.gameState # "CHOOSING_PLAYER"
  BY DEF Begun, Start, Hello
<1> QED BY <1>1, <1>2 DEF Chose, Waits

\* The step from v to w, with the histories h and g, leads to a state of the invariant
\* again, seen from p.
Keeps(v, w, h, g, p) ==
  LET s == v[p]
      o == v[Other(p)]
      t == w[p]
      r == w[Other(p)]
  IN  /\ Local(t) /\ Local(r)
      /\ Begun(s, o) /\ ~h.flushed =>
           /\ ~g.flushed
           /\ Begun(t, r) \/ (t.gameState = "CHOOSING_PLAYER" /\ Chose(t, r, FALSE, ~g.corner))
      /\ Chose(s, o, h.flushed, ~h.corner) => Chose(t, r, g.flushed, ~g.corner)
      /\ Waits(s, o, h.flushed, ~h.corner) =>
           Waits(t, r, g.flushed, ~g.corner) \/ t.gameState = "CHOOSING_PLAYER"

LEMMA NextView ==
  ASSUME NEW v, NEW w, NEW h, NEW g, NEW p \in Peer, g.flushed \in BOOLEAN,
         g.choosers = h.choosers \cup {r \in Peer : w[r].gameState = "CHOOSING_PLAYER"},
         View(v, h, p), Keeps(v, w, h, g, p)
  PROVE  g.choosers = Peer \/ View(w, g, p)
<1> DEFINE o == Other(p)
           asks(r) == w[r].gameState = "CHOOSING_PLAYER"
<1>1. o \in Peer /\ o # p /\ Peer = {p, o}
  BY Peers
<1>2. /\ ~asks(p) /\ ~asks(o) => g.choosers = h.choosers
      /\ asks(p) /\ ~asks(o) => g.choosers = h.choosers \cup {p}
      /\ ~asks(p) /\ asks(o) => g.choosers = h.choosers \cup {o}
      /\ asks(p) /\ asks(o) => g.choosers = Peer
  <2> HIDE DEF o
  <2>1. g.choosers = h.choosers \cup {r \in {p, o} : asks(r)}
    BY <1>1
  <2> HIDE DEF asks
  <2>2. h.choosers \subseteq {p, o}
    BY <1>1 DEF View, o
  <2> QED BY <1>1, <2>1, <2>2
<1>3. CASE h.choosers = {} /\ ~h.flushed /\ Begun(v[p], v[o])
  <2>1. /\ ~g.flushed /\ Local(w[p]) /\ Local(w[o])
        /\ Begun(w[p], w[o]) \/ (asks(p) /\ Chose(w[p], w[o], FALSE, ~g.corner))
    BY <1>3 DEF Keeps
  <2>2. CASE Begun(w[p], w[o])
    <3>1. ~asks(p) /\ ~asks(o)
      BY <2>2, Asked
    <3> HIDE DEF asks
    <3> QED BY <1>2, <1>3, <2>1, <2>2, <3>1 DEF View
  <2>3. CASE asks(p) /\ Chose(w[p], w[o], FALSE, ~g.corner)
    <3>1. ~asks(o)
      BY <2>3, Asked
    <3>2. g.flushed = FALSE
      BY <2>1
    <3> HIDE DEF asks
    <3>3. g.choosers = {p}
      BY <1>2, <1>3, <2>3, <3>1
    <3> QED BY <2>1, <2>3, <3>2, <3>3 DEF View
  <2> QED BY <2>1, <2>2, <2>3
<1>4. CASE h.choosers = {p} /\ Chose(v[p], v[o], h.flushed, ~h.corner)
  <2>1. Local(w[p]) /\ Local(w[o]) /\ Chose(w[p], w[o], g.flushed, ~g.corner)
    BY <1>4 DEF Keeps
  <2>2. ~asks(o)
    BY <2>1, Asked
  <2> HIDE DEF asks
  <2>3. g.choosers = {p}
    BY <1>2, <1>4, <2>2
  <2> QED BY <2>1, <2>3 DEF View
<1>5. CASE h.choosers = {o} /\ Waits(v[p], v[o], h.flushed, ~h.corner)
  <2>1. Local(w[p]) /\ Local(w[o]) /\ (Waits(w[p], w[o], g.flushed, ~g.corner) \/ asks(p))
    BY <1>5 DEF Keeps
  <2>2. CASE asks(p)
    <3> HIDE DEF asks
    <3> QED BY <1>1, <1>2, <1>5, <2>2
  <2>3. CASE ~asks(p) /\ Waits(w[p], w[o], g.flushed, ~g.corner)
    <3> HIDE DEF asks
    <3>1. g.choosers = {o}
      BY <1>2, <1>5, <2>3
    <3> QED BY <2>1, <2>3, <3>1 DEF View
  <2> QED BY <2>1, <2>2, <2>3
<1> QED BY <1>3, <1>4, <1>5 DEF View

\* A corner move that is recorded only makes the invariant say less.
LEMMA LessSaid ==
  ASSUME NEW s, NEW o, NEW flushed, NEW ok, NEW less, less => ok
  PROVE  /\ Chose(s, o, flushed, ok) => Chose(s, o, flushed, less)
         /\ Waits(s, o, flushed, ok) => Waits(s, o, flushed, less)
<1> DEFINE so == bytesTo(o, s)
           os == bytesTo(s, o)
<1>1. /\ After(s, o, so, os, flushed, ok) => After(s, o, so, os, flushed, less)
      /\ After(o, s, os, so, flushed, ok) => After(o, s, os, so, flushed, less)
  <2> HIDE DEF so, os
  <2> QED BY LessOk
<1> QED BY <1>1 DEF Chose, Waits

----------------------------------------------------------------------------------
(* The actions *)

\* What Record writes.
LEMMA Recorded ==
  ASSUME TypeOK, NEW flushes \in BOOLEAN, Record(flushes), NEW p \in Peer
  PROVE  /\ hist'.choosers = hist.choosers \cup {r \in Peer : vm'[r].gameState = "CHOOSING_PLAYER"}
         /\ hist'.flushed = (hist.flushed \/ flushes)
         /\ hist'.flushed \in BOOLEAN
         /\ ~hist'.corner => ~hist.corner /\ Clean(vm'[p].txq)
         /\ hist.flushed \in BOOLEAN /\ hist.corner \in BOOLEAN
         /\ hist.choosers \subseteq Peer
BY DEF TypeOK, Record, Clean

LEMMA StepKeeps ==
  ASSUME TypeOK, ProtocolInv, NEW flushes \in BOOLEAN, Record(flushes), NEW p \in Peer,
         ~Clash /\ View(vm, hist, p) => Keeps(vm, vm', hist, hist', p)
  PROVE  ProtocolInv'
<1>1. /\ hist'.choosers = hist.choosers \cup {r \in Peer : vm'[r].gameState = "CHOOSING_PLAYER"}
      /\ hist'.flushed \in BOOLEAN
  BY Recorded
<1>2. CASE Clash
  <2>1. hist'.choosers = Peer
    BY <1>1, <1>2 DEF Clash
  <2> QED BY <2>1, InvNext DEF Inv
<1>3. CASE ~Clash
  <2>1. View(vm, hist, p)
    BY <1>3, InvNow, InvView DEF Clash
  <2>2. hist'.choosers = Peer \/ View(vm', hist', p)
    BY <1>1, <1>3, <2>1, NextView
  <2> QED BY <2>2, InvNext, InvView
<1> QED BY <1>2, <1>3

LEMMA ViewJoint ==
  ASSUME NEW v, NEW h, NEW p, View(v, h, p)
  PROVE  /\ Joint(v[p], v[Other(p)], h.flushed, ~h.corner)
         /\ Local(v[p]) /\ Local(v[Other(p)])
BY DEF View, Joint

\* The two machines before and after a step of p alone.
LEMMA OnlyOne ==
  ASSUME TypeOK, NEW p \in Peer, NEW t, vm' = [vm EXCEPT ![p] = t]
  PROVE  /\ vm[p] \in VM /\ vm[Other(p)] \in VM
         /\ vm'[p] = t /\ vm'[Other(p)] = vm[Other(p)]
BY Peers DEF TypeOK

LEMMA MainLoopInv ==
  ASSUME TypeOK, ProtocolInv, NEW p \in Peer, NEW irqs, NEW code, NEW spot, NEW lb \in BOOLEAN,
         MainLoop(p, irqs, code, spot, lb)
  PROVE  ProtocolInv'
<1> DEFINE s == vm[p]
           o == vm[Other(p)]
           t == iteration(s, irqs, code, spot, lb)
           ok == ~hist.corner
           less == ok /\ Clean(t.txq)
<1>1. /\ s \in VM /\ o \in VM /\ vm'[p] = t /\ vm'[Other(p)] = o
      /\ Record(FALSE) /\ s.phase = "run"
  BY OnlyOne DEF MainLoop, running
<1>2. /\ hist'.flushed = hist.flushed /\ hist.flushed \in BOOLEAN /\ ok \in BOOLEAN
      /\ ~hist'.corner => less
  BY <1>1, Recorded
<1>3. ASSUME View(vm, hist, p) PROVE Keeps(vm, vm', hist, hist', p)
  <2>1. Joint(s, o, hist.flushed, ok) /\ Local(s) /\ Local(o)
    BY <1>3, ViewJoint
  <2>2. t \in VM /\ Local(t) /\ Moves(s, t, o, hist.flushed, ok, less)
    <3> HIDE DEF s, o, ok
    <3> QED BY <1>1, <1>2, <2>1, IterationStep
  <2> HIDE DEF t, less
  <2>3. /\ Begun(s, o) => \/ Begun(t, o)
                          \/ t.gameState = "CHOOSING_PLAYER" /\ Chose(t, o, FALSE, less)
        /\ Chose(s, o, hist.flushed, ok) => Chose(t, o, hist.flushed, less)
        /\ Waits(s, o, hist.flushed, ok) =>
             Waits(t, o, hist.flushed, less) \/ t.gameState = "CHOOSING_PLAYER"
    BY <2>2 DEF Moves
  <2>4. ASSUME NEW f
        PROVE  /\ Chose(t, o, f, less) => Chose(t, o, f, ~hist'.corner)
               /\ Waits(t, o, f, less) => Waits(t, o, f, ~hist'.corner)
    BY <1>2, LessSaid
  <2> QED BY <1>1, <1>2, <2>1, <2>2, <2>3, <2>4 DEF Keeps
<1> QED BY <1>1, <1>3, StepKeeps

LEMMA DeliverInv ==
  ASSUME TypeOK, ProtocolInv, NEW p \in Peer, Deliver(p)
  PROVE  ProtocolInv'
<1> DEFINE s == vm[p]
           o == vm[Other(p)]
           t == [s EXCEPT !.thr = << >>]
           r == received(o, Head(s.thr))
           ok == ~hist.corner
<1>1. s \in VM /\ o \in VM /\ Record(FALSE) /\ s.thr # << >>
  BY Peers DEF TypeOK, Deliver
<1>2. vm'[p] = t /\ vm'[Other(p)] = r
  BY Peers DEF TypeOK, Deliver
<1>3. /\ hist'.flushed = hist.flushed /\ hist.flushed \in BOOLEAN
      /\ ~hist'.corner => ok
  BY <1>1, Recorded
<1>4. ASSUME View(vm, hist, p) PROVE Keeps(vm, vm', hist, hist', p)
  <2>1. Joint(s, o, hist.flushed, ok) /\ Local(s) /\ Local(o)
    BY <1>4, ViewJoint
  <2>2. /\ Local(t) /\ Local(r)
        /\ Begun(s, o) => Begun(t, r)
        /\ Chose(s, o, hist.flushed, ok) => Chose(t, r, hist.flushed, ok)
        /\ Waits(s, o, hist.flushed, ok) => Waits(t, r, hist.flushed, ok)
    <3> HIDE DEF s, o, ok
    <3> QED BY <1>1, <2>1, DeliverStep
  <2> HIDE DEF t, r
  <2>3. /\ Chose(t, r, hist.flushed, ok) => Chose(t, r, hist.flushed, ~hist'.corner)
        /\ Waits(t, r, hist.flushed, ok) => Waits(t, r, hist.flushed, ~hist'.corner)
    BY <1>3, LessSaid
  <2> QED BY <1>2, <1>3, <2>2, <2>3 DEF Keeps
<1> QED BY <1>1, <1>4, StepKeeps

LEMMA LeaveLoopInv ==
  ASSUME TypeOK, ProtocolInv, NEW p \in Peer, NEW sent \in BOOLEAN, LeaveLoop(p, sent)
  PROVE  ProtocolInv'
<1> DEFINE s == vm[p]
           o == vm[Other(p)]
           t == IF s.won /\ queueIsEmpty(s.txq)
                THEN [s EXCEPT !.phase = "spin"]
                ELSE [sp_clear(sp_configure_end(s, sent)) EXCEPT !.phase = "closing"]
           ok == ~hist.corner
           after == hist.flushed \/ t.thr # s.thr
<1>1. /\ s \in VM /\ o \in VM /\ vm'[p] = t /\ vm'[Other(p)] = o
      /\ Record(t.thr # s.thr) /\ s.phase = "run" /\ s.gameState = "EXIT"
  <2>1. vm' = [vm EXCEPT ![p] = t] /\ Record(vm'[p].thr # s.thr)
        /\ s.phase = "run" /\ s.gameState = "EXIT"
    BY DEF LeaveLoop, running
  <2> HIDE DEF t
  <2>2. vm'[p] = t
    BY <2>1, OnlyOne
  <2> QED BY <2>1, <2>2, OnlyOne
<1> HIDE DEF t
<1>2. /\ hist'.flushed = after /\ hist.flushed \in BOOLEAN
      /\ ~hist'.corner => ok
  BY <1>1, Recorded
<1>3. ASSUME View(vm, hist, p) PROVE Keeps(vm, vm', hist, hist', p)
  <2>1. Joint(s, o, hist.flushed, ok) /\ Local(s) /\ Local(o)
    BY <1>3, ViewJoint
  <2>2. /\ t \in VM /\ Local(t) /\ ~Begun(s, o)
        /\ Chose(s, o, hist.flushed, ok) => Chose(t, o, after, ok)
        /\ Waits(s, o, hist.flushed, ok) => Waits(t, o, after, ok)
    <3> HIDE DEF s, o, ok
    <3> QED BY <1>1, <1>2, <2>1, LeaveStep DEF t
  <2> HIDE DEF after
  <2>3. /\ Chose(t, o, after, ok) => Chose(t, o, after, ~hist'.corner)
        /\ Waits(t, o, after, ok) => Waits(t, o, after, ~hist'.corner)
    BY <1>2, LessSaid
  <2> QED BY <1>1, <1>2, <2>1, <2>2, <2>3 DEF Keeps
<1> QED BY <1>1, <1>3, StepKeeps

LEMMA CloseInv ==
  ASSUME TypeOK, ProtocolInv, NEW p \in Peer, Close(p)
  PROVE  ProtocolInv'
<1> DEFINE s == vm[p]
           o == vm[Other(p)]
           t == IF queueIsEmpty(s.txq) THEN [s EXCEPT !.phase = "done"] ELSE sp_write(s)
           ok == ~hist.corner
<1>1. /\ s \in VM /\ o \in VM /\ vm'[p] = t /\ vm'[Other(p)] = o
      /\ Record(FALSE) /\ s.phase = "closing"
  BY OnlyOne DEF Close
<1>2. /\ hist'.flushed = hist.flushed /\ hist.flushed \in BOOLEAN
      /\ ~hist'.corner => ok
  BY <1>1, Recorded
<1>3. ASSUME View(vm, hist, p) PROVE Keeps(vm, vm', hist, hist', p)
  <2>1. Local(s) /\ Local(o)
    BY <1>3, ViewJoint
  <2>2. Local(t) /\ Stays(s, t, o, hist.flushed, ok, ok)
    <3> HIDE DEF s, o, ok
    <3> QED BY <1>1, <2>1, CloseStep
  <2> HIDE DEF t
  <2>3. /\ Chose(t, o, hist.flushed, ok) => Chose(t, o, hist.flushed, ~hist'.corner)
        /\ Waits(t, o, hist.flushed, ok) => Waits(t, o, hist.flushed, ~hist'.corner)
    BY <1>2, LessSaid
  <2> QED BY <1>1, <1>2, <2>1, <2>2, <2>3 DEF Keeps, Stays
<1> QED BY <1>1, <1>3, StepKeeps

----------------------------------------------------------------------------------

\* Two machines that show the menu.
LEMMA InitInv == Init => ProtocolInv
<1> SUFFICES ASSUME Init PROVE ProtocolInv
  OBVIOUS
<1>1. /\ vm[1] = started /\ vm[2] = started /\ \A p \in Peer : vm[p] = started
      /\ hist.choosers = {} /\ ~hist.flushed
  BY DEF Init, Peer
<1>2. Local(started)
  BY InitialBoard DEF Local, started
<1>3. bytesTo(started, started) = << >>
  BY DEF bytesTo, started
<1>4. Begun(started, started)
  BY <1>3 DEF Begun, Start, Hello, Quiet, started
<1> QED BY <1>1, <1>2, <1>4, InvNow DEF Inv

LEMMA NextInv == TypeOK /\ ProtocolInv /\ [Next]_vars => ProtocolInv'
<1> SUFFICES ASSUME TypeOK, ProtocolInv, [Next]_vars PROVE ProtocolInv'
  OBVIOUS
<1>1. CASE UNCHANGED vars
  <2>1. Inv(vm', hist') <=> Inv(vm, hist)
    BY <1>1 DEF vars
  <2> QED BY <2>1, InvNow, InvNext
<1>2. CASE Next
  BY <1>2, MainLoopInv, DeliverInv, LeaveLoopInv, CloseInv DEF Next
<1> QED BY <1>1, <1>2

\* The protocol, whatever the speed of the machines, the inputs of the users and the
\* sizes of the queues: unless the ENTER keys crossed, the machines and the bytes
\* between them are in one of the states of Protocol.
THEOREM ProtocolHolds == Spec => []ProtocolInv
BY InitType, NextType, InitInv, NextInv, PTL DEF Spec

----------------------------------------------------------------------------------
(* What follows for the two machines *)

LEMMA Seen ==
  ASSUME TypeOK, ProtocolInv, ~Clash, NEW p \in Peer
  PROVE  /\ vm[p] \in VM /\ vm[Other(p)] \in VM
         /\ Local(vm[p]) /\ Local(vm[Other(p)])
         /\ Joint(vm[p], vm[Other(p)], hist.flushed, ~hist.corner)
         /\ pipeline(p) = bytesTo(vm[p], vm[Other(p)])
         /\ pipeline(Other(p)) = bytesTo(vm[Other(p)], vm[p])
<1>1. View(vm, hist, p)
  BY InvNow, InvView DEF Clash
<1>2. vm[p] \in VM /\ vm[Other(p)] \in VM
  BY Peers DEF TypeOK
<1>3. /\ pipeline(p) = bytesTo(vm[p], vm[Other(p)])
      /\ pipeline(Other(p)) = bytesTo(vm[Other(p)], vm[p])
  BY Peers DEF pipeline, bytesTo
<1> QED BY <1>1, <1>2, <1>3, ViewJoint

\* addToTransmitQueue, sp_read and the UART never meet a full queue: at most seven
\* bytes are on their way to a machine, and every queue on the way holds eight.
THEOREM NoByteDropped == Spec => []NoByteIsDropped
<1>1. TypeOK /\ ProtocolInv => NoByteIsDropped
  <2> SUFFICES ASSUME TypeOK, ProtocolInv, ~Clash, NEW p \in Peer
               PROVE  Len(pipeline(p)) < QueueCapacity /\ Len(pipeline(p)) < FifoDepth
    BY DEF NoByteIsDropped
  <2>1. Len(pipeline(p)) <= 7 /\ pipeline(p) \in Seq(Bytes)
    BY Seen, JointBytes
  <2> QED BY <2>1, RoomAssumption, SerialAssumption
<1> QED BY <1>1, ChessTypeOK, ProtocolHolds, PTL

\* The piece on the cursor is where it was picked up, and belongs to the player whose
\* turn it is: no byte that arrives during a drag moves it or takes the turn away.
THEOREM DragStaysCurrent == Spec => []DragIsCurrent
<1>1. TypeOK /\ ProtocolInv => DragIsCurrent
  <2> SUFFICES ASSUME TypeOK, ProtocolInv, ~Clash, NEW p \in Peer, vm[p].dragging # NULL
               PROVE  vm[p].myTurn /\ vm[p].board[vm[p].from] = vm[p].dragging
    BY DEF DragIsCurrent
  <2> QED BY Seen DEF Local
<1> QED BY <1>1, ChessTypeOK, ProtocolHolds, PTL

\* Two machines in the game have left the handshake and dropped no byte: the state is
\* one of Game.
LEMMA BothPlay ==
  ASSUME NEW s, NEW o, NEW flushed, NEW ok, Joint(s, o, flushed, ok),
         s.phase = "run", s.gameState = "PLAYING", o.phase = "run", o.gameState = "PLAYING"
  PROVE  ~flushed /\ Game(s, o, bytesTo(o, s), bytesTo(s, o), ok)
<1> DEFINE so == bytesTo(o, s)
           os == bytesTo(s, o)
<1>1. ~Begun(s, o)
  BY DEF Begun, Start, Hello
<1>2. /\ ~Hand(s, o, so, os, ok) /\ ~Hand(o, s, os, so, ok)
      /\ ~LooseHand(s, o, so, os) /\ ~LooseHand(o, s, os, so)
      /\ ~LooseGame(s, o, so, os) /\ ~LooseGame(o, s, os, so)
  BY DEF Hand, LooseHand, LooseGame
<1>3. Game(o, s, os, so, ok) <=> Game(s, o, so, os, ok)
  <2> HIDE DEF so, os
  <2> QED BY Symmetric
<1> QED BY <1>1, <1>2, <1>3 DEF Joint, Chose, Waits, After

\* The players play different colours, whoever chose and whenever the other read it.
THEOREM ColoursDiffer == Spec => []OppositeColours
<1>1. TypeOK /\ ProtocolInv => OppositeColours
  <2> SUFFICES ASSUME TypeOK, ProtocolInv, ~Clash, playing(1), playing(2)
               PROVE  {vm[1].player, vm[2].player} = {BLACK, WHITE}
    BY DEF OppositeColours
  <2>1. 1 \in Peer /\ Other(1) = 2
    BY DEF Peer, Other
  <2>2. Joint(vm[1], vm[2], hist.flushed, ~hist.corner)
    BY <2>1, Seen
  <2>3. Game(vm[1], vm[2], bytesTo(vm[2], vm[1]), bytesTo(vm[1], vm[2]), ~hist.corner)
    BY <2>2, BothPlay DEF playing
  <2> QED BY <2>3 DEF Game
<1> QED BY <1>1, ChessTypeOK, ProtocolHolds, PTL

\* A player to move sees the board of the opponent.
THEOREM BoardsStayEqual == Spec => []BoardsAgree
<1>1. TypeOK /\ ProtocolInv => BoardsAgree
  <2> SUFFICES ASSUME TypeOK, ProtocolInv, ~Clash, ~hist.corner, NEW p \in Peer,
                      playing(1), playing(2), vm[p].myTurn
               PROVE  vm[1].board = vm[2].board
    BY DEF BoardsAgree
  <2> DEFINE o == Other(p)
  <2>1. o \in Peer /\ Peer = {p, o} /\ playing(p) /\ playing(o)
    BY Peers DEF Peer
  <2>2. Joint(vm[p], vm[o], hist.flushed, ~hist.corner)
    BY Seen
  <2>3. Game(vm[p], vm[o], bytesTo(vm[o], vm[p]), bytesTo(vm[p], vm[o]), ~hist.corner)
    BY <2>1, <2>2, BothPlay DEF playing
  <2>4. Sync(vm[p], vm[o])
    BY <2>3 DEF Game, Turn, Rest, Fly, Dead
  <2>5. vm[p].board = vm[o].board
    BY <2>4 DEF Sync
  <2> QED BY <2>5 DEF Peer, Other
<1> QED BY <1>1, ChessTypeOK, ProtocolHolds, PTL

\* What each machine knows of the end of the game, seen from both sides.
Verdict(s, o) ==
  /\ s.phase # "crashed" /\ o.phase # "crashed"
  /\ s.gameState = "EXIT" /\ ~s.won => o.endGame
  /\ o.gameState = "EXIT" /\ ~o.won => s.endGame
  /\ ~(s.won /\ o.won)

LEMMA VerdictKnown ==
  ASSUME NEW s, NEW o, Joint(s, o, FALSE, TRUE)
  PROVE  Verdict(s, o)
<1>1. ASSUME NEW a, NEW b, NEW ab, NEW ba, Start(a, b, ab, ba) PROVE Verdict(a, b)
  BY <1>1 DEF Start, Hello, Quiet, Verdict
<1>2. ASSUME NEW a, NEW b, Sync(a, b) PROVE Verdict(a, b)
  BY <1>2 DEF Sync, Quiet, Verdict
<1>3. ASSUME NEW a, NEW b, NEW x, NEW y, Behind(a, b, x, y) PROVE Verdict(a, b)
  BY <1>3 DEF Behind, Sender, Quiet, Verdict
<1>4. ASSUME NEW a, NEW b, Told(a, b) PROVE Verdict(a, b)
  BY <1>4 DEF Told, Sender, Verdict
<1>5. ASSUME NEW a, NEW b, NEW ab, NEW ba, Hand(a, b, ab, ba, TRUE) PROVE Verdict(a, b)
  BY <1>2, <1>3, <1>5 DEF Hand
<1>6. ASSUME NEW a, NEW b, NEW ab, NEW ba, Turn(a, b, ab, ba, TRUE) PROVE Verdict(a, b)
  <2>1. CASE Rest(a, b, ab, ba, TRUE)
    BY <1>2, <2>1 DEF Rest
  <2>2. CASE Fly(a, b, ab, ba, TRUE)
    <3>1. PICK lo \in 3 .. 6, x \in Position, y \in Position : Flight(a, b, lo, x, y)
      BY <2>2 DEF Fly
    <3>2. Behind(a, b, x, y) \/ Told(a, b)
      BY <3>1 DEF Flight
    <3> QED BY <1>3, <1>4, <3>2
  <2>3. CASE Dead(a, b, ab, ba, TRUE)
    BY <1>4, <2>3 DEF Dead
  <2> QED BY <1>6, <2>1, <2>2, <2>3 DEF Turn
<1>7. ASSUME NEW a, NEW b, Verdict(b, a) PROVE Verdict(a, b)
  BY <1>7 DEF Verdict
<1>8. ASSUME NEW a, NEW b, NEW ab, NEW ba, After(a, b, ab, ba, FALSE, TRUE) PROVE Verdict(a, b)
  BY <1>5, <1>6, <1>7, <1>8 DEF After, Game
<1> QED BY <1>1, <1>7, <1>8 DEF Joint, Begun, Chose, Waits

LEMMA VerdictNow ==
  ASSUME TypeOK, ProtocolInv, ~Clash, ~hist.corner, ~hist.flushed, NEW p \in Peer
  PROVE  Verdict(vm[p], vm[Other(p)])
<1>1. hist.flushed = FALSE /\ (~hist.corner) = TRUE
  BY DEF TypeOK
<1>2. Joint(vm[p], vm[Other(p)], FALSE, TRUE)
  BY <1>1, Seen
<1> QED BY <1>2, VerdictKnown

\* movePiece never gets a NULL piece from playing_ih: the square of a received move is
\* the one the peer moved from, and this board has the same piece there.
THEOREM NoNullDereference == Spec => []NoNullMove
<1>1. TypeOK /\ ProtocolInv => NoNullMove
  BY VerdictNow DEF NoNullMove, Verdict
<1> QED BY <1>1, ChessTypeOK, ProtocolHolds, PTL

\* "You lost!" is shown to a player whose king the peer took, and at most one of the
\* players is told "You won!".
THEOREM VerdictsStayEqual == Spec => []VerdictsAgree
<1>1. TypeOK /\ ProtocolInv => VerdictsAgree
  <2> SUFFICES ASSUME TypeOK, ProtocolInv, ~Clash, ~hist.corner, ~hist.flushed
               PROVE  /\ \A p \in Peer : lost(p) => vm[Other(p)].endGame
                      /\ ~(vm[1].won /\ vm[2].won)
    BY DEF VerdictsAgree
  <2>1. \A p \in Peer : lost(p) => vm[Other(p)].endGame
    BY VerdictNow DEF Verdict, lost
  <2>2. 1 \in Peer /\ Other(1) = 2
    BY DEF Peer, Other
  <2>3. Verdict(vm[1], vm[2])
    BY <2>2, VerdictNow
  <2> QED BY <2>1, <2>3 DEF Verdict
<1> QED BY <1>1, ChessTypeOK, ProtocolHolds, PTL

----------------------------------------------------------------------------------
(* The properties that count *)

\* The kings are the pieces that start on e8 and e1.
LEMMA Kings == \A id \in Ids : isKing(id) <=> id \in {4, 60}
<1> SUFFICES ASSUME NEW id \in Ids PROVE isKing(id) <=> id \in {4, 60}
  OBVIOUS
<1> USE DEF b_pawn, b_knight, b_bishop, b_rook, b_queen, b_king, w_pawn, w_king
<1>1. /\ \A x \in 0 .. 7 : backRank[x] \in 0 .. 5
      /\ \A x \in 0 .. 7 : backRank[x] = 5 <=> x = 4
  BY DEF backRank
<1>2. type[id] = CASE Row(id) = 0 -> backRank[Col(id)]
                   [] Row(id) = 1 -> b_pawn
                   [] Row(id) = 6 -> w_pawn
                   [] Row(id) = 7 -> backRank[Col(id)] + w_pawn
  BY DEF type
<1>3. /\ Col(id) \in 0 .. 7 /\ Row(id) \in {0, 1, 6, 7}
      /\ id = 8 * Row(id) + Col(id)
  BY DEF Col, Row, Ids
<1> DEFINE c == Col(id)
           r == Row(id)
<1> HIDE DEF c, r
<1>4. /\ c \in 0 .. 7 /\ r \in {0, 1, 6, 7} /\ id = 8 * r + c
      /\ r = 0 => type[id] = backRank[c]
      /\ r = 1 => type[id] = 0
      /\ r = 6 => type[id] = 6
      /\ r = 7 => type[id] = backRank[c] + 6
  BY <1>2, <1>3 DEF c, r
<1> QED BY <1>1, <1>4 DEF isKing

LEMMA CountKings ==
  ASSUME NEW board \in [Square -> Ids \cup {NULL}]
  PROVE  Cardinality(kings(board)) < 2 <=> ~bothKings(board)
<1> DEFINE on(id) == \E sq \in Square : board[sq] = id
<1>1. 4 \in Ids /\ 60 \in Ids
  BY DEF Ids
<1>2. bothKings(board) <=> on(4) /\ on(60)
  BY <1>1, Kings DEF bothKings
<1>3. \A id : id \in kings(board) <=> id \in {4, 60} /\ on(id)
  BY <1>1, Kings DEF kings
<1> HIDE DEF on
<1>4. IsFiniteSet({4, 60}) /\ Cardinality({4, 60}) = 2
  <2>1. IsFiniteSet({4}) /\ Cardinality({4}) = 1 /\ {4, 60} = {4} \cup {60}
    BY FS_Singleton
  <2> QED BY <2>1, FS_AddElement
<1>5. kings(board) \in SUBSET {4, 60}
  BY <1>3
<1>6. /\ IsFiniteSet(kings(board)) /\ Cardinality(kings(board)) <= 2
      /\ Cardinality(kings(board)) = 2 => kings(board) = {4, 60}
  BY <1>4, <1>5, FS_Subset
<1>7. Cardinality(kings(board)) \in Nat
  BY <1>6, FS_CardinalityType
<1>8. kings(board) = {4, 60} <=> on(4) /\ on(60)
  BY <1>3
<1> QED BY <1>2, <1>4, <1>6, <1>7, <1>8

\* A game with a king gone is over on the machine that sees it, and a game that is over
\* has a king gone.
THEOREM KingGoneIsOver == Spec => []KingGoneMeansOver
<1>1. TypeOK /\ ProtocolInv => KingGoneMeansOver
  <2> SUFFICES ASSUME TypeOK, ProtocolInv, ~Clash, NEW p \in Peer
               PROVE  Cardinality(kings(vm[p].board)) < 2 <=>
                        (vm[p].gameState = "EXIT" \/ vm[p].endGame)
    BY DEF KingGoneMeansOver
  <2>1. vm[p] \in VM /\ Local(vm[p])
    BY Seen
  <2>2. vm[p].board \in [Square -> Ids \cup {NULL}]
    BY <2>1 DEF VM
  <2> QED BY <2>1, <2>2, CountKings DEF Local
<1> QED BY <1>1, ChessTypeOK, ProtocolHolds, PTL

\* As many pieces as squares that hold one.
LEMMA CountPieces ==
  ASSUME NEW board \in [Square -> Ids \cup {NULL}], Injective(board)
  PROVE  Cardinality({board[sq] : sq \in Square} \ {NULL})
           = Cardinality({sq \in Square : board[sq] # NULL})
<1> DEFINE S == {sq \in Square : board[sq] # NULL}
           T == {board[sq] : sq \in Square} \ {NULL}
           f == [sq \in S |-> board[sq]]
<1>1. f \in Bijection(S, T)
  <2>1. f \in [S -> T]
    OBVIOUS
  <2>2. \A a, b \in S : f[a] = f[b] => a = b
    BY DEF Injective
  <2>3. \A t \in T : \E sq \in S : f[sq] = t
    OBVIOUS
  <2> HIDE DEF S, T, f
  <2> QED BY <2>1, <2>2, <2>3 DEF Bijection, Injection, Surjection, IsInjective
<1>2. IsFiniteSet(S)
  <2>1. IsFiniteSet(Square)
    <3>1. PICK n \in Int, m \in Int : n = 0 /\ m = 63
      OBVIOUS
    <3>2. IsFiniteSet(n .. m)
      BY FS_Interval
    <3> QED BY <3>1, <3>2 DEF Square
  <2> QED BY <2>1, FS_Subset
<1> HIDE DEF S, T, f
<1>3. ExistsBijection(S, T)
  BY <1>1 DEF ExistsBijection
<1>4. Cardinality(T) = Cardinality(S)
  BY <1>2, <1>3, FS_Bijection
<1> QED BY <1>4 DEF S, T

\* Moves, own or received, never put a piece on two squares.
THEOREM NoPieceOnTwoSquares == Spec => []NoPieceTwice
<1>1. TypeOK /\ ProtocolInv => NoPieceTwice
  <2> SUFFICES ASSUME TypeOK, ProtocolInv, ~Clash, NEW p \in Peer
               PROVE  Cardinality({vm[p].board[sq] : sq \in Square} \ {NULL})
                        = Cardinality({sq \in Square : vm[p].board[sq] # NULL})
    BY DEF NoPieceTwice
  <2>1. vm[p] \in VM /\ Local(vm[p])
    BY Seen
  <2>2. vm[p].board \in [Square -> Ids \cup {NULL}] /\ Injective(vm[p].board)
    BY <2>1 DEF VM, Local
  <2> QED BY <2>2, CountPieces
<1> QED BY <1>1, ChessTypeOK, ProtocolHolds, PTL

----------------------------------------------------------------------------------
(* The turn *)

turns(q) == {i \in DOMAIN q : q[i] = YOUR_TURN}

\* The right to move is in one place at most: a flag, or the end of a queue.
Token(s, o, so, os) ==
  /\ s.myTurn => ~o.myTurn /\ turns(so) = {} /\ turns(os) = {}
  /\ o.myTurn => turns(so) = {} /\ turns(os) = {}
  /\ turns(so) = {} \/ turns(os) = {}
  /\ TurnLast(so) /\ TurnLast(os)

LEMMA NoTurns == turns(<< >>) = {} /\ TurnLast(<< >>)
<1>1. << >> \in Seq(Bytes) /\ Len(<< >>) = 0 /\ DOMAIN << >> = {}
  OBVIOUS
<1>2. turns(<< >>) = {}
  BY <1>1 DEF turns
<1>3. 1 .. 0 = {} /\ 0 <= 7
  OBVIOUS
<1> QED BY <1>1, <1>2, <1>3 DEF TurnLast

\* The turn is the seventh byte of the script.
LEMMA CarriesTurns ==
  ASSUME NEW q \in Seq(Bytes), NEW lo \in 0 .. 7, NEW hi \in 0 .. 7,
         NEW colour \in {BLACK, WHITE}, NEW x \in Position, NEW y \in Position,
         Carries(q, lo, hi, colour, x, y)
  PROVE  /\ TurnLast(q)
         /\ hi < 7 => turns(q) = {}
         /\ lo < 7 /\ hi = 7 => turns(q) # {}
<1>1. Len(q) \in Nat /\ Len(q) = hi - lo /\ DOMAIN q = 1 .. Len(q)
  BY DEF Carries
<1>2. ASSUME NEW i \in 1 .. Len(q), q[i] = YOUR_TURN PROVE lo + i = 7 /\ hi = 7
  <2>1. wire(lo + i, colour, x, y) = YOUR_TURN
    BY <1>2 DEF Carries
  <2>2. lo + i \in 1 .. 7 /\ lo + i <= hi
    BY <1>1
  <2>3. lo + i = 7
    BY <2>1, <2>2, WireTurn
  <2> QED BY <2>2, <2>3
<1>3. hi < 7 => turns(q) = {}
  BY <1>1, <1>2 DEF turns
<1>4. ASSUME lo < 7, hi = 7 PROVE turns(q) # {}
  <2>1. Len(q) \in 1 .. Len(q) /\ lo + Len(q) = 7
    BY <1>1, <1>4
  <2>2. q[Len(q)] = wire(7, colour, x, y)
    BY <2>1 DEF Carries
  <2>3. q[Len(q)] = YOUR_TURN
    BY <2>2 DEF wire
  <2> QED BY <1>1, <2>1, <2>3 DEF turns
<1> QED BY <1>3, <1>4, CarriesTurnLast

LEMMA TokenPair ==
  ASSUME NEW s \in VM, NEW o \in VM, NEW so \in Seq(Bytes), NEW os \in Seq(Bytes),
         NEW flushed, NEW ok
  PROVE  /\ Start(s, o, so, os) => Token(s, o, so, os)
         /\ After(s, o, so, os, flushed, ok) => Token(s, o, so, os)
<1>1. ASSUME NEW m, NEW q \in Seq(Bytes), Hello(m, q)
      PROVE  ~m.myTurn /\ turns(q) = {} /\ TurnLast(q)
  <2>1. CASE q = << >>
    BY <1>1, <2>1, NoTurns DEF Hello
  <2>2. CASE q # << >>
    <3>1. ~m.myTurn /\ Carries(q, 0, 1, BLACK, 0, 0)
      BY <1>1, <2>2 DEF Hello
    <3>2. PICK lo \in 0 .. 7, hi \in 0 .. 7, x \in Position : lo = 0 /\ hi = 1 /\ x = 0
      BY DEF Position
    <3>3. Carries(q, lo, hi, BLACK, x, x) /\ hi < 7
      BY <3>1, <3>2
    <3> QED BY <3>1, <3>3, CarriesTurns
  <2> QED BY <2>1, <2>2
<1>2. Start(s, o, so, os) => Token(s, o, so, os)
  BY <1>1 DEF Start, Token
<1>3. ASSUME Hand(s, o, so, os, ok) PROVE Token(s, o, so, os)
  <2>1. PICK lo \in 0 .. 2, hi \in {2, 3, 7}, x \in Position, y \in Position :
          /\ Carries(so, lo, hi, opposite(s.player), x, y)
          /\ hi = 7 => ~s.myTurn
    BY <1>3 DEF Hand
  <2>2. os = << >> /\ ~o.myTurn
    BY <1>3 DEF Hand
  <2>3. lo \in 0 .. 7 /\ hi \in 0 .. 7 /\ opposite(s.player) \in {BLACK, WHITE} /\ (hi # 7 => hi < 7)
    BY DEF opposite
  <2>4. TurnLast(so) /\ (hi # 7 => turns(so) = {})
    BY <2>1, <2>3, CarriesTurns
  <2>5. turns(os) = {} /\ TurnLast(os)
    BY <2>2, NoTurns
  <2> QED BY <2>1, <2>2, <2>4, <2>5 DEF Token
<1>4. ASSUME NEW a, NEW b, NEW ab \in Seq(Bytes), NEW ba \in Seq(Bytes), Turn(a, b, ab, ba, ok)
      PROVE  Token(a, b, ab, ba)
  <2>1. CASE Rest(a, b, ab, ba, ok)
    BY <2>1, NoTurns DEF Rest, Token
  <2>2. CASE Fly(a, b, ab, ba, ok)
    <3>1. PICK lo \in 3 .. 6, x \in Position, y \in Position : Carries(ab, lo, 7, BLACK, x, y)
      BY <2>2 DEF Fly
    <3>2. lo \in 0 .. 7 /\ 7 \in 0 .. 7
      OBVIOUS
    <3>3. TurnLast(ab)
      BY <3>1, <3>2, CarriesTurnLast
    <3> QED BY <2>2, <3>3, NoTurns DEF Fly, Token
  <2>3. CASE Dead(a, b, ab, ba, ok)
    BY <2>3, NoTurns DEF Dead, Token
  <2> QED BY <1>4, <2>1, <2>2, <2>3 DEF Turn
<1>5. Game(s, o, so, os, ok) => Token(s, o, so, os)
  BY <1>4 DEF Game, Token
<1>6. LooseHand(s, o, so, os) => Token(s, o, so, os)
  BY NoTurns DEF LooseHand, Token
<1>7. LooseGame(s, o, so, os) => Token(s, o, so, os)
  BY NoTurns DEF LooseGame, AtMostOne, Token
<1> QED BY <1>2, <1>3, <1>5, <1>6, <1>7 DEF After

\* While both machines are in the game the turn is somewhere.
LEMMA TokenThere ==
  ASSUME NEW s \in VM, NEW o \in VM, NEW so \in Seq(Bytes), NEW os \in Seq(Bytes), NEW ok,
         Game(s, o, so, os, ok), s.phase = "run", o.phase = "run"
  PROVE  s.myTurn \/ o.myTurn \/ turns(so) # {} \/ turns(os) # {}
<1>1. ASSUME NEW a, NEW b, NEW ab \in Seq(Bytes), NEW ba, Turn(a, b, ab, ba, ok), b.phase = "run"
      PROVE  a.myTurn \/ turns(ab) # {}
  <2>1. CASE Fly(a, b, ab, ba, ok)
    <3>1. PICK lo \in 3 .. 6, x \in Position, y \in Position : Carries(ab, lo, 7, BLACK, x, y)
      BY <2>1 DEF Fly
    <3>2. PICK hi \in 0 .. 7 : hi = 7
      OBVIOUS
    <3>3. Carries(ab, lo, hi, BLACK, x, y) /\ lo \in 0 .. 7 /\ lo < 7 /\ BLACK \in {BLACK, WHITE}
      BY <3>1, <3>2
    <3> QED BY <3>2, <3>3, CarriesTurns
  <2> QED BY <1>1, <2>1 DEF Turn, Rest, Dead
<1> QED BY <1>1 DEF Game

LEMMA CountTurns ==
  ASSUME NEW q \in Seq(Bytes), TurnLast(q)
  PROVE  Cardinality(turns(q)) = IF turns(q) = {} THEN 0 ELSE 1
<1>1. CASE turns(q) = {}
  BY <1>1, FS_EmptySet
<1>2. CASE turns(q) # {}
  <2>1. turns(q) = {Len(q)}
    BY <1>2 DEF turns, TurnLast
  <2>2. \A x : Cardinality({x}) = 1
    BY FS_Singleton
  <2> QED BY <1>2, <2>1, <2>2
<1> QED BY <1>1, <1>2

LEMMA CountPlayers ==
  LET h == Cardinality({p \in Peer : vm[p].myTurn})
  IN  /\ vm[1].myTurn /\ ~vm[2].myTurn => h = 1
      /\ ~vm[1].myTurn /\ vm[2].myTurn => h = 1
      /\ ~vm[1].myTurn /\ ~vm[2].myTurn => h = 0
<1> DEFINE H == {p \in Peer : vm[p].myTurn}
<1>1. /\ vm[1].myTurn /\ ~vm[2].myTurn => H = {1}
      /\ ~vm[1].myTurn /\ vm[2].myTurn => H = {2}
      /\ ~vm[1].myTurn /\ ~vm[2].myTurn => H = {}
  BY DEF Peer
<1>2. \A x : Cardinality({x}) = 1
  BY FS_Singleton
<1>3. Cardinality({1}) = 1 /\ Cardinality({2}) = 1 /\ Cardinality({}) = 0
  BY <1>2, FS_EmptySet
<1> QED BY <1>1, <1>3

\* The right to move is passed like a token: no interleaving of turns of the loops with
\* bytes on the line duplicates it, and only a machine that leaves the game loses it.
THEOREM TurnIsToken == Spec => []OneTurn
<1>1. TypeOK /\ ProtocolInv => OneTurn
  <2> SUFFICES ASSUME TypeOK, ProtocolInv, ~Clash
               PROVE  tokens <= 1 /\ (playing(1) /\ playing(2) => tokens = 1)
    BY DEF OneTurn
  <2> DEFINE s == vm[1]
             o == vm[2]
             so == bytesTo(o, s)
             os == bytesTo(s, o)
  <2>1. 1 \in Peer /\ Other(1) = 2
    BY DEF Peer, Other
  <2>2. /\ s \in VM /\ o \in VM /\ Joint(s, o, hist.flushed, ~hist.corner)
        /\ pipeline(1) = os /\ pipeline(2) = so
    BY <2>1, Seen
  <2>3. so \in Seq(Bytes) /\ os \in Seq(Bytes)
    BY <2>2, LineType
  <2>4. Token(s, o, so, os)
    <3>1. \/ Start(s, o, so, os)
          \/ After(s, o, so, os, hist.flushed, ~hist.corner)
          \/ After(o, s, os, so, hist.flushed, ~hist.corner)
      BY <2>2 DEF Joint, Begun, Chose, Waits
    <3> HIDE DEF s, o, so, os
    <3>2. Token(s, o, so, os) \/ Token(o, s, os, so)
      BY <2>2, <2>3, <3>1, TokenPair
    <3> QED BY <3>2 DEF Token
  <2>5. ASSUME playing(1), playing(2)
        PROVE  s.myTurn \/ o.myTurn \/ turns(so) # {} \/ turns(os) # {}
    <3>1. s.phase = "run" /\ o.phase = "run" /\ s.gameState = "PLAYING" /\ o.gameState = "PLAYING"
      BY <2>5 DEF playing
    <3>2. Game(s, o, so, os, ~hist.corner)
      BY <2>2, <3>1, BothPlay
    <3> HIDE DEF s, o, so, os
    <3> QED BY <2>2, <2>3, <3>1, <3>2, TokenThere
  <2> DEFINE h == Cardinality({p \in Peer : vm[p].myTurn})
             n == Cardinality(turns(os))
             k == Cardinality(turns(so))
  <2>6. turnBytes(1) = turns(os) /\ turnBytes(2) = turns(so)
    BY <2>2 DEF turnBytes, turns
  <2>7. tokens = h + n + k
    BY <2>6 DEF tokens
  <2>8. TurnLast(so) /\ TurnLast(os)
    BY <2>4 DEF Token
  <2>9. /\ n = IF turns(os) = {} THEN 0 ELSE 1
        /\ k = IF turns(so) = {} THEN 0 ELSE 1
    <3> HIDE DEF so, os
    <3> QED BY <2>3, <2>8, CountTurns
  <2>10. /\ s.myTurn /\ ~o.myTurn => h = 1
         /\ ~s.myTurn /\ o.myTurn => h = 1
         /\ ~s.myTurn /\ ~o.myTurn => h = 0
    BY CountPlayers
  <2> HIDE DEF h, n, k, so, os, s, o
  <2>11. CASE s.myTurn \/ o.myTurn
    <3>1. h = 1 /\ n = 0 /\ k = 0
      BY <2>4, <2>9, <2>10, <2>11 DEF Token
    <3> QED BY <2>7, <3>1
  <2>12. CASE ~s.myTurn /\ ~o.myTurn /\ turns(so) = {} /\ turns(os) = {}
    <3>1. h = 0 /\ n = 0 /\ k = 0
      BY <2>9, <2>10, <2>12
    <3>2. ~(playing(1) /\ playing(2))
      BY <2>5, <2>12
    <3> QED BY <2>7, <3>1, <3>2
  <2>13. CASE ~s.myTurn /\ ~o.myTurn /\ ~(turns(so) = {} /\ turns(os) = {})
    <3>1. h = 0 /\ ((n = 1 /\ k = 0) \/ (n = 0 /\ k = 1))
      BY <2>4, <2>9, <2>10, <2>13 DEF Token
    <3> QED BY <2>7, <3>1
  <2> QED BY <2>11, <2>12, <2>13
<1> QED BY <1>1, ChessTypeOK, ProtocolHolds, PTL
==================================================================================
