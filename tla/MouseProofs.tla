------------------------------- MODULE MouseProofs -------------------------------
(* For every resolution, every device and every layout of mouse.c's variables:    *)
(* the cursor stays on the screen; until the KBC flags an error mouse_ih finds    *)
(* and keeps the beginning of packets and stores nothing past pp.bytes; after     *)
(* one it completes no packet until a store behind pp hits its own variables.     *)
EXTENDS Mouse, TLAPS

LEMMA ScreenLemma == HRes \in Nat /\ HRes >= 12 /\ VRes \in Nat /\ VRes >= 20
BY MouseAssumption

LEMMA StraysLemma == Strays \subseteq Int
<1>1. \A a, b, n : n \in a .. b => n \in Int
  OBVIOUS
<1>2. Short \subseteq Int
  BY <1>1, Zenon DEF Short
<1> QED BY <1>2, MouseAssumption

----------------------------------------------------------------------------------
(* The cursor *)

\* The clamping of one coordinate, for any displacement.
LEMMA ClampedLemma ==
  ASSUME NEW last \in Nat, NEW res \in Nat, res > last,
         NEW pos \in 0 .. (res - last - 1), NEW move \in Int
  PROVE  clamped(pos, move, res, last) \in 0 .. (res - last - 1)
BY DEF clamped

\* Any displacements, whatever they mean, leave the cursor on the screen.
LEMMA UpdateCursorLemma ==
  ASSUME CursorOnScreen, NEW p \in Packet
  PROVE  /\ updateCursor(cursor, p).x \in 0 .. (HRes - 12)
         /\ updateCursor(cursor, p).y \in 0 .. (VRes - 20)
<1> DEFINE dx == p.delta_x
           dy == -p.delta_y
<1>1. dx \in Int /\ dy \in Int
  BY DEF Packet
<1>2. /\ updateCursor(cursor, p).x = clamped(cursor.x, dx, HRes, 11)
      /\ updateCursor(cursor, p).y = clamped(cursor.y, dy, VRes, 19)
  BY DEF updateCursor
<1> HIDE DEF dx, dy
<1>3. clamped(cursor.x, dx, HRes, 11) \in 0 .. (HRes - 11 - 1)
  <2>1. HRes \in Nat /\ HRes > 11 /\ cursor.x \in 0 .. (HRes - 11 - 1)
    BY ScreenLemma DEF CursorOnScreen
  <2> QED BY <1>1, <2>1, ClampedLemma
<1>4. clamped(cursor.y, dy, VRes, 19) \in 0 .. (VRes - 19 - 1)
  <2>1. VRes \in Nat /\ VRes > 19 /\ cursor.y \in 0 .. (VRes - 19 - 1)
    BY ScreenLemma DEF CursorOnScreen
  <2> QED BY <1>1, <2>1, ClampedLemma
<1>5. HRes - 11 - 1 = HRes - 12 /\ VRes - 19 - 1 = VRes - 20
  BY ScreenLemma
<1> QED BY <1>2, <1>3, <1>4, <1>5

----------------------------------------------------------------------------------
(* The store of a byte, inside pp and behind it *)

LEMMA DecodedLemma ==
  ASSUME NEW p \in [0 .. 2 -> Byte]
  PROVE  decoded(p) \in Packet
<1>1. delta(p[1], bit(p[0], 4)) \in Int /\ delta(p[2], bit(p[0], 5)) \in Int
  BY DEF delta, Byte
<1>2. bit(p[0], 0) \in BOOLEAN
  BY DEF bit
<1> QED BY <1>1, <1>2 DEF decoded, Packet

PacketInv == /\ i \in 0 .. PacketSize
             /\ bytes \in [0 .. 2 -> Byte]
             /\ valid_packet \in BOOLEAN
             /\ memory \in Memory

\* The two kinds of outcome: a store inside pp leaves the variables around it alone, one
\* behind it leaves something of their type, and a trace in memory.
LEMMA StoredLemma ==
  ASSUME PacketInv, NEW storing \in BOOLEAN, NEW s \in stored(storing)
  PROVE  /\ s.i \in 0 .. PacketSize
         /\ s.valid_packet \in BOOLEAN /\ s.updateMouse \in BOOLEAN
         /\ s.pp \in Packet
         /\ s.memory \in Memory
         /\ ~storing \/ i < PacketSize =>
              s.i = i /\ s.valid_packet = valid_packet /\ s.updateMouse = FALSE /\ s.memory = memory
         /\ storing /\ i = PacketSize => s.memory # "intact"
<1> DEFINE now == [i |-> i, valid_packet |-> valid_packet, updateMouse |-> FALSE,
                   pp |-> decoded(bytes), memory |-> memory]
           hit == [now EXCEPT !.memory = "hit"]
           stray == [lb : BOOLEAN, delta_x : Strays, delta_y : Strays]
<1>1. decoded(bytes) \in Packet
  BY DecodedLemma DEF PacketInv
<1>2. PacketSize \in Nat /\ i \in 0 .. PacketSize /\ valid_packet \in BOOLEAN /\ memory \in Memory
  BY MouseAssumption DEF PacketInv
<1>3. \A p \in stray : p \in Packet
  BY StraysLemma DEF Packet
<1>4. CASE ~storing \/ i < PacketSize
  <2>1. s = now
    BY <1>4 DEF stored
  <2>2. /\ s.i = i /\ s.valid_packet = valid_packet /\ s.updateMouse = FALSE
        /\ s.pp = decoded(bytes) /\ s.memory = memory
    BY <2>1
  <2>3. ~(storing /\ i = PacketSize)
    BY <1>2, <1>4
  <2> QED BY <1>1, <1>2, <2>2, <2>3, Zenon
<1>5. CASE ~(~storing \/ i < PacketSize)
  <2>1. \/ s = hit
        \/ s = [now EXCEPT !.memory = "lost"]
        \/ \E k \in 0 .. PacketSize : s = [hit EXCEPT !.i = k]
        \/ \E v \in BOOLEAN : s = [hit EXCEPT !.valid_packet = v]
        \/ \E p \in stray : s = [hit EXCEPT !.updateMouse = TRUE, !.pp = p]
    BY <1>5, Zenon DEF stored, hits
  <2>2. /\ s.i \in 0 .. PacketSize
        /\ s.valid_packet \in BOOLEAN /\ s.updateMouse \in BOOLEAN
        /\ s.pp \in Packet
        /\ s.memory \in {"hit", "lost"}
    <3>1. CASE s = hit \/ s = [now EXCEPT !.memory = "lost"]
      <4>1. /\ s.i = i /\ s.valid_packet = valid_packet /\ s.updateMouse = FALSE
            /\ s.pp = decoded(bytes) /\ s.memory \in {"hit", "lost"}
        BY <3>1
      <4> QED BY <1>1, <1>2, <4>1, Zenon
    <3>2. CASE \E k \in 0 .. PacketSize : s = [hit EXCEPT !.i = k]
      <4>1. PICK k \in 0 .. PacketSize : s = [hit EXCEPT !.i = k]
        BY <3>2
      <4>2. /\ s.i = k /\ s.valid_packet = valid_packet /\ s.updateMouse = FALSE
            /\ s.pp = decoded(bytes) /\ s.memory = "hit"
        BY <4>1
      <4> QED BY <1>1, <1>2, <4>2, Zenon
    <3>3. CASE \E v \in BOOLEAN : s = [hit EXCEPT !.valid_packet = v]
      <4>1. PICK v \in BOOLEAN : s = [hit EXCEPT !.valid_packet = v]
        BY <3>3
      <4>2. /\ s.i = i /\ s.valid_packet = v /\ s.updateMouse = FALSE
            /\ s.pp = decoded(bytes) /\ s.memory = "hit"
        BY <4>1
      <4> QED BY <1>1, <1>2, <4>1, <4>2, Zenon
    <3>4. CASE \E p \in stray : s = [hit EXCEPT !.updateMouse = TRUE, !.pp = p]
      <4>1. PICK p \in stray : s = [hit EXCEPT !.updateMouse = TRUE, !.pp = p]
        BY <3>4
      <4>2. /\ s.i = i /\ s.valid_packet = valid_packet /\ s.updateMouse = TRUE
            /\ s.pp = p /\ s.memory = "hit"
        BY <4>1
      <4> QED BY <1>1, <1>2, <1>3, <4>1, <4>2, Zenon
    <3> QED BY <2>1, <3>1, <3>2, <3>3, <3>4
  <2> QED BY <1>5, <2>2, Zenon DEF Memory
<1> QED BY <1>4, <1>5

\* A byte that mouse_ih reads: the types, and the packet that its event carries.
LEMMA PacketByte ==
  ASSUME PacketInv, NEW byte \in Byte, NEW error \in BOOLEAN, NEW s \in stored(~error),
         mouse_ih(byte, error, s)
  PROVE  PacketInv' /\ mouse_packet(byte, error, s) \in Packet
<1>1. /\ s.i \in 0 .. PacketSize /\ s.valid_packet \in BOOLEAN
      /\ s.pp \in Packet /\ s.memory \in Memory
  BY StoredLemma
<1>2. PacketSize \in Nat /\ i \in 0 .. PacketSize
  BY MouseAssumption DEF PacketInv
<1>3. i' \in 0 .. PacketSize
  BY <1>1, <1>2 DEF mouse_ih, nextIndex
<1>4. packet(byte, error) \in [0 .. 2 -> Byte] /\ bytes' = packet(byte, error)
  BY DEF mouse_ih, packet, PacketInv
<1>5. valid_packet' \in BOOLEAN
  <2>1. valid_packet' = IF error THEN FALSE ELSE s.valid_packet \/ s.i = 2
    BY DEF mouse_ih
  <2> QED BY <2>1, Zenon
<1>6. memory' \in Memory
  BY <1>1 DEF mouse_ih
<1>7. decoded(packet(byte, error)) \in Packet
  BY <1>4, DecodedLemma
<1> QED BY <1>1, <1>3, <1>4, <1>5, <1>6, <1>7 DEF PacketInv, mouse_packet

----------------------------------------------------------------------------------
(* The cursor *)

CursorInv == PacketInv /\ CursorOnScreen

\* An interrupt, with or without an error, in step with the device or not.
LEMMA CursorStep == CursorInv /\ [Next]_vars => CursorInv'
<1> SUFFICES ASSUME CursorInv, [Next]_vars PROVE CursorInv'
  OBVIOUS
<1>1. CASE UNCHANGED vars
  BY <1>1 DEF vars, CursorInv, PacketInv, CursorOnScreen
<1>2. CASE Next
  <2>1. PICK byte \in (IF sent = 0 THEN Flags ELSE Moves), error \in Errors : Interrupt(byte, error)
    BY <1>2 DEF Next
  <2>2. byte \in Byte /\ error \in BOOLEAN
    BY <2>1, MouseAssumption
  <2>3. PICK s \in stored(~error) :
          /\ mouse_ih(byte, error, s)
          /\ cursor' = IF pushes(error, s) THEN updateCursor(cursor, mouse_packet(byte, error, s))
                       ELSE cursor
    BY <2>1 DEF Interrupt
  <2>4. PacketInv' /\ mouse_packet(byte, error, s) \in Packet
    BY <2>2, <2>3, PacketByte DEF CursorInv
  <2>5. CursorOnScreen
    BY DEF CursorInv
  <2>6. \A p \in Packet : /\ updateCursor(cursor, p).x \in 0 .. (HRes - 12)
                          /\ updateCursor(cursor, p).y \in 0 .. (VRes - 20)
    BY <2>5, UpdateCursorLemma
  <2>7. CursorOnScreen'
    BY <2>3, <2>4, <2>5, <2>6 DEF CursorOnScreen
  <2> QED BY <2>4, <2>7 DEF CursorInv
<1> QED BY <1>1, <1>2

\* Whatever the device sends and the KBC flags, and whatever stray stores leave in a packet,
\* the whole cursor stays on the screen, for every resolution that has room for it.
THEOREM CursorStaysOnScreen == Spec => []CursorOnScreen
<1>1. Init => CursorInv
  BY MouseAssumption DEF Init, CursorInv, PacketInv, Memory, CursorOnScreen, Byte
<1>2. CursorInv => CursorOnScreen
  BY DEF CursorInv
<1> QED BY <1>1, <1>2, CursorStep, PTL DEF Spec

----------------------------------------------------------------------------------
(* The alignment, up to the first byte with an error, and the packet after one *)

\* Two bytes into a packet of the device whose displacements do not look like first
\* bytes, mouse_ih is either in step or about to complete a garbled packet. After an
\* error the index is past 0 as long as the packet is invalid, and past 2 once it is
\* valid again, for as long as nothing behind pp has been hit.
AlignInv == /\ PacketInv
            /\ sent \in 0 .. 2 /\ flagged \in BOOLEAN
            /\ OnlyErrorsOverrun
            /\ ~flagged /\ sent = 2 /\ quiet => i \in {0, 2}
            /\ NoPacketAfterError
            /\ memory = "intact" => valid_packet \/ i >= 1

\* The effect of one byte on the two counters.
LEMMA AlignByte ==
  ASSUME AlignInv, NEW byte \in (IF sent = 0 THEN Flags ELSE Moves), NEW error \in Errors,
         NEW s \in stored(~error), mouse_ih(byte, error, s), handedOver(byte, error)
  PROVE  /\ AlignInv'
         /\ ~flagged' /\ i = sent => i' = sent'
         /\ ~flagged' /\ sent' = 0 /\ quiet' => i' = 0
<1>1. error \in BOOLEAN /\ byte \in Byte
  BY MouseAssumption
<1>2. sent = 0 => FIRST_BYTE(byte)
  BY MouseAssumption
<1>3. sent' = IF sent = 2 THEN 0 ELSE sent + 1
  BY DEF handedOver, AlignInv
<1>4. flagged' = (flagged \/ error)
  BY DEF handedOver
<1>5. quiet' => sent = 0 \/ (quiet /\ ~FIRST_BYTE(byte))
  BY DEF handedOver
<1>6. /\ PacketSize \in Nat /\ PacketSize >= 3
      /\ i \in 0 .. PacketSize /\ sent \in 0 .. 2 /\ valid_packet \in BOOLEAN /\ flagged \in BOOLEAN
      /\ ~flagged => valid_packet /\ i <= 2 /\ memory = "intact"
      /\ ~flagged /\ sent = 2 /\ quiet => i \in {0, 2}
      /\ flagged /\ memory = "intact" => ~valid_packet \/ i > 2
      /\ memory = "intact" => valid_packet \/ i >= 1
  BY MouseAssumption DEF AlignInv, PacketInv, OnlyErrorsOverrun, NoPacketAfterError
<1>7. PacketInv'
  BY <1>1, PacketByte DEF AlignInv
<1>8. sent' \in 0 .. 2 /\ flagged' \in BOOLEAN
  <2>1. sent' \in 0 .. 2
    BY <1>3, <1>6
  <2>2. flagged' \in BOOLEAN
    BY <1>4
  <2> QED BY <2>1, <2>2
<1>9. /\ error \/ i < PacketSize =>
           s.i = i /\ s.valid_packet = valid_packet /\ s.memory = memory
      /\ ~error /\ i = PacketSize => s.memory # "intact"
  <2>1. PacketInv /\ (~error) \in BOOLEAN
    BY <1>1 DEF AlignInv
  <2>2. /\ ~~error \/ i < PacketSize =>
             s.i = i /\ s.valid_packet = valid_packet /\ s.updateMouse = FALSE /\ s.memory = memory
        /\ ~error /\ i = PacketSize => s.memory # "intact"
    BY <2>1, StoredLemma
  <2> QED BY <1>1, <2>2, Zenon
<1>10. memory' = s.memory
  BY DEF mouse_ih
<1>11. ASSUME error \/ i < PacketSize
       PROVE  /\ memory' = memory
              /\ valid_packet' <=> ~error /\ (valid_packet \/ i = 2)
              /\ i' = IF ~error /\ i = 0 /\ ~FIRST_BYTE(byte) THEN i
                      ELSE IF ~error /\ i = 2 /\ valid_packet THEN 0
                      ELSE IF i = PacketSize THEN PacketSize ELSE i + 1
  <2>1. s.i = i /\ s.valid_packet = valid_packet /\ s.memory = memory
    BY <1>9, <1>11
  <2>2. valid_packet' <=> ~error /\ (valid_packet \/ i = 2)
    BY <1>1, <1>6, <2>1, Zenon DEF mouse_ih
  <2>3. i' = IF ~error /\ i = 0 /\ ~FIRST_BYTE(byte) THEN i
             ELSE IF ~error /\ i = 2 /\ valid_packet THEN 0
             ELSE IF i = PacketSize THEN PacketSize ELSE i + 1
    BY <2>1, Zenon DEF mouse_ih, nextIndex, skips, completes
  <2> QED BY <1>10, <2>1, <2>2, <2>3
<1>12. CASE ~error /\ i = PacketSize
  <2>1. memory' # "intact" /\ flagged
    BY <1>6, <1>9, <1>10, <1>12
  <2>2. flagged'
    BY <1>4, <2>1
  <2> QED BY <1>7, <1>8, <2>1, <2>2 DEF AlignInv, OnlyErrorsOverrun, NoPacketAfterError
<1>13. CASE error \/ i < PacketSize
  <2> USE <1>11, <1>13
  <2>1. CASE flagged'
    <3>1. memory' = "intact" => ~valid_packet' \/ i' > 2
      <4>1. CASE error
        BY <1>11, <1>13, <4>1
      <4>2. CASE ~error
        <5>1. flagged
          BY <1>4, <2>1, <4>2
        <5>2. CASE i > 2
          BY <1>6, <1>11, <1>13, <4>2, <5>2
        <5>3. CASE i <= 2 /\ memory = "intact"
          <6>1. ~valid_packet /\ i >= 1
            BY <1>6, <5>1, <5>3
          <6> QED BY <1>6, <1>11, <1>13, <4>2, <5>3, <6>1
        <5> QED BY <1>6, <1>11, <1>13, <5>2, <5>3
      <4> QED BY <4>1, <4>2
    <3>2. memory' = "intact" => valid_packet' \/ i' >= 1
      BY <1>6, <1>11, <1>13
    <3> QED BY <1>7, <1>8, <2>1, <3>1, <3>2 DEF AlignInv, OnlyErrorsOverrun, NoPacketAfterError
  <2>2. CASE ~flagged'
    <3>1. ~flagged /\ ~error /\ valid_packet /\ i \in 0 .. 2 /\ memory = "intact"
      BY <1>4, <1>6, <2>2
    <3>2. /\ memory' = "intact" /\ valid_packet'
          /\ i' = IF i = 0 /\ ~FIRST_BYTE(byte) THEN 0 ELSE IF i = 2 THEN 0 ELSE i + 1
      BY <1>6, <1>11, <1>13, <3>1
    <3>3. sent = 2 /\ quiet => i \in {0, 2}
      BY <1>6, <3>1
    <3>4. i = sent => i' = sent'
      BY <1>2, <1>3, <1>6, <3>1, <3>2
    <3>5. sent' = 0 /\ quiet' => i' = 0
      BY <1>3, <1>5, <1>6, <3>1, <3>2, <3>3
    <3>6. sent' = 2 /\ quiet' => i' \in {0, 2}
      BY <1>3, <1>5, <1>6, <3>1, <3>2
    <3>7. i' <= 2
      BY <3>1, <3>2
    <3> QED BY <1>7, <1>8, <2>2, <3>2, <3>4, <3>5, <3>6, <3>7
            DEF AlignInv, OnlyErrorsOverrun, NoPacketAfterError
  <2> QED BY <2>1, <2>2
<1> QED BY <1>6, <1>12, <1>13

LEMMA AlignStep ==
  ASSUME AlignInv, [Next]_vars
  PROVE  /\ AlignInv'
         /\ ~flagged' /\ i = sent => i' = sent'
         /\ UNCHANGED vars \/ (~flagged' /\ sent' = 0 /\ quiet' => i' = 0)
<1>1. CASE UNCHANGED vars
  BY <1>1 DEF vars, AlignInv, PacketInv, OnlyErrorsOverrun, NoPacketAfterError
<1>2. CASE Next
  <2>1. PICK byte \in (IF sent = 0 THEN Flags ELSE Moves), error \in Errors : Interrupt(byte, error)
    BY <1>2 DEF Next
  <2>2. PICK s \in stored(~error) : mouse_ih(byte, error, s) /\ handedOver(byte, error)
    BY <2>1 DEF Interrupt
  <2> QED BY <2>1, <2>2, AlignByte
<1> QED BY <1>1, <1>2

LEMMA AlignInit == Init => AlignInv
<1> SUFFICES ASSUME Init PROVE AlignInv
  OBVIOUS
<1>1. PacketInv
  BY MouseAssumption DEF Init, PacketInv, Memory, Byte
<1>2. i = 0 /\ valid_packet = TRUE /\ sent \in 0 .. 2 /\ quiet = FALSE /\ flagged = FALSE /\ memory = "intact"
  BY DEF Init
<1>3. OnlyErrorsOverrun
  BY <1>2 DEF OnlyErrorsOverrun
<1> QED BY <1>1, <1>2, <1>3 DEF AlignInv, NoPacketAfterError

\* Up to the first byte with an error, mouse_ih that is in step with the device stays
\* in step, whatever the displacement bytes look like.
THEOREM AlignmentIsKept == Spec => StaysAligned
<1>1. AlignInv /\ [Next]_vars => AlignInv'
  BY AlignStep
<1>2. AlignInv /\ [Next]_vars => [~flagged' /\ i = sent => i' = sent']_vars
  BY AlignStep
<1> QED BY <1>1, <1>2, AlignInit, PTL DEF Spec, StaysAligned

\* And one packet whose displacements do not look like first bytes brings a machine
\* that began in the middle of a packet into step.
THEOREM AlignmentIsFound == Spec => QuietPacketAligns
<1>1. AlignInv /\ [Next]_vars => AlignInv'
  BY AlignStep
<1>2. AlignInv /\ [Next]_vars => [~flagged' /\ sent' = 0 /\ quiet' => i' = 0]_vars
  BY AlignStep
<1> QED BY <1>1, <1>2, AlignInit, PTL DEF Spec, QuietPacketAligns

\* For every device, screen and layout: the unchecked store of mouse_ih stays in pp.bytes
\* until a byte with an error, and after one no packet is completed until a store behind
\* pp has hit something.
THEOREM ErrorsEndThePackets == Spec => [](OnlyErrorsOverrun /\ NoPacketAfterError)
<1>1. AlignInv /\ [Next]_vars => AlignInv'
  BY AlignStep
<1>2. AlignInv => OnlyErrorsOverrun /\ NoPacketAfterError
  BY DEF AlignInv
<1> QED BY <1>1, <1>2, AlignInit, PTL DEF Spec
==================================================================================
