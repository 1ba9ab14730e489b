---------------------------------- MODULE Mouse ----------------------------------
(* mouse.c and cursor.c: the assembly of PS/2 packets out of single bytes, one    *)
(* per interrupt, and the cursor the packets move. A packet completed by an       *)
(* interrupt is pushed, popped and given to updateCursor in the same turn of the  *)
(* main loop, so an interrupt is one step.                                        *)
EXTENDS Integers

CONSTANTS HRes, VRes, \* get_h_res(), get_v_res(): 800 and 600 in mode 0x115
          Flags,      \* the first bytes of the device's packets
          Moves,      \* the second and third bytes
          Errors,     \* may the KBC flag a byte with PAR_ERR or TIMEOUT_ERR?
          PacketSize, \* sizeof(struct packet): 12
          Neighbours, \* the variables of mouse.c that the linker places behind pp
          Strays      \* displacements found in pp after stores past pp.bytes

Byte == 0 .. 255

\* int16_t
Short == -(2^15) .. (2^15 - 1)

bit(byte, k) == (byte \div 2^k) % 2 = 1

FIRST_BYTE(byte) == bit(byte, 3)

\* The cursor image is 12 by 20 pixels; a PS/2 device sets bit 3 of every first byte.
ASSUME MouseAssumption ==
  /\ HRes \in Nat /\ HRes >= 12 /\ VRes \in Nat /\ VRes >= 20
  /\ Flags \subseteq {b \in Byte : FIRST_BYTE(b)}
  /\ Moves \subseteq Byte
  /\ Errors \subseteq BOOLEAN
  /\ PacketSize \in Nat /\ PacketSize >= 3
  /\ Neighbours \subseteq {"i", "valid_packet", "updateMouse"}
  /\ Strays \subseteq Short

VARIABLES i,             \* the index of the next byte in pp.bytes; PacketSize stands for
                         \* every index outside pp
          valid_packet,
          bytes,         \* pp.bytes
          cursor,        \* x, y, pressed, released
          sent,          \* the device: the bytes of the current packet handed over so far
          quiet,         \* history: no error so far, and no byte after this packet's first has bit 3
          flagged,       \* history: a byte with an error has been read
          memory         \* history: what stores behind pp have hit, see Memory

vars == <<i, valid_packet, bytes, cursor, sent, quiet, flagged, memory>>

\* No byte has been stored behind pp; some have, in variables of mouse.c; one hit other
\* data of the program, and what the program does from then on is not known.
Memory == {"intact", "hit", "lost"}

running == memory # "lost"

\* Data reporting is on before the first interrupt is served, and the menu sleeps for
\* two seconds in between: the device may be anywhere in a packet.
Init == /\ i = 0
        /\ valid_packet = TRUE
        /\ bytes = [k \in 0 .. 2 |-> 0]
        /\ cursor = [x |-> 0, y |-> 0, pressed |-> FALSE, released |-> FALSE]
        /\ sent \in 0 .. 2
        /\ quiet = FALSE /\ flagged = FALSE /\ memory = "intact"

\* A displacement: nine bits, the sign among the flags (SIGN_EXTENSION).
delta(byte, negative) == IF negative THEN byte - 256 ELSE byte

\* Mutant: the width of the cursor is forgotten.
clamped_wide(pos, move, res, last) ==
  IF pos < -move THEN 0
  ELSE IF pos + move >= res THEN res - last - 1
  ELSE pos + move

\* One coordinate: stopped at 0, and where the last pixel of the image would leave
\* the screen.
clamped(pos, move, res, last) ==
  IF pos < -move THEN 0
  ELSE IF pos + move + last >= res THEN res - last - 1
  ELSE pos + move

updateCursor(c, p) ==
  [x |-> clamped(c.x, p.delta_x, HRes, 11),
   y |-> clamped(c.y, -p.delta_y, VRes, 19),
   pressed |-> p.lb,
   released |-> c.pressed /\ ~p.lb]

\* The fields of a packet that updateCursor reads, and how they come out of its bytes.
Packet == [lb : BOOLEAN, delta_x : Int, delta_y : Int]

decoded(p) == [lb |-> bit(p[0], 0),
               delta_x |-> delta(p[1], bit(p[0], 4)),
               delta_y |-> delta(p[2], bit(p[0], 5))]

\* Mutants: any byte may be the first; bit 3 is asked of every byte.
skips_never(byte, error) == FALSE

skips_anywhere(byte, error) == ~error /\ ~FIRST_BYTE(byte)

\* A first byte without bit 3 is thrown away.
skips(byte, error) == ~error /\ i = 0 /\ ~FIRST_BYTE(byte)

\* pp.bytes[i] = byte, unchecked. Past pp.bytes the byte lands in the other fields of pp,
\* which a complete packet sets anew before anybody reads them.
packet(byte, error) ==
  IF ~error /\ ~skips(byte, error) /\ i <= 2 THEN [bytes EXCEPT ![i] = byte] ELSE bytes

\* The outcomes of a store behind pp for one of the variables that may be there.
hits(variable, outcomes) == IF variable \in Neighbours THEN outcomes ELSE {}

\* What the same store leaves in the variables around pp. Behind pp it is undefined: it
\* may hit i, valid_packet or updateMouse (an event will then carry whatever pp holds),
\* data that nobody reads, or any other data of the program.
stored(storing) ==
  LET now == [i |-> i, valid_packet |-> valid_packet, updateMouse |-> FALSE,
              pp |-> decoded(bytes), memory |-> memory]
      hit == [now EXCEPT !.memory = "hit"]
      stray == [lb : BOOLEAN, delta_x : Strays, delta_y : Strays]
  IN  IF ~storing \/ i < PacketSize THEN {now}
      ELSE {hit, [now EXCEPT !.memory = "lost"]}
             \cup hits("i", {[hit EXCEPT !.i = k] : k \in 0 .. PacketSize})
             \cup hits("valid_packet", {[hit EXCEPT !.valid_packet = v] : v \in BOOLEAN})
             \cup hits("updateMouse", {[hit EXCEPT !.updateMouse = TRUE, !.pp = p] : p \in stray})

\* The rest of mouse_ih goes on with s, the values after the store.
completes(error, s) == ~error /\ s.i = 2 /\ s.valid_packet

\* Mutants: the third byte takes the index back, valid packet or not; it never does.
nextIndex_reset(byte, error, s) ==
  IF skips(byte, error) THEN i
  ELSE IF ~error /\ s.i = 2 THEN 0
  ELSE IF s.i = PacketSize THEN PacketSize ELSE s.i + 1

nextIndex_on(byte, error, s) ==
  IF skips(byte, error) THEN i ELSE IF s.i = PacketSize THEN PacketSize ELSE s.i + 1

\* Past an invalid packet i is 3: a valid packet alone takes it back to 0.
nextIndex(byte, error, s) ==
  IF skips(byte, error) THEN i
  ELSE IF completes(error, s) THEN 0
  ELSE IF s.i = PacketSize THEN PacketSize ELSE s.i + 1

mouse_ih(byte, error, s) ==
  /\ i' = nextIndex(byte, error, s)
  /\ bytes' = packet(byte, error)
  /\ valid_packet' = IF error THEN FALSE ELSE s.valid_packet \/ s.i = 2
  /\ memory' = s.memory

\* The device's side of a byte that mouse_ih takes out of the KBC, and the history.
handedOver(byte, error) ==
  /\ sent' = (sent + 1) % 3
  /\ flagged' = (flagged \/ error)
  /\ quiet' = (~flagged' /\ (sent = 0 \/ (quiet /\ ~FIRST_BYTE(byte))))

\* main.c after mouse_ih: is there an event, and what is in it?
pushes(error, s) == s.updateMouse \/ completes(error, s)

mouse_packet(byte, error, s) ==
  IF completes(error, s) THEN decoded(packet(byte, error)) ELSE s.pp

\* The device sends a byte, the KBC interrupts, and the main loop handles the event
\* of a complete packet in the same turn.
Interrupt(byte, error) ==
  /\ running
  /\ \E s \in stored(~error) :
       /\ mouse_ih(byte, error, s)
       /\ cursor' = IF pushes(error, s) THEN updateCursor(cursor, mouse_packet(byte, error, s)) ELSE cursor
  /\ handedOver(byte, error)

Next == \E byte \in IF sent = 0 THEN Flags ELSE Moves : \E error \in Errors : Interrupt(byte, error)

Spec == Init /\ [][Next]_vars

----------------------------------------------------------------------------------
(* Properties *)

TypeOK == /\ i \in 0 .. PacketSize
          /\ valid_packet \in BOOLEAN
          /\ bytes \in [0 .. 2 -> Byte]
          /\ cursor \in [x : Int, y : Int, pressed : BOOLEAN, released : BOOLEAN]
          /\ sent \in 0 .. 2
          /\ quiet \in BOOLEAN /\ flagged \in BOOLEAN
          /\ memory \in Memory

\* updateCursor keeps the whole image of the cursor on the screen, whatever packets
\* arrive, well assembled or not. (For 800x600 this is the range that Chess assumes of
\* its Spots.)
CursorOnScreen == cursor.x \in 0 .. (HRes - 12) /\ cursor.y \in 0 .. (VRes - 20)

\* Once mouse_ih counts the bytes of a packet as the device does, it never loses
\* count before a byte with an error: no displacement byte, whatever its bits, is
\* taken for a first byte.
StaysAligned == [][~flagged' /\ i = sent => i' = sent']_vars

\* "try again until BIT(3) is set" (mouse.c:29): a machine that begins in the middle
\* of a packet is in step with the device after at most one packet whose
\* displacements do not look like a first byte.
QuietPacketAligns == [][~flagged' /\ sent' = 0 /\ quiet' => i' = 0]_vars

\* The unchecked index of mouse.c:32 leaves pp.bytes after a byte with an error only: no
\* sequence of bytes without one, begun anywhere in a packet, is stored past pp.bytes.
OnlyErrorsOverrun == ~flagged => valid_packet /\ i <= 2 /\ memory = "intact"

\* After one byte with an error no packet is completed any more, until a store behind pp
\* happens to hit mouse_ih's own variables: a packet is never valid with its index in
\* pp.bytes.
NoPacketAfterError == flagged /\ memory = "intact" => ~valid_packet \/ i > 2

\* mouse.c:36, "reset to true for future reading": while the packet is valid the next
\* byte is read into it. What the code does: the reset leaves i at 3.
ReadsIntoPacket == valid_packet => i \in 0 .. 2
==================================================================================
