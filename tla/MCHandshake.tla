------------------------------- MODULE MCHandshake -------------------------------
(* Names, handshake and choice of colours, with every combination of interrupts   *)
(* in one notification. The mouse reaches one square of the board, e8.            *)
EXTENDS Chess

\* In a Board, mem_board and mem_pieces come before the array; 64 is what follows it.
MCBeyond == {-2, -1, 64}

KEY_A == 158

MCCodes == {KEY_A, ENTER, BACK_SPACE}

\* The two buttons of the choice screen, and the corner the cursor starts in. The button
\* of black lies over e8, the black king, which black cannot move before its first turn.
MCSpots == {<<330, 80>>, <<330, 540>>, <<0, 0>>}

AllNotifications == SUBSET {"timer", "sp", "mouse", "kb"}
==================================================================================
