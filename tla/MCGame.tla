--------------------------------- MODULE MCGame ----------------------------------
(* A whole game, from the names to the capture of a king and the verdicts: the    *)
(* mouse reaches the colour buttons and the squares of one short line of play.    *)
EXTENDS Chess

\* In a Board, mem_board and mem_pieces come before the array; 64 is what follows it.
MCBeyond == {-2, -1, 64}

KEY_A == 158

MCCodes == {KEY_A, ENTER}

\* A pixel of the square of column c and row r that is on no button.
at(c, r) == <<getScreenX(c) + 3, getScreenY(r) + 20>>

whiteButton == <<330, 540>>

\* e2, e4, d1, h5, f7, f5, e8.
MCSpots == {at(4, 6), at(4, 4), at(3, 7), at(7, 3), at(5, 1), at(5, 3), at(4, 0), whiteButton}

\* The interrupts one notification may carry: alone, or a frame with a mouse event.
MCNotifications == {{}, {"timer"}, {"sp"}, {"mouse"}, {"kb"}, {"timer", "mouse"}}

\* Bound: one machine is asked for the colours, and it is machine 1. The machines
\* are alike, and crossed ENTER keys are the subject of MCHandshake and MCMidgame.
FirstChooses == hist.choosers \subseteq {1}
==================================================================================
