-------------------------------- MODULE MCPieces ---------------------------------
(* A board of four squares, two pixels wide: a pawn of this player's, which here    *)
(* may go anywhere, and a piece of the opponent's.                                  *)
EXTENDS Pieces, TLC

CONSTANTS pawn, enemy

MCHome == pawn :> <<0, 0>> @@ enemy :> <<1, 1>>

\* In each square the pixel over which the dragged image is exactly on the square, or
\* one beside it, and a pixel beside the board. (No image is dragged over the left
\* or the upper edge of the screen, where a coordinate wraps to 65535: its way back
\* would be as many frames long.)
MCSpots == {<<1, 1>>, <<3, 1>>, <<1, 3>>, <<3, 3>>, <<2, 3>>, <<4, 1>>}
==================================================================================
