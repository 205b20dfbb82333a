----------------------------- MODULE GpsrHello -----------------------------
(***************************************************************************)
(* A HELLO on the wire: what SendHello puts into the packet, byte by byte, *)
(* and what RecvGpsr takes out of it.  The two do not use the headers in   *)
(* the same order, so the layout decides what the neighbour table holds.   *)
(*                                                                         *)
(* Positions are the points of the grid of the simulations, a multiple of  *)
(* Grain (100 m) in each coordinate.  A coordinate is a double, copied     *)
(* into the packet as its eight bytes in memory, least significant first.  *)
(***************************************************************************)
EXTENDS GpsrPtable, Sequences

\* The points of the grid.
Lines     == {Grain * c : c \in 0 .. 4}
GridPoint == [x : Lines, y : Lines]

\* The leading bytes of 0.0, 100.0, 200.0, 300.0 and 400.0; the others are 0.
Leading == << <<0, 0, 0>>, <<0, 89, 64>>, <<0, 105, 64>>, <<192, 114, 64>>, <<0, 121, 64>> >>

Image(c) == <<0, 0, 0, 0, 0>> \o Leading[c + 1]

\* The double in eight bytes.  With a leading byte of 0 it is less than 10^-200: a
\* trifle.
Coordinate(b) ==
  CASE b = Image(0) -> 0
    [] b # Image(0) /\ b[8] = 0 -> 1
    [] OTHER -> Grain * (CHOOSE c \in 1 .. 4 : Image(c) = b)

GPSR_HELLO    == 0
GPSR_POSITION == 1

\* Packet::AddHeader puts a header in front of what the packet holds.
AddHeader(packet, header) == header \o packet

TypeHeader(type) == <<type>>
HelloHeader(p)   == Image(p.x \div Grain) \o Image(p.y \div Grain)

\* SendHello adds the type header and then the position.
HelloPacket(p) == AddHeader(AddHeader(<<>>, TypeHeader(GPSR_HELLO)), HelloHeader(p))

\* RecvGpsr removes the type header first, and takes the rest for a position only if
\* the type is GPSR_HELLO.
IsHello(packet) == Head(packet) = GPSR_HELLO
HelloPosition(packet) ==
  [x |-> Coordinate(SubSeq(packet, 2, 9)), y |-> Coordinate(SubSeq(packet, 10, 17))]
=============================================================================
