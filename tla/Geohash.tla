------------------------------ MODULE Geohash ------------------------------
(***************************************************************************)
(* GeoService of Backend/src/geo/geo.service.ts: encode, one turn of its   *)
(* loop at a time, against decode.                                         *)
(*                                                                         *)
(* A coordinate is an integer of a grid twice as fine as the smallest cell,*)
(* so that every midpoint the code computes is on it, as it is exactly     *)
(* representable in the code's doubles.  A character is its index in BASE32.*)
(***************************************************************************)
EXTENDS Integers, Sequences

CONSTANTS
  Precision, \* characters of a hash
  None

VARIABLES
  point, \* what is encoded
  box,   \* minLat, maxLat, minLon, maxLon
  bits,  \* bits of the character under way
  hash   \* characters written

geoVars == <<point, box, bits, hash>>

Axes == {"lat", "lon"}
\* Of n bits those of the longitude are the first, the third and so on.
BitsOf(axis, n) == (IF axis = "lon" THEN n + 1 ELSE n) \div 2
Pow2[n \in Nat] == IF n = 0 THEN 1 ELSE 2 * Pow2[n - 1]
Width(axis) == Pow2[BitsOf(axis, 5 * Precision) + 1]
World == [axis \in Axes |-> [min |-> 0, max |-> Width(axis)]]
Points == {p \in [Axes -> 0..Width("lon")] : p["lat"] <= Width("lat")}

Mid(range) == (range.min + range.max) \div 2
Upper(range) == [range EXCEPT !.min = Mid(range)]
Lower(range) == [range EXCEPT !.max = Mid(range)]

GeoInit == point = None /\ box = World /\ bits = << >> /\ hash = << >>

Encode(p) == point = None /\ point' = p /\ UNCHANGED <<box, bits, hash>>

\* isEven: longitude and latitude take turns over the whole hash.
FaultyAxis(n) == IF (n % 5) % 2 = 0 THEN "lon" ELSE "lat"
Axis(n) == IF n % 2 = 0 THEN "lon" ELSE "lat"

CharIndex(bs) == 16 * bs[1] + 8 * bs[2] + 4 * bs[3] + 2 * bs[4] + bs[5]

\* One turn of the while loop of encode.
Bisect ==
  /\ point # None /\ Len(hash) < Precision
  /\ LET axis == Axis(5 * Len(hash) + Len(bits))
         bit == IF point[axis] > Mid(box[axis]) THEN 1 ELSE 0
         written == Append(bits, bit)
     IN /\ box' = [box EXCEPT ![axis] = IF bit = 1 THEN Upper(@) ELSE Lower(@)]
        /\ IF Len(written) = 5
           THEN hash' = Append(hash, CharIndex(written)) /\ bits' = << >>
           ELSE bits' = written /\ UNCHANGED hash
  /\ UNCHANGED point

\* decode: the cell of a hash; its centre is the answer.
BitOf(h, n) == (h[(n \div 5) + 1] \div Pow2[4 - (n % 5)]) % 2
DecodeStep(cell, n, h) ==
  LET axis == IF n % 2 = 0 THEN "lon" ELSE "lat" IN
  [cell EXCEPT ![axis] = IF BitOf(h, n) = 1 THEN Upper(@) ELSE Lower(@)]
Decode(h) ==
  LET cells[n \in 0..5 * Len(h)] ==
        IF n = 0 THEN World ELSE DecodeStep(cells[n - 1], n - 1, h)
  IN cells[5 * Len(h)]

GeoNext == Bisect \/ (\E p \in Points : Encode(p))
-----------------------------------------------------------------------------
GeoTypeOK ==
  /\ point \in Points \cup {None} /\ Len(bits) < 5 /\ Len(hash) <= Precision
  /\ \A axis \in Axes : 0 <= box[axis].min /\ box[axis].min < box[axis].max

\* The cell a gist is stored under contains the place it was posted at, decode
\* finds that very cell, and of the points on the border of two cells each has
\* one: the one below, except at the edge of the world.
CellsHoldTheirPoints ==
  point # None =>
    /\ \A axis \in Axes :
         /\ box[axis].min < point[axis] \/ box[axis].min = 0
         /\ box[axis].min <= point[axis] /\ point[axis] <= box[axis].max
    /\ bits = << >> => Decode(hash) = box
=============================================================================
