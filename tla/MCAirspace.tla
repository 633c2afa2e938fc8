----------------------------- MODULE MCAirspace -----------------------------
(***************************************************************************)
(* A small instance of AirspaceSafety for TLC.                             *)
(***************************************************************************)
EXTENDS AirspaceSafety

At(x, y) == [x |-> x, y |-> y]

\* In units of 100 nm: the second place is just near enough to the first for
\* a direct leg, the third is not.
Spots == {At(0, 0), At(3, 4), At(9, 0)}

SomeCourses == {<<"P">>, <<"P", "Q">>}

FiledRoutes == {<<"P">>, <<"P", "P">>, <<"P", "Q">>, <<"Q", "P">>, <<"P", "Q", "P">>}

\* Hundredths of a degree.  The square is cut in two by a slanted line, the
\* ends of which are listed among its corners.
Square == <<At(10, 0), At(40, 0), At(40, 40), At(30, 40), At(0, 40), At(0, 0)>>
WestHalf == <<At(30, 40), At(0, 40), At(0, 0), At(10, 0)>>
EastHalf == <<At(10, 0), At(40, 0), At(40, 40), At(30, 40)>>

Volume(poly, floor, ceiling) ==
  [poly |-> poly, floor |-> floor, ceiling |-> ceiling, cap |-> 1]

Box == Volume(Square, 100, 450)
CutUp == {Volume(WestHalf, 100, 450), Volume(EastHalf, 100, 450)}

\* Not a tile: a triangle beside the square, a little off its corner.
SomeVolumes == CutUp \cup {Volume(<<At(41, 41), At(60, 0), At(60, 60)>>, 100, 350)}

Asked ==
  [pos : {At(0, 0), At(10, 0), At(40, 0), At(20, 20), At(19, 20), At(30, 40),
          At(0, 40), At(40, 40), At(40, 20), At(-1, 20), At(55, 20)},
   fl : {99, 100, 450, 451}]
=============================================================================
