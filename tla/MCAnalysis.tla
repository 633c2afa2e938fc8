----------------------------- MODULE MCAnalysis -----------------------------
(***************************************************************************)
(* Small instances of AnalysisSafety for TLC.                              *)
(***************************************************************************)
EXTENDS AnalysisSafety

At(x, y) == [x |-> x, y |-> y]

-----------------------------------------------------------------------------
(* Traffic pictures: two flights around FL410, head-on, in trail, crossing *)
(* and in one place, at half and full speed; and some of three flights.    *)

Reported(id, places, levels, headings, speeds, rates) ==
  [id : {id}, pos : places, fl : levels, hdg : headings, gs : speeds, vr : rates]

PicturesOfTwo ==
  {<<a, b>> :
     a \in Reported("A", {At(0, 0)}, {400, 412}, {0, 90}, {240, 480}, {-1500, 0, 1500}),
     b \in Reported("B", {At(0, 0), At(1200, 0), At(2880, 1320), At(9000, 0), At(1500, -1500)},
                    {400, 409, 421}, {0, 180, 270, 450}, {240, 480}, {0, 1500})}

PicturesOfThree ==
  {<<a, b, c>> :
     a \in Reported("A", {At(0, 0)}, {350}, {90}, {480}, {0}),
     b \in Reported("B", {At(3000, 0), At(9000, 0)}, {350, 360}, {270}, {480}, {0}),
     c \in Reported("C", {At(1800, 0), At(0, 6000)}, {350}, {90, 180}, {0, 480}, {0, 600})}

AllPictures == PicturesOfTwo \cup PicturesOfThree \cup {<<>>} \cup
  {<<a>> : a \in Reported("A", {At(0, 0)}, {350}, {90}, {480}, {0})}

-----------------------------------------------------------------------------
(* Routes of up to three legs, with a node filed twice, legs without a     *)
(* Mach of their own, and no cruise Mach at all; volumes across them.      *)

Node(x, y, fl, speed) == [pos |-> At(x, y), fl |-> fl, speed |-> speed]

Routes ==
  [cruise : {0, 480}, legs :
     {<<>>,
      <<Node(0, 0, 300, 480)>>,
      <<Node(0, 0, 300, 480), Node(1200, 0, 340, 0)>>,
      <<Node(0, 0, 300, 0), Node(960, 0, 340, 240), Node(960, 960, 360, 0)>>,
      <<Node(0, 0, 300, 0), Node(0, 0, 340, 0), Node(960, 0, 360, 480)>>,
      <<Node(0, 0, 300, 0), Node(0, 0, 340, 480), Node(960, 0, 360, 480)>>,
      <<Node(0, 0, 300, 480), Node(960, 0, 340, 480), Node(960, 0, 360, 480)>>,
      <<Node(0, 0, 300, 480), Node(480, 0, 340, 240), Node(0, 0, 340, 480),
        Node(0, 480, 360, 480)>>}]

Box(x0, y0, x1, y1) == <<At(x0, y0), At(x1, y0), At(x1, y1), At(x0, y1)>>

Volume(poly, floor, ceiling) ==
  [poly |-> poly, floor |-> floor, ceiling |-> ceiling, cap |-> 1]

Volumes ==
  {Volume(Box(-60, -60, 60, 60), 0, 450), Volume(Box(420, -60, 540, 60), 0, 450),
   Volume(Box(900, -60, 1500, 60), 350, 450), Volume(Box(-60, 360, 2000, 2000), 0, 450),
   Volume(Box(1080, -60, 2000, 60), 340, 340)}

AllFlights ==
  [route : Routes, volume : Volumes, step : {0, 6, 12}, horizon : {0, 30, 36, 60}]

-----------------------------------------------------------------------------
(* Sectors: two neighbours, two stacked ones that share a level, and one   *)
(* inside another, on a grid of half degrees.                              *)

Sector(poly, floor, ceiling, cap) ==
  [poly |-> poly, floor |-> floor, ceiling |-> ceiling, cap |-> cap]

West == Box(0, 0, 2, 4)
East1 == <<At(2, 4), At(2, 0), At(4, 1), At(4, 3)>>

Airs ==
  {[s \in {"W", "E"} |-> Sector(IF s = "W" THEN West ELSE East1, 100, 450, 1)],
   [s \in {"L", "U"} |-> IF s = "L" THEN Sector(West, 0, 350, 1) ELSE Sector(West, 350, 450, 1)],
   [s \in {"W", "E", "A"} |->
      CASE s = "W" -> Sector(West, 100, 450, 0) [] s = "E" -> Sector(East1, 100, 450, 2)
        [] OTHER -> Sector(Box(0, 0, 4, 4), 100, 450, 1)],
   [s \in {"P"} |-> Sector(<<At(0, 0), At(4, 4)>>, 0, 450, 1)]}

Spots == {At(1, 1), At(2, 2), At(3, 2), At(4, 2), At(5, 5)}

Plane(plan, pos, fl) == [plan |-> plan, pos |-> pos, fl |-> fl]

AllTraffic ==
  [air : Airs,
   positions : {<<>>} \cup
     {<<Plane("A", p, f), Plane("B", q, 350), Plane("C", q, 200)>> :
        p \in Spots, q \in Spots, f \in {50, 350}}]

-----------------------------------------------------------------------------
(* Queues of up to four flights before a fix.                              *)

Dists == {0, 10, 20, 29, 40}

AllQueues ==
  [required : {0, 10},
   spacing : {<<>>} \cup {<<[plan |-> 1, dist |-> d]>> : d \in Dists} \cup
     {[n \in 1 .. 4 |-> [plan |-> n, dist |-> d[n]]] : d \in [1 .. 4 -> Dists]}]
=============================================================================
