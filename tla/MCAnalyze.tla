------------------------------ MODULE MCAnalyze ------------------------------
(* Instances of Analyze for TLC: frames of four pixels. *)
EXTENDS Analyze

\* The samples used, linearised.
LinearTable == [s \in {0, 50, 350, 500, 556, 650, 920, 950, 1000} |->
  CASE s = 0 -> 0 [] s = 50 -> 39 [] s = 350 -> 1005 [] s = 500 -> 2140 [] s = 556 -> 2696
    [] s = 650 -> 3801 [] s = 920 -> 8276 [] s = 950 -> 8900 [] s = 1000 -> 10000]

Grey(s) == [r |-> s, g |-> s, b |-> s]
SaturatedRedColour == [r |-> 1000, g |-> 0, b |-> 0]
Teal == [r |-> 0, g |-> 556, b |-> 556]  \* as light as the red
Fill(a, b, c, d) == <<a, b, c, d>>
Solid(c) == Fill(c, c, c, c)

\* Light over the dark, in full and in a corner; half a screen between two bright
\* states; half of it between red and teal.
Pictures == [f \in {"dark", "light", "corner", "white", "near_white", "red", "teal"} |->
  CASE f = "dark" -> Solid(Grey(50)) [] f = "light" -> Solid(Grey(950))
    [] f = "corner" -> Fill(Grey(650), Grey(50), Grey(50), Grey(50))
    [] f = "white" -> Fill(Grey(1000), Grey(1000), Grey(50), Grey(50))
    [] f = "near_white" -> Fill(Grey(920), Grey(920), Grey(50), Grey(50))
    [] f = "red" -> Fill(SaturatedRedColour, SaturatedRedColour, Grey(50), Grey(50))
    [] f = "teal" -> Fill(Teal, Teal, Grey(50), Grey(50))]

\* A master that flashes from the start, and one that does not.
SomeMasters == {<<"dark", "light", "dark", "light">>, <<"dark", "dark">>}

\* Half a screen alternates between red and teal while the other half brightens.
Dawn(c, s) == Fill(c, c, Grey(s), Grey(s))
SlowDawn == <<Dawn(SaturatedRedColour, 0), Dawn(Teal, 350),
              Dawn(SaturatedRedColour, 500), Dawn(Teal, 650)>>
=============================================================================
