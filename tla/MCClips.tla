------------------------------- MODULE MCClips -------------------------------
(* Instances of Clips for TLC. *)
EXTENDS Clips

\* A level of 1 is at its floor, a darker state of 1 at its ceiling.
Sample(luma, darker, red, area, direction) ==
  [luma |-> luma, darker |-> darker, red |-> red, area |-> area, direction |-> direction]

Up == Sample(1, 0, 1, 1, "up")         \* counts for both rules
LumaDown == Sample(1, 0, 0, 2, "down")
RedDown == Sample(0, 0, 1, 1, "down")
Bright == Sample(1, 1, 0, 1, "down")   \* between two bright images
Small == Sample(1, 0, 1, 0, "up")
Flat == Sample(1, 0, 1, 1, "flat")
AllSamples == {Up, LumaDown, RedDown, Bright, Small, Flat}
Swings == {Up, LumaDown}

\* A quiet master, and one with a general flash from 0 and a red one from 2, for
\* a second of 3 with more than 2 transitions in it.
Quiet == <<At(0, Flat)>>
TwoBursts == <<At(0, LumaDown), At(1, LumaDown), At(2, Up), At(2, RedDown), At(3, RedDown)>>
QuietOrNot == {Quiet, TwoBursts}

\* For a second of 2 with more than 1 transition: a master with one burst, at 0.
EarlyBurst == {<<At(0, Up), At(1, LumaDown)>>}
=============================================================================
