----------------------------- MODULE MCSandbox -----------------------------
EXTENDS Sandbox

\* Place 1 is the list's alone, at 2 the button covers it, the object stands
\* behind 2 and 3, and 4 is empty.
MCPlaces == 1..4
MCBehind == [p \in MCPlaces |-> IF p \in {2, 3} THEN {"cube"} ELSE {}]
MCSelectSpot == {2}
MCLoads == {{"mesh", "material"}, {}}
=============================================================================
