------------------------------ MODULE MCFipLink -------------------------------
(* Constants for FipLink.                                                   *)
EXTENDS FipLink
Start == P(\h08, 7, 5)
Stop  == P(\h09, 5, 3)
Pass  == P(\h3D, 9, 7)
Full  == P(\h3D, 126, 124)
(* Packets that are not what they say, or not for one byte of length.       *)
Odd == {P(\h18, 12, 11), P(\h1F, 24, 17), P(\h74, 28, 1), P(\h86, 127, 125),
        P(\h28, 129, 127), PEx(\h51, 139, 137), [P(1, 9, 7) EXCEPT !.second = HeaderByteMTI2]}
Plan(readers, scripts) == [reader : readers, script : scripts]
LinkPlans ==
  Plan({"blocking"}, {<<r, s>> : r \in Packers, s \in {Start}}
                     \cup {<<r, Full, s>> : r \in Odd \cup {Start, Stop}, s \in {Start, Pass}})
  \cup Plan({"timed"}, {<<Start, Stop>>, <<Pass, Stop>>})
  \cup Plan({"batch"}, {<<Start, Pass, Stop>>, <<Stop, Full>>}
                      \cup {<<r, Stop>> : r \in {x \in Odd : x.len < MAX_SLFIP_PAYLOAD}})
==============================================================================
