--------------------------- MODULE MCMotionControl ---------------------------
(* Instances of MotionControl for TLC. *)
EXTENDS MotionControl

\* config/joint_angles.json
MCFullUp == [rightArm |-> 72, leftArm |-> 109, neck |-> 120, headUpDown |-> 0,
             headLeftRight |-> 0, eyeRight |-> 170, eyeLeft |-> 0]
MCFullDown == [rightArm |-> 10, leftArm |-> 180, neck |-> 0, headUpDown |-> 70,
               headLeftRight |-> 180, eyeRight |-> 140, eyeLeft |-> 40]
MCIdle == [rightArm |-> 10, leftArm |-> 180, neck |-> 60, headUpDown |-> 10,
           headLeftRight |-> 90, eyeRight |-> 150, eyeLeft |-> 30]

\* The ends of the four sectors, and angles beyond one turn; strength 100 would
\* set the chip's "always off" bit, and 96 to 99 are not cut back; the counts of
\* negative strengths come round at -101.
MCBodySticks ==
    [angle : {-200, -180, -135, -90, -46, 0, 44, 45, 134, 180, 225, 360, 450},
     strength : {-150, -101, -100, -1, 0, 1, 50, 99, 100, 101}]
MCHeadSticks == [angle : {0, 45, 90, 180, 225, 270, 405}, strength : {-9, 1, 4}]
\* Percentages within an arm's range, and ones that take it out on either side.
MCPercents == {-20, 0, 33, 100, 150}
\* Poses near the ends of the head's ranges and outside them, and joints that the
\* terminal sets beyond half a turn.
MCPoses == {[headUpDown |-> 3, neck |-> 118, headLeftRight |-> 2],
            [headUpDown |-> 90, neck |-> 2, headLeftRight |-> 178],
            [headUpDown |-> 68, neck |-> 140, headLeftRight |-> 90],
            [headLeftRight |-> 250], [leftArm |-> 14]}
=============================================================================
