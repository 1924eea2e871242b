----------------------- MODULE MCServoMotorController -----------------------
(* Instances of ServoMotorController for TLC. *)
EXTENDS ServoMotorController, TLC

TwoJoints == <<"leftArm", "neck">>
ShortDefaults == ("leftArm" :> 253) @@ ("neck" :> 1)

\* A joint beyond either end of the range of uint8_t, and both joints.
AroundByteRange ==
    {"leftArm" :> 256, "neck" :> -1, ("leftArm" :> 252) @@ ("neck" :> 2)}
=============================================================================
