---------------------------- MODULE MotionControl ----------------------------
(***************************************************************************)
(* What a command does to the wheels and to the head, arms and eyes:       *)
(* Robot::control_motion and the functions it calls (statemachines/        *)
(* robot.cpp), the direction and speed of the two wheels                   *)
(* (controllers/dc_motor_controller.cpp) and the registers of the PWM chip *)
(* that drives them (drivers/pca9685_driver.cpp).                          *)
(*                                                                         *)
(* _controllerMutex is held for a whole command, so a command is one step; *)
(* how setJointAngle moves a joint is the subject of ServoMotorController, *)
(* here it is where the joint ends.                                        *)
(***************************************************************************)
EXTENDS Integers

CONSTANTS
    FullUp, FullDown,  \* _jointPositionList: the two ends of a joint's range
    Idle,              \* the pose that the robot starts from
    BodySticks,        \* angle and strength of the body joystick
    HeadSticks,        \* angle and strength of the head joystick
    Percents,          \* what the remote control commands the arms to, unchecked
    Poses,             \* the poses that gestures and the terminal command
    MaxCommands        \* bound: commands obeyed

Joints == {"rightArm", "leftArm", "neck", "headUpDown", "headLeftRight", "eyeRight",
           "eyeLeft"}
Degrees == 0 .. 180
Bytes == 0 .. 255

\* The head goes up with a smaller angle and the neck with a larger one.
ASSUME JointsAssumption ==
    /\ FullUp \in [Joints -> Degrees] /\ FullDown \in [Joints -> Degrees]
    /\ FullUp["headUpDown"] <= FullDown["headUpDown"]
    /\ FullDown["neck"] <= FullUp["neck"]
    /\ Idle \in [Joints -> Bytes]
\* The numbers of a remote control are not checked; those of a pose are bytes.
ASSUME InputsAssumption ==
    /\ BodySticks \subseteq [angle : Int, strength : Int]
    /\ HeadSticks \subseteq [angle : Int, strength : Int] /\ Percents \subseteq Int
    /\ \A p \in Poses : DOMAIN p \subseteq Joints /\ p \in [DOMAIN p -> Bytes]
    /\ MaxCommands \in Nat

VARIABLES
    enabled,   \* _enable of the two motor controllers
    off,       \* the OFF registers of each channel: low and high byte
    joint,     \* _currentJointAngles
    position,  \* the angle for which the PWM output of each joint is set
    obeyed,    \* commands obeyed so far
    stick,     \* history: the body joystick that was last obeyed
    headStick, \* history: the angle of the head joystick if the last step obeyed one
    beyond     \* history: the joints that were ever commanded beyond half a turn

vars == <<enabled, off, joint, position, obeyed, stick, headStick, beyond>>

Channels == {"PWMA", "AIN1", "AIN2", "PWMB", "BIN1", "BIN2"}
Zero == [low |-> 0, high |-> 0]
AtRest == [angle |-> 0, strength |-> 0]
NoAngle == 1000

Init ==
    /\ enabled = FALSE
    /\ off = [c \in Channels |-> Zero]
    /\ joint = Idle /\ position = Idle /\ obeyed = 0
    /\ stick = AtRest /\ headStick = NoAngle
    /\ beyond = {j \in Joints : Idle[j] \notin Degrees}

-----------------------------------------------------------------------------
(* PCA9685Driver *)

\* The quotient of C++ is cut towards 0.
Truncated(a, b) == IF a >= 0 THEN a \div b ELSE -((-a) \div b)

\* Seeded fault: the low byte is not masked.
OffBytes_Unmasked(count) == [low |-> count, high |-> (count \div 256) % 256]

\* setDutyCycle: the ON registers are 0, the count is cut into two bytes.
OffBytes(count) == [low |-> count % 256, high |-> (count \div 256) % 256]

\* setDutyCyclePercent and setChannelLevel
PercentBytes(duty) == OffBytes(Truncated(duty * 4096, 100))
LevelBytes(level) == OffBytes(IF level = 1 THEN 4095 ELSE 0)

\* setDutyCyclePulse of the 500 to 2500 us that setJointAngle computes
PulseBytes(angle) ==
    OffBytes(Truncated(Truncated(500 * 180 + angle * 2000, 180) * 4096, 20000))

\* The chip (external): bit 4 of the high byte is "always off".
Output(bytes) ==
    IF (bytes.high \div 16) % 2 = 1 THEN 0 ELSE (bytes.high % 16) * 256 + bytes.low

-----------------------------------------------------------------------------
(* DCMotorController: run() with the left wheel turned round, setDirection *)

Opposite(direction) == IF direction = "forward" THEN "backward" ELSE "forward"

PinBytes(direction) ==
    IF direction = "forward" THEN <<LevelBytes(0), LevelBytes(1)>>
    ELSE <<LevelBytes(1), LevelBytes(0)>>

Run(right, left, speed) ==
    LET r == PinBytes(right)
        l == PinBytes(Opposite(left))
    IN  [PWMB |-> PercentBytes(speed), BIN1 |-> r[1], BIN2 |-> r[2],
         PWMA |-> PercentBytes(speed), AIN1 |-> l[1], AIN2 |-> l[2]]

\* stop() leaves the direction pins alone.
StopWheels == [off EXCEPT !["PWMA"] = PercentBytes(0), !["PWMB"] = PercentBytes(0)]

-----------------------------------------------------------------------------
(* Robot::control_body *)

\* The remainder of C++ has the sign of the dividend.
CRemainder(a, b) == IF a >= 0 THEN a % b ELSE -((-a) % b)

Normalized(angle) == CRemainder(angle + 180, 360) - 180

\* Seeded fault: only what exceeds 100 is cut back.
Capped_Above(strength) == IF strength > 100 THEN 95 ELSE strength
Capped(strength) == IF strength >= 100 THEN 95 ELSE strength

\* forward, turnRight, backward and turnLeft, as what each wheel does
Drive(angle, speed) ==
    CASE angle \in 45 .. 134 -> Run("forward", "forward", speed)
      [] angle \in -45 .. 44 -> Run("forward", "backward", speed)
      [] angle \in -135 .. -46 -> Run("backward", "backward", speed)
      [] OTHER -> Run("backward", "forward", speed)

control_body(angle, strength) ==
    /\ enabled /\ obeyed < MaxCommands
    /\ off' = IF angle = 0 /\ strength = 0 THEN StopWheels
              ELSE Drive(Normalized(angle), Capped(strength))
    /\ stick' = [angle |-> angle, strength |-> strength]
    /\ headStick' = NoAngle /\ obeyed' = obeyed + 1
    /\ UNCHANGED <<enabled, joint, position, beyond>>

-----------------------------------------------------------------------------
(* Robot::control_head, control_arm, control_eye and a pose *)

Least(a, b) == IF a <= b THEN a ELSE b
Greatest(a, b) == IF a >= b THEN a ELSE b

\* Seeded fault: the head is not stopped at the end of its range.
Lower_Free(angle, limit, speed) == angle - speed

\* A target angle, which stops at a limit.
Lower(angle, limit, speed) == Greatest(angle - speed, limit)
Raise(angle, limit, speed) == Least(angle + speed, limit)

head_up(pose, speed) ==
    [pose EXCEPT !["headUpDown"] = Lower(@, FullUp["headUpDown"], speed),
                 !["neck"] = Raise(@, FullUp["neck"], speed)]
head_down(pose, speed) ==
    [pose EXCEPT !["headUpDown"] = Raise(@, FullDown["headUpDown"], speed),
                 !["neck"] = Lower(@, FullDown["neck"], speed)]
head_left(pose, speed) == [pose EXCEPT !["headLeftRight"] = Raise(@, 180, speed)]
head_right(pose, speed) == [pose EXCEPT !["headLeftRight"] = Lower(@, 0, speed)]

\* The sine of a whole angle is beyond 0.001 unless it is 0.
Up(angle) == angle % 180 # 0 /\ angle % 360 < 180
Down(angle) == angle % 180 # 0 /\ angle % 360 > 180
\* Seeded fault: the cosine's sign is read the wrong way round.
Right_Mirrored(angle) == Down(angle + 90)
Right(angle) == Up(angle + 90)
Left(angle) == Down(angle + 90)

\* The speeds up and across are int(|sin|) and int(|cos|) times the strength,
\* of which only what exceeds 5 is cut; head_up and the others make them at least 1.
Speeds(strength) == 1 .. Greatest(1, IF strength < 0 THEN -strength ELSE Least(strength, 5))

\* setJointAngle: the joint ends at its target, of which a byte is remembered;
\* nothing is put out for a joint that is remembered to be there.
MoveTo(target) ==
    /\ joint' = [j \in Joints |-> target[j] % 256]
    /\ position' = [j \in Joints |-> IF target[j] = joint[j] THEN position[j] ELSE target[j]]

\* Where the stick sends the head.
HeadTarget(angle, up, across) ==
    LET nodded == CASE Up(angle) -> head_up(joint, up)
                    [] Down(angle) -> head_down(joint, up)
                    [] OTHER -> joint
    IN  CASE Right(angle) -> head_right(nodded, across)
          [] Left(angle) -> head_left(nodded, across)
          [] OTHER -> nodded

control_head(angle, strength, up, across) ==
    /\ enabled /\ obeyed < MaxCommands
    /\ ~(angle = 0 /\ strength = 0)
    /\ MoveTo(HeadTarget(angle, up, across))
    /\ headStick' = angle
    /\ obeyed' = obeyed + 1
    /\ UNCHANGED <<enabled, off, stick, beyond>>

SetJoints(angles) ==
    /\ enabled /\ obeyed < MaxCommands
    /\ MoveTo([j \in Joints |-> IF j \in DOMAIN angles THEN angles[j] ELSE joint[j]])
    /\ obeyed' = obeyed + 1 /\ headStick' = NoAngle
    /\ UNCHANGED <<enabled, off, stick>>

\* The arm is commanded in percent of half a turn; where the angle is a whole
\* number the floating-point product may fall just short of it, and is cut.
Scaled(percent) ==
    LET sign == IF percent > 0 THEN 1 ELSE IF percent < 0 THEN -1 ELSE 0
    IN  {Truncated(percent * 180, 100), Truncated(percent * 180 - sign, 100)}

control_arm(j, percent) ==
    /\ \E angle \in Scaled(percent) : SetJoints([i \in {j} |-> angle])
    /\ beyond' = IF percent \in 0 .. 100 THEN beyond ELSE beyond \cup {j}
control_eye(j, up) ==
    /\ SetJoints([i \in {j} |-> IF up THEN FullUp[j] ELSE FullDown[j]])
    /\ UNCHANGED beyond
control_joints(angles) ==
    /\ SetJoints(angles)
    /\ beyond' = beyond \cup {j \in DOMAIN angles : angles[j] \notin Degrees}

\* The states of the robot enable and disable the controllers.
setEnable(e) ==
    /\ enabled # e /\ enabled' = e
    /\ headStick' = NoAngle
    /\ UNCHANGED <<off, joint, position, obeyed, stick, beyond>>

\* control_motion: the first field that a command has is obeyed.
Next ==
    \/ \E s \in BodySticks : control_body(s.angle, s.strength)
    \/ \E s \in HeadSticks : \E up, across \in Speeds(s.strength) :
           control_head(s.angle, s.strength, up, across)
    \/ \E j \in {"leftArm", "rightArm"}, p \in Percents : control_arm(j, p)
    \/ \E j \in {"eyeLeft", "eyeRight"}, up \in BOOLEAN : control_eye(j, up)
    \/ \E p \in Poses : control_joints(p)
    \/ \E e \in BOOLEAN : setEnable(e)

Spec == Init /\ [][Next]_vars

-----------------------------------------------------------------------------
TypeOK ==
    /\ enabled \in BOOLEAN
    /\ off \in [Channels -> [low : 0 .. 255, high : 0 .. 255]]
    /\ joint \in [Joints -> Bytes] /\ position \in [Joints -> Int]
    /\ obeyed \in 0 .. MaxCommands
    /\ stick \in BodySticks \cup {AtRest}
    /\ headStick \in {s.angle : s \in HeadSticks} \cup {NoAngle}
    /\ beyond \subseteq Joints

\* What the registers make the wheels do: 1 forward, -1 backward, 0 at rest.
Wheel(pwm, pin1, pin2) ==
    IF Output(off[pwm]) = 0 THEN 0
    ELSE CASE Output(off[pin1]) = 0 /\ Output(off[pin2]) > 0 -> 1
           [] Output(off[pin1]) > 0 /\ Output(off[pin2]) = 0 -> -1
           [] OTHER -> 0
RightWheel == Wheel("PWMB", "BIN1", "BIN2")
LeftWheel == -Wheel("PWMA", "AIN1", "AIN2")

\* The distance of two directions on the circle.
Apart(a, b) == LET d == (a - b) % 360 IN Least(d, 360 - d)

\* Both wheels as the direction of the stick says: up goes ahead, down goes
\* back, and to either side they turn against each other.
AsStickSays ==
    /\ Apart(stick.angle, 90) < 45 => RightWheel = 1 /\ LeftWheel = 1
    /\ Apart(stick.angle, 270) < 45 => RightWheel = -1 /\ LeftWheel = -1
    /\ Apart(stick.angle, 0) < 45 => RightWheel = 1 /\ LeftWheel = -1
    /\ Apart(stick.angle, 180) < 45 => RightWheel = -1 /\ LeftWheel = 1
WheelsRest == RightWheel = 0 /\ LeftWheel = 0

\* The wheels do what the joystick says, for every strength and however many
\* turns its angle has made; without strength they rest.  No code checks the
\* strength: a negative one sets the "always off" bit and the wheels rest, and
\* below -100, where the count has come round, they may also turn, but as the
\* stick says.  Below -180 degrees Normalized does not normalise, and nothing is
\* said about the direction.
WheelsFollowStick ==
    /\ stick.strength \in -100 .. 0 => WheelsRest
    /\ stick.strength > 0 /\ stick.angle >= -180 => AsStickSays
    /\ stick.strength < -100 /\ stick.angle >= -180 => WheelsRest \/ AsStickSays

\* No joystick, gesture, eye or arm command drives a servo out of its 500 to 2500
\* us at 50 Hz, however many of them follow each other from whatever pose: a
\* joint leaves the interval only after an arm was commanded to a percentage
\* outside 0 to 100, or a pose or the terminal's set to more than 180 degrees, for
\* that very joint.  Neither is checked anywhere, and a later command need not
\* bring it back, because only a byte of its angle is remembered.
PulseInInterval ==
    \A j \in Joints \ beyond : Output(PulseBytes(position[j])) \in 102 .. 512

\* The inductive invariant: a joint that was always commanded within half a turn
\* is there, and is where it is remembered to be.
IInv ==
    /\ TypeOK /\ WheelsFollowStick
    /\ \A j \in Joints \ beyond : position[j] = joint[j] /\ joint[j] \in Degrees

\* How far a joint is outside the range of its two ends, and from an end.
Outside(j, angle) ==
    Greatest(0, Greatest(Least(FullUp[j], FullDown[j]) - angle,
                         angle - Greatest(FullUp[j], FullDown[j])))
Away(j, end) == Greatest(joint[j] - end, end - joint[j])

\* A head joystick brings each joint nearer to the end that it points at, or to
\* that end, and never further out of its range, wherever a pose had put it.
HeadFollowsStick ==
    [][headStick' # NoAngle =>
        LET a == headStick'
            Nearer(j, end) == Away(j, end)' = 0 \/ Away(j, end)' < Away(j, end)
        IN  /\ \A j \in {"headUpDown", "neck"} :
                   /\ Outside(j, joint'[j]) <= Outside(j, joint[j])
                   /\ Up(a) => Nearer(j, FullUp[j])
                   /\ Down(a) => Nearer(j, FullDown[j])
            /\ Right(a) => Nearer("headLeftRight", 0)
            /\ Left(a) => Nearer("headLeftRight", 180)
            /\ joint["headLeftRight"] \in Degrees => joint'["headLeftRight"] \in Degrees]_vars
=============================================================================
