---------------------------- MODULE MotionProofs ----------------------------
(***************************************************************************)
(* Proofs about MotionControl, for any joystick, percentage, pose, range   *)
(* of the joints and number of commands: the wheels do what the joystick   *)
(* says, a servo leaves its interval only for a command that says so, and  *)
(* the head goes where its joystick points.                                *)
(***************************************************************************)
EXTENDS MotionControl, TLAPS

RegisterBytes == [low : 0 .. 255, high : 0 .. 255]
Directions == {"forward", "backward"}
Sense(direction) == IF direction = "forward" THEN 1 ELSE -1

-----------------------------------------------------------------------------
(* The registers of the PWM chip *)

\* setDutyCycle writes two bytes, and the chip plays back the count that they
\* were cut from as long as it leaves the "always off" bit alone.
LEMMA BytesType == ASSUME NEW count \in Int PROVE OffBytes(count) \in RegisterBytes
  BY DEF OffBytes, RegisterBytes

LEMMA BytesOutput ==
    ASSUME NEW count \in Nat, count <= 4095
    PROVE  Output(OffBytes(count)) = count
  <1>1. count \div 256 \in 0 .. 15 /\ count = 256 * (count \div 256) + (count % 256)
    OBVIOUS
  <1>2. OffBytes(count).low = count % 256 /\ OffBytes(count).high = count \div 256
    BY <1>1 DEF OffBytes
  <1>3. (count \div 256) \div 16 = 0 /\ (count \div 256) % 16 = count \div 256
    BY <1>1
  <1>. QED  BY <1>1, <1>2, <1>3 DEF Output

\* A speed that control_body caps is played back, and not as "always off"; the
\* count of a negative one down to -100 is "always off".
LEMMA PercentOutput ==
    ASSUME NEW duty \in Int, duty <= 99
    PROVE  /\ PercentBytes(duty) \in RegisterBytes
           /\ duty > 0 => Output(PercentBytes(duty)) # 0
           /\ duty \in -100 .. 0 => Output(PercentBytes(duty)) = 0
  <1>. DEFINE ticks == Truncated(duty * 4096, 100)
  <1>1. ticks \in Int /\ PercentBytes(duty) = OffBytes(ticks)
    BY DEF Truncated, PercentBytes
  <1>2. PercentBytes(duty) \in RegisterBytes
    <2>. HIDE DEF ticks
    <2>. QED  BY <1>1, BytesType
  <1>3. CASE duty >= 0
    <2>1. ticks \in Nat /\ ticks <= 4095 /\ (ticks = 0 <=> duty = 0)
      BY <1>3 DEF Truncated
    <2>. HIDE DEF ticks
    <2>2. Output(OffBytes(ticks)) = ticks
      BY <2>1, BytesOutput
    <2>. QED  BY <1>1, <1>2, <1>3, <2>1, <2>2
  <1>4. CASE duty \in -100 .. -1
    <2>1. ticks \in -4096 .. -1
      <3>1. (-(duty * 4096)) \div 100 \in 1 .. 4096
        BY <1>4
      <3>. QED  BY <1>4, <3>1 DEF Truncated
    <2>. HIDE DEF ticks
    <2>2. (ticks \div 256) % 256 \in 240 .. 255
      BY <2>1
    <2>3. OffBytes(ticks).high \in 240 .. 255
      BY <2>2 DEF OffBytes
    <2>4. (OffBytes(ticks).high \div 16) % 2 = 1
      BY <2>3
    <2>. QED  BY <1>1, <1>2, <1>4, <2>4 DEF Output
  <1>5. CASE duty < -100
    BY <1>2, <1>5
  <1>. QED  BY <1>3, <1>4, <1>5

LEMMA LevelOutput ==
    /\ LevelBytes(0) \in RegisterBytes /\ Output(LevelBytes(0)) = 0
    /\ LevelBytes(1) \in RegisterBytes /\ Output(LevelBytes(1)) = 4095
  BY BytesType, BytesOutput DEF LevelBytes

\* The pulse of an angle of half a turn lies within 500 to 2500 us.
LEMMA PulseOutput ==
    ASSUME NEW angle \in Degrees
    PROVE  Output(PulseBytes(angle)) \in 102 .. 512
  <1>1. Truncated(500 * 180 + angle * 2000, 180) \in 500 .. 2500
    BY DEF Degrees, Truncated
  <1>. DEFINE count == Truncated(Truncated(500 * 180 + angle * 2000, 180) * 4096, 20000)
  <1>2. count \in 102 .. 512
    <2>. DEFINE pulse == Truncated(500 * 180 + angle * 2000, 180)
    <2>. HIDE DEF pulse
    <2>1. pulse \in 500 .. 2500
      BY <1>1 DEF pulse
    <2>2. Truncated(pulse * 4096, 20000) \in 102 .. 512
      BY <2>1 DEF Truncated
    <2>. QED  BY <2>2 DEF pulse
  <1>3. PulseBytes(angle) = OffBytes(count)
    BY DEF PulseBytes
  <1>. HIDE DEF count
  <1>. QED  BY <1>2, <1>3, BytesOutput

-----------------------------------------------------------------------------
(* The wheels *)

\* run() writes bytes into the registers of every channel.
LEMMA RunType ==
    ASSUME NEW right \in Directions, NEW left \in Directions, NEW speed \in Int, speed <= 99
    PROVE  Run(right, left, speed) \in [Channels -> RegisterBytes]
  BY PercentOutput, LevelOutput DEF Run, PinBytes, Opposite, Directions, Channels

\* run() turns each wheel in its direction, the left one although it is mounted
\* the other way round, unless the chip plays nothing back for the speed.
LEMMA RunWheels ==
    ASSUME NEW right \in Directions, NEW left \in Directions, NEW speed,
           off' = Run(right, left, speed)
    PROVE  IF Output(PercentBytes(speed)) = 0 THEN WheelsRest'
           ELSE RightWheel' = Sense(right) /\ LeftWheel' = Sense(left)
  <1>1. off'["PWMA"] = PercentBytes(speed) /\ off'["PWMB"] = PercentBytes(speed)
    BY DEF Run
  <1>3. /\ right = "forward" => Output(off'["BIN1"]) = 0 /\ Output(off'["BIN2"]) = 4095
        /\ right = "backward" => Output(off'["BIN1"]) = 4095 /\ Output(off'["BIN2"]) = 0
    BY LevelOutput DEF Run, PinBytes
  <1>4. /\ left = "backward" => Output(off'["AIN1"]) = 0 /\ Output(off'["AIN2"]) = 4095
        /\ left = "forward" => Output(off'["AIN1"]) = 4095 /\ Output(off'["AIN2"]) = 0
    BY LevelOutput DEF Run, PinBytes, Opposite
  <1>5. RightWheel' = IF Output(PercentBytes(speed)) = 0 THEN 0 ELSE Sense(right)
    BY <1>1, <1>3 DEF RightWheel, Wheel, Sense, Directions
  <1>6. LeftWheel' = IF Output(PercentBytes(speed)) = 0 THEN 0 ELSE Sense(left)
    <2>1. Wheel("PWMA", "AIN1", "AIN2")'
            = IF Output(PercentBytes(speed)) = 0 THEN 0 ELSE -Sense(left)
      BY <1>1, <1>4 DEF Wheel, Sense, Directions
    <2>. QED  BY <2>1 DEF LeftWheel, Sense
  <1>. QED  BY <1>5, <1>6 DEF WheelsRest

\* The sector that Normalized puts a direction of the joystick into.
LEMMA Sectors ==
    ASSUME NEW angle \in Int, angle >= -180
    PROVE  /\ Normalized(angle) \in -180 .. 179
           /\ Apart(angle, 90) < 45 => Normalized(angle) \in 45 .. 134
           /\ Apart(angle, 270) < 45 => Normalized(angle) \in -135 .. -46
           /\ Apart(angle, 0) < 45 => Normalized(angle) \in -45 .. 44
           /\ Apart(angle, 180) < 45
                => Normalized(angle) \notin (45 .. 134) \cup (-45 .. 44) \cup (-135 .. -46)
  <1>1. Normalized(angle) = ((angle + 180) % 360) - 180
    BY DEF Normalized, CRemainder
  <1>. QED  BY <1>1 DEF Apart, Least

\* control_body's speed.
LEMMA CappedType ==
    ASSUME NEW strength \in Int
    PROVE  /\ Capped(strength) \in Int /\ Capped(strength) <= 99
           /\ strength < 100 => Capped(strength) = strength
           /\ strength > 0 => Capped(strength) > 0
  BY DEF Capped

\* After a command of the body joystick the wheels do what it says.
LEMMA BodyFollows ==
    ASSUME NEW s \in [angle : Int, strength : Int], control_body(s.angle, s.strength), TypeOK
    PROVE  WheelsFollowStick' /\ off' \in [Channels -> RegisterBytes]
  <1>. DEFINE speed == Capped(s.strength)
              n == Normalized(s.angle)
  <1>1. /\ stick'.angle = s.angle /\ s.angle \in Int
        /\ stick'.strength = s.strength /\ s.strength \in Int
    BY DEF control_body
  <1>2. /\ speed \in Int /\ speed <= 99
        /\ s.strength < 100 => speed = s.strength
        /\ s.strength > 0 => speed > 0
    BY CappedType
  <1>3. CASE s.angle = 0 /\ s.strength = 0
    <2>1. off' = StopWheels
      BY <1>3 DEF control_body
    <2>2. PercentBytes(0) \in RegisterBytes /\ Output(PercentBytes(0)) = 0
      BY PercentOutput
    <2>3. off \in [Channels -> RegisterBytes]
      BY DEF TypeOK, RegisterBytes
    <2>4. off' \in [Channels -> RegisterBytes]
      BY <2>1, <2>2, <2>3 DEF StopWheels
    <2>5. Output(off'["PWMA"]) = 0 /\ Output(off'["PWMB"]) = 0
      BY <2>1, <2>2, <2>3 DEF StopWheels, Channels
    <2>6. WheelsRest'
      <3>1. Wheel("PWMA", "AIN1", "AIN2")' = 0 /\ Wheel("PWMB", "BIN1", "BIN2")' = 0
        BY <2>5 DEF Wheel
      <3>. QED  BY <3>1 DEF WheelsRest, RightWheel, LeftWheel
    <2>. QED  BY <1>1, <1>3, <2>4, <2>6 DEF WheelsFollowStick
  <1>4. CASE ~(s.angle = 0 /\ s.strength = 0)
    <2>1. off' = Drive(n, speed)
      BY <1>4 DEF control_body
    <2>2. \E right, left \in Directions :
             /\ off' = Run(right, left, speed)
             /\ n \in 45 .. 134 => right = "forward" /\ left = "forward"
             /\ n \in -45 .. 44 => right = "forward" /\ left = "backward"
             /\ n \in -135 .. -46 => right = "backward" /\ left = "backward"
             /\ n \notin (45 .. 134) \cup (-45 .. 44) \cup (-135 .. -46)
                  => right = "backward" /\ left = "forward"
      <3>. HIDE DEF n, speed
      <3>1. CASE n \in 45 .. 134
        BY <2>1, <3>1 DEF Drive, Directions
      <3>2. CASE n \in -45 .. 44
        BY <2>1, <3>2 DEF Drive, Directions
      <3>3. CASE n \in -135 .. -46
        BY <2>1, <3>3 DEF Drive, Directions
      <3>4. CASE n \notin (45 .. 134) \cup (-45 .. 44) \cup (-135 .. -46)
        BY <2>1, <3>4 DEF Drive, Directions
      <3>. QED  BY <3>1, <3>2, <3>3, <3>4
    <2>3. PICK right, left \in Directions : <2>2!(right, left)
      BY <2>2
    <2>4. off' \in [Channels -> RegisterBytes]
      BY <1>2, <2>3, RunType
    <2>5. IF Output(PercentBytes(speed)) = 0 THEN WheelsRest'
          ELSE RightWheel' = Sense(right) /\ LeftWheel' = Sense(left)
      <3>. HIDE DEF speed
      <3>. QED  BY <2>3, RunWheels
    <2>6. /\ s.strength > 0 => Output(PercentBytes(speed)) # 0
          /\ s.strength \in -100 .. 0 => Output(PercentBytes(speed)) = 0
      <3>. HIDE DEF speed
      <3>. QED  BY <1>1, <1>2, PercentOutput
    <2>7. ASSUME s.angle >= -180, RightWheel' = Sense(right) /\ LeftWheel' = Sense(left)
          PROVE  AsStickSays'
      <3>. HIDE DEF n, speed
      <3>1. /\ Apart(s.angle, 90) < 45 => n \in 45 .. 134
            /\ Apart(s.angle, 270) < 45 => n \in -135 .. -46
            /\ Apart(s.angle, 0) < 45 => n \in -45 .. 44
            /\ Apart(s.angle, 180) < 45
                 => n \notin (45 .. 134) \cup (-45 .. 44) \cup (-135 .. -46)
        BY <2>7, Sectors DEF n
      <3>. QED  BY <1>1, <2>3, <2>7, <3>1 DEF AsStickSays, Sense
    <2>. HIDE DEF n, speed
    <2>8. WheelsFollowStick'
      BY <1>1, <2>5, <2>6, <2>7 DEF WheelsFollowStick
    <2>. QED  BY <2>4, <2>8
  <1>. QED  BY <1>3, <1>4

-----------------------------------------------------------------------------
(* The joints *)

\* The ends of the bytes and of half a turn.
Tops == {180, 255}

\* A step towards a limit stays within half a turn, and within a byte.
LEMMA LowerType ==
    ASSUME NEW top \in Tops, NEW a \in 0 .. top, NEW low \in Degrees, NEW speed \in Nat \ {0}
    PROVE  Lower(a, low, speed) \in 0 .. top
  BY DEF Lower, Greatest, Degrees, Tops

LEMMA RaiseType ==
    ASSUME NEW top \in Tops, NEW a \in 0 .. top, NEW high \in Degrees, NEW speed \in Nat \ {0}
    PROVE  Raise(a, high, speed) \in 0 .. top
  BY DEF Raise, Least, Degrees, Tops

\* It comes nearer to the limit or ends there, and if the limit is one end of a
\* range, it is no further out of the range.
Closer(b, a, end) ==
    Greatest(b - end, end - b) = 0 \/ Greatest(b - end, end - b) < Greatest(a - end, end - a)
NoFurtherOut(b, a, low, high) ==
    Greatest(0, Greatest(low - b, b - high)) <= Greatest(0, Greatest(low - a, a - high))

LEMMA LowerCloser ==
    ASSUME NEW a \in Bytes, NEW low \in Degrees, NEW speed \in Nat \ {0}
    PROVE  /\ Closer(Lower(a, low, speed), a, low)
           /\ \A high \in Degrees : low <= high => NoFurtherOut(Lower(a, low, speed), a, low, high)
  BY DEF Lower, Greatest, Degrees, Bytes, Closer, NoFurtherOut

LEMMA RaiseCloser ==
    ASSUME NEW a \in Bytes, NEW high \in Degrees, NEW speed \in Nat \ {0}
    PROVE  /\ Closer(Raise(a, high, speed), a, high)
           /\ \A low \in Degrees : low <= high => NoFurtherOut(Raise(a, high, speed), a, low, high)
  BY DEF Raise, Least, Greatest, Degrees, Bytes, Closer, NoFurtherOut

LEMMA SameNoFurther ==
    ASSUME NEW a \in Bytes, NEW low \in Degrees, NEW high \in Degrees
    PROVE  NoFurtherOut(a, a, low, high)
  BY DEF NoFurtherOut, Greatest, Degrees, Bytes

\* Where the head is, the ends of its two ranges, and how far it is out of them.
LEMMA HeadRanges ==
    ASSUME joint \in [Joints -> Bytes]
    PROVE  /\ joint["headUpDown"] \in Bytes /\ joint["neck"] \in Bytes
           /\ joint["headLeftRight"] \in Bytes
           /\ FullUp["headUpDown"] \in Degrees /\ FullDown["headUpDown"] \in Degrees
           /\ FullUp["neck"] \in Degrees /\ FullDown["neck"] \in Degrees
           /\ FullUp["headUpDown"] <= FullDown["headUpDown"]
           /\ FullDown["neck"] <= FullUp["neck"]
  BY JointsAssumption DEF Joints

LEMMA HeadOutside ==
    ASSUME NEW x
    PROVE  /\ Outside("headUpDown", x) =
                 Greatest(0, Greatest(FullUp["headUpDown"] - x, x - FullDown["headUpDown"]))
           /\ Outside("neck", x) =
                 Greatest(0, Greatest(FullDown["neck"] - x, x - FullUp["neck"]))
  <1>1. /\ FullUp["headUpDown"] \in Int /\ FullDown["headUpDown"] \in Int
        /\ FullUp["neck"] \in Int /\ FullDown["neck"] \in Int
    BY JointsAssumption DEF Joints, Degrees
  <1>2. FullUp["headUpDown"] <= FullDown["headUpDown"] /\ FullDown["neck"] <= FullUp["neck"]
    BY JointsAssumption
  <1>3. /\ Least(FullUp["headUpDown"], FullDown["headUpDown"]) = FullUp["headUpDown"]
        /\ Greatest(FullUp["headUpDown"], FullDown["headUpDown"]) = FullDown["headUpDown"]
    BY <1>1, <1>2 DEF Least, Greatest
  <1>4. /\ Least(FullUp["neck"], FullDown["neck"]) = FullDown["neck"]
        /\ Greatest(FullUp["neck"], FullDown["neck"]) = FullUp["neck"]
    BY <1>1, <1>2 DEF Least, Greatest
  <1>. QED  BY <1>3, <1>4 DEF Outside

LEMMA SpeedsType ==
    ASSUME NEW strength \in Int, NEW speed \in Speeds(strength) PROVE speed \in Nat \ {0}
  BY DEF Speeds, Least, Greatest

\* Two opposite directions exclude each other.
LEMMA OneDirection ==
    ASSUME NEW angle \in Int
    PROVE  ~(Up(angle) /\ Down(angle)) /\ ~(Right(angle) /\ Left(angle))
  BY DEF Up, Down, Right, Left

\* Where the head joystick sends each joint.
LEMMA HeadMoves ==
    ASSUME NEW angle \in Int, NEW up, NEW across, joint \in [Joints -> Bytes],
           NEW target, target = HeadTarget(angle, up, across)
    PROVE  /\ target = [joint EXCEPT !["headUpDown"] = target["headUpDown"],
                                     !["neck"] = target["neck"],
                                     !["headLeftRight"] = target["headLeftRight"]]
           /\ Up(angle) =>
                 /\ target["headUpDown"] = Lower(joint["headUpDown"], FullUp["headUpDown"], up)
                 /\ target["neck"] = Raise(joint["neck"], FullUp["neck"], up)
           /\ Down(angle) =>
                 /\ target["headUpDown"] = Raise(joint["headUpDown"], FullDown["headUpDown"], up)
                 /\ target["neck"] = Lower(joint["neck"], FullDown["neck"], up)
           /\ ~Up(angle) /\ ~Down(angle) =>
                 /\ target["headUpDown"] = joint["headUpDown"]
                 /\ target["neck"] = joint["neck"]
           /\ Right(angle) =>
                 target["headLeftRight"] = Lower(joint["headLeftRight"], 0, across)
           /\ Left(angle) =>
                 target["headLeftRight"] = Raise(joint["headLeftRight"], 180, across)
           /\ ~Right(angle) /\ ~Left(angle) =>
                 target["headLeftRight"] = joint["headLeftRight"]
  <1>1. ~(Up(angle) /\ Down(angle)) /\ ~(Right(angle) /\ Left(angle))
    BY OneDirection
  <1>. DEFINE nodded == CASE Up(angle) -> head_up(joint, up)
                          [] Down(angle) -> head_down(joint, up)
                          [] OTHER -> joint
  <1>2. /\ nodded = [joint EXCEPT !["headUpDown"] = nodded["headUpDown"],
                                  !["neck"] = nodded["neck"]]
        /\ Up(angle) =>
              /\ nodded["headUpDown"] = Lower(joint["headUpDown"], FullUp["headUpDown"], up)
              /\ nodded["neck"] = Raise(joint["neck"], FullUp["neck"], up)
        /\ Down(angle) =>
              /\ nodded["headUpDown"] = Raise(joint["headUpDown"], FullDown["headUpDown"], up)
              /\ nodded["neck"] = Lower(joint["neck"], FullDown["neck"], up)
        /\ ~Up(angle) /\ ~Down(angle) =>
              /\ nodded["headUpDown"] = joint["headUpDown"]
              /\ nodded["neck"] = joint["neck"]
    <2>1. CASE Up(angle)
      BY <1>1, <2>1 DEF head_up, Joints
    <2>2. CASE Down(angle)
      BY <1>1, <2>2 DEF head_down, Joints
    <2>3. CASE ~Up(angle) /\ ~Down(angle)
      BY <2>3 DEF Joints
    <2>. QED  BY <2>1, <2>2, <2>3
  <1>3. target = CASE Right(angle) -> head_right(nodded, across)
                   [] Left(angle) -> head_left(nodded, across)
                   [] OTHER -> nodded
    BY DEF HeadTarget
  <1>. HIDE DEF nodded
  <1>4. CASE Right(angle)
    BY <1>1, <1>2, <1>3, <1>4 DEF head_right, Joints
  <1>5. CASE Left(angle)
    BY <1>1, <1>2, <1>3, <1>5 DEF head_left, Joints
  <1>6. CASE ~Right(angle) /\ ~Left(angle)
    BY <1>2, <1>3, <1>6 DEF Joints
  <1>. QED  BY <1>4, <1>5, <1>6

\* A command of the head joystick keeps every joint within a byte, and within
\* half a turn if it is there.
LEMMA HeadType ==
    ASSUME NEW angle \in Int, NEW strength \in Int, NEW up \in Speeds(strength),
           NEW across \in Speeds(strength), joint \in [Joints -> Bytes],
           NEW target, target = HeadTarget(angle, up, across)
    PROVE  /\ DOMAIN target = Joints /\ target = [j \in Joints |-> target[j]]
           /\ \A j \in Joints, top \in Tops : joint[j] \in 0 .. top => target[j] \in 0 .. top
  <1>1. up \in Nat \ {0} /\ across \in Nat \ {0}
    BY SpeedsType
  <1>2. /\ FullUp["headUpDown"] \in Degrees /\ FullDown["headUpDown"] \in Degrees
        /\ FullUp["neck"] \in Degrees /\ FullDown["neck"] \in Degrees
        /\ 0 \in Degrees /\ 180 \in Degrees
    BY HeadRanges DEF Degrees
  <1>3. target = [joint EXCEPT !["headUpDown"] = target["headUpDown"],
                               !["neck"] = target["neck"],
                               !["headLeftRight"] = target["headLeftRight"]]
    BY HeadMoves
  <1>4. ASSUME NEW top \in Tops, joint["headUpDown"] \in 0 .. top
        PROVE  target["headUpDown"] \in 0 .. top
    <2>1. CASE Up(angle)
      <3>1. target["headUpDown"] = Lower(joint["headUpDown"], FullUp["headUpDown"], up)
        BY <2>1, HeadMoves
      <3>. QED  BY <1>1, <1>2, <1>4, <3>1, LowerType
    <2>2. CASE Down(angle)
      <3>1. target["headUpDown"] = Raise(joint["headUpDown"], FullDown["headUpDown"], up)
        BY <2>2, HeadMoves
      <3>. QED  BY <1>1, <1>2, <1>4, <3>1, RaiseType
    <2>3. CASE ~Up(angle) /\ ~Down(angle)
      BY <1>4, <2>3, HeadMoves
    <2>. QED  BY <2>1, <2>2, <2>3
  <1>5. ASSUME NEW top \in Tops, joint["neck"] \in 0 .. top
        PROVE  target["neck"] \in 0 .. top
    <2>1. CASE Up(angle)
      <3>1. target["neck"] = Raise(joint["neck"], FullUp["neck"], up)
        BY <2>1, HeadMoves
      <3>. QED  BY <1>1, <1>2, <1>5, <3>1, RaiseType
    <2>2. CASE Down(angle)
      <3>1. target["neck"] = Lower(joint["neck"], FullDown["neck"], up)
        BY <2>2, HeadMoves
      <3>. QED  BY <1>1, <1>2, <1>5, <3>1, LowerType
    <2>3. CASE ~Up(angle) /\ ~Down(angle)
      BY <1>5, <2>3, HeadMoves
    <2>. QED  BY <2>1, <2>2, <2>3
  <1>6. ASSUME NEW top \in Tops, joint["headLeftRight"] \in 0 .. top
        PROVE  target["headLeftRight"] \in 0 .. top
    <2>1. CASE Right(angle)
      <3>1. target["headLeftRight"] = Lower(joint["headLeftRight"], 0, across)
        BY <2>1, HeadMoves
      <3>. QED  BY <1>1, <1>2, <1>6, <3>1, LowerType
    <2>2. CASE Left(angle)
      <3>1. target["headLeftRight"] = Raise(joint["headLeftRight"], 180, across)
        BY <2>2, HeadMoves
      <3>. QED  BY <1>1, <1>2, <1>6, <3>1, RaiseType
    <2>3. CASE ~Right(angle) /\ ~Left(angle)
      BY <1>6, <2>3, HeadMoves
    <2>. QED  BY <2>1, <2>2, <2>3
  <1>7. DOMAIN target = Joints /\ target = [j \in Joints |-> target[j]]
    BY <1>3 DEF Joints
  <1>8. ASSUME NEW j \in Joints, NEW top \in Tops, joint[j] \in 0 .. top
        PROVE  target[j] \in 0 .. top
    <2>1. CASE j \in {"headUpDown", "neck", "headLeftRight"}
      BY <1>4, <1>5, <1>6, <1>8, <2>1
    <2>2. CASE j \notin {"headUpDown", "neck", "headLeftRight"}
      BY <1>3, <1>8, <2>2
    <2>. QED  BY <2>1, <2>2
  <1>. QED  BY <1>7, <1>8

\* Where the joints are after a move: a byte of each target is remembered, and
\* the joints that stay within half a turn are where they are remembered to be.
LEMMA MoveType ==
    ASSUME TypeOK, NEW target, MoveTo(target), \A j \in Joints : target[j] \in Int
    PROVE  joint' \in [Joints -> Bytes] /\ position' \in [Joints -> Int]
  <1>1. \A a \in Int : a % 256 \in Bytes
    BY DEF Bytes
  <1>. QED  BY <1>1 DEF MoveTo, TypeOK

LEMMA MoveWithin ==
    ASSUME TypeOK, NEW target, MoveTo(target), NEW j \in Joints,
           position[j] = joint[j], target[j] \in Degrees
    PROVE  position'[j] = joint'[j] /\ joint'[j] \in Degrees
  <1>1. target[j] % 256 = target[j]
    BY DEF Degrees
  <1>. QED  BY <1>1 DEF MoveTo

\* A percentage of 0 to 100 stays within half a turn.
LEMMA ScaledType ==
    ASSUME NEW percent \in Int, NEW angle \in Scaled(percent)
    PROVE  angle \in Int /\ (percent \in 0 .. 100 => angle \in Degrees)
  <1>1. CASE percent > 0
    BY <1>1 DEF Scaled, Truncated, Degrees
  <1>2. CASE percent = 0
    BY <1>2 DEF Scaled, Truncated, Degrees
  <1>3. CASE percent < 0
    BY <1>3 DEF Scaled, Truncated
  <1>. QED  BY <1>1, <1>2, <1>3

\* Every step keeps the inductive invariant.
LEMMA NextIInv == IInv /\ [Next]_vars => IInv'
  <1>. SUFFICES ASSUME IInv, [Next]_vars PROVE IInv'
    OBVIOUS
  <1>1. /\ TypeOK /\ WheelsFollowStick
        /\ \A j \in Joints \ beyond : position[j] = joint[j] /\ joint[j] \in Degrees
    BY DEF IInv
  \* A command that moves joints, and leaves the registers and the body joystick alone.
  <1>2. ASSUME NEW target, MoveTo(target),
               UNCHANGED <<enabled, off, stick>>, obeyed < MaxCommands, obeyed' = obeyed + 1,
               headStick' \in {s.angle : s \in HeadSticks} \cup {NoAngle},
               beyond' \subseteq Joints, beyond \subseteq beyond',
               \A j \in Joints : target[j] \in Int,
               \A j \in Joints \ beyond' : target[j] \in Degrees
        PROVE  IInv'
    <2>1. WheelsFollowStick'
      BY <1>1, <1>2
      DEF WheelsFollowStick, AsStickSays, WheelsRest, RightWheel, LeftWheel, Wheel
    <2>2. TypeOK'
      <3>1. joint' \in [Joints -> Bytes] /\ position' \in [Joints -> Int]
        BY <1>1, <1>2, MoveType
      <3>. QED  BY <1>1, <1>2, <3>1, InputsAssumption DEF TypeOK
    <2>3. ASSUME NEW j \in Joints \ beyond'
          PROVE  position'[j] = joint'[j] /\ joint'[j] \in Degrees
      BY <1>1, <1>2, <2>3, MoveWithin
    <2>. QED  BY <2>1, <2>2, <2>3 DEF IInv
  <1>4. ASSUME NEW s \in BodySticks, control_body(s.angle, s.strength) PROVE IInv'
    <2>1. s \in [angle : Int, strength : Int]
      BY InputsAssumption
    <2>2. WheelsFollowStick' /\ off' \in [Channels -> RegisterBytes]
      BY <1>1, <1>4, <2>1, BodyFollows
    <2>3. stick' = s
      BY <1>4, <2>1 DEF control_body
    <2>4. TypeOK'
      BY <1>1, <1>4, <2>2, <2>3, InputsAssumption DEF control_body, TypeOK, RegisterBytes
    <2>. QED  BY <1>1, <1>4, <2>2, <2>4 DEF control_body, IInv
  <1>5. ASSUME NEW s \in HeadSticks, NEW up \in Speeds(s.strength),
               NEW across \in Speeds(s.strength),
               control_head(s.angle, s.strength, up, across)
        PROVE  IInv'
    <2>1. s.angle \in Int /\ s.strength \in Int
      BY InputsAssumption
    <2>2. PICK target : target = HeadTarget(s.angle, up, across)
      OBVIOUS
    <2>3. \A j \in Joints : joint[j] \in Bytes
      BY <1>1 DEF TypeOK
    <2>4. \A j \in Joints, top \in Tops : joint[j] \in 0 .. top => target[j] \in 0 .. top
      BY <1>1, <2>1, <2>2, HeadType DEF TypeOK
    <2>5. \A j \in Joints : target[j] \in Int
      BY <2>3, <2>4 DEF Bytes, Tops
    <2>6. \A j \in Joints \ beyond : target[j] \in Degrees
      BY <1>1, <2>4 DEF Degrees, Tops
    <2>7. MoveTo(target) /\ beyond' = beyond /\ beyond \subseteq Joints
      BY <1>1, <1>5, <2>2 DEF control_head, TypeOK
    <2>. QED  BY <1>2, <1>5, <2>5, <2>6, <2>7 DEF control_head
  <1>6. ASSUME NEW angles, DOMAIN angles \subseteq Joints, SetJoints(angles),
               beyond' \subseteq Joints, beyond \subseteq beyond',
               \A j \in DOMAIN angles : angles[j] \in Int,
               \A j \in DOMAIN angles \ beyond' : angles[j] \in Degrees
        PROVE  IInv'
    <2>. DEFINE target == [j \in Joints |-> IF j \in DOMAIN angles THEN angles[j] ELSE joint[j]]
    <2>1. \A j \in Joints : joint[j] \in Int
      BY <1>1 DEF TypeOK, Bytes
    <2>2. \A j \in Joints : target[j] \in Int
      BY <1>6, <2>1
    <2>3. \A j \in Joints \ beyond' : target[j] \in Degrees
      BY <1>1, <1>6
    <2>4. MoveTo(target)
      BY <1>6 DEF SetJoints
    <2>. HIDE DEF target
    <2>. QED  BY <1>2, <1>6, <2>2, <2>3, <2>4 DEF SetJoints
  <1>7. ASSUME NEW j \in {"leftArm", "rightArm"}, NEW p \in Percents, control_arm(j, p)
        PROVE  IInv'
    <2>1. PICK a \in Scaled(p) : SetJoints([i \in {j} |-> a])
      BY <1>7 DEF control_arm
    <2>2. a \in Int /\ (p \in 0 .. 100 => a \in Degrees)
      BY <2>1, ScaledType, InputsAssumption
    <2>3. beyond' = IF p \in 0 .. 100 THEN beyond ELSE beyond \cup {j}
      BY <1>7 DEF control_arm
    <2>4. j \in Joints /\ beyond \subseteq Joints
      BY <1>1 DEF Joints, TypeOK
    <2>. QED  BY <1>6, <2>1, <2>2, <2>3, <2>4
  <1>8. ASSUME NEW j \in {"eyeLeft", "eyeRight"}, NEW up \in BOOLEAN, control_eye(j, up)
        PROVE  IInv'
    <2>1. (IF up THEN FullUp[j] ELSE FullDown[j]) \in Degrees /\ Degrees \subseteq Int
      BY JointsAssumption DEF Joints, Degrees
    <2>2. j \in Joints /\ beyond \subseteq Joints /\ beyond' = beyond
      BY <1>1, <1>8 DEF Joints, TypeOK, control_eye
    <2>. QED  BY <1>6, <1>8, <2>1, <2>2 DEF control_eye
  <1>9. ASSUME NEW p \in Poses, control_joints(p) PROVE IInv'
    <2>1. DOMAIN p \subseteq Joints /\ p \in [DOMAIN p -> Bytes]
      BY InputsAssumption
    <2>2. \A j \in DOMAIN p : p[j] \in Int
      BY <2>1 DEF Bytes
    <2>3. beyond' = beyond \cup {j \in DOMAIN p : p[j] \notin Degrees} /\ beyond \subseteq Joints
      BY <1>1, <1>9 DEF control_joints, TypeOK
    <2>. QED  BY <1>6, <1>9, <2>1, <2>2, <2>3 DEF control_joints
  <1>10. ASSUME NEW e \in BOOLEAN, setEnable(e) PROVE IInv'
    <2>1. WheelsFollowStick'
      BY <1>1, <1>10
      DEF setEnable, WheelsFollowStick, AsStickSays, WheelsRest, RightWheel, LeftWheel, Wheel
    <2>. QED  BY <1>1, <1>10, <2>1 DEF setEnable, TypeOK, IInv
  <1>11. CASE UNCHANGED vars
    <2>1. WheelsFollowStick'
      BY <1>1, <1>11
      DEF vars, WheelsFollowStick, AsStickSays, WheelsRest, RightWheel, LeftWheel, Wheel
    <2>. QED  BY <1>1, <1>11, <2>1 DEF vars, TypeOK, IInv
  <1>. QED  BY <1>4, <1>5, <1>7, <1>8, <1>9, <1>10, <1>11 DEF Next

\* The invariant that the theorems rest on.
LEMMA MotionInvariance == Spec => []IInv
  <1>1. ASSUME Init PROVE IInv
    <2>1. TypeOK
      <3>1. Idle \in [Joints -> Bytes] /\ Idle \in [Joints -> Int]
        BY JointsAssumption DEF Bytes
      <3>2. off \in [Channels -> [low : 0 .. 255, high : 0 .. 255]]
        BY <1>1 DEF Init, Zero
      <3>3. obeyed \in 0 .. MaxCommands
        BY <1>1, InputsAssumption DEF Init
      <3>. QED  BY <1>1, <3>1, <3>2, <3>3 DEF Init, TypeOK
    <2>2. Wheel("PWMA", "AIN1", "AIN2") = 0 /\ Wheel("PWMB", "BIN1", "BIN2") = 0
      BY <1>1 DEF Init, Zero, Wheel, Output, Channels
    <2>3. WheelsFollowStick
      BY <1>1, <2>2 DEF Init, AtRest, WheelsFollowStick, WheelsRest, RightWheel, LeftWheel
    <2>4. \A j \in Joints \ beyond : position[j] = joint[j] /\ joint[j] \in Degrees
      BY <1>1 DEF Init
    <2>. QED  BY <2>1, <2>3, <2>4 DEF IInv
  <1>. QED  BY <1>1, NextIInv, PTL DEF Spec

-----------------------------------------------------------------------------
(* The theorems *)

\* The registers hold bytes and the joints angles after any sequence of
\* commands of control_motion.
THEOREM MotionTypeCorrect == Spec => []TypeOK
  <1>1. IInv => TypeOK
    BY DEF IInv
  <1>. QED  BY <1>1, MotionInvariance, PTL

\* The wheels do what the body joystick says, for every angle from -180 degrees
\* on and every strength, negative ones too: control_body, DCMotorController and
\* the PWM driver together.
THEOREM WheelsObey == Spec => []WheelsFollowStick
  <1>1. IInv => WheelsFollowStick
    BY DEF IInv
  <1>. QED  BY <1>1, MotionInvariance, PTL

\* Whatever the ranges in the configuration and the commands are, control_motion
\* drives a servo outside its 500 to 2500 us only if a percentage outside 0 to
\* 100 or an angle beyond 180 degrees was once commanded for that joint.
THEOREM PulsesInInterval == Spec => []PulseInInterval
  <1>1. IInv => PulseInInterval
    BY PulseOutput DEF IInv, PulseInInterval
  <1>. QED  BY <1>1, MotionInvariance, PTL

\* The head goes where its joystick points and never further out of its range.
THEOREM HeadObeys == Spec => HeadFollowsStick
  <1>. DEFINE Nearer(j, end) == Away(j, end)' = 0 \/ Away(j, end)' < Away(j, end)
              Follows(a) ==
                  /\ \A j \in {"headUpDown", "neck"} :
                         /\ Outside(j, joint'[j]) <= Outside(j, joint[j])
                         /\ Up(a) => Nearer(j, FullUp[j])
                         /\ Down(a) => Nearer(j, FullDown[j])
                  /\ Right(a) => Nearer("headLeftRight", 0)
                  /\ Left(a) => Nearer("headLeftRight", 180)
                  /\ joint["headLeftRight"] \in Degrees => joint'["headLeftRight"] \in Degrees
  <1>1. ASSUME IInv, NEW s \in HeadSticks, NEW up \in Speeds(s.strength),
               NEW across \in Speeds(s.strength),
               control_head(s.angle, s.strength, up, across)
        PROVE  Follows(s.angle)
    <2>1. s.angle \in Int /\ s.strength \in Int /\ joint \in [Joints -> Bytes]
      BY <1>1, InputsAssumption DEF IInv, TypeOK
    <2>9. joint' = HeadTarget(s.angle, up, across)
      <3>1. PICK target : target = HeadTarget(s.angle, up, across)
        OBVIOUS
      <3>2. /\ target = [j \in Joints |-> target[j]]
            /\ \A j \in Joints : joint[j] \in 0 .. 255 => target[j] \in 0 .. 255
        BY <2>1, <3>1, HeadType DEF Tops
      <3>3. \A j \in Joints : target[j] % 256 = target[j]
        BY <2>1, <3>2 DEF Bytes
      <3>4. joint' = [j \in Joints |-> target[j] % 256]
        BY <1>1, <3>1 DEF control_head, MoveTo
      <3>. QED  BY <3>1, <3>2, <3>3, <3>4
    <2>2. up \in Nat \ {0} /\ across \in Nat \ {0}
      BY <2>1, SpeedsType
    <2>3. /\ joint["headUpDown"] \in Bytes /\ joint["neck"] \in Bytes
          /\ joint["headLeftRight"] \in Bytes
          /\ FullUp["headUpDown"] \in Degrees /\ FullDown["headUpDown"] \in Degrees
          /\ FullUp["neck"] \in Degrees /\ FullDown["neck"] \in Degrees
          /\ FullUp["headUpDown"] <= FullDown["headUpDown"]
          /\ FullDown["neck"] <= FullUp["neck"]
      BY <2>1, HeadRanges
    <2>4. /\ Outside("headUpDown", joint'["headUpDown"]) <= Outside("headUpDown", joint["headUpDown"])
          /\ Up(s.angle) => Nearer("headUpDown", FullUp["headUpDown"])
          /\ Down(s.angle) => Nearer("headUpDown", FullDown["headUpDown"])
      <3>1. CASE Up(s.angle)
        <4>1. joint'["headUpDown"] = Lower(joint["headUpDown"], FullUp["headUpDown"], up)
          BY <2>1, <2>9, <3>1, HeadMoves
        <4>2. Closer(joint'["headUpDown"], joint["headUpDown"], FullUp["headUpDown"])
          BY <2>2, <2>3, <4>1, LowerCloser
        <4>3. NoFurtherOut(joint'["headUpDown"], joint["headUpDown"], FullUp["headUpDown"], FullDown["headUpDown"])
          BY <2>2, <2>3, <4>1, LowerCloser
        <4>4. ~Down(s.angle)
          BY <2>1, <3>1, OneDirection
        <4>. QED  BY <4>2, <4>3, <4>4, HeadOutside DEF Closer, NoFurtherOut, Away
      <3>2. CASE Down(s.angle)
        <4>1. joint'["headUpDown"] = Raise(joint["headUpDown"], FullDown["headUpDown"], up)
          BY <2>1, <2>9, <3>2, HeadMoves
        <4>2. Closer(joint'["headUpDown"], joint["headUpDown"], FullDown["headUpDown"])
          BY <2>2, <2>3, <4>1, RaiseCloser
        <4>3. NoFurtherOut(joint'["headUpDown"], joint["headUpDown"], FullUp["headUpDown"], FullDown["headUpDown"])
          BY <2>2, <2>3, <4>1, RaiseCloser
        <4>4. ~Up(s.angle)
          BY <2>1, <3>2, OneDirection
        <4>. QED  BY <4>2, <4>3, <4>4, HeadOutside DEF Closer, NoFurtherOut, Away
      <3>3. CASE ~Up(s.angle) /\ ~Down(s.angle)
        <4>1. joint'["headUpDown"] = joint["headUpDown"]
          BY <2>1, <2>9, <3>3, HeadMoves
        <4>2. NoFurtherOut(joint["headUpDown"], joint["headUpDown"], FullUp["headUpDown"], FullDown["headUpDown"])
          BY <2>3, SameNoFurther
        <4>. QED  BY <3>3, <4>1, <4>2, HeadOutside DEF NoFurtherOut
      <3>. QED  BY <3>1, <3>2, <3>3
    <2>5. /\ Outside("neck", joint'["neck"]) <= Outside("neck", joint["neck"])
          /\ Up(s.angle) => Nearer("neck", FullUp["neck"])
          /\ Down(s.angle) => Nearer("neck", FullDown["neck"])
      <3>1. CASE Up(s.angle)
        <4>1. joint'["neck"] = Raise(joint["neck"], FullUp["neck"], up)
          BY <2>1, <2>9, <3>1, HeadMoves
        <4>2. Closer(joint'["neck"], joint["neck"], FullUp["neck"])
          BY <2>2, <2>3, <4>1, RaiseCloser
        <4>3. NoFurtherOut(joint'["neck"], joint["neck"], FullDown["neck"], FullUp["neck"])
          BY <2>2, <2>3, <4>1, RaiseCloser
        <4>4. ~Down(s.angle)
          BY <2>1, <3>1, OneDirection
        <4>. QED  BY <4>2, <4>3, <4>4, HeadOutside DEF Closer, NoFurtherOut, Away
      <3>2. CASE Down(s.angle)
        <4>1. joint'["neck"] = Lower(joint["neck"], FullDown["neck"], up)
          BY <2>1, <2>9, <3>2, HeadMoves
        <4>2. Closer(joint'["neck"], joint["neck"], FullDown["neck"])
          BY <2>2, <2>3, <4>1, LowerCloser
        <4>3. NoFurtherOut(joint'["neck"], joint["neck"], FullDown["neck"], FullUp["neck"])
          BY <2>2, <2>3, <4>1, LowerCloser
        <4>4. ~Up(s.angle)
          BY <2>1, <3>2, OneDirection
        <4>. QED  BY <4>2, <4>3, <4>4, HeadOutside DEF Closer, NoFurtherOut, Away
      <3>3. CASE ~Up(s.angle) /\ ~Down(s.angle)
        <4>1. joint'["neck"] = joint["neck"]
          BY <2>1, <2>9, <3>3, HeadMoves
        <4>2. NoFurtherOut(joint["neck"], joint["neck"], FullDown["neck"], FullUp["neck"])
          BY <2>3, SameNoFurther
        <4>. QED  BY <3>3, <4>1, <4>2, HeadOutside DEF NoFurtherOut
      <3>. QED  BY <3>1, <3>2, <3>3
    <2>6. joint["headLeftRight"] \in Degrees => joint'["headLeftRight"] \in Degrees
      <3>1. joint["headLeftRight"] \in 0 .. 180 => joint'["headLeftRight"] \in 0 .. 180
        BY <2>1, <2>9, HeadType DEF Tops, Joints
      <3>. QED  BY <3>1 DEF Degrees
    <2>7. /\ Right(s.angle) => Nearer("headLeftRight", 0)
          /\ Left(s.angle) => Nearer("headLeftRight", 180)
      <3>1. CASE Right(s.angle)
        <4>1. joint'["headLeftRight"] = Lower(joint["headLeftRight"], 0, across)
          BY <2>1, <2>9, <3>1, HeadMoves
        <4>2. 0 \in Degrees
          BY DEF Degrees
        <4>3. Closer(joint'["headLeftRight"], joint["headLeftRight"], 0)
          BY <2>2, <2>3, <4>1, <4>2, LowerCloser
        <4>4. ~Left(s.angle)
          BY <2>1, <3>1, OneDirection
        <4>. QED  BY <4>3, <4>4, <4>4 DEF Closer, Away
      <3>2. CASE Left(s.angle)
        <4>1. joint'["headLeftRight"] = Raise(joint["headLeftRight"], 180, across)
          BY <2>1, <2>9, <3>2, HeadMoves
        <4>2. 180 \in Degrees
          BY DEF Degrees
        <4>3. Closer(joint'["headLeftRight"], joint["headLeftRight"], 180)
          BY <2>2, <2>3, <4>1, <4>2, RaiseCloser
        <4>4. ~Right(s.angle)
          BY <2>1, <3>2, OneDirection
        <4>. QED  BY <4>3, <4>4, <4>4 DEF Closer, Away
      <3>3. CASE ~Right(s.angle) /\ ~Left(s.angle)
        BY <2>1, <2>3, <2>9, <3>3, HeadMoves
      <3>. QED  BY <3>1, <3>2, <3>3
    <2>. QED  BY <2>4, <2>5, <2>6, <2>7
  <1>2. ASSUME IInv, [Next]_vars PROVE [headStick' # NoAngle => Follows(headStick')]_vars
    <2>1. ASSUME NEW s \in HeadSticks, NEW up \in Speeds(s.strength),
                 NEW across \in Speeds(s.strength),
                 control_head(s.angle, s.strength, up, across)
          PROVE  Follows(headStick')
      <3>1. headStick' = s.angle
        BY <2>1 DEF control_head
      <3>2. Follows(s.angle)
        BY <1>1, <1>2, <2>1
      <3>. HIDE DEF Follows
      <3>. QED  BY <3>1, <3>2
    <2>2. CASE headStick' = NoAngle
      BY <2>2
    <2>3. CASE UNCHANGED vars
      BY <2>3
    <2>. HIDE DEF Follows
    <2>. QED
      BY <1>2, <2>1, <2>2, <2>3
      DEF Next, control_body, SetJoints, control_arm, control_eye, control_joints, setEnable
  <1>. QED  BY <1>2, MotionInvariance, PTL DEF Spec, HeadFollowsStick
=============================================================================
