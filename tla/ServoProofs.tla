----------------------------- MODULE ServoProofs -----------------------------
(***************************************************************************)
(* Proofs about ServoMotorController, for any joints, commands and number  *)
(* of deaths of the process: the saved pose is the remembered one, and a   *)
(* joint jumps only from outside the range of a byte or after a bad        *)
(* restart.                                                                *)
(***************************************************************************)
EXTENDS ServoMotorController, TLAPS

\* The angle of _currentJointAngles is a byte.
LEMMA ByteType == ASSUME NEW n \in Int PROVE Byte(n) \in 0 .. 255
  BY DEF Byte

\* A command of control_motion gives angles to joints.
LEMMA CommandProperties ==
    ASSUME NEW angles \in Commands, NEW j \in DOMAIN angles
    PROVE  j \in Joints /\ angles[j] \in Int
  BY CommandsAssumption

\* Every step keeps the types.
LEMMA NextTypeOK == IInv /\ [Next]_vars => TypeOK'
  <1>. SUFFICES ASSUME IInv, [Next]_vars PROVE TypeOK'
    OBVIOUS
  <1>. USE BoundsAssumption DEF IInv, TypeOK, MoveInv, moveVars, historyVars
  <1>1. ASSUME NEW e \in BOOLEAN, setEnable(e) PROVE TypeOK'
    BY <1>1 DEF setEnable
  <1>2. ASSUME NEW angles \in Commands, JointCommand(angles) PROVE TypeOK'
    <2>1. goal' \in [Joints -> Int]
      BY <1>2, CommandProperties DEF JointCommand
    <2>. QED  BY <1>2, <2>1 DEF JointCommand
  <1>3. CASE BeginMove
    <2>1. joint' \in Joints
      BY <1>3 DEF BeginMove, Joints
    <2>2. current[joint'] \in 0 .. 255 /\ angle' = current[joint']
      BY <1>3, <2>1 DEF BeginMove
    <2>3. angle' \in Int
      BY <2>2
    <2>. QED  BY <1>3, <2>1, <2>3 DEF BeginMove
  <1>4. CASE Step
    <2>1. goal[joint] \in Int /\ angle' \in Int
      BY <1>4 DEF Step, Toward
    <2>. QED  BY <1>4, <2>1 DEF Step
  <1>5. CASE Remember
    <2>1. Byte(angle) \in 0 .. 255 /\ joint \in Joints
      BY <1>5, ByteType DEF Remember
    <2>2. current' \in [Joints -> 0 .. 255]
      BY <1>5, <2>1 DEF Remember
    <2>3. lost' \subseteq Joints
      BY <1>5, <2>1 DEF Remember
    <2>4. file' \in {Cut, file} /\ pc' \in {"save", "loop"} /\ stale' \in BOOLEAN
      BY <1>5 DEF Remember
    <2>. QED  BY <1>5, <2>2, <2>3, <2>4 DEF Remember
  <1>6. CASE Save
    BY <1>6 DEF Save, SavedAngles
  <1>7. CASE EndMove
    <2>1. Byte(angle) \in 0 .. 255
      BY ByteType
    <2>2. current' \in [Joints -> 0 .. 255]
      BY <1>7, <2>1 DEF EndMove
    <2>. QED  BY <1>7, <2>2 DEF EndMove
  <1>8. CASE EndCommand
    BY <1>8 DEF EndCommand
  <1>9. CASE Crash
    BY <1>9 DEF Crash
  <1>10. CASE Restart
    BY <1>10, DefaultsAssumption DEF Restart, Loaded
  <1>11. CASE UNCHANGED vars
    BY <1>11 DEF vars
  <1>. QED
    BY <1>1, <1>2, <1>3, <1>4, <1>5, <1>6, <1>7, <1>8, <1>9, <1>10, <1>11 DEF Next

\* The file is changed only with what is remembered, and what is remembered is
\* changed only when the file is cut or could not be.
LEMMA NextFileInv == IInv /\ [Next]_vars => FileInv'
  <1>. SUFFICES ASSUME IInv, [Next]_vars PROVE FileInv'
    OBVIOUS
  <1>. USE DEF IInv, TypeOK, FileInv, moveVars, historyVars
  <1>1. CASE Remember
    BY <1>1 DEF Remember
  <1>2. CASE Save
    BY <1>2 DEF Save, SavedAngles
  <1>3. CASE EndMove
    <2>1. current' = current
      BY <1>3 DEF EndMove, MoveInv
    <2>. QED  BY <1>3, <2>1 DEF EndMove
  <1>4. CASE Restart
    BY <1>4 DEF Restart, Loaded
  <1>5. CASE UNCHANGED <<file, current, stale>>
    BY <1>5
  <1>. QED
    BY <1>1, <1>2, <1>3, <1>4, <1>5
    DEF Next, vars, setEnable, JointCommand, BeginMove, Step, EndCommand, Crash

\* A byte is its own lowest byte.
LEMMA ByteValue == ASSUME NEW n \in Bytes PROVE Byte(n) = n
  BY DEF Byte, Bytes

\* What setJointAngle starts from may be remembered of the output that it sets.
LEMMA StepRemembered ==
    ASSUME NEW a \in Int, NEW q \in {a - 1, a + 1},
           a > 255 => q > 255, a < 0 => q < 0
    PROVE  MayBeRemembered(Byte(a), q)
  <1>1. CASE q \in Bytes
    <2>1. Byte(a) = a
      BY <1>1, ByteValue DEF Bytes
    <2>. QED  BY <2>1 DEF MayBeRemembered, Distance
  <1>2. CASE q \notin Bytes
    <2>1. a \in q - 1 .. q + 1
      OBVIOUS
    <2>. QED  BY <1>2, <2>1 DEF MayBeRemembered
  <1>. QED  BY <1>1, <1>2

\* The byte of an angle may be remembered of the output at that angle.
LEMMA OutputRemembered ==
    ASSUME NEW a \in Int
    PROVE  MayBeRemembered(Byte(a), a)
  <1>1. CASE a \in Bytes
    <2>1. Byte(a) = a
      BY <1>1, ByteValue
    <2>. QED  BY <2>1 DEF MayBeRemembered, Distance
  <1>2. CASE a \notin Bytes
    <2>1. a \in a - 1 .. a + 1
      OBVIOUS
    <2>. QED  BY <1>2, <2>1 DEF MayBeRemembered
  <1>. QED  BY <1>1, <1>2

\* Every step keeps what setJointAngle knows of the joint that it moves.
LEMMA NextMoveInv == IInv /\ [Next]_vars => MoveInv'
  <1>. SUFFICES ASSUME IInv, [Next]_vars PROVE MoveInv'
    OBVIOUS
  <1>. USE DEF IInv, TypeOK, MoveInv, moveVars, historyVars
  <1>1. CASE BeginMove
    <2>1. joint' \in Joints
      BY <1>1 DEF BeginMove, Joints
    <2>2. angle' \in 0 .. 255 /\ current'[joint'] = angle'
      BY <1>1, <2>1 DEF BeginMove
    <2>3. Byte(angle') = angle' /\ angle' \in Bytes
      BY <2>2, ByteValue DEF Bytes
    <2>4. ~(angle' > 255) /\ ~(angle' < 0)
      BY <2>2
    <2>. QED  BY <1>1, <2>1, <2>2, <2>3, <2>4 DEF BeginMove
  <1>2. CASE Step
    <2>1. goal[joint] \in Int /\ goal[joint] # angle /\ angle' = Toward(goal[joint])
      BY <1>2 DEF Step
    <2>2. (angle' > 255 => goal[joint] >= angle') /\ (angle' < 0 => goal[joint] <= angle')
      BY <1>2, <2>1 DEF Step, Toward
    <2>. QED  BY <1>2, <2>2 DEF Step
  <1>3. CASE Remember
    BY <1>3 DEF Remember
  <1>4. CASE Save
    BY <1>4 DEF Save
  <1>5. CASE pc' \notin {"loop", "moved", "save"}
    BY <1>5
  <1>6. CASE UNCHANGED vars
    BY <1>6 DEF vars
  <1>. QED
    BY <1>1, <1>2, <1>3, <1>4, <1>5, <1>6
    DEF Next, setEnable, JointCommand, EndMove, EndCommand, Crash, Restart

\* No step takes the output of a joint far from what is remembered of it.
LEMMA NextPositionInv == IInv /\ [Next]_vars => PositionInv'
  <1>. SUFFICES ASSUME IInv, [Next]_vars, NEW j \in Joints, j \notin lost'
                PROVE  MayBeRemembered(current'[j], position'[j])
    BY DEF PositionInv
  <1>. USE DEF IInv, TypeOK, moveVars, historyVars
  <1>1. CASE Step
    <2>1. CASE j = joint
      <3>1. position'[j] = Toward(goal[joint]) /\ current'[j] = Byte(angle)
        BY <1>1, <2>1 DEF Step, MoveInv
      <3>2. /\ angle \in Int /\ goal[joint] \in Int
            /\ angle > 255 => goal[joint] >= angle
            /\ angle < 0 => goal[joint] <= angle
            /\ angle # goal[joint]
        BY <1>1, <2>1 DEF Step, MoveInv
      <3>3. /\ position'[j] \in {angle - 1, angle + 1}
            /\ angle > 255 => position'[j] > 255
            /\ angle < 0 => position'[j] < 0
        BY <3>1, <3>2 DEF Toward
      <3>. QED  BY <3>1, <3>2, <3>3, StepRemembered
    <2>2. CASE j # joint
      BY <1>1, <2>2 DEF Step, PositionInv
    <2>. QED  BY <2>1, <2>2
  <1>2. CASE Remember
    <2>1. CASE j = joint
      <3>1. position'[j] = angle /\ current'[j] = Byte(angle) /\ angle \in Int
        BY <1>2, <2>1 DEF Remember, MoveInv
      <3>. QED  BY <3>1, OutputRemembered
    <2>2. CASE j # joint
      BY <1>2, <2>2 DEF Remember, PositionInv
    <2>. QED  BY <2>1, <2>2
  <1>3. CASE EndMove
    <2>1. current' = current
      BY <1>3 DEF EndMove, MoveInv
    <2>. QED  BY <1>3, <2>1 DEF EndMove, PositionInv
  <1>4. CASE Restart
    <2>1. file # Cut /\ ~stale /\ j \notin lost
      BY <1>4 DEF Restart
    <2>. QED  BY <1>4, <2>1 DEF Restart, Loaded, FileInv, PositionInv
  <1>5. CASE UNCHANGED <<position, current, lost>>
    BY <1>5 DEF PositionInv
  <1>. QED
    BY <1>1, <1>2, <1>3, <1>4, <1>5
    DEF Next, vars, setEnable, JointCommand, BeginMove, Save, EndCommand, Crash

\* The invariant that the theorems rest on.
LEMMA ServoInvariance == Spec => []IInv
  <1>1. Init => IInv
    <2>1. ASSUME Init PROVE TypeOK /\ FileInv /\ MoveInv
      <3>1. Defaults \in [Joints -> Int]
        BY DefaultsAssumption
      <3>2. moves \in 0 .. MaxMoves /\ crashes \in 0 .. MaxCrashes /\ angle \in Int
        BY <2>1, BoundsAssumption DEF Init
      <3>3. TypeOK
        BY <2>1, <3>1, <3>2, DefaultsAssumption DEF Init, TypeOK
      <3>. QED  BY <2>1, <3>3 DEF Init, FileInv, MoveInv
    <2>2. ASSUME Init, NEW j \in Joints PROVE MayBeRemembered(current[j], position[j])
      BY <2>2, DefaultsAssumption DEF Init, Distance, MayBeRemembered
    <2>. QED  BY <2>1, <2>2 DEF IInv, PositionInv, TypeOK
  <1>2. IInv /\ [Next]_vars => IInv'
    BY NextTypeOK, NextFileInv, NextMoveInv, NextPositionInv DEF IInv
  <1>. QED  BY <1>1, <1>2, PTL DEF Spec

\* The controller and its file keep their types through every death of the
\* process: whatever angle is commanded, _currentJointAngles holds bytes.
THEOREM ServoTypeCorrect == Spec => []TypeOK
  <1>1. IInv => TypeOK
    BY DEF IInv
  <1>. QED  BY <1>1, ServoInvariance, PTL

\* Between commands the file that saveJointAngles wrote is the remembered pose,
\* unless a save failed or was cut short.
THEOREM SavedPoseCorrect == Spec => []SavedPoseMatches
  <1>1. IInv => SavedPoseMatches
    BY DEF IInv, FileInv, SavedPoseMatches
  <1>. QED  BY <1>1, ServoInvariance, PTL

\* setJointAngle never makes a joint jump, in one process or in the next, but
\* from an angle that no byte can hold, of which only the byte is remembered, and
\* after a restart from a file that was cut short or out of date.
THEOREM JointsNeverJump == Spec => NoJump
  <1>1. ASSUME IInv, [Next]_vars, NEW j \in Joints \ lost
        PROVE  WithinReach(position'[j], position[j])
    <2>. USE <1>1 DEF IInv, TypeOK, moveVars, historyVars
    <2>0. position[j] \in Int
      OBVIOUS
    <2>1. CASE Step
      <3>1. CASE j = joint
        <4>1. position'[j] = Toward(goal[joint]) /\ current[j] = Byte(angle)
          BY <2>1, <3>1 DEF Step, MoveInv
        <4>2. /\ angle \in Int /\ goal[joint] \in Int
              /\ angle \notin Bytes => position[j] = angle
          BY <2>1, <3>1 DEF Step, MoveInv
        <4>3. MayBeRemembered(current[j], position[j])
          BY DEF PositionInv
        <4>4. position'[j] \in {angle - 1, angle + 1}
          BY <4>1, <4>2 DEF Toward
        <4>5. CASE angle \notin Bytes
          BY <4>2, <4>4, <4>5 DEF Distance, WithinReach
        <4>6. CASE angle \in Bytes
          <5>1. current[j] = angle /\ angle \in position'[j] - 1 .. position'[j] + 1
            BY <4>1, <4>2, <4>4, <4>6, ByteValue
          <5>2. CASE position[j] \notin Bytes
            BY <4>3, <5>1, <5>2 DEF WithinReach
          <5>3. CASE position[j] \in Bytes
            <6>1. Distance(position[j], angle) <= 1
              BY <4>3, <5>1, <5>3 DEF MayBeRemembered
            <6>. QED  BY <2>0, <4>2, <4>4, <6>1 DEF Distance, WithinReach
          <5>. QED  BY <5>2, <5>3
        <4>. QED  BY <4>5, <4>6
      <3>2. CASE j # joint
        <4>1. position'[j] = position[j]
          BY <2>1, <3>2 DEF Step
        <4>. QED  BY <2>0, <4>1 DEF Distance, WithinReach
      <3>. QED  BY <3>1, <3>2
    <2>2. CASE UNCHANGED position
      BY <2>0, <2>2 DEF Distance, WithinReach
    <2>. QED
      BY <1>1, <2>1, <2>2
      DEF Next, vars, setEnable, JointCommand, BeginMove, Remember, Save, EndMove,
          EndCommand, Crash, Restart
  <1>2. IInv /\ [Next]_vars
          => [\A j \in Joints \ lost : WithinReach(position'[j], position[j])]_vars
    BY <1>1
  <1>. QED  BY <1>2, ServoInvariance, PTL DEF Spec, NoJump
=============================================================================
