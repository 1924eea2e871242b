------------------------- MODULE ServoMotorController -------------------------
(***************************************************************************)
(* The servo joints and their saved pose: the joint commands of            *)
(* Robot::control_motion, ServoMotorController::setJointAngle, which moves *)
(* a joint by one degree at a time and saves the pose after each, and the  *)
(* pose file, from which the next process resumes                          *)
(* (controllers/servo_motor_controller.cpp, statemachines/robot.cpp).      *)
(*                                                                         *)
(* The process may die at any point.  The PWM chip keeps its outputs, so   *)
(* the joints stay where they are.                                         *)
(***************************************************************************)
EXTENDS Integers, Sequences

CONSTANTS
    JointOrder, \* the joints, in the order in which control_motion looks at them
    Defaults,   \* the angles that initialize() starts from
    Commands,   \* the commands: the angles of one or several joints
    MaxMoves,   \* bound: commands
    MaxCrashes, \* bound: deaths of the process
    Cut         \* what the pose file holds between its truncation and its writing

Joints == {JointOrder[i] : i \in 1 .. Len(JointOrder)}

ASSUME DefaultsAssumption == Defaults \in [Joints -> 0 .. 255]
\* A percentage of the remote control, which nobody checks, may become any angle.
ASSUME CommandsAssumption ==
    \A angles \in Commands : DOMAIN angles \subseteq Joints /\ angles \in [DOMAIN angles -> Int]
ASSUME BoundsAssumption == MaxMoves \in Nat /\ MaxCrashes \in Nat

VARIABLES
    pc,       \* "idle", in a command, or "down" when there is no process
    enabled,  \* Controller::_enable
    current,  \* _currentJointAngles
    file,     \* what servo_joint_angles.json holds
    todo,     \* the joints of the command that are still to be moved
    joint,    \* the joint that setJointAngle moves, "none" when it does not run
    goal,     \* targetAngle of each joint of the command
    angle,    \* the local currentAngle of setJointAngle
    position, \* the angle for which the PWM output of each joint is set
    moves, crashes,
    stale,    \* history: the last attempt to save the pose failed
    lost      \* history: the joints whose angle this process does not know

moveVars == <<todo, joint, goal, angle>>
historyVars == <<moves, crashes, stale, lost>>
vars == <<pc, enabled, current, file, moveVars, position, historyVars>>

\* The process has resumed from the pose that an earlier one saved.
Init ==
    /\ pc = "idle" /\ enabled = FALSE
    /\ file = Defaults /\ current = Defaults
    /\ todo = {} /\ joint = "none" /\ goal = Defaults /\ angle = 0
    /\ position = Defaults
    /\ moves = 0 /\ crashes = 0
    /\ stale = FALSE
    /\ lost = {}

-----------------------------------------------------------------------------
\* The states of the robot switch the servos on and off between two commands.
setEnable(e) ==
    /\ pc = "idle"
    /\ enabled' = e
    /\ UNCHANGED <<pc, current, file, moveVars, position, historyVars>>

\* control_motion with jointAngles: the joints that are not there yet.
JointCommand(angles) ==
    /\ pc = "idle" /\ enabled /\ moves < MaxMoves
    /\ moves' = moves + 1
    /\ goal' = [j \in Joints |-> IF j \in DOMAIN angles THEN angles[j] ELSE goal[j]]
    /\ todo' = {j \in Joints \cap DOMAIN angles : angles[j] # current[j]}
    /\ pc' = "next"
    /\ UNCHANGED <<enabled, current, file, joint, angle, position, crashes, stale, lost>>

\* The joint that control_motion comes to next is the i-th.
ComesNext(i) ==
    JointOrder[i] \in todo /\ \A k \in 1 .. i - 1 : JointOrder[k] \notin todo

\* setJointAngle starts from the angle that the controller remembers.
BeginMove ==
    /\ pc = "next"
    /\ \E i \in 1 .. Len(JointOrder) : ComesNext(i) /\ joint' = JointOrder[i]
    /\ angle' = current[joint']
    /\ pc' = "loop"
    /\ UNCHANGED <<enabled, current, file, todo, goal, position, historyVars>>

EndCommand ==
    /\ pc = "next" /\ todo = {}
    /\ pc' = "idle"
    /\ UNCHANGED <<enabled, current, file, moveVars, position, historyVars>>

\* Seeded fault: the joint is sent to its target at once.
Toward_AtOnce(target) == target

\* One degree in the direction of the target.
Toward(target) == IF target > angle THEN angle + 1 ELSE angle - 1

\* The PWM output is set before anything is remembered.
Step ==
    /\ pc = "loop" /\ angle # goal[joint]
    /\ angle' = Toward(goal[joint])
    /\ position' = [position EXCEPT ![joint] = angle']
    /\ pc' = "moved"
    /\ UNCHANGED <<enabled, current, file, todo, joint, goal, historyVars>>

\* Seeded fault: angles are kept as int.
Byte_Wide(n) == n

\* _currentJointAngles holds uint8_t.
Byte(n) == n % 256

\* The angle is remembered, and the file truncated.
Remember ==
    /\ pc = "moved"
    /\ current' = [current EXCEPT ![joint] = Byte(angle)]
    /\ lost' = lost \ {joint}
    /\ \/ file' = Cut /\ pc' = "save" /\ stale' = FALSE
       \/ file' = file /\ pc' = "loop" /\ stale' = TRUE   \* it cannot be opened
    /\ UNCHANGED <<enabled, moveVars, position, moves, crashes>>

\* Seeded fault: the pose that is saved is not the current one.
SavedAngles_Initial == Defaults

\* saveJointAngles writes the angles of all joints.
SavedAngles == current

Save ==
    /\ pc = "save"
    /\ file' = SavedAngles
    /\ pc' = "loop"
    /\ UNCHANGED <<enabled, current, moveVars, position, historyVars>>

EndMove ==
    /\ pc = "loop" /\ angle = goal[joint]
    /\ current' = [current EXCEPT ![joint] = Byte(angle)]
    /\ todo' = todo \ {joint} /\ joint' = "none"
    /\ pc' = "next"
    /\ UNCHANGED <<enabled, file, goal, angle, position, historyVars>>

-----------------------------------------------------------------------------
Crash ==
    /\ pc # "down" /\ crashes < MaxCrashes
    /\ pc' = "down"
    /\ crashes' = crashes + 1
    /\ UNCHANGED <<enabled, current, file, moveVars, position, moves, stale, lost>>

\* loadJointAngles: an empty or broken file leaves the defaults.
Loaded == IF file = Cut THEN Defaults ELSE file

\* initialize() of the next process; Robot::initialize disables the servos.
Restart ==
    /\ pc = "down"
    /\ current' = Loaded
    /\ enabled' = FALSE
    /\ todo' = {} /\ joint' = "none"
    /\ pc' = "idle"
    /\ lost' = IF file = Cut \/ stale THEN Joints ELSE lost
    /\ UNCHANGED <<file, goal, angle, position, moves, crashes, stale>>

Next ==
    \/ \E e \in BOOLEAN : setEnable(e)
    \/ \E angles \in Commands : JointCommand(angles)
    \/ BeginMove \/ Step \/ Remember \/ Save \/ EndMove \/ EndCommand
    \/ Crash \/ Restart

Spec == Init /\ [][Next]_vars

-----------------------------------------------------------------------------
\* Every variable has its type: an angle that is remembered or saved fits into
\* the uint8_t of _currentJointAngles.
TypeOK ==
    /\ pc \in {"idle", "next", "loop", "moved", "save", "down"}
    /\ enabled \in BOOLEAN /\ stale \in BOOLEAN
    /\ current \in [Joints -> 0 .. 255]
    /\ file = Cut \/ file \in [Joints -> 0 .. 255]
    /\ todo \subseteq Joints /\ joint \in Joints \cup {"none"} /\ angle \in Int
    /\ goal \in [Joints -> Int] /\ position \in [Joints -> Int]
    /\ moves \in 0 .. MaxMoves /\ crashes \in 0 .. MaxCrashes
    /\ lost \subseteq Joints

Distance(a, b) == IF a > b THEN a - b ELSE b - a

Bytes == 0 .. 255

\* What may be remembered of a joint whose output stands at p: its angle, or the
\* one before it, of which a byte is left outside the range of a byte.
MayBeRemembered(c, p) ==
    Distance(p, c) <= 1 \/ (p \notin Bytes /\ \E e \in p - 1 .. p + 1 : c = Byte(e))

\* How far a joint whose output stands at p may go in one step: two degrees, one
\* for the step and one for a death before the step was remembered; and from an
\* output that no byte can hold, to a neighbour of the byte that is left of it.
WithinReach(q, p) ==
    Distance(q, p) <= 2
    \/ (p \notin Bytes /\ \E c \in q - 1 .. q + 1 : MayBeRemembered(c, p))

\* A joint jumps in two cases and in no other.  Below 0 or above 255 degrees
\* setJointAngle remembers only a byte of the angle, and the next move starts
\* from that byte; and after a restart from a pose file that was cut short or is
\* out of date the first move of a joint may start anywhere.  Every other PWM
\* output is at most two degrees from the one before it, through every death of
\* the process.
NoJump ==
    [][\A j \in Joints \ lost : WithinReach(position'[j], position[j])]_vars

\* Between commands the file holds the pose that the controller remembers, so
\* that a restart changes nothing, unless a save failed or was cut short.
SavedPoseMatches == pc = "idle" /\ ~stale => file \in {Cut, current}

(* The inductive invariant.                                                *)

\* At any time, in the middle of a move and in a process that is dead too.
FileInv == ~stale => file \in {Cut, current}

\* Where setJointAngle has a joint, and what it has remembered of it.
MoveInv ==
    /\ pc \in {"loop", "moved", "save"} => joint \in Joints
    /\ pc = "moved" => position[joint] = angle
    /\ pc \in {"loop", "save"} => current[joint] = Byte(angle)
    /\ pc \in {"loop", "save"} /\ angle \notin Bytes => position[joint] = angle
    /\ pc \in {"loop", "moved", "save"} /\ angle > 255 => goal[joint] >= angle
    /\ pc \in {"loop", "moved", "save"} /\ angle < 0 => goal[joint] <= angle

\* A joint that is not lost is where it is remembered to be, or one step further.
PositionInv == \A j \in Joints \ lost : MayBeRemembered(current[j], position[j])

IInv == TypeOK /\ FileInv /\ MoveInv /\ PositionInv
=============================================================================
