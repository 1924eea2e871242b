------------------------------- MODULE MCRobot -------------------------------
(* Instances of Robot for TLC: the commands that the services publish. *)
EXTENDS Robot

\* Body joystick and servo commands come from the terminal and the remote
\* client; the expression service and the tracker only move joints.  Each data
\* of a command meets each kind of state; more pairs only multiply the queues.
ServiceCommands ==
    {[source |-> "tuiService", data |-> d] : d \in {"drive", "halt"}} \cup
    {[source |-> "remoteConnectionService", data |-> "drive"]} \cup
    {[source |-> s, data |-> "joint"] :
        s \in {"expressionService", "landmarkTrackerService"}}

\* The joint commands of the three sources that TuiControl and Talking meet.
JointCommands ==
    {[source |-> s, data |-> "joint"] :
        s \in {"tuiService", "expressionService", "landmarkTrackerService"}}

\* ... and a command whose source was left unset, which stays in MovingState.
AnySourceCommands == JointCommands \cup {[source |-> "none", data |-> "drive"]}

NoTypes == {}
AllTypes == {"stop", "critical_error"}
NoSources == {}
Tracker == {"landmarkTrackerService"}
=============================================================================
