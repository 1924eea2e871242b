---------------------- MODULE MCRobotControllerService ----------------------
(* Instances of RobotControllerService for TLC. *)
EXTENDS RobotControllerService

TuiAndTracker == {"tui", "tracker"}

\* One field besides the source tells a mixed command from a whole one.
SourceAndJoint == {"source", "jointAngles"}
=============================================================================
