\* Two responses, two commands of the terminal, one failure of the camera.
SPECIFICATION FairSpec
CONSTANTS
    Motion <- Motions
    ConsoleServices <- BothServices
    MaxResponses = 2
    MaxCalls = 2
    MaxCameraFailures = 1
    FollowTimeout = 3
INVARIANTS
    GestureUndisturbed
    RunningHasThread
    TargetGivenUp
PROPERTY
    TrackingResumes
\* The process ends when std::terminate is called.
CHECK_DEADLOCK FALSE
