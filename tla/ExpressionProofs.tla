--------------------------- MODULE ExpressionProofs ---------------------------
(***************************************************************************)
(* Proofs about ExpressionService, for any motions, any number of          *)
(* responses and terminal commands, and any followTimeOut.                 *)
(***************************************************************************)
EXTENDS ExpressionService, TLAPS

\* The initial states satisfy the inductive invariant.
LEMMA InitIInv == Init => IInv
  <1>. SUFFICES ASSUME Init PROVE IInv
    OBVIOUS
  <1>. USE LimitsAssumption DEF Init, At, Services
  <1>1. TypeOK
    <2>1. /\ thread \in [Services -> ExpressionPcs \cup PerceptionPcs \cup TrackerPcs]
          /\ thread["expression"] = "check"
          /\ thread["perception"] = "open"
          /\ thread["tracker"] = "check"
      BY DEF ExpressionPcs, PerceptionPcs, TrackerPcs
    <2>2. queue \in Seq(Responses)
      OBVIOUS
    <2>3. running \in [Services -> BOOLEAN]
      OBVIOUS
    <2>4. /\ responses \in 0 .. MaxResponses /\ calls \in 0 .. MaxCalls
          /\ failures \in 0 .. MaxCameraFailures /\ items \in Nat
          /\ follow \in 0 .. FollowTimeout - 1 /\ blind \in 0 .. FollowTimeout
      OBVIOUS
    <2>5. /\ notifying \in BOOLEAN /\ cameraOpen \in BOOLEAN
          /\ face \in BOOLEAN /\ terminated \in BOOLEAN
      OBVIOUS
    <2>6. /\ consolePc = "idle" /\ consoleOf = "expression"
      OBVIOUS
    <2>. HIDE DEF Init
    <2>. QED  BY <2>1, <2>2, <2>3, <2>4, <2>5, <2>6
              DEF TypeOK, ExpressionPcs, PerceptionPcs, TrackerPcs
  <1>2. WorkInv
    BY DEF WorkInv
  <1>3. TrackerInv
    BY DEF TrackerInv, TrackerStopped, InMimic
  <1>4. RunInv
    BY DEF RunInv, RunningHasThread, Creating
  <1>5. TargetInv
    BY DEF TargetInv
  <1>. QED  BY <1>1, <1>2, <1>3, <1>4, <1>5 DEF IInv

\* The types, and the response that is performed stays in the queue.
LEMMA TypeStep == TypeOK /\ WorkInv /\ [Next]_vars => (TypeOK /\ WorkInv)'
  <1>. SUFFICES ASSUME TypeOK, WorkInv, [Next]_vars PROVE (TypeOK /\ WorkInv)'
    OBVIOUS
  <1>. USE MotionAssumption, ServicesAssumption, LimitsAssumption
    DEF TypeOK, WorkInv, At, Services, Responses, ExpressionPcs, PerceptionPcs,
        TrackerPcs
  <1>1. CASE \E r \in Responses : Push(r)
    BY <1>1 DEF Push, consoleVars, trackVars
  <1>2. CASE Notify
    <2>1. Woken(thread["expression"]) \in ExpressionPcs
      BY DEF Woken
    <2>2. thread' = [thread EXCEPT !["expression"] = Woken(thread["expression"])]
      BY <1>2 DEF Notify, Goto
    <2>3. TypeOK'
      BY <1>2, <2>1, <2>2 DEF Notify, consoleVars, trackVars
    <2>4. WorkInv'
      BY <1>2, <2>2 DEF Notify, Woken
    <2>. QED  BY <2>3, <2>4
  <1>3. CASE CheckExpression
    BY <1>3 DEF CheckExpression, exprUnchanged, At, Goto, consoleVars, trackVars
  <1>4. CASE Wait
    BY <1>4 DEF Wait, exprUnchanged, At, Goto, consoleVars, trackVars
  <1>5. CASE WakeSpuriously
    BY <1>5 DEF WakeSpuriously, exprUnchanged, At, Goto, consoleVars, trackVars
  <1>6. CASE Front
    BY <1>6 DEF Front, exprUnchanged, At, Goto, consoleVars, trackVars
  <1>7. CASE StopPerception
    BY <1>7 DEF StopPerception, StopOne, exprUnchanged, At, Goto, consoleVars, trackVars
  <1>8. CASE ClearPerception
    BY <1>8 DEF ClearPerception, ClearOne, exprUnchanged, At, Goto, consoleVars, trackVars
  <1>9. CASE JoinPerception
    BY <1>9
    DEF JoinPerception, JoinOne, Joined, exprUnchanged, At, Goto, consoleVars, trackVars
  <1>10. CASE StopTracker
    BY <1>10 DEF StopTracker, StopOne, exprUnchanged, At, Goto, consoleVars, trackVars
  <1>11. CASE ClearTracker
    BY <1>11 DEF ClearTracker, ClearOne, exprUnchanged, At, Goto, consoleVars, trackVars
  <1>12. CASE JoinTracker
    BY <1>12
    DEF JoinTracker, JoinOne, Joined, exprUnchanged, At, Goto, consoleVars, trackVars
  <1>13. CASE BasePosition
    BY <1>13 DEF BasePosition, AfterBase, exprUnchanged, At, Goto, consoleVars, trackVars
  <1>14. CASE SequenceItem
    BY <1>14 DEF SequenceItem, exprUnchanged, At, Goto, consoleVars, trackVars
  <1>15. CASE IdlePosition
    BY <1>15 DEF IdlePosition, exprUnchanged, At, Goto, consoleVars, trackVars
  <1>16. CASE StartPerception
    BY <1>16
    DEF StartPerception, StartOne, exprUnchanged, At, Goto, consoleVars, trackVars
  <1>17. CASE LaunchPerception
    BY <1>17
    DEF LaunchPerception, LaunchOne, exprUnchanged, At, Goto, consoleVars, trackVars
  <1>18. CASE CreatePerception
    BY <1>18
    DEF CreatePerception, CreateOne, Terminates, Entry, exprUnchanged, At, Goto,
        consoleVars, trackVars
  <1>19. CASE StartTracker
    BY <1>19 DEF StartTracker, StartOne, exprUnchanged, At, Goto, consoleVars, trackVars
  <1>20. CASE LaunchTracker
    BY <1>20 DEF LaunchTracker, LaunchOne, exprUnchanged, At, Goto, consoleVars, trackVars
  <1>21. CASE CreateTracker
    BY <1>21
    DEF CreateTracker, CreateOne, Terminates, Entry, exprUnchanged, At, Goto,
        consoleVars, trackVars
  <1>22. CASE Pop
    BY <1>22 DEF Pop, exprUnchanged, At, Goto, consoleVars, trackVars
  <1>23. CASE OpenCamera
    BY <1>23 DEF OpenCamera, perceptionUnchanged, At, Goto, consoleVars, speechVars
  <1>24. CASE CameraFails
    BY <1>24
    DEF CameraFails, AfterFailure, perceptionUnchanged, At, Goto, consoleVars,
        speechVars
  <1>25. CASE CheckPerception
    BY <1>25 DEF CheckPerception, perceptionUnchanged, At, Goto, consoleVars, speechVars
  <1>26. CASE CloseCamera
    BY <1>26 DEF CloseCamera, perceptionUnchanged, At, Goto, consoleVars, speechVars
  <1>27. CASE \E found \in BOOLEAN : ProcessFrame(found)
    BY <1>27 DEF ProcessFrame, perceptionUnchanged, At, Goto, consoleVars, speechVars
  <1>28. CASE CheckTracker
    BY <1>28 DEF CheckTracker, trackerUnchanged, At, Goto, consoleVars, speechVars
  <1>29. CASE AssignIdlePose
    BY <1>29 DEF AssignIdlePose, trackerUnchanged, At, Goto, consoleVars, speechVars
  <1>30. CASE \E known \in BOOLEAN : SelectTarget(known)
    BY <1>30
    DEF SelectTarget, FollowLeft, trackerUnchanged, At, Goto, consoleVars, speechVars
  <1>31. CASE \E known \in BOOLEAN : ControlHead(known)
    BY <1>31 DEF ControlHead, trackerUnchanged, At, Goto, consoleVars, speechVars
  <1>32. CASE \E s \in ConsoleServices : ConsoleStart(s)
    BY <1>32 DEF ConsoleStart, consoleUnchanged, At, speechVars, trackVars
  <1>33. CASE \E s \in ConsoleServices : ConsoleStop(s)
    BY <1>33 DEF ConsoleStop, consoleUnchanged, At, speechVars, trackVars
  <1>34. CASE ConsoleLaunch
    BY <1>34 DEF ConsoleLaunch, consoleUnchanged, At, speechVars, trackVars
  <1>35. CASE ConsoleCreate
    BY <1>35
    DEF ConsoleCreate, Terminates, Entry, consoleUnchanged, At, speechVars, trackVars
  <1>36. CASE ConsoleClear
    BY <1>36 DEF ConsoleClear, consoleUnchanged, At, speechVars, trackVars
  <1>37. CASE ConsoleNotify
    <2>1. thread' = [thread EXCEPT ![consoleOf] = Woken(thread[consoleOf])]
      BY <1>37 DEF ConsoleNotify
    <2>2. CASE consoleOf = "expression"
      <3>1. Woken(thread["expression"]) \in ExpressionPcs
        BY DEF Woken
      <3>2. TypeOK'
        BY <1>37, <2>1, <2>2, <3>1
        DEF ConsoleNotify, consoleUnchanged, speechVars, trackVars
      <3>3. WorkInv'
        BY <1>37, <2>1, <2>2 DEF ConsoleNotify, consoleUnchanged, speechVars, Woken
      <3>. QED  BY <3>2, <3>3
    <2>3. CASE consoleOf = "perception"
      <3>1. Woken(thread["perception"]) = thread["perception"]
        BY DEF Woken
      <3>2. thread' = thread
        BY <2>1, <2>3, <3>1
      <3>. QED  BY <1>37, <3>2 DEF ConsoleNotify, consoleUnchanged, speechVars, trackVars
    <2>. QED  BY <2>2, <2>3
  <1>38. CASE ConsoleJoin
    BY <1>38 DEF ConsoleJoin, Joined, consoleUnchanged, At, speechVars, trackVars
  <1>39. CASE UNCHANGED vars
    BY <1>39 DEF vars, consoleVars, speechVars, trackVars
  <1>. QED
    BY <1>1, <1>2, <1>3, <1>4, <1>5, <1>6, <1>7, <1>8, <1>9, <1>10,
       <1>11, <1>12, <1>13, <1>14, <1>15, <1>16, <1>17, <1>18, <1>19, <1>20,
       <1>21, <1>22, <1>23, <1>24, <1>25, <1>26, <1>27, <1>28, <1>29, <1>30,
       <1>31, <1>32, <1>33, <1>34, <1>35, <1>36, <1>37, <1>38, <1>39
    DEF Next, Expression, makeMimic, Perception, Tracker, Console

\* Only the expression thread stops and starts the tracker.
LEMMA TrackerStep == TypeOK /\ TrackerInv /\ [Next]_vars => TrackerInv'
  <1>. SUFFICES ASSUME TypeOK, TrackerInv, [Next]_vars PROVE TrackerInv'
    OBVIOUS
  <1>. USE ServicesAssumption
    DEF TypeOK, TrackerInv, TrackerStopped, InMimic, At, Services
  <1>1. CASE \E r \in Responses : Push(r)
    BY <1>1 DEF Push, consoleVars, trackVars
  <1>2. CASE Notify
    BY <1>2 DEF Notify, Woken, Goto, consoleVars, trackVars
  <1>3. CASE CheckExpression
    BY <1>3 DEF CheckExpression, exprUnchanged, At, Goto, consoleVars, trackVars
  <1>4. CASE Wait
    BY <1>4 DEF Wait, exprUnchanged, At, Goto, consoleVars, trackVars
  <1>5. CASE WakeSpuriously
    BY <1>5 DEF WakeSpuriously, exprUnchanged, At, Goto, consoleVars, trackVars
  <1>6. CASE Front
    BY <1>6 DEF Front, exprUnchanged, At, Goto, consoleVars, trackVars
  <1>7. CASE StopPerception
    BY <1>7 DEF StopPerception, StopOne, exprUnchanged, At, Goto, consoleVars, trackVars
  <1>8. CASE ClearPerception
    BY <1>8 DEF ClearPerception, ClearOne, exprUnchanged, At, Goto, consoleVars, trackVars
  <1>9. CASE JoinPerception
    BY <1>9
    DEF JoinPerception, JoinOne, Joined, exprUnchanged, At, Goto, consoleVars, trackVars
  <1>10. CASE StopTracker
    BY <1>10 DEF StopTracker, StopOne, exprUnchanged, At, Goto, consoleVars, trackVars
  <1>11. CASE ClearTracker
    BY <1>11 DEF ClearTracker, ClearOne, exprUnchanged, At, Goto, consoleVars, trackVars
  <1>12. CASE JoinTracker
    BY <1>12
    DEF JoinTracker, JoinOne, Joined, exprUnchanged, At, Goto, consoleVars, trackVars
  <1>13. CASE BasePosition
    BY <1>13 DEF BasePosition, AfterBase, exprUnchanged, At, Goto, consoleVars, trackVars
  <1>14. CASE SequenceItem
    BY <1>14 DEF SequenceItem, exprUnchanged, At, Goto, consoleVars, trackVars
  <1>15. CASE IdlePosition
    BY <1>15 DEF IdlePosition, exprUnchanged, At, Goto, consoleVars, trackVars
  <1>16. CASE StartPerception
    BY <1>16
    DEF StartPerception, StartOne, exprUnchanged, At, Goto, consoleVars, trackVars
  <1>17. CASE LaunchPerception
    BY <1>17
    DEF LaunchPerception, LaunchOne, exprUnchanged, At, Goto, consoleVars, trackVars
  <1>18. CASE CreatePerception
    BY <1>18
    DEF CreatePerception, CreateOne, Terminates, Entry, exprUnchanged, At, Goto,
        consoleVars, trackVars
  <1>19. CASE StartTracker
    BY <1>19 DEF StartTracker, StartOne, exprUnchanged, At, Goto, consoleVars, trackVars
  <1>20. CASE LaunchTracker
    BY <1>20 DEF LaunchTracker, LaunchOne, exprUnchanged, At, Goto, consoleVars, trackVars
  <1>21. CASE CreateTracker
    BY <1>21
    DEF CreateTracker, CreateOne, Terminates, Entry, exprUnchanged, At, Goto,
        consoleVars, trackVars
  <1>22. CASE Pop
    BY <1>22 DEF Pop, exprUnchanged, At, Goto, consoleVars, trackVars
  <1>23. CASE OpenCamera
    BY <1>23 DEF OpenCamera, perceptionUnchanged, At, Goto, consoleVars, speechVars
  <1>24. CASE CameraFails
    BY <1>24
    DEF CameraFails, AfterFailure, perceptionUnchanged, At, Goto, consoleVars,
        speechVars
  <1>25. CASE CheckPerception
    BY <1>25 DEF CheckPerception, perceptionUnchanged, At, Goto, consoleVars, speechVars
  <1>26. CASE CloseCamera
    BY <1>26 DEF CloseCamera, perceptionUnchanged, At, Goto, consoleVars, speechVars
  <1>27. CASE \E found \in BOOLEAN : ProcessFrame(found)
    BY <1>27 DEF ProcessFrame, perceptionUnchanged, At, Goto, consoleVars, speechVars
  <1>28. CASE CheckTracker
    BY <1>28 DEF CheckTracker, trackerUnchanged, At, Goto, consoleVars, speechVars
  <1>29. CASE AssignIdlePose
    BY <1>29 DEF AssignIdlePose, trackerUnchanged, At, Goto, consoleVars, speechVars
  <1>30. CASE \E known \in BOOLEAN : SelectTarget(known)
    BY <1>30
    DEF SelectTarget, FollowLeft, trackerUnchanged, At, Goto, consoleVars, speechVars
  <1>31. CASE \E known \in BOOLEAN : ControlHead(known)
    BY <1>31 DEF ControlHead, trackerUnchanged, At, Goto, consoleVars, speechVars
  <1>32. CASE \E s \in ConsoleServices : ConsoleStart(s)
    BY <1>32 DEF ConsoleStart, consoleUnchanged, At, speechVars, trackVars
  <1>33. CASE \E s \in ConsoleServices : ConsoleStop(s)
    BY <1>33 DEF ConsoleStop, consoleUnchanged, At, speechVars, trackVars
  <1>34. CASE ConsoleLaunch
    BY <1>34 DEF ConsoleLaunch, consoleUnchanged, At, speechVars, trackVars
  <1>35. CASE ConsoleCreate
    BY <1>35
    DEF ConsoleCreate, Terminates, Entry, consoleUnchanged, At, speechVars, trackVars
  <1>36. CASE ConsoleClear
    BY <1>36 DEF ConsoleClear, consoleUnchanged, At, speechVars, trackVars
  <1>37. CASE ConsoleNotify
    BY <1>37 DEF ConsoleNotify, Woken, consoleUnchanged, At, speechVars, trackVars
  <1>38. CASE ConsoleJoin
    BY <1>38 DEF ConsoleJoin, Joined, consoleUnchanged, At, speechVars, trackVars
  <1>39. CASE UNCHANGED vars
    BY <1>39 DEF vars, consoleVars, speechVars, trackVars
  <1>. QED
    BY <1>1, <1>2, <1>3, <1>4, <1>5, <1>6, <1>7, <1>8, <1>9, <1>10,
       <1>11, <1>12, <1>13, <1>14, <1>15, <1>16, <1>17, <1>18, <1>19, <1>20,
       <1>21, <1>22, <1>23, <1>24, <1>25, <1>26, <1>27, <1>28, <1>29, <1>30,
       <1>31, <1>32, <1>33, <1>34, <1>35, <1>36, <1>37, <1>38, <1>39
    DEF Next, Expression, makeMimic, Perception, Tracker, Console

\* A service that is marked as running has a thread, or is getting one.
LEMMA RunStep == TypeOK /\ TrackerInv /\ RunInv /\ [Next]_vars => RunInv'
  <1>. SUFFICES ASSUME TypeOK, TrackerInv, RunInv, [Next]_vars PROVE RunInv'
    OBVIOUS
  <1>. USE ServicesAssumption
    DEF TypeOK, TrackerInv, TrackerStopped, InMimic, RunInv, RunningHasThread, Creating,
        Alive, At, Services
  <1>1. CASE \E r \in Responses : Push(r)
    BY <1>1 DEF Push, consoleVars, trackVars
  <1>2. CASE Notify
    BY <1>2 DEF Notify, Woken, Goto, consoleVars, trackVars
  <1>3. CASE CheckExpression
    BY <1>3 DEF CheckExpression, exprUnchanged, At, Goto, consoleVars, trackVars
  <1>4. CASE Wait
    BY <1>4 DEF Wait, exprUnchanged, At, Goto, consoleVars, trackVars
  <1>5. CASE WakeSpuriously
    BY <1>5 DEF WakeSpuriously, exprUnchanged, At, Goto, consoleVars, trackVars
  <1>6. CASE Front
    BY <1>6 DEF Front, exprUnchanged, At, Goto, consoleVars, trackVars
  <1>7. CASE StopPerception
    BY <1>7 DEF StopPerception, StopOne, exprUnchanged, At, Goto, consoleVars, trackVars
  <1>8. CASE ClearPerception
    BY <1>8 DEF ClearPerception, ClearOne, exprUnchanged, At, Goto, consoleVars, trackVars
  <1>9. CASE JoinPerception
    BY <1>9
    DEF JoinPerception, JoinOne, Joined, exprUnchanged, At, Goto, consoleVars, trackVars
  <1>10. CASE StopTracker
    BY <1>10 DEF StopTracker, StopOne, exprUnchanged, At, Goto, consoleVars, trackVars
  <1>11. CASE ClearTracker
    BY <1>11 DEF ClearTracker, ClearOne, exprUnchanged, At, Goto, consoleVars, trackVars
  <1>12. CASE JoinTracker
    BY <1>12
    DEF JoinTracker, JoinOne, Joined, exprUnchanged, At, Goto, consoleVars, trackVars
  <1>13. CASE BasePosition
    BY <1>13 DEF BasePosition, AfterBase, exprUnchanged, At, Goto, consoleVars, trackVars
  <1>14. CASE SequenceItem
    BY <1>14 DEF SequenceItem, exprUnchanged, At, Goto, consoleVars, trackVars
  <1>15. CASE IdlePosition
    BY <1>15 DEF IdlePosition, exprUnchanged, At, Goto, consoleVars, trackVars
  <1>16. CASE StartPerception
    BY <1>16
    DEF StartPerception, StartOne, exprUnchanged, At, Goto, consoleVars, trackVars
  <1>17. CASE LaunchPerception
    BY <1>17
    DEF LaunchPerception, LaunchOne, exprUnchanged, At, Goto, consoleVars, trackVars
  <1>18. CASE CreatePerception
    BY <1>18
    DEF CreatePerception, CreateOne, Terminates, Entry, exprUnchanged, At, Goto,
        consoleVars, trackVars
  <1>19. CASE StartTracker
    BY <1>19 DEF StartTracker, StartOne, exprUnchanged, At, Goto, consoleVars, trackVars
  <1>20. CASE LaunchTracker
    BY <1>20 DEF LaunchTracker, LaunchOne, exprUnchanged, At, Goto, consoleVars, trackVars
  <1>21. CASE CreateTracker
    BY <1>21
    DEF CreateTracker, CreateOne, Terminates, Entry, exprUnchanged, At, Goto,
        consoleVars, trackVars
  <1>22. CASE Pop
    BY <1>22 DEF Pop, exprUnchanged, At, Goto, consoleVars, trackVars
  <1>23. CASE OpenCamera
    BY <1>23 DEF OpenCamera, perceptionUnchanged, At, Goto, consoleVars, speechVars
  <1>24. CASE CameraFails
    BY <1>24
    DEF CameraFails, AfterFailure, perceptionUnchanged, At, Goto, consoleVars,
        speechVars
  <1>25. CASE CheckPerception
    BY <1>25 DEF CheckPerception, perceptionUnchanged, At, Goto, consoleVars, speechVars
  <1>26. CASE CloseCamera
    BY <1>26 DEF CloseCamera, perceptionUnchanged, At, Goto, consoleVars, speechVars
  <1>27. CASE \E found \in BOOLEAN : ProcessFrame(found)
    BY <1>27 DEF ProcessFrame, perceptionUnchanged, At, Goto, consoleVars, speechVars
  <1>28. CASE CheckTracker
    BY <1>28 DEF CheckTracker, trackerUnchanged, At, Goto, consoleVars, speechVars
  <1>29. CASE AssignIdlePose
    BY <1>29 DEF AssignIdlePose, trackerUnchanged, At, Goto, consoleVars, speechVars
  <1>30. CASE \E known \in BOOLEAN : SelectTarget(known)
    BY <1>30
    DEF SelectTarget, FollowLeft, trackerUnchanged, At, Goto, consoleVars, speechVars
  <1>31. CASE \E known \in BOOLEAN : ControlHead(known)
    BY <1>31 DEF ControlHead, trackerUnchanged, At, Goto, consoleVars, speechVars
  <1>32. CASE \E s \in ConsoleServices : ConsoleStart(s)
    BY <1>32 DEF ConsoleStart, consoleUnchanged, At, speechVars, trackVars
  <1>33. CASE \E s \in ConsoleServices : ConsoleStop(s)
    BY <1>33 DEF ConsoleStop, consoleUnchanged, At, speechVars, trackVars
  <1>34. CASE ConsoleLaunch
    BY <1>34 DEF ConsoleLaunch, consoleUnchanged, At, speechVars, trackVars
  <1>35. CASE ConsoleCreate
    BY <1>35
    DEF ConsoleCreate, Terminates, Entry, consoleUnchanged, At, speechVars, trackVars
  <1>36. CASE ConsoleClear
    BY <1>36 DEF ConsoleClear, consoleUnchanged, At, speechVars, trackVars
  <1>37. CASE ConsoleNotify
    BY <1>37 DEF ConsoleNotify, Woken, consoleUnchanged, At, speechVars, trackVars
  <1>38. CASE ConsoleJoin
    BY <1>38 DEF ConsoleJoin, Joined, consoleUnchanged, At, speechVars, trackVars
  <1>39. CASE UNCHANGED vars
    BY <1>39 DEF vars, consoleVars, speechVars, trackVars
  <1>. QED
    BY <1>1, <1>2, <1>3, <1>4, <1>5, <1>6, <1>7, <1>8, <1>9, <1>10,
       <1>11, <1>12, <1>13, <1>14, <1>15, <1>16, <1>17, <1>18, <1>19, <1>20,
       <1>21, <1>22, <1>23, <1>24, <1>25, <1>26, <1>27, <1>28, <1>29, <1>30,
       <1>31, <1>32, <1>33, <1>34, <1>35, <1>36, <1>37, <1>38, <1>39
    DEF Next, Expression, makeMimic, Perception, Tracker, Console

\* The expression thread, the perception thread and the terminal bring the tracker
\* nowhere but to its start or its end, and of the target they change only what
\* perception reports of the face.
LEMMA OthersStep ==
  ASSUME TypeOK, \/ \E r \in Responses : Push(r)
                 \/ Expression \/ WakeSpuriously \/ Notify \/ Perception \/ Console
  PROVE  /\ follow' = follow
         /\ blind' \in {blind, 0} /\ (face' => face \/ blind' = 0)
         /\ thread'["tracker"] \in {thread["tracker"], "none", "check"}
  <1>. USE ServicesAssumption DEF TypeOK, Services, At, Goto, trackVars
  <1>1. CASE \E r \in Responses : Push(r)
    BY <1>1 DEF Push
  <1>2. CASE Expression \/ WakeSpuriously
    <2>. USE DEF exprUnchanged
    <2>1. CASE CheckExpression \/ Wait \/ WakeSpuriously \/ Front \/ Pop
      BY <2>1 DEF CheckExpression, Wait, WakeSpuriously, Front, Pop
    <2>2. CASE StopPerception \/ ClearPerception \/ JoinPerception
      BY <2>2
      DEF StopPerception, ClearPerception, JoinPerception, StopOne, ClearOne, JoinOne
    <2>3. CASE StopTracker \/ ClearTracker \/ JoinTracker
      BY <2>3 DEF StopTracker, ClearTracker, JoinTracker, StopOne, ClearOne, JoinOne
    <2>4. CASE BasePosition \/ SequenceItem \/ IdlePosition
      BY <2>4 DEF BasePosition, SequenceItem, IdlePosition
    <2>5. CASE StartPerception \/ LaunchPerception \/ CreatePerception
      BY <2>5
      DEF StartPerception, LaunchPerception, CreatePerception, StartOne, LaunchOne,
                  CreateOne
    <2>6. CASE StartTracker \/ LaunchTracker \/ CreateTracker
      BY <2>6
      DEF StartTracker, LaunchTracker, CreateTracker, StartOne, LaunchOne, CreateOne,
                  Entry
    <2>. QED  BY <1>2, <2>1, <2>2, <2>3, <2>4, <2>5, <2>6 DEF Expression, makeMimic
  <1>3. CASE Notify
    BY <1>3 DEF Notify
  <1>4. CASE Perception
    <2>. USE DEF perceptionUnchanged
    <2>1. CASE OpenCamera \/ CameraFails \/ CheckPerception \/ CloseCamera
      BY <2>1 DEF OpenCamera, CameraFails, CheckPerception, CloseCamera
    <2>2. ASSUME NEW found \in BOOLEAN, ProcessFrame(found)
          PROVE  /\ follow' = follow /\ thread'["tracker"] = thread["tracker"]
                 /\ blind' \in {blind, 0} /\ (face' => blind' = 0)
      <3>1. face' = found /\ blind' = IF found THEN 0 ELSE blind
        BY <2>2 DEF ProcessFrame
      <3>2. face' => blind' = 0
        BY <3>1
      <3>. QED  BY <2>2, <3>1, <3>2 DEF ProcessFrame
    <2>3. CASE \E found \in BOOLEAN : ProcessFrame(found)
      BY <2>2, <2>3
    <2>. QED  BY <1>4, <2>1, <2>3 DEF Perception
  <1>5. CASE Console
    <2>. USE DEF consoleUnchanged
    <2>1. CASE \E s \in ConsoleServices : ConsoleStart(s) \/ ConsoleStop(s)
      BY <2>1 DEF ConsoleStart, ConsoleStop
    <2>2. CASE ConsoleLaunch \/ ConsoleCreate
      BY <2>2 DEF ConsoleLaunch, ConsoleCreate
    <2>3. CASE ConsoleClear \/ ConsoleNotify \/ ConsoleJoin
      BY <2>3 DEF ConsoleClear, ConsoleNotify, ConsoleJoin
    <2>. QED  BY <1>5, <2>1, <2>2, <2>3 DEF Console
  <1>. QED  BY <1>1, <1>2, <1>3, <1>4, <1>5

\* Every round without a face uses up one of the rounds that are left.
LEMMA TargetStep == TypeOK /\ TargetInv /\ [Next]_vars => TargetInv'
  <1>. SUFFICES ASSUME TypeOK, TargetInv, [Next]_vars PROVE TargetInv'
    OBVIOUS
  <1>. USE LimitsAssumption DEF TypeOK, TargetInv, At, Services
  <1>1. CASE CheckTracker \/ AssignIdlePose
    BY <1>1 DEF CheckTracker, AssignIdlePose, Goto, trackerUnchanged
  <1>2. CASE \E far \in BOOLEAN : SelectTarget(far)
    <2>1. PICK far \in BOOLEAN : SelectTarget(far)
      BY <1>2
    <2>2. follow' > 0 => follow' + blind' <= FollowTimeout - 1
      BY <2>1 DEF SelectTarget, FollowLeft
    <2>3. thread'["tracker"] = "control" => follow' > 0
      BY <2>1 DEF SelectTarget, Goto
    <2>4. face' => blind' = 0
      BY <2>1 DEF SelectTarget, trackerUnchanged
    <2>. QED  BY <2>2, <2>3, <2>4
  <1>3. CASE \E angles \in BOOLEAN : ControlHead(angles)
    BY <1>3 DEF ControlHead, Goto, trackerUnchanged
  <1>4. CASE \/ \E r \in Responses : Push(r)
             \/ Expression \/ WakeSpuriously \/ Notify \/ Perception \/ Console
    BY <1>4, OthersStep
  <1>5. CASE UNCHANGED vars
    BY <1>5 DEF vars, trackVars
  <1>. QED  BY <1>1, <1>2, <1>3, <1>4, <1>5 DEF Next, Tracker

-----------------------------------------------------------------------------
\* The invariant of the gesture protocol.
THEOREM Invariant == Spec => []IInv
  <1>1. Init => IInv
    BY InitIInv
  <1>2. IInv /\ [Next]_vars => IInv'
    BY TypeStep, TrackerStep, RunStep, TargetStep DEF IInv
  <1>. QED  BY <1>1, <1>2, PTL DEF Spec

\* Every variable keeps its type and every thread stays at its own places, for
\* any motions and bounds.
THEOREM TypeCorrect == Spec => []TypeOK
  <1>1. IInv => TypeOK
    BY DEF IInv
  <1>. QED  BY <1>1, Invariant, PTL

\* No command of the tracker and no assignment to idleJointPositions falls into a
\* gesture: stop() is joined by the very thread that moves the joints.
THEOREM GestureNeverDisturbed == Spec => []GestureUndisturbed
  <1>1. IInv => GestureUndisturbed
    BY DEF IInv, TrackerInv, GestureUndisturbed, At
  <1>. QED  BY <1>1, Invariant, PTL

\* _running and the threads agree, whoever starts and stops the services and
\* whenever the camera fails.
THEOREM RunningIsTrue == Spec => []RunningHasThread
  <1>1. IInv => RunningHasThread
    BY DEF IInv, RunInv
  <1>. QED  BY <1>1, Invariant, PTL

\* The head follows a face that perception has reported as gone for at most
\* followTimeOut - 2 rounds.
THEOREM TargetIsGivenUp == Spec => []TargetGivenUp
  <1>1. IInv => TargetGivenUp
    BY LimitsAssumption DEF IInv, TypeOK, TargetInv, TargetGivenUp
  <1>. QED  BY <1>1, Invariant, PTL
=============================================================================
