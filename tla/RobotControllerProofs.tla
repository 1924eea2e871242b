----------------------- MODULE RobotControllerProofs -----------------------
(***************************************************************************)
(* Proofs about RobotControllerService, for any set of publishers, any     *)
(* fields and any number of commands and stops: the slot implements        *)
(* CommandMailbox, and stop() leaves neither a thread nor a robot behind.  *)
(***************************************************************************)
EXTENDS RobotControllerService, TLAPS

LEMMA InitIInv == Init => IInv
  <1>. SUFFICES ASSUME Init PROVE IInv
    OBVIOUS
  <1>1. NoEvent \in [source : Numbers, data : [Fields -> Numbers]]
    BY LimitsAssumption DEF NoEvent, Numbers
  <1>2. TypeOK
    <2>1. 0 \in Numbers /\ stops \in 0 .. MaxStops /\ cell \in [Fields -> Numbers]
      BY LimitsAssumption DEF Init, Numbers
    <2>. QED  BY <1>1, <2>1 DEF Init, TypeOK, Actors
  <1>3. LockInv /\ ReadInv /\ ConstructInv /\ FreshInv
    BY DEF Init, LockInv, ReadInv, ConstructInv, FreshInv, Reading
  <1>4. LifeInv
    BY ConsoleAssumption DEF Init, LifeInv
  <1>. QED  BY <1>2, <1>3, <1>4 DEF IInv

\* Every step keeps the types.
LEMMA NextTypeOK == TypeOK /\ [Next]_vars => TypeOK'
  <1>. SUFFICES ASSUME TypeOK, [Next]_vars PROVE TypeOK'
    OBVIOUS
  <1>. USE ConsoleAssumption, FieldsAssumption, LimitsAssumption
       DEF TypeOK, Numbers, Actors, slotVars, readVars, lifeVars, historyVars
  <1>1. CASE Start
    BY <1>1 DEF Start
  <1>2. CASE Launch
    BY <1>2 DEF Launch
  <1>3. CASE Stop
    <2>1. stops' \in 0 .. MaxStops
      BY <1>3 DEF Stop
    <2>. QED  BY <1>3, <2>1 DEF Stop
  <1>4. CASE StopNotify
    BY <1>4 DEF StopNotify, Notified
  <1>5. CASE Join
    BY <1>5 DEF Join
  <1>6. CASE CheckRunning
    BY <1>6 DEF CheckRunning
  <1>7. CASE BeginWait
    BY <1>7 DEF BeginWait
  <1>8. CASE WakeSpuriously
    BY <1>8 DEF WakeSpuriously
  <1>9. CASE EndWait
    BY <1>9 DEF EndWait
  <1>10. CASE TestSlot
    BY <1>10 DEF TestSlot
  <1>11. CASE ReadSource
    BY <1>11 DEF ReadSource, SourceOf
  <1>12. CASE PostEvent
    BY <1>12 DEF PostEvent
  <1>13. CASE ResetSlot
    BY <1>13 DEF ResetSlot, EngagedAfterPost
  <1>14. CASE PublishSensors
    BY <1>14 DEF PublishSensors
  <1>15. CASE EndPublish
    BY <1>15 DEF EndPublish
  <1>16. CASE Exit
    BY <1>16 DEF Exit
  <1>17. CASE UNCHANGED vars
    BY <1>17 DEF vars
  <1>18. ASSUME NEW p \in Publishers, BeginStore(p) PROVE TypeOK'
    BY <1>18 DEF BeginStore
  <1>19. ASSUME NEW p \in Publishers, EndStore(p) PROVE TypeOK'
    BY <1>19 DEF EndStore
  <1>20. ASSUME NEW p \in Publishers, Notify(p) PROVE TypeOK'
    BY <1>20 DEF Notify, Notified
  <1>21. ASSUME NEW p \in Publishers, RequestSensors(p) PROVE TypeOK'
    BY <1>21 DEF RequestSensors
  <1>22. ASSUME NEW p \in Publishers, AnswerRequest(p) PROVE TypeOK'
    BY <1>22 DEF AnswerRequest
  <1>23. ASSUME NEW p \in Publishers, EndRequest(p) PROVE TypeOK'
    BY <1>23 DEF EndRequest
  <1>24. ASSUME NEW p \in Publishers, NEW f \in Fields, StoreField(p, f) PROVE TypeOK'
    BY <1>24 DEF StoreField
  <1>25. ASSUME NEW f \in Fields, CopyField(f) PROVE TypeOK'
    BY <1>25 DEF CopyField
  <1>. QED
    BY <1>1, <1>2, <1>3, <1>4, <1>5, <1>6, <1>7, <1>8, <1>9, <1>10, <1>11, <1>12,
       <1>13, <1>14, <1>15, <1>16, <1>17, <1>18, <1>19, <1>20, <1>21, <1>22, <1>23, <1>24, <1>25
    DEF Next, Lifecycle, Publishing, ServiceThread

\* The service thread and the robot live from start() to stop().
LEMMA NextLifeInv == TypeOK /\ LifeInv /\ [Next]_vars => LifeInv'
  <1>. SUFFICES ASSUME TypeOK, LifeInv, [Next]_vars PROVE LifeInv'
    OBVIOUS
  <1>. USE ConsoleAssumption, LimitsAssumption
       DEF TypeOK, LifeInv, slotVars, readVars, lifeVars, historyVars
  <1>1. CASE Start
    BY <1>1 DEF Start
  <1>2. CASE Launch
    BY <1>2 DEF Launch
  <1>3. CASE Stop
    BY <1>3 DEF Stop
  <1>4. CASE StopNotify
    BY <1>4 DEF StopNotify, Notified
  <1>5. CASE Join
    BY <1>5 DEF Join, Joinable
  <1>6. CASE CheckRunning
    BY <1>6 DEF CheckRunning
  <1>7. CASE BeginWait
    BY <1>7 DEF BeginWait
  <1>8. CASE WakeSpuriously
    BY <1>8 DEF WakeSpuriously
  <1>9. CASE EndWait
    BY <1>9 DEF EndWait
  <1>10. CASE TestSlot
    BY <1>10 DEF TestSlot
  <1>11. CASE ReadSource
    BY <1>11 DEF ReadSource
  <1>12. CASE PostEvent
    BY <1>12 DEF PostEvent
  <1>13. CASE ResetSlot
    BY <1>13 DEF ResetSlot
  <1>14. CASE PublishSensors
    BY <1>14 DEF PublishSensors
  <1>15. CASE EndPublish
    BY <1>15 DEF EndPublish
  <1>16. CASE Exit
    BY <1>16 DEF Exit
  <1>17. CASE UNCHANGED vars
    BY <1>17 DEF vars
  <1>18. ASSUME NEW p \in Publishers, BeginStore(p) PROVE LifeInv'
    BY <1>18 DEF BeginStore
  <1>19. ASSUME NEW p \in Publishers, EndStore(p) PROVE LifeInv'
    BY <1>19 DEF EndStore
  <1>20. ASSUME NEW p \in Publishers, Notify(p) PROVE LifeInv'
    BY <1>20 DEF Notify, Notified
  <1>21. ASSUME NEW p \in Publishers, RequestSensors(p) PROVE LifeInv'
    BY <1>21 DEF RequestSensors
  <1>22. ASSUME NEW p \in Publishers, AnswerRequest(p) PROVE LifeInv'
    BY <1>22 DEF AnswerRequest
  <1>23. ASSUME NEW p \in Publishers, EndRequest(p) PROVE LifeInv'
    BY <1>23 DEF EndRequest
  <1>24. ASSUME NEW p \in Publishers, NEW f \in Fields, StoreField(p, f) PROVE LifeInv'
    BY <1>24 DEF StoreField
  <1>25. ASSUME NEW f \in Fields, CopyField(f) PROVE LifeInv'
    BY <1>25 DEF CopyField
  <1>. QED
    BY <1>1, <1>2, <1>3, <1>4, <1>5, <1>6, <1>7, <1>8, <1>9, <1>10, <1>11, <1>12,
       <1>13, <1>14, <1>15, <1>16, <1>17, <1>18, <1>19, <1>20, <1>21, <1>22, <1>23, <1>24, <1>25
    DEF Next, Lifecycle, Publishing, ServiceThread

\* The reader, the store in progress and the fields of the slot.
LEMMA NextSlotInv ==
    IInv /\ TypeOK' /\ [Next]_vars => LockInv' /\ ReadInv' /\ ConstructInv' /\ FreshInv'
  <1>. DEFINE SlotInv == LockInv /\ ReadInv /\ ConstructInv /\ FreshInv
  <1>. SUFFICES ASSUME IInv, TypeOK', [Next]_vars PROVE SlotInv'
    OBVIOUS
  <1>. USE ConsoleAssumption, FieldsAssumption, LimitsAssumption
       DEF IInv, TypeOK, LockInv, ReadInv, ConstructInv, FreshInv, Reading, Fresh,
           Numbers, slotVars, readVars, lifeVars, historyVars
  <1>1. CASE Start
    BY <1>1 DEF Start
  <1>2. CASE Launch
    BY <1>2 DEF Launch, LifeInv
  <1>3. CASE Stop
    BY <1>3 DEF Stop
  <1>4. CASE StopNotify
    BY <1>4 DEF StopNotify, Notified
  <1>5. CASE Join
    BY <1>5 DEF Join, Joinable
  <1>6. CASE CheckRunning
    BY <1>6 DEF CheckRunning
  <1>7. CASE BeginWait
    BY <1>7 DEF BeginWait
  <1>8. CASE WakeSpuriously
    BY <1>8 DEF WakeSpuriously
  <1>9. CASE EndWait
    BY <1>9 DEF EndWait
  <1>10. CASE TestSlot
    BY <1>10 DEF TestSlot
  <1>11. CASE ReadSource
    BY <1>11 DEF ReadSource, SourceOf
  <1>12. CASE PostEvent
    BY <1>12 DEF PostEvent
  <1>13. CASE ResetSlot
    BY <1>13 DEF ResetSlot, EngagedAfterPost
  <1>14. CASE PublishSensors
    BY <1>14 DEF PublishSensors
  <1>15. CASE EndPublish
    BY <1>15 DEF EndPublish
  <1>16. CASE Exit
    BY <1>16 DEF Exit
  <1>17. CASE UNCHANGED vars
    BY <1>17 DEF vars
  <1>18. ASSUME NEW p \in Publishers, BeginStore(p) PROVE SlotInv'
    <2>1. LockInv' /\ ReadInv'
      BY <1>18 DEF BeginStore
    <2>2. published < published' /\ published' = published + 1 /\ postedUpTo' = postedUpTo
      BY <1>18 DEF BeginStore
    <2>3. ConstructInv'
      BY <1>18, <2>2 DEF BeginStore
    <2>4. FreshInv'
      BY <1>18, <2>2 DEF BeginStore
    <2>. QED  BY <2>1, <2>3, <2>4
  <1>19. ASSUME NEW p \in Publishers, EndStore(p) PROVE SlotInv'
    <2>1. LockInv' /\ ReadInv'
      BY <1>19 DEF EndStore
    <2>2. ConstructInv'
      BY <1>19 DEF EndStore
    <2>3. FreshInv'
      <3>1. CASE storePath = "construct"
        BY <1>19, <3>1 DEF EndStore
      <3>2. CASE storePath # "construct"
        BY <1>19, <3>2 DEF EndStore
      <3>. QED  BY <3>1, <3>2
    <2>. QED  BY <2>1, <2>2, <2>3
  <1>20. ASSUME NEW p \in Publishers, Notify(p) PROVE SlotInv'
    BY <1>20 DEF Notify, Notified
  <1>21. ASSUME NEW p \in Publishers, RequestSensors(p) PROVE SlotInv'
    BY <1>21 DEF RequestSensors
  <1>22. ASSUME NEW p \in Publishers, AnswerRequest(p) PROVE SlotInv'
    BY <1>22 DEF AnswerRequest
  <1>23. ASSUME NEW p \in Publishers, EndRequest(p) PROVE SlotInv'
    BY <1>23 DEF EndRequest
  <1>24. ASSUME NEW p \in Publishers, NEW f \in Fields, StoreField(p, f) PROVE SlotInv'
    <2>1. LockInv' /\ ReadInv'
      BY <1>24 DEF StoreField
    <2>2. ConstructInv'
      BY <1>24 DEF StoreField
    <2>3. FreshInv'
      BY <1>24 DEF StoreField
    <2>. QED  BY <2>1, <2>2, <2>3
  <1>25. ASSUME NEW f \in Fields, CopyField(f) PROVE SlotInv'
    <2>1. LockInv' /\ ReadInv' /\ ConstructInv'
      BY <1>25 DEF CopyField
    <2>2. FreshInv'
      BY <1>25 DEF CopyField
    <2>. QED  BY <2>1, <2>2
  <1>. QED
    BY <1>1, <1>2, <1>3, <1>4, <1>5, <1>6, <1>7, <1>8, <1>9, <1>10, <1>11, <1>12,
       <1>13, <1>14, <1>15, <1>16, <1>17, <1>18, <1>19, <1>20, <1>21, <1>22, <1>23, <1>24, <1>25
    DEF Next, Lifecycle, Publishing, ServiceThread

\* The inductive invariant: nothing in a slot that can still be read, and
\* nothing in a copy that is being made, is older than the last post.
THEOREM ControllerInvariance == Spec => []IInv
  <1>1. IInv /\ [Next]_vars => IInv'
    BY NextTypeOK, NextLifeInv, NextSlotInv DEF IInv
  <1>. QED  BY InitIInv, <1>1, PTL DEF Spec, SafetySpec

\* RobotControllerService's registers always have their types.
THEOREM ControllerTypeCorrect == Spec => []TypeOK
  <1>1. IInv => TypeOK
    BY DEF IInv
  <1>. QED  BY ControllerInvariance, <1>1, PTL

\* When Service::stop has returned the service thread is gone and the robot's
\* state machine is stopped: start() never assigns over a live thread.
THEOREM StopAlwaysComplete == Spec => []StopIsComplete
  <1>1. IInv => StopIsComplete
    BY DEF IInv, LifeInv, StopIsComplete
  <1>. QED  BY ControllerInvariance, <1>1, PTL

\* A step of the service is a step of the mailbox, or leaves it alone.
LEMMA StepImplementsMailbox ==
    IInv /\ [Next]_vars => [Mailbox!MailboxNext]_(Mailbox!mailboxVars)
  <1>. SUFFICES ASSUME IInv, [Next]_vars
                PROVE  Mailbox!MailboxNext \/ UNCHANGED Mailbox!mailboxVars
    OBVIOUS
  <1>1. CASE PostEvent
    <2>1. copied.source \in Fresh /\ copied.data \in [Fields -> Fresh]
      BY <1>1 DEF PostEvent, IInv, TypeOK, FreshInv, Fresh
    <2>2. event' = [source |-> copied.source, data |-> copied.data]
      BY <1>1 DEF PostEvent, IInv, TypeOK
    <2>3. Mailbox!Deliver
      BY <1>1, <2>1, <2>2 DEF PostEvent, Mailbox!Deliver, Fresh
    <2>. QED  BY <2>3 DEF Mailbox!MailboxNext
  <1>2. ASSUME NEW p \in Publishers, BeginStore(p) PROVE Mailbox!MailboxNext
    BY <1>2 DEF BeginStore, Mailbox!MailboxNext, Mailbox!Store
  <1>3. CASE Lifecycle
    BY <1>3 DEF Lifecycle, Start, Launch, Stop, StopNotify, Join, historyVars,
                Mailbox!mailboxVars
  <1>4. ASSUME NEW p \in Publishers, Publishing(p), ~BeginStore(p)
        PROVE  UNCHANGED Mailbox!mailboxVars
    BY <1>4 DEF Publishing, StoreField, EndStore, Notify, RequestSensors,
                AnswerRequest, EndRequest, historyVars, Mailbox!mailboxVars
  <1>5. CASE ServiceThread /\ ~PostEvent
    BY <1>5 DEF ServiceThread, CheckRunning, BeginWait, WakeSpuriously, EndWait,
                TestSlot, ReadSource, CopyField, ResetSlot, PublishSensors,
                EndPublish, Exit, historyVars, Mailbox!mailboxVars
  <1>6. CASE UNCHANGED vars
    BY <1>6 DEF vars, historyVars, Mailbox!mailboxVars
  <1>. QED  BY <1>1, <1>2, <1>3, <1>4, <1>5, <1>6 DEF Next

\* The slot of RobotControllerService, filled under _dataMutex and emptied
\* without it, is a lossy mailbox that never posts a command twice or late.
THEOREM SlotImplementsMailbox == Spec => ImplementsMailbox
  <1>1. Init => Mailbox!MailboxInit
    BY DEF Init, NoEvent, Mailbox!MailboxInit, Mailbox!NoEvent
  <1>. QED
    BY <1>1, ControllerInvariance, StepImplementsMailbox, PTL
    DEF Spec, SafetySpec, ImplementsMailbox, Mailbox!MailboxSpec
=============================================================================
