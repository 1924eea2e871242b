------------------------ MODULE RemoteConnectionProofs ------------------------
(***************************************************************************)
(* Proofs about RemoteConnectionService, for any number of clients,        *)
(* messages and stops: its slot is a lossy mailbox, and a message in it    *)
(* has its handle.                                                         *)
(***************************************************************************)
EXTENDS RemoteConnectionService, SequenceTheorems, TLAPS

\* What the proofs need of the history of calls: a call adds one to it.
LEMMA CallsNat == KindsOK => Calls \in Nat
  BY DEF KindsOK, Calls

LEMMA CallsKept == UNCHANGED kinds => UNCHANGED Calls /\ (KindsOK => KindsOK')
  BY DEF KindsOK, Calls

LEMMA CallAdded ==
    ASSUME NEW kind \in Events \cup Texts, KindsOK, kinds' = Append(kinds, kind)
    PROVE  KindsOK' /\ Calls' = Calls + 1
  BY AppendProperties DEF KindsOK, Calls

\* Every step keeps the types.
LEMMA NextTypeOK == TypeOK /\ [Next]_vars => TypeOK'
  <1>. SUFFICES ASSUME TypeOK, [Next]_vars PROVE TypeOK'
    OBVIOUS
  <1>. USE RemoteAssumption, CallsNat, CallsKept DEF TypeOK, Numbers
  <1>1. ASSUME NEW kind \in Events \cup Texts, Store(kind), clients' \in 0 .. MaxClients
        PROVE  TypeOK'
    <2>1. KindsOK' /\ Calls' = Calls + 1
      BY <1>1, CallAdded DEF Store
    <2>2. slot' \in 0 .. Calls' /\ Calls' <= MaxStored
      BY <1>1, <2>1 DEF Store
    <2>. QED
      BY <1>1, <2>1, <2>2 DEF Store, Notified, modeVars, serverVars, historyVars, consoleVars
  <1>2. CASE Handlers
    <2>1. CASE OnOpen
      BY <1>1, <2>1 DEF OnOpen, Events
    <2>2. CASE OnClose
      BY <1>1, <2>2 DEF OnClose, Events
    <2>3. ASSUME NEW text \in Texts, OnMessage(text) PROVE TypeOK'
      BY <1>1, <2>3 DEF OnMessage
    <2>. QED  BY <1>2, <2>1, <2>2, <2>3 DEF Handlers
  <1>. USE DEF svcUnchanged, At, slotVars, modeVars, serverVars, historyVars, consoleVars
  <1>3. CASE Begin
    BY <1>3 DEF Begin
  <1>4. CASE Check
    BY <1>4 DEF Check, Move
  <1>5. CASE Wait
    BY <1>5 DEF Wait, Move
  <1>6. CASE FallAsleep
    BY <1>6 DEF FallAsleep, Move
  <1>7. CASE Woken
    BY <1>7 DEF Woken, Move
  <1>8. CASE WakeSpuriously
    BY <1>8 DEF WakeSpuriously, Move
  <1>9. CASE IsOpen
    BY <1>9 DEF IsOpen, Handle
  <1>10. CASE IsClose
    <2>1. handledUpTo' \in Numbers /\ handled' \in Numbers /\ acts' \in Nat
      BY <1>10 DEF IsClose, Handle
    <2>2. aiMode' \in BOOLEAN /\ subscribed' \in BOOLEAN
      BY <1>10 DEF IsClose
    <2>. QED  BY <1>10, <2>1, <2>2 DEF IsClose
  <1>11. CASE Parse
    BY <1>11 DEF Parse, Handle
  <1>12. CASE Opened
    BY <1>12 DEF Opened
  <1>13. CASE CloseHandle
    BY <1>13 DEF CloseHandle
  <1>14. CASE SwitchOff
    BY <1>14 DEF SwitchOff
  <1>15. CASE Reset
    BY <1>15 DEF Reset, AfterReset
  <1>16. CASE StopOperator
    BY <1>16 DEF StopOperator
  <1>17. CASE StopServer
    BY <1>17 DEF StopServer
  <1>18. CASE JoinServer
    BY <1>18 DEF JoinServer
  <1>19. CASE StoreSensor
    BY <1>19 DEF StoreSensor
  <1>20. CASE Listen
    BY <1>20 DEF Listen
  <1>21. CASE RunServer
    BY <1>21 DEF RunServer
  <1>22. CASE BroadcastEnds
    <2>1. UNCHANGED kinds /\ broadcast' \in BOOLEAN
      BY <1>22 DEF BroadcastEnds
    <2>2. UNCHANGED Calls /\ KindsOK'
      BY <2>1
    <2>. QED  BY <1>22, <2>1, <2>2, SMTT(30) DEF BroadcastEnds
  <1>23. CASE Stop
    <2>1. stops' \in 0 .. MaxStops
      BY <1>23 DEF Stop
    <2>2. UNCHANGED kinds /\ running' \in BOOLEAN /\ consolePc' \in {"idle", "notify", "join"}
      BY <1>23 DEF Stop
    <2>3. UNCHANGED Calls /\ KindsOK'
      BY <2>2
    <2>. QED  BY <1>23, <2>1, <2>2, <2>3, SMTT(30) DEF Stop
  <1>24. CASE NotifyStop
    BY <1>24 DEF NotifyStop, Notified
  <1>25. CASE JoinService
    BY <1>25 DEF JoinService
  <1>26. CASE Start
    BY <1>26 DEF Start
  <1>27. CASE UNCHANGED vars
    BY <1>27 DEF vars
  <1>. QED
    BY <1>2, <1>3, <1>4, <1>5, <1>6, <1>7, <1>8, <1>9, <1>10, <1>11, <1>12, <1>13, <1>14,
       <1>15, <1>16, <1>17, <1>18, <1>19, <1>20, <1>21, <1>22, <1>23, <1>24, <1>25, <1>26, <1>27
    DEF Next, ServiceStep

\* Every step keeps what is known of the slot and the handle.
LEMMA NextSlotInv ==
    TypeOK /\ SlotInv /\ HandleInv /\ LifeInv /\ [Next]_vars
        => SlotInv' /\ HandleInv' /\ LifeInv'
  <1>. SUFFICES ASSUME TypeOK, SlotInv, HandleInv, LifeInv, [Next]_vars
                PROVE  SlotInv' /\ HandleInv' /\ LifeInv'
    OBVIOUS
  <1>. USE RemoteAssumption, CallsNat, CallsKept DEF TypeOK, Numbers, SlotInv, HandleInv, LifeInv, Acting
  <1>1. ASSUME NEW kind \in Events \cup Texts, Store(kind)
        PROVE  SlotInv' /\ HandleInv' /\ LifeInv'
    <2>1. Calls' = Calls + 1 /\ slot' = Calls'
      BY <1>1, CallAdded DEF Store
    <2>. QED  BY <1>1, <2>1 DEF Store, Notified, historyVars, consoleVars
  <1>2. CASE Handlers
    BY <1>1, <1>2 DEF Handlers, OnOpen, OnClose, OnMessage, Events
  <1>. USE DEF svcUnchanged, At, slotVars, modeVars, serverVars, historyVars, consoleVars
  <1>3. CASE Begin
    BY <1>3 DEF Begin
  <1>4. CASE Check
    BY <1>4 DEF Check, Move
  <1>5. CASE Wait
    BY <1>5 DEF Wait, Move
  <1>6. CASE FallAsleep
    BY <1>6 DEF FallAsleep, Move
  <1>7. CASE Woken
    BY <1>7 DEF Woken, Move
  <1>8. CASE WakeSpuriously
    BY <1>8 DEF WakeSpuriously, Move
  <1>9. CASE IsOpen
    BY <1>9 DEF IsOpen, Handle
  <1>10. CASE IsClose
    BY <1>10 DEF IsClose, Handle
  <1>11. CASE Parse
    BY <1>11 DEF Parse, Handle
  <1>12. CASE Opened
    BY <1>12 DEF Opened
  <1>13. CASE CloseHandle
    BY <1>13 DEF CloseHandle
  <1>14. CASE SwitchOff
    BY <1>14 DEF SwitchOff
  <1>15. CASE Reset
    BY <1>15 DEF Reset, AfterReset
  <1>16. CASE StopOperator
    BY <1>16 DEF StopOperator
  <1>17. CASE StopServer
    BY <1>17 DEF StopServer
  <1>18. CASE JoinServer
    BY <1>18 DEF JoinServer
  <1>19. CASE StoreSensor
    BY <1>19 DEF StoreSensor
  <1>20. CASE Listen
    BY <1>20 DEF Listen
  <1>21. CASE RunServer
    BY <1>21 DEF RunServer
  <1>22. CASE BroadcastEnds
    BY <1>22 DEF BroadcastEnds
  <1>23. CASE Stop
    BY <1>23 DEF Stop
  <1>24. CASE NotifyStop
    BY <1>24 DEF NotifyStop, Notified
  <1>25. CASE JoinService
    BY <1>25 DEF JoinService
  <1>26. CASE Start
    BY <1>26 DEF Start
  <1>27. CASE UNCHANGED vars
    BY <1>27 DEF vars
  <1>. QED
    BY <1>2, <1>3, <1>4, <1>5, <1>6, <1>7, <1>8, <1>9, <1>10, <1>11, <1>12, <1>13, <1>14,
       <1>15, <1>16, <1>17, <1>18, <1>19, <1>20, <1>21, <1>22, <1>23, <1>24, <1>25, <1>26, <1>27
    DEF Next, ServiceStep

\* The inductive invariant of the message slot.
THEOREM RemoteInvariance == Spec => []IInv
  <1>1. Init => IInv
    <2>. SUFFICES ASSUME Init PROVE IInv
      OBVIOUS
    <2>1. Calls = 0 /\ KindsOK
      BY DEF Init, Calls, KindsOK
    <2>2. TypeOK
      <3>1. 0 \in 0 .. MaxStops /\ 0 \in 0 .. MaxClients /\ 0 \in Numbers
        BY RemoteAssumption DEF Numbers
      <3>2. slot \in 0 .. Calls /\ Calls <= MaxStored /\ acts \in Nat
        BY <2>1, RemoteAssumption DEF Init
      <3>. QED  BY <2>1, <3>1, <3>2, Zenon DEF Init, TypeOK
    <2>. QED  BY <2>1, <2>2 DEF Init, IInv, SlotInv, HandleInv, LifeInv, Acting
  <1>2. IInv /\ [Next]_vars => IInv'
    BY NextTypeOK, NextSlotInv DEF IInv
  <1>. QED  BY <1>1, <1>2, PTL DEF Spec

\* RemoteConnectionService and its WebSocketOperator keep their types; no
\* handler's number is taken from outside the calls that were made.
THEOREM RemoteTypeCorrect == Spec => []TypeOK
  <1>1. IInv => TypeOK
    BY DEF IInv
  <1>. QED  BY RemoteInvariance, <1>1, PTL

\* A message that service_function may look at has the handle of its client,
\* although a close resets the handle a second late.
THEOREM HandleKept == Spec => []MessageHasHandle
  <1>1. IInv => MessageHasHandle
    BY DEF IInv, HandleInv, MessageHasHandle
  <1>. QED  BY RemoteInvariance, <1>1, PTL

\* A step of the service is a step of the mailbox, or leaves it alone.
LEMMA StepImplementsMailbox ==
    IInv /\ [Next]_vars => [Mailbox!MailboxNext]_(Mailbox!mailboxVars)
  <1>. SUFFICES ASSUME IInv, [Next]_vars
                PROVE  Mailbox!MailboxNext \/ UNCHANGED Mailbox!mailboxVars
    OBVIOUS
  <1>. DEFINE alone == UNCHANGED <<kinds, handled, handledUpTo, acts>>
  <1>0. ASSUME alone PROVE UNCHANGED Mailbox!mailboxVars
    <2>1. UNCHANGED Calls
      BY <1>0, CallsKept
    <2>. QED  BY <1>0, <2>1 DEF Mailbox!mailboxVars
  <1>1. ASSUME At("is_open") \/ At("is_close") \/ At("parse"), Handle, UNCHANGED kinds
        PROVE  Mailbox!MailboxNext
    <2>1. slot \in (handledUpTo + 1) .. Calls /\ UNCHANGED Calls
      BY <1>1, CallsNat, CallsKept DEF At, IInv, TypeOK, Numbers, SlotInv, Acting
    <2>2. [f \in {"text"} |-> slot] \in [{"text"} -> (handledUpTo + 1) .. Calls]
      BY <2>1
    <2>3. handled' = slot /\ handledUpTo' = Calls /\ acts' = acts + 1
      BY <1>1 DEF Handle
    <2>4. \E s \in (handledUpTo + 1) .. Calls :
          \E d \in [{"text"} -> (handledUpTo + 1) .. Calls] :
             [source |-> slot, data |-> [f \in {"text"} |-> slot]] = [source |-> s, data |-> d]
      BY <2>1, <2>2
    <2>5. Mailbox!Deliver
      BY <2>1, <2>3, <2>4 DEF Mailbox!Deliver
    <2>. QED  BY <2>5 DEF Mailbox!MailboxNext
  <1>2. CASE IsOpen \/ IsClose \/ Parse
    <2>1. alone \/ Handle
      BY <1>2 DEF IsOpen, IsClose, Parse, svcUnchanged, historyVars
    <2>2. (At("is_open") \/ At("is_close") \/ At("parse")) /\ UNCHANGED kinds
      BY <1>2 DEF IsOpen, IsClose, Parse, svcUnchanged
    <2>. QED  BY <1>0, <1>1, <2>1, <2>2
  <1>3. ASSUME NEW kind \in Events \cup Texts, Store(kind) PROVE Mailbox!MailboxNext
    <2>1. Calls' = Calls + 1
      BY <1>3, CallAdded DEF Store, IInv, TypeOK
    <2>. QED
      BY <1>3, <2>1 DEF Store, historyVars, Mailbox!MailboxNext, Mailbox!Store
  <1>4. CASE Handlers
    BY <1>3, <1>4 DEF Handlers, OnOpen, OnClose, OnMessage, Events
  <1>5. CASE Begin \/ Check \/ Wait \/ FallAsleep \/ Woken \/ WakeSpuriously
    <2>1. alone
      BY <1>5 DEF Begin, Check, Wait, FallAsleep, Woken, WakeSpuriously, Move, svcUnchanged,
                  historyVars
    <2>. QED  BY <1>0, <2>1
  <1>6. CASE \/ Opened \/ CloseHandle \/ SwitchOff \/ Reset
             \/ StopOperator \/ StopServer \/ JoinServer
    <2>1. alone
      BY <1>6 DEF Opened, CloseHandle, SwitchOff, Reset, StopOperator, StopServer, JoinServer,
                  svcUnchanged, historyVars
    <2>. QED  BY <1>0, <2>1
  <1>7. CASE StoreSensor \/ Listen \/ RunServer \/ BroadcastEnds
    <2>1. alone
      BY <1>7 DEF StoreSensor, Listen, RunServer, BroadcastEnds, slotVars, historyVars
    <2>. QED  BY <1>0, <2>1
  <1>8. CASE Stop \/ NotifyStop \/ JoinService \/ Start
    <2>1. alone
      BY <1>8 DEF Stop, NotifyStop, JoinService, Start, slotVars, historyVars
    <2>. QED  BY <1>0, <2>1
  <1>9. CASE UNCHANGED vars
    <2>1. alone
      BY <1>9 DEF vars, slotVars, historyVars
    <2>. QED  BY <1>0, <2>1
  <1>. QED  BY <1>2, <1>4, <1>5, <1>6, <1>7, <1>8, <1>9 DEF Next, ServiceStep

\* The slot into which the server thread puts opens, closes and messages, and
\* which service_function reads and resets without the lock, is a lossy
\* mailbox: nothing is acted upon twice or after something newer.
THEOREM SlotImplementsMailbox == Spec => ImplementsMailbox
  <1>1. Init => Mailbox!MailboxInit
    <2>1. Init => Calls = 0
      BY DEF Init, Calls
    <2>. QED  BY <2>1 DEF Init, Mailbox!MailboxInit, Mailbox!NoEvent
  <1>. QED
    BY <1>1, RemoteInvariance, StepImplementsMailbox, PTL
    DEF Spec, ImplementsMailbox, Mailbox!MailboxSpec
=============================================================================
