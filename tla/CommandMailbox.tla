--------------------------- MODULE CommandMailbox ---------------------------
(***************************************************************************)
(* What a slot of one place promises that is filled under a mutex and      *)
(* emptied without it: the command slot of RobotControllerService, between *)
(* the services that publish ControlData and the robot's event queue, and  *)
(* the message slot of RemoteConnectionService.  It is a lossy mailbox.  A *)
(* posted event is put together from commands that were all published      *)
(* after the previous event was posted: commands may be lost or mixed, but *)
(* none is posted twice and none after a newer one.                        *)
(***************************************************************************)
EXTENDS Naturals

CONSTANT Fields   \* the fields of a ControlData

VARIABLES
    published,    \* number of commands stored so far; also the newest's number
    postedUpTo,   \* number of commands stored when an event was last posted
    event,        \* the last event: the command each of its parts came from
    posts         \* number of events posted

mailboxVars == <<published, postedUpTo, event, posts>>

NoEvent == [source |-> 0, data |-> [f \in Fields |-> 0]]

MailboxInit == published = 0 /\ postedUpTo = 0 /\ event = NoEvent /\ posts = 0

\* A command is stored in the slot.
Store == published' = published + 1 /\ UNCHANGED <<postedUpTo, event, posts>>

\* An event leaves the slot; nothing published before now may follow it.
Deliver ==
    /\ \E s \in (postedUpTo + 1) .. published :
       \E d \in [Fields -> (postedUpTo + 1) .. published] :
            event' = [source |-> s, data |-> d]
    /\ postedUpTo' = published /\ posts' = posts + 1
    /\ UNCHANGED published

MailboxNext == Store \/ Deliver
MailboxSpec == MailboxInit /\ [][MailboxNext]_mailboxVars
=============================================================================
