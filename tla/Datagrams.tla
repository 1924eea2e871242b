------------------------------ MODULE Datagrams ------------------------------
(***************************************************************************)
(* The UDP path between the voice agent (voiceAgent/robot_bridge.py) and   *)
(* the robot (operators/UdpServerSocket.cpp).  A datagram may be lost, may *)
(* overtake others and may come several times; loss is decided when it is  *)
(* sent, which no end can tell from a later loss.                          *)
(***************************************************************************)
EXTENDS Integers, Sequences

CONSTANT PacketPieces   \* pieces of text that fit in the buffer of receiveData

ASSUME PacketAssumption == PacketPieces \in Nat

VARIABLES
    toRobot,   \* datagrams that will reach the robot's socket
    toAgent    \* datagrams that will reach the agent's socket

channels == <<toRobot, toAgent>>

\* sendto() on either side.
SendToRobot(m) == toRobot' \in {toRobot, toRobot \cup {m}}
SendToAgent(m) == toAgent' \in {toAgent, toAgent \cup {m}}

\* recvfrom() on either side: the network may hold another copy.
TakenByRobot(m) == m \in toRobot /\ toRobot' \in {toRobot \ {m}, toRobot}
TakenByAgent(m) == m \in toAgent /\ toAgent' \in {toAgent \ {m}, toAgent}

\* Seeded fault: the buffer is one piece smaller than the text needs.
Fits_Smaller(m) == m.type # "LLMResponse" \/ Len(m.text) < PacketPieces

\* recvfrom() cuts a datagram at sizeof(buffer) - 1 bytes; what is left of a
\* longer one is not JSON, and process_received_data drops it.
Fits(m) == m.type # "LLMResponse" \/ Len(m.text) <= PacketPieces
=============================================================================
