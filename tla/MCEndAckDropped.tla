--------------------------- MODULE MCEndAckDropped ---------------------------
(* OpenDisplay with the queue sizes of the source and one client that keeps   *)
(* to the protocol: it sends its 16 chunks in order, within a window of 16,   *)
(* to a peer that has negotiated a SACK for every chunk, and then waits.      *)
(* Nothing times out and nobody disconnects.                                  *)
EXTENDS OpenDisplay

Start == [op |-> "PIPE_START",
          request |-> [well_formed |-> TRUE, compressed |-> FALSE, total_size |-> 16,
                       req_window |-> 16, req_ack_every |-> 1]]

Chunk(n) == [op |-> "PIPE_DATA", payload |-> <<n, 1>>]

MCPipeRequests == {Start.request}
SixteenRows ==
    [failed |-> FALSE, rotation |-> 0, native_width |-> 8, native_height |-> 16,
     color_scheme |-> "MONO"]

MCCommands == {Start} \cup {Chunk(n) : n \in 0 .. 15}

VARIABLE sent    \* commands sent

ScriptedInit == ComponentInit /\ sent = 0

(* The client sends its first chunk when the START has been answered. *)
ScriptedWrite ==
    /\ sent < 17
    /\ sent = 1 => txn.state = "RECEIVING" /\ tx = <<>>
    /\ OnBleWrite(IF sent = 0 THEN Start ELSE Chunk(sent - 1))
    /\ sent' = sent + 1

ScriptedNext ==
    \/ ScriptedWrite
    \/ /\ \/ OnBleConnect \/ CountConnection \/ TellEngine
          \/ Loop
          \/ DriverFinishes /\ UNCHANGED <<engineVars, componentVars>>
       /\ UNCHANGED sent

ScriptedSpec == ScriptedInit /\ [][ScriptedNext]_<<allVars, sent>>

==============================================================================
