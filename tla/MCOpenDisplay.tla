---------------------------- MODULE MCOpenDisplay ----------------------------
(* OpenDisplay with two connections, a frame of one chunk, and a client that  *)
(* may send any command at any time, well-behaved or not.                     *)
EXTENDS OpenDisplay

(* Packets as the bytes of an RX slot. *)
Received(bytes) == Command([i \in 0 .. Len(bytes) - 1 |-> bytes[i + 1]], Len(bytes))

(* 0x70, 0x71 with one byte, 0x72, 0x43; 0x80 for a frame of one byte with window *)
(* and cadence 1, 0x81 with chunk 0, 0x82.                                        *)
MCDirectCommands ==
    {Received(bytes) : bytes \in {<<0, 112>>, <<0, 113, 255>>, <<0, 114>>, <<0, 67>>}}

MCPipeStart == Received(<<0, 128, 1, 0, 1, 1, 244, 0, 1, 0, 0, 0>>)
MCPipeRequests == {MCPipeStart.request}
MCPipeCommands == {MCPipeStart, Received(<<0, 129, 0, 255>>), Received(<<0, 130>>)}

MCDisplay(rows) ==
    [failed |-> FALSE, rotation |-> 0, native_width |-> 5, native_height |-> rows,
     color_scheme |-> "MONO"]

OneRow == MCDisplay(1)
TwoRows == MCDisplay(2)

MCCommands == MCDirectCommands \cup MCPipeCommands

==============================================================================
