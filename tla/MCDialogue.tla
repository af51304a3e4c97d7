------------------------------ MODULE MCDialogue ------------------------------
(* Dialogue with the instance of MCOpenDisplay: PIPE clients that complete  *)
(* their frame with its last chunk, read the configuration, in two frames,    *)
(* and the MSD record.                                                        *)
EXTENDS MCOpenDisplay, Dialogue

MCDialogueCommands ==
    {MCPipeStart, Received(<<0, 129, 0, 255>>), Received(<<0, 64>>), Received(<<0, 68>>)}

==============================================================================
