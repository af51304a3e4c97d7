----------------------------- MODULE MCFatalNack -----------------------------
(* TransferEngine with a history variable counting the fatal NACKs a client     *)
(* has been sent since its last 0x80 START, disconnect or local abort.          *)
EXTENDS MCTransferEngine

VARIABLE nacks

HistoryInit == Init /\ nacks = 0

Fatal(frames) == \E i \in 1 .. Len(frames) : frames[i].kind = "PIPE_NACK"

PipeDataStep ==
    /\ \E payload \in PipePayloads : OnPipeData(payload)
    /\ nacks' = IF nacks < 2 /\ Fatal(reply'.frames) THEN nacks + 1 ELSE nacks

RestartStep ==
    /\ \/ \E req \in PipeRequests : OnPipeStart(req)
       \/ \E generation \in 0 .. MaxGeneration : OnDisconnect(generation)
       \/ SetConnectionGeneration
       \/ LocalAbort
    /\ nacks' = 0

OtherStep ==
    /\ Tick \/ DeadlinePasses \/ EnvironmentStep
    /\ UNCHANGED nacks

HistorySpec ==
    HistoryInit /\ [][PipeDataStep \/ RestartStep \/ OtherStep]_<<vars, nacks>>

(* transfer_engine.h:41 and opendisplay_protocol.h:632-633: after a fatal 0x81  *)
(* NACK further 0x81 frames are discarded until the next START or disconnect,   *)
(* so on_pipe_data never sends a second one.                                    *)
FatalNackOnce == nacks <= 1

==============================================================================
