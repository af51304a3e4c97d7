---------------------------- MODULE MCStaleError ----------------------------
(* Entities with one DIRECT client that stays connected and asks for one thing *)
(* at a time, on a panel of one byte whose driver never fails.  Nothing times  *)
(* out.  A history variable keeps the last result of the engine.               *)
EXTENDS Entities

OneRow ==
    [failed |-> FALSE, rotation |-> 0, native_width |-> 5, native_height |-> 1,
     color_scheme |-> "MONO"]

(* The START of length 1 asks for a compressed transfer, which is refused. *)
MCCommands ==
    {[op |-> "DIRECT_START", length |-> 0], [op |-> "DIRECT_START", length |-> 1],
     [op |-> "DIRECT_DATA", length |-> 1], [op |-> "DIRECT_END"]}

VARIABLE last_result    \* none, success or error

ResultInit == EntitiesInit /\ last_result = "none"

(* Only the calls of handle_packet_ and of the tick have a result. *)
RecordResult ==
    last_result' = IF ~EngineCalled THEN last_result
                   ELSE IF Fails(reply') THEN "error"
                   ELSE IF Says(RefreshSuccess)' THEN "success" ELSE last_result

ResultNext ==
    \/ LoopWithEntities /\ RecordResult
    \/ /\ \/ rx = <<>> /\ tx = <<>> /\ ClientWrites
          \/ OnBleConnect \/ CountConnection \/ TellEngine
       /\ UNCHANGED <<entityVars, last_result>>
    \/ DriverFinishes /\ UNCHANGED <<engineVars, componentVars, entityVars, last_result>>

ResultSpec == ResultInit /\ [][ResultNext]_<<entitiesVars, last_result>>

(* opendisplay.cpp:540: "`error` is an orthogonal last-result property". So the *)
(* activity sensor, when loop() has published, shows an error only if the last  *)
(* transfer to end did end in one (publish_state_).                             *)
ErrorIsLastResult == stage = "start" /\ activity = "error" => last_result = "error"

=============================================================================
