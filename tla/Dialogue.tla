------------------------------- MODULE Dialogue -------------------------------
(***************************************************************************)
(* The component with its sensors and clients (external) that have a few   *)
(* commands under way at a time and wait for the answers.  They may come,  *)
(* go, and send whatever they like; what is modelled is their account of   *)
(* the answers they are owed.                                              *)
(*                                                                         *)
(* Two history variables keep that account.  They follow the frames of     *)
(* each answer through the TX queue, so that neither a frame left by an    *)
(* earlier client nor an outcome passes for an answer.                     *)
(***************************************************************************)
EXTENDS Entities, FiniteSets

CONSTANT
    Pipelining       \* commands a client sends without waiting for an answer

ASSUME DialogueAssumption == Pipelining \in Nat \ {0}

VARIABLES
    waiting,         \* the answers the client is still owed
    due              \* the positions in tx of the frames that end an answer to it

accountVars == <<waiting, due>>
dialogueVars == <<entitiesVars, accountVars>>

DialogueInit == EntitiesInit /\ waiting = 0 /\ due = {}

------------------------------------------------------------------------------
Asks ==
    /\ waiting < Pipelining
    /\ ClientWrites
    /\ waiting' = waiting + 1
    /\ UNCHANGED <<due, entityVars>>

Arrives == OnBleConnect /\ UNCHANGED <<entityVars, accountVars>>
Connecting == (CountConnection \/ TellEngine) /\ UNCHANGED <<entityVars, accountVars>>

(* Nobody is owed what is still queued, nor what is still answered from the ring. *)
Leaves ==
    /\ OnBleDisconnect
    /\ waiting' = 0 /\ due' = {}
    /\ UNCHANGED entityVars

(* The frames of the answer to c, whether or not the TX queue takes them. *)
AnswerTo(c) == IF c.op \in Queries THEN OwnAnswer(c, msd_status) ELSE reply'.frames

(* A packet of the client that is here is answered in full, in part, or not at all. *)
(* A 0x81 between two SACKs or after a fatal NACK is owed nothing, and so is a      *)
(* packet without an opcode.                                                        *)
AccountAnswer(frames) ==
    /\ waiting' = IF frames = <<>> THEN waiting - Lesser(waiting, 1) ELSE waiting
    /\ due' = IF frames # <<>> /\ tx' = tx \o frames THEN due \cup {Len(tx')} ELSE due

Answers ==
    /\ PacketWithEntities
    /\ IF connected /\ linking = "no" /\ Head(rx).session = session
       THEN AccountAnswer(AnswerTo(Head(rx).command))
       ELSE UNCHANGED accountVars

(* The client has read an answer when it has read the frame that ends it. *)
Delivers ==
    /\ DrainWithEntities
    /\ LET n == Len(tx) - Len(tx')
       IN  /\ waiting' = waiting - Cardinality(due \cap 1 .. n)
           /\ due' = {position - n : position \in due \ 1 .. n}

LoopServes ==
    \/ Answers
    \/ Delivers
    \/ (LoopStarts \/ PacketsHandled) /\ UNCHANGED <<entityVars, accountVars>>
    \/ TickWithEntities /\ UNCHANGED accountVars

Aborts == AbortAction /\ UNCHANGED <<entityVars, accountVars>>
World(A) == A /\ UNCHANGED <<componentVars, entityVars, accountVars>>

DialogueNext ==
    \/ Asks
    \/ Arrives
    \/ Connecting
    \/ Leaves
    \/ LoopServes
    \/ Aborts
    \/ World(DeadlinePasses \/ EnvironmentStep)

(* loop() runs for ever, a connect callback ends, the clock moves on and a driver *)
(* that does not fail ends its refresh.                                           *)
DialogueSpec ==
    /\ DialogueInit /\ [][DialogueNext]_dialogueVars
    /\ WF_dialogueVars(LoopServes)
    /\ WF_dialogueVars(Connecting)
    /\ WF_dialogueVars(World(DeadlinePasses))
    /\ WF_dialogueVars(World(DriverFinishes /\ UNCHANGED engineVars))

------------------------------------------------------------------------------
(* Properties *)

AccountTypeOK ==
    /\ ComponentTypeOK /\ EntityTypeOK
    /\ waiting \in 0 .. Pipelining
    /\ due \subseteq DOMAIN tx
    /\ Cardinality(due) <= waiting

(* A client that waits for its answers and stays gets them all, each to its last    *)
(* frame, behind whatever an earlier client left in the TX queue: no packet of its  *)
(* is lost in the ring, no answer is dropped or cut short, and no error is silent   *)
(* (on_ble_write, handle_packet_, apply_result_, send_config_, drain_tx_).          *)
ClientAnswered == waiting > 0 ~> waiting = 0

==============================================================================
