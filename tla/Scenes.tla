-------------------------------- MODULE Scenes --------------------------------
(***************************************************************************)
(* The scene store and the orchestrator that runs a scene when a button   *)
(* is pressed.  The D-Bus thread edits scenes and triggers while the      *)
(* protocol thread resolves a press, reads the scene it names and sends   *)
(* the scene's actions; the store is locked for each access, not for the  *)
(* press.  Actions are stored as the blob the store writes, with bytes of *)
(* 0 .. ByteMax in place of 0 .. 255.                                     *)
(***************************************************************************)
EXTENDS Naturals, Sequences, SequencesExt

CONSTANTS SceneNetworks,  \* home ids
          SceneIds,       \* scene names
          Presses,        \* the presses the controllers can send
          ActionLists,    \* action lists a client stores
          Missing,        \* no row; no network bound
          ByteMax,        \* the largest byte, and MAX_BLOB_ITEMS
          MaxSceneEdits,  \* bound: edits of the store
          MaxPresses      \* bound: presses and DongleInfo events

VARIABLES
  sceneHome,      \* Store::State::currentHomeId
  scenes,         \* table scenes, the blobs
  triggers,       \* table scene_triggers
  press,          \* the runScene call of the bus handler
  activated,      \* the SceneActivated event published last
  versions,       \* history: what the resolved scene was during the press
  sceneEdits, presses

sceneVars == <<sceneHome, scenes, triggers, press, activated, versions, sceneEdits, presses>>
Bound == sceneHome # Missing

-----------------------------------------------------------------------------
(* The blob: version, count, then target, length and payload per action.  *)

BLOB_VERSION == 1
Byte(n) == n % (ByteMax + 1)
EncodeAction(a) == <<a.target, Byte(Len(a.payload))>> \o a.payload
encodeActions(actions) ==
  <<BLOB_VERSION, Byte(Len(actions))>> \o FlattenSeq([i \in DOMAIN actions |-> EncodeAction(actions[i])])

\* One action is read at `pos', unless its header or payload runs over the end.
DecodeAction(blob, s) ==
  LET header == s.ok /\ s.pos + 1 <= Len(blob)
      length == blob[s.pos + 1]
      fits == header /\ s.pos + 1 + length <= Len(blob)
  IN  IF ~fits THEN [s EXCEPT !.ok = FALSE]
      ELSE [ok |-> TRUE, pos |-> s.pos + 2 + length,
            out |-> Append(s.out, [target |-> blob[s.pos],
                                   payload |-> SubSeq(blob, s.pos + 2, s.pos + 1 + length)])]
decodeActions(blob) ==
  IF Len(blob) < 2 \/ blob[1] # BLOB_VERSION THEN Missing
  ELSE LET read[i \in 0 .. blob[2]] ==
             IF i = 0 THEN [ok |-> TRUE, pos |-> 3, out |-> <<>>] ELSE DecodeAction(blob, read[i - 1])
       IN  IF read[blob[2]].ok THEN read[blob[2]].out ELSE Missing

-----------------------------------------------------------------------------
(* The store, edited by the D-Bus thread.                                  *)

SceneEdit ==
  /\ sceneEdits < MaxSceneEdits
  /\ sceneEdits' = sceneEdits + 1
  /\ versions' = IF press.pc = "idle" THEN versions
                 ELSE versions \cup {scenes'[sceneHome, press.id]}
  /\ UNCHANGED <<sceneHome, press, activated, presses>>

\* A list with more than MAX_BLOB_ITEMS actions is dropped.
setScene(id, actions) ==
  /\ Bound /\ Len(actions) <= ByteMax
  /\ scenes' = [scenes EXCEPT ![sceneHome, id] = encodeActions(actions)]
  /\ UNCHANGED triggers /\ SceneEdit
\* Its triggers stay.
deleteScene(id) ==
  Bound /\ scenes' = [scenes EXCEPT ![sceneHome, id] = Missing] /\ UNCHANGED triggers /\ SceneEdit
bindTrigger(p, id) ==
  Bound /\ triggers' = [triggers EXCEPT ![sceneHome, p] = id] /\ UNCHANGED scenes /\ SceneEdit
unbindTrigger(p) ==
  Bound /\ triggers' = [triggers EXCEPT ![sceneHome, p] = Missing] /\ UNCHANGED scenes /\ SceneEdit

getScene(id) == IF scenes[sceneHome, id] = Missing THEN Missing ELSE decodeActions(scenes[sceneHome, id])
\* The key is the source, its node, the selector and the key attribute.
resolveTrigger_AnySource(p) ==
  LET bound == {q \in Presses : q.selector = p.selector /\ triggers[sceneHome, q] # Missing}
  IN  IF bound = {} THEN Missing ELSE triggers[sceneHome, CHOOSE q \in bound : TRUE]
resolveTrigger(p) == triggers[sceneHome, p]

-----------------------------------------------------------------------------
(* The protocol thread.                                                    *)

Waiting == [pc |-> "idle", id |-> Missing, actions |-> <<>>, sent |-> <<>>]

SceneDongleInfo(h) ==
  /\ press.pc = "idle" /\ presses < MaxPresses
  /\ sceneHome' = h /\ presses' = presses + 1
  /\ UNCHANGED <<scenes, triggers, press, activated, versions, sceneEdits>>

\* What is stored under the name a trigger holds.
Stored(id) == IF id = Missing THEN Missing ELSE scenes[sceneHome, id]

\* onCentralScene, onBasicSet, onSceneActivation: the first lookup of runScene.
\* A press that is not bound does nothing.
runScene(p) ==
  /\ press.pc = "idle" /\ Bound /\ presses < MaxPresses
  /\ presses' = presses + 1
  /\ LET id == resolveTrigger(p)
     IN  IF id = Missing THEN UNCHANGED <<press, versions>>
         ELSE /\ press' = [Waiting EXCEPT !.pc = "read", !.id = id]
              /\ versions' = {Stored(triggers[sceneHome, p])}
  /\ UNCHANGED <<sceneHome, scenes, triggers, activated, sceneEdits>>

\* The second lookup.  A scene deleted meanwhile is run as an empty one.
runSceneRead ==
  /\ press.pc = "read"
  /\ press' = [press EXCEPT !.pc = "send",
                 !.actions = IF getScene(press.id) = Missing THEN <<>> ELSE getScene(press.id)]
  /\ UNCHANGED <<sceneHome, scenes, triggers, activated, versions, sceneEdits, presses>>

\* One SendDataCommand per action of the list read, then SceneActivated.
NextAction(sent, actions) == IF Len(sent) < Len(actions) THEN <<actions[Len(sent) + 1]>> ELSE <<>>
runSceneSend ==
  /\ press.pc = "send"
  /\ NextAction(press.sent, press.actions) # <<>>
  /\ press' = [press EXCEPT !.sent = @ \o NextAction(@, press.actions)]
  /\ UNCHANGED <<sceneHome, scenes, triggers, activated, versions, sceneEdits, presses>>
runSceneActivated ==
  /\ press.pc = "send"
  /\ NextAction(press.sent, press.actions) = <<>>
  /\ activated' = [id |-> press.id, count |-> Len(press.sent), sent |-> press.sent]
  /\ press' = Waiting /\ versions' = {}
  /\ UNCHANGED <<sceneHome, scenes, triggers, sceneEdits, presses>>

-----------------------------------------------------------------------------
Quiet == [id |-> Missing, count |-> 0, sent |-> <<>>]
ScenesInit ==
  /\ sceneHome = Missing
  /\ scenes = [k \in SceneNetworks \X SceneIds |-> Missing]
  /\ triggers = [k \in SceneNetworks \X Presses |-> Missing]
  /\ press = Waiting /\ activated = Quiet /\ versions = {}
  /\ sceneEdits = 0 /\ presses = 0

ScenesNext ==
  \/ \E id \in SceneIds : deleteScene(id) \/ \E actions \in ActionLists : setScene(id, actions)
  \/ \E p \in Presses : unbindTrigger(p) \/ \E id \in SceneIds : bindTrigger(p, id)
  \/ \E h \in SceneNetworks : SceneDongleInfo(h)
  \/ \E p \in Presses : runScene(p)
  \/ runSceneRead \/ runSceneSend \/ runSceneActivated

-----------------------------------------------------------------------------
\* A press sends exactly the actions, in their order, that some client gave
\* to SetScene for the scene the press was bound to, in a version the scene
\* had while the press was being handled, or nothing if it was then deleted;
\* and SceneActivated reports as many (SceneOrchestrator.cpp:69-113).  Edits
\* of the scene and of its trigger during the press, and the way through the
\* stored blob, never give a mixture of two versions.
ScenePlayedWhole ==
  [][ activated' # activated /\ press.pc = "send" =>
        /\ activated'.count = Len(activated'.sent)
        /\ \/ activated'.sent = <<>> /\ Missing \in versions
           \/ \E actions \in ActionLists :
                /\ Len(actions) <= ByteMax /\ activated'.sent = actions
                /\ encodeActions(actions) \in versions ]_sceneVars
=============================================================================
