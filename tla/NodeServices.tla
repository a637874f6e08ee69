---------------------------- MODULE NodeServices ----------------------------
(***************************************************************************)
(* The services built on the nodes' commands and reports: policies,        *)
(* scenes, logical thermostats, the S0 transport, the reassembly of long   *)
(* datagrams and the tables bound to a network.  They share no variable    *)
(* and no lock but the bus, which their models take for granted; so each   *)
(* behaviour here exercises one of them, with the others at rest.          *)
(***************************************************************************)
EXTENDS Policies, Scenes, Thermostats, S0Transport, Segments, NodeData

VARIABLE focus    \* the service that is exercised

serviceVars == <<focus, policyVars, sceneVars, climateVars, s0Vars, segmentVars, dataVars>>

Init ==
  /\ focus \in {"policies", "scenes", "climate", "s0", "segments", "data"}
  /\ PoliciesInit /\ ScenesInit /\ ThermostatsInit /\ S0Init /\ SegmentsInit /\ DataInit
  /\ focus # "policies" => autoLifeline
  /\ focus # "s0" => s0key /\ \A p \in Peers : wanted[p] = 0

Rest(vars) == UNCHANGED <<focus, vars>>
Next ==
  \/ focus = "policies" /\ PoliciesNext /\ Rest(<<sceneVars, climateVars, s0Vars, segmentVars, dataVars>>)
  \/ focus = "scenes" /\ ScenesNext /\ Rest(<<policyVars, climateVars, s0Vars, segmentVars, dataVars>>)
  \/ focus = "climate" /\ ThermostatsNext /\ Rest(<<policyVars, sceneVars, s0Vars, segmentVars, dataVars>>)
  \/ focus = "s0" /\ S0Next /\ Rest(<<policyVars, sceneVars, climateVars, segmentVars, dataVars>>)
  \/ focus = "segments" /\ SegmentsNext /\ Rest(<<policyVars, sceneVars, climateVars, s0Vars, dataVars>>)
  \/ focus = "data" /\ DataNext /\ Rest(<<policyVars, sceneVars, climateVars, s0Vars, segmentVars>>)
Spec == Init /\ [][Next]_serviceVars

-----------------------------------------------------------------------------
(* A small instance.                                                       *)

Param == [kind |-> "Configuration", key |-> 1]
WakeInterval == [kind |-> "WakeUp", key |-> 0]
Entry(slot, value) == [slot |-> slot, value |-> value]
MCPolicyValues == {
  <<Entry(Param, "x"), Entry(Lifeline, "x")>>,
  <<Entry(WakeInterval, ToController), Entry(Param, "y")>>,
  <<>>}
MCSupportSets == {Kinds, {"WakeUp"}}

Act(target, payload) == [target |-> target, payload |-> payload]
MCActionLists == {
  <<Act(1, <<2>>), Act(2, <<1, 3>>)>>,
  <<Act(2, <<>>), Act(1, <<1, 1, 1>>), Act(3, <<2>>)>>,
  [i \in 1 .. 4 |-> Act(1, <<>>)]}
MCPresses == {[source |-> s, selector |-> 1, key |-> 0] : s \in {"CentralScene", "BasicSet"}}

MCRooms == {[key |-> "room", value |-> "hall"], [key |-> "floor", value |-> "one"]}
MCSupports == [n \in {5, 6} |-> IF n = 5 THEN {"ThermostatMode"} ELSE {"ThermostatMode", "ThermostatSetpoint"}]

MCDatagramSizes == <<5, 3, 2, 4, 3>>
=============================================================================
