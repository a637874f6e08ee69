---------------------------- MODULE MCNodeSetup ----------------------------
(* NodeSetup on two nodes and a choice of devices.                         *)
EXTENDS NodeSetup

MCDevices == <<{{"ZWavePlus", "WakeUp"}, {"S2"}, {"S0", "S2"}}, {{"S2", "WakeUp"}, {"MultiChannel"}}>>
MCRequests == {{}, {"authenticated"}, {"unauthenticated", "accessControl"}}
=============================================================================
