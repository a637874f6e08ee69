------------------------------ MODULE NodeSetup ------------------------------
(***************************************************************************)
(* What zwaved does with a node that has joined the network: the S0 and   *)
(* S2 bootstraps, the interview, the policy step, and the wake-up queue   *)
(* that carries the interview of a sleeping node.  Five orchestrators     *)
(* react to the same events; each handler, with everything it publishes,  *)
(* runs to its end on the bus before the next event, so a whole cascade   *)
(* is one action.                                                          *)
(*                                                                         *)
(* A device is the set of command classes of its node information frame.  *)
(* Payloads, keys and nonces are left out: what is kept of cryptography   *)
(* is who can decrypt what.  The devices (external) follow the Z-Wave     *)
(* sequences and answer Gets in the order they were asked, but may be     *)
(* refused, fail a step, lose or repeat an answer.                        *)
(***************************************************************************)
EXTENDS Naturals, Sequences, Functions

CONSTANTS Nodes,          \* node ids
          Devices,        \* devices that may join under an id, as sets of command classes
          Requests,       \* sets of S2 classes a device may request
          Keys,           \* security layers whose network keys are loaded
          MaxInclusions   \* bound: NodeIncluded events, over all nodes

CommandClass == {"S0", "S2", "WakeUp", "MultiChannel", "ZWavePlus"}
Class == {"unauthenticated", "authenticated", "accessControl"}
Phase == {"none", "kexReport", "publicKey", "dsk", "tempChannel", "kexSetEcho",
          "networkKeyGet", "classNonceGet", "keyVerify"}
Step == {"ManufacturerSpecific", "Version", "Endpoints", "ZWavePlus"}

ASSUME SetupAssumption ==
  /\ Devices \in [Nodes -> SUBSET SUBSET CommandClass]
  /\ Requests \subseteq SUBSET Class
  /\ Keys \subseteq {"S0", "S2"}
  /\ MaxInclusions \in Nat

VARIABLES
  nif,            \* registry: command classes of the node
  scheme,         \* registry: security scheme, "absent" for a node not in it
  interview,      \* InterviewOrchestrator: sessions
  pendingPolicy,  \* InclusionOrchestrator: pendingPolicy
  s0,             \* SecurityBootstrapOrchestrator: sessions
  s2,             \* SecurityS2BootstrapOrchestrator: sessions, their phase
  granted,        \* ... grantedKeys
  installing,     \* ... installingKeyBit
  classPeer,      \* ... the one peer classSpanManager holds
  queue,          \* PendingQueue rows (on disk)
  air,            \* Gets sent to the node and not answered
  gen,            \* history: NodeIncluded events of the node
  completed,      \* history: InclusionComplete events of the node
  answered,       \* history: reports the present device has given
  paired,         \* history: both ends derived the same temporary keys
  installed,      \* history: class keys the present device has proved
  plain,          \* history: Gets sent unencrypted to the present device
  disturbed       \* history: a step of the present setup failed or was cut short

vars == <<nif, scheme, interview, pendingPolicy, s0, s2, granted, installing, classPeer,
          queue, air, gen, completed, answered, paired, installed, plain, disturbed>>
bootstrapVars == <<s0, s2, granted, installing, classPeer, paired, installed>>

-----------------------------------------------------------------------------
(* The interview.                                                          *)

NoSession == [steps |-> <<>>, index |-> 0, started |-> FALSE, viaQueue |-> FALSE]
NoPolicy == {"absent"}
Present(n) == scheme[n] # "absent"

stepsFor(device) ==
  <<"ManufacturerSpecific", "Version">>
    \o (IF "MultiChannel" \in device THEN <<"Endpoints">> ELSE <<>>)
    \o (IF "ZWavePlus" \in device THEN <<"ZWavePlus">> ELSE <<>>)

\* pushSendData: the payload is encrypted exactly if the registry holds a
\* security scheme for the node at that moment.  `before' is what is
\* outstanding without the new Gets.
Sends(n, before, gets, sch) ==
  /\ air' = [air EXCEPT ![n] = before \o gets]
  /\ plain' = IF sch = "none" THEN [plain EXCEPT ![n] = @ \cup Range(gets)] ELSE plain
SendsNothing(n, before) == Sends(n, before, <<>>, "none")

\* PendingQueue: rows are appended, and taken out all at once.
enqueue(n, gets) == queue' = [queue EXCEPT ![n] = @ \o gets]
drain(n) == queue' = [queue EXCEPT ![n] = <<>>]

\* beginInterview: a sleeping node's Gets are all queued, of another node's
\* the first is sent.  A Get is tagged with the inclusion it belongs to.
beginInterview(n, session, sch, g) ==
  LET gets == [i \in 1 .. Len(session.steps) |-> [step |-> session.steps[i], of |-> g]]
  IN  /\ interview' = [interview EXCEPT ![n] = [session EXCEPT !.started = TRUE]]
      /\ enqueue(n, IF session.viaQueue THEN gets ELSE <<>>)
      /\ Sends(n, air[n], IF session.viaQueue THEN <<>> ELSE <<gets[1]>>, sch)

\* onNodeSecurityStatus, for a scheme other than None.
onNodeSecurityStatus_Repeats(n, sch) ==
  IF interview[n] # NoSession
  THEN beginInterview(n, interview[n], sch, gen[n])
  ELSE UNCHANGED <<interview, queue>> /\ SendsNothing(n, air[n])
onNodeSecurityStatus(n, sch) ==
  IF interview[n] # NoSession /\ ~interview[n].started
  THEN beginInterview(n, interview[n], sch, gen[n])
  ELSE UNCHANGED <<interview, queue>> /\ SendsNothing(n, air[n])

\* A report other than the one the session waits for changes nothing.
Awaited_Any(n, step) == interview[n].started
Awaited(n, step) ==
  /\ interview[n].started
  /\ interview[n].steps[interview[n].index] = step

\* onNodeInterviewComplete: the policy is applied, InclusionComplete published.
onNodeInterviewComplete(n) ==
  /\ pendingPolicy' = [pendingPolicy EXCEPT ![n] = NoPolicy]
  /\ completed' = [completed EXCEPT ![n] = @ + 1]

\* The last step publishes NodeInterviewComplete, within the same call.
advance(n, step, before) ==
  LET session == interview[n]
      last == session.index = Len(session.steps)
      next == [step |-> session.steps[session.index + 1], of |-> gen[n]]
  IN  IF Awaited(n, step)
      THEN /\ interview' = [interview EXCEPT ![n] =
                 IF last THEN NoSession ELSE [session EXCEPT !.index = @ + 1]]
           /\ IF last THEN onNodeInterviewComplete(n) ELSE UNCHANGED <<pendingPolicy, completed>>
           /\ Sends(n, before, IF last \/ session.viaQueue THEN <<>> ELSE <<next>>, scheme[n])
      ELSE UNCHANGED <<interview, pendingPolicy, completed>> /\ SendsNothing(n, before)

\* The node answers the oldest Get.
Report(n) ==
  /\ Present(n) /\ air[n] # <<>>
  /\ answered' = [answered EXCEPT ![n] = @ \cup {Head(air[n]).step}]
  /\ advance(n, Head(air[n]).step, Tail(air[n]))
  /\ UNCHANGED <<nif, scheme, queue, gen, disturbed, bootstrapVars>>

\* The node repeats an answer it has given.
ReportAgain(n) ==
  /\ Present(n)
  /\ \E step \in answered[n] : advance(n, step, air[n])
  /\ UNCHANGED <<nif, scheme, queue, gen, answered, disturbed, bootstrapVars>>

\* A Get or its answer is lost: nothing asks again.
ReportLost(n) ==
  /\ air[n] # <<>>
  /\ air' = [air EXCEPT ![n] = Tail(@)]
  /\ disturbed' = [disturbed EXCEPT ![n] = TRUE]
  /\ UNCHANGED <<nif, scheme, interview, pendingPolicy, queue, gen, completed, answered,
                 plain, bootstrapVars>>

\* onWakeUpNotification: the rows are deleted, then sent in order.
WakeUp(n) ==
  /\ Present(n) /\ "WakeUp" \in nif[n] /\ queue[n] # <<>>
  /\ drain(n)
  /\ Sends(n, air[n], queue[n], scheme[n])
  /\ UNCHANGED <<nif, scheme, interview, pendingPolicy, gen, completed, answered,
                 disturbed, bootstrapVars>>

-----------------------------------------------------------------------------
(* A node joins: every orchestrator looks at its command classes.          *)

\* InterviewOrchestrator: a secure device waits for NodeSecurityStatus.
interviewOnNodeIncluded_Defers(n, device, g) ==
  /\ interview' = [interview EXCEPT ![n] =
       [steps |-> stepsFor(device), index |-> 1, started |-> FALSE,
        viaQueue |-> "WakeUp" \in device]]
  /\ UNCHANGED queue /\ SendsNothing(n, air[n])
interviewOnNodeIncluded(n, device, g) ==
  LET session == [steps |-> stepsFor(device), index |-> 1, started |-> FALSE,
                  viaQueue |-> "WakeUp" \in device]
  IN  IF device \cap {"S0", "S2"} = {}
      THEN beginInterview(n, session, "none", g)
      ELSE /\ interview' = [interview EXCEPT ![n] = session]
           /\ UNCHANGED queue /\ SendsNothing(n, air[n])

\* The bootstraps start only with their network keys loaded; a session of an
\* earlier device of this id is replaced only then.
s0OnNodeIncluded(n, device) ==
  s0' = IF "S0" \in device \cap Keys THEN [s0 EXCEPT ![n] = "schemeReport"] ELSE s0
s2OnNodeIncluded(n, device) ==
  LET starts == "S2" \in device \cap Keys
  IN  /\ s2' = IF starts THEN [s2 EXCEPT ![n] = "kexReport"] ELSE s2
      /\ granted' = IF starts THEN [granted EXCEPT ![n] = {}] ELSE granted
      /\ installing' = IF starts THEN [installing EXCEPT ![n] = {}] ELSE installing

\* NodeRegistry::add and NodeIncluded.
NodeIncluded(n, device) ==
  /\ SumFunction(gen) < MaxInclusions /\ ~Present(n)
  /\ gen' = [gen EXCEPT ![n] = @ + 1]
  /\ nif' = [nif EXCEPT ![n] = device]
  /\ scheme' = [scheme EXCEPT ![n] = "none"]
  /\ interviewOnNodeIncluded(n, device, gen[n] + 1)
  /\ s0OnNodeIncluded(n, device)
  /\ s2OnNodeIncluded(n, device)
  /\ pendingPolicy' = [pendingPolicy EXCEPT ![n] = device]
  /\ disturbed' = [disturbed EXCEPT ![n] =
                     device \cap {"S0", "S2"} # {} /\ device \cap Keys = {}]
  /\ UNCHANGED <<classPeer, completed, answered, paired, installed>>

\* NodeRegistry::remove.  No orchestrator listens, and nothing calls
\* PendingQueue::clearForNode: sessions and queued Gets stay behind.  What
\* was under way to the device is lost with it.
NodeRemoved(n) ==
  /\ Present(n)
  /\ scheme' = [scheme EXCEPT ![n] = "absent"] /\ nif' = [nif EXCEPT ![n] = {}]
  /\ air' = [air EXCEPT ![n] = <<>>] /\ plain' = [plain EXCEPT ![n] = {}]
  /\ answered' = [answered EXCEPT ![n] = {}] /\ paired' = [paired EXCEPT ![n] = FALSE]
  /\ installed' = [installed EXCEPT ![n] = {}]
  /\ disturbed' = [disturbed EXCEPT ![n] = TRUE]
  /\ UNCHANGED <<interview, pendingPolicy, queue, gen, completed, s0, s2, granted,
                 installing, classPeer>>

\* The daemon starts again: the registry and the queue are on disk.
Restart ==
  /\ interview' = [n \in Nodes |-> NoSession]
  /\ pendingPolicy' = [n \in Nodes |-> NoPolicy]
  /\ s0' = [n \in Nodes |-> "none"] /\ s2' = [n \in Nodes |-> "none"]
  /\ granted' = [n \in Nodes |-> {}] /\ installing' = [n \in Nodes |-> {}]
  /\ classPeer' = {}
  /\ disturbed' = [n \in Nodes |-> TRUE]
  /\ UNCHANGED <<nif, scheme, queue, air, gen, completed, answered, paired, installed, plain>>

-----------------------------------------------------------------------------
(* S0 bootstrap.                                                           *)

interviewVars == <<interview, pendingPolicy, queue, air, completed, answered, plain>>
nodeVars == <<nif, scheme, gen>>
s2Vars == <<s2, granted, installing, classPeer, paired, installed>>

S0SchemeReport(n) ==
  /\ Present(n) /\ "S0" \in nif[n] /\ s0[n] = "schemeReport"
  /\ s0' = [s0 EXCEPT ![n] = "nonceReport"]
  /\ UNCHANGED <<interviewVars, nodeVars, s2Vars, disturbed>>

\* The answer is NETWORK_KEY_SET.
S0NonceReport(n) ==
  /\ Present(n) /\ "S0" \in nif[n] /\ s0[n] = "nonceReport"
  /\ s0' = [s0 EXCEPT ![n] = "verify"]
  /\ UNCHANGED <<interviewVars, nodeVars, s2Vars, disturbed>>

\* NETWORK_KEY_VERIFY: the decoder of S0 frames publishes NodeSecurityStatus
\* as soon as the frame decrypts, and only then hands on what was in it; the
\* bootstrap then records the scheme and publishes the status once more, to
\* an interview that has started.
S0KeyVerify(n) ==
  /\ Present(n) /\ "S0" \in nif[n] /\ s0[n] = "verify"
  /\ onNodeSecurityStatus(n, scheme[n])
  /\ scheme' = [scheme EXCEPT ![n] = "S0"]
  /\ s0' = [s0 EXCEPT ![n] = "none"]
  /\ UNCHANGED <<nif, gen, pendingPolicy, completed, answered, s2Vars, disturbed>>

-----------------------------------------------------------------------------
(* S2 bootstrap: one action per message of the device or the operator.     *)

S2Device(n, phase) == Present(n) /\ "S2" \in nif[n] /\ s2[n] = phase
ToPhase(n, phase) == s2' = [s2 EXCEPT ![n] = phase]

\* The session is erased.
Erased(n) ==
  /\ ToPhase(n, "none")
  /\ granted' = [granted EXCEPT ![n] = {}]
  /\ installing' = [installing EXCEPT ![n] = {}]

\* KEX_FAIL.
Fails(n) == Erased(n) /\ disturbed' = [disturbed EXCEPT ![n] = TRUE]

grantKeys(requested, csa) == IF csa THEN requested \ {"accessControl"} ELSE requested

onKexReport(n, requested, csa) ==
  /\ S2Device(n, "kexReport")
  /\ LET keys == grantKeys(requested, csa)
     IN  IF keys = {}
         THEN Fails(n)
         ELSE /\ granted' = [granted EXCEPT ![n] = keys]
              /\ ToPhase(n, "publicKey") /\ UNCHANGED <<installing, disturbed>>
  /\ UNCHANGED <<interviewVars, nodeVars, s0, classPeer, paired, installed>>

\* finishKeyAgreement.  `agree': the PIN, if any, was right, so that both ends
\* derive the same keys; `ok': ECDH accepts the key.
finishKeyAgreement(n, ok, agree) ==
  IF ok
  THEN /\ ToPhase(n, "tempChannel")
       /\ paired' = [paired EXCEPT ![n] = agree]
       /\ disturbed' = [disturbed EXCEPT ![n] = @ \/ ~agree]
       /\ UNCHANGED <<granted, installing>>
  ELSE Fails(n) /\ UNCHANGED paired

NeedsDsk(n) == granted[n] \cap {"authenticated", "accessControl"} # {}

\* The device obfuscates its key exactly if a DSK class was granted.
onPublicKeyReport(n, ok) ==
  /\ S2Device(n, "publicKey")
  /\ IF NeedsDsk(n)
     THEN ToPhase(n, "dsk") /\ UNCHANGED <<granted, installing, paired, disturbed>>
     ELSE finishKeyAgreement(n, ok, granted[n] = {"unauthenticated"})
  /\ UNCHANGED <<interviewVars, nodeVars, s0, classPeer, installed>>

\* A malformed PIN is ignored; a wrong one gives keys the device does not have.
onConfirmDsk(n, ok, right) ==
  /\ s2[n] = "dsk"
  /\ finishKeyAgreement(n, ok, right)
  /\ UNCHANGED <<interviewVars, nodeVars, s0, classPeer, installed>>

TempNonceGet(n) ==
  /\ S2Device(n, "tempChannel")
  /\ ToPhase(n, "kexSetEcho")
  /\ UNCHANGED <<interviewVars, nodeVars, s0, granted, installing, classPeer, paired,
                 installed, disturbed>>

\* A frame that does not decrypt is dropped and the session waits on.
onKexSetEcho(n, same) ==
  /\ S2Device(n, "kexSetEcho") /\ paired[n]
  /\ IF same
     THEN ToPhase(n, "networkKeyGet") /\ UNCHANGED <<granted, installing, disturbed>>
     ELSE Fails(n)
  /\ UNCHANGED <<interviewVars, nodeVars, s0, classPeer, paired, installed>>

\* NETWORK_KEY_GET: a class that was not granted is refused, a granted one
\* transferred.
onKeyGet(n, class) ==
  /\ S2Device(n, "networkKeyGet") /\ paired[n]
  /\ IF class \in granted[n]
     THEN /\ installing' = [installing EXCEPT ![n] = {class}]
          /\ ToPhase(n, "classNonceGet") /\ UNCHANGED <<granted, disturbed>>
     ELSE Fails(n)
  /\ UNCHANGED <<interviewVars, nodeVars, s0, classPeer, paired, installed>>

\* classSpanManager is one object for all sessions, and is made anew here: a
\* node that is still to send NETWORK_KEY_VERIFY loses its channel.
ClassNonceGet(n) ==
  /\ S2Device(n, "classNonceGet")
  /\ classPeer' = {n}
  /\ ToPhase(n, "keyVerify")
  /\ disturbed' = [m \in Nodes |-> disturbed[m] \/ (m # n /\ s2[m] = "keyVerify")]
  /\ UNCHANGED <<interviewVars, nodeVars, s0, granted, installing, paired, installed>>

\* NETWORK_KEY_VERIFY under the new class key.
onKeyVerify(n, ok) ==
  /\ S2Device(n, "keyVerify") /\ n \in classPeer
  /\ IF ok
     THEN /\ installed' = [installed EXCEPT ![n] = @ \cup installing[n]]
          /\ ToPhase(n, "networkKeyGet") /\ UNCHANGED <<granted, installing, disturbed>>
     ELSE Fails(n) /\ UNCHANGED installed
  /\ UNCHANGED <<interviewVars, nodeVars, s0, classPeer, paired>>

schemeFor_Lowest(keys) ==
  IF "unauthenticated" \in keys THEN "unauthenticated"
  ELSE IF "authenticated" \in keys THEN "authenticated" ELSE "accessControl"
schemeFor(keys) ==
  IF "accessControl" \in keys THEN "accessControl"
  ELSE IF "authenticated" \in keys THEN "authenticated" ELSE "unauthenticated"

\* TRANSFER_END from the device, which sends it when it has all granted keys:
\* completeBootstrap records the scheme, then publishes NodeSecurityStatus.
completeBootstrap_StatusFirst(n) ==
  /\ onNodeSecurityStatus(n, scheme[n])
  /\ scheme' = [scheme EXCEPT ![n] = schemeFor(granted[n])]
completeBootstrap(n) ==
  /\ onNodeSecurityStatus(n, schemeFor(granted[n]))
  /\ scheme' = [scheme EXCEPT ![n] = schemeFor(granted[n])]
TransferEnd(n) ==
  /\ S2Device(n, "networkKeyGet") /\ paired[n] /\ installed[n] = granted[n]
  /\ completeBootstrap(n)
  /\ Erased(n)
  /\ UNCHANGED <<nif, gen, pendingPolicy, completed, answered, s0, classPeer, paired,
                 installed, disturbed>>

-----------------------------------------------------------------------------
Init ==
  /\ nif = [n \in Nodes |-> {}] /\ scheme = [n \in Nodes |-> "absent"]
  /\ interview = [n \in Nodes |-> NoSession]
  /\ pendingPolicy = [n \in Nodes |-> NoPolicy]
  /\ s0 = [n \in Nodes |-> "none"] /\ s2 = [n \in Nodes |-> "none"]
  /\ granted = [n \in Nodes |-> {}] /\ installing = [n \in Nodes |-> {}]
  /\ classPeer = {}
  /\ queue = [n \in Nodes |-> <<>>] /\ air = [n \in Nodes |-> <<>>]
  /\ gen = [n \in Nodes |-> 0] /\ completed = [n \in Nodes |-> 0]
  /\ answered = [n \in Nodes |-> {}] /\ paired = [n \in Nodes |-> FALSE]
  /\ installed = [n \in Nodes |-> {}] /\ plain = [n \in Nodes |-> {}]
  /\ disturbed = [n \in Nodes |-> FALSE]

\* The steps of a setup in which everyone does their part.
Proceed(n) ==
  \/ Report(n) \/ WakeUp(n)
  \/ S0SchemeReport(n) \/ S0NonceReport(n) \/ S0KeyVerify(n)
  \/ \E requested \in Requests, csa \in BOOLEAN : onKexReport(n, requested, csa)
  \/ onPublicKeyReport(n, TRUE) \/ onConfirmDsk(n, TRUE, TRUE)
  \/ TempNonceGet(n) \/ onKexSetEcho(n, TRUE)
  \/ \E class \in granted[n] \ installed[n] : onKeyGet(n, class)
  \/ ClassNonceGet(n) \/ onKeyVerify(n, TRUE) \/ TransferEnd(n)

\* Refusals, wrong PINs and broken frames.
GoesWrong(n) ==
  \/ \E ok, right \in BOOLEAN : ~(ok /\ right) /\ onConfirmDsk(n, ok, right)
  \/ onPublicKeyReport(n, FALSE) \/ onKexSetEcho(n, FALSE) \/ onKeyVerify(n, FALSE)
  \/ \E class \in Class \ granted[n] : onKeyGet(n, class)
  \/ ReportAgain(n) \/ ReportLost(n)

Next ==
  \/ \E n \in Nodes : \E device \in Devices[n] : NodeIncluded(n, device)
  \/ \E n \in Nodes : Proceed(n) \/ GoesWrong(n) \/ NodeRemoved(n)
  \/ Restart

Spec == Init /\ [][Next]_vars

\* Fairness: the devices answer and the operator enters the PIN.
FairSpec == Spec /\ \A n \in Nodes : WF_vars(Proceed(n))

-----------------------------------------------------------------------------
Joining == UNION Range(Devices)
Session == {NoSession} \cup
  UNION {[steps : {stepsFor(device)}, index : 1 .. Len(stepsFor(device)),
          started : BOOLEAN, viaQueue : {"WakeUp" \in device}] : device \in Joining}
Gets == [step : Step, of : 1 .. MaxInclusions]

\* Every variable has its type.
TypeOK ==
  /\ nif \in [Nodes -> Joining \cup {{}}]
  /\ scheme \in [Nodes -> {"absent", "none", "S0"} \cup Class]
  /\ interview \in [Nodes -> Session]
  /\ pendingPolicy \in [Nodes -> Joining \cup {NoPolicy}]
  /\ s0 \in [Nodes -> {"none", "schemeReport", "nonceReport", "verify"}]
  /\ s2 \in [Nodes -> Phase]
  /\ granted \in [Nodes -> SUBSET Class] /\ installed \in [Nodes -> SUBSET Class]
  /\ installing \in [Nodes -> {{}} \cup {{class} : class \in Class}]
  /\ classPeer \in {{}} \cup {{n} : n \in Nodes}
  /\ \A n \in Nodes : Range(queue[n]) \cup Range(air[n]) \cup plain[n] \subseteq Gets
  /\ gen \in [Nodes -> 0 .. MaxInclusions] /\ completed \in [Nodes -> 0 .. MaxInclusions]
  /\ answered \in [Nodes -> SUBSET Step]
  /\ paired \in [Nodes -> BOOLEAN] /\ disturbed \in [Nodes -> BOOLEAN]

\* InclusionComplete is published only when the device that joined last has
\* given every report of its interview, and its policy is gated on that
\* device's command classes, whatever sessions and queued Gets an earlier
\* device of the same id left behind (InterviewOrchestrator::advance,
\* InclusionOrchestrator::onNodeInterviewComplete).
PolicyAfterInterview ==
  [][\A n \in Nodes : completed'[n] # completed[n] =>
       /\ Range(stepsFor(nif[n])) \subseteq answered'[n]
       /\ pendingPolicy[n] = nif[n]]_vars

\* A question of the interview is not asked again while it is outstanding:
\* the Gets of the present inclusion that wait in the queue or on the air
\* never name a step twice, although NodeSecurityStatus is published several
\* times per bootstrap (onNodeSecurityStatus, beginInterview).
AskedOnce ==
  \A n \in Nodes :
    LET asked == queue[n] \o air[n]
    IN  \A i, j \in DOMAIN asked : asked[i].of = gen[n] /\ asked[j] = asked[i] => i = j

\* The Gets of a node that joined with S2 alone are sent encrypted, also
\* through the wake-up queue (InterviewOrchestrator.cpp:12-15, pushSendData).
S2GetsEncrypted ==
  \A n \in Nodes : Present(n) /\ "S2" \in nif[n] /\ "S0" \notin nif[n] =>
    \A get \in plain[n] : get.of # gen[n]

\* A node is recorded with an S2 class only after the device has proved the
\* keys of exactly the classes granted to it, that class the highest of them,
\* over a channel whose keys both ends agree on (completeBootstrap).
S2SchemeProved ==
  \A n \in Nodes : scheme[n] \in Class =>
    /\ paired[n] /\ scheme[n] \in installed[n]
    /\ "accessControl" \in installed[n] => scheme[n] = "accessControl"
    /\ scheme[n] = "unauthenticated" => installed[n] = {"unauthenticated"}

Unfinished(n) == Present(n) /\ pendingPolicy[n] # NoPolicy /\ ~disturbed[n]

\* A node whose keys are loaded, whose messages arrive and whose PIN is
\* entered correctly is set up: InclusionComplete fires (once per
\* NodeIncluded, InterfaceManifest.yml:856).
SetupFinishes == []<>(\A n \in Nodes : ~Unfinished(n))
=============================================================================
