------------------------------- MODULE Policies -------------------------------
(***************************************************************************)
(* The policy register and the two orchestrators that use it when a node  *)
(* joins: the interview learns which device the node is, the inclusion    *)
(* step sends the node what the register holds for it.                    *)
(*                                                                         *)
(* Two threads meet here.  The protocol thread rebinds the register to a  *)
(* network and runs every bus handler; the D-Bus thread edits the tables. *)
(* effectivePolicy takes the register's lock three times, so edits fall   *)
(* between its reads; everything else a handler does is one step.         *)
(***************************************************************************)
EXTENDS Naturals, Sequences, SequencesExt

CONSTANTS Networks,       \* home ids
          Members,        \* node ids
          Products,       \* manufacturer / type / product triples
          PolicyValues,   \* policies a client writes
          SupportSets,    \* what the nodes that join support, out of Kinds
          Absent,         \* what a query for a policy without a row returns
          MaxPolicyWrites,\* bound: edits of the tables
          MaxPolicyJoins  \* bound: NodeIncluded and DongleInfo events

Kinds == {"Configuration", "Association", "WakeUp"}
NoNetwork == "no network"
NoProduct == "no product"
Lifeline == [kind |-> "Association", key |-> 1]
ToController == "controller"      \* notificationNodeId 0, or the lifeline's member

VARIABLES
  policyHome,     \* Register::State::currentHomeId
  defaults,       \* device_policies
  overrides,      \* node_policy_overrides
  identity,       \* identityCache
  steps,          \* InterviewOrchestrator: what is still asked of the node
  pendingCcs,     \* InclusionOrchestrator: pendingPolicy
  controller,     \* InclusionOrchestrator: controllerNodeId, as its network
  autoLifeline,   \* InclusionOrchestrator: the auto_lifeline setting
  call,           \* the effectivePolicy call of the bus handler
  applying,       \* commands published for the node by its inclusion
  product,        \* history: what the node that joined is
  joinedIn,       \* history: the network it joined, while that stays bound
  seen,           \* history: <<override, default>> held during the call
  policyEdits, policyJoins

policyTables == <<defaults, overrides>>
policyVars == <<policyHome, defaults, overrides, identity, steps, pendingCcs, controller,
                autoLifeline, call, applying, product, joinedIn, seen, policyEdits, policyJoins>>

-----------------------------------------------------------------------------
(* The register.                                                           *)

sameSlot(a, b) == a.slot = b.slot

\* An override entry replaces the first entry of its slot, or is appended.
MergeEntry(result, entry) ==
  LET at == SelectInSeq(result, LAMBDA e : sameSlot(e, entry))
  IN  IF at = 0 THEN Append(result, entry) ELSE [result EXCEPT ![at] = entry]

merge_Appends(deviceDefault, nodeOverride) == deviceDefault \o nodeOverride
merge(deviceDefault, nodeOverride) == FoldLeft(MergeEntry, deviceDefault, nodeOverride)

Effective(deviceDefault, nodeOverride) ==
  CASE deviceDefault # Absent /\ nodeOverride # Absent -> merge(deviceDefault, nodeOverride)
    [] deviceDefault = Absent /\ nodeOverride # Absent -> nodeOverride
    [] deviceDefault # Absent /\ nodeOverride = Absent -> deviceDefault
    [] OTHER -> <<>>

nodeOverride(n) == IF policyHome = NoNetwork THEN Absent ELSE overrides[policyHome, n]
devicePolicy(p) == IF p = NoProduct THEN Absent ELSE defaults[p]
identityOf(n) == IF policyHome = NoNetwork THEN NoProduct ELSE identity[policyHome, n]

\* What the tables hold for the node of the call, remembered while it runs.
Witness(tables) ==
  seen' = IF call.pc = "idle" THEN seen
          ELSE seen \cup {<<tables.overrides[policyHome, call.node],
                            IF call.id = NoProduct THEN Absent ELSE tables.defaults[call.id]>>}

PolicyEdit ==
  /\ policyEdits < MaxPolicyWrites
  /\ policyEdits' = policyEdits + 1
  /\ Witness([overrides |-> overrides', defaults |-> defaults'])
  /\ UNCHANGED <<policyHome, identity, steps, pendingCcs, controller, autoLifeline, call,
                 applying, product, joinedIn, policyJoins>>

setDevicePolicy(p, policy) ==
  defaults' = [defaults EXCEPT ![p] = policy] /\ UNCHANGED overrides /\ PolicyEdit
deleteDevicePolicy(p) ==
  defaults' = [defaults EXCEPT ![p] = Absent] /\ UNCHANGED overrides /\ PolicyEdit
\* Dropped while no network is bound.
setNodeOverride(n, policy) ==
  /\ policyHome # NoNetwork
  /\ overrides' = [overrides EXCEPT ![policyHome, n] = policy]
  /\ UNCHANGED defaults /\ PolicyEdit
deleteNodeOverride(n) ==
  /\ policyHome # NoNetwork
  /\ overrides' = [overrides EXCEPT ![policyHome, n] = Absent]
  /\ UNCHANGED defaults /\ PolicyEdit

-----------------------------------------------------------------------------
(* The protocol thread.                                                    *)

\* A dongle is up: the register is rebound, DongleInfo published.
PolicyDongleInfo(h) ==
  /\ call.pc = "idle" /\ policyJoins < MaxPolicyJoins
  /\ policyHome' = h /\ controller' = h
  /\ joinedIn' = IF h = policyHome THEN joinedIn ELSE [n \in Members |-> NoNetwork]
  /\ policyJoins' = policyJoins + 1
  /\ UNCHANGED <<policyTables, identity, steps, pendingCcs, autoLifeline, call, applying,
                 product, seen, policyEdits>>

Command(slot, value, to) == [slot |-> slot, value |-> value, to |-> to]

\* onNodeIncluded: the lifeline is set at once, the classes kept for the
\* policy step.  The interview asks who the node is, then its version.
interviewSteps == <<"ManufacturerSpecific", "Version">>
PolicyNodeIncluded(n, p, ccs) ==
  /\ call.pc = "idle" /\ policyHome # NoNetwork /\ policyJoins < MaxPolicyJoins
  /\ steps' = [steps EXCEPT ![n] = interviewSteps]
  /\ pendingCcs' = [pendingCcs EXCEPT ![n] = ccs]
  /\ applying' = [applying EXCEPT ![n] =
       IF "Association" \in ccs /\ autoLifeline
       THEN <<Command(Lifeline, ToController, controller)>> ELSE <<>>]
  /\ product' = [product EXCEPT ![n] = p]
  /\ joinedIn' = [joinedIn EXCEPT ![n] = policyHome]
  /\ policyJoins' = policyJoins + 1
  /\ UNCHANGED <<policyHome, policyTables, identity, controller, autoLifeline, call, seen,
                 policyEdits>>

NoCall == [pc |-> "idle", node |-> 0, id |-> NoProduct, ov |-> Absent]

\* effectivePolicy begins: the identity is read under the first lock.
effectivePolicyStarts(n) ==
  /\ call' = [pc |-> "override", node |-> n, id |-> identityOf(n), ov |-> Absent]
  /\ seen' = {<<nodeOverride(n), devicePolicy(identityOf(n))>>}

\* A report of the node.  The orchestrators subscribed when the daemon
\* started and the register on its first use, so the interview handles a
\* manufacturer report, and all that follows from it, before the register
\* notes the identity.
PolicyReport(n, step) ==
  /\ call.pc = "idle" /\ product[n] # NoProduct /\ policyHome # NoNetwork
  /\ IF steps[n] # <<>> /\ Head(steps[n]) = step
     THEN /\ steps' = [steps EXCEPT ![n] = Tail(@)]
          /\ IF Len(steps[n]) = 1 THEN effectivePolicyStarts(n) ELSE UNCHANGED <<call, seen>>
     ELSE UNCHANGED <<steps, call, seen>>
  /\ identity' = IF step = "ManufacturerSpecific"
                 THEN [identity EXCEPT ![policyHome, n] = product[n]] ELSE identity
  /\ UNCHANGED <<policyHome, policyTables, pendingCcs, controller, autoLifeline, applying,
                 product, joinedIn, policyEdits, policyJoins>>

effectivePolicyOverride ==
  /\ call.pc = "override"
  /\ call' = [call EXCEPT !.pc = "default", !.ov = nodeOverride(call.node)]
  /\ UNCHANGED <<policyHome, policyTables, identity, steps, pendingCcs, controller, autoLifeline,
                 applying, product, joinedIn, seen, policyEdits, policyJoins>>

\* One command per entry whose class the node supports.
applyPolicyEntry(ccs, entry) == entry.slot.kind \in ccs
Destination(entry) ==
  IF entry.slot.kind = "WakeUp" /\ entry.value = ToController THEN controller ELSE NoNetwork
Commands(ccs, policy) ==
  LET gated == SelectSeq(policy, LAMBDA e : applyPolicyEntry(ccs, e))
  IN  [i \in DOMAIN gated |-> Command(gated[i].slot, gated[i].value, Destination(gated[i]))]

policyInterviewComplete ==
  /\ call.pc = "default"
  /\ LET n == call.node
         policy == Effective(devicePolicy(call.id), call.ov)
     IN  /\ applying' = [applying EXCEPT ![n] = @ \o Commands(pendingCcs[n], policy)]
         /\ pendingCcs' = [pendingCcs EXCEPT ![n] = {}]
  /\ call' = NoCall /\ seen' = {}
  /\ UNCHANGED <<policyHome, policyTables, identity, steps, controller, autoLifeline, product,
                 joinedIn, policyEdits, policyJoins>>

-----------------------------------------------------------------------------
PoliciesInit ==
  /\ policyHome = NoNetwork /\ controller = NoNetwork
  /\ autoLifeline \in BOOLEAN
  /\ defaults = [p \in Products |-> Absent]
  /\ overrides = [k \in Networks \X Members |-> Absent]
  /\ identity = [k \in Networks \X Members |-> NoProduct]
  /\ steps = [n \in Members |-> <<>>] /\ pendingCcs = [n \in Members |-> {}]
  /\ applying = [n \in Members |-> <<>>]
  /\ product = [n \in Members |-> NoProduct] /\ joinedIn = [n \in Members |-> NoNetwork]
  /\ call = NoCall /\ seen = {}
  /\ policyEdits = 0 /\ policyJoins = 0

PoliciesNext ==
  \/ \E p \in Products : deleteDevicePolicy(p) \/ \E v \in PolicyValues : setDevicePolicy(p, v)
  \/ \E n \in Members : deleteNodeOverride(n) \/ \E v \in PolicyValues : setNodeOverride(n, v)
  \/ \E h \in Networks : PolicyDongleInfo(h)
  \/ \E n \in Members, p \in Products, ccs \in SupportSets : PolicyNodeIncluded(n, p, ccs)
  \/ \E n \in Members, step \in {"ManufacturerSpecific", "Version"} : PolicyReport(n, step)
  \/ effectivePolicyOverride
  \/ policyInterviewComplete

-----------------------------------------------------------------------------
Slots(policy) == {policy[i].slot : i \in DOMAIN policy}
Rows(policy) == IF policy = Absent THEN <<>> ELSE policy
Chosen(o, d) ==
  {e \in ToSet(Rows(o)) \cup ToSet(Rows(d)) : e \in ToSet(Rows(o)) \/ e.slot \notin Slots(Rows(o))}

\* The policy step of an inclusion sends each slot at most once, and the
\* override wins: what it sends for a slot comes from an override, or
\* failing that from a device default, that the register held while
\* effectivePolicy ran (PolicyRegister.cpp:487-527), never from a mixture
\* of older states.  The default is looked up under the identity the node
\* itself gave in its interview, although the interview's handler for a
\* report runs before the register's (PolicyRegister.cpp:574-585), unless
\* the dongle was exchanged meanwhile.
AppliedIsMerge ==
  [][ \A n \in Members :
        call.pc = "default" /\ call.node = n /\ call'.pc = "idle" =>
          LET sent == SubSeq(applying'[n], Len(applying[n]) + 1, Len(applying'[n]))
          IN  /\ \A i, j \in DOMAIN sent : sent[i].slot = sent[j].slot => i = j
              /\ \E s, t \in seen :
                   {[slot |-> sent[i].slot, value |-> sent[i].value] : i \in DOMAIN sent}
                     = {e \in Chosen(s[1], t[2]) : e.slot.kind \in pendingCcs[n]}
              /\ joinedIn[n] = policyHome => call.id = product[n] ]_policyVars
=============================================================================
