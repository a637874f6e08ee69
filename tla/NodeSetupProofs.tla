--------------------------- MODULE NodeSetupProofs ---------------------------
(***************************************************************************)
(* Proofs about NodeSetup, for any nodes, devices, requests, keys and      *)
(* number of inclusions: a question is outstanding at most once, a node    *)
(* that joined with S2 alone is asked nothing in the clear, a recorded S2  *)
(* class was proved by the device, and the policy step follows the whole   *)
(* interview of the device that joined last.                               *)
(***************************************************************************)
EXTENDS NodeSetup, TLAPS

Asked == [step : Step, of : Nat]
Sessions == [steps : Seq(Step), index : Nat, started : BOOLEAN, viaQueue : BOOLEAN]

\* Every variable has its type, without the bounds of TypeOK: the registry's,
\* the interview's and the bootstrap's.
NodeType ==
  /\ nif \in [Nodes -> SUBSET CommandClass]
  /\ scheme \in [Nodes -> {"absent", "none", "S0"} \cup Class]
  /\ gen \in [Nodes -> Nat]
InterviewType ==
  /\ interview \in [Nodes -> Sessions]
  /\ pendingPolicy \in [Nodes -> (SUBSET CommandClass) \cup {NoPolicy}]
  /\ queue \in [Nodes -> Seq(Asked)] /\ air \in [Nodes -> Seq(Asked)]
  /\ plain \in [Nodes -> SUBSET Asked]
  /\ answered \in [Nodes -> SUBSET Step] /\ completed \in [Nodes -> Nat]
BootstrapType ==
  /\ s2 \in [Nodes -> Phase]
  /\ granted \in [Nodes -> SUBSET Class]
  /\ installing \in [Nodes -> SUBSET Class]
  /\ installed \in [Nodes -> SUBSET Class]
  /\ paired \in [Nodes -> BOOLEAN]

\* The Gets waiting in the queue or on the air.
Outstanding(n) == Range(queue[n]) \cup Range(air[n])

\* No Get of inclusion g is twice in the sequence.
Once(gets, g) == \A i, j \in DOMAIN gets : gets[i].of = g /\ gets[j] = gets[i] => i = j

\* A session, while its node is in the registry, is the interview of the
\* device that is there now: its steps, its policy, and each step it has left
\* behind answered by this device.
SessionInv(n) ==
  Present(n) /\ interview[n] # NoSession =>
    /\ interview[n].steps = stepsFor(nif[n])
    /\ interview[n].viaQueue = ("WakeUp" \in nif[n])
    /\ interview[n].index \in 1 .. Len(stepsFor(nif[n]))
    /\ pendingPolicy[n] = nif[n]
    /\ \A i \in 1 .. interview[n].index - 1 : interview[n].steps[i] \in answered[n]

\* A Get bears the number of the inclusion it was sent for.
NumberInv(n) == \A get \in Outstanding(n) \cup plain[n] : get.of <= gen[n]

\* A session that has not started has asked nothing, and one that asks live
\* has asked no further than the step it waits for.
AskedInv(n) ==
  Present(n) /\ interview[n] # NoSession =>
    \A get \in Outstanding(n) : get.of = gen[n] =>
      /\ interview[n].started
      /\ ~interview[n].viaQueue =>
           \E i \in 1 .. interview[n].index : get.step = interview[n].steps[i]

\* Until a node that joined with S2 alone has its scheme, its interview has
\* not started and nothing was asked.
SecureInv(n) ==
  Present(n) /\ "S2" \in nif[n] /\ "S0" \notin nif[n] =>
    /\ scheme[n] # "S0"
    /\ scheme[n] = "none" => ~interview[n].started /\ \A get \in Outstanding(n) : get.of # gen[n]
    /\ \A get \in plain[n] : get.of # gen[n]

\* What the interview, the queue and the air satisfy for node n.
InterviewInv(n) ==
  /\ SessionInv(n) /\ NumberInv(n) /\ AskedInv(n) /\ SecureInv(n)
  /\ Once(queue[n] \o air[n], gen[n])

\* A bootstrap beyond the KEX report has granted something, and the scheme of
\* a node whose bootstrap is over is the highest of the classes it proved.
SchemeInv(n) ==
  /\ s2[n] \notin {"none", "kexReport"} => granted[n] # {}
  /\ scheme[n] \in Class =>
       /\ s2[n] = "none" /\ paired[n] /\ scheme[n] \in installed[n]
       /\ "accessControl" \in installed[n] => scheme[n] = "accessControl"
       /\ scheme[n] = "unauthenticated" => installed[n] = {"unauthenticated"}

\* The inductive invariant, of the registry with the interview and of the bootstrap.
InterviewsInv == NodeType /\ InterviewType /\ \A n \in Nodes : InterviewInv(n)
SchemesInv == BootstrapType /\ \A n \in Nodes : SchemeInv(n)
SetupInv == InterviewsInv /\ SchemesInv

-----------------------------------------------------------------------------
(* Sequences of Gets.                                                      *)

\* Concatenation, element by element.
LEMMA Concat ==
  ASSUME NEW a \in Seq(Asked), NEW b \in Seq(Asked)
  PROVE  /\ a \o b \in Seq(Asked)
         /\ DOMAIN (a \o b) = 1 .. Len(a) + Len(b)
         /\ \A i \in 1 .. Len(a) : (a \o b)[i] = a[i]
         /\ \A i \in 1 .. Len(a) + Len(b) : i > Len(a) => (a \o b)[i] = b[i - Len(a)]
         /\ Range(a \o b) = Range(a) \cup Range(b)
<1>1. /\ a \o b \in Seq(Asked)
      /\ DOMAIN (a \o b) = 1 .. Len(a) + Len(b)
      /\ \A i \in 1 .. Len(a) : (a \o b)[i] = a[i]
      /\ \A i \in 1 .. Len(a) + Len(b) : i > Len(a) => (a \o b)[i] = b[i - Len(a)]
  OBVIOUS
<1>2. Range(a \o b) \subseteq Range(a) \cup Range(b)
  BY <1>1 DEF Range
<1>3. Range(a) \subseteq Range(a \o b)
  BY <1>1 DEF Range
<1>4. Range(b) \subseteq Range(a \o b)
  <2> SUFFICES ASSUME NEW j \in DOMAIN b
               PROVE  b[j] \in Range(a \o b)
    BY DEF Range
  <2>1. /\ Len(a) + j \in 1 .. Len(a) + Len(b) /\ Len(a) + j > Len(a)
        /\ Len(a) + j - Len(a) = j
    OBVIOUS
  <2>2. (a \o b)[Len(a) + j] = b[j]
    BY <1>1, <2>1
  <2> QED
    BY <1>1, <2>1, <2>2 DEF Range
<1> QED
  BY <1>1, <1>2, <1>3, <1>4

\* Nothing outstanding: nothing is added to a sequence.
LEMMA ConcatEmpty ==
  ASSUME NEW a \in Seq(Asked)
  PROVE  a \o <<>> = a /\ <<>> \o a = a /\ <<>> \in Seq(Asked) /\ Range(<<>>) = {}
BY DEF Range

\* One Get, as a sequence.
LEMMA Single ==
  ASSUME NEW get \in Asked
  PROVE  /\ <<get>> \in Seq(Asked) /\ Range(<<get>>) = {get}
         /\ Len(<<get>>) = 1 /\ <<get>>[1] = get
BY DEF Range

\* What is left of the air after an answer or a loss.
LEMMA Rest ==
  ASSUME NEW a \in Seq(Asked), a # <<>>
  PROVE  /\ Tail(a) \in Seq(Asked) /\ Len(Tail(a)) = Len(a) - 1 /\ Len(a) \in Nat
         /\ \A i \in 1 .. Len(a) - 1 : Tail(a)[i] = a[i + 1]
         /\ Head(a) \in Asked /\ Head(a) = a[1]
         /\ Head(a) \in Range(a) /\ Range(Tail(a)) \subseteq Range(a)
<1>1. /\ Tail(a) \in Seq(Asked) /\ Len(Tail(a)) = Len(a) - 1 /\ Len(a) \in Nat
      /\ \A i \in 1 .. Len(a) - 1 : Tail(a)[i] = a[i + 1]
      /\ Head(a) \in Asked /\ Head(a) = a[1] /\ 1 \in DOMAIN a
  OBVIOUS
<1>2. Range(Tail(a)) \subseteq Range(a)
  <2> SUFFICES ASSUME NEW i \in DOMAIN Tail(a)
               PROVE  Tail(a)[i] \in Range(a)
    BY DEF Range
  <2>1. i \in 1 .. Len(a) - 1 /\ i + 1 \in DOMAIN a
    BY <1>1
  <2> QED
    BY <1>1, <2>1 DEF Range
<1> QED
  BY <1>1, <1>2 DEF Range

\* Dropping the oldest Get on the air leaves no Get twice.
LEMMA OnceRest ==
  ASSUME NEW q \in Seq(Asked), NEW a \in Seq(Asked), a # <<>>, NEW g \in Nat, Once(q \o a, g)
  PROVE  Once(q \o Tail(a), g)
<1> DEFINE new == q \o Tail(a)
           old == q \o a
           at(i) == IF i <= Len(q) THEN i ELSE i + 1
<1>1. /\ Tail(a) \in Seq(Asked) /\ Len(Tail(a)) = Len(a) - 1 /\ Len(a) \in Nat
      /\ \A i \in 1 .. Len(a) - 1 : Tail(a)[i] = a[i + 1]
  BY Rest
<1>2. \A i \in DOMAIN new : at(i) \in DOMAIN old /\ new[i] = old[at(i)]
  <2> SUFFICES ASSUME NEW i \in DOMAIN new
               PROVE  at(i) \in DOMAIN old /\ new[i] = old[at(i)]
    OBVIOUS
  <2>1. /\ i \in 1 .. Len(q) + (Len(a) - 1)
        /\ DOMAIN old = 1 .. Len(q) + Len(a)
        /\ Len(q) \in Nat
    BY <1>1, Concat
  <2>2. CASE i <= Len(q)
    BY <2>1, <2>2, <1>1, Concat
  <2>3. CASE i > Len(q)
    <3>1. new[i] = Tail(a)[i - Len(q)] /\ i - Len(q) \in 1 .. Len(a) - 1
      BY <2>1, <2>3, <1>1, Concat
    <3>2. Tail(a)[i - Len(q)] = a[i - Len(q) + 1]
      BY <3>1, <1>1
    <3>3. i + 1 \in 1 .. Len(q) + Len(a) /\ i + 1 > Len(q) /\ i + 1 - Len(q) = i - Len(q) + 1
      BY <2>1, <2>3, <1>1
    <3>4. old[i + 1] = a[i + 1 - Len(q)]
      BY <3>3, Concat
    <3>5. at(i) = i + 1
      BY <2>1, <2>3
    <3>6. new[i] = old[i + 1]
      BY <3>1, <3>2, <3>3, <3>4, Zenon
    <3> QED
      BY <2>1, <3>3, <3>5, <3>6, Zenon
  <2> QED
    BY <2>1, <2>2, <2>3
<1>3. \A i, j \in DOMAIN new : at(i) = at(j) => i = j
  BY <1>1, Concat
<1> HIDE DEF new, old, at
<1>4. Once(old, g)
  BY DEF old
<1>5. Once(new, g)
  BY <1>2, <1>3, <1>4 DEF Once
<1> QED
  BY <1>5 DEF new

\* Moving the queue to the end of the air leaves no Get twice.
LEMMA OnceMoved ==
  ASSUME NEW q \in Seq(Asked), NEW a \in Seq(Asked), NEW g \in Nat, Once(q \o a, g)
  PROVE  Once(a \o q, g)
<1> DEFINE new == a \o q
           old == q \o a
           at(i) == IF i <= Len(a) THEN Len(q) + i ELSE i - Len(a)
<1>1. Len(a) \in Nat /\ Len(q) \in Nat
  OBVIOUS
<1>2. \A i \in DOMAIN new : at(i) \in DOMAIN old /\ new[i] = old[at(i)]
  <2> SUFFICES ASSUME NEW i \in DOMAIN new
               PROVE  at(i) \in DOMAIN old /\ new[i] = old[at(i)]
    OBVIOUS
  <2>1. i \in 1 .. Len(a) + Len(q) /\ DOMAIN old = 1 .. Len(q) + Len(a)
    BY Concat
  <2>2. CASE i <= Len(a)
    <3>1. /\ Len(q) + i \in 1 .. Len(q) + Len(a) /\ Len(q) + i > Len(q)
          /\ Len(q) + i - Len(q) = i /\ i \in 1 .. Len(a)
      BY <1>1, <2>1, <2>2
    <3>2. old[Len(q) + i] = a[i] /\ new[i] = a[i]
      BY <3>1, Concat
    <3> QED
      BY <2>1, <2>2, <3>1, <3>2
  <2>3. CASE i > Len(a)
    <3>1. i - Len(a) \in 1 .. Len(q) /\ i - Len(a) \in 1 .. Len(q) + Len(a)
      BY <1>1, <2>1, <2>3
    <3>2. old[i - Len(a)] = q[i - Len(a)] /\ new[i] = q[i - Len(a)]
      BY <2>1, <2>3, <3>1, Concat
    <3> QED
      BY <2>1, <2>3, <1>1, <3>1, <3>2
  <2> QED
    BY <1>1, <2>1, <2>2, <2>3
<1>3. \A i, j \in DOMAIN new : at(i) = at(j) => i = j
  BY <1>1, Concat
<1> HIDE DEF new, old, at
<1>4. Once(old, g)
  BY DEF old
<1>5. Once(new, g)
  BY <1>2, <1>3, <1>4 DEF Once
<1> QED
  BY <1>5 DEF new

\* Emptying the air leaves no Get twice.
LEMMA OnceLeft ==
  ASSUME NEW q \in Seq(Asked), NEW a \in Seq(Asked), NEW g \in Nat, Once(q \o a, g)
  PROVE  Once(q, g)
<1> DEFINE old == q \o a
<1>1. \A i \in DOMAIN q : i \in DOMAIN old /\ old[i] = q[i]
  <2>1. Len(q) \in Nat /\ Len(a) \in Nat /\ DOMAIN q = 1 .. Len(q)
    OBVIOUS
  <2>2. DOMAIN old = 1 .. Len(q) + Len(a) /\ \A i \in 1 .. Len(q) : old[i] = q[i]
    BY Concat
  <2> HIDE DEF old
  <2> QED
    BY <2>1, <2>2
<1>2. Once(old, g)
  OBVIOUS
<1> HIDE DEF old
<1> QED
  BY <1>1, <1>2, Zenon DEF Once

\* Sending a Get that is not outstanding leaves no Get twice.
LEMMA OnceSent ==
  ASSUME NEW q \in Seq(Asked), NEW a \in Seq(Asked), NEW g \in Nat, Once(q \o a, g),
         NEW get \in Asked, get \notin Range(q) \cup Range(a)
  PROVE  Once(q \o (a \o <<get>>), g)
<1> DEFINE old == q \o a
           new == q \o (a \o <<get>>)
<1>1. new = Append(old, get) /\ old \in Seq(Asked) /\ get \notin Range(old)
  <2>1. get \notin Range(old) /\ old \in Seq(Asked)
    BY Concat
  <2>2. new = Append(old, get)
    OBVIOUS
  <2> QED
    BY <2>1, <2>2
<1>2. Once(old, g)
  OBVIOUS
<1> HIDE DEF old, new
<1>3. /\ DOMAIN new = 1 .. Len(old) + 1 /\ DOMAIN old = 1 .. Len(old) /\ Len(old) \in Nat
      /\ \A i \in 1 .. Len(old) : new[i] = old[i] /\ new[i] # get
      /\ new[Len(old) + 1] = get
  BY <1>1 DEF Range
<1>4. Once(new, g)
  BY <1>2, <1>3 DEF Once
<1> QED
  BY <1>4 DEF new

\* Queueing Gets of a new inclusion, no two alike, leaves no Get twice.
LEMMA OnceQueued ==
  ASSUME NEW q \in Seq(Asked), NEW a \in Seq(Asked), NEW g \in Nat, NEW gets \in Seq(Asked),
         \A get \in Range(q) \cup Range(a) : get.of # g,
         \A i, j \in DOMAIN gets : gets[i] = gets[j] => i = j
  PROVE  Once((q \o gets) \o a, g)
<1> DEFINE new == (q \o gets) \o a
<1>1. Len(q) \in Nat /\ Len(a) \in Nat /\ Len(gets) \in Nat /\ q \o gets \in Seq(Asked)
      /\ Len(q \o gets) = Len(q) + Len(gets)
  OBVIOUS
<1>2. ASSUME NEW i \in DOMAIN new, new[i].of = g
      PROVE  i \in Len(q) + 1 .. Len(q) + Len(gets) /\ new[i] = gets[i - Len(q)]
  <2>1. i \in 1 .. Len(q) + Len(gets) + Len(a)
    BY <1>1, Concat
  <2>2. i > Len(q)
    <3> SUFFICES ASSUME i <= Len(q) PROVE FALSE
      BY <1>1, <2>1
    <3>1. i \in DOMAIN q /\ i \in 1 .. Len(q \o gets)
      BY <1>1, <2>1
    <3>2. new[i] = (q \o gets)[i] /\ (q \o gets)[i] = q[i]
      BY <1>1, <3>1, Concat
    <3> QED
      BY <1>2, <3>1, <3>2 DEF Range
  <2>3. i <= Len(q) + Len(gets)
    <3> SUFFICES ASSUME i > Len(q \o gets) PROVE FALSE
      BY <1>1, <2>1
    <3>1. i - Len(q \o gets) \in DOMAIN a /\ i \in 1 .. Len(q \o gets) + Len(a)
      BY <1>1, <2>1
    <3>2. new[i] = a[i - Len(q \o gets)]
      BY <1>1, <3>1, Concat
    <3> QED
      BY <1>2, <3>1, <3>2 DEF Range
  <2>4. new[i] = (q \o gets)[i]
    BY <1>1, <2>1, <2>3, Concat
  <2>5. (q \o gets)[i] = gets[i - Len(q)]
    BY <1>1, <2>1, <2>2, <2>3, Concat
  <2> QED
    BY <2>1, <2>2, <2>3, <2>4, <2>5
<1> SUFFICES ASSUME NEW i \in DOMAIN new, NEW j \in DOMAIN new,
                    new[i].of = g, new[j] = new[i]
             PROVE  i = j
  BY DEF Once
<1>3. /\ i \in Len(q) + 1 .. Len(q) + Len(gets) /\ new[i] = gets[i - Len(q)]
      /\ j \in Len(q) + 1 .. Len(q) + Len(gets) /\ new[j] = gets[j - Len(q)]
  BY <1>2, Zenon
<1> HIDE DEF new
<1>4. i - Len(q) \in DOMAIN gets /\ j - Len(q) \in DOMAIN gets
  BY <1>1, <1>3
<1>5. i - Len(q) = j - Len(q)
  BY <1>3, <1>4
<1> QED
  BY <1>1, <1>3, <1>5

-----------------------------------------------------------------------------
(* The interview's operators.                                              *)

\* The steps of an interview are distinct, and there are two at least.
LEMMA Steps ==
  ASSUME NEW device \in SUBSET CommandClass
  PROVE  /\ stepsFor(device) \in Seq(Step)
         /\ Len(stepsFor(device)) \in Nat /\ Len(stepsFor(device)) >= 2
         /\ \A i, j \in 1 .. Len(stepsFor(device)) :
              stepsFor(device)[i] = stepsFor(device)[j] => i = j
<1> DEFINE two == <<"ManufacturerSpecific", "Version">>
           e == <<"Endpoints">>
           z == <<"ZWavePlus">>
           none == <<>>
<1>1. /\ two \in Seq(Step) /\ Len(two) = 2
      /\ two[1] = "ManufacturerSpecific" /\ two[2] = "Version"
  BY DEF Step
<1>2. /\ e \in Seq(Step) /\ Len(e) = 1 /\ e[1] = "Endpoints"
      /\ z \in Seq(Step) /\ Len(z) = 1 /\ z[1] = "ZWavePlus"
  BY DEF Step
<1>3. \A s \in Seq(Step) : s \o none = s
  OBVIOUS
<1>4. stepsFor(device) = (two \o (IF "MultiChannel" \in device THEN e ELSE none))
                           \o (IF "ZWavePlus" \in device THEN z ELSE none)
  BY DEF stepsFor
<1> HIDE DEF two, e, z, none
<1>5. \A a \in Seq(Step), b \in Seq(Step) :
        /\ a \o b \in Seq(Step) /\ Len(a \o b) = Len(a) + Len(b)
        /\ \A i \in 1 .. Len(a) : (a \o b)[i] = a[i]
        /\ Len(b) = 1 => (a \o b)[Len(a) + 1] = b[1]
  OBVIOUS
<1>6. /\ two \o e \in Seq(Step) /\ Len(two \o e) = 3 /\ (two \o e)[1] = "ManufacturerSpecific"
      /\ (two \o e)[2] = "Version" /\ (two \o e)[3] = "Endpoints"
  <2>1. 1 \in 1 .. Len(two) /\ 2 \in 1 .. Len(two) /\ Len(two) + 1 = 3 /\ Len(two) + Len(e) = 3
    BY <1>1, <1>2
  <2> QED
    BY <1>1, <1>2, <1>5, <2>1, Zenon
<1>7. /\ two \o z \in Seq(Step) /\ Len(two \o z) = 3 /\ (two \o z)[1] = "ManufacturerSpecific"
      /\ (two \o z)[2] = "Version" /\ (two \o z)[3] = "ZWavePlus"
  <2>1. 1 \in 1 .. Len(two) /\ 2 \in 1 .. Len(two) /\ Len(two) + 1 = 3 /\ Len(two) + Len(z) = 3
    BY <1>1, <1>2
  <2> QED
    BY <1>1, <1>2, <1>5, <2>1, Zenon
<1>8. LET all == (two \o e) \o z
      IN  /\ all \in Seq(Step) /\ Len(all) = 4 /\ all[1] = "ManufacturerSpecific"
          /\ all[2] = "Version" /\ all[3] = "Endpoints" /\ all[4] = "ZWavePlus"
  BY <1>2, <1>5, <1>6
<1>9. stepsFor(device) \in {two, two \o e, two \o z, (two \o e) \o z}
  BY <1>1, <1>3, <1>4, <1>6, Zenon
<1>10. CASE stepsFor(device) = two
  <2>1. Len(stepsFor(device)) = 2 /\ stepsFor(device) \in Seq(Step)
    BY <1>1, <1>10
  <2>2. \A i \in 1 .. 2 : i = 1 \/ i = 2
    OBVIOUS
  <2>3. \A i, j \in 1 .. 2 : stepsFor(device)[i] = stepsFor(device)[j] => i = j
    BY <1>1, <1>10, <2>2
  <2> QED
    BY <2>1, <2>3
<1>11. CASE stepsFor(device) = two \o e
  <2>1. Len(stepsFor(device)) = 3 /\ stepsFor(device) \in Seq(Step)
    BY <1>6, <1>11
  <2>2. \A i \in 1 .. 3 : i = 1 \/ i = 2 \/ i = 3
    OBVIOUS
  <2>3. \A i, j \in 1 .. 3 : stepsFor(device)[i] = stepsFor(device)[j] => i = j
    BY <1>6, <1>11, <2>2
  <2> QED
    BY <2>1, <2>3
<1>12. CASE stepsFor(device) = two \o z
  <2>1. Len(stepsFor(device)) = 3 /\ stepsFor(device) \in Seq(Step)
    BY <1>7, <1>12
  <2>2. \A i \in 1 .. 3 : i = 1 \/ i = 2 \/ i = 3
    OBVIOUS
  <2>3. \A i, j \in 1 .. 3 : stepsFor(device)[i] = stepsFor(device)[j] => i = j
    BY <1>7, <1>12, <2>2
  <2> QED
    BY <2>1, <2>3
<1>13. CASE stepsFor(device) = (two \o e) \o z
  <2>1. Len(stepsFor(device)) = 4 /\ stepsFor(device) \in Seq(Step)
    BY <1>8, <1>13
  <2>2. \A i \in 1 .. 4 : i = 1 \/ i = 2 \/ i = 3 \/ i = 4
    OBVIOUS
  <2>3. \A i, j \in 1 .. 4 : stepsFor(device)[i] = stepsFor(device)[j] => i = j
    BY <1>8, <1>13, <2>2, Zenon
  <2> QED
    BY <2>1, <2>3
<1> QED
  BY <1>9, <1>10, <1>11, <1>12, <1>13, Zenon

\* The Gets of an interview, one per step, tagged with the inclusion.
GetsOf(steps, g) == [i \in 1 .. Len(steps) |-> [step |-> steps[i], of |-> g]]

\* They are distinct, and all of this inclusion.
LEMMA Gotten ==
  ASSUME NEW steps \in Seq(Step), NEW g \in Nat,
         \A i, j \in 1 .. Len(steps) : steps[i] = steps[j] => i = j
  PROVE  /\ GetsOf(steps, g) \in Seq(Asked) /\ Len(GetsOf(steps, g)) = Len(steps)
         /\ \A i \in 1 .. Len(steps) : GetsOf(steps, g)[i] = [step |-> steps[i], of |-> g]
         /\ \A i, j \in DOMAIN GetsOf(steps, g) : GetsOf(steps, g)[i] = GetsOf(steps, g)[j] => i = j
         /\ \A get \in Range(GetsOf(steps, g)) : get \in Asked /\ get.of = g
<1>1. /\ GetsOf(steps, g) \in Seq(Asked) /\ Len(GetsOf(steps, g)) = Len(steps)
      /\ DOMAIN GetsOf(steps, g) = 1 .. Len(steps)
      /\ \A i \in 1 .. Len(steps) : GetsOf(steps, g)[i] = [step |-> steps[i], of |-> g]
  BY DEF GetsOf, Asked
<1>2. \A i \in 1 .. Len(steps) : [step |-> steps[i], of |-> g].step = steps[i]
  OBVIOUS
<1>3. \A i, j \in DOMAIN GetsOf(steps, g) : GetsOf(steps, g)[i] = GetsOf(steps, g)[j] => i = j
  BY <1>1, <1>2
<1>4. \A get \in Range(GetsOf(steps, g)) : get \in Asked /\ get.of = g
  BY <1>1 DEF Range, Asked
<1> QED
  BY <1>1, <1>3, <1>4

\* What sending does: only the air of n changes, and what was sent in the
\* clear only without a scheme.
Sent(n, before, gets, sch) ==
  /\ air' \in [Nodes -> Seq(Asked)] /\ air'[n] = before \o gets
  /\ \A m \in Nodes \ {n} : air'[m] = air[m]
  /\ plain' \in [Nodes -> SUBSET Asked]
  /\ plain'[n] \subseteq plain[n] \cup Range(gets) /\ plain[n] \subseteq plain'[n]
  /\ sch # "none" => plain'[n] = plain[n]
  /\ \A m \in Nodes \ {n} : plain'[m] = plain[m]

\* pushSendData, once per Get.
LEMMA Sending ==
  ASSUME InterviewType, NEW n \in Nodes, NEW before \in Seq(Asked), NEW gets \in Seq(Asked),
         NEW sch, Sends(n, before, gets, sch)
  PROVE  Sent(n, before, gets, sch)
<1>1. air \in [Nodes -> Seq(Asked)] /\ plain \in [Nodes -> SUBSET Asked]
  BY DEF InterviewType
<1>2. before \o gets \in Seq(Asked)
  BY Concat
<1>3. Range(gets) \subseteq Asked
  BY DEF Range
<1>4. /\ air' \in [Nodes -> Seq(Asked)] /\ air'[n] = before \o gets
      /\ \A m \in Nodes \ {n} : air'[m] = air[m]
  BY <1>1, <1>2 DEF Sends
<1>5. CASE sch = "none"
  <2>1. plain' = [plain EXCEPT ![n] = @ \cup Range(gets)]
    BY <1>5 DEF Sends
  <2> QED
    BY <1>1, <1>3, <1>4, <1>5, <2>1 DEF Sent
<1>6. CASE sch # "none"
  <2>1. plain' = plain
    BY <1>6 DEF Sends
  <2> QED
    BY <1>1, <1>4, <1>6, <2>1 DEF Sent
<1> QED
  BY <1>5, <1>6

\* What the start of an interview does: the Gets of inclusion g, none of which
\* was outstanding, now are, each once; live, only the first.
Begun(n, session, sch, g) ==
  /\ interview' = [interview EXCEPT ![n] = [session EXCEPT !.started = TRUE]]
  /\ queue' \in [Nodes -> Seq(Asked)] /\ air' \in [Nodes -> Seq(Asked)]
  /\ plain' \in [Nodes -> SUBSET Asked]
  /\ \A m \in Nodes \ {n} : queue'[m] = queue[m] /\ air'[m] = air[m] /\ plain'[m] = plain[m]
  /\ Once(queue'[n] \o air'[n], g)
  /\ \A get \in Outstanding(n)' : get \in Outstanding(n) \/ get.of = g
  /\ \A get \in plain'[n] : get \in plain[n] \/ get.of = g
  /\ ~session.viaQueue =>
       \A get \in Outstanding(n)' : get \in Outstanding(n) \/ get.step = session.steps[1]
  /\ sch # "none" => plain'[n] = plain[n]

\* beginInterview, through the queue and live.
LEMMA Beginning ==
  ASSUME InterviewType, NEW n \in Nodes, NEW session \in Sessions, NEW sch, NEW g \in Nat,
         NEW device \in SUBSET CommandClass, session.steps = stepsFor(device),
         beginInterview(n, session, sch, g), \A get \in Outstanding(n) : get.of # g
  PROVE  Begun(n, session, sch, g)
<1> DEFINE gets == GetsOf(session.steps, g)
<1>1. /\ interview' = [interview EXCEPT ![n] = [session EXCEPT !.started = TRUE]]
      /\ queue' = [queue EXCEPT ![n] = @ \o (IF session.viaQueue THEN gets ELSE <<>>)]
      /\ Sends(n, air[n], IF session.viaQueue THEN <<>> ELSE <<gets[1]>>, sch)
  BY DEF beginInterview, enqueue, GetsOf
<1>2. /\ session.steps \in Seq(Step) /\ Len(session.steps) \in Nat /\ Len(session.steps) >= 2
      /\ \A i, j \in 1 .. Len(session.steps) : session.steps[i] = session.steps[j] => i = j
  BY Steps
<1>3. /\ gets \in Seq(Asked) /\ Len(gets) = Len(session.steps)
      /\ \A i, j \in DOMAIN gets : gets[i] = gets[j] => i = j
      /\ \A get \in Range(gets) : get \in Asked /\ get.of = g
      /\ gets[1] = [step |-> session.steps[1], of |-> g]
  BY <1>2, Gotten
<1>4. /\ queue[n] \in Seq(Asked) /\ air[n] \in Seq(Asked)
      /\ queue \in [Nodes -> Seq(Asked)] /\ air \in [Nodes -> Seq(Asked)]
  BY DEF InterviewType
<1>5. /\ \A get \in Range(queue[n]) \cup Range(air[n]) : get.of # g
      /\ Outstanding(n) = Range(queue[n]) \cup Range(air[n])
      /\ Outstanding(n)' = Range(queue'[n]) \cup Range(air'[n])
  BY DEF Outstanding
<1> HIDE DEF gets
<1>6. CASE session.viaQueue
  <2>1. queue' = [queue EXCEPT ![n] = @ \o gets] /\ queue[n] \o gets \in Seq(Asked)
    BY <1>1, <1>3, <1>4, <1>6, Concat
  <2>2. Sent(n, air[n], <<>>, sch)
    BY <1>1, <1>4, <1>6, Sending, ConcatEmpty, Zenon
  <2>3. /\ air' \in [Nodes -> Seq(Asked)] /\ air'[n] = air[n] /\ plain'[n] = plain[n]
        /\ plain' \in [Nodes -> SUBSET Asked]
        /\ \A m \in Nodes \ {n} : air'[m] = air[m] /\ plain'[m] = plain[m]
    BY <1>4, <2>2, ConcatEmpty, Zenon DEF Sent
  <2>4. /\ queue' \in [Nodes -> Seq(Asked)] /\ queue'[n] = queue[n] \o gets
        /\ \A m \in Nodes \ {n} : queue'[m] = queue[m]
    BY <1>4, <2>1
  <2>5. Once(queue'[n] \o air'[n], g)
    <3>1. Once((queue[n] \o gets) \o air[n], g)
      BY <1>3, <1>4, <1>5, OnceQueued, Zenon
    <3> QED
      BY <2>3, <2>4, <3>1
  <2>6. Range(queue'[n]) = Range(queue[n]) \cup Range(gets)
    BY <1>3, <1>4, <2>4, Concat
  <2>7. \A get \in Outstanding(n)' : get \in Outstanding(n) \/ get.of = g
    BY <1>3, <1>5, <2>3, <2>6
  <2> QED
    BY <1>1, <1>6, <2>3, <2>4, <2>5, <2>7 DEF Begun
<1>7. CASE ~session.viaQueue
  <2>1. gets[1] \in Asked /\ gets[1].of = g /\ gets[1].step = session.steps[1]
    BY <1>2, <1>3 DEF Asked
  <2>2. queue' = queue
    BY <1>1, <1>4, <1>7, ConcatEmpty
  <2>3. Sent(n, air[n], <<gets[1]>>, sch)
    BY <1>1, <1>4, <1>7, <2>1, Sending, Single, Zenon
  <2>4. air'[n] = air[n] \o <<gets[1]>> /\ Range(air'[n]) = Range(air[n]) \cup {gets[1]}
    <3>1. <<gets[1]>> \in Seq(Asked) /\ Range(<<gets[1]>>) = {gets[1]}
      BY <2>1, Single
    <3>2. air'[n] = air[n] \o <<gets[1]>>
      BY <2>3 DEF Sent
    <3>3. Range(air[n] \o <<gets[1]>>) = Range(air[n]) \cup Range(<<gets[1]>>)
      BY <1>4, <3>1, Concat, Zenon
    <3> QED
      BY <3>1, <3>2, <3>3
  <2>5. \A get \in plain'[n] : get \in plain[n] \/ get = gets[1]
    BY <2>1, <2>3, Single DEF Sent
  <2>6. Once(queue[n] \o air[n], g)
    <3>1. Range(queue[n] \o air[n]) = Range(queue[n]) \cup Range(air[n])
      BY <1>4, Concat
    <3>2. \A i \in DOMAIN (queue[n] \o air[n]) : (queue[n] \o air[n])[i].of # g
      BY <1>5, <3>1, Zenon DEF Range
    <3> QED
      BY <3>2, Zenon DEF Once
  <2>7. gets[1] \notin Range(queue[n]) \cup Range(air[n])
    BY <1>5, <2>1
  <2>8. Once(queue'[n] \o air'[n], g)
    BY <1>4, <2>1, <2>2, <2>4, <2>6, <2>7, OnceSent
  <2>9. \A get \in Outstanding(n)' : get \in Outstanding(n) \/ get = gets[1]
    BY <1>5, <2>2, <2>4
  <2> QED
    BY <1>1, <1>4, <2>1, <2>2, <2>3, <2>5, <2>8, <2>9, Zenon DEF Begun, Sent
<1> QED
  BY <1>6, <1>7

-----------------------------------------------------------------------------
(* The interview, action by action.                                        *)

\* What InclusionComplete needs, as PolicyAfterInterview has it.
PolicyStep ==
  \A n \in Nodes : completed'[n] # completed[n] =>
    /\ Range(stepsFor(nif[n])) \subseteq answered'[n]
    /\ pendingPolicy[n] = nif[n]

\* A node that nothing happens to keeps its invariant.
LEMMA Bystander ==
  ASSUME NEW m \in Nodes, InterviewInv(m), nif'[m] = nif[m], scheme'[m] = scheme[m],
         interview'[m] = interview[m], pendingPolicy'[m] = pendingPolicy[m],
         queue'[m] = queue[m], air'[m] = air[m], plain'[m] = plain[m], gen'[m] = gen[m],
         answered'[m] = answered[m]
  PROVE  InterviewInv(m)'
<1>1. Outstanding(m)' = Outstanding(m)
  BY Zenon DEF Outstanding
<1>2. Present(m)' = Present(m)
  BY Zenon DEF Present
<1>3. SessionInv(m)'
  BY <1>2, Zenon DEF InterviewInv, SessionInv
<1>4. NumberInv(m)' /\ AskedInv(m)'
  BY <1>1, <1>2, Zenon DEF InterviewInv, NumberInv, AskedInv
<1>5. SecureInv(m)'
  BY <1>1, <1>2, Zenon DEF InterviewInv, SecureInv
<1>6. Once(queue[m] \o air[m], gen[m])'
  BY Zenon DEF InterviewInv, Once
<1> QED
  BY <1>3, <1>4, <1>5, <1>6, Zenon DEF InterviewInv

\* The node's own invariant when nothing is sent to it and its session stays.
LEMMA Quiet ==
  ASSUME NEW n \in Nodes, InterviewInv(n), nif'[n] = nif[n], scheme'[n] = scheme[n],
         interview'[n] = interview[n], pendingPolicy'[n] = pendingPolicy[n],
         plain'[n] = plain[n], gen'[n] = gen[n], answered[n] \subseteq answered'[n],
         Outstanding(n)' \subseteq Outstanding(n), Once(queue'[n] \o air'[n], gen[n])
  PROVE  InterviewInv(n)'
<1>1. Present(n)' = Present(n)
  BY Zenon DEF Present
<1>2. SessionInv(n)'
  <2>1. SessionInv(n)
    BY Zenon DEF InterviewInv
  <2> QED
    BY <1>1, <2>1 DEF SessionInv
<1>3. NumberInv(n)'
  BY Zenon DEF InterviewInv, NumberInv
<1>4. AskedInv(n)'
  BY <1>1, Zenon DEF InterviewInv, AskedInv
<1>5. SecureInv(n)'
  BY <1>1, Zenon DEF InterviewInv, SecureInv
<1> QED
  BY <1>2, <1>3, <1>4, <1>5, Zenon DEF InterviewInv

\* A session that waits has a step to wait for, of the device that is there.
LEMMA Waiting ==
  ASSUME InterviewsInv, NEW n \in Nodes, Present(n), interview[n].started
  PROVE  /\ interview[n] # NoSession /\ interview[n] \in Sessions
         /\ nif[n] \in SUBSET CommandClass
         /\ interview[n].steps = stepsFor(nif[n])
         /\ interview[n].viaQueue = ("WakeUp" \in nif[n])
         /\ interview[n].index \in 1 .. Len(interview[n].steps)
         /\ pendingPolicy[n] = nif[n]
         /\ \A i \in 1 .. interview[n].index - 1 : interview[n].steps[i] \in answered[n]
         /\ Len(interview[n].steps) \in Nat /\ interview[n].steps \in Seq(Step)
         /\ \A i, j \in 1 .. Len(interview[n].steps) :
              interview[n].steps[i] = interview[n].steps[j] => i = j
         /\ "S2" \in nif[n] /\ "S0" \notin nif[n] => scheme[n] # "none"
<1>1. interview[n] # NoSession
  BY DEF NoSession
<1>2. SessionInv(n) /\ SecureInv(n) /\ interview[n] \in Sessions /\ nif[n] \in SUBSET CommandClass
  BY DEF InterviewsInv, InterviewInv, InterviewType, NodeType
<1>3. /\ interview[n].steps = stepsFor(nif[n])
      /\ interview[n].viaQueue = ("WakeUp" \in nif[n])
      /\ interview[n].index \in 1 .. Len(stepsFor(nif[n]))
      /\ pendingPolicy[n] = nif[n]
      /\ \A i \in 1 .. interview[n].index - 1 : interview[n].steps[i] \in answered[n]
  BY <1>1, <1>2, Zenon DEF SessionInv
<1>4. "S2" \in nif[n] /\ "S0" \notin nif[n] => scheme[n] # "none"
  BY <1>2, Zenon DEF SecureInv
<1>5. /\ stepsFor(nif[n]) \in Seq(Step) /\ Len(stepsFor(nif[n])) \in Nat
      /\ \A i, j \in 1 .. Len(stepsFor(nif[n])) :
           stepsFor(nif[n])[i] = stepsFor(nif[n])[j] => i = j
  BY <1>2, Steps
<1> QED
  BY <1>1, <1>2, <1>3, <1>4, <1>5

\* What a step of the interview leaves true.
Interviewed == InterviewsInv' /\ PolicyStep

\* The report that was awaited: the session goes on, or is over and the policy
\* step runs.
LEMMA AwaitedKeeps ==
  ASSUME InterviewsInv, NEW n \in Nodes, NEW step \in Step, NEW before \in Seq(Asked), Present(n),
         Awaited(n, step), advance(n, step, before),
         Range(before) \subseteq Range(air[n]), Once(queue[n] \o before, gen[n]),
         answered[n] \cup {step} \subseteq answered'[n],
         UNCHANGED <<nif, scheme, queue, gen>>
  PROVE  /\ InterviewInv(n)' /\ interview'[n] \in Sessions /\ air'[n] \in Seq(Asked)
         /\ completed'[n] # completed[n] =>
              Range(stepsFor(nif[n])) \subseteq answered'[n] /\ pendingPolicy[n] = nif[n]
<1> DEFINE session == interview[n]
           k == session.index
           next == [step |-> session.steps[k + 1], of |-> gen[n]]
<1>1. session.started /\ session.steps[k] = step
  BY DEF Awaited
<1>2. /\ session # NoSession /\ session \in Sessions /\ nif[n] \in SUBSET CommandClass
      /\ session.steps = stepsFor(nif[n]) /\ session.viaQueue = ("WakeUp" \in nif[n])
      /\ k \in 1 .. Len(session.steps) /\ pendingPolicy[n] = nif[n]
      /\ \A i \in 1 .. k - 1 : session.steps[i] \in answered[n]
      /\ Len(session.steps) \in Nat /\ session.steps \in Seq(Step)
      /\ \A i, j \in 1 .. Len(session.steps) : session.steps[i] = session.steps[j] => i = j
      /\ "S2" \in nif[n] /\ "S0" \notin nif[n] => scheme[n] # "none"
  BY <1>1, Waiting
<1>3. /\ interview' = [interview EXCEPT ![n] =
           IF k = Len(session.steps) THEN NoSession ELSE [session EXCEPT !.index = @ + 1]]
      /\ IF k = Len(session.steps) THEN onNodeInterviewComplete(n)
                                  ELSE UNCHANGED <<pendingPolicy, completed>>
      /\ Sends(n, before, IF k = Len(session.steps) \/ session.viaQueue THEN <<>> ELSE <<next>>,
               scheme[n])
  BY DEF advance
<1>4. /\ interview \in [Nodes -> Sessions] /\ queue[n] \in Seq(Asked) /\ gen[n] \in Nat
      /\ InterviewType /\ InterviewInv(n)
  BY DEF InterviewsInv, InterviewType, NodeType
<1>5. \A i \in 1 .. k : session.steps[i] \in answered'[n]
  BY <1>1, <1>2
<1>6. /\ interview'[n] = IF k = Len(session.steps) THEN NoSession ELSE [session EXCEPT !.index = k + 1]
      /\ interview'[n] \in Sessions
  <2>1. NoSession \in Sessions
    BY DEF NoSession, Sessions
  <2>2. [session EXCEPT !.index = k + 1] \in Sessions
    <3>1. k + 1 \in Nat /\ session \in Sessions
      BY <1>2
    <3> HIDE DEF session, k
    <3> QED
      BY <3>1, Zenon DEF Sessions
  <2>3. k \in Nat /\ [session EXCEPT !.index = @ + 1] = [session EXCEPT !.index = k + 1]
    BY <1>2
  <2> HIDE DEF session, k
  <2>4. interview'[n] = IF k = Len(session.steps) THEN NoSession ELSE [session EXCEPT !.index = k + 1]
    BY <1>3, <1>4, <2>3
  <2> QED
    BY <2>1, <2>2, <2>4
<1>7. /\ Present(n)' /\ nif'[n] = nif[n] /\ scheme'[n] = scheme[n] /\ gen'[n] = gen[n]
      /\ queue'[n] = queue[n]
  BY Zenon DEF Present
<1>o. /\ Outstanding(n)' = Range(queue[n]) \cup Range(air'[n])
      /\ Outstanding(n) = Range(queue[n]) \cup Range(air[n])
  BY <1>7, Zenon DEF Outstanding
<1>8. CASE k = Len(session.steps)
  <2>1. interview'[n] = NoSession /\ Sends(n, before, <<>>, scheme[n])
    BY <1>3, <1>6, <1>8
  <2>2. air'[n] = before /\ plain'[n] = plain[n]
    BY <1>4, <2>1, Sending, ConcatEmpty, Zenon DEF Sent
  <2>3. Outstanding(n)' \subseteq Outstanding(n)
    BY <1>o, <2>2
  <2>4. SessionInv(n)' /\ AskedInv(n)'
    BY <2>1 DEF SessionInv, AskedInv
  <2>5. NumberInv(n)'
    BY <1>4, <1>7, <2>2, <2>3, Zenon DEF InterviewInv, NumberInv
  <2>6. SecureInv(n)'
    BY <1>2, <1>4, <1>7, <2>2, Present(n), Zenon DEF InterviewInv, SecureInv
  <2>7. InterviewInv(n)'
    BY <1>7, <2>2, <2>4, <2>5, <2>6, Zenon DEF InterviewInv
  <2>8. Range(stepsFor(nif[n])) \subseteq answered'[n]
    <3>1. DOMAIN stepsFor(nif[n]) = 1 .. k
      BY <1>2, <1>8
    <3>2. \A i \in DOMAIN stepsFor(nif[n]) : stepsFor(nif[n])[i] \in answered'[n]
      BY <1>2, <1>5, <3>1
    <3> QED
      BY <3>2, Zenon DEF Range
  <2> QED
    BY <1>2, <1>6, <2>2, <2>7, <2>8
<1>9. CASE k # Len(session.steps)
  <2>1. /\ interview'[n] = [session EXCEPT !.index = k + 1] /\ UNCHANGED <<pendingPolicy, completed>>
        /\ k + 1 \in 1 .. Len(session.steps)
    BY <1>2, <1>3, <1>6, <1>9
  <2>2. /\ interview'[n].steps = session.steps /\ interview'[n].viaQueue = session.viaQueue
        /\ interview'[n].index = k + 1 /\ interview'[n].started
    BY <1>1, <1>2, <2>1 DEF Sessions
  <2>3. SessionInv(n)'
    <3>1. \A i \in 1 .. (k + 1) - 1 : session.steps[i] \in answered'[n]
      BY <1>2, <1>5
    <3> QED
      BY <1>2, <1>7, <2>1, <2>2, <3>1, Zenon DEF SessionInv
  <2>4. CASE session.viaQueue
    <3>1. Sends(n, before, <<>>, scheme[n])
      BY <1>3, <2>4
    <3>2. air'[n] = before /\ plain'[n] = plain[n]
      BY <1>4, <3>1, Sending, ConcatEmpty, Zenon DEF Sent
    <3>3. Outstanding(n)' \subseteq Outstanding(n)
      BY <1>o, <3>2
    <3>4. NumberInv(n)'
      BY <1>4, <1>7, <3>2, <3>3, Zenon DEF InterviewInv, NumberInv
    <3>5. SecureInv(n)'
      BY <1>2, <1>4, <1>7, <3>2, Present(n), Zenon DEF InterviewInv, SecureInv
    <3>6. AskedInv(n)'
      BY <2>2, <2>4, Zenon DEF AskedInv
    <3>7. InterviewInv(n)'
      BY <1>7, <2>3, <3>2, <3>4, <3>5, <3>6, Zenon DEF InterviewInv
    <3> QED
      BY <1>6, <2>1, <3>2, <3>7
  <2>5. CASE ~session.viaQueue
    <3>1. Sends(n, before, <<next>>, scheme[n])
      BY <1>3, <1>9, <2>5
    <3>2. /\ next \in Asked /\ next.of = gen[n] /\ next.step = session.steps[k + 1]
      BY <1>2, <1>4, <2>1 DEF Asked
    <3> HIDE DEF next
    <3>3. Sent(n, before, <<next>>, scheme[n]) /\ <<next>> \in Seq(Asked) /\ Range(<<next>>) = {next}
      BY <1>4, <3>1, <3>2, Sending, Single, Zenon
    <3>4. /\ air'[n] = before \o <<next>> /\ Range(air'[n]) = Range(before) \cup {next}
          /\ air'[n] \in Seq(Asked)
      BY <3>3, Concat, Zenon DEF Sent
    <3>5. \A get \in Outstanding(n)' : get \in Outstanding(n) \/ get = next
      BY <1>o, <3>4
    <3>6. \A get \in plain'[n] : get \in plain[n] \/ (get = next /\ scheme[n] = "none")
      BY <3>3 DEF Sent
    <3>7. NumberInv(n)'
      <4>1. \A get \in Outstanding(n) \cup plain[n] : get.of <= gen[n]
        BY <1>4, Zenon DEF InterviewInv, NumberInv
      <4>2. next.of <= gen[n]
        BY <1>4, <3>2
      <4> QED
        BY <1>7, <3>5, <3>6, <4>1, <4>2, Zenon DEF NumberInv
    <3>8. \A get \in Outstanding(n) : get.of = gen[n] =>
            \E i \in 1 .. k : get.step = session.steps[i]
      BY <1>2, <1>4, <2>5, Present(n), Zenon DEF InterviewInv, AskedInv
    <3>9. AskedInv(n)'
      <4>1. \A get \in Outstanding(n)' : get.of = gen[n] =>
              \E i \in 1 .. k + 1 : get.step = session.steps[i]
        <5>1. ASSUME NEW get \in Outstanding(n)', get.of = gen[n], get \in Outstanding(n)
              PROVE  \E i \in 1 .. k + 1 : get.step = session.steps[i]
          <6>1. PICK i \in 1 .. k : get.step = session.steps[i]
            BY <3>8, <5>1, Zenon
          <6>2. i \in 1 .. k + 1
            BY <1>2, <6>1
          <6> QED
            BY <6>1, <6>2, Zenon
        <5>2. ASSUME NEW get \in Outstanding(n)', get = next
              PROVE  \E i \in 1 .. k + 1 : get.step = session.steps[i]
          <6>1. k + 1 \in 1 .. k + 1
            BY <1>2
          <6> QED
            BY <3>2, <5>2, <6>1, Zenon
        <5> QED
          BY <3>5, <5>1, <5>2, Zenon
      <4> QED
        BY <1>7, <2>2, <4>1, Zenon DEF AskedInv
    <3>10. next \notin Outstanding(n)
      BY <1>2, <2>1, <3>2, <3>8
    <3>11. Once(queue'[n] \o air'[n], gen[n])
      <4>1. next \notin Range(queue[n]) \cup Range(before)
        BY <1>o, <3>10, Zenon
      <4>2. Once(queue[n] \o (before \o <<next>>), gen[n])
        BY <1>4, <3>2, <4>1, OnceSent
      <4> QED
        BY <1>7, <3>4, <4>2, Zenon
    <3>12. SecureInv(n)'
      <4>1. "S2" \in nif[n] /\ "S0" \notin nif[n] => scheme[n] # "none" /\ plain'[n] = plain[n]
        BY <1>2, <3>3 DEF Sent
      <4> QED
        BY <1>4, <1>7, <4>1, Present(n), Zenon DEF InterviewInv, SecureInv
    <3>13. InterviewInv(n)'
      BY <1>7, <2>3, <3>7, <3>9, <3>11, <3>12, Zenon DEF InterviewInv
    <3> QED
      BY <1>6, <2>1, <3>4, <3>13
  <2> QED
    BY <2>4, <2>5
<1> QED
  BY <1>8, <1>9

\* A report, awaited or not, that leaves `before' on the air.
LEMMA AdvanceKeeps ==
  ASSUME InterviewsInv, NEW n \in Nodes, NEW step \in Step, NEW before \in Seq(Asked), Present(n),
         advance(n, step, before),
         Range(before) \subseteq Range(air[n]), Once(queue[n] \o before, gen[n]),
         answered' \in [Nodes -> SUBSET Step], answered[n] \cup {step} \subseteq answered'[n],
         \A m \in Nodes \ {n} : answered'[m] = answered[m],
         UNCHANGED <<nif, scheme, queue, gen>>
  PROVE  Interviewed
<1>1. InterviewType /\ NodeType /\ \A m \in Nodes : InterviewInv(m)
  BY Zenon DEF InterviewsInv
<1>2. /\ interview \in [Nodes -> Sessions] /\ queue \in [Nodes -> Seq(Asked)]
      /\ completed \in [Nodes -> Nat] /\ air \in [Nodes -> Seq(Asked)]
      /\ pendingPolicy \in [Nodes -> (SUBSET CommandClass) \cup {NoPolicy}]
  BY <1>1, Zenon DEF InterviewType
<1>3. NodeType'
  BY <1>1, Zenon DEF NodeType
<1>4. CASE Awaited(n, step)
  <2>1. /\ InterviewInv(n)' /\ interview'[n] \in Sessions /\ air'[n] \in Seq(Asked)
        /\ completed'[n] # completed[n] =>
             Range(stepsFor(nif[n])) \subseteq answered'[n] /\ pendingPolicy[n] = nif[n]
    BY <1>4, AwaitedKeeps
  <2>2. PICK s : interview' = [interview EXCEPT ![n] = s]
    BY <1>4, Zenon DEF advance
  <2>3. \/ UNCHANGED <<pendingPolicy, completed>>
        \/ /\ pendingPolicy' = [pendingPolicy EXCEPT ![n] = NoPolicy]
           /\ completed' = [completed EXCEPT ![n] = @ + 1]
    BY <1>4, Zenon DEF advance, onNodeInterviewComplete
  <2>4. /\ pendingPolicy' \in [Nodes -> (SUBSET CommandClass) \cup {NoPolicy}]
        /\ completed' \in [Nodes -> Nat]
        /\ \A m \in Nodes \ {n} : pendingPolicy'[m] = pendingPolicy[m] /\ completed'[m] = completed[m]
    <3>1. CASE UNCHANGED <<pendingPolicy, completed>>
      BY <1>2, <3>1
    <3>2. CASE /\ pendingPolicy' = [pendingPolicy EXCEPT ![n] = NoPolicy]
               /\ completed' = [completed EXCEPT ![n] = @ + 1]
      <4>1. /\ completed' \in [Nodes -> Nat]
            /\ \A m \in Nodes \ {n} : completed'[m] = completed[m]
        BY <1>2, <3>2
      <4>2. \A T : NoPolicy \in T /\ pendingPolicy \in [Nodes -> T] =>
              /\ pendingPolicy' \in [Nodes -> T]
              /\ \A m \in Nodes \ {n} : pendingPolicy'[m] = pendingPolicy[m]
        BY <3>2
      <4>3. NoPolicy \in (SUBSET CommandClass) \cup {NoPolicy}
        BY Zenon
      <4> QED
        BY <1>2, <4>1, <4>2, <4>3, Zenon
    <3> QED
      BY <2>3, <3>1, <3>2
  <2>5. interview' \in [Nodes -> Sessions] /\ \A m \in Nodes \ {n} : interview'[m] = interview[m]
    BY <1>2, <2>1, <2>2
  <2>6. /\ air' \in [Nodes -> Seq(Asked)] /\ plain' \in [Nodes -> SUBSET Asked]
        /\ \A m \in Nodes \ {n} : air'[m] = air[m] /\ plain'[m] = plain[m]
    <3> DEFINE session == interview[n]
               next == [step |-> session.steps[session.index + 1], of |-> gen[n]]
    <3>1. \/ Sends(n, before, <<>>, scheme[n])
          \/ session.index # Len(session.steps) /\ Sends(n, before, <<next>>, scheme[n])
      BY <1>4, Zenon DEF advance
    <3>2. /\ session.steps \in Seq(Step) /\ session.index \in 1 .. Len(session.steps)
          /\ gen[n] \in Nat
      BY <1>1, <1>4, Waiting DEF Awaited, NodeType
    <3>3. session.index # Len(session.steps) => next \in Asked
      <4>1. session.index # Len(session.steps) => session.steps[session.index + 1] \in Step
        BY <3>2
      <4> QED
        BY <3>2, <4>1 DEF Asked
    <3> HIDE DEF next
    <3>4. Sent(n, before, <<>>, scheme[n]) \/ Sent(n, before, <<next>>, scheme[n])
      BY <1>1, <3>1, <3>3, Sending, ConcatEmpty, Single, Zenon
    <3> QED
      BY <3>4, Zenon DEF Sent
  <2>7. InterviewType'
    BY <1>2, <2>4, <2>5, <2>6, Zenon DEF InterviewType
  <2>8. \A m \in Nodes \ {n} : InterviewInv(m)'
    BY <1>1, <2>4, <2>5, <2>6, Bystander, Zenon
  <2>9. PolicyStep
    BY <2>1, <2>4, Zenon DEF PolicyStep
  <2> QED
    BY <1>3, <2>1, <2>7, <2>8, <2>9, Zenon DEF Interviewed, InterviewsInv
<1>5. CASE ~Awaited(n, step)
  <2>1. UNCHANGED <<interview, pendingPolicy, completed>> /\ Sends(n, before, <<>>, "none")
    BY <1>5, Zenon DEF advance, SendsNothing
  <2>2. Sent(n, before, <<>>, "none")
    BY <1>1, <2>1, Sending, ConcatEmpty, Zenon
  <2>3. /\ air' \in [Nodes -> Seq(Asked)] /\ plain' \in [Nodes -> SUBSET Asked]
        /\ air'[n] = before /\ plain'[n] = plain[n]
        /\ \A m \in Nodes \ {n} : air'[m] = air[m] /\ plain'[m] = plain[m]
    BY <2>2, ConcatEmpty, Zenon DEF Sent
  <2>4. InterviewType'
    BY <1>2, <2>1, <2>3, Zenon DEF InterviewType
  <2>5. Outstanding(n)' \subseteq Outstanding(n)
    BY <2>3 DEF Outstanding
  <2>6. InterviewInv(n)'
    BY <1>1, <2>1, <2>3, <2>5, Quiet, Zenon
  <2>7. \A m \in Nodes \ {n} : InterviewInv(m)'
    BY <1>1, <2>1, <2>3, Bystander, Zenon
  <2>8. PolicyStep
    BY <2>1, Zenon DEF PolicyStep
  <2> QED
    BY <1>3, <2>4, <2>6, <2>7, <2>8, Zenon DEF Interviewed, InterviewsInv
<1> QED
  BY <1>4, <1>5

\* Report: the node answers the oldest Get.
LEMMA ReportKeeps ==
  ASSUME InterviewsInv, NEW n \in Nodes, Report(n)
  PROVE  Interviewed
<1>1. /\ air[n] \in Seq(Asked) /\ queue[n] \in Seq(Asked) /\ gen[n] \in Nat
      /\ answered \in [Nodes -> SUBSET Step] /\ Once(queue[n] \o air[n], gen[n])
  BY DEF InterviewsInv, InterviewType, NodeType, InterviewInv
<1>2. /\ Present(n) /\ air[n] # <<>>
      /\ answered' = [answered EXCEPT ![n] = @ \cup {Head(air[n]).step}]
      /\ advance(n, Head(air[n]).step, Tail(air[n]))
      /\ UNCHANGED <<nif, scheme, queue, gen>>
  BY Zenon DEF Report
<1>3. /\ Tail(air[n]) \in Seq(Asked) /\ Range(Tail(air[n])) \subseteq Range(air[n])
      /\ Head(air[n]) \in Asked
  BY <1>1, <1>2, Rest
<1>4. Head(air[n]).step \in Step
  BY <1>3 DEF Asked
<1>5. Once(queue[n] \o Tail(air[n]), gen[n])
  BY <1>1, <1>2, OnceRest
<1>6. /\ answered' \in [Nodes -> SUBSET Step]
      /\ answered[n] \cup {Head(air[n]).step} \subseteq answered'[n]
      /\ \A m \in Nodes \ {n} : answered'[m] = answered[m]
  BY <1>1, <1>2, <1>4
<1> QED
  BY <1>2, <1>3, <1>4, <1>5, <1>6, AdvanceKeeps, Zenon

\* ReportAgain: an answer is repeated.
LEMMA ReportAgainKeeps ==
  ASSUME InterviewsInv, NEW n \in Nodes, ReportAgain(n)
  PROVE  Interviewed
<1>1. /\ air[n] \in Seq(Asked) /\ answered \in [Nodes -> SUBSET Step]
      /\ Once(queue[n] \o air[n], gen[n])
  BY DEF InterviewsInv, InterviewType, InterviewInv
<1>2. PICK step \in answered[n] : advance(n, step, air[n])
  BY Zenon DEF ReportAgain
<1>3. Present(n) /\ UNCHANGED <<nif, scheme, queue, gen, answered>>
  BY Zenon DEF ReportAgain
<1>4. step \in Step /\ answered' \in [Nodes -> SUBSET Step] /\ answered[n] \cup {step} \subseteq answered'[n]
  BY <1>1, <1>3
<1> QED
  BY <1>1, <1>2, <1>3, <1>4, AdvanceKeeps

\* ReportLost: nothing asks again.
LEMMA ReportLostKeeps ==
  ASSUME InterviewsInv, NEW n \in Nodes, ReportLost(n)
  PROVE  Interviewed
<1>1. InterviewType /\ NodeType /\ \A m \in Nodes : InterviewInv(m)
  BY Zenon DEF InterviewsInv
<1>2. /\ air \in [Nodes -> Seq(Asked)] /\ air[n] \in Seq(Asked) /\ queue[n] \in Seq(Asked)
      /\ gen[n] \in Nat /\ Once(queue[n] \o air[n], gen[n])
  BY <1>1 DEF InterviewType, NodeType, InterviewInv
<1>3. /\ air[n] # <<>> /\ air' = [air EXCEPT ![n] = Tail(@)]
      /\ UNCHANGED <<nif, scheme, interview, pendingPolicy, queue, gen, completed, answered, plain>>
  BY Zenon DEF ReportLost
<1>4. Tail(air[n]) \in Seq(Asked) /\ Range(Tail(air[n])) \subseteq Range(air[n])
  BY <1>2, <1>3, Rest
<1>5. /\ air' \in [Nodes -> Seq(Asked)] /\ air'[n] = Tail(air[n])
      /\ \A m \in Nodes \ {n} : air'[m] = air[m]
  BY <1>2, <1>3, <1>4
<1>6. Once(queue'[n] \o air'[n], gen[n])
  BY <1>2, <1>3, <1>5, OnceRest
<1>7. Outstanding(n)' \subseteq Outstanding(n)
  BY <1>3, <1>4, <1>5 DEF Outstanding
<1>8. InterviewInv(n)'
  BY <1>1, <1>3, <1>6, <1>7, Quiet
<1>9. \A m \in Nodes \ {n} : InterviewInv(m)'
  BY <1>1, <1>3, <1>5, Bystander
<1>10. NodeType' /\ InterviewType' /\ PolicyStep
  BY <1>1, <1>3, <1>5, Zenon DEF NodeType, InterviewType, PolicyStep
<1> QED
  BY <1>8, <1>9, <1>10, Zenon DEF Interviewed, InterviewsInv

\* WakeUp: the queue moves to the air, in the clear only before there is a scheme.
LEMMA WakeUpKeeps ==
  ASSUME InterviewsInv, NEW n \in Nodes, WakeUp(n)
  PROVE  Interviewed
<1>1. InterviewType /\ NodeType /\ \A m \in Nodes : InterviewInv(m)
  BY Zenon DEF InterviewsInv
<1>2. /\ queue \in [Nodes -> Seq(Asked)] /\ air[n] \in Seq(Asked) /\ queue[n] \in Seq(Asked)
      /\ gen[n] \in Nat /\ Once(queue[n] \o air[n], gen[n])
  BY <1>1 DEF InterviewType, NodeType, InterviewInv
<1>3. /\ Present(n) /\ queue' = [queue EXCEPT ![n] = <<>>]
      /\ Sends(n, air[n], queue[n], scheme[n])
      /\ UNCHANGED <<nif, scheme, interview, pendingPolicy, gen, completed, answered>>
  BY Zenon DEF WakeUp, drain
<1>4. /\ queue' \in [Nodes -> Seq(Asked)] /\ queue'[n] = <<>>
      /\ \A m \in Nodes \ {n} : queue'[m] = queue[m]
  BY <1>2, <1>3
<1>5. Sent(n, air[n], queue[n], scheme[n])
  BY <1>1, <1>2, <1>3, Sending
<1>6. /\ air' \in [Nodes -> Seq(Asked)] /\ air'[n] = air[n] \o queue[n]
      /\ plain' \in [Nodes -> SUBSET Asked]
      /\ plain'[n] \subseteq plain[n] \cup Range(queue[n])
      /\ scheme[n] # "none" => plain'[n] = plain[n]
      /\ \A m \in Nodes \ {n} : air'[m] = air[m] /\ plain'[m] = plain[m]
  BY <1>5, Zenon DEF Sent
<1>7. Outstanding(n)' = Outstanding(n)
  <2>1. Range(air'[n]) = Range(air[n]) \cup Range(queue[n]) /\ Range(<<>>) = {}
    BY <1>2, <1>6, Concat, ConcatEmpty
  <2> QED
    BY <1>4, <2>1 DEF Outstanding
<1>8. Once(queue'[n] \o air'[n], gen[n])
  <2>1. Once(air[n] \o queue[n], gen[n]) /\ air'[n] \in Seq(Asked)
    BY <1>2, <1>6, OnceMoved
  <2> QED
    BY <1>4, <1>6, <2>1, ConcatEmpty
<1>9. \A get \in plain'[n] : get \in plain[n] \/ get \in Outstanding(n)
  BY <1>6 DEF Outstanding
<1>10. Present(n)' /\ nif'[n] = nif[n] /\ scheme'[n] = scheme[n] /\ gen'[n] = gen[n]
       /\ interview'[n] = interview[n]
  BY <1>3, Zenon DEF Present
<1>11. SessionInv(n)'
  BY <1>1, <1>3, Zenon DEF InterviewInv, SessionInv
<1>12. NumberInv(n)'
  BY <1>1, <1>7, <1>9, <1>10, Zenon DEF InterviewInv, NumberInv
<1>13. AskedInv(n)'
  BY <1>1, <1>3, <1>7, <1>10, Zenon DEF InterviewInv, AskedInv
<1>14. SecureInv(n)'
  <2>1. SecureInv(n)
    BY <1>1, Zenon DEF InterviewInv
  <2>2. CASE scheme[n] = "none"
    BY <1>3, <1>7, <1>9, <1>10, <2>1, <2>2, Zenon DEF SecureInv
  <2>3. CASE scheme[n] # "none"
    BY <1>3, <1>6, <1>10, <2>1, <2>3, Zenon DEF SecureInv
  <2> QED
    BY <2>2, <2>3
<1>15. InterviewInv(n)'
  BY <1>8, <1>10, <1>11, <1>12, <1>13, <1>14, Zenon DEF InterviewInv
<1>16. \A m \in Nodes \ {n} : InterviewInv(m)'
  BY <1>1, <1>3, <1>4, <1>6, Bystander
<1>17. NodeType' /\ InterviewType' /\ PolicyStep
  BY <1>1, <1>3, <1>4, <1>6, Zenon DEF NodeType, InterviewType, PolicyStep
<1> QED
  BY <1>15, <1>16, <1>17, Zenon DEF Interviewed, InterviewsInv

\* onNodeSecurityStatus when a bootstrap ends: the deferred interview starts.
LEMMA StatusKeeps ==
  ASSUME InterviewsInv, NEW n \in Nodes, Present(n), NEW sch, onNodeSecurityStatus(n, sch),
         NEW scheme_n \in {"S0"} \cup Class, scheme' = [scheme EXCEPT ![n] = scheme_n],
         "S0" \notin nif[n] => scheme_n # "S0" /\ sch # "none",
         UNCHANGED <<nif, gen, pendingPolicy, completed, answered>>
  PROVE  Interviewed
<1>1. InterviewType /\ NodeType /\ \A m \in Nodes : InterviewInv(m)
  BY Zenon DEF InterviewsInv
<1>2. /\ interview \in [Nodes -> Sessions] /\ interview[n] \in Sessions
      /\ scheme \in [Nodes -> {"absent", "none", "S0"} \cup Class]
      /\ nif[n] \in SUBSET CommandClass
      /\ air[n] \in Seq(Asked) /\ queue[n] \in Seq(Asked) /\ gen[n] \in Nat
      /\ Once(queue[n] \o air[n], gen[n])
  BY <1>1 DEF InterviewType, NodeType, InterviewInv
<1>3. /\ scheme' \in [Nodes -> {"absent", "none", "S0"} \cup Class] /\ scheme'[n] = scheme_n
      /\ \A m \in Nodes \ {n} : scheme'[m] = scheme[m]
  BY <1>2
<1>4. Present(n)' /\ nif'[n] = nif[n] /\ gen'[n] = gen[n] /\ scheme'[n] # "none"
  BY <1>3 DEF Present, Class
<1>5. NodeType'
  BY <1>1, <1>3, Zenon DEF NodeType
<1>6. CASE interview[n] # NoSession /\ ~interview[n].started
  <2>1. beginInterview(n, interview[n], sch, gen[n])
    BY <1>6, Zenon DEF onNodeSecurityStatus
  <2>2. \A get \in Outstanding(n) : get.of # gen[n]
    BY <1>1, <1>6, Present(n), Zenon DEF InterviewInv, AskedInv
  <2>3. interview[n].steps = stepsFor(nif[n])
    BY <1>1, <1>6, Present(n), Zenon DEF InterviewInv, SessionInv
  <2>4. Begun(n, interview[n], sch, gen[n])
    BY <1>1, <1>2, <2>1, <2>2, <2>3, Beginning
  <2>5. /\ interview' = [interview EXCEPT ![n] = [interview[n] EXCEPT !.started = TRUE]]
        /\ queue' \in [Nodes -> Seq(Asked)] /\ air' \in [Nodes -> Seq(Asked)]
        /\ plain' \in [Nodes -> SUBSET Asked]
        /\ \A m \in Nodes \ {n} : queue'[m] = queue[m] /\ air'[m] = air[m] /\ plain'[m] = plain[m]
        /\ Once(queue'[n] \o air'[n], gen[n])
        /\ \A get \in Outstanding(n)' : get \in Outstanding(n) \/ get.of = gen[n]
        /\ \A get \in plain'[n] : get \in plain[n] \/ get.of = gen[n]
        /\ ~interview[n].viaQueue =>
             \A get \in Outstanding(n)' : get \in Outstanding(n) \/ get.step = interview[n].steps[1]
        /\ sch # "none" => plain'[n] = plain[n]
    BY <2>4, Zenon DEF Begun
  <2>6. /\ interview'[n] = [interview[n] EXCEPT !.started = TRUE]
        /\ interview' \in [Nodes -> Sessions]
        /\ \A m \in Nodes \ {n} : interview'[m] = interview[m]
    <3>1. [interview[n] EXCEPT !.started = TRUE] \in Sessions
      BY <1>2, Zenon DEF Sessions
    <3> QED
      BY <1>2, <2>5, <3>1
  <2>7. /\ interview'[n].steps = interview[n].steps /\ interview'[n].viaQueue = interview[n].viaQueue
        /\ interview'[n].index = interview[n].index /\ interview'[n].started
    BY <1>2, <2>6 DEF Sessions
  <2>8. SessionInv(n)'
    BY <1>1, <1>4, <1>6, <2>7, Present(n), Zenon DEF InterviewInv, SessionInv
  <2>9. NumberInv(n)'
    <3>1. \A get \in Outstanding(n) \cup plain[n] : get.of <= gen[n]
      BY <1>1, Zenon DEF InterviewInv, NumberInv
    <3>2. gen[n] <= gen[n]
      BY <1>2
    <3> QED
      BY <1>4, <2>5, <3>1, <3>2, Zenon DEF NumberInv
  <2>10. AskedInv(n)'
    <3>1. interview[n].index \in 1 .. Len(stepsFor(nif[n])) /\ 1 \in 1 .. interview[n].index
      BY <1>1, <1>6, Present(n) DEF InterviewInv, SessionInv
    <3>2. ~interview[n].viaQueue => \A get \in Outstanding(n)' : get.of = gen[n] =>
            \E i \in 1 .. interview[n].index : get.step = interview[n].steps[i]
      BY <2>2, <2>5, <3>1, Zenon
    <3> QED
      BY <1>4, <2>7, <3>2 DEF AskedInv
  <2>11. SecureInv(n)'
    <3>1. "S0" \notin nif[n] => scheme'[n] # "S0" /\ plain'[n] = plain[n]
      BY <1>3, <2>5, Zenon
    <3> QED
      BY <1>1, <1>4, <3>1, Present(n), Zenon DEF InterviewInv, SecureInv
  <2>12. InterviewInv(n)'
    BY <1>4, <2>5, <2>8, <2>9, <2>10, <2>11, Zenon DEF InterviewInv
  <2>13. \A m \in Nodes \ {n} : InterviewInv(m)'
    BY <1>1, <1>3, <2>5, <2>6, Bystander
  <2>14. InterviewType' /\ PolicyStep
    BY <1>1, <2>5, <2>6, Zenon DEF InterviewType, PolicyStep
  <2> QED
    BY <1>5, <2>12, <2>13, <2>14, Zenon DEF Interviewed, InterviewsInv
<1>7. CASE ~(interview[n] # NoSession /\ ~interview[n].started)
  <2>1. UNCHANGED <<interview, queue>> /\ Sends(n, air[n], <<>>, "none")
    BY <1>7, Zenon DEF onNodeSecurityStatus, SendsNothing
  <2>2. Sent(n, air[n], <<>>, "none")
    BY <1>1, <1>2, <2>1, Sending, ConcatEmpty, Zenon
  <2>3. /\ air' \in [Nodes -> Seq(Asked)] /\ plain' \in [Nodes -> SUBSET Asked]
        /\ air'[n] = air[n] /\ plain'[n] = plain[n]
        /\ \A m \in Nodes \ {n} : air'[m] = air[m] /\ plain'[m] = plain[m]
    BY <1>2, <2>2, ConcatEmpty, Zenon DEF Sent
  <2>4. Outstanding(n)' = Outstanding(n)
    BY <2>1, <2>3, Zenon DEF Outstanding
  <2>5. SessionInv(n)'
    BY <1>1, <1>4, <2>1, Present(n), Zenon DEF InterviewInv, SessionInv
  <2>6. NumberInv(n)' /\ AskedInv(n)'
    BY <1>1, <1>4, <2>1, <2>3, <2>4, Present(n), Zenon DEF InterviewInv, NumberInv, AskedInv
  <2>7. SecureInv(n)'
    BY <1>1, <1>3, <1>4, <2>3, Present(n), Zenon DEF InterviewInv, SecureInv
  <2>8. InterviewInv(n)'
    BY <1>2, <1>4, <2>1, <2>3, <2>5, <2>6, <2>7, Zenon DEF InterviewInv
  <2>9. \A m \in Nodes \ {n} : InterviewInv(m)'
    BY <1>1, <1>3, <2>1, <2>3, Bystander
  <2>10. InterviewType' /\ PolicyStep
    BY <1>1, <2>1, <2>3, Zenon DEF InterviewType, PolicyStep
  <2> QED
    BY <1>5, <2>8, <2>9, <2>10, Zenon DEF Interviewed, InterviewsInv
<1> QED
  BY <1>6, <1>7

\* NodeIncluded: the new device's inclusion has a number no Get bears.
LEMMA NodeIncludedKeeps ==
  ASSUME InterviewsInv, NEW n \in Nodes, NEW device \in Devices[n], NodeIncluded(n, device)
  PROVE  Interviewed
<1> DEFINE g == gen[n] + 1
           session == [steps |-> stepsFor(device), index |-> 1, started |-> FALSE,
                       viaQueue |-> "WakeUp" \in device]
<1>1. InterviewType /\ NodeType /\ \A m \in Nodes : InterviewInv(m)
  BY Zenon DEF InterviewsInv
<1>2. /\ interview \in [Nodes -> Sessions] /\ gen \in [Nodes -> Nat]
      /\ scheme \in [Nodes -> {"absent", "none", "S0"} \cup Class]
      /\ nif \in [Nodes -> SUBSET CommandClass]
      /\ pendingPolicy \in [Nodes -> (SUBSET CommandClass) \cup {NoPolicy}]
      /\ air[n] \in Seq(Asked) /\ queue[n] \in Seq(Asked) /\ gen[n] \in Nat /\ g \in Nat
  BY <1>1 DEF InterviewType, NodeType
<1>3. device \in SUBSET CommandClass
  BY SetupAssumption
<1>4. /\ gen' = [gen EXCEPT ![n] = g] /\ nif' = [nif EXCEPT ![n] = device]
      /\ scheme' = [scheme EXCEPT ![n] = "none"]
      /\ interviewOnNodeIncluded(n, device, g)
      /\ pendingPolicy' = [pendingPolicy EXCEPT ![n] = device]
      /\ UNCHANGED <<completed, answered>>
  BY DEF NodeIncluded
<1>5. /\ gen'[n] = g /\ nif'[n] = device /\ scheme'[n] = "none" /\ pendingPolicy'[n] = device
      /\ \A m \in Nodes \ {n} : /\ gen'[m] = gen[m] /\ nif'[m] = nif[m] /\ scheme'[m] = scheme[m]
                                /\ pendingPolicy'[m] = pendingPolicy[m]
  BY <1>2, <1>4
<1>6. NodeType' /\ pendingPolicy' \in [Nodes -> (SUBSET CommandClass) \cup {NoPolicy}]
  <2>1. gen' \in [Nodes -> Nat] /\ scheme' \in [Nodes -> {"absent", "none", "S0"} \cup Class]
    BY <1>2, <1>4
  <2>2. nif' \in [Nodes -> SUBSET CommandClass]
    BY <1>2, <1>3, <1>4
  <2>3. \A T : device \in T /\ pendingPolicy \in [Nodes -> T] => pendingPolicy' \in [Nodes -> T]
    BY <1>4
  <2>4. device \in (SUBSET CommandClass) \cup {NoPolicy}
    BY <1>3, Zenon
  <2> QED
    BY <1>2, <2>1, <2>2, <2>3, <2>4, Zenon DEF NodeType
<1>7. \A get \in Outstanding(n) \cup plain[n] : get.of # g /\ get.of <= g
  <2>1. \A get \in Outstanding(n) \cup plain[n] : get.of <= gen[n] /\ get \in Asked
    <3>1. Range(queue[n]) \subseteq Asked /\ Range(air[n]) \subseteq Asked /\ plain[n] \subseteq Asked
      BY <1>1, <1>2 DEF InterviewType, Range
    <3>2. \A get \in Outstanding(n) \cup plain[n] : get.of <= gen[n]
      BY <1>1, Zenon DEF InterviewInv, NumberInv
    <3> QED
      BY <3>1, <3>2, Zenon DEF Outstanding
  <2>2. \A get \in Asked : get.of \in Nat
    BY DEF Asked
  <2> QED
    BY <1>2, <2>1, <2>2
<1>8. /\ session \in Sessions /\ session.steps = stepsFor(device) /\ session.index = 1
      /\ session.viaQueue = ("WakeUp" \in device) /\ ~session.started
      /\ 1 \in 1 .. Len(stepsFor(device))
  BY <1>3, Steps DEF Sessions
<1>p. Present(n)' /\ \A i \in 1 .. 1 - 1 : session.steps[i] \in answered'[n]
  BY <1>5 DEF Present
<1> HIDE DEF g, session
<1>9. CASE device \cap {"S0", "S2"} = {}
  <2>1. beginInterview(n, session, "none", g)
    BY <1>4, <1>9, Zenon DEF interviewOnNodeIncluded, session
  <2>2. Begun(n, session, "none", g)
    BY <1>1, <1>2, <1>3, <1>7, <1>8, <2>1, Beginning, Zenon
  <2>3. /\ interview' = [interview EXCEPT ![n] = [session EXCEPT !.started = TRUE]]
        /\ queue' \in [Nodes -> Seq(Asked)] /\ air' \in [Nodes -> Seq(Asked)]
        /\ plain' \in [Nodes -> SUBSET Asked]
        /\ \A m \in Nodes \ {n} : queue'[m] = queue[m] /\ air'[m] = air[m] /\ plain'[m] = plain[m]
        /\ Once(queue'[n] \o air'[n], g)
        /\ \A get \in Outstanding(n)' : get \in Outstanding(n) \/ get.of = g
        /\ \A get \in plain'[n] : get \in plain[n] \/ get.of = g
        /\ ~session.viaQueue =>
             \A get \in Outstanding(n)' : get \in Outstanding(n) \/ get.step = session.steps[1]
    BY <2>2, Zenon DEF Begun
  <2>4. /\ interview'[n] = [session EXCEPT !.started = TRUE]
        /\ interview' \in [Nodes -> Sessions]
        /\ \A m \in Nodes \ {n} : interview'[m] = interview[m]
    <3>1. [session EXCEPT !.started = TRUE] \in Sessions
      BY <1>8, Zenon DEF Sessions
    <3> QED
      BY <1>2, <2>3, <3>1
  <2>5. /\ interview'[n].steps = session.steps /\ interview'[n].viaQueue = session.viaQueue
        /\ interview'[n].index = 1 /\ interview'[n].started
    BY <1>8, <2>4 DEF Sessions
  <2>6. SessionInv(n)'
    BY <1>5, <1>8, <1>p, <2>5, Zenon DEF SessionInv
  <2>7. NumberInv(n)'
    <3>1. g <= g
      BY <1>2
    <3> QED
      BY <1>5, <1>7, <2>3, <3>1, Zenon DEF NumberInv
  <2>8. AskedInv(n)'
    <3>1. 1 \in 1 .. 1
      OBVIOUS
    <3>2. ~session.viaQueue => \A get \in Outstanding(n)' : get.of = g =>
            \E i \in 1 .. 1 : get.step = session.steps[i]
      BY <1>7, <2>3, <3>1, Zenon
    <3> QED
      BY <1>5, <2>5, <3>2 DEF AskedInv
  <2>9. SecureInv(n)'
    BY <1>5, <1>9, Zenon DEF SecureInv
  <2>10. InterviewInv(n)'
    BY <1>5, <2>3, <2>6, <2>7, <2>8, <2>9, Zenon DEF InterviewInv
  <2>11. \A m \in Nodes \ {n} : InterviewInv(m)'
    BY <1>1, <1>4, <1>5, <2>3, <2>4, Bystander
  <2>12. InterviewType' /\ PolicyStep
    BY <1>1, <1>4, <1>6, <2>3, <2>4, Zenon DEF InterviewType, PolicyStep
  <2> QED
    BY <1>6, <2>10, <2>11, <2>12, Zenon DEF Interviewed, InterviewsInv
<1>10. CASE device \cap {"S0", "S2"} # {}
  <2>1. /\ interview' = [interview EXCEPT ![n] = session] /\ queue' = queue
        /\ Sends(n, air[n], <<>>, "none")
    BY <1>4, <1>10, Zenon DEF interviewOnNodeIncluded, SendsNothing, session
  <2>2. Sent(n, air[n], <<>>, "none")
    BY <1>1, <1>2, <2>1, Sending, ConcatEmpty, Zenon
  <2>3. /\ air' \in [Nodes -> Seq(Asked)] /\ plain' \in [Nodes -> SUBSET Asked]
        /\ air'[n] = air[n] /\ plain'[n] = plain[n]
        /\ \A m \in Nodes \ {n} : air'[m] = air[m] /\ plain'[m] = plain[m]
    BY <1>2, <2>2, ConcatEmpty, Zenon DEF Sent
  <2>4. /\ interview'[n] = session /\ interview' \in [Nodes -> Sessions]
        /\ \A m \in Nodes \ {n} : interview'[m] = interview[m]
    BY <1>2, <1>8, <2>1
  <2>5. Outstanding(n)' = Outstanding(n)
    BY <2>1, <2>3, Zenon DEF Outstanding
  <2>6. SessionInv(n)'
    BY <1>5, <1>8, <1>p, <2>4, Zenon DEF SessionInv
  <2>7. NumberInv(n)' /\ AskedInv(n)' /\ SecureInv(n)'
    BY <1>5, <1>7, <1>8, <2>3, <2>4, <2>5, Zenon DEF NumberInv, AskedInv, SecureInv
  <2>8. Once(queue'[n] \o air'[n], g)
    <3>1. Range(queue[n] \o air[n]) = Outstanding(n)
      BY <1>2, Concat DEF Outstanding
    <3> QED
      BY <1>7, <2>1, <2>3, <3>1, Zenon DEF Once, Range
  <2>9. InterviewInv(n)'
    BY <1>5, <2>6, <2>7, <2>8, Zenon DEF InterviewInv
  <2>10. \A m \in Nodes \ {n} : InterviewInv(m)'
    BY <1>1, <1>4, <1>5, <2>1, <2>3, <2>4, Bystander, Zenon
  <2>11. InterviewType' /\ PolicyStep
    BY <1>1, <1>4, <1>6, <2>1, <2>3, <2>4, Zenon DEF InterviewType, PolicyStep
  <2> QED
    BY <1>6, <2>9, <2>10, <2>11, Zenon DEF Interviewed, InterviewsInv
<1> QED
  BY <1>9, <1>10

\* NodeRemoved: the queued Gets stay behind.
LEMMA NodeRemovedKeeps ==
  ASSUME InterviewsInv, NEW n \in Nodes, NodeRemoved(n)
  PROVE  Interviewed
<1>1. InterviewType /\ NodeType /\ \A m \in Nodes : InterviewInv(m)
  BY Zenon DEF InterviewsInv
<1>2. /\ air \in [Nodes -> Seq(Asked)] /\ plain \in [Nodes -> SUBSET Asked]
      /\ answered \in [Nodes -> SUBSET Step] /\ nif \in [Nodes -> SUBSET CommandClass]
      /\ scheme \in [Nodes -> {"absent", "none", "S0"} \cup Class]
      /\ air[n] \in Seq(Asked) /\ queue[n] \in Seq(Asked) /\ gen[n] \in Nat
      /\ Once(queue[n] \o air[n], gen[n])
  BY <1>1 DEF InterviewType, NodeType, InterviewInv
<1>3. /\ scheme' = [scheme EXCEPT ![n] = "absent"] /\ nif' = [nif EXCEPT ![n] = {}]
      /\ air' = [air EXCEPT ![n] = <<>>] /\ plain' = [plain EXCEPT ![n] = {}]
      /\ answered' = [answered EXCEPT ![n] = {}]
      /\ UNCHANGED <<interview, pendingPolicy, queue, gen, completed>>
  BY Zenon DEF NodeRemoved
<1>4. /\ scheme'[n] = "absent" /\ scheme' \in [Nodes -> {"absent", "none", "S0"} \cup Class]
      /\ nif' \in [Nodes -> SUBSET CommandClass] /\ answered' \in [Nodes -> SUBSET Step]
      /\ \A m \in Nodes \ {n} : /\ scheme'[m] = scheme[m] /\ nif'[m] = nif[m]
                                /\ answered'[m] = answered[m]
  BY <1>2, <1>3, Zenon
<1>5. /\ air'[n] = <<>> /\ air' \in [Nodes -> Seq(Asked)]
      /\ plain'[n] = {} /\ plain' \in [Nodes -> SUBSET Asked]
      /\ \A m \in Nodes \ {n} : air'[m] = air[m] /\ plain'[m] = plain[m]
  BY <1>2, <1>3
<1>6. ~Present(n)'
  BY <1>4 DEF Present
<1>7. SessionInv(n)' /\ AskedInv(n)' /\ SecureInv(n)'
  BY <1>6, Zenon DEF SessionInv, AskedInv, SecureInv
<1>8. NumberInv(n)'
  <2>1. Outstanding(n)' \subseteq Outstanding(n)
    BY <1>3, <1>5, ConcatEmpty, Zenon DEF Outstanding
  <2> QED
    BY <1>1, <1>3, <1>5, <2>1, Zenon DEF InterviewInv, NumberInv
<1>9. Once(queue'[n] \o air'[n], gen'[n])
  <2>1. queue'[n] \o air'[n] = queue[n] /\ gen'[n] = gen[n]
    BY <1>2, <1>3, <1>5, ConcatEmpty
  <2>2. Once(queue[n], gen[n])
    BY <1>2, OnceLeft
  <2> QED
    BY <2>1, <2>2
<1>10. InterviewInv(n)'
  BY <1>7, <1>8, <1>9, Zenon DEF InterviewInv
<1>11. \A m \in Nodes \ {n} : InterviewInv(m)'
  BY <1>1, <1>3, <1>4, <1>5, Bystander
<1>12. NodeType' /\ InterviewType' /\ PolicyStep
  BY <1>1, <1>3, <1>4, <1>5, Zenon DEF NodeType, InterviewType, PolicyStep
<1> QED
  BY <1>10, <1>11, <1>12, Zenon DEF Interviewed, InterviewsInv

\* Restart: the sessions are gone, the queue and the registry stay.
LEMMA RestartKeeps ==
  ASSUME InterviewsInv, Restart
  PROVE  Interviewed
<1>1. InterviewType /\ NodeType /\ \A m \in Nodes : InterviewInv(m)
  BY Zenon DEF InterviewsInv
<1>2. /\ interview' = [n \in Nodes |-> NoSession] /\ pendingPolicy' = [n \in Nodes |-> NoPolicy]
      /\ UNCHANGED <<nif, scheme, queue, air, gen, completed, answered, plain>>
  BY Zenon DEF Restart
<1>3. interview' \in [Nodes -> Sessions] /\ ~NoSession.started
  BY <1>2 DEF NoSession, Sessions
<1>4. pendingPolicy' \in [Nodes -> (SUBSET CommandClass) \cup {NoPolicy}]
  BY <1>2
<1>5. ASSUME NEW m \in Nodes PROVE InterviewInv(m)'
  <2>1. interview'[m] = NoSession /\ Present(m)' = Present(m) /\ Outstanding(m)' = Outstanding(m)
    BY <1>2, Zenon DEF Present, Outstanding
  <2>2. SessionInv(m)' /\ AskedInv(m)'
    BY <2>1, Zenon DEF SessionInv, AskedInv
  <2>3. NumberInv(m)' /\ SecureInv(m)' /\ Once(queue'[m] \o air'[m], gen'[m])
    BY <1>1, <1>2, <1>3, <2>1, Zenon DEF InterviewInv, NumberInv, SecureInv
  <2> QED
    BY <2>2, <2>3, Zenon DEF InterviewInv
<1>6. NodeType' /\ InterviewType' /\ PolicyStep
  BY <1>1, <1>2, <1>3, <1>4, Zenon DEF NodeType, InterviewType, PolicyStep
<1> QED
  BY <1>5, <1>6, Zenon DEF Interviewed, InterviewsInv

\* A step of a bootstrap that does not end it leaves the interview alone.
LEMMA BootstrapKeeps ==
  ASSUME InterviewsInv, UNCHANGED <<interviewVars, nodeVars>>
  PROVE  Interviewed
<1>1. /\ interview' = interview /\ pendingPolicy' = pendingPolicy /\ queue' = queue /\ air' = air
      /\ completed' = completed /\ answered' = answered /\ plain' = plain
      /\ nif' = nif /\ scheme' = scheme /\ gen' = gen
  BY Zenon DEF interviewVars, nodeVars
<1>2. InterviewType /\ NodeType /\ \A m \in Nodes : InterviewInv(m)
  BY Zenon DEF InterviewsInv
<1>3. \A m \in Nodes : InterviewInv(m)'
  BY <1>1, <1>2, Bystander, Zenon
<1>4. NodeType' /\ InterviewType' /\ PolicyStep
  BY <1>1, <1>2, Zenon DEF NodeType, InterviewType, PolicyStep
<1> QED
  BY <1>3, <1>4, Zenon DEF Interviewed, InterviewsInv

\* The highest of the classes.
LEMMA Highest ==
  ASSUME NEW keys \in SUBSET Class, keys # {}
  PROVE  /\ schemeFor(keys) \in keys /\ schemeFor(keys) \in Class
         /\ "accessControl" \in keys => schemeFor(keys) = "accessControl"
         /\ schemeFor(keys) = "unauthenticated" => keys = {"unauthenticated"}
BY Zenon DEF schemeFor, Class

\* Every step keeps the invariant of the interviews, and completes an inclusion
\* only after the whole interview.
LEMMA InterviewStep ==
  ASSUME SetupInv, [Next]_vars
  PROVE  Interviewed
<1>1. InterviewsInv /\ SchemesInv
  BY Zenon DEF SetupInv
<1>2. ASSUME NEW n \in Nodes, S0KeyVerify(n) PROVE Interviewed
  <2>1. /\ Present(n) /\ "S0" \in nif[n] /\ onNodeSecurityStatus(n, scheme[n])
        /\ scheme' = [scheme EXCEPT ![n] = "S0"]
        /\ UNCHANGED <<nif, gen, pendingPolicy, completed, answered>>
    BY <1>2, Zenon DEF S0KeyVerify
  <2> QED
    BY <1>1, <2>1, StatusKeeps, Zenon
<1>3. ASSUME NEW n \in Nodes, TransferEnd(n) PROVE Interviewed
  <2>1. /\ Present(n) /\ s2[n] = "networkKeyGet" /\ completeBootstrap(n)
        /\ UNCHANGED <<nif, gen, pendingPolicy, completed, answered>>
    BY <1>3, Zenon DEF TransferEnd, S2Device
  <2>2. granted[n] # {} /\ granted[n] \in SUBSET Class
    BY <1>1, <2>1 DEF SchemesInv, SchemeInv, BootstrapType
  <2>3. schemeFor(granted[n]) \in Class
    BY <2>2, Highest
  <2>4. schemeFor(granted[n]) # "S0" /\ schemeFor(granted[n]) # "none"
    BY <2>3 DEF Class
  <2>5. /\ onNodeSecurityStatus(n, schemeFor(granted[n]))
        /\ scheme' = [scheme EXCEPT ![n] = schemeFor(granted[n])]
    BY <2>1, Zenon DEF completeBootstrap
  <2> QED
    BY <1>1, <2>1, <2>3, <2>4, <2>5, StatusKeeps, Zenon
<1>4. ASSUME NEW n \in Nodes, Proceed(n) PROVE Interviewed
  <2>1. \/ Report(n) \/ WakeUp(n) \/ S0KeyVerify(n) \/ TransferEnd(n)
        \/ UNCHANGED <<interviewVars, nodeVars>>
    BY <1>4, Zenon DEF Proceed, S0SchemeReport, S0NonceReport, onKexReport, onPublicKeyReport, onConfirmDsk,
         TempNonceGet, onKexSetEcho, onKeyGet, ClassNonceGet, onKeyVerify
  <2> QED
    BY <1>1, <1>2, <1>3, <2>1, ReportKeeps, WakeUpKeeps, BootstrapKeeps
<1>5. ASSUME NEW n \in Nodes, GoesWrong(n) PROVE Interviewed
  <2>1. ReportAgain(n) \/ ReportLost(n) \/ UNCHANGED <<interviewVars, nodeVars>>
    BY <1>5, Zenon DEF GoesWrong, onConfirmDsk, onPublicKeyReport, onKexSetEcho, onKeyVerify, onKeyGet
  <2> QED
    BY <1>1, <2>1, ReportAgainKeeps, ReportLostKeeps, BootstrapKeeps
<1>6. CASE UNCHANGED vars
  <2>1. UNCHANGED <<interviewVars, nodeVars>>
    BY <1>6, Zenon DEF vars, interviewVars, nodeVars
  <2> QED
    BY <1>1, <2>1, BootstrapKeeps
<1> QED
  BY <1>1, <1>4, <1>5, <1>6, NodeIncludedKeeps, NodeRemovedKeeps, RestartKeeps DEF Next

-----------------------------------------------------------------------------
(* The S2 bootstrap, action by action.                                     *)

\* Only node n's bootstrap and scheme change.
OnlyAt(n) ==
  \A m \in Nodes \ {n} :
    /\ s2'[m] = s2[m] /\ granted'[m] = granted[m] /\ scheme'[m] = scheme[m]
    /\ paired'[m] = paired[m] /\ installed'[m] = installed[m]

\* It is enough to look at that node.
LEMMA OnlyThere ==
  ASSUME SchemesInv, NEW n \in Nodes, OnlyAt(n), BootstrapType', SchemeInv(n)'
  PROVE  SchemesInv'
<1>1. ASSUME NEW m \in Nodes \ {n} PROVE SchemeInv(m)'
  <2>1. SchemeInv(m)
    BY Zenon DEF SchemesInv
  <2> QED
    BY <2>1, Zenon DEF OnlyAt, SchemeInv
<1> QED
  BY <1>1, Zenon DEF SchemesInv

\* A step within a bootstrap: no S2 class is recorded yet, and what was granted
\* is not taken back.
LEMMA WithinKeeps ==
  ASSUME SchemesInv, NEW n \in Nodes, NEW phase \in Phase, s2[n] # "none",
         scheme' = scheme, ToPhase(n, phase), BootstrapType', OnlyAt(n),
         phase \notin {"none", "kexReport"} => granted'[n] # {}
  PROVE  SchemesInv'
<1>1. s2'[n] = phase
  BY DEF ToPhase, SchemesInv, BootstrapType
<1>2. scheme'[n] \notin Class
  BY Zenon DEF SchemesInv, SchemeInv
<1>3. SchemeInv(n)'
  BY <1>1, <1>2, Zenon DEF SchemeInv
<1> QED
  BY <1>3, OnlyThere

\* A session is erased.
LEMMA ErasedKeeps ==
  ASSUME SchemesInv, NEW n \in Nodes, s2[n] # "none", scheme' = scheme, Erased(n),
         UNCHANGED <<paired, installed>>
  PROVE  SchemesInv'
<1>1. BootstrapType
  BY Zenon DEF SchemesInv
<1>2. BootstrapType' /\ OnlyAt(n)
  BY <1>1 DEF BootstrapType, Erased, ToPhase, OnlyAt, Phase
<1>3. ToPhase(n, "none") /\ "none" \in Phase
  BY DEF Erased, Phase
<1> QED
  BY <1>2, <1>3, WithinKeeps

\* The session goes on to another phase, with what was granted before.
LEMMA PhaseKeeps ==
  ASSUME SchemesInv, NEW n \in Nodes, NEW phase \in Phase, s2[n] \notin {"none", "kexReport"},
         scheme' = scheme, ToPhase(n, phase), granted' = granted,
         installing' \in [Nodes -> SUBSET Class],
         NEW agreed \in BOOLEAN, paired' = paired \/ paired' = [paired EXCEPT ![n] = agreed],
         NEW proved \in SUBSET Class,
         installed' = installed \/ installed' = [installed EXCEPT ![n] = proved]
  PROVE  SchemesInv'
<1>1. BootstrapType /\ granted[n] # {}
  BY Zenon DEF SchemesInv, SchemeInv
<1>2. s2' \in [Nodes -> Phase] /\ \A m \in Nodes \ {n} : s2'[m] = s2[m]
  BY <1>1 DEF BootstrapType, ToPhase
<1>3. paired' \in [Nodes -> BOOLEAN] /\ \A m \in Nodes \ {n} : paired'[m] = paired[m]
  BY <1>1 DEF BootstrapType
<1>4. installed' \in [Nodes -> SUBSET Class] /\ \A m \in Nodes \ {n} : installed'[m] = installed[m]
  BY <1>1 DEF BootstrapType
<1>5. BootstrapType' /\ OnlyAt(n)
  BY <1>1, <1>2, <1>3, <1>4, Zenon DEF BootstrapType, OnlyAt
<1> QED
  BY <1>1, <1>5, WithinKeeps

\* A step that touches neither the bootstrap nor a scheme.
LEMMA IdleKeeps ==
  ASSUME SchemesInv, UNCHANGED <<scheme, s2, granted, installing, paired, installed>>
  PROVE  SchemesInv'
BY Zenon DEF SchemesInv, BootstrapType, SchemeInv

\* The messages of the device and the operator before the key transfer.
LEMMA AgreementKeeps ==
  ASSUME SchemesInv, NEW n \in Nodes, NEW ok \in BOOLEAN, NEW agree \in BOOLEAN,
         s2[n] \in {"publicKey", "dsk"}, finishKeyAgreement(n, ok, agree),
         UNCHANGED <<scheme, installed>>
  PROVE  SchemesInv'
<1>1. BootstrapType
  BY Zenon DEF SchemesInv
<1>2. CASE ok
  <2>1. /\ ToPhase(n, "tempChannel") /\ "tempChannel" \in Phase
        /\ paired' = [paired EXCEPT ![n] = agree] /\ granted' = granted
        /\ installing' \in [Nodes -> SUBSET Class] /\ {} \in SUBSET Class
    BY <1>1, <1>2 DEF finishKeyAgreement, BootstrapType, Phase
  <2> QED
    BY <2>1, PhaseKeeps, Zenon
<1>3. CASE ~ok
  <2>1. Erased(n) /\ UNCHANGED paired
    BY <1>3, Zenon DEF finishKeyAgreement, Fails
  <2> QED
    BY <2>1, ErasedKeeps
<1> QED
  BY <1>2, <1>3

\* KEX_REPORT: something is granted, or the bootstrap is over.
LEMMA KexReportKeeps ==
  ASSUME SchemesInv, NEW n \in Nodes, NEW requested \in Requests, NEW csa \in BOOLEAN,
         onKexReport(n, requested, csa)
  PROVE  SchemesInv'
<1> DEFINE keys == grantKeys(requested, csa)
<1>1. BootstrapType /\ s2[n] = "kexReport" /\ UNCHANGED <<scheme, paired, installed>>
  BY Zenon DEF SchemesInv, onKexReport, S2Device, nodeVars
<1>2. keys \in SUBSET Class
  BY SetupAssumption DEF grantKeys
<1>3. /\ keys = {} => Fails(n)
      /\ keys # {} => /\ granted' = [granted EXCEPT ![n] = keys]
                      /\ ToPhase(n, "publicKey") /\ UNCHANGED installing
  BY Zenon DEF onKexReport
<1> HIDE DEF keys
<1>4. CASE keys = {}
  BY <1>1, <1>3, <1>4, ErasedKeeps DEF Fails
<1>5. CASE keys # {}
  <2>1. granted' \in [Nodes -> SUBSET Class] /\ granted'[n] = keys
        /\ \A m \in Nodes \ {n} : granted'[m] = granted[m]
    BY <1>1, <1>2, <1>3, <1>5 DEF BootstrapType
  <2>2. /\ s2' \in [Nodes -> Phase] /\ \A m \in Nodes \ {n} : s2'[m] = s2[m]
        /\ ToPhase(n, "publicKey") /\ "publicKey" \in Phase
    BY <1>1, <1>3, <1>5 DEF BootstrapType, ToPhase, Phase
  <2>3. BootstrapType' /\ OnlyAt(n)
    BY <1>1, <1>3, <1>5, <2>1, <2>2, Zenon DEF BootstrapType, OnlyAt
  <2>4. s2[n] # "none"
    BY <1>1
  <2> QED
    BY <1>1, <1>5, <2>1, <2>2, <2>3, <2>4, WithinKeeps
<1> QED
  BY <1>4, <1>5

\* Every step keeps the invariant of the bootstraps.
LEMMA SchemeStep ==
  ASSUME SetupInv, [Next]_vars
  PROVE  SchemesInv'
<1>1. /\ SchemesInv /\ BootstrapType /\ (\A n \in Nodes : SchemeInv(n))
      /\ scheme \in [Nodes -> {"absent", "none", "S0"} \cup Class]
  BY Zenon DEF SetupInv, SchemesInv, InterviewsInv, NodeType
<1>2. ASSUME NEW n \in Nodes, NEW device \in Devices[n], NodeIncluded(n, device)
      PROVE  SchemesInv'
  <2>1. /\ scheme' = [scheme EXCEPT ![n] = "none"] /\ s2OnNodeIncluded(n, device)
        /\ UNCHANGED <<paired, installed>>
    BY <1>2, Zenon DEF NodeIncluded
  <2>2. scheme'[n] \notin Class /\ \A m \in Nodes \ {n} : scheme'[m] = scheme[m]
    BY <1>1, <2>1 DEF Class
  <2>3. CASE "S2" \in device \cap Keys
    <3>1. /\ s2' = [s2 EXCEPT ![n] = "kexReport"] /\ granted' = [granted EXCEPT ![n] = {}]
          /\ installing' = [installing EXCEPT ![n] = {}]
      BY <2>1, <2>3, Zenon DEF s2OnNodeIncluded
    <3>2. /\ s2' \in [Nodes -> Phase] /\ s2'[n] = "kexReport"
          /\ granted' \in [Nodes -> SUBSET Class] /\ installing' \in [Nodes -> SUBSET Class]
          /\ \A m \in Nodes \ {n} : s2'[m] = s2[m] /\ granted'[m] = granted[m]
      BY <1>1, <3>1 DEF BootstrapType, Phase
    <3>3. BootstrapType' /\ OnlyAt(n)
      BY <1>1, <2>1, <2>2, <3>2, Zenon DEF BootstrapType, OnlyAt
    <3>4. SchemeInv(n)'
      BY <2>2, <3>2, Zenon DEF SchemeInv
    <3> QED
      BY <1>1, <3>3, <3>4, OnlyThere
  <2>4. CASE "S2" \notin device \cap Keys
    <3>1. UNCHANGED <<s2, granted, installing>>
      BY <2>1, <2>4, Zenon DEF s2OnNodeIncluded
    <3>2. BootstrapType' /\ OnlyAt(n)
      BY <1>1, <2>1, <2>2, <3>1, Zenon DEF BootstrapType, OnlyAt
    <3>3. SchemeInv(n)'
      BY <1>1, <2>2, <3>1, Zenon DEF SchemeInv
    <3> QED
      BY <1>1, <3>2, <3>3, OnlyThere
  <2> QED
    BY <2>3, <2>4
<1>3. ASSUME NEW n \in Nodes, NodeRemoved(n) PROVE SchemesInv'
  <2>1. /\ scheme' = [scheme EXCEPT ![n] = "absent"] /\ paired' = [paired EXCEPT ![n] = FALSE]
        /\ installed' = [installed EXCEPT ![n] = {}] /\ UNCHANGED <<s2, granted, installing>>
    BY <1>3, Zenon DEF NodeRemoved
  <2>2. scheme'[n] \notin Class /\ \A m \in Nodes \ {n} : scheme'[m] = scheme[m]
    BY <1>1, <2>1 DEF Class
  <2>3. /\ paired' \in [Nodes -> BOOLEAN] /\ installed' \in [Nodes -> SUBSET Class]
        /\ \A m \in Nodes \ {n} : paired'[m] = paired[m] /\ installed'[m] = installed[m]
    BY <1>1, <2>1 DEF BootstrapType
  <2>4. BootstrapType' /\ OnlyAt(n)
    BY <1>1, <2>1, <2>2, <2>3, Zenon DEF BootstrapType, OnlyAt
  <2>5. SchemeInv(n)'
    BY <1>1, <2>1, <2>2, Zenon DEF SchemeInv
  <2> QED
    BY <1>1, <2>4, <2>5, OnlyThere
<1>4. CASE Restart
  <2>1. /\ s2' = [n \in Nodes |-> "none"] /\ granted' = [n \in Nodes |-> {}]
        /\ installing' = [n \in Nodes |-> {}] /\ UNCHANGED <<scheme, paired, installed>>
    BY <1>4, Zenon DEF Restart
  <2>2. BootstrapType' /\ \A n \in Nodes : s2'[n] = "none"
    BY <1>1, <2>1 DEF BootstrapType, Phase
  <2> QED
    BY <1>1, <2>1, <2>2, Zenon DEF SchemesInv, SchemeInv
<1>5. ASSUME NEW n \in Nodes, S0KeyVerify(n) PROVE SchemesInv'
  <2>1. scheme' = [scheme EXCEPT ![n] = "S0"] /\ UNCHANGED <<s2, granted, installing, paired, installed>>
    BY <1>5, Zenon DEF S0KeyVerify, s2Vars
  <2>2. scheme'[n] \notin Class /\ \A m \in Nodes \ {n} : scheme'[m] = scheme[m]
    BY <1>1, <2>1 DEF Class
  <2>3. BootstrapType' /\ OnlyAt(n)
    BY <1>1, <2>1, <2>2, Zenon DEF BootstrapType, OnlyAt
  <2>4. SchemeInv(n)'
    BY <1>1, <2>1, <2>2, Zenon DEF SchemeInv
  <2> QED
    BY <1>1, <2>3, <2>4, OnlyThere
<1>6. ASSUME NEW n \in Nodes, NEW ok \in BOOLEAN, onPublicKeyReport(n, ok) PROVE SchemesInv'
  <2>1. s2[n] = "publicKey" /\ UNCHANGED <<scheme, installed>>
    BY <1>6, Zenon DEF onPublicKeyReport, S2Device, nodeVars
  <2>2. CASE NeedsDsk(n)
    <3>1. ToPhase(n, "dsk") /\ UNCHANGED <<granted, installing, paired>>
      BY <1>6, <2>2, Zenon DEF onPublicKeyReport
    <3>2. /\ installing' \in [Nodes -> SUBSET Class] /\ "dsk" \in Phase /\ {} \in SUBSET Class
          /\ s2[n] \notin {"none", "kexReport"}
      BY <1>1, <2>1, <3>1 DEF BootstrapType, Phase
    <3> QED
      BY <1>1, <2>1, <3>1, <3>2, PhaseKeeps
  <2>3. CASE ~NeedsDsk(n)
    <3>1. finishKeyAgreement(n, ok, granted[n] = {"unauthenticated"})
      BY <1>6, <2>3, Zenon DEF onPublicKeyReport
    <3>2. (granted[n] = {"unauthenticated"}) \in BOOLEAN
      BY Zenon
    <3> QED
      BY <1>1, <2>1, <3>1, <3>2, AgreementKeeps, Zenon
  <2> QED
    BY <2>2, <2>3
<1>7. ASSUME NEW n \in Nodes, NEW ok \in BOOLEAN, NEW right \in BOOLEAN, onConfirmDsk(n, ok, right)
      PROVE  SchemesInv'
  <2>1. /\ s2[n] = "dsk" /\ finishKeyAgreement(n, ok, right) /\ UNCHANGED <<scheme, installed>>
    BY <1>7, Zenon DEF onConfirmDsk, nodeVars
  <2> QED
    BY <1>1, <2>1, AgreementKeeps
<1>8. ASSUME NEW n \in Nodes, TempNonceGet(n) \/ ClassNonceGet(n) PROVE SchemesInv'
  <2>1. /\ s2[n] \in {"tempChannel", "classNonceGet"}
        /\ ToPhase(n, "kexSetEcho") \/ ToPhase(n, "keyVerify")
        /\ UNCHANGED <<scheme, granted, installing, paired, installed>>
    BY <1>8 DEF TempNonceGet, ClassNonceGet, S2Device, nodeVars
  <2>2. /\ installing' \in [Nodes -> SUBSET Class] /\ "kexSetEcho" \in Phase /\ "keyVerify" \in Phase
        /\ s2[n] \notin {"none", "kexReport"} /\ {} \in SUBSET Class
    BY <1>1, <2>1 DEF BootstrapType, Phase
  <2> QED
    BY <1>1, <2>1, <2>2, PhaseKeeps, Zenon
<1>9. ASSUME NEW n \in Nodes, NEW same \in BOOLEAN, onKexSetEcho(n, same) PROVE SchemesInv'
  <2>1. s2[n] = "kexSetEcho" /\ UNCHANGED <<scheme, paired, installed>>
    BY <1>9, Zenon DEF onKexSetEcho, S2Device, nodeVars
  <2>2. Erased(n) \/ (ToPhase(n, "networkKeyGet") /\ UNCHANGED <<granted, installing>>)
    BY <1>9, Zenon DEF onKexSetEcho, Fails
  <2>3. CASE Erased(n)
    BY <1>1, <2>1, <2>3, ErasedKeeps
  <2>4. CASE ToPhase(n, "networkKeyGet") /\ UNCHANGED <<granted, installing>>
    <3>1. /\ installing' \in [Nodes -> SUBSET Class] /\ "networkKeyGet" \in Phase
          /\ s2[n] \notin {"none", "kexReport"} /\ {} \in SUBSET Class
      BY <1>1, <2>1, <2>4 DEF BootstrapType, Phase
    <3> QED
      BY <1>1, <2>1, <2>4, <3>1, PhaseKeeps
  <2> QED
    BY <2>2, <2>3, <2>4
<1>10. ASSUME NEW n \in Nodes, NEW class \in Class, onKeyGet(n, class) PROVE SchemesInv'
  <2>1. s2[n] = "networkKeyGet" /\ UNCHANGED <<scheme, paired, installed>>
    BY <1>10, Zenon DEF onKeyGet, S2Device, nodeVars
  <2>2. \/ Erased(n)
        \/ /\ installing' = [installing EXCEPT ![n] = {class}] /\ granted' = granted
           /\ ToPhase(n, "classNonceGet")
    BY <1>10, Zenon DEF onKeyGet, Fails
  <2>3. CASE Erased(n)
    BY <1>1, <2>1, <2>3, ErasedKeeps
  <2>4. CASE /\ installing' = [installing EXCEPT ![n] = {class}] /\ granted' = granted
             /\ ToPhase(n, "classNonceGet")
    <3>1. /\ installing' \in [Nodes -> SUBSET Class] /\ "classNonceGet" \in Phase
          /\ s2[n] \notin {"none", "kexReport"} /\ {} \in SUBSET Class
      BY <1>1, <2>1, <2>4 DEF BootstrapType, Phase
    <3> QED
      BY <1>1, <2>1, <2>4, <3>1, PhaseKeeps, Zenon
  <2> QED
    BY <2>2, <2>3, <2>4
<1>11. ASSUME NEW n \in Nodes, NEW ok \in BOOLEAN, onKeyVerify(n, ok) PROVE SchemesInv'
  <2>1. s2[n] = "keyVerify" /\ UNCHANGED <<scheme, paired>>
    BY <1>11, Zenon DEF onKeyVerify, S2Device, nodeVars
  <2>2. \/ Erased(n) /\ UNCHANGED installed
        \/ /\ installed' = [installed EXCEPT ![n] = @ \cup installing[n]]
           /\ ToPhase(n, "networkKeyGet") /\ UNCHANGED <<granted, installing>>
    BY <1>11, Zenon DEF onKeyVerify, Fails
  <2>3. CASE Erased(n) /\ UNCHANGED installed
    BY <1>1, <2>1, <2>3, ErasedKeeps
  <2>4. CASE /\ installed' = [installed EXCEPT ![n] = @ \cup installing[n]]
             /\ ToPhase(n, "networkKeyGet") /\ UNCHANGED <<granted, installing>>
    <3>1. /\ installing' \in [Nodes -> SUBSET Class] /\ "networkKeyGet" \in Phase
          /\ s2[n] \notin {"none", "kexReport"} /\ installed[n] \cup installing[n] \in SUBSET Class
          /\ installed' = [installed EXCEPT ![n] = installed[n] \cup installing[n]]
      BY <1>1, <2>1, <2>4 DEF BootstrapType, Phase
    <3> QED
      BY <1>1, <2>1, <2>4, <3>1, PhaseKeeps, Zenon
  <2> QED
    BY <2>2, <2>3, <2>4
<1>12. ASSUME NEW n \in Nodes, TransferEnd(n) PROVE SchemesInv'
  <2>1. /\ s2[n] = "networkKeyGet" /\ paired[n] /\ installed[n] = granted[n] /\ Erased(n)
        /\ scheme' = [scheme EXCEPT ![n] = schemeFor(granted[n])]
        /\ UNCHANGED <<paired, installed>>
    BY <1>12, Zenon DEF TransferEnd, S2Device, completeBootstrap
  <2>2. granted[n] # {} /\ granted[n] \in SUBSET Class
    BY <1>1, <2>1 DEF SchemeInv, BootstrapType
  <2>3. /\ schemeFor(granted[n]) \in granted[n] /\ schemeFor(granted[n]) \in Class
        /\ "accessControl" \in granted[n] => schemeFor(granted[n]) = "accessControl"
        /\ schemeFor(granted[n]) = "unauthenticated" => granted[n] = {"unauthenticated"}
    BY <2>2, Highest
  <2>4. scheme'[n] = schemeFor(granted[n]) /\ \A m \in Nodes \ {n} : scheme'[m] = scheme[m]
    BY <1>1, <2>1
  <2>5. /\ s2' \in [Nodes -> Phase] /\ s2'[n] = "none"
        /\ granted' \in [Nodes -> SUBSET Class] /\ installing' \in [Nodes -> SUBSET Class]
        /\ \A m \in Nodes \ {n} : s2'[m] = s2[m] /\ granted'[m] = granted[m]
    BY <1>1, <2>1 DEF BootstrapType, Phase, Erased, ToPhase
  <2>6. BootstrapType' /\ OnlyAt(n)
    BY <1>1, <2>1, <2>4, <2>5, Zenon DEF BootstrapType, OnlyAt
  <2>7. SchemeInv(n)'
    BY <2>1, <2>3, <2>4, <2>5, Zenon DEF SchemeInv
  <2> QED
    BY <1>1, <2>6, <2>7, OnlyThere
<1>13. ASSUME UNCHANGED <<scheme, s2, granted, installing, paired, installed>> PROVE SchemesInv'
  BY <1>1, <1>13, IdleKeeps
<1>14. ASSUME NEW n \in Nodes,
              \/ Report(n) \/ WakeUp(n) \/ ReportAgain(n) \/ ReportLost(n)
              \/ S0SchemeReport(n) \/ S0NonceReport(n)
       PROVE  SchemesInv'
  BY <1>13, <1>14, Zenon DEF Report, WakeUp, ReportAgain, ReportLost, S0SchemeReport, S0NonceReport,
       bootstrapVars, s2Vars, nodeVars
<1>15. ASSUME NEW n \in Nodes, Proceed(n) PROVE SchemesInv'
  <2>1. \A class \in granted[n] \ installed[n] : class \in Class
    BY <1>1 DEF BootstrapType
  <2>2. TRUE \in BOOLEAN
    BY Zenon
  <2> QED
    BY <1>1, <1>5, <1>6, <1>7, <1>8, <1>9, <1>10, <1>11, <1>12, <1>14, <1>15, <2>1, <2>2,
       KexReportKeeps, Zenon DEF Proceed
<1>16. ASSUME NEW n \in Nodes, GoesWrong(n) PROVE SchemesInv'
  <2>1. FALSE \in BOOLEAN
    BY Zenon
  <2> QED
    BY <1>6, <1>7, <1>9, <1>10, <1>11, <1>14, <1>16, <2>1, Zenon DEF GoesWrong
<1>17. CASE UNCHANGED vars
  BY <1>13, <1>17, Zenon DEF vars
<1> QED
  BY <1>2, <1>3, <1>4, <1>15, <1>16, <1>17, Zenon DEF Next

-----------------------------------------------------------------------------
(* The theorems.                                                           *)

\* The inductive invariant of the five orchestrators that set up a node.
THEOREM SetupInvariant == Spec => []SetupInv
<1>1. Init => SetupInv
  <2> SUFFICES ASSUME Init PROVE SetupInv
    OBVIOUS
  <2>1. NodeType /\ BootstrapType
    BY DEF Init, NodeType, BootstrapType, Phase
  <2>2. InterviewType
    <3>1. NoSession \in Sessions
      BY DEF NoSession, Sessions
    <3> QED
      BY <3>1 DEF Init, InterviewType
  <2>3. ASSUME NEW n \in Nodes PROVE InterviewInv(n) /\ SchemeInv(n)
    <3>1. /\ scheme[n] = "absent" /\ queue[n] = <<>> /\ air[n] = <<>> /\ plain[n] = {}
          /\ s2[n] = "none"
      BY DEF Init
    <3>2. ~Present(n) /\ scheme[n] \notin Class
      BY <3>1 DEF Present, Class
    <3>3. /\ Outstanding(n) = {} /\ <<>> \in Seq(Asked) /\ <<>> \o <<>> = <<>>
          /\ \A i \in DOMAIN <<>> : FALSE
      BY <3>1 DEF Outstanding, Range
    <3>4. Once(queue[n] \o air[n], gen[n])
      BY <3>1, <3>3 DEF Once
    <3> QED
      BY <3>1, <3>2, <3>3, <3>4, Zenon DEF InterviewInv, SchemeInv, SessionInv, NumberInv, AskedInv, SecureInv
  <2> QED
    BY <2>1, <2>2, <2>3, Zenon DEF SetupInv, InterviewsInv, SchemesInv
<1>2. SetupInv /\ [Next]_vars => SetupInv'
  BY InterviewStep, SchemeStep, Zenon DEF SetupInv, Interviewed
<1> QED
  BY <1>1, <1>2, PTL DEF Spec

\* onNodeSecurityStatus and beginInterview ask no question that is outstanding.
THEOREM NothingAskedTwice == Spec => []AskedOnce
<1>1. SetupInv => AskedOnce
  BY Zenon DEF SetupInv, InterviewsInv, InterviewInv, Once, AskedOnce
<1> QED
  BY <1>1, SetupInvariant, PTL

\* pushSendData encrypts every Get of the interview of a node that joined with S2 alone.
THEOREM AskedUnderS2 == Spec => []S2GetsEncrypted
<1>1. SetupInv => S2GetsEncrypted
  BY Zenon DEF SetupInv, InterviewsInv, InterviewInv, SecureInv, S2GetsEncrypted
<1> QED
  BY <1>1, SetupInvariant, PTL

\* completeBootstrap records an S2 class the device has proved, the highest of those.
THEOREM RecordedIsProved == Spec => []S2SchemeProved
<1>1. SetupInv => S2SchemeProved
  BY Zenon DEF SetupInv, SchemesInv, SchemeInv, S2SchemeProved
<1> QED
  BY <1>1, SetupInvariant, PTL

\* InclusionOrchestrator applies the policy only after the whole interview of the
\* device that joined last.
THEOREM PolicyFollows == Spec => PolicyAfterInterview
<1>1. SetupInv /\ [Next]_vars => [PolicyStep]_vars
  BY InterviewStep, Zenon DEF Interviewed
<1> QED
  BY <1>1, SetupInvariant, PTL DEF Spec, PolicyAfterInterview, PolicyStep
=============================================================================
