--------------------------- MODULE PlatformProofs ---------------------------
(* Proofs about the key files of Platform, for every number of instances on  *)
(* one directory, of S2 classes, of failing system calls and of crashes.     *)
EXTENDS Platform, TLAPS

-----------------------------------------------------------------------------
(* The inductive invariant.                                                  *)

KeyPcs == {"read", "create", "write", "remove", "reread", "done"}
KeysType ==
  /\ disk \in [KeyNames -> {NoKey, Torn} \cup Keys]
  /\ keyPc \in [Instances -> KeyPcs]
  /\ loading \in [Instances -> KeyNames]
  /\ held \in [Instances -> [KeyNames -> {NoKey} \cup Keys]]
  /\ service \in [Instances -> [{"s0", "s2"} -> {"loading", "ready", "failed"}]]
  /\ keyCount \in Nat /\ faults \in Nat /\ crashes \in Nat

\* The instance has created the file it is loading, and not yet written or removed it.
Creates(p) == keyPc[p] \in {"write", "remove"}

\* The file an instance has created is its own until it is written.
OwnFile ==
  /\ \A p \in Instances : Creates(p) => disk[loading[p]] = Torn
  /\ \A p, q \in Instances : Creates(p) /\ Creates(q) /\ loading[p] = loading[q] => p = q

\* A key in use is on disk.
HeldStored == \A p \in Instances, f \in KeyNames : held[p][f] # NoKey => disk[f] = held[p][f]

\* What an instance that finds no key may have met: a file without one has a crash or
\* a creator behind it, and a removed one a failed write.
FaultKnown ==
  /\ \A f \in KeyNames : disk[f] = Torn =>
       crashes > 0 \/ \E q \in Instances : loading[q] = f /\ Creates(q)
  /\ \A p \in Instances : keyPc[p] = "remove" => faults > 0
  /\ \A p \in Instances : keyPc[p] = "reread" => faults > 0 \/ disk[loading[p]] # NoKey

KeyInv == KeysType /\ OwnFile /\ HeldStored /\ FaultKnown

-----------------------------------------------------------------------------
(* What the steps of loadOrGenerate do.                                      *)

\* An instance at a given step of a given file.
LEMMA KeyFacts ==
    ASSUME KeysType, NEW p \in Instances
    PROVE  /\ loading[p] \in KeyNames /\ keyPc[p] \in KeyPcs /\ ClassCount \in KeyNames
           /\ loading[p] # ClassCount => loading[p] + 1 \in KeyNames
           /\ loading[p] \in Nat /\ ServiceOf(p) \in {"s0", "s2"} /\ 1 \in KeyNames
           /\ keyCount + 1 \notin Keys /\ \A k \in Keys : k # NoKey /\ k # Torn
           /\ keyCount + 1 # NoKey /\ keyCount + 1 # Torn
BY KeysAssumption DEF KeysType, KeyNames, S0File, ServiceOf, Keys

\* A key in hand: only this instance's own state changes, and it creates nothing.
LEMMA LoadedFacts ==
    ASSUME KeysType, NEW p \in Instances, NEW key, Loaded(p, key),
           key \in Keys', Keys \subseteq Keys'
    PROVE  /\ held' \in [Instances -> [KeyNames -> {NoKey} \cup Keys']]
           /\ service' \in [Instances -> [{"s0", "s2"} -> {"loading", "ready", "failed"}]]
           /\ loading' \in [Instances -> KeyNames] /\ keyPc' \in [Instances -> KeyPcs]
           /\ keyPc'[p] \in {"done", "read"}
           /\ \A q \in Instances \ {p} :
                loading'[q] = loading[q] /\ keyPc'[q] = keyPc[q] /\ held'[q] = held[q]
           /\ \A f \in KeyNames : held'[p][f] = IF f = loading[p] THEN key ELSE held[p][f]
           /\ \A q \in Instances, s \in {"s0", "s2"} :
                service'[q][s] = "failed" => service[q][s] = "failed"
<1>1. loading[p] \in KeyNames /\ (loading[p] # ClassCount => loading[p] + 1 \in KeyNames)
      /\ ServiceOf(p) \in {"s0", "s2"}
  BY KeyFacts
<1>2. held' \in [Instances -> [KeyNames -> {NoKey} \cup Keys']]
  BY <1>1 DEF Loaded, KeysType
<1>3. service' \in [Instances -> [{"s0", "s2"} -> {"loading", "ready", "failed"}]]
  BY <1>1 DEF Loaded, KeysType
<1>4. loading' \in [Instances -> KeyNames] /\ keyPc' \in [Instances -> KeyPcs]
  BY <1>1 DEF Loaded, KeysType, KeyPcs
<1>5. /\ keyPc'[p] \in {"done", "read"}
      /\ \A q \in Instances \ {p} :
           loading'[q] = loading[q] /\ keyPc'[q] = keyPc[q] /\ held'[q] = held[q]
      /\ \A f \in KeyNames : held'[p][f] = IF f = loading[p] THEN key ELSE held[p][f]
  BY <1>1 DEF Loaded, KeysType
<1>6. \A q \in Instances, s \in {"s0", "s2"} :
        service'[q][s] = "failed" => service[q][s] = "failed"
  BY <1>1 DEF Loaded, KeysType
<1> QED BY <1>2, <1>3, <1>4, <1>5, <1>6

\* No key: the same, and the instance goes on without.
LEMMA UnavailableFacts ==
    ASSUME KeysType, NEW p \in Instances, Unavailable(p)
    PROVE  /\ service' \in [Instances -> [{"s0", "s2"} -> {"loading", "ready", "failed"}]]
           /\ loading' \in [Instances -> KeyNames] /\ keyPc' \in [Instances -> KeyPcs]
           /\ keyPc'[p] \in {"done", "read"} /\ held' = held
           /\ \A q \in Instances \ {p} :
                loading'[q] = loading[q] /\ keyPc'[q] = keyPc[q] /\ service'[q] = service[q]
<1>1. loading[p] \in KeyNames /\ 1 \in KeyNames /\ ServiceOf(p) \in {"s0", "s2"}
  BY KeyFacts
<1>2. service' \in [Instances -> [{"s0", "s2"} -> {"loading", "ready", "failed"}]]
  BY <1>1 DEF Unavailable, KeysType
<1>3. loading' \in [Instances -> KeyNames] /\ keyPc' \in [Instances -> KeyPcs]
  BY <1>1 DEF Unavailable, KeysType, KeyPcs
<1>4. /\ keyPc'[p] \in {"done", "read"} /\ held' = held
      /\ \A q \in Instances \ {p} :
           loading'[q] = loading[q] /\ keyPc'[q] = keyPc[q] /\ service'[q] = service[q]
  BY <1>1 DEF Unavailable, KeysType
<1> QED BY <1>2, <1>3, <1>4

\* A step within one file.
LEMMA GotoFacts ==
    ASSUME KeysType, NEW p \in Instances, NEW to \in KeyPcs, Goto(p, to)
    PROVE  /\ keyPc' \in [Instances -> KeyPcs] /\ keyPc'[p] = to
           /\ \A q \in Instances \ {p} : keyPc'[q] = keyPc[q]
           /\ loading' = loading /\ held' = held /\ service' = service
BY DEF Goto, KeysType

\* The invariant, and the step's part of KeysKept.
KeysKeptStep ==
  /\ \A f \in KeyNames : disk[f] \in Keys => disk'[f] = disk[f]
  /\ \A p \in Instances, f \in KeyNames : held'[p][f] # NoKey => disk'[f] = held'[p][f]
  /\ \A p \in Instances : (\E s \in {"s0", "s2"} : service[p][s] # "failed" /\ service'[p][s] = "failed") =>
       \/ faults' > 0
       \/ crashes > 0
       \/ \E q \in Instances \ {p} : loading[q] = loading[p] /\ keyPc[q] \in {"write", "remove"}

\* An instance that neither has created a file nor touches one leaves the others alone.
LEMMA BystanderKeeps ==
    ASSUME KeyInv, NEW p \in Instances, ~Creates(p), keyPc'[p] \in {"done", "read", "create"},
           UNCHANGED <<disk, keyCount>>, KeysType', crashes' >= crashes, faults' >= faults,
           \A q \in Instances \ {p} : loading'[q] = loading[q] /\ keyPc'[q] = keyPc[q]
    PROVE  OwnFile' /\ FaultKnown'
<1>1. ~Creates(p)' /\ keyPc'[p] # "reread" /\ \A q \in Instances \ {p} : Creates(q)' = Creates(q)
  BY DEF Creates
<1>2. OwnFile'
  BY <1>1 DEF KeyInv, OwnFile
<1>3. faults > 0 => faults' > 0
  BY DEF KeyInv, KeysType
<1>4. crashes > 0 => crashes' > 0
  BY DEF KeyInv, KeysType
<1>5. \A f \in KeyNames : disk[f] = Torn =>
        crashes' > 0 \/ \E q \in Instances : loading'[q] = f /\ Creates(q)'
  BY <1>1, <1>4 DEF KeyInv, FaultKnown
<1>6. \A q \in Instances : /\ keyPc'[q] = "remove" => faults' > 0
                           /\ keyPc'[q] = "reread" => faults' > 0 \/ disk[loading'[q]] # NoKey
  BY <1>1, <1>3 DEF KeyInv, FaultKnown, Creates
<1> QED BY <1>2, <1>5, <1>6 DEF FaultKnown

\* Every step of an instance keeps the invariant and what KeysKept says.
LEMMA KeysStep ==
    ASSUME KeyInv, NEW p \in Instances, loadOrGenerate(p) \/ CrashAndRestart(p)
    PROVE  KeyInv' /\ KeysKeptStep
<1>t. KeysType /\ OwnFile /\ HeldStored /\ FaultKnown
  BY DEF KeyInv
<1>f. /\ loading[p] \in KeyNames /\ \A k \in Keys : k # NoKey /\ k # Torn
      /\ keyCount + 1 \notin Keys /\ keyCount + 1 # NoKey /\ keyCount + 1 # Torn
  BY <1>t, KeyFacts
<1>k. KeysType => keyCount \in Nat /\ faults \in Nat /\ crashes \in Nat /\ NoKey # Torn
  BY KeysAssumption DEF KeysType
<1>l. ASSUME WholeKey(loading[p]), Loaded(p, disk[loading[p]]), ~Creates(p),
             UNCHANGED <<disk, keyCount, faults, crashes>>
      PROVE  KeyInv' /\ KeysKeptStep
  <2>1. disk[loading[p]] \in Keys' /\ Keys' = Keys
    BY <1>l DEF WholeKey, Keys
  <2>2. /\ held' \in [Instances -> [KeyNames -> {NoKey} \cup Keys']]
        /\ service' \in [Instances -> [{"s0", "s2"} -> {"loading", "ready", "failed"}]]
        /\ loading' \in [Instances -> KeyNames] /\ keyPc' \in [Instances -> KeyPcs]
        /\ keyPc'[p] \in {"done", "read"}
        /\ \A q \in Instances \ {p} :
             loading'[q] = loading[q] /\ keyPc'[q] = keyPc[q] /\ held'[q] = held[q]
        /\ \A f \in KeyNames : held'[p][f] = IF f = loading[p] THEN disk[loading[p]] ELSE held[p][f]
        /\ \A q \in Instances, s \in {"s0", "s2"} :
             service'[q][s] = "failed" => service[q][s] = "failed"
    BY <2>1, <1>l, <1>t, LoadedFacts
  <2>3. KeysType'
    BY <2>1, <2>2, <1>l, <1>t DEF KeysType
  <2>4. OwnFile' /\ FaultKnown'
    BY <2>2, <2>3, <1>l, <1>t, <1>k, BystanderKeeps
  <2>5. HeldStored'
    BY <2>2, <1>l, <1>t DEF HeldStored
  <2>6. KeysKeptStep
    BY <2>2, <2>5, <1>l DEF KeysKeptStep, HeldStored
  <2> QED BY <2>3, <2>4, <2>5, <2>6 DEF KeyInv
<1>u. ASSUME Unavailable(p), ~Creates(p), UNCHANGED <<disk, keyCount, crashes>>,
             faults' \in Nat, faults' >= faults,
             \/ faults' > 0
             \/ crashes > 0
             \/ \E q \in Instances \ {p} : loading[q] = loading[p] /\ keyPc[q] \in {"write", "remove"}
      PROVE  KeyInv' /\ KeysKeptStep
  <2>1. /\ service' \in [Instances -> [{"s0", "s2"} -> {"loading", "ready", "failed"}]]
        /\ loading' \in [Instances -> KeyNames] /\ keyPc' \in [Instances -> KeyPcs]
        /\ keyPc'[p] \in {"done", "read"} /\ held' = held
        /\ \A q \in Instances \ {p} :
             loading'[q] = loading[q] /\ keyPc'[q] = keyPc[q] /\ service'[q] = service[q]
    BY <1>u, <1>t, UnavailableFacts
  <2>2. KeysType'
    BY <2>1, <1>u, <1>t DEF KeysType, Keys
  <2>3. OwnFile' /\ FaultKnown'
    BY <2>1, <2>2, <1>u, <1>t, <1>k, BystanderKeeps
  <2>4. HeldStored'
    BY <2>1, <1>u, <1>t DEF HeldStored
  <2>5. KeysKeptStep
    BY <2>1, <2>4, <1>u DEF KeysKeptStep, HeldStored
  <2> QED BY <2>2, <2>3, <2>4, <2>5 DEF KeyInv
<1>1. CASE readKeyFile(p)
  <2>1. ~Creates(p)
    BY <1>1 DEF readKeyFile, Step, Creates
  <2>2. CASE WholeKey(loading[p])
    BY <2>1, <2>2, <1>1, <1>l DEF readKeyFile
  <2>3. CASE ~WholeKey(loading[p])
    <3>1. Goto(p, "create") /\ UNCHANGED <<disk, keyCount, faults, crashes>>
      BY <2>3, <1>1 DEF readKeyFile
    <3>2. /\ keyPc' \in [Instances -> KeyPcs] /\ keyPc'[p] = "create"
          /\ \A q \in Instances \ {p} : keyPc'[q] = keyPc[q]
          /\ loading' = loading /\ held' = held /\ service' = service
      BY <3>1, <1>t, GotoFacts DEF KeyPcs
    <3>3. KeysType'
      BY <3>1, <3>2, <1>t DEF KeysType, Keys
    <3>4. OwnFile' /\ FaultKnown'
      BY <3>1, <3>2, <3>3, <2>1, <1>t, <1>k, BystanderKeeps
    <3>5. HeldStored' /\ KeysKeptStep
      BY <3>1, <3>2, <1>t DEF HeldStored, KeysKeptStep
    <3> QED BY <3>3, <3>4, <3>5 DEF KeyInv
  <2> QED BY <2>2, <2>3
<1>2. CASE cannotGenerate(p)
  <2>1. /\ ~Creates(p) /\ Unavailable(p) /\ UNCHANGED <<disk, keyCount, crashes>>
        /\ faults' = faults + 1
    BY <1>2 DEF cannotGenerate, Step, Creates
  <2>2. faults' \in Nat /\ faults' >= faults /\ faults' > 0
    BY <2>1, <1>t, <1>k
  <2> QED BY <2>1, <2>2, <1>u
<1>3. CASE createExclusive(p)
  <2>1. keyPc[p] = "create" /\ ~Creates(p) /\ UNCHANGED <<keyCount, faults, crashes>>
    BY <1>3 DEF createExclusive, Step, Creates
  <2>2. CASE disk[loading[p]] = NoKey
    <3>1. disk' = [disk EXCEPT ![loading[p]] = Torn] /\ Goto(p, "write")
      BY <2>2, <1>3 DEF createExclusive
    <3>2. /\ keyPc' \in [Instances -> KeyPcs] /\ keyPc'[p] = "write"
          /\ \A q \in Instances \ {p} : keyPc'[q] = keyPc[q]
          /\ loading' = loading /\ held' = held /\ service' = service
      BY <3>1, <1>t, GotoFacts DEF KeyPcs
    <3>3. KeysType'
      BY <3>1, <3>2, <2>1, <1>t DEF KeysType, Keys
    <3>4. /\ \A f \in KeyNames : disk'[f] = IF f = loading[p] THEN Torn ELSE disk[f]
          /\ \A q \in Instances : q # p => Creates(q)' = Creates(q)
          /\ Creates(p)'
      BY <3>1, <3>2, <1>t DEF KeysType, Creates
    <3>5. \A q \in Instances : Creates(q) => loading[q] # loading[p]
      BY <2>2, <1>t, <1>k DEF OwnFile
    <3>6. OwnFile'
      BY <3>2, <3>4, <3>5, <1>t, Zenon DEF OwnFile, KeysType
    <3>7. HeldStored'
      BY <3>2, <3>4, <2>2, <1>t DEF HeldStored
    <3>8. FaultKnown'
      <4>1. \A f \in KeyNames : disk'[f] = Torn =>
              crashes' > 0 \/ \E q \in Instances : loading'[q] = f /\ Creates(q)'
        BY <3>2, <3>4, <2>1, <1>t DEF FaultKnown
      <4>2. \A q \in Instances : /\ keyPc'[q] = "remove" => faults' > 0
                                 /\ keyPc'[q] = "reread" => faults' > 0 \/ disk'[loading'[q]] # NoKey
        BY <3>2, <3>4, <2>1, <1>t, <1>k DEF FaultKnown, KeysType
      <4> QED BY <4>1, <4>2 DEF FaultKnown
    <3>9. KeysKeptStep
      BY <3>2, <3>4, <3>7, <2>2, <1>f DEF KeysKeptStep, HeldStored
    <3> QED BY <3>3, <3>6, <3>7, <3>8, <3>9 DEF KeyInv
  <2>3. CASE disk[loading[p]] # NoKey
    <3>1. Goto(p, "reread") /\ disk' = disk
      BY <2>3, <1>3 DEF createExclusive
    <3>2. /\ keyPc' \in [Instances -> KeyPcs] /\ keyPc'[p] = "reread"
          /\ \A q \in Instances \ {p} : keyPc'[q] = keyPc[q]
          /\ loading' = loading /\ held' = held /\ service' = service
      BY <3>1, <1>t, GotoFacts DEF KeyPcs
    <3>3. KeysType'
      BY <3>1, <3>2, <2>1, <1>t DEF KeysType, Keys
    <3>4. \A q \in Instances : Creates(q)' = Creates(q)
      BY <3>2, <2>1 DEF Creates
    <3>5. OwnFile' /\ HeldStored' /\ KeysKeptStep
      BY <3>1, <3>2, <3>4, <1>t, Zenon DEF OwnFile, HeldStored, KeysKeptStep
    <3>6. FaultKnown'
      BY <3>1, <3>2, <3>4, <2>1, <2>3, <1>t, Zenon DEF FaultKnown
    <3> QED BY <3>3, <3>5, <3>6 DEF KeyInv
  <2> QED BY <2>2, <2>3
<1>4. CASE writeKey(p)
  <2>1. /\ Creates(p) /\ keyCount' = keyCount + 1 /\ disk' = [disk EXCEPT ![loading[p]] = keyCount + 1]
        /\ Loaded(p, keyCount + 1) /\ UNCHANGED <<faults, crashes>>
    BY <1>4 DEF writeKey, Step, Creates
  <2>2. keyCount + 1 \in Keys' /\ Keys \subseteq Keys'
    BY <2>1, <1>t, <1>k DEF Keys
  <2>3. /\ held' \in [Instances -> [KeyNames -> {NoKey} \cup Keys']]
        /\ service' \in [Instances -> [{"s0", "s2"} -> {"loading", "ready", "failed"}]]
        /\ loading' \in [Instances -> KeyNames] /\ keyPc' \in [Instances -> KeyPcs]
        /\ keyPc'[p] \in {"done", "read"}
        /\ \A q \in Instances \ {p} :
             loading'[q] = loading[q] /\ keyPc'[q] = keyPc[q] /\ held'[q] = held[q]
        /\ \A f \in KeyNames : held'[p][f] = IF f = loading[p] THEN keyCount + 1 ELSE held[p][f]
        /\ \A q \in Instances, s \in {"s0", "s2"} :
             service'[q][s] = "failed" => service[q][s] = "failed"
    BY <2>1, <2>2, <1>t, LoadedFacts
  <2>4. \A f \in KeyNames : disk'[f] = IF f = loading[p] THEN keyCount + 1 ELSE disk[f]
    BY <2>1, <1>t DEF KeysType
  <2>5. KeysType'
    <3>1. disk' \in [KeyNames -> {NoKey, Torn} \cup Keys']
      BY <2>1, <2>2, <1>t DEF KeysType
    <3> QED BY <3>1, <2>1, <2>3, <1>t, <1>k DEF KeysType
  <2>6. /\ ~Creates(p)' /\ keyPc'[p] # "reread"
        /\ \A q \in Instances : q # p => Creates(q)' = Creates(q)
    BY <2>3, Zenon DEF Creates
  <2>7. disk[loading[p]] = Torn /\ \A q \in Instances : q # p /\ Creates(q) => loading[q] # loading[p]
    BY <2>1, <1>t DEF OwnFile
  <2>8. OwnFile'
    <3>1. \A q \in Instances : Creates(q)' => /\ q # p /\ Creates(q) /\ loading'[q] = loading[q]
                                             /\ loading[q] \in KeyNames /\ loading[q] # loading[p]
      BY <2>3, <2>6, <2>7, <1>t DEF KeysType
    <3> QED BY <3>1, <2>4, <1>t, Zenon DEF OwnFile
  <2>9. HeldStored'
    <3>1. \A q \in Instances : q # p => held[q][loading[p]] = NoKey
      BY <2>7, <1>t, <1>f, Zenon DEF HeldStored, KeysType
    <3> SUFFICES ASSUME NEW q \in Instances, NEW f \in KeyNames, held'[q][f] # NoKey
                 PROVE  disk'[f] = held'[q][f]
      BY Zenon DEF HeldStored
    <3>2. CASE q = p /\ f = loading[p]
      BY <2>3, <2>4, <3>2
    <3>3. CASE ~(q = p /\ f = loading[p])
      <4>1. held'[q][f] = held[q][f]
        BY <2>3, <3>3
      <4>2. f # loading[p]
        BY <3>1, <3>3, <4>1
      <4>3. disk'[f] = disk[f]
        BY <2>4, <4>2
      <4> QED BY <4>1, <4>3, <1>t, Zenon DEF HeldStored
    <3> QED BY <3>2, <3>3
  <2>10. FaultKnown'
    <3>1. \A f \in KeyNames : disk'[f] = Torn =>
            crashes' > 0 \/ \E q \in Instances : loading'[q] = f /\ Creates(q)'
      <4> SUFFICES ASSUME NEW f \in KeyNames, disk'[f] = Torn, ~(crashes' > 0)
                   PROVE  \E q \in Instances : loading'[q] = f /\ Creates(q)'
        BY Zenon
      <4>1. f # loading[p] /\ disk[f] = Torn
        BY <2>4, <1>f
      <4>2. PICK q \in Instances : loading[q] = f /\ Creates(q)
        BY <4>1, <2>1, <1>t DEF FaultKnown
      <4> QED BY <4>1, <4>2, <2>3, <2>6, Zenon
    <3>2. \A q \in Instances : /\ keyPc'[q] = "remove" => faults' > 0
                               /\ keyPc'[q] = "reread" => faults' > 0 \/ disk'[loading'[q]] # NoKey
      BY <2>1, <2>3, <2>4, <2>6, <1>t, <1>f DEF FaultKnown, KeysType, Creates
    <3> QED BY <3>1, <3>2 DEF FaultKnown
  <2>11. KeysKeptStep
    <3>1. \A f \in KeyNames : disk[f] \in Keys => disk'[f] = disk[f]
      BY <2>4, <2>7, <1>f
    <3> QED BY <3>1, <2>3, <2>9, Zenon DEF KeysKeptStep, HeldStored
  <2> QED BY <2>5, <2>8, <2>9, <2>10, <2>11 DEF KeyInv
<1>5. CASE shortWrite(p)
  <2>1. /\ keyPc[p] = "write" /\ faults' = faults + 1 /\ Goto(p, "remove")
        /\ UNCHANGED <<disk, keyCount, crashes>>
    BY <1>5 DEF shortWrite, Step
  <2>2. /\ keyPc' \in [Instances -> KeyPcs] /\ keyPc'[p] = "remove"
        /\ \A q \in Instances \ {p} : keyPc'[q] = keyPc[q]
        /\ loading' = loading /\ held' = held /\ service' = service
    BY <2>1, <1>t, GotoFacts DEF KeyPcs
  <2>3. KeysType' /\ faults' > 0
    BY <2>1, <2>2, <1>t, <1>k DEF KeysType, Keys
  <2>4. \A q \in Instances : Creates(q)' = Creates(q)
    BY <2>1, <2>2 DEF Creates
  <2>5. OwnFile' /\ HeldStored' /\ KeysKeptStep
    BY <2>1, <2>2, <2>4, <1>t, Zenon DEF OwnFile, HeldStored, KeysKeptStep
  <2>6. FaultKnown'
    BY <2>1, <2>2, <2>3, <2>4, <1>t, Zenon DEF FaultKnown
  <2> QED BY <2>3, <2>5, <2>6 DEF KeyInv
<1>6. CASE removeTruncated(p)
  <2>1. /\ keyPc[p] = "remove" /\ Creates(p) /\ disk' = [disk EXCEPT ![loading[p]] = NoKey]
        /\ Goto(p, "reread") /\ UNCHANGED <<keyCount, faults, crashes>>
    BY <1>6, Zenon DEF removeTruncated, Step, Creates
  <2>2. /\ keyPc' \in [Instances -> KeyPcs] /\ keyPc'[p] = "reread"
        /\ \A q \in Instances \ {p} : keyPc'[q] = keyPc[q]
        /\ loading' = loading /\ held' = held /\ service' = service
    BY <2>1, <1>t, GotoFacts DEF KeyPcs
  <2>3. KeysType'
    BY <2>1, <2>2, <1>t DEF KeysType, Keys
  <2>4. \A f \in KeyNames : disk'[f] = IF f = loading[p] THEN NoKey ELSE disk[f]
    BY <2>1, <1>t DEF KeysType
  <2>5. ~Creates(p)' /\ \A q \in Instances : q # p => Creates(q)' = Creates(q)
    BY <2>2 DEF Creates
  <2>6. disk[loading[p]] = Torn /\ \A q \in Instances : q # p /\ Creates(q) => loading[q] # loading[p]
    BY <2>1, <1>t DEF OwnFile
  <2>7. OwnFile'
    <3>1. \A q \in Instances : Creates(q)' => /\ q # p /\ Creates(q)
                                             /\ loading[q] \in KeyNames /\ loading[q] # loading[p]
      BY <2>5, <2>6, <1>t DEF KeysType
    <3> QED BY <3>1, <2>2, <2>4, <1>t DEF OwnFile
  <2>8. HeldStored'
    <3>1. \A q \in Instances : held[q][loading[p]] = NoKey
      BY <2>6, <1>t, <1>f DEF HeldStored, KeysType
    <3> QED BY <3>1, <2>2, <2>4, <1>t DEF HeldStored
  <2>9. FaultKnown'
    <3>1. faults > 0
      BY <2>1, <1>t DEF FaultKnown
    <3>2. \A f \in KeyNames : disk'[f] = Torn =>
            crashes' > 0 \/ \E q \in Instances : loading'[q] = f /\ Creates(q)'
      <4> SUFFICES ASSUME NEW f \in KeyNames, disk'[f] = Torn, ~(crashes' > 0)
                   PROVE  \E q \in Instances : loading'[q] = f /\ Creates(q)'
        OBVIOUS
      <4>1. f # loading[p] /\ disk[f] = Torn
        BY <2>4, <1>t, <1>k
      <4>2. PICK q \in Instances : loading[q] = f /\ Creates(q)
        BY <4>1, <2>1, <1>t DEF FaultKnown
      <4> QED BY <4>1, <4>2, <2>2, <2>5
    <3> QED BY <3>1, <3>2, <2>1 DEF FaultKnown
  <2>10. KeysKeptStep
    BY <2>2, <2>4, <2>6, <2>8, <1>f DEF KeysKeptStep, HeldStored
  <2> QED BY <2>3, <2>7, <2>8, <2>9, <2>10 DEF KeyInv
<1>7. CASE rereadKeyFile(p)
  <2>1. keyPc[p] = "reread" /\ ~Creates(p) /\ UNCHANGED <<disk, keyCount, faults, crashes>>
    BY <1>7, Zenon DEF rereadKeyFile, Step, Creates
  <2>2. CASE WholeKey(loading[p])
    BY <2>1, <2>2, <1>7, <1>l, Zenon DEF rereadKeyFile
  <2>3. CASE ~WholeKey(loading[p])
    <3>1. Unavailable(p)
      BY <2>3, <1>7, Zenon DEF rereadKeyFile
    <3>2. disk[loading[p]] = NoKey => faults > 0
      BY <2>1, <1>t, Zenon DEF FaultKnown
    <3>3. disk[loading[p]] = Torn =>
            crashes > 0 \/ \E q \in Instances \ {p} : loading[q] = loading[p] /\ keyPc[q] \in {"write", "remove"}
      BY <2>1, <1>t, <1>f DEF FaultKnown, Creates
    <3>4. disk[loading[p]] \in {NoKey, Torn}
      BY <2>3, <1>t, <1>f DEF WholeKey, KeysType
    <3>5. faults' \in Nat /\ faults' >= faults /\ faults' = faults
      BY <2>1, <1>t, <1>k
    <3> QED BY <3>1, <3>2, <3>3, <3>4, <3>5, <2>1, <1>u
  <2> QED BY <2>2, <2>3
<1>8. CASE CrashAndRestart(p)
  <2>1. /\ crashes' = crashes + 1 /\ UNCHANGED <<disk, keyCount, faults>>
        /\ keyPc' = [keyPc EXCEPT ![p] = "read"] /\ loading' = [loading EXCEPT ![p] = S0File]
        /\ held' = [held EXCEPT ![p] = [f \in KeyNames |-> NoKey]]
        /\ service' = [service EXCEPT ![p] = [s \in {"s0", "s2"} |-> "loading"]]
    BY <1>8 DEF CrashAndRestart
  <2>2. S0File \in KeyNames
    BY KeysAssumption DEF KeyNames, S0File
  <2>3. KeysType' /\ crashes' > 0
    <3>1. held' \in [Instances -> [KeyNames -> {NoKey} \cup Keys']]
      BY <2>1, <1>t DEF KeysType, Keys
    <3>2. service' \in [Instances -> [{"s0", "s2"} -> {"loading", "ready", "failed"}]]
      BY <2>1, <1>t DEF KeysType
    <3> QED BY <3>1, <3>2, <2>1, <2>2, <1>t, <1>k DEF KeysType, KeyPcs, Keys
  <2>4. /\ keyPc'[p] = "read" /\ \A f \in KeyNames : held'[p][f] = NoKey
        /\ \A s \in {"s0", "s2"} : service'[p][s] = "loading"
        /\ \A q \in Instances \ {p} : /\ keyPc'[q] = keyPc[q] /\ loading'[q] = loading[q]
                                      /\ held'[q] = held[q] /\ service'[q] = service[q]
    BY <2>1, <1>t DEF KeysType
  <2>5. ~Creates(p)' /\ \A q \in Instances : q # p => Creates(q)' = Creates(q)
    BY <2>4 DEF Creates
  <2>6. OwnFile'
    BY <2>1, <2>4, <2>5, <1>t DEF OwnFile
  <2>7. HeldStored'
    <3> SUFFICES ASSUME NEW q \in Instances, NEW f \in KeyNames, held'[q][f] # NoKey
                 PROVE  disk'[f] = held'[q][f]
      BY Zenon DEF HeldStored
    <3>1. held'[q][f] = held[q][f]
      BY <2>4
    <3> QED BY <3>1, <2>1, <1>t, Zenon DEF HeldStored
  <2>8. FaultKnown'
    BY <2>1, <2>3, <2>4, <1>t, Zenon DEF FaultKnown
  <2>9. KeysKeptStep
    BY <2>1, <2>4, <2>7, Zenon DEF KeysKeptStep, HeldStored
  <2> QED BY <2>3, <2>6, <2>7, <2>8, <2>9 DEF KeyInv
<1> QED BY <1>1, <1>2, <1>3, <1>4, <1>5, <1>6, <1>7, <1>8 DEF loadOrGenerate

-----------------------------------------------------------------------------
(* The theorems.                                                             *)

\* The inductive invariant of the instances that load their keys from one directory.
THEOREM KeyInvariant == Spec => []KeyInv
<1>1. Init => KeyInv
  <2> SUFFICES ASSUME KeysInit PROVE KeyInv
    BY DEF Init
  <2>1. S0File \in KeyNames
    BY KeysAssumption DEF KeyNames, S0File
  <2>2. KeysType
    BY <2>1 DEF KeysInit, KeysType, KeyPcs
  <2>3. \A p \in Instances : keyPc[p] = "read" /\ \A f \in KeyNames : held[p][f] = NoKey
    BY DEF KeysInit
  <2>4. \A f \in KeyNames : disk[f] # Torn
    BY KeysAssumption DEF KeysInit
  <2> QED BY <2>2, <2>3, <2>4, Zenon DEF KeyInv, OwnFile, HeldStored, FaultKnown, Creates
<1>2. KeyInv /\ [Next]_vars => KeyInv'
  <2> SUFFICES ASSUME KeyInv, [Next]_vars PROVE KeyInv'
    OBVIOUS
  <2>1. CASE UNCHANGED keyVars
    <3>1. /\ disk' = disk /\ held' = held /\ service' = service /\ loading' = loading
          /\ keyPc' = keyPc /\ keyCount' = keyCount /\ faults' = faults /\ crashes' = crashes
      BY <2>1, Zenon DEF keyVars
    <3>2. KeysType'
      BY <3>1, Zenon DEF KeyInv, KeysType, Keys
    <3>3. (\A q \in Instances : Creates(q)' = Creates(q)) /\ HeldStored'
      BY <3>1, Zenon DEF KeyInv, Creates, HeldStored
    <3>4. OwnFile'
      BY <3>1, <3>3, Zenon DEF KeyInv, OwnFile
    <3>5. FaultKnown'
      BY <3>1, <3>3, Zenon DEF KeyInv, FaultKnown
    <3> QED BY <3>2, <3>3, <3>4, <3>5, Zenon DEF KeyInv
  <2>2. CASE KeysNext
    BY <2>2, KeysStep DEF KeysNext
  <2> QED BY <2>1, <2>2 DEF Next, vars
<1> QED BY <1>1, <1>2, PTL DEF Spec

\* NetworkKeyService and NetworkKeysService never replace or remove a complete key on
\* disk, use no key that is not there, and go without keys only after a failed system
\* call, a crash, or while another instance is between creating and writing the file.
THEOREM KeysNeverLost == Spec => KeysKept
<1>1. KeyInv /\ [Next]_vars => [KeysKeptStep]_<<disk, held, service>>
  <2> SUFFICES ASSUME KeyInv, [Next]_vars PROVE [KeysKeptStep]_<<disk, held, service>>
    OBVIOUS
  <2>1. CASE UNCHANGED keyVars
    BY <2>1 DEF keyVars
  <2>2. CASE KeysNext
    BY <2>2, KeysStep DEF KeysNext
  <2> QED BY <2>1, <2>2 DEF Next, vars
<1> QED BY <1>1, KeyInvariant, PTL DEF Spec, KeysKept, KeysKeptStep

=============================================================================
