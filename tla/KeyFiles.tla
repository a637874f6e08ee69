------------------------------ MODULE KeyFiles ------------------------------
(* Loading or generating the network keys at start-up:                         *)
(* security/s0/NetworkKey.cpp and NetworkKeyService.cpp (one file), then       *)
(* security/s2/NetworkKeys.cpp and NetworkKeysService.cpp (one file per        *)
(* class).  Two instances of the daemon may run on the same directory, a       *)
(* system call may fail, and an instance may crash between two of them.        *)
EXTENDS Naturals

CONSTANTS
  Instances,    \* daemons started on the same state directory
  ClassCount,   \* S2 classes, one file each
  NoKey,        \* no key held; a file that does not exist
  Torn,         \* a file that exists without holding a whole key
  MaxFaults,    \* bound: failing system calls
  MaxCrashes    \* bound: crashes

ASSUME KeysAssumption ==
  /\ ClassCount \in Nat \ {0} /\ MaxFaults \in Nat /\ MaxCrashes \in Nat
  /\ NoKey # Torn /\ NoKey \notin Nat /\ Torn \notin Nat

VARIABLES
  disk,         \* file -> NoKey | Torn | key
  keyPc,        \* instance -> step of loadOrGenerate
  loading,      \* instance -> the file it is loading
  held,         \* instance -> file -> key | NoKey: keys read or generated
  service,      \* instance -> "s0" | "s2" -> "loading" | "ready" | "failed"
  keyCount,     \* keys generated so far (RAND_bytes never repeats one)
  faults, crashes

keyVars == <<disk, keyPc, loading, held, service, keyCount, faults, crashes>>

(* The S0 key file and those of the S2 classes, in the order of loading. *)
S0File == 0
KeyNames == S0File .. ClassCount
Keys == 1 .. keyCount

ServiceOf(p) == IF loading[p] = S0File THEN "s0" ELSE "s2"

KeysInit ==
  /\ disk = [f \in KeyNames |-> NoKey]
  /\ keyPc = [p \in Instances |-> "read"]
  /\ loading = [p \in Instances |-> S0File]
  /\ held = [p \in Instances |-> [f \in KeyNames |-> NoKey]]
  /\ service = [p \in Instances |-> [s \in {"s0", "s2"} |-> "loading"]]
  /\ keyCount = 0 /\ faults = 0 /\ crashes = 0

----------------------------------------------------------------------------

(* The key is in hand.  S0 becomes current at once, S2 when its last class    *)
(* has been loaded.                                                           *)
Loaded(p, key) ==
  /\ held' = [held EXCEPT ![p][loading[p]] = key]
  /\ LET last == loading[p] = ClassCount IN
       /\ service' = IF loading[p] = S0File \/ last
                     THEN [service EXCEPT ![p][ServiceOf(p)] = "ready"] ELSE service
       /\ loading' = IF last THEN loading ELSE [loading EXCEPT ![p] = @ + 1]
       /\ keyPc' = [keyPc EXCEPT ![p] = IF last THEN "done" ELSE "read"]

(* nullopt: the service stays without keys.  After S0 the S2 service still    *)
(* runs; a failing class ends it.                                             *)
Unavailable(p) ==
  /\ service' = [service EXCEPT ![p][ServiceOf(p)] = "failed"]
  /\ loading' = IF loading[p] = S0File THEN [loading EXCEPT ![p] = 1] ELSE loading
  /\ keyPc' = [keyPc EXCEPT ![p] = IF loading[p] = S0File THEN "read" ELSE "done"]
  /\ UNCHANGED held

Step(p, from) == keyPc[p] = from
Goto(p, to) ==
  /\ keyPc' = [keyPc EXCEPT ![p] = to]
  /\ UNCHANGED <<loading, held, service>>

(* The file has the size of a key: a file being written is still empty. *)
WholeKey(f) == disk[f] \in Keys

readKeyFile(p) ==
  /\ Step(p, "read")
  /\ IF WholeKey(loading[p]) THEN Loaded(p, disk[loading[p]]) ELSE Goto(p, "create")
  /\ UNCHANGED <<disk, keyCount, faults, crashes>>

(* create_directories or RAND_bytes fails. *)
cannotGenerate(p) ==
  /\ Step(p, "create")
  /\ faults < MaxFaults
  /\ faults' = faults + 1
  /\ Unavailable(p)
  /\ UNCHANGED <<disk, keyCount, crashes>>

(* open(O_CREAT | O_EXCL): fails if the file is there. *)
createExclusive_Truncates(p) ==
  /\ Step(p, "create")
  /\ disk' = [disk EXCEPT ![loading[p]] = Torn]
  /\ Goto(p, "write")
  /\ UNCHANGED <<keyCount, faults, crashes>>

createExclusive(p) ==
  /\ Step(p, "create")
  /\ IF disk[loading[p]] = NoKey
     THEN disk' = [disk EXCEPT ![loading[p]] = Torn] /\ Goto(p, "write")
     ELSE Goto(p, "reread") /\ UNCHANGED disk
  /\ UNCHANGED <<keyCount, faults, crashes>>

writeKey(p) ==
  /\ Step(p, "write")
  /\ keyCount' = keyCount + 1
  /\ disk' = [disk EXCEPT ![loading[p]] = keyCount + 1]
  /\ Loaded(p, keyCount + 1)
  /\ UNCHANGED <<faults, crashes>>

(* A short write: the file is removed, in a second system call. *)
shortWrite(p) ==
  /\ Step(p, "write")
  /\ faults < MaxFaults
  /\ faults' = faults + 1
  /\ Goto(p, "remove")
  /\ UNCHANGED <<disk, keyCount, crashes>>

removeTruncated(p) ==
  /\ Step(p, "remove")
  /\ disk' = [disk EXCEPT ![loading[p]] = NoKey]
  /\ Goto(p, "reread")
  /\ UNCHANGED <<keyCount, faults, crashes>>

(* The lost race: take what the other instance wrote, if it is complete. *)
rereadKeyFile(p) ==
  /\ Step(p, "reread")
  /\ IF WholeKey(loading[p]) THEN Loaded(p, disk[loading[p]]) ELSE Unavailable(p)
  /\ UNCHANGED <<disk, keyCount, faults, crashes>>

(* The process dies anywhere and is started again. *)
CrashAndRestart(p) ==
  /\ crashes < MaxCrashes
  /\ crashes' = crashes + 1
  /\ keyPc' = [keyPc EXCEPT ![p] = "read"]
  /\ loading' = [loading EXCEPT ![p] = S0File]
  /\ held' = [held EXCEPT ![p] = [f \in KeyNames |-> NoKey]]
  /\ service' = [service EXCEPT ![p] = [s \in {"s0", "s2"} |-> "loading"]]
  /\ UNCHANGED <<disk, keyCount, faults>>

loadOrGenerate(p) ==
  \/ readKeyFile(p) \/ cannotGenerate(p) \/ createExclusive(p) \/ writeKey(p)
  \/ shortWrite(p) \/ removeTruncated(p) \/ rereadKeyFile(p)

KeysNext == \E p \in Instances : loadOrGenerate(p) \/ CrashAndRestart(p)

----------------------------------------------------------------------------
(* A complete key on disk is never replaced or removed, neither by another    *)
(* instance nor after a failure: losing it would force the re-inclusion of    *)
(* every secure node (NetworkKeyService.cpp:63).  A key an instance uses is   *)
(* the one on disk, so two instances on one directory use the same key and a  *)
(* restart finds it again: whoever loses the race for creating the file drops *)
(* the key it generated (NetworkKey.cpp:88-119, NetworkKeys.cpp:72-94).  And  *)
(* a service goes without keys only after a failed system call, after a crash *)
(* or when another instance is just between creating and writing the file.    *)
KeysKept ==
  [][/\ \A f \in KeyNames : disk[f] \in Keys => disk'[f] = disk[f]
     /\ \A p \in Instances, f \in KeyNames : held'[p][f] # NoKey => disk'[f] = held'[p][f]
     /\ \A p \in Instances : (\E s \in {"s0", "s2"} : service[p][s] # "failed" /\ service'[p][s] = "failed") =>
          \/ faults' > 0
          \/ crashes > 0
          \/ \E q \in Instances \ {p} : loading[q] = loading[p] /\ keyPc[q] \in {"write", "remove"}
    ]_<<disk, held, service>>
============================================================================
