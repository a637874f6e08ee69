------------------------------ MODULE Platform ------------------------------
(* Start-up, shutdown and key files of the daemon in one model: a behaviour    *)
(* follows either the life of the process (Daemon) or the instances that load  *)
(* their network keys from one directory (KeyFiles); focus says which.         *)
EXTENDS Daemon, KeyFiles

VARIABLE focus

vars == <<daemonVars, keyVars, focus>>

Init ==
  /\ focus \in {"process", "keys"}
  /\ DaemonInit
  /\ focus = "keys" => (pc = "Logger" /\ flag /\ \A d \in Dongles : plugged[d] = "out")
  /\ KeysInit

Next ==
  /\ UNCHANGED focus
  /\ \/ focus = "process" /\ DaemonNext /\ UNCHANGED keyVars
     \/ focus = "keys" /\ KeysNext /\ UNCHANGED daemonVars

(* While some thread can go on, one of them does: the kernel's scheduler, and *)
(* timeouts on every wait (1 s in the main loop and the monitor, 200 ms in    *)
(* the external API).  Fairness for each thread is not needed, because every  *)
(* loop runs out of work.  Nothing is assumed of signals, other output and    *)
(* the USB bus.                                                               *)
Fairness == WF_vars(focus = "process" /\ Running /\ Threads /\ UNCHANGED <<keyVars, focus>>)

Spec == Init /\ [][Next]_vars /\ Fairness

============================================================================
