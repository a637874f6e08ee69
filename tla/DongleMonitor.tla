--------------------------- MODULE DongleMonitor ---------------------------
(* The USB monitor thread (src/src/zwave-dongle/MonitorThread.cpp).  udev     *)
(* reports USB devices that come and go; the thread tracks one accepted       *)
(* dongle and publishes DongleStatus.  A dongle's tty node appears some time  *)
(* after the USB device itself, so the lookup for it may find nothing.        *)
EXTENDS Naturals, Sequences

CONSTANTS
  Dongles,     \* USB devices, one tty node each
  None,        \* an empty devpath or tty string, DongleStatus{connected = false}
  MaxPlugs     \* bound: devices plugged in during a behaviour

VARIABLES
  plugged,          \* dongle -> "out" | "usb" (no tty node yet) | "tty"
  plugs,            \* number of devices plugged in so far
  udevEvents,       \* the netlink monitor's queue
  listening,        \* udev_monitor_enable_receiving has been called
  accept,           \* ZwaveMonitorState::accept
  monitorPc,        \* "unborn" | "start" | "setup" | "scan" | "loop" | "done"
  monitorRunning,   \* ZwaveMonitorState::running
  trackedDevpath, trackedTtyNode,
  dongleStatus      \* retained DongleStatus: the connected dongle, or None

deviceVars == <<plugged, plugs, udevEvents>>
trackVars == <<trackedDevpath, trackedTtyNode, dongleStatus>>
monitorVars == <<deviceVars, listening, accept, monitorPc, monitorRunning, trackVars>>

(* The devices present at start-up are the environment's choice. *)
MonitorInit ==
  /\ udevEvents = <<>>
  /\ listening = FALSE
  /\ accept = {}
  /\ monitorPc = "unborn"
  /\ monitorRunning = FALSE
  /\ trackedDevpath = None
  /\ trackedTtyNode = None
  /\ dongleStatus = None

----------------------------------------------------------------------------
(* The USB bus and udev. *)

Plug(d) ==
  /\ plugged[d] = "out"
  /\ plugs < MaxPlugs
  /\ plugs' = plugs + 1
  /\ plugged' = [plugged EXCEPT ![d] = "usb"]
  /\ udevEvents' = Append(udevEvents, [action |-> "add", devpath |-> d])
  /\ UNCHANGED <<listening, accept, monitorPc, monitorRunning, trackVars>>

TtyAppears(d) ==
  /\ plugged[d] = "usb"
  /\ plugged' = [plugged EXCEPT ![d] = "tty"]
  /\ UNCHANGED <<plugs, udevEvents, listening, accept, monitorPc, monitorRunning, trackVars>>

Unplug(d) ==
  /\ plugged[d] # "out"
  /\ plugged' = [plugged EXCEPT ![d] = "out"]
  /\ udevEvents' = Append(udevEvents, [action |-> "remove", devpath |-> d])
  /\ UNCHANGED <<plugs, listening, accept, monitorPc, monitorRunning, trackVars>>

----------------------------------------------------------------------------
(* The sysattrs of a device that has gone cannot be read. *)
isZWaveDongle(d) == plugged[d] # "out" /\ d \in accept

findAttachedTtyNode(d) == IF plugged[d] = "tty" THEN d ELSE None

(* Track d and announce it, unless its tty node is not there yet. *)
Track(d) ==
  /\ trackedDevpath' = d
  /\ trackedTtyNode' = findAttachedTtyNode(d)
  /\ dongleStatus' = IF findAttachedTtyNode(d) = None THEN dongleStatus ELSE d

(* The worker raises the flag itself, although its creator already has. *)
MonitorBegin ==
  /\ monitorPc = "start"
  /\ monitorRunning' = TRUE
  /\ monitorPc' = "setup"
  /\ UNCHANGED <<deviceVars, listening, accept, trackVars>>

setupMonitor ==
  /\ monitorPc = "setup"
  /\ \/ listening' = TRUE /\ monitorPc' = "scan"
     \/ listening' = FALSE /\ monitorPc' = "done"       \* udev unavailable
  /\ UNCHANGED <<deviceVars, accept, monitorRunning, trackVars>>

findAlreadyInserted ==
  /\ monitorPc = "scan"
  /\ monitorPc' = "loop"
  /\ LET present == {d \in Dongles : isZWaveDongle(d)} IN
       IF present = {} THEN UNCHANGED trackVars ELSE \E d \in present : Track(d)
  /\ UNCHANGED <<deviceVars, listening, accept, monitorRunning>>

handleDeviceEvent_IgnoresRemove(event) ==
  IF event.action = "add" /\ isZWaveDongle(event.devpath) THEN Track(event.devpath)
  ELSE UNCHANGED trackVars

handleDeviceEvent(event) ==
  CASE event.action = "add" /\ isZWaveDongle(event.devpath) -> Track(event.devpath)
    [] event.action = "remove" /\ trackedDevpath = event.devpath ->
         /\ trackedDevpath' = None
         /\ trackedTtyNode' = None
         /\ dongleStatus' = None
    [] OTHER -> UNCHANGED trackVars

(* One iteration of the loop: select, receive one device and handle it. *)
runMonitorLoop ==
  /\ monitorPc = "loop"
  /\ monitorRunning
  /\ udevEvents # <<>>
  /\ handleDeviceEvent(Head(udevEvents))
  /\ udevEvents' = Tail(udevEvents)
  /\ UNCHANGED <<plugged, plugs, listening, accept, monitorPc, monitorRunning>>

MonitorStops ==
  /\ monitorPc = "loop"
  /\ ~monitorRunning
  /\ monitorPc' = "done"
  /\ UNCHANGED <<deviceVars, listening, accept, monitorRunning, trackVars>>

(* Nobody looks at the devices before the monitor listens: what happened to   *)
(* them until then is in their initial state.                                 *)
UsbStep == listening /\ \E d \in Dongles : Plug(d) \/ TtyAppears(d) \/ Unplug(d)

----------------------------------------------------------------------------
(* A dongle announced as connected is plugged in, once the queued events have *)
(* been handled.  The tracked devpath and the announced tty part company only *)
(* when a dongle was added before its tty node existed: the monitor then      *)
(* tracks the new dongle, does not announce it, and no longer reacts to the   *)
(* removal of the announced one (MonitorThread.cpp:277-295).                  *)
StatusFollowsDongle ==
  (monitorPc = "loop" /\ udevEvents = <<>> /\ (trackedTtyNode = trackedDevpath)) =>
    (dongleStatus # None => plugged[dongleStatus] # "out")

============================================================================
