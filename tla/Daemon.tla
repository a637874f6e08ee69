------------------------------- MODULE Daemon -------------------------------
(* The life of the process: constructors by priority, the signal handlers, the *)
(* main loop, and the destructors of the static states in reverse order        *)
(* (src/src/main.cpp, SignalHandler.cpp, external-api/ExternalApiThread.cpp,   *)
(* logger/Logger.cpp), with the monitor thread of DongleMonitor and the syslog *)
(* build's capture of the standard streams.                                    *)
EXTENDS DongleMonitor, FiniteSets, FiniteSetsExt, SequencesExt

CONSTANTS
  QUEUE_DRAIN_BATCH,   \* log entries taken per wake-up
  CAPTURE_CHUNK_BYTES, \* bytes read from the pipe at once
  MaxWrites            \* bound: signals, and writes of other code to stdout

VARIABLES
  pc,                \* the main thread: the constructor, destructor or loop it is in
  flag,              \* started with --version or --help
  file,              \* what the configuration file says: [level, accept]
  application,       \* runningState()
  stopAsked,         \* a termination signal arrived while runningState() was true
  configured,        \* the accept list of the retained DonglesConfig
  minLevel,          \* Logger's gate
  \* the logger
  loggerRunning, loggerPc, queue, batch, accepted, emitted,
  \* stdout, duplicated onto a pipe, and its reader thread
  writes, pipe, targetOpen, readerPc, buffer, captured, written,
  \* the external API thread
  extRunning, extPc

logVars == <<queue, accepted>>
loggerVars == <<loggerRunning, loggerPc, batch, emitted>>
captureVars == <<writes, pipe, targetOpen, readerPc, buffer, captured, written>>
extVars == <<extRunning, extPc>>
settings == <<flag, file, application, stopAsked, configured, minLevel>>
mainVars == <<pc, settings>>
daemonVars == <<mainVars, logVars, loggerVars, captureVars, extVars, monitorVars>>

INFO == 1
WARN == 2
ERROR == 3

(* Either the USB bus is at rest while output is logged, or devices come and  *)
(* go while the level keeps all but errors out of the log and one signal is   *)
(* still to come: the two families are explored apart to bound their product. *)
First == CHOOSE d \in Dongles : TRUE
Surroundings ==
  \/ /\ plugged = [d \in Dongles |-> "out"] /\ plugs = MaxPlugs
     /\ writes = 0
     /\ file = [level |-> INFO, accept |-> {}]
  \/ /\ plugged \in [Dongles -> {"out", "usb", "tty"}] /\ plugs = 0
     /\ \A d \in Dongles \ {First} : plugged[d] = "out"
     /\ writes = MaxWrites - 1
     /\ file = [level |-> ERROR, accept |-> Dongles]
     /\ flag = FALSE

DaemonInit ==
  /\ MonitorInit
  /\ Surroundings
  /\ pc = "Logger"
  /\ flag \in BOOLEAN
  /\ application = FALSE /\ stopAsked = FALSE
  /\ configured = {}
  /\ minLevel = INFO
  /\ loggerRunning = FALSE /\ loggerPc = "unborn"
  /\ queue = <<>> /\ batch = <<>> /\ accepted = 0 /\ emitted = <<>>
  /\ pipe = <<>> /\ targetOpen = FALSE /\ readerPc = "unborn"
  /\ buffer = <<>> /\ captured = 0 /\ written = <<>>
  /\ extRunning = FALSE /\ extPc = "unborn"

----------------------------------------------------------------------------
(* The logger.  Entries are numbered in the order in which they are accepted. *)

(* pushEntry, for the messages of the given levels, one after the other. *)
Log(levels) ==
  LET n == Len(SelectSeq(levels, LAMBDA l : l >= minLevel)) IN
    /\ queue' = queue \o [i \in 1 .. n |-> accepted + i]
    /\ accepted' = accepted + n

loggerThread_StopsAtOnce ==
  /\ loggerPc = "drain"
  /\ (queue # <<>> \/ ~loggerRunning)
  /\ LET take == Min({Len(queue), QUEUE_DRAIN_BATCH}) IN
       /\ batch' = SubSeq(queue, 1, take)
       /\ queue' = SubSeq(queue, take + 1, Len(queue))
  /\ loggerPc' = IF ~loggerRunning THEN "done" ELSE "emit"
  /\ UNCHANGED <<accepted, loggerRunning, emitted, mainVars, captureVars, extVars, monitorVars>>

(* Takes up to QUEUE_DRAIN_BATCH entries under the lock; ends only when there *)
(* were none and the destructor has asked for it.                             *)
loggerThread ==
  /\ loggerPc = "drain"
  /\ (queue # <<>> \/ ~loggerRunning)
  /\ LET take == Min({Len(queue), QUEUE_DRAIN_BATCH}) IN
       /\ batch' = SubSeq(queue, 1, take)
       /\ queue' = SubSeq(queue, take + 1, Len(queue))
  /\ loggerPc' = IF queue = <<>> /\ ~loggerRunning THEN "done" ELSE "emit"
  /\ UNCHANGED <<accepted, loggerRunning, emitted, mainVars, captureVars, extVars, monitorVars>>

(* The batch is written to the sink without the lock. *)
emit ==
  /\ loggerPc = "emit"
  /\ emitted' = emitted \o batch
  /\ batch' = <<>>
  /\ loggerPc' = "drain"
  /\ UNCHANGED <<logVars, loggerRunning, mainVars, captureVars, extVars, monitorVars>>

----------------------------------------------------------------------------
(* stdout in the syslog build.  A byte is "x" (text) or "n" (newline). *)

(* Any code of the process that prints: a byte sequence reaching fd 1. *)
WriteStdout(bytes) ==
  IF targetOpen THEN pipe' = pipe \o bytes /\ written' = written \o bytes
                ELSE UNCHANGED <<pipe, written>>

StrayWrite ==
  /\ pc = "loop"
  /\ writes < MaxWrites
  /\ writes' = writes + 1
  /\ \E bytes \in {<<"x">>, <<"n">>, <<"x", "n", "x">>} : WriteStdout(bytes)
  /\ UNCHANGED <<targetOpen, readerPc, buffer, captured, mainVars, logVars, loggerVars, extVars, monitorVars>>

(* The lines that a byte sequence completes, empty ones skipped, and the rest *)
(* after its last newline.                                                    *)
CompleteLines(bytes) ==
  Cardinality({i \in 2 .. Len(bytes) : bytes[i] = "n" /\ bytes[i - 1] = "x"})
AfterLastNewline(bytes) ==
  SubSeq(bytes, SelectLastInSeq(bytes, LAMBDA b : b = "n") + 1, Len(bytes))

(* Logger::log for each of the lines read. *)
Capture(lines) ==
  /\ captured' = captured + lines
  /\ Log([i \in 1 .. lines |-> INFO])

(* Reads a chunk and logs the lines it completes; at end of file logs the     *)
(* trailing partial line and ends.                                            *)
captureReaderLoop ==
  /\ readerPc = "read"
  /\ \/ /\ pipe # <<>>
        /\ LET got == Min({Len(pipe), CAPTURE_CHUNK_BYTES})
               bytes == buffer \o SubSeq(pipe, 1, got) IN
             /\ Capture(CompleteLines(bytes))
             /\ buffer' = AfterLastNewline(bytes)
             /\ pipe' = SubSeq(pipe, got + 1, Len(pipe))
        /\ UNCHANGED readerPc
     \/ /\ pipe = <<>> /\ ~targetOpen
        /\ Capture(IF buffer = <<>> THEN 0 ELSE 1)
        /\ buffer' = <<>>
        /\ readerPc' = "done"
        /\ UNCHANGED pipe
  /\ UNCHANGED <<writes, targetOpen, written, mainVars, loggerVars, extVars, monitorVars>>

----------------------------------------------------------------------------
(* Constructors, in the order of their priorities. *)

startLogger ==
  /\ pc = "Logger"
  /\ loggerRunning' = TRUE /\ loggerPc' = "drain"
  /\ targetOpen' = TRUE /\ readerPc' = "read"
  /\ pc' = "Config"
  /\ UNCHANGED <<settings, logVars, batch, emitted,
                 writes, pipe, buffer, captured, written, extVars, monitorVars>>

(* Config::load: its message is gated by the default level. *)
loadConfig ==
  /\ pc = "Config"
  /\ \E levels \in {<<INFO>>, <<ERROR>>} : Log(levels)
  /\ minLevel' = file.level
  /\ configured' = file.accept
  /\ pc' = "SignalHandler"
  /\ UNCHANGED <<flag, file, application, stopAsked, loggerVars, captureVars, extVars, monitorVars>>

registerHandlers ==
  /\ pc = "SignalHandler"
  /\ Log(<<INFO, INFO, INFO>>)
  /\ pc' = "runningState"
  /\ UNCHANGED <<settings, loggerVars, captureVars, extVars, monitorVars>>

setRunning ==
  /\ pc = "runningState"
  /\ application' = TRUE
  /\ pc' = "Monitor"
  /\ UNCHANGED <<flag, file, stopAsked, configured, minLevel, logVars, loggerVars, captureVars, extVars, monitorVars>>

(* The subscription replays the retained DonglesConfig before the thread is   *)
(* created.                                                                   *)
startZWaveMonitorThread ==
  /\ pc = "Monitor"
  /\ accept' = configured
  /\ monitorRunning' = TRUE /\ monitorPc' = "start"
  /\ pc' = "ExternalApi"
  /\ UNCHANGED <<settings, logVars, loggerVars, captureVars, extVars,
                 deviceVars, listening, trackVars>>

startExternalApiThread ==
  /\ pc = "ExternalApi"
  /\ extRunning' = TRUE /\ extPc' = "start"
  /\ pc' = "main"
  /\ UNCHANGED <<settings, logVars, loggerVars, captureVars, monitorVars>>

(* With --version or --help _exit(2) ends the process without destructors. *)
main ==
  /\ pc = "main"
  /\ IF flag THEN pc' = "_exit" /\ UNCHANGED logVars
             ELSE pc' = "loop" /\ Log(<<INFO>>)
  /\ UNCHANGED <<settings, loggerVars, captureVars, extVars, monitorVars>>

mainReturns ==
  /\ pc = "loop"
  /\ ~application
  /\ Log(<<INFO>>)
  /\ pc' = "~ExternalApi"
  /\ UNCHANGED <<settings, loggerVars, captureVars, extVars, monitorVars>>

----------------------------------------------------------------------------
(* Destructors of the static states, last constructed first. *)

destroyExternalApi_KeepsRunning ==
  /\ pc = "~ExternalApi"
  /\ pc' = "joinExternalApi"
  /\ UNCHANGED <<settings, logVars, loggerVars, captureVars, extVars, monitorVars>>

destroyExternalApi ==
  /\ pc = "~ExternalApi"
  /\ extRunning' = FALSE
  /\ pc' = "joinExternalApi"
  /\ UNCHANGED <<settings, logVars, loggerVars, captureVars, extPc, monitorVars>>

joinExternalApi ==
  /\ pc = "joinExternalApi"
  /\ extPc = "done"
  /\ Log(<<INFO>>)
  /\ pc' = "~Monitor"
  /\ UNCHANGED <<settings, loggerVars, captureVars, extVars, monitorVars>>

destroyMonitor ==
  /\ pc = "~Monitor"
  /\ monitorRunning' = FALSE
  /\ pc' = "joinMonitor"
  /\ UNCHANGED <<settings, logVars, loggerVars, captureVars, extVars,
                 deviceVars, listening, accept, monitorPc, trackVars>>

joinMonitor ==
  /\ pc = "joinMonitor"
  /\ monitorPc = "done"
  /\ Log(<<INFO>>)
  /\ pc' = "~Logger"
  /\ UNCHANGED <<settings, loggerVars, captureVars, extVars, monitorVars>>

(* joinCapture closes the duplicated descriptor, so the reader meets the end  *)
(* of the pipe.                                                               *)
closeTarget ==
  /\ pc = "~Logger"
  /\ targetOpen' = FALSE
  /\ pc' = "joinCapture"
  /\ UNCHANGED <<settings, logVars, loggerVars,
                 writes, pipe, readerPc, buffer, captured, written, extVars, monitorVars>>

joinCapture ==
  /\ pc = "joinCapture"
  /\ readerPc = "done"
  /\ loggerRunning' = FALSE
  /\ pc' = "joinLogger"
  /\ UNCHANGED <<settings, logVars, loggerPc, batch, emitted,
                 captureVars, extVars, monitorVars>>

joinLogger ==
  /\ pc = "joinLogger"
  /\ loggerPc = "done"
  /\ pc' = "exited"
  /\ UNCHANGED <<settings, logVars, loggerVars, captureVars, extVars, monitorVars>>

----------------------------------------------------------------------------
(* Signals, from the registration of the handlers on.  The handlers print.    *)

Registered == pc \notin {"Logger", "Config", "SignalHandler"}

handleSignal(asked) ==
  /\ Registered
  /\ writes < MaxWrites
  /\ writes' = writes + 1
  /\ WriteStdout(<<"n", "x", "n", "x", "n">>)
  /\ application' = (application /\ ~asked)
  /\ stopAsked' = (stopAsked \/ (asked /\ application))
  /\ UNCHANGED <<pc, flag, file, configured, minLevel, logVars, loggerVars,
                 targetOpen, readerPc, buffer, captured, extVars, monitorVars>>

handleSignalHUP == handleSignal(FALSE)
handleSignalTERM == handleSignal(TRUE)

----------------------------------------------------------------------------
(* The external API thread: creates the backend, connects it to the bus, and  *)
(* serves until its flag falls.                                               *)
acquireBusName ==
  \/ extPc' = "serve" /\ Log(<<INFO>>)
  \/ extPc' = "done" /\ Log(<<ERROR, INFO>>)     \* bus name not acquired

externalApiThread ==
  /\ extPc = "start"
  /\ acquireBusName
  /\ UNCHANGED <<mainVars, loggerVars, captureVars, extRunning, monitorVars>>

serveUntilStopped ==
  /\ extPc = "serve"
  /\ ~extRunning
  /\ extPc' = "done"
  /\ Log(<<INFO>>)
  /\ UNCHANGED <<mainVars, loggerVars, captureVars, extRunning, monitorVars>>

(* The monitor's own steps with what each of them logs. *)
TrackLogs == <<INFO, IF trackedTtyNode' = None THEN WARN ELSE INFO>>
zwaveMonitorThread ==
  /\ \/ MonitorBegin /\ UNCHANGED logVars
     \/ setupMonitor /\ Log(IF monitorPc' = "done" THEN <<ERROR>> ELSE <<>>)
     \/ findAlreadyInserted /\ Log((IF trackedDevpath' = None THEN <<>> ELSE TrackLogs) \o <<INFO>>)
     \/ runMonitorLoop /\ Log(IF Head(udevEvents).action = "add"
                              THEN IF isZWaveDongle(Head(udevEvents).devpath) THEN TrackLogs ELSE <<>>
                              ELSE IF trackedDevpath' = trackedDevpath THEN <<>>
                              ELSE IF trackedTtyNode = None THEN <<INFO>> ELSE <<INFO, INFO>>)
     \/ MonitorStops /\ Log(<<INFO>>)
  /\ UNCHANGED <<mainVars, loggerVars, captureVars, extVars>>

(* Bound: devices come and go while the main thread is in its loop. *)
UsbEnvironment == pc = "loop" /\ UsbStep /\ UNCHANGED <<mainVars, logVars, loggerVars, captureVars, extVars>>

----------------------------------------------------------------------------
MainThread ==
  \/ startLogger \/ loadConfig \/ registerHandlers \/ setRunning
  \/ startZWaveMonitorThread \/ startExternalApiThread \/ main \/ mainReturns
  \/ destroyExternalApi \/ joinExternalApi \/ destroyMonitor \/ joinMonitor
  \/ closeTarget \/ joinCapture \/ joinLogger

Running == pc \notin {"_exit", "exited"}

Threads ==
  \/ MainThread
  \/ loggerThread \/ emit \/ captureReaderLoop
  \/ externalApiThread \/ serveUntilStopped \/ zwaveMonitorThread

DaemonNext ==
  /\ Running
  /\ Threads \/ StrayWrite \/ handleSignalHUP \/ handleSignalTERM \/ UsbEnvironment

----------------------------------------------------------------------------
(* No log entry is lost, repeated or reordered on its way through queue and   *)
(* batch, and all of them have been written when the process has run its      *)
(* destructors: the consumer ends only on an empty queue, after every         *)
(* producer has been joined (Logger.cpp:361-402), and from ~LoggerState on no *)
(* thread logs but the reader it joins itself.  Whatever the sizes of the     *)
(* chunks in which the reader receives stdout, it has then logged each        *)
(* non-empty line once, the unfinished last one included (:278-314).          *)
LogComplete ==
  /\ emitted \o batch \o queue = [i \in 1 .. accepted |-> i]
  /\ pc = "exited" => Len(emitted) = accepted
  /\ pc \in {"~Logger", "joinCapture", "joinLogger", "exited"} => monitorPc = "done" /\ extPc = "done"
  /\ loggerPc = "done" => queue = <<>> /\ readerPc = "done"
  /\ readerPc = "done" =>
       captured = Cardinality({i \in 1 .. Len(written) : written[i] = "x" /\ (i = 1 \/ written[i - 1] = "n")})

(* A termination signal taken in the main loop ends the process, once the     *)
(* monitor thread has begun.  It does not hold before: a worker that starts   *)
(* after ~ZwaveMonitorState has lowered the flag raises it again              *)
(* (MonitorThread.cpp:336), and the join never returns.                       *)
TermStops ==
  (stopAsked /\ pc = "loop" /\ monitorPc \notin {"unborn", "start"}) ~> (pc = "exited")

============================================================================
