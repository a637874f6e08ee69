---------------------------- MODULE MCMessageBus ----------------------------
(* An instance of MessageBus: the daemon's start (main), its protocol and   *)
(* D-Bus threads, with the handlers and stores that nest the most.          *)
EXTENDS MessageBus, TLC

\* decap and translator: cc-translator; recorder: NodeValues; thermostat:
\* ThermostatOrchestrator; cache: DBusBackend; a store subscribes by its name.
MCTopicOf ==
  "translator" :> "ApplicationCommand" @@ "recorder" :> "DongleInfo" @@
  "thermostat" :> "ModeCommand" @@ "cache" :> "DongleInfo" @@ "mirror" :> "Report" @@
  "NodeValues" :> "StorageConfig" @@ "NodeMetadata" :> "StorageConfig"
MCScript(s, event) ==
  CASE s = "translator" -> IF event.wrapped THEN <<Pub("ApplicationCommand", FALSE)>>
                           ELSE <<Pub("Report", FALSE)>>
    [] s = "recorder" -> <<Use("NodeValues")>>
    [] s = "thermostat" -> <<Use("NodeMetadata"), Pub("Report", FALSE)>>
    [] s = "mirror" -> <<Use("NodeMetadata")>>
    [] OTHER -> <<>>

Main == <<Pub("StorageConfig", FALSE), Sub("translator"), Sub("recorder"), Sub("thermostat"), Sub("mirror")>>
Protocol == <<Use("NodeMetadata"), Pub("DongleInfo", FALSE), Pub("ApplicationCommand", TRUE)>>
DBus == <<Sub("cache"), Pub("ModeCommand", FALSE), Use("NodeValues"), Unsub("cache")>>
Replug == <<Pub("DongleInfo", FALSE), Pub("DongleInfo", FALSE)>>
MCPrograms == {
  "main" :> Main @@ "protocol" :> Protocol @@ "dbus" :> DBus,
  "main" :> SubSeq(Main, 1, 3) @@ "protocol" :> Replug @@ "dbus" :> DBus}
=============================================================================
