------------------------------ MODULE Broadcast ------------------------------
(***************************************************************************)
(* What the message bus promises its users: to publish is to broadcast.   *)
(* In one step an event becomes the topic's current value, if the topic   *)
(* is retained, and is owed to everyone subscribed to it at that moment;  *)
(* a new subscriber of a retained topic is owed its current value.        *)
(***************************************************************************)
CONSTANTS Topics, Retained, Subscribers, Events, Nothing

VARIABLES
  register,   \* current value of each retained topic
  members,    \* who is subscribed to each topic
  inbox       \* the events each subscriber has been given, or is owed while subscribed

broadcastVars == <<register, members, inbox>>

Publish(topic, event) ==
  /\ register' = IF topic \in Retained THEN [register EXCEPT ![topic] = event] ELSE register
  /\ inbox' = [s \in Subscribers |->
                 IF s \in members[topic] THEN inbox[s] \cup {event} ELSE inbox[s]]
  /\ UNCHANGED members

Subscribe(topic, s) ==
  /\ \A t \in Topics : s \notin members[t]
  /\ members' = [members EXCEPT ![topic] = @ \cup {s}]
  /\ inbox' = [inbox EXCEPT ![s] = @ \cup ({register[topic]} \ {Nothing})]
  /\ UNCHANGED register

\* A subscriber that has left keeps what it was given and is given nothing more.
Unsubscribe(topic, s) ==
  /\ s \in members[topic]
  /\ members' = [members EXCEPT ![topic] = @ \ {s}]
  /\ \E given \in SUBSET inbox[s] : inbox' = [inbox EXCEPT ![s] = given]
  /\ UNCHANGED register

BroadcastInit ==
  /\ register = [t \in Topics |-> Nothing]
  /\ members = [t \in Topics |-> {}]
  /\ inbox = [s \in Subscribers |-> {}]

BroadcastNext ==
  \E topic \in Topics :
    \/ \E event \in Events : Publish(topic, event)
    \/ \E s \in Subscribers : Subscribe(topic, s) \/ Unsubscribe(topic, s)

BroadcastSpec == BroadcastInit /\ [][BroadcastNext]_broadcastVars
=============================================================================
