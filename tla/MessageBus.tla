------------------------------ MODULE MessageBus ------------------------------
(***************************************************************************)
(* The in-process bus: publish, subscribe and unsubscribe under one       *)
(* recursive mutex, with synchronous dispatch on the publisher's thread   *)
(* and handlers that publish, subscribe and use the lazily constructed    *)
(* stores in turn.                                                         *)
(*                                                                         *)
(* Every thread has a stack of frames.  The lowest runs what the thread   *)
(* itself does; each further frame is a dispatch in progress.  A frame    *)
(* holds the operations still to be done by the code it is running, and   *)
(* the subscribers still to be called.  The mutex is held by a thread     *)
(* exactly while it has a dispatch on its stack.                           *)
(***************************************************************************)
EXTENDS Naturals, Sequences, Functions

CONSTANTS Threads,
          Topics, Retained,   \* event types, and those with IsRetained
          TopicOf,            \* subscriber: the topic it subscribes to
          Stores,             \* singletons behind a call_once
          Programs,           \* what the threads do: functions to sequences of operations
          Script(_, _),       \* what a subscriber does with an event
          Nothing,
          MaxEvents           \* bound: events published

Subscribers == DOMAIN TopicOf
Events == [id : 1 .. MaxEvents, wrapped : BOOLEAN]

\* Operations.
Pub(topic, wrapped) == [op |-> "publish", arg |-> topic, wrapped |-> wrapped]
Sub(s) == [op |-> "subscribe", arg |-> s, wrapped |-> FALSE]
Unsub(s) == [op |-> "unsubscribe", arg |-> s, wrapped |-> FALSE]
Remover(s) == [op |-> "remover", arg |-> s, wrapped |-> FALSE]
Use(store) == [op |-> "instance", arg |-> store, wrapped |-> FALSE]
Ready(store) == [op |-> "ready", arg |-> store, wrapped |-> FALSE]

\* What threads and handlers are written to do.
Operations ==
  [op : {"publish"}, arg : Topics, wrapped : BOOLEAN]
    \cup [op : {"subscribe", "unsubscribe"}, arg : Subscribers, wrapped : {FALSE}]
    \cup [op : {"instance"}, arg : Stores, wrapped : {FALSE}]

ASSUME ConstantsAssumption ==
  /\ TopicOf \in [Subscribers -> Topics] /\ Stores \subseteq Subscribers /\ Retained \subseteq Topics
  /\ MaxEvents \in Nat
  /\ Nothing \notin Threads /\ Nothing \notin Events
  /\ "free" \notin Threads /\ "done" \notin Threads

\* A name stands for one subscription, as a SubscriptionId does: one thread
\* makes it, once.  A store subscribes in instance() only, and handlers
\* subscribe only through the stores they use.
ASSUME ProgramsAssumption ==
  /\ \A program \in Programs :
       /\ program \in [Threads -> Seq(Operations)]
       /\ \A t, u \in Threads : \A i \in DOMAIN program[t], j \in DOMAIN program[u] :
            program[t][i].op = "subscribe" =>
              /\ program[t][i].arg \notin Stores
              /\ program[u][j].op = "subscribe" /\ program[u][j].arg = program[t][i].arg =>
                   t = u /\ i = j
  /\ \A s \in Subscribers, event \in Events :
       /\ Script(s, event) \in Seq(Operations)
       /\ \A i \in DOMAIN Script(s, event) : Script(s, event)[i].op # "subscribe"

VARIABLES
  stack,      \* the frames of each thread, the innermost last
  owner,      \* BusState::mutex
  callbacks,  \* Topic::callbacks, in the order of subscription
  retained,   \* Topic::retained
  removers,   \* BusState::removers
  once,       \* the once_flag of each store: free, done, or the thread inside
  published,  \* events so far
  received    \* history: what each subscriber was called with

busVars == <<stack, owner, callbacks, retained, removers, once, published, received>>

Frame(topic, event, todo, ops) == [topic |-> topic, event |-> event, todo |-> todo, ops |-> ops]
Depth(t) == Len(stack[t])
Top(t) == stack[t][Depth(t)]
Dispatching(t) == Depth(t) > 1
\* The mutex is recursive.
MayLock_PlainMutex(t) == owner = Nothing
MayLock(t) == owner \in {Nothing, t}

\* The operation `rest' replaces the one that thread t is at.
Rest(t, rest) == [Top(t) EXCEPT !.ops = rest \o Tail(@)]
At(t, op) == Top(t).ops # <<>> /\ Head(Top(t).ops).op = op
Arg(t) == Head(Top(t).ops).arg
Continue(t, rest) == stack' = [stack EXCEPT ![t][Depth(t)] = Rest(t, rest)]
Enter(t, frame) ==
  stack' = [stack EXCEPT ![t] = Append([@ EXCEPT ![Depth(t)] = Rest(t, <<>>)], frame)]

-----------------------------------------------------------------------------
(* publish: the retained value is set, then the callbacks are called in   *)
(* order, on this thread, with the mutex held.  A callback list calls     *)
(* those that were in it when the call began and still are.               *)

RetainedAfter_KeepsFirst(topic, event) ==
  IF topic \in Retained /\ retained[topic] = Nothing
  THEN [retained EXCEPT ![topic] = event] ELSE retained
RetainedAfter(topic, event) ==
  IF topic \in Retained THEN [retained EXCEPT ![topic] = event] ELSE retained
publish(t) ==
  /\ At(t, "publish") /\ MayLock(t) /\ published < MaxEvents
  /\ LET topic == Arg(t)
         event == [id |-> published + 1, wrapped |-> Head(Top(t).ops).wrapped]
     IN  /\ owner' = t
         /\ retained' = RetainedAfter(topic, event)
         /\ Enter(t, Frame(topic, event, callbacks[topic], <<>>))
  /\ published' = published + 1
  /\ UNCHANGED <<callbacks, removers, once, received>>

Stays_Snapshot(s, topic) == TRUE
Stays(s, topic) == s \in Range(callbacks[topic])

Dispatch(t) ==
  /\ Dispatching(t) /\ Top(t).ops = <<>> /\ Top(t).todo # <<>>
  /\ LET s == Head(Top(t).todo)
         f == [Top(t) EXCEPT !.todo = Tail(@)]
     IN  IF Stays(s, f.topic)
         THEN /\ received' = [received EXCEPT ![s] = Append(@, f.event)]
              /\ stack' = [stack EXCEPT ![t][Depth(t)] = [f EXCEPT !.ops = Script(s, f.event)]]
         ELSE /\ stack' = [stack EXCEPT ![t][Depth(t)] = f]
              /\ UNCHANGED received
  /\ UNCHANGED <<owner, callbacks, retained, removers, once, published>>

\* The outermost dispatch releases the mutex.
OwnerAfter(t) == IF Depth(t) = 2 THEN Nothing ELSE t
Return(t) ==
  /\ Dispatching(t) /\ Top(t).ops = <<>> /\ Top(t).todo = <<>>
  /\ stack' = [stack EXCEPT ![t] = SubSeq(@, 1, Depth(t) - 1)]
  /\ owner' = OwnerAfter(t)
  /\ UNCHANGED <<callbacks, retained, removers, once, published, received>>

\* subscribe: appended, then called with a copy of the retained value.
Replay(s) == retained[TopicOf[s]] # Nothing
subscribe(t) ==
  /\ At(t, "subscribe") /\ MayLock(t)
  /\ LET s == Arg(t)
         topic == TopicOf[s]
     IN  /\ callbacks' = [callbacks EXCEPT ![topic] = Append(@, s)]
         /\ removers' = removers \cup {s}
         /\ IF Replay(s)
            THEN owner' = t /\ Enter(t, Frame(topic, retained[topic], <<s>>, <<>>))
            ELSE Continue(t, <<>>) /\ UNCHANGED owner
  /\ UNCHANGED <<retained, once, published, received>>

\* unsubscribe: the remover is taken under the mutex and called after it
\* has been released.
unsubscribe(t) ==
  /\ At(t, "unsubscribe") /\ MayLock(t)
  /\ removers' = removers \ {Arg(t)}
  /\ Continue(t, IF Arg(t) \in removers THEN <<Remover(Arg(t))>> ELSE <<>>)
  /\ UNCHANGED <<owner, callbacks, retained, once, published, received>>
\* The remover holds the handle of one entry of the list.
Without(list, s) ==
  LET at == CHOOSE i \in DOMAIN list : list[i] = s
  IN  IF s \in Range(list)
      THEN [i \in 1 .. Len(list) - 1 |-> IF i < at THEN list[i] ELSE list[i + 1]]
      ELSE list
remover(t) ==
  /\ At(t, "remover")
  /\ callbacks' = [callbacks EXCEPT ![TopicOf[Arg(t)]] = Without(@, Arg(t))]
  /\ Continue(t, <<>>)
  /\ UNCHANGED <<owner, retained, removers, once, published, received>>

-----------------------------------------------------------------------------
(* instance() of a store: the first caller subscribes to StorageConfig    *)
(* inside call_once, the others wait until it is done.                    *)

instance(t) ==
  /\ At(t, "instance") /\ once[Arg(t)] \in {"free", "done"}
  /\ once' = IF once[Arg(t)] = "free" THEN [once EXCEPT ![Arg(t)] = t] ELSE once
  /\ Continue(t, IF once[Arg(t)] = "free" THEN <<Sub(Arg(t)), Ready(Arg(t))>> ELSE <<>>)
  /\ UNCHANGED <<owner, callbacks, retained, removers, published, received>>
ready(t) ==
  /\ At(t, "ready")
  /\ once' = [once EXCEPT ![Arg(t)] = "done"]
  /\ Continue(t, <<>>)
  /\ UNCHANGED <<owner, callbacks, retained, removers, published, received>>

-----------------------------------------------------------------------------
Init ==
  /\ \E program \in Programs :
       stack = [t \in Threads |-> <<Frame(Nothing, Nothing, <<>>, program[t])>>]
  /\ owner = Nothing
  /\ callbacks = [topic \in Topics |-> <<>>]
  /\ retained = [topic \in Topics |-> Nothing]
  /\ removers = {} /\ published = 0
  /\ once = [store \in Stores |-> "free"]
  /\ received = [s \in Subscribers |-> <<>>]

Step(t) ==
  \/ publish(t) \/ Dispatch(t) \/ Return(t)
  \/ subscribe(t) \/ unsubscribe(t) \/ remover(t)
  \/ instance(t) \/ ready(t)

Next == \E t \in Threads : Step(t)
Spec == Init /\ [][Next]_busVars

\* Each thread keeps running while it is not blocked.
FairSpec == Spec /\ \A t \in Threads : WF_busVars(Step(t))

-----------------------------------------------------------------------------
\* The calls a subscriber still has to get: a dispatch on some thread has it
\* to do.
Due(s, t, i) == s \in Range(stack[t][i].todo)
Owed(s) ==
  {event \in Events : \E t \in Threads : \E i \in DOMAIN stack[t] : Due(s, t, i) /\ stack[t][i].event = event}

Members == [topic \in Topics |-> Range(callbacks[topic])]
Inbox ==
  [s \in Subscribers |->
     Range(received[s]) \cup IF s \in Range(callbacks[TopicOf[s]]) THEN Owed(s) ELSE {}]
Abstract == INSTANCE Broadcast WITH register <- retained, members <- Members, inbox <- Inbox

\* publish behaves as one atomic broadcast, whatever the handlers publish and
\* subscribe to while it runs and whatever other threads do: an event is
\* owed from its publication on to exactly those subscribed at that moment,
\* a late subscriber of a retained topic is owed the current value, none of
\* it is lost or invented on the way (MessageBus.hpp:16-30), and after
\* unsubscribe no call to the handler begins, although the remover runs
\* outside the mutex and a dispatch that includes the handler may be under
\* way on another thread (MessageBus.cpp:18-33).
Broadcasts == Abstract!BroadcastSpec

\* Once a subscriber of a retained topic has no call outstanding, the last
\* value it was called with is the topic's current value: a late starter, a
\* handler that subscribes within a dispatch, and a publish in between never
\* leave a subscriber with an older state (MessageBusInternal.hpp:79-101).
\* No handler of the daemon publishes a retained topic within its own dispatch
\* of it; one that did would end the outer dispatch with the older value.
RetainedIsLatest ==
  \A topic \in Retained : \A s \in Range(callbacks[topic]) :
    retained[topic] # Nothing /\ Owed(s) = {} =>
      received[s] # <<>> /\ received[s][Len(received[s])] = retained[topic]

FirstUseCycle ==
  \E t, u \in Threads :
    /\ t # u /\ owner = u /\ At(u, "instance") /\ once[Arg(u)] = t
    /\ At(t, "subscribe") /\ Arg(t) = Arg(u)
Finished(t) == ~Dispatching(t) /\ Top(t).ops = <<>>

\* Every thread comes to the end of what it does: no dispatch goes on for
\* ever and nothing blocks for good on the bus, with handlers nested to any
\* depth, except in one way: a thread that is constructing a store waits for
\* the bus, and the thread that holds the bus waits in a handler for that
\* store (NodeMetadata.cpp:247-258).
ThreadsFinish == <>(FirstUseCycle \/ \A t \in Threads : Finished(t))
=============================================================================
