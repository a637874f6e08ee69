--------------------------- MODULE MessageBusProofs ---------------------------
(* That the bus implements an atomic broadcast (Broadcast), and that a       *)
(* retained topic leaves no subscriber behind, for all programs, handlers    *)
(* and stores.                                                               *)
EXTENDS MessageBus, SequenceTheorems, TLAPS

Op ==
  Operations \cup [op : {"remover"}, arg : Subscribers, wrapped : {FALSE}]
    \cup [op : {"ready"}, arg : Stores, wrapped : {FALSE}]
FrameType ==
  [topic : Topics \cup {Nothing}, event : Events \cup {Nothing},
   todo : Seq(Subscribers), ops : Seq(Op)]

\* The variables have their types; the lowest frame of a thread never goes.
StackType ==
  /\ stack \in [Threads -> Seq(FrameType)]
  /\ \A t \in Threads : Len(stack[t]) >= 1
BusType ==
  /\ StackType
  /\ owner \in Threads \cup {Nothing}
  /\ callbacks \in [Topics -> Seq(Subscribers)]
  /\ retained \in [Topics -> Events \cup {Nothing}]
  /\ removers \subseteq Subscribers
  /\ once \in [Stores -> Threads \cup {"free", "done"}]
  /\ published \in 0 .. MaxEvents
  /\ received \in [Subscribers -> Seq(Events)]

\* A frame above the lowest is a dispatch of an event, to subscribers of its
\* topic.
FrameInv ==
  \A t \in Threads : \A i \in 1 .. Len(stack[t]) :
    /\ i > 1 => stack[t][i].topic \in Topics /\ stack[t][i].event \in Events
    /\ \A s \in Subscribers : Due(s, t, i) => TopicOf[s] = stack[t][i].topic

\* A callback list has the subscribers of its topic, each once.
ListInv ==
  \A topic \in Topics :
    /\ \A k \in DOMAIN callbacks[topic] : TopicOf[callbacks[topic][k]] = topic
    /\ \A k, l \in DOMAIN callbacks[topic] : callbacks[topic][k] = callbacks[topic][l] => k = l

\* Operation k of frame i of thread t is to subscribe s.
Asks(s, t, i, k) ==
  /\ i \in 1 .. Len(stack[t]) /\ k \in DOMAIN stack[t][i].ops
  /\ stack[t][i].ops[k].op = "subscribe" /\ stack[t][i].ops[k].arg = s
Unused(s) ==
  /\ s \notin Range(callbacks[TopicOf[s]])
  /\ \A t \in Threads : \A i \in 1 .. Len(stack[t]) : ~Due(s, t, i)
Unasked(s) == \A t \in Threads : \A i, k \in Nat : ~Asks(s, t, i, k)

\* Nobody who is still to subscribe is subscribed, or being called; and it
\* will subscribe once.
FreshInv ==
  \A s \in Subscribers :
    /\ \A t, u \in Threads : \A i, j, k, l \in Nat :
         Asks(s, t, i, k) /\ Asks(s, u, j, l) => t = u /\ i = j /\ k = l
    /\ Unasked(s) \/ Unused(s)
    /\ s \in Stores /\ once[s] = "free" => Unasked(s) /\ Unused(s)

BusInv == BusType /\ FrameInv /\ ListInv /\ FreshInv

\* The mutex is held by the thread that dispatches, and by no other.
LockInv == \A t \in Threads : Len(stack[t]) > 1 <=> owner = t

\* A dispatch of a retained topic that still has callbacks to call carries
\* the topic's current value.
CurrentInv ==
  \A t \in Threads : \A i \in 2 .. Len(stack[t]) :
    stack[t][i].topic \in Retained => stack[t][i].event = retained[stack[t][i].topic]
\* Whoever is subscribed to a retained topic with a value is still to be
\* called, or was last called with that value.
Told(s) ==
  \/ \E t \in Threads : \E i \in 2 .. Len(stack[t]) : Due(s, t, i)
  \/ received[s] # <<>> /\ received[s][Len(received[s])] = retained[TopicOf[s]]
ToldInv ==
  \A s \in Subscribers :
    /\ TopicOf[s] \in Retained /\ s \in Range(callbacks[TopicOf[s]])
    /\ retained[TopicOf[s]] # Nothing
    => Told(s)
LatestInv == LockInv /\ CurrentInv /\ ToldInv

\* No handler publishes a retained topic that its own thread is dispatching.
NotReentered ==
  \A t \in Threads :
    publish(t) /\ Arg(t) \in Retained => \A i \in 2 .. Len(stack[t]) : stack[t][i].topic # Arg(t)

-----------------------------------------------------------------------------
(* What a step does to a stack: the top frame of one thread becomes g, with  *)
(* a frame put on it, or it goes.                                            *)

Kept(t, d) ==
  /\ \A u \in Threads : u # t => stack'[u] = stack[u]
  /\ \A i \in 1 .. d : stack'[t][i] = stack[t][i]
Becomes(t, g) ==
  /\ StackType' /\ Kept(t, Depth(t) - 1)
  /\ Len(stack'[t]) = Depth(t) /\ stack'[t][Depth(t)] = g
Pushed(t, g, f) ==
  /\ StackType' /\ Kept(t, Depth(t) - 1)
  /\ Len(stack'[t]) = Depth(t) + 1 /\ stack'[t][Depth(t)] = g /\ stack'[t][Depth(t) + 1] = f
Popped(t) ==
  /\ StackType' /\ Kept(t, Depth(t) - 1)
  /\ Len(stack'[t]) = Depth(t) - 1

\* A thread is at its innermost frame.
LEMMA TopFrame ==
  ASSUME StackType, NEW t \in Threads
  PROVE  /\ Depth(t) = Len(stack[t]) /\ Len(stack[t]) \in Nat /\ Depth(t) >= 1
         /\ Depth(t) \in 1 .. Len(stack[t]) /\ Top(t) = stack[t][Depth(t)]
         /\ Top(t) \in FrameType /\ Top(t).todo \in Seq(Subscribers) /\ Top(t).ops \in Seq(Op)
<1>1. stack[t] \in Seq(FrameType) /\ Len(stack[t]) >= 1
  BY DEF StackType
<1>2. Top(t) \in FrameType
  BY <1>1 DEF Top, Depth
<1>3. Top(t).todo \in Seq(Subscribers) /\ Top(t).ops \in Seq(Op)
  BY <1>2 DEF FrameType
<1> QED
  BY <1>1, <1>2, <1>3 DEF Top, Depth

\* A frame above the lowest is a frame.
LEMMA AboveIsFrame ==
  ASSUME NEW n \in Nat, NEW i \in 2 .. n
  PROVE  i \in 1 .. n /\ i > 1
  OBVIOUS

\* The indices of a sequence.
LEMMA SeqIndices ==
  ASSUME NEW S, NEW q \in Seq(S)
  PROVE  DOMAIN q = 1 .. Len(q) /\ Len(q) \in Nat
  OBVIOUS

\* A program's own subscriptions are of no store.
LEMMA NotAStore ==
  ASSUME NEW program \in Programs, NEW t \in Threads, NEW k \in DOMAIN program[t],
         program[t][k].op = "subscribe"
  PROVE  program[t][k].arg \notin Stores
  BY ProgramsAssumption

\* Whoever is on the list of a topic has that topic.
LEMMA ListedUnder ==
  ASSUME ListInv, NEW topic \in Topics, NEW s \in Range(callbacks[topic])
  PROVE  TopicOf[s] = topic
  BY DEF ListInv, Range

\* What was appended is last.
LEMMA LastAppended ==
  ASSUME NEW S, NEW q \in Seq(S), NEW e
  PROVE  Append(q, e) # <<>> /\ Append(q, e)[Len(Append(q, e))] = e
  OBVIOUS

\* What is in a sequence of one, and of none.
LEMMA RangeOfOne ==
  ASSUME NEW x
  PROVE  Range(<<x>>) = {x} /\ Range(<<>>) = {}
  BY DEF Range

\* Where a step replaces or drops the top frame of one thread, the frames
\* below it, and those of the other threads, are as they were.
LEMMA BelowKept ==
  ASSUME StackType, NEW t \in Threads, Kept(t, Depth(t) - 1),
         Len(stack'[t]) \in {Depth(t), Depth(t) - 1},
         NEW u \in Threads, NEW i \in 1 .. Len(stack'[u]), ~(u = t /\ i = Depth(t))
  PROVE  i \in 1 .. Len(stack[u]) /\ stack'[u][i] = stack[u][i]
<1>1. CASE u # t
  BY <1>1, Zenon DEF Kept
<1>2. CASE u = t
  <2>1. i \in 1 .. Depth(t) - 1 /\ i \in 1 .. Len(stack[t])
    BY <1>2, TopFrame
  <2> QED
    BY <1>2, <2>1, Zenon DEF Kept
<1> QED
  BY <1>1, <1>2, Zenon

\* A replaced top frame leaves the rest of the stacks alone (Dispatch, and
\* every operation that opens no dispatch).
LEMMA BecomesFrom ==
  ASSUME StackType, NEW t \in Threads, NEW g \in FrameType,
         stack' = [stack EXCEPT ![t][Depth(t)] = g]
  PROVE  Becomes(t, g)
<1>1. stack[t] \in Seq(FrameType) /\ Depth(t) \in Nat /\ Depth(t) >= 1
  BY DEF StackType, Depth
<1>2. [stack[t] EXCEPT ![Depth(t)] = g] \in Seq(FrameType)
  BY <1>1, ExceptSeq DEF Depth
<1>3. stack' = [stack EXCEPT ![t] = [stack[t] EXCEPT ![Depth(t)] = g]]
  OBVIOUS
<1>4. stack'[t] = [stack[t] EXCEPT ![Depth(t)] = g] /\ \A u \in Threads : u # t => stack'[u] = stack[u]
  BY <1>3 DEF StackType
<1>5. Len(stack'[t]) = Depth(t) /\ stack'[t][Depth(t)] = g
        /\ \A i \in 1 .. Depth(t) - 1 : stack'[t][i] = stack[t][i]
  BY <1>1, <1>4, ExceptSeq DEF Depth
<1>6. StackType'
  BY <1>1, <1>2, <1>3, <1>4, <1>5 DEF StackType
<1> QED
  BY <1>4, <1>5, <1>6 DEF Becomes, Kept

\* An entered dispatch is put on the stack (Enter).
LEMMA PushedFrom ==
  ASSUME StackType, NEW t \in Threads, NEW g \in FrameType, NEW f \in FrameType,
         stack' = [stack EXCEPT ![t] = Append([@ EXCEPT ![Depth(t)] = g], f)]
  PROVE  Pushed(t, g, f)
<1> DEFINE low == [stack[t] EXCEPT ![Depth(t)] = g]
<1>1. stack[t] \in Seq(FrameType) /\ Depth(t) \in Nat /\ Depth(t) >= 1
  BY DEF StackType, Depth
<1>2. low \in Seq(FrameType) /\ Len(low) = Depth(t) /\ low[Depth(t)] = g
        /\ \A i \in 1 .. Depth(t) - 1 : low[i] = stack[t][i]
  BY <1>1, ExceptSeq DEF Depth
<1>3. stack' = [stack EXCEPT ![t] = Append(low, f)]
  OBVIOUS
<1>4. stack'[t] = Append(low, f) /\ \A u \in Threads : u # t => stack'[u] = stack[u]
  BY <1>3 DEF StackType
<1> HIDE DEF low
<1>5. Append(low, f) \in Seq(FrameType) /\ Len(Append(low, f)) = Depth(t) + 1
        /\ Append(low, f)[Depth(t) + 1] = f
        /\ \A i \in 1 .. Depth(t) : Append(low, f)[i] = low[i]
  BY <1>1, <1>2, AppendProperties
<1>6. StackType'
  BY <1>1, <1>3, <1>4, <1>5 DEF StackType
<1> QED
  BY <1>1, <1>2, <1>4, <1>5, <1>6 DEF Pushed, Kept

\* A finished dispatch is taken off the stack (Return).
LEMMA PoppedFrom ==
  ASSUME StackType, NEW t \in Threads, Depth(t) > 1,
         stack' = [stack EXCEPT ![t] = SubSeq(@, 1, Depth(t) - 1)]
  PROVE  Popped(t)
<1>1. stack[t] \in Seq(FrameType) /\ Depth(t) \in Nat /\ Depth(t) = Len(stack[t])
  BY DEF StackType, Depth
<1>2. SubSeq(stack[t], 1, Depth(t) - 1) \in Seq(FrameType)
        /\ Len(SubSeq(stack[t], 1, Depth(t) - 1)) = Depth(t) - 1
        /\ \A i \in 1 .. Depth(t) - 1 : SubSeq(stack[t], 1, Depth(t) - 1)[i] = stack[t][i]
  BY <1>1, SubSeqProperties
<1>3. stack'[t] = SubSeq(stack[t], 1, Depth(t) - 1) /\ \A u \in Threads : u # t => stack'[u] = stack[u]
  BY Zenon DEF StackType
<1>4. StackType'
  BY <1>1, <1>2, <1>3 DEF StackType
<1> QED
  BY <1>2, <1>3, <1>4 DEF Popped, Kept

\* What an operation is about follows from its kind.
LEMMA OpArg ==
  ASSUME NEW o \in Op
  PROVE  /\ o.op = "publish" => o.arg \in Topics /\ o.wrapped \in BOOLEAN
         /\ o.op \in {"subscribe", "unsubscribe", "remover"} => o.arg \in Subscribers
         /\ o.op \in {"instance", "ready"} => o.arg \in Stores
  BY Zenon DEF Op, Operations

\* The frame of a thread that has done an operation: what it was to call and
\* with which event is as before (Rest).
LEMMA RestFrame ==
  ASSUME StackType, NEW t \in Threads, Top(t).ops # <<>>, NEW rest \in Seq(Op)
  PROVE  /\ Top(t) \in FrameType /\ Head(Top(t).ops) \in Op
         /\ Rest(t, rest) \in FrameType
         /\ Rest(t, rest).topic = Top(t).topic /\ Rest(t, rest).event = Top(t).event
         /\ Rest(t, rest).todo = Top(t).todo
         /\ Rest(t, rest).ops = rest \o Tail(Top(t).ops)
<1>1. Top(t) \in FrameType
  BY DEF Top, Depth, StackType
<1>2. Top(t).ops \in Seq(Op) /\ Tail(Top(t).ops) \in Seq(Op) /\ Head(Top(t).ops) \in Op
  BY <1>1, HeadTailProperties DEF FrameType
<1>3. rest \o Tail(Top(t).ops) \in Seq(Op)
  BY <1>2, ConcatProperties
<1> QED
  BY <1>1, <1>2, <1>3, Zenon DEF Rest, FrameType

\* The frame of a dispatch that begins.
LEMMA NewFrame ==
  ASSUME NEW topic \in Topics, NEW event \in Events, NEW todo \in Seq(Subscribers)
  PROVE  /\ Frame(topic, event, todo, <<>>) \in FrameType
         /\ Frame(topic, event, todo, <<>>).topic = topic
         /\ Frame(topic, event, todo, <<>>).event = event
         /\ Frame(topic, event, todo, <<>>).todo = todo
         /\ Frame(topic, event, todo, <<>>).ops = <<>>
<1>1. <<>> \in Seq(Op)
  OBVIOUS
<1> QED
  BY <1>1 DEF Frame, FrameType

(* The same seen from the callbacks still to be called: all as before, or    *)
(* those of one further dispatch.                                            *)
SameCall(u, i) ==
  /\ stack'[u][i].topic = stack[u][i].topic /\ stack'[u][i].event = stack[u][i].event
  /\ stack'[u][i].todo = stack[u][i].todo
CallsKept ==
  \A u \in Threads :
    Len(stack'[u]) = Len(stack[u]) /\ \A i \in 1 .. Len(stack[u]) : SameCall(u, i)
CallsPushed(t, f) ==
  /\ \A u \in Threads : \A i \in 1 .. Len(stack[u]) : SameCall(u, i)
  /\ \A u \in Threads : u # t => Len(stack'[u]) = Len(stack[u])
  /\ Len(stack'[t]) = Len(stack[t]) + 1 /\ stack'[t][Len(stack[t]) + 1] = f

(* And from the subscriptions still to be made: there is no new one, and     *)
(* those of the top frame have moved with the m operations put before them.  *)
Traced(t, m) ==
  \A s \in Subscribers, u \in Threads : \A i, k \in Nat :
    Asks(s, u, i, k)' =>
      IF u = t /\ i = Depth(t) THEN k > m /\ Asks(s, u, i, k - m + 1) ELSE Asks(s, u, i, k)

\* Where the subscriptions of a sequence of operations are after its first
\* operation has been replaced by `rest'.
LEMMA RestOps ==
  ASSUME NEW ops \in Seq(Op), ops # <<>>, NEW rest \in Seq(Op),
         \A k \in DOMAIN rest : rest[k].op # "subscribe",
         NEW k \in DOMAIN (rest \o Tail(ops)), (rest \o Tail(ops))[k].op = "subscribe"
  PROVE  /\ k > Len(rest) /\ k - Len(rest) + 1 \in DOMAIN ops
         /\ (rest \o Tail(ops))[k] = ops[k - Len(rest) + 1]
<1>1. Len(ops) >= 1 /\ Len(ops) \in Nat /\ Len(rest) \in Nat
  OBVIOUS
<1>2. Tail(ops) \in Seq(Op) /\ Len(Tail(ops)) = Len(ops) - 1
        /\ \A i \in 1 .. Len(ops) - 1 : Tail(ops)[i] = ops[i + 1]
  BY <1>1, HeadTailProperties
<1>3. /\ Len(rest \o Tail(ops)) = Len(rest) + Len(ops) - 1
      /\ DOMAIN (rest \o Tail(ops)) = 1 .. Len(rest) + Len(ops) - 1
      /\ (rest \o Tail(ops))[k] = IF k <= Len(rest) THEN rest[k] ELSE Tail(ops)[k - Len(rest)]
  BY <1>1, <1>2, ConcatProperties
<1>4. k > Len(rest)
  BY <1>1, <1>3
<1> QED
  BY <1>1, <1>2, <1>3, <1>4

\* An operation done without opening a dispatch.
LEMMA ContinueEffect ==
  ASSUME StackType, NEW t \in Threads, Top(t).ops # <<>>, NEW rest \in Seq(Op),
         Continue(t, rest)
  PROVE  /\ Becomes(t, Rest(t, rest)) /\ CallsKept
         /\ (\A k \in DOMAIN rest : rest[k].op # "subscribe") => Traced(t, Len(rest))
<1>1. Becomes(t, Rest(t, rest))
  BY RestFrame, BecomesFrom, Zenon DEF Continue
<1>2. Len(stack[t]) >= 1 /\ Depth(t) = Len(stack[t]) /\ Top(t) = stack[t][Len(stack[t])]
        /\ Len(stack[t]) \in Nat
  BY DEF StackType, Depth, Top
<1>r. /\ Rest(t, rest).topic = Top(t).topic /\ Rest(t, rest).event = Top(t).event
      /\ Rest(t, rest).todo = Top(t).todo /\ Rest(t, rest).ops = rest \o Tail(Top(t).ops)
      /\ Top(t) \in FrameType
  BY RestFrame
<1>3. CallsKept
  <2> SUFFICES ASSUME NEW u \in Threads
               PROVE  Len(stack'[u]) = Len(stack[u]) /\ \A i \in 1 .. Len(stack[u]) : SameCall(u, i)
    BY DEF CallsKept
  <2>1. CASE u = t
    <3>1. Len(stack'[u]) = Len(stack[u])
      BY <1>1, <1>2, <2>1, Zenon DEF Becomes
    <3>2. ASSUME NEW i \in 1 .. Len(stack[u])
          PROVE  SameCall(u, i)
      <4>1. CASE i = Depth(t)
        BY <1>1, <1>2, <1>r, <2>1, <4>1, Zenon DEF Becomes, SameCall
      <4>2. CASE i # Depth(t)
        BY <1>1, <2>1, <3>1, <4>2, BelowKept, Zenon DEF Becomes, SameCall
      <4> QED
        BY <4>1, <4>2, Zenon
    <3> QED
      BY <3>1, <3>2, Zenon
  <2>2. CASE u # t
    BY <1>1, <2>2 DEF Becomes, Kept, SameCall
  <2> QED
    BY <2>1, <2>2
<1>4. ASSUME \A k \in DOMAIN rest : rest[k].op # "subscribe"
      PROVE  Traced(t, Len(rest))
  <2> SUFFICES ASSUME NEW s \in Subscribers, NEW u \in Threads, NEW i \in Nat, NEW k \in Nat,
                      Asks(s, u, i, k)'
               PROVE  IF u = t /\ i = Depth(t) THEN k > Len(rest) /\ Asks(s, u, i, k - Len(rest) + 1)
                      ELSE Asks(s, u, i, k)
    BY DEF Traced
  <2>1. CASE u = t /\ i = Depth(t)
    <3>1. stack'[u][i].ops = rest \o Tail(Top(t).ops) /\ Top(t).ops \in Seq(Op)
      BY <1>1, <2>1, <1>r, Zenon DEF Becomes, FrameType
    <3>2. k \in DOMAIN (rest \o Tail(Top(t).ops)) /\ (rest \o Tail(Top(t).ops))[k].op = "subscribe"
            /\ (rest \o Tail(Top(t).ops))[k].arg = s
      BY <3>1 DEF Asks
    <3>3. /\ k > Len(rest) /\ k - Len(rest) + 1 \in DOMAIN Top(t).ops
          /\ (rest \o Tail(Top(t).ops))[k] = Top(t).ops[k - Len(rest) + 1]
      BY <1>4, <3>1, <3>2, RestOps
    <3> QED
      <4>1. Asks(s, u, i, k - Len(rest) + 1)
        BY <1>2, <2>1, <3>2, <3>3, TopFrame, Zenon DEF Asks
      <4> QED
        BY <2>1, <3>3, <4>1, Zenon
  <2>2. CASE ~(u = t /\ i = Depth(t))
    BY <1>1, <1>2, <2>2 DEF Becomes, Kept, Asks
  <2> QED
    BY <2>1, <2>2
<1> QED
  BY <1>1, <1>3, <1>4

\* An operation that opens a dispatch.
LEMMA EnterEffect ==
  ASSUME StackType, NEW t \in Threads, Top(t).ops # <<>>, NEW f \in FrameType, f.ops = <<>>,
         Enter(t, f)
  PROVE  Pushed(t, Rest(t, <<>>), f) /\ CallsPushed(t, f) /\ Traced(t, 0)
<1>0. <<>> \in Seq(Op) /\ Len(<<>>) = 0
  OBVIOUS
<1>1. Pushed(t, Rest(t, <<>>), f)
  BY <1>0, RestFrame, PushedFrom, Zenon DEF Enter
<1>2. Len(stack[t]) >= 1 /\ Depth(t) = Len(stack[t]) /\ Top(t) = stack[t][Len(stack[t])]
        /\ Len(stack[t]) \in Nat
  BY DEF StackType, Depth, Top
<1>r. /\ Rest(t, <<>>).topic = Top(t).topic /\ Rest(t, <<>>).event = Top(t).event
      /\ Rest(t, <<>>).todo = Top(t).todo /\ Rest(t, <<>>).ops = <<>> \o Tail(Top(t).ops)
      /\ Top(t) \in FrameType
  BY <1>0, RestFrame, Zenon
<1>3. CallsPushed(t, f)
  <2>1. \A u \in Threads : u # t => Len(stack'[u]) = Len(stack[u]) /\ \A i \in 1 .. Len(stack[u]) : SameCall(u, i)
    BY <1>1 DEF Pushed, Kept, SameCall
  <2>2. ASSUME NEW i \in 1 .. Len(stack[t])
        PROVE  SameCall(t, i)
    <3>1. CASE i = Depth(t)
      BY <1>1, <1>2, <1>r, <3>1, Zenon DEF Pushed, SameCall
    <3>2. CASE i # Depth(t)
      <4>1. i \in 1 .. Depth(t) - 1
        BY <1>2, <3>2
      <4> QED
        BY <1>1, <4>1, Zenon DEF Pushed, Kept, SameCall
    <3> QED
      BY <3>1, <3>2, Zenon
  <2> QED
    BY <1>1, <1>2, <2>1, <2>2 DEF Pushed, CallsPushed
<1>4. Traced(t, 0)
  <2> SUFFICES ASSUME NEW s \in Subscribers, NEW u \in Threads, NEW i \in Nat, NEW k \in Nat,
                      Asks(s, u, i, k)'
               PROVE  IF u = t /\ i = Depth(t) THEN k > 0 /\ Asks(s, u, i, k - 0 + 1)
                      ELSE Asks(s, u, i, k)
    BY DEF Traced
  <2>1. CASE u = t /\ i = Depth(t)
    <3>1. stack'[u][i].ops = <<>> \o Tail(Top(t).ops) /\ Top(t).ops \in Seq(Op)
      BY <1>1, <2>1, <1>r, Zenon DEF Pushed, FrameType
    <3>2. k \in DOMAIN (<<>> \o Tail(Top(t).ops)) /\ (<<>> \o Tail(Top(t).ops))[k].op = "subscribe"
            /\ (<<>> \o Tail(Top(t).ops))[k].arg = s
      BY <3>1 DEF Asks
    <3>3. \A l \in DOMAIN <<>> : <<>>[l].op # "subscribe"
      OBVIOUS
    <3>4. /\ k > Len(<<>>) /\ k - Len(<<>>) + 1 \in DOMAIN Top(t).ops
          /\ (<<>> \o Tail(Top(t).ops))[k] = Top(t).ops[k - Len(<<>>) + 1]
      BY <1>0, <3>1, <3>2, <3>3, RestOps
    <3> QED
      <4>1. Asks(s, u, i, k - Len(<<>>) + 1)
        BY <1>2, <2>1, <3>2, <3>4, TopFrame, Zenon DEF Asks
      <4> QED
        BY <1>0, <2>1, <3>4, <4>1, Zenon
  <2>2. CASE u = t /\ i = Depth(t) + 1
    <3>1. stack'[u][i].ops = <<>>
      BY <1>1, <2>2, Zenon DEF Pushed
    <3>2. k \in DOMAIN <<>>
      BY <3>1, Zenon DEF Asks
    <3> QED
      BY <3>2
  <2>3. CASE u # t \/ i \notin {Depth(t), Depth(t) + 1}
    BY <1>1, <1>2, <2>3 DEF Pushed, Kept, Asks
  <2> QED
    BY <2>1, <2>2, <2>3
<1> QED
  BY <1>1, <1>3, <1>4

(* A dispatch calls, or passes over, the next of its subscribers.            *)
Called(t) ==
  /\ \A u \in Threads : Len(stack'[u]) = Len(stack[u])
  /\ \A u \in Threads : \A i \in 1 .. Len(stack[u]) : u # t \/ i # Depth(t) => SameCall(u, i)
  /\ stack'[t][Depth(t)].topic = Top(t).topic /\ stack'[t][Depth(t)].event = Top(t).event
  /\ stack'[t][Depth(t)].todo = Tail(Top(t).todo)

\* What the next subscriber of a dispatch is called with, and that it belongs
\* to the topic.
LEMMA NextCall ==
  ASSUME StackType, FrameInv, NEW t \in Threads, Dispatching(t), Top(t).todo # <<>>
  PROVE  /\ Top(t) \in FrameType /\ Depth(t) \in Nat /\ Depth(t) > 1
         /\ Head(Top(t).todo) \in Subscribers /\ Tail(Top(t).todo) \in Seq(Subscribers)
         /\ Top(t).topic \in Topics /\ Top(t).event \in Events
         /\ TopicOf[Head(Top(t).todo)] = Top(t).topic
         /\ Due(Head(Top(t).todo), t, Depth(t))
<1>1. Top(t) \in FrameType /\ Depth(t) \in Nat /\ Depth(t) > 1 /\ Depth(t) \in 1 .. Len(stack[t])
        /\ Top(t) = stack[t][Depth(t)]
  BY DEF StackType, Top, Depth, Dispatching
<1>2. Top(t).todo \in Seq(Subscribers)
  BY <1>1 DEF FrameType
<1>3. Head(Top(t).todo) \in Subscribers /\ Tail(Top(t).todo) \in Seq(Subscribers)
        /\ 1 \in DOMAIN Top(t).todo /\ Head(Top(t).todo) = Top(t).todo[1]
  BY <1>2, HeadTailProperties
<1>4. Due(Head(Top(t).todo), t, Depth(t))
  BY <1>1, <1>3 DEF Due, Range
<1>5. Top(t).topic \in Topics /\ Top(t).event \in Events
  BY <1>1 DEF FrameInv
<1>6. TopicOf[Head(Top(t).todo)] = Top(t).topic
  BY <1>1, <1>3, <1>4 DEF FrameInv
<1> QED
  BY <1>1, <1>3, <1>4, <1>5, <1>6

\* A sequence over a set is one over every larger set.
LEMMA SeqWider ==
  ASSUME NEW S, NEW T, S \subseteq T, NEW q \in Seq(S)
  PROVE  q \in Seq(T)
  BY SeqDef

\* Those called after the first are the others of the list (Dispatch).
LEMMA TailRange ==
  ASSUME NEW S, NEW todo \in Seq(S), todo # <<>>
  PROVE  /\ Range(Tail(todo)) \subseteq Range(todo)
         /\ Range(todo) \subseteq {Head(todo)} \cup Range(Tail(todo))
<1>1. Len(todo) >= 1 /\ Len(todo) \in Nat /\ Tail(todo) \in Seq(S) /\ Len(Tail(todo)) = Len(todo) - 1
        /\ Head(todo) = todo[1] /\ \A i \in 1 .. Len(todo) - 1 : Tail(todo)[i] = todo[i + 1]
  BY HeadTailProperties
<1>2. DOMAIN Tail(todo) = 1 .. Len(todo) - 1 /\ DOMAIN todo = 1 .. Len(todo)
  BY <1>1
<1>3. Range(Tail(todo)) \subseteq Range(todo)
  BY <1>1, <1>2 DEF Range
<1>4. ASSUME NEW i \in 1 .. Len(todo)
      PROVE  todo[i] \in {Head(todo)} \cup Range(Tail(todo))
  <2>1. CASE i = 1
    BY <1>1, <2>1
  <2>2. CASE i # 1
    <3>1. i - 1 \in 1 .. Len(todo) - 1 /\ Tail(todo)[i - 1] = todo[i]
      BY <1>1, <2>2
    <3> QED
      BY <1>2, <3>1, Zenon DEF Range
  <2> QED
    BY <2>1, <2>2
<1> QED
  BY <1>2, <1>3, <1>4 DEF Range

\* A call, or the passing over of a subscriber that has left (Dispatch).
LEMMA DispatchEffect ==
  ASSUME StackType, FrameInv, NEW t \in Threads, Dispatch(t)
  PROVE  StackType' /\ Called(t) /\ Traced(t, 0)
<1> DEFINE s == Head(Top(t).todo)
           f == [Top(t) EXCEPT !.todo = Tail(@)]
<1>0. Dispatching(t) /\ Top(t).ops = <<>> /\ Top(t).todo # <<>>
  BY DEF Dispatch
<1>1. /\ Top(t) \in FrameType /\ Depth(t) \in Nat /\ Depth(t) > 1
      /\ s \in Subscribers /\ Tail(Top(t).todo) \in Seq(Subscribers)
      /\ Top(t).event \in Events
  BY <1>0, NextCall
<1>2. f \in FrameType /\ f.topic = Top(t).topic /\ f.event = Top(t).event
        /\ f.todo = Tail(Top(t).todo) /\ f.ops = <<>>
  BY <1>0, <1>1, Zenon DEF FrameType
<1> HIDE DEF f
<1>3. Script(s, f.event) \in Seq(Op) /\ \A k \in DOMAIN Script(s, f.event) : Script(s, f.event)[k].op # "subscribe"
  <2>1. Script(s, f.event) \in Seq(Operations)
          /\ \A k \in DOMAIN Script(s, f.event) : Script(s, f.event)[k].op # "subscribe"
    BY <1>1, <1>2, ProgramsAssumption
  <2>2. Operations \subseteq Op
    BY Zenon DEF Op
  <2> QED
    BY <2>1, <2>2, SeqWider
<1>4. PICK g \in FrameType : /\ g.topic = Top(t).topic /\ g.event = Top(t).event
                             /\ g.todo = Tail(Top(t).todo)
                             /\ \A k \in DOMAIN g.ops : g.ops[k].op # "subscribe"
                             /\ stack' = [stack EXCEPT ![t][Depth(t)] = g]
  <2>1. CASE Stays(s, f.topic)
    <3>1. stack' = [stack EXCEPT ![t][Depth(t)] = [f EXCEPT !.ops = Script(s, f.event)]]
      BY <2>1 DEF Dispatch, f
    <3>2. [f EXCEPT !.ops = Script(s, f.event)] \in FrameType
      BY <1>2, <1>3 DEF FrameType
    <3>3. /\ [f EXCEPT !.ops = Script(s, f.event)].topic = f.topic
          /\ [f EXCEPT !.ops = Script(s, f.event)].event = f.event
          /\ [f EXCEPT !.ops = Script(s, f.event)].todo = f.todo
          /\ [f EXCEPT !.ops = Script(s, f.event)].ops = Script(s, f.event)
      BY <1>2 DEF FrameType
    <3> QED
      BY <1>2, <1>3, <3>1, <3>2, <3>3, Zenon
  <2>2. CASE ~Stays(s, f.topic)
    <3>1. stack' = [stack EXCEPT ![t][Depth(t)] = f]
      BY <2>2 DEF Dispatch, f
    <3>2. \A k \in DOMAIN f.ops : f.ops[k].op # "subscribe"
      BY <1>2
    <3> QED
      BY <1>2, <3>1, <3>2, Zenon
  <2> QED
    BY <2>1, <2>2
<1>5. Becomes(t, g)
  BY <1>4, BecomesFrom, Zenon
<1>6. Depth(t) = Len(stack[t]) /\ Len(stack[t]) \in Nat /\ Top(t) = stack[t][Len(stack[t])]
  BY DEF StackType, Depth, Top
<1>7. Called(t)
  <2>1. \A u \in Threads : Len(stack'[u]) = Len(stack[u])
    BY <1>5, <1>6 DEF Becomes, Kept
  <2>2. \A u \in Threads : \A i \in 1 .. Len(stack[u]) : u # t \/ i # Depth(t) => SameCall(u, i)
    BY <1>5, <1>6 DEF Becomes, Kept, SameCall
  <2> QED
    BY <1>4, <1>5, <2>1, <2>2 DEF Becomes, Called
<1>8. Traced(t, 0)
  <2> SUFFICES ASSUME NEW x \in Subscribers, NEW u \in Threads, NEW i \in Nat, NEW k \in Nat,
                      Asks(x, u, i, k)', ~(u = t /\ i = Depth(t))
               PROVE  Asks(x, u, i, k)
    BY <1>4, <1>5 DEF Traced, Becomes, Asks
  <2>1. i \in 1 .. Len(stack[u]) /\ stack'[u][i] = stack[u][i]
    BY <1>5, BelowKept, Zenon DEF Becomes, Asks
  <2> QED
    BY <2>1, Zenon DEF Asks
<1> QED
  BY <1>5, <1>7, <1>8 DEF Becomes

\* The end of a dispatch (Return).
LEMMA ReturnEffect ==
  ASSUME StackType, NEW t \in Threads, Return(t)
  PROVE  Popped(t) /\ Traced(t, 0)
<1>1. Popped(t)
  BY PoppedFrom, Zenon DEF Return, Dispatching
<1>2. Depth(t) = Len(stack[t]) /\ Len(stack[t]) \in Nat
  BY DEF StackType, Depth
<1>3. ASSUME NEW u \in Threads, NEW i \in 1 .. Len(stack'[u])
      PROVE  /\ stack'[u][i] = stack[u][i] /\ i \in 1 .. Len(stack[u])
             /\ ~(u = t /\ i = Depth(t))
  <2>1. CASE u = t
    BY <1>1, <1>2, <2>1 DEF Popped, Kept
  <2>2. CASE u # t
    BY <1>1, <2>2 DEF Popped, Kept
  <2> QED
    BY <2>1, <2>2
<1>4. Traced(t, 0)
  BY <1>3 DEF Traced, Asks
<1> QED
  BY <1>1, <1>4

-----------------------------------------------------------------------------
(* The conjuncts of BusInv under each kind of step.                          *)

\* Dispatches stay dispatches of their topic while nobody is called.
LEMMA FramesKept ==
  ASSUME FrameInv, CallsKept
  PROVE  FrameInv'
  BY DEF FrameInv, CallsKept, SameCall, Due

\* A dispatch that begins is one to subscribers of its topic.
LEMMA FramesPushed ==
  ASSUME StackType, FrameInv, NEW t \in Threads, NEW f \in FrameType, CallsPushed(t, f),
         f.topic \in Topics, f.event \in Events,
         \A s \in Subscribers : s \in Range(f.todo) => TopicOf[s] = f.topic
  PROVE  FrameInv'
<1> SUFFICES ASSUME NEW u \in Threads, NEW i \in 1 .. Len(stack'[u])
             PROVE  /\ i > 1 => stack'[u][i].topic \in Topics /\ stack'[u][i].event \in Events
                    /\ \A s \in Subscribers : s \in Range(stack'[u][i].todo) => TopicOf[s] = stack'[u][i].topic
  BY DEF FrameInv, Due
<1>1. CASE u = t /\ i = Len(stack[t]) + 1
  BY <1>1 DEF CallsPushed
<1>2. CASE ~(u = t /\ i = Len(stack[t]) + 1)
  <2>1. Len(stack[u]) \in Nat /\ Len(stack[t]) \in Nat
    BY DEF StackType
  <2>2. i \in 1 .. Len(stack[u]) /\ SameCall(u, i)
    BY <1>2, <2>1 DEF CallsPushed
  <2> QED
    BY <2>2 DEF FrameInv, SameCall, Due
<1> QED
  BY <1>1, <1>2

\* A dispatch keeps its topic and event while its list gets shorter.
LEMMA FramesCalled ==
  ASSUME StackType, FrameInv, NEW t \in Threads, Top(t).todo # <<>>, Called(t)
  PROVE  FrameInv'
<1>0. Depth(t) \in 1 .. Len(stack[t]) /\ Top(t) = stack[t][Depth(t)] /\ Top(t).todo \in Seq(Subscribers)
        /\ Depth(t) = Len(stack[t])
  BY TopFrame
<1>1. Range(Tail(Top(t).todo)) \subseteq Range(Top(t).todo)
  BY <1>0, TailRange
<1> SUFFICES ASSUME NEW u \in Threads, NEW i \in 1 .. Len(stack'[u])
             PROVE  /\ i > 1 => stack'[u][i].topic \in Topics /\ stack'[u][i].event \in Events
                    /\ \A s \in Subscribers : s \in Range(stack'[u][i].todo) => TopicOf[s] = stack'[u][i].topic
  BY DEF FrameInv, Due
<1>2. CASE u = t /\ i = Depth(t)
  BY <1>0, <1>1, <1>2 DEF Called, FrameInv, Due
<1>3. CASE ~(u = t /\ i = Depth(t))
  BY <1>3 DEF Called, FrameInv, SameCall, Due
<1> QED
  BY <1>2, <1>3

\* The frames that remain after a dispatch are as they were.
LEMMA PoppedFrames ==
  ASSUME StackType, NEW t \in Threads, Popped(t), NEW u \in Threads, NEW i \in 1 .. Len(stack'[u])
  PROVE  stack'[u][i] = stack[u][i] /\ i \in 1 .. Len(stack[u])
<1>1. Depth(t) = Len(stack[t]) /\ Len(stack[t]) \in Nat
  BY DEF StackType, Depth
<1>2. CASE u = t
  BY <1>1, <1>2 DEF Popped, Kept
<1>3. CASE u # t
  BY <1>3 DEF Popped, Kept
<1> QED
  BY <1>2, <1>3

\* So they are dispatches as they were.
LEMMA FramesPopped ==
  ASSUME StackType, FrameInv, NEW t \in Threads, Popped(t)
  PROVE  FrameInv'
<1> SUFFICES ASSUME NEW u \in Threads, NEW i \in 1 .. Len(stack'[u])
             PROVE  /\ i > 1 => stack'[u][i].topic \in Topics /\ stack'[u][i].event \in Events
                    /\ \A s \in Subscribers : s \in Range(stack'[u][i].todo) => TopicOf[s] = stack'[u][i].topic
  BY DEF FrameInv, Due
<1>1. stack'[u][i] = stack[u][i] /\ i \in 1 .. Len(stack[u])
  BY PoppedFrames
<1> QED
  BY <1>1 DEF FrameInv, Due

\* Operations put before the others do not make two subscriptions of one.
LEMMA TracedOnce ==
  ASSUME FreshInv, NEW t \in Threads, NEW m \in Nat, Traced(t, m), NEW s \in Subscribers,
         NEW u \in Threads, NEW v \in Threads, NEW i \in Nat, NEW j \in Nat, NEW k \in Nat, NEW l \in Nat,
         Asks(s, u, i, k)', Asks(s, v, j, l)'
  PROVE  u = v /\ i = j /\ k = l
<1>1. PICK p \in Nat : Asks(s, u, i, p) /\ p = IF u = t /\ i = Depth(t) THEN k - m + 1 ELSE k
  BY DEF Traced
<1>2. PICK q \in Nat : Asks(s, v, j, q) /\ q = IF v = t /\ j = Depth(t) THEN l - m + 1 ELSE l
  BY DEF Traced
<1>3. u = v /\ i = j /\ p = q
  BY <1>1, <1>2 DEF FreshInv
<1> QED
  BY <1>1, <1>2, <1>3

\* A step that asks for no new subscription and calls nobody new leaves
\* whoever is still to subscribe out of it.
LEMMA FreshKept ==
  ASSUME FreshInv, NEW t \in Threads, NEW m \in Nat, Traced(t, m),
         \A s \in Subscribers : Unused(s) => Unused(s)',
         \A s \in Stores : once'[s] = "free" => once[s] = "free"
  PROVE  FreshInv'
<1> SUFFICES ASSUME NEW s \in Subscribers
             PROVE  /\ \A u, v \in Threads : \A i, j, k, l \in Nat :
                         Asks(s, u, i, k)' /\ Asks(s, v, j, l)' => u = v /\ i = j /\ k = l
                    /\ Unasked(s)' \/ Unused(s)'
                    /\ s \in Stores /\ once'[s] = "free" => Unasked(s)' /\ Unused(s)'
  BY Zenon DEF FreshInv
<1>1. Unasked(s) => Unasked(s)'
  <2> SUFFICES ASSUME Unasked(s), NEW u \in Threads, NEW i \in Nat, NEW k \in Nat, Asks(s, u, i, k)'
               PROVE  FALSE
    BY Zenon DEF Unasked
  <2>1. k > m => k - m + 1 \in Nat
    OBVIOUS
  <2> QED
    BY <2>1 DEF Unasked, Traced
<1>2. ASSUME NEW u \in Threads, NEW v \in Threads, NEW i \in Nat, NEW j \in Nat, NEW k \in Nat, NEW l \in Nat,
             Asks(s, u, i, k)', Asks(s, v, j, l)'
      PROVE  u = v /\ i = j /\ k = l
  BY <1>2, TracedOnce
<1>3. Unasked(s)' \/ Unused(s)'
  BY <1>1, Zenon DEF FreshInv
<1>4. s \in Stores /\ once'[s] = "free" => Unasked(s)' /\ Unused(s)'
  BY <1>1, Zenon DEF FreshInv
<1> QED
  BY <1>2, <1>3, <1>4

\* Who is neither subscribed nor due remains so while no call is added.
LEMMA UnusedKept ==
  ASSUME CallsKept, NEW s \in Subscribers, Unused(s), s \notin Range(callbacks'[TopicOf[s]])
  PROVE  Unused(s)'
  BY DEF CallsKept, SameCall, Unused, Due

LEMMA UnusedPushed ==
  ASSUME StackType, NEW t \in Threads, NEW f \in FrameType, CallsPushed(t, f),
         NEW s \in Subscribers, Unused(s), s \notin Range(callbacks'[TopicOf[s]]), s \notin Range(f.todo)
  PROVE  Unused(s)'
<1> SUFFICES ASSUME NEW u \in Threads, NEW i \in 1 .. Len(stack'[u]), s \in Range(stack'[u][i].todo)
             PROVE  FALSE
  BY DEF Unused, Due
<1>1. Len(stack[u]) \in Nat /\ Len(stack[t]) \in Nat
  BY DEF StackType
<1>2. ~(u = t /\ i = Len(stack[t]) + 1)
  BY DEF CallsPushed
<1>3. i \in 1 .. Len(stack[u]) /\ SameCall(u, i)
  BY <1>1, <1>2 DEF CallsPushed
<1> QED
  BY <1>3 DEF Unused, SameCall, Due

-----------------------------------------------------------------------------
(* One lemma per action: what it does, and that it keeps BusInv.             *)

TheEvent(t) == [id |-> published + 1, wrapped |-> Head(Top(t).ops).wrapped]
TheFrame(t) == Frame(Arg(t), TheEvent(t), callbacks[Arg(t)], <<>>)

\* publish opens a dispatch of a new event to everyone on the topic's list.
LEMMA PublishEffect ==
  ASSUME BusInv, NEW t \in Threads, publish(t)
  PROVE  /\ Arg(t) \in Topics /\ TheEvent(t) \in Events
         /\ TheFrame(t) \in FrameType /\ TheFrame(t).topic = Arg(t)
         /\ TheFrame(t).event = TheEvent(t) /\ TheFrame(t).todo = callbacks[Arg(t)]
         /\ StackType' /\ CallsPushed(t, TheFrame(t)) /\ Traced(t, 0)
         /\ retained' = RetainedAfter(Arg(t), TheEvent(t))
         /\ owner' = t /\ published' = published + 1 /\ published < MaxEvents
         /\ callbacks' = callbacks /\ removers' = removers /\ once' = once /\ received' = received
<1>0. StackType /\ BusType
  BY DEF BusInv, BusType
<1>1. Top(t).ops # <<>> /\ Head(Top(t).ops).op = "publish"
  BY DEF publish, At
<1>2. Head(Top(t).ops) \in Op
  BY <1>0, <1>1, TopFrame, HeadTailProperties
<1>3. Arg(t) \in Topics /\ Head(Top(t).ops).wrapped \in BOOLEAN
  BY <1>1, <1>2, OpArg DEF Arg
<1>4. published < MaxEvents /\ published \in Nat /\ MaxEvents \in Nat
  BY <1>0, ConstantsAssumption DEF publish, BusType
<1>5. TheEvent(t) \in Events
  BY <1>3, <1>4 DEF TheEvent, Events
<1>6. callbacks[Arg(t)] \in Seq(Subscribers)
  BY <1>0, <1>3 DEF BusType
<1>7. /\ TheFrame(t) \in FrameType /\ TheFrame(t).topic = Arg(t)
      /\ TheFrame(t).event = TheEvent(t) /\ TheFrame(t).todo = callbacks[Arg(t)]
      /\ TheFrame(t).ops = <<>>
  BY <1>3, <1>5, <1>6, NewFrame DEF TheFrame
<1>8. Enter(t, TheFrame(t))
  BY DEF publish, TheFrame, TheEvent
<1>9. Pushed(t, Rest(t, <<>>), TheFrame(t)) /\ CallsPushed(t, TheFrame(t)) /\ Traced(t, 0)
  BY <1>0, <1>1, <1>7, <1>8, EnterEffect
<1>10. StackType'
  BY <1>9 DEF Pushed
<1>11. /\ retained' = RetainedAfter(Arg(t), TheEvent(t))
       /\ owner' = t /\ published' = published + 1
       /\ callbacks' = callbacks /\ removers' = removers /\ once' = once /\ received' = received
  BY DEF publish, TheEvent
<1> QED
  BY <1>3, <1>4, <1>5, <1>7, <1>9, <1>10, <1>11

\* So the bus keeps its invariant: those called are on the list.
LEMMA PublishKeeps ==
  ASSUME BusInv, NEW t \in Threads, publish(t)
  PROVE  BusInv'
<1>0. BusType /\ StackType /\ FrameInv /\ ListInv /\ FreshInv
  BY DEF BusInv, BusType
<1>1. /\ Arg(t) \in Topics /\ TheEvent(t) \in Events
      /\ TheFrame(t) \in FrameType /\ TheFrame(t).topic = Arg(t)
      /\ TheFrame(t).event = TheEvent(t) /\ TheFrame(t).todo = callbacks[Arg(t)]
      /\ StackType' /\ CallsPushed(t, TheFrame(t)) /\ Traced(t, 0)
      /\ callbacks' = callbacks /\ once' = once
  BY PublishEffect
<1>2. /\ retained' = RetainedAfter(Arg(t), TheEvent(t))
      /\ owner' = t /\ published' = published + 1 /\ published < MaxEvents
      /\ removers' = removers /\ received' = received
  BY PublishEffect
<1>3. BusType'
  <2>1. retained' \in [Topics -> Events \cup {Nothing}]
    BY <1>0, <1>1, <1>2 DEF BusType, RetainedAfter
  <2>2. published' \in 0 .. MaxEvents
    BY <1>0, <1>2, ConstantsAssumption DEF BusType
  <2> QED
    BY <1>0, <1>1, <1>2, <2>1, <2>2 DEF BusType
<1>4. \A s \in Subscribers : s \in Range(callbacks[Arg(t)]) => TopicOf[s] = Arg(t)
  BY <1>0, <1>1 DEF ListInv, Range
<1>5. FrameInv'
  BY <1>0, <1>1, <1>4, FramesPushed
<1>6. ListInv'
  BY <1>0, <1>1 DEF ListInv
<1>7. ASSUME NEW s \in Subscribers, Unused(s)
      PROVE  Unused(s)'
  <2>1. s \notin Range(callbacks[TopicOf[s]]) /\ s \notin Range(callbacks[Arg(t)])
    BY <1>4, <1>7 DEF Unused
  <2> QED
    BY <1>0, <1>1, <1>7, <2>1, UnusedPushed
<1>8. FreshInv'
  BY <1>0, <1>1, <1>7, FreshKept
<1> QED
  BY <1>3, <1>5, <1>6, <1>8 DEF BusInv

\* A call notes the event with the subscriber (Dispatch).
LEMMA DispatchKeeps ==
  ASSUME BusInv, NEW t \in Threads, Dispatch(t)
  PROVE  BusInv'
<1>0. BusType /\ StackType /\ FrameInv /\ ListInv /\ FreshInv
  BY DEF BusInv, BusType
<1>1. StackType' /\ Called(t) /\ Traced(t, 0)
  BY <1>0, DispatchEffect
<1>2. Dispatching(t) /\ Top(t).todo # <<>> /\ owner' = owner /\ callbacks' = callbacks /\ retained' = retained
        /\ removers' = removers /\ once' = once /\ published' = published
  BY DEF Dispatch
<1>3. Head(Top(t).todo) \in Subscribers /\ Top(t).event \in Events /\ Top(t) \in FrameType
  BY <1>0, <1>2, NextCall
<1>4. received' \in [Subscribers -> Seq(Events)]
  <2>1. [Top(t) EXCEPT !.todo = Tail(@)].event = Top(t).event
    BY <1>3 DEF FrameType
  <2>2. received' = received \/ received' = [received EXCEPT ![Head(Top(t).todo)] = Append(@, Top(t).event)]
    <3>1. CASE Stays(Head(Top(t).todo), [Top(t) EXCEPT !.todo = Tail(@)].topic)
      <4>1. received' = [received EXCEPT ![Head(Top(t).todo)] = Append(@, [Top(t) EXCEPT !.todo = Tail(@)].event)]
        BY <3>1 DEF Dispatch
      <4> QED
        BY <2>1, <4>1
    <3>2. CASE ~Stays(Head(Top(t).todo), [Top(t) EXCEPT !.todo = Tail(@)].topic)
      BY <3>2 DEF Dispatch
    <3> QED
      BY <3>1, <3>2
  <2>3. received \in [Subscribers -> Seq(Events)]
    BY <1>0 DEF BusType
  <2>4. Append(received[Head(Top(t).todo)], Top(t).event) \in Seq(Events)
    BY <1>3, <2>3
  <2> QED
    BY <1>3, <2>2, <2>3, <2>4, Zenon
<1>5. BusType'
  BY <1>0, <1>1, <1>2, <1>4 DEF BusType
<1>6. FrameInv'
  BY <1>0, <1>1, <1>2, FramesCalled
<1>7. ListInv'
  BY <1>0, <1>2 DEF ListInv
<1>8. ASSUME NEW s \in Subscribers, Unused(s)
      PROVE  Unused(s)'
  <2>1. Range(Tail(Top(t).todo)) \subseteq Range(Top(t).todo)
    BY <1>0, <1>2, TopFrame, TailRange
  <2>2. Top(t) = stack[t][Depth(t)] /\ Depth(t) \in 1 .. Len(stack[t])
    BY <1>0, TopFrame
  <2>3. \A u \in Threads : \A i \in 1 .. Len(stack'[u]) : Due(s, u, i)' => Due(s, u, i)
    BY <1>1, <2>1, <2>2 DEF Called, SameCall, Due
  <2> QED
    BY <1>1, <1>2, <1>8, <2>3, Zenon DEF Unused, Called
<1>9. FreshInv'
  BY <1>0, <1>1, <1>2, <1>8, FreshKept
<1> QED
  BY <1>5, <1>6, <1>7, <1>9 DEF BusInv

\* The end of a dispatch (Return).
LEMMA ReturnKeeps ==
  ASSUME BusInv, NEW t \in Threads, Return(t)
  PROVE  BusInv'
<1>0. BusType /\ StackType /\ FrameInv /\ ListInv /\ FreshInv
  BY DEF BusInv, BusType
<1>1. Popped(t) /\ Traced(t, 0)
  BY <1>0, ReturnEffect
<1>2. callbacks' = callbacks /\ retained' = retained /\ removers' = removers /\ once' = once
        /\ published' = published /\ received' = received /\ owner' \in {Nothing, t}
  BY DEF Return, OwnerAfter
<1>3. BusType'
  BY <1>0, <1>1, <1>2 DEF BusType, Popped
<1>4. FrameInv'
  BY <1>0, <1>1, FramesPopped
<1>5. ListInv'
  BY <1>0, <1>2 DEF ListInv
<1>6. ASSUME NEW s \in Subscribers, Unused(s)
      PROVE  Unused(s)'
  <2>1. ASSUME NEW u \in Threads, NEW i \in 1 .. Len(stack'[u])
        PROVE  ~Due(s, u, i)'
    <3>1. stack'[u][i] = stack[u][i] /\ i \in 1 .. Len(stack[u])
      BY <1>0, <1>1, PoppedFrames
    <3> QED
      BY <1>6, <3>1 DEF Unused, Due
  <2> QED
    BY <1>2, <1>6, <2>1, Zenon DEF Unused
<1>7. FreshInv'
  BY <1>0, <1>1, <1>2, <1>6, FreshKept
<1> QED
  BY <1>3, <1>4, <1>5, <1>7 DEF BusInv

\* subscribe puts the subscriber at the end of its list and, if the topic has
\* a value, opens a dispatch of that value to it alone.
LEMMA SubscribeEffect ==
  ASSUME BusInv, NEW t \in Threads, subscribe(t)
  PROVE  /\ Arg(t) \in Subscribers /\ Asks(Arg(t), t, Depth(t), 1) /\ Depth(t) \in Nat
         /\ StackType' /\ Traced(t, 0)
         /\ callbacks' = [callbacks EXCEPT ![TopicOf[Arg(t)]] = Append(@, Arg(t))]
         /\ removers' = removers \cup {Arg(t)}
         /\ retained' = retained /\ once' = once /\ published' = published /\ received' = received
         /\ \/ /\ retained[TopicOf[Arg(t)]] = Nothing
               /\ CallsKept /\ owner' = owner
            \/ /\ retained[TopicOf[Arg(t)]] \in Events
               /\ \E f \in FrameType : /\ CallsPushed(t, f) /\ f.topic = TopicOf[Arg(t)]
                                       /\ f.event = retained[TopicOf[Arg(t)]] /\ f.todo = <<Arg(t)>>
               /\ owner' = t
<1> DEFINE s == Arg(t)
           topic == TopicOf[s]
           f == Frame(topic, retained[topic], <<s>>, <<>>)
<1>0. StackType /\ BusType
  BY DEF BusInv, BusType
<1>1. Top(t).ops # <<>> /\ Head(Top(t).ops).op = "subscribe"
  BY Zenon DEF subscribe, At
<1>2. /\ Depth(t) = Len(stack[t]) /\ Depth(t) \in Nat /\ Depth(t) \in 1 .. Len(stack[t])
      /\ Top(t) = stack[t][Depth(t)] /\ Top(t).ops \in Seq(Op)
  BY <1>0, TopFrame
<1>3. Head(Top(t).ops) \in Op /\ Head(Top(t).ops) = Top(t).ops[1] /\ 1 \in DOMAIN Top(t).ops
  BY <1>1, <1>2, HeadTailProperties
<1>4. s \in Subscribers /\ topic \in Topics
  <2>1. s \in Subscribers
    BY <1>1, <1>3, OpArg DEF Arg
  <2> QED
    BY <2>1, ConstantsAssumption
<1>5. Asks(s, t, Depth(t), 1)
  BY <1>1, <1>2, <1>3 DEF Asks, Arg
<1>6. /\ callbacks' = [callbacks EXCEPT ![topic] = Append(@, s)]
      /\ removers' = removers \cup {s}
      /\ retained' = retained /\ once' = once /\ published' = published /\ received' = received
  BY Zenon DEF subscribe
<1>7. retained[topic] \in Events \cup {Nothing}
  BY <1>0, <1>4 DEF BusType
<1>8. CASE retained[topic] = Nothing
  <2>1. Continue(t, <<>>) /\ owner' = owner
    BY <1>8, Zenon DEF subscribe, Replay
  <2>2. <<>> \in Seq(Op) /\ Len(<<>>) = 0 /\ \A k \in DOMAIN <<>> : <<>>[k].op # "subscribe"
    OBVIOUS
  <2>3. Becomes(t, Rest(t, <<>>)) /\ CallsKept /\ Traced(t, Len(<<>>))
    BY <1>0, <1>1, <2>1, <2>2, ContinueEffect, Zenon
  <2>4. StackType' /\ Traced(t, 0)
    BY <2>2, <2>3, Zenon DEF Becomes
  <2> QED
    BY <1>2, <1>4, <1>5, <1>6, <1>8, <2>1, <2>3, <2>4, Zenon
<1>9. CASE retained[topic] # Nothing
  <2>1. Enter(t, f) /\ owner' = t
    BY <1>9, Zenon DEF subscribe, Replay
  <2>2. retained[topic] \in Events /\ <<s>> \in Seq(Subscribers)
    BY <1>4, <1>7, <1>9
  <2>3. f \in FrameType /\ f.topic = topic /\ f.event = retained[topic] /\ f.todo = <<s>> /\ f.ops = <<>>
    <3>1. PICK p \in Topics, e \in Events, q \in Seq(Subscribers) : p = topic /\ e = retained[topic] /\ q = <<s>>
      BY <1>4, <2>2, Zenon
    <3>2. f = Frame(p, e, q, <<>>)
      BY <3>1, Zenon
    <3>3. /\ Frame(p, e, q, <<>>) \in FrameType /\ Frame(p, e, q, <<>>).topic = p
          /\ Frame(p, e, q, <<>>).event = e /\ Frame(p, e, q, <<>>).todo = q
          /\ Frame(p, e, q, <<>>).ops = <<>>
      BY NewFrame
    <3> HIDE DEF f, s, topic
    <3> QED
      BY <3>1, <3>2, <3>3, Zenon
  <2> HIDE DEF f
  <2>4. Pushed(t, Rest(t, <<>>), f) /\ CallsPushed(t, f) /\ Traced(t, 0)
    BY <1>0, <1>1, <2>1, <2>3, EnterEffect
  <2>5. StackType'
    BY <2>4 DEF Pushed
  <2> QED
    BY <1>2, <1>4, <1>5, <1>6, <2>1, <2>2, <2>3, <2>4, <2>5, Zenon
<1> QED
  BY <1>8, <1>9, Zenon

\* Whoever subscribes had not been subscribed, and will not be again.
LEMMA SubscribeKeeps ==
  ASSUME BusInv, NEW t \in Threads, subscribe(t)
  PROVE  BusInv'
<1>x. PICK x \in Subscribers : x = Arg(t)
  BY SubscribeEffect, Zenon
<1> DEFINE topic == TopicOf[x]
<1>0. BusType /\ StackType /\ FrameInv /\ ListInv /\ FreshInv
  BY DEF BusInv, BusType
<1>1. /\ x \in Subscribers /\ Asks(x, t, Depth(t), 1) /\ Depth(t) \in Nat
      /\ StackType' /\ Traced(t, 0)
      /\ callbacks' = [callbacks EXCEPT ![topic] = Append(@, x)]
      /\ removers' = removers \cup {x}
      /\ retained' = retained /\ once' = once /\ published' = published /\ received' = received
      /\ owner' \in {owner, t}
  BY <1>x, SubscribeEffect, Zenon
<1>2. \/ CallsKept
      \/ \E f \in FrameType : /\ CallsPushed(t, f) /\ f.topic = topic
                              /\ f.event \in Events /\ f.todo = <<x>>
  BY <1>x, SubscribeEffect, Zenon
<1>3. topic \in Topics /\ callbacks[topic] \in Seq(Subscribers)
  BY <1>0, <1>1, ConstantsAssumption DEF BusType
<1>4. callbacks' \in [Topics -> Seq(Subscribers)] /\ callbacks'[topic] = Append(callbacks[topic], x)
        /\ \A other \in Topics : other # topic => callbacks'[other] = callbacks[other]
  BY <1>0, <1>1, <1>3 DEF BusType
<1>5. BusType'
  BY <1>0, <1>1, <1>4 DEF BusType
<1>6. Unused(x) /\ ~Unasked(x)
  BY <1>0, <1>1 DEF FreshInv, Unasked
<1>7. FrameInv'
  <2>1. CASE CallsKept
    BY <1>0, <2>1, FramesKept
  <2>2. CASE \E f \in FrameType : /\ CallsPushed(t, f) /\ f.topic = topic
                                  /\ f.event \in Events /\ f.todo = <<x>>
    <3>1. PICK f \in FrameType : CallsPushed(t, f) /\ f.topic = topic /\ f.event \in Events /\ f.todo = <<x>>
      BY <2>2
    <3>2. \A s \in Subscribers : s \in Range(f.todo) => TopicOf[s] = f.topic
      BY <3>1 DEF Range
    <3> QED
      BY <1>0, <1>3, <3>1, <3>2, FramesPushed
  <2> QED
    BY <1>2, <2>1, <2>2
<1>8. /\ \A k \in DOMAIN callbacks'[topic] : callbacks'[topic][k] = IF k = Len(callbacks[topic]) + 1 THEN x ELSE callbacks[topic][k]
      /\ DOMAIN callbacks'[topic] = 1 .. Len(callbacks[topic]) + 1
      /\ DOMAIN callbacks[topic] = 1 .. Len(callbacks[topic]) /\ Len(callbacks[topic]) \in Nat
  BY <1>3, <1>4
<1>9. ListInv'
  <2> SUFFICES ASSUME NEW other \in Topics
               PROVE  /\ \A k \in DOMAIN callbacks'[other] : TopicOf[callbacks'[other][k]] = other
                      /\ \A k, l \in DOMAIN callbacks'[other] : callbacks'[other][k] = callbacks'[other][l] => k = l
    BY DEF ListInv
  <2>1. CASE other = topic
    <3>1. \A k \in DOMAIN callbacks[topic] : callbacks[topic][k] # x
      BY <1>6 DEF Unused, Range
    <3>2. \A k \in DOMAIN callbacks'[topic] : TopicOf[callbacks'[topic][k]] = topic
      BY <1>0, <1>3, <1>8 DEF ListInv
    <3>3. \A k, l \in DOMAIN callbacks'[topic] : callbacks'[topic][k] = callbacks'[topic][l] => k = l
      <4>1. \A k, l \in DOMAIN callbacks[topic] : callbacks[topic][k] = callbacks[topic][l] => k = l
        BY <1>0, <1>3 DEF ListInv
      <4> SUFFICES ASSUME NEW k \in DOMAIN callbacks'[topic], NEW l \in DOMAIN callbacks'[topic],
                          callbacks'[topic][k] = callbacks'[topic][l]
                   PROVE  k = l
        OBVIOUS
      <4>2. CASE k = Len(callbacks[topic]) + 1
        BY <1>8, <3>1, <4>2
      <4>3. CASE l = Len(callbacks[topic]) + 1
        BY <1>8, <3>1, <4>3
      <4>4. CASE k # Len(callbacks[topic]) + 1 /\ l # Len(callbacks[topic]) + 1
        BY <1>8, <4>1, <4>4
      <4> QED
        BY <4>2, <4>3, <4>4
    <3> QED
      BY <2>1, <3>2, <3>3
  <2>2. CASE other # topic
    BY <1>0, <1>4, <2>2 DEF ListInv
  <2> QED
    BY <2>1, <2>2
<1>10. ASSUME NEW s \in Subscribers, s # x, Unused(s)
       PROVE  Unused(s)'
  <2>1. s \notin Range(callbacks'[TopicOf[s]])
    <3>1. CASE TopicOf[s] = topic
      <4>1. \A k \in DOMAIN callbacks[topic] : callbacks[topic][k] # s
        BY <1>10, <3>1 DEF Unused, Range
      <4> QED
        BY <1>8, <1>10, <3>1, <4>1 DEF Range
    <3>2. CASE TopicOf[s] # topic
      BY <1>4, <1>10, <3>2, ConstantsAssumption DEF Unused
    <3> QED
      BY <3>1, <3>2
  <2>2. CASE CallsKept
    BY <1>10, <2>1, <2>2, UnusedKept
  <2>3. CASE \E f \in FrameType : /\ CallsPushed(t, f) /\ f.topic = topic
                                  /\ f.event \in Events /\ f.todo = <<x>>
    <3>1. PICK f \in FrameType : CallsPushed(t, f) /\ f.todo = <<x>>
      BY <2>3
    <3>2. s \notin Range(f.todo)
      BY <1>10, <3>1 DEF Range
    <3> QED
      BY <1>0, <1>10, <2>1, <3>1, <3>2, UnusedPushed
  <2> QED
    BY <1>2, <2>2, <2>3
<1>11. Unasked(x)'
  <2> SUFFICES ASSUME NEW u \in Threads, NEW i \in Nat, NEW k \in Nat, Asks(x, u, i, k)'
               PROVE  FALSE
    BY Zenon DEF Unasked
  <2>1. IF u = t /\ i = Depth(t) THEN k > 0 /\ Asks(x, u, i, k - 0 + 1) ELSE Asks(x, u, i, k)
    BY <1>1 DEF Traced
  <2>2. CASE u = t /\ i = Depth(t)
    <3>1. k > 0 /\ k + 1 \in Nat /\ Asks(x, u, i, k + 1)
      BY <2>1, <2>2
    <3> QED
      BY <1>0, <1>1, <2>2, <3>1 DEF FreshInv
  <2>3. CASE ~(u = t /\ i = Depth(t))
    BY <1>0, <1>1, <2>1, <2>3 DEF FreshInv
  <2> QED
    BY <2>2, <2>3
<1>12. x \in Stores => once[x] # "free"
  BY <1>0, <1>1, <1>6 DEF FreshInv
<1>13. FreshInv'
  <2> SUFFICES ASSUME NEW s \in Subscribers
               PROVE  /\ \A u, v \in Threads : \A i, j, k, l \in Nat :
                           Asks(s, u, i, k)' /\ Asks(s, v, j, l)' => u = v /\ i = j /\ k = l
                      /\ Unasked(s)' \/ Unused(s)'
                      /\ s \in Stores /\ once'[s] = "free" => Unasked(s)' /\ Unused(s)'
    BY Zenon DEF FreshInv
  <2>1. CASE s = x
    BY <1>1, <1>11, <1>12, <2>1, Zenon DEF Unasked
  <2>2. CASE s # x
    <3>1. Unasked(s) => Unasked(s)'
      <4> SUFFICES ASSUME Unasked(s), NEW u \in Threads, NEW i \in Nat, NEW k \in Nat, Asks(s, u, i, k)'
                   PROVE  FALSE
        BY Zenon DEF Unasked
      <4> QED
        BY <1>1 DEF Unasked, Traced
    <3>2. ASSUME NEW u \in Threads, NEW v \in Threads, NEW i \in Nat, NEW j \in Nat, NEW k \in Nat, NEW l \in Nat,
                 Asks(s, u, i, k)', Asks(s, v, j, l)'
          PROVE  u = v /\ i = j /\ k = l
      BY <1>0, <1>1, <3>2, TracedOnce
    <3> QED
      <4>1. Unasked(s)' \/ Unused(s)'
        BY <1>0, <1>10, <2>2, <3>1, Zenon DEF FreshInv
      <4>2. s \in Stores /\ once'[s] = "free" => Unasked(s)' /\ Unused(s)'
        BY <1>0, <1>1, <1>10, <2>2, <3>1, Zenon DEF FreshInv
      <4> QED
        BY <3>2, <4>1, <4>2
  <2> QED
    BY <2>1, <2>2
<1> QED
  BY <1>5, <1>7, <1>9, <1>13 DEF BusInv

\* A step that calls nobody and asks for no subscription keeps the invariant,
\* whoever it takes off a list.
LEMMA QuietKeeps ==
  ASSUME BusInv, NEW t \in Threads, NEW m \in Nat, BusType', CallsKept, Traced(t, m), ListInv',
         \A topic \in Topics : Range(callbacks'[topic]) \subseteq Range(callbacks[topic]),
         \A s \in Stores : once'[s] = "free" => once[s] = "free"
  PROVE  BusInv'
<1>0. BusType /\ StackType /\ FrameInv /\ ListInv /\ FreshInv
  BY DEF BusInv, BusType
<1>1. FrameInv'
  BY <1>0, FramesKept
<1>2. ASSUME NEW s \in Subscribers, Unused(s)
      PROVE  Unused(s)'
  <2>1. s \notin Range(callbacks'[TopicOf[s]])
    BY <1>2, ConstantsAssumption DEF Unused
  <2> QED
    BY <1>2, <2>1, UnusedKept
<1>3. FreshInv'
  BY <1>0, <1>2, FreshKept
<1> QED
  BY <1>1, <1>3 DEF BusInv

\* unsubscribe takes the remover and is to call it next.
LEMMA UnsubscribeEffect ==
  ASSUME BusInv, NEW t \in Threads, unsubscribe(t)
  PROVE  /\ StackType' /\ CallsKept /\ \E m \in Nat : Traced(t, m)
         /\ removers' \subseteq removers /\ owner' = owner /\ callbacks' = callbacks
         /\ retained' = retained /\ once' = once /\ published' = published /\ received' = received
<1> DEFINE rest == IF Arg(t) \in removers THEN <<Remover(Arg(t))>> ELSE <<>>
<1>0. StackType
  BY DEF BusInv, BusType
<1>1. Top(t).ops # <<>> /\ Head(Top(t).ops).op = "unsubscribe"
  BY DEF unsubscribe, At
<1>2. Arg(t) \in Subscribers
  BY <1>0, <1>1, TopFrame, HeadTailProperties, OpArg DEF Arg
<1>3. Remover(Arg(t)) \in Op /\ Remover(Arg(t)).op # "subscribe"
  BY <1>2 DEF Remover, Op
<1>4. rest \in Seq(Op) /\ Len(rest) \in Nat /\ \A k \in DOMAIN rest : rest[k].op # "subscribe"
  BY <1>3
<1>5. Continue(t, rest)
  BY DEF unsubscribe
<1> HIDE DEF rest
<1>6. Becomes(t, Rest(t, rest)) /\ CallsKept /\ Traced(t, Len(rest))
  BY <1>0, <1>1, <1>4, <1>5, ContinueEffect
<1>7. /\ removers' \subseteq removers /\ owner' = owner /\ callbacks' = callbacks
      /\ retained' = retained /\ once' = once /\ published' = published /\ received' = received
  BY DEF unsubscribe
<1> QED
  BY <1>4, <1>6, <1>7 DEF Becomes

\* Nothing is taken off a list before the remover runs.
LEMMA UnsubscribeKeeps ==
  ASSUME BusInv, NEW t \in Threads, unsubscribe(t)
  PROVE  BusInv'
<1>1. /\ StackType' /\ CallsKept
      /\ removers' \subseteq removers /\ owner' = owner /\ callbacks' = callbacks
      /\ retained' = retained /\ once' = once /\ published' = published /\ received' = received
  BY UnsubscribeEffect
<1>2. PICK m \in Nat : Traced(t, m)
  BY UnsubscribeEffect
<1>3. BusType'
  BY <1>1 DEF BusInv, BusType
<1>4. ListInv'
  BY <1>1 DEF BusInv, ListInv
<1> QED
  BY <1>1, <1>2, <1>3, <1>4, QuietKeeps

\* A list of which every entry differs, without one of its entries.
LEMMA WithoutOne ==
  ASSUME NEW list \in Seq(Subscribers), NEW s,
         \A k, l \in DOMAIN list : list[k] = list[l] => k = l
  PROVE  /\ Without(list, s) \in Seq(Subscribers)
         /\ \A k, l \in DOMAIN Without(list, s) : Without(list, s)[k] = Without(list, s)[l] => k = l
         /\ Range(Without(list, s)) = Range(list) \ {s}
<1>1. CASE s \notin Range(list)
  <2>1. Without(list, s) = list
    BY <1>1 DEF Without
  <2> QED
    BY <1>1, <2>1
<1>2. CASE s \in Range(list)
  <2> DEFINE at == CHOOSE i \in DOMAIN list : list[i] = s
             n == Len(list)
             rest == [i \in 1 .. n - 1 |-> IF i < at THEN list[i] ELSE list[i + 1]]
  <2>1. DOMAIN list = 1 .. n /\ n \in Nat
    OBVIOUS
  <2>2. at \in 1 .. n /\ list[at] = s
    <3>1. \E i \in DOMAIN list : list[i] = s
      BY <1>2 DEF Range
    <3> QED
      BY <2>1, <3>1, Zenon
  <2>3. Without(list, s) = rest
    BY <1>2 DEF Without
  <2> HIDE DEF at, n
  <2>4. n - 1 \in Nat /\ rest \in [1 .. n - 1 -> Subscribers]
    <3>1. n - 1 \in Nat
      BY <2>1, <2>2
    <3>2. \A i \in 1 .. n - 1 : (IF i < at THEN list[i] ELSE list[i + 1]) \in Subscribers
      BY <2>1, <2>2
    <3> QED
      BY <3>1, <3>2
  <2>5. rest \in Seq(Subscribers) /\ DOMAIN rest = 1 .. n - 1
    <3> HIDE DEF rest
    <3> QED
      BY <2>4, SeqDef
  <2>6. \A i \in 1 .. n - 1 : rest[i] = list[IF i < at THEN i ELSE i + 1]
    OBVIOUS
  <2>7. \A i \in 1 .. n - 1 : rest[i] \in Range(list) /\ rest[i] # s
    <3> SUFFICES ASSUME NEW i \in 1 .. n - 1
                 PROVE  rest[i] \in Range(list) /\ rest[i] # s
      OBVIOUS
    <3>1. PICK j \in 1 .. n : j = (IF i < at THEN i ELSE i + 1) /\ j # at
      BY <2>1, <2>2
    <3>2. rest[i] = list[j]
      BY <2>6, <3>1
    <3> HIDE DEF rest
    <3> QED
      BY <2>1, <2>2, <3>1, <3>2 DEF Range
  <2>8. \A j \in 1 .. n : list[j] # s => \E i \in 1 .. n - 1 : rest[i] = list[j]
    <3> SUFFICES ASSUME NEW j \in 1 .. n, list[j] # s
                 PROVE  \E i \in 1 .. n - 1 : rest[i] = list[j]
      OBVIOUS
    <3>1. j # at
      BY <2>2
    <3>2. CASE j < at
      <4>1. j \in 1 .. n - 1 /\ rest[j] = list[j]
        BY <2>1, <2>2, <2>6, <3>2
      <4> QED
        BY <4>1
    <3>3. CASE j > at
      <4>1. j - 1 \in 1 .. n - 1 /\ ~(j - 1 < at) /\ (j - 1) + 1 = j
        BY <2>1, <2>2, <3>3
      <4>2. rest[j - 1] = list[j]
        BY <2>6, <4>1
      <4> QED
        BY <4>1, <4>2
    <3> QED
      BY <2>1, <2>2, <3>1, <3>2, <3>3
  <2> HIDE DEF rest
  <2>9. Range(rest) = Range(list) \ {s}
    <3>1. Range(rest) \subseteq Range(list) \ {s}
      BY <2>5, <2>7 DEF Range
    <3>2. \A j \in 1 .. n : list[j] # s => list[j] \in Range(rest)
      BY <2>5, <2>8 DEF Range
    <3>3. \A y \in Range(list) : \E j \in 1 .. n : y = list[j]
      BY <2>1 DEF Range
    <3> QED
      BY <3>1, <3>2, <3>3
  <2>10. \A k, l \in 1 .. n - 1 : rest[k] = rest[l] => k = l
    <3> SUFFICES ASSUME NEW k \in 1 .. n - 1, NEW l \in 1 .. n - 1, rest[k] = rest[l]
                 PROVE  k = l
      OBVIOUS
    <3>1. PICK i \in 1 .. n : i = (IF k < at THEN k ELSE k + 1) /\ rest[k] = list[i]
      BY <2>1, <2>2, <2>6
    <3>2. PICK j \in 1 .. n : j = (IF l < at THEN l ELSE l + 1) /\ rest[l] = list[j]
      BY <2>1, <2>2, <2>6
    <3>3. i = j
      BY <2>1, <3>1, <3>2, Zenon
    <3> QED
      BY <2>1, <2>2, <3>1, <3>2, <3>3
  <2> QED
    BY <2>3, <2>5, <2>9, <2>10
<1> QED
  BY <1>1, <1>2

\* The remover takes the one entry of the subscriber off its list.
LEMMA RemoverEffect ==
  ASSUME BusInv, NEW t \in Threads, remover(t)
  PROVE  /\ Arg(t) \in Subscribers
         /\ StackType' /\ CallsKept /\ Traced(t, 0)
         /\ callbacks' \in [Topics -> Seq(Subscribers)] /\ ListInv'
         /\ Range(callbacks'[TopicOf[Arg(t)]]) = Range(callbacks[TopicOf[Arg(t)]]) \ {Arg(t)}
         /\ \A topic \in Topics : topic # TopicOf[Arg(t)] => callbacks'[topic] = callbacks[topic]
         /\ removers' = removers /\ owner' = owner
         /\ retained' = retained /\ once' = once /\ published' = published /\ received' = received
<1>0. StackType /\ callbacks \in [Topics -> Seq(Subscribers)] /\ ListInv
  BY DEF BusInv, BusType
<1>1. Top(t).ops # <<>> /\ Head(Top(t).ops).op = "remover"
  BY DEF remover, At
<1>2. Arg(t) \in Subscribers
  BY <1>0, <1>1, TopFrame, HeadTailProperties, OpArg, Zenon DEF Arg
<1>3. PICK x \in Subscribers : x = Arg(t)
  BY <1>2
<1>4. PICK topic \in Topics : topic = TopicOf[x]
  BY ConstantsAssumption
<1>5. /\ Continue(t, <<>>) /\ callbacks' = [callbacks EXCEPT ![topic] = Without(callbacks[topic], x)]
      /\ removers' = removers /\ owner' = owner
      /\ retained' = retained /\ once' = once /\ published' = published /\ received' = received
  BY <1>3, <1>4 DEF remover
<1>6. <<>> \in Seq(Op) /\ Len(<<>>) = 0 /\ \A k \in DOMAIN <<>> : <<>>[k].op # "subscribe"
  OBVIOUS
<1>7. Becomes(t, Rest(t, <<>>)) /\ CallsKept /\ Traced(t, Len(<<>>))
  BY <1>0, <1>1, <1>5, <1>6, ContinueEffect, Zenon
<1>8. StackType' /\ Traced(t, 0)
  BY <1>6, <1>7 DEF Becomes
<1> DEFINE list == callbacks[topic]
           rest == Without(list, x)
<1>9. list \in Seq(Subscribers) /\ \A k, l \in DOMAIN list : list[k] = list[l] => k = l
  BY <1>0 DEF ListInv
<1> HIDE DEF list
<1>10. /\ rest \in Seq(Subscribers) /\ Range(rest) = Range(list) \ {x}
       /\ \A k, l \in DOMAIN rest : rest[k] = rest[l] => k = l
  BY <1>9, WithoutOne
<1> HIDE DEF rest
<1>11. callbacks'[topic] = rest /\ \A other \in Topics : other # topic => callbacks'[other] = callbacks[other]
  BY <1>0, <1>5 DEF list, rest
<1>12. callbacks' \in [Topics -> Seq(Subscribers)]
  BY <1>0, <1>5, <1>10 DEF list, rest
<1>13. ListInv'
  <2> SUFFICES ASSUME NEW other \in Topics
               PROVE  /\ \A k \in DOMAIN callbacks'[other] : TopicOf[callbacks'[other][k]] = other
                      /\ \A k, l \in DOMAIN callbacks'[other] : callbacks'[other][k] = callbacks'[other][l] => k = l
    BY DEF ListInv
  <2>1. CASE other = topic
    <3>1. \A y \in Range(list) : TopicOf[y] = topic
      BY <1>0 DEF ListInv, Range, list
    <3>2. \A k \in DOMAIN rest : TopicOf[rest[k]] = topic
      BY <1>10, <3>1 DEF Range
    <3> QED
      BY <1>10, <1>11, <2>1, <3>2
  <2>2. CASE other # topic
    BY <1>0, <1>11, <2>2 DEF ListInv
  <2> QED
    BY <2>1, <2>2
<1> QED
  BY <1>2, <1>3, <1>4, <1>5, <1>7, <1>8, <1>10, <1>11, <1>12, <1>13 DEF list

\* Who has left is not owed anything it was not owed before.
LEMMA RemoverKeeps ==
  ASSUME BusInv, NEW t \in Threads, remover(t)
  PROVE  BusInv'
<1>1. /\ StackType' /\ CallsKept /\ Traced(t, 0)
      /\ callbacks' \in [Topics -> Seq(Subscribers)] /\ ListInv'
      /\ removers' = removers /\ owner' = owner
      /\ retained' = retained /\ once' = once /\ published' = published /\ received' = received
  BY RemoverEffect, Zenon
<1>2. \A topic \in Topics : Range(callbacks'[topic]) \subseteq Range(callbacks[topic])
  BY RemoverEffect, Zenon
<1>3. BusType'
  BY <1>1 DEF BusInv, BusType
<1> QED
  BY <1>1, <1>2, <1>3, QuietKeeps

\* The first use of a store is to subscribe it next; a later one does nothing.
LEMMA InstanceEffect ==
  ASSUME BusInv, NEW t \in Threads, instance(t)
  PROVE  /\ Arg(t) \in Stores /\ StackType' /\ CallsKept
         /\ owner' = owner /\ callbacks' = callbacks /\ removers' = removers
         /\ retained' = retained /\ published' = published /\ received' = received
         /\ \/ Traced(t, 0) /\ once' = once
            \/ /\ once[Arg(t)] = "free" /\ once' = [once EXCEPT ![Arg(t)] = t]
               /\ \A s \in Subscribers, u \in Threads : \A i, k \in Nat :
                    Asks(s, u, i, k)' =>
                      IF u = t /\ i = Depth(t)
                      THEN \/ k = 1 /\ s = Arg(t)
                           \/ k > 2 /\ Asks(s, u, i, k - 1)
                      ELSE Asks(s, u, i, k)
<1>0. StackType
  BY DEF BusInv, BusType
<1>1. Top(t).ops # <<>> /\ Head(Top(t).ops).op = "instance"
  BY Zenon DEF instance, At
<1>2. Arg(t) \in Stores
  BY <1>0, <1>1, TopFrame, HeadTailProperties, OpArg, Zenon DEF Arg
<1>3. /\ owner' = owner /\ callbacks' = callbacks /\ removers' = removers
      /\ retained' = retained /\ published' = published /\ received' = received
  BY DEF instance
<1>4. CASE once[Arg(t)] # "free"
  <2>1. Continue(t, <<>>) /\ once' = once
    BY <1>4 DEF instance
  <2>2. <<>> \in Seq(Op) /\ Len(<<>>) = 0 /\ \A k \in DOMAIN <<>> : <<>>[k].op # "subscribe"
    OBVIOUS
  <2>3. Becomes(t, Rest(t, <<>>)) /\ CallsKept /\ Traced(t, Len(<<>>))
    BY <1>0, <1>1, <2>1, <2>2, ContinueEffect, Zenon
  <2>4. StackType' /\ Traced(t, 0)
    BY <2>2, <2>3 DEF Becomes
  <2> QED
    BY <1>2, <1>3, <2>1, <2>3, <2>4
<1>5. CASE once[Arg(t)] = "free"
  <2>1. PICK x \in Stores : x = Arg(t)
    BY <1>2
  <2>2. Continue(t, <<Sub(x), Ready(x)>>) /\ once' = [once EXCEPT ![Arg(t)] = t]
    BY <1>5, <2>1 DEF instance
  <2> DEFINE rest == <<Sub(x), Ready(x)>>
  <2>3. Sub(x) \in Op /\ Ready(x) \in Op /\ Sub(x).arg = x /\ Ready(x).op # "subscribe"
    BY ConstantsAssumption DEF Op, Operations, Sub, Ready
  <2>4. rest \in Seq(Op) /\ Len(rest) = 2 /\ rest[1] = Sub(x) /\ rest[2] = Ready(x)
    BY <2>3
  <2>5. Continue(t, rest)
    BY <2>2
  <2> HIDE DEF rest
  <2>6. Becomes(t, Rest(t, rest)) /\ CallsKept
    BY <1>0, <1>1, <2>4, <2>5, ContinueEffect, Zenon
  <2>7. Rest(t, rest).ops = rest \o Tail(Top(t).ops)
    BY <1>0, <1>1, <2>4, RestFrame, Zenon
  <2>8. /\ Depth(t) = Len(stack[t]) /\ Len(stack[t]) \in Nat /\ Depth(t) \in 1 .. Len(stack[t])
        /\ Top(t) = stack[t][Depth(t)] /\ Top(t).ops \in Seq(Op)
    BY <1>0, TopFrame
  <2> DEFINE ops == Top(t).ops
             new == rest \o Tail(ops)
  <2>9. /\ Len(ops) \in Nat /\ Len(ops) >= 1 /\ Tail(ops) \in Seq(Op) /\ Len(Tail(ops)) = Len(ops) - 1
        /\ \A i \in 1 .. Len(ops) - 1 : Tail(ops)[i] = ops[i + 1]
    BY <1>1, <2>8, HeadTailProperties
  <2>10. /\ DOMAIN new = 1 .. Len(ops) + 1
         /\ \A k \in 1 .. Len(ops) + 1 : new[k] = IF k <= 2 THEN rest[k] ELSE Tail(ops)[k - 2]
    <3> HIDE DEF ops
    <3>1. Len(new) = Len(rest) + Len(Tail(ops)) /\ new \in Seq(Op)
            /\ \A k \in 1 .. Len(rest) + Len(Tail(ops)) : new[k] = IF k <= Len(rest) THEN rest[k] ELSE Tail(ops)[k - Len(rest)]
      BY <2>4, <2>9, ConcatProperties, Zenon
    <3> HIDE DEF new
    <3>2. DOMAIN new = 1 .. Len(new)
      BY <3>1
    <3> QED
      BY <2>4, <2>9, <3>1, <3>2
  <2> HIDE DEF ops
  <2>11. \A k \in 1 .. Len(ops) + 1 : k > 2 => k - 1 \in 1 .. Len(ops) /\ new[k] = ops[k - 1]
    BY <2>9, <2>10
  <2>12. ASSUME NEW s \in Subscribers, NEW u \in Threads, NEW i \in Nat, NEW k \in Nat, Asks(s, u, i, k)'
         PROVE  IF u = t /\ i = Depth(t)
                THEN (k = 1 /\ s = x) \/ (k > 2 /\ Asks(s, u, i, k - 1))
                ELSE Asks(s, u, i, k)
    <3>1. CASE u = t /\ i = Depth(t)
      <4>1. stack'[u][i].ops = new
        BY <2>6, <2>7, <3>1, Zenon DEF Becomes, ops
      <4> HIDE DEF new
      <4>2. k \in DOMAIN new /\ new[k].op = "subscribe" /\ new[k].arg = s
        BY <2>12, <4>1 DEF Asks
      <4>3. CASE k > 2
        <5>1. k - 1 \in 1 .. Len(ops) /\ ops[k - 1].op = "subscribe" /\ ops[k - 1].arg = s
          BY <2>10, <2>11, <4>2, <4>3
        <5>2. DOMAIN ops = 1 .. Len(ops) /\ stack[u][i].ops = ops
          BY <2>8, <3>1 DEF ops
        <5> QED
          BY <2>8, <3>1, <4>3, <5>1, <5>2 DEF Asks
      <4>4. CASE k = 2
        <5>1. new[2] = rest[2]
          BY <2>9, <2>10
        <5> QED
          BY <2>3, <2>4, <4>2, <4>4, <5>1
      <4>5. CASE k = 1
        BY <2>3, <2>4, <2>10, <3>1, <4>2, <4>5
      <4> QED
        BY <2>10, <4>2, <4>3, <4>4, <4>5
    <3>2. CASE ~(u = t /\ i = Depth(t))
      <4>1. StackType /\ i \in 1 .. Len(stack'[u])
        BY <2>12, Zenon DEF BusInv, BusType, Asks
      <4>2. i \in 1 .. Len(stack[u]) /\ stack'[u][i] = stack[u][i]
        BY <2>6, <3>2, <4>1, BelowKept, Zenon DEF Becomes
      <4> QED
        BY <2>12, <3>2, <4>2, Zenon DEF Asks
    <3> QED
      BY <3>1, <3>2
  <2> QED
    BY <1>2, <1>3, <1>5, <2>1, <2>2, <2>6, <2>12, Zenon DEF Becomes
<1> QED
  BY <1>4, <1>5, Zenon

\* A store that is used for the first time has not subscribed before, and no
\* other thread is about to subscribe it.
LEMMA InstanceKeeps ==
  ASSUME BusInv, NEW t \in Threads, instance(t)
  PROVE  BusInv'
<1>0. BusType /\ FrameInv /\ ListInv /\ FreshInv /\ once \in [Stores -> Threads \cup {"free", "done"}]
  BY DEF BusInv, BusType
<1>1. /\ Arg(t) \in Stores /\ StackType' /\ CallsKept
      /\ owner' = owner /\ callbacks' = callbacks /\ removers' = removers
      /\ retained' = retained /\ published' = published /\ received' = received
  BY InstanceEffect
<1>2. ListInv'
  BY <1>0, <1>1, Zenon DEF ListInv
<1>3. CASE Traced(t, 0) /\ once' = once
  <2>1. BusType'
    BY <1>0, <1>1, <1>3 DEF BusType
  <2> QED
    BY <1>1, <1>2, <1>3, <2>1, QuietKeeps
<1>4. CASE /\ once[Arg(t)] = "free" /\ once' = [once EXCEPT ![Arg(t)] = t]
           /\ \A s \in Subscribers, u \in Threads : \A i, k \in Nat :
                Asks(s, u, i, k)' =>
                  IF u = t /\ i = Depth(t)
                  THEN \/ k = 1 /\ s = Arg(t)
                       \/ k > 2 /\ Asks(s, u, i, k - 1)
                  ELSE Asks(s, u, i, k)
  <2>1. PICK x \in Stores : x = Arg(t)
    BY <1>1
  <2>2. once' \in [Stores -> Threads \cup {"free", "done"}] /\ once'[x] # "free"
          /\ \A s \in Stores : s # x => once'[s] = once[s]
    BY <1>0, <1>4, <2>1, ConstantsAssumption
  <2>3. BusType'
    BY <1>0, <1>1, <2>2 DEF BusType
  <2>4. FrameInv'
    BY <1>0, <1>1, FramesKept
  <2>5. Unasked(x) /\ Unused(x) /\ x \in Subscribers
    BY <1>0, <1>4, <2>1, ConstantsAssumption DEF FreshInv
  <2>6. ASSUME NEW s \in Subscribers, Unused(s)
        PROVE  Unused(s)'
    <3>1. s \notin Range(callbacks'[TopicOf[s]])
      BY <1>1, <2>6, Zenon DEF Unused
    <3> QED
      BY <1>1, <2>6, <3>1, UnusedKept, Zenon
  <2>7. ASSUME NEW u \in Threads, NEW i \in Nat, NEW k \in Nat, Asks(x, u, i, k)'
        PROVE  u = t /\ i = Depth(t) /\ k = 1
    <3>1. k > 2 => k - 1 \in Nat
      OBVIOUS
    <3> QED
      BY <1>4, <2>5, <2>7, <3>1 DEF Unasked
  <2>8. ASSUME NEW s \in Subscribers, s # x, NEW u \in Threads, NEW i \in Nat, NEW k \in Nat, Asks(s, u, i, k)'
        PROVE  \E p \in Nat : Asks(s, u, i, p) /\ p = IF u = t /\ i = Depth(t) THEN k - 1 ELSE k
    <3>1. k > 2 => k - 1 \in Nat
      OBVIOUS
    <3> QED
      BY <1>4, <2>1, <2>8, <3>1
  <2>9. FreshInv'
    <3> SUFFICES ASSUME NEW s \in Subscribers
                 PROVE  /\ \A u, v \in Threads : \A i, j, k, l \in Nat :
                             Asks(s, u, i, k)' /\ Asks(s, v, j, l)' => u = v /\ i = j /\ k = l
                        /\ Unasked(s)' \/ Unused(s)'
                        /\ s \in Stores /\ once'[s] = "free" => Unasked(s)' /\ Unused(s)'
      BY Zenon DEF FreshInv
    <3>1. CASE s = x
      <4>1. Unused(s)'
        BY <2>5, <2>6, <3>1
      <4>2. ASSUME NEW u \in Threads, NEW v \in Threads, NEW i \in Nat, NEW j \in Nat, NEW k \in Nat, NEW l \in Nat,
                   Asks(s, u, i, k)', Asks(s, v, j, l)'
            PROVE  u = v /\ i = j /\ k = l
        <5>1. u = t /\ i = Depth(t) /\ k = 1
          BY <2>7, <3>1, <4>2
        <5>2. v = t /\ j = Depth(t) /\ l = 1
          BY <2>7, <3>1, <4>2
        <5> QED
          BY <5>1, <5>2
      <4> QED
        BY <2>2, <3>1, <4>1, <4>2
    <3>2. CASE s # x
      <4>1. Unasked(s) => Unasked(s)'
        <5> SUFFICES ASSUME Unasked(s), NEW u \in Threads, NEW i \in Nat, NEW k \in Nat, Asks(s, u, i, k)'
                     PROVE  FALSE
          BY Zenon DEF Unasked
        <5>1. PICK p \in Nat : Asks(s, u, i, p)
          BY <2>8, <3>2
        <5> QED
          BY <5>1 DEF Unasked
      <4>2. ASSUME NEW u \in Threads, NEW v \in Threads, NEW i \in Nat, NEW j \in Nat, NEW k \in Nat, NEW l \in Nat,
                   Asks(s, u, i, k)', Asks(s, v, j, l)'
            PROVE  u = v /\ i = j /\ k = l
        <5>1. PICK p \in Nat : Asks(s, u, i, p) /\ p = IF u = t /\ i = Depth(t) THEN k - 1 ELSE k
          BY <2>8, <3>2, <4>2
        <5>2. PICK q \in Nat : Asks(s, v, j, q) /\ q = IF v = t /\ j = Depth(t) THEN l - 1 ELSE l
          BY <2>8, <3>2, <4>2
        <5>3. u = v /\ i = j /\ p = q
          BY <1>0, <5>1, <5>2 DEF FreshInv
        <5> QED
          BY <5>1, <5>2, <5>3
      <4>3. Unasked(s)' \/ Unused(s)'
        BY <1>0, <2>6, <4>1, Zenon DEF FreshInv
      <4>4. s \in Stores => once'[s] = once[s]
        BY <2>2, <3>2
      <4>5. s \in Stores /\ once'[s] = "free" => Unasked(s)' /\ Unused(s)'
        BY <1>0, <2>6, <4>1, <4>4 DEF FreshInv
      <4> QED
        BY <4>2, <4>3, <4>5
    <3> QED
      BY <3>1, <3>2
  <2> QED
    BY <1>2, <2>3, <2>4, <2>9 DEF BusInv
<1> QED
  BY <1>3, <1>4, InstanceEffect, Zenon

\* The end of a store's construction.
LEMMA ReadyEffect ==
  ASSUME BusInv, NEW t \in Threads, ready(t)
  PROVE  /\ StackType' /\ CallsKept /\ Traced(t, 0)
         /\ once' \in [Stores -> Threads \cup {"free", "done"}]
         /\ \A s \in Stores : once'[s] = "free" => once[s] = "free"
         /\ owner' = owner /\ callbacks' = callbacks /\ removers' = removers
         /\ retained' = retained /\ published' = published /\ received' = received
<1>0. StackType /\ once \in [Stores -> Threads \cup {"free", "done"}]
  BY DEF BusInv, BusType
<1>1. Top(t).ops # <<>> /\ Continue(t, <<>>)
  BY DEF ready, At
<1>2. <<>> \in Seq(Op) /\ Len(<<>>) = 0 /\ \A k \in DOMAIN <<>> : <<>>[k].op # "subscribe"
  OBVIOUS
<1>3. Becomes(t, Rest(t, <<>>)) /\ CallsKept /\ Traced(t, Len(<<>>))
  BY <1>0, <1>1, <1>2, ContinueEffect, Zenon
<1>4. StackType' /\ Traced(t, 0)
  BY <1>2, <1>3 DEF Becomes
<1>5. /\ owner' = owner /\ callbacks' = callbacks /\ removers' = removers
      /\ retained' = retained /\ published' = published /\ received' = received
  BY DEF ready
<1>6. once' = [once EXCEPT ![Arg(t)] = "done"]
  BY DEF ready
<1> QED
  BY <1>0, <1>3, <1>4, <1>5, <1>6, Zenon

\* So a store that is done stays done.
LEMMA ReadyKeeps ==
  ASSUME BusInv, NEW t \in Threads, ready(t)
  PROVE  BusInv'
<1>1. /\ StackType' /\ CallsKept /\ Traced(t, 0)
      /\ once' \in [Stores -> Threads \cup {"free", "done"}]
      /\ \A s \in Stores : once'[s] = "free" => once[s] = "free"
      /\ owner' = owner /\ callbacks' = callbacks /\ removers' = removers
      /\ retained' = retained /\ published' = published /\ received' = received
  BY ReadyEffect, Zenon
<1>2. BusType'
  BY <1>1 DEF BusInv, BusType
<1>3. ListInv'
  BY <1>1, Zenon DEF BusInv, ListInv
<1> QED
  BY <1>1, <1>2, <1>3, QuietKeeps

\* At the start nobody is subscribed or being called, and the programs
\* subscribe each name once.
LEMMA BusInvInit ==
  ASSUME Init
  PROVE  BusInv
<1>1. PICK program \in Programs :
        stack = [t \in Threads |-> <<Frame(Nothing, Nothing, <<>>, program[t])>>]
  BY DEF Init
<1>2. /\ owner = Nothing /\ callbacks = [topic \in Topics |-> <<>>]
      /\ retained = [topic \in Topics |-> Nothing] /\ removers = {} /\ published = 0
      /\ once = [store \in Stores |-> "free"] /\ received = [s \in Subscribers |-> <<>>]
  BY DEF Init
<1>3. program \in [Threads -> Seq(Operations)]
  BY ProgramsAssumption
<1>4. ASSUME NEW t \in Threads
      PROVE  /\ program[t] \in Seq(Op) /\ Frame(Nothing, Nothing, <<>>, program[t]) \in FrameType
             /\ stack[t] = <<Frame(Nothing, Nothing, <<>>, program[t])>>
             /\ Frame(Nothing, Nothing, <<>>, program[t]).todo = <<>>
             /\ Frame(Nothing, Nothing, <<>>, program[t]).ops = program[t]
  <2>1. Operations \subseteq Op
    BY Zenon DEF Op
  <2>2. program[t] \in Seq(Op)
    BY <1>3, <2>1, SeqWider
  <2>3. stack[t] = <<Frame(Nothing, Nothing, <<>>, program[t])>>
    BY <1>1
  <2> QED
    BY <2>2, <2>3 DEF Frame, FrameType
<1>5. \A t \in Threads : stack[t] \in Seq(FrameType) /\ Len(stack[t]) = 1 /\ stack[t][1].todo = <<>>
                           /\ stack[t][1].ops = program[t]
  <2> SUFFICES ASSUME NEW t \in Threads
               PROVE  /\ stack[t] \in Seq(FrameType) /\ Len(stack[t]) = 1 /\ stack[t][1].todo = <<>>
                      /\ stack[t][1].ops = program[t]
    BY Zenon
  <2>1. PICK f \in FrameType : stack[t] = <<f>> /\ f.todo = <<>> /\ f.ops = program[t]
    BY <1>4
  <2> QED
    BY <2>1
<1>6. StackType
  BY <1>1, <1>5 DEF StackType
<1>7. BusType
  BY <1>2, <1>6, ConstantsAssumption DEF BusType
<1>8. \A t \in Threads : \A i \in 1 .. Len(stack[t]) : i = 1 /\ Range(stack[t][i].todo) = {}
  <2>1. Range(<<>>) = {}
    BY DEF Range
  <2> SUFFICES ASSUME NEW t \in Threads, NEW i \in 1 .. Len(stack[t])
               PROVE  i = 1 /\ Range(stack[t][i].todo) = {}
    BY Zenon
  <2>2. Len(stack[t]) = 1 /\ stack[t][1].todo = <<>>
    BY <1>5
  <2>3. i = 1
    BY <2>2
  <2> QED
    BY <2>1, <2>2, <2>3, Zenon
<1>9. FrameInv
  BY <1>8 DEF FrameInv, Due
<1>10. ListInv
  BY <1>2 DEF ListInv
<1>11. \A s \in Subscribers : Unused(s)
  <2>1. \A topic \in Topics : Range(callbacks[topic]) = {}
    BY <1>2 DEF Range
  <2> QED
    BY <1>8, <2>1, ConstantsAssumption DEF Unused, Due
<1>12. ASSUME NEW s \in Subscribers, NEW t \in Threads, NEW i \in Nat, NEW k \in Nat, Asks(s, t, i, k)
       PROVE  i = 1 /\ k \in DOMAIN program[t] /\ program[t][k].op = "subscribe" /\ program[t][k].arg = s
  BY <1>5, <1>12 DEF Asks
<1>13. ASSUME NEW s \in Subscribers, NEW t \in Threads, NEW u \in Threads, NEW i \in Nat, NEW j \in Nat,
              NEW k \in Nat, NEW l \in Nat, Asks(s, t, i, k), Asks(s, u, j, l)
       PROVE  t = u /\ i = j /\ k = l
  <2>1. i = 1 /\ k \in DOMAIN program[t] /\ program[t][k].op = "subscribe" /\ program[t][k].arg = s
    BY <1>12, <1>13
  <2>2. j = 1 /\ l \in DOMAIN program[u] /\ program[u][l].op = "subscribe" /\ program[u][l].arg = s
    BY <1>12, <1>13
  <2> QED
    BY <2>1, <2>2, ProgramsAssumption
<1>14. \A s \in Stores : Unasked(s)
  <2> SUFFICES ASSUME NEW s \in Stores, NEW t \in Threads, NEW i \in Nat, NEW k \in Nat, Asks(s, t, i, k)
               PROVE  FALSE
    BY Zenon DEF Unasked
  <2>1. s \in Subscribers
    BY ConstantsAssumption, Zenon
  <2>2. k \in DOMAIN program[t] /\ program[t][k].op = "subscribe" /\ program[t][k].arg = s
    BY <1>12, <2>1
  <2> QED
    BY <2>2, NotAStore
<1>15. FreshInv
  BY <1>11, <1>13, <1>14 DEF FreshInv
<1> QED
  BY <1>7, <1>9, <1>10, <1>15 DEF BusInv

\* Every operation and every dispatch step keeps the bus invariant.
LEMMA BusInvStep ==
  ASSUME BusInv, [Next]_busVars
  PROVE  BusInv'
<1>1. CASE Next
  <2>1. PICK t \in Threads : Step(t)
    BY <1>1 DEF Next
  <2>2. CASE publish(t)
    BY <2>2, PublishKeeps
  <2>3. CASE Dispatch(t)
    BY <2>3, DispatchKeeps
  <2>4. CASE Return(t)
    BY <2>4, ReturnKeeps
  <2>5. CASE subscribe(t)
    BY <2>5, SubscribeKeeps
  <2>6. CASE unsubscribe(t)
    BY <2>6, UnsubscribeKeeps
  <2>7. CASE remover(t)
    BY <2>7, RemoverKeeps
  <2>8. CASE instance(t)
    BY <2>8, InstanceKeeps
  <2>9. CASE ready(t)
    BY <2>9, ReadyKeeps
  <2> QED
    BY <2>1, <2>2, <2>3, <2>4, <2>5, <2>6, <2>7, <2>8, <2>9, Zenon DEF Step
<1>2. CASE UNCHANGED busVars
  <2>1. stack' = stack /\ owner' = owner /\ callbacks' = callbacks /\ retained' = retained
          /\ removers' = removers /\ once' = once /\ published' = published /\ received' = received
    BY <1>2 DEF busVars
  <2>2. BusType' /\ ListInv' /\ FrameInv'
    <3>1. BusType'
      BY <2>1, Zenon DEF BusInv, BusType, StackType
    <3>2. ListInv'
      BY <2>1, Zenon DEF BusInv, ListInv
    <3>3. FrameInv'
      BY <2>1, Zenon DEF BusInv, FrameInv, Due
    <3> QED
      BY <3>1, <3>2, <3>3, Zenon
  <2>3. FreshInv'
    <3>1. \A s \in Subscribers, t \in Threads : \A i, k \in Nat : Asks(s, t, i, k)' <=> Asks(s, t, i, k)
      BY <2>1 DEF Asks
    <3>2. \A s \in Subscribers : Unused(s)' <=> Unused(s)
      BY <2>1, Zenon DEF Unused, Due
    <3>3. \A s \in Subscribers : Unasked(s)' <=> Unasked(s)
      BY <3>1 DEF Unasked
    <3> QED
      BY <2>1, <3>1, <3>2, <3>3 DEF BusInv, FreshInv
  <2> QED
    BY <2>2, <2>3 DEF BusInv
<1> QED
  BY <1>1, <1>2

\* The bus invariant, for all programs, handlers and stores: callback lists
\* and dispatches have subscribers of their topic only, and a subscriber is
\* on its list at most once, from the one subscription it makes.
THEOREM BusInvariant == Spec => []BusInv
<1>1. Init => BusInv
  BY BusInvInit
<1>2. BusInv /\ [Next]_busVars => BusInv'
  BY BusInvStep
<1> QED
  BY <1>1, <1>2, PTL DEF Spec

-----------------------------------------------------------------------------
(* What is owed under each kind of step.                                     *)

Given(s) ==
  Range(received[s]) \cup IF s \in Range(callbacks[TopicOf[s]]) THEN Owed(s) ELSE {}

\* An event is owed to whoever a dispatch of it still has to call.
LEMMA OwedIs ==
  ASSUME StackType, NEW s \in Subscribers
  PROVE  /\ Owed(s) \subseteq Events
         /\ \A event \in Events :
              event \in Owed(s) <=>
                \E t \in Threads : \E i \in 1 .. Len(stack[t]) : Due(s, t, i) /\ stack[t][i].event = event
<1>1. \A t \in Threads : DOMAIN stack[t] = 1 .. Len(stack[t])
  BY DEF StackType
<1> QED
  BY <1>1 DEF Owed

\* Nothing is owed that was not, and what was is, while nobody is called.
LEMMA OwedKept ==
  ASSUME StackType, StackType', CallsKept, NEW s \in Subscribers
  PROVE  Owed(s)' = Owed(s)
<1>1. \A t \in Threads : \A i \in 1 .. Len(stack[t]) :
        (Due(s, t, i)' <=> Due(s, t, i)) /\ stack'[t][i].event = stack[t][i].event
  BY DEF CallsKept, SameCall, Due
<1>2. \A t \in Threads : Len(stack'[t]) = Len(stack[t])
  BY DEF CallsKept
<1>3. \A t \in Threads : DOMAIN stack[t] = 1 .. Len(stack[t]) /\ DOMAIN stack'[t] = 1 .. Len(stack'[t])
  BY DEF StackType
<1> QED
  BY <1>1, <1>2, <1>3, Zenon DEF Owed

\* A dispatch that begins adds its event for those on its list.
LEMMA OwedPushed ==
  ASSUME StackType, StackType', NEW t \in Threads, NEW f \in FrameType, CallsPushed(t, f),
         f.event \in Events, NEW s \in Subscribers
  PROVE  Owed(s)' = Owed(s) \cup IF s \in Range(f.todo) THEN {f.event} ELSE {}
<1>0. \A u \in Threads : /\ DOMAIN stack[u] = 1 .. Len(stack[u]) /\ DOMAIN stack'[u] = 1 .. Len(stack'[u])
                         /\ Len(stack[u]) \in Nat
  BY DEF StackType
<1>1. \A u \in Threads : \A i \in 1 .. Len(stack[u]) :
        (Due(s, u, i)' <=> Due(s, u, i)) /\ stack'[u][i].event = stack[u][i].event
  BY DEF CallsPushed, SameCall, Due
<1>2. ASSUME NEW event \in Owed(s)
      PROVE  event \in Owed(s)'
  <2>0. PICK u \in Threads : \E i \in 1 .. Len(stack[u]) : Due(s, u, i) /\ stack[u][i].event = event
    BY <1>0 DEF Owed
  <2>1. PICK i \in 1 .. Len(stack[u]) : Due(s, u, i) /\ stack[u][i].event = event
    BY <2>0, Zenon
  <2>2. i \in 1 .. Len(stack'[u])
    BY <1>0 DEF CallsPushed
  <2>3. Due(s, u, i)' /\ stack'[u][i].event = event /\ event \in Events
    BY <1>1, <2>1, Zenon DEF Owed
  <2> QED
    BY <1>0, <2>2, <2>3, Zenon DEF Owed
<1>3. ASSUME s \in Range(f.todo)
      PROVE  f.event \in Owed(s)'
  <2>1. Len(stack[t]) + 1 \in 1 .. Len(stack'[t]) /\ stack'[t][Len(stack[t]) + 1] = f
    BY <1>0 DEF CallsPushed
  <2>2. s \in Range(stack'[t][Len(stack[t]) + 1].todo) /\ stack'[t][Len(stack[t]) + 1].event = f.event
    BY <1>3, <2>1
  <2> QED
    BY <1>0, <2>1, <2>2 DEF Owed, Due
<1>4. ASSUME NEW event \in Owed(s)'
      PROVE  event \in Owed(s) \/ (s \in Range(f.todo) /\ event = f.event)
  <2>0. PICK u \in Threads : \E i \in 1 .. Len(stack'[u]) : s \in Range(stack'[u][i].todo) /\ stack'[u][i].event = event
    BY <1>0 DEF Owed, Due
  <2>1. PICK i \in 1 .. Len(stack'[u]) : s \in Range(stack'[u][i].todo) /\ stack'[u][i].event = event
    BY <2>0
  <2>2. event \in Events
    BY DEF Owed
  <2>3. CASE u = t /\ i = Len(stack[t]) + 1
    BY <2>1, <2>3, Zenon DEF CallsPushed
  <2>4. CASE ~(u = t /\ i = Len(stack[t]) + 1)
    <3>1. i \in 1 .. Len(stack[u]) /\ SameCall(u, i)
      BY <1>0, <2>4 DEF CallsPushed
    <3>2. Due(s, u, i) /\ stack[u][i].event = event
      BY <2>1, <3>1, Zenon DEF SameCall, Due
    <3> QED
      BY <1>0, <2>2, <3>1, <3>2, Zenon DEF Owed
  <2> QED
    BY <2>3, <2>4
<1> QED
  BY <1>2, <1>3, <1>4

\* A call takes the event, and no other, from what is owed to the one called.
LEMMA OwedCalled ==
  ASSUME StackType, StackType', FrameInv, NEW t \in Threads, Dispatching(t), Top(t).todo # <<>>,
         Called(t), NEW s \in Subscribers
  PROVE  /\ Owed(s)' \subseteq Owed(s)
         /\ s # Head(Top(t).todo) => Owed(s)' = Owed(s)
         /\ s = Head(Top(t).todo) => Top(t).event \in Owed(s) /\ Owed(s) \subseteq Owed(s)' \cup {Top(t).event}
<1>0. \A u \in Threads : /\ DOMAIN stack[u] = 1 .. Len(stack[u]) /\ DOMAIN stack'[u] = 1 .. Len(stack'[u])
                         /\ Len(stack'[u]) = Len(stack[u])
  BY SeqIndices, Zenon DEF StackType, Called
<1>1. Depth(t) \in 1 .. Len(stack[t]) /\ Top(t) = stack[t][Depth(t)] /\ Top(t).todo \in Seq(Subscribers)
  BY TopFrame
<1>2. /\ Range(Tail(Top(t).todo)) \subseteq Range(Top(t).todo)
      /\ Range(Top(t).todo) \subseteq {Head(Top(t).todo)} \cup Range(Tail(Top(t).todo))
  BY <1>1, TailRange
<1>3. Due(Head(Top(t).todo), t, Depth(t)) /\ Top(t).event \in Events
  BY NextCall, Zenon
<1>4. ASSUME NEW u \in Threads, NEW i \in 1 .. Len(stack[u])
      PROVE  /\ stack'[u][i].event = stack[u][i].event
             /\ Due(s, u, i)' => Due(s, u, i)
             /\ Due(s, u, i) => Due(s, u, i)' \/ (s = Head(Top(t).todo) /\ stack[u][i].event = Top(t).event)
  <2>1. CASE u = t /\ i = Depth(t)
    BY <1>1, <1>2, <2>1, Zenon DEF Called, Due
  <2>2. CASE ~(u = t /\ i = Depth(t))
    BY <2>2, Zenon DEF Called, SameCall, Due
  <2> QED
    BY <2>1, <2>2, Zenon
<1>5. Owed(s)' \subseteq Owed(s)
  <2> SUFFICES ASSUME NEW event \in Owed(s)' PROVE event \in Owed(s)
    BY Zenon
  <2>0. event \in Events /\ \E u \in Threads : \E i \in 1 .. Len(stack[u]) : Due(s, u, i)' /\ stack'[u][i].event = event
    BY <1>0, Zenon DEF Owed
  <2>1. \E u \in Threads : \E i \in 1 .. Len(stack[u]) : Due(s, u, i) /\ stack[u][i].event = event
    BY <1>4, <2>0, Zenon
  <2> QED
    BY <1>0, <2>0, <2>1, Zenon DEF Owed
<1>6. ASSUME NEW event \in Owed(s), s # Head(Top(t).todo) \/ event # Top(t).event
      PROVE  event \in Owed(s)'
  <2>0. PICK u \in Threads : \E i \in 1 .. Len(stack[u]) : Due(s, u, i) /\ stack[u][i].event = event
    BY <1>0, Zenon DEF Owed
  <2>1. PICK i \in 1 .. Len(stack[u]) : Due(s, u, i) /\ stack[u][i].event = event
    BY <2>0, Zenon
  <2>2. Due(s, u, i)' /\ stack'[u][i].event = event
    BY <1>4, <1>6, <2>1, Zenon
  <2> QED
    BY <1>0, <2>2, Zenon DEF Owed
<1>7. s = Head(Top(t).todo) => Top(t).event \in Owed(s)
  BY <1>0, <1>1, <1>3, Zenon DEF Owed
<1> QED
  BY <1>5, <1>6, <1>7, Zenon

\* A dispatch that has called everybody owes nothing.
LEMMA OwedPopped ==
  ASSUME StackType, NEW t \in Threads, Popped(t), Top(t).todo = <<>>, NEW s \in Subscribers
  PROVE  Owed(s)' = Owed(s)
<1>0. StackType' /\ Depth(t) = Len(stack[t]) /\ Len(stack[t]) \in Nat /\ Top(t) = stack[t][Depth(t)]
  BY TopFrame DEF Popped
<1>1. \A u \in Threads : DOMAIN stack[u] = 1 .. Len(stack[u]) /\ DOMAIN stack'[u] = 1 .. Len(stack'[u])
  BY <1>0 DEF StackType
<1>2. \A u \in Threads : \A i \in 1 .. Len(stack'[u]) : stack'[u][i] = stack[u][i] /\ i \in 1 .. Len(stack[u])
  BY PoppedFrames
<1>3. Owed(s)' \subseteq Owed(s)
  BY <1>1, <1>2, Zenon DEF Owed, Due
<1>4. ASSUME NEW event \in Owed(s)
      PROVE  event \in Owed(s)'
  <2>0. PICK u \in Threads : \E i \in 1 .. Len(stack[u]) : s \in Range(stack[u][i].todo) /\ stack[u][i].event = event
    BY <1>1 DEF Owed, Due
  <2>1. PICK i \in 1 .. Len(stack[u]) : s \in Range(stack[u][i].todo) /\ stack[u][i].event = event
    BY <2>0, Zenon
  <2>2. ~(u = t /\ i = Depth(t))
    BY <1>0, <2>1 DEF Range
  <2>3. i \in 1 .. Len(stack'[u])
    BY <1>0, <2>2 DEF Popped, Kept
  <2>4. event \in Events
    BY DEF Owed
  <2> QED
    BY <1>1, <1>2, <2>1, <2>3, <2>4, Zenon DEF Owed, Due
<1> QED
  BY <1>3, <1>4, Zenon

\* The callback is called if it is still on the list, and passed over if not.
LEMMA DispatchGives ==
  ASSUME NEW t \in Threads, NEW x \in Subscribers, NEW event \in Events,
         x = Head(Top(t).todo), event = Top(t).event, TopicOf[x] = Top(t).topic,
         Top(t) \in FrameType, Dispatch(t)
  PROVE  \/ /\ x \in Range(callbacks[TopicOf[x]])
            /\ received' = [received EXCEPT ![x] = Append(received[x], event)]
         \/ x \notin Range(callbacks[TopicOf[x]]) /\ received' = received
<1>1. /\ [Top(t) EXCEPT !.todo = Tail(@)].event = Top(t).event
      /\ [Top(t) EXCEPT !.todo = Tail(@)].topic = Top(t).topic
  BY DEF FrameType
<1>2. CASE Stays(Head(Top(t).todo), [Top(t) EXCEPT !.todo = Tail(@)].topic)
  <2>1. received' = [received EXCEPT ![Head(Top(t).todo)] = Append(@, [Top(t) EXCEPT !.todo = Tail(@)].event)]
    BY <1>2 DEF Dispatch
  <2>2. x \in Range(callbacks[TopicOf[x]])
    BY <1>1, <1>2 DEF Stays
  <2> QED
    BY <1>1, <2>1, <2>2
<1>3. CASE ~Stays(Head(Top(t).todo), [Top(t) EXCEPT !.todo = Tail(@)].topic)
  <2>1. received' = received
    BY <1>3 DEF Dispatch
  <2>2. x \notin Range(callbacks[TopicOf[x]])
    BY <1>1, <1>3 DEF Stays
  <2> QED
    BY <2>1, <2>2
<1> QED
  BY <1>2, <1>3

\* What a sequence has once an element is appended.
LEMMA AppendRange ==
  ASSUME NEW S, NEW q \in Seq(S), NEW e \in S
  PROVE  Range(Append(q, e)) = Range(q) \cup {e}
<1>1. /\ Append(q, e) \in Seq(S) /\ Len(Append(q, e)) = Len(q) + 1 /\ Append(q, e)[Len(q) + 1] = e
      /\ \A i \in 1 .. Len(q) : Append(q, e)[i] = q[i]
      /\ Len(q) \in Nat /\ DOMAIN q = 1 .. Len(q) /\ DOMAIN Append(q, e) = 1 .. Len(q) + 1
  BY AppendProperties
<1>2. Range(q) \subseteq Range(Append(q, e))
  BY <1>1 DEF Range
<1>3. e \in Range(Append(q, e))
  BY <1>1 DEF Range
<1>4. \A i \in 1 .. Len(q) + 1 : i \in 1 .. Len(q) \/ i = Len(q) + 1
  BY <1>1
<1>5. Range(Append(q, e)) \subseteq Range(q) \cup {e}
  BY <1>1, <1>4 DEF Range
<1> QED
  BY <1>2, <1>3, <1>5

-----------------------------------------------------------------------------
(* Each step of the bus is one of Broadcast, or none.                        *)

\* The mapping, subscriber by subscriber.
LEMMA MapIs ==
  /\ Members = [topic \in Topics |-> Range(callbacks[topic])]
  /\ Inbox = [s \in Subscribers |-> Given(s)]
  BY DEF Members, Inbox, Given

\* Steps that leave the lists, the retained values and what everyone was
\* given or is owed as they are are invisible.
LEMMA Invisible ==
  ASSUME retained' = retained, callbacks' = callbacks,
         \A s \in Subscribers : Given(s)' = Given(s)
  PROVE  UNCHANGED Abstract!broadcastVars
<1>1. Members' = Members
  BY DEF Members
<1>2. Inbox' = Inbox
  BY MapIs, Zenon DEF Inbox, Given
<1> QED
  BY <1>1, <1>2 DEF Abstract!broadcastVars

\* publish is a broadcast.
LEMMA PublishRefines ==
  ASSUME BusInv, NEW t \in Threads, publish(t)
  PROVE  Abstract!BroadcastNext
<1>1. /\ Arg(t) \in Topics /\ TheEvent(t) \in Events
      /\ TheFrame(t) \in FrameType /\ TheFrame(t).topic = Arg(t)
      /\ TheFrame(t).event = TheEvent(t) /\ TheFrame(t).todo = callbacks[Arg(t)]
      /\ StackType' /\ CallsPushed(t, TheFrame(t))
      /\ retained' = RetainedAfter(Arg(t), TheEvent(t))
      /\ callbacks' = callbacks /\ received' = received
  BY PublishEffect, Zenon
<1>2. PICK topic \in Topics, event \in Events : topic = Arg(t) /\ event = TheEvent(t)
  BY <1>1, Zenon
<1>3. StackType /\ ListInv
  BY DEF BusInv, BusType
<1>4. ASSUME NEW s \in Subscribers
      PROVE  Given(s)' = IF s \in Members[topic] THEN Given(s) \cup {event} ELSE Given(s)
  <2>1. Owed(s)' = Owed(s) \cup IF s \in Range(callbacks[topic]) THEN {event} ELSE {}
    BY <1>1, <1>2, <1>3, OwedPushed, Zenon
  <2>2. s \in Range(callbacks[topic]) => TopicOf[s] = topic
    BY <1>3 DEF ListInv, Range
  <2>3. Members[topic] = Range(callbacks[topic])
    BY MapIs
  <2>4. received' = received /\ callbacks' = callbacks
    BY <1>1, Zenon
  <2>5. CASE s \in Range(callbacks[topic])
    BY <2>1, <2>2, <2>3, <2>4, <2>5, Zenon DEF Given
  <2>6. CASE s \notin Range(callbacks[topic])
    BY <2>1, <2>3, <2>4, <2>6, Zenon DEF Given
  <2> QED
    BY <2>5, <2>6, Zenon
<1>5. Inbox' = [s \in Subscribers |-> IF s \in Members[topic] THEN Inbox[s] \cup {event} ELSE Inbox[s]]
  <2>1. Inbox' = [s \in Subscribers |-> Given(s)']
    BY Zenon DEF Inbox, Given
  <2>2. \A s \in Subscribers : Inbox[s] = Given(s)
    BY MapIs
  <2> QED
    BY <1>4, <2>1, <2>2
<1>6. Members' = Members
  BY <1>1, Zenon DEF Members
<1>7. retained' = IF topic \in Retained THEN [retained EXCEPT ![topic] = event] ELSE retained
  BY <1>1, <1>2, Zenon DEF RetainedAfter
<1>8. Abstract!Publish(topic, event)
  BY <1>5, <1>6, <1>7 DEF Abstract!Publish
<1> QED
  BY <1>8 DEF Abstract!BroadcastNext

\* A call gives the subscriber what it was owed; a subscriber that has left
\* was owed nothing.
LEMMA DispatchRefines ==
  ASSUME BusInv, NEW t \in Threads, Dispatch(t)
  PROVE  UNCHANGED Abstract!broadcastVars
<1>0. StackType /\ FrameInv /\ received \in [Subscribers -> Seq(Events)]
  BY DEF BusInv, BusType
<1>1. StackType' /\ Called(t)
  BY <1>0, DispatchEffect
<1>2. Dispatching(t) /\ Top(t).todo # <<>> /\ callbacks' = callbacks /\ retained' = retained
  BY DEF Dispatch
<1>3. PICK x \in Subscribers, event \in Events : x = Head(Top(t).todo) /\ event = Top(t).event
  BY <1>0, <1>2, NextCall, Zenon
<1>4. TopicOf[x] = Top(t).topic /\ Top(t) \in FrameType
  BY <1>0, <1>2, <1>3, NextCall, Zenon
<1>5. \/ /\ x \in Range(callbacks[TopicOf[x]])
         /\ received' = [received EXCEPT ![x] = Append(received[x], event)]
      \/ x \notin Range(callbacks[TopicOf[x]]) /\ received' = received
  BY <1>0, <1>2, <1>3, <1>4, DispatchGives, Zenon
<1>6. ASSUME NEW s \in Subscribers
      PROVE  Given(s)' = Given(s)
  <2>1. /\ s # x => Owed(s)' = Owed(s)
        /\ s = x => event \in Owed(s) /\ Owed(s)' \subseteq Owed(s) /\ Owed(s) \subseteq Owed(s)' \cup {event}
    BY <1>0, <1>1, <1>2, <1>3, OwedCalled, Zenon
  <2>2. CASE s # x
    <3>1. received'[s] = received[s]
      BY <1>0, <1>5, <2>2
    <3> QED
      BY <1>2, <2>1, <2>2, <3>1, Zenon DEF Given
  <2>3. CASE s = x /\ x \in Range(callbacks[TopicOf[x]])
    <3>1. received'[s] = Append(received[s], event)
      BY <1>0, <1>5, <2>3
    <3>2. Range(received'[s]) = Range(received[s]) \cup {event}
      BY <1>0, <3>1, AppendRange
    <3>3. Owed(s)' \cup {event} = Owed(s)
      BY <2>1, <2>3
    <3>4. Given(s)' = Range(received'[s]) \cup Owed(s)'
      BY <1>2, <2>3, Zenon DEF Given
    <3>5. Given(s) = Range(received[s]) \cup Owed(s)
      BY <2>3, Zenon DEF Given
    <3> QED
      BY <3>2, <3>3, <3>4, <3>5, Zenon
  <2>4. CASE s = x /\ x \notin Range(callbacks[TopicOf[x]])
    <3>1. received' = received
      BY <1>5, <2>4
    <3> QED
      BY <1>2, <2>4, <3>1, Zenon DEF Given
  <2> QED
    BY <2>2, <2>3, <2>4
<1> QED
  BY <1>2, <1>6, Invisible, Zenon

\* The end of a dispatch.
LEMMA ReturnRefines ==
  ASSUME BusInv, NEW t \in Threads, Return(t)
  PROVE  UNCHANGED Abstract!broadcastVars
<1>0. StackType
  BY DEF BusInv, BusType
<1>1. Popped(t)
  BY <1>0, ReturnEffect
<1>2. Top(t).todo = <<>> /\ callbacks' = callbacks /\ retained' = retained /\ received' = received
  BY Zenon DEF Return
<1>3. \A s \in Subscribers : Given(s)' = Given(s)
  BY <1>0, <1>1, <1>2, OwedPopped, Zenon DEF Given
<1> QED
  BY <1>2, <1>3, Invisible, Zenon

\* So are the operations that concern neither lists nor calls: the taking of
\* a remover, and the entering and leaving of call_once.
LEMMA QuietRefines ==
  ASSUME BusInv, StackType', CallsKept, callbacks' = callbacks, retained' = retained, received' = received
  PROVE  UNCHANGED Abstract!broadcastVars
<1>1. StackType
  BY DEF BusInv, BusType
<1>2. \A s \in Subscribers : Given(s)' = Given(s)
  BY <1>1, OwedKept, Zenon DEF Given
<1> QED
  BY <1>2, Invisible

\* To subscribe is to become a member, owed the current value if there is one.
LEMMA SubscribeRefines ==
  ASSUME BusInv, NEW t \in Threads, subscribe(t)
  PROVE  Abstract!BroadcastNext
<1>0. StackType /\ FrameInv /\ ListInv /\ FreshInv /\ callbacks \in [Topics -> Seq(Subscribers)]
  BY DEF BusInv, BusType
<1>1. PICK x \in Subscribers : x = Arg(t)
  BY SubscribeEffect, Zenon
<1>2. PICK topic \in Topics : topic = TopicOf[x]
  BY ConstantsAssumption
<1>3. /\ Asks(x, t, Depth(t), 1) /\ Depth(t) \in Nat /\ StackType'
      /\ callbacks' = [callbacks EXCEPT ![topic] = Append(callbacks[topic], x)]
      /\ retained' = retained /\ received' = received
  BY <1>1, <1>2, SubscribeEffect, Zenon
<1>4. \/ retained[topic] = Nothing /\ CallsKept
      \/ /\ retained[topic] \in Events
         /\ \E f \in FrameType : CallsPushed(t, f) /\ f.event = retained[topic] /\ f.todo = <<x>>
  BY <1>1, <1>2, SubscribeEffect, Zenon
<1>5. Unused(x)
  BY <1>0, <1>3 DEF FreshInv, Unasked
<1>6. \A s \in Subscribers : Owed(s)' = IF s = x THEN Owed(s) \cup ({retained[topic]} \ {Nothing}) ELSE Owed(s)
  <2>1. CASE retained[topic] = Nothing /\ CallsKept
    BY <1>0, <1>3, <2>1, OwedKept
  <2>2. CASE /\ retained[topic] \in Events
             /\ \E f \in FrameType : CallsPushed(t, f) /\ f.event = retained[topic] /\ f.todo = <<x>>
    <3>1. PICK f \in FrameType : CallsPushed(t, f) /\ f.event = retained[topic] /\ f.todo = <<x>>
      BY <2>2, Zenon
    <3>2. Range(f.todo) = {x}
      BY <3>1, RangeOfOne, Zenon
    <3>3. \A s \in Subscribers : Owed(s)' = Owed(s) \cup IF s \in Range(f.todo) THEN {f.event} ELSE {}
      BY <1>0, <1>3, <2>2, <3>1, OwedPushed, Zenon
    <3>4. {retained[topic]} \ {Nothing} = {retained[topic]}
      BY <2>2, ConstantsAssumption, Zenon
    <3> QED
      BY <3>1, <3>2, <3>3, <3>4, Zenon
  <2> QED
    BY <1>4, <2>1, <2>2, Zenon
<1>7. Owed(x) = {}
  BY <1>0, <1>5, OwedIs, Zenon DEF Unused
<1>8. /\ callbacks'[topic] = Append(callbacks[topic], x) /\ callbacks[topic] \in Seq(Subscribers)
      /\ \A other \in Topics : other # topic => callbacks'[other] = callbacks[other]
  BY <1>0, <1>3
<1>9. Range(callbacks'[topic]) = Range(callbacks[topic]) \cup {x}
  BY <1>8, AppendRange
<1>10. x \notin Range(callbacks[topic])
  BY <1>2, <1>5 DEF Unused
<1>11. ASSUME NEW s \in Subscribers
       PROVE  Given(s)' = IF s = x THEN Given(s) \cup ({retained[topic]} \ {Nothing}) ELSE Given(s)
  <2>1. CASE s = x
    <3>1. Owed(s)' = {retained[topic]} \ {Nothing}
      BY <1>6, <1>7, <2>1
    <3>2. Given(s) = Range(received[s])
      BY <1>2, <1>10, <2>1 DEF Given
    <3>3. Given(s)' = Range(received[s]) \cup Owed(s)'
      BY <1>2, <1>3, <1>9, <2>1, Zenon DEF Given
    <3> QED
      BY <2>1, <3>1, <3>2, <3>3
  <2>2. CASE s # x
    <3>1. s \in Range(callbacks'[TopicOf[s]]) <=> s \in Range(callbacks[TopicOf[s]])
      <4>1. TopicOf[s] \in Topics
        BY ConstantsAssumption
      <4>2. CASE TopicOf[s] = topic
        BY <1>9, <2>2, <4>2, Zenon
      <4>3. CASE TopicOf[s] # topic
        BY <1>8, <4>1, <4>3
      <4> QED
        BY <4>2, <4>3
    <3>2. Owed(s)' = Owed(s)
      BY <1>6, <2>2
    <3> QED
      BY <1>3, <2>2, <3>1, <3>2, Zenon DEF Given
  <2> QED
    BY <2>1, <2>2
<1>12. Inbox' = [Inbox EXCEPT ![x] = Inbox[x] \cup ({retained[topic]} \ {Nothing})]
  <2>1. Inbox' = [s \in Subscribers |-> Given(s)']
    BY DEF Inbox, Given
  <2>2. Inbox = [s \in Subscribers |-> Given(s)]
    BY MapIs
  <2> QED
    BY <1>11, <2>1, <2>2
<1>13. Members' = [Members EXCEPT ![topic] = Members[topic] \cup {x}]
  <2>1. Members' = [other \in Topics |-> Range(callbacks'[other])]
    BY DEF Members
  <2>2. Members = [other \in Topics |-> Range(callbacks[other])]
    BY MapIs
  <2> QED
    BY <1>8, <1>9, <2>1, <2>2, Zenon
<1>14. \A other \in Topics : x \notin Members[other]
  <2>1. \A other \in Topics : x \in Range(callbacks[other]) => TopicOf[x] = other
    BY <1>0, ListedUnder, Zenon
  <2> QED
    BY <1>2, <1>10, <2>1, MapIs
<1>15. Abstract!Subscribe(topic, x)
  BY <1>3, <1>12, <1>13, <1>14, Zenon DEF Abstract!Subscribe
<1> QED
  BY <1>15 DEF Abstract!BroadcastNext

\* The remover is the moment at which a member leaves.
LEMMA RemoverRefines ==
  ASSUME BusInv, NEW t \in Threads, remover(t)
  PROVE  Abstract!BroadcastNext \/ UNCHANGED Abstract!broadcastVars
<1>0. StackType /\ ListInv /\ callbacks \in [Topics -> Seq(Subscribers)]
  BY DEF BusInv, BusType
<1>1. PICK x \in Subscribers : x = Arg(t)
  BY RemoverEffect, Zenon
<1>2. PICK topic \in Topics : topic = TopicOf[x]
  BY ConstantsAssumption
<1>3. /\ StackType' /\ CallsKept /\ callbacks' \in [Topics -> Seq(Subscribers)]
      /\ Range(callbacks'[topic]) = Range(callbacks[topic]) \ {x}
      /\ \A other \in Topics : other # topic => callbacks'[other] = callbacks[other]
      /\ retained' = retained /\ received' = received
  BY <1>1, <1>2, RemoverEffect, Zenon
<1>4. \A s \in Subscribers : Owed(s)' = Owed(s)
  BY <1>0, <1>3, OwedKept
<1>5. Members' = [other \in Topics |-> Range(callbacks'[other])] /\ Members = [other \in Topics |-> Range(callbacks[other])]
  BY DEF Members
<1>6. Inbox' = [s \in Subscribers |-> Given(s)'] /\ Inbox = [s \in Subscribers |-> Given(s)]
  BY Zenon DEF Inbox, Given
<1>7. ASSUME NEW s \in Subscribers, s # x
      PROVE  Given(s)' = Given(s)
  <2>1. s \in Range(callbacks'[TopicOf[s]]) <=> s \in Range(callbacks[TopicOf[s]])
    BY <1>3, <1>7, ConstantsAssumption, Zenon
  <2>2. Owed(s)' = Owed(s)
    BY <1>4
  <2> QED
    BY <1>3, <2>1, <2>2, Zenon DEF Given
<1>8. Given(x)' = Range(received[x])
  BY <1>2, <1>3, Zenon DEF Given
<1>9. Members' = [Members EXCEPT ![topic] = Members[topic] \ {x}]
  BY <1>3, <1>5, Zenon
<1>10. CASE x \in Range(callbacks[topic])
  <2>1. Given(x)' \subseteq Inbox[x]
    BY <1>6, <1>8, Zenon DEF Given
  <2>2. Inbox' = [Inbox EXCEPT ![x] = Given(x)']
    BY <1>6, <1>7
  <2>3. \E given \in SUBSET Inbox[x] : Inbox' = [Inbox EXCEPT ![x] = given]
    BY <2>1, <2>2, Zenon
  <2>4. x \in Members[topic]
    BY <1>5, <1>10, Zenon
  <2>5. Abstract!Unsubscribe(topic, x)
    BY <1>3, <1>9, <2>3, <2>4, Zenon DEF Abstract!Unsubscribe
  <2> QED
    BY <2>5 DEF Abstract!BroadcastNext
<1>11. CASE x \notin Range(callbacks[topic])
  <2>1. Members' = Members
    BY <1>3, <1>5, <1>11, Zenon
  <2>2. Given(x) = Range(received[x])
    BY <1>2, <1>11 DEF Given
  <2>3. Inbox' = Inbox
    BY <1>6, <1>7, <1>8, <2>2
  <2> QED
    BY <1>3, <2>1, <2>3 DEF Abstract!broadcastVars
<1> QED
  BY <1>10, <1>11

\* Every step of the bus is one of Broadcast or leaves its variables alone.
LEMMA StepRefines ==
  ASSUME BusInv, [Next]_busVars
  PROVE  [Abstract!BroadcastNext]_Abstract!broadcastVars
<1>1. CASE Next
  <2>1. PICK t \in Threads : Step(t)
    BY <1>1 DEF Next
  <2>2. CASE publish(t)
    BY <2>2, PublishRefines
  <2>3. CASE Dispatch(t)
    BY <2>3, DispatchRefines
  <2>4. CASE Return(t)
    BY <2>4, ReturnRefines
  <2>5. CASE subscribe(t)
    BY <2>5, SubscribeRefines
  <2>6. CASE unsubscribe(t)
    BY <2>6, UnsubscribeEffect, QuietRefines
  <2>7. CASE remover(t)
    BY <2>7, RemoverRefines
  <2>8. CASE instance(t)
    BY <2>8, InstanceEffect, QuietRefines
  <2>9. CASE ready(t)
    BY <2>9, ReadyEffect, QuietRefines
  <2> QED
    BY <2>1, <2>2, <2>3, <2>4, <2>5, <2>6, <2>7, <2>8, <2>9, Zenon DEF Step
<1>2. CASE UNCHANGED busVars
  <2>1. stack' = stack /\ callbacks' = callbacks /\ retained' = retained /\ received' = received
    BY <1>2 DEF busVars
  <2>2. Members' = Members /\ Inbox' = Inbox
    BY <2>1, Zenon DEF Members, Inbox, Owed, Due
  <2> QED
    BY <2>1, <2>2 DEF Abstract!broadcastVars
<1> QED
  BY <1>1, <1>2

\* The bus with its nested and concurrent dispatches, its handlers that
\* publish and subscribe, its removers outside the mutex and its lazily
\* subscribing stores implements an atomic broadcast (MessageBus.hpp:16-30).
THEOREM BusBroadcasts == Spec => Broadcasts
<1>1. Init => Abstract!BroadcastInit
  <2> SUFFICES ASSUME Init
               PROVE  Abstract!BroadcastInit
    OBVIOUS
  <2>1. StackType /\ FrameInv
    BY BusInvInit DEF BusInv, BusType
  <2>2. /\ callbacks = [topic \in Topics |-> <<>>] /\ retained = [topic \in Topics |-> Nothing]
        /\ received = [s \in Subscribers |-> <<>>]
    BY DEF Init
  <2>3. Range(<<>>) = {}
    BY DEF Range
  <2>4. Members = [topic \in Topics |-> {}]
    BY <2>2, <2>3 DEF Members
  <2>5. \A s \in Subscribers : Given(s) = {}
    BY <2>2, <2>3, ConstantsAssumption DEF Given
  <2>6. Inbox = [s \in Subscribers |-> {}]
    BY <2>5, MapIs
  <2> QED
    BY <2>2, <2>4, <2>6 DEF Abstract!BroadcastInit
<1>2. BusInv /\ [Next]_busVars => [Abstract!BroadcastNext]_Abstract!broadcastVars
  BY StepRefines
<1> QED
  BY <1>1, <1>2, BusInvariant, PTL DEF Spec, Broadcasts, Abstract!BroadcastSpec

-----------------------------------------------------------------------------
(* That a retained topic leaves no subscriber behind.                        *)

\* Someone who is still to be called, or was last called with the current
\* value, is so while no call is taken away and the value stays.
LEMMA ToldKept ==
  ASSUME NEW s \in Subscribers, Told(s), received'[s] = received[s],
         retained'[TopicOf[s]] = retained[TopicOf[s]],
         \A u \in Threads : \A i \in 2 .. Len(stack[u]) : i \in 2 .. Len(stack'[u]) /\ SameCall(u, i)
  PROVE  Told(s)'
<1>1. CASE \E u \in Threads : \E i \in 2 .. Len(stack[u]) : Due(s, u, i)
  <2>1. PICK u \in Threads : \E i \in 2 .. Len(stack[u]) : Due(s, u, i)
    BY <1>1, Zenon
  <2>2. PICK i \in 2 .. Len(stack[u]) : Due(s, u, i)
    BY <2>1, Zenon
  <2>3. i \in 2 .. Len(stack'[u]) /\ Due(s, u, i)'
    BY <2>2, Zenon DEF SameCall, Due
  <2> QED
    BY <2>3, Zenon DEF Told
<1>2. CASE received[s] # <<>> /\ received[s][Len(received[s])] = retained[TopicOf[s]]
  BY <1>2, Zenon DEF Told
<1> QED
  BY <1>1, <1>2, Zenon DEF Told

\* The mutex keeps every other thread out of a dispatch while one begins.
LEMMA LockPushed ==
  ASSUME StackType, LockInv, NEW t \in Threads, MayLock(t), NEW f, CallsPushed(t, f), owner' = t
  PROVE  LockInv' /\ \A u \in Threads : u # t => Len(stack[u]) <= 1
<1>1. \A u \in Threads : Len(stack[u]) \in Nat /\ Len(stack[u]) >= 1
  BY DEF StackType
<1>2. \A u \in Threads : u # t => owner # u
  BY ConstantsAssumption DEF MayLock
<1>3. \A u \in Threads : u # t => Len(stack[u]) <= 1
  BY <1>1, <1>2 DEF LockInv
<1>4. Len(stack'[t]) = Len(stack[t]) + 1 /\ \A u \in Threads : u # t => Len(stack'[u]) = Len(stack[u])
  BY Zenon DEF CallsPushed
<1>5. LockInv'
  BY <1>1, <1>3, <1>4 DEF LockInv
<1> QED
  BY <1>3, <1>5

\* Operations that call nobody and keep lists and values, and lists that get
\* shorter.
LEMMA QuietLatest ==
  ASSUME BusInv, LatestInv, CallsKept, owner' = owner, retained' = retained, received' = received,
         \A topic \in Topics : Range(callbacks'[topic]) \subseteq Range(callbacks[topic])
  PROVE  LatestInv'
<1>3. \A u \in Threads : Len(stack[u]) \in Nat
  BY DEF BusInv, BusType, StackType
<1>1. \A u \in Threads : /\ Len(stack'[u]) = Len(stack[u])
                         /\ \A i \in 2 .. Len(stack[u]) : i \in 2 .. Len(stack'[u]) /\ SameCall(u, i)
  BY <1>3, AboveIsFrame, Zenon DEF CallsKept
<1>2. LockInv'
  BY <1>1, Zenon DEF LatestInv, LockInv
<1>4. CurrentInv'
  <2> SUFFICES ASSUME NEW u \in Threads, NEW i \in 2 .. Len(stack'[u]), stack'[u][i].topic \in Retained
               PROVE  stack'[u][i].event = retained'[stack'[u][i].topic]
    BY DEF CurrentInv
  <2>1. i \in 2 .. Len(stack[u]) /\ SameCall(u, i)
    BY <1>1, <1>3
  <2> QED
    BY <2>1, Zenon DEF LatestInv, CurrentInv, SameCall
<1>5. ToldInv'
  <2> SUFFICES ASSUME NEW s \in Subscribers, TopicOf[s] \in Retained,
                      s \in Range(callbacks'[TopicOf[s]]), retained'[TopicOf[s]] # Nothing
               PROVE  Told(s)'
    BY Zenon DEF ToldInv
  <2>1. s \in Range(callbacks[TopicOf[s]])
    BY ConstantsAssumption, Zenon
  <2>2. Told(s)
    BY <2>1 DEF LatestInv, ToldInv
  <2> QED
    BY <1>1, <2>2, ToldKept, Zenon
<1> QED
  BY <1>2, <1>4, <1>5 DEF LatestInv

\* A publication makes its value the current one of its topic, which nobody
\* is being called with at that moment.
LEMMA PublishLatest ==
  ASSUME BusInv, LatestInv, NEW t \in Threads, publish(t), NotReentered
  PROVE  LatestInv'
<1>0. StackType /\ ListInv /\ retained \in [Topics -> Events \cup {Nothing}]
  BY DEF BusInv, BusType
<1>1. PICK topic \in Topics, event \in Events : topic = Arg(t) /\ event = TheEvent(t)
  BY PublishEffect, Zenon
<1>2. PICK f \in FrameType : /\ f.topic = topic /\ f.event = event /\ f.todo = callbacks[topic]
                             /\ CallsPushed(t, f)
  BY <1>1, PublishEffect, Zenon
<1>3. /\ retained' = RetainedAfter(topic, event) /\ owner' = t
      /\ callbacks' = callbacks /\ received' = received
  BY <1>1, PublishEffect, Zenon
<1>4. LockInv' /\ \A u \in Threads : u # t => Len(stack[u]) <= 1
  BY <1>0, <1>2, <1>3, LockPushed, Zenon DEF publish, LatestInv
<1>5. \A u \in Threads : /\ Len(stack[u]) \in Nat /\ Len(stack[u]) >= 1
                         /\ \A i \in 2 .. Len(stack[u]) : i \in 2 .. Len(stack'[u]) /\ SameCall(u, i)
  <2> TAKE u \in Threads
  <2>1. Len(stack[u]) \in Nat /\ Len(stack[u]) >= 1
    BY <1>0, TopFrame, Zenon DEF StackType
  <2>2. Len(stack'[u]) \in {Len(stack[u]), Len(stack[u]) + 1}
    BY <1>2, Zenon DEF CallsPushed
  <2>3. \A i \in 2 .. Len(stack[u]) : i \in 2 .. Len(stack'[u])
    BY <2>1, <2>2
  <2>4. \A i \in 2 .. Len(stack[u]) : SameCall(u, i)
    BY <1>2, <2>1, AboveIsFrame, Zenon DEF CallsPushed
  <2> QED
    BY <2>1, <2>3, <2>4, Zenon
<1>6. /\ topic \in Retained => retained'[topic] = event
      /\ topic \notin Retained => retained' = retained
      /\ \A other \in Topics : other # topic => retained'[other] = retained[other]
  BY <1>0, <1>3 DEF RetainedAfter
<1>7. CurrentInv'
  <2> SUFFICES ASSUME NEW u \in Threads, NEW i \in 2 .. Len(stack'[u]), stack'[u][i].topic \in Retained
               PROVE  stack'[u][i].event = retained'[stack'[u][i].topic]
    BY DEF CurrentInv
  <2>1. CASE u = t /\ i = Len(stack[t]) + 1
    BY <1>2, <1>6, <2>1, Zenon DEF CallsPushed
  <2>2. CASE ~(u = t /\ i = Len(stack[t]) + 1)
    <3>1. i \in 2 .. Len(stack[u]) /\ SameCall(u, i)
      BY <1>2, <1>5, <2>2 DEF CallsPushed
    <3>2. u = t
      BY <1>4, <1>5, <3>1
    <3>3. stack[u][i].topic \in Topics
      BY <1>5, <3>1, AboveIsFrame, Zenon DEF BusInv, FrameInv
    <3>4. topic \in Retained => stack[u][i].topic # topic
      BY <1>1, <3>1, <3>2, Zenon DEF NotReentered
    <3>5. stack[u][i].event = retained[stack[u][i].topic]
      BY <3>1, Zenon DEF LatestInv, CurrentInv, SameCall
    <3>6. stack'[u][i].event = stack[u][i].event /\ stack'[u][i].topic = stack[u][i].topic
      BY <3>1 DEF SameCall
    <3> QED
      BY <1>6, <3>3, <3>4, <3>5, <3>6, Zenon
  <2> QED
    BY <2>1, <2>2, Zenon
<1>8. ToldInv'
  <2> SUFFICES ASSUME NEW s \in Subscribers, TopicOf[s] \in Retained,
                      s \in Range(callbacks'[TopicOf[s]]), retained'[TopicOf[s]] # Nothing
               PROVE  Told(s)'
    BY DEF ToldInv
  <2>1. CASE TopicOf[s] = topic
    <3>1. Len(stack[t]) + 1 \in 2 .. Len(stack'[t]) /\ stack'[t][Len(stack[t]) + 1] = f
      <4>1. Len(stack'[t]) = Len(stack[t]) + 1 /\ stack'[t][Len(stack[t]) + 1] = f
        BY <1>2, Zenon DEF CallsPushed
      <4>2. Len(stack[t]) \in Nat /\ Len(stack[t]) >= 1
        BY <1>5, Zenon
      <4>3. Len(stack[t]) + 1 \in 2 .. Len(stack[t]) + 1
        BY <4>2
      <4> QED
        BY <4>1, <4>3, Zenon
    <3>2. s \in Range(stack'[t][Len(stack[t]) + 1].todo)
      BY <1>2, <1>3, <2>1, <3>1, Zenon
    <3>3. \E i \in 2 .. Len(stack'[t]) : Due(s, t, i)'
      BY <3>1, <3>2, Zenon DEF Due
    <3> QED
      BY <3>3, Zenon DEF Told
  <2>2. CASE TopicOf[s] # topic
    <3>1. retained'[TopicOf[s]] = retained[TopicOf[s]]
      BY <1>6, <2>2, ConstantsAssumption, Zenon
    <3>2. Told(s)
      BY <1>3, <3>1, Zenon DEF LatestInv, ToldInv
    <3> QED
      BY <1>3, <1>5, <3>1, <3>2, ToldKept, Zenon
  <2> QED
    BY <2>1, <2>2
<1> QED
  BY <1>4, <1>7, <1>8 DEF LatestInv

\* A subscriber of a retained topic is to be called with the current value.
LEMMA SubscribeLatest ==
  ASSUME BusInv, LatestInv, NEW t \in Threads, subscribe(t)
  PROVE  LatestInv'
<1>0. StackType /\ ListInv /\ callbacks \in [Topics -> Seq(Subscribers)]
  BY DEF BusInv, BusType
<1>1. PICK x \in Subscribers : x = Arg(t)
  BY SubscribeEffect, Zenon
<1>2. PICK topic \in Topics : topic = TopicOf[x]
  BY ConstantsAssumption
<1>3. /\ callbacks' = [callbacks EXCEPT ![topic] = Append(callbacks[topic], x)]
      /\ retained' = retained /\ received' = received
  BY <1>1, <1>2, SubscribeEffect, Zenon
<1>4. \/ retained[topic] = Nothing /\ CallsKept /\ owner' = owner
      \/ /\ retained[topic] \in Events /\ owner' = t
         /\ \E f \in FrameType : CallsPushed(t, f) /\ f.topic = topic /\ f.event = retained[topic] /\ f.todo = <<x>>
  BY <1>1, <1>2, SubscribeEffect, Zenon
<1>5. \A u \in Threads : Len(stack[u]) \in Nat /\ Len(stack[u]) >= 1
  BY <1>0 DEF StackType
<1>6. ASSUME NEW s \in Subscribers, s \in Range(callbacks'[TopicOf[s]]), s # x
      PROVE  s \in Range(callbacks[TopicOf[s]])
  <2>1. callbacks'[topic] = Append(callbacks[topic], x) /\ callbacks[topic] \in Seq(Subscribers)
          /\ \A other \in Topics : other # topic => callbacks'[other] = callbacks[other]
    BY <1>0, <1>3
  <2>2. Range(callbacks'[topic]) = Range(callbacks[topic]) \cup {x}
    BY <2>1, AppendRange
  <2>3. TopicOf[s] \in Topics
    BY ConstantsAssumption
  <2>4. CASE TopicOf[s] = topic
    BY <1>6, <2>2, <2>4
  <2>5. CASE TopicOf[s] # topic
    BY <1>6, <2>1, <2>3, <2>5
  <2> QED
    BY <2>4, <2>5
<1>7. CASE retained[topic] = Nothing /\ CallsKept /\ owner' = owner
  <2>1. \A u \in Threads : /\ Len(stack'[u]) = Len(stack[u])
                           /\ \A i \in 2 .. Len(stack[u]) : i \in 2 .. Len(stack'[u]) /\ SameCall(u, i)
    BY <1>5, <1>7 DEF CallsKept
  <2>2. LockInv'
    BY <1>7, <2>1 DEF LatestInv, LockInv
  <2>3. CurrentInv'
    <3> SUFFICES ASSUME NEW u \in Threads, NEW i \in 2 .. Len(stack'[u]), stack'[u][i].topic \in Retained
                 PROVE  stack'[u][i].event = retained'[stack'[u][i].topic]
      BY Zenon DEF CurrentInv
    <3>1. i \in 2 .. Len(stack[u]) /\ SameCall(u, i)
      BY <1>5, <2>1
    <3> QED
      BY <1>3, <3>1, Zenon DEF LatestInv, CurrentInv, SameCall
  <2>4. ToldInv'
    <3> SUFFICES ASSUME NEW s \in Subscribers, TopicOf[s] \in Retained,
                        s \in Range(callbacks'[TopicOf[s]]), retained'[TopicOf[s]] # Nothing
                 PROVE  Told(s)'
      BY Zenon DEF ToldInv
    <3>1. s # x
      BY <1>2, <1>3, <1>7, Zenon
    <3>2. Told(s)
      BY <1>3, <1>6, <3>1, Zenon DEF LatestInv, ToldInv
    <3> QED
      BY <1>3, <2>1, <3>2, ToldKept, Zenon
  <2> QED
    BY <2>2, <2>3, <2>4 DEF LatestInv
<1>8. CASE /\ retained[topic] \in Events /\ owner' = t
           /\ \E f \in FrameType : CallsPushed(t, f) /\ f.topic = topic /\ f.event = retained[topic] /\ f.todo = <<x>>
  <2>1. PICK f \in FrameType : CallsPushed(t, f) /\ f.topic = topic /\ f.event = retained[topic] /\ f.todo = <<x>>
    BY <1>8, Zenon
  <2>2. LockInv'
    BY <1>0, <1>8, <2>1, LockPushed, Zenon DEF subscribe, LatestInv
  <2>3. \A u \in Threads : \A i \in 2 .. Len(stack[u]) : i \in 2 .. Len(stack'[u]) /\ SameCall(u, i)
    BY <1>5, <2>1 DEF CallsPushed
  <2>4. CurrentInv'
    <3> SUFFICES ASSUME NEW u \in Threads, NEW i \in 2 .. Len(stack'[u]), stack'[u][i].topic \in Retained
                 PROVE  stack'[u][i].event = retained'[stack'[u][i].topic]
      BY DEF CurrentInv
    <3>1. CASE u = t /\ i = Len(stack[t]) + 1
      BY <1>3, <2>1, <3>1, Zenon DEF CallsPushed
    <3>2. CASE ~(u = t /\ i = Len(stack[t]) + 1)
      <4>1. i \in 2 .. Len(stack[u]) /\ SameCall(u, i)
        BY <1>5, <2>1, <3>2 DEF CallsPushed
      <4> QED
        BY <1>3, <4>1, Zenon DEF LatestInv, CurrentInv, SameCall
    <3> QED
      BY <3>1, <3>2
  <2>5. ToldInv'
    <3> SUFFICES ASSUME NEW s \in Subscribers, TopicOf[s] \in Retained,
                        s \in Range(callbacks'[TopicOf[s]]), retained'[TopicOf[s]] # Nothing
                 PROVE  Told(s)'
      BY DEF ToldInv
    <3>1. CASE s = x
      <4>1. Len(stack[t]) + 1 \in 2 .. Len(stack'[t]) /\ stack'[t][Len(stack[t]) + 1] = f
        BY <1>5, <2>1 DEF CallsPushed
      <4>2. s \in Range(stack'[t][Len(stack[t]) + 1].todo)
        BY <2>1, <3>1, <4>1, RangeOfOne, Zenon
      <4>3. \E i \in 2 .. Len(stack'[t]) : Due(s, t, i)'
        BY <4>1, <4>2, Zenon DEF Due
      <4> QED
        BY <4>3, Zenon DEF Told
    <3>2. CASE s # x
      <4>1. Told(s)
        BY <1>3, <1>6, <3>2, Zenon DEF LatestInv, ToldInv
      <4> QED
        BY <1>3, <2>3, <4>1, ToldKept, Zenon
    <3> QED
      BY <3>1, <3>2
  <2> QED
    BY <2>2, <2>4, <2>5 DEF LatestInv
<1> QED
  BY <1>4, <1>7, <1>8, Zenon

\* Whoever is called gets the current value, and the others of the dispatch
\* are still to be called.
LEMMA DispatchLatest ==
  ASSUME BusInv, LatestInv, NEW t \in Threads, Dispatch(t)
  PROVE  LatestInv'
<1>0. /\ StackType /\ FrameInv /\ received \in [Subscribers -> Seq(Events)]
      /\ LockInv /\ CurrentInv /\ ToldInv
  BY DEF BusInv, BusType, LatestInv
<1>1. StackType' /\ Called(t)
  BY <1>0, DispatchEffect
<1>2. Dispatching(t) /\ Top(t).todo # <<>> /\ owner' = owner /\ callbacks' = callbacks /\ retained' = retained
  BY DEF Dispatch
<1>3. PICK x \in Subscribers, event \in Events :
        /\ x = Head(Top(t).todo) /\ event = Top(t).event /\ TopicOf[x] = Top(t).topic
        /\ Top(t) \in FrameType /\ Depth(t) \in Nat /\ Depth(t) > 1
  BY <1>0, <1>2, NextCall, Zenon
<1>4. \/ /\ x \in Range(callbacks[TopicOf[x]])
         /\ received' = [received EXCEPT ![x] = Append(received[x], event)]
      \/ x \notin Range(callbacks[TopicOf[x]]) /\ received' = received
  BY <1>3, DispatchGives, Zenon
<1>5. /\ \A u \in Threads : Len(stack'[u]) = Len(stack[u]) /\ Len(stack[u]) \in Nat
      /\ Depth(t) \in 2 .. Len(stack[t]) /\ Top(t) = stack[t][Depth(t)]
  <2>1. \A u \in Threads : Len(stack'[u]) = Len(stack[u]) /\ Len(stack[u]) \in Nat
    BY <1>0, <1>1, TopFrame, Zenon DEF Called
  <2>2. Depth(t) = Len(stack[t]) /\ Top(t) = stack[t][Depth(t)]
    BY <1>0, TopFrame, Zenon
  <2>3. Depth(t) \in 2 .. Len(stack[t])
    BY <1>3, <2>2
  <2> QED
    BY <2>1, <2>2, <2>3, Zenon
<1>6. LockInv'
  BY <1>0, <1>2, <1>5 DEF LockInv
<1>7. ASSUME NEW u \in Threads, NEW i \in 2 .. Len(stack[u])
      PROVE  stack'[u][i].topic = stack[u][i].topic /\ stack'[u][i].event = stack[u][i].event
  <2>1. CASE u = t /\ i = Depth(t)
    BY <1>1, <1>5, <2>1, Zenon DEF Called
  <2>2. CASE u # t \/ i # Depth(t)
    BY <1>1, <1>5, <2>2, AboveIsFrame, Zenon DEF Called, SameCall
  <2> QED
    BY <2>1, <2>2, Zenon
<1>8. CurrentInv'
  <2> SUFFICES ASSUME NEW u \in Threads, NEW i \in 2 .. Len(stack'[u]), stack'[u][i].topic \in Retained
               PROVE  stack'[u][i].event = retained'[stack'[u][i].topic]
    BY Zenon DEF CurrentInv
  <2>1. i \in 2 .. Len(stack[u])
    BY <1>5, Zenon
  <2>2. stack[u][i].event = retained[stack[u][i].topic]
    BY <1>0, <1>7, <2>1, Zenon DEF CurrentInv
  <2> QED
    BY <1>2, <1>7, <2>1, <2>2, Zenon
<1>9. ToldInv'
  <2> SUFFICES ASSUME NEW s \in Subscribers, TopicOf[s] \in Retained,
                      s \in Range(callbacks'[TopicOf[s]]), retained'[TopicOf[s]] # Nothing
               PROVE  Told(s)'
    BY Zenon DEF ToldInv
  <2>1. CASE s = x
    <3>1. event = retained[TopicOf[s]]
      BY <1>0, <1>3, <1>5, <2>1, Zenon DEF CurrentInv
    <3>2. received'[s] = Append(received[s], event) /\ received[s] \in Seq(Events)
      BY <1>0, <1>2, <1>4, <2>1, Zenon
    <3>3. received'[s] # <<>> /\ received'[s][Len(received'[s])] = event
      BY <3>2, LastAppended, Zenon
    <3> QED
      BY <1>2, <3>1, <3>3, Zenon DEF Told
  <2>2. CASE s # x
    <3>1. received'[s] = received[s]
      BY <1>0, <1>4, <2>2, Zenon
    <3>2. Told(s)
      BY <1>0, <1>2, Zenon DEF ToldInv
    <3>3. ASSUME NEW u \in Threads, NEW i \in 2 .. Len(stack[u]), Due(s, u, i)
          PROVE  i \in 2 .. Len(stack'[u]) /\ Due(s, u, i)'
      <4>1. CASE u = t /\ i = Depth(t)
        <5>1. s \in Range(Top(t).todo)
          BY <1>5, <3>3, <4>1, Zenon DEF Due
        <5>2. Top(t).todo \in Seq(Subscribers)
          BY <1>3 DEF FrameType
        <5>3. s \in Range(Tail(Top(t).todo))
          BY <1>2, <1>3, <2>2, <5>1, <5>2, TailRange, Zenon
        <5> QED
          BY <1>1, <1>5, <4>1, <5>3, Zenon DEF Due, Called
      <4>2. CASE u # t \/ i # Depth(t)
        BY <1>1, <1>5, <3>3, <4>2, AboveIsFrame, Zenon DEF Called, SameCall, Due
      <4> QED
        BY <4>1, <4>2, Zenon
    <3>4. CASE \E u \in Threads : \E i \in 2 .. Len(stack[u]) : Due(s, u, i)
      BY <3>3, <3>4, Zenon DEF Told
    <3>5. CASE received[s] # <<>> /\ received[s][Len(received[s])] = retained[TopicOf[s]]
      BY <1>2, <3>1, <3>5, Zenon DEF Told
    <3> QED
      BY <3>2, <3>4, <3>5, Zenon DEF Told
  <2> QED
    BY <2>1, <2>2, Zenon
<1> QED
  BY <1>6, <1>8, <1>9 DEF LatestInv

\* A dispatch that ends had nobody left to call, and the outermost gives the
\* mutex back.
LEMMA ReturnLatest ==
  ASSUME BusInv, LatestInv, NEW t \in Threads, Return(t)
  PROVE  LatestInv'
<1>0. StackType /\ LockInv /\ CurrentInv /\ ToldInv
  BY DEF BusInv, BusType, LatestInv
<1>1. Popped(t)
  BY <1>0, ReturnEffect
<1>2. /\ Dispatching(t) /\ Top(t).todo = <<>> /\ owner' = OwnerAfter(t)
      /\ callbacks' = callbacks /\ retained' = retained /\ received' = received
  BY DEF Return
<1>3. /\ \A u \in Threads : Len(stack[u]) \in Nat
      /\ Depth(t) = Len(stack[t]) /\ Depth(t) > 1 /\ Top(t) = stack[t][Depth(t)]
  BY <1>0, <1>2, TopFrame, Zenon DEF StackType, Dispatching
<1>4. /\ Len(stack'[t]) = Len(stack[t]) - 1
      /\ \A u \in Threads : u # t => Len(stack'[u]) = Len(stack[u])
  BY <1>1, <1>3, Zenon DEF Popped, Kept
<1>5. LockInv'
  <2>1. owner = t
    BY <1>0, <1>3 DEF LockInv
  <2>2. owner' = IF Len(stack[t]) = 2 THEN Nothing ELSE t
    BY <1>2, <1>3 DEF OwnerAfter
  <2>3. Nothing \notin Threads
    BY ConstantsAssumption
  <2> SUFFICES ASSUME NEW u \in Threads
               PROVE  Len(stack'[u]) > 1 <=> owner' = u
    BY DEF LockInv
  <2>4. CASE u = t
    <3>0. PICK d \in Nat : d = Len(stack[t]) /\ d > 1
      BY <1>3, Zenon
    <3>1. CASE d = 2
      <4>1. Len(stack'[t]) = 1 /\ owner' = Nothing
        BY <1>4, <2>2, <3>0, <3>1
      <4> QED
        BY <2>3, <2>4, <4>1
    <3>2. CASE d > 2
      <4>1. d # 2
        BY <3>2
      <4>2. Len(stack'[t]) = d - 1
        BY <1>4, <3>0
      <4>3. owner' = t
        BY <2>2, <3>0, <4>1
      <4>4. Len(stack'[t]) > 1
        BY <3>2, <4>2
      <4> QED
        BY <2>4, <4>3, <4>4
    <3>3. d = 2 \/ d > 2
      <4>1. d > 1
        BY <3>0
      <4> QED
        BY <4>1
    <3> QED
      BY <3>1, <3>2, <3>3, Zenon
  <2>5. CASE u # t
    <3>1. owner' # u /\ owner # u
      BY <2>1, <2>2, <2>3, <2>5
    <3>2. ~(Len(stack[u]) > 1)
      BY <1>0, <3>1 DEF LockInv
    <3> QED
      BY <1>4, <2>5, <3>1, <3>2
  <2> QED
    BY <2>4, <2>5
<1>6. ASSUME NEW u \in Threads, NEW i \in 2 .. Len(stack'[u])
      PROVE  i \in 2 .. Len(stack[u]) /\ stack'[u][i] = stack[u][i]
  <2>1. CASE u = t
    <3>1. i \in 2 .. Len(stack[t]) /\ i \in 1 .. Depth(t) - 1
      BY <1>3, <1>4, <2>1
    <3> QED
      BY <1>1, <2>1, <3>1, Zenon DEF Popped, Kept
  <2>2. CASE u # t
    BY <1>1, <1>3, <1>4, <2>2, Zenon DEF Popped, Kept
  <2> QED
    BY <2>1, <2>2
<1>7. CurrentInv'
  <2> SUFFICES ASSUME NEW u \in Threads, NEW i \in 2 .. Len(stack'[u]), stack'[u][i].topic \in Retained
               PROVE  stack'[u][i].event = retained'[stack'[u][i].topic]
    BY Zenon DEF CurrentInv
  <2>1. i \in 2 .. Len(stack[u]) /\ stack'[u][i] = stack[u][i]
    BY <1>6, Zenon
  <2>2. stack[u][i].event = retained[stack[u][i].topic]
    BY <1>0, <2>1, Zenon DEF CurrentInv
  <2> QED
    BY <1>2, <2>1, <2>2, Zenon
<1>8. ToldInv'
  <2> SUFFICES ASSUME NEW s \in Subscribers, TopicOf[s] \in Retained,
                      s \in Range(callbacks'[TopicOf[s]]), retained'[TopicOf[s]] # Nothing
               PROVE  Told(s)'
    BY Zenon DEF ToldInv
  <2>1. Told(s)
    BY <1>0, <1>2, Zenon DEF ToldInv
  <2>2. ASSUME NEW u \in Threads, NEW i \in 2 .. Len(stack[u]), Due(s, u, i)
        PROVE  i \in 2 .. Len(stack'[u]) /\ Due(s, u, i)'
    <3>1. ~(u = t /\ i = Depth(t))
      BY <1>2, <1>3, <2>2, RangeOfOne, Zenon DEF Due
    <3>2. i \in 2 .. Len(stack'[u])
      <4>1. CASE u = t
        BY <1>3, <1>4, <3>1, <4>1
      <4>2. CASE u # t
        BY <1>4, <4>2, Zenon
      <4> QED
        BY <4>1, <4>2, Zenon
    <3> QED
      BY <1>6, <2>2, <3>2 DEF Due
  <2>3. CASE \E u \in Threads : \E i \in 2 .. Len(stack[u]) : Due(s, u, i)
    BY <2>2, <2>3, Zenon DEF Told
  <2>4. CASE received[s] # <<>> /\ received[s][Len(received[s])] = retained[TopicOf[s]]
    BY <1>2, <2>4, Zenon DEF Told
  <2> QED
    BY <2>1, <2>3, <2>4, Zenon DEF Told
<1> QED
  BY <1>5, <1>7, <1>8 DEF LatestInv

\* Every step of every thread.
LEMMA LatestStep ==
  ASSUME BusInv, LatestInv, [Next]_busVars, [NotReentered]_busVars
  PROVE  LatestInv'
<1>1. CASE busVars' = busVars
  <2>1. /\ stack' = stack /\ owner' = owner /\ callbacks' = callbacks
        /\ retained' = retained /\ received' = received
    BY <1>1 DEF busVars
  <2>2. CallsKept
    BY <2>1 DEF CallsKept, SameCall
  <2> QED
    BY <2>1, <2>2, QuietLatest
<1>2. CASE busVars' # busVars
  <2>1. PICK t \in Threads : Step(t)
    BY <1>2 DEF Next
  <2>2. CASE publish(t)
    BY <1>2, <2>2, PublishLatest
  <2>3. CASE Dispatch(t)
    BY <2>3, DispatchLatest
  <2>4. CASE Return(t)
    BY <2>4, ReturnLatest
  <2>5. CASE subscribe(t)
    BY <2>5, SubscribeLatest
  <2>6. CASE unsubscribe(t)
    BY <2>6, UnsubscribeEffect, QuietLatest
  <2>7. CASE remover(t)
    <3>1. \A topic \in Topics : Range(callbacks'[topic]) \subseteq Range(callbacks[topic])
      BY <2>7, RemoverEffect, Zenon
    <3>2. CallsKept /\ owner' = owner /\ retained' = retained /\ received' = received
      BY <2>7, RemoverEffect, Zenon
    <3> QED
      BY <3>1, <3>2, QuietLatest
  <2>8. CASE instance(t)
    BY <2>8, InstanceEffect, QuietLatest
  <2>9. CASE ready(t)
    BY <2>9, ReadyEffect, QuietLatest, Zenon
  <2> QED
    BY <2>1, <2>2, <2>3, <2>4, <2>5, <2>6, <2>7, <2>8, <2>9 DEF Step
<1> QED
  BY <1>1, <1>2

\* A subscriber of a retained topic with no call outstanding was last called
\* with the topic's current value, for any threads, handlers and nesting, as
\* long as no handler publishes a retained topic within its own dispatch of
\* it: the inner call then comes first and the outer one ends with the older
\* value (publish, MessageBusInternal.hpp:90-101).
THEOREM LatestDelivered == Spec /\ [][NotReentered]_busVars => []RetainedIsLatest
<1>1. Init => LatestInv
  <2> SUFFICES ASSUME Init
               PROVE  LatestInv
    OBVIOUS
  <2>1. /\ owner = Nothing /\ callbacks = [topic \in Topics |-> <<>>]
        /\ retained = [topic \in Topics |-> Nothing]
    BY DEF Init
  <2>2. \A t \in Threads : Len(stack[t]) = 1
    <3>1. PICK program \in Programs :
            stack = [t \in Threads |-> <<Frame(Nothing, Nothing, <<>>, program[t])>>]
      BY DEF Init
    <3> QED
      BY <3>1
  <2>3. LockInv
    <3>1. ASSUME NEW t \in Threads
          PROVE  ~(Len(stack[t]) > 1)
      <4>1. Len(stack[t]) = 1
        BY <2>2
      <4> QED
        BY <4>1
    <3>2. \A t \in Threads : owner # t
      BY <2>1, ConstantsAssumption
    <3> QED
      BY <3>1, <3>2 DEF LockInv
  <2>4. CurrentInv
    BY <2>2 DEF CurrentInv
  <2>5. ToldInv
    BY <2>1, ConstantsAssumption DEF ToldInv
  <2> QED
    BY <2>3, <2>4, <2>5 DEF LatestInv
<1>2. BusInv /\ LatestInv /\ [Next]_busVars /\ [NotReentered]_busVars => LatestInv'
  BY LatestStep
<1>3. BusInv /\ LatestInv => RetainedIsLatest
  <2> SUFFICES ASSUME BusInv, LatestInv, NEW topic \in Retained, NEW s \in Range(callbacks[topic]),
                      retained[topic] # Nothing, Owed(s) = {}
               PROVE  received[s] # <<>> /\ received[s][Len(received[s])] = retained[topic]
    BY Zenon DEF RetainedIsLatest
  <2>1. topic \in Topics /\ callbacks[topic] \in Seq(Subscribers) /\ StackType
    BY ConstantsAssumption, Zenon DEF BusInv, BusType
  <2>2. s \in Subscribers /\ TopicOf[s] = topic
    <3>1. PICK k \in DOMAIN callbacks[topic] : s = callbacks[topic][k]
      BY DEF Range
    <3>2. TopicOf[s] = topic
      BY <2>1, <3>1, Zenon DEF BusInv, ListInv
    <3> QED
      BY <2>1, <3>1, <3>2
  <2>3. Told(s)
    BY <2>2 DEF LatestInv, ToldInv
  <2>4. ASSUME NEW u \in Threads, NEW i \in 2 .. Len(stack[u]), Due(s, u, i)
        PROVE  FALSE
    <3>1. i \in 1 .. Len(stack[u]) /\ i > 1
      BY <2>1 DEF StackType
    <3>2. stack[u][i].event \in Events
      BY <3>1, Zenon DEF BusInv, FrameInv
    <3>3. stack[u][i].event \in Owed(s)
      BY <2>1, <2>2, <2>4, <3>1, <3>2, OwedIs, Zenon
    <3> QED
      BY <3>3
  <2> QED
    BY <2>2, <2>3, <2>4, Zenon DEF Told
<1> QED
  BY <1>1, <1>2, <1>3, BusInvariant, PTL DEF Spec
=============================================================================
