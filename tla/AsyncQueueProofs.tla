-------------------------- MODULE AsyncQueueProofs --------------------------
(***************************************************************************)
(* What is proved of AsyncQueue, for any number of producers and tasks and *)
(* any capacities: its types, that no wake-up is lost, how far a push may  *)
(* lengthen the queue, that every step of it is a step of the channel      *)
(* EventChannel describes, that the tasks of one producer are taken in the *)
(* order it posted them, and that none is lost, taken twice or both taken  *)
(* and given up.                                                           *)
(***************************************************************************)
EXTENDS AsyncQueue, QueueLemmas

\* A producer in the middle of async_call has a call left to record.
CallLeft == \A p \in Producers : pc[p] = "push" => calls[p] < MaxCalls

\* The inductive invariant of the types.
TypeInv == TypeOK /\ CallLeft

-----------------------------------------------------------------------------
(* Types                                                                   *)

\* An empty queue has its types.
LEMMA TypeInit == Init => TypeInv
<1> SUFFICES ASSUME Init
             PROVE  TypeInv
  OBVIOUS
<1>1. q_ \in Seq(Task) /\ taken \in Seq(Task)
  BY DEF Init
<1>2. calls \in [Producers -> 0..MaxCalls]
  BY QueueAssumption DEF Init
<1> QED
  BY <1>1, <1>2 DEF Init, TypeInv, TypeOK, CallLeft

\* Every step keeps the types; a push has a call left to record.
LEMMA TypeNext == TypeInv /\ [Next]_vars => TypeInv'
<1> SUFFICES ASSUME TypeInv, [Next]_vars
             PROVE  TypeInv'
  OBVIOUS
<1> USE QueueAssumption DEF TypeInv, TypeOK, CallLeft
<1>1. ASSUME NEW p \in Producers, AsyncCall(p)
      PROVE  TypeInv'
  BY <1>1 DEF AsyncCall
<1>2. ASSUME NEW p \in Producers, Push(p)
      PROVE  TypeInv'
  <2> DEFINE task == [from |-> p, n |-> calls[p] + 1]
  <2>1. task \in Task
    BY <1>2 DEF Push, Task
  <2>2. q_' \in Seq(Task) /\ dropped' \subseteq Task
    <3>1. CASE Overfull
      <4>1. q_ # <<>>
        BY <3>1 DEF Overfull
      <4> HIDE DEF task
      <4>2. q_' = Append(Tail(q_), task) /\ dropped' = dropped \cup {Head(q_)}
        BY <1>2, <3>1 DEF Push, task
      <4> QED
        BY <2>1, <4>1, <4>2, TailOfQueue
    <3>2. CASE ~Overfull
      <4> HIDE DEF task
      <4>1. q_' = Append(q_, task) /\ dropped' = dropped
        BY <1>2, <3>2 DEF Push, task
      <4> QED
        BY <2>1, <4>1
    <3> QED
      BY <3>1, <3>2
  <2> QED
    BY <1>2, <2>2 DEF Push
<1>3. ASSUME NEW p \in Producers, Send(p)
      PROVE  TypeInv'
  BY <1>3 DEF Send
<1>4. CASE Wake
  BY <1>4 DEF Wake
<1>5. CASE Take
  BY <1>5, TailOfQueue DEF Take
<1>6. CASE RunTask
  BY <1>6 DEF RunTask
<1>7. CASE Sleep
  BY <1>7 DEF Sleep
<1>8. CASE Close
  BY <1>8 DEF Close
<1>9. CASE Clear
  <2>1. ToSet(q_) \subseteq Task
    BY ElementsOfQueue
  <2> QED
    BY <1>9, <2>1 DEF Clear
<1>10. ASSUME NEW c \in Capacities, SetCapacity(c)
       PROVE  TypeInv'
  BY <1>10 DEF SetCapacity
<1>11. CASE UNCHANGED vars
  BY <1>11 DEF vars
<1> QED
  BY <1>1, <1>2, <1>3, <1>4, <1>5, <1>6, <1>7, <1>8, <1>9, <1>10, <1>11
     DEF Next, Producer, Loop

\* The variables of the queue always have their types; in particular no
\* producer ever records more tasks than it posts.
THEOREM TypeCorrect == Spec => []TypeOK
<1>1. TypeInv => TypeOK
  BY DEF TypeInv
<1> QED
  BY <1>1, TypeInit, TypeNext, PTL DEF Spec

-----------------------------------------------------------------------------
(* Wake-ups                                                                *)

\* A producer signals after its push, and the loop goes idle only after it
\* has seen the queue empty, so no task waits unannounced.
LEMMA WakeupNext == TypeInv /\ NoLostWakeup /\ [Next]_vars => NoLostWakeup'
<1> SUFFICES ASSUME TypeInv, NoLostWakeup, [Next]_vars
             PROVE  NoLostWakeup'
  OBVIOUS
<1> USE DEF NoLostWakeup
<1>1. ASSUME NEW p \in Producers, AsyncCall(p)
      PROVE  NoLostWakeup'
  BY <1>1 DEF AsyncCall, TypeInv, TypeOK
<1>2. ASSUME NEW p \in Producers, Push(p)
      PROVE  NoLostWakeup'
  BY <1>2 DEF Push, TypeInv, TypeOK
<1>3. ASSUME NEW p \in Producers, Send(p)
      PROVE  NoLostWakeup'
  BY <1>3 DEF Send
<1>4. CASE Loop
  BY <1>4 DEF Loop, Wake, Take, RunTask, Sleep
<1>5. CASE Close
  BY <1>5 DEF Close
<1>6. CASE Clear
  BY <1>6 DEF Clear
<1>7. ASSUME NEW c \in Capacities, SetCapacity(c)
      PROVE  NoLostWakeup'
  BY <1>7 DEF SetCapacity
<1>8. CASE UNCHANGED vars
  BY <1>8 DEF vars
<1> QED
  BY <1>1, <1>2, <1>3, <1>4, <1>5, <1>6, <1>7, <1>8 DEF Next, Producer

\* Signals that uv_async_send merges never leave tasks waiting with nobody to
\* take them: the push comes before the signal, and the drain goes on until
\* it has seen the queue empty.
THEOREM WakeupsNotLost == Spec => []NoLostWakeup
<1>1. Init => NoLostWakeup
  BY DEF Init, NoLostWakeup
<1> QED
  BY <1>1, TypeInit, TypeNext, WakeupNext, PTL DEF Spec

-----------------------------------------------------------------------------
(* Capacity                                                                *)

\* One step lengthens the queue only up to the capacity plus one.
Growth == Len(q_') > Len(q_) => capacity_ = 0 \/ Len(q_') <= capacity_ + 1

\* A push evicts before it appends.
LEMMA GrowthStep == TypeInv /\ [Next]_vars => [Growth]_vars
<1> SUFFICES ASSUME TypeInv, Next
             PROVE  Growth
  OBVIOUS
<1> USE DEF Growth
<1>1. q_ \in Seq(Task) /\ capacity_ \in Nat
  BY QueueAssumption DEF TypeInv, TypeOK
<1>2. ASSUME NEW p \in Producers, Push(p)
      PROVE  Growth
  <2> DEFINE task == [from |-> p, n |-> calls[p] + 1]
  <2>1. CASE Overfull
    <3>1. q_ # <<>>
      BY <1>1, <2>1 DEF Overfull
    <3>2. Tail(q_) \in Seq(Task) /\ Len(Tail(q_)) = Len(q_) - 1
      BY <1>1, <3>1, TailOfQueue
    <3>3. q_' = Append(Tail(q_), task)
      BY <1>2, <2>1 DEF Push
    <3>4. Len(q_') = Len(q_)
      BY <1>1, <3>2, <3>3
    <3> QED
      BY <1>1, <3>4
  <2>2. CASE ~Overfull
    <3>1. q_' = Append(q_, task)
      BY <1>2, <2>2 DEF Push
    <3>2. Len(q_') = Len(q_) + 1
      BY <1>1, <3>1
    <3> QED
      BY <1>1, <2>2, <3>2 DEF Overfull
  <2> QED
    BY <2>1, <2>2
<1>3. CASE Take
  BY <1>1, <1>3, TailOfQueue DEF Take
<1>4. CASE Clear
  BY <1>1, <1>4 DEF Clear
<1>5. ASSUME q_' = q_
      PROVE  Growth
  BY <1>1, <1>5
<1> QED
  BY <1>2, <1>3, <1>4, <1>5
     DEF Next, Producer, Loop, AsyncCall, Send, Wake, RunTask, Sleep, Close,
         SetCapacity

\* However the capacity is changed under the producers, no push brings the
\* queue to more than one task above it.
THEOREM GrowthIsBounded == Spec => GrowthBounded
<1>1. Spec => [][Growth]_vars
  BY TypeInit, TypeNext, GrowthStep, PTL DEF Spec
<1> QED
  BY <1>1 DEF GrowthBounded, Growth

-----------------------------------------------------------------------------
(* The channel                                                             *)

\* Signals, wake-ups and the tests of closed_ are stutters of the channel.
LEMMA ChannelStep == TypeInv /\ [Next]_vars => [Channel!Next]_(Channel!vars)
<1> SUFFICES ASSUME TypeInv, [Next]_vars
             PROVE  [Channel!Next]_(Channel!vars)
  OBVIOUS
<1> USE DEF Channel!vars
<1>1. q_ \in Seq(Task)
  BY DEF TypeInv, TypeOK
<1>2. ASSUME NEW p \in Producers, Push(p)
      PROVE  Channel!Next
  <2> DEFINE task == [from |-> p, n |-> calls[p] + 1]
  <2>1. task \in Task
    BY <1>2, QueueAssumption DEF Push, Task, TypeInv, TypeOK, CallLeft
  <2>2. CASE Overfull
    <3>1. q_ # <<>>
      BY <1>1, <2>2, QueueAssumption DEF Overfull, TypeInv, TypeOK
    <3>2. q_' = Append(Tail(q_), task) /\ taken' = taken
      BY <1>2, <2>2 DEF Push
    <3>3. Channel!PostInsteadOfOldest(task)
      BY <3>1, <3>2 DEF Channel!PostInsteadOfOldest
    <3> QED
      BY <2>1, <3>3 DEF Channel!Next
  <2>3. CASE ~Overfull
    <3>1. Channel!Post(task)
      BY <1>2, <2>3 DEF Push, Channel!Post
    <3> QED
      BY <2>1, <3>1 DEF Channel!Next
  <2> QED
    BY <2>2, <2>3
<1>3. CASE Take
  BY <1>3 DEF Take, Channel!Take, Channel!Next
<1>4. CASE Clear
  BY <1>4 DEF Clear, Channel!Clear, Channel!Next
<1>5. ASSUME q_' = q_, taken' = taken
      PROVE  [Channel!Next]_(Channel!vars)
  BY <1>5
<1> QED
  BY <1>2, <1>3, <1>4, <1>5
     DEF Next, Producer, Loop, AsyncCall, Send, Wake, RunTask, Sleep, Close,
         SetCapacity, vars

\* The queue, its lock and its signals implement the first-in, first-out
\* channel: every step posts, evicts the oldest, takes or clears.
THEOREM ImplementsChannel ==
  Spec => Channel!Init /\ [][Channel!Next]_(Channel!vars)
<1>1. Init => Channel!Init
  BY DEF Init, Channel!Init
<1> QED
  BY <1>1, TypeInit, TypeNext, ChannelStep, PTL DEF Spec

-----------------------------------------------------------------------------
(* Order and accounting                                                    *)

\* Two tasks of one producer, the first posted earlier.
Earlier(a, b) == a.from = b.from => a.n < b.n

\* A sequence has every producer's tasks in the order they were posted.
Ordered(s) == \A i, j \in 1..Len(s) : i < j => Earlier(s[i], s[j])

\* Each producer posted its tasks in S before its tasks in T.
Before(S, T) == \A a \in S, b \in T : Earlier(a, b)

\* What was taken, what waits and what is still to be posted follow each
\* other.
OrderInv ==
  /\ Ordered(taken)
  /\ Ordered(q_)
  /\ Before(ToSet(taken), ToSet(q_))
  /\ \A e \in ToSet(taken) \cup ToSet(q_) : e.n <= calls[e.from]

\* Each posted task is in one place, and in one only.
PlaceInv ==
  /\ \A e \in Task :
       e.n <= calls[e.from] <=> e \in ToSet(taken) \cup ToSet(q_) \cup dropped
  /\ ToSet(taken) \cap ToSet(q_) = {}
  /\ dropped \cap (ToSet(taken) \cup ToSet(q_)) = {}

-----------------------------------------------------------------------------
(* Ordered sequences                                                       *)

\* The oldest task was posted before every other, and those are in order.
LEMMA OrderedTail ==
  ASSUME NEW q \in Seq(Task), q # <<>>, Ordered(q)
  PROVE  /\ Ordered(Tail(q))
         /\ Before({Head(q)}, ToSet(Tail(q)))
<1>1. Len(q) \in Nat \ {0} /\ Len(Tail(q)) = Len(q) - 1
  OBVIOUS
<1>2. \A i \in 1..(Len(q) - 1) : Tail(q)[i] = q[i + 1]
  BY <1>1
<1>3. ASSUME NEW i \in 1..(Len(q) - 1), NEW j \in 1..(Len(q) - 1), i < j
      PROVE  Earlier(Tail(q)[i], Tail(q)[j])
  <2>1. i + 1 \in 1..Len(q) /\ j + 1 \in 1..Len(q) /\ i + 1 < j + 1
    BY <1>1, <1>3
  <2>2. Earlier(q[i + 1], q[j + 1])
    BY <2>1 DEF Ordered
  <2> QED
    BY <1>2, <2>2
<1>4. ASSUME NEW i \in 1..(Len(q) - 1)
      PROVE  Earlier(Head(q), Tail(q)[i])
  <2>1. 1 \in 1..Len(q) /\ i + 1 \in 1..Len(q) /\ 1 < i + 1
    BY <1>1
  <2>2. Earlier(q[1], q[i + 1])
    BY <2>1 DEF Ordered
  <2>3. q[1] = Head(q)
    OBVIOUS
  <2> QED
    BY <1>2, <2>2, <2>3
<1>5. DOMAIN Tail(q) = 1..(Len(q) - 1)
  BY <1>1
<1>6. Ordered(Tail(q))
  BY <1>1, <1>3 DEF Ordered
<1>7. Before({Head(q)}, ToSet(Tail(q)))
  BY <1>4, <1>5 DEF Before, ToSet
<1> QED
  BY <1>6, <1>7

\* A task may be appended to tasks that were all posted before it.
LEMMA OrderedAppend ==
  ASSUME NEW q \in Seq(Task), NEW e \in Task, Ordered(q),
         Before(ToSet(q), {e})
  PROVE  Ordered(Append(q, e))
<1>1. Len(q) \in Nat /\ Len(Append(q, e)) = Len(q) + 1
  OBVIOUS
<1>2. \A i \in 1..Len(q) : Append(q, e)[i] = q[i] /\ q[i] \in ToSet(q)
  BY DEF ToSet
<1>3. Append(q, e)[Len(q) + 1] = e
  OBVIOUS
<1>4. ASSUME NEW i \in 1..(Len(q) + 1), NEW j \in 1..(Len(q) + 1), i < j
      PROVE  Earlier(Append(q, e)[i], Append(q, e)[j])
  <2>1. i \in 1..Len(q)
    BY <1>1, <1>4
  <2>2. CASE j = Len(q) + 1
    <3>1. Earlier(q[i], e)
      BY <1>2, <2>1 DEF Before
    <3> QED
      BY <1>2, <1>3, <2>1, <2>2, <3>1
  <2>3. CASE j \in 1..Len(q)
    <3>1. Earlier(q[i], q[j])
      BY <1>4, <2>1, <2>3 DEF Ordered
    <3> QED
      BY <1>2, <2>1, <2>3, <3>1
  <2> QED
    BY <1>1, <2>2, <2>3
<1> QED
  BY <1>1, <1>4 DEF Ordered

-----------------------------------------------------------------------------
(* The steps that change the queue                                         *)

\* A push puts the next task of its producer behind all or all but the oldest
\* of those that wait, and the oldest is then given up.
LEMMA PushedBehind ==
  ASSUME TypeInv, OrderInv, NEW p \in Producers, Push(p)
  PROVE  \E base \in Seq(Task), gone \in SUBSET Task :
           LET task == [from |-> p, n |-> calls[p] + 1] IN
           /\ task \in Task
           /\ q_' = Append(base, task)
           /\ Ordered(base)
           /\ ToSet(q_) = ToSet(base) \cup gone
           /\ Before(gone, ToSet(base))
           /\ gone \cap ToSet(base) = {}
           /\ dropped' = dropped \cup gone
<1> DEFINE task == [from |-> p, n |-> calls[p] + 1]
<1>1. q_ \in Seq(Task)
  BY DEF TypeInv, TypeOK
<1>2. task \in Task
  BY QueueAssumption DEF Push, Task, TypeInv, TypeOK, CallLeft
<1>3. CASE Overfull
  <2>1. q_ # <<>>
    BY <1>1, <1>3, QueueAssumption DEF Overfull, TypeInv, TypeOK
  <2>2. q_' = Append(Tail(q_), task) /\ dropped' = dropped \cup {Head(q_)}
    BY <1>3 DEF Push
  <2>3. /\ Tail(q_) \in Seq(Task) /\ Head(q_) \in Task
        /\ ToSet(q_) = {Head(q_)} \cup ToSet(Tail(q_))
    BY <1>1, <2>1, TailOfQueue, HeldBeforeTail
  <2>4. Ordered(Tail(q_)) /\ Before({Head(q_)}, ToSet(Tail(q_)))
    BY <1>1, <2>1, OrderedTail DEF OrderInv
  <2>5. ~Earlier(Head(q_), Head(q_))
    BY <2>3 DEF Earlier, Task
  <2>6. {Head(q_)} \cap ToSet(Tail(q_)) = {}
    BY <2>4, <2>5 DEF Before
  <2>7. /\ ToSet(q_) = ToSet(Tail(q_)) \cup {Head(q_)}
        /\ {Head(q_)} \in SUBSET Task
    BY <2>3
  <2> HIDE DEF task
  <2> QED
    BY <1>2, <2>2, <2>3, <2>4, <2>6, <2>7 DEF task
<1>4. CASE ~Overfull
  <2>1. q_' = Append(q_, task) /\ dropped' = dropped \cup {}
    BY <1>4 DEF Push
  <2>2. Ordered(q_) /\ Before({}, ToSet(q_))
    BY DEF OrderInv, Before
  <2>3. ToSet(q_) = ToSet(q_) \cup {} /\ {} \cap ToSet(q_) = {}
        /\ {} \in SUBSET Task
    OBVIOUS
  <2> HIDE DEF task
  <2> QED
    BY <1>1, <1>2, <2>1, <2>2, <2>3 DEF task
<1> QED
  BY <1>3, <1>4

\* The task that is posted is later than all of its producer, and new.
LEMMA PushKeeps ==
  ASSUME TypeInv, OrderInv, PlaceInv, NEW p \in Producers, Push(p)
  PROVE  OrderInv' /\ PlaceInv'
<1> DEFINE task == [from |-> p, n |-> calls[p] + 1]
<1>1. PICK base \in Seq(Task), gone \in SUBSET Task :
        /\ task \in Task
        /\ q_' = Append(base, task)
        /\ Ordered(base)
        /\ ToSet(q_) = ToSet(base) \cup gone
        /\ Before(gone, ToSet(base))
        /\ gone \cap ToSet(base) = {}
        /\ dropped' = dropped \cup gone
  BY PushedBehind
<1>2. task.from = p /\ task.n = calls[p] + 1
  OBVIOUS
<1>3. /\ taken' = taken /\ taken \in Seq(Task) /\ calls[p] \in Nat
      /\ calls' = [calls EXCEPT ![p] = @ + 1]
      /\ calls \in [Producers -> Nat] /\ calls' \in [Producers -> Nat]
  BY QueueAssumption DEF Push, TypeInv, TypeOK
<1> HIDE DEF task
<1>4. ToSet(q_') = ToSet(base) \cup {task}
  BY <1>1, HeldAfterAppend
<1>5. ToSet(taken) \subseteq Task /\ ToSet(base) \subseteq Task
  BY <1>1, <1>3, ElementsOfQueue
<1>6. \A e \in ToSet(taken) \cup ToSet(q_) :
        e \in Task /\ e.n <= calls[e.from]
  BY <1>1, <1>5 DEF OrderInv
<1>7. \A e \in ToSet(taken) \cup ToSet(q_) : Earlier(e, task)
  BY <1>2, <1>3, <1>6 DEF Earlier, Task
<1>8. OrderInv'
  <2>1. Ordered(q_')
    BY <1>1, <1>7, OrderedAppend DEF Before
  <2>2. Before(ToSet(taken), ToSet(q_'))
    BY <1>1, <1>4, <1>7 DEF Before, OrderInv
  <2>3. \A e \in ToSet(taken) \cup ToSet(q_') : e.n <= calls'[e.from]
    BY <1>1, <1>2, <1>3, <1>4, <1>6 DEF Task
  <2> QED
    BY <1>3, <2>1, <2>2, <2>3 DEF OrderInv
<1>9. PlaceInv'
  <2>1. \A e \in Task : e.n <= calls'[e.from] <=> e.n <= calls[e.from]
                                                  \/ e = task
    <3> SUFFICES ASSUME NEW e \in Task
                 PROVE  e.n <= calls'[e.from] <=>
                          e.n <= calls[e.from] \/ e = task
      OBVIOUS
    <3>1. e = task <=> e.from = p /\ e.n = calls[p] + 1
      BY DEF task, Task
    <3> QED
      BY <1>3, <3>1 DEF Task
  <2>2. ~(task.n <= calls[task.from])
    BY <1>2, <1>3
  <2>3. task \notin ToSet(taken) \cup ToSet(q_) \cup dropped
    BY <1>1, <2>2 DEF PlaceInv
  <2> QED
    BY <1>1, <1>3, <1>4, <2>1, <2>3 DEF PlaceInv
<1> QED
  BY <1>8, <1>9

\* The task taken was the first that waited, and waits no more.
LEMMA TakeKeeps ==
  ASSUME TypeInv, OrderInv, PlaceInv, Take
  PROVE  OrderInv' /\ PlaceInv'
<1>1. /\ q_ \in Seq(Task) /\ taken \in Seq(Task) /\ q_ # <<>>
      /\ taken' = Append(taken, Head(q_)) /\ q_' = Tail(q_)
      /\ calls' = calls /\ dropped' = dropped
  BY DEF TypeInv, TypeOK, Take
<1>2. Head(q_) \in Task
  BY <1>1, TailOfQueue
<1>3. ToSet(q_) = {Head(q_)} \cup ToSet(Tail(q_))
  BY <1>1, HeldBeforeTail
<1>4. ToSet(taken') = ToSet(taken) \cup {Head(q_)}
  BY <1>1, <1>2, HeldAfterAppend
<1>5. Ordered(Tail(q_)) /\ Before({Head(q_)}, ToSet(Tail(q_)))
  BY <1>1, OrderedTail DEF OrderInv
<1>6. Head(q_) \notin ToSet(Tail(q_))
  BY <1>2, <1>5 DEF Before, Earlier, Task
<1>7. OrderInv'
  <2>1. Ordered(taken')
    BY <1>1, <1>2, <1>3, OrderedAppend DEF OrderInv, Before
  <2>2. Before(ToSet(taken'), ToSet(q_'))
    BY <1>1, <1>3, <1>4, <1>5 DEF OrderInv, Before
  <2> QED
    BY <1>1, <1>3, <1>4, <1>5, <2>1, <2>2 DEF OrderInv
<1>8. PlaceInv'
  BY <1>1, <1>3, <1>4, <1>6 DEF PlaceInv
<1> QED
  BY <1>7, <1>8

\* clear gives up what waited.
LEMMA ClearKeeps ==
  ASSUME TypeInv, OrderInv, PlaceInv, Clear
  PROVE  OrderInv' /\ PlaceInv'
<1>1. /\ q_' = <<>> /\ dropped' = dropped \cup ToSet(q_)
      /\ taken' = taken /\ calls' = calls
  BY DEF Clear
<1>2. ToSet(q_') = {} /\ Len(q_') = 0
  BY <1>1 DEF ToSet
<1>3. OrderInv'
  BY <1>1, <1>2 DEF OrderInv, Ordered, Before
<1>4. PlaceInv'
  BY <1>1, <1>2 DEF PlaceInv
<1> QED
  BY <1>3, <1>4

-----------------------------------------------------------------------------
(* The invariants of every run                                             *)

\* No task was posted yet.
LEMMA TasksInit == Init => OrderInv /\ PlaceInv
<1> SUFFICES ASSUME Init
             PROVE  OrderInv /\ PlaceInv
  OBVIOUS
<1>1. q_ = <<>> /\ taken = <<>> /\ dropped = {}
      /\ calls = [p \in Producers |-> 0]
  BY DEF Init
<1>2. ToSet(q_) = {} /\ ToSet(taken) = {} /\ Len(q_) = 0 /\ Len(taken) = 0
  BY <1>1 DEF ToSet
<1>3. OrderInv
  BY <1>2 DEF OrderInv, Ordered, Before
<1>4. \A e \in Task : ~(e.n <= calls[e.from])
  BY <1>1 DEF Task
<1>5. PlaceInv
  BY <1>1, <1>2, <1>4 DEF PlaceInv
<1> QED
  BY <1>3, <1>5

\* Every step keeps the tasks in order and in one place.
LEMMA TasksNext ==
  TypeInv /\ OrderInv /\ PlaceInv /\ [Next]_vars => OrderInv' /\ PlaceInv'
<1> SUFFICES ASSUME TypeInv, OrderInv, PlaceInv, [Next]_vars
             PROVE  OrderInv' /\ PlaceInv'
  OBVIOUS
<1>1. ASSUME UNCHANGED <<q_, taken, calls, dropped>>
      PROVE  OrderInv' /\ PlaceInv'
  BY <1>1 DEF OrderInv, PlaceInv
<1>2. ASSUME NEW p \in Producers, Push(p)
      PROVE  OrderInv' /\ PlaceInv'
  BY <1>2, PushKeeps
<1>3. CASE Take
  BY <1>3, TakeKeeps
<1>4. CASE Clear
  BY <1>4, ClearKeeps
<1>5. ASSUME NEW p \in Producers, AsyncCall(p) \/ Send(p)
      PROVE  OrderInv' /\ PlaceInv'
  BY <1>1, <1>5 DEF AsyncCall, Send
<1>6. CASE Wake \/ RunTask \/ Sleep \/ Close
  BY <1>1, <1>6 DEF Wake, RunTask, Sleep, Close
<1>7. ASSUME NEW c \in Capacities, SetCapacity(c)
      PROVE  OrderInv' /\ PlaceInv'
  BY <1>1, <1>7 DEF SetCapacity
<1>8. CASE UNCHANGED vars
  BY <1>1, <1>8 DEF vars
<1> QED
  BY <1>2, <1>3, <1>4, <1>5, <1>6, <1>7, <1>8 DEF Next, Producer, Loop

\* In every reachable state the tasks are in order and in one place each.
THEOREM TasksInvariant == Spec => [](TypeInv /\ OrderInv /\ PlaceInv)
  BY TypeInit, TypeNext, TasksInit, TasksNext, PTL DEF Spec

\* That order is InOrder.
LEMMA OrderMeaning == TypeInv /\ OrderInv => InOrder
<1> SUFFICES ASSUME TypeInv, OrderInv
             PROVE  InOrder
  OBVIOUS
<1> DEFINE all == taken \o q_
<1>1. q_ \in Seq(Task) /\ taken \in Seq(Task)
  BY DEF TypeInv, TypeOK
<1>2. /\ Len(taken) \in Nat /\ Len(q_) \in Nat
      /\ DOMAIN all = 1..(Len(taken) + Len(q_))
  BY <1>1
<1>3. \A i \in 1..Len(taken) : all[i] = taken[i] /\ taken[i] \in ToSet(taken)
  BY <1>1 DEF ToSet
<1>4. ASSUME NEW i \in DOMAIN all, i \notin 1..Len(taken)
      PROVE  /\ i - Len(taken) \in 1..Len(q_)
             /\ all[i] = q_[i - Len(taken)]
             /\ q_[i - Len(taken)] \in ToSet(q_)
  <2>1. i - Len(taken) \in 1..Len(q_) /\ i > Len(taken)
    BY <1>2, <1>4
  <2>2. all[i] = q_[i - Len(taken)]
    BY <1>1, <1>2, <1>4, <2>1
  <2>3. q_[i - Len(taken)] \in ToSet(q_)
    BY <1>1, <2>1 DEF ToSet
  <2> QED
    BY <2>1, <2>2, <2>3
<1>5. ASSUME NEW i \in DOMAIN all, NEW j \in DOMAIN all, i < j
      PROVE  Earlier(all[i], all[j])
  <2> HIDE DEF all
  <2>1. CASE j \in 1..Len(taken)
    <3>1. i \in 1..Len(taken)
      BY <1>2, <1>5, <2>1
    <3> QED
      BY <1>3, <1>5, <2>1, <3>1 DEF OrderInv, Ordered
  <2>2. CASE i \in 1..Len(taken) /\ j \notin 1..Len(taken)
    BY <1>3, <1>4, <2>2 DEF OrderInv, Before
  <2>3. CASE i \notin 1..Len(taken) /\ j \notin 1..Len(taken)
    <3>1. i - Len(taken) < j - Len(taken)
      BY <1>2, <1>5
    <3> QED
      BY <1>4, <2>3, <3>1 DEF OrderInv, Ordered
  <2> QED
    BY <1>2, <1>5, <2>1, <2>2, <2>3
<1> HIDE DEF all
<1>6. \A i, j \in DOMAIN all :
        i < j /\ all[i].from = all[j].from => all[i].n < all[j].n
  BY <1>5 DEF Earlier
<1> QED
  BY <1>6 DEF InOrder, all

\* Those places are Accounted.
LEMMA PlaceMeaning == PlaceInv => Accounted
<1> SUFFICES ASSUME PlaceInv, NEW p \in Producers, NEW n \in 1..MaxCalls
             PROVE  LET task == [from |-> p, n |-> n]
                        waiting == task \in ToSet(q_)
                        handled == task \in ToSet(taken)
                        given_up == task \in dropped
                    IN  /\ n <= calls[p] <=> waiting \/ handled \/ given_up
                        /\ ~(waiting /\ handled) /\ ~(waiting /\ given_up)
                        /\ ~(handled /\ given_up)
  BY DEF Accounted
<1> DEFINE task == [from |-> p, n |-> n]
<1>1. task \in Task /\ task.from = p /\ task.n = n
  BY DEF Task
<1> HIDE DEF task
<1>2. /\ n <= calls[p] <=> task \in ToSet(taken) \cup ToSet(q_) \cup dropped
      /\ task \notin ToSet(taken) \cap ToSet(q_)
      /\ task \notin dropped \cap (ToSet(taken) \cup ToSet(q_))
  BY <1>1 DEF PlaceInv
<1> QED
  BY <1>2 DEF task

\* However the loop's lock is let go of between tasks and producers, evictions
\* and clears come in between, a producer's tasks run in the order it posted
\* them.
THEOREM TasksInOrder == Spec => []InOrder
  BY TasksInvariant, OrderMeaning, PTL

\* No task is lost or run twice, and none that was evicted or cleared is run.
THEOREM TasksAccounted == Spec => []Accounted
  BY TasksInvariant, PlaceMeaning, PTL
=============================================================================
