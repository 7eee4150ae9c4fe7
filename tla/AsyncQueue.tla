----------------------------- MODULE AsyncQueue -----------------------------
(***************************************************************************)
(* async_queue, the bridge from the threads of the recording engines to    *)
(* the JavaScript thread.  Producers push a task under the lock and then,  *)
(* outside it, signal the event loop through libuv; the loop drains the    *)
(* queue and lets go of the lock while each task runs.                     *)
(***************************************************************************)
EXTENDS Naturals, Sequences, SequencesExt

CONSTANTS
  Producers,     \* the threads that call async_call
  MaxCalls,      \* bound: tasks each producer posts
  Capacities     \* the arguments of set_capacity; 0 stands for no limit

ASSUME QueueAssumption ==
  /\ MaxCalls \in Nat
  /\ Capacities \subseteq Nat

VARIABLES
  q_,            \* the queue
  capacity_,
  closed_,
  pending,       \* the flag libuv keeps for the handle h_: a signal is due
  pc,            \* where each producer is in async_call
  calls,         \* how many tasks each producer has pushed
  loop,          \* where the event loop is in on_event
  taken,         \* history: every task taken, in order
  dropped        \* history: the tasks evicted or cleared

vars ==
  <<q_, capacity_, closed_, pending, pc, calls, loop, taken, dropped>>

\* The n-th task of a producer.
Task == [from : Producers, n : 1..MaxCalls]

TypeOK ==
  /\ q_ \in Seq(Task)
  /\ capacity_ \in Capacities \cup {0}
  /\ closed_ \in BOOLEAN
  /\ pending \in BOOLEAN
  /\ pc \in [Producers -> {"idle", "push", "send"}]
  /\ calls \in [Producers -> 0..MaxCalls]
  /\ loop \in {"idle", "drain", "run"}
  /\ taken \in Seq(Task)
  /\ dropped \subseteq Task

Init ==
  /\ q_ = <<>>
  /\ capacity_ = 0
  /\ closed_ = FALSE
  /\ pending = FALSE
  /\ pc = [p \in Producers |-> "idle"]
  /\ calls = [p \in Producers |-> 0]
  /\ loop = "idle"
  /\ taken = <<>>
  /\ dropped = {}

-----------------------------------------------------------------------------
(* async_call, on the thread of producer p                                 *)

\* The test of closed_; a closed queue answers -1 and nothing happens.
AsyncCall(p) ==
  /\ pc[p] = "idle"
  /\ calls[p] < MaxCalls
  /\ ~closed_
  /\ pc' = [pc EXCEPT ![p] = "push"]
  /\ UNCHANGED <<q_, capacity_, closed_, pending, calls, loop, taken, dropped>>

\* Variant: room is made one task too late.
OverfullLate == capacity_ > 0 /\ Len(q_) > capacity_ + 1

\* The queue is over its capacity, so the next push discards the oldest task.
Overfull == capacity_ > 0 /\ Len(q_) > capacity_

\* Variant: the newest task is put at the front.
PushFront(p) ==
  /\ pc[p] = "push"
  /\ pc' = [pc EXCEPT ![p] = "send"]
  /\ calls' = [calls EXCEPT ![p] = @ + 1]
  /\ q_' = <<[from |-> p, n |-> calls[p] + 1]>> \o q_
  /\ UNCHANGED <<capacity_, closed_, pending, loop, taken, dropped>>

\* Variant: the producer pushes again instead of going on to the signal.
PushAgain(p) ==
  /\ pc[p] = "push"
  /\ calls' = [calls EXCEPT ![p] = @ + 1]
  /\ q_' = Append(q_, [from |-> p, n |-> calls[p] + 1])
  /\ UNCHANGED <<capacity_, closed_, pending, pc, loop, taken, dropped>>

\* Under the lock: make room, then push.
Push(p) ==
  LET task == [from |-> p, n |-> calls[p] + 1] IN
  /\ pc[p] = "push"
  /\ pc' = [pc EXCEPT ![p] = "send"]
  /\ calls' = [calls EXCEPT ![p] = @ + 1]
  /\ \/ /\ Overfull
        /\ q_' = Append(Tail(q_), task)
        /\ dropped' = dropped \cup {Head(q_)}
     \/ /\ ~Overfull
        /\ q_' = Append(q_, task)
        /\ UNCHANGED dropped
  /\ UNCHANGED <<capacity_, closed_, pending, loop, taken>>

\* uv_async_send: signals that are not served yet are merged into one.
Send(p) ==
  /\ pc[p] = "send"
  /\ pc' = [pc EXCEPT ![p] = "idle"]
  /\ pending' = TRUE
  /\ UNCHANGED <<q_, capacity_, closed_, calls, loop, taken, dropped>>

-----------------------------------------------------------------------------
(* The event loop                                                          *)

\* libuv takes the signal down and then calls async_callback.
Wake ==
  /\ loop = "idle"
  /\ pending
  /\ pending' = FALSE
  /\ loop' = "drain"
  /\ UNCHANGED <<q_, capacity_, closed_, pc, calls, taken, dropped>>

\* Variant: front() without pop().
TakeAndKeep ==
  /\ loop = "drain"
  /\ q_ # <<>>
  /\ taken' = Append(taken, Head(q_))
  /\ loop' = "run"
  /\ UNCHANGED <<q_, capacity_, closed_, pending, pc, calls, dropped>>

\* Under the lock: take the oldest task.
Take ==
  /\ loop = "drain"
  /\ q_ # <<>>
  /\ taken' = Append(taken, Head(q_))
  /\ q_' = Tail(q_)
  /\ loop' = "run"
  /\ UNCHANGED <<capacity_, closed_, pending, pc, calls, dropped>>

\* Variant: one task per signal, an if in the place of the while.
RunTaskOnce ==
  /\ loop = "run"
  /\ loop' = "idle"
  /\ UNCHANGED <<q_, capacity_, closed_, pending, pc, calls, taken, dropped>>

\* Outside the lock: the task runs to its end.
RunTask ==
  /\ loop = "run"
  /\ loop' = "drain"
  /\ UNCHANGED <<q_, capacity_, closed_, pending, pc, calls, taken, dropped>>

\* Under the lock: the queue is empty and on_event returns.
Sleep ==
  /\ loop = "drain"
  /\ q_ = <<>>
  /\ loop' = "idle"
  /\ UNCHANGED <<q_, capacity_, closed_, pending, pc, calls, taken, dropped>>

-----------------------------------------------------------------------------
(* The other operations, which any thread may call                         *)

Close ==
  /\ ~closed_
  /\ closed_' = TRUE
  /\ UNCHANGED <<q_, capacity_, pending, pc, calls, loop, taken, dropped>>

Clear ==
  /\ q_ # <<>>
  /\ dropped' = dropped \cup ToSet(q_)
  /\ q_' = <<>>
  /\ UNCHANGED <<capacity_, closed_, pending, pc, calls, loop, taken>>

SetCapacity(c) ==
  /\ c # capacity_
  /\ capacity_' = c
  /\ UNCHANGED <<q_, closed_, pending, pc, calls, loop, taken, dropped>>

-----------------------------------------------------------------------------

Producer(p) == AsyncCall(p) \/ Push(p) \/ Send(p)

Loop == Wake \/ Take \/ RunTask \/ Sleep

Next ==
  \/ \E p \in Producers : Producer(p)
  \/ Loop
  \/ Close
  \/ Clear
  \/ \E c \in Capacities : SetCapacity(c)

Spec == Init /\ [][Next]_vars

\* The loop keeps turning, and a producer that is inside async_call gets out.
Fairness ==
  /\ WF_vars(Loop)
  /\ \A p \in Producers : WF_vars(Push(p) \/ Send(p))

FairSpec == Spec /\ Fairness

-----------------------------------------------------------------------------
(* Safety                                                                  *)

\* No lost wake-up: if tasks wait, the loop is draining, or a signal is due,
\* or a producer that pushed has yet to send one.
NoLostWakeup ==
  q_ # <<>> =>
    \/ loop # "idle"
    \/ pending
    \/ \E p \in Producers : pc[p] = "send"

\* Every task that was pushed is accounted for: it waits, or it was taken, or
\* it was given up by an eviction or a clear; never two of these.
Accounted ==
  \A p \in Producers, n \in 1..MaxCalls :
    LET task == [from |-> p, n |-> n]
        waiting == task \in ToSet(q_)
        handled == task \in ToSet(taken)
        given_up == task \in dropped
    IN  /\ n <= calls[p] <=> waiting \/ handled \/ given_up
        /\ ~(waiting /\ handled) /\ ~(waiting /\ given_up)
        /\ ~(handled /\ given_up)

\* The tasks of one producer are taken in the order it posted them, and what
\* waits comes after what was taken.
InOrder ==
  LET all == taken \o q_ IN
  \A i, j \in DOMAIN all :
    i < j /\ all[i].from = all[j].from => all[i].n < all[j].n

\* A push leaves at most one task more than the capacity in the queue, or
\* does not make it longer.
GrowthBounded ==
  [][Len(q_') > Len(q_) => capacity_ = 0 \/ Len(q_') <= capacity_ + 1]_vars

-----------------------------------------------------------------------------
(* Refinement and liveness                                                 *)

Channel == INSTANCE EventChannel WITH Tasks <- Task, channel <- q_

\* The queue is the channel it promises to be, and every task that waits is
\* taken in its turn unless it is given up.
ChannelSpec == Channel!Spec

\* A closed queue runs dry for good: the calls that passed the test of closed_
\* before may still push, and what they pushed is still taken.
DrainsAfterClose == closed_ ~> [](q_ = <<>>)
=============================================================================
