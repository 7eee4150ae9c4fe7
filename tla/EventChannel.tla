---------------------------- MODULE EventChannel ----------------------------
(***************************************************************************)
(* What node_async_call promises the threads that post to it: a first-in,  *)
(* first-out channel to the JavaScript thread.  How the thread is woken,   *)
(* and which lock protects the queue, are not visible here.  An accepted   *)
(* task may be discarded from the old end to make room, and the channel    *)
(* may be cleared; every other task is taken in its turn, eventually.      *)
(***************************************************************************)
EXTENDS Naturals, Sequences

CONSTANT Tasks         \* the tasks that may be posted

VARIABLES
  channel,             \* the tasks waiting, oldest first
  taken                \* the tasks taken so far, in the order of taking

vars == <<channel, taken>>

TypeOK ==
  /\ channel \in Seq(Tasks)
  /\ taken \in Seq(Tasks)

Init ==
  /\ channel = <<>>
  /\ taken = <<>>

Post(t) ==
  /\ channel' = Append(channel, t)
  /\ UNCHANGED taken

PostInsteadOfOldest(t) ==
  /\ channel # <<>>
  /\ channel' = Append(Tail(channel), t)
  /\ UNCHANGED taken

Take ==
  /\ channel # <<>>
  /\ taken' = Append(taken, Head(channel))
  /\ channel' = Tail(channel)

Clear ==
  /\ channel' = <<>>
  /\ UNCHANGED taken

Next ==
  \/ \E t \in Tasks : Post(t) \/ PostInsteadOfOldest(t)
  \/ Take
  \/ Clear

Spec == Init /\ [][Next]_vars /\ WF_vars(Take)
=============================================================================
