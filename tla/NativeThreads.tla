--------------------------- MODULE NativeThreads ---------------------------
(***************************************************************************)
(* One recorder of RecordingServer, at the grain of the accesses that its  *)
(* two threads make to the members of AgoraSdk.  No member has a lock:     *)
(* m_layout is assigned on the JavaScript thread while the engine's thread *)
(* may be reading it, and m_engine is cleared by release while a callback  *)
(* may be about to use it.                                                 *)
(*                                                                         *)
(* Of m_layout two fields matter, which are read and written one at a time *)
(* in an order the compiler chooses: regionCount and the array regions, in *)
(* which a region is known by its uid.  An array that was replaced is      *)
(* never freed.  The engine is external; the queue and the immediates are  *)
(* one first-in, first-out channel, see AsyncQueue and EventBridge.        *)
(***************************************************************************)
EXTENDS Naturals, Sequences, SequencesExt, Filters

CONSTANTS
  Uids,          \* the users who may join the channel
  Stray,         \* what lies behind the end of an array of regions
  MaxReports     \* bound: callbacks the engine begins

ASSUME ThreadsAssumption ==
  /\ Stray \notin Uids
  /\ MaxReports \in Nat

VARIABLES
  proc,          \* the process: "up", or what brought it down
  pc,            \* what each thread is about to do
  todo,          \* the fields of m_layout a thread has still to copy
  copy,          \* what a thread has read of m_layout
  m_layout,      \* AgoraSdk::m_layout
  m_engine,      \* AgoraSdk::m_engine: "engine" or "null"
  m_peers,       \* AgoraSdk::m_peers
  regions,       \* recorder.layout.regions of the JavaScript side
  engine,        \* the engine: "in" the channel, "stopped" or "released"
  told,          \* the event the running callback is about
  mixed,         \* the regions the engine was last told to mix
  queue,         \* events on their way to the listeners
  reports        \* callbacks begun so far

vars == <<proc, pc, todo, copy, m_layout, m_engine, m_peers, regions, engine,
          told, mixed, queue, reports>>

Threads == {"js", "engine"}
Fields == {"count", "regions"}
Labels ==
  {"idle", "assign", "push", "test", "call", "read", "stop", "post",
   "leaving", "releasing"}
Event == [ev : {"userjoin", "userleave", "error", "leavechannel"},
          uid : Uids \cup {Stray}]
Layout == [count : Nat, regions : Seq(Uids)]

TypeOK ==
  /\ proc \in {"up", "bad call", "overread", "threw"}
  /\ pc \in [Threads -> Labels]
  /\ todo \in [Threads -> SUBSET Fields]
  /\ copy \in [Threads -> Layout]
  /\ m_layout \in Layout
  /\ m_engine \in {"engine", "null"}
  /\ m_peers \subseteq Uids
  /\ regions \in Seq(Uids)
  /\ engine \in {"in", "stopped", "released"}
  /\ told \in Event
  /\ mixed \in Seq(Uids \cup {Stray})
  /\ queue \in Seq(Event)
  /\ reports \in 0..MaxReports

NoLayout == [count |-> 0, regions |-> <<>>]

\* The recorder is registered and its engine is in an empty channel.
Init ==
  /\ proc = "up"
  /\ pc = [t \in Threads |-> "idle"]
  /\ todo = [t \in Threads |-> {}]
  /\ copy = [t \in Threads |-> NoLayout]
  /\ m_layout = NoLayout
  /\ m_engine = "engine"
  /\ m_peers = {}
  /\ regions = <<>>
  /\ engine = "in"
  /\ told = [ev |-> "leavechannel", uid |-> Stray]
  /\ mixed = <<>>
  /\ queue = <<>>
  /\ reports = 0

-----------------------------------------------------------------------------
(* Helpers                                                                 *)

At(t, label) == proc = "up" /\ pc[t] = label
Goto(t, label) == pc' = [pc EXCEPT ![t] = label]

\* Variant: a callback posts its event before it pushes the layout.
AfterPostFirst(t, done) ==
  CASE t = "js" -> IF done = "assign" THEN "push" ELSE "idle"
    [] t = "engine" /\ done = "peers" -> "post"
    [] t = "engine" /\ done = "post" -> "push"
    [] OTHER -> "idle"

\* The order of the statements in updateMixLayout on the JavaScript thread
\* and in the callbacks on the engine's.
After(t, done) ==
  IF t = "js" THEN (IF done = "assign" THEN "push" ELSE "idle")
  ELSE IF done = "peers" THEN "push"
  ELSE IF done = "post" THEN "idle" ELSE "post"

\* Variant: the count is that of the last index.
ConvertedLastIndex(list) ==
  [count |-> Len(list) - 1, regions |-> list]

\* The layout NodeRecordingSdk::setMixLayout builds for updateMixLayout.
Converted(list) == [count |-> Len(list), regions |-> list]

\* The regions an engine finds that believes a copy's count.
Seen(layout) ==
  [i \in 1..layout.count |->
     IF i <= Len(layout.regions) THEN layout.regions[i] ELSE Stray]

-----------------------------------------------------------------------------
(* setVideoMixLayout, which both threads call                              *)

\* An empty layout is not passed on.
TestCount(t) ==
  /\ At(t, "push")
  /\ Goto(t, IF m_layout.count = 0 THEN After(t, "push") ELSE "test")
  /\ UNCHANGED <<proc, todo, copy, m_layout, m_engine, m_peers, regions,
                 engine, told, mixed, queue, reports>>

TestEngine(t) ==
  /\ At(t, "test")
  /\ Goto(t, IF m_engine = "null" THEN After(t, "push") ELSE "call")
  /\ UNCHANGED <<proc, todo, copy, m_layout, m_engine, m_peers, regions,
                 engine, told, mixed, queue, reports>>

\* Calling a method through m_engine takes a pointer to an engine that is
\* still there.
Callable == m_engine # "null" /\ engine # "released"

\* m_engine->setVideoMixingLayout is given a reference to m_layout.
CallEngine(t) ==
  /\ At(t, "call")
  /\ \/ Callable /\ Goto(t, "read") /\ UNCHANGED proc
     \/ ~Callable /\ proc' = "bad call" /\ UNCHANGED pc
  /\ todo' = [todo EXCEPT ![t] = Fields]
  /\ UNCHANGED <<copy, m_layout, m_engine, m_peers, regions, engine, told,
                 mixed, queue, reports>>

ReadField(t, field) ==
  /\ At(t, "read")
  /\ field \in todo[t]
  /\ todo' = [todo EXCEPT ![t] = @ \ {field}]
  /\ copy' = [copy EXCEPT ![t][field] = m_layout[field]]
  /\ UNCHANGED <<proc, pc, m_layout, m_engine, m_peers, regions, engine, told,
                 mixed, queue, reports>>

\* The engine mixes what it has read.  Reading behind the end of the array
\* may end the process or give it a region nobody asked for.
Mix(t) ==
  /\ At(t, "read")
  /\ todo[t] = {}
  /\ \/ /\ mixed' = Seen(copy[t])
        /\ Goto(t, After(t, "push"))
        /\ UNCHANGED proc
     \/ /\ copy[t].count > Len(copy[t].regions)
        /\ proc' = "overread"
        /\ UNCHANGED <<mixed, pc>>
  /\ UNCHANGED <<todo, copy, m_layout, m_engine, m_peers, regions, engine,
                 told, queue, reports>>

SetVideoMixLayout(t) ==
  \/ TestCount(t)
  \/ TestEngine(t)
  \/ CallEngine(t)
  \/ \E field \in Fields : ReadField(t, field)
  \/ Mix(t)

-----------------------------------------------------------------------------
(* The JavaScript thread                                                   *)

\* The listeners of "userjoin" and "userleave": the recorder's layout is
\* changed and setMixLayout called, unless the recorder is gone.
RunUserEvent ==
  /\ At("js", "idle")
  /\ queue # <<>>
  /\ queue' = Tail(queue)
  /\ LET uid == Head(queue).uid IN
     \/ /\ m_engine # "null"
        /\ \/ /\ Head(queue).ev = "userjoin"
              /\ regions' = Append(regions, uid)
           \/ /\ Head(queue).ev = "userleave"
              /\ regions' = Filtered(regions, Uids \ {uid})
        /\ Goto("js", "assign")
        /\ todo' = [todo EXCEPT !["js"] = Fields]
     \/ /\ m_engine = "null"
        /\ Head(queue).ev \in {"userjoin", "userleave"}
        /\ UNCHANGED <<regions, pc, todo>>
  /\ UNCHANGED <<proc, copy, m_layout, m_engine, m_peers, engine, told, mixed,
                 reports>>

\* "leavechannel" has no callback.
RunLeaveChannel ==
  /\ At("js", "idle")
  /\ queue # <<>>
  /\ Head(queue).ev = "leavechannel"
  /\ queue' = Tail(queue)
  /\ UNCHANGED <<proc, pc, todo, copy, m_layout, m_engine, m_peers, regions,
                 engine, told, mixed, reports>>

\* updateMixLayout: m_layout = layout, a field at a time.
AssignField(field) ==
  /\ At("js", "assign")
  /\ field \in todo["js"]
  /\ m_layout' = [m_layout EXCEPT ![field] = Converted(regions)[field]]
  /\ todo' = [todo EXCEPT !["js"] = @ \ {field}]
  /\ IF todo["js"] = {field} THEN Goto("js", After("js", "assign"))
                             ELSE UNCHANGED pc
  /\ UNCHANGED <<proc, copy, m_engine, m_peers, regions, engine, told, mixed,
                 queue, reports>>

\* A stop request for the recorder: RecordManager.onCleanup begins with the
\* engine's leaveChannel.
Stop ==
  /\ At("js", "idle")
  /\ m_engine # "null"
  /\ Goto("js", "leaving")
  /\ UNCHANGED <<proc, todo, copy, m_layout, m_engine, m_peers, regions,
                 engine, told, mixed, queue, reports>>

\* The listener of "error" cleans up, or throws when there is no recorder.
RunError ==
  /\ At("js", "idle")
  /\ queue # <<>>
  /\ Head(queue).ev = "error"
  /\ queue' = Tail(queue)
  /\ \/ m_engine # "null" /\ Goto("js", "leaving") /\ UNCHANGED proc
     \/ m_engine = "null" /\ proc' = "threw" /\ UNCHANGED pc
  /\ UNCHANGED <<todo, copy, m_layout, m_engine, m_peers, regions, engine,
                 told, mixed, reports>>

\* Variant: AgoraSdk::release clears m_engine first.
BeginReleaseCleared ==
  /\ At("js", "leaving")
  /\ Goto("js", "releasing")
  /\ m_engine' = "null"
  /\ UNCHANGED <<proc, todo, copy, m_layout, m_peers, regions, engine, told,
                 mixed, queue, reports>>

\* AgoraSdk::release calls the engine's release.
BeginRelease ==
  /\ At("js", "leaving")
  /\ Goto("js", "releasing")
  /\ UNCHANGED <<proc, todo, copy, m_layout, m_engine, m_peers, regions,
                 engine, told, mixed, queue, reports>>

\* The engine's release returns and m_engine is cleared.  Whether it waits for
\* a callback that is running is not in the source: here it need not.
ReleaseReturns ==
  /\ At("js", "releasing")
  /\ engine' = "released"
  /\ m_engine' = "null"
  /\ Goto("js", "idle")
  /\ UNCHANGED <<proc, todo, copy, m_layout, m_peers, regions, told, mixed,
                 queue, reports>>

-----------------------------------------------------------------------------
(* The engine's thread                                                     *)

\* A callback about uid begins, and goes on with what label says.
Begin(ev, uid, label) ==
  /\ At("engine", "idle")
  /\ engine = "in"
  /\ reports < MaxReports
  /\ reports' = reports + 1
  /\ told' = [ev |-> ev, uid |-> uid]
  /\ Goto("engine", label)

OnUserJoined(u) ==
  /\ u \notin m_peers
  /\ Begin("userjoin", u, After("engine", "peers"))
  /\ m_peers' = m_peers \cup {u}
  /\ UNCHANGED <<proc, todo, copy, m_layout, m_engine, regions, engine, mixed,
                 queue>>

OnUserOffline(u) ==
  /\ u \in m_peers
  /\ Begin("userleave", u, After("engine", "peers"))
  /\ m_peers' = m_peers \ {u}
  /\ UNCHANGED <<proc, todo, copy, m_layout, m_engine, regions, engine, mixed,
                 queue>>

OnError ==
  /\ Begin("error", Stray, "stop")
  /\ UNCHANGED <<proc, todo, copy, m_layout, m_engine, m_peers, regions,
                 engine, mixed, queue>>

\* The engine leaves an idle channel, or because it was told to.
OnLeaveChannel ==
  /\ m_peers = {} \/ pc["js"] \in {"leaving", "releasing"}
  /\ Begin("leavechannel", Stray, "post")
  /\ engine' = "stopped"
  /\ UNCHANGED <<proc, todo, copy, m_layout, m_engine, m_peers, regions,
                 mixed, queue>>

\* onErrorImpl: m_engine->stoppedOnError(), without a test of m_engine.
StoppedOnError ==
  /\ At("engine", "stop")
  /\ \/ /\ Callable
        /\ engine' = "stopped"
        /\ Goto("engine", After("engine", "stop"))
        /\ UNCHANGED proc
     \/ /\ ~Callable
        /\ proc' = "bad call"
        /\ UNCHANGED <<engine, pc>>
  /\ UNCHANGED <<todo, copy, m_layout, m_engine, m_peers, regions, told,
                 mixed, queue, reports>>

\* Variant: a callback waits for the JavaScript thread to take its event.
PostAndWait ==
  /\ At("engine", "post")
  /\ pc["js"] = "idle"
  /\ queue' = Append(queue, told)
  /\ Goto("engine", After("engine", "post"))
  /\ UNCHANGED <<proc, todo, copy, m_layout, m_engine, m_peers, regions,
                 engine, told, mixed, reports>>

\* node_async_call::async_call, which the JavaScript thread cannot hold up.
Post ==
  /\ At("engine", "post")
  /\ queue' = Append(queue, told)
  /\ Goto("engine", After("engine", "post"))
  /\ UNCHANGED <<proc, todo, copy, m_layout, m_engine, m_peers, regions,
                 engine, told, mixed, reports>>

-----------------------------------------------------------------------------

\* What the JavaScript thread goes on with whatever the engine's does.
JsThread ==
  \/ RunUserEvent
  \/ RunLeaveChannel
  \/ RunError
  \/ \E field \in Fields : AssignField(field)
  \/ SetVideoMixLayout("js")
  \/ BeginRelease

\* What the engine's thread does until a callback it began returns.
Callback == SetVideoMixLayout("engine") \/ StoppedOnError \/ Post

BeginCallback ==
  \/ \E u \in Uids : OnUserJoined(u) \/ OnUserOffline(u)
  \/ OnError
  \/ OnLeaveChannel

Next == JsThread \/ Stop \/ ReleaseReturns \/ Callback \/ BeginCallback

Spec == Init /\ [][Next]_vars

\* Both threads are scheduled; stops and callbacks need never begin.  A release
\* may wait for the callback that is running: it is sure to return only if
\* there are moments when none is.
FairSpec ==
  /\ Spec
  /\ WF_vars(JsThread)
  /\ WF_vars(Callback)
  /\ SF_vars(pc["engine"] = "idle" /\ ReleaseReturns)

-----------------------------------------------------------------------------
(* Properties                                                              *)

\* m_engine is tested in one statement and used in the next, and onErrorImpl
\* does not test it.  A call through a null pointer or into an engine that is
\* gone has one cause only: the engine's release returned while a callback was
\* running, and that callback makes the call.  The JavaScript thread makes
\* none, nor does a callback while release has not returned.
BadCallOvertaken ==
  proc = "bad call" =>
    /\ engine = "released"
    /\ pc["engine"] \in {"call", "stop"}
    /\ pc["js"] # "call"

\* Whatever pushes of torn or outdated layouts the threads overtook each other
\* with, when both have finished and no event is left the engine mixes the
\* recorder's layout, and that layout is of the users in the channel.  A
\* layout without regions is never pushed.
LayoutSettles ==
  /\ proc = "up"
  /\ \A t \in Threads : pc[t] = "idle"
  /\ queue = <<>>
  /\ m_engine # "null"
  => /\ ToSet(regions) = m_peers
     /\ regions # <<>> => mixed = regions

\* A release ends, even one that waits for the callback that is running: a
\* callback does not wait for the thread that releases, so the two never wait
\* for each other.
ReleaseEnds == pc["js"] = "leaving" ~> m_engine = "null" \/ proc # "up"
=============================================================================
