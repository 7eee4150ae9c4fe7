-------------------------- MODULE RecordingServer --------------------------
(***************************************************************************)
(* The recording server: the HTTP handlers of app.js, RecordManager,       *)
(* AgoraRecordSdk and the native AgoraSdk, composed with the recording     *)
(* engine (a library that is not in the repository) and with Node's event  *)
(* loop.                                                                   *)
(*                                                                         *)
(* Two kinds of threads act.  Each engine calls back on a thread of its    *)
(* own; a callback touches the native object and then queues a task, and   *)
(* nothing keeps the other thread out between the two.  The JavaScript     *)
(* thread runs the event loop: in its poll phase it serves requests and    *)
(* file-system callbacks and turns queued tasks into immediates; in its    *)
(* check phase it runs one batch of immediates, which is where events      *)
(* reach the listeners of RecordManager.                                   *)
(*                                                                         *)
(* A step of the JavaScript thread is atomic here, although an engine's    *)
(* thread may read m_layout and m_engine in the middle of it: what such a  *)
(* reader may get is kept in seen, and what a pointer that is cleared may  *)
(* do to it is EngineFault.  NativeThreads has the single accesses.        *)
(***************************************************************************)
EXTENDS Naturals, Sequences, SequencesExt, MixLayout

CONSTANTS
  Sids,          \* session ids: one per start request, as uuidv4 never repeats
  Uids,          \* the users who may join the recorded channels
  NoUid,         \* the uid of an event or a region that is not of a user
  Faults,        \* which failures of the environment may happen, see below
  MaxEvents,     \* bound: user, error and leave reports of all the engines
  NodeVersions   \* the versions of Node that may run the server, see below

FaultKinds ==
  {"fs",         \* fs.mkdir or fs.access reports an error
   "create",     \* createAgoraRecordingEngine or its joinChannel fails
   "error",      \* an engine reports an error
   "leave",      \* an engine leaves its channel by itself (idleLimitSec)
   "request"}    \* the channel or appid of a request is not a string

VersionKinds ==
  {"8",          \* before 11: promise reactions wait for the batch to be over
   "11"}         \* from 11 on: they run after every immediate

ASSUME ServerAssumption ==
  /\ NoUid \notin Uids
  /\ Faults \subseteq FaultKinds
  /\ MaxEvents \in Nat
  /\ NodeVersions \subseteq VersionKinds

VARIABLES
  proc,          \* the Node process: "up", "crashed" by an uncaught throw on
                 \* its JavaScript thread, or "faulted" on an engine's
  phase,         \* the phase of the event loop: "poll" or "check"
  node,          \* the version of Node, which stays what it was at the start
  start,         \* how far the start request of each session has come
  stopReplies,   \* the replies to the stop requests for each session so far
  recorders,     \* keys of RecordManager.recorders
  regions,       \* recorder.layout.regions, kept by the JavaScript listeners
  m_layout,      \* AgoraSdk::m_layout.regions
  m_peers,       \* AgoraSdk::m_peers: who the engine said is in the channel
  engine,        \* AgoraSdk::m_engine and the state of the engine behind it
  mixed,         \* the regions the engine was last told to mix
  pc,            \* what the running callback of an engine is about to do
  seen,          \* the layouts a callback may find in m_layout: those it has
                 \* had since the callback began to read it
  posting,       \* the event the running callback will post, if one runs
  queue,         \* tasks of node_async_call, oldest first
  immediates,    \* the events given to setImmediate, oldest first
  early,         \* users whose join was reported before the recorder was
                 \* registered; a history that no action reads
  raised         \* how many reports the engines have made (bounded)

vars == <<proc, phase, node, start, stopReplies, recorders, regions, m_layout,
          m_peers, engine, mixed, pc, seen, posting, queue, immediates,
          early, raised>>

layoutVars == <<regions, m_layout, mixed, seen>>

\* What only the engines' threads change.
engineVars == <<m_peers, pc, posting, early, raised>>

StartStates ==
  {"none",       \* no request yet
   "mkdir",      \* initStorage waits for fs.mkdir
   "access",     \* joinChannel waits for fs.access
   "writeFile",  \* joinChannel waits for fs.writeFile
   "joining",    \* the native join was called, both listeners are installed
   "resolved",   \* "joinchannel" came, the promise reaction has not run yet
   "answered",   \* registered in recorders and answered 200
   "failed"}     \* answered 500

EngineStates ==
  {"null",       \* m_engine is NULL: never created, or released
   "refused",    \* created, but its joinChannel did not return ERR_OK
   "joining",    \* asked to join
   "in",         \* in the channel
   "stopped",    \* reported an error; stoppedOnError was called
   "left"}       \* left the channel by itself

EventNames ==
  {"joinchannel", "leavechannel", "userjoin", "userleave", "error"}

\* Variants: a callback is missing for one event.
ForwardedNoError == {"joinchannel", "userjoin", "userleave"}
ForwardedNoJoin == {"joinchannel", "userleave", "error"}

\* The events AgoraRecordSdk registers a callback for: "leavechannel", which
\* AgoraSdk posts as well, is not among them.
Forwarded == {"joinchannel", "userjoin", "userleave", "error"}

Event == [ev : EventNames, sid : Sids, uid : Uids \cup {NoUid}]

\* A region that is no user's: what a reader gets that mixes the fields of two
\* layouts.
Stray == [uid |-> NoUid, at |-> Corner(0)]

TypeOK ==
  /\ proc \in {"up", "crashed", "faulted"}
  /\ phase \in {"poll", "check"}
  /\ node \in NodeVersions
  /\ start \in [Sids -> StartStates]
  /\ stopReplies \in [Sids -> SUBSET {"ok", "error"}]
  /\ recorders \subseteq Sids
  /\ regions \in [Sids -> SUBSET Regions(Uids)]
  /\ m_layout \in [Sids -> SUBSET Regions(Uids)]
  /\ m_peers \in [Sids -> SUBSET Uids]
  /\ engine \in [Sids -> EngineStates]
  /\ mixed \in [Sids -> SUBSET Regions(Uids \cup {NoUid})]
  /\ pc \in [Sids -> {"idle", "push", "stop", "post"}]
  /\ seen \in [Sids -> SUBSET SUBSET Regions(Uids)]
  /\ posting \in [Sids -> SUBSET Event]
  /\ queue \in Seq(Event)
  /\ immediates \in Seq(Event)
  /\ early \in [Sids -> SUBSET Uids]
  /\ raised \in 0..MaxEvents

Init ==
  /\ proc = "up"
  /\ phase = "poll"
  /\ node \in NodeVersions
  /\ start = [s \in Sids |-> "none"]
  /\ stopReplies = [s \in Sids |-> {}]
  /\ recorders = {}
  /\ regions = [s \in Sids |-> {}]
  /\ m_layout = [s \in Sids |-> {}]
  /\ m_peers = [s \in Sids |-> {}]
  /\ engine = [s \in Sids |-> "null"]
  /\ mixed = [s \in Sids |-> {}]
  /\ pc = [s \in Sids |-> "idle"]
  /\ seen = [s \in Sids |-> {}]
  /\ posting = [s \in Sids |-> {}]
  /\ queue = <<>>
  /\ immediates = <<>>
  /\ early = [s \in Sids |-> {}]
  /\ raised = 0

-----------------------------------------------------------------------------
(* Helpers                                                                 *)

Polling == proc = "up" /\ phase = "poll"

\* An exception nobody catches on the JavaScript thread ends the process.
UncaughtThrow == proc' = "crashed"

Advance(s, from, to) ==
  /\ start[s] = from
  /\ start' = [start EXCEPT ![s] = to]

\* AgoraSdk::setVideoMixLayout: what the engine mixes once it has been called
\* with the layout given; an empty layout is not passed on.
SetVideoMixLayout(s, layout) ==
  mixed' = [mixed EXCEPT
              ![s] = IF layout = {} \/ engine[s] = "null" THEN @ ELSE layout]

\* Variant: the layout is stored and left to the engine's thread to push.
SetMixLayoutUnsent(s, layout) ==
  /\ m_layout' = [m_layout EXCEPT ![s] = layout]
  /\ seen' = [seen EXCEPT ![s] = IF pc[s] = "push" THEN @ \cup {layout} ELSE @]
  /\ UNCHANGED mixed

\* NodeRecordingSdk.setMixLayout as RecordManager calls it, on the JavaScript
\* thread.  A callback that is reading m_layout may find it before or after.
SetMixLayout(s, layout) ==
  /\ m_layout' = [m_layout EXCEPT ![s] = layout]
  /\ seen' = [seen EXCEPT ![s] = IF pc[s] = "push" THEN @ \cup {layout} ELSE @]
  /\ SetVideoMixLayout(s, layout)

\* AgoraSdk::createChannel: no engine, one that refuses to join, or one that
\* goes on to join.
CreateChannel(s) ==
  \E outcome \in {"joining"} \cup
                (IF "create" \in Faults THEN {"null", "refused"} ELSE {}) :
    engine' = [engine EXCEPT ![s] = outcome]

\* AgoraSdk::leaveChannel and AgoraSdk::release: m_engine becomes NULL.
Release(s) == engine' = [engine EXCEPT ![s] = "null"]

\* Variants: onCleanup forgets the release, or forgets the delete.
OnCleanupNoRelease(s) ==
  /\ recorders' = recorders \ {s}
  /\ UNCHANGED engine

OnCleanupNoDelete(s) ==
  /\ Release(s)
  /\ UNCHANGED recorders

\* RecordManager.onCleanup of a registered recorder.
OnCleanup(s) ==
  /\ Release(s)
  /\ recorders' = recorders \ {s}

\* The events between an engine that reports them and the listeners.
InFlight ==
  ToSet(queue) \cup ToSet(immediates) \cup UNION {posting[s] : s \in Sids}

PendingReactions == {s \in Sids : start[s] = "resolved"}

-----------------------------------------------------------------------------
(* Requests and file-system callbacks: the poll phase                      *)

\* POST /recorder/v1/start with an appid and a channel: initStorage begins.
Start(s) ==
  /\ Polling
  /\ Advance(s, "none", "mkdir")
  /\ UNCHANGED <<proc, phase, node, stopReplies, recorders, layoutVars,
                 engineVars, engine, queue, immediates>>

\* The directory exists: build the sdk, set its empty layout, subscribe, and
\* let joinChannel ask for fs.access.
StorageReady(s) ==
  /\ Polling
  /\ Advance(s, "mkdir", "access")
  /\ regions' = [regions EXCEPT ![s] = {}]
  /\ SetMixLayout(s, {})
  /\ UNCHANGED <<proc, phase, node, stopReplies, recorders, engineVars,
                 engine, queue, immediates>>

\* initStorage and joinChannel throw the error of fs.mkdir and of fs.access
\* from the callback, where no promise catches it.
StorageFails(s) ==
  /\ Polling
  /\ "fs" \in Faults
  /\ start[s] \in {"mkdir", "access"}
  /\ UncaughtThrow
  /\ UNCHANGED <<phase, node, start, stopReplies, recorders, layoutVars,
                 engineVars, engine, queue, immediates>>

\* fs.access succeeded: cfg.json is being written.
FolderWritable(s) ==
  /\ Polling
  /\ Advance(s, "access", "writeFile")
  /\ UNCHANGED <<proc, phase, node, stopReplies, recorders, layoutVars,
                 engineVars, engine, queue, immediates>>

\* fs.writeFile called back, with an error or not, and the native joinChannel
\* is given a channel and an appid that are strings: it creates the engine and
\* joins, then the two listeners are installed.  What createChannel returned
\* is not looked at.
JoinNative(s) ==
  /\ Polling
  /\ Advance(s, "writeFile", "joining")
  /\ CreateChannel(s)
  /\ UNCHANGED <<proc, phase, node, stopReplies, recorders, layoutVars,
                 engineVars, queue, immediates>>

\* The channel or the appid is no string, which nobody has tested: the native
\* joinChannel makes a std::string of a null pointer, and what that throws
\* ends the process.
JoinThrows(s) ==
  /\ Polling
  /\ "request" \in Faults
  /\ start[s] = "writeFile"
  /\ UncaughtThrow
  /\ UNCHANGED <<phase, node, start, stopReplies, recorders, layoutVars,
                 engineVars, engine, queue, immediates>>

\* POST /recorder/v1/stop for a recorder that is registered.
Stop(s) ==
  /\ Polling
  /\ s \in recorders
  /\ OnCleanup(s)
  /\ stopReplies' = [stopReplies EXCEPT ![s] = @ \cup {"ok"}]
  /\ UNCHANGED <<proc, phase, node, start, layoutVars, engineVars, queue,
                 immediates>>

\* The same for one that is not: stop throws, express answers 500.
StopUnknown(s) ==
  /\ Polling
  /\ s \notin recorders
  /\ stopReplies' = [stopReplies EXCEPT ![s] = @ \cup {"error"}]
  /\ UNCHANGED <<proc, phase, node, start, recorders, layoutVars, engineVars,
                 engine, queue, immediates>>

-----------------------------------------------------------------------------
(* From the queue to the listeners                                         *)

\* async_queue::on_event runs the oldest task: if the event has a callback it
\* is handed to setImmediate, otherwise nobody hears of it.
RunTask ==
  /\ Polling
  /\ queue # <<>>
  /\ queue' = Tail(queue)
  /\ immediates' = IF Head(queue).ev \in Forwarded
                     THEN Append(immediates, Head(queue))
                     ELSE immediates
  /\ UNCHANGED <<proc, phase, node, start, stopReplies, recorders, layoutVars,
                 engineVars, engine>>

\* The loop goes from its poll phase to its check phase.
EnterCheck ==
  /\ Polling
  /\ immediates # <<>>
  /\ phase' = "check"
  /\ UNCHANGED <<proc, node, start, stopReplies, recorders, layoutVars,
                 engineVars, engine, queue, immediates>>

\* The batch is over and so are the promise reactions it caused.
LeaveCheck ==
  /\ proc = "up"
  /\ phase = "check"
  /\ immediates = <<>>
  /\ PendingReactions = {}
  /\ phase' = "poll"
  /\ UNCHANGED <<proc, node, start, stopReplies, recorders, layoutVars,
                 engineVars, engine, queue, immediates>>

\* Variant: the request is answered and the recorder not registered.
RegisterNothing(s) ==
  /\ proc = "up"
  /\ node = "11" \/ immediates = <<>>
  /\ Advance(s, "resolved", "answered")
  /\ UNCHANGED <<proc, phase, node, stopReplies, recorders, layoutVars,
                 engineVars, engine, queue, immediates>>

\* The reaction to a resolved join: register the recorder and answer 200.
RegisterRecorder(s) ==
  /\ proc = "up"
  /\ node = "11" \/ immediates = <<>>
  /\ Advance(s, "resolved", "answered")
  /\ recorders' = recorders \cup {s}
  /\ UNCHANGED <<proc, phase, node, stopReplies, layoutVars, engineVars,
                 engine, queue, immediates>>

\* The next immediate is an event named ev of session s about user u.
NextIs(ev, s, u) ==
  /\ proc = "up"
  /\ phase = "check"
  /\ node = "11" => PendingReactions = {}
  /\ immediates # <<>>
  /\ Head(immediates) = [ev |-> ev, sid |-> s, uid |-> u]

\* Variant: the once-listener is not installed.
EmitJoinChannelUnheard(s) ==
  /\ NextIs("joinchannel", s, NoUid)
  /\ immediates' = Tail(immediates)
  /\ UNCHANGED <<proc, phase, node, start, stopReplies, recorders, layoutVars,
                 engineVars, engine, queue>>

\* "joinchannel": the once-listener of joinChannel resolves its promise.
EmitJoinChannel(s) ==
  /\ NextIs("joinchannel", s, NoUid)
  /\ start' = [start EXCEPT ![s] = IF @ = "joining" THEN "resolved" ELSE @]
  /\ immediates' = Tail(immediates)
  /\ UNCHANGED <<proc, phase, node, stopReplies, recorders, layoutVars,
                 engineVars, engine, queue>>

\* "userjoin" and "userleave": the listeners of RecordManager change the
\* layout and push it to the native side, unless the recorder is not found.
EmitUserJoin(s, u) ==
  /\ NextIs("userjoin", s, u)
  /\ immediates' = Tail(immediates)
  /\ \/ /\ s \in recorders
        /\ regions' = [regions EXCEPT ![s] = WithUser(@, u)]
        /\ SetMixLayout(s, WithUser(regions[s], u))
     \/ /\ s \notin recorders
        /\ UNCHANGED layoutVars
  /\ UNCHANGED <<proc, phase, node, start, stopReplies, recorders, engineVars,
                 engine, queue>>

\* Variant: the listener does not return when the recorder is not found.
EmitUserLeaveUnchecked(s, u) ==
  /\ NextIs("userleave", s, u)
  /\ IF s \in recorders THEN UNCHANGED proc ELSE UncaughtThrow
  /\ immediates' = Tail(immediates)
  /\ UNCHANGED <<phase, node, start, stopReplies, recorders, layoutVars,
                 engineVars, engine, queue>>

EmitUserLeave(s, u) ==
  /\ NextIs("userleave", s, u)
  /\ immediates' = Tail(immediates)
  /\ \/ /\ s \in recorders
        /\ regions' = [regions EXCEPT ![s] = WithoutUser(@, u)]
        /\ SetMixLayout(s, WithoutUser(regions[s], u))
     \/ /\ s \notin recorders
        /\ UNCHANGED layoutVars
  /\ UNCHANGED <<proc, phase, node, start, stopReplies, recorders, engineVars,
                 engine, queue>>

\* Variant: an error of a recorder that is not found is only logged.
EmitErrorIgnored(s) ==
  /\ NextIs("error", s, NoUid)
  /\ immediates' = Tail(immediates)
  /\ \/ s \in recorders /\ OnCleanup(s)
     \/ s \notin recorders /\ UNCHANGED <<engine, recorders>>
  /\ start' = [start EXCEPT ![s] = IF @ = "joining" THEN "failed" ELSE @]
  /\ UNCHANGED <<proc, phase, node, stopReplies, layoutVars, engineVars,
                 queue>>

\* "error": RecordManager's listener, installed first, cleans the recorder up
\* or throws when it is not registered; then the once-listener rejects the
\* promise of joinChannel, which matters only if that is still unsettled.  A
\* throw is uncaught; the event stays at the head as the one that did it.
EmitError(s) ==
  /\ NextIs("error", s, NoUid)
  /\ \/ /\ s \in recorders
        /\ OnCleanup(s)
        /\ start' = [start EXCEPT ![s] = IF @ = "joining" THEN "failed" ELSE @]
        /\ immediates' = Tail(immediates)
        /\ UNCHANGED proc
     \/ /\ s \notin recorders
        /\ UncaughtThrow
        /\ UNCHANGED <<engine, recorders, start, immediates>>
  /\ UNCHANGED <<phase, node, stopReplies, layoutVars, engineVars, queue>>

-----------------------------------------------------------------------------
(* The callbacks an engine makes on its own thread, one at a time          *)

\* A callback begins that will post an event named ev about u, and goes on
\* with what label says.
Begin(s, ev, u, label) ==
  /\ proc = "up"
  /\ pc[s] = "idle"
  /\ pc' = [pc EXCEPT ![s] = label]
  /\ posting' = [posting EXCEPT ![s] = {[ev |-> ev, sid |-> s, uid |-> u]}]

Report ==
  /\ raised < MaxEvents
  /\ raised' = raised + 1

OnJoinChannelSuccess(s) ==
  /\ engine[s] = "joining"
  /\ Begin(s, "joinchannel", NoUid, "post")
  /\ engine' = [engine EXCEPT ![s] = "in"]
  /\ UNCHANGED <<proc, phase, node, start, stopReplies, recorders, layoutVars,
                 m_peers, queue, immediates, early, raised>>

\* m_layout is read from here on.
OnUserJoined(s, u) ==
  /\ engine[s] = "in"
  /\ u \notin m_peers[s]
  /\ Begin(s, "userjoin", u, "push")
  /\ Report
  /\ m_peers' = [m_peers EXCEPT ![s] = @ \cup {u}]
  /\ seen' = [seen EXCEPT ![s] = {m_layout[s]}]
  /\ early' = [early EXCEPT
                 ![s] = IF s \in recorders THEN @ \ {u} ELSE @ \cup {u}]
  /\ UNCHANGED <<proc, phase, node, start, stopReplies, recorders, regions,
                 m_layout, mixed, engine, queue, immediates>>

OnUserOffline(s, u) ==
  /\ engine[s] = "in"
  /\ u \in m_peers[s]
  /\ Begin(s, "userleave", u, "push")
  /\ Report
  /\ m_peers' = [m_peers EXCEPT ![s] = @ \ {u}]
  /\ seen' = [seen EXCEPT ![s] = {m_layout[s]}]
  /\ UNCHANGED <<proc, phase, node, start, stopReplies, recorders, regions,
                 m_layout, mixed, engine, queue, immediates, early>>

\* The engine is told to stop before the error is queued.
OnError(s) ==
  /\ "error" \in Faults
  /\ engine[s] \in {"joining", "in"}
  /\ Begin(s, "error", NoUid, "stop")
  /\ Report
  /\ engine' = [engine EXCEPT ![s] = "stopped"]
  /\ UNCHANGED <<proc, phase, node, start, stopReplies, recorders, layoutVars,
                 m_peers, queue, immediates, early>>

OnLeaveChannel(s) ==
  /\ "leave" \in Faults
  /\ engine[s] = "in"
  /\ Begin(s, "leavechannel", NoUid, "post")
  /\ Report
  /\ engine' = [engine EXCEPT ![s] = "left"]
  /\ UNCHANGED <<proc, phase, node, start, stopReplies, recorders, layoutVars,
                 m_peers, queue, immediates, early>>

\* More than one layout may be found: m_layout is assigned while it is read.
Torn(s) == \E a, b \in seen[s] : a # b

\* The engine's thread in setVideoMixLayout: it pushes one of the layouts that
\* m_layout has had meanwhile, or the fields of two of them.
PushLayout(s) ==
  /\ proc = "up"
  /\ pc[s] = "push"
  /\ \E layout \in seen[s] \cup (IF Torn(s) THEN {{Stray}} ELSE {}) :
       SetVideoMixLayout(s, layout)
  /\ pc' = [pc EXCEPT ![s] = "post"]
  /\ seen' = [seen EXCEPT ![s] = {}]
  /\ UNCHANGED <<proc, phase, node, start, stopReplies, recorders, regions,
                 m_layout, m_peers, engine, posting, queue, immediates, early,
                 raised>>

\* m_engine->stoppedOnError() in onErrorImpl.
StoppedOnError(s) ==
  /\ proc = "up"
  /\ pc[s] = "stop"
  /\ pc' = [pc EXCEPT ![s] = "post"]
  /\ UNCHANGED <<proc, phase, node, start, stopReplies, recorders, layoutVars,
                 m_peers, engine, posting, queue, immediates, early, raised>>

\* Variant: the latest task is run first.
AsyncCallLifo(e) == queue' = <<e>> \o queue

AsyncCall(e) == queue' = Append(queue, e)

\* The callback posts its event and returns.
Post(s) ==
  /\ proc = "up"
  /\ pc[s] = "post"
  /\ \E e \in posting[s] : AsyncCall(e)
  /\ posting' = [posting EXCEPT ![s] = {}]
  /\ pc' = [pc EXCEPT ![s] = "idle"]
  /\ UNCHANGED <<proc, phase, node, start, stopReplies, recorders, layoutVars,
                 m_peers, engine, immediates, early, raised>>

\* What the missing locks may do to a callback: m_engine was cleared after it
\* was tested, or is not tested at all, or the count of one layout is read
\* with the regions of a shorter one.
EngineFault(s) ==
  /\ proc = "up"
  /\ \/ pc[s] = "push" /\ Torn(s)
     \/ pc[s] = "push" /\ engine[s] = "null" /\ seen[s] # {{}}
     \/ pc[s] = "stop" /\ engine[s] = "null"
  /\ proc' = "faulted"
  /\ UNCHANGED <<phase, node, start, stopReplies, recorders, layoutVars,
                 engineVars, engine, queue, immediates>>

-----------------------------------------------------------------------------

Request(s) == Start(s) \/ Stop(s) \/ StopUnknown(s)

FsCallback(s) ==
  \/ StorageReady(s)
  \/ StorageFails(s)
  \/ FolderWritable(s)
  \/ JoinNative(s)
  \/ JoinThrows(s)

Emit ==
  \E s \in Sids :
    \/ EmitJoinChannel(s)
    \/ EmitError(s)
    \/ \E u \in Uids : EmitUserJoin(s, u) \/ EmitUserLeave(s, u)

\* What an engine's thread does until the callback it began returns.
Callback(s) == PushLayout(s) \/ StoppedOnError(s) \/ Post(s)

EngineThread(s) ==
  \/ Callback(s)
  \/ EngineFault(s)
  \/ OnJoinChannelSuccess(s)
  \/ OnError(s)
  \/ OnLeaveChannel(s)
  \/ \E u \in Uids : OnUserJoined(s, u) \/ OnUserOffline(s, u)

Next ==
  \/ \E s \in Sids :
       Request(s) \/ FsCallback(s) \/ RegisterRecorder(s) \/ EngineThread(s)
  \/ RunTask
  \/ EnterCheck
  \/ Emit
  \/ LeaveCheck

Spec == Init /\ [][Next]_vars

(***************************************************************************)
(* What is assumed to go on.  The loop keeps turning, every file-system    *)
(* operation calls back, an engine that accepted a join reports how it     *)
(* went, and a callback that began goes on; requests, users, errors and    *)
(* leaves need never happen.                                               *)
(***************************************************************************)
Fairness ==
  /\ \A s \in Sids :
       /\ WF_vars(FsCallback(s))
       /\ WF_vars(RegisterRecorder(s))
       /\ WF_vars(OnJoinChannelSuccess(s) \/ OnError(s))
       /\ WF_vars(Callback(s))
  /\ WF_vars(RunTask)
  /\ WF_vars(EnterCheck)
  /\ WF_vars(Emit)
  /\ WF_vars(LeaveCheck)

FairSpec == Spec /\ Fairness

-----------------------------------------------------------------------------
(* Safety                                                                  *)

EventInFlight(ev, s) == \E e \in InFlight : e.ev = ev /\ e.sid = s

\* An engine that is or was in a channel can still be reached by a stop
\* request: its recorder is registered, or is about to be because the news of
\* its join is under way.  RecordManager keeps no other reference to it.
NoOrphanEngine ==
  \A s \in Sids :
    engine[s] \in {"in", "left"} =>
      \/ s \in recorders
      \/ start[s] = "resolved"
      \/ start[s] = "joining" /\ EventInFlight("joinchannel", s)

\* The error of an engine that stopped on it is not lost between the engine
\* thread and RecordManager's listener: until the engine is released, the
\* event is about to be posted, in the queue or among the immediates.
StoppedEngineIsReported ==
  \A s \in Sids : engine[s] = "stopped" => EventInFlight("error", s)

\* After a stop that was answered with success nothing of the recorder is
\* left, and no late promise reaction or event and no other stop brings it
\* back.
StopIsFinal ==
  \A s \in Sids :
    "ok" \in stopReplies[s] => s \notin recorders /\ engine[s] = "null"

\* What the three properties above rest on.  Before the native join there is
\* no engine; only an answered session is registered; once it is registered no
\* more its engine is gone; and a stop that succeeded was of such a session.
Bookkeeping ==
  \A s \in Sids :
    /\ start[s] \in {"none", "mkdir", "access", "writeFile"} =>
         engine[s] = "null"
    /\ start[s] # "failed"
    /\ s \in recorders => start[s] = "answered"
    /\ start[s] = "answered" /\ s \notin recorders => engine[s] = "null"
    /\ "ok" \in stopReplies[s] => start[s] = "answered" /\ s \notin recorders

\* However joins, leaves and the registration of the recorder interleave, a
\* user never has two tiles in a layout: the listener pushes without looking.
OneRegionPerUser ==
  \A s \in Sids : \A r1, r2 \in regions[s] : r1.uid = r2.uid => r1 = r2

\* No event of the session is on its way.
Settled(s) == \A e \in InFlight : e.sid # s

\* A user whose join is announced after the recorder was registered, or at any
\* time from Node 11 on: nothing excuses a layout without them.
Awaited(s) ==
  {u \in m_peers[s] : node = "11" \/ u \notin early[s]}

\* Once no event of a registered recorder is under way, the layout that the
\* JavaScript side built shows nobody who is gone, and everybody who is there
\* but those whom the earlier order of promise reactions may lose: the users
\* whose join was reported before the recorder was registered.
EveryUserShown ==
  \A s \in recorders :
    Settled(s) => /\ Users(regions[s]) \subseteq m_peers[s]
                  /\ Awaited(s) \subseteq Users(regions[s])

\* Two threads call setVideoMixLayout without a lock, and the engine's may push
\* a torn or an outdated layout after the newest: such a layout does not stay.
\* Once no event of the recorder is under way and there is anything to show,
\* the engine mixes the layout the recorder holds.
EngineMixesLayout ==
  \A s \in recorders :
    Settled(s) /\ regions[s] # {} => mixed[s] = regions[s]

\* The session whose event is, or has just been, given to its listeners.
Throwing == Head(immediates).sid

\* An exception ends the process only for one of four reasons: the storage
\* failed, a request was malformed, an engine reported an error before its
\* recorder was registered, or one did whose recorder a client had stopped.
\* No user event, no second stop, no engine that leaves by itself and no
\* error that comes after another one brings the server down.
CrashExplained ==
  proc = "crashed" =>
    \/ /\ phase = "poll"
       /\ \E s \in Sids :
            \/ start[s] \in {"mkdir", "access"} /\ "fs" \in Faults
            \/ start[s] = "writeFile" /\ "request" \in Faults
    \/ /\ phase = "check"
       /\ immediates # <<>>
       /\ Head(immediates).ev = "error"
       /\ Throwing \notin recorders
       /\ start[Throwing] # "answered" \/ "ok" \in stopReplies[Throwing]

-----------------------------------------------------------------------------
(* The promise to the clients                                              *)

lifeOf ==
  [s \in Sids |->
     IF start[s] = "none" THEN "new"
     ELSE IF start[s] # "answered" THEN "starting"
     ELSE IF s \in recorders THEN "recording" ELSE "ended"]

Lifecycle ==
  INSTANCE RecordingLifecycle WITH life <- lifeOf, serving <- (proc = "up")

\* Every session goes from new over starting and recording to ended, one
\* step at a time, and none moves when the process is down.
LifecycleSpec == Lifecycle!Spec

-----------------------------------------------------------------------------
(* Liveness                                                                *)

\* While the server is up, a start request is answered: the answer waits for
\* two file-system callbacks, the engine thread, the queue, an immediate and a
\* reaction.
StartAnswered ==
  \A s \in Sids :
    start[s] = "mkdir" ~>
      start[s] \in {"answered", "failed"} \/ proc # "up"

\* While the server is up, a user who is in the channel gets a tile, unless
\* the user or the recorder goes first, or the earlier order of promise
\* reactions may lose them.
JoinedUserShown ==
  \A s \in Sids, u \in Uids :
    u \in Awaited(s) ~>
      \/ u \in Users(regions[s])
      \/ u \notin m_peers[s]
      \/ start[s] = "answered" /\ s \notin recorders
      \/ proc # "up"

\* While the server is up, an engine that stopped on an error is released.
ErrorReleasesEngine ==
  \A s \in Sids :
    engine[s] = "stopped" ~> engine[s] = "null" \/ proc # "up"

-----------------------------------------------------------------------------
(* What comments and the README say, and the code does not do              *)

\* An error of an engine fails the start request that waits for it or clears
\* the recorder; when there is neither, it does not end the server either.
EngineErrorHarmless == ~(proc = "crashed" /\ phase = "check")

\* A start that fails because of the file system is answered with that
\* failure.
StorageErrorAnswered == ~(proc = "crashed" /\ phase = "poll")

\* The images are laid out from top left to bottom right whenever a user
\* arrives or leaves: once no event is under way, the engine mixes the first
\* tiles of the canvas, as many as there are users (at most four).
LaidOutInOrder ==
  \A s \in recorders :
    Settled(s) /\ Cardinality(m_peers[s]) <= 4 =>
      {r.at : r \in mixed[s]} =
        {Corner(n) : n \in 0..Cardinality(m_peers[s]) - 1}

\* The images are laid out anew when a new user arrives, on every version of
\* Node the README allows: once no event is under way, every user in the
\* channel has a tile.
NewUserLaidOut ==
  \A s \in recorders : Settled(s) => m_peers[s] \subseteq Users(regions[s])
=============================================================================
