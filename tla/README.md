# Basic-Recording: a verification project

The repository holds a sample restful server that records Agora channels. A client
posts a start request, the server creates a recording engine for the channel,
answers with a session id, lays out the users it sees on a mixing canvas, and stops
the recording on request or when the engine reports an error. The code is small, but
it spans two languages, a thread per engine, a lock-protected queue, and the event
loop of Node.js. This directory models it in TLA+, checks the models with TLC, and
proves the most important results with TLAPS.

Paths below are relative to `src/On-Premise-Recording-Nodejs/`.

## The system

| Component | Source | State | Operations |
|---|---|---|---|
| HTTP API | `server/app.js` | none | start, stop, error middleware |
| RecordManager | `server/recordManager.js` | `recorders`, and per recorder its `layout` | `start`, `stop`, `onCleanup`, listeners for `error`, `userjoin`, `userleave` |
| AgoraRecordSdk | `record/AgoraRecordSdk.js` | listeners; the promise of `joinChannel` | `joinChannel`, `fire` through `setImmediate`, forwarding |
| NodeRecordingSdk | `agora_node_ext/agora_node_recording.cpp` | resolution table | addon methods: convert arguments, call AgoraSdk |
| Value conversions | `node_napi_api.cpp`, `node_napi_api.h`, `node_uid.h` | none | JavaScript value to native type and back |
| AgoraSdk | `agora_node_ext/AgoraSdk.cpp` | `m_engine`, `m_layout`, `m_peers`, `m_callbacks` | `createChannel`, `leaveChannel`, `release`, `updateMixLayout`, some 20 engine callbacks |
| Event queue | `agora_node_ext/node_async_queue.h` | `q_`, `capacity_`, `closed_`, the libuv handle | `async_call`, `on_event`, `close`, `clear`, `set_capacity` |
| Recording engine | not in the repository | | calls back on a thread of its own |
| opt_parser | `agora_node_ext/opt_parser.cpp` | table of options | `add_long_opt`, `clear`, `parse_opts`, `print_usage`; called by nobody, and not compiled (`binding.gyp:10-11` lack the commas) |

How they interact. A start request makes a directory, then `AgoraRecordSdk.joinChannel`
checks and writes files, creates the engine and installs two once-listeners. From then
on the engine's thread calls AgoraSdk, which posts a closure to the event queue and
signals the loop; the loop runs the closure, which calls a JavaScript callback, which
defers the event once more with `setImmediate`; in the check phase the event is emitted
to the listeners. `joinchannel` resolves the promise of `joinChannel`, and a promise
reaction then registers the recorder and answers the client. User events change the
layout and send it down to the engine. An error, like a stop request, removes the
recorder and releases its engine.

What is hard here: an event travels through two queues and may be overtaken by a
request; the recorder is registered one promise reaction later than the event that
completes the start; exceptions in callbacks end the process; the queue merges wake-up
signals; two threads touch the native object. `PROJECT.json` lists each hazard at its
line.

Properties that make each component right:

- RecordManager: an engine in a channel can always be reached for a stop; a stop is
  final; a session goes through its life once; an exception ends the process for four
  reasons and no other.
- The layout: one tile per user, tiles for the users present and nobody else, and the
  engine ends up mixing the layout the recorder holds.
- AgoraSdk: no error of an engine is lost; a stopped engine is released; only a callback
  that a release overtook calls an engine that is gone, and what torn and outdated pushes
  of the layout do is undone in the end.
- Addon methods and conversions: the right value arrives in the right place, and a wrong
  one spoils nothing else.
- opt_parser: a command line means one thing, also when it fails half way.
- Event queue: no lost wake-up, no lost or reordered task, bounded growth, and nothing
  left behind after a close.

## The modules

| Module | Models |
|---|---|
| `MixLayout` | the 320x240 tiles of a layout and the two operations of the listeners, as operators on sets of regions |
| `RecordingLifecycle` | abstract: the life of a session as a client sees it |
| `RecordingServer` | app.js, RecordManager, AgoraRecordSdk, the addon methods and AgoraSdk, with the engines and the event loop |
| `RecordingServerProofs`, `RecordingServerLayoutProofs` | the theorems about it: sessions, engines and the refinement; layouts, users and crashes |
| `EventChannel` | abstract: a first-in, first-out channel with eviction |
| `AsyncQueue` | `async_queue` at the grain of its lock and of `uv_async_send` |
| `AsyncQueueProofs` | the theorems about it |
| `EventBridge` | the addon's `onEvent` and `joinChannel`, all forwarding callbacks of AgoraSdk and the wrapper's `fire`, end to end for one engine |
| `EventBridgeProofs` | the theorems about it |
| `NativeThreads` | one registered recorder, both its threads, one access to a member of AgoraSdk at a time |
| `NativeThreadsProofs` | the theorems about it |
| `NativeCall` | the argument conversions of `setMixLayout` and `joinChannel` |
| `NativeCallProofs` | the theorems about it |
| `OptParser` | the option parser |
| `OptParserProofs` | the theorems about it |
| `Filters` | what a filter leaves of a sequence |
| `QueueLemmas` | facts about queues, filters, what a queue of events leads to, and least numbers, which the proof modules share |
| `MCRecordingServer`, `MCAsyncQueue`, `MCEventBridge`, `MCNativeThreads`, `MCNativeCall`, `MCOptParser` | the instances TLC checks |

### RecordingServer

`start[s]` follows the start request of session `s` through its callbacks: `none`,
`mkdir`, `access`, `writeFile`, `joining`, `resolved`, `answered`. `recorders` and
`regions` are RecordManager's; `m_layout`, `m_peers` and `engine` are AgoraSdk's
(`engine` joins `m_engine` with the state of the engine behind it); `mixed` is what the
engine was last told to mix; `queue` and `immediates` are the two stages of an event's
way; `proc` and `phase` are the process and the loop, and `node` is the version of Node.

Each engine has a thread, on which it makes one callback at a time. A callback is several
steps: it begins (the engine's state and `m_peers` change), it pushes `m_layout` or calls
`stoppedOnError`, and it posts its event. `pc[s]` says which of these is next and
`posting[s]` holds the event. The JavaScript thread may take any number of steps in
between, which no lock prevents (`AgoraSdk.cpp:190-216, 250-279`). Its own steps are
atomic, and what a reader on the other thread may find while they happen is kept
instead: `seen[s]` collects the layouts `m_layout` has had since the callback began to
read it. What the callback pushes is one of these, outdated or not, or, if there are
several, a mixture of two (`Stray`). `EngineFault` is what the same races may do to the
process: `m_engine` is cleared between its test and its use or before the untested use in
`onErrorImpl`, or the count of one layout is read with the regions of a shorter one.

| Action | Code |
|---|---|
| `Start`, `Stop`, `StopUnknown` | the two routes of app.js, with `RecordManager.stop` and the error middleware |
| `StorageReady`, `StorageFails`, `FolderWritable`, `JoinNative`, `JoinThrows` | the callbacks of `fs.mkdir`, `fs.access`, `fs.writeFile` and what follows them synchronously |
| `RunTask` | one task of `on_event`: the lookup in `m_callbacks` and the JavaScript callback |
| `EnterCheck`, `LeaveCheck` | the loop's change of phase |
| `RegisterRecorder` | the reactions to a resolved `joinChannel`, up to the answer |
| `EmitJoinChannel`, `EmitUserJoin`, `EmitUserLeave`, `EmitError` | one immediate: every listener of the event, in order of installation |
| `OnJoinChannelSuccess`, `OnUserJoined`, `OnUserOffline`, `OnError`, `OnLeaveChannel` | the `...Impl` methods of AgoraSdk begin, on the engine's thread |
| `PushLayout`, `StoppedOnError`, `Post`, `EngineFault` | what they go on with: `setVideoMixLayout`, `stoppedOnError`, `async_call`, and what the missing locks may do |

A throw that nobody catches on the JavaScript thread makes `proc` "crashed", a fault on an
engine's thread "faulted", and nothing moves afterwards. When an event's listener throws,
the event stays at the head of `immediates` to show which one it was.

Node.js changed the order of promise reactions: since version 11 they run after every
immediate, before that when the whole batch is over. The README of the sample asks for
8.9 or later, so both orders matter: `node` is chosen from `NodeVersions` at the start,
every passing run takes both versions, and no theorem assumes one. With the earlier one a
`userjoin` that shares a batch of immediates with the recorder's own `joinchannel` finds
no recorder and is dropped for good; the run `new_user_lost` shows it. `EveryUserShown`
and `JoinedUserShown` say how far this goes: before Node 11 they excuse the users whose
join was reported before the recorder was registered (`early`, a history that no action
reads) and nobody else, and from Node 11 on nobody at all.

The environment is given by `Faults`: file-system errors (`fs`), an engine that is not
created or refuses to join (`create`), errors an engine reports (`error`), an engine
that leaves an idle channel by itself (`leave`, for `idleLimitSec`), and a request whose
channel or appid is not a string (`request`): app.js only tests that there is something,
and the native `joinChannel` then makes a `std::string` of a null pointer. An engine
reports a user's join and leave alternately, reports nothing after an error or a leave,
and begins no callback once it has been released; this is read from the callbacks AgoraSdk
implements, since the engine itself is not available. A callback that is running when the
engine is released goes on. Events RecordManager does not listen to change nothing and
are not modelled, nor is the `leavechannel` that an engine may report while it is being
released.

Layouts are sets of regions. The array order is never read, but a set is less than an
array in one respect: two regions of one user on the same tile, all members equal, are one
element. Two on different tiles are two, and the listener puts a new region on another
tile unless the canvas is full or a leave has made a gap, so a second region of one user
does show up as a second element in other traces, and in the number of tiles.
`OneRegionPerUser` has been seen to fail when a leave is not acted upon.

### AsyncQueue

A producer's `async_call` is three steps: the test of `closed_`, the push under the
lock, the signal. The loop's `on_event` is a wake-up, then takes under the lock and runs
outside it, until it has seen the queue empty. `pending` is libuv's flag for the handle:
signals that are not served yet are merged. `taken` and `dropped` record history.
`close`, `clear` and `set_capacity` exist in the class but are not called in this
repository; they are modelled as steps anybody may take at any time. `async_call` reads
`capacity_` twice in one test; as nobody changes it, one read stands for both.

### EventBridge

`RecordingServer` distinguishes the events RecordManager listens to and takes their way
for granted. `EventBridge` looks at that way for every event name: `m_callbacks` says
whose function a name calls, `memory` stands for what the engine's pointers and
references point to, and `heard`, `called` and `reported` are histories.

| Action | Code |
|---|---|
| `SetMixLayout`, `OnEvent`, `JoinUnlisted`, `JoinListed`, `Release` | methods of NodeRecordingSdk a script may call, with `addEventHandler`, `emitError` and `createChannel` |
| `RunTask` | the `MAKE_JS_CALL_*` macros: the lookup when the task runs |
| `Emit` | the immediate of `fire` |
| `OnJoinChannelSuccess`, `OnError`, `OnLeaveChannel`, `OnReport`, `OnAudioVolumeIndication` | the engine's callbacks; `OnReport` is every one that only forwards |
| `ReuseMemory` | the engine changes what its pointers point to |

One join is modelled, listeners stay installed, and the two phases of the loop are
merged into "tasks and immediates in any interleaving", which allows more than the loop
does. `onUserInfoUpdated` copies a struct of the engine's; that the account name is
stored inside that struct is assumed, the header being outside the repository.

### NativeThreads

`RecordingServer` takes callbacks apart only at their push and their post, and runs each
call of the addon in one step. Here both are taken apart at every access to what the
threads share without a lock, for a recorder that is registered and whose engine has
just joined. `pc` says where a thread is, `todo` and `copy` how much of `m_layout` it
has copied.

| Action | Code |
|---|---|
| `RunUserEvent`, `RunError`, `RunLeaveChannel` | the JavaScript thread takes the next event and runs its listener |
| `AssignField` | `m_layout = layout` in `updateMixLayout`, one field at a time |
| `TestCount`, `TestEngine`, `CallEngine`, `ReadField`, `Mix` | `setVideoMixLayout` on either thread: its two tests, the call through `m_engine`, and the engine's reading of the layout behind the reference it is given |
| `Stop`, `BeginRelease`, `ReleaseReturns` | `onCleanup`: `leaveChannel`, then `release` of the engine, then `m_engine = NULL`; callbacks may begin and run in between |
| `OnUserJoined`, `OnUserOffline`, `OnError`, `OnLeaveChannel`, `StoppedOnError`, `Post` | the callbacks of the engine's thread |

The two fields of the layout are copied in any order and with any step of the other thread
in between: that is what unsynchronised access may give. A copy that pairs a count with
a shorter array is read behind its end, which gives `Stray` regions or brings the
process down ("overread"); TLC finds both outcomes reachable, so no property says they
are not. An array that `setMixLayout` has replaced stays readable: the code never frees
it. The values of a pair of words are assumed not to tear any further.

What the engine's `release` promises is not in the repository, so nothing is assumed of
it: it may return in the middle of a callback, and the callback then goes on.
`BadCallOvertaken` says that this is the one way a call through a cleared `m_engine` or
into a released engine comes about, at two places in the code; that the JavaScript thread
makes no such call, and a callback none before `release` has returned. (If `release`
does wait for callbacks, as the code relies on, there is none.) A `release` that waits is
covered by the fairness: it is sure to return only if there are moments when no callback
is running, and `ReleaseEnds` says that it does.

### NativeCall

JavaScript values are numbers (whole or not), strings, or something else. The functions
of `node_napi_api` check what N-API checks and return a status; the callers only log
it, so a refused value leaves a local variable as it was: `Garbage`. `GetRegions` and
`Converted` are the loops and locals of the two methods. `layout` grows and shrinks by the
listeners of RecordManager, or is replaced by a script that calls the wrapper itself with
a layout of its own making. `proc` says in which method a null `std::string` or an empty
handle ended the process. x and y of a region stand for its other members, which are read
by the same function, and the fields of cfg.json are a constant: they do not pass through
the addon. Strings cannot be taken apart; that `napi_get_value_nodestring_` answers the
empty string like no string is modelled.

### OptParser

The file is a part of the C++ sample that this addon neither compiles nor calls: the
sources in `binding.gyp` name it without the commas that would separate the names. The
module models what the file does, and nothing of the server depends on it.

The three tables of `opt_parser` (`long_opts_`, `ex_long_opts_`, `sequence_`), the
variables the options fill (`store`), and the loop of `parse_opts` over `getopt_long_only`.

| Action | Code |
|---|---|
| `AddLongOpt`, `Clear`, `PrintUsage` | the methods of those names, with `insert_long_opt` and `save_to_exopts` |
| `Parse` | `parse_opts` up to its loop |
| `FillOption` | one option with its argument: `fill_arg` for every type of variable |
| `SkipWord`, `UnknownOption`, `MissingArgument` | what getopt makes of the other tokens |
| `EndOfLine` | the loop is over; words that are left over make the parse fail |

A command line is a sequence of tokens; getopt is external and known by its manual: it
moves words that are no options to the end. An option whose argument is required and one
whose argument is optional take the next token in the same cases (getopt does it for the
first, the loop for the second), so one rule stands for both. Options are keyed by the
pointer of their name. Two options of the same text are therefore both accepted, and
which of them getopt finds depends on a hash of pointers: `picked` is any choice.
Decimal numbers stand for numbers in any base. `Narrow` and `Wide` are the widths of the
native integers, which wrap, clamp and truncate as the C functions do.

Operators whose comment begins with "Variant" are faulty versions of the operator that
follows them: each property has been seen to fail when one of them takes the place of
the original, as listed under `mutants` in `PROJECT.json`.

## What TLC checks

Runs that pass:

| Run | Instance | Shows |
|---|---|---|
| `server_safety` | 2 sessions, 1 user, all failures, 3 reports, both versions of Node | `NoOrphanEngine`, `StoppedEngineIsReported`, `StopIsFinal`, their common invariant `Bookkeeping`, `CrashExplained`: an exception ends the process for one of four reasons only, and the refinement `LifecycleSpec` |
| `server_session` | 1 session, 2 users, `error` and `leave`, 4 reports, both versions of Node, fairness | `OneRegionPerUser`, `EveryUserShown`, `EngineMixesLayout`: torn and outdated pushes do not stay; `StartAnswered`, `JoinedUserShown`, `ErrorReleasesEngine` |
| `queue` | 2 producers with 2 tasks each, capacities 0 to 2, fairness | all properties of `AsyncQueue`, with the refinement of `EventChannel` |
| `event_bridge` | one engine, six event names, three reports beside join, error and leave, fairness | `StreamFaithful`, `NothingHeardTwice`, `JoinSettles`, `AllHeard` |
| `native_threads` | two users, four callbacks, a stop at any moment, fairness | `BadCallOvertaken`; `LayoutSettles`: the engine ends up with the recorder's layout although single pushes may be torn or outdated; `ReleaseEnds`: a release and a callback never wait for each other |
| `native_call` | integers of 12 bits, three users at their edges, layouts of up to three regions with one wrong value at a time | `UsersSurvive`, `GarbageContained`, `JoinFaithful`, `KeyOptional` |
| `opt_parser` | integers of 3 and 5 bits, four options of which two have one name, up to three registrations, lines of up to three tokens | `ParsedAsRead`, `NumbersExact`, `FailureIsClean`, `UsageCurrent` |

Each passing run also checks a type invariant of its module (`server_session` that of
`RecordingServer`).

Runs that find a disagreement between the code and what its comments or README say
(each is a finding in `PROJECT.json`):

| Run | The disagreement |
|---|---|
| `error_crash` | an engine error during a start, or one already queued when its recorder is stopped, ends the process: the listener that is to clear the recorder throws when there is none |
| `storage_error_crash` | errors of `fs.mkdir` and `fs.access` are thrown from callbacks and end the process |
| `new_user_lost` | before Node 11, which the README allows, a user whose join shares a batch of immediates with the recorder's own is never laid out |
| `relayout_after_leave` | after a leave the canvas is not laid out anew: an empty layout never reaches the engine, and the tiles of those who stay are neither moved nor counted when the next user is placed |
| `start_hangs` | if the engine is not created or refuses the join, the start request is never answered |

The sample README's two snippets for `userjoin` and `userleave` have their titles
swapped; nothing depends on it.

### Bounds

- `MaxEvents` bounds the reports of users, errors and leaves over all engines. Four
  reports let two users join, one leave and come back, or an error fall between any of
  these, with a push of the engine's thread at any moment of each; that there are never
  more than two users is made up for by the theorems, which are about any number. Three
  let one session see a user, an error and a leave in every order while the other sees an
  error or a leave.
- Two sessions are enough for one session's crash, stop or error to fall between any two
  steps of another; sessions share nothing but the process, the loop and the queues.
- Two producers with two tasks each give every merge of signals and every eviction: a
  capacity of 1 is exceeded by two tasks, and the third evicts.
- In `event_bridge` two of the merely forwarding callbacks stand for the rest, which
  differ in their arguments only, and two values of the engine's memory suffice to see
  one in the place of the other. Three reports and the events that end a join or a stay
  put up to six events on their way at once.
- In `native_threads` four callbacks are two joins and two leaves, or fewer with an error
  or an idle leave: enough for an old push to be overtaken by a new one of the other
  thread and for a release to fall into any access of a callback.
- In `native_call` 12 bits leave room for the canvas's 640 and put users below, at and
  above the edge of the signed type. Three regions are a wrong one before and after a
  user's.
- In `opt_parser` 3 and 5 bits give numbers inside both types, in the wide one only and in
  neither. Three tokens are an option, its argument and a word that may be another
  option's; a parse ends a behaviour, as nothing is parsed twice.
- Symmetry of sessions and users is used for safety runs only.

### Fairness

`Fairness` of `RecordingServer` says that the event loop keeps turning (`RunTask`,
`EnterCheck`, `Emit`, `LeaveCheck`, `RegisterRecorder`), that file-system operations
call back, that an engine that accepted a join reports success or an error, and that a
callback that has begun goes on (`Callback`). Nothing
is assumed of clients, users, leaves or further errors. In `AsyncQueue` the loop and a
producer inside `async_call` go on; nobody has to call it. In `EventBridge` the loop
runs its tasks and immediates, and an engine asked to join says how it went. In
`NativeThreads` both threads are scheduled: a JavaScript step that can be taken is taken,
and so is the next step of a callback that has begun; `ReleaseReturns` is sure to come
only if again and again no callback is running. Stops and new callbacks need not
come. `NativeCall` and `OptParser` state no liveness: their methods run to the end in
the thread that calls them.

## What is proved

TLAPS checks the modules whose names end in `Proofs` for all values of the constants,
from the assumptions named in the modules they are about and nothing else.

How induction over data is done. The library's induction theorems take an operator and
cannot be used here. `QueueLemmas` does without: `LeastNatural` says that a non-empty set
of numbers has a least one (the library's `NatLessThanWellFounded`), and `Upwards` that a
set with 0 that is closed under the step to the next number has all of an interval; both
speak of sets and so need no operator. `SelectSeq` and `SetToSortSeq` are recursive
operators, which no backend expands, so the models that are proved about filter with
`Filtered` (module `Filters`, a recursive function) and state what `print_usage` lists
by a numbering. `Leads(q, T, steps, a, b)` says that the events of `q` take a state `a`
to a state `b`, one step each; two proofs use it to relate what one side of a queue
knows to what the other does.

RecordingServer. `NoOrphanEngine`, `StoppedEngineIsReported` and `StopIsFinal` are not
inductive by themselves: that a recorder's engine is still there depends on how far its
start request has come. `IInv` adds `Bookkeeping`: no engine before the native join,
only answered sessions are registered, an answered session that is not registered has no
engine, and a successful stop was of such a session. The lemmas `FlightOfCall`,
`FlightOfTask` and `FlightOfEmit` say what the steps of an event's way do to the set of
events in flight; with them `InvNext` goes through the actions one by one. From `IInv`
follow the safety theorems, and `ImplementsLifecycle` shows that every step is a step of
`RecordingLifecycle` or changes nothing a client can see.

`RecordingServerLayoutProofs` adds three invariants. What they share is a way of reading
the events of a session in flight: the immediates, then the queue, then the event the
running callback will post lead (`Through`) from what the listeners have heard to what
the engine has reported. `StepKinds` sorts the steps by what they do to that line:
nothing, or a callback begins, posts, a task runs, or a listener hears.

`MixInv` is for `EngineMixesLayout`. A registered recorder has an engine, or the layout
would be stored and not passed on (`HasEngine`, which goes back to where the news of a
join comes from); nothing is laid out before the registration, and `m_layout` is always
the recorder's layout. A callback pushes only on account of a user (`PushesForUser`),
whose event is then still to be heard, and when it is heard the listener pushes the
newest layout once more; so the engine mixes another layout than the recorder's only
while an event is in flight (`Mixes`). Only the last push counts, whatever `seen`
offered the ones before.

`CrashInv` is for `CrashExplained`. Read for their errors only, the events in flight lead
from the health of the engine that the listeners have heard of to the one it has, and an
engine fails once (`ErrorOnce`). A recorder that no client stopped ended because its error
was heard; another one is not to come, so an error that finds no recorder was reported
before the registration or found its recorder stopped.

`UsersInv` is for the users. From the users the script has heard of to those the engine
side knows of, joins and leaves of each user alternate (`InStep`). A user who joins is
therefore one the script has not heard of, so nobody has two tiles (`TilesAreUnique`), and
when nothing is in flight the two sides agree. Before Node 11 a join may be heard too
early; `EarlyKnown` says that such a join is noted as early when it is reported, and
`LateShown` that every other user in the channel has a tile or a join in flight. Together
they give `EveryoneShown` for both versions.

AsyncQueue. `TypeOK` needs that a producer about to push has a call left; `NoLostWakeup`
is then inductive, because the push precedes the signal and the drain ends only on an
empty queue. `GrowthBounded` and the safety part of `ChannelSpec` follow step by step.
`OrderInv` puts what was taken, what waits and what a producer has yet to post in one
order; that gives `InOrder`, and because tasks in that order are all different, an
eviction or a take removes a task from the queue for good, which is what `PlaceInv` and
so `Accounted` rest on.

EventBridge. `NothingHeardTwice` needs that every name the wrapper registered still calls
`fire`, which `Registered` adds. With it `StreamFaithful` is inductive: running the
first task of the queue moves it to the immediates exactly if the filter keeps it.

NativeThreads. `BadCallOvertaken` needs `Quiet`: `m_engine` is null exactly when the
engine is released, and then the JavaScript thread is in no method of AgoraSdk, since it
cannot be inside `setVideoMixLayout` while it releases and enters no method afterwards.
So between its test and its call `m_engine` is set, and whoever finds it cleared is a
callback that began before.

`LayoutSettles` needs `Settling`. Only the JavaScript
thread assigns `m_layout`, so what it reads to push is what it assigned, whole
(`Assigned`, `Reading`). A callback of the engine's thread pushes only on account of a
user (`TellsUser`), while the event of that user is still to be heard; so the engine
may mix something else than the recorder's layout only as long as an event of a user is
pending, whose listener pushes again (`Mixes`). That what is pending leads from the
users laid out to the users in the channel is `Traced`.

NativeCall. `JoinIsFaithful` and `KeyIsOptional` follow what was asked for through the six
positions of the argument list and the two orders it is in. `GarbageContained` and
`UsersSurvive` rest on `Taken`, that `m_layout` is the image of the layout last passed;
the rest is how `GetRegions` makes that image, index by index, and that a uid comes
through `UidValue` and `GetUid` unchanged whatever the width of the integers. `TypeOK`
needs to know which values a script may pass: the constant `Strings` is the texts, and
`Layouts` is assumed to be made of values.

OptParser. `Numbered`: the numbers of the registered options are in the order of
registration and the copy for `print_usage` has no other, which gives `UsageCurrent`.
`PInv` is about a line that is being read: the line is well formed so far unless a word
was skipped (`ReadSoFar`), the next token is not the argument of the one before
(`Boundary`), and every variable has the last argument given to its option so far
(`StoredSoFar`). At the end of the line that is `ParsedAsRead`, at a failure
`FailureIsClean`. Which positions are options is a choice of the one set that obeys the
rule; `PositionsRead` shows, from left to right, that there is one. `NumbersExact` and
the types need arithmetic modulo powers of two of any exponent, which the solver does
not have: `PowerPositive`, `PowerGrows` and `PowerDoubles` get it from counting the
subsets of an interval (`FS_SUBSET`). That the numbers of a command line are integers
is an assumption on the constant `Tokens`, of which `Lines` is made.

Model-checked only: liveness (`StartAnswered`, `JoinedUserShown`, `ErrorReleasesEngine`,
`JoinSettles`, `AllHeard`, `ReleaseEnds`, and the liveness of `AsyncQueue` with that part
of `ChannelSpec`), which is out of the prover's reach, as is ENABLED. Every invariant
and action property that a passing run checks is a theorem.

## Plan

Done: the two abstract specifications, the server, the queue, the event bridge, the
threads, the conversions, the parser, their runs, and the theorems above. What remains
would make the models finer, not the proofs longer:

1. The two layers of the server could be tied together: `RecordingServer` with the
   immediates and the queue as an instance of `EventChannel`, so that the queue's
   theorems speak of the server's queue.
2. `NativeThreads` as a refinement of one session of `RecordingServer`, whose `seen` and
   `EngineFault` stand for its single accesses.

## Not modelled

- The engine's two callbacks with audio and video frames (`AgoraSdk.cpp`, from
  `audioFrameReceivedImpl` on), which write them to files: the configuration that
  `joinChannel` builds never asks for raw frames, so the engine does not call them.
- `startService`, `stopService`, `stopped` and `updateMixModeSetting` of AgoraSdk, the
  conversions of bool and int64 and the accessors of the addon's classes: nothing calls
  them. `m_stopped`, `m_config` and the directories are written and never read.
- The destructors. NodeRecordingSdk's cannot run, because the persistent handles in
  `m_callbacks` keep the object alive; the static queue's runs at the end of the process,
  when what the engines' threads still do is not to be seen in the source.
- What a missing cfg.json does to the engine (`fs.writeFile`'s error is ignored; `JoinNative`
  stands for both outcomes), and what the one byte hits that the copy of `backgroundColor`
  writes behind its buffer.
- The replacement of getopt for Windows; the addon is built for Linux.
- Logging, registration of the addon, node-gyp build files, and the demo script
  `sdkdemo.js` (the same listeners without a registry).
- Request bodies without a mandatory field, which are answered 500 before any state is
  touched.
