---------------------------- MODULE EventBridge ----------------------------
(***************************************************************************)
(* The way of an event from a recording engine to a script: a callback of  *)
(* AgoraSdk on the engine's thread, a task of node_async_call, a lookup in *)
(* m_callbacks, the function AgoraRecordSdk registered there, setImmediate *)
(* and the listeners.  One recorder, with every event AgoraSdk knows; the  *)
(* script may use the native object directly as well.                      *)
(*                                                                         *)
(* The listeners stay installed, as RecordManager's do; an event is heard  *)
(* when it is emitted.  Tasks and immediates each run in order.  In which  *)
(* phase of the event loop they do is left open, see RecordingServer.      *)
(***************************************************************************)
EXTENDS Naturals, Sequences, Filters

CONSTANTS
  EventNames,    \* the REC_EVENT_* names of AgoraSdk.h an engine may report
  Data,          \* what the engine may have to say in an event
  NoSpeakers,    \* the null pointer onAudioVolumeIndication may be given
  MaxReports     \* bound: the engine reports no more once there are so many

\* The names AgoraRecordSdk.initEventHandler registers: all but one.
Fired == EventNames \ {"leavechannel"}

ASSUME BridgeAssumption ==
  /\ {"joinchannel", "leavechannel", "error", "audiovolumeindication"}
       \subseteq EventNames
  /\ NoSpeakers \notin Data
  /\ MaxReports \in Nat

VARIABLES
  m_callbacks,   \* for each name the function called: none, fire or script
  canvas,        \* whether m_resolutionMap lists the size of the canvas
  join,          \* what came of the call of joinChannel
  engine,        \* AgoraSdk::m_engine and the engine's state
  memory,        \* the engine's own memory, which callbacks point into
  queue,         \* tasks of node_async_call
  immediates,    \* what fire has given to setImmediate
  heard,         \* history: what listeners heard, in order
  called,        \* history: what a function of the script was called with
  reported       \* history: the events of the engine and of emitError

vars == <<m_callbacks, canvas, join, engine, memory, queue, immediates, heard,
          called, reported>>

scriptVars == <<m_callbacks, canvas, join>>

Event == [ev : EventNames, data : Data]

TypeOK ==
  /\ m_callbacks \in [EventNames -> {"none", "fire", "script"}]
  /\ canvas \in {"listed", "unlisted"}
  /\ join \in {"no", "asked", "unsupported", "failed"}
  /\ engine \in {"null", "refused", "joining", "in", "stopped"}
  /\ memory \in Data
  /\ queue \in Seq(Event)
  /\ immediates \in Seq(Event)
  /\ heard \in Seq(Event)
  /\ called \in Seq(Event)
  /\ reported \in Seq(Event)

\* The constructors of AgoraRecordSdk and NodeRecordingSdk have run.
Init ==
  /\ m_callbacks =
       [name \in EventNames |-> IF name \in Fired THEN "fire" ELSE "none"]
  /\ canvas = "unlisted"
  /\ join = "no"
  /\ engine = "null"
  /\ memory \in Data
  /\ queue = <<>>
  /\ immediates = <<>>
  /\ heard = <<>>
  /\ called = <<>>
  /\ reported = <<>>

-----------------------------------------------------------------------------
(* The JavaScript thread: calls of the script                              *)

\* setMixLayout, of which only the canvas size matters here.
SetMixLayout(size) ==
  /\ canvas' = size
  /\ UNCHANGED <<m_callbacks, join, engine, memory, queue, immediates, heard,
                 called, reported>>

\* Variant: the last function registered for a name is kept.
AddEventHandlerLast(name) ==
  m_callbacks' = [m_callbacks EXCEPT ![name] = "script"]

\* AgoraSdk::addEventHandler: emplace does nothing if the name is there.
AddEventHandler(name) ==
  m_callbacks' =
    [m_callbacks EXCEPT ![name] = IF @ = "none" THEN "script" ELSE @]

\* onEvent, which the script can call for any name.
OnEvent(name) ==
  /\ AddEventHandler(name)
  /\ UNCHANGED <<canvas, join, engine, memory, queue, immediates, heard,
                 called, reported>>

\* A callback posts a task that owns a copy of what it was told.
Post(ev, data) ==
  /\ queue' = Append(queue, [ev |-> ev, data |-> data])
  /\ reported' = Append(reported, [ev |-> ev, data |-> data])

\* Variant: emitError is forgotten.
JoinUnlistedSilent ==
  /\ join = "no"
  /\ canvas = "unlisted"
  /\ join' = "unsupported"
  /\ UNCHANGED <<m_callbacks, canvas, engine, memory, queue, immediates, heard,
                 called, reported>>

\* joinChannel with a canvas m_resolutionMap does not list: no engine is
\* created, and emitError posts an error of its own.
JoinUnlisted ==
  /\ join = "no"
  /\ canvas = "unlisted"
  /\ join' = "unsupported"
  /\ \E data \in Data : Post("error", data)
  /\ UNCHANGED <<m_callbacks, canvas, engine, memory, immediates, heard,
                 called>>

\* joinChannel with a canvas it lists: createChannel, which may fail.
JoinListed ==
  /\ join = "no"
  /\ canvas = "listed"
  /\ \/ join' = "asked" /\ engine' = "joining"
     \/ join' = "failed" /\ engine' \in {"null", "refused"}
  /\ UNCHANGED <<m_callbacks, canvas, memory, queue, immediates, heard, called,
                 reported>>

\* leaveChannel and release.
Release ==
  /\ engine # "null"
  /\ engine' = "null"
  /\ UNCHANGED <<scriptVars, memory, queue, immediates, heard, called,
                 reported>>

-----------------------------------------------------------------------------
(* The JavaScript thread: the event loop                                   *)

\* Variant: the task looks at the engine's memory when it runs.
RunTaskByReference ==
  /\ queue # <<>>
  /\ queue' = Tail(queue)
  /\ LET event == [Head(queue) EXCEPT !.data = memory] IN
     /\ immediates' = IF m_callbacks[event.ev] = "fire"
                        THEN Append(immediates, event) ELSE immediates
     /\ called' = IF m_callbacks[event.ev] = "script"
                    THEN Append(called, event) ELSE called
  /\ UNCHANGED <<scriptVars, engine, memory, heard, reported>>

\* One task: the function of the name is called, if there is one.  fire puts
\* the event off once more; a function of the script is told at once.
RunTask ==
  /\ queue # <<>>
  /\ queue' = Tail(queue)
  /\ LET event == Head(queue) IN
     /\ immediates' = IF m_callbacks[event.ev] = "fire"
                        THEN Append(immediates, event) ELSE immediates
     /\ called' = IF m_callbacks[event.ev] = "script"
                    THEN Append(called, event) ELSE called
  /\ UNCHANGED <<scriptVars, engine, memory, heard, reported>>

\* One immediate: the listeners of the event are called.
Emit ==
  /\ immediates # <<>>
  /\ immediates' = Tail(immediates)
  /\ heard' = Append(heard, Head(immediates))
  /\ UNCHANGED <<scriptVars, engine, memory, queue, called, reported>>

-----------------------------------------------------------------------------
(* The engine's thread                                                     *)

Calling == Len(reported) < MaxReports

OnJoinChannelSuccess ==
  /\ engine = "joining"
  /\ engine' = "in"
  /\ Post("joinchannel", memory)
  /\ UNCHANGED <<scriptVars, memory, immediates, heard, called>>

OnError ==
  /\ engine \in {"joining", "in"}
  /\ engine' = "stopped"
  /\ Post("error", memory)
  /\ UNCHANGED <<scriptVars, memory, immediates, heard, called>>

\* The engine leaves an idle channel by itself.
OnLeaveChannel ==
  /\ engine = "in"
  /\ engine' = "stopped"
  /\ Post("leavechannel", memory)
  /\ UNCHANGED <<scriptVars, memory, immediates, heard, called>>

\* The callbacks that pass on what they are told, and change nothing else.
OnReport(ev) ==
  /\ engine = "in"
  /\ Calling
  /\ ev \notin
       {"joinchannel", "leavechannel", "error", "audiovolumeindication"}
  /\ Post(ev, memory)
  /\ UNCHANGED <<scriptVars, engine, memory, immediates, heard, called>>

\* Variant: the test of the pointer is forgotten.
OnAudioVolumeIndicationUnchecked(speakers) ==
  /\ engine = "in"
  /\ Calling
  /\ Post("audiovolumeindication", speakers)
  /\ UNCHANGED <<scriptVars, engine, memory, immediates, heard, called>>

\* onAudioVolumeIndication copies the speakers one by one, if it is given any.
OnAudioVolumeIndication(speakers) ==
  /\ engine = "in"
  /\ Calling
  /\ speakers # NoSpeakers
  /\ Post("audiovolumeindication", speakers)
  /\ UNCHANGED <<scriptVars, engine, memory, immediates, heard, called>>

\* Between callbacks the engine uses its memory for something else.
ReuseMemory ==
  /\ memory' \in Data \ {memory}
  /\ UNCHANGED <<scriptVars, engine, queue, immediates, heard, called,
                 reported>>

-----------------------------------------------------------------------------

Script ==
  \/ \E size \in {"listed", "unlisted"} \ {canvas} : SetMixLayout(size)
  \/ \E name \in EventNames : OnEvent(name)
  \/ JoinUnlisted
  \/ JoinListed
  \/ Release

EngineThread ==
  \/ OnJoinChannelSuccess
  \/ OnError
  \/ OnLeaveChannel
  \/ \E ev \in EventNames : OnReport(ev)
  \/ \E speakers \in {NoSpeakers, memory} : OnAudioVolumeIndication(speakers)
  \/ ReuseMemory

Next == Script \/ RunTask \/ Emit \/ EngineThread

Spec == Init /\ [][Next]_vars

\* The loop keeps turning, and an engine asked to join says how it went.
Fairness ==
  /\ WF_vars(RunTask)
  /\ WF_vars(Emit)
  /\ WF_vars(OnJoinChannelSuccess \/ OnError)

FairSpec == Spec /\ Fairness

-----------------------------------------------------------------------------
(* Properties                                                              *)

FiredEvents == {event \in Event : event.ev \in Fired}

\* From end to end: the listeners hear what the engine reported, as it was
\* when reported, each event once and in order, whatever else the script does
\* with the native object and even after it released the engine.
StreamFaithful ==
  Filtered(reported, FiredEvents) =
    heard \o immediates \o Filtered(queue, FiredEvents)

\* A function the script registers itself is called for the one name the
\* wrapper leaves free and is never told of an event the listeners hear.
NothingHeardTwice == 
  \A i \in DOMAIN called : called[i] \notin FiredEvents

Heard(names) == \E i \in DOMAIN heard : heard[i].ev \in names

\* A join that got an engine to work on it, or was refused for its canvas, is
\* settled by an event, unless the script releases the engine first.
JoinSettles ==
  join \in {"asked", "unsupported"} ~>
    Heard({"joinchannel", "error"}) \/ (join = "asked" /\ engine = "null")

\* Everything reported is heard in the end, release or not: up to MaxReports
\* events and the four that end a join, a stay or an attempt to join.
AllHeard == \A n \in 1..MaxReports + 4 :
  Len(Filtered(reported, FiredEvents)) = n ~> Len(heard) >= n
=============================================================================
