------------------------ MODULE NativeThreadsProofs ------------------------
(***************************************************************************)
(* Three things about the two threads that use AgoraSdk without a lock,    *)
(* for any users and any number of callbacks.                              *)
(*                                                                         *)
(* A call of an engine that is not there is made by a callback that a      *)
(* release overtook.  Only release clears m_engine, on the JavaScript      *)
(* thread, which is in no other method then and enters none afterwards; so *)
(* while that thread is between its test of m_engine and its call,         *)
(* m_engine is set, and a callback finds it set as long as release has not *)
(* returned.  Nothing is assumed of the engine's release.                  *)
(*                                                                         *)
(* The members keep their types.                                           *)
(*                                                                         *)
(* Layouts settle.  The events on their way to the listeners lead from the *)
(* users laid out to the users in the channel.  The JavaScript thread      *)
(* alone assigns m_layout, so what it pushes afterwards is whole; and an   *)
(* engine's callback that pushes over it is about a user, whose event has  *)
(* the JavaScript thread push once more.                                   *)
(***************************************************************************)
EXTENDS NativeThreads, QueueLemmas

-----------------------------------------------------------------------------
(* Calls of the engine                                                     *)

\* m_engine is NULL exactly when the engine is gone; then the JavaScript thread
\* is in no method of AgoraSdk.
Quiet ==
  /\ m_engine = "null" <=> engine = "released"
  /\ m_engine = "null" => pc["js"] = "idle"

\* The inductive invariant of the calls.
IInv == pc \in [Threads -> Labels] /\ Quiet /\ BadCallOvertaken

\* Whatever a thread has done, it goes on at a label.
LEMMA AfterIsLabel == \A t \in Threads : \A done : After(t, done) \in Labels
BY DEF After, Labels, Threads

\* The invariant holds when the recorder has just been registered.
LEMMA InitQuiet == Init => IInv
BY DEF Init, IInv, Quiet, BadCallOvertaken, Threads, Labels

\* A thread in setVideoMixLayout finds an engine when it calls one, or it is
\* the engine's and a release that did not wait has returned.
LEMMA PushQuiet ==
  ASSUME IInv, NEW t \in Threads, SetVideoMixLayout(t)
  PROVE  IInv'
<1> USE DEF IInv, Quiet, BadCallOvertaken, At, Goto
<1>a. After(t, "push") \in Labels /\ Threads = {"js", "engine"}
  BY AfterIsLabel DEF Threads
<1>1. CASE TestCount(t)
  <2>1. m_engine = "null" => t = "engine"
    BY <1>1, <1>a DEF TestCount
  <2> QED
    BY <1>1, <1>a, <2>1 DEF TestCount, Labels
<1>2. CASE TestEngine(t)
  <2>1. m_engine = "null" => t = "engine"
    BY <1>2, <1>a DEF TestEngine
  <2> QED
    BY <1>2, <1>a, <2>1 DEF TestEngine, Labels
<1>3. CASE CallEngine(t)
  <2>1. m_engine = "null" => t = "engine"
    BY <1>3, <1>a DEF CallEngine
  <2>2. CASE Callable /\ Goto(t, "read") /\ UNCHANGED proc
    BY <1>3, <1>a, <2>2 DEF CallEngine, Callable, Labels
  <2>3. CASE ~Callable /\ proc' = "bad call" /\ UNCHANGED pc
    BY <1>3, <1>a, <2>1, <2>3 DEF CallEngine, Callable
  <2> QED
    BY <1>3, <2>2, <2>3 DEF CallEngine
<1>4. CASE \E field \in Fields : ReadField(t, field)
  BY <1>4 DEF ReadField
<1>5. CASE Mix(t)
  <2>1. m_engine = "null" => t = "engine"
    BY <1>5, <1>a DEF Mix
  <2> QED
    BY <1>5, <1>a, <2>1 DEF Mix
<1> QED
  BY <1>1, <1>2, <1>3, <1>4, <1>5 DEF SetVideoMixLayout

\* The JavaScript thread enters a method only while the recorder is there.
LEMMA JsQuiet ==
  ASSUME IInv, JsThread \/ Stop \/ ReleaseReturns
  PROVE  IInv'
<1> USE DEF IInv, Quiet, BadCallOvertaken, At, Goto
<1>a. "js" \in Threads /\ Threads = {"js", "engine"}
  BY DEF Threads
<1>1. CASE RunUserEvent
  BY <1>1, <1>a DEF RunUserEvent, Labels
<1>2. CASE RunLeaveChannel
  BY <1>2 DEF RunLeaveChannel
<1>3. CASE RunError
  BY <1>3, <1>a DEF RunError, Labels
<1>4. CASE \E field \in Fields : AssignField(field)
  <2>1. PICK field \in Fields : AssignField(field)
    BY <1>4
  <2>2. After("js", "assign") \in Labels
    BY AfterIsLabel, <1>a
  <2>3. m_engine # "null"
    BY <2>1, <1>a DEF AssignField
  <2> QED
    BY <2>1, <2>2, <2>3, <1>a DEF AssignField
<1>5. CASE SetVideoMixLayout("js")
  BY <1>5, <1>a, PushQuiet
<1>6. CASE BeginRelease
  BY <1>6, <1>a DEF BeginRelease, Labels
<1>7. CASE ReleaseReturns
  BY <1>7, <1>a DEF ReleaseReturns, Labels
<1>8. CASE Stop
  BY <1>8, <1>a DEF Stop, Labels
<1> QED
  BY <1>1, <1>2, <1>3, <1>4, <1>5, <1>6, <1>7, <1>8 DEF JsThread

\* A callback begins only while the engine is in the channel.
LEMMA EngineQuiet ==
  ASSUME IInv, Callback \/ BeginCallback
  PROVE  IInv'
<1> USE DEF IInv, Quiet, BadCallOvertaken, At, Goto
<1>a. "engine" \in Threads /\ Threads = {"js", "engine"}
  BY DEF Threads
<1>b. After("engine", "peers") \in Labels
  BY AfterIsLabel, <1>a
<1>1. CASE \E u \in Uids : OnUserJoined(u) \/ OnUserOffline(u)
  BY <1>1, <1>a, <1>b DEF OnUserJoined, OnUserOffline, Begin
<1>2. CASE OnError
  BY <1>2, <1>a DEF OnError, Begin, Labels
<1>3. CASE OnLeaveChannel
  BY <1>3, <1>a DEF OnLeaveChannel, Begin, Labels
<1>4. CASE SetVideoMixLayout("engine")
  BY <1>4, <1>a, PushQuiet
<1>5. CASE StoppedOnError
  <2>1. After("engine", "stop") \in Labels
    BY AfterIsLabel, <1>a
  <2> QED
    BY <1>5, <1>a, <2>1 DEF StoppedOnError, Callable
<1>6. CASE Post
  <2>1. After("engine", "post") \in Labels
    BY AfterIsLabel, <1>a
  <2> QED
    BY <1>6, <1>a, <2>1 DEF Post
<1> QED
  BY <1>1, <1>2, <1>3, <1>4, <1>5, <1>6 DEF Callback, BeginCallback

\* Whatever the engine's release waits for, a call through a
\* null m_engine or into a released engine is made by a callback that release
\* did not wait for, at the call in setVideoMixingLayout after its test or at
\* the one in onErrorImpl without a test; and by nothing else.
THEOREM BadCallsOvertaken == Spec => []BadCallOvertaken
<1>1. Init => IInv
  BY InitQuiet
<1>2. IInv /\ [Next]_vars => IInv'
  <2> SUFFICES ASSUME IInv, [Next]_vars
               PROVE  IInv'
    OBVIOUS
  <2>1. CASE JsThread \/ Stop \/ ReleaseReturns
    BY <2>1, JsQuiet
  <2>2. CASE Callback \/ BeginCallback
    BY <2>2, EngineQuiet
  <2>3. CASE UNCHANGED vars
    BY <2>3 DEF vars, IInv, Quiet, BadCallOvertaken
  <2> QED
    BY <2>1, <2>2, <2>3 DEF Next
<1>3. IInv => BadCallOvertaken
  BY DEF IInv
<1> QED
  BY <1>1, <1>2, <1>3, PTL DEF Spec

-----------------------------------------------------------------------------
(* Types                                                                   *)

\* An event about a user names one.
UserEvents ==
  {event \in Event :
     event.ev \in {"userjoin", "userleave"} /\ event.uid \in Uids}

\* What a callback may post, and the listeners may hear.
Proper ==
  UserEvents \cup {event \in Event : event.ev \in {"error", "leavechannel"}}

\* The inductive invariant of the types.
IType == TypeOK /\ told \in Proper /\ queue \in Seq(Proper)

\* A layout that is converted is a layout.
LEMMA ConvertedTyped ==
  ASSUME NEW list \in Seq(Uids)
  PROVE  Converted(list) \in Layout
  BY DEF Converted, Layout

\* Whatever an engine has read of m_layout, it mixes some regions.
LEMMA SeenTyped ==
  ASSUME NEW layout \in Layout
  PROVE  Seen(layout) \in Seq(Uids \cup {Stray})
<1>1. layout.count \in Nat /\ layout.regions \in Seq(Uids)
  BY DEF Layout
<1>2. \A i \in 1..layout.count : Seen(layout)[i] \in Uids \cup {Stray}
  BY <1>1 DEF Seen
<1>3. Seen(layout) = [i \in 1..layout.count |-> Seen(layout)[i]]
  BY DEF Seen
<1>4. \A S : \A n \in Nat : \A f \in [1..n -> S] : f \in Seq(S)
  OBVIOUS
<1>5. Seen(layout) \in [1..layout.count -> Uids \cup {Stray}]
  BY <1>2, <1>3
<1> QED
  BY <1>1, <1>4, <1>5

\* So is one of which a field is replaced by that of another.
LEMMA FieldCopied ==
  ASSUME NEW to \in Layout, NEW from \in Layout, NEW field \in Fields
  PROVE  [to EXCEPT ![field] = from[field]] \in Layout
<1>1. CASE field = "count"
  BY <1>1 DEF Layout
<1>2. CASE field = "regions"
  BY <1>2 DEF Layout
<1> QED
  BY <1>1, <1>2 DEF Fields

\* A push reads m_layout and moves on to another statement.
LEMMA PushTyped ==
  ASSUME IType, NEW t \in Threads, SetVideoMixLayout(t)
  PROVE  IType'
<1> USE DEF IType, TypeOK, At, Goto
<1>a. After(t, "push") \in Labels /\ {"test", "call", "read"} \subseteq Labels
  BY AfterIsLabel DEF Labels
<1>1. CASE TestCount(t)
  BY <1>1, <1>a DEF TestCount
<1>2. CASE TestEngine(t)
  BY <1>2, <1>a DEF TestEngine
<1>3. CASE CallEngine(t)
  BY <1>3, <1>a DEF CallEngine
<1>4. CASE \E field \in Fields : ReadField(t, field)
  <2>1. PICK field \in Fields : ReadField(t, field)
    BY <1>4
  <2>2. copy' = [copy EXCEPT ![t] = [@ EXCEPT ![field] = m_layout[field]]]
    BY <2>1 DEF ReadField
  <2>3. [copy[t] EXCEPT ![field] = m_layout[field]] \in Layout
    BY FieldCopied
  <2>4. copy' \in [Threads -> Layout]
    BY <2>2, <2>3
  <2> QED
    BY <2>1, <2>4 DEF ReadField
<1>5. CASE Mix(t)
  BY <1>5, <1>a, SeenTyped DEF Mix
<1> QED
  BY <1>1, <1>2, <1>3, <1>4, <1>5 DEF SetVideoMixLayout

\* The listeners are told of users, and lay them out.
LEMMA JsTyped ==
  ASSUME IType, JsThread \/ Stop \/ ReleaseReturns
  PROVE  IType'
<1> USE DEF IType, TypeOK, At, Goto
<1>a. /\ "js" \in Threads
      /\ {"assign", "leaving", "releasing", "idle"} \subseteq Labels
      /\ After("js", "assign") \in Labels
  BY AfterIsLabel DEF Labels, Threads
<1>b. queue # <<>> => /\ Head(queue) \in Proper
                      /\ Tail(queue) \in Seq(Proper)
                      /\ Tail(queue) \in Seq(Event)
  BY TailOfQueue
<1>1. CASE RunUserEvent
  <2> DEFINE uid == Head(queue).uid
  <2>1. /\ queue # <<>> /\ queue' = Tail(queue)
        /\ Head(queue).ev \in {"userjoin", "userleave"}
    BY <1>1 DEF RunUserEvent
  <2>2. uid \in Uids
    BY <1>b, <2>1 DEF Proper, UserEvents
  <2>3. regions' \in Seq(Uids)
    <3>1. Append(regions, uid) \in Seq(Uids)
      BY <2>2, AppendedQueue
    <3>2. Filtered(regions, Uids \ {uid}) \in Seq(Uids)
      BY FilterTyped
    <3> QED
      BY <1>1, <3>1, <3>2 DEF RunUserEvent
  <2>4. /\ pc' \in [Threads -> Labels] /\ todo' \in [Threads -> SUBSET Fields]
        /\ UNCHANGED <<proc, copy, m_layout, m_engine, m_peers, engine, told,
                       mixed, reports>>
    BY <1>1, <1>a DEF RunUserEvent
  <2> QED
    BY <1>b, <2>1, <2>3, <2>4
<1>2. CASE RunLeaveChannel
  BY <1>2, <1>b DEF RunLeaveChannel
<1>3. CASE RunError
  BY <1>3, <1>a, <1>b DEF RunError
<1>4. CASE \E field \in Fields : AssignField(field)
  <2>1. PICK field \in Fields : AssignField(field)
    BY <1>4
  <2>2. m_layout' \in Layout
    BY <2>1, ConvertedTyped, FieldCopied DEF AssignField
  <2> QED
    BY <2>1, <2>2, <1>a DEF AssignField
<1>5. CASE SetVideoMixLayout("js")
  BY <1>5, <1>a, PushTyped
<1>6. CASE BeginRelease
  BY <1>6, <1>a DEF BeginRelease
<1>7. CASE ReleaseReturns
  BY <1>7, <1>a DEF ReleaseReturns
<1>8. CASE Stop
  BY <1>8, <1>a DEF Stop
<1> QED
  BY <1>1, <1>2, <1>3, <1>4, <1>5, <1>6, <1>7, <1>8 DEF JsThread

\* A callback tells of a user, or of none.
LEMMA EngineTyped ==
  ASSUME IType, Callback \/ BeginCallback
  PROVE  IType'
<1> USE DEF IType, TypeOK, At, Goto
<1>a. "engine" \in Threads /\ \A done : After("engine", done) \in Labels
  BY AfterIsLabel DEF Threads
<1>1. ASSUME NEW ev \in {"userjoin", "userleave"}, NEW u \in Uids,
             NEW label \in Labels, Begin(ev, u, label)
      PROVE  /\ told' \in Proper /\ told' \in Event
             /\ reports' \in 0..MaxReports /\ pc' \in [Threads -> Labels]
  BY <1>1, <1>a, ThreadsAssumption DEF Begin, Proper, UserEvents, Event
<1>2. ASSUME NEW ev \in {"error", "leavechannel"}, NEW label \in Labels,
             Begin(ev, Stray, label)
      PROVE  /\ told' \in Proper /\ told' \in Event
             /\ reports' \in 0..MaxReports /\ pc' \in [Threads -> Labels]
  BY <1>2, <1>a, ThreadsAssumption DEF Begin, Proper, UserEvents, Event
<1>3. ASSUME NEW u \in Uids, OnUserJoined(u) \/ OnUserOffline(u)
      PROVE  IType'
  <2>1. /\ told' \in Proper /\ told' \in Event /\ reports' \in 0..MaxReports
        /\ pc' \in [Threads -> Labels]
    BY <1>1, <1>3, <1>a DEF OnUserJoined, OnUserOffline
  <2> QED
    BY <1>3, <2>1 DEF OnUserJoined, OnUserOffline
<1>4. CASE OnError
  <2>1. /\ told' \in Proper /\ told' \in Event /\ reports' \in 0..MaxReports
        /\ pc' \in [Threads -> Labels]
    BY <1>2, <1>4 DEF OnError, Labels
  <2> QED
    BY <1>4, <2>1 DEF OnError
<1>5. CASE OnLeaveChannel
  <2>1. /\ told' \in Proper /\ told' \in Event /\ reports' \in 0..MaxReports
        /\ pc' \in [Threads -> Labels]
    BY <1>2, <1>5 DEF OnLeaveChannel, Labels
  <2> QED
    BY <1>5, <2>1 DEF OnLeaveChannel
<1>6. CASE SetVideoMixLayout("engine")
  BY <1>6, <1>a, PushTyped
<1>7. CASE StoppedOnError
  <2>1. After("engine", "stop") \in Labels
    BY <1>a
  <2>2. engine' \in {"in", "stopped", "released"}
    BY <1>7 DEF StoppedOnError
  <2>3. proc' \in {"up", "bad call", "overread", "threw"}
        /\ pc' \in [Threads -> Labels]
    BY <1>7, <2>1 DEF StoppedOnError
  <2> QED
    BY <1>7, <2>2, <2>3 DEF StoppedOnError
<1>8. CASE Post
  <2>1. /\ Append(queue, told) \in Seq(Proper)
        /\ Append(queue, told) \in Seq(Event)
    BY AppendedQueue
  <2> QED
    BY <1>8, <2>1, <1>a DEF Post
<1> QED
  BY <1>3, <1>4, <1>5, <1>6, <1>7, <1>8 DEF Callback, BeginCallback

\* The types hold at first.
LEMMA InitTyped == Init => IType
<1> SUFFICES ASSUME Init PROVE IType
  OBVIOUS
<1>1. NoLayout \in Layout
  <2>1. <<>> \in Seq(Uids)
    OBVIOUS
  <2> QED
    BY <2>1 DEF NoLayout, Layout
<1>2. told \in Proper
  BY DEF Init, Proper, Event
<1> QED
  BY <1>1, <1>2, ThreadsAssumption
     DEF Init, IType, TypeOK, Threads, Labels, Proper, Event

\* No step of either thread breaks them.
LEMMA TypedKept == IType /\ [Next]_vars => IType'
<1> SUFFICES ASSUME IType, [Next]_vars
             PROVE  IType'
  OBVIOUS
<1>1. CASE JsThread \/ Stop \/ ReleaseReturns
  BY <1>1, JsTyped
<1>2. CASE Callback \/ BeginCallback
  BY <1>2, EngineTyped
<1>3. CASE UNCHANGED vars
  BY <1>3 DEF vars, IType, TypeOK
<1> QED
  BY <1>1, <1>2, <1>3 DEF Next

\* The members of AgoraSdk, what the threads have read of them and what the
\* engine mixes keep their types, however the accesses overtake each other.
THEOREM TypeCorrect == Spec => []TypeOK
<1>1. IType => TypeOK
  BY DEF IType
<1> QED
  BY <1>1, InitTyped, TypedKept, PTL DEF Spec

-----------------------------------------------------------------------------
(* Layouts settle                                                          *)

\* What the event e says became of the users a.
Changed(a, e) ==
  IF e.ev = "userjoin" THEN a \cup {e.uid}
  ELSE IF e.ev = "userleave" THEN a \ {e.uid} ELSE a

Changes == {<<a, e, Changed(a, e)>> : a \in SUBSET Uids, e \in Event}

\* The events the listeners have not heard, with that of a running callback.
pending == IF pc["engine"] = "idle" THEN queue ELSE Append(queue, told)

\* Where a thread is on its way through setVideoMixLayout.
Pushing == {"push", "test", "call", "read"}

\* A callback that pushes the layout is about a user.
TellsUser == pc["engine"] \in Pushing => told \in UserEvents

\* What is pending leads from the users laid out to those in the channel.
Traced ==
  m_engine # "null" =>
    Leads(pending, SUBSET Uids, Changes, ToSet(regions), m_peers)

\* m_layout is the recorder's layout, as far as it is assigned.
Assigned ==
  IF pc["js"] = "assign"
    THEN \A field \in Fields \ todo["js"] :
           m_layout[field] = Converted(regions)[field]
    ELSE m_layout = Converted(regions)

\* What the JavaScript thread has read of m_layout is still so.
Reading ==
  pc["js"] = "read" =>
    \A field \in Fields \ todo["js"] : copy["js"][field] = m_layout[field]

\* Unless an event of a user is pending, the last push was the recorder's.
Mixes ==
  /\ m_engine # "null"
  /\ pc["js"] = "idle"
  /\ ToSet(pending) \cap UserEvents = {}
  /\ regions # <<>>
  => mixed = regions

\* The inductive invariant of the layouts.
Settling ==
  IType /\ TellsUser /\ Traced /\ Assigned /\ Reading /\ Mixes

\* The order of the statements.
LEMMA Order ==
  /\ After("js", "assign") = "push" /\ After("js", "push") = "idle"
  /\ After("engine", "peers") = "push" /\ After("engine", "push") = "post"
  /\ After("engine", "stop") = "post" /\ After("engine", "post") = "idle"
BY DEF After

\* What an event changes is given by the event.
LEMMA ChangesAre ==
  /\ \A a \in SUBSET Uids, e \in Event : <<a, e, Changed(a, e)>> \in Changes
  /\ \A a, e, b : <<a, e, b>> \in Changes => b = Changed(a, e)
BY DEF Changes

\* One step of a push concerns the thread's own variables.
LEMMA PushMoves ==
  ASSUME IType, NEW t \in Threads, SetVideoMixLayout(t)
  PROVE  /\ UNCHANGED <<m_layout, m_engine, m_peers, regions, told, queue>>
         /\ pc[t] \in Pushing
         /\ pc'[t] \in Pushing \cup {After(t, "push")}
         /\ \A s \in Threads \ {t} :
              pc'[s] = pc[s] /\ todo'[s] = todo[s] /\ copy'[s] = copy[s]
<1> USE DEF At, Goto, Pushing
<1>a. /\ pc \in [Threads -> Labels] /\ todo \in [Threads -> SUBSET Fields]
      /\ copy \in [Threads -> Layout]
  BY DEF IType, TypeOK
<1>1. CASE TestCount(t)
  BY <1>1, <1>a DEF TestCount
<1>2. CASE TestEngine(t)
  BY <1>2, <1>a DEF TestEngine
<1>3. CASE CallEngine(t)
  BY <1>3, <1>a DEF CallEngine
<1>4. CASE \E field \in Fields : ReadField(t, field)
  BY <1>4, <1>a DEF ReadField
<1>5. CASE Mix(t)
  BY <1>5, <1>a DEF Mix
<1> QED
  BY <1>1, <1>2, <1>3, <1>4, <1>5 DEF SetVideoMixLayout

\* A callback begins with what it is about to tell.
LEMMA BeginMoves ==
  ASSUME IType, BeginCallback
  PROVE  /\ pc["engine"] = "idle" /\ pc'["engine"] # "idle"
         /\ pc'["js"] = pc["js"]
         /\ pc'["engine"] \in Pushing => told' \in UserEvents
         /\ told' \in Event
         /\ m_peers' = Changed(m_peers, told') /\ m_peers' \subseteq Uids
         /\ UNCHANGED <<todo, copy, m_layout, m_engine, regions, mixed, queue>>
<1> USE DEF At, Goto, Begin
<1>a. pc \in [Threads -> Labels] /\ m_peers \subseteq Uids
      /\ {"js", "engine"} = Threads
  BY DEF IType, TypeOK, Threads
<1>1. ASSUME NEW u \in Uids, OnUserJoined(u)
      PROVE  /\ pc["engine"] = "idle" /\ pc'["engine"] = "push"
             /\ pc'["js"] = pc["js"] /\ told' = [ev |-> "userjoin", uid |-> u]
             /\ m_peers' = m_peers \cup {u}
             /\ UNCHANGED <<todo, copy, m_layout, m_engine, regions, mixed,
                            queue>>
  BY <1>1, <1>a, Order DEF OnUserJoined
<1>2. ASSUME NEW u \in Uids, OnUserOffline(u)
      PROVE  /\ pc["engine"] = "idle" /\ pc'["engine"] = "push"
             /\ pc'["js"] = pc["js"] /\ told' = [ev |-> "userleave", uid |-> u]
             /\ m_peers' = m_peers \ {u}
             /\ UNCHANGED <<todo, copy, m_layout, m_engine, regions, mixed,
                            queue>>
  BY <1>2, <1>a, Order DEF OnUserOffline
<1>3. CASE OnError
  BY <1>3, <1>a DEF OnError, Changed, Event, Pushing
<1>4. CASE OnLeaveChannel
  BY <1>4, <1>a DEF OnLeaveChannel, Changed, Event, Pushing
<1>5. ASSUME NEW u \in Uids, OnUserJoined(u)
      PROVE  /\ told' \in Event /\ told' \in UserEvents
             /\ m_peers' = Changed(m_peers, told') /\ m_peers' \subseteq Uids
  BY <1>1, <1>5, <1>a DEF Changed, Event, UserEvents
<1>6. ASSUME NEW u \in Uids, OnUserOffline(u)
      PROVE  /\ told' \in Event /\ told' \in UserEvents
             /\ m_peers' = Changed(m_peers, told') /\ m_peers' \subseteq Uids
  BY <1>2, <1>6, <1>a DEF Changed, Event, UserEvents
<1> QED
  BY <1>1, <1>2, <1>3, <1>4, <1>5, <1>6 DEF BeginCallback, Pushing

\* The rest of a callback.
LEMMA CallbackMoves ==
  ASSUME IType, StoppedOnError \/ Post
  PROVE  /\ pc'["js"] = pc["js"]
         /\ UNCHANGED <<todo, copy, m_layout, m_engine, regions, mixed, told,
                        m_peers>>
         /\ pc'["engine"] \notin Pushing
         /\ pending' = pending
<1> USE DEF At, Goto
<1>a. pc \in [Threads -> Labels] /\ "engine" \in Threads /\ "js" \in Threads
  BY DEF IType, TypeOK, Threads
<1>1. CASE StoppedOnError
  <2>1. /\ pc["engine"] = "stop" /\ pc'["engine"] \in {"stop", "post"}
        /\ pc'["js"] = pc["js"]
        /\ UNCHANGED <<todo, copy, m_layout, m_engine, regions, mixed, told,
                        m_peers, queue>>
    BY <1>1, <1>a, Order DEF StoppedOnError
  <2> QED
    BY <2>1 DEF pending, Pushing
<1>2. CASE Post
  <2>1. /\ pc["engine"] = "post" /\ pc'["engine"] = "idle"
        /\ pc'["js"] = pc["js"] /\ queue' = Append(queue, told)
        /\ UNCHANGED <<todo, copy, m_layout, m_engine, regions, mixed, told,
                        m_peers>>
    BY <1>2, <1>a, Order DEF Post
  <2> QED
    BY <2>1 DEF pending, Pushing
<1> QED
  BY <1>1, <1>2

\* The listeners hear the oldest event.
LEMMA RunMoves ==
  ASSUME IType, RunUserEvent \/ RunLeaveChannel \/ RunError
  PROVE  /\ pc["js"] = "idle" /\ pc'["engine"] = pc["engine"]
         /\ queue # <<>> /\ queue' = Tail(queue)
         /\ UNCHANGED <<copy, m_layout, m_engine, m_peers, told, mixed>>
         /\ \/ m_engine = "null" /\ regions' = regions /\ pc' = pc
            \/ /\ Head(queue).ev \in {"userjoin", "userleave"}
               /\ ToSet(regions') = Changed(ToSet(regions), Head(queue))
               /\ pc'["js"] = "assign" /\ todo'["js"] = Fields
            \/ /\ Head(queue).ev \notin {"userjoin", "userleave"}
               /\ regions' = regions
               /\ pc'["js"] \in {"idle", "leaving"}
<1> USE DEF At, Goto
<1>a. /\ pc \in [Threads -> Labels] /\ "engine" \in Threads /\ "js" \in Threads
      /\ todo \in [Threads -> SUBSET Fields]
      /\ regions \in Seq(Uids)
      /\ queue \in Seq(Proper)
  BY DEF IType, TypeOK, Threads
<1>1. CASE RunUserEvent
  <2>1. /\ pc["js"] = "idle" /\ pc'["engine"] = pc["engine"]
        /\ queue # <<>> /\ queue' = Tail(queue)
        /\ UNCHANGED <<copy, m_layout, m_engine, m_peers, told, mixed>>
        /\ Head(queue).ev \in {"userjoin", "userleave"}
        /\ \/ m_engine = "null" /\ regions' = regions /\ pc' = pc
           \/ /\ pc'["js"] = "assign" /\ todo'["js"] = Fields
              /\ \/ Head(queue).ev = "userjoin"
                    /\ regions' = Append(regions, Head(queue).uid)
                 \/ Head(queue).ev = "userleave"
                    /\ regions' = Filtered(regions, Uids \ {Head(queue).uid})
    BY <1>1, <1>a DEF RunUserEvent
  <2>2. Head(queue).uid \in Uids
    <3>1. Head(queue) \in Proper
      BY <1>a, <2>1, TailOfQueue
    <3> QED
      BY <2>1, <3>1 DEF Proper, UserEvents
  <2>3. ToSet(Append(regions, Head(queue).uid)) =
          ToSet(regions) \cup {Head(queue).uid}
    BY <1>a, <2>2, HeldAfterAppend
  <2>4. ToSet(Filtered(regions, Uids \ {Head(queue).uid})) =
          ToSet(regions) \ {Head(queue).uid}
    BY <1>a, FilterHolds, ElementsOfQueue
  <2> QED
    BY <2>1, <2>3, <2>4 DEF Changed
<1>2. CASE RunLeaveChannel
  BY <1>2, <1>a DEF RunLeaveChannel
<1>3. CASE RunError
  BY <1>3, <1>a DEF RunError
<1> QED
  BY <1>1, <1>2, <1>3

\* What the JavaScript thread does besides pushing and hearing events.
Quietly == \/ \E field \in Fields : AssignField(field)
           \/ Stop
           \/ BeginRelease
           \/ ReleaseReturns

\* It concerns neither the events nor the engine's thread.
LEMMA QuietlyMoves ==
  ASSUME IType, Quietly
  PROVE  /\ pc'["engine"] = pc["engine"]
         /\ UNCHANGED <<copy, m_peers, regions, told, mixed, queue>>
         /\ m_engine' \in {m_engine, "null"}
         /\ pending' = pending
<1> USE DEF At, Goto
<1>a. pc \in [Threads -> Labels] /\ "engine" \in Threads /\ "js" \in Threads
  BY DEF IType, TypeOK, Threads
<1>1. /\ pc'["engine"] = pc["engine"]
      /\ UNCHANGED <<copy, m_peers, regions, told, mixed, queue>>
      /\ m_engine' \in {m_engine, "null"}
  BY <1>a DEF Quietly, AssignField, ReleaseReturns, Stop, BeginRelease
<1> QED
  BY <1>1, AppendedQueue DEF pending

\* Every step is one of these.
LEMMA Steps ==
  ASSUME [Next]_vars
  PROVE  \/ \E t \in Threads : SetVideoMixLayout(t)
         \/ BeginCallback
         \/ StoppedOnError \/ Post
         \/ RunUserEvent \/ RunLeaveChannel \/ RunError
         \/ Quietly
         \/ UNCHANGED vars
BY DEF Next, JsThread, Callback, Quietly, Threads

\* What is pending is events.
LEMMA PendingTyped == IType => pending \in Seq(Event)
<1> SUFFICES ASSUME IType PROVE pending \in Seq(Event)
  OBVIOUS
<1>1. queue \in Seq(Event) /\ told \in Event
  BY DEF IType, TypeOK
<1> QED
  BY <1>1, AppendedQueue DEF pending

\* The event the listeners hear is the oldest one that is pending.
LEMMA OldestHeard ==
  ASSUME IType, queue # <<>>, queue' = Tail(queue), told' = told,
         pc'["engine"] = pc["engine"]
  PROVE  /\ pending # <<>> /\ Head(pending) = Head(queue)
         /\ pending' = Tail(pending)
<1>1. queue \in Seq(Event) /\ told \in Event
  BY DEF IType, TypeOK
<1> QED
  BY <1>1, AppendedQueue DEF pending

\* A push, on either thread, tells the listeners nothing.
LEMMA PushKeepsPending ==
  ASSUME IType, NEW t \in Threads, SetVideoMixLayout(t)
  PROVE  pending' = pending
<1>1. /\ told' = told /\ queue' = queue
      /\ pc["engine"] # "idle" <=> pc'["engine"] # "idle"
  BY PushMoves, Order DEF Threads, Pushing
<1> QED
  BY <1>1, AppendedQueue DEF pending

\* Only a callback about a user goes on to push.
LEMMA TellsUserKept ==
  ASSUME IType, TellsUser, [Next]_vars
  PROVE  TellsUser'
<1>1. ASSUME NEW t \in Threads, SetVideoMixLayout(t)
      PROVE  TellsUser'
  <2>1. /\ told' = told
        /\ pc'["engine"] \in Pushing => pc["engine"] \in Pushing
    BY <1>1, PushMoves DEF Threads
  <2> QED
    BY <2>1 DEF TellsUser
<1>2. CASE BeginCallback
  BY <1>2, BeginMoves DEF TellsUser
<1>3. CASE StoppedOnError \/ Post
  BY <1>3, CallbackMoves DEF TellsUser
<1>4. CASE RunUserEvent \/ RunLeaveChannel \/ RunError
  BY <1>4, RunMoves DEF TellsUser
<1>5. CASE Quietly
  BY <1>5, QuietlyMoves DEF TellsUser
<1>6. CASE UNCHANGED vars
  BY <1>6 DEF vars, TellsUser
<1> QED
  BY <1>1, <1>2, <1>3, <1>4, <1>5, <1>6, Steps

\* A callback adds its change at one end of what is pending, and the
\* listeners take theirs from the other.
LEMMA TracedKept ==
  ASSUME IType, Traced, [Next]_vars
  PROVE  Traced'
<1>a. /\ ToSet(regions) \in SUBSET Uids /\ m_peers \in SUBSET Uids
      /\ queue \in Seq(Event) /\ pending \in Seq(Event)
  BY ElementsOfQueue, PendingTyped DEF IType, TypeOK
<1>0. CASE UNCHANGED <<pending, regions, m_peers>>
           /\ m_engine' \in {m_engine, "null"}
  BY <1>0 DEF Traced
<1>1. ASSUME NEW t \in Threads, SetVideoMixLayout(t)
      PROVE  Traced'
  BY <1>0, <1>1, PushMoves, PushKeepsPending
<1>2. CASE BeginCallback /\ m_engine # "null"
  <2>1. /\ pending = queue /\ pending' = Append(pending, told')
        /\ regions' = regions /\ m_engine' = m_engine /\ told' \in Event
        /\ m_peers' = Changed(m_peers, told') /\ m_peers' \in SUBSET Uids
    BY <1>2, BeginMoves DEF pending
  <2>2. <<m_peers, told', m_peers'>> \in Changes
    BY <1>a, <2>1, ChangesAre
  <2>3. Leads(pending, SUBSET Uids, Changes, ToSet(regions), m_peers)
    BY <1>2 DEF Traced
  <2>4. Leads(Append(pending, told'), SUBSET Uids, Changes, ToSet(regions),
              m_peers')
    BY <1>a, <2>1, <2>2, <2>3, LeadsFurther
  <2> QED
    BY <2>1, <2>4 DEF Traced
<1>3. CASE StoppedOnError \/ Post
  BY <1>0, <1>3, CallbackMoves
<1>4. CASE (RunUserEvent \/ RunLeaveChannel \/ RunError) /\ m_engine # "null"
  <2>1. /\ pending # <<>> /\ Head(pending) = Head(queue)
        /\ pending' = Tail(pending) /\ m_peers' = m_peers
        /\ m_engine' = m_engine
    BY <1>4, RunMoves, OldestHeard
  <2>2. ToSet(regions') = Changed(ToSet(regions), Head(queue))
    BY <1>4, RunMoves DEF Changed
  <2>3. Leads(pending, SUBSET Uids, Changes, ToSet(regions), m_peers)
    BY <1>4 DEF Traced
  <2>4. PICK c \in SUBSET Uids :
          /\ <<ToSet(regions), Head(pending), c>> \in Changes
          /\ Leads(Tail(pending), SUBSET Uids, Changes, c, m_peers)
    BY <1>a, <2>1, <2>3, LeadsAfterHead
  <2>5. c = ToSet(regions')
    BY <2>1, <2>2, <2>4, ChangesAre
  <2> QED
    BY <2>1, <2>4, <2>5 DEF Traced
<1>5. CASE Quietly
  BY <1>0, <1>5, QuietlyMoves
<1>6. CASE UNCHANGED vars
  BY <1>0, <1>6 DEF vars, pending
<1>7. CASE m_engine = "null" /\ (BeginCallback \/ RunUserEvent
                                 \/ RunLeaveChannel \/ RunError)
  BY <1>7, BeginMoves, RunMoves DEF Traced
<1> QED
  BY <1>1, <1>2, <1>3, <1>4, <1>5, <1>6, <1>7, Steps

\* Two layouts with the same fields are the same.
LEMMA LayoutIs ==
  ASSUME NEW a \in Layout, NEW b \in Layout,
         \A field \in Fields : a[field] = b[field]
  PROVE  a = b
<1>1. a["count"] = b["count"] /\ a["regions"] = b["regions"]
  BY DEF Fields
<1> QED
  BY <1>1 DEF Layout

\* m_layout is assigned before the JavaScript thread goes on.
LEMMA AssignedKept ==
  ASSUME IType, Assigned, [Next]_vars
  PROVE  Assigned'
<1> USE DEF At, Goto
<1>a. /\ pc \in [Threads -> Labels] /\ "engine" \in Threads /\ "js" \in Threads
      /\ todo \in [Threads -> SUBSET Fields] /\ m_layout \in Layout
      /\ Converted(regions) \in Layout
  BY ConvertedTyped DEF IType, TypeOK, Threads
<1>0. CASE /\ UNCHANGED <<m_layout, regions>>
           /\ \/ pc'["js"] # "assign" /\ pc["js"] # "assign"
              \/ pc'["js"] = "assign" /\ pc["js"] = "assign"
                 /\ todo'["js"] = todo["js"]
  BY <1>0 DEF Assigned, Converted
<1>1. ASSUME NEW t \in Threads, SetVideoMixLayout(t)
      PROVE  Assigned'
  <2>1. UNCHANGED <<m_layout, regions>>
    BY <1>1, PushMoves
  <2>2. CASE t = "js"
    BY <1>0, <1>1, <2>1, <2>2, PushMoves, Order DEF Pushing
  <2>3. CASE t = "engine"
    BY <1>0, <1>1, <1>a, <2>1, <2>3, PushMoves DEF Threads
  <2> QED
    BY <2>2, <2>3 DEF Threads
<1>2. CASE BeginCallback
  BY <1>0, <1>2, BeginMoves
<1>3. CASE StoppedOnError \/ Post
  BY <1>0, <1>3, CallbackMoves
<1>4. CASE RunUserEvent \/ RunLeaveChannel \/ RunError
  BY <1>0, <1>4, RunMoves DEF Assigned
<1>5. ASSUME NEW field \in Fields, AssignField(field)
      PROVE  Assigned'
  <2>1. /\ pc["js"] = "assign" /\ regions' = regions
        /\ m_layout' = [m_layout EXCEPT ![field] = Converted(regions)[field]]
        /\ todo'["js"] = todo["js"] \ {field}
        /\ field \in todo["js"]
        /\ pc'["js"] = IF todo["js"] = {field} THEN "push" ELSE "assign"
    BY <1>5, <1>a, Order DEF AssignField
  <2>2. m_layout' \in Layout
    BY <1>a, <2>1, FieldCopied
  <2>3. \A f \in Fields : m_layout'[f] = IF f = field
                            THEN Converted(regions)[f] ELSE m_layout[f]
    <3>1. CASE field = "count"
      BY <1>a, <2>1, <3>1 DEF Layout, Fields
    <3>2. CASE field = "regions"
      BY <1>a, <2>1, <3>2 DEF Layout, Fields
    <3> QED
      BY <3>1, <3>2 DEF Fields
  <2>4. \A f \in Fields \ (todo["js"] \ {field}) :
          m_layout'[f] = Converted(regions)[f]
    BY <2>1, <2>3 DEF Assigned
  <2>5. CASE todo["js"] = {field}
    <3>1. m_layout' = Converted(regions)
      BY <1>a, <2>2, <2>4, <2>5, LayoutIs
    <3> QED
      BY <2>1, <2>5, <3>1 DEF Assigned
  <2>6. CASE todo["js"] # {field}
    BY <2>1, <2>4, <2>6 DEF Assigned
  <2> QED
    BY <2>5, <2>6
<1>6. CASE Stop \/ BeginRelease \/ ReleaseReturns
  BY <1>0, <1>6, <1>a DEF ReleaseReturns, Stop, BeginRelease
<1>7. CASE UNCHANGED vars
  BY <1>0, <1>7 DEF vars
<1> QED
  BY <1>1, <1>2, <1>3, <1>4, <1>5, <1>6, <1>7, Steps DEF Quietly

\* Nobody assigns m_layout while the JavaScript thread reads it.
LEMMA ReadingKept ==
  ASSUME IType, Reading, [Next]_vars
  PROVE  Reading'
<1> USE DEF At, Goto
<1>a. /\ pc \in [Threads -> Labels] /\ "engine" \in Threads /\ "js" \in Threads
      /\ todo \in [Threads -> SUBSET Fields] /\ m_layout \in Layout
      /\ copy \in [Threads -> Layout]
  BY DEF IType, TypeOK, Threads
<1>0. CASE /\ m_layout' = m_layout /\ copy'["js"] = copy["js"]
           /\ pc'["js"] = pc["js"] /\ todo'["js"] = todo["js"]
  BY <1>0 DEF Reading
<1>b. CASE pc'["js"] # "read"
  BY <1>b DEF Reading
<1>1. CASE SetVideoMixLayout("engine")
  BY <1>0, <1>1, <1>a, PushMoves DEF Threads
<1>2. CASE TestCount("js") \/ TestEngine("js")
  BY <1>2, <1>b, <1>a, Order DEF TestCount, TestEngine
<1>3. CASE CallEngine("js")
  BY <1>3, <1>a DEF CallEngine, Reading
<1>4. ASSUME NEW field \in Fields, ReadField("js", field)
      PROVE  Reading'
  <2>1. /\ pc["js"] = "read" /\ m_layout' = m_layout
        /\ copy'["js"] = [copy["js"] EXCEPT ![field] = m_layout[field]]
        /\ todo'["js"] = todo["js"] \ {field}
    BY <1>4, <1>a DEF ReadField
  <2>2. \A f \in Fields : copy'["js"][f] = IF f = field
                            THEN m_layout[f] ELSE copy["js"][f]
    <3>1. CASE field = "count"
      BY <1>a, <2>1, <3>1 DEF Layout, Fields
    <3>2. CASE field = "regions"
      BY <1>a, <2>1, <3>2 DEF Layout, Fields
    <3> QED
      BY <3>1, <3>2 DEF Fields
  <2> QED
    BY <2>1, <2>2 DEF Reading
<1>5. CASE Mix("js")
  <2>1. CASE pc'["js"] = "read"
    BY <1>0, <1>5, <1>a, <2>1, Order DEF Mix
  <2> QED
    BY <1>b, <2>1
<1>6. CASE BeginCallback
  BY <1>0, <1>6, BeginMoves
<1>7. CASE StoppedOnError \/ Post
  BY <1>0, <1>7, CallbackMoves
<1>8. CASE RunUserEvent \/ RunLeaveChannel \/ RunError
  BY <1>b, <1>8, RunMoves
<1>9. CASE Quietly
  <2>1. pc'["js"] # "read"
    BY <1>9, <1>a, Order
       DEF Quietly, AssignField, ReleaseReturns, Stop, BeginRelease
  <2> QED
    BY <1>b, <2>1
<1>10. CASE UNCHANGED vars
  BY <1>0, <1>10 DEF vars
<1> QED
  BY <1>1, <1>2, <1>3, <1>4, <1>5, <1>6, <1>7, <1>8, <1>9, <1>10, Steps
     DEF Threads, SetVideoMixLayout

\* The engine finds in a whole layout the regions that are there.
LEMMA SeenWhole ==
  ASSUME NEW list \in Seq(Uids)
  PROVE  Seen(Converted(list)) = list
BY DEF Seen, Converted

\* The JavaScript thread pushes what it has laid out, and the engine's pushes
\* in between only while the event that made it is pending.
LEMMA MixesKept ==
  ASSUME Settling, [Next]_vars
  PROVE  Mixes'
<1> USE DEF At, Goto
<1>a. /\ pc \in [Threads -> Labels] /\ "engine" \in Threads /\ "js" \in Threads
      /\ m_layout \in Layout /\ copy \in [Threads -> Layout]
      /\ regions \in Seq(Uids) /\ IType /\ queue \in Seq(Event)
      /\ pending \in Seq(Event)
  BY PendingTyped DEF Settling, IType, TypeOK, Threads
<1>b. CASE pc'["js"] # "idle" \/ m_engine' = "null"
  BY <1>b DEF Mixes
<1>0. CASE /\ UNCHANGED <<regions, mixed, m_engine>>
           /\ pc["js"] = "idle"
           /\ ToSet(pending') \cap UserEvents = {}
                => ToSet(pending) \cap UserEvents = {}
  BY <1>0 DEF Mixes, Settling
<1>1. CASE SetVideoMixLayout("engine")
  <2>1. /\ told \in UserEvents /\ pending' = pending
        /\ pc["engine"] # "idle"
    BY <1>1, <1>a, PushMoves, PushKeepsPending
       DEF Settling, TellsUser, Pushing
  <2>2. told \in ToSet(pending)
    BY <1>a, <2>1, HeldAfterAppend DEF pending, UserEvents
  <2> QED
    BY <2>1, <2>2 DEF Mixes
<1>2. CASE TestCount("js")
  <2>1. CASE m_layout.count = 0
    <3>1. regions = <<>>
      BY <1>2, <1>a, <2>1 DEF TestCount, Settling, Assigned, Converted
    <3> QED
      BY <1>2, <3>1 DEF TestCount, Mixes
  <2>2. CASE m_layout.count # 0
    BY <1>2, <1>b, <1>a, <2>2 DEF TestCount
  <2> QED
    BY <2>1, <2>2
<1>3. CASE TestEngine("js")
  BY <1>3, <1>a, <1>b DEF TestEngine
<1>4. CASE CallEngine("js") \/ \E field \in Fields : ReadField("js", field)
  BY <1>4, <1>a, <1>b DEF CallEngine, ReadField
<1>5. CASE Mix("js")
  <2>1. CASE pc'["js"] # "idle"
    BY <1>b, <2>1
  <2>2. CASE pc'["js"] = "idle"
    <3>1. /\ pc["js"] = "read" /\ todo["js"] = {}
          /\ mixed' = Seen(copy["js"]) /\ regions' = regions
      BY <1>5, <1>a, <2>2 DEF Mix
    <3>2. copy["js"] = m_layout
      BY <1>a, <3>1, LayoutIs DEF Settling, Reading
    <3>3. m_layout = Converted(regions)
      BY <3>1 DEF Settling, Assigned
    <3>4. mixed' = regions
      BY <1>a, <3>1, <3>2, <3>3, SeenWhole
    <3> QED
      BY <3>1, <3>4 DEF Mixes
  <2> QED
    BY <2>1, <2>2
<1>6. CASE BeginCallback
  <2>1. /\ pending = queue /\ pending' = Append(pending, told')
        /\ told' \in Event
    BY <1>6, <1>a, BeginMoves DEF pending
  <2>2. ToSet(pending') = ToSet(pending) \cup {told'}
    BY <1>a, <2>1, HeldAfterAppend
  <2> QED
    BY <1>0, <1>b, <1>6, <1>a, <2>2, BeginMoves
<1>7. CASE StoppedOnError \/ Post
  BY <1>0, <1>b, <1>7, <1>a, CallbackMoves
<1>8. CASE RunUserEvent \/ RunLeaveChannel \/ RunError
  <2>1. /\ pending # <<>> /\ Head(pending) = Head(queue)
        /\ pending' = Tail(pending)
    BY <1>8, <1>a, RunMoves, OldestHeard
  <2>2. ToSet(pending) = {Head(queue)} \cup ToSet(pending')
    BY <1>a, <2>1, HeldBeforeTail
  <2> QED
    BY <1>0, <1>b, <1>8, <1>a, <2>2, RunMoves DEF UserEvents
<1>9. CASE Quietly
  BY <1>9, <1>a, <1>b, Order
     DEF Quietly, AssignField, ReleaseReturns, Stop, BeginRelease
<1>10. CASE UNCHANGED vars
  BY <1>0, <1>b, <1>10 DEF vars, pending
<1> QED
  BY <1>1, <1>2, <1>3, <1>4, <1>5, <1>6, <1>7, <1>8, <1>9, <1>10, Steps
     DEF Threads, SetVideoMixLayout

\* Whatever pushes of torn or outdated layouts the two threads overtake each
\* other with, when both are idle and nothing is pending the engine mixes the
\* recorder's layout, and that layout is of the users in the channel: for any
\* users, any number of callbacks and whether or not release waits.
THEOREM LayoutsSettle == Spec => []LayoutSettles
<1>1. Init => Settling
  <2> SUFFICES ASSUME Init PROVE Settling
    OBVIOUS
  <2>1. pending = <<>> /\ ToSet(regions) = {} /\ m_peers = {}
    BY DEF Init, pending, ToSet, Threads
  <2>2. Leads(<<>>, SUBSET Uids, Changes, {}, {})
    BY LeadsNowhere
  <2>3. Converted(<<>>) = NoLayout
    BY DEF Converted, NoLayout
  <2>4. pc["js"] = "idle" /\ pc["engine"] = "idle"
    BY DEF Init, Threads
  <2> QED
    BY <2>1, <2>2, <2>3, <2>4, InitTyped
       DEF Init, Settling, TellsUser, Traced, Assigned, Reading, Mixes, Pushing
<1>2. Settling /\ [Next]_vars => Settling'
  BY TypedKept, TellsUserKept, TracedKept, AssignedKept, ReadingKept, MixesKept
     DEF Settling
<1>3. Settling => LayoutSettles
  <2> SUFFICES ASSUME Settling, pc["js"] = "idle", pc["engine"] = "idle",
                      queue = <<>>, m_engine # "null"
               PROVE  /\ ToSet(regions) = m_peers
                      /\ regions # <<>> => mixed = regions
    BY DEF LayoutSettles, Threads
  <2>1. pending = <<>> /\ ToSet(<<>>) = {} /\ <<>> \in Seq(Event)
    BY DEF pending, ToSet
  <2>2. Leads(<<>>, SUBSET Uids, Changes, ToSet(regions), m_peers)
    BY <2>1 DEF Settling, Traced
  <2>3. ToSet(regions) = m_peers
    BY <2>1, <2>2, LeadsBack
  <2> QED
    BY <2>1, <2>3 DEF Settling, Mixes
<1> QED
  BY <1>1, <1>2, <1>3, PTL DEF Spec
=============================================================================
