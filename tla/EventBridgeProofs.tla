------------------------- MODULE EventBridgeProofs -------------------------
(***************************************************************************)
(* What a script that uses the native object beside the wrapper changes of *)
(* what the listeners are told, for any names and data: nothing.           *)
(*                                                                         *)
(* The wrapper registered its names first and so keeps them.  An event on  *)
(* its way is then either one of these, which goes through both queues in  *)
(* the order of the reports, or one that no listener hears.                *)
(***************************************************************************)
EXTENDS EventBridge, QueueLemmas

\* The wrapper keeps the names it registered and gets no other.
Registered ==
  \A name \in EventNames : m_callbacks[name] = "fire" <=> name \in Fired

\* A posted event is in its sequence, whatever the callback.
LEMMA PostTypes ==
  ASSUME TypeOK, NEW ev \in EventNames, NEW data \in Data, Post(ev, data)
  PROVE  queue' \in Seq(Event) /\ reported' \in Seq(Event)
<1>1. [ev |-> ev, data |-> data] \in Event
  BY DEF Event
<1> QED
  BY <1>1 DEF TypeOK, Post

\* The state of the bridge keeps its types: in particular the null pointer of
\* onAudioVolumeIndication gets into no event.
THEOREM TypeCorrect == Spec => []TypeOK
<1>1. Init => TypeOK
  <2> SUFFICES ASSUME Init PROVE TypeOK
    OBVIOUS
  <2>1. <<>> \in Seq(Event)
    OBVIOUS
  <2> QED
    BY <2>1 DEF Init, TypeOK
<1>2. TypeOK /\ [Next]_vars => TypeOK'
  <2> SUFFICES ASSUME TypeOK, [Next]_vars PROVE TypeOK'
    OBVIOUS
  <2> USE BridgeAssumption
  <2>1. ASSUME NEW size \in {"listed", "unlisted"}, SetMixLayout(size)
        PROVE  TypeOK'
    BY <2>1 DEF SetMixLayout, TypeOK
  <2>2. ASSUME NEW name \in EventNames, OnEvent(name)
        PROVE  TypeOK'
    BY <2>2 DEF OnEvent, AddEventHandler, TypeOK
  <2>3. CASE JoinUnlisted
    <3>1. PICK data \in Data : Post("error", data)
      BY <2>3 DEF JoinUnlisted
    <3>2. queue' \in Seq(Event) /\ reported' \in Seq(Event)
      BY <3>1, PostTypes
    <3> QED
      BY <2>3, <3>2 DEF JoinUnlisted, TypeOK
  <2>4. CASE JoinListed
    BY <2>4 DEF JoinListed, TypeOK
  <2>5. CASE Release
    BY <2>5 DEF Release, scriptVars, TypeOK
  <2>6. CASE RunTask
    <3>1. Head(queue) \in Event /\ Tail(queue) \in Seq(Event)
      BY <2>6 DEF RunTask, TypeOK
    <3>2. Append(immediates, Head(queue)) \in Seq(Event)
      BY <3>1 DEF TypeOK
    <3>3. Append(called, Head(queue)) \in Seq(Event)
      BY <3>1 DEF TypeOK
    <3> QED
      BY <2>6, <3>1, <3>2, <3>3 DEF RunTask, scriptVars, TypeOK
  <2>7. CASE Emit
    <3>1. Head(immediates) \in Event /\ Tail(immediates) \in Seq(Event)
      BY <2>7 DEF Emit, TypeOK
    <3>2. Append(heard, Head(immediates)) \in Seq(Event)
      BY <3>1 DEF TypeOK
    <3> QED
      BY <2>7, <3>1, <3>2 DEF Emit, scriptVars, TypeOK
  <2>8. CASE OnJoinChannelSuccess
    <3>1. queue' \in Seq(Event) /\ reported' \in Seq(Event)
      BY <2>8, PostTypes DEF OnJoinChannelSuccess, TypeOK
    <3> QED
      BY <2>8, <3>1 DEF OnJoinChannelSuccess, scriptVars, TypeOK
  <2>9. CASE OnError
    <3>1. queue' \in Seq(Event) /\ reported' \in Seq(Event)
      BY <2>9, PostTypes DEF OnError, TypeOK
    <3> QED
      BY <2>9, <3>1 DEF OnError, scriptVars, TypeOK
  <2>10. CASE OnLeaveChannel
    <3>1. queue' \in Seq(Event) /\ reported' \in Seq(Event)
      BY <2>10, PostTypes DEF OnLeaveChannel, TypeOK
    <3> QED
      BY <2>10, <3>1 DEF OnLeaveChannel, scriptVars, TypeOK
  <2>11. ASSUME NEW ev \in EventNames, OnReport(ev)
         PROVE  TypeOK'
    <3>1. queue' \in Seq(Event) /\ reported' \in Seq(Event)
      BY <2>11, PostTypes DEF OnReport, TypeOK
    <3> QED
      BY <2>11, <3>1 DEF OnReport, scriptVars, TypeOK
  <2>12. ASSUME NEW speakers \in {NoSpeakers, memory},
                OnAudioVolumeIndication(speakers)
         PROVE  TypeOK'
    <3>1. speakers \in Data
      BY <2>12 DEF OnAudioVolumeIndication, TypeOK
    <3>2. queue' \in Seq(Event) /\ reported' \in Seq(Event)
      BY <2>12, <3>1, PostTypes DEF OnAudioVolumeIndication
    <3> QED
      BY <2>12, <3>2 DEF OnAudioVolumeIndication, scriptVars, TypeOK
  <2>13. CASE ReuseMemory
    BY <2>13 DEF ReuseMemory, scriptVars, TypeOK
  <2>14. CASE UNCHANGED vars
    BY <2>14 DEF vars, TypeOK
  <2> QED
    BY <2>1, <2>2, <2>3, <2>4, <2>5, <2>6, <2>7, <2>8, <2>9, <2>10, <2>11,
       <2>12, <2>13, <2>14 DEF Next, Script, EngineThread
<1> QED
  BY <1>1, <1>2, PTL DEF Spec

-----------------------------------------------------------------------------
(* Who is told                                                             *)

\* Nothing the script does takes a name from the wrapper or gives it one.
LEMMA RegisteredInvariant == Spec => [](TypeOK /\ Registered)
<1>1. Init => Registered
  BY DEF Init, Registered
<1>2. TypeOK /\ Registered /\ [Next]_vars => Registered'
  <2> SUFFICES ASSUME TypeOK, Registered, [Next]_vars
               PROVE  Registered'
    OBVIOUS
  <2>1. ASSUME NEW name \in EventNames, OnEvent(name)
        PROVE  Registered'
    BY <2>1 DEF OnEvent, AddEventHandler, Registered, TypeOK
  <2>2. CASE UNCHANGED m_callbacks
    BY <2>2 DEF Registered
  <2>3. ASSUME NEW size \in {"listed", "unlisted"}, SetMixLayout(size)
        PROVE  UNCHANGED m_callbacks
    BY <2>3 DEF SetMixLayout
  <2>4. JoinUnlisted \/ JoinListed \/ Release \/ RunTask \/ Emit
          => UNCHANGED m_callbacks
    BY DEF JoinUnlisted, JoinListed, Release, RunTask, Emit, scriptVars
  <2>5. EngineThread => UNCHANGED m_callbacks
    BY DEF EngineThread, OnJoinChannelSuccess, OnError, OnLeaveChannel,
       OnReport, OnAudioVolumeIndication, ReuseMemory, scriptVars
  <2>6. UNCHANGED vars => UNCHANGED m_callbacks
    BY DEF vars
  <2> QED
    BY <2>1, <2>2, <2>3, <2>4, <2>5, <2>6 DEF Next, Script
<1> QED
  BY <1>1, <1>2, TypeCorrect, PTL DEF Spec

\* What one task does: the listeners' function or the script's is called.
LEMMA TaskTells ==
  ASSUME TypeOK, Registered, RunTask
  PROVE  /\ Head(queue) \in Event
         /\ Head(queue) \in FiredEvents =>
              /\ immediates' = Append(immediates, Head(queue))
              /\ called' = called
         /\ Head(queue) \notin FiredEvents =>
              /\ immediates' = immediates
              /\ called' \in {called, Append(called, Head(queue))}
<1>1. Head(queue) \in Event
  BY DEF RunTask, TypeOK
<1>2. Head(queue) \in FiredEvents <=> m_callbacks[Head(queue).ev] = "fire"
  BY <1>1 DEF FiredEvents, Registered, Event
<1> QED
  BY <1>1, <1>2 DEF RunTask

\* Whatever the script registers with the native object and whenever, its
\* functions are never called with an event the listeners hear.
THEOREM HeardOnce == Spec => []NothingHeardTwice
<1>1. Init => NothingHeardTwice
  BY DEF Init, NothingHeardTwice
<1>2. TypeOK /\ Registered /\ NothingHeardTwice /\ [Next]_vars
        => NothingHeardTwice'
  <2> SUFFICES ASSUME TypeOK, Registered, NothingHeardTwice, [Next]_vars
               PROVE  NothingHeardTwice'
    OBVIOUS
  <2>1. CASE RunTask
    <3>1. called \in Seq(Event)
      BY DEF TypeOK
    <3>2. CASE called' = called
      BY <3>2 DEF NothingHeardTwice, FiredEvents, Event
    <3>3. CASE called' = Append(called, Head(queue))
               /\ Head(queue) \in Event \ FiredEvents
      BY <3>1, <3>3 DEF NothingHeardTwice
    <3> QED
      BY <2>1, <3>2, <3>3, TaskTells
  <2>2. CASE UNCHANGED called
    BY <2>2 DEF NothingHeardTwice
  <2>3. ASSUME NEW size \in {"listed", "unlisted"}, SetMixLayout(size)
        PROVE  UNCHANGED called
    BY <2>3 DEF SetMixLayout
  <2>4. ASSUME NEW name \in EventNames, OnEvent(name)
        PROVE  UNCHANGED called
    BY <2>4 DEF OnEvent
  <2>5. JoinUnlisted \/ JoinListed \/ Release \/ Emit => UNCHANGED called
    BY DEF JoinUnlisted, JoinListed, Release, Emit, scriptVars
  <2>6. EngineThread => UNCHANGED called
    BY DEF EngineThread, OnJoinChannelSuccess, OnError, OnLeaveChannel,
       OnReport, OnAudioVolumeIndication, ReuseMemory, scriptVars
  <2>7. UNCHANGED vars => UNCHANGED called
    BY DEF vars
  <2> QED
    BY <2>1, <2>2, <2>3, <2>4, <2>5, <2>6, <2>7 DEF Next, Script
<1> QED
  BY <1>1, <1>2, RegisteredInvariant, PTL DEF Spec

-----------------------------------------------------------------------------
(* What they are told                                                      *)

\* An event that is posted is reported and queued, and told to nobody yet.
LEMMA PostFaithful ==
  ASSUME TypeOK, StreamFaithful, NEW ev \in EventNames, NEW data \in Data,
         Post(ev, data), UNCHANGED <<immediates, heard>>
  PROVE  StreamFaithful'
<1> DEFINE e == [ev |-> ev, data |-> data]
<1>1. /\ e \in Event /\ queue \in Seq(Event) /\ reported \in Seq(Event)
      /\ heard \o immediates \in Seq(Event)
  BY DEF Event, TypeOK
<1>2. queue' = Append(queue, e) /\ reported' = Append(reported, e)
  BY DEF Post
<1> HIDE DEF e
<1>3. Filtered(queue, FiredEvents) \in Seq(Event)
  BY <1>1, FilterTyped
<1>4. CASE e \in FiredEvents
  <2>1. /\ Filtered(queue', FiredEvents) =
              Append(Filtered(queue, FiredEvents), e)
        /\ Filtered(reported', FiredEvents) =
              Append(Filtered(reported, FiredEvents), e)
    BY <1>1, <1>2, <1>4, FilterAppend
  <2>2. \A x, y \in Seq(Event) : Append(x \o y, e) = x \o Append(y, e)
    <3>1. \A x, y \in Seq(Event), d \in Event :
            Append(x \o y, d) = x \o Append(y, d)
      OBVIOUS
    <3> QED
      BY <1>1, <3>1
  <2>3. FiredEvents' = FiredEvents
    BY DEF FiredEvents
  <2> QED
    BY <1>1, <1>3, <2>1, <2>2, <2>3 DEF StreamFaithful
<1>5. CASE e \notin FiredEvents
  <2>1. /\ Filtered(queue', FiredEvents) = Filtered(queue, FiredEvents)
        /\ Filtered(reported', FiredEvents) = Filtered(reported, FiredEvents)
    BY <1>1, <1>2, <1>5, FilterAppend
  <2> QED
    BY <2>1 DEF StreamFaithful
<1> QED
  BY <1>4, <1>5

\* A task and an immediate pass an event on and change nothing of the whole.
LEMMA LoopFaithful ==
  ASSUME TypeOK, Registered, StreamFaithful, RunTask \/ Emit
  PROVE  StreamFaithful'
<1>1. /\ queue \in Seq(Event) /\ heard \in Seq(Event)
      /\ immediates \in Seq(Event)
      /\ Filtered(queue, FiredEvents) \in Seq(Event)
  BY FilterTyped DEF TypeOK
<1>2. CASE RunTask
  <2> DEFINE rest == Filtered(Tail(queue), FiredEvents)
  <2>1. /\ queue # <<>> /\ queue' = Tail(queue) /\ Tail(queue) \in Seq(Event)
        /\ UNCHANGED <<heard, reported>>
    BY <1>1, <1>2 DEF RunTask
  <2>2. rest \in Seq(Event)
    BY <2>1, FilterTyped
  <2>3. Filtered(queue, FiredEvents) =
          IF Head(queue) \in FiredEvents THEN <<Head(queue)>> \o rest
          ELSE rest
    BY <1>1, <2>1, FilterTail
  <2> HIDE DEF rest
  <2>4. CASE Head(queue) \in FiredEvents
    <3>1. immediates' = Append(immediates, Head(queue))
          /\ Head(queue) \in Event
      BY <1>2, <2>4, TaskTells
    <3>2. <<Head(queue)>> \in Seq(Event) /\ heard \o immediates \in Seq(Event)
      BY <1>1, <3>1
    <3>3. \A x, y, z \in Seq(Event) : (x \o y) \o z = x \o (y \o z)
      OBVIOUS
    <3>4. Append(immediates, Head(queue)) = immediates \o <<Head(queue)>>
      BY <1>1, <3>1
    <3>5. heard \o immediates \o (<<Head(queue)>> \o rest) =
            heard \o immediates \o <<Head(queue)>> \o rest
      BY <2>2, <3>2, <3>3, Zenon
    <3>6. heard \o immediates \o <<Head(queue)>> =
            heard \o (immediates \o <<Head(queue)>>)
      BY <1>1, <3>2, <3>3, Zenon
    <3>7. heard \o immediates \o (<<Head(queue)>> \o rest) =
            heard \o Append(immediates, Head(queue)) \o rest
      BY <3>4, <3>5, <3>6, Zenon
    <3> QED
      BY <2>1, <2>3, <2>4, <3>1, <3>7 DEF StreamFaithful, rest
  <2>5. CASE Head(queue) \notin FiredEvents
    <3>1. immediates' = immediates
      BY <1>2, <2>5, TaskTells
    <3> QED
      BY <2>1, <2>3, <2>5, <3>1 DEF StreamFaithful, rest
  <2> QED
    BY <2>4, <2>5
<1>3. CASE Emit
  <2>1. /\ immediates # <<>> /\ UNCHANGED <<queue, reported>>
        /\ heard' = Append(heard, Head(immediates))
        /\ immediates' = Tail(immediates)
    BY <1>3 DEF Emit
  <2>2. heard \o immediates =
          Append(heard, Head(immediates)) \o Tail(immediates)
    BY <1>1, <2>1
  <2> QED
    BY <2>1, <2>2 DEF StreamFaithful
<1> QED
  BY <1>2, <1>3

\* From end to end, for any names, data and script: the listeners hear what
\* the engine reported, as it was then, each event once and in order.
THEOREM StreamIsFaithful == Spec => []StreamFaithful
<1>1. Init => StreamFaithful
  BY FilterEmpty DEF Init, StreamFaithful
<1>2. TypeOK /\ Registered /\ StreamFaithful /\ [Next]_vars => StreamFaithful'
  <2> SUFFICES ASSUME TypeOK, Registered, StreamFaithful, [Next]_vars
               PROVE  StreamFaithful'
    OBVIOUS
  <2> USE BridgeAssumption
  <2>1. memory \in Data
    BY DEF TypeOK
  <2>2. CASE UNCHANGED <<queue, immediates, heard, reported>>
    BY <2>2 DEF StreamFaithful
  <2>3. CASE RunTask \/ Emit
    BY <2>3, LoopFaithful
  <2>4. CASE JoinUnlisted
    BY <2>4, PostFaithful DEF JoinUnlisted
  <2>5. CASE OnJoinChannelSuccess \/ OnError \/ OnLeaveChannel
    BY <2>1, <2>5, PostFaithful
       DEF OnJoinChannelSuccess, OnError, OnLeaveChannel
  <2>6. ASSUME NEW ev \in EventNames, OnReport(ev)
        PROVE  StreamFaithful'
    BY <2>1, <2>6, PostFaithful DEF OnReport
  <2>7. ASSUME NEW speakers \in {NoSpeakers, memory},
               OnAudioVolumeIndication(speakers)
        PROVE  StreamFaithful'
    <3>1. speakers \in Data
      BY <2>1, <2>7 DEF OnAudioVolumeIndication
    <3> QED
      BY <2>7, <3>1, PostFaithful DEF OnAudioVolumeIndication
  <2>8. ReuseMemory \/ JoinListed \/ Release
          => UNCHANGED <<queue, immediates, heard, reported>>
    BY DEF ReuseMemory, JoinListed, Release
  <2>9. ASSUME NEW name \in EventNames, OnEvent(name)
        PROVE  UNCHANGED <<queue, immediates, heard, reported>>
    BY <2>9 DEF OnEvent
  <2>10. ASSUME NEW size \in {"listed", "unlisted"}, SetMixLayout(size)
         PROVE  UNCHANGED <<queue, immediates, heard, reported>>
    BY <2>10 DEF SetMixLayout
  <2>11. UNCHANGED vars => UNCHANGED <<queue, immediates, heard, reported>>
    BY DEF vars
  <2> QED
    BY <2>2, <2>3, <2>4, <2>5, <2>6, <2>7, <2>8, <2>9, <2>10, <2>11
       DEF Next, Script, EngineThread
<1> QED
  BY <1>1, <1>2, RegisteredInvariant, PTL DEF Spec
=============================================================================
