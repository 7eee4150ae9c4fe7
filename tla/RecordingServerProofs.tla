----------------------- MODULE RecordingServerProofs -----------------------
(***************************************************************************)
(* What is proved of RecordingServer, for any sessions and users, either   *)
(* order of promise reactions and any combination of failures: its types,  *)
(* that no engine is orphaned, that an error is not lost on its way, that  *)
(* a stop is final, and that clients see the life cycle they are promised. *)
(***************************************************************************)
EXTENDS RecordingServer, QueueLemmas

-----------------------------------------------------------------------------
(* Layouts                                                                 *)

\* A tile is always one of the four quarters of the canvas.
LEMMA CornerOnCanvas ==
  ASSUME NEW n
  PROVE  Corner(n) \in [x : {0, TileWidth}, y : {0, TileHeight}]
<1>1. CASE n \in 1..3
  <2>1. n = 1 \/ n = 2 \/ n = 3
    BY <1>1
  <2> QED
    BY <1>1, <2>1 DEF Corner, TileWidth, TileHeight
<1>2. CASE n \notin 1..3
  BY <1>2 DEF Corner
<1> QED
  BY <1>1, <1>2

\* The handlers of "userjoin" and "userleave" keep to the regions there are.
LEMMA LayoutTypes ==
  ASSUME NEW U, NEW layout \in SUBSET Regions(U), NEW u \in U
  PROVE  /\ WithUser(layout, u) \in SUBSET Regions(U)
         /\ WithoutUser(layout, u) \in SUBSET Regions(U)
<1>1. [uid |-> u, at |-> Corner(Cardinality(layout))] \in Regions(U)
  BY CornerOnCanvas DEF Regions
<1> QED
  BY <1>1 DEF WithUser, WithoutUser

\* A layout of users is also one of which some regions are nobody's.
LEMMA MixedTypes ==
  ASSUME TypeOK, NEW s \in Sids,
         NEW layout \in SUBSET Regions(Uids \cup {NoUid}),
         SetVideoMixLayout(s, layout)
  PROVE  mixed' \in [Sids -> SUBSET Regions(Uids \cup {NoUid})]
  BY DEF TypeOK, SetVideoMixLayout

\* Storing a layout and telling the engine keeps both typed.
LEMMA SetMixLayoutTypes ==
  ASSUME TypeOK, NEW s \in Sids, NEW layout \in SUBSET Regions(Uids),
         SetMixLayout(s, layout)
  PROVE  /\ m_layout' \in [Sids -> SUBSET Regions(Uids)]
         /\ mixed' \in [Sids -> SUBSET Regions(Uids \cup {NoUid})]
         /\ seen' \in [Sids -> SUBSET SUBSET Regions(Uids)]
<1>1. layout \in SUBSET Regions(Uids \cup {NoUid})
  BY DEF Regions
<1>2. SetVideoMixLayout(s, layout)
  BY DEF SetMixLayout
<1>3. seen[s] \cup {layout} \in SUBSET SUBSET Regions(Uids)
  BY DEF TypeOK
<1> QED
  BY <1>1, <1>2, <1>3, MixedTypes DEF TypeOK, SetMixLayout

-----------------------------------------------------------------------------
(* Types                                                                   *)

\* The server starts with its types.
LEMMA TypeInit == Init => TypeOK
<1> SUFFICES ASSUME Init
             PROVE  TypeOK
  OBVIOUS
<1>1. queue \in Seq(Event) /\ immediates \in Seq(Event)
  BY DEF Init
<1>2. raised \in 0..MaxEvents
  BY ServerAssumption DEF Init
<1> QED
  BY <1>1, <1>2 DEF Init, TypeOK, StartStates, EngineStates

\* Every step of the server keeps them.
LEMMA TypeNext == TypeOK /\ [Next]_vars => TypeOK'
<1> SUFFICES ASSUME TypeOK, [Next]_vars
             PROVE  TypeOK'
  OBVIOUS
<1> USE ServerAssumption DEF TypeOK, layoutVars, engineVars
<1>1. ASSUME NEW s \in Sids, Request(s)
      PROVE  TypeOK'
  <2>1. CASE Start(s)
    BY <2>1 DEF Start, Advance, StartStates
  <2>2. CASE Stop(s)
    <3>1. /\ engine' \in [Sids -> EngineStates] /\ recorders' \subseteq Sids
          /\ stopReplies' \in [Sids -> SUBSET {"ok", "error"}]
      BY <2>2 DEF Stop, OnCleanup, Release, EngineStates
    <3> QED
      BY <2>2, <3>1 DEF Stop
  <2>3. CASE StopUnknown(s)
    BY <2>3 DEF StopUnknown
  <2> QED
    BY <1>1, <2>1, <2>2, <2>3 DEF Request
<1>2. ASSUME NEW s \in Sids, FsCallback(s)
      PROVE  TypeOK'
  <2>1. CASE StorageReady(s)
    <3>1. {} \in SUBSET Regions(Uids)
      OBVIOUS
    <3> QED
      BY <2>1, <3>1, SetMixLayoutTypes DEF StorageReady, Advance, StartStates
  <2>2. CASE StorageFails(s)
    BY <2>2 DEF StorageFails, UncaughtThrow
  <2>3. CASE FolderWritable(s)
    BY <2>3 DEF FolderWritable, Advance, StartStates
  <2>4. CASE JoinNative(s)
    BY <2>4 DEF JoinNative, CreateChannel, Advance, StartStates, EngineStates
  <2>5. CASE JoinThrows(s)
    BY <2>5 DEF JoinThrows, UncaughtThrow
  <2> QED
    BY <1>2, <2>1, <2>2, <2>3, <2>4, <2>5 DEF FsCallback
<1>3. ASSUME NEW s \in Sids, RegisterRecorder(s)
      PROVE  TypeOK'
  BY <1>3 DEF RegisterRecorder, Advance, StartStates
<1>4. ASSUME NEW s \in Sids, EngineThread(s)
      PROVE  TypeOK'
  <2>1. ASSUME NEW ev \in EventNames, NEW u \in Uids \cup {NoUid},
               NEW label \in {"push", "stop", "post"}, Begin(s, ev, u, label)
        PROVE  /\ pc' \in [Sids -> {"idle", "push", "stop", "post"}]
               /\ posting' \in [Sids -> SUBSET Event]
    <3>1. [ev |-> ev, sid |-> s, uid |-> u] \in Event
      BY DEF Event
    <3> QED
      BY <2>1, <3>1 DEF Begin
  <2>2. CASE OnJoinChannelSuccess(s)
    <3>1. /\ pc' \in [Sids -> {"idle", "push", "stop", "post"}]
          /\ posting' \in [Sids -> SUBSET Event]
      BY <2>1, <2>2 DEF OnJoinChannelSuccess, EventNames
    <3> QED
      BY <2>2, <3>1 DEF OnJoinChannelSuccess, EngineStates
  <2>3. CASE OnError(s)
    <3>1. /\ pc' \in [Sids -> {"idle", "push", "stop", "post"}]
          /\ posting' \in [Sids -> SUBSET Event]
      BY <2>1, <2>3 DEF OnError, EventNames
    <3>2. raised' \in 0..MaxEvents /\ engine' \in [Sids -> EngineStates]
      BY <2>3 DEF OnError, Report, EngineStates
    <3> QED
      BY <2>3, <3>1, <3>2 DEF OnError
  <2>4. CASE OnLeaveChannel(s)
    <3>1. /\ pc' \in [Sids -> {"idle", "push", "stop", "post"}]
          /\ posting' \in [Sids -> SUBSET Event]
      BY <2>1, <2>4 DEF OnLeaveChannel, EventNames
    <3>2. raised' \in 0..MaxEvents /\ engine' \in [Sids -> EngineStates]
      BY <2>4 DEF OnLeaveChannel, Report, EngineStates
    <3> QED
      BY <2>4, <3>1, <3>2 DEF OnLeaveChannel
  <2>5. ASSUME NEW u \in Uids, OnUserJoined(s, u) \/ OnUserOffline(s, u)
        PROVE  TypeOK'
    <3>1. /\ pc' \in [Sids -> {"idle", "push", "stop", "post"}]
          /\ posting' \in [Sids -> SUBSET Event]
      BY <2>1, <2>5 DEF OnUserJoined, OnUserOffline, EventNames
    <3>2. seen' \in [Sids -> SUBSET SUBSET Regions(Uids)]
      <4>1. {m_layout[s]} \in SUBSET SUBSET Regions(Uids)
        OBVIOUS
      <4> QED
        BY <2>5, <4>1 DEF OnUserJoined, OnUserOffline
    <3>3. m_peers' \in [Sids -> SUBSET Uids]
      <4>1. m_peers[s] \cup {u} \in SUBSET Uids
        OBVIOUS
      <4>2. m_peers[s] \ {u} \in SUBSET Uids
        OBVIOUS
      <4>3. \E peers \in SUBSET Uids : m_peers' = [m_peers EXCEPT ![s] = peers]
        BY <2>5, <4>1, <4>2 DEF OnUserJoined, OnUserOffline
      <4> QED
        BY <4>3
    <3>4. raised' \in 0..MaxEvents
      BY <2>5 DEF OnUserJoined, OnUserOffline, Report
    <3>5. UNCHANGED <<proc, phase, node, start, stopReplies, recorders,
                      regions, m_layout, mixed, engine, queue, immediates>>
      BY <2>5 DEF OnUserJoined, OnUserOffline
    <3>6. early' \in [Sids -> SUBSET Uids]
      <4>1. early[s] \cup {u} \in SUBSET Uids
        OBVIOUS
      <4>2. early[s] \ {u} \in SUBSET Uids
        OBVIOUS
      <4>3. \/ early' = early
            \/ \E users \in SUBSET Uids : early' = [early EXCEPT ![s] = users]
        BY <2>5, <4>1, <4>2 DEF OnUserJoined, OnUserOffline
      <4> QED
        BY <4>3
    <3> QED
      BY <3>1, <3>2, <3>3, <3>4, <3>5, <3>6
  <2>6. CASE PushLayout(s)
    <3>1. mixed' \in [Sids -> SUBSET Regions(Uids \cup {NoUid})]
      <4>1. {Stray} \in SUBSET Regions(Uids \cup {NoUid})
        BY CornerOnCanvas DEF Stray, Regions
      <4>2. \A layout \in seen[s] :
              layout \in SUBSET Regions(Uids \cup {NoUid})
        BY DEF Regions
      <4>3. PICK layout \in seen[s] \cup {{Stray}} :
              SetVideoMixLayout(s, layout)
        BY <2>6 DEF PushLayout
      <4> QED
        BY <4>1, <4>2, <4>3, MixedTypes
    <3>2. /\ pc' \in [Sids -> {"idle", "push", "stop", "post"}]
          /\ seen' \in [Sids -> SUBSET SUBSET Regions(Uids)]
      BY <2>6 DEF PushLayout
    <3> QED
      BY <2>6, <3>1, <3>2 DEF PushLayout
  <2>7. CASE StoppedOnError(s)
    BY <2>7 DEF StoppedOnError
  <2>8. CASE Post(s)
    <3>1. queue' \in Seq(Event)
      BY <2>8, AppendedQueue DEF Post, AsyncCall
    <3> QED
      BY <2>8, <3>1 DEF Post
  <2>9. CASE EngineFault(s)
    BY <2>9 DEF EngineFault, engineVars
  <2> QED
    BY <1>4, <2>2, <2>3, <2>4, <2>5, <2>6, <2>7, <2>8, <2>9
       DEF EngineThread, Callback
<1>5. CASE RunTask
  <2>1. queue' \in Seq(Event) /\ Head(queue) \in Event
    BY <1>5, TailOfQueue DEF RunTask
  <2>2. immediates' \in Seq(Event)
    BY <1>5, <2>1 DEF RunTask
  <2> QED
    BY <1>5, <2>1, <2>2 DEF RunTask
<1>6. CASE EnterCheck \/ LeaveCheck
  BY <1>6 DEF EnterCheck, LeaveCheck
<1>7. CASE Emit
  <2>1. ASSUME NEW s \in Sids, EmitJoinChannel(s)
        PROVE  TypeOK'
    <3>1. immediates' \in Seq(Event)
      BY <2>1, TailOfQueue DEF EmitJoinChannel, NextIs
    <3> QED
      BY <2>1, <3>1 DEF EmitJoinChannel, StartStates
  <2>2. ASSUME NEW s \in Sids, EmitError(s)
        PROVE  TypeOK'
    <3>1. immediates' \in Seq(Event)
      <4>1. immediates # <<>>
        BY <2>2 DEF EmitError, NextIs
      <4>2. immediates' = Tail(immediates) \/ immediates' = immediates
        BY <2>2 DEF EmitError
      <4>3. Tail(immediates) \in Seq(Event)
        BY <4>1, TailOfQueue
      <4> QED
        BY <4>2, <4>3
    <3> QED
      BY <2>2, <3>1
         DEF EmitError, OnCleanup, Release, UncaughtThrow, StartStates,
             EngineStates
  <2>3. ASSUME NEW s \in Sids, NEW u \in Uids, EmitUserJoin(s, u)
        PROVE  TypeOK'
    <3>1. immediates' \in Seq(Event)
      BY <2>3, TailOfQueue DEF EmitUserJoin, NextIs
    <3>2. CASE s \in recorders
      <4>1. WithUser(regions[s], u) \in SUBSET Regions(Uids)
        BY LayoutTypes
      <4>2. SetMixLayout(s, WithUser(regions[s], u))
        BY <2>3, <3>2 DEF EmitUserJoin
      <4>3. /\ m_layout' \in [Sids -> SUBSET Regions(Uids)]
            /\ mixed' \in [Sids -> SUBSET Regions(Uids \cup {NoUid})]
            /\ seen' \in [Sids -> SUBSET SUBSET Regions(Uids)]
        BY <4>1, <4>2, SetMixLayoutTypes
      <4>4. regions' \in [Sids -> SUBSET Regions(Uids)]
        BY <2>3, <3>2, <4>1 DEF EmitUserJoin
      <4> QED
        BY <2>3, <3>1, <4>3, <4>4 DEF EmitUserJoin
    <3>3. CASE s \notin recorders
      BY <2>3, <3>1, <3>3 DEF EmitUserJoin
    <3> QED
      BY <3>2, <3>3
  <2>4. ASSUME NEW s \in Sids, NEW u \in Uids, EmitUserLeave(s, u)
        PROVE  TypeOK'
    <3>1. immediates' \in Seq(Event)
      BY <2>4, TailOfQueue DEF EmitUserLeave, NextIs
    <3>2. CASE s \in recorders
      <4>1. WithoutUser(regions[s], u) \in SUBSET Regions(Uids)
        BY LayoutTypes
      <4>2. SetMixLayout(s, WithoutUser(regions[s], u))
        BY <2>4, <3>2 DEF EmitUserLeave
      <4>3. /\ m_layout' \in [Sids -> SUBSET Regions(Uids)]
            /\ mixed' \in [Sids -> SUBSET Regions(Uids \cup {NoUid})]
            /\ seen' \in [Sids -> SUBSET SUBSET Regions(Uids)]
        BY <4>1, <4>2, SetMixLayoutTypes
      <4>4. regions' \in [Sids -> SUBSET Regions(Uids)]
        BY <2>4, <3>2, <4>1 DEF EmitUserLeave
      <4> QED
        BY <2>4, <3>1, <4>3, <4>4 DEF EmitUserLeave
    <3>3. CASE s \notin recorders
      BY <2>4, <3>1, <3>3 DEF EmitUserLeave
    <3> QED
      BY <3>2, <3>3
  <2> QED
    BY <1>7, <2>1, <2>2, <2>3, <2>4 DEF Emit
<1>8. CASE UNCHANGED vars
  BY <1>8 DEF vars
<1> QED
  BY <1>1, <1>2, <1>3, <1>4, <1>5, <1>6, <1>7, <1>8 DEF Next

\* Every variable of the server keeps its type; in particular every tile is
\* one of the four quarters of the canvas.
THEOREM TypeCorrect == Spec => []TypeOK
  BY TypeInit, TypeNext, PTL DEF Spec

-----------------------------------------------------------------------------
(* Events in flight                                                        *)

\* A callback that begins puts one more event in flight.
LEMMA FlightOfBegin ==
  ASSUME TypeOK, NEW s \in Sids, NEW ev, NEW u, NEW label,
         Begin(s, ev, u, label), posting[s] = {},
         queue' = queue, immediates' = immediates
  PROVE  InFlight' = InFlight \cup {[ev |-> ev, sid |-> s, uid |-> u]}
<1> DEFINE e == [ev |-> ev, sid |-> s, uid |-> u]
<1>1. posting' = [posting EXCEPT ![s] = {e}]
  BY DEF Begin
<1> HIDE DEF e
<1>2. \A t \in Sids : posting'[t] = IF t = s THEN {e} ELSE posting[t]
  BY <1>1 DEF TypeOK
<1>3. InFlight' = InFlight \cup {e}
  <2>1. \A x : x \in InFlight' <=> \/ x \in ToSet(queue) \cup ToSet(immediates)
                                  \/ \E t \in Sids : x \in posting'[t]
    BY DEF InFlight
  <2>2. \A x : x \in InFlight <=> \/ x \in ToSet(queue) \cup ToSet(immediates)
                                 \/ \E t \in Sids : x \in posting[t]
    BY DEF InFlight
  <2>3. \A x : x \in InFlight' <=> x \in InFlight \/ x = e
    BY <1>2, <2>1, <2>2
  <2> QED
    BY <2>3
<1> QED
  BY <1>3 DEF e

\* A callback that posts its event leaves it in flight.
LEMMA FlightOfPost ==
  ASSUME TypeOK, NEW s \in Sids, Post(s), NEW e, posting[s] = {e}
  PROVE  /\ queue' = Append(queue, e)
         /\ InFlight' = InFlight
<1>1. e \in Event /\ queue \in Seq(Event)
  BY DEF TypeOK
<1>2. /\ queue' = Append(queue, e) /\ immediates' = immediates
      /\ posting' = [posting EXCEPT ![s] = {}]
  BY DEF Post, AsyncCall
<1>3. ToSet(queue') = ToSet(queue) \cup {e}
  BY <1>1, <1>2, HeldAfterAppend
<1>4. \A t \in Sids : posting'[t] = IF t = s THEN {} ELSE posting[t]
  BY <1>2 DEF TypeOK
<1>5. \A x : x \in InFlight' <=> \/ x \in ToSet(queue') \cup ToSet(immediates)
                                \/ \E t \in Sids : x \in posting'[t]
  BY <1>2 DEF InFlight
<1>6. \A x : x \in InFlight <=> \/ x \in ToSet(queue) \cup ToSet(immediates)
                               \/ \E t \in Sids : x \in posting[t]
  BY DEF InFlight
<1>7. \A x : x \in InFlight' <=> x \in InFlight
  BY <1>3, <1>4, <1>5, <1>6
<1> QED
  BY <1>2, <1>7

\* A task that runs keeps every event in flight that has a callback.
LEMMA FlightOfTask ==
  ASSUME TypeOK, RunTask, NEW e \in InFlight, e.ev \in Forwarded
  PROVE  e \in InFlight'
<1>1. queue \in Seq(Event) /\ queue # <<>> /\ immediates \in Seq(Event)
  BY DEF TypeOK, RunTask
<1>2. ToSet(queue) = {Head(queue)} \cup ToSet(Tail(queue))
  BY <1>1, HeldBeforeTail
<1>3. Head(queue) \in Event
  BY <1>1, TailOfQueue
<1>4. ToSet(Append(immediates, Head(queue))) =
        ToSet(immediates) \cup {Head(queue)}
  BY <1>1, <1>3, HeldAfterAppend
<1>5. queue' = Tail(queue) /\ posting' = posting
  BY DEF RunTask, engineVars
<1>6. CASE e \in ToSet(immediates)
  <2>1. e \in ToSet(immediates')
    BY <1>4, <1>6 DEF RunTask
  <2> QED
    BY <2>1 DEF InFlight
<1>7. CASE e = Head(queue)
  <2>1. immediates' = Append(immediates, Head(queue))
    BY <1>7 DEF RunTask
  <2> QED
    BY <1>4, <1>7, <2>1 DEF InFlight
<1>8. CASE e \in ToSet(Tail(queue))
  BY <1>5, <1>8 DEF InFlight
<1>9. CASE e \in UNION {posting[s] : s \in Sids}
  BY <1>5, <1>9 DEF InFlight
<1> QED
  BY <1>2, <1>6, <1>7, <1>8, <1>9 DEF InFlight

\* An immediate that runs takes only its own event out of flight.
LEMMA FlightOfEmit ==
  ASSUME TypeOK, NEW ev, NEW s, NEW u, NextIs(ev, s, u),
         immediates' = Tail(immediates), queue' = queue, posting' = posting,
         NEW e \in InFlight, e # [ev |-> ev, sid |-> s, uid |-> u]
  PROVE  e \in InFlight'
<1>1. immediates \in Seq(Event) /\ immediates # <<>>
  BY DEF TypeOK, NextIs
<1>2. ToSet(immediates) = {Head(immediates)} \cup ToSet(Tail(immediates))
  BY <1>1, HeldBeforeTail
<1>3. e # Head(immediates)
  BY DEF NextIs
<1> QED
  BY <1>2, <1>3 DEF InFlight

-----------------------------------------------------------------------------
(* The inductive invariant                                                 *)

\* What holds of one session: the two safety properties, the bookkeeping they
\* rest on, and that a callback that is running has one event to post.
SessionInv(s) ==
  /\ engine[s] \in {"in", "left"} =>
       \/ s \in recorders
       \/ start[s] = "resolved"
       \/ start[s] = "joining" /\ EventInFlight("joinchannel", s)
  /\ engine[s] = "stopped" => EventInFlight("error", s)
  /\ start[s] \in {"none", "mkdir", "access", "writeFile"} =>
       engine[s] = "null"
  /\ start[s] # "failed"
  /\ s \in recorders => start[s] = "answered"
  /\ start[s] = "answered" /\ s \notin recorders => engine[s] = "null"
  /\ "ok" \in stopReplies[s] => start[s] = "answered" /\ s \notin recorders
  /\ pc[s] = "idle" => posting[s] = {}
  /\ pc[s] # "idle" => \E e \in Event : posting[s] = {e} /\ e.sid = s

IInv == \A s \in Sids : SessionInv(s)

\* The invariant says what the runs check.
LEMMA InvMeaning ==
  IInv => NoOrphanEngine /\ StoppedEngineIsReported /\ Bookkeeping
          /\ StopIsFinal
  BY DEF IInv, SessionInv, NoOrphanEngine, StoppedEngineIsReported,
         Bookkeeping, StopIsFinal

\* There is no engine and no event at first.
LEMMA InvInit == Init => IInv
  BY DEF Init, IInv, SessionInv

\* While the news of a session stays in flight and nothing else of it changes,
\* nothing is lost.
LEMMA InvKept ==
  ASSUME NEW t \in Sids, SessionInv(t),
         start'[t] = start[t], stopReplies'[t] = stopReplies[t],
         pc'[t] = pc[t], posting'[t] = posting[t],
         engine'[t] = engine[t], t \in recorders' <=> t \in recorders,
         \A ev \in {"joinchannel", "error"} :
           EventInFlight(ev, t) => EventInFlight(ev, t)'
  PROVE  SessionInv(t)'
  BY DEF SessionInv

\* Action by action: what each does to the start, the engine and the events
\* in flight of a session.
LEMMA InvNext == TypeOK /\ IInv /\ [Next]_vars => IInv'
<1> SUFFICES ASSUME TypeOK, IInv, [Next]_vars, NEW t \in Sids
             PROVE  SessionInv(t)'
  BY DEF IInv
<1>1. SessionInv(t)
  BY DEF IInv
<1>2. ASSUME queue' = queue, immediates' = immediates, posting' = posting,
             NEW ev
      PROVE  EventInFlight(ev, t)' <=> EventInFlight(ev, t)
  BY <1>2 DEF EventInFlight, InFlight
<1>3. ASSUME NEW s \in Sids, Request(s)
      PROVE  SessionInv(t)'
  <2>1. /\ queue' = queue /\ immediates' = immediates
        /\ posting' = posting /\ pc' = pc
    BY <1>3 DEF Request, Start, Stop, StopUnknown, engineVars
  <2>2. CASE Start(s)
    BY <1>1, <1>2, <2>1, <2>2 DEF SessionInv, Start, Advance, TypeOK
  <2>3. CASE Stop(s)
    BY <1>1, <1>2, <2>1, <2>3 DEF SessionInv, Stop, OnCleanup, Release, TypeOK
  <2>4. CASE StopUnknown(s)
    BY <1>1, <1>2, <2>1, <2>4 DEF SessionInv, StopUnknown, TypeOK
  <2> QED
    BY <1>3, <2>2, <2>3, <2>4 DEF Request
<1>4. ASSUME NEW s \in Sids, FsCallback(s)
      PROVE  SessionInv(t)'
  <2>1. /\ queue' = queue /\ immediates' = immediates
        /\ posting' = posting /\ pc' = pc
    BY <1>4 DEF FsCallback, StorageReady, StorageFails, FolderWritable,
                JoinNative, JoinThrows, engineVars
  <2>2. CASE StorageReady(s)
    BY <1>1, <1>2, <2>1, <2>2 DEF SessionInv, StorageReady, Advance, TypeOK
  <2>3. CASE StorageFails(s)
    BY <1>1, <1>2, <2>1, <2>3 DEF SessionInv, StorageFails
  <2>4. CASE FolderWritable(s)
    BY <1>1, <1>2, <2>1, <2>4 DEF SessionInv, FolderWritable, Advance, TypeOK
  <2>5. CASE JoinNative(s)
    BY <1>1, <1>2, <2>1, <2>5
       DEF SessionInv, JoinNative, CreateChannel, Advance, TypeOK
  <2>6. CASE JoinThrows(s)
    BY <1>1, <1>2, <2>1, <2>6, InvKept DEF JoinThrows
  <2> QED
    BY <1>4, <2>2, <2>3, <2>4, <2>5, <2>6 DEF FsCallback
<1>5. ASSUME NEW s \in Sids, RegisterRecorder(s)
      PROVE  SessionInv(t)'
  <2>1. /\ queue' = queue /\ immediates' = immediates
        /\ posting' = posting /\ pc' = pc
    BY <1>5 DEF RegisterRecorder, engineVars
  <2> QED
    BY <1>1, <1>2, <1>5, <2>1
       DEF SessionInv, RegisterRecorder, Advance, TypeOK
<1>6. ASSUME NEW s \in Sids, EngineThread(s)
      PROVE  SessionInv(t)'
  <2>0. SessionInv(s)
    BY DEF IInv
  <2>1. ASSUME NEW ev \in EventNames, NEW u \in Uids \cup {NoUid}, NEW label,
               Begin(s, ev, u, label), label # "idle",
               queue' = queue, immediates' = immediates
        PROVE  /\ \A name : EventInFlight(name, t) => EventInFlight(name, t)'
               /\ EventInFlight(ev, s)'
               /\ pc'[t] = "idle" => posting'[t] = {}
               /\ pc'[t] # "idle" =>
                    \E e \in Event : posting'[t] = {e} /\ e.sid = t
    <3> DEFINE new == [ev |-> ev, sid |-> s, uid |-> u]
    <3>1. new \in Event /\ new.ev = ev /\ new.sid = s
      BY DEF Event
    <3>2. /\ pc' = [pc EXCEPT ![s] = label]
          /\ posting' = [posting EXCEPT ![s] = {new}]
      BY <2>1 DEF Begin
    <3>3. InFlight' = InFlight \cup {new}
      BY <2>0, <2>1, FlightOfBegin DEF SessionInv, Begin
    <3> HIDE DEF new
    <3>4. /\ pc'[t] = "idle" => posting'[t] = {}
          /\ pc'[t] # "idle" =>
               \E e \in Event : posting'[t] = {e} /\ e.sid = t
      BY <1>1, <2>1, <3>1, <3>2 DEF SessionInv, TypeOK
    <3> QED
      BY <3>1, <3>3, <3>4 DEF EventInFlight
  <2>2. NoUid \in Uids \cup {NoUid}
    OBVIOUS
  <2>3. CASE OnJoinChannelSuccess(s)
    <3>1. /\ \A name : EventInFlight(name, t) => EventInFlight(name, t)'
          /\ EventInFlight("joinchannel", s)'
          /\ pc'[t] = "idle" => posting'[t] = {}
          /\ pc'[t] # "idle" =>
               \E e \in Event : posting'[t] = {e} /\ e.sid = t
      BY <2>1, <2>2, <2>3 DEF OnJoinChannelSuccess, EventNames
    <3> QED
      BY <1>1, <2>3, <3>1
         DEF SessionInv, OnJoinChannelSuccess, TypeOK, StartStates
  <2>4. CASE OnError(s)
    <3>1. /\ \A name : EventInFlight(name, t) => EventInFlight(name, t)'
          /\ EventInFlight("error", s)'
          /\ pc'[t] = "idle" => posting'[t] = {}
          /\ pc'[t] # "idle" =>
               \E e \in Event : posting'[t] = {e} /\ e.sid = t
      BY <2>1, <2>2, <2>4 DEF OnError, EventNames
    <3> QED
      BY <1>1, <2>4, <3>1 DEF SessionInv, OnError, TypeOK
  <2>5. CASE OnLeaveChannel(s)
    <3>1. /\ \A name : EventInFlight(name, t) => EventInFlight(name, t)'
          /\ pc'[t] = "idle" => posting'[t] = {}
          /\ pc'[t] # "idle" =>
               \E e \in Event : posting'[t] = {e} /\ e.sid = t
      BY <2>1, <2>2, <2>5 DEF OnLeaveChannel, EventNames
    <3> QED
      BY <1>1, <2>5, <3>1 DEF SessionInv, OnLeaveChannel, TypeOK
  <2>6. ASSUME NEW u \in Uids, OnUserJoined(s, u) \/ OnUserOffline(s, u)
        PROVE  SessionInv(t)'
    <3>1. /\ \A name : EventInFlight(name, t) => EventInFlight(name, t)'
          /\ pc'[t] = "idle" => posting'[t] = {}
          /\ pc'[t] # "idle" =>
               \E e \in Event : posting'[t] = {e} /\ e.sid = t
      BY <2>1, <2>6 DEF OnUserJoined, OnUserOffline, EventNames
    <3>2. UNCHANGED <<start, stopReplies, engine, recorders>>
      BY <2>6 DEF OnUserJoined, OnUserOffline
    <3> QED
      BY <1>1, <3>1, <3>2 DEF SessionInv
  <2>7. CASE PushLayout(s) \/ StoppedOnError(s)
    <3>1. /\ UNCHANGED <<start, stopReplies, engine, recorders, posting, queue,
                         immediates>>
          /\ pc[s] # "idle" /\ pc' = [pc EXCEPT ![s] = "post"]
      BY <2>7 DEF PushLayout, StoppedOnError
    <3>2. pc[t] = "idle" <=> pc'[t] = "idle"
      BY <3>1 DEF TypeOK
    <3> QED
      BY <1>1, <1>2, <3>1, <3>2 DEF SessionInv
  <2>8. CASE Post(s)
    <3>1. pc[s] # "idle"
      BY <2>8 DEF Post
    <3>2. PICK e \in Event : posting[s] = {e}
      BY <2>0, <3>1 DEF SessionInv
    <3>3. InFlight' = InFlight
      BY <2>8, <3>2, FlightOfPost
    <3>4. /\ UNCHANGED <<start, stopReplies, engine, recorders>>
          /\ pc' = [pc EXCEPT ![s] = "idle"]
          /\ posting' = [posting EXCEPT ![s] = {}]
      BY <2>8 DEF Post
    <3>5. \A name : EventInFlight(name, t) <=> EventInFlight(name, t)'
      BY <3>3 DEF EventInFlight
    <3> QED
      BY <1>1, <3>4, <3>5 DEF SessionInv, TypeOK
  <2>9. CASE EngineFault(s)
    BY <1>1, <1>2, <2>9, InvKept DEF EngineFault, engineVars
  <2> QED
    BY <1>6, <2>3, <2>4, <2>5, <2>6, <2>7, <2>8, <2>9
       DEF EngineThread, Callback
<1>7. CASE RunTask
  <2>1. \A ev \in {"joinchannel", "error"} :
          EventInFlight(ev, t) => EventInFlight(ev, t)'
    BY <1>7, FlightOfTask DEF EventInFlight, Forwarded
  <2> QED
    BY <1>1, <1>7, <2>1, InvKept DEF RunTask, engineVars
<1>8. CASE EnterCheck \/ LeaveCheck
  BY <1>1, <1>2, <1>8, InvKept DEF EnterCheck, LeaveCheck, engineVars
<1>9. CASE Emit
  <2>1. ASSUME NEW s, NEW u, NEW name, NextIs(name, s, u),
               immediates' = Tail(immediates), queue' = queue,
               posting' = posting, NEW ev, ev # name \/ s # t
        PROVE  EventInFlight(ev, t) => EventInFlight(ev, t)'
    BY <2>1, FlightOfEmit DEF EventInFlight
  <2>2. ASSUME NEW s \in Sids, EmitJoinChannel(s)
        PROVE  SessionInv(t)'
    <3>1. EventInFlight("error", t) => EventInFlight("error", t)'
      BY <2>1, <2>2 DEF EmitJoinChannel, engineVars
    <3>2. s # t => (EventInFlight("joinchannel", t) =>
                      EventInFlight("joinchannel", t)')
      BY <2>1, <2>2 DEF EmitJoinChannel, engineVars
    <3> QED
      BY <1>1, <2>2, <3>1, <3>2 DEF SessionInv, EmitJoinChannel, TypeOK,
                                                 engineVars
  <2>3. ASSUME NEW s \in Sids, EmitError(s), s \in recorders
        PROVE  SessionInv(t)'
    <3>1. immediates' = Tail(immediates) /\ queue' = queue
          /\ NextIs("error", s, NoUid) /\ posting' = posting /\ pc' = pc
      BY <2>3 DEF EmitError, engineVars
    <3>2. EventInFlight("joinchannel", t) => EventInFlight("joinchannel", t)'
      BY <2>1, <3>1
    <3>3. s # t => (EventInFlight("error", t) => EventInFlight("error", t)')
      BY <2>1, <3>1
    <3>4. SessionInv(s)
      BY DEF IInv
    <3>5. /\ start' = start /\ stopReplies' = stopReplies
          /\ engine' = [engine EXCEPT ![s] = "null"]
          /\ recorders' = recorders \ {s}
      BY <2>3, <3>4 DEF SessionInv, EmitError, OnCleanup, Release, TypeOK
    <3> QED
      BY <1>1, <2>3, <3>1, <3>2, <3>3, <3>4, <3>5 DEF SessionInv, TypeOK
  <2>4. ASSUME NEW s \in Sids, EmitError(s), s \notin recorders
        PROVE  SessionInv(t)'
    BY <1>1, <1>2, <2>4, InvKept DEF EmitError, engineVars
  <2>5. ASSUME NEW s \in Sids, NEW u \in Uids,
               EmitUserJoin(s, u) \/ EmitUserLeave(s, u)
        PROVE  SessionInv(t)'
    <3>1. \A ev \in {"joinchannel", "error"} :
            EventInFlight(ev, t) => EventInFlight(ev, t)'
      BY <2>1, <2>5 DEF EmitUserJoin, EmitUserLeave, engineVars
    <3> QED
      BY <1>1, <2>5, <3>1, InvKept DEF EmitUserJoin, EmitUserLeave, engineVars
  <2> QED
    BY <1>9, <2>2, <2>3, <2>4, <2>5 DEF Emit
<1>10. CASE UNCHANGED vars
  BY <1>1, <1>2, <1>10, InvKept DEF vars
<1> QED
  BY <1>3, <1>4, <1>5, <1>6, <1>7, <1>8, <1>9, <1>10 DEF Next

\* The inductive invariant holds in every reachable state of the server.
THEOREM Invariance == Spec => [](TypeOK /\ IInv)
  BY TypeInit, TypeNext, InvInit, InvNext, PTL DEF Spec

\* No engine that is or was in a channel is out of reach of a stop request,
\* whichever thread moves between its join and its registration.
THEOREM EnginesNotOrphaned == Spec => []NoOrphanEngine
  BY Invariance, InvMeaning, PTL

\* The error an engine stopped on is on its way to RecordManager until the
\* engine is released.
THEOREM ErrorsNotLost == Spec => []StoppedEngineIsReported
  BY Invariance, InvMeaning, PTL

\* After a successful stop the recorder stays gone.
THEOREM StopsAreFinal == Spec => []StopIsFinal
  BY Invariance, InvMeaning, PTL

\* Engines exist and recorders are registered only in step with the start
\* request of their session.
THEOREM BookkeepingHolds == Spec => []Bookkeeping
  BY Invariance, InvMeaning, PTL

-----------------------------------------------------------------------------
(* The life cycle the clients see                                          *)

\* A step that leaves start, recorders and the process alone is invisible.
LEMMA LifeUnseen ==
  ASSUME start' = start, recorders' = recorders
  PROVE  lifeOf' = lifeOf
  BY DEF lifeOf

\* No session has begun.
LEMMA LifeInit == Init => Lifecycle!Init
  BY DEF Init, Lifecycle!Init, lifeOf

\* Cleaning up a registered recorder ends its session.
LEMMA LifeOfCleanup ==
  ASSUME IInv, NEW s \in Sids, s \in recorders, OnCleanup(s),
         start' = start, proc = "up", proc' = proc
  PROVE  Lifecycle!End(s)
<1>1. start[s] = "answered"
  BY DEF IInv, SessionInv
<1>2. lifeOf[s] = "recording"
  BY <1>1 DEF lifeOf
<1>3. lifeOf' = [lifeOf EXCEPT ![s] = "ended"]
  BY <1>1 DEF lifeOf, OnCleanup
<1> QED
  BY <1>2, <1>3 DEF Lifecycle!End, Lifecycle!Move

\* Every step is one of the life cycle or changes nothing a client sees.
LEMMA LifeStep ==
  TypeOK /\ IInv /\ [Next]_vars => [Lifecycle!Next]_(Lifecycle!vars)
<1> SUFFICES ASSUME TypeOK, IInv, [Next]_vars
             PROVE  [Lifecycle!Next]_(Lifecycle!vars)
  OBVIOUS
<1> USE DEF Lifecycle!vars
<1>1. ASSUME start' = start, recorders' = recorders, proc' = proc
      PROVE  [Lifecycle!Next]_(Lifecycle!vars)
  BY <1>1, LifeUnseen
<1>2. ASSUME start' = start, recorders' = recorders, proc = "up", UncaughtThrow
      PROVE  Lifecycle!Next
  <2>1. lifeOf' = lifeOf
    BY <1>2, LifeUnseen
  <2> QED
    BY <1>2, <2>1 DEF Lifecycle!Next, Lifecycle!Crash, UncaughtThrow
<1>3. ASSUME NEW s \in Sids, NEW from, NEW to,
             Advance(s, from, to), recorders' = recorders, proc' = proc,
             from \in StartStates \ {"none", "answered"},
             to \in StartStates \ {"none", "answered"}
      PROVE  [Lifecycle!Next]_(Lifecycle!vars)
  <2>1. lifeOf' = lifeOf
    BY <1>3 DEF lifeOf, Advance, TypeOK
  <2> QED
    BY <1>3, <2>1
<1>4. ASSUME NEW s \in Sids, Request(s)
      PROVE  [Lifecycle!Next]_(Lifecycle!vars)
  <2>1. CASE Start(s)
    <3>1. lifeOf[s] = "new" /\ lifeOf' = [lifeOf EXCEPT ![s] = "starting"]
      BY <2>1 DEF Start, Advance, lifeOf, TypeOK
    <3>2. Lifecycle!Request(s)
      BY <2>1, <3>1
         DEF Start, Polling, Lifecycle!Request, Lifecycle!Move
    <3> QED
      BY <3>2 DEF Lifecycle!Next
  <2>2. CASE Stop(s)
    <3>1. Lifecycle!End(s)
      BY <2>2, LifeOfCleanup DEF Stop, Polling
    <3> QED
      BY <3>1 DEF Lifecycle!Next
  <2>3. CASE StopUnknown(s)
    BY <1>1, <2>3 DEF StopUnknown
  <2> QED
    BY <1>4, <2>1, <2>2, <2>3 DEF Request
<1>5. ASSUME NEW s \in Sids, FsCallback(s)
      PROVE  [Lifecycle!Next]_(Lifecycle!vars)
  <2>1. CASE StorageReady(s)
    BY <1>3, <2>1 DEF StorageReady, StartStates
  <2>2. CASE StorageFails(s)
    BY <1>2, <2>2 DEF StorageFails, Polling
  <2>3. CASE FolderWritable(s)
    BY <1>3, <2>3 DEF FolderWritable, StartStates
  <2>4. CASE JoinNative(s)
    BY <1>3, <2>4 DEF JoinNative, StartStates
  <2>5. CASE JoinThrows(s)
    BY <1>2, <2>5 DEF JoinThrows, Polling
  <2> QED
    BY <1>5, <2>1, <2>2, <2>3, <2>4, <2>5 DEF FsCallback
<1>6. ASSUME NEW s \in Sids, RegisterRecorder(s)
      PROVE  [Lifecycle!Next]_(Lifecycle!vars)
  <2>1. /\ lifeOf[s] = "starting"
        /\ lifeOf' = [lifeOf EXCEPT ![s] = "recording"]
    BY <1>6 DEF RegisterRecorder, Advance, lifeOf, TypeOK
  <2>2. Lifecycle!Answer(s)
    BY <1>6, <2>1 DEF RegisterRecorder, Lifecycle!Answer, Lifecycle!Move
  <2> QED
    BY <2>2 DEF Lifecycle!Next
<1>7. ASSUME NEW s \in Sids, EngineThread(s)
      PROVE  [Lifecycle!Next]_(Lifecycle!vars)
  <2>1. CASE EngineFault(s)
    <3>1. lifeOf' = lifeOf /\ proc = "up" /\ proc' = "faulted"
      BY <2>1, LifeUnseen DEF EngineFault
    <3> QED
      BY <3>1 DEF Lifecycle!Next, Lifecycle!Crash
  <2>2. CASE Callback(s)
    BY <1>1, <2>2 DEF Callback, PushLayout, StoppedOnError, Post
  <2>3. CASE \/ OnJoinChannelSuccess(s) \/ OnError(s) \/ OnLeaveChannel(s)
             \/ \E u \in Uids : OnUserJoined(s, u) \/ OnUserOffline(s, u)
    BY <1>1, <2>3 DEF OnJoinChannelSuccess, OnError, OnLeaveChannel,
                      OnUserJoined, OnUserOffline
  <2> QED
    BY <1>7, <2>1, <2>2, <2>3 DEF EngineThread
<1>8. CASE RunTask \/ EnterCheck \/ LeaveCheck
  BY <1>1, <1>8 DEF RunTask, EnterCheck, LeaveCheck
<1>9. CASE Emit
  <2>1. ASSUME NEW s \in Sids, EmitJoinChannel(s)
        PROVE  [Lifecycle!Next]_(Lifecycle!vars)
    <3>1. lifeOf' = lifeOf
      BY <2>1 DEF EmitJoinChannel, lifeOf, TypeOK
    <3> QED
      BY <2>1, <3>1 DEF EmitJoinChannel
  <2>2. ASSUME NEW s \in Sids, EmitError(s), s \in recorders
        PROVE  [Lifecycle!Next]_(Lifecycle!vars)
    <3>1. start[s] = "answered"
      BY <2>2 DEF IInv, SessionInv
    <3>2. start' = start
      BY <2>2, <3>1 DEF EmitError, TypeOK
    <3>3. Lifecycle!End(s)
      BY <2>2, <3>2, LifeOfCleanup DEF EmitError, NextIs
    <3> QED
      BY <3>3 DEF Lifecycle!Next
  <2>3. ASSUME NEW s \in Sids, EmitError(s), s \notin recorders
        PROVE  [Lifecycle!Next]_(Lifecycle!vars)
    BY <1>2, <2>3 DEF EmitError, NextIs
  <2>4. ASSUME NEW s \in Sids, NEW u \in Uids,
               EmitUserJoin(s, u) \/ EmitUserLeave(s, u)
        PROVE  [Lifecycle!Next]_(Lifecycle!vars)
    BY <1>1, <2>4 DEF EmitUserJoin, EmitUserLeave
  <2> QED
    BY <1>9, <2>1, <2>2, <2>3, <2>4 DEF Emit
<1>10. CASE UNCHANGED vars
  BY <1>1, <1>10 DEF vars
<1> QED
  BY <1>4, <1>5, <1>6, <1>7, <1>8, <1>9, <1>10 DEF Next

\* The server, its threads and its event loop implement the life cycle that
\* clients are promised.
THEOREM ImplementsLifecycle == Spec => LifecycleSpec
<1>1. Spec => Lifecycle!Init /\ [][Lifecycle!Next]_(Lifecycle!vars)
  BY LifeInit, LifeStep, Invariance, PTL DEF Spec
<1> QED
  BY <1>1 DEF LifecycleSpec, Lifecycle!Spec
=============================================================================
