-------------------- MODULE RecordingServerLayoutProofs ---------------------
(***************************************************************************)
(* What is proved of the layouts and of the end of the process, on top of  *)
(* the inductive invariant of RecordingServerProofs and for both orders of *)
(* promise reactions: what brings the server down, that a torn or outdated *)
(* push does not stay, that nobody has two tiles, and that what is shown   *)
(* is who is in the channel once the events in flight have been heard.     *)
(*                                                                         *)
(* The proofs follow the events of one session on their way: the running   *)
(* callback, the queue and the immediates, taken one by one, lead from     *)
(* what the listeners have heard to what the engine has reported.          *)
(***************************************************************************)
EXTENDS RecordingServerProofs

-----------------------------------------------------------------------------
(* Events in flight: nothing comes from nowhere                            *)

\* A task that runs brings no event into flight.
LEMMA TaskAddsNothing ==
  ASSUME TypeOK, RunTask
  PROVE  InFlight' \subseteq InFlight
<1>1. queue \in Seq(Event) /\ queue # <<>> /\ immediates \in Seq(Event)
  BY DEF TypeOK, RunTask
<1>2. ToSet(queue) = {Head(queue)} \cup ToSet(Tail(queue))
  BY <1>1, HeldBeforeTail
<1>3. Head(queue) \in Event
  BY <1>1, TailOfQueue
<1>4. ToSet(Append(immediates, Head(queue))) =
        ToSet(immediates) \cup {Head(queue)}
  BY <1>1, <1>3, HeldAfterAppend
<1>5. ToSet(immediates') \subseteq ToSet(immediates) \cup {Head(queue)}
  BY <1>4 DEF RunTask
<1>6. ToSet(queue') \subseteq ToSet(queue) /\ posting' = posting
  BY <1>2 DEF RunTask, engineVars
<1> QED
  BY <1>2, <1>5, <1>6 DEF InFlight

\* Nor does an immediate, whose own event was in flight.
LEMMA EmitAddsNothing ==
  ASSUME TypeOK, NEW ev, NEW s, NEW u, NextIs(ev, s, u),
         immediates' = Tail(immediates), queue' = queue, posting' = posting
  PROVE  /\ InFlight' \subseteq InFlight
         /\ EventInFlight(ev, s)
<1>1. immediates \in Seq(Event) /\ immediates # <<>>
  BY DEF TypeOK, NextIs
<1>2. ToSet(immediates) = {Head(immediates)} \cup ToSet(Tail(immediates))
  BY <1>1, HeldBeforeTail
<1>3. Head(immediates).ev = ev /\ Head(immediates).sid = s
  BY DEF NextIs
<1> QED
  BY <1>2, <1>3 DEF InFlight, EventInFlight

\* The same of the events of one name and session.
LEMMA NothingNew ==
  ASSUME InFlight' \subseteq InFlight, NEW ev, NEW t
  PROVE  EventInFlight(ev, t)' => EventInFlight(ev, t)
  BY DEF EventInFlight

\* A callback that is running has one event in flight, of its session.
LEMMA PostedIsInFlight ==
  ASSUME NEW s \in Sids, NEW e \in posting[s]
  PROVE  e \in InFlight
  BY DEF InFlight

\* The steps that neither begin a callback nor move an event.
Silent ==
  \/ \E s \in Sids :
       \/ Request(s) \/ FsCallback(s) \/ RegisterRecorder(s)
       \/ PushLayout(s) \/ StoppedOnError(s) \/ EngineFault(s)
       \/ EmitError(s) /\ s \notin recorders
  \/ EnterCheck \/ LeaveCheck
  \/ UNCHANGED vars

\* They leave alone what the engines have reported.
LEMMA SilentKeeps ==
  ASSUME Silent
  PROVE  /\ UNCHANGED <<queue, immediates, posting, m_peers, early>>
         /\ InFlight' = InFlight
<1>1. UNCHANGED <<queue, immediates, posting, m_peers, early>>
  BY DEF Silent, Request, Start, Stop, StopUnknown, FsCallback, StorageReady,
         StorageFails, FolderWritable, JoinNative, JoinThrows,
         RegisterRecorder, PushLayout, StoppedOnError, EngineFault, EmitError,
         EnterCheck, LeaveCheck, vars, engineVars
<1> QED
  BY <1>1 DEF InFlight

\* The beginning of a callback.
Beginning(s) ==
  \/ OnJoinChannelSuccess(s)
  \/ OnError(s)
  \/ OnLeaveChannel(s)
  \/ \E u \in Uids : OnUserJoined(s, u) \/ OnUserOffline(s, u)

\* An immediate that is taken out of the batch.
Hearing(s) ==
  \/ EmitJoinChannel(s)
  \/ EmitError(s) /\ s \in recorders
  \/ \E u \in Uids : EmitUserJoin(s, u) \/ EmitUserLeave(s, u)

\* Every step is one of these.
LEMMA StepKinds ==
  ASSUME [Next]_vars
  PROVE  \/ Silent
         \/ \E s \in Sids : Beginning(s) \/ Post(s) \/ Hearing(s)
         \/ RunTask
  BY DEF Next, Emit, EngineThread, Callback, Silent, Beginning, Hearing

-----------------------------------------------------------------------------
(* The way of the events of one session                                    *)

\* The event a callback of the session t is about to post leads from b to c.
Posts(t, R, b, c) ==
  \/ posting[t] = {} /\ b = c
  \/ \E e \in posting[t] : <<b, e, c>> \in R

\* What is in flight leads from a to c: R holds the triples of a state, an
\* event and a state it may lead to, and A the states.
Through(t, A, R, a, c) ==
  \E m, b \in A :
    /\ Leads(immediates, A, R, a, m)
    /\ Leads(queue, A, R, m, b)
    /\ Posts(t, R, b, c)

\* Only events of the session t that have a callback lead to another state.
About(t, A, R) ==
  /\ \A a \in A : \A e \in Event : e.sid # t => <<a, e, a>> \in R
  /\ \A a, e, c : /\ <<a, e, c>> \in R
                  /\ e.sid # t \/ e.ev = "leavechannel"
                  => c = a

\* Nothing leads anywhere at first.
LEMMA ThroughInit ==
  ASSUME Init, NEW t \in Sids, NEW A, NEW R, NEW a \in A
  PROVE  Through(t, A, R, a, a)
<1>1. immediates = <<>> /\ queue = <<>> /\ posting[t] = {}
  BY DEF Init
<1>2. Leads(<<>>, A, R, a, a)
  BY LeadsNowhere
<1> QED
  BY <1>1, <1>2 DEF Through, Posts

\* A silent step leaves the way as it is.
LEMMA ThroughSilent ==
  ASSUME Silent, NEW t \in Sids, NEW A, NEW R, NEW a \in A, NEW c \in A,
         Through(t, A, R, a, c)
  PROVE  Through(t, A, R, a, c)'
  BY SilentKeeps DEF Through, Posts

\* A callback that begins adds its event at the far end.
LEMMA ThroughBegin ==
  ASSUME TypeOK, NEW s \in Sids, NEW t \in Sids, NEW ev, NEW u, NEW label,
         Begin(s, ev, u, label), queue' = queue, immediates' = immediates,
         NEW A, NEW R, NEW a \in A, NEW c \in A, NEW d \in A,
         Through(t, A, R, a, c),
         s = t => /\ posting[s] = {}
                  /\ <<c, [ev |-> ev, sid |-> s, uid |-> u], d>> \in R,
         s # t => d = c
  PROVE  Through(t, A, R, a, d)'
<1> DEFINE e == [ev |-> ev, sid |-> s, uid |-> u]
<1>1. posting' = [posting EXCEPT ![s] = {e}]
  BY DEF Begin
<1>2. s = t => <<c, e, d>> \in R
  OBVIOUS
<1> HIDE DEF e
<1>3. PICK m \in A, b \in A : /\ Leads(immediates, A, R, a, m)
                              /\ Leads(queue, A, R, m, b)
                              /\ Posts(t, R, b, c)
  BY DEF Through
<1>4. Posts(t, R, b, d)'
  <2>1. CASE s = t
    <3>1. posting'[t] = {e} /\ b = c
      BY <1>1, <1>3, <2>1 DEF Posts, TypeOK
    <3> QED
      BY <1>2, <2>1, <3>1 DEF Posts
  <2>2. CASE s # t
    <3>1. posting'[t] = posting[t] /\ c = d
      BY <1>1, <2>2 DEF TypeOK
    <3> QED
      BY <1>3, <3>1 DEF Posts
  <2> QED
    BY <2>1, <2>2
<1>5. Leads(immediates, A, R, a, m)' /\ Leads(queue, A, R, m, b)'
  BY <1>3
<1> QED
  BY <1>4, <1>5 DEF Through

\* A callback that posts moves its event to the end of the queue.
LEMMA ThroughPost ==
  ASSUME TypeOK, IInv, NEW s \in Sids, NEW t \in Sids, Post(s),
         NEW A, NEW R, About(t, A, R), NEW a \in A, NEW c \in A,
         Through(t, A, R, a, c)
  PROVE  Through(t, A, R, a, c)'
<1>1. PICK e \in Event : posting[s] = {e} /\ e.sid = s
  BY DEF IInv, SessionInv, Post
<1>2. /\ queue' = Append(queue, e) /\ queue \in Seq(Event)
      /\ immediates' = immediates /\ posting' = [posting EXCEPT ![s] = {}]
  BY <1>1, FlightOfPost DEF Post, TypeOK
<1>3. PICK m \in A, b \in A : /\ Leads(immediates, A, R, a, m)
                              /\ Leads(queue, A, R, m, b)
                              /\ Posts(t, R, b, c)
  BY DEF Through
<1>4. Leads(immediates', A, R, a, m)
  BY <1>2, <1>3
<1>5. CASE s = t
  <2>1. <<b, e, c>> \in R
    BY <1>1, <1>3, <1>5 DEF Posts
  <2>2. Leads(queue', A, R, m, c)
    BY <1>2, <1>3, <2>1, LeadsFurther
  <2>3. Posts(t, R, c, c)'
    BY <1>2, <1>5 DEF Posts, TypeOK
  <2> QED
    BY <1>4, <2>2, <2>3 DEF Through
<1>6. CASE s # t
  <2>1. <<b, e, b>> \in R
    BY <1>1, <1>6 DEF About
  <2>2. Leads(queue', A, R, m, b)
    BY <1>2, <1>3, <2>1, LeadsFurther
  <2>3. Posts(t, R, b, c)'
    BY <1>2, <1>3, <1>6 DEF Posts, TypeOK
  <2> QED
    BY <1>4, <2>2, <2>3 DEF Through
<1> QED
  BY <1>5, <1>6

\* A task that runs passes its event on; that of a leave is dropped.
LEMMA ThroughTask ==
  ASSUME TypeOK, RunTask, NEW t \in Sids,
         NEW A, NEW R, About(t, A, R), NEW a \in A, NEW c \in A,
         Through(t, A, R, a, c)
  PROVE  Through(t, A, R, a, c)'
<1>1. /\ queue \in Seq(Event) /\ queue # <<>> /\ immediates \in Seq(Event)
      /\ queue' = Tail(queue) /\ posting' = posting
  BY DEF TypeOK, RunTask, engineVars
<1>2. Head(queue) \in Event
  BY <1>1, TailOfQueue
<1>3. PICK m \in A, b \in A : /\ Leads(immediates, A, R, a, m)
                              /\ Leads(queue, A, R, m, b)
                              /\ Posts(t, R, b, c)
  BY DEF Through
<1>4. PICK k \in A : /\ <<m, Head(queue), k>> \in R
                     /\ Leads(Tail(queue), A, R, k, b)
  BY <1>1, <1>3, LeadsAfterHead
<1>5. Leads(immediates', A, R, a, k)
  <2>1. CASE Head(queue).ev \in Forwarded
    <3>1. immediates' = Append(immediates, Head(queue))
      BY <2>1 DEF RunTask
    <3>2. Leads(Append(immediates, Head(queue)), A, R, a, k)
      BY <1>1, <1>2, <1>3, <1>4, LeadsFurther
    <3> QED
      BY <3>1, <3>2
  <2>2. CASE Head(queue).ev \notin Forwarded
    <3>1. Head(queue).ev = "leavechannel"
      BY <1>2, <2>2 DEF Event, EventNames, Forwarded
    <3>2. k = m
      BY <1>4, <3>1 DEF About
    <3> QED
      BY <1>3, <2>2, <3>2 DEF RunTask
  <2> QED
    BY <2>1, <2>2
<1>6. Leads(queue', A, R, k, b)
  BY <1>1, <1>4
<1>7. Posts(t, R, b, c)'
  BY <1>1, <1>3 DEF Posts
<1> QED
  BY <1>5, <1>6, <1>7 DEF Through

\* An immediate that runs tells the listeners its event.
LEMMA ThroughEmit ==
  ASSUME TypeOK, NEW ev, NEW s, NEW u, NextIs(ev, s, u),
         immediates' = Tail(immediates), queue' = queue, posting' = posting,
         NEW t \in Sids, NEW A, NEW R, NEW a \in A, NEW c \in A,
         Through(t, A, R, a, c)
  PROVE  \E d \in A : /\ <<a, [ev |-> ev, sid |-> s, uid |-> u], d>> \in R
                      /\ Through(t, A, R, d, c)'
<1>1. /\ immediates \in Seq(Event) /\ immediates # <<>>
      /\ Head(immediates) = [ev |-> ev, sid |-> s, uid |-> u]
  BY DEF TypeOK, NextIs
<1>2. PICK m \in A, b \in A : /\ Leads(immediates, A, R, a, m)
                              /\ Leads(queue, A, R, m, b)
                              /\ Posts(t, R, b, c)
  BY DEF Through
<1>3. PICK d \in A : /\ <<a, Head(immediates), d>> \in R
                     /\ Leads(Tail(immediates), A, R, d, m)
  BY <1>1, <1>2, LeadsAfterHead
<1>4. Leads(immediates', A, R, d, m)
  BY <1>3
<1>5. Leads(queue', A, R, m, b) /\ Posts(t, R, b, c)'
  BY <1>2 DEF Posts
<1> QED
  BY <1>1, <1>3, <1>4, <1>5 DEF Through

\* What is in flight does not lead out of G if none of its events does.
LEMMA ThroughInside ==
  ASSUME TypeOK, NEW t \in Sids, NEW A, NEW R, NEW a \in A, NEW c \in A,
         Through(t, A, R, a, c), NEW G, a \in G,
         \A e \in InFlight :
           \A x, y \in A : <<x, e, y>> \in R /\ x \in G => y \in G
  PROVE  c \in G
<1>1. PICK m \in A, b \in A : /\ Leads(immediates, A, R, a, m)
                              /\ Leads(queue, A, R, m, b)
                              /\ Posts(t, R, b, c)
  BY DEF Through
<1>2. /\ queue \in Seq(Event) /\ immediates \in Seq(Event)
      /\ ToSet(queue) \subseteq InFlight
      /\ ToSet(immediates) \subseteq InFlight
  BY DEF TypeOK, InFlight
<1>3. m \in G
  <2>1. \A e \in ToSet(immediates) :
          \A x, y \in A : <<x, e, y>> \in R /\ x \in G => y \in G
    BY <1>2
  <2> QED
    BY <1>1, <1>2, <2>1, LeadsInside
<1>4. b \in G
  <2>1. \A e \in ToSet(queue) :
          \A x, y \in A : <<x, e, y>> \in R /\ x \in G => y \in G
    BY <1>2
  <2> QED
    BY <1>1, <1>2, <1>3, <2>1, LeadsInside
<1>5. CASE posting[t] = {}
  BY <1>1, <1>4, <1>5 DEF Posts
<1>6. CASE posting[t] # {}
  <2>1. PICK e \in posting[t] : <<b, e, c>> \in R
    BY <1>1, <1>6 DEF Posts
  <2>2. e \in InFlight
    BY PostedIsInFlight
  <2> QED
    BY <1>4, <2>1, <2>2
<1> QED
  BY <1>5, <1>6

-----------------------------------------------------------------------------
(* What the engine mixes                                                   *)

\* The recorder was removed.
Ended(s) == start[s] = "answered" /\ s \notin recorders

\* A recorder that is registered or about to be has an engine, because the
\* news of a join comes from one and only onCleanup takes it away.
HasEngine(s) ==
  /\ start[s] \in {"none", "mkdir", "access", "writeFile"} =>
       ~EventInFlight("joinchannel", s)
  /\ \/ s \in recorders
     \/ start[s] = "resolved"
     \/ start[s] = "joining" /\ EventInFlight("joinchannel", s)
     => engine[s] # "null"

\* Something about a user of the session is on its way.
UsersMove(s) == EventInFlight("userjoin", s) \/ EventInFlight("userleave", s)

\* A callback that pushes the layout is about a user.
PushesForUser(s) ==
  pc[s] = "push" => \E e \in posting[s] : /\ e.sid = s
                                          /\ e.ev \in {"userjoin", "userleave"}

\* The copies of a layout: nothing is laid out before there is a recorder, and
\* the last push was the recorder's unless an event of a user is under way.
Mixes(s) ==
  /\ m_layout[s] = regions[s]
  /\ s \notin recorders /\ ~Ended(s) => regions[s] = {}
  /\ s \in recorders /\ ~UsersMove(s) /\ regions[s] # {} =>
       mixed[s] = regions[s]

\* The inductive invariant of the mixed layouts.
MixInv == \A s \in Sids : HasEngine(s) /\ PushesForUser(s) /\ Mixes(s)

\* Nothing is laid out and nothing in flight at first.
LEMMA MixInit == Init => MixInv
<1> SUFFICES ASSUME Init
             PROVE  MixInv
  OBVIOUS
<1>1. InFlight = {}
  BY DEF Init, InFlight, ToSet
<1> QED
  BY <1>1 DEF Init, MixInv, HasEngine, PushesForUser, Mixes, EventInFlight

\* A session keeps its engine if it does not come closer to be registered.
LEMMA EngineKept ==
  ASSUME NEW t \in Sids, HasEngine(t), start'[t] = start[t],
         engine[t] # "null" => engine'[t] # "null",
         t \in recorders' => t \in recorders,
         EventInFlight("joinchannel", t)' => EventInFlight("joinchannel", t)
  PROVE  HasEngine(t)'
  BY DEF HasEngine

\* A callback that begins brings only its own event into flight.
LEMMA BeginAddsOne ==
  ASSUME TypeOK, IInv, NEW s \in Sids, NEW ev, NEW u, NEW label,
         Begin(s, ev, u, label), queue' = queue, immediates' = immediates,
         NEW name, NEW t
  PROVE  EventInFlight(name, t)' <=>
           EventInFlight(name, t) \/ (name = ev /\ t = s)
<1> DEFINE e == [ev |-> ev, sid |-> s, uid |-> u]
<1>1. posting[s] = {}
  BY DEF IInv, SessionInv, Begin
<1>2. InFlight' = InFlight \cup {e}
  BY <1>1, FlightOfBegin
<1>3. e.ev = ev /\ e.sid = s
  OBVIOUS
<1> HIDE DEF e
<1> QED
  BY <1>2, <1>3 DEF EventInFlight

\* What is in flight stays so while a callback posts.
LEMMA PostMovesNothing ==
  ASSUME TypeOK, IInv, NEW s \in Sids, Post(s)
  PROVE  InFlight' = InFlight
<1>1. PICK e \in Event : posting[s] = {e}
  BY DEF IInv, SessionInv, Post
<1> QED
  BY <1>1, FlightOfPost

\* Only the step that stops a recorder takes an engine away.
LEMMA EngineNext ==
  TypeOK /\ IInv /\ MixInv /\ [Next]_vars => \A t \in Sids : HasEngine(t)'
<1> SUFFICES ASSUME TypeOK, IInv, MixInv, [Next]_vars, NEW t \in Sids
             PROVE  HasEngine(t)'
  OBVIOUS
<1>1. HasEngine(t) /\ SessionInv(t)
  BY DEF MixInv, IInv
<1>2. CASE Silent
  <2>1. EventInFlight("joinchannel", t)' <=> EventInFlight("joinchannel", t)
    BY <1>2, SilentKeeps DEF EventInFlight
  <2>2. ASSUME UNCHANGED <<start, engine, recorders>>
        PROVE  HasEngine(t)'
    BY <1>1, <2>1, <2>2, EngineKept
  <2>3. ASSUME NEW s \in Sids, Request(s)
        PROVE  HasEngine(t)'
    <3>1. CASE Start(s)
      BY <1>1, <2>1, <3>1 DEF HasEngine, Start, Advance, TypeOK
    <3>2. CASE Stop(s)
      <4>1. s = t => start[t] = "answered"
        BY <1>1, <3>2 DEF SessionInv, Stop
      <4> QED
        BY <1>1, <2>1, <3>2, <4>1
           DEF HasEngine, Stop, OnCleanup, Release, TypeOK
    <3>3. CASE StopUnknown(s)
      BY <2>2, <3>3 DEF StopUnknown
    <3> QED
      BY <2>3, <3>1, <3>2, <3>3 DEF Request
  <2>4. ASSUME NEW s \in Sids, FsCallback(s)
        PROVE  HasEngine(t)'
    <3>1. CASE StorageReady(s)
      BY <1>1, <2>1, <3>1 DEF HasEngine, StorageReady, Advance, TypeOK
    <3>2. CASE StorageFails(s) \/ JoinThrows(s)
      BY <2>2, <3>2 DEF StorageFails, JoinThrows
    <3>3. CASE FolderWritable(s)
      BY <1>1, <2>1, <3>3 DEF HasEngine, FolderWritable, Advance, TypeOK
    <3>4. CASE JoinNative(s)
      <4>1. s = t => ~EventInFlight("joinchannel", t) /\ t \notin recorders
        BY <1>1, <3>4 DEF HasEngine, SessionInv, JoinNative, Advance
      <4> QED
        BY <1>1, <2>1, <3>4, <4>1
           DEF HasEngine, JoinNative, CreateChannel, Advance, TypeOK
    <3> QED
      BY <2>4, <3>1, <3>2, <3>3, <3>4 DEF FsCallback
  <2>5. ASSUME NEW s \in Sids, RegisterRecorder(s)
        PROVE  HasEngine(t)'
    BY <1>1, <2>1, <2>5 DEF HasEngine, RegisterRecorder, Advance, TypeOK
  <2>6. ASSUME NEW s \in Sids,
               \/ PushLayout(s) \/ StoppedOnError(s) \/ EngineFault(s)
               \/ EmitError(s) /\ s \notin recorders
        PROVE  HasEngine(t)'
    BY <2>2, <2>6 DEF PushLayout, StoppedOnError, EngineFault, EmitError
  <2>7. CASE EnterCheck \/ LeaveCheck \/ UNCHANGED vars
    BY <2>2, <2>7 DEF EnterCheck, LeaveCheck, vars
  <2>8. ASSUME NEW s \in Sids,
               \/ Request(s) \/ FsCallback(s) \/ RegisterRecorder(s)
               \/ PushLayout(s) \/ StoppedOnError(s) \/ EngineFault(s)
               \/ EmitError(s) /\ s \notin recorders
        PROVE  HasEngine(t)'
    BY <2>3, <2>4, <2>5, <2>6, <2>8
  <2> QED
    BY <1>2, <2>7, <2>8 DEF Silent
<1>3. ASSUME NEW s \in Sids, Beginning(s)
      PROVE  HasEngine(t)'
  <2>1. queue' = queue /\ immediates' = immediates
    BY <1>3 DEF Beginning, OnJoinChannelSuccess, OnError, OnLeaveChannel,
                OnUserJoined, OnUserOffline
  <2>2. CASE OnJoinChannelSuccess(s)
    <3>1. EventInFlight("joinchannel", t)' <=>
            EventInFlight("joinchannel", t) \/ t = s
      BY <2>1, <2>2, BeginAddsOne DEF OnJoinChannelSuccess
    <3> QED
      BY <1>1, <2>2, <3>1
         DEF HasEngine, SessionInv, OnJoinChannelSuccess, TypeOK
  <2>3. CASE OnError(s) \/ OnLeaveChannel(s)
    <3>1. EventInFlight("joinchannel", t)' => EventInFlight("joinchannel", t)
      BY <2>1, <2>3, BeginAddsOne DEF OnError, OnLeaveChannel
    <3> QED
      BY <1>1, <2>3, <3>1, EngineKept DEF OnError, OnLeaveChannel, TypeOK
  <2>4. ASSUME NEW u \in Uids, OnUserJoined(s, u) \/ OnUserOffline(s, u)
        PROVE  HasEngine(t)'
    <3>1. EventInFlight("joinchannel", t)' => EventInFlight("joinchannel", t)
      BY <2>1, <2>4, BeginAddsOne DEF OnUserJoined, OnUserOffline
    <3> QED
      BY <1>1, <2>4, <3>1, EngineKept DEF OnUserJoined, OnUserOffline
  <2> QED
    BY <1>3, <2>2, <2>3, <2>4 DEF Beginning
<1>4. ASSUME NEW s \in Sids, Post(s)
      PROVE  HasEngine(t)'
  <2>1. EventInFlight("joinchannel", t)' <=> EventInFlight("joinchannel", t)
    BY <1>4, PostMovesNothing DEF EventInFlight
  <2> QED
    BY <1>1, <1>4, <2>1, EngineKept DEF Post
<1>5. CASE RunTask
  BY <1>1, <1>5, TaskAddsNothing, NothingNew, EngineKept DEF RunTask
<1>6. ASSUME NEW s \in Sids, Hearing(s)
      PROVE  HasEngine(t)'
  <2>1. CASE EmitJoinChannel(s)
    <3>1. /\ EventInFlight("joinchannel", s)
          /\ EventInFlight("joinchannel", t)' =>
               EventInFlight("joinchannel", t)
      BY <2>1, EmitAddsNothing, NothingNew DEF EmitJoinChannel, engineVars
    <3> QED
      BY <1>1, <2>1, <3>1 DEF HasEngine, EmitJoinChannel, TypeOK
  <2>2. CASE EmitError(s) /\ s \in recorders
    <3>1. EventInFlight("joinchannel", t)' => EventInFlight("joinchannel", t)
      BY <2>2, EmitAddsNothing, NothingNew DEF EmitError, engineVars
    <3>2. s = t => start[t] = "answered"
      BY <1>1, <2>2 DEF SessionInv
    <3> QED
      BY <1>1, <2>2, <3>1, <3>2
         DEF HasEngine, EmitError, OnCleanup, Release, TypeOK
  <2>3. ASSUME NEW u \in Uids, EmitUserJoin(s, u) \/ EmitUserLeave(s, u)
        PROVE  HasEngine(t)'
    <3>1. EventInFlight("joinchannel", t)' => EventInFlight("joinchannel", t)
      BY <2>3, EmitAddsNothing, NothingNew
         DEF EmitUserJoin, EmitUserLeave, engineVars
    <3> QED
      BY <1>1, <2>3, <3>1, EngineKept DEF EmitUserJoin, EmitUserLeave
  <2> QED
    BY <1>6, <2>1, <2>2, <2>3 DEF Hearing
<1> QED
  BY <1>2, <1>3, <1>4, <1>5, <1>6, StepKinds

\* Only a callback about a user goes on to push.
LEMMA PushesNext ==
  TypeOK /\ MixInv /\ [Next]_vars => \A t \in Sids : PushesForUser(t)'
<1> SUFFICES ASSUME TypeOK, MixInv, [Next]_vars, NEW t \in Sids
             PROVE  PushesForUser(t)'
  OBVIOUS
<1>1. PushesForUser(t)
  BY DEF MixInv
<1>2. ASSUME posting'[t] = posting[t], pc'[t] = "push" => pc[t] = "push"
      PROVE  PushesForUser(t)'
  BY <1>1, <1>2 DEF PushesForUser
<1>3. ASSUME NEW s \in Sids, PushLayout(s) \/ StoppedOnError(s) \/ Post(s)
      PROVE  PushesForUser(t)'
  BY <1>1, <1>3 DEF PushLayout, StoppedOnError, Post, PushesForUser, TypeOK
<1>4. ASSUME NEW s \in Sids, Beginning(s)
      PROVE  PushesForUser(t)'
  <2>1. ASSUME NEW ev, NEW u, NEW label, Begin(s, ev, u, label),
               label = "push" => ev \in {"userjoin", "userleave"}
        PROVE  PushesForUser(t)'
    BY <1>1, <2>1 DEF Begin, PushesForUser, TypeOK
  <2> QED
    BY <1>4, <2>1 DEF Beginning, OnJoinChannelSuccess, OnError,
                      OnLeaveChannel, OnUserJoined, OnUserOffline
<1>5. ASSUME UNCHANGED <<pc, posting>>
      PROVE  PushesForUser(t)'
  BY <1>2, <1>5
<1>6. ASSUME NEW s \in Sids,
             Request(s) \/ FsCallback(s) \/ RegisterRecorder(s)
             \/ EngineFault(s)
      PROVE  PushesForUser(t)'
  BY <1>5, <1>6
     DEF Request, Start, Stop, StopUnknown, FsCallback, StorageReady,
         StorageFails, FolderWritable, JoinNative, JoinThrows,
         RegisterRecorder, EngineFault, engineVars
<1>7. CASE RunTask \/ EnterCheck \/ LeaveCheck \/ UNCHANGED vars
  BY <1>5, <1>7 DEF RunTask, EnterCheck, LeaveCheck, vars, engineVars
<1>8. CASE Emit
  BY <1>5, <1>8 DEF Emit, EmitJoinChannel, EmitError, EmitUserJoin,
                    EmitUserLeave, engineVars
<1> QED
  BY <1>3, <1>4, <1>6, <1>7, <1>8 DEF Next, EngineThread, Callback, Beginning

\* An event of a user that nobody hears stays in flight.
LEMMA UsersMoveOn ==
  ASSUME TypeOK, [Next]_vars, NEW t \in Sids, UsersMove(t),
         \A u \in Uids : ~EmitUserJoin(t, u) /\ ~EmitUserLeave(t, u), IInv
  PROVE  UsersMove(t)'
<1>1. PICK e \in InFlight : e.ev \in {"userjoin", "userleave"} /\ e.sid = t
  BY DEF UsersMove, EventInFlight
<1>2. ASSUME e \in InFlight'
      PROVE  UsersMove(t)'
  BY <1>1, <1>2 DEF UsersMove, EventInFlight
<1>3. CASE Silent
  BY <1>1, <1>2, <1>3, SilentKeeps
<1>4. ASSUME NEW s \in Sids, Beginning(s)
      PROVE  UsersMove(t)'
  <2>1. \E ev, u, label : Begin(s, ev, u, label)
    BY <1>4 DEF Beginning, OnJoinChannelSuccess, OnError, OnLeaveChannel,
                OnUserJoined, OnUserOffline
  <2>2. queue' = queue /\ immediates' = immediates
    BY <1>4 DEF Beginning, OnJoinChannelSuccess, OnError, OnLeaveChannel,
                OnUserJoined, OnUserOffline
  <2>3. posting[s] = {}
    BY <2>1 DEF IInv, SessionInv, Begin
  <2> QED
    BY <1>1, <1>2, <2>1, <2>2, <2>3, FlightOfBegin
<1>5. ASSUME NEW s \in Sids, Post(s)
      PROVE  UsersMove(t)'
  BY <1>1, <1>2, <1>5, PostMovesNothing
<1>6. CASE RunTask
  BY <1>1, <1>2, <1>6, FlightOfTask DEF Forwarded
<1>7. ASSUME NEW s \in Sids, Hearing(s)
      PROVE  UsersMove(t)'
  <2>1. ASSUME NEW ev, NEW u, NextIs(ev, s, u),
               immediates' = Tail(immediates), queue' = queue,
               posting' = posting,
               s # t \/ ev \notin {"userjoin", "userleave"}
        PROVE  UsersMove(t)'
    <3>1. e # [ev |-> ev, sid |-> s, uid |-> u]
      BY <1>1, <2>1
    <3> QED
      BY <1>1, <1>2, <2>1, <3>1, FlightOfEmit
  <2>2. CASE EmitJoinChannel(s)
    BY <2>1, <2>2 DEF EmitJoinChannel, engineVars
  <2>3. CASE EmitError(s) /\ s \in recorders
    BY <2>1, <2>3 DEF EmitError, engineVars
  <2>4. ASSUME NEW u \in Uids, EmitUserJoin(s, u) \/ EmitUserLeave(s, u)
        PROVE  UsersMove(t)'
    <3>1. s # t
      BY <2>4
    <3> QED
      BY <2>1, <2>4, <3>1 DEF EmitUserJoin, EmitUserLeave, engineVars
  <2> QED
    BY <1>7, <2>2, <2>3, <2>4 DEF Hearing
<1> QED
  BY <1>3, <1>4, <1>5, <1>6, <1>7, StepKinds


\* The copies agree as before if none of them changes and the recorder is not
\* new.
LEMMA MixesKept ==
  ASSUME NEW t \in Sids, Mixes(t), UsersMove(t) => UsersMove(t)',
         regions'[t] = regions[t], m_layout'[t] = m_layout[t],
         mixed'[t] = mixed[t] \/ UsersMove(t),
         t \in recorders' => t \in recorders \/ regions[t] = {},
         t \notin recorders' /\ ~Ended(t)' => t \notin recorders /\ ~Ended(t)
  PROVE  Mixes(t)'
  BY DEF Mixes

\* A listener changes the copies of a layout in one step, and a callback that
\* pushes another layout has an event of a user still to post.
LEMMA MixesNext ==
  TypeOK /\ IInv /\ MixInv /\ [Next]_vars => \A t \in Sids : Mixes(t)'
<1> SUFFICES ASSUME TypeOK, IInv, MixInv, [Next]_vars, NEW t \in Sids
             PROVE  Mixes(t)'
  OBVIOUS
<1>1. Mixes(t) /\ HasEngine(t) /\ PushesForUser(t) /\ SessionInv(t)
  BY DEF MixInv, IInv
<1>2. ASSUME NEW u \in Uids, EmitUserJoin(t, u) \/ EmitUserLeave(t, u)
      PROVE  Mixes(t)'
  <2>1. recorders' = recorders /\ start' = start /\ engine' = engine
    BY <1>2 DEF EmitUserJoin, EmitUserLeave
  <2>2. CASE t \in recorders
    <3>1. engine[t] # "null"
      BY <1>1, <2>2 DEF HasEngine
    <3>2. PICK layout : regions'[t] = layout /\ SetMixLayout(t, layout)
      BY <1>2, <2>2 DEF EmitUserJoin, EmitUserLeave, TypeOK
    <3>3. /\ m_layout'[t] = layout
          /\ layout # {} => mixed'[t] = layout
      BY <3>1, <3>2 DEF SetMixLayout, SetVideoMixLayout, TypeOK
    <3> QED
      BY <2>1, <2>2, <3>2, <3>3 DEF Mixes
  <2>3. CASE t \notin recorders
    <3>1. UNCHANGED layoutVars
      BY <1>2, <2>3 DEF EmitUserJoin, EmitUserLeave
    <3> QED
      BY <1>1, <2>1, <2>3, <3>1 DEF Mixes, Ended, layoutVars
  <2> QED
    BY <2>2, <2>3
<1>3. CASE \A u \in Uids : ~EmitUserJoin(t, u) /\ ~EmitUserLeave(t, u)
  <2>1. UsersMove(t) => UsersMove(t)'
    BY <1>3, UsersMoveOn
  <2>2. ASSUME UNCHANGED <<regions, m_layout, mixed, recorders>>,
               Ended(t) => Ended(t)'
        PROVE  Mixes(t)'
    BY <1>1, <2>1, <2>2, MixesKept
  <2>3. ASSUME UNCHANGED <<layoutVars, recorders, start>>
        PROVE  Mixes(t)'
    BY <2>2, <2>3 DEF Ended, layoutVars
  <2>4. ASSUME NEW s \in Sids, Request(s)
        PROVE  Mixes(t)'
    <3>1. CASE Start(s)
      BY <2>2, <3>1 DEF Start, Advance, Ended, TypeOK, layoutVars
    <3>2. CASE Stop(s)
      <4>1. /\ UNCHANGED <<regions, m_layout, mixed, start>>
            /\ recorders' = recorders \ {s}
        BY <3>2 DEF Stop, OnCleanup, layoutVars
      <4>2. t \in recorders => start[t] = "answered"
        BY <1>1 DEF SessionInv
      <4> QED
        BY <1>1, <2>1, <4>1, <4>2, MixesKept DEF Ended
    <3>3. CASE StopUnknown(s)
      BY <2>3, <3>3 DEF StopUnknown
    <3> QED
      BY <2>4, <3>1, <3>2, <3>3 DEF Request
  <2>5. ASSUME NEW s \in Sids, FsCallback(s)
        PROVE  Mixes(t)'
    <3>1. CASE StorageReady(s)
      <4>1. Ended(t) => Ended(t)'
        BY <3>1 DEF StorageReady, Advance, Ended, TypeOK
      <4>2. mixed' = mixed /\ recorders' = recorders
        BY <3>1 DEF StorageReady, SetMixLayout, SetVideoMixLayout, TypeOK
      <4>3. CASE s = t
        <5>1. regions'[t] = {} /\ m_layout'[t] = {}
          BY <3>1, <4>3 DEF StorageReady, SetMixLayout, TypeOK
        <5> QED
          BY <5>1 DEF Mixes
      <4>4. CASE s # t
        <5>1. regions'[t] = regions[t] /\ m_layout'[t] = m_layout[t]
          BY <3>1, <4>4 DEF StorageReady, SetMixLayout, TypeOK
        <5> QED
          BY <1>1, <2>1, <4>1, <4>2, <5>1, MixesKept
      <4> QED
        BY <4>3, <4>4
    <3>2. CASE StorageFails(s) \/ JoinThrows(s)
      BY <2>3, <3>2 DEF StorageFails, JoinThrows
    <3>3. CASE FolderWritable(s)
      BY <2>2, <3>3 DEF FolderWritable, Advance, Ended, TypeOK, layoutVars
    <3>4. CASE JoinNative(s)
      BY <2>2, <3>4 DEF JoinNative, Advance, Ended, TypeOK, layoutVars
    <3> QED
      BY <2>5, <3>1, <3>2, <3>3, <3>4 DEF FsCallback
  <2>6. ASSUME NEW s \in Sids, RegisterRecorder(s)
        PROVE  Mixes(t)'
    <3>1. /\ UNCHANGED <<regions, m_layout, mixed>>
          /\ recorders' = recorders \cup {s}
      BY <2>6 DEF RegisterRecorder, layoutVars
    <3>2. Ended(t) => Ended(t)' \/ s = t
      BY <2>6, <3>1 DEF RegisterRecorder, Advance, Ended, TypeOK
    <3>3. s = t => regions[t] = {}
      BY <1>1, <2>6
         DEF RegisterRecorder, Advance, Ended, SessionInv, Mixes
    <3> QED
      BY <1>1, <2>1, <3>1, <3>2, <3>3, MixesKept
  <2>7. ASSUME NEW s \in Sids, PushLayout(s)
        PROVE  Mixes(t)'
    <3>1. UNCHANGED <<regions, m_layout, recorders, start>>
      BY <2>7 DEF PushLayout
    <3>2. s = t => UsersMove(t)
      BY <1>1, <2>7, PostedIsInFlight
         DEF PushLayout, PushesForUser, UsersMove, EventInFlight
    <3>3. s # t => mixed'[t] = mixed[t]
      BY <2>7 DEF PushLayout, SetVideoMixLayout, TypeOK
    <3> QED
      BY <1>1, <2>1, <3>1, <3>2, <3>3, MixesKept DEF Ended
  <2>8. ASSUME NEW s \in Sids,
               StoppedOnError(s) \/ EngineFault(s) \/ Post(s)
        PROVE  Mixes(t)'
    BY <2>3, <2>8 DEF StoppedOnError, EngineFault, Post
  <2>9. ASSUME NEW s \in Sids, Beginning(s)
        PROVE  Mixes(t)'
    <3>1. UNCHANGED <<regions, m_layout, mixed, recorders, start>>
      BY <2>9 DEF Beginning, OnJoinChannelSuccess, OnError, OnLeaveChannel,
                  OnUserJoined, OnUserOffline, layoutVars
    <3> QED
      BY <2>2, <3>1 DEF Ended
  <2>10. CASE RunTask \/ EnterCheck \/ LeaveCheck \/ UNCHANGED vars
    BY <2>3, <2>10 DEF RunTask, EnterCheck, LeaveCheck, vars, layoutVars
  <2>11. CASE Emit
    <3>1. ASSUME NEW s \in Sids, EmitJoinChannel(s)
          PROVE  Mixes(t)'
      BY <2>2, <3>1 DEF EmitJoinChannel, Ended, TypeOK, layoutVars
    <3>2. ASSUME NEW s \in Sids, EmitError(s)
          PROVE  Mixes(t)'
      <4>1. CASE s \in recorders
        <5>1. /\ UNCHANGED <<regions, m_layout, mixed>>
              /\ recorders' = recorders \ {s}
          BY <3>2, <4>1 DEF EmitError, OnCleanup, layoutVars
        <5>2. start' = start
          <6>1. start[s] = "answered"
            BY <4>1 DEF IInv, SessionInv
          <6> QED
            BY <3>2, <6>1 DEF EmitError, TypeOK
        <5>3. t \in recorders => start[t] = "answered"
          BY <1>1 DEF SessionInv
        <5> QED
          BY <1>1, <2>1, <5>1, <5>2, <5>3, MixesKept DEF Ended
      <4>2. CASE s \notin recorders
        BY <2>3, <3>2, <4>2 DEF EmitError
      <4> QED
        BY <4>1, <4>2
    <3>3. ASSUME NEW s \in Sids, NEW u \in Uids,
                 EmitUserJoin(s, u) \/ EmitUserLeave(s, u)
          PROVE  Mixes(t)'
      <4>1. s # t
        BY <1>3, <3>3
      <4>2. /\ UNCHANGED <<recorders, start>>
            /\ regions'[t] = regions[t] /\ m_layout'[t] = m_layout[t]
            /\ mixed'[t] = mixed[t]
        BY <3>3, <4>1
           DEF EmitUserJoin, EmitUserLeave, SetMixLayout, SetVideoMixLayout,
               TypeOK, layoutVars
      <4> QED
        BY <1>1, <2>1, <4>2, MixesKept DEF Ended
    <3> QED
      BY <2>11, <3>1, <3>2, <3>3 DEF Emit
  <2> QED
    BY <2>4, <2>5, <2>6, <2>7, <2>8, <2>9, <2>10, <2>11
       DEF Next, EngineThread, Callback, Beginning
<1> QED
  BY <1>2, <1>3

\* The three parts of the invariant are kept together.
LEMMA MixNext == TypeOK /\ IInv /\ MixInv /\ [Next]_vars => MixInv'
  BY EngineNext, PushesNext, MixesNext DEF MixInv

\* The invariant says what the runs check.
LEMMA MixMeaning == TypeOK /\ MixInv => EngineMixesLayout
  BY DEF TypeOK, MixInv, Mixes, UsersMove, EventInFlight, Settled,
         EngineMixesLayout

\* In every reachable state the copies of the layouts are in step with the
\* events of users in flight.
THEOREM MixInvariance == Spec => [](TypeOK /\ IInv /\ MixInv)
<1>1. TypeOK /\ IInv /\ MixInv /\ [Next]_vars => MixInv'
  BY MixNext
<1> QED
  BY <1>1, MixInit, Invariance, PTL DEF Spec

\* Two threads push layouts without a lock, a callback may push a torn or an
\* outdated one, and an empty one is not pushed at all: whatever is pushed,
\* the engine mixes its recorder's layout, if that has a region, whenever no
\* event of the session is under way.
THEOREM EnginesMixLayouts == Spec => []EngineMixesLayout
  BY MixInvariance, MixMeaning, PTL

-----------------------------------------------------------------------------
(* What brings the server down                                             *)

Health == {"fine", "failed"}

\* An engine of the session s reports an error at most once.
Fails(s) ==
  {h \in Health \X Event \X Health :
     IF h[2].sid = s /\ h[2].ev = "error"
       THEN h[1] = "fine" /\ h[3] = "failed"
       ELSE h[3] = h[1]}

\* The events in flight lead from the health the listeners have heard of to
\* the one the engine has: a recorder that no client stopped ended because its
\* error was heard, and another one is not to come.
ErrorOnce(s) ==
  \E a, c \in Health :
    /\ Through(s, Health, Fails(s), a, c)
    /\ c = "failed" => engine[s] = "stopped" \/ Ended(s)
    /\ Ended(s) /\ "ok" \notin stopReplies[s] => a = "failed"

\* The inductive invariant of the end of the process.
CrashInv == (\A s \in Sids : ErrorOnce(s)) /\ CrashExplained

\* Nothing has failed at first.
LEMMA CrashInit == Init => CrashInv
<1> SUFFICES ASSUME Init, NEW s \in Sids
             PROVE  ErrorOnce(s) /\ CrashExplained
  BY DEF CrashInv, CrashExplained, Init
<1>1. Through(s, Health, Fails(s), "fine", "fine")
  BY ThroughInit DEF Health
<1> QED
  BY <1>1 DEF Init, ErrorOnce, Health, Ended, CrashExplained

\* Only errors change the health of an engine.
LEMMA FailsIsAbout ==
  ASSUME NEW t \in Sids
  PROVE  About(t, Health, Fails(t))
  BY DEF About, Fails

\* What is common to the beginnings of callbacks.
LEMMA Beginnings ==
  ASSUME NEW s \in Sids, Beginning(s), TypeOK
  PROVE  \E ev \in EventNames, u \in Uids \cup {NoUid},
            label \in {"push", "stop", "post"} :
           /\ Begin(s, ev, u, label)
           /\ ev = "error" => /\ engine[s] \in {"joining", "in"}
                              /\ engine'[s] = "stopped"
           /\ queue' = queue /\ immediates' = immediates
<1>1. CASE OnJoinChannelSuccess(s)
  BY <1>1 DEF OnJoinChannelSuccess, EventNames
<1>2. CASE OnError(s)
  BY <1>2 DEF OnError, EventNames, TypeOK
<1>3. CASE OnLeaveChannel(s)
  BY <1>3 DEF OnLeaveChannel, EventNames
<1>4. ASSUME NEW u \in Uids, OnUserJoined(s, u)
      PROVE  Begin(s, "userjoin", u, "push")
             /\ queue' = queue /\ immediates' = immediates
  BY <1>4 DEF OnUserJoined
<1>5. ASSUME NEW u \in Uids, OnUserOffline(s, u)
      PROVE  Begin(s, "userleave", u, "push")
             /\ queue' = queue /\ immediates' = immediates
  BY <1>5 DEF OnUserOffline
<1> QED
  BY <1>1, <1>2, <1>3, <1>4, <1>5 DEF Beginning, EventNames

\* What is common to the immediates.
LEMMA Hearings ==
  ASSUME NEW s \in Sids, Hearing(s)
  PROVE  \E ev, u : /\ NextIs(ev, s, u)
                    /\ ev = "error" <=> EmitError(s) /\ s \in recorders
                    /\ immediates' = Tail(immediates)
                    /\ UNCHANGED <<queue, posting>>
<1>1. ASSUME NEW ev, NEW u, NextIs(ev, s, u)
      PROVE  EmitError(s) => ev = "error"
  BY <1>1 DEF EmitError, NextIs
<1>2. CASE EmitJoinChannel(s)
  BY <1>1, <1>2 DEF EmitJoinChannel, engineVars
<1>3. CASE EmitError(s) /\ s \in recorders
  BY <1>3 DEF EmitError, engineVars
<1>4. ASSUME NEW u \in Uids, EmitUserJoin(s, u)
      PROVE  /\ NextIs("userjoin", s, u) /\ ~EmitError(s)
             /\ immediates' = Tail(immediates)
             /\ UNCHANGED <<queue, posting>>
  BY <1>1, <1>4 DEF EmitUserJoin, engineVars
<1>5. ASSUME NEW u \in Uids, EmitUserLeave(s, u)
      PROVE  /\ NextIs("userleave", s, u) /\ ~EmitError(s)
             /\ immediates' = Tail(immediates)
             /\ UNCHANGED <<queue, posting>>
  BY <1>1, <1>5 DEF EmitUserLeave, engineVars
<1> QED
  BY <1>2, <1>3, <1>4, <1>5 DEF Hearing

\* A session that is over, or whose engine has stopped, stays so; and without
\* a client only an error ends it.
LEMMA EndsByError ==
  ASSUME TypeOK, IInv, [Next]_vars, NEW t \in Sids
  PROVE  /\ engine[t] = "stopped" \/ Ended(t) =>
              engine'[t] = "stopped" \/ Ended(t)'
         /\ \/ EmitError(t) /\ t \in recorders
            \/ Ended(t)' /\ "ok" \notin stopReplies'[t] =>
                 Ended(t) /\ "ok" \notin stopReplies[t]
<1> DEFINE Kept == /\ engine[t] = "stopped" \/ Ended(t) =>
                        engine'[t] = "stopped" \/ Ended(t)'
                   /\ Ended(t)' /\ "ok" \notin stopReplies'[t] =>
                        Ended(t) /\ "ok" \notin stopReplies[t]
<1>1. SessionInv(t)
  BY DEF IInv
<1>2. ASSUME UNCHANGED <<start, recorders, engine, stopReplies>>
      PROVE  Kept
  BY <1>2 DEF Ended
<1>3. ASSUME NEW s \in Sids, Request(s)
      PROVE  Kept
  <2>1. CASE Start(s)
    BY <2>1 DEF Start, Advance, Ended, TypeOK
  <2>2. CASE Stop(s)
    <3>1. s = t => start[t] = "answered"
      BY <1>1, <2>2 DEF Stop, SessionInv
    <3> QED
      BY <2>2, <3>1 DEF Stop, OnCleanup, Release, Ended, TypeOK
  <2>3. CASE StopUnknown(s)
    BY <2>3 DEF StopUnknown, Ended, TypeOK
  <2> QED
    BY <1>3, <2>1, <2>2, <2>3 DEF Request
<1>4. ASSUME NEW s \in Sids, FsCallback(s)
      PROVE  Kept
  <2>1. CASE StorageReady(s)
    BY <2>1 DEF StorageReady, Advance, Ended, TypeOK
  <2>2. CASE StorageFails(s) \/ JoinThrows(s)
    BY <1>2, <2>2 DEF StorageFails, JoinThrows
  <2>3. CASE FolderWritable(s)
    BY <2>3 DEF FolderWritable, Advance, Ended, TypeOK
  <2>4. CASE JoinNative(s)
    <3>1. s = t => engine[t] = "null" /\ ~Ended(t)
      BY <1>1, <2>4 DEF JoinNative, Advance, SessionInv, Ended
    <3> QED
      BY <2>4, <3>1 DEF JoinNative, CreateChannel, Advance, Ended, TypeOK
  <2> QED
    BY <1>4, <2>1, <2>2, <2>3, <2>4 DEF FsCallback
<1>5. ASSUME NEW s \in Sids, RegisterRecorder(s)
      PROVE  Kept
  BY <1>5 DEF RegisterRecorder, Advance, Ended, TypeOK
<1>6. ASSUME NEW s \in Sids, Callback(s) \/ EngineFault(s)
      PROVE  Kept
  BY <1>2, <1>6
     DEF Callback, PushLayout, StoppedOnError, Post, EngineFault
<1>7. ASSUME NEW s \in Sids, Beginning(s)
      PROVE  Kept
  <2>1. UNCHANGED <<start, recorders, stopReplies>>
    BY <1>7 DEF Beginning, OnJoinChannelSuccess, OnError, OnLeaveChannel,
                OnUserJoined, OnUserOffline
  <2>2. engine[t] = "stopped" => engine'[t] = "stopped"
    BY <1>7 DEF Beginning, OnJoinChannelSuccess, OnError, OnLeaveChannel,
                OnUserJoined, OnUserOffline, TypeOK
  <2> QED
    BY <2>1, <2>2 DEF Ended
<1>8. CASE RunTask \/ EnterCheck \/ LeaveCheck \/ UNCHANGED vars
  BY <1>2, <1>8 DEF RunTask, EnterCheck, LeaveCheck, vars
<1>9. ASSUME NEW s \in Sids, EmitJoinChannel(s)
      PROVE  Kept
  BY <1>9 DEF EmitJoinChannel, Ended, TypeOK
<1>10. ASSUME NEW s \in Sids, EmitError(s),
              ~(EmitError(t) /\ t \in recorders)
       PROVE  Kept
  <2>1. CASE s \in recorders
    <3>1. start[s] = "answered" /\ s # t
      BY <1>10, <2>1 DEF IInv, SessionInv
    <3> QED
      BY <1>10, <2>1, <3>1 DEF EmitError, OnCleanup, Release, Ended, TypeOK
  <2>2. CASE s \notin recorders
    BY <1>2, <1>10, <2>2 DEF EmitError
  <2> QED
    BY <2>1, <2>2
<1>11. ASSUME NEW s \in Sids, NEW u \in Uids,
              EmitUserJoin(s, u) \/ EmitUserLeave(s, u)
       PROVE  Kept
  BY <1>2, <1>11 DEF EmitUserJoin, EmitUserLeave
<1>12. CASE EmitError(t) /\ t \in recorders
  <2>1. start[t] = "answered"
    BY <1>1, <1>12 DEF SessionInv
  <2> QED
    BY <1>12, <2>1 DEF EmitError, OnCleanup, Ended, TypeOK
<1>13. CASE ~(EmitError(t) /\ t \in recorders)
  <2>1. Kept
    BY <1>3, <1>4, <1>5, <1>6, <1>7, <1>8, <1>9, <1>10, <1>11, <1>13
       DEF Next, Emit, EngineThread, Beginning
  <2> QED
    BY <2>1
<1> QED
  BY <1>12, <1>13

\* However the threads and the clients interleave, an error is heard once.
LEMMA ErrorOnceNext ==
  ASSUME TypeOK, IInv, [Next]_vars, NEW t \in Sids, ErrorOnce(t)
  PROVE  ErrorOnce(t)'
<1>1. PICK a \in Health, c \in Health :
        /\ Through(t, Health, Fails(t), a, c)
        /\ c = "failed" => engine[t] = "stopped" \/ Ended(t)
        /\ Ended(t) /\ "ok" \notin stopReplies[t] => a = "failed"
  BY DEF ErrorOnce
<1>2. c = "failed" => engine'[t] = "stopped" \/ Ended(t)'
  BY <1>1, EndsByError
<1>3. ASSUME ~(EmitError(t) /\ t \in recorders)
      PROVE  Ended(t)' /\ "ok" \notin stopReplies'[t] => a = "failed"
  BY <1>1, <1>3, EndsByError
<1>4. About(t, Health, Fails(t))
  BY FailsIsAbout
<1>5. ASSUME Through(t, Health, Fails(t), a, c)',
             ~(EmitError(t) /\ t \in recorders)
      PROVE  ErrorOnce(t)'
  BY <1>2, <1>3, <1>5 DEF ErrorOnce
<1>6. ASSUME EmitError(t), t \in recorders
      PROVE  immediates' # immediates
  <2>1. immediates \in Seq(Event) /\ immediates # <<>>
    BY <1>6 DEF EmitError, NextIs, TypeOK
  <2>2. Len(Tail(immediates)) # Len(immediates)
    BY <2>1
  <2> QED
    BY <1>6, <2>2 DEF EmitError
<1>7. CASE Silent
  BY <1>1, <1>5, <1>6, <1>7, ThroughSilent, SilentKeeps
<1>8. ASSUME NEW s \in Sids, Beginning(s)
      PROVE  ErrorOnce(t)'
  <2>1. PICK ev \in EventNames, u \in Uids \cup {NoUid},
             label \in {"push", "stop", "post"} :
          /\ Begin(s, ev, u, label)
          /\ ev = "error" => /\ engine[s] \in {"joining", "in"}
                             /\ engine'[s] = "stopped"
          /\ queue' = queue /\ immediates' = immediates
    BY <1>8, Beginnings
  <2>2. posting[s] = {}
    BY <2>1 DEF Begin, IInv, SessionInv
  <2>3. [ev |-> ev, sid |-> s, uid |-> u] \in Event
    BY DEF Event
  <2>4. CASE s = t /\ ev = "error"
    <3>1. c = "fine"
      <4>1. ~Ended(t)
        BY <2>1, <2>4 DEF IInv, SessionInv, Ended
      <4> QED
        BY <1>1, <2>1, <2>4, <4>1 DEF Health
    <3>2. <<c, [ev |-> ev, sid |-> s, uid |-> u], "failed">> \in Fails(t)
      BY <2>3, <2>4, <3>1 DEF Fails, Health
    <3>3. Through(t, Health, Fails(t), a, "failed")'
      BY <1>1, <2>1, <2>2, <2>4, <3>2, ThroughBegin DEF Health
    <3>4. engine'[t] = "stopped"
      BY <2>1, <2>4
    <3> QED
      BY <1>3, <1>6, <2>1, <3>3, <3>4 DEF ErrorOnce, Health
  <2>5. CASE ~(s = t /\ ev = "error")
    <3>1. <<c, [ev |-> ev, sid |-> s, uid |-> u], c>> \in Fails(t)
      BY <2>3, <2>5 DEF Fails
    <3>2. Through(t, Health, Fails(t), a, c)'
      BY <1>1, <2>1, <2>2, <3>1, ThroughBegin
    <3> QED
      BY <1>5, <1>6, <2>1, <3>2
  <2> QED
    BY <2>4, <2>5
<1>9. ASSUME NEW s \in Sids, Post(s)
      PROVE  ErrorOnce(t)'
  <2>1. Through(t, Health, Fails(t), a, c)'
    BY <1>1, <1>4, <1>9, ThroughPost
  <2> QED
    BY <1>5, <1>6, <1>9, <2>1 DEF Post
<1>10. CASE RunTask
  <2>1. Through(t, Health, Fails(t), a, c)'
    BY <1>1, <1>4, <1>10, ThroughTask
  <2>2. ~EmitError(t)
    BY <1>10 DEF RunTask, Polling, EmitError, NextIs
  <2> QED
    BY <1>5, <2>1, <2>2
<1>11. ASSUME NEW s \in Sids, Hearing(s)
       PROVE  ErrorOnce(t)'
  <2>1. PICK ev, u : /\ NextIs(ev, s, u)
                     /\ ev = "error" <=> EmitError(s) /\ s \in recorders
                     /\ immediates' = Tail(immediates)
                     /\ UNCHANGED <<queue, posting>>
    BY <1>11, Hearings
  <2>2. PICK d \in Health :
          /\ <<a, [ev |-> ev, sid |-> s, uid |-> u], d>> \in Fails(t)
          /\ Through(t, Health, Fails(t), d, c)'
    BY <1>1, <2>1, ThroughEmit
  <2>3. CASE s = t /\ ev = "error"
    <3>1. d = "failed"
      BY <2>2, <2>3 DEF Fails
    <3> QED
      BY <1>2, <2>2, <3>1 DEF ErrorOnce
  <2>4. CASE ~(s = t /\ ev = "error")
    <3>1. d = a
      BY <2>2, <2>4 DEF Fails
    <3>2. ~(EmitError(t) /\ t \in recorders)
      <4>1. EmitError(t) => s = t /\ ev = "error"
        BY <2>1 DEF EmitError, NextIs
      <4> QED
        BY <2>4, <4>1
    <3> QED
      BY <1>5, <2>2, <3>1, <3>2
  <2> QED
    BY <2>3, <2>4
<1> QED
  BY <1>7, <1>8, <1>9, <1>10, <1>11, StepKinds

\* The process goes down in one of three ways, and stays down.
LEMMA CrashSteps ==
  ASSUME TypeOK, [Next]_vars, proc' = "crashed"
  PROVE  \/ UNCHANGED vars
         \/ \E s \in Sids : \/ StorageFails(s)
                            \/ JoinThrows(s)
                            \/ EmitError(s) /\ s \notin recorders
<1>1. CASE UNCHANGED vars
  BY <1>1
<1>2. CASE Next
  <2>1. ASSUME NEW s \in Sids,
               Request(s) \/ RegisterRecorder(s) \/ EngineThread(s)
        PROVE  FALSE
    BY <2>1
       DEF Request, Start, Stop, StopUnknown, RegisterRecorder, EngineThread,
           Callback, PushLayout, StoppedOnError, Post, EngineFault,
           OnJoinChannelSuccess, OnError, OnLeaveChannel, OnUserJoined,
           OnUserOffline, Begin, Polling
  <2>2. ASSUME NEW s \in Sids, FsCallback(s)
        PROVE  StorageFails(s) \/ JoinThrows(s)
    BY <2>2 DEF FsCallback, StorageReady, FolderWritable, JoinNative, Polling
  <2>3. ~RunTask /\ ~EnterCheck /\ ~LeaveCheck
    BY DEF RunTask, EnterCheck, LeaveCheck, Polling
  <2>4. CASE Emit
    BY <2>4
       DEF Emit, EmitJoinChannel, EmitError, EmitUserJoin, EmitUserLeave,
           NextIs
  <2> QED
    BY <1>2, <2>1, <2>2, <2>3, <2>4 DEF Next
<1> QED
  BY <1>1, <1>2

\* A listener throws only at the error of a recorder that is not registered
\* yet, or that a client has stopped.
LEMMA CrashNext ==
  ASSUME TypeOK, IInv, CrashInv, [Next]_vars
  PROVE  CrashExplained'
<1> SUFFICES ASSUME proc' = "crashed"
             PROVE  CrashExplained'
  BY DEF CrashExplained
<1>1. CASE UNCHANGED vars
  BY <1>1 DEF CrashInv, CrashExplained, Throwing, vars
<1>2. ASSUME NEW s \in Sids, StorageFails(s) \/ JoinThrows(s)
      PROVE  CrashExplained'
  BY <1>2 DEF StorageFails, JoinThrows, Polling, CrashExplained
<1>3. ASSUME NEW s \in Sids, EmitError(s), s \notin recorders
      PROVE  CrashExplained'
  <2> DEFINE e == [ev |-> "error", sid |-> s, uid |-> NoUid]
  <2>1. /\ phase' = "check" /\ immediates' = immediates
        /\ immediates # <<>> /\ Head(immediates) = e
        /\ UNCHANGED <<start, recorders, stopReplies>>
    BY <1>3 DEF EmitError, NextIs
  <2>2. start[s] # "answered" \/ "ok" \in stopReplies[s]
    <3> SUFFICES ASSUME start[s] = "answered", "ok" \notin stopReplies[s]
                 PROVE  FALSE
      OBVIOUS
    <3>1. PICK a \in Health, c \in Health :
            Through(s, Health, Fails(s), a, c) /\ a = "failed"
      BY <1>3 DEF CrashInv, ErrorOnce, Ended
    <3>2. PICK m \in Health : Leads(immediates, Health, Fails(s), a, m)
      BY <3>1 DEF Through
    <3>3. immediates \in Seq(Event)
      BY DEF TypeOK
    <3>4. PICK d \in Health : <<a, Head(immediates), d>> \in Fails(s)
      BY <2>1, <3>2, <3>3, LeadsAfterHead
    <3> QED
      BY <2>1, <3>1, <3>4 DEF Fails
  <2> QED
    BY <1>3, <2>1, <2>2 DEF CrashExplained, Throwing
<1> QED
  BY <1>1, <1>2, <1>3, CrashSteps

\* Whatever clients, users and engines do and however the threads interleave,
\* an exception ends the process only for the reasons CrashExplained lists.
THEOREM CrashesExplained == Spec => []CrashExplained
<1>1. TypeOK /\ IInv /\ CrashInv /\ [Next]_vars => CrashInv'
  BY ErrorOnceNext, CrashNext DEF CrashInv
<1>2. CrashInv => CrashExplained
  BY DEF CrashInv
<1> QED
  BY <1>1, <1>2, CrashInit, Invariance, PTL DEF Spec

-----------------------------------------------------------------------------
(* The users of a session, as its events tell of them                      *)

\* Who is in the channel: a set of users, or NotJoined before the engine is.
PeerStates == SUBSET (Uids \cup {NoUid})
NotJoined == {NoUid}

\* The event e takes what is known of the session s from a to c; events of
\* other sessions, errors and the leave of the engine say nothing of users.
Tells(s, a, e, c) ==
  \/ /\ e.sid # s \/ e.ev \in {"error", "leavechannel"}
     /\ c = a
  \/ /\ e.sid = s /\ e.ev = "joinchannel"
     /\ a = NotJoined
     /\ c = {}
  \/ /\ e.sid = s /\ e.ev = "userjoin"
     /\ NoUid \notin a /\ e.uid \in Uids \ a
     /\ c = a \cup {e.uid}
  \/ /\ e.sid = s /\ e.ev = "userleave"
     /\ NoUid \notin a /\ e.uid \in a
     /\ c = a \ {e.uid}

\* What the events may tell of the session s.
News(s) ==
  {t \in PeerStates \X Event \X PeerStates : Tells(s, t[1], t[2], t[3])}

\* What the engine side knows, c, and what the listeners have heard, a.
NativeSide(s, c) ==
  /\ engine[s] \in {"null", "refused", "joining"} =>
       c = NotJoined /\ m_peers[s] = {}
  /\ engine[s] \in {"in", "left"} => c = m_peers[s]
  /\ engine[s] = "stopped" => c \in {m_peers[s], NotJoined}

\* What of it the recorder and its layout have.
ScriptSide(s, a) ==
  /\ start[s] \in {"resolved", "answered"} <=> a # NotJoined
  /\ NoUid \in a => a = NotJoined
  /\ s \notin recorders => regions[s] = {}
  /\ Users(regions[s]) \subseteq a
  /\ node = "11" /\ a # NotJoined => Users(regions[s]) = a

\* The events in flight lead from what the script has heard to what the engine
\* side knows, unless the session is over.
InStep(s) ==
  \/ Ended(s)
  \/ \E a, c \in PeerStates :
       /\ Through(s, PeerStates, News(s), a, c)
       /\ NativeSide(s, c)
       /\ ScriptSide(s, a)

\* No user of the session has two tiles.
OneTileEach(s) == \A r1, r2 \in regions[s] : r1.uid = r2.uid => r1 = r2

\* The join of u, as an event of the session s.
JoinOf(s, u) == [ev |-> "userjoin", sid |-> s, uid |-> u]

\* A join that may be heard too early is known to be one.
EarlyKnown(s) ==
  s \notin recorders /\ ~Ended(s) =>
    \A u \in Uids : JoinOf(s, u) \in InFlight => u \in early[s]

\* A user whose join is not too early has a tile or is about to.
LateShown(s) ==
  ~Ended(s) =>
    \A u \in m_peers[s] \ early[s] :
      u \in Users(regions[s]) \/ JoinOf(s, u) \in InFlight

\* The inductive invariant of the users.
UsersInv ==
  \A s \in Sids :
    InStep(s) /\ OneTileEach(s) /\ EarlyKnown(s) /\ LateShown(s)

\* Nobody has heard of any user at first.
LEMMA UsersInit == Init => UsersInv
<1> SUFFICES ASSUME Init, NEW s \in Sids
             PROVE  /\ InStep(s) /\ OneTileEach(s)
                    /\ EarlyKnown(s) /\ LateShown(s)
  BY DEF UsersInv
<1>1. NotJoined \in PeerStates
  BY DEF NotJoined, PeerStates
<1>2. Through(s, PeerStates, News(s), NotJoined, NotJoined)
  BY <1>1, ThroughInit
<1>3. NativeSide(s, NotJoined)
  BY DEF Init, NativeSide
<1>4. ScriptSide(s, NotJoined)
  BY DEF Init, ScriptSide, Users
<1>5. InStep(s)
  BY <1>1, <1>2, <1>3, <1>4 DEF InStep
<1>6. InFlight = {}
  BY DEF Init, InFlight, ToSet
<1> QED
  BY <1>5, <1>6 DEF Init, OneTileEach, EarlyKnown, LateShown

\* Only joins and leaves of the session lead from one set of users to another.
LEMMA NewsIsAbout ==
  ASSUME NEW t \in Sids
  PROVE  About(t, PeerStates, News(t))
  BY DEF About, News, Tells

-----------------------------------------------------------------------------
(* How the steps move the news                                             *)

\* A session that was answered is not answered again: it is over, or its
\* recorder is registered.
LEMMA AnsweredStays ==
  ASSUME TypeOK, IInv, [Next]_vars, NEW t \in Sids
  PROVE  /\ Ended(t) => Ended(t)'
         /\ t \in recorders => t \in recorders' \/ Ended(t)'
<1> DEFINE Stays == start[t] = "answered" =>
                      /\ start'[t] = "answered"
                      /\ t \in recorders' => t \in recorders
<1>1. ASSUME UNCHANGED <<start, recorders>>
      PROVE  Stays
  BY <1>1
<1>2. ASSUME NEW s \in Sids,
             Request(s) \/ FsCallback(s) \/ RegisterRecorder(s)
      PROVE  Stays
  BY <1>2
     DEF Request, Start, Stop, StopUnknown, FsCallback, StorageReady,
         StorageFails, FolderWritable, JoinNative, JoinThrows,
         RegisterRecorder, Advance, OnCleanup, TypeOK
<1>3. ASSUME NEW s \in Sids, EngineThread(s)
      PROVE  Stays
  BY <1>1, <1>3
     DEF EngineThread, Callback, PushLayout, StoppedOnError, Post,
         EngineFault, OnJoinChannelSuccess, OnError, OnLeaveChannel,
         OnUserJoined, OnUserOffline
<1>4. ASSUME RunTask \/ EnterCheck \/ LeaveCheck \/ UNCHANGED vars
      PROVE  Stays
  BY <1>1, <1>4 DEF RunTask, EnterCheck, LeaveCheck, vars
<1>5. ASSUME NEW s \in Sids, EmitJoinChannel(s) \/ EmitError(s)
      PROVE  Stays
  <2>1. start' = [start EXCEPT
                    ![s] = IF @ = "joining" THEN "resolved" ELSE @]
        \/ start' = [start EXCEPT
                       ![s] = IF @ = "joining" THEN "failed" ELSE @]
        \/ start' = start
    BY <1>5 DEF EmitJoinChannel, EmitError
  <2>2. recorders' \subseteq recorders
    BY <1>5 DEF EmitJoinChannel, EmitError, OnCleanup
  <2> QED
    BY <2>1, <2>2 DEF TypeOK
<1>6. ASSUME NEW s \in Sids, NEW u \in Uids,
             EmitUserJoin(s, u) \/ EmitUserLeave(s, u)
      PROVE  Stays
  BY <1>1, <1>6 DEF EmitUserJoin, EmitUserLeave
<1> HIDE DEF Stays
<1>7. Stays
  BY <1>2, <1>3, <1>4, <1>5, <1>6 DEF Next, Emit
<1>8. t \in recorders => start[t] = "answered"
  BY DEF IInv, SessionInv
<1> QED
  BY <1>7, <1>8 DEF Stays, Ended

\* The version of Node stays what it was.
LEMMA NodeStays ==
  ASSUME [Next]_vars
  PROVE  node' = node
<1>1. ASSUME NEW s \in Sids,
             Request(s) \/ FsCallback(s) \/ RegisterRecorder(s)
      PROVE  node' = node
  BY <1>1
     DEF Request, Start, Stop, StopUnknown, FsCallback, StorageReady,
         StorageFails, FolderWritable, JoinNative, JoinThrows,
         RegisterRecorder
<1>2. ASSUME NEW s \in Sids, EngineThread(s)
      PROVE  node' = node
  BY <1>2
     DEF EngineThread, Callback, PushLayout, StoppedOnError, Post,
         EngineFault, OnJoinChannelSuccess, OnError, OnLeaveChannel,
         OnUserJoined, OnUserOffline
<1>3. CASE Emit
  BY <1>3 DEF Emit, EmitJoinChannel, EmitError, EmitUserJoin, EmitUserLeave
<1>4. CASE RunTask \/ EnterCheck \/ LeaveCheck \/ UNCHANGED vars
  BY <1>4 DEF RunTask, EnterCheck, LeaveCheck, vars
<1> QED
  BY <1>1, <1>2, <1>3, <1>4 DEF Next

\* A step that is not about the session leaves it in step.
LEMMA InStepKept ==
  ASSUME NEW t \in Sids, InStep(t), node' = node, engine'[t] = engine[t],
         start'[t] = start[t], t \in recorders' <=> t \in recorders,
         regions'[t] = regions[t], m_peers'[t] = m_peers[t],
         \A a, c \in PeerStates :
           Through(t, PeerStates, News(t), a, c)
             => Through(t, PeerStates, News(t), a, c)'
  PROVE  InStep(t)'
<1>1. CASE Ended(t)
  BY <1>1 DEF InStep, Ended
<1>2. CASE ~Ended(t)
  <2>1. PICK a \in PeerStates, c \in PeerStates :
          /\ Through(t, PeerStates, News(t), a, c)
          /\ NativeSide(t, c)
          /\ ScriptSide(t, a)
    BY <1>2 DEF InStep
  <2>2. NativeSide(t, c)' /\ ScriptSide(t, a)'
    BY <2>1 DEF NativeSide, ScriptSide
  <2> QED
    BY <2>1, <2>2 DEF InStep
<1> QED
  BY <1>1, <1>2

\* What requests and the file system do tells nothing of users, but may end
\* the session.
LEMMA InStepRequest ==
  ASSUME TypeOK, IInv, [Next]_vars, NEW s \in Sids, NEW t \in Sids, InStep(t),
         Request(s) \/ FsCallback(s) \/ RegisterRecorder(s)
  PROVE  InStep(t)'
<1>1. CASE Ended(t)
  BY <1>1, AnsweredStays DEF InStep
<1>2. CASE ~Ended(t)
  <2>1. PICK a \in PeerStates, c \in PeerStates :
          /\ Through(t, PeerStates, News(t), a, c)
          /\ NativeSide(t, c)
          /\ ScriptSide(t, a)
    BY <1>2 DEF InStep
  <2>2. Silent
    BY DEF Silent
  <2>3. /\ Through(t, PeerStates, News(t), a, c)'
        /\ m_peers' = m_peers /\ node' = node
    BY <2>1, <2>2, ThroughSilent, SilentKeeps, NodeStays
  <2>4. ASSUME NativeSide(t, c)', ScriptSide(t, a)'
        PROVE  InStep(t)'
    BY <2>3, <2>4 DEF InStep
  <2>5. SessionInv(t)
    BY DEF IInv
  <2>6. CASE \/ Start(s) \/ StopUnknown(s) \/ StorageFails(s)
             \/ JoinThrows(s) \/ FolderWritable(s)
    <3>1. UNCHANGED <<recorders, engine, regions>>
      BY <2>6 DEF Start, StopUnknown, StorageFails, JoinThrows,
                  FolderWritable, layoutVars
    <3>2. start'[t] \in {"resolved", "answered"} <=>
            start[t] \in {"resolved", "answered"}
      BY <2>6 DEF Start, StopUnknown, StorageFails, JoinThrows,
                  FolderWritable, Advance, TypeOK
    <3> QED
      BY <2>1, <2>3, <2>4, <3>1, <3>2 DEF NativeSide, ScriptSide
  <2>7. CASE StorageReady(s)
    <3>1. UNCHANGED <<recorders, engine>>
      BY <2>7 DEF StorageReady
    <3>2. regions'[t] = regions[t] \/ regions'[t] = {}
      BY <2>7 DEF StorageReady, TypeOK
    <3>3. s # t => start'[t] = start[t] /\ regions'[t] = regions[t]
      BY <2>7 DEF StorageReady, Advance, TypeOK
    <3>4. s = t => start[t] = "mkdir" /\ start'[t] = "access"
      BY <2>7 DEF StorageReady, Advance, TypeOK
    <3>5. Users({}) = {}
      BY DEF Users
    <3> QED
      BY <2>1, <2>3, <2>4, <3>1, <3>2, <3>3, <3>4, <3>5
         DEF NativeSide, ScriptSide
  <2>8. CASE JoinNative(s)
    <3>1. UNCHANGED <<recorders, regions>>
      BY <2>8 DEF JoinNative, layoutVars
    <3>2. CASE s = t
      <4>1. /\ start[t] = "writeFile" /\ start'[t] = "joining"
            /\ engine[t] = "null"
            /\ engine'[t] \in {"null", "refused", "joining"}
        BY <2>5, <2>8, <3>2
           DEF JoinNative, CreateChannel, Advance, SessionInv, TypeOK
      <4> QED
        BY <2>1, <2>3, <2>4, <3>1, <4>1 DEF NativeSide, ScriptSide
    <3>3. CASE s # t
      <4>1. start'[t] = start[t] /\ engine'[t] = engine[t]
        BY <2>8, <3>3 DEF JoinNative, CreateChannel, Advance, TypeOK
      <4> QED
        BY <2>1, <2>3, <2>4, <3>1, <4>1 DEF NativeSide, ScriptSide
    <3> QED
      BY <3>2, <3>3
  <2>9. CASE Stop(s)
    <3>1. CASE s = t
      <4>1. t \notin recorders' /\ start'[t] = "answered"
        BY <2>5, <2>9, <3>1 DEF Stop, OnCleanup, SessionInv
      <4> QED
        BY <4>1 DEF InStep, Ended
    <3>2. CASE s # t
      <4>1. /\ start'[t] = start[t] /\ engine'[t] = engine[t]
            /\ t \in recorders' <=> t \in recorders
            /\ regions'[t] = regions[t]
        BY <2>9, <3>2 DEF Stop, OnCleanup, Release, TypeOK, layoutVars
      <4> QED
        BY <2>1, <2>3, <2>4, <4>1 DEF NativeSide, ScriptSide
    <3> QED
      BY <3>1, <3>2
  <2>10. CASE RegisterRecorder(s)
    <3>1. UNCHANGED <<engine, regions>>
      BY <2>10 DEF RegisterRecorder, layoutVars
    <3>2. start'[t] \in {"resolved", "answered"} <=>
            start[t] \in {"resolved", "answered"}
      BY <2>10 DEF RegisterRecorder, Advance, TypeOK
    <3>3. t \in recorders => t \in recorders'
      BY <2>10 DEF RegisterRecorder
    <3> QED
      BY <2>1, <2>3, <2>4, <3>1, <3>2, <3>3 DEF NativeSide, ScriptSide
  <2> QED
    BY <2>6, <2>7, <2>8, <2>9, <2>10 DEF Request, FsCallback
<1> QED
  BY <1>1, <1>2

\* A callback that begins, in step with what it does to m_engine and m_peers,
\* keeps a session that goes on in step.
LEMMA InStepBegins ==
  ASSUME TypeOK, IInv, NEW ev \in EventNames, NEW s \in Sids,
         NEW u \in Uids \cup {NoUid}, NEW label, Begin(s, ev, u, label),
         NEW t \in Sids, InStep(t),
         UNCHANGED <<node, queue, immediates, regions, start, recorders>>,
         \A b \in PeerStates :
           ~Ended(t) /\ NativeSide(t, b) =>
             \E c \in PeerStates :
               /\ Tells(t, b, [ev |-> ev, sid |-> s, uid |-> u], c)
               /\ NativeSide(t, c)'
  PROVE  InStep(t)'
<1>1. CASE Ended(t)
  BY <1>1 DEF InStep, Ended
<1>2. CASE ~Ended(t)
  <2> DEFINE e == [ev |-> ev, sid |-> s, uid |-> u]
  <2>1. PICK a \in PeerStates, b \in PeerStates :
          /\ Through(t, PeerStates, News(t), a, b)
          /\ NativeSide(t, b)
          /\ ScriptSide(t, a)
    BY <1>2 DEF InStep
  <2>2. PICK c \in PeerStates : Tells(t, b, e, c) /\ NativeSide(t, c)'
    BY <1>2, <2>1
  <2>3. e \in Event
    BY DEF Event
  <2>4. s # t => c = b
    <3>1. e.sid = s
      OBVIOUS
    <3> QED
      BY <2>2, <3>1 DEF Tells
  <2>5. <<b, e, c>> \in News(t)
    <3> HIDE DEF e
    <3> QED
      BY <2>2, <2>3 DEF News
  <2>6. posting[s] = {}
    BY DEF Begin, IInv, SessionInv
  <2>7. Through(t, PeerStates, News(t), a, c)'
    BY <2>1, <2>4, <2>5, <2>6, ThroughBegin
  <2>8. ScriptSide(t, a)'
    BY <2>1 DEF ScriptSide
  <2> QED
    BY <2>2, <2>7, <2>8 DEF InStep
<1> QED
  BY <1>1, <1>2

\* The engine reports what became of the users.
LEMMA InStepBeginning ==
  ASSUME TypeOK, IInv, NEW s \in Sids, NEW t \in Sids, InStep(t),
         Beginning(s)
  PROVE  InStep(t)'
<1>1. NoUid \in Uids \cup {NoUid} /\ NoUid \notin Uids
  BY ServerAssumption
<1>2. m_peers[t] \in SUBSET Uids /\ {} \in PeerStates
  BY DEF TypeOK, PeerStates
<1>3. ASSUME NEW b, NEW ev, NEW u, s # t
      PROVE  Tells(t, b, [ev |-> ev, sid |-> s, uid |-> u], b)
  BY <1>3 DEF Tells
<1>4. CASE OnJoinChannelSuccess(s)
  <2>1. /\ Begin(s, "joinchannel", NoUid, "post")
        /\ "joinchannel" \in EventNames
        /\ UNCHANGED <<node, queue, immediates, regions, start, recorders>>
    BY <1>4 DEF OnJoinChannelSuccess, layoutVars, EventNames
  <2>2. ASSUME NEW b \in PeerStates, NativeSide(t, b)
        PROVE  \E c \in PeerStates :
                 /\ Tells(t, b,
                          [ev |-> "joinchannel", sid |-> s, uid |-> NoUid], c)
                 /\ NativeSide(t, c)'
    <3>1. CASE s = t
      <4>1. NativeSide(t, {})'
        BY <1>4, <2>2, <3>1 DEF OnJoinChannelSuccess, NativeSide, TypeOK
      <4>2. b = NotJoined
        BY <1>4, <2>2, <3>1 DEF OnJoinChannelSuccess, NativeSide
      <4> QED
        BY <1>2, <3>1, <4>1, <4>2 DEF Tells
    <3>2. CASE s # t
      <4>1. NativeSide(t, b)'
        BY <1>4, <2>2, <3>2 DEF OnJoinChannelSuccess, NativeSide, TypeOK
      <4> QED
        BY <1>3, <3>2, <4>1
    <3> QED
      BY <3>1, <3>2
  <2> QED
    BY <1>1, <2>1, <2>2, InStepBegins
<1>5. CASE OnError(s)
  <2>1. /\ Begin(s, "error", NoUid, "stop")
        /\ "error" \in EventNames
        /\ UNCHANGED <<node, queue, immediates, regions, start, recorders>>
    BY <1>5 DEF OnError, layoutVars, EventNames
  <2>2. ASSUME NEW b \in PeerStates, NativeSide(t, b)
        PROVE  NativeSide(t, b)'
    BY <1>5, <2>2 DEF OnError, NativeSide, TypeOK
  <2>3. \A b : Tells(t, b, [ev |-> "error", sid |-> s, uid |-> NoUid], b)
    BY DEF Tells
  <2> QED
    BY <1>1, <2>1, <2>2, <2>3, InStepBegins
<1>6. CASE OnLeaveChannel(s)
  <2>1. /\ Begin(s, "leavechannel", NoUid, "post")
        /\ "leavechannel" \in EventNames
        /\ UNCHANGED <<node, queue, immediates, regions, start, recorders>>
    BY <1>6 DEF OnLeaveChannel, layoutVars, EventNames
  <2>2. ASSUME NEW b \in PeerStates, NativeSide(t, b)
        PROVE  NativeSide(t, b)'
    BY <1>6, <2>2 DEF OnLeaveChannel, NativeSide, TypeOK
  <2>3. \A b :
          Tells(t, b, [ev |-> "leavechannel", sid |-> s, uid |-> NoUid], b)
    BY DEF Tells
  <2> QED
    BY <1>1, <2>1, <2>2, <2>3, InStepBegins
<1>7. ASSUME NEW u \in Uids, OnUserJoined(s, u)
      PROVE  InStep(t)'
  <2>1. /\ Begin(s, "userjoin", u, "push")
        /\ "userjoin" \in EventNames
        /\ UNCHANGED <<node, queue, immediates, regions, start, recorders>>
    BY <1>7 DEF OnUserJoined, EventNames
  <2>2. ASSUME NEW b \in PeerStates, NativeSide(t, b)
        PROVE  \E c \in PeerStates :
                 /\ Tells(t, b, [ev |-> "userjoin", sid |-> s, uid |-> u], c)
                 /\ NativeSide(t, c)'
    <3>1. CASE s = t
      <4>1. b = m_peers[t] /\ m_peers'[t] = m_peers[t] \cup {u}
            /\ engine'[t] = "in" /\ u \notin m_peers[t]
        BY <1>7, <2>2, <3>1 DEF OnUserJoined, NativeSide, TypeOK
      <4>2. NativeSide(t, b \cup {u})'
        BY <4>1 DEF NativeSide
      <4>3. Tells(t, b, [ev |-> "userjoin", sid |-> s, uid |-> u], b \cup {u})
        BY <1>1, <1>2, <3>1, <4>1 DEF Tells
      <4>4. b \cup {u} \in PeerStates
        BY DEF PeerStates
      <4> QED
        BY <4>2, <4>3, <4>4
    <3>2. CASE s # t
      <4>1. NativeSide(t, b)'
        BY <1>7, <2>2, <3>2 DEF OnUserJoined, NativeSide, TypeOK
      <4> QED
        BY <1>3, <3>2, <4>1
    <3> QED
      BY <3>1, <3>2
  <2> QED
    BY <2>1, <2>2, InStepBegins
<1>8. ASSUME NEW u \in Uids, OnUserOffline(s, u)
      PROVE  InStep(t)'
  <2>1. /\ Begin(s, "userleave", u, "push")
        /\ "userleave" \in EventNames
        /\ UNCHANGED <<node, queue, immediates, regions, start, recorders>>
    BY <1>8 DEF OnUserOffline, EventNames
  <2>2. ASSUME NEW b \in PeerStates, NativeSide(t, b)
        PROVE  \E c \in PeerStates :
                 /\ Tells(t, b, [ev |-> "userleave", sid |-> s, uid |-> u], c)
                 /\ NativeSide(t, c)'
    <3>1. CASE s = t
      <4>1. b = m_peers[t] /\ m_peers'[t] = m_peers[t] \ {u}
            /\ engine'[t] = "in" /\ u \in m_peers[t]
        BY <1>8, <2>2, <3>1 DEF OnUserOffline, NativeSide, TypeOK
      <4>2. NativeSide(t, b \ {u})'
        BY <4>1 DEF NativeSide
      <4>3. Tells(t, b, [ev |-> "userleave", sid |-> s, uid |-> u], b \ {u})
        BY <1>1, <1>2, <3>1, <4>1 DEF Tells
      <4>4. b \ {u} \in PeerStates
        BY DEF PeerStates
      <4> QED
        BY <4>2, <4>3, <4>4
    <3>2. CASE s # t
      <4>1. NativeSide(t, b)'
        BY <1>8, <2>2, <3>2 DEF OnUserOffline, NativeSide, TypeOK
      <4> QED
        BY <1>3, <3>2, <4>1
    <3> QED
      BY <3>1, <3>2
  <2> QED
    BY <2>1, <2>2, InStepBegins
<1> QED
  BY <1>4, <1>5, <1>6, <1>7, <1>8 DEF Beginning

\* The users of a layout after a push and after a filter.
LEMMA UsersOfLayout ==
  ASSUME NEW layout, NEW u
  PROVE  /\ Users(WithUser(layout, u)) = Users(layout) \cup {u}
         /\ Users(WithoutUser(layout, u)) = Users(layout) \ {u}
         /\ Users({}) = {}
<1>1. Users(WithUser(layout, u)) = Users(layout) \cup {u}
  <2> DEFINE r == [uid |-> u, at |-> Corner(Cardinality(layout))]
  <2>1. WithUser(layout, u) = layout \cup {r} /\ r.uid = u
    BY DEF WithUser
  <2> HIDE DEF r
  <2> QED
    BY <2>1 DEF Users
<1>2. Users(WithoutUser(layout, u)) = Users(layout) \ {u}
  BY DEF Users, WithoutUser
<1> QED
  BY <1>1, <1>2 DEF Users

\* What an immediate tells the listeners, they know of a session that goes on.
LEMMA InStepTold ==
  ASSUME TypeOK, NEW ev, NEW s, NEW u, NextIs(ev, s, u),
         immediates' = Tail(immediates), queue' = queue, posting' = posting,
         NEW t \in Sids, InStep(t), ~Ended(t),
         \A a, c \in PeerStates :
           /\ ScriptSide(t, a)
           /\ Tells(t, a, [ev |-> ev, sid |-> s, uid |-> u], c)
           => ScriptSide(t, c)',
         engine'[t] = engine[t], m_peers'[t] = m_peers[t]
  PROVE  InStep(t)'
<1>1. PICK a \in PeerStates, c \in PeerStates :
        /\ Through(t, PeerStates, News(t), a, c)
        /\ NativeSide(t, c)
        /\ ScriptSide(t, a)
  BY DEF InStep
<1>2. PICK d \in PeerStates :
        /\ <<a, [ev |-> ev, sid |-> s, uid |-> u], d>> \in News(t)
        /\ Through(t, PeerStates, News(t), d, c)'
  BY <1>1, ThroughEmit
<1>3. Tells(t, a, [ev |-> ev, sid |-> s, uid |-> u], d)
  BY <1>2 DEF News
<1>4. ScriptSide(t, d)'
  BY <1>1, <1>3
<1>5. NativeSide(t, c)'
  BY <1>1 DEF NativeSide
<1> QED
  BY <1>2, <1>4, <1>5 DEF InStep

\* An event of another session, or one that is not about users, tells nothing.
LEMMA NothingTold ==
  ASSUME NEW ev, NEW s, NEW u, NEW t \in Sids,
         s # t \/ ev \in {"error", "leavechannel"},
         node' = node, start'[t] = start[t],
         t \in recorders' <=> t \in recorders, regions'[t] = regions[t]
  PROVE  \A a, c \in PeerStates :
           /\ ScriptSide(t, a)
           /\ Tells(t, a, [ev |-> ev, sid |-> s, uid |-> u], c)
           => ScriptSide(t, c)'
<1> SUFFICES ASSUME NEW a, NEW c, ScriptSide(t, a),
                    Tells(t, a, [ev |-> ev, sid |-> s, uid |-> u], c)
             PROVE  ScriptSide(t, c)'
  OBVIOUS
<1>1. a = c
  BY DEF Tells
<1> QED
  BY <1>1 DEF ScriptSide

\* An immediate tells the listeners the first of the events in flight.
LEMMA InStepEmit ==
  ASSUME TypeOK, IInv, MixInv, NEW t \in Sids, InStep(t),
         NEW r \in Sids, Hearing(r)
  PROVE  InStep(t)'
<1>1. SessionInv(t) /\ HasEngine(t)
  BY DEF IInv, MixInv
<1>2. ASSUME NEW s \in Sids, EmitJoinChannel(s)
      PROVE  InStep(t)'
  <2>1. /\ NextIs("joinchannel", s, NoUid)
        /\ immediates' = Tail(immediates)
        /\ UNCHANGED <<node, recorders, regions, m_peers, engine, queue,
                     posting>>
    BY <1>2 DEF EmitJoinChannel, layoutVars, engineVars
  <2>2. CASE Ended(t)
    BY <1>2, <2>1, <2>2 DEF Ended, InStep, EmitJoinChannel, TypeOK
  <2>3. CASE ~Ended(t) /\ s # t
    <3>1. start'[t] = start[t]
      BY <1>2, <2>3 DEF EmitJoinChannel, TypeOK
    <3>2. \A a, c \in PeerStates :
            /\ ScriptSide(t, a)
            /\ Tells(t, a, [ev |-> "joinchannel", sid |-> s, uid |-> NoUid], c)
            => ScriptSide(t, c)'
      BY <2>1, <2>3, <3>1, NothingTold
    <3> QED
      BY <2>1, <2>3, <3>1, <3>2, InStepTold
  <2>4. CASE ~Ended(t) /\ s = t
    <3>1. EventInFlight("joinchannel", t)
      BY <2>1, <2>4, EmitAddsNothing
    <3>2. ASSUME NEW a \in PeerStates, NEW c \in PeerStates,
                 ScriptSide(t, a),
                 Tells(t, a, [ev |-> "joinchannel", sid |-> s,
                              uid |-> NoUid], c)
          PROVE  ScriptSide(t, c)'
      <4>1. a = NotJoined /\ c = {} /\ c # NotJoined
        BY <2>4, <3>2 DEF Tells, NotJoined
      <4>2. start[t] = "joining"
        BY <1>1, <3>1, <3>2, <4>1
           DEF ScriptSide, HasEngine, SessionInv, TypeOK, StartStates
      <4>3. start'[t] = "resolved" /\ t \notin recorders
        BY <1>1, <1>2, <2>4, <4>2 DEF EmitJoinChannel, SessionInv, TypeOK
      <4>4. regions'[t] = {} /\ t \notin recorders'
        BY <2>1, <3>2, <4>3 DEF ScriptSide
      <4> QED
        BY <4>1, <4>3, <4>4, UsersOfLayout DEF ScriptSide
    <3> QED
      BY <2>1, <2>4, <3>2, InStepTold
  <2> QED
    BY <2>2, <2>3, <2>4
<1>3. ASSUME NEW s \in Sids, EmitError(s), s \in recorders
      PROVE  InStep(t)'
  <2>1. /\ NextIs("error", s, NoUid)
        /\ immediates' = Tail(immediates)
        /\ UNCHANGED <<node, regions, m_peers, queue, posting>>
        /\ recorders' = recorders \ {s}
    BY <1>3 DEF EmitError, OnCleanup, layoutVars, engineVars
  <2>2. start' = start
    <3>1. start[s] = "answered"
      BY <1>3 DEF IInv, SessionInv
    <3> QED
      BY <1>3, <3>1 DEF EmitError, TypeOK
  <2>3. CASE Ended(t) \/ s = t
    <3>1. start[t] = "answered"
      BY <1>1, <1>3, <2>3 DEF SessionInv, Ended
    <3> QED
      BY <2>1, <2>2, <2>3, <3>1 DEF Ended, InStep
  <2>4. CASE ~Ended(t) /\ s # t
    <3>1. engine'[t] = engine[t] /\ (t \in recorders' <=> t \in recorders)
      BY <1>3, <2>1, <2>4 DEF EmitError, OnCleanup, Release, TypeOK
    <3>2. \A a, c \in PeerStates :
            /\ ScriptSide(t, a)
            /\ Tells(t, a, [ev |-> "error", sid |-> s, uid |-> NoUid], c)
            => ScriptSide(t, c)'
      BY <2>1, <2>2, <2>4, <3>1, NothingTold
    <3> QED
      BY <2>1, <2>2, <2>4, <3>1, <3>2, InStepTold
  <2> QED
    BY <2>3, <2>4
<1>4. ASSUME NEW s \in Sids, NEW u \in Uids, EmitUserJoin(s, u)
      PROVE  InStep(t)'
  <2>1. /\ NextIs("userjoin", s, u)
        /\ immediates' = Tail(immediates)
        /\ UNCHANGED <<node, recorders, start, m_peers, engine, queue,
                     posting>>
    BY <1>4 DEF EmitUserJoin, engineVars
  <2>2. CASE Ended(t)
    BY <2>1, <2>2 DEF Ended, InStep
  <2>3. CASE ~Ended(t) /\ s # t
    <3>1. regions'[t] = regions[t]
      BY <1>4, <2>3 DEF EmitUserJoin, TypeOK, layoutVars
    <3>2. \A a, c \in PeerStates :
            /\ ScriptSide(t, a)
            /\ Tells(t, a, [ev |-> "userjoin", sid |-> s, uid |-> u], c)
            => ScriptSide(t, c)'
      BY <2>1, <2>3, <3>1, NothingTold
    <3> QED
      BY <2>1, <2>3, <3>1, <3>2, InStepTold
  <2>4. CASE ~Ended(t) /\ s = t
    <3>1. ASSUME NEW a \in PeerStates, NEW c \in PeerStates,
                 ScriptSide(t, a),
                 Tells(t, a, [ev |-> "userjoin", sid |-> s, uid |-> u], c)
          PROVE  ScriptSide(t, c)'
      <4>1. NoUid \notin a /\ c = a \cup {u} /\ u # NoUid
        BY <2>4, <3>1, ServerAssumption DEF Tells
      <4>2. a # NotJoined /\ NoUid \notin c /\ c # NotJoined
        BY <4>1 DEF NotJoined
      <4>3. CASE t \in recorders
        <5>1. regions'[t] = WithUser(regions[t], u)
          BY <1>4, <2>4, <4>3 DEF EmitUserJoin, TypeOK
        <5>2. Users(regions'[t]) = Users(regions[t]) \cup {u}
          BY <5>1, UsersOfLayout
        <5> QED
          BY <2>1, <3>1, <4>1, <4>2, <4>3, <5>2 DEF ScriptSide
      <4>4. CASE t \notin recorders
        <5>1. start[t] = "resolved"
          BY <2>4, <3>1, <4>2, <4>4 DEF ScriptSide, Ended
        <5>2. node # "11"
          BY <2>1, <5>1 DEF NextIs, PendingReactions
        <5>3. regions'[t] = regions[t]
          BY <1>4, <2>4, <4>4 DEF EmitUserJoin, layoutVars
        <5>4. Users(regions'[t]) = Users(regions[t])
          BY <5>3
        <5> QED
          BY <2>1, <3>1, <4>1, <4>2, <5>2, <5>3, <5>4 DEF ScriptSide
      <4> QED
        BY <4>3, <4>4
    <3> QED
      BY <2>1, <2>4, <3>1, InStepTold
  <2> QED
    BY <2>2, <2>3, <2>4
<1>5. ASSUME NEW s \in Sids, NEW u \in Uids, EmitUserLeave(s, u)
      PROVE  InStep(t)'
  <2>1. /\ NextIs("userleave", s, u)
        /\ immediates' = Tail(immediates)
        /\ UNCHANGED <<node, recorders, start, m_peers, engine, queue,
                     posting>>
    BY <1>5 DEF EmitUserLeave, engineVars
  <2>2. CASE Ended(t)
    BY <2>1, <2>2 DEF Ended, InStep
  <2>3. CASE ~Ended(t) /\ s # t
    <3>1. regions'[t] = regions[t]
      BY <1>5, <2>3 DEF EmitUserLeave, TypeOK, layoutVars
    <3>2. \A a, c \in PeerStates :
            /\ ScriptSide(t, a)
            /\ Tells(t, a, [ev |-> "userleave", sid |-> s, uid |-> u], c)
            => ScriptSide(t, c)'
      BY <2>1, <2>3, <3>1, NothingTold
    <3> QED
      BY <2>1, <2>3, <3>1, <3>2, InStepTold
  <2>4. CASE ~Ended(t) /\ s = t
    <3>1. ASSUME NEW a \in PeerStates, NEW c \in PeerStates,
                 ScriptSide(t, a),
                 Tells(t, a, [ev |-> "userleave", sid |-> s, uid |-> u], c)
          PROVE  ScriptSide(t, c)'
      <4>1. NoUid \notin a /\ c = a \ {u}
        BY <2>4, <3>1 DEF Tells
      <4>2. a # NotJoined /\ NoUid \notin c /\ c # NotJoined
        BY <4>1 DEF NotJoined
      <4>3. CASE t \in recorders
        <5>1. regions'[t] = WithoutUser(regions[t], u)
          BY <1>5, <2>4, <4>3 DEF EmitUserLeave, TypeOK
        <5>2. Users(regions'[t]) = Users(regions[t]) \ {u}
          BY <5>1, UsersOfLayout
        <5> QED
          BY <2>1, <3>1, <4>1, <4>2, <4>3, <5>2 DEF ScriptSide
      <4>4. CASE t \notin recorders
        <5>1. start[t] = "resolved"
          BY <2>4, <3>1, <4>2, <4>4 DEF ScriptSide, Ended
        <5>2. node # "11"
          BY <2>1, <5>1 DEF NextIs, PendingReactions
        <5>3. regions'[t] = regions[t] /\ regions[t] = {}
          BY <1>5, <2>4, <3>1, <4>4 DEF EmitUserLeave, layoutVars, ScriptSide
        <5>4. Users(regions'[t]) = {}
          BY <5>3, UsersOfLayout
        <5> QED
          BY <2>1, <3>1, <4>1, <4>2, <5>2, <5>3, <5>4 DEF ScriptSide
      <4> QED
        BY <4>3, <4>4
    <3> QED
      BY <2>1, <2>4, <3>1, InStepTold
  <2> QED
    BY <2>2, <2>3, <2>4
<1> QED
  BY <1>2, <1>3, <1>4, <1>5 DEF Hearing

\* Every step keeps every session in step.
LEMMA InStepNext ==
  TypeOK /\ IInv /\ MixInv /\ UsersInv /\ [Next]_vars
    => \A t \in Sids : InStep(t)'
<1> SUFFICES ASSUME TypeOK, IInv, MixInv, UsersInv, [Next]_vars,
                    NEW t \in Sids
             PROVE  InStep(t)'
  OBVIOUS
<1>1. InStep(t)
  BY DEF UsersInv
<1>2. ASSUME UNCHANGED <<engine, start, recorders, regions, m_peers>>,
             \A a, c \in PeerStates :
               Through(t, PeerStates, News(t), a, c)
                 => Through(t, PeerStates, News(t), a, c)'
      PROVE  InStep(t)'
  BY <1>1, <1>2, InStepKept, NodeStays
<1>3. ASSUME NEW s \in Sids,
             Request(s) \/ FsCallback(s) \/ RegisterRecorder(s)
      PROVE  InStep(t)'
  BY <1>1, <1>3, InStepRequest
<1>4. ASSUME Silent,
             UNCHANGED <<engine, start, recorders, regions, m_peers>>
      PROVE  InStep(t)'
  BY <1>2, <1>4, ThroughSilent
<1>5. ASSUME NEW s \in Sids,
             \/ PushLayout(s) \/ StoppedOnError(s) \/ EngineFault(s)
             \/ EmitError(s) /\ s \notin recorders
      PROVE  InStep(t)'
  <2>1. UNCHANGED <<engine, start, recorders, regions, m_peers>>
    BY <1>5 DEF PushLayout, StoppedOnError, EngineFault, EmitError,
                layoutVars, engineVars
  <2> QED
    BY <1>4, <1>5, <2>1 DEF Silent
<1>6. CASE EnterCheck \/ LeaveCheck \/ UNCHANGED vars
  <2>1. UNCHANGED <<engine, start, recorders, regions, m_peers>>
    BY <1>6 DEF EnterCheck, LeaveCheck, vars, layoutVars, engineVars
  <2> QED
    BY <1>4, <1>6, <2>1 DEF Silent
<1>7. CASE Silent
  BY <1>3, <1>5, <1>6, <1>7 DEF Silent
<1>8. ASSUME NEW s \in Sids, Beginning(s)
      PROVE  InStep(t)'
  BY <1>1, <1>8, InStepBeginning
<1>9. ASSUME NEW s \in Sids, Post(s)
      PROVE  InStep(t)'
  <2>1. UNCHANGED <<engine, start, recorders, regions, m_peers>>
    BY <1>9 DEF Post, layoutVars
  <2> QED
    BY <1>2, <1>9, <2>1, ThroughPost, NewsIsAbout
<1>10. CASE RunTask
  <2>1. UNCHANGED <<engine, start, recorders, regions, m_peers>>
    BY <1>10 DEF RunTask, layoutVars, engineVars
  <2> QED
    BY <1>2, <1>10, <2>1, ThroughTask, NewsIsAbout
<1>11. ASSUME NEW s \in Sids, Hearing(s)
       PROVE  InStep(t)'
  BY <1>1, <1>11, InStepEmit
<1> QED
  BY <1>7, <1>8, <1>9, <1>10, <1>11, StepKinds

\* A user whose join is being told has no tile yet.
LEMMA JoinIsNews ==
  ASSUME TypeOK, UsersInv, NEW s \in Sids, NEW u, NextIs("userjoin", s, u),
         immediates' = Tail(immediates), queue' = queue, posting' = posting,
         s \in recorders
  PROVE  u \notin Users(regions[s])
<1>1. PICK a \in PeerStates, c \in PeerStates :
        /\ Through(s, PeerStates, News(s), a, c)
        /\ ScriptSide(s, a)
  BY DEF UsersInv, InStep, Ended
<1>2. PICK d \in PeerStates :
        <<a, [ev |-> "userjoin", sid |-> s, uid |-> u], d>> \in News(s)
  BY <1>1, ThroughEmit
<1>3. u \notin a
  BY <1>2 DEF News, Tells
<1> QED
  BY <1>1, <1>3 DEF ScriptSide

\* A user who joins has no tile: otherwise the script had heard of them.
LEMMA TilesNext ==
  TypeOK /\ UsersInv /\ [Next]_vars => \A t \in Sids : OneTileEach(t)'
<1> SUFFICES ASSUME TypeOK, UsersInv, [Next]_vars, NEW t \in Sids
             PROVE  OneTileEach(t)'
  OBVIOUS
<1>1. OneTileEach(t)
  BY DEF UsersInv
<1>2. ASSUME regions'[t] = regions[t] \/ regions'[t] = {}
      PROVE  OneTileEach(t)'
  BY <1>1, <1>2 DEF OneTileEach
<1>3. ASSUME NEW s \in Sids, Request(s) \/ FsCallback(s)
                             \/ RegisterRecorder(s) \/ EngineThread(s)
      PROVE  OneTileEach(t)'
  <2>1. CASE StorageReady(s)
    BY <1>2, <2>1 DEF StorageReady, TypeOK
  <2>2. CASE ~StorageReady(s)
    BY <1>2, <1>3, <2>2
       DEF Request, Start, Stop, StopUnknown, FsCallback, StorageFails,
           FolderWritable, JoinNative, JoinThrows, RegisterRecorder,
           EngineThread, Callback, PushLayout, StoppedOnError, Post,
           EngineFault, OnJoinChannelSuccess, OnError, OnLeaveChannel,
           OnUserJoined, OnUserOffline, layoutVars
  <2> QED
    BY <2>1, <2>2
<1>4. CASE RunTask \/ EnterCheck \/ LeaveCheck \/ UNCHANGED vars
  BY <1>2, <1>4 DEF RunTask, EnterCheck, LeaveCheck, vars, layoutVars
<1>5. CASE Emit
  <2>1. ASSUME NEW s \in Sids, EmitJoinChannel(s) \/ EmitError(s)
        PROVE  OneTileEach(t)'
    BY <1>2, <2>1 DEF EmitJoinChannel, EmitError, layoutVars
  <2>2. ASSUME NEW s \in Sids, NEW u \in Uids, EmitUserJoin(s, u)
        PROVE  OneTileEach(t)'
    <3>1. CASE s \in recorders /\ s = t
      <4>1. u \notin Users(regions[t])
        BY <2>2, <3>1, JoinIsNews DEF EmitUserJoin, engineVars
      <4> DEFINE r == [uid |-> u, at |-> Corner(Cardinality(regions[t]))]
      <4>2. regions'[t] = regions[t] \cup {r} /\ r.uid = u
        BY <2>2, <3>1 DEF EmitUserJoin, WithUser, TypeOK
      <4> HIDE DEF r
      <4>3. \A q \in regions[t] : q.uid # r.uid
        BY <4>1, <4>2 DEF Users
      <4> QED
        BY <1>1, <4>2, <4>3 DEF OneTileEach
    <3>2. CASE s \notin recorders \/ s # t
      BY <1>2, <2>2, <3>2 DEF EmitUserJoin, TypeOK, layoutVars
    <3> QED
      BY <3>1, <3>2
  <2>3. ASSUME NEW s \in Sids, NEW u \in Uids, EmitUserLeave(s, u)
        PROVE  OneTileEach(t)'
    <3>1. regions'[t] \subseteq regions[t]
      BY <2>3 DEF EmitUserLeave, WithoutUser, TypeOK, layoutVars
    <3> QED
      BY <1>1, <3>1 DEF OneTileEach
  <2> QED
    BY <1>5, <2>1, <2>2, <2>3 DEF Emit
<1> QED
  BY <1>3, <1>4, <1>5 DEF Next


-----------------------------------------------------------------------------
(* The users who may be lost                                               *)

\* Only a callback that begins brings an event into flight, its own.
LEMMA WhatIsNew ==
  ASSUME TypeOK, IInv, [Next]_vars, NEW t \in Sids, NEW u \in Uids,
         JoinOf(t, u) \in InFlight', JoinOf(t, u) \notin InFlight
  PROVE  OnUserJoined(t, u)
<1>1. ASSUME NEW s \in Sids, Beginning(s)
      PROVE  OnUserJoined(t, u)
  <2>1. ASSUME NEW ev, NEW v, NEW label, Begin(s, ev, v, label),
               queue' = queue, immediates' = immediates
        PROVE  ev = "userjoin" /\ s = t /\ v = u
    <3> DEFINE e == [ev |-> ev, sid |-> s, uid |-> v]
    <3>1. posting[s] = {}
      BY <2>1 DEF IInv, SessionInv, Begin
    <3>2. InFlight' = InFlight \cup {e}
      BY <2>1, <3>1, FlightOfBegin
    <3>3. JoinOf(t, u) = e
      BY <3>2
    <3> QED
      BY <3>3 DEF JoinOf
  <2>2. ~OnJoinChannelSuccess(s) /\ ~OnError(s) /\ ~OnLeaveChannel(s)
    BY <2>1 DEF OnJoinChannelSuccess, OnError, OnLeaveChannel
  <2>3. \A v \in Uids : ~OnUserOffline(s, v)
    BY <2>1 DEF OnUserOffline
  <2>4. PICK v \in Uids : OnUserJoined(s, v)
    BY <1>1, <2>2, <2>3 DEF Beginning
  <2>5. s = t /\ v = u
    BY <2>1, <2>4 DEF OnUserJoined
  <2> QED
    BY <2>4, <2>5
<1>2. CASE Silent
  BY <1>2, SilentKeeps
<1>3. ASSUME NEW s \in Sids, Post(s)
      PROVE  FALSE
  BY <1>3, PostMovesNothing
<1>4. CASE RunTask
  BY <1>4, TaskAddsNothing
<1>5. ASSUME NEW s \in Sids, Hearing(s)
      PROVE  FALSE
  BY <1>5, Hearings, EmitAddsNothing
<1> QED
  BY <1>1, <1>2, <1>3, <1>4, <1>5, StepKinds

\* Only a listener takes a join out of flight, by hearing it.
LEMMA WhatIsHeard ==
  ASSUME TypeOK, IInv, [Next]_vars, NEW t \in Sids, NEW u \in Uids,
         JoinOf(t, u) \in InFlight, JoinOf(t, u) \notin InFlight'
  PROVE  EmitUserJoin(t, u)
<1>1. ASSUME NEW s \in Sids, Beginning(s)
      PROVE  FALSE
  <2>1. PICK ev, v, label : /\ Begin(s, ev, v, label)
                            /\ queue' = queue /\ immediates' = immediates
    BY <1>1, Beginnings
  <2>2. posting[s] = {}
    BY <2>1 DEF IInv, SessionInv, Begin
  <2> QED
    BY <2>1, <2>2, FlightOfBegin
<1>2. CASE Silent
  BY <1>2, SilentKeeps
<1>3. ASSUME NEW s \in Sids, Post(s)
      PROVE  FALSE
  BY <1>3, PostMovesNothing
<1>4. CASE RunTask
  <2>1. JoinOf(t, u).ev \in Forwarded
    BY DEF JoinOf, Forwarded
  <2> QED
    BY <1>4, <2>1, FlightOfTask
<1>5. ASSUME NEW s \in Sids, Hearing(s)
      PROVE  EmitUserJoin(t, u)
  <2>1. ASSUME NEW ev, NEW v, NextIs(ev, s, v),
               immediates' = Tail(immediates), queue' = queue,
               posting' = posting
        PROVE  ev = "userjoin" /\ s = t /\ v = u
    <3>1. JoinOf(t, u) = [ev |-> ev, sid |-> s, uid |-> v]
      BY <2>1, FlightOfEmit
    <3> QED
      BY <3>1 DEF JoinOf
  <2>2. ~EmitJoinChannel(s) /\ ~(EmitError(s) /\ s \in recorders)
    BY <2>1 DEF EmitJoinChannel, EmitError, engineVars
  <2>3. \A v \in Uids : ~EmitUserLeave(s, v)
    BY <2>1 DEF EmitUserLeave, engineVars
  <2>4. PICK v \in Uids : EmitUserJoin(s, v)
    BY <1>5, <2>2, <2>3 DEF Hearing
  <2>5. s = t /\ v = u
    BY <2>1, <2>4 DEF EmitUserJoin, engineVars
  <2> QED
    BY <2>4, <2>5
<1> QED
  BY <1>1, <1>2, <1>3, <1>4, <1>5, StepKinds

\* Who has joined, and who joined early, changes as the engine reports it.
LEMMA PeersStep ==
  ASSUME TypeOK, [Next]_vars, NEW t \in Sids
  PROVE  /\ \A u \in Uids :
              u \in early[t] /\ u \notin early'[t] =>
                OnUserJoined(t, u) /\ t \in recorders
         /\ \A u \in Uids :
              /\ u \in m_peers'[t] \ early'[t]
              /\ u \notin m_peers[t] \ early[t]
              => OnUserJoined(t, u)
<1>1. ASSUME m_peers'[t] \subseteq m_peers[t], early' = early
      PROVE  /\ \A u \in Uids :
                  u \in early[t] /\ u \notin early'[t] =>
                    OnUserJoined(t, u) /\ t \in recorders
             /\ \A u \in Uids :
                  /\ u \in m_peers'[t] \ early'[t]
                  /\ u \notin m_peers[t] \ early[t]
                  => OnUserJoined(t, u)
  BY <1>1
<1>2. ASSUME NEW s \in Sids, NEW u \in Uids, OnUserJoined(s, u)
      PROVE  /\ s # t => m_peers'[t] = m_peers[t] /\ early'[t] = early[t]
             /\ s = t => /\ m_peers'[t] = m_peers[t] \cup {u}
                         /\ early'[t] = IF t \in recorders
                                          THEN early[t] \ {u}
                                          ELSE early[t] \cup {u}
  BY <1>2 DEF OnUserJoined, TypeOK
<1>3. ASSUME NEW s \in Sids, NEW u \in Uids, OnUserOffline(s, u)
      PROVE  m_peers'[t] \subseteq m_peers[t] /\ early' = early
  BY <1>3 DEF OnUserOffline, TypeOK
<1>4. ASSUME NEW s \in Sids,
             OnJoinChannelSuccess(s) \/ OnError(s) \/ OnLeaveChannel(s)
             \/ Post(s)
      PROVE  m_peers' = m_peers /\ early' = early
  BY <1>4 DEF OnJoinChannelSuccess, OnError, OnLeaveChannel, Post
<1>5. CASE Silent
  BY <1>1, <1>5, SilentKeeps
<1>6. CASE RunTask
  BY <1>1, <1>6 DEF RunTask, engineVars
<1>7. ASSUME NEW s \in Sids, Hearing(s)
      PROVE  m_peers' = m_peers /\ early' = early
  BY <1>7 DEF Hearing, EmitJoinChannel, EmitError, EmitUserJoin,
              EmitUserLeave, engineVars
<1>8. ASSUME NEW s \in Sids, Beginning(s)
      PROVE  \/ m_peers'[t] \subseteq m_peers[t] /\ early' = early
             \/ \E u \in Uids : OnUserJoined(s, u)
  BY <1>3, <1>4, <1>8 DEF Beginning
<1>9. ASSUME NEW s \in Sids, NEW v \in Uids, OnUserJoined(s, v)
      PROVE  /\ \A u \in Uids :
                  u \in early[t] /\ u \notin early'[t] =>
                    OnUserJoined(t, u) /\ t \in recorders
             /\ \A u \in Uids :
                  /\ u \in m_peers'[t] \ early'[t]
                  /\ u \notin m_peers[t] \ early[t]
                  => OnUserJoined(t, u)
  BY <1>2, <1>9
<1> QED
  BY <1>1, <1>4, <1>5, <1>6, <1>7, <1>8, <1>9, StepKinds

\* A join that is reported before the registration is noted as early.
LEMMA EarlyNext ==
  TypeOK /\ IInv /\ UsersInv /\ [Next]_vars => \A t \in Sids : EarlyKnown(t)'
<1> SUFFICES ASSUME TypeOK, IInv, UsersInv, [Next]_vars, NEW t \in Sids,
                    t \notin recorders', ~Ended(t)',
                    NEW u \in Uids, JoinOf(t, u) \in InFlight'
             PROVE  u \in early'[t]
  BY DEF EarlyKnown, JoinOf
<1>1. t \notin recorders /\ ~Ended(t)
  BY AnsweredStays
<1>2. CASE JoinOf(t, u) \in InFlight
  <2>1. u \in early[t]
    BY <1>1, <1>2 DEF UsersInv, EarlyKnown
  <2> QED
    BY <1>1, <2>1, PeersStep
<1>3. CASE JoinOf(t, u) \notin InFlight
  <2>1. OnUserJoined(t, u)
    BY <1>3, WhatIsNew
  <2> QED
    BY <1>1, <2>1 DEF OnUserJoined, TypeOK
<1> QED
  BY <1>2, <1>3

\* Whoever is in the channel and not heard of has a join in flight.
UnheardIsJoining ==
  \A t \in Sids, u \in Uids : \A a, c \in PeerStates :
    /\ Through(t, PeerStates, News(t), a, c) /\ NativeSide(t, c)
    /\ u \in m_peers[t] /\ u \notin a /\ NoUid \notin a
    => JoinOf(t, u) \in InFlight

\* Nothing but a join leads to a set of users with somebody new.
LEMMA UnheardInv == TypeOK => UnheardIsJoining
<1> SUFFICES ASSUME TypeOK, NEW t \in Sids, NEW u \in Uids,
                    NEW a \in PeerStates, NEW c \in PeerStates,
                    Through(t, PeerStates, News(t), a, c), NativeSide(t, c),
                    u \in m_peers[t], u \notin a, NoUid \notin a
             PROVE  JoinOf(t, u) \in InFlight
  BY DEF UnheardIsJoining
<1> DEFINE G == {x \in PeerStates : NoUid \notin x /\ u \notin x}
<1>1. SUFFICES ASSUME JoinOf(t, u) \notin InFlight
               PROVE  FALSE
  OBVIOUS
<1>2. \A e \in InFlight :
        \A x, y \in PeerStates : <<x, e, y>> \in News(t) /\ x \in G => y \in G
  <2> SUFFICES ASSUME NEW e \in InFlight, NEW x \in G, NEW y \in PeerStates,
                      <<x, e, y>> \in News(t)
               PROVE  NoUid \notin y /\ u \notin y
    OBVIOUS
  <2>1. Tells(t, x, e, y) /\ e \in Event
    BY DEF News
  <2>2. CASE e.sid = t /\ e.ev = "userjoin"
    <3>1. e = JoinOf(t, e.uid)
      BY <2>1, <2>2 DEF Event, JoinOf
    <3>2. e.uid # u
      BY <1>1, <3>1
    <3>3. y = x \cup {e.uid}
      BY <2>1, <2>2 DEF Tells
    <3>4. e.uid # NoUid
      BY <2>1, <2>2, ServerAssumption DEF Tells
    <3> QED
      BY <3>2, <3>3, <3>4
  <2>3. CASE ~(e.sid = t /\ e.ev = "userjoin")
    BY <2>1, <2>3 DEF Tells
  <2> QED
    BY <2>2, <2>3
<1>3. c \in G
  <2>1. a \in G
    OBVIOUS
  <2> HIDE DEF G
  <2> QED
    BY <1>2, <2>1, ThroughInside
<1>4. c # NotJoined /\ u \notin c
  BY <1>3 DEF NotJoined
<1>5. engine[t] \in EngineStates
  BY DEF TypeOK
<1> QED
  BY <1>4, <1>5 DEF NativeSide, EngineStates

\* The same after a step.
LEMMA UnheardNext == TypeOK' => UnheardIsJoining'
  BY UnheardInv, PTL

\* Only a leave takes the tile of a user away from a recorder.
LEMMA TilesTakenAway ==
  ASSUME TypeOK, IInv, [Next]_vars, NEW t \in Sids, t \in recorders,
         NEW u \in Uids, u \in Users(regions[t]), u \notin Users(regions'[t])
  PROVE  EmitUserLeave(t, u)
<1>1. regions'[t] # regions[t]
  OBVIOUS
<1>2. ASSUME NEW s \in Sids, Request(s) \/ FsCallback(s)
                             \/ RegisterRecorder(s) \/ EngineThread(s)
      PROVE  FALSE
  <2>1. CASE StorageReady(s)
    <3>1. start[t] = "answered"
      BY DEF IInv, SessionInv
    <3> QED
      BY <1>1, <2>1, <3>1 DEF StorageReady, Advance, TypeOK
  <2>2. CASE ~StorageReady(s)
    BY <1>1, <1>2, <2>2
       DEF Request, Start, Stop, StopUnknown, FsCallback, StorageFails,
           FolderWritable, JoinNative, JoinThrows, RegisterRecorder,
           EngineThread, Callback, PushLayout, StoppedOnError, Post,
           EngineFault, OnJoinChannelSuccess, OnError, OnLeaveChannel,
           OnUserJoined, OnUserOffline, layoutVars
  <2> QED
    BY <2>1, <2>2
<1>3. ~(RunTask \/ EnterCheck \/ LeaveCheck \/ UNCHANGED vars)
  BY <1>1 DEF RunTask, EnterCheck, LeaveCheck, vars, layoutVars
<1>4. CASE Emit
  <2>1. ASSUME NEW s \in Sids, EmitJoinChannel(s) \/ EmitError(s)
        PROVE  FALSE
    BY <1>1, <2>1 DEF EmitJoinChannel, EmitError, layoutVars
  <2>2. ASSUME NEW s \in Sids, NEW v \in Uids, EmitUserJoin(s, v)
        PROVE  FALSE
    <3>1. s = t /\ regions'[t] = WithUser(regions[t], v)
      BY <1>1, <2>2 DEF EmitUserJoin, TypeOK, layoutVars
    <3> QED
      BY <3>1, UsersOfLayout
  <2>3. ASSUME NEW s \in Sids, NEW v \in Uids, EmitUserLeave(s, v)
        PROVE  EmitUserLeave(t, u)
    <3>1. s = t /\ regions'[t] = WithoutUser(regions[t], v)
      BY <1>1, <2>3 DEF EmitUserLeave, TypeOK, layoutVars
    <3>2. v = u
      BY <3>1, UsersOfLayout
    <3> QED
      BY <2>3, <3>1, <3>2
  <2> QED
    BY <1>4, <2>1, <2>2, <2>3 DEF Emit
<1> QED
  BY <1>2, <1>3, <1>4 DEF Next

\* A user who joined late has a tile, unless the join is still to be heard.
LEMMA LateNext ==
  TypeOK /\ IInv /\ UsersInv /\ [Next]_vars => \A t \in Sids : LateShown(t)'
<1> SUFFICES ASSUME TypeOK, IInv, UsersInv, [Next]_vars, NEW t \in Sids,
                    ~Ended(t)', NEW u, u \in m_peers'[t] \ early'[t]
             PROVE  u \in Users(regions'[t]) \/ JoinOf(t, u) \in InFlight'
  BY DEF LateShown, JoinOf
<1> u \in Uids
  <2>1. TypeOK'
    BY TypeNext
  <2> QED
    BY <2>1 DEF TypeOK
<1>1. ~Ended(t)
  BY AnsweredStays
<1>2. CASE u \notin m_peers[t] \ early[t]
  <2>1. OnUserJoined(t, u)
    BY <1>2, PeersStep
  <2>2. posting[t] = {}
    BY <2>1 DEF OnUserJoined, Begin, IInv, SessionInv
  <2>3. InFlight' = InFlight \cup {JoinOf(t, u)}
    BY <2>1, <2>2, FlightOfBegin DEF OnUserJoined, JoinOf
  <2> QED
    BY <2>3
<1>3. CASE /\ u \in m_peers[t] \ early[t]
           /\ JoinOf(t, u) \in InFlight
           /\ JoinOf(t, u) \notin InFlight'
  <2>1. EmitUserJoin(t, u)
    BY <1>3, WhatIsHeard
  <2>2. t \in recorders
    BY <1>1, <1>3 DEF UsersInv, EarlyKnown
  <2>3. regions'[t] = WithUser(regions[t], u)
    BY <2>1, <2>2 DEF EmitUserJoin, TypeOK
  <2> QED
    BY <2>3, UsersOfLayout
<1>4. CASE /\ u \in m_peers[t] \ early[t]
           /\ JoinOf(t, u) \notin InFlight
           /\ JoinOf(t, u) \notin InFlight'
  <2>1. u \in Users(regions[t])
    BY <1>1, <1>4 DEF UsersInv, LateShown
  <2>2. ASSUME u \notin Users(regions'[t])
        PROVE  FALSE
    <3>1. PICK a \in PeerStates, c \in PeerStates :
            /\ Through(t, PeerStates, News(t), a, c)
            /\ NativeSide(t, c)
            /\ ScriptSide(t, a)
      BY <1>1 DEF UsersInv, InStep
    <3>2. t \in recorders
      BY <2>1, <3>1, UsersOfLayout DEF ScriptSide
    <3>3. EmitUserLeave(t, u)
      BY <2>1, <2>2, <3>2, TilesTakenAway
    <3>4. /\ NextIs("userleave", t, u) /\ immediates' = Tail(immediates)
          /\ UNCHANGED <<queue, posting, m_peers, engine>>
      BY <3>3 DEF EmitUserLeave, engineVars
    <3>5. PICK d \in PeerStates :
            /\ <<a, [ev |-> "userleave", sid |-> t, uid |-> u], d>>
                 \in News(t)
            /\ Through(t, PeerStates, News(t), d, c)'
      BY <3>1, <3>4, ThroughEmit
    <3>6. NoUid \notin d /\ u \notin d
      BY <3>5 DEF News, Tells
    <3>7. /\ TypeOK' /\ NativeSide(t, c)' /\ u \in m_peers'[t]
      BY <1>4, <3>1, <3>4, TypeNext DEF NativeSide
    <3> QED
      BY <1>4, <3>5, <3>6, <3>7, UnheardNext DEF UnheardIsJoining
  <2> QED
    BY <2>2
<1> QED
  BY <1>2, <1>3, <1>4

-----------------------------------------------------------------------------
(* The theorems about users                                                *)

\* In every reachable state the listeners and the engines are in step.
THEOREM UsersInvariance == Spec => [](TypeOK /\ IInv /\ UsersInv)
<1>1. TypeOK /\ IInv /\ MixInv /\ UsersInv /\ [Next]_vars => UsersInv'
  BY InStepNext, TilesNext, EarlyNext, LateNext DEF UsersInv
<1> QED
  BY <1>1, UsersInit, MixInvariance, PTL DEF Spec

\* Whichever way joins, leaves and the registration of a recorder interleave,
\* and in either order of promise reactions, nobody has two tiles.
THEOREM TilesAreUnique == Spec => []OneRegionPerUser
<1>1. UsersInv => OneRegionPerUser
  BY DEF UsersInv, OneTileEach, OneRegionPerUser
<1> QED
  BY <1>1, UsersInvariance, PTL

\* When the events that concern a session are through, what the listeners
\* have heard is what the engine side knows.
LEMMA NewsThrough ==
  ASSUME TypeOK, IInv, UsersInv, NEW s \in recorders, Settled(s)
  PROVE  /\ Users(regions[s]) \subseteq m_peers[s]
         /\ Awaited(s) \subseteq Users(regions[s])
<1>1. s \in Sids /\ ~Ended(s) /\ start[s] = "answered"
  BY DEF TypeOK, Ended, IInv, SessionInv
<1>2. PICK a \in PeerStates, c \in PeerStates :
        /\ Through(s, PeerStates, News(s), a, c)
        /\ NativeSide(s, c)
        /\ ScriptSide(s, a)
  BY <1>1 DEF UsersInv, InStep
<1>3. \A e \in InFlight :
        \A x, y \in PeerStates : <<x, e, y>> \in News(s) => x = y
  BY DEF News, Tells, Settled
<1>4. c = a
  <2> DEFINE G == {a}
  <2>1. \A e \in InFlight :
          \A x, y \in PeerStates :
            <<x, e, y>> \in News(s) /\ x \in G => y \in G
    BY <1>3
  <2>2. a \in G
    OBVIOUS
  <2> HIDE DEF G
  <2>3. c \in G
    BY <1>1, <1>2, <2>1, <2>2, ThroughInside
  <2> QED
    BY <2>3 DEF G
<1>5. /\ a # NotJoined /\ Users(regions[s]) \subseteq a
      /\ node = "11" => Users(regions[s]) = a
  BY <1>1, <1>2 DEF ScriptSide
<1>6. engine[s] \in EngineStates
  BY <1>1 DEF TypeOK
<1>7. c = m_peers[s]
  BY <1>2, <1>4, <1>5, <1>6 DEF NativeSide, EngineStates
<1>8. m_peers[s] \ early[s] \subseteq Users(regions[s])
  BY <1>1 DEF UsersInv, LateShown, JoinOf, Settled
<1> QED
  BY <1>4, <1>5, <1>7, <1>8 DEF Awaited

\* In either order of promise reactions, once the news is through a layout
\* shows nobody who is gone and everybody it is excused from no more.
THEOREM EveryoneShown == Spec => []EveryUserShown
<1>1. TypeOK /\ IInv /\ UsersInv => EveryUserShown
  BY NewsThrough DEF EveryUserShown
<1> QED
  BY <1>1, UsersInvariance, PTL
=============================================================================
