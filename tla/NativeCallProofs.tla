-------------------------- MODULE NativeCallProofs --------------------------
(***************************************************************************)
(* What joinChannel and setMixLayout make of their arguments, for integers *)
(* of any width and any values a script may pass.                          *)
(*                                                                         *)
(* The two properties of joinChannel are inductive together: a join sets   *)
(* what was asked and what was created in one step, and nothing else       *)
(* changes either.  Those of setMixLayout follow from two facts: m_layout  *)
(* is the image of the layout last passed, and each user of the listeners  *)
(* has a region in that layout.                                            *)
(***************************************************************************)
EXTENDS NativeCall, QueueLemmas

-----------------------------------------------------------------------------
(* joinChannel                                                             *)

\* The inductive invariant of joinChannel.
JInv == JoinFaithful /\ KeyOptional

\* A text that is not empty is what GetString returns.
LEMMA GetStringText ==
  \A value : GetString(value) # Null =>
    value.type = "string" /\ GetString(value) = value.text
BY DEF GetString, HasText

\* The fifth argument is read as the uid it is.
LEMMA GetUidNum ==
  \A value : IsUint32(value) => GetUid(value) = value.num
BY DEF GetUid, GetUint32

\* What the locals hold of the arguments as the wrapper passes them.
LEMMA LocalsOf ==
  ASSUME NEW join
  PROVE  LET locals == Converted(Arguments(join)) IN
         /\ locals.name = GetString(join.name)
         /\ locals.appid = GetString(join.appid)
         /\ locals.key = GetString(IF join.key = Text("") THEN Missing
                                                          ELSE join.key)
         /\ locals.uid = GetUid(join.uid)
BY DEF Converted, Arguments

\* The texts the wrapper adds by itself are never null.
LEMMA OwnTexts ==
  ASSUME NEW join
  PROVE  LET locals == Converted(Arguments(join)) IN
         NullStrings(locals) =>
           Null \in {GetString(join.name), GetString(join.appid)}
<1>1. /\ GetString(Text("bin")) = "bin"
      /\ GetString(Text("cfg.json")) = "cfg.json"
  BY DEF GetString, HasText, Text
<1>2. Null # "bin" /\ Null # "cfg.json"
  BY CallAssumption
<1> DEFINE locals == Converted(Arguments(join))
<1>3. /\ locals.appliteDir = GetString(Text("bin"))
      /\ locals.cfgPath = GetString(Text("cfg.json"))
  BY DEF Converted, Arguments
<1>4. /\ locals.name = GetString(join.name)
      /\ locals.appid = GetString(join.appid)
  BY LocalsOf
<1> HIDE DEF locals
<1>5. NullStrings(locals) =>
        Null \in {GetString(join.name), GetString(join.appid)}
  BY <1>1, <1>2, <1>3, <1>4 DEF NullStrings
<1> QED
  BY <1>5 DEF locals

\* An empty key and no key come out the same.
LEMMA KeyOf ==
  ASSUME NEW key
  PROVE  GetString(IF key = Text("") THEN Missing ELSE key) = GetString(key)
<1>1. GetString(Text("")) = Null /\ GetString(Missing) = Null
  BY DEF GetString, HasText, Text, Missing
<1> QED
  BY <1>1

\* A join keeps both properties.
LEMMA JoinKeeps ==
  ASSUME JInv, NEW join, JoinChannel(join)
  PROVE  JInv'
<1> DEFINE locals == Converted(Arguments(join))
<1>1. CASE NullStrings(locals) /\ proc' = "joinChannel"
  <2>1. Null \in {GetString(join.name), GetString(join.appid)}
    BY <1>1, OwnTexts
  <2>2. asked' = join
    BY DEF JoinChannel
  <2>3. KeyOptional'
    BY <2>1, <2>2 DEF KeyOptional, GetString, HasText
  <2>4. JoinFaithful'
    BY <1>1 DEF JoinFaithful
  <2> QED
    BY <2>3, <2>4 DEF JInv
<1>2. CASE ~NullStrings(locals) /\ UNCHANGED proc
  <2>1. asked' = join /\ proc = "up"
    BY DEF JoinChannel
  <2>2. /\ locals.name = GetString(join.name) /\ locals.name # Null
        /\ locals.appid = GetString(join.appid) /\ locals.appid # Null
        /\ locals.key = GetString(join.key)
        /\ locals.uid = GetUid(join.uid)
    BY <1>2, LocalsOf, KeyOf DEF NullStrings
  <2>3. created'.result = "called" => created'.with = locals
    BY <1>2 DEF JoinChannel
  <2> HIDE DEF locals
  <2>4. created'.result = "called" =>
          /\ join.name.type = "string" /\ locals.name = join.name.text
          /\ join.appid.type = "string" /\ locals.appid = join.appid.text
    BY <2>2, GetStringText
  <2>5. IF locals.key = Null
          THEN GetString(join.key) = Null
          ELSE join.key.type = "string" /\ locals.key = join.key.text
    BY <2>2, GetStringText
  <2>6. IsUint32(join.uid) => locals.uid = join.uid.num
    BY <2>2, GetUidNum
  <2>7. JoinFaithful'
    BY <2>1, <2>3, <2>4, <2>5, <2>6
       DEF JoinFaithful, GetString, HasText, IsUint32
  <2>8. KeyOptional'
    BY <1>2, <2>1 DEF KeyOptional
  <2> QED
    BY <2>7, <2>8 DEF JInv
<1> QED
  BY <1>1, <1>2 DEF JoinChannel

\* Passing a layout changes neither what was asked nor what was created.
LEMMA LayoutKeeps ==
  ASSUME JInv, NEW data, SetMixLayout(data)
  PROVE  JInv'
<1>1. UNCHANGED <<asked, created>> /\ proc = "up"
  BY DEF SetMixLayout
<1>2. proc' \in {"up", "setMixLayout"}
  BY DEF SetMixLayout
<1> QED
  BY <1>1, <1>2
     DEF JInv, JoinFaithful, KeyOptional, GetString, HasText, IsUint32

\* Both properties always hold.
LEMMA JoinInvariant == Spec => []JInv
<1>1. Init => JInv
  BY DEF Init, JInv, JoinFaithful, KeyOptional
<1>2. JInv /\ [Next]_vars => JInv'
  <2> SUFFICES ASSUME JInv, [Next]_vars
               PROVE  JInv'
    OBVIOUS
  <2>1. CASE \E data \in Layouts : ScriptLayout(data)
    BY <2>1, LayoutKeeps DEF ScriptLayout
  <2>2. CASE \E u \in Uids : UserJoined(u)
    BY <2>2, LayoutKeeps DEF UserJoined
  <2>3. CASE \E u \in Uids : UserLeft(u)
    BY <2>3, LayoutKeeps DEF UserLeft
  <2>4. CASE \E join \in Joins : JoinChannel(join)
    BY <2>4, JoinKeeps
  <2>5. CASE UNCHANGED vars
    BY <2>5
       DEF vars, JInv, JoinFaithful, KeyOptional, GetString, HasText,
           IsUint32
  <2> QED
    BY <2>1, <2>2, <2>3, <2>4, <2>5 DEF Next
<1> QED
  BY <1>1, <1>2, PTL DEF Spec

\* createChannel is called with the key, the channel, the application and the
\* uid that joinChannel of the wrapper was asked for.
THEOREM JoinIsFaithful == Spec => []JoinFaithful
<1>1. JInv => JoinFaithful
  BY DEF JInv
<1> QED
  BY <1>1, JoinInvariant, PTL

\* A join whose channel and application are texts never ends the process.
THEOREM KeyIsOptional == Spec => []KeyOptional
<1>1. JInv => KeyOptional
  BY DEF JInv
<1> QED
  BY <1>1, JoinInvariant, PTL

-----------------------------------------------------------------------------
(* setMixLayout                                                            *)

\* What a region of a layout may be.
Element == {NotObject} \cup Region

\* While the process is up, m_layout is the image of the last layout passed.
Taken ==
  proc = "up" => /\ layout \in Layout /\ layout.regions \in Seq(Element)
                 /\ m_layout = GetLayout(layout)

\* While it is up, the listeners' users have a region in that layout.
Shown ==
  proc = "up" =>
    /\ users \subseteq Uids
    /\ \A u \in users :
         \E region \in ToSet(layout.regions) \cap Region :
           region.uid = UidValue(u)

\* The inductive invariant of the layouts.
LInv == Taken /\ Shown

\* Both integer types hold integers.
LEMMA IntegersAre == Int32 \subseteq Int /\ UInt32 \subseteq Int
BY DEF Int32, UInt32

\* An integer makes a JavaScript number.
LEMMA NumbersAre == \A n \in Int : Number(n) \in Value
BY CallAssumption DEF Number, Value

\* A layout of which the regions are replaced.
LEMMA RegionsReplaced ==
  ASSUME NEW data \in Layout, NEW list \in Seq(Element)
  PROVE  LET new == [data EXCEPT !.regions = list] IN
         new \in Layout /\ new.regions = list
BY DEF Layout, Element

\* A layout that is passed on is the one AgoraSdk gets.
LEMMA PassedTaken ==
  ASSUME NEW data \in Layout, SetMixLayout(data)
  PROVE  Taken'
<1>1. CASE Fatal(data)
  <2>1. proc' # "up"
    BY <1>1 DEF SetMixLayout
  <2> QED
    BY <2>1 DEF Taken
<1>2. CASE ~Fatal(data)
  <2>1. layout' = data /\ m_layout' = GetLayout(data)
    BY <1>2 DEF SetMixLayout
  <2>2. data.regions \in Seq(Element)
    BY <1>2 DEF Fatal, Layout, Element
  <2>3. GetLayout(data)' = GetLayout(data)
    OBVIOUS
  <2> QED
    BY <2>1, <2>2, <2>3 DEF Taken
<1> QED
  BY <1>1, <1>2

\* The userjoin listener adds the region of a user to what is there.
LEMMA JoinedKeeps ==
  ASSUME LInv, NEW u \in Uids, UserJoined(u)
  PROVE  LInv'
<1> DEFINE at == Corner(Len(layout.regions))
           region == [uid |-> UidValue(u), x |-> Number(at.x),
                      y |-> Number(at.y)]
           list == Append(layout.regions, region)
<1>1. /\ proc = "up" /\ users' = users \cup {u} /\ users \subseteq Uids
      /\ layout \in Layout /\ layout.regions \in Seq(Element)
      /\ SetMixLayout([layout EXCEPT !.regions = list])
  BY DEF UserJoined, LInv, Taken, Shown
<1>2. region \in Region /\ region.uid = UidValue(u)
  <2>1. at.x \in Int /\ at.y \in Int
    <3>1. \A n : Corner(n).x \in Int /\ Corner(n).y \in Int
      BY DEF Corner, TileWidth, TileHeight
    <3> HIDE DEF at
    <3> QED
      BY <3>1 DEF at
  <2>2. u \in Int
    BY CallAssumption, IntegersAre
  <2> HIDE DEF at
  <2> QED
    BY <2>1, <2>2, NumbersAre DEF Region, UidValue
<1> HIDE DEF region
<1>3. /\ list \in Seq(Element)
      /\ ToSet(list) = ToSet(layout.regions) \cup {region}
  BY <1>1, <1>2, AppendedQueue, HeldAfterAppend DEF Element
<1> HIDE DEF list
<1>4. /\ [layout EXCEPT !.regions = list] \in Layout
      /\ [layout EXCEPT !.regions = list].regions = list
  BY <1>1, <1>3, RegionsReplaced
<1>5. layout'.regions = list
  BY <1>1, <1>4 DEF SetMixLayout
<1>6. Shown'
  BY <1>1, <1>2, <1>3, <1>5 DEF LInv, Shown
<1> QED
  BY <1>1, <1>4, <1>6, PassedTaken DEF LInv

\* The userleave listener takes no region of another user.
LEMMA LeftKeeps ==
  ASSUME LInv, NEW u \in Uids, UserLeft(u)
  PROVE  LInv'
<1> DEFINE others == {region \in Region : region.uid # UidValue(u)}
           list == Filtered(layout.regions, {NotObject} \cup others)
<1>1. /\ proc = "up" /\ users' = users \ {u} /\ users \subseteq Uids
      /\ layout \in Layout /\ layout.regions \in Seq(Element)
      /\ SetMixLayout([layout EXCEPT !.regions = list])
  BY DEF UserLeft, LInv, Taken, Shown
<1>2. /\ list \in Seq(Element)
      /\ ToSet(list) = ToSet(layout.regions) \cap ({NotObject} \cup others)
  BY <1>1, FilterTyped, FilterHolds
<1> HIDE DEF list
<1>3. /\ [layout EXCEPT !.regions = list] \in Layout
      /\ [layout EXCEPT !.regions = list].regions = list
  BY <1>1, <1>2, RegionsReplaced
<1>4. layout'.regions = list
  BY <1>1, <1>3 DEF SetMixLayout
<1>5. ASSUME NEW v \in users \ {u}
      PROVE  \E region \in ToSet(list) \cap Region : region.uid = UidValue(v)
  <2>1. UidValue(u) # UidValue(v)
    BY DEF UidValue, Number
  <2>2. PICK region \in ToSet(layout.regions) \cap Region :
          region.uid = UidValue(v)
    BY <1>1 DEF LInv, Shown
  <2> QED
    BY <1>2, <2>1, <2>2
<1>6. Shown'
  BY <1>1, <1>4, <1>5 DEF Shown
<1> QED
  BY <1>1, <1>3, <1>6, PassedTaken DEF LInv

\* Both always hold, whatever layouts a script passes in between.
LEMMA LayoutInvariant == Spec => []LInv
<1>1. Init => LInv
  <2> SUFFICES ASSUME Init PROVE LInv
    OBVIOUS
  <2>1. StartLayout \in Layout /\ StartLayout.regions = <<>>
    <3>0. "#00ff00" \in Strings
      BY CallAssumption
    <3>1. /\ Number(640) \in Value /\ Number(480) \in Value
          /\ Text("#00ff00") \in Value
      <4>1. Text("#00ff00") \in Value
        BY <3>0 DEF Text, Value
      <4> QED
        BY <4>1, NumbersAre
    <3>2. <<>> \in Seq({NotObject} \cup Region)
      OBVIOUS
    <3> QED
      BY <3>1, <3>2 DEF StartLayout, Layout
  <2>2. <<>> \in Seq(Element)
    OBVIOUS
  <2> QED
    BY <2>1, <2>2 DEF Init, LInv, Taken, Shown
<1>2. LInv /\ [Next]_vars => LInv'
  <2> SUFFICES ASSUME LInv, [Next]_vars
               PROVE  LInv'
    OBVIOUS
  <2>1. ASSUME NEW data \in Layouts, ScriptLayout(data)
        PROVE  LInv'
    <3>1. Taken'
      BY <2>1, PassedTaken, CallAssumption DEF ScriptLayout
    <3>2. Shown'
      BY <2>1 DEF ScriptLayout, Shown
    <3> QED
      BY <3>1, <3>2 DEF LInv
  <2>2. CASE \E u \in Uids : UserJoined(u) \/ UserLeft(u)
    BY <2>2, JoinedKeeps, LeftKeeps
  <2>3. CASE UNCHANGED <<layout, users, m_layout>>
             /\ (proc' = "up" => proc = "up")
    BY <2>3 DEF LInv, Taken, Shown, GetLayout, GetRegions, GetRegion
  <2>4. ASSUME NEW join \in Joins, JoinChannel(join)
        PROVE  LInv'
    BY <2>3, <2>4 DEF JoinChannel
  <2>5. CASE UNCHANGED vars
    BY <2>3, <2>5 DEF vars
  <2> QED
    BY <2>1, <2>2, <2>4, <2>5 DEF Next
<1> QED
  BY <1>1, <1>2, PTL DEF Spec

\* Region by region, m_layout has the images of what was passed.
LEMMA Images ==
  ASSUME Taken, proc = "up", NEW i \in DOMAIN m_layout.regions
  PROVE  /\ i \in DOMAIN layout.regions
         /\ layout.regions[i] \in Element
         /\ (\A j \in 1..i : layout.regions[j] # NotObject) =>
              m_layout.regions[i] =
                GetRegion(layout.regions[i],
                          <<GetInt32(layout.canvasWidth),
                            GetInt32(layout.canvasHeight)>>)
<1> DEFINE canvas == <<GetInt32(layout.canvasWidth),
                       GetInt32(layout.canvasHeight)>>
<1>1. m_layout.regions = GetRegions(layout.regions, canvas)
  BY DEF Taken, GetLayout
<1> HIDE DEF canvas
<1>2. i \in DOMAIN layout.regions
  BY <1>1 DEF GetRegions
<1>3. layout.regions[i] \in Element
  BY <1>2 DEF Taken
<1>4. m_layout.regions[i] =
        IF \E j \in 1..i : layout.regions[j] = NotObject
          THEN Garbled ELSE GetRegion(layout.regions[i], canvas)
  BY <1>1, <1>2 DEF GetRegions
<1> QED
  BY <1>2, <1>3, <1>4 DEF canvas

\* Statuses are only logged, but a mistyped member leaves no more than that one
\* field of the native layout uninitialised, up to the first region that is no
\* object: for integers of any width and any layouts.
THEOREM GarbageIsContained == Spec => []GarbageContained
<1>1. Taken => GarbageContained
  <2> SUFFICES ASSUME Taken, proc = "up", NEW i \in DOMAIN m_layout.regions,
                      \A j \in 1..i : layout.regions[j] # NotObject
               PROVE  LET to == m_layout.regions[i]
                          from == layout.regions[i] IN
                      /\ to.uid = Garbage => ~IsUint32(from.uid)
                      /\ to.x[1] = Garbage => ~IsNumber(from.x)
                      /\ to.y[1] = Garbage => ~IsNumber(from.y)
                      /\ to.x[2] = Garbage => ~IsInt32(layout.canvasWidth)
                      /\ to.y[2] = Garbage => ~IsInt32(layout.canvasHeight)
    BY DEF GarbageContained
  <2> DEFINE to == m_layout.regions[i]
             from == layout.regions[i]
  <2>1. /\ to.uid = GetUid(from.uid)
        /\ to.x[1] = GetDouble(from.x) /\ to.y[1] = GetDouble(from.y)
        /\ to.x[2] = GetInt32(layout.canvasWidth)
        /\ to.y[2] = GetInt32(layout.canvasHeight)
    <3>1. to = GetRegion(from, <<GetInt32(layout.canvasWidth),
                                 GetInt32(layout.canvasHeight)>>)
      BY Images
    <3> HIDE DEF to, from
    <3> QED
      BY <3>1 DEF GetRegion
  <2>2. from \in Region
    <3>1. from \in Element /\ i \in 1..i
      <4>1. i \in DOMAIN layout.regions
        BY Images
      <4>2. i \in Nat /\ i >= 1
        BY <4>1 DEF Taken
      <4> QED
        BY <4>2, Images
    <3> QED
      BY <3>1 DEF Element
  <2> HIDE DEF to, from
  <2>3. \A value : GetUid(value) = Garbage => ~IsUint32(value)
    BY CallAssumption, IntegersAre DEF GetUid, GetUint32, IsUint32
  <2>4. \A value : GetInt32(value) = Garbage => ~IsInt32(value)
    BY CallAssumption, IntegersAre DEF GetInt32, IsInt32
  <2>5. \A value \in Value : GetDouble(value) = Garbage => ~IsNumber(value)
    BY CallAssumption DEF GetDouble
  <2>6. from.x \in Value /\ from.y \in Value
    BY <2>2 DEF Region
  <2> QED
    BY <2>1, <2>3, <2>4, <2>5, <2>6 DEF to, from
<1> QED
  BY <1>1, LayoutInvariant, PTL DEF LInv

\* The uid of a user goes from the engine through JavaScript and back unchanged
\* for every uid of a uint32_t, whatever a script's regions hold.
THEOREM UsersDoSurvive == Spec => []UsersSurvive
<1>1. LInv => UsersSurvive
  <2> SUFFICES ASSUME LInv, proc = "up", NEW u \in users,
                      \A i \in DOMAIN layout.regions :
                        layout.regions[i] # NotObject
               PROVE  \E i \in DOMAIN m_layout.regions :
                        m_layout.regions[i].uid = u
    BY DEF UsersSurvive
  <2>1. PICK i \in DOMAIN layout.regions :
          layout.regions[i].uid = UidValue(u)
    BY DEF LInv, Shown, ToSet
  <2>2. i \in DOMAIN m_layout.regions
    BY <2>1 DEF LInv, Taken, GetLayout, GetRegions
  <2>3. 1..i \subseteq DOMAIN layout.regions
    BY <2>1 DEF LInv, Taken
  <2>4. m_layout.regions[i].uid = GetUid(UidValue(u))
    <3>1. m_layout.regions[i] =
            GetRegion(layout.regions[i], <<GetInt32(layout.canvasWidth),
                                           GetInt32(layout.canvasHeight)>>)
      BY <2>1, <2>2, <2>3, Images DEF LInv
    <3> QED
      BY <2>1, <3>1 DEF GetRegion
  <2>5. u \in UInt32
    BY CallAssumption DEF LInv, Shown
  <2>6. GetUid(UidValue(u)) = u
    BY <2>5 DEF GetUid, GetUint32, IsUint32, UidValue, Number
  <2> QED
    BY <2>2, <2>4, <2>6
<1> QED
  BY <1>1, LayoutInvariant, PTL

-----------------------------------------------------------------------------
(* Types                                                                   *)

\* What is read of a value is an integer of the type, or garbage.
LEMMA ReadTyped ==
  /\ \A value : GetUid(value) \in UInt32 \cup {Garbage}
  /\ \A value : GetInt32(value) \in Int32 \cup {Garbage}
BY DEF GetUid, GetUint32, GetInt32, IsUint32, IsInt32

\* So are the canvas and the uids of the layout AgoraSdk gets.
LEMMA PassedTyped ==
  ASSUME NEW data
  PROVE  /\ \A i \in 1..2 : GetLayout(data).canvas[i] \in Int32 \cup {Garbage}
         /\ \A i \in DOMAIN GetLayout(data).regions :
              GetLayout(data).regions[i].uid \in UInt32 \cup {Garbage}
<1> DEFINE canvas == <<GetInt32(data.canvasWidth),
                       GetInt32(data.canvasHeight)>>
<1>1. /\ GetLayout(data).canvas = canvas
      /\ GetLayout(data).regions = GetRegions(data.regions, canvas)
  BY DEF GetLayout
<1>2. \A i \in 1..2 : canvas[i] \in Int32 \cup {Garbage}
  BY ReadTyped
<1> HIDE DEF canvas
<1>3. \A i \in DOMAIN GetRegions(data.regions, canvas) :
        GetRegions(data.regions, canvas)[i].uid \in UInt32 \cup {Garbage}
  BY ReadTyped DEF GetRegions, GetRegion, Garbled
<1> QED
  BY <1>1, <1>2, <1>3

\* The process, the layout and what createChannel is called with keep their
\* types.
THEOREM TypeCorrect == Spec => []TypeOK
<1>1. Init => TypeOK
  BY PassedTyped DEF Init, TypeOK
<1>2. TypeOK /\ [Next]_vars => TypeOK'
  <2> SUFFICES ASSUME TypeOK, [Next]_vars
               PROVE  TypeOK'
    OBVIOUS
  <2>0. ASSUME NEW data, SetMixLayout(data), users' \subseteq Uids
        PROVE  TypeOK'
    <3>1. CASE UNCHANGED m_layout
      BY <2>0, <3>1 DEF SetMixLayout, TypeOK, Int32, UInt32
    <3>2. CASE m_layout' = GetLayout(data)
      BY <2>0, <3>2, PassedTyped DEF SetMixLayout, TypeOK, Int32, UInt32
    <3> QED
      BY <2>0, <3>1, <3>2 DEF SetMixLayout
  <2>1. ASSUME NEW data \in Layouts, ScriptLayout(data)
        PROVE  TypeOK'
    BY <2>0, <2>1 DEF ScriptLayout
  <2>2. ASSUME NEW u \in Uids, UserJoined(u) \/ UserLeft(u)
        PROVE  TypeOK'
    <3>1. users' \subseteq Uids
      BY <2>2 DEF UserJoined, UserLeft, TypeOK
    <3> QED
      BY <2>0, <2>2, <3>1 DEF UserJoined, UserLeft
  <2>3. ASSUME NEW join \in Joins, JoinChannel(join)
        PROVE  TypeOK'
    <3>1. Converted(Arguments(join)).uid \in UInt32 \cup {Garbage}
      BY LocalsOf, ReadTyped
    <3> DEFINE locals == Converted(Arguments(join))
    <3>2. \/ created' = created
          \/ created'.result = "unsupported"
          \/ created'.result = "called" /\ created'.with = locals
      BY <2>3 DEF JoinChannel
    <3>3. /\ asked' = join /\ proc' \in {"up", "joinChannel"}
          /\ UNCHANGED <<layout, users, m_layout>>
      BY <2>3 DEF JoinChannel
    <3> HIDE DEF locals
    <3> QED
      BY <3>1, <3>2, <3>3 DEF TypeOK, locals, Int32, UInt32
  <2>4. CASE UNCHANGED vars
    BY <2>4 DEF vars, TypeOK
  <2> QED
    BY <2>1, <2>2, <2>3, <2>4 DEF Next
<1> QED
  BY <1>1, <1>2, PTL DEF Spec
=============================================================================
