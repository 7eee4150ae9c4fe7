----------------------------- MODULE NativeCall -----------------------------
(***************************************************************************)
(* How the arguments of setMixLayout and joinChannel get from JavaScript   *)
(* to AgoraSdk.  The functions of node_napi_api refuse a value of the      *)
(* wrong type by returning a status and leaving the result alone;          *)
(* CHECK_NAPI_STATUS only logs it, so a local variable of the caller stays *)
(* uninitialised: Garbage.                                                 *)
(*                                                                         *)
(* The users' regions are those of RecordManager's listeners; a script     *)
(* that uses the wrapper directly may pass any layout and any argument.    *)
(***************************************************************************)
EXTENDS Integers, Sequences, MixLayout, Filters

CONSTANTS
  Width,            \* the bits of an int32_t and of a uint32_t
  Uids,             \* the users the engine may report
  Garbage,          \* what an uninitialised variable holds
  Strings,          \* the JavaScript strings
  Null,             \* the null pointer of an empty NodeString
  NotObject,        \* an element of the array of regions that is no object
  NotArray,         \* a member regions that is no array
  Layouts,          \* the layouts a script may pass
  Joins,            \* what a script may ask joinChannel for
  MaxRegions,       \* bound: regions of a layout that the listeners extend
  m_resolutionMap   \* bit rates of the canvas sizes <<width, height>>

Int32 == -(2^(Width - 1)) .. 2^(Width - 1) - 1
UInt32 == 0 .. 2^Width - 1

\* The JavaScript values a member of a layout may have, and such layouts.
Value == [type : {"number", "fraction", "string", "undefined"},
          num : Int, text : Strings]
Region == [uid : Value, x : Value, y : Value]
Layout == [canvasWidth : Value, canvasHeight : Value, backgroundColor : Value,
           regions : {NotArray} \cup Seq({NotObject} \cup Region)]

\* Garbage stands for whatever is there, and is told from what is read.
ASSUME CallAssumption ==
  /\ Width \in Nat \ {0}
  /\ Uids \subseteq UInt32
  /\ Garbage \notin Int \cup Value
  /\ {"", "#00ff00"} \subseteq Strings
  /\ Null \notin {"bin", "cfg.json"}
  /\ NotObject \notin Region
  /\ Layouts \subseteq Layout
  /\ MaxRegions \in Nat
  /\ DOMAIN m_resolutionMap \subseteq Int32 \X Int32

VARIABLES
  proc,       \* "up", or the method an exception or a bad access ended it in
  layout,     \* the JavaScript layout last passed to setMixLayout
  users,      \* history: whose regions the listeners have put into it
  m_layout,   \* AgoraSdk::m_layout
  asked,      \* history: what joinChannel of the wrapper was last asked for
  created     \* what createChannel was last called with, or why it was not

vars == <<proc, layout, users, m_layout, asked, created>>

-----------------------------------------------------------------------------
(* JavaScript values: numbers, whole or not, strings, and the rest         *)

Number(n) == [type |-> "number", num |-> n, text |-> ""]
Fraction(n) == [type |-> "fraction", num |-> n, text |-> ""]
Text(t) == [type |-> "string", num |-> 0, text |-> t]
Missing == [type |-> "undefined", num |-> 0, text |-> ""]

\* Variant: any whole number will do.
IsInt32Unchecked(value) == value.type = "number"

IsInt32(value) == value.type = "number" /\ value.num \in Int32
IsUint32(value) == value.type = "number" /\ value.num \in UInt32
IsNumber(value) == value.type \in {"number", "fraction"}

\* napi_get_value_int32_, _uint32_ and _double_: what the result holds.
GetInt32(value) == IF IsInt32(value) THEN value.num ELSE Garbage
GetUint32(value) == IF IsUint32(value) THEN value.num ELSE Garbage
GetDouble(value) == IF IsNumber(value) THEN value ELSE Garbage

\* Variant: uids are read like zOrder, as an int32_t.
GetUidSigned(value) == GetInt32(value)

\* NodeUid::getUidFromNodeValue, and the uid of a region.
GetUid(value) == GetUint32(value)

\* NodeUid::getNodeValue.
UidValue(uid) == Number(uid)

\* napi_get_value_string_utf8_ finds a length other than 0.
HasText(value) == value.type = "string" /\ value.text # ""

\* napi_get_value_nodestring_: an empty string is treated like no string.
GetString(value) == IF HasText(value) THEN value.text ELSE Null

-----------------------------------------------------------------------------
(* setMixLayout                                                            *)

Garbled == [uid |-> Garbage, x |-> <<Garbage, Garbage>>,
            y |-> <<Garbage, Garbage>>]

\* The image of one region: its position as a ratio to the canvas.  x and y
\* stand for the other members, which are read the same way.
GetRegion(region, canvas) ==
  [uid |-> GetUid(region.uid),
   x |-> <<GetDouble(region.x), canvas[1]>>,
   y |-> <<GetDouble(region.y), canvas[2]>>]

\* Variant: a mistyped member ends the loop like a region that is no object.
GetRegionsStrict(list, canvas) ==
  [i \in DOMAIN list |->
     IF \E j \in 1..i : list[j] = NotObject \/ ~IsUint32(list[j].uid)
       THEN Garbled ELSE GetRegion(list[i], canvas)]

\* The loop over the array, which ends at a region that is no object; the
\* native array keeps its full length.
GetRegions(list, canvas) ==
  [i \in DOMAIN list |->
     IF \E j \in 1..i : list[j] = NotObject
       THEN Garbled ELSE GetRegion(list[i], canvas)]

\* An empty handle of regions or a null colour is used without a test.
Fatal(data) ==
  data.regions = NotArray \/ GetString(data.backgroundColor) = Null

GetLayout(data) ==
  LET canvas == <<GetInt32(data.canvasWidth), GetInt32(data.canvasHeight)>> IN
  [canvas |-> canvas, regions |-> GetRegions(data.regions, canvas)]

\* NodeRecordingSdk::setMixLayout up to the call of updateMixLayout.
SetMixLayout(data) ==
  /\ proc = "up"
  /\ layout' = data
  /\ \/ Fatal(data) /\ proc' = "setMixLayout" /\ UNCHANGED m_layout
     \/ ~Fatal(data) /\ m_layout' = GetLayout(data) /\ UNCHANGED proc
  /\ UNCHANGED <<asked, created>>

\* A script passes a layout of its own.
ScriptLayout(data) ==
  /\ SetMixLayout(data)
  /\ users' = {}

\* The userjoin listener.
UserJoined(u) ==
  /\ proc = "up"
  /\ u \notin users
  /\ Len(layout.regions) < MaxRegions
  /\ users' = users \cup {u}
  /\ LET at == Corner(Len(layout.regions)) IN
     SetMixLayout([layout EXCEPT !.regions = Append(@,
       [uid |-> UidValue(u), x |-> Number(at.x), y |-> Number(at.y)])])

\* The userleave listener.
UserLeft(u) ==
  /\ proc = "up"
  /\ u \in users
  /\ users' = users \ {u}
  /\ SetMixLayout([layout EXCEPT !.regions = Filtered(@,
       {NotObject} \cup {region \in Region : region.uid # UidValue(u)})])

-----------------------------------------------------------------------------
(* joinChannel                                                             *)

\* AgoraRecordSdk.joinChannel: the arguments in the order they are passed.
\* An empty key counts as none.
Arguments(join) ==
  << IF join.key = Text("") THEN Missing ELSE join.key,
     join.name, Text("bin"), join.appid, join.uid, Text("cfg.json") >>

\* Variant: the channel and the application are taken for each other.
ConvertedSwapped(args) ==
  [key |-> GetString(args[1]), name |-> GetString(args[4]),
   appliteDir |-> GetString(args[3]), appid |-> GetString(args[2]),
   uid |-> GetUid(args[5]), cfgPath |-> GetString(args[6])]

\* The locals of NodeRecordingSdk::joinChannel.
Converted(args) ==
  [key |-> GetString(args[1]), name |-> GetString(args[2]),
   appliteDir |-> GetString(args[3]), appid |-> GetString(args[4]),
   uid |-> GetUid(args[5]), cfgPath |-> GetString(args[6])]

\* Variant: the key is made a std::string like the others.
NullStringsAll(locals) ==
  Null \in {locals.key, locals.name, locals.appliteDir, locals.appid,
            locals.cfgPath}

\* A std::string is made of a null pointer; of the key only if there is one.
NullStrings(locals) ==
  Null \in {locals.name, locals.appliteDir, locals.appid, locals.cfgPath}

\* The canvas is listed, or uninitialised and happens to be.
MayBe(canvas, size) == \A i \in 1..2 : canvas[i] \in {size[i], Garbage}

JoinChannel(join) ==
  /\ proc = "up"
  /\ asked' = join
  /\ LET locals == Converted(Arguments(join)) IN
     \/ /\ NullStrings(locals)
        /\ proc' = "joinChannel"
        /\ UNCHANGED created
     \/ /\ ~NullStrings(locals)
        /\ \/ \E size \in DOMAIN m_resolutionMap :
                /\ MayBe(m_layout.canvas, size)
                /\ created' = [result |-> "called", with |-> locals,
                               size |-> size,
                               rate |-> m_resolutionMap[size]]
           \/ /\ m_layout.canvas \notin DOMAIN m_resolutionMap
              /\ created' = [result |-> "unsupported"]
        /\ UNCHANGED proc
  /\ UNCHANGED <<layout, users, m_layout>>

-----------------------------------------------------------------------------

\* The layout RecordManager.start sets before it joins.
StartLayout ==
  [canvasWidth |-> Number(640), canvasHeight |-> Number(480),
   backgroundColor |-> Text("#00ff00"), regions |-> <<>>]

Init ==
  /\ proc = "up"
  /\ layout = StartLayout
  /\ users = {}
  /\ m_layout = GetLayout(StartLayout)
  /\ asked \in Joins
  /\ created = [result |-> "none"]

Next ==
  \/ \E data \in Layouts : ScriptLayout(data)
  \/ \E u \in Uids : UserJoined(u) \/ UserLeft(u)
  \/ \E join \in Joins : JoinChannel(join)

Spec == Init /\ [][Next]_vars

-----------------------------------------------------------------------------
(* Properties                                                              *)

TypeOK ==
  /\ proc \in {"up", "setMixLayout", "joinChannel"}
  /\ users \subseteq Uids
  /\ \A i \in 1..2 : m_layout.canvas[i] \in Int32 \cup {Garbage}
  /\ \A i \in DOMAIN m_layout.regions :
       m_layout.regions[i].uid \in UInt32 \cup {Garbage}
  /\ asked \in Joins
  /\ created.result \in {"none", "unsupported", "called"}
  /\ created.result = "called" =>
       created.with.uid \in UInt32 \cup {Garbage}

\* A user's id goes from the engine through JavaScript and back unchanged,
\* also when it does not fit an int32_t: every user the listeners have put on
\* the layout has a region of that uid in m_layout, whatever is wrong with
\* other regions, unless one is no object at all.
UsersSurvive ==
  /\ proc = "up"
  /\ \A i \in DOMAIN layout.regions : layout.regions[i] # NotObject
  => \A u \in users : \E i \in DOMAIN m_layout.regions :
       m_layout.regions[i].uid = u

\* Statuses are only logged: a mistyped member leaves that one field of the
\* native layout uninitialised and no other, up to the first region that is
\* no object.
GarbageContained ==
  proc = "up" =>
    \A i \in DOMAIN m_layout.regions :
      LET to == m_layout.regions[i]
          from == layout.regions[i] IN
      (\A j \in 1..i : layout.regions[j] # NotObject) =>
        /\ to.uid = Garbage => ~IsUint32(from.uid)
        /\ to.x[1] = Garbage => ~IsNumber(from.x)
        /\ to.y[1] = Garbage => ~IsNumber(from.y)
        /\ to.x[2] = Garbage => ~IsInt32(layout.canvasWidth)
        /\ to.y[2] = Garbage => ~IsInt32(layout.canvasHeight)

\* createChannel gets what the wrapper's joinChannel was asked for: six
\* arguments are passed and read by position, in an order of their own.
JoinFaithful ==
  proc = "up" /\ created.result = "called" =>
    /\ asked.name.type = "string" /\ created.with.name = asked.name.text
    /\ asked.appid.type = "string" /\ created.with.appid = asked.appid.text
    /\ IF created.with.key = Null
         THEN GetString(asked.key) = Null
         ELSE asked.key.type = "string" /\ created.with.key = asked.key.text
    /\ IsUint32(asked.uid) => created.with.uid = asked.uid.num

\* A join without a key, or with an empty one, does not end the process; only
\* a channel or an application that is empty or no string does.
KeyOptional ==
  proc = "joinChannel" => Null \in {GetString(asked.name),
                                    GetString(asked.appid)}
=============================================================================
