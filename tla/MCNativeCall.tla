---------------------------- MODULE MCNativeCall ----------------------------
(***************************************************************************)
(* The instance of NativeCall that TLC checks: numbers of 12 bits instead  *)
(* of 32, with users and arguments at the edges of both integer types.     *)
(***************************************************************************)
EXTENDS NativeCall

ReportedUids == {1, 2048, 4095}

Texts == {"", "#00ff00", "#000000", "0", "key", "channel", "appid"}

ListedSizes == {<<640, 480>>, <<320, 240>>}
BitRates == [size \in ListedSizes |-> IF size[1] = 640 THEN 1000 ELSE 360]

\* Two regions that are of the right types, some with a member that is not,
\* and no region.
ScriptRegions ==
  [uid : {Number(2047), Number(-1), Number(4096), Fraction(1)},
   x : {Number(320)}, y : {Fraction(0)}]
  \cup {[uid |-> Number(2047), x |-> Text("0"), y |-> Missing], NotObject}

\* One wrong member at a time, alone and before a region of a user.
ScriptLayouts ==
  [canvasWidth : {Number(640)},
   canvasHeight : {Number(480), Fraction(480)},
   backgroundColor : {Text("#000000")},
   regions : UNION {[1..n -> ScriptRegions] : n \in 0..2}]
  \cup [canvasWidth : {Number(320), Number(2048)},
        canvasHeight : {Number(240)},
        backgroundColor : {Text("#000000"), Text(""), Missing},
        regions : {<<>>, NotArray}]

Join == [key |-> Text("key"), name |-> Text("channel"),
         appid |-> Text("appid"), uid |-> Number(0)]

ScriptJoins ==
  {Join} \cup {[Join EXCEPT !.key = value] : value \in {Text(""), Missing}}
         \cup {[Join EXCEPT !.name = value] : value \in {Text(""), Number(7)}}
         \cup {[Join EXCEPT !.appid = Missing]}
         \cup {[Join EXCEPT !.uid = value]
                 : value \in {Number(4095), Number(-1)}}
=============================================================================
