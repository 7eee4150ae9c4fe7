----------------------------- MODULE MixLayout -----------------------------
(***************************************************************************)
(* The mixing canvas of a recorder: 320x240 tiles, one per user, on the    *)
(* 640x480 canvas that RecordManager.start hard-codes.  A layout is the    *)
(* set of its regions; the order of the JavaScript array is never read.    *)
(***************************************************************************)
EXTENDS Naturals, FiniteSets

TileWidth == 320
TileHeight == 240

\* Variant: columns are a whole canvas wide instead of half of one.
CornerOutside(n) ==
  [x |-> (n % 2) * 2 * TileWidth, y |-> (n \div 2) * TileHeight]

\* The top-left corner of the tile given to a user who joins a layout that
\* already has n regions: the four quarters of the canvas in reading order,
\* and the first quarter again for everybody after the fourth user.
Corner(n) ==
  IF n \in 1..3
    THEN [x |-> (n % 2) * TileWidth, y |-> (n \div 2) * TileHeight]
    ELSE [x |-> 0, y |-> 0]

\* The value a region may have, for the users Uids.
Regions(Uids) ==
  [uid : Uids, at : [x : {0, TileWidth}, y : {0, TileHeight}]]

\* The userjoin handler's push: a region for uid, placed by the count alone.
WithUser(layout, uid) ==
  layout \cup {[uid |-> uid, at |-> Corner(Cardinality(layout))]}

\* Variant: the filtered regions are not stored.
WithoutUserKept(layout, uid) == layout

\* The userleave handler's filter: the other regions stay where they are.
WithoutUser(layout, uid) == {r \in layout : r.uid # uid}

Users(layout) == {r.uid : r \in layout}
=============================================================================
