---------------------------- MODULE MCOptParser ----------------------------
(***************************************************************************)
(* The instances of OptParser that TLC checks: integers of 3 and 5 bits    *)
(* instead of 32 and 64.  Two of the options have the same text.           *)
(***************************************************************************)
EXTENDS OptParser

MCOptions == {"num", "num again", "count", "ip"}
MCName ==
  [o \in MCOptions |-> IF o = "num again" THEN "num" ELSE o]
MCType ==
  [o \in MCOptions |->
     CASE o = "num" -> "int32" [] o = "num again" -> "string"
       [] o = "count" -> "uint32" [] o = "ip" -> "address"]

\* Numbers inside and outside of both widths.
ManyTokens ==
  {Word(text) : text \in {Decimal(-4), Decimal(6), Other,
                          Address(<<1>>), Address(<<2, 3>>)}}
  \cup {Option(name) : name \in {"num", "count", "ip", "unknown"}}
  \cup {OptionWith("num", Decimal(n)) : n \in {-3, 3, 20}}
  \cup {OptionWith("count", text) : text \in {Decimal(-1), Empty}}

\* Tokens for longer lines.
FewTokens ==
  {Word(Decimal(-4)), Word(Other), Option("num"), Option("count"),
   OptionWith("ip", Address(<<2, 3>>)), OptionWith("ip", Address(<<1>>))}

MCTokens == ManyTokens \cup FewTokens

MCLines ==
  UNION {[1..n -> ManyTokens] : n \in 0..2} \cup [1..3 -> FewTokens]
=============================================================================
