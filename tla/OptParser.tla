----------------------------- MODULE OptParser -----------------------------
(***************************************************************************)
(* opt_parser, the command-line parser that the addon inherits from the    *)
(* C++ sample: registration of options, parse_opts with the conversion of  *)
(* arguments, and print_usage.  The words of a command line are tokens;    *)
(* getopt_long_only is external: it finds the option a word names, and     *)
(* skips the words that are no options, which it moves to the end.         *)
(***************************************************************************)
EXTENDS Integers, Sequences, SequencesExt

CONSTANTS
  Options,       \* the const char* an option is registered under
  Name,          \* the text each of them points to
  Type,          \* the type of the variable each of them fills
  Tokens,        \* the words of a command line
  Lines,         \* the command lines, each a sequence of tokens
  Narrow,        \* the bits of an int32_t and a uint32_t
  Wide,          \* the bits of a long and an unsigned long
  Parts,         \* how many numbers an address has
  Untouched,     \* the value of a variable before any argument is stored
  MaxAdds        \* bound: registrations

Types == {"bool", "int32", "uint32", "int64", "uint64", "double", "string",
          "address"}

ASSUME ParserAssumption ==
  /\ Type \in [Options -> Types]
  /\ DOMAIN Name = Options
  /\ \A token \in Tokens : token.text.n \in Int
  /\ Lines \subseteq Seq(Tokens)
  /\ Narrow \in Nat \ {0} /\ Wide \in Nat /\ Narrow <= Wide
  /\ Parts \in Nat
  /\ MaxAdds \in Nat

VARIABLES
  long_opts_,    \* the sequence number of each option that is registered
  ex_long_opts_, \* a copy of it, option by sequence number, for print_usage
  sequence_,     \* the last sequence number given
  store,         \* the variable of each option
  argv,          \* the command line being parsed, or parsed last
  optind,        \* the next token to look at
  skipped,       \* whether getopt has passed over a word
  picked,        \* the option getopt finds first among those of one name
  result,        \* of parse_opts, or how far it has come
  added          \* history: the options accepted since the last clear

vars == <<long_opts_, ex_long_opts_, sequence_, store, argv, optind, skipped,
          picked, result, added>>

tables == <<long_opts_, ex_long_opts_, sequence_, added>>
parsing == <<store, argv, optind, skipped, picked, result>>

Init ==
  /\ long_opts_ = <<>>
  /\ ex_long_opts_ = <<>>
  /\ sequence_ = 0
  /\ store = [o \in Options |-> Untouched]
  /\ argv = <<>>
  /\ optind = 1
  /\ skipped = FALSE
  /\ picked = <<>>
  /\ result = "none"
  /\ added = <<>>

-----------------------------------------------------------------------------
(* Registration                                                            *)

Registered == DOMAIN long_opts_

\* add_long_opt: the number is taken before insert_long_opt looks whether the
\* pointer, not the text, is there already.
AddLongOpt(o) ==
  /\ result = "none"
  /\ sequence_ < MaxAdds
  /\ sequence_' = sequence_ + 1
  /\ \/ o \in Registered /\ UNCHANGED <<long_opts_, added>>
     \/ /\ o \notin Registered
        /\ long_opts_' =
             [p \in Registered \cup {o} |->
                IF p = o THEN sequence_ + 1 ELSE long_opts_[p]]
        /\ added' = Append(added, o)
  /\ UNCHANGED <<ex_long_opts_, parsing>>

\* Variant: the copy for print_usage is kept.
ClearCopyKept ==
  /\ result = "none"
  /\ long_opts_' = <<>>
  /\ added' = <<>>
  /\ UNCHANGED <<ex_long_opts_, sequence_, parsing>>

\* clear, which goes on with the sequence numbers.
Clear ==
  /\ result = "none"
  /\ long_opts_' = <<>>
  /\ ex_long_opts_' = <<>>
  /\ added' = <<>>
  /\ UNCHANGED <<sequence_, parsing>>

\* What save_to_exopts makes of the copy: every option is entered under its
\* number.
SavedExOpts ==
  [n \in DOMAIN ex_long_opts_ \cup {long_opts_[o] : o \in Registered} |->
     IF \E o \in Registered : long_opts_[o] = n
       THEN CHOOSE o \in Registered : long_opts_[o] = n
       ELSE ex_long_opts_[n]]

\* list is what print_usage lists of copy: its options, by their numbers.
Lists(list, copy) ==
  \E number \in [DOMAIN list -> DOMAIN copy] :
    /\ \A i, j \in DOMAIN list : i < j => number[i] < number[j]
    /\ \A n \in DOMAIN copy : \E i \in DOMAIN list : number[i] = n
    /\ \A i \in DOMAIN list : list[i] = copy[number[i]]

PrintUsage ==
  /\ result = "none"
  /\ ex_long_opts_' = SavedExOpts
  /\ UNCHANGED <<long_opts_, sequence_, added, parsing>>

-----------------------------------------------------------------------------
(* fill_arg                                                                *)

(***************************************************************************)
(* The text of an argument: a decimal number n, an address of which so     *)
(* many parts can be read, the empty text, or something else.  A number    *)
(* given for an address is read as its first part, which is a byte.        *)
(***************************************************************************)
Decimal(n) == [kind |-> "number", n |-> n, parts |-> <<n % 2^8>>]
Address(parts) == [kind |-> "address", n |-> 0, parts |-> parts]
Empty == [kind |-> "empty", n |-> 0, parts |-> <<>>]
Other == [kind |-> "other", n |-> 0, parts |-> <<>>]

\* strtol and strtod stop at the end of these; the empty text counts as 0.
IsNumeric(text) == text.kind \in {"number", "empty"}

Clamp(n, low, high) == IF n < low THEN low ELSE IF n > high THEN high ELSE n

Strtol(n) == Clamp(n, -(2^(Wide - 1)), 2^(Wide - 1) - 1)

\* A negative number is negated in the unsigned type.
Strtoul(n) ==
  IF n \in -(2^Wide - 1)..(2^Wide - 1) THEN n % 2^Wide ELSE 2^Wide - 1

\* Variant: the cast is one to an unsigned type.
ToInt32Unsigned(n) == n % 2^Narrow

\* The cast int32_t(n), which keeps the low bits.
ToInt32(n) ==
  LET low == n % 2^Narrow IN
  IF low < 2^(Narrow - 1) THEN low ELSE low - 2^Narrow

ToUInt32(n) == n % 2^Narrow

Accepts(type, text) ==
  CASE type = "string" -> TRUE
    [] type = "address" -> Len(text.parts) = Parts
    [] OTHER -> IsNumeric(text)

\* What an accepted text is stored as.
Value(type, text) ==
  CASE type = "bool" -> Strtoul(text.n) # 0
    [] type = "int32" -> ToInt32(Strtol(text.n))
    [] type = "uint32" -> ToUInt32(Strtoul(text.n))
    [] type = "int64" -> Strtol(text.n)
    [] type = "uint64" -> Strtoul(text.n)
    [] type = "double" -> text.n
    [] type = "string" -> text
    [] type = "address" -> text.parts

\* sscanf stores the parts it can read before it gives up.
Overlay(old, parts) ==
  [i \in 1..Parts |->
     IF i <= Len(parts) THEN parts[i]
     ELSE IF old = Untouched THEN Untouched ELSE old[i]]

\* Variant: the variable is assigned before the text is found invalid.
FillArgUnchecked(o, text) ==
  IF Type[o] = "address" THEN Overlay(store[o], text.parts)
                         ELSE Value(Type[o], text)

\* The variable of o after fill_arg, whether it succeeds or not.
FillArg(o, text) ==
  IF Accepts(Type[o], text) THEN Value(Type[o], text)
  ELSE IF Type[o] = "address" THEN Overlay(store[o], text.parts)
  ELSE store[o]

-----------------------------------------------------------------------------
(* parse_opts                                                              *)

(***************************************************************************)
(* A token: a word, or an option with or without =text.  A token that is   *)
(* taken for an argument is the text it was written as.                    *)
(***************************************************************************)
NoText == [kind |-> "none", n |-> 0, parts |-> <<>>]
Word(text) == [name |-> "", text |-> text]
Option(name) == [name |-> name, text |-> NoText]
OptionWith(name, text) == [name |-> name, text |-> text]

IsWord(token) == token.name = ""
AsText(token) == IF IsWord(token) THEN token.text ELSE Other

\* parse_opts begins.  Options of one name are found in an order that only
\* the hash of their pointers knows.
Parse(line) ==
  /\ result = "none"
  /\ argv' = line
  /\ result' = "parsing"
  /\ picked' \in
       {f \in [{Name[o] : o \in Registered} -> Registered] :
          \A name \in DOMAIN f : Name[f[name]] = name}
  /\ UNCHANGED <<tables, store, optind, skipped>>

Parsing == result = "parsing" /\ optind <= Len(argv)
Token == argv[optind]

SkipWord ==
  /\ Parsing
  /\ IsWord(Token)
  /\ skipped' = TRUE
  /\ optind' = optind + 1
  /\ UNCHANGED <<tables, store, argv, picked, result>>

\* getopt returns '?'.
UnknownOption ==
  /\ Parsing
  /\ ~IsWord(Token)
  /\ Token.name \notin DOMAIN picked
  /\ result' = "false"
  /\ UNCHANGED <<tables, store, argv, optind, skipped, picked>>

HasArgument == Token.text # NoText \/ optind < Len(argv)

\* Variant: the next token is taken although the option has an =text.
TakenAlways ==
  IF optind < Len(argv)
    THEN [text |-> AsText(argv[optind + 1]), next |-> optind + 2]
    ELSE [text |-> Token.text, next |-> optind + 1]

\* The argument of the option, and what is looked at next: its =text, or else
\* the next token whatever it is.  getopt takes it if the option requires an
\* argument, and the loop of parse_opts if it is optional.
Taken ==
  IF Token.text # NoText
    THEN [text |-> Token.text, next |-> optind + 1]
    ELSE [text |-> AsText(argv[optind + 1]), next |-> optind + 2]

FillOption ==
  /\ Parsing
  /\ ~IsWord(Token)
  /\ Token.name \in DOMAIN picked
  /\ HasArgument
  /\ LET o == picked[Token.name] IN
     /\ store' = [store EXCEPT ![o] = FillArg(o, Taken.text)]
     /\ \/ /\ Accepts(Type[o], Taken.text)
           /\ optind' = Taken.next
           /\ UNCHANGED result
        \/ /\ ~Accepts(Type[o], Taken.text)
           /\ result' = "false"
           /\ UNCHANGED optind
  /\ UNCHANGED <<tables, argv, skipped, picked>>

\* getopt returns '?' if the argument is required, fill_arg fails if not.
MissingArgument ==
  /\ Parsing
  /\ ~IsWord(Token)
  /\ Token.name \in DOMAIN picked
  /\ ~HasArgument
  /\ result' = "false"
  /\ UNCHANGED <<tables, store, argv, optind, skipped, picked>>

\* The words that were skipped are left over.
EndOfLine ==
  /\ result = "parsing"
  /\ optind > Len(argv)
  /\ result' = IF skipped THEN "false" ELSE "true"
  /\ UNCHANGED <<tables, store, argv, optind, skipped, picked>>

ParseOpts ==
  SkipWord \/ UnknownOption \/ FillOption \/ MissingArgument \/ EndOfLine

Next ==
  \/ \E o \in Options : AddLongOpt(o)
  \/ Clear
  \/ PrintUsage
  \/ \E line \in Lines : Parse(line)
  \/ ParseOpts

Spec == Init /\ [][Next]_vars

-----------------------------------------------------------------------------
(* Properties                                                              *)

ValuesOf(type) ==
  CASE type = "bool" -> BOOLEAN
    [] type = "int32" -> -(2^(Narrow - 1))..2^(Narrow - 1) - 1
    [] type = "uint32" -> 0..2^Narrow - 1
    [] type = "int64" -> -(2^(Wide - 1))..2^(Wide - 1) - 1
    [] type = "uint64" -> 0..2^Wide - 1
    [] type = "double" -> Int

TypeOK ==
  /\ Registered \cup ToSet(ex_long_opts_) \cup ToSet(added) \subseteq Options
  /\ sequence_ \in 0..MaxAdds
  /\ argv \in Lines \cup {<<>>}
  /\ optind \in 1..Len(argv) + 1
  /\ result \in {"none", "parsing", "true", "false"}
  /\ \A o \in Options : store[o] # Untouched /\ Type[o] \notin
       {"string", "address"} => store[o] \in ValuesOf(Type[o])

\* The positions of a line that are options when it is read from left to
\* right by the one rule: an option without =text takes the next token.
Positions(line) ==
  CHOOSE P \in SUBSET DOMAIN line :
    \A i \in DOMAIN line :
      i \in P <=> ~IsWord(line[i]) /\ ~(i - 1 \in P
                                       /\ line[i - 1].text = NoText)

OptionPositions == Positions(argv)

Given(i) ==
  IF argv[i].text # NoText THEN argv[i].text ELSE AsText(argv[i + 1])

\* The positions at which option o is given an argument.
GivenTo(o) ==
  {i \in OptionPositions :
     /\ argv[i].name = Name[o]
     /\ argv[i].text # NoText \/ i < Len(argv)}

WellFormed ==
  \A i \in DOMAIN argv :
    IF i \in OptionPositions
      THEN /\ argv[i].name \in DOMAIN picked
           /\ i \in GivenTo(picked[argv[i].name])
           /\ Accepts(Type[picked[argv[i].name]], Given(i))
      ELSE i - 1 \in OptionPositions /\ argv[i - 1].text = NoText

\* parse_opts succeeds on exactly the lines that are options with arguments
\* they accept, and then every variable has its last argument and those of
\* options not given are as before.
ParsedAsRead ==
  /\ result = "false" => ~WellFormed
  /\ result = "true" =>
       /\ WellFormed
       /\ \A o \in Options :
            IF o \in Registered /\ picked[Name[o]] = o /\ GivenTo(o) # {}
              THEN \E i \in GivenTo(o) :
                     /\ \A j \in GivenTo(o) : j <= i
                     /\ store[o] = Value(Type[o], Given(i))
              ELSE store[o] = Untouched

\* A number that the variable can hold is stored as it was written, although
\* it comes through a wider type, a clamp and a cast without a range check.
NumbersExact ==
  result = "true" =>
    \A o \in Registered :
      Type[o] \notin {"bool", "string", "address"} /\ store[o] # Untouched =>
        \A i \in GivenTo(o) :
          /\ \A j \in GivenTo(o) : j <= i
          /\ Given(i).n \in ValuesOf(Type[o])
          => store[o] = Given(i).n

\* A parse that fails in the middle leaves the arguments before the failure
\* stored, but nothing half converted: each variable is as before or has an
\* argument it accepts.  An address may be cut in two.
FailureIsClean ==
  result = "false" =>
    \A o \in Options : Type[o] # "address" /\ store[o] # Untouched =>
      \E i \in GivenTo(o) :
        Accepts(Type[o], Given(i)) /\ store[o] = Value(Type[o], Given(i))

\* Whatever was added, refused and cleared before, print_usage lists the
\* options that are registered, each once, in the order they were added.
UsageCurrent == Lists(added, SavedExOpts)
=============================================================================
