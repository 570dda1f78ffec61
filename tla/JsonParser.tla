------------------------------ MODULE JsonParser ------------------------------
(***************************************************************************)
(* json_parser (json_parser.cpp): its recursive functions over one view of *)
(* the text, as a machine with a stack of the containers that are open,    *)
(* on arbitrary text and on what json_generator makes of values.           *)
(*                                                                         *)
(* input.at(0) throws when the text has come to its end.                   *)
(***************************************************************************)
EXTENDS JsonGenerator, Naturals, FiniteSets

CONSTANTS
  Values,       \* the values that are generated and read again
  MaxTokens     \* bound: tokens of an arbitrary text

ASSUME JsonAssumption == MaxTokens \in Nat

Unended == "\""             \* a quote without a second one, at the end
Words == {"true", "false", "null", "word"}
Written == {"1", "-1", "1.5", "-1.5", Million, Wide, "1.23457", "1e"}
Tokens == {"{", "}", "[", "]", ":", ",", "_", "+06", "a", Slashed, Unended,
           "1", "1e", "null", "word"}

\* Tokens that would be another token when one follows the other.
Glued(x, y) ==
  \/ x \in Words /\ y \in Words
  \/ x \in Written /\ y \in Written \ {"-1", "-1.5"}
  \/ x = "1e" /\ y \in Written
  \/ x = "_" /\ y = "_"
  \/ x = Unended

\* A longer text is looked at when it begins with a container.
Texts ==
  {t \in UNION {[1..n -> Tokens] : n \in 0..MaxTokens} :
     /\ \A i \in 1..Len(t) - 1 : ~Glued(t[i], t[i + 1])
     /\ Len(t) > 2 => t[1] \in {"{", "["}}

VARIABLES
  origin,       \* the value the text was generated from and the layout, if any
  text,         \* input: what has not been read
  stack,        \* the containers being read: elements so far, and the key
  pc,           \* which function, or "return" of a value to the one below
  val           \* the value that is returned, in the end by parse()

vars == <<origin, text, stack, pc, val>>

Arbitrary == [value |-> Invalid, compact |-> TRUE]

Init ==
  /\ \/ origin = Arbitrary /\ text \in Texts
     \/ /\ origin \in [value : Values, compact : BOOLEAN]
        /\ text = Generate(origin.value, origin.compact)
  /\ stack = <<>> /\ pc = "parse" /\ val = Invalid

\* removeWhitespace
Skip(t) ==
  LET first == SelectInSeq(t, LAMBDA x : x # "_") IN
  IF first = 0 THEN <<>> ELSE SubSeq(t, first, Len(t))

Throw == pc' = "thrown" /\ val' = Invalid /\ UNCHANGED <<text, stack>>

Return(v, rest) == pc' = "return" /\ val' = v /\ text' = Skip(rest)

GoOn(where, rest) == pc' = where /\ text' = rest /\ UNCHANGED <<stack, val>>

\* parseObject, up to its loop: what is not a string there ends the object.
OpenObject ==
  LET t == Skip(Tail(text)) IN
  IF t = <<>> THEN Throw
  ELSE IF Head(t) = "}" THEN Return(Map(NoKeys), Tail(t)) /\ UNCHANGED stack
  ELSE IF Head(t) \in Strings \cup {Slashed, Unended}
  THEN /\ stack' = Append(stack, [of |-> Map(NoKeys), key |-> "none"])
       /\ pc' = "object" /\ text' = t /\ UNCHANGED val
  ELSE Return(Map(NoKeys), t) /\ UNCHANGED stack

\* parseArray, up to its loop, which looks for "]" before it skips white space.
OpenArray ==
  /\ stack' = Append(stack, [of |-> List(<<>>), key |-> "none"])
  /\ pc' = "array" /\ text' = Tail(text) /\ UNCHANGED val

\* parse(): the text has to begin with a container.
Parse ==
  /\ pc = "parse"
  /\ LET t == Skip(text) IN
     IF t = <<>> THEN Throw
     ELSE IF Head(t) \in {"{", "["} THEN GoOn("value", t)
     ELSE pc' = "done" /\ UNCHANGED <<text, stack, val>>
  /\ UNCHANGED origin

\* parseString of the other strings: for a quote behind a backslash it looks
\* for ever; without a second quote it has removed the first.
Spin == pc' = "string" /\ UNCHANGED <<text, stack, val>>

\* parseNumber: always a float; a whole number returns before its sign is
\* applied, and the exponent that follows "1e" is not read if it has a "+".
ParsedNumber(n) ==
  Number("float", CASE n \in {"-1", "1e"} -> "1"
                    [] n = Wide -> "16777216"
                    [] OTHER -> n)

ParsedWord(w) ==
  CASE w = "null" -> Null
    [] w = "word" -> Invalid
    [] OTHER -> Bool(w)

\* parseValue.  Numbers and words look at what is behind their last character.
ParseValue ==
  /\ pc = "value"
  /\ IF text = <<>> THEN Throw
     ELSE CASE Head(text) = "{" -> OpenObject
            [] Head(text) = "[" -> OpenArray
            [] Head(text) = Slashed -> Spin
            [] Head(text) = Unended -> Return(Invalid, Tail(text)) /\ UNCHANGED stack
            [] Head(text) \in Strings -> Return(String(Head(text)), Tail(text)) /\ UNCHANGED stack
            [] Head(text) \in Written \cup Words ->
                 IF Tail(text) = <<>> THEN Throw
                 ELSE /\ Return(IF Head(text) \in Words THEN ParsedWord(Head(text))
                                ELSE ParsedNumber(Head(text)), Tail(text))
                      /\ UNCHANGED stack
            [] OTHER -> Return(Invalid, text) /\ UNCHANGED stack
  /\ UNCHANGED origin

Top == Last(stack)
Pop == stack' = Front(stack)

\* The loop of parseObject: the end, a comma anywhere, or a key and its colon;
\* for anything else the pairs read so far are forgotten.
ObjectLoop ==
  /\ pc = "object"
  /\ IF text = <<>> THEN Throw
     ELSE CASE Head(text) = "}" -> Return(Top.of, Tail(text)) /\ Pop
            [] Head(text) = "," -> GoOn("object", Skip(Tail(text)))
            [] Head(text) = Slashed -> Spin
            [] Head(text) = Unended -> Return(Map(NoKeys), Tail(text)) /\ Pop
            [] Head(text) \in Strings ->
                 LET t == Skip(Tail(text)) IN
                 IF t = <<>> THEN Throw
                 ELSE IF Head(t) = ":"
                 THEN /\ stack' = Append(Front(stack), [Top EXCEPT !.key = Head(text)])
                      /\ pc' = "value" /\ text' = Skip(Tail(t)) /\ UNCHANGED val
                 ELSE Return(Map(NoKeys), t) /\ Pop
            [] OTHER -> Return(Map(NoKeys), text) /\ Pop
  /\ UNCHANGED origin

ArrayLoop ==
  /\ pc = "array"
  /\ IF text = <<>> THEN Throw
     ELSE IF Head(text) = "]" THEN Return(Top.of, Tail(text)) /\ Pop
     ELSE GoOn("value", Skip(text))
  /\ UNCHANGED origin

\* An object takes any value.
ToObject ==
  /\ pc = "return" /\ stack # <<>> /\ Top.of[1] = "map"
  /\ LET f == Top.of[2] IN
     stack' = Append(Front(stack), [Top EXCEPT
       !.of = Map([k \in DOMAIN f \cup {Top.key} |-> IF k = Top.key THEN val ELSE f[k]])])
  /\ pc' = "object"
  /\ UNCHANGED <<origin, text, val>>

\* Mutants: the comma behind an element stays; an invalid element is left out.
ToArrayComma ==
  /\ pc = "return" /\ stack # <<>> /\ Top.of[1] = "list"
  /\ IF val = Invalid THEN Return(List(<<>>), text) /\ Pop
     ELSE IF text = <<>> THEN Throw
     ELSE /\ stack' = Append(Front(stack), [Top EXCEPT !.of = List(Append(@[2], val))])
          /\ pc' = "array" /\ UNCHANGED <<text, val>>
  /\ UNCHANGED origin

ToArrayLenient ==
  /\ pc = "return" /\ stack # <<>> /\ Top.of[1] = "list"
  /\ IF text = <<>> THEN Throw
     ELSE /\ stack' = IF val = Invalid THEN stack
                      ELSE Append(Front(stack), [Top EXCEPT !.of = List(Append(@[2], val))])
          /\ pc' = "array"
          /\ text' = Skip(IF Head(text) = "," THEN Tail(text) ELSE text)
          /\ UNCHANGED val
  /\ UNCHANGED origin

\* An array that gets an invalid element is empty, and the text stays where
\* it is; a comma may follow an element.
ToArray ==
  /\ pc = "return" /\ stack # <<>> /\ Top.of[1] = "list"
  /\ IF val = Invalid THEN Return(List(<<>>), text) /\ Pop
     ELSE IF text = <<>> THEN Throw
     ELSE /\ stack' = Append(Front(stack), [Top EXCEPT !.of = List(Append(@[2], val))])
          /\ pc' = "array"
          /\ text' = Skip(IF Head(text) = "," THEN Tail(text) ELSE text)
          /\ UNCHANGED val
  /\ UNCHANGED origin

\* Back in parse(): there may be nothing behind the container.
Parsed ==
  /\ pc = "return" /\ stack = <<>>
  /\ pc' = "done"
  /\ val' = IF text = <<>> THEN val ELSE Invalid
  /\ UNCHANGED <<origin, text, stack>>

Next == Parse \/ ParseValue \/ ObjectLoop \/ ArrayLoop \/ ToObject \/ ToArray \/ Parsed

Spec == Init /\ [][Next]_vars /\ WF_vars(Next)

-----------------------------------------------------------------------------
Final == {"done", "thrown", "string"}

RECURSIVE Within(_)
Within(v) == {v} \cup IF IsContainer(v) THEN UNION {Within(m) : m \in Members(v)} ELSE {}

\* Values that need not come back: null and invalid variants are written as
\* nothing, a large float in a form that is not read, a string that ends in a
\* backslash without end, and "]" is not found behind white space.
Restorable(v, compact) ==
  Within(v) \cap ({Null, Invalid, String(Slashed)}
                   \cup {Number(t, Million) : t \in {"float", "double"}}
                   \cup IF compact THEN {} ELSE {List(<<>>)}) = {}

\* What is left of a number: six digits of a fraction, the digits a float has
\* of a whole number, and of that the sign is lost.
Kept(n) ==
  CASE n = "-1" -> "1"
    [] n = Fine -> "1.23457"
    [] n = Wide -> "16777216"
    [] OTHER -> n

\* A value as it comes back: every number is a float, whatever it was; null
\* leaves a list, and is an invalid variant in an object.
RECURSIVE AsRead(_)
AsRead(v) ==
  CASE v[1] = "number" -> Number("float", Kept(v[3]))
    [] v[1] = "list" ->
         LET kept == SelectSeq(v[2], LAMBDA m : m \notin {Null, Invalid}) IN
         List([i \in DOMAIN kept |-> AsRead(kept[i])])
    [] v[1] = "map" -> Map([k \in DOMAIN v[2] |-> AsRead(v[2][k])])
    [] v = Null -> Invalid
    [] OTHER -> v

\* What the generator writes of a container, in either layout, the parser
\* reads as that container, changed only as said above, or not at all: it
\* never returns a piece of it or another value, whatever the container holds;
\* and it refuses only texts of values that need not come back.
ComesBack ==
  (pc \in Final /\ origin # Arbitrary /\ IsContainer(origin.value)) =>
    \/ pc = "done" /\ val = AsRead(origin.value)
    \/ /\ ~Restorable(origin.value, origin.compact)
       /\ pc = "done" => val = Invalid

\* Every text is parsed in the end, whatever is wrong with it, if no string
\* in it ends in an escaped quote: a value or an exception, no endless loop.
Ends ==
  (\A i \in 1..Len(text) : text[i] # Slashed) => <>(pc \in {"done", "thrown"})
=============================================================================
