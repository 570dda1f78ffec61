---------------------------- MODULE JsonGenerator ----------------------------
(***************************************************************************)
(* variant (variant.h) and json_generator (json_generator.cpp): the text   *)
(* that is generated from a value.                                         *)
(*                                                                         *)
(* A text is a sequence of tokens.  A string with its quotes is one token, *)
(* so is what is written of a number or a literal, and so is any run of    *)
(* white space.  Strings hold no quotes: the generator escapes nothing.    *)
(***************************************************************************)
EXTENDS Sequences, SequencesExt

Strings == {"a", "b"}
Slashed == "a\\"            \* a string that ends in a backslash
Million == "1000000"
Wide == "16777217"          \* an int that no float is equal to
Fine == "1.2345678"         \* with more digits than a stream writes

\* What a variant can hold, by setValue.  isNull() asks whether the any is
\* empty, so it is false of the null that variant(nullptr) stores.
Invalid == <<"invalid">>
Null == <<"null">>
Bool(b) == <<"bool", b>>
Number(t, n) == <<"number", t, n>>       \* t: "int", "float" or "double"
String(s) == <<"string", s>>
List(s) == <<"list", s>>
Map(f) == <<"map", f>>

IsContainer(v) == v[1] \in {"list", "map"}
Members(v) == {v[2][i] : i \in DOMAIN v[2]}
NoKeys == [k \in {} |-> Invalid]

WhiteSpace(compact) == IF compact THEN <<>> ELSE <<"_">>

\* genNumber: a stream writes an int in full, and of a float or a double at
\* most six digits, from a million on with an exponent.
GenNumber(t, n) ==
  CASE t # "int" /\ n = Million -> <<"1e", "+06">>
    [] n = Fine -> <<"1.23457">>
    [] OTHER -> <<n>>

\* Every element is followed by ", ", which is taken away behind the last.
Joined(items, compact) ==
  LET all == FlattenSeq([i \in DOMAIN items |-> items[i] \o <<",", "_">>]) IN
  SubSeq(all, 1, Len(all) - 2) \o WhiteSpace(compact)

RECURSIVE GenValue(_, _)

\* The elements of the map come in the order of their keys, here in any.
GenObject(f, compact) ==
  LET keys == SetToSeq(DOMAIN f)
      Item(k) == WhiteSpace(compact) \o <<k, ":", "_">> \o GenValue(f[k], compact)
  IN <<"{">> \o Joined([i \in DOMAIN keys |-> Item(keys[i])], compact) \o <<"}">>

GenArray(list, compact) ==
  LET Item(v) == WhiteSpace(compact) \o GenValue(v, compact) IN
  <<"[">> \o Joined([i \in DOMAIN list |-> Item(list[i])], compact) \o <<"]">>

\* genValue: neither an invalid variant nor null is of any type it asks for.
GenValue(v, compact) ==
  CASE v[1] = "bool" -> <<v[2]>>
    [] v[1] = "number" -> GenNumber(v[2], v[3])
    [] v[1] = "string" -> <<v[2]>>
    [] v[1] = "map" -> GenObject(v[2], compact)
    [] v[1] = "list" -> GenArray(v[2], compact)
    [] OTHER -> <<>>

Generate(v, compact) == GenValue(v, compact)
=============================================================================
