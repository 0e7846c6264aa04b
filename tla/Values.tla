------------------------------- MODULE Values -------------------------------
(***************************************************************************)
(* JSON values as the nodes handle them.  A value is nil, a scalar, an     *)
(* array or an object, told apart by its first component.  A key is a      *)
(* sequence: the parts put in front of a name and the name itself.  A path *)
(* is the sequence of the parts of a dotted name.                          *)
(***************************************************************************)
EXTENDS Integers, Sequences, SequencesExt, FiniteSets

(* A loop takes the positions of a list one after the other.               *)
Ascending(S) ==
  CHOOSE s \in [1 .. Cardinality(S) -> S] : \A i, j \in DOMAIN s : i < j => s[i] < s[j]
Chosen(items, S) == LET ks == Ascending(S) IN [n \in DOMAIN ks |-> items[ks[n]]]

Key == Seq(STRING) \ {<<>>}

Nil == <<"nil">>
Scalar(s) == <<"scalar", s>>
Array(elements) == <<"array", elements>>
Object(f) == <<"object", f>>

IsMap(v) == v[1] = "object"
IsArray(v) == v[1] = "array"
Fields(v) == v[2]
Elements(v) == v[2]

Either(f, g) == [k \in DOMAIN f \cup DOMAIN g |-> IF k \in DOMAIN g THEN g[k] ELSE f[k]]

(* The text of a path, taken as one name.                                  *)
Name(path) == <<FoldLeft(LAMBDA a, b : a \o "." \o b, Head(path), Tail(path))>>
Field(v, key) == IF key \in DOMAIN Fields(v) THEN Fields(v)[key] ELSE Nil

(* getValFromObject, getValFromJsonByPath: a path that goes on behind a    *)
(* scalar or an array gives it, one that ends at an object gives nil.      *)
ValueAt(v, path) ==
  LET Found(value) == [ends |-> TRUE, value |-> value]
      Step(at, name) ==
        IF at.ends THEN at
        ELSE LET next == Field(at.value, <<name>>)
             IN  IF IsMap(next) THEN [at EXCEPT !.value = next] ELSE Found(next)
      last == FoldLeft(Step, [ends |-> FALSE, value |-> v], path)
  IN  IF last.ends THEN last.value ELSE Nil
=============================================================================
