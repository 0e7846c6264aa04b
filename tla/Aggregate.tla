----------------------------- MODULE Aggregate ------------------------------
(***************************************************************************)
(* The Aggregate node (nodes/aggregate/node.go): many items become one.    *)
(***************************************************************************)
EXTENDS Values

AggregateFailed == [status |-> "failed", json |-> Nil]
Aggregated(v) == [status |-> "success", json |-> v]

WithoutNils(v) == Array(SelectSeq(Elements(v), LAMBDA e : e # Nil))

(* Mutant: a missing value is left out although it was to be kept.         *)
DropMissing(v, keepMissing, mergeLists) ==
  IF v = Nil THEN <<>> ELSE IF IsArray(v) /\ mergeLists THEN Elements(v) ELSE <<v>>

(* What one item adds to the list of a field.                              *)
Contribution(v, keepMissing, mergeLists) ==
  LET kept == IF IsArray(v) /\ ~keepMissing THEN WithoutNils(v) ELSE v
  IN  CASE v = Nil /\ ~keepMissing -> <<>>
        [] IsArray(v) /\ mergeLists -> Elements(kept)
        [] OTHER -> <<kept>>

FieldList(p, items, f) ==
  FlattenSeq([k \in DOMAIN items |->
                Contribution(IF p.disableDotNotation THEN Field(items[k], Name(f.field))
                             ELSE ValueAt(items[k], f.field),
                             p.keepMissing, p.mergeLists)])

(* The name a field is checked under and the name it is put under.  Only   *)
(* the last part of a path is used, the check sees the whole of it.        *)
HandleField(f) == IF f.renameField THEN f.outputFieldName ELSE f.field
OutputField(p, f) ==
  IF f.outputFieldName # <<"">> THEN f.outputFieldName
  ELSE IF p.disableDotNotation THEN f.field ELSE <<Last(f.field)>>

(* setValToJsonByPath puts an array at its path.  Whatever the order of    *)
(* the map of values, of two outputs of which one lies below the other     *)
(* the shorter path stays.                                                 *)
Branches(lists, at, Deeper(_)) ==
  LET below == {path \in DOMAIN lists : Len(path) > Len(at) /\ SubSeq(path, 1, Len(at)) = at}
  IN  Object([key \in {<<path[Len(at) + 1]>> : path \in below} |->
        LET to == at \o key
        IN  IF to \in below THEN Array(lists[to]) ELSE Deeper(to)])

Tree(lists) ==
  LET tree[at \in Seq(STRING)] == Branches(lists, at, LAMBDA to : tree[to])
  IN  Branches(lists, <<>>, LAMBDA to : tree[to])

Flat(lists) == Object([key \in {Name(path) : path \in DOMAIN lists} |->
                 Array(lists[CHOOSE path \in DOMAIN lists : Name(path) = key])])

(* values[outputField] = outputVal: the last field of a name stays.        *)
LastOf(S) == CHOOSE k \in S : \A m \in S : m <= k

AggregateFields(p, items) ==
  LET repeated == \E k, m \in DOMAIN p.fields :
                    k < m /\ HandleField(p.fields[k]) = HandleField(p.fields[m])
      used == {k \in DOMAIN p.fields : p.fields[k].field # <<"">>}
      outputs == {OutputField(p, p.fields[k]) : k \in used}
      Of(output) == p.fields[LastOf({k \in used : OutputField(p, p.fields[k]) = output})]
      lists == [o \in outputs |-> FieldList(p, items, Of(o))]
  IN  IF p.fields = <<>> \/ repeated THEN AggregateFailed
      ELSE Aggregated(IF p.disableDotNotation THEN Flat(lists) ELSE Tree(lists))

(* aggregateAllItemData: with both lists an excluded field that is also    *)
(* included stays, and so does every field that is not excluded.           *)
Included(p, key) ==
  \/ p.include = {} /\ p.exclude = {}
  \/ p.include # {} /\ Head(key) \in p.include
  \/ p.exclude # {} /\ Head(key) \notin p.exclude

AggregateAll(p, items) ==
  LET Reduced(v) == Object([key \in {q \in DOMAIN Fields(v) : Included(p, q)} |-> Fields(v)[key]])
  IN  Aggregated(Object([key \in {<<p.destination>>} |->
                           Array([k \in DOMAIN items |-> Reduced(items[k])])]))

AggregateExecute(p, items) ==
  IF p.aggregate = "aggregateIndividualFields" THEN AggregateFields(p, items)
  ELSE AggregateAll(p, items)
=============================================================================
