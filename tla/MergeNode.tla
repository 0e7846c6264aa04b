------------------------------ MODULE MergeNode ------------------------------
(***************************************************************************)
(* The Merge node (nodes/merge/node.go).  An item is a reference: the maps *)
(* of Go are shared with the node that produced them and with the run data *)
(* of the execution, so what the node writes into an item is seen there    *)
(* too.  `heap` maps references to values.                                 *)
(***************************************************************************)
EXTENDS Values

-----------------------------------------------------------------------------
(* Merging values: the last one wins.                                      *)

ShallowMerge(dest, src) ==
  IF ~(IsMap(dest) /\ IsMap(src)) THEN src ELSE Object(Either(Fields(dest), Fields(src)))

(* mergeObjects goes down to where both are objects, path by path.         *)
MergeFields(dest, src, Deeper(_)) ==
  Object(Either(Fields(dest),
    [k \in DOMAIN Fields(src) |->
       IF k \in DOMAIN Fields(dest) /\ IsMap(Fields(dest)[k]) /\ IsMap(Fields(src)[k])
       THEN Deeper(k) ELSE Fields(src)[k]]))

MergeObjects(dest, src) ==
  LET Below(v, path) == FoldLeft(LAMBDA w, k : Fields(w)[k], v, path)
      merged[path \in Seq(Key)] ==
        MergeFields(Below(dest, path), Below(src, path), LAMBDA k : merged[Append(path, k)])
  IN  IF ~(IsMap(dest) /\ IsMap(src)) THEN src
      ELSE MergeFields(dest, src, LAMBDA k : merged[<<k>>])

(* selectMergeMethod: overrideEmpty, which is not implemented, means deep. *)
MergeAll(clash, objects) ==
  LET Two(dest, src) == IF clash.mode = "shallowMerge" /\ ~clash.overrideEmpty
                        THEN ShallowMerge(dest, src) ELSE MergeObjects(dest, src)
      merged[k \in DOMAIN objects] == IF k = 1 THEN objects[1] ELSE Two(merged[k - 1], objects[k])
  IN  merged[Len(objects)]

(* addSuffixToEntriesKeys replaces the json of the items themselves, as    *)
(* often as they are in the list.                                          *)
Suffixed(v, suffix, n) ==
  IF ~IsMap(v) THEN v
  ELSE Object([k \in {[m \in 1 .. n |-> suffix] \o j : j \in DOMAIN Fields(v)} |->
                 Fields(v)[SubSeq(k, n + 1, Len(k))]])
AddSuffix(heap, items, suffix) ==
  [i \in DOMAIN heap |-> Suffixed(heap[i], suffix, Cardinality({k \in DOMAIN items : items[k] = i}))]

(* addSourceField writes into the items' own objects.                      *)
AddSource(heap, items, source) ==
  [i \in DOMAIN heap |->
     IF i \in ToSet(items) /\ IsMap(heap[i])
     THEN Object(Either(Fields(heap[i]), [k \in {<<"_source">>} |-> Scalar(source)]))
     ELSE heap[i]]

-----------------------------------------------------------------------------
(* Matching.  A field is a path; with disableDotNotation, its text is one  *)
(* name.                                                                   *)

FieldValue(p, v, field) ==
  IF p.disableDotNotation THEN Field(v, Name(field)) ELSE ValueAt(v, field)

(* Mutant: an item is looked up although it misses a field.               *)
AnyLookup(p, v) == IsMap(v)

(* The node looks an item of input 1 up by its fields.  It has no lookup   *)
(* when it is no object or misses one of them.                             *)
HasLookup(p, v) ==
  IsMap(v) /\ \A k \in DOMAIN p.fields : FieldValue(p, v, p.fields[k].field1) # Nil

(* The lookup is a map by field2: of two pairs with the same one the last  *)
(* is compared.                                                            *)
Matches(p, v1, v2) ==
  /\ IsMap(v2)
  /\ \A k \in DOMAIN p.fields :
       \/ \E m \in DOMAIN p.fields : m > k /\ p.fields[m].field2 = p.fields[k].field2
       \/ FieldValue(p, v1, p.fields[k].field1) = FieldValue(p, v2, p.fields[k].field2)

(* findEntryMatches: positions in input 2.                                 *)
FindEntryMatches(p, heap, v1, items2) ==
  LET all == {m \in DOMAIN items2 : Matches(p, v1, heap[items2[m]])}
  IN  IF p.multipleMatches = "all" THEN all ELSE {m \in all : \A l \in all : m <= l}

(* Mutant: an item of input 2 counts as matched by the last lookup only.   *)
LastMatched(found) == IF found = <<>> THEN {} ELSE Last(found)

MatchedPositions(found) == UNION {found[k] : k \in DOMAIN found}

(* findMatches.  An item of input 1 without a lookup is in no list.        *)
FindMatches(p, heap, items1, items2) ==
  LET looked == {k \in DOMAIN items1 : HasLookup(p, heap[items1[k]])}
      found == [k \in DOMAIN items1 |->
                  IF k \in looked THEN FindEntryMatches(p, heap, heap[items1[k]], items2) ELSE {}]
      pairwise == p.outputDataFrom = "both" \/ p.joinMode \in {"enrichInput1", "enrichInput2"}
      Entries(k) ==
        LET matches == Chosen(items2, found[k])
        IN  IF pairwise \/ matches = <<>>
            THEN [m \in DOMAIN matches |-> [entry |-> items1[k], matches |-> <<matches[m]>>]]
            ELSE <<[entry |-> items1[k], matches |-> matches]>>
  IN  [entries |-> FlattenSeq([k \in DOMAIN items1 |-> Entries(k)]),
       unmatched1 |-> Chosen(items1, {k \in looked : found[k] = {}}),
       matched2 |-> Chosen(items2, MatchedPositions(found)),
       unmatched2 |-> Chosen(items2, DOMAIN items2 \ MatchedPositions(found))]

-----------------------------------------------------------------------------
(* What a step of the node leaves: the heap and the output so far.  An     *)
(* output is an item handed on, <<"item", i>>, or a new one, <<"new", v>>. *)
(* A nil list is not an empty one: the engine does not forward it.         *)

Handed(items) == [k \in DOMAIN items |-> <<"item", items[k]>>]
New(v) == <<"new", v>>
Result(heap, out) == [status |-> "success", heap |-> heap, out |-> out, nil |-> FALSE]
NilIfEmpty(heap, items) == [Result(heap, Handed(items)) EXCEPT !.nil = items = <<>>]

ResolveClash(p) ==
  IF p.clash.resolve # "" THEN p.clash.resolve
  ELSE IF p.joinMode = "enrichInput2" THEN "preferInput1" ELSE "preferInput2"

(* What becomes of the items of an entry, and the values that are merged.  *)
AfterEntry(p, heap, e) ==
  IF ResolveClash(p) # "addSuffix" THEN heap
  ELSE AddSuffix(AddSuffix(heap, <<e.entry>>, "1"), e.matches, "2")
Objects(p, heap, e) ==
  LET first == <<heap[e.entry]>>
      rest == [m \in DOMAIN e.matches |-> heap[e.matches[m]]]
  IN  IF ResolveClash(p) = "preferInput1" THEN rest \o first ELSE first \o rest

(* mergeMatched; h[k] is the heap after k entries.                         *)
MergeMatched(p, heap, entries) ==
  LET h[k \in 0 .. Len(entries)] == IF k = 0 THEN heap ELSE AfterEntry(p, h[k - 1], entries[k])
  IN  Result(h[Len(entries)],
             [k \in DOMAIN entries |-> New(MergeAll(p.clash, Objects(p, h[k], entries[k])))])

(* Mutant: with a preference for input 1 its items are not moved last.     *)
InGivenOrder(p, items1, items2) == <<items1, items2>>

(* multiplex and mergeByPosition: the preferred input is taken as the      *)
(* second one, which also turns the order of the output round.             *)
Ordered(p, items1, items2) ==
  IF p.clash.resolve = "preferInput1" THEN <<items2, items1>> ELSE <<items1, items2>>

Prepared(p, heap, in) ==
  IF p.clash.resolve = "addSuffix" THEN AddSuffix(AddSuffix(heap, in[1], "1"), in[2], "2") ELSE heap

Multiplex(p, heap, items1, items2) ==
  LET in == Ordered(p, items1, items2)
      h == Prepared(p, heap, in)
      Row(k) == [m \in DOMAIN in[2] |-> New(MergeAll(p.clash, <<h[in[1][k]], h[in[2][m]]>>))]
  IN  IF items1 = <<>> \/ items2 = <<>> THEN Result(heap, <<>>)
      ELSE Result(h, FlattenSeq([k \in DOMAIN in[1] |-> Row(k)]))

MergeByPosition(p, heap, items1, items2) ==
  LET in == Ordered(p, items1, items2)
      h == Prepared(p, heap, in)
      lens == {Len(items1), Len(items2)}
      count == CHOOSE n \in lens : \A m \in lens : IF p.includeUnpaired THEN n >= m ELSE n <= m
      Row(k) == CASE k > Len(in[1]) -> <<"item", in[2][k]>>
                  [] k > Len(in[2]) -> <<"item", in[1][k]>>
                  [] OTHER -> New(MergeAll(p.clash, <<h[in[1][k]], h[in[2][k]]>>))
  IN  IF items1 = <<>> \/ items2 = <<>> THEN Result(heap, Handed(items1 \o items2))
      ELSE Result(h, [k \in 1 .. count |-> Row(k)])

(* mergeByFields with an empty input.                                      *)
WithoutPartner(p, heap, items1, items2) ==
  IF \/ p.joinMode = "keepMatches"
     \/ p.joinMode = "enrichInput1" /\ items1 = <<>>
     \/ p.joinMode = "enrichInput2" /\ items2 = <<>>
  THEN Result(heap, <<>>)
  ELSE Result(heap, Handed(items1 \o items2))

(* Mutant: the items without partner are always renamed.                   *)
AlwaysSuffix(p) == TRUE

AddsSuffix(p) == p.clash.resolve = "addSuffix"
AppendItems(r, items, p, s) ==
  Result(IF AddsSuffix(p) THEN AddSuffix(r.heap, items, s) ELSE r.heap, r.out \o Handed(items))

Keep(p, heap, m) ==
  LET joined == CASE p.outputDataFrom = "input1" ->
                       Result(heap, Handed([k \in DOMAIN m.entries |-> m.entries[k].entry]))
                  [] p.outputDataFrom = "input2" -> Result(heap, Handed(m.matched2))
                  [] p.outputDataFrom = "both" -> MergeMatched(p, heap, m.entries)
  IN  IF p.joinMode = "keepMatches" THEN joined
      ELSE AppendItems(AppendItems(joined, m.unmatched1, p, "1"), m.unmatched2, p, "2")

KeepNonMatches(p, heap, m) ==
  CASE p.outputDataFrom = "input1" -> NilIfEmpty(heap, m.unmatched1)
    [] p.outputDataFrom = "input2" -> NilIfEmpty(heap, m.unmatched2)
    [] p.outputDataFrom = "both" ->
         Result(AddSource(AddSource(heap, m.unmatched1, "input1"), m.unmatched2, "input2"),
                Handed(m.unmatched1 \o m.unmatched2))

Enrich(p, heap, m) ==
  IF p.joinMode = "enrichInput1"
  THEN AppendItems(MergeMatched(p, heap, m.entries), m.unmatched1, p, "1")
  ELSE AppendItems(MergeMatched(p, heap, m.entries), m.unmatched2, p, "2")

(* checkMatchFieldsInput.                                                  *)
NoField == <<"">>
FieldsMissing(p) == \E k \in DOMAIN p.fields : NoField \in {p.fields[k].field1, p.fields[k].field2}

MergeByFields(p, heap, items1, items2) ==
  LET m == FindMatches(p, heap, items1, items2)
  IN  IF FieldsMissing(p) THEN [Result(heap, <<>>) EXCEPT !.status = "failed"]
      ELSE IF items1 = <<>> \/ items2 = <<>> THEN WithoutPartner(p, heap, items1, items2)
      ELSE CASE p.joinMode = "keepNonMatches" -> KeepNonMatches(p, heap, m)
             [] p.joinMode \in {"keepMatches", "keepEverything"} -> Keep(p, heap, m)
             [] p.joinMode \in {"enrichInput1", "enrichInput2"} -> Enrich(p, heap, m)

(* Execute.                                                                *)
Execute(p, heap, items1, items2) ==
  CASE p.mode = "append" -> Result(heap, Handed(items1 \o items2))
    [] p.mode = "chooseBranch" ->
         Result(heap, CASE p.output = "input1" -> Handed(items1)
                        [] p.output = "input2" -> Handed(items2)
                        [] p.output = "empty" -> <<New(Object(<<>>))>>)
    [] p.mode = "multiplex" -> Multiplex(p, heap, items1, items2)
    [] p.mode = "mergeByPosition" -> MergeByPosition(p, heap, items1, items2)
    [] p.mode = "mergeByFields" -> MergeByFields(p, heap, items1, items2)

(* What the following node sees of an output.                              *)
Seen(r, k) == IF r.out[k][1] = "item" THEN r.heap[r.out[k][2]] ELSE r.out[k][2]
=============================================================================
