------------------------------ MODULE DataCalls ------------------------------
(***************************************************************************)
(* The calls of NodeCalls and those of the two nodes that put values of    *)
(* items together, Merge and Aggregate.                                    *)
(***************************************************************************)
EXTENDS NodeCalls

CONSTANTS MergeCalls,      \* [p, heap, items1, items2]
          AggregateCalls   \* [p, items]

Merge == INSTANCE MergeNode
Agg == INSTANCE Aggregate

(* The items of a call are told apart.  For the properties an object has a *)
(* key of its own: it is part of a value that has that key.                *)
Inputs(c) == ToSet(c.items1) \cup ToSet(c.items2)
PartsOf(c, v) == {i \in Inputs(c) : Merge!IsMap(v) /\ \E k \in DOMAIN Merge!Fields(v) : Last(k) = i}

ASSUME MergeAssumption ==
  \A c \in MergeCalls :
    /\ c.items1 \in Seq(DOMAIN c.heap) /\ c.items2 \in Seq(DOMAIN c.heap)
    /\ LET all == c.items1 \o c.items2 IN \A k, m \in DOMAIN all : all[k] = all[m] => k = m
    /\ \A i \in Inputs(c) : Merge!IsMap(c.heap[i]) =>
         DOMAIN Merge!Fields(c.heap[i]) \subseteq Merge!Key /\ PartsOf(c, c.heap[i]) = {i}
    /\ c.p.fields \in Seq(ToSet(c.p.fields))
    /\ c.p.mode \in {"append", "chooseBranch", "multiplex", "mergeByPosition", "mergeByFields"}
    /\ c.p.output \in {"input1", "input2", "empty"}
    /\ c.p.joinMode \in {"keepMatches", "keepEverything", "keepNonMatches", "enrichInput1", "enrichInput2"}
    /\ c.p.outputDataFrom \in {"both", "input1", "input2"}

ASSUME AggregateAssumption ==
  \A c \in AggregateCalls :
    /\ c.items \in Seq(ToSet(c.items))
    /\ c.p.aggregate = "aggregateIndividualFields" => c.p.fields \in Seq(ToSet(c.p.fields))

DataInit ==
  \/ CallInit
  \/ /\ result = Pending
     /\ \/ node = "merge" /\ call \in MergeCalls
        \/ node = "aggregate" /\ call \in AggregateCalls

ExecuteMerge == Answer("merge", Merge!Execute(call.p, call.heap, call.items1, call.items2))
ExecuteAggregate == Answer("aggregate", Agg!AggregateExecute(call.p, call.items))

DataNext == CallNext \/ ExecuteMerge \/ ExecuteAggregate
DataSpec == DataInit /\ [][DataNext]_callVars
-----------------------------------------------------------------------------
(* Merge.                                                                  *)

HandedOn == {k \in DOMAIN result.out : result.out[k][1] = "item"}
MergedOnes == DOMAIN result.out \ HandedOn
PartsAt(k) == PartsOf(call, Merge!Seen(result, k))

Given(i, field) ==
  IF Merge!IsMap(call.heap[i]) THEN Merge!FieldValue(call.p, call.heap[i], field) ELSE Merge!Nil

(* Two objects agree when they have the fields and the fields are equal.   *)
Agree(i, j) ==
  /\ Merge!IsMap(call.heap[i]) /\ Merge!IsMap(call.heap[j])
  /\ \A k \in DOMAIN call.p.fields :
       LET f == call.p.fields[k]
       IN  Given(i, f.field1) # Merge!Nil /\ Given(i, f.field1) = Given(j, f.field2)
Keyless(i) ==
  ~Merge!IsMap(call.heap[i]) \/ \E k \in DOMAIN call.p.fields : Given(i, call.p.fields[k].field1) = Merge!Nil

(* A join of two inputs, each pair of fields with a field of its own.      *)
ByFields ==
  /\ Answered("merge") /\ call.p.mode = "mergeByFields" /\ result.status = "success"
  /\ call.p.outputDataFrom = "both"
  /\ call.items1 # <<>> /\ call.items2 # <<>>
  /\ \A k, m \in DOMAIN call.p.fields : call.p.fields[k].field2 = call.p.fields[m].field2 => k = m

(* A merge of everything accounts for every item: each one of the inputs   *)
(* is either handed on once, as one without partner, or part of merged     *)
(* items, never both and never neither.  Only the items of input 1 that    *)
(* lack a field to match by are gone.                                      *)
MergeAccountsForAll ==
  ByFields /\ call.p.joinMode = "keepEverything" =>
    \A i \in Inputs(call) :
      LET handed == {k \in HandedOn : result.out[k][2] = i}
          merged == {k \in MergedOnes : i \in PartsAt(k)}
          partner == \E j \in Inputs(call) : \/ i \in ToSet(call.items1) /\ j \in ToSet(call.items2) /\ Agree(i, j)
                                             \/ j \in ToSet(call.items1) /\ i \in ToSet(call.items2) /\ Agree(j, i)
      IN  IF i \in ToSet(call.items1) /\ Keyless(i) THEN handed = {} /\ merged = {}
          ELSE \/ merged = {} /\ \E k \in handed : handed = {k}
               \/ handed = {} /\ merged # {} /\ partner

Before(items, i, j) == \E k, m \in DOMAIN items : k < m /\ items[k] = i /\ items[m] = j
Joined(i, j) ==
  /\ Agree(i, j)
  /\ call.p.multipleMatches = "all" \/ ~\E first \in ToSet(call.items2) : Before(call.items2, first, j) /\ Agree(i, first)

(* A join by fields makes exactly the pairs that agree, in the order of    *)
(* the inputs; with "first" matches, of each item of input 1 the first     *)
(* pair.  A field both items lack is no agreement.                         *)
MergedPairsAgree ==
  ByFields /\ call.p.joinMode # "keepNonMatches" =>
    /\ \A k \in MergedOnes :
         \E i \in ToSet(call.items1), j \in ToSet(call.items2) : Joined(i, j) /\ PartsAt(k) = {i, j}
    /\ \A i \in ToSet(call.items1), j \in ToSet(call.items2) :
         Joined(i, j) => \E k \in MergedOnes : PartsAt(k) = {i, j}
    /\ \A k, m \in MergedOnes :
         k < m => \E i \in PartsAt(k) \cap ToSet(call.items1), j \in PartsAt(m) \cap ToSet(call.items1) :
                    i = j \/ Before(call.items1, i, j)

(* Where two items clash the preferred one wins, in all ways of combining  *)
(* them: input 2 unless input 1 is preferred, by option or because input 2 *)
(* is the one that is enriched.  Nothing else of either is lost.           *)
PreferredInputWins ==
  Answered("merge") /\ call.p.mode \in {"multiplex", "mergeByPosition", "mergeByFields"}
                    /\ call.p.clash.resolve # "addSuffix" =>
    \A k \in MergedOnes :
      \E i \in PartsAt(k) \cap ToSet(call.items1), j \in PartsAt(k) \cap ToSet(call.items2) :
        LET prefer1 == \/ call.p.clash.resolve = "preferInput1"
                       \/ /\ call.p.clash.resolve = "" /\ call.p.joinMode = "enrichInput2"
                          /\ call.p.mode = "mergeByFields"
            won == Merge!Fields(call.heap[IF prefer1 THEN i ELSE j])
            lost == Merge!Fields(call.heap[IF prefer1 THEN j ELSE i])
            seen == Merge!Fields(Merge!Seen(result, k))
            deep(q) == /\ call.p.clash.mode = "deepMerge"
                       /\ q \in DOMAIN lost /\ Merge!IsMap(won[q]) /\ Merge!IsMap(lost[q])
            Over(f, g) == [q \in DOMAIN f \cup DOMAIN g |-> IF q \in DOMAIN f THEN f[q] ELSE g[q]]
        IN  /\ DOMAIN seen = DOMAIN won \cup DOMAIN lost
            /\ \A q \in DOMAIN seen :
                 seen[q] = CASE q \notin DOMAIN won -> lost[q]
                             [] q \in DOMAIN won /\ deep(q) ->
                                  Merge!Object(Over(Merge!Fields(won[q]), Merge!Fields(lost[q])))
                             [] q \in DOMAIN won /\ ~deep(q) -> won[q]

(* The items of the nodes in front, which are also what the execution      *)
(* saves of them, are not written to.  Renaming with suffixes and naming   *)
(* the source of what has no match are the two options that do.            *)
InputsUntouched ==
  Answered("merge") /\ call.p.clash.resolve # "addSuffix"
                    /\ ~(call.p.mode = "mergeByFields" /\ call.p.joinMode = "keepNonMatches"
                                                       /\ call.p.outputDataFrom = "both") =>
    result.heap = call.heap
-----------------------------------------------------------------------------
(* Aggregate.                                                              *)

(* With missing values kept and lists not merged the columns stay aligned: *)
(* position k of the list of every field is the value of item k.           *)
ColumnsAligned ==
  /\ Answered("aggregate")
  /\ result.status = "success"
  /\ call.p.aggregate = "aggregateIndividualFields"
  /\ call.p.keepMissing /\ ~call.p.mergeLists /\ ~call.p.disableDotNotation
  /\ \A m \in DOMAIN call.p.fields :
       /\ call.p.fields[m].field # <<"">> /\ call.p.fields[m].outputFieldName = <<"">>
       /\ \A l \in DOMAIN call.p.fields :
            Last(call.p.fields[l].field) = Last(call.p.fields[m].field) => l = m
  => \A m \in DOMAIN call.p.fields :
       LET path == call.p.fields[m].field
       IN  Agg!Field(result.json, <<Last(path)>>) =
             Agg!Array([k \in DOMAIN call.items |-> Agg!ValueAt(call.items[k], path)])
=============================================================================
