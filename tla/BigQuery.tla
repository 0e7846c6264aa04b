------------------------------ MODULE BigQuery ------------------------------
(***************************************************************************)
(* A call of the BigQuery node (nodes/google_bigquery/node.go): a query    *)
(* per item, or an insert of all items in batches.  The service decides    *)
(* what becomes of each request.                                           *)
(*                                                                         *)
(* `inputs[k]` says what item k and its parameters are: "ok", "invalid"    *)
(* (a required column is missing), "unreadable" (a parameter cannot be     *)
(* read) or "notJson".                                                     *)
(***************************************************************************)
EXTENDS Values

CONSTANTS BigQueryCalls,  \* [operation, inputs, ready, batchSize, dataMode, continueOnFail, raw, schema]
          MaxRows         \* bounds the rows of the answer to one query

(* A call has a list of items; the size of the batches is a Go int.        *)
ASSUME BigQueryAssumption ==
  \A r \in BigQueryCalls : r.inputs \in Seq(ToSet(r.inputs)) /\ r.batchSize \in Int

VARIABLES request,
          stage,     \* where Execute is: <<"connect">>, <<"query", k>>, <<"rows", k, n>>,
                     \* <<"put", i>>, or <<status>> when it has returned
          answered,  \* the items of the result so far
          inserted,  \* the rows of the insert: positions of items
          table      \* what the service has stored: positions of items

bigQueryVars == <<request, stage, answered, inserted, table>>

ItemNumbers == DOMAIN request.inputs
Done == stage[1] \in {"success", "failed", "panic"}

BigQueryIdle ==
  /\ request = [operation |-> "none", inputs |-> <<>>]
  /\ stage = <<"idle">> /\ answered = <<>> /\ inserted = <<>> /\ table = <<>>
BigQueryInit ==
  /\ request \in BigQueryCalls
  /\ stage = <<"connect">> /\ answered = <<>> /\ inserted = <<>> /\ table = <<>>

ErrorOf(k) == [of |-> "item", item |-> k, success |-> FALSE]

-----------------------------------------------------------------------------
(* insert, up to the batches.  Without `continueOnFail` the first bad item *)
(* fails the call before anything is stored; an item that is no object is  *)
(* a failed type assertion.                                                *)

Bad(k) ==
  \/ request.inputs[k] = "invalid"
  \/ request.dataMode = "define" /\ request.inputs[k] = "unreadable"
NotAMap(k) == request.dataMode = "autoMap" /\ request.inputs[k] = "notJson"

Prepared ==
  LET first(S) == CHOOSE k \in S : \A m \in S : k <= m
      panics == {k \in ItemNumbers : NotAMap(k)}
      bad == {k \in ItemNumbers : Bad(k)}
  IN  IF panics # {} /\ (request.continueOnFail \/ bad = {} \/ first(panics) < first(bad)) THEN "panic"
      ELSE IF bad # {} /\ ~request.continueOnFail THEN "failed" ELSE "rows"

(* Batches of 100 when no size is given; a negative one slices backwards.  *)
BatchSize == IF request.batchSize = 0 THEN 100 ELSE request.batchSize

(* Mutant: the next batch starts at the last row of this one.              *)
OverlappingBatches(i) == i + (IF BatchSize > 1 THEN BatchSize - 1 ELSE 1)

NextBatch(i) == i + BatchSize
Batch(i) == SubSeq(inserted, i + 1, IF i + BatchSize > Len(inserted) THEN Len(inserted) ELSE i + BatchSize)

(* Execute: the integration, its client, dataset, table and parameters are *)
(* all there, or the call fails.  An unknown operation gives nothing.      *)
Connect ==
  LET rows == Ascending({k \in ItemNumbers : ~Bad(k)})
      bad == Ascending({k \in ItemNumbers : Bad(k)})
      returns(status) == stage' = <<status>> /\ UNCHANGED <<answered, inserted>>
  IN  /\ stage = <<"connect">>
      /\ \/ ~request.ready /\ returns("failed")
         \/ request.ready /\ request.operation \notin {"insert", "executeQuery"} /\ returns("success")
         \/ request.ready /\ request.operation = "insert" /\ Prepared # "rows" /\ returns(Prepared)
         \/ /\ request.ready /\ request.operation = "executeQuery"
            /\ stage' = <<"query", 1>>
            /\ UNCHANGED <<answered, inserted>>
         \/ /\ request.ready /\ request.operation = "insert" /\ Prepared = "rows"
            /\ stage' = IF rows # <<>> /\ BatchSize < 0 THEN <<"panic">> ELSE <<"put", 0>>
            /\ inserted' = rows
            /\ answered' = [n \in DOMAIN bad |-> ErrorOf(bad[n])]
      /\ UNCHANGED <<request, table>>

(* The batches.  A Put that fails may have stored nothing, some of the     *)
(* rows, or all when its answer was lost.  Batches before it stay stored.  *)
Result(i, ok) == [of |-> "batch", index |-> i, success |-> ok]

PutBatch ==
  \E i \in 0 .. Len(inserted) :
    /\ stage = <<"put", i>>
    /\ i < Len(inserted)
    /\ \/ /\ table' = table \o Batch(i)
          /\ answered' = Append(answered, Result(i, TRUE))
          /\ stage' = <<"put", NextBatch(i)>>
       \/ /\ \E stored \in {<<>>, SubSeq(Batch(i), 2, Len(Batch(i))), Batch(i)} : table' = table \o stored
          /\ IF request.continueOnFail
             THEN answered' = Append(answered, Result(i, FALSE)) /\ stage' = <<"put", NextBatch(i)>>
             ELSE answered' = answered /\ stage' = <<"failed">>
    /\ UNCHANGED <<request, inserted>>

AllPut ==
  /\ stage[1] = "put"
  /\ stage[2] >= Len(inserted)
  /\ stage' = <<"success">>
  /\ UNCHANGED <<request, answered, inserted, table>>

-----------------------------------------------------------------------------
(* executeQuery.  `continueOnFail` covers the query and not its            *)
(* parameters.                                                             *)

QueryFails(k) ==
  /\ stage = <<"query", k>>
  /\ IF request.continueOnFail /\ request.inputs[k] # "unreadable"
     THEN answered' = Append(answered, ErrorOf(k)) /\ stage' = <<"query", k + 1>>
     ELSE answered' = answered /\ stage' = <<"failed">>
  /\ UNCHANGED <<request, inserted, table>>

QueryRuns(k) ==
  /\ stage = <<"query", k>>
  /\ request.inputs[k] # "unreadable"
  /\ stage' = <<"rows", k, 0>>
  /\ UNCHANGED <<request, answered, inserted, table>>

(* prepareQueryOutput: the keys of the item made of a row.                 *)
RowKeys ==
  IF request.raw THEN {"rawData", "success"}
  ELSE (IF request.schema = {} THEN {"success"} ELSE request.schema)

(* An error of the iterator is no row and no end: the loop asks again, and *)
(* an iterator that has failed once fails always.                          *)
ReadRow(k) ==
  \E n \in 0 .. MaxRows :
    /\ stage = <<"rows", k, n>>
    /\ \/ /\ n < MaxRows
          /\ answered' = Append(answered, [of |-> "row", item |-> k, keys |-> RowKeys])
          /\ stage' = <<"rows", k, n + 1>>
       \/ /\ answered' = answered
          /\ stage' \in {<<"query", k + 1>>, <<"broken">>}
    /\ UNCHANGED <<request, inserted, table>>

QueriesDone ==
  /\ stage = <<"query", Len(request.inputs) + 1>>
  /\ stage' = <<"success">>
  /\ answered' = IF answered = <<>> THEN << [of |-> "call", success |-> TRUE] >> ELSE answered
  /\ UNCHANGED <<request, inserted, table>>

BigQueryNext ==
  \/ Connect \/ PutBatch \/ AllPut \/ QueriesDone
  \/ \E k \in ItemNumbers : QueryFails(k) \/ QueryRuns(k) \/ ReadRow(k)

BigQuerySpec == BigQueryInit /\ [][BigQueryNext]_bigQueryVars

(* The service answers every request.                                      *)
BigQueryFairness == WF_bigQueryVars(BigQueryNext)
-----------------------------------------------------------------------------
Covers(r, n) == n > r.index /\ n <= r.index + BatchSize

(* An insert that succeeds has an answer for every item, one and no more:  *)
(* its own error, or that of its batch; and the rows of a batch that is    *)
(* reported a success are stored once.                                     *)
RowsAccountedFor ==
  stage = <<"success">> /\ request.operation = "insert" =>
    \A k \in ItemNumbers :
      LET own == {n \in DOMAIN answered : answered[n].of = "item" /\ answered[n].item = k}
          batches == {n \in DOMAIN answered :
                        answered[n].of = "batch" /\ \E p \in DOMAIN inserted :
                                                      inserted[p] = k /\ Covers(answered[n], p)}
          stored == {n \in DOMAIN table : table[n] = k}
      IN  /\ Cardinality(own) + Cardinality(batches) = 1
          /\ own # {} => stored = {}
          /\ \A n \in batches : answered[n].success => Cardinality(stored) = 1

(* A call returns, but for a query whose iterator fails.                   *)
BigQueryReturns == stage = <<"connect">> ~> Done \/ stage = <<"broken">>
=============================================================================
