------------------------------ MODULE MCNodes -------------------------------
(***************************************************************************)
(* Small calls for DataCalls, HttpRequest, NodeParameters, Sandbox,        *)
(* BigQuery and Secrets.  A behaviour is a call of one of them.            *)
(***************************************************************************)
EXTENDS DataCalls, HttpRequest, NodeParameters, MCServices

SeqsUpTo(S, n) == UNION {[1 .. k -> S] : k \in 0 .. n}
Fn(k, v) == [x \in {<<k>>} |-> v]

-----------------------------------------------------------------------------
(* Merge: an item has a key of its own, a clashing key "y", an object "c"  *)
(* with both, and perhaps a field "x" (0 is missing).                      *)

ItemValue(i, x) ==
  LET own == Merge!Either(Fn(i, Merge!Scalar(i)), Fn("y", Merge!Scalar(i)))
      c == Merge!Object(Merge!Either(own, Fn("d", Merge!Scalar(1 + (x % 2)))))
      all == Merge!Either(own, Fn("c", c))
  IN  Merge!Object(IF x = 0 THEN all ELSE Merge!Either(all, Fn("x", Merge!Scalar(x))))

ItemNames == {"i1", "i2", "j1", "j2"}
Heaps(vary) ==
  {[i \in ItemNames |-> ItemValue(i, xs[i])] :
     xs \in {f \in [ItemNames -> 0 .. 2] : \A i \in ItemNames \ vary : f[i] = 1}}

Pair(f1, f2) == [field1 |-> f1, field2 |-> f2]
MatchFields == {<<Pair(<<"x">>, <<"x">>)>>, <<Pair(<<"x">>, <<"x">>), Pair(<<"c", "d">>, <<"c", "d">>)>>}
Clash(r, m) == [resolve |-> r, mode |-> m, overrideEmpty |-> FALSE]
Clashes == {Clash("", "deepMerge"), Clash("preferInput1", "deepMerge"),
            Clash("preferInput2", "shallowMerge"), Clash("addSuffix", "shallowMerge")}

Plainly ==
  [mode |-> "append", output |-> "input1", clash |-> Clash("", "deepMerge"), joinMode |-> "keepMatches",
   outputDataFrom |-> "both", multipleMatches |-> "all", disableDotNotation |-> FALSE,
   includeUnpaired |-> FALSE, fields |-> <<Pair(<<"x">>, <<"x">>)>>]

Simple ==
  {Plainly} \cup {[Plainly EXCEPT !.mode = "chooseBranch", !.output = o] : o \in {"input1", "input2", "empty"}}
    \cup {[Plainly EXCEPT !.mode = m, !.clash = c, !.includeUnpaired = u] :
            m \in {"multiplex", "mergeByPosition"}, c \in Clashes, u \in BOOLEAN}
    \cup {[Plainly EXCEPT !.mode = "mergeByFields", !.fields = f] :
            f \in {<<Pair(<<"">>, <<"">>)>>, <<Pair(<<"x">>, <<"">>)>>}}
Joins ==
  {[Plainly EXCEPT !.mode = "mergeByFields", !.clash = c, !.joinMode = j, !.outputDataFrom = o,
                   !.multipleMatches = mm, !.fields = f] :
     c \in Clashes, f \in MatchFields, mm \in {"all", "first"}, o \in {"both", "input1", "input2"},
     j \in {"keepMatches", "keepEverything", "keepNonMatches", "enrichInput1", "enrichInput2"}}
    \cup {[Plainly EXCEPT !.mode = "mergeByFields", !.disableDotNotation = TRUE,
                          !.fields = <<Pair(<<"c", "d">>, <<"c", "d">>)>>]}

MergeCallsOf(options, heaps, lists1, lists2) == [p : options, heap : heaps, items1 : lists1, items2 : lists2]
MCMergeCalls ==
  MergeCallsOf(Simple, Heaps({}), {<<>>, <<"i1">>, <<"i1", "i2">>}, {<<>>, <<"j1">>, <<"j1", "j2">>})
  \cup MergeCallsOf(Joins, Heaps({}), {<<>>, <<"i1">>}, {<<>>, <<"j1">>})
  \cup MergeCallsOf(Joins, Heaps(ItemNames) \cup {[h EXCEPT ![i] = Merge!Scalar("s")] : h \in Heaps({}), i \in {"i2", "j2"}},
                    {<<"i1", "i2">>}, {<<"j1", "j2">>})

-----------------------------------------------------------------------------
(* Conditions.                                                             *)

Condition(type, op, left, right) == [type |-> type, op |-> op, left |-> left, right |-> right]
StringOperands == {Text(cs) : cs \in {<<>>, <<"a">>, <<"A">>, <<"a", "b">>, <<"b", "a">>}}
Operands ==
  [string |-> StringOperands \cup {NumberText(<<"1">>, 1)},
   number |-> {Number(n) : n \in 0 .. 2} \cup {NumberText(<<"1">>, 1)},
   dateTime |-> {DateText(<<"t">>, t) : t \in 1 .. 2},
   boolean |-> {Boolean(b) : b \in BOOLEAN},
   array |-> {Elems(e) : e \in {<<>>, <<Number(1)>>, <<Number(1), Text(<<"a">>)>>}} \cup {Number(1)},
   object |-> {Keys({}), Keys({"k"})}]
MCConditionCalls ==
  UNION {{[c |-> Condition(t, op, l, r), ignoreCase |-> ic] :
            op \in OperationsOf(t), l \in Operands[t] \cup {NilValue, Plain},
            r \in Operands[t] \cup {NilValue, Plain}, ic \in BOOLEAN} : t \in DOMAIN Operations}

Holds == Condition("number", "equals", Number(1), Number(1))
Fails == Condition("number", "gt", Number(1), Number(1))
Breaks == Condition("number", "gt", Number(1), Text(<<"a">>))
Filter(combinator, conditions) ==
  [filter |-> TRUE, combinator |-> combinator, conditions |-> conditions, caseSensitive |-> TRUE]
Filters ==
  {Filter(c, cs) : c \in {"and", "or"}, cs \in SeqsUpTo({Holds, Fails, Breaks}, 2)}
    \cup {Filter("xor", <<Holds>>)}
    \cup {[filter |-> FALSE, value |-> v] : v \in {"true", "false", "other"}}
MCFilterCalls ==
  {[items |-> <<"p", "q">>, conditions |-> cs, continueOnFail |-> cof] :
     cs \in [1 .. 2 -> Filters], cof \in BOOLEAN}

-----------------------------------------------------------------------------
(* Switch and Limit.                                                       *)

SwitchRule(op, v) == [op |-> op, value2 |-> v]
RuleLists ==
  {<<>>, <<SwitchRule("contains", Text(<<"a">>))>>, <<SwitchRule("equal", Number(1)), SwitchRule("notEqual", Number(2))>>,
   <<SwitchRule("larger", Number(0)), SwitchRule("startsWith", Text(<<"a">>)), SwitchRule("smallerEqual", Number(1))>>}
MCSwitchCalls ==
  {[items |-> <<"p", "q">>, mode |-> "rules", rules |-> r, value1 |-> v, fallback |-> f, continueOnFail |-> cof] :
     r \in {<<a, a>> : a \in RuleLists} \cup {<<a, <<SwitchRule("larger", Number(0))>> >> : a \in RuleLists \cup {Error}},
     v \in [1 .. 2 -> {Text(<<"a", "b">>), Number(1), Number(2), Error}],
     f \in {<<a, a>> : a \in {-1, 0, 1, 3, Error}}, cof \in BOOLEAN}
  \cup
  {[items |-> <<"p", "q">>, mode |-> "expression", amount |-> a, output |-> o, continueOnFail |-> cof] :
     a \in {<<x, x>> : x \in {-1, 0, 2}} \cup {<<2, Error>>, <<Error, 2>>, <<1, 2>>},
     o \in [1 .. 2 -> {Error, -1, 0, 1, 2}], cof \in BOOLEAN}

MCLimitCalls ==
  {[items |-> items, n |-> n, keep |-> k] :
     items \in {<<>>, <<"p">>, <<"p", "q", "r">>}, n \in -1 .. 4, k \in {"firstItems", "lastItems"}}

-----------------------------------------------------------------------------
(* Aggregate.                                                              *)

ListWithNil == Agg!Array(<<Agg!Scalar("1"), Agg!Nil>>)
AValues == {Agg!Object(Fn("a", v)) : v \in {Agg!Nil, Agg!Scalar("1"), ListWithNil}}
             \cup {Agg!Object(Fn("b", Agg!Scalar("2"))),
                   Agg!Object(Agg!Either(Fn("b", Agg!Object(Fn("a", Agg!Scalar("3")))), Fn("a", Agg!Scalar("4"))))}
AField(path, rename, output) == [field |-> path, renameField |-> rename, outputFieldName |-> output]
FieldLists ==
  {<<>>, <<AField(<<"a">>, FALSE, <<"">>)>>, <<AField(<<"">>, FALSE, <<"">>)>>,
   <<AField(<<"a">>, FALSE, <<"">>), AField(<<"b">>, FALSE, <<"">>)>>,
   <<AField(<<"a">>, FALSE, <<"">>), AField(<<"b", "a">>, FALSE, <<"">>)>>,
   <<AField(<<"a">>, TRUE, <<"o", "p">>), AField(<<"b">>, TRUE, <<"o">>)>>,
   <<AField(<<"a">>, TRUE, <<"o", "p">>), AField(<<"b">>, TRUE, <<"o", "q">>)>>,
   <<AField(<<"a">>, TRUE, <<"o">>), AField(<<"b">>, TRUE, <<"o">>)>>}
MCAggregateCalls ==
  {[items |-> items,
    p |-> [aggregate |-> "aggregateIndividualFields", fields |-> f, disableDotNotation |-> d,
           keepMissing |-> k, mergeLists |-> m]] :
     items \in [1 .. 2 -> AValues], f \in FieldLists, d \in BOOLEAN, k \in BOOLEAN, m \in BOOLEAN}
  \cup
  {[items |-> items,
    p |-> [aggregate |-> "aggregateAllItemData", destination |-> "data", include |-> i, exclude |-> e]] :
     items \in [1 .. 2 -> AValues], i \in {{}, {"a"}}, e \in {{}, {"a"}, {"b"}}}

-----------------------------------------------------------------------------
(* Schedules.                                                              *)

MCScheduleCalls ==
  {<<>>, <<[field |-> "none"]>>, <<[field |-> "cronExpression", expression |-> "15 * * * *"]>>,
   <<[field |-> "seconds"]>>, <<[field |-> "minutes"]>>, <<[field |-> "weeks", triggerAtDay |-> <<0, 1>>]>>,
   <<[field |-> "weeks", triggerAtDay |-> <<>>]>>, <<[field |-> "hours"]>>}
  \cup {<<[field |-> "hours", hoursInterval |-> n, triggerAtMinute |-> 10]>> : n \in 1 .. 30}
  \cup {<<[field |-> "days", daysInterval |-> n, triggerAtHour |-> 1], [field |-> "weeks"]>> : n \in 1 .. 40}
  \cup {<<[field |-> "months", monthsInterval |-> n, triggerAtDayOfMonth |-> d]>> :
          n \in 1 .. 13, d \in {1, 2, 28, 29, 30, 31}}

-----------------------------------------------------------------------------
(* HTTP requests.                                                          *)

MCHttpParams ==
  {<<>>, <<"ok">>, <<"noUrl">>, <<"ok", "unbuildable">>, <<"ok", "failed", "ok">>, <<"ok", "unbuildable", "ok">>}

BodyParameter(n, v, b) == [name |-> n, value |-> v, binary |-> b]
Binaries == [f \in {"file", "noname"} |->
               [mimeType |-> IF f = "file" THEN "" ELSE "image/png",
                fileName |-> IF f = "file" THEN "f.bin" ELSE ""]]
JsonMap(valid, name) == [valid |-> valid, map |-> [n \in {name} |-> "json"]]
PlainRequest ==
  [url |-> "ok", method |-> "POST", sendBody |-> TRUE, contentType |-> "json", specifyBody |-> "keypair",
   body |-> "text", bodyParameters |-> <<>>, binaries |-> Binaries, inputDataFieldName |-> "file",
   rawContentType |-> "text/html", sendQuery |-> FALSE, queryParameters |-> <<>>,
   specifyQuery |-> "keypair", jsonQuery |-> JsonMap(TRUE, "q"), sendHeaders |-> FALSE,
   headerParameters |-> <<>>, specifyHeaders |-> "keypair", jsonHeaders |-> JsonMap(TRUE, "Accept"),
   lower |-> ("Content-Type" :> "content-type" @@ "content-type" :> "content-type" @@ "Accept" :> "accept"),
   responseFormat |-> "autodetect"]
Header(n) == BodyParameter(n, "user", FALSE)
MCRequestCalls ==
  {[PlainRequest EXCEPT !.method = m, !.sendBody = sb, !.contentType = ct, !.specifyBody = spb,
                        !.bodyParameters = bp, !.sendHeaders = TRUE, !.headerParameters = h] :
     m \in {"POST", "DELETE"}, sb \in BOOLEAN, spb \in {"keypair", "string", "json"},
     ct \in {"form-urlencoded", "multipart-form-data", "json", "binaryData", "raw"},
     bp \in {<<>>, <<BodyParameter("a", "1", FALSE), BodyParameter("a", "2", FALSE), BodyParameter("b", "file", TRUE)>>,
             <<BodyParameter("a", "noname", TRUE)>>, <<BodyParameter("a", "gone", TRUE)>>},
     h \in {<<>>, <<Header("Accept")>>, <<Header("Content-Type"), Header("content-type")>>}}
  \cup {[PlainRequest EXCEPT !.url = u] : u \in {"", "forbidden"}}
  \cup {[PlainRequest EXCEPT !.contentType = "binaryData", !.inputDataFieldName = "gone"]}
  \cup {[PlainRequest EXCEPT !.sendQuery = TRUE, !.queryParameters = q, !.specifyQuery = sq, !.jsonQuery = JsonMap(v, "q"),
                             !.sendHeaders = TRUE, !.headerParameters = q, !.specifyHeaders = sh, !.responseFormat = f,
                             !.jsonHeaders = JsonMap(v, "Content-Type")] :
          q \in {<<>>, <<Header("Accept")>>}, sq \in {"keypair", "json"}, sh \in {"keypair", "json"},
          v \in BOOLEAN, f \in {"json", "text"}}

ReadResponses ==
  {[status |-> "read", type |-> t, body |-> b] :
     t \in {"json", "binary", "html"},
     b \in {<<"array", <<"x", "y">> >>, <<"array", <<>> >>, <<"object", "o">>, <<"text", "t">>}}
MCResponseCalls ==
  {[index |-> 1, response |-> r, format |-> f, full |-> full] :
     r \in ReadResponses \cup {[status |-> "nil"], [status |-> "unreadable"]},
     f \in {"autodetect", "json", "text", "file"}, full \in BOOLEAN}

-----------------------------------------------------------------------------
(* Parameters: "c" depends on "b" and "b" on "a", or all on the version.   *)

On(name, values) == [name |-> name, path |-> <<>>, values |-> values]
Spec(name, default, show, hide) ==
  [name |-> name, default |-> Scalar(default), show |-> show, hide |-> hide, options |-> IF name = "b" THEN "sub" :> <<>> ELSE <<>>]
One == {Scalar("1")}
OnVersion(n) == [name |-> "@version", path |-> <<>>, values |-> {n}]
ASpecs == {Spec("a", d, {}, {}) : d \in {"1", "2"}} \cup {Spec("a", "1", {OnVersion(v)}, {}) : v \in 1 .. 2}
BSpecs == {Spec("b", "1", {On("a", One)}, {}), Spec("b", "1", {}, {On("a", One)}),
           Spec("b", "", {On("a", One), OnVersion(1)}, {}), Spec("b", "1", {}, {OnVersion(1)})}
CSpecs == {Spec("c", "1", {On("b", One)}, {}), Spec("c", "1", {On("a", One)}, {On("b", One)}),
           Spec("c", "1", {}, {On("a", One), On("b", One)}), Spec("a", "2", {On("b", One)}, {}),
           [Spec("c", "1", {[name |-> "b", path |-> <<"sub">>, values |-> One]}, {}) EXCEPT !.options = "sub" :> <<>>]}
Orders == {<<1, 2, 3>>, <<3, 2, 1>>, <<2, 3, 1>>}
BParameter(v) == [n \in {"b"} |-> v]
MCSpecs ==
  {[version |-> 1, parameters |-> ps, properties |-> [k \in 1 .. 3 |-> <<a, b, c>>[o[k]]]] :
     a \in ASpecs, b \in BSpecs, c \in CSpecs, o \in Orders,
     ps \in {<<>>, BParameter(Scalar("2")), BParameter(Object(Fn("sub", Scalar("1"))))}}
MCLookups == {[name |-> n, path |-> p, fallback |-> Nil] : n \in {"a", "b"}, p \in {<<>>, <<"sub">>}}
               \cup {[name |-> "b", path |-> <<"other", "a">>, fallback |-> Nil]}

-----------------------------------------------------------------------------
MCInit ==
  \/ DataInit /\ HttpIdle /\ ParamIdle /\ SandboxIdle /\ BigQueryIdle /\ SecretsIdle
  \/ NoCall /\ HttpInit /\ ParamIdle /\ SandboxIdle /\ BigQueryIdle /\ SecretsIdle
  \/ NoCall /\ HttpIdle /\ ParamInit /\ SandboxIdle /\ BigQueryIdle /\ SecretsIdle
  \/ NoCall /\ HttpIdle /\ ParamIdle /\ SandboxInit /\ BigQueryIdle /\ SecretsIdle
  \/ NoCall /\ HttpIdle /\ ParamIdle /\ SandboxIdle /\ BigQueryInit /\ SecretsIdle
  \/ NoCall /\ HttpIdle /\ ParamIdle /\ SandboxIdle /\ BigQueryIdle /\ SecretsInit
MCNext ==
  \/ DataNext /\ UNCHANGED <<httpVars, paramVars, sandboxVars, bigQueryVars, secretVars>>
  \/ HttpNext /\ UNCHANGED <<callVars, paramVars, sandboxVars, bigQueryVars, secretVars>>
  \/ ParamNext /\ UNCHANGED <<callVars, httpVars, sandboxVars, bigQueryVars, secretVars>>
  \/ SandboxNext /\ UNCHANGED <<callVars, httpVars, paramVars, bigQueryVars, secretVars>>
  \/ BigQueryNext /\ UNCHANGED <<callVars, httpVars, paramVars, sandboxVars, secretVars>>
  \/ SecretsNext /\ UNCHANGED <<callVars, httpVars, paramVars, sandboxVars, bigQueryVars>>
MCVars == <<callVars, httpVars, paramVars, sandboxVars, bigQueryVars, secretVars>>
MCSpec ==
  MCInit /\ [][MCNext]_MCVars /\ HttpFairness /\ SandboxFairness /\ BigQueryFairness

-----------------------------------------------------------------------------
(* Calls that wait for others return: an HTTP request with its answers, a  *)
(* script when its timer fires at the latest, a BigQuery call with the     *)
(* answers of the service.                                                 *)
CallsReturn == HttpCallReturns /\ ScriptsEnd /\ BigQueryReturns
=============================================================================
