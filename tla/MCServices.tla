----------------------------- MODULE MCServices -----------------------------
(***************************************************************************)
(* Small jobs for Sandbox, calls for BigQuery and HtmlNode; the callers of *)
(* Secrets are in the configuration.                                       *)
(***************************************************************************)
EXTENDS Sandbox, BigQuery, Secrets

T(text) == Chunk("text", text)
C(code) == Chunk("code", code)

Templates ==
  {<<T(<<"a">>), C(<<"$json">>)>>, <<C(<<"$json">>)>>, <<T(<<"a">>)>>,
   <<C(<<"loops">>), T(<<CloseBracket, "a">>), C(<<"$.item", "n">>)>>,
   <<T(<<"a", EscapedOpen, "b">>), C(<<"throws", EscapedClose, TwiceEscapedClose, OpenBracket>>), T(<<"b">>)>>,
   <<C(<<"loops">>), C(<<"$input.first">>)>>}

(* Texts nobody put together from parts.                                   *)
RawTexts ==
  {<<>>, <<"a">>, <<"=", "a">>, <<"=", OpenBracket, "$json">>, <<"=", "a", EscapedOpen>>,
   <<"=", OpenBracket, "$.last", "m", TwiceEscapedClose>>, <<"=", OpenBracket, "$.last", "m", CloseBracket>>,
   <<"=", OpenBracket, "$input.last", CloseBracket, "b">>}

(* "n" ran twice, "m" has put out nothing, "o" has not run.                *)
RunData ==
  ("n" :> << << <<"items", <<"p">> >> >>, << <<"items", <<"q", "r">> >>, <<"none">> >> >>
     @@ "m" :> << << <<"none">>, <<"items", <<"p">> >> >> >> @@ "o" :> <<>>)

TemplateLists == {<<t>> : t \in Templates} \cup {<<t, u>> : t \in Templates, u \in Templates}
MCParameterJobs ==
  {[kind |-> "parameter", texts |-> [k \in DOMAIN ts |-> TextOf(ts[k])], parts |-> ts,
    items |-> i, index |-> n, runData |-> RunData] :
     ts \in TemplateLists, i \in {<<>>, <<"x", "y">>}, n \in 1 .. 2}
  \cup {[kind |-> "parameter", texts |-> <<t>>, parts |-> << <<>> >>,
          items |-> <<"x", "y">>, index |-> 2, runData |-> RunData] :
          t \in RawTexts}
  \cup {[kind |-> "parameter", texts |-> <<<<"a">>, TextOf(t)>>, parts |-> <<<<>>, t>>,
          items |-> <<"x", "y">>, index |-> 2, runData |-> RunData] :
          t \in Templates}

MCTexts == {TextOf(t) : t \in Templates} \cup RawTexts

CodeItem(json, junk) == [json |-> json, junk |-> junk]
Returns(kind, items, scalars) == [kind |-> kind, items |-> items, scalars |-> scalars]
MCCodeJobs ==
  {[kind |-> "code", items |-> i, executeOnce |-> o, mode |-> m, returns |-> r, continueOnFail |-> c] :
     i \in {<<>>, <<"x">>}, o \in BOOLEAN, c \in BOOLEAN, m \in {"runOnceForAllItems", "runOnceForEachItem"},
     r \in {Returns(k, <<>>, FALSE) : k \in {"nothing", "scalar", "throws", "loops", "array"}}
             \cup {Returns("map", <<CodeItem(FALSE, TRUE)>>, FALSE),
                   Returns("array", <<CodeItem(FALSE, TRUE), CodeItem(TRUE, FALSE)>>, FALSE),
                   Returns("array", <<>>, TRUE)}}

-----------------------------------------------------------------------------
BigQueryCall(op, inputs) ==
  [operation |-> op, inputs |-> inputs, ready |-> TRUE, batchSize |-> 0, dataMode |-> "define",
   continueOnFail |-> FALSE, raw |-> FALSE, schema |-> {"a"}]
MCBigQueryCalls ==
  {[BigQueryCall("insert", i) EXCEPT !.batchSize = b, !.dataMode = d, !.continueOnFail = c] :
     i \in [1 .. 3 -> {"ok", "invalid", "notJson"}], b \in {-1, 0, 1, 2}, d \in {"autoMap", "define"}, c \in BOOLEAN}
  \cup {[BigQueryCall("insert", <<"ok", "unreadable", "ok", "ok">>) EXCEPT !.batchSize = 2, !.continueOnFail = c] :
          c \in BOOLEAN}
  \cup {[BigQueryCall("executeQuery", i) EXCEPT !.continueOnFail = c, !.raw = r, !.schema = s] :
          i \in [1 .. 2 -> {"ok", "unreadable"}], c \in BOOLEAN, r \in BOOLEAN, s \in {{}, {"a"}}}
  \cup {BigQueryCall("executeQuery", <<>>), BigQueryCall("other", <<"ok">>),
        [BigQueryCall("insert", <<"ok">>) EXCEPT !.ready = FALSE]}

-----------------------------------------------------------------------------
Element(tag, text, attributes) ==
  [tag |-> tag, text |-> text, html |-> <<"<", tag, ">">>, attributes |-> attributes,
   choice |-> IF tag = "select" THEN <<"second">> ELSE <<>>]
Padded == <<" ", "a", " ", " ", "\n", "b", " ">>
Document == ("p" :> <<Element("p", Padded, "id" :> <<"one">>), Element("p", <<"b">>, <<>>)>>
               @@ "input" :> <<Element("input", <<>>, "value" :> <<"typed">>)>>
               @@ "select" :> <<Element("select", <<"first", "second">>, <<>>)>>
               @@ "textarea" :> <<Element("textarea", <<"t">>, <<>>)>>)
Value(key, selector, value, list) ==
  [key |-> key, cssSelector |-> selector, returnValue |-> value, attribute |-> "id", returnArray |-> list]
Source(type, documents) == [type |-> type, documents |-> documents]
MCHtmlCalls ==
  {[operation |-> "generateHtmlTemplate", html |-> h, continueOnFail |-> c] :
     h \in [1 .. 3 -> {"text", "otherType", "error"}], c \in BOOLEAN}
  \cup {[operation |-> "extractHtmlContent", source |-> <<s, Source("text", <<Document>>)>>, values |-> vs,
         options |-> [cleanUpText |-> cu], continueOnFail |-> c] :
          s \in {Source("text", <<Document>>), Source("strings", <<Document, <<>>>>), Source("list", <<Document>>),
                 Source("missing", <<>>), Source("binary", <<>>)},
          vs \in {<<Value("v", sel, v, l)>> : sel \in {"p", "input", "select", "textarea", "gone"},
                    v \in {"", "text", "html", "value", "attribute", "other"}, l \in BOOLEAN}
                   \cup {<<Value("v", "p", "text", FALSE), Value("v", "input", "value", FALSE)>>},
          cu \in BOOLEAN, c \in BOOLEAN}
  \cup {[operation |-> "convertToHtmlTable", html |-> <<"text">>]}
=============================================================================
