------------------------------ MODULE HtmlNode ------------------------------
(***************************************************************************)
(* The HTML node (nodes/html): it fills a template per item, or takes      *)
(* values out of documents by selectors.                                   *)
(*                                                                         *)
(* A text is a sequence of pieces, among them " " and "\n".  An element is *)
(* [text, html, attributes, tag, choice], a document a function from       *)
(* selectors to the elements they select.                                  *)
(***************************************************************************)
EXTENDS Integers, Sequences, SequencesExt

ExtractError == <<"error">>
Got(text) == <<"text", text>>

TextOf(elements) == FlattenSeq([k \in DOMAIN elements |-> elements[k].text])
Attribute(element, name) ==
  IF name \in DOMAIN element.attributes THEN element.attributes[name] ELSE <<>>
Has(elements, tag) == \E k \in DOMAIN elements : elements[k].tag = tag

FirstChoice(elements) ==
  LET chosen == SelectSeq(elements, LAMBDA e : e.choice # <<>>)
  IN  IF chosen = <<>> THEN <<>> ELSE Head(chosen).choice

(* extractFunctions, of all the elements a selector has found.  Attributes *)
(* and html are those of the first.  The value of a list to choose from is *)
(* that of the chosen option.                                              *)
ExtractFunctions(elements, v) ==
  CASE v.returnValue = "attribute" ->
         IF v.attribute \in DOMAIN elements[1].attributes
         THEN Got(elements[1].attributes[v.attribute]) ELSE ExtractError
    [] v.returnValue = "html" -> Got(elements[1].html)
    [] v.returnValue \in {"", "text"} -> Got(TextOf(elements))
    [] v.returnValue = "value" ->
         Got(IF Has(elements, "textarea") THEN TextOf(elements)
             ELSE IF Has(elements, "select") THEN FirstChoice(elements)
             ELSE Attribute(elements[1], "value"))
    [] OTHER -> ExtractError

Trim(text) ==
  LET solid == {k \in DOMAIN text : text[k] \notin {" ", "\n"}}
  IN  IF solid = {} THEN <<>>
      ELSE SubSeq(text, CHOOSE k \in solid : \A m \in solid : k <= m,
                        CHOOSE k \in solid : \A m \in solid : k >= m)

(* Line ends go, and of several spaces one stays.                          *)
CleanUp(text) ==
  FoldLeft(LAMBDA t, piece : IF piece = " " /\ t # <<>> /\ Last(t) = " " THEN t ELSE Append(t, piece),
           <<>>, SelectSeq(text, LAMBDA piece : piece # "\n"))

(* GetValue always trims, whatever the option says.                        *)
GetValue(elements, v, options) ==
  IF elements = <<>> THEN Got(<<>>)
  ELSE LET x == ExtractFunctions(elements, v)
       IN  IF x = ExtractError THEN x
           ELSE Got(IF options.cleanUpText THEN CleanUp(Trim(x[2])) ELSE Trim(x[2]))

(* One value of a document.  As a list a failed element gives its error    *)
(* and an empty text; alone it gives an empty text, when the node goes on. *)
ExtractedValue(elements, v, options) ==
  IF v.returnArray
  THEN <<"list", FlattenSeq([k \in DOMAIN elements |->
                    LET x == GetValue(<<elements[k]>>, v, options)
                    IN  IF x = ExtractError THEN <<x, Got(<<>>)>> ELSE <<x>>])>>
  ELSE LET x == GetValue(elements, v, options) IN IF x = ExtractError THEN Got(<<>>) ELSE x

Fails(elements, v, options) ==
  ~v.returnArray /\ GetValue(elements, v, options) = ExtractError

Select(document, selector) == IF selector \in DOMAIN document THEN document[selector] ELSE <<>>

(* The last of several values with one key is kept.                        *)
ExtractedItem(document, values, options) ==
  [key \in {values[k].key : k \in DOMAIN values} |->
     LET k == CHOOSE m \in DOMAIN values :
                values[m].key = key /\ \A l \in DOMAIN values : values[l].key = key => l <= m
     IN  ExtractedValue(Select(document, values[k].cssSelector), values[k], options)]

Success(items) == [status |-> "success", items |-> items]
NodeFailed == [status |-> "failed", items |-> <<>>]
NodePanics == [status |-> "panic", items |-> <<>>]

(* Mutant: an item that fails leaves nothing behind.                       *)
SkipFailed(k) == <<>>

ErrorItem(k) == << <<"error", k>> >>

(* generateHtmlTemplate.  `call.html[k]` is what the template of item k    *)
(* evaluates to: a string, a value of another type or an error.            *)
Generate(call) ==
  LET Fatal(k) == call.html[k] = "otherType" \/ (call.html[k] = "error" /\ ~call.continueOnFail)
      fatal == {k \in DOMAIN call.html : Fatal(k)}
      first == CHOOSE k \in fatal : \A m \in fatal : k <= m
  IN  IF fatal # {} THEN IF call.html[first] = "otherType" THEN NodePanics ELSE NodeFailed
      ELSE Success(FlattenSeq([k \in DOMAIN call.html |->
             IF call.html[k] = "error" THEN ErrorItem(k) ELSE << <<"html", k>> >>]))

(* extractHtmlContent.  The source of an item is one text, or a list of    *)
(* texts that a node of the same execution made; a list that comes from    *)
(* the saved data or a response has another type and fails, as what is     *)
(* missing does.  Binary sources give nothing.                             *)
Extract(call) ==
  LET Documents(k) == IF call.source[k].type = "binary" THEN <<>> ELSE call.source[k].documents
      Breaks(k) ==
        \/ call.source[k].type \in {"missing", "list"}
        \/ ~call.continueOnFail
             /\ \E d \in DOMAIN Documents(k), v \in DOMAIN call.values :
                  Fails(Select(Documents(k)[d], call.values[v].cssSelector), call.values[v], call.options)
  IN  IF \E k \in DOMAIN call.source : Breaks(k) THEN NodeFailed
      ELSE Success(FlattenSeq([k \in DOMAIN call.source |->
             [d \in DOMAIN Documents(k) |->
                <<"extracted", k, ExtractedItem(Documents(k)[d], call.values, call.options)>>]]))

(* Converting to a table is not written yet and gives no items.            *)
HtmlExecute(call) ==
  CASE call.operation = "generateHtmlTemplate" -> Generate(call)
    [] call.operation = "extractHtmlContent" -> Extract(call)
    [] OTHER -> Success(<<>>)
=============================================================================
