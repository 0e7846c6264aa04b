----------------------------- MODULE Expressions ----------------------------
(***************************************************************************)
(* The texts of parameters (core/expression_evaluator.go).  A text that    *)
(* starts with "=" is an expression: code stands between {{ and }}, the    *)
(* rest is text.  A backslash in front of a bracket escapes it.            *)
(*                                                                         *)
(* A text is a sequence of pieces.  The brackets, escaped or not, are      *)
(* pieces of their own.                                                    *)
(***************************************************************************)
EXTENDS Values

CONSTANT Texts  \* the texts of the parameters

OpenBracket == "{{"
CloseBracket == "}}"
EscapedOpen == "\\{{"
EscapedClose == "\\}}"
TwiceEscapedClose == "\\\\}}"

Chunk(type, text) == [type |-> type, text |-> text]

IsFixed(text) == text = <<>> \/ Head(text) # "="
HasCode(body) == \E k \in DOMAIN body : body[k] \in {OpenBracket, EscapedOpen}

(* Mutant: brackets of both kinds are looked for everywhere.               *)
AnyBracket(type, piece) == piece \in {OpenBracket, CloseBracket}

(* Text ends where code is opened, code where it is closed.                *)
Ends(type, piece) == piece = IF type = "text" THEN OpenBracket ELSE CloseBracket

Escapes(type) == IF type = "text" THEN {EscapedOpen} ELSE {EscapedClose, TwiceEscapedClose}

(* escapeCode takes the backslashes from brackets that have two of them,   *)
(* and leaves the one of those that have one.                              *)
EscapeCode(text) == [k \in DOMAIN text |-> IF text[k] = TwiceEscapedClose THEN CloseBracket ELSE text[k]]

(* removeEmptyTextChunk: an empty text makes no chunk.                     *)
Closed(s) ==
  IF s.type = "text" /\ s.buffer = <<>> THEN s.chunks
  ELSE Append(s.chunks, Chunk(s.type, IF s.type = "code" THEN EscapeCode(s.buffer) ELSE s.buffer))

ScanStart == [chunks |-> <<>>, buffer |-> <<>>, type |-> "text"]
Scan(s, piece) ==
  IF Ends(s.type, piece)
  THEN [chunks |-> Closed(s), buffer |-> <<>>, type |-> IF s.type = "text" THEN "code" ELSE "text"]
  ELSE [s EXCEPT !.buffer = Append(@, piece)]
Scanned(s, pieces) ==
  LET after[k \in 0 .. Len(pieces)] == IF k = 0 THEN s ELSE Scan(after[k - 1], pieces[k])
  IN  after[Len(pieces)]

(* splitExpression.  What is left in the buffer is a chunk too, but for    *)
(* what ends with an escaped bracket: that is lost.                        *)
SplitExpression(body) ==
  LET end == Scanned(ScanStart, body)
  IN  IF end.buffer = <<>> \/ Last(end.buffer) \in Escapes(end.type) THEN end.chunks ELSE Closed(end)

ChunksOf == [text \in {t \in Texts : ~IsFixed(t)} |-> SplitExpression(Tail(text))]
Chunks(text) == ChunksOf[text]

(* What is evaluated of a text: nothing, when it is fixed or has no code.  *)
CodeOf(text) ==
  IF IsFixed(text) \/ ~HasCode(Tail(text)) THEN <<>>
  ELSE LET codes == Chosen(Chunks(text), {k \in DOMAIN Chunks(text) : Chunks(text)[k].type = "code"})
       IN  [k \in DOMAIN codes |-> codes[k].text]

(* Code that stands alone keeps the type of its value, and its error.      *)
Alone(text) == ~IsFixed(text) /\ HasCode(Tail(text)) /\ Len(Chunks(text)) = 1 /\ Chunks(text)[1].type = "code"

Verbatim(pieces) == [k \in DOMAIN pieces |-> <<"text", pieces[k]>>]

(* convertAnyValueToString; an error is shown as the text of the error,    *)
(* and the evaluation goes on.                                             *)
Shown(outcome) ==
  CASE outcome[1] = "error" -> << <<"text", "Error parsing code">> >>
    [] outcome[1] = "nil" -> <<>>
    [] outcome[1] = "value" -> <<outcome>>

CodesUpTo(chunks, k) == Cardinality({m \in 1 .. k : chunks[m].type = "code"})

(* EvaluateExpression, `outcomes` being those of its code in order.        *)
EvaluateExpression(text, outcomes) ==
  IF IsFixed(text) THEN <<"string", Verbatim(text)>>
  ELSE IF ~HasCode(Tail(text)) THEN <<"string", Verbatim(Tail(text))>>
  ELSE IF Alone(text) THEN outcomes[1]
  ELSE LET chunks == Chunks(text)
       IN  <<"string", FlattenSeq([k \in DOMAIN chunks |->
                         IF chunks[k].type = "text" THEN Verbatim(chunks[k].text)
                         ELSE Shown(outcomes[CodesUpTo(chunks, k)])])>>
=============================================================================
