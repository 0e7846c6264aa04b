----------------------------- MODULE HttpMessage ----------------------------
(***************************************************************************)
(* What the HTTP Request node sends and what it makes of a response        *)
(* (nodes/http_request/node.go), for one item.                             *)
(***************************************************************************)
EXTENDS Integers, Sequences, SequencesExt, FiniteSets

Nothing == <<>>
Unsent == [status |-> "failed"]

BodyMethods == {"PATCH", "POST", "PUT", "GET"}
HasBody(p) == p.sendBody /\ p.method \in BodyMethods

(* A parameter is [name, value, binary]; one with binary data names a      *)
(* field of the item, whose data may be missing or without a file name.    *)
(* Of parameters with one name the last stays.                             *)
LastOf(parameters, Test(_)) ==
  LET used == SelectSeq(parameters, Test)
  IN  [n \in {used[k].name : k \in DOMAIN used} |->
         LET ks == {k \in DOMAIN used : used[k].name = n}
         IN  used[CHOOSE k \in ks : \A m \in ks : m <= k].value]

NormalParametersToMap(parameters) == LastOf(parameters, LAMBDA q : ~q.binary)
ParametersToMap(parameters, binaries) ==
  LastOf(parameters, LAMBDA q : ~q.binary \/ q.value \in DOMAIN binaries)

(* The body and the content type that goes with it, or a failure.          *)
Body(p) ==
  CASE ~HasBody(p) -> [status |-> "none"]
    [] HasBody(p) /\ p.contentType = "form-urlencoded" ->
         [status |-> "ok", type |-> "application/x-www-form-urlencoded",
          content |-> IF p.specifyBody = "string" THEN <<"text", p.body>>
                      ELSE <<"form", NormalParametersToMap(p.bodyParameters)>>]
    [] HasBody(p) /\ p.contentType = "multipart-form-data" ->
         [status |-> "ok", type |-> "multipart/form-data",
          content |-> <<"parts", ParametersToMap(p.bodyParameters, p.binaries)>>]
    [] HasBody(p) /\ p.contentType = "json" ->
         [status |-> "ok", type |-> "application/json",
          content |-> IF p.specifyBody = "json" THEN <<"text", p.body>>
                      ELSE <<"json", ParametersToMap(p.bodyParameters, p.binaries)>>]
    [] HasBody(p) /\ p.contentType = "binaryData" ->
         IF p.inputDataFieldName \notin DOMAIN p.binaries THEN Unsent
         ELSE [status |-> "ok",
               type |-> LET m == p.binaries[p.inputDataFieldName].mimeType
                        IN  IF m = "" THEN "application/octet-stream" ELSE m,
               content |-> <<"bytes", p.inputDataFieldName>>]
    [] HasBody(p) /\ p.contentType = "raw" ->
         [status |-> "ok", type |-> p.rawContentType, content |-> <<"text", p.body>>]

(* The query, given as JSON, is only read when there are parameters as     *)
(* pairs too.                                                              *)
Query(p) ==
  CASE ~p.sendQuery \/ p.queryParameters = <<>> -> [status |-> "ok", qs |-> <<>>]
    [] p.sendQuery /\ p.queryParameters # <<>> /\ p.specifyQuery = "json" ->
         IF ~p.jsonQuery.valid THEN Unsent ELSE [status |-> "ok", qs |-> p.jsonQuery.map]
    [] OTHER -> [status |-> "ok", qs |-> NormalParametersToMap(p.queryParameters)]

(* Headers of the user, as pairs or as JSON, which again is only read when *)
(* there are pairs.  The names of the map are lowered one by one, in any   *)
(* order: of two spellings either may stay.                                *)
Given(p) ==
  CASE ~p.sendHeaders \/ p.headerParameters = <<>> -> <<>>
    [] p.sendHeaders /\ p.headerParameters # <<>> /\ p.specifyHeaders = "json" -> p.jsonHeaders.map
    [] OTHER -> NormalParametersToMap(p.headerParameters)
HeadersFail(p) ==
  p.sendHeaders /\ p.headerParameters # <<>> /\ p.specifyHeaders = "json" /\ ~p.jsonHeaders.valid
UserHeaders(p) ==
  LET given == Given(p)
      lowered == {p.lower[n] : n \in DOMAIN given}
      choices == {c \in [lowered -> DOMAIN given] : \A l \in lowered : p.lower[c[l]] = l}
  IN  {[l \in lowered |-> given[c[l]]] : c \in choices}

Put(headers, name, value) ==
  [h \in DOMAIN headers \cup {name} |-> IF h = name THEN value ELSE headers[h]]
Over(headers, others) ==
  [h \in DOMAIN headers \cup DOMAIN others |-> IF h \in DOMAIN others THEN others[h] ELSE headers[h]]

Accept(p) == CASE p.responseFormat = "json" -> "json" [] p.responseFormat = "text" -> "text" [] OTHER -> "any"
WithAccept(p, headers) ==
  IF "accept" \in DOMAIN headers THEN headers ELSE Put(headers, "accept", Accept(p))

(* Mutant: the type of the header the user gave is kept for parts, too.    *)
UserTypeKept(p, headers) == headers

PartsType == "multipart/form-data; boundary"

(* buildRequest writes the content type of parts anew, with the boundary.  *)
WithBoundary(p, headers) ==
  IF HasBody(p) /\ p.contentType = "multipart-form-data"
  THEN Put(headers, "content-type", PartsType) ELSE headers

(* convertFormDataToBuffer refuses a file without a name, if no later      *)
(* parameter has taken its place.                                          *)
NamelessFile(p) ==
  LET used == SelectSeq(p.bodyParameters, LAMBDA q : ~q.binary \/ q.value \in DOMAIN p.binaries)
  IN  /\ HasBody(p) /\ p.contentType = "multipart-form-data"
      /\ \E k \in DOMAIN used :
           /\ used[k].binary /\ p.binaries[used[k].value].fileName = ""
           /\ \A m \in DOMAIN used : m > k => used[m].name # used[k].name

(* The requests an item may be sent as, or that it fails.                  *)
RequestsOf(p) ==
  LET body == Body(p)
      query == Query(p)
      own == IF body.status = "ok" THEN Put(Nothing, "content-type", body.type) ELSE Nothing
  IN  IF p.url = "" THEN {[status |-> "panic"]}
      ELSE IF p.url = "forbidden" \/ "failed" \in {body.status, query.status} \/ HeadersFail(p)
      THEN {Unsent}
      ELSE IF NamelessFile(p) THEN {[status |-> "unbuildable"]}
      ELSE {[status |-> "sent", method |-> p.method, qs |-> query.qs,
               content |-> IF body.status = "ok" THEN body.content ELSE Nothing,
              headers |-> WithBoundary(p, WithAccept(p, Over(own, u)))] : u \in UserHeaders(p)}

-----------------------------------------------------------------------------
(* handleResponse.  A response is nil, unreadable, or has a content type   *)
(* and a body: JSON, which may be an array, or not.                        *)

ErrorOf(index, text) == [item |-> index, json |-> <<"error", text>>, binary |-> FALSE]
Format(response, format) ==
  CASE format # "autodetect" -> format
    [] format = "autodetect" /\ response.type = "json" -> "json"
    [] format = "autodetect" /\ response.type = "binary" -> "file"
    [] OTHER -> "text"

JsonItems(body, index) ==
  IF body[1] = "array"
  THEN [k \in DOMAIN body[2] |-> [item |-> index, json |-> <<"body", body[2][k]>>, binary |-> FALSE]]
  ELSE <<[item |-> index, json |-> <<"body", body[2]>>, binary |-> FALSE]>>

HandleResponse(index, response, format, full) ==
  CASE response.status = "nil" -> <<ErrorOf(index, "request error or timeout")>>
    [] response.status = "unreadable" -> <<ErrorOf(index, "read response body error")>>
    [] response.status = "read" ->
         LET as == Format(response, format)
             status == IF full THEN "status" ELSE "plain"
         IN  CASE as = "file" -> <<[item |-> index, json |-> <<status>>, binary |-> TRUE]>>
               [] as = "text" -> <<[item |-> index, json |-> <<status, "text">>, binary |-> FALSE]>>
               [] as = "json" /\ response.body[1] = "text" ->
                    <<ErrorOf(index, "parse response json error")>>
               [] as = "json" /\ response.body[1] # "text" /\ full ->
                    <<[item |-> index, json |-> <<status, response.body[2]>>, binary |-> FALSE]>>
               [] OTHER -> JsonItems(response.body, index)
=============================================================================
