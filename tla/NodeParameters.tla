--------------------------- MODULE NodeParameters ---------------------------
(***************************************************************************)
(* How a node looks up a parameter (core/execute_function.go): first the   *)
(* properties of its specification are filtered by what they are displayed *)
(* on, pass after pass until one confirms nothing, then the value is taken *)
(* from the workflow, from the property or from the caller.                *)
(*                                                                         *)
(* A specification is a sequence of properties [name, default, show, hide, *)
(* options], the stored parameters, and the version of the node.  A rule   *)
(* names a property and a path in its value, or "@version", and values.    *)
(* The options of a property are a tree: names and what is below each.     *)
(***************************************************************************)
EXTENDS Values

CONSTANTS Specs,     \* [properties, parameters, version]
          Lookups    \* [name, path, fallback]

(* A specification is a list of properties, each with finitely many rules. *)
ASSUME SpecsAssumption ==
  \A s \in Specs :
    /\ s.properties \in Seq(ToSet(s.properties))
    /\ \A p \in ToSet(s.properties) : IsFiniteSet(p.show) /\ IsFiniteSet(p.hide)

VARIABLES spec,      \* the one looked up in, and what for
          confirm,   \* propsToConfirm that this pass has not looked at, as positions
          remain,    \* those it has looked at and not confirmed
          confirmed, \* the flag of the pass
          selected,  \* selectedProps: the position kept under a name
          value      \* what the lookup has found: pending, then <<"value", v>>

paramVars == <<spec, confirm, remain, confirmed, selected, value>>

Start == <<"pending">>
Property(k) == spec.properties[k]
Positions == [k \in DOMAIN spec.properties |-> k]

ParamIdle ==
  /\ spec = [properties |-> <<>>] /\ confirm = <<>> /\ remain = <<>> /\ confirmed = FALSE
  /\ selected = <<>> /\ value = <<"idle">>
ParamInit ==
  /\ \E s \in Specs, l \in Lookups :
       spec = [properties |-> s.properties, parameters |-> s.parameters, version |-> s.version, lookup |-> l]
  /\ confirm = Positions
  /\ remain = <<>> /\ confirmed = FALSE /\ selected = <<>> /\ value = Start

-----------------------------------------------------------------------------
(* getNodeValueByPath: nothing is below a scalar.                          *)
AtPath(v, path) ==
  FoldLeft(LAMBDA c, name : IF IsMap(c) THEN Field(c, <<name>>) ELSE Nil, v, path)

(* getDefaultOrParameterValue.                                             *)
ValueOf(p, path) ==
  CASE p.name \in DOMAIN spec.parameters -> AtPath(spec.parameters[p.name], path)
    [] p.name \notin DOMAIN spec.parameters /\ p.default # Scalar("") -> AtPath(p.default, path)
    [] OTHER -> Nil

(* What a rule says, given the properties that are shown.                  *)
RuleSays(rule, shown) ==
  CASE rule.name = "@version" -> IF spec.version \in rule.values THEN "in" ELSE "out"
    [] rule.name # "@version" /\ rule.name \notin DOMAIN shown -> "unknown"
    [] OTHER -> LET v == ValueOf(Property(shown[rule.name]), rule.path)
                IN  IF v = Nil THEN "nil" ELSE IF v \in rule.values THEN "in" ELSE "out"

(* The rules are a map: any order.  A rule on the version ends the check   *)
(* of the others, whatever it says.                                        *)
ShowVerdicts(p, shown) ==
  LET fails == \E r \in p.show : r.name # "@version" /\ RuleSays(r, shown) # "in"
      version == {RuleSays(r, shown) = "in" : r \in {q \in p.show : q.name = "@version"}}
  IN  IF version = {} THEN {~fails} ELSE version \cup (IF fails THEN {FALSE} ELSE {})

(* A property to be hidden by one that is not shown stays hidden.          *)
HideVerdicts(p, shown) ==
  LET Ends(r) == r.name = "@version" \/ RuleSays(r, shown) # "in"
      Says(r) == IF r.name = "@version" THEN RuleSays(r, shown) = "out" ELSE RuleSays(r, shown) # "unknown"
      ends == {r \in p.hide : Ends(r)}
  IN  IF p.hide = {} THEN {TRUE} ELSE IF ends = {} THEN {FALSE} ELSE {Says(r) : r \in ends}

(* checkDisplayOptions.                                                    *)
Verdicts(k, shown) ==
  {s /\ h : s \in ShowVerdicts(Property(k), shown), h \in HideVerdicts(Property(k), shown)}

-----------------------------------------------------------------------------
(* FilterPropertiesByDisplayOption.  Of two properties with one name the   *)
(* one confirmed last is kept.                                             *)

Select(k) == [n \in DOMAIN selected \cup {Property(k).name} |->
                IF n = Property(k).name THEN k ELSE selected[n]]

CheckProperty ==
  /\ value = Start
  /\ confirm # <<>>
  /\ confirm' = Tail(confirm)
  /\ \E shows \in Verdicts(Head(confirm), selected) :
       IF shows
       THEN selected' = Select(Head(confirm)) /\ confirmed' = TRUE /\ remain' = remain
       ELSE remain' = Append(remain, Head(confirm)) /\ UNCHANGED <<selected, confirmed>>
  /\ UNCHANGED <<spec, value>>

(* Mutant: one pass is enough.                                             *)
OnePass == TRUE

PassesDone == ~confirmed

NextPass ==
  /\ value = Start
  /\ confirm = <<>>
  /\ ~PassesDone
  /\ confirm' = remain
  /\ remain' = <<>> /\ confirmed' = FALSE
  /\ UNCHANGED <<spec, selected, value>>

(* findPropertyFromParameterName: the property of the first name, also for *)
(* a path below it unless it has options.  Those are looked into; what is  *)
(* found there is not of the type that is handed back, and when nothing is *)
(* found the next name is looked for among the properties again.           *)
Search(found, name) ==
  CASE found.at = "start" -> IF name \in DOMAIN selected
                             THEN [at |-> "property", below |-> Property(selected[name]).options,
                                   property |-> {Property(selected[name])}]
                             ELSE [at |-> "nowhere", property |-> {}]
    [] found.at \in {"property", "option"} /\ found.below # <<>> ->
         IF name \in DOMAIN found.below
         THEN [at |-> "option", below |-> found.below[name], property |-> {}]
         ELSE [at |-> "start", property |-> {}]
    [] OTHER -> found
PropertySpec ==
  FoldLeft(Search, [at |-> "start", property |-> {}], <<spec.lookup.name>> \o spec.lookup.path).property

(* GetNodeParameter: a stored value counts whether its property is shown   *)
(* or not.                                                                 *)
Stored ==
  LET l == spec.lookup
  IN  IF l.name \in DOMAIN spec.parameters THEN AtPath(spec.parameters[l.name], l.path) ELSE Nil
Default == IF PropertySpec = {} THEN Nil
           ELSE AtPath((CHOOSE p \in PropertySpec : TRUE).default, spec.lookup.path)

GetNodeParameter ==
  /\ value = Start
  /\ confirm = <<>>
  /\ PassesDone
  /\ value' = <<"value", CASE Stored # Nil -> Stored
                           [] Stored = Nil /\ Default # Nil -> Default
                           [] OTHER -> spec.lookup.fallback>>
  /\ UNCHANGED <<spec, confirm, remain, confirmed, selected>>

ParamNext == CheckProperty \/ NextPass \/ GetNodeParameter

ParamSpec == ParamInit /\ [][ParamNext]_paramVars
-----------------------------------------------------------------------------
(* The properties whose rules hold where exactly those of T are shown.     *)
ShownOf(T) == [name \in {Property(k).name : k \in T} |->
                 CHOOSE k \in DOMAIN spec.properties : Property(k).name = name]
Follow(T) == {k \in DOMAIN spec.properties : TRUE \in Verdicts(k, ShownOf(T))}

(* The properties that follow from the rules, without an order: nothing    *)
(* but what is shown can show a property.                                  *)
More[n \in 0 .. Len(spec.properties)] == IF n = 0 THEN {} ELSE Follow(More[n - 1])
Consequences == More[Len(spec.properties)]

(* Where names are unique, and no property has rules whose order matters.  *)
Orderless ==
  /\ \A k, m \in DOMAIN spec.properties : Property(k).name = Property(m).name => k = m
  /\ \A k \in DOMAIN spec.properties :
       LET p == Property(k)
       IN  /\ Cardinality(p.hide) <= 1
           /\ (\E r \in p.show : r.name = "@version") => Cardinality(p.show) = 1

(* The specifications of the nodes list properties in any order, and a     *)
(* property may depend on one that comes later: the passes show exactly    *)
(* what follows from the rules.                                            *)
ShownFollowsFromRules ==
  value[1] = "value" /\ Orderless =>
    {selected[n] : n \in DOMAIN selected} = Consequences
=============================================================================
