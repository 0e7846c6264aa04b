---------------------------- MODULE Nodes_proofs ----------------------------
(***************************************************************************)
(* Proofs about the nodes that compute their result from their parameters  *)
(* and items alone: what shows of the properties of a node, and If, Filter,*)
(* Switch, HTML, Schedule Trigger, the requests of HTTP Request, Merge and *)
(* Aggregate, for any list of items, rules, conditions or properties.      *)
(*                                                                         *)
(* The loops of the nodes are folds.  What a loop has made after k turns   *)
(* is a sequence of states, and a fact about it is shown by induction over *)
(* the turns (Induct of Services_proofs).                                  *)
(***************************************************************************)
EXTENDS DataCalls, NodeParameters, Services_proofs

(* A step can be iterated: the sequence of what it makes exists.           *)
IsIteration(g, A, b, F, top) ==
  g \in [0 .. top -> A] /\ g[0] = b /\ \A n \in 1 .. top : g[n] = F[g[n - 1]]
CanIterate(A, b, F, top) == \E g : IsIteration(g, A, b, F, top)

LEMMA Iteration ==
  ASSUME NEW A, NEW b \in A, NEW F \in [A -> A], NEW top \in Nat
  PROVE  CanIterate(A, b, F, top)
<1> DEFINE Good(n, g) == IsIteration(g, A, b, F, n)
<1> DEFINE S == {n \in Nat : \E g : Good(n, g)}
<1>1. 0 \in S
  <2>1. Good(0, [n \in 0 .. 0 |-> b])
    BY DEF IsIteration
  <2>2. QED
    BY <2>1
<1>2. ASSUME NEW n \in Nat, n \in S PROVE n + 1 \in S
  <2>1. PICK g : Good(n, g)
    BY <1>2
  <2> DEFINE h == [m \in 0 .. n + 1 |-> IF m = n + 1 THEN F[g[n]] ELSE g[m]]
  <2>2. h \in [0 .. n + 1 -> A] /\ h[0] = b
    BY <2>1 DEF IsIteration
  <2>3. ASSUME NEW m \in 1 .. n + 1 PROVE h[m] = F[h[m - 1]]
    BY <2>1 DEF IsIteration
  <2>4. Good(n + 1, h)
    BY <2>2, <2>3 DEF IsIteration
  <2> HIDE DEF h, Good
  <2>5. QED
    BY <2>4
<1> HIDE DEF S
<1>3. top \in S
  BY <1>1, <1>2, Induct
<1>4. QED
  BY <1>3 DEF S, CanIterate

LEMMA AtMostOne ==
  ASSUME NEW S, IsFiniteSet(S), Cardinality(S) <= 1
  PROVE  \A x, y \in S : x = y
<1>1. Cardinality(S) \in Nat
  BY FS_CardinalityType
<1>2. CASE Cardinality(S) = 0
  BY <1>2, FS_EmptySet
<1>3. CASE Cardinality(S) = 1
  BY <1>3, FS_Singleton
<1>4. QED
  BY <1>1, <1>2, <1>3

-----------------------------------------------------------------------------
(* The specification looked up in.                                         *)

Props == DOMAIN spec.properties

ListOK ==
  /\ Len(spec.properties) \in Nat
  /\ Props = 1 .. Len(spec.properties)
  /\ \A k \in Props : IsFiniteSet(Property(k).show) /\ IsFiniteSet(Property(k).hide)

LEMMA RoundsOfMore ==
  ASSUME ListOK
  PROVE  /\ More[0] = {}
         /\ \A n \in 0 .. Len(spec.properties) : More[n] \in SUBSET Props
         /\ \A n \in 1 .. Len(spec.properties) : More[n] = Follow(More[n - 1])
<1> DEFINE K == Len(spec.properties)
           F == [T \in SUBSET Props |-> Follow(T)]
           Step(g) == [n \in 0 .. K |-> IF n = 0 THEN {} ELSE Follow(g[n - 1])]
<1>1. \A T : Follow(T) \in SUBSET Props
  BY DEF Follow, Props
<1>2. F \in [SUBSET Props -> SUBSET Props] /\ K \in Nat /\ {} \in SUBSET Props
  BY <1>1 DEF ListOK
<1>3. PICK g \in [0 .. K -> SUBSET Props] :
        g[0] = {} /\ \A n \in 1 .. K : g[n] = F[g[n - 1]]
  <2> DEFINE A == SUBSET Props
  <2>1. F \in [A -> A] /\ K \in Nat /\ {} \in A
    BY <1>2
  <2> HIDE DEF A, F, K
  <2>2. CanIterate(A, {}, F, K)
    BY <2>1, Iteration
  <2>3. QED
    BY <2>2 DEF A, CanIterate, IsIteration
<1> HIDE DEF K
<1>4. g = Step(g)
  <2>0. \A T \in SUBSET Props : F[T] = Follow(T)
    OBVIOUS
  <2> HIDE DEF F
  <2>1. \A n \in 1 .. K : n - 1 \in 0 .. K /\ g[n] = Follow(g[n - 1])
    <3> TAKE n \in 1 .. K
    <3>1. n - 1 \in 0 .. K
      BY <1>2
    <3>2. g[n - 1] \in SUBSET Props
      BY <3>1, <1>3
    <3>3. QED
      BY <3>1, <3>2, <1>3, <2>0
  <2>2. \A n \in 0 .. K : g[n] = Step(g)[n]
    BY <1>2, <1>3, <2>1
  <2>3. g = [n \in 0 .. K |-> g[n]]
    BY <1>3
  <2>4. QED
    BY <2>2, <2>3
<1>5. More = CHOOSE f : f = Step(f)
  BY DEF More, K
<1> HIDE DEF Step
<1>6. More = Step(More)
  BY <1>4, <1>5
<1>7. \A n \in 0 .. K : More[n] = IF n = 0 THEN {} ELSE Follow(More[n - 1])
  BY <1>6 DEF Step
<1>8. QED
  BY <1>1, <1>2, <1>7 DEF K

(* Where names are unique a name stands for the property that has it.      *)
LEMMA Named ==
  ASSUME Orderless, NEW T \in SUBSET Props
  PROVE  /\ DOMAIN ShownOf(T) = {Property(k).name : k \in T}
         /\ \A k \in T : ShownOf(T)[Property(k).name] = k
<1>1. DOMAIN ShownOf(T) = {Property(k).name : k \in T}
  BY DEF ShownOf
<1>2. ASSUME NEW k \in T PROVE ShownOf(T)[Property(k).name] = k
  <2> DEFINE n == Property(k).name
             Its(m) == m \in Props /\ Property(m).name = n
  <2>1. Its(k) /\ \A m : Its(m) => m = k
    BY <1>2 DEF Orderless, Props
  <2>2. ShownOf(T)[n] = CHOOSE m \in DOMAIN spec.properties : Property(m).name = n
    BY <1>2 DEF ShownOf
  <2>3. QED
    BY <2>1, <2>2 DEF Props
<1>3. QED
  BY <1>1, <1>2

(* What a rule says of a property that is shown stays when more are shown. *)
LEMMA SaysOn ==
  ASSUME Orderless, NEW U \in SUBSET Props, NEW T \in SUBSET U, NEW r,
         RuleSays(r, ShownOf(T)) # "unknown"
  PROVE  RuleSays(r, ShownOf(U)) = RuleSays(r, ShownOf(T))
<1>1. CASE r.name = "@version"
  BY <1>1 DEF RuleSays
<1>2. CASE r.name # "@version"
  <2>0. T \in SUBSET Props
    OBVIOUS
  <2>1. r.name \in DOMAIN ShownOf(T)
    BY <1>2 DEF RuleSays
  <2>2. DOMAIN ShownOf(T) = {Property(k).name : k \in T} /\ \A k \in T : ShownOf(T)[Property(k).name] = k
    BY <2>0, Named, Zenon
  <2>3. DOMAIN ShownOf(U) = {Property(k).name : k \in U} /\ \A k \in U : ShownOf(U)[Property(k).name] = k
    BY Named, Zenon
  <2>4. PICK k \in T : Property(k).name = r.name
    BY <2>1, <2>2
  <2>5. k \in U /\ r.name \in DOMAIN ShownOf(U) /\ ShownOf(U)[r.name] = k /\ ShownOf(T)[r.name] = k
    BY <2>2, <2>3, <2>4
  <2>6. QED
    BY <1>2, <2>1, <2>5 DEF RuleSays
<1>3. QED
  BY <1>1, <1>2

(* Without rules whose order matters a check has one verdict.              *)
OneVerdict(S) == \E v \in BOOLEAN : S = {v}

LEMMA ShowVersion ==
  ASSUME ListOK, Orderless, NEW k \in Props, NEW r \in Property(k).show, r.name = "@version"
  PROVE  Property(k).show = {r}
<1>1. IsFiniteSet(Property(k).show) /\ Cardinality(Property(k).show) = 1
  BY DEF ListOK, Orderless, Props
<1>2. QED
  BY <1>1, FS_Singleton

LEMMA ShowOne ==
  ASSUME ListOK, Orderless, NEW k \in Props, NEW shown
  PROVE  OneVerdict(ShowVerdicts(Property(k), shown))
<1> DEFINE p == Property(k)
           fails == \E r \in p.show : r.name # "@version" /\ RuleSays(r, shown) # "in"
           version == {RuleSays(r, shown) = "in" : r \in {q \in p.show : q.name = "@version"}}
<1>1. ShowVerdicts(p, shown) = IF version = {} THEN {~fails} ELSE version \cup (IF fails THEN {FALSE} ELSE {})
  BY DEF ShowVerdicts
<1>2. CASE version = {}
  BY <1>1, <1>2 DEF OneVerdict
<1>3. CASE version # {}
  <2>1. PICK r \in p.show : r.name = "@version"
    BY <1>3
  <2>2. p.show = {r}
    BY <2>1, ShowVersion
  <2>3. ~fails /\ version = {RuleSays(r, shown) = "in"}
    BY <2>1, <2>2
  <2>4. QED
    BY <1>1, <1>3, <2>3 DEF OneVerdict
<1>4. QED
  BY <1>2, <1>3

LEMMA HideOne ==
  ASSUME ListOK, Orderless, NEW k \in Props, NEW shown
  PROVE  OneVerdict(HideVerdicts(Property(k), shown))
<1> DEFINE p == Property(k)
           Decisive(r) == r.name = "@version" \/ RuleSays(r, shown) # "in"
           Says(r) == IF r.name = "@version" THEN RuleSays(r, shown) = "out" ELSE RuleSays(r, shown) # "unknown"
           ends == {r \in p.hide : Decisive(r)}
<1>1. HideVerdicts(p, shown) =
        IF p.hide = {} THEN {TRUE} ELSE IF ends = {} THEN {FALSE} ELSE {Says(r) : r \in ends}
  BY DEF HideVerdicts
<1>2. \A x, y \in p.hide : x = y
  BY AtMostOne DEF ListOK, Orderless, Props
<1>3. CASE ends = {}
  BY <1>1, <1>3 DEF OneVerdict
<1>4. CASE ends # {}
  <2>1. PICK r \in ends : TRUE
    BY <1>4
  <2>2. ends = {r} /\ p.hide # {}
    BY <1>2, <2>1
  <2>3. Says(r) \in BOOLEAN
    OBVIOUS
  <2> HIDE DEF Says
  <2>4. HideVerdicts(p, shown) = {Says(r)}
    BY <1>1, <2>2
  <2>5. QED
    BY <2>3, <2>4 DEF OneVerdict
<1>5. QED
  BY <1>3, <1>4

LEMMA OneVerdictOnly ==
  ASSUME ListOK, Orderless, NEW k \in Props, NEW shown
  PROVE  OneVerdict(Verdicts(k, shown))
<1>1. PICK s \in BOOLEAN : ShowVerdicts(Property(k), shown) = {s}
  BY ShowOne DEF OneVerdict
<1>2. PICK h \in BOOLEAN : HideVerdicts(Property(k), shown) = {h}
  BY HideOne DEF OneVerdict
<1>3. Verdicts(k, shown) = {s /\ h}
  BY <1>1, <1>2 DEF Verdicts
<1>4. QED
  BY <1>3 DEF OneVerdict

(* The more is shown the more follows.                                     *)
LEMMA ShowOn ==
  ASSUME ListOK, Orderless, NEW U \in SUBSET Props, NEW T \in SUBSET U, NEW k \in Props,
         TRUE \in ShowVerdicts(Property(k), ShownOf(T))
  PROVE  TRUE \in ShowVerdicts(Property(k), ShownOf(U))
<1> DEFINE p == Property(k)
           Fails(shown) == \E r \in p.show : r.name # "@version" /\ RuleSays(r, shown) # "in"
           Version(shown) == {RuleSays(r, shown) = "in" : r \in {q \in p.show : q.name = "@version"}}
<1>1. \A shown : ShowVerdicts(p, shown) =
        IF Version(shown) = {} THEN {~Fails(shown)}
        ELSE Version(shown) \cup (IF Fails(shown) THEN {FALSE} ELSE {})
  BY DEF ShowVerdicts
<1>2. Version(ShownOf(T)) = Version(ShownOf(U))
  BY DEF RuleSays
<1>3. CASE Version(ShownOf(T)) = {}
  <2>1. ~Fails(ShownOf(T))
    BY <1>1, <1>3
  <2>2. ASSUME NEW r \in p.show, r.name # "@version" PROVE RuleSays(r, ShownOf(U)) = "in"
    <3>1. RuleSays(r, ShownOf(T)) = "in"
      BY <2>1, <2>2
    <3>2. QED
      BY <3>1, SaysOn
  <2>3. ~Fails(ShownOf(U))
    BY <2>2
  <2>4. QED
    BY <1>1, <1>2, <1>3, <2>3
<1>4. CASE Version(ShownOf(T)) # {}
  <2>1. PICK r \in p.show : r.name = "@version"
    BY <1>4
  <2>2. p.show = {r}
    BY <2>1, ShowVersion
  <2>3. ~Fails(ShownOf(T)) /\ ~Fails(ShownOf(U))
    BY <2>1, <2>2
  <2>4. QED
    BY <1>1, <1>2, <2>3
<1>5. QED
  BY <1>3, <1>4

LEMMA HideOn ==
  ASSUME ListOK, Orderless, NEW U \in SUBSET Props, NEW T \in SUBSET U, NEW k \in Props,
         TRUE \in HideVerdicts(Property(k), ShownOf(T))
  PROVE  TRUE \in HideVerdicts(Property(k), ShownOf(U))
<1> DEFINE p == Property(k)
           Decisive(r, shown) == r.name = "@version" \/ RuleSays(r, shown) # "in"
           Says(r, shown) == IF r.name = "@version" THEN RuleSays(r, shown) = "out"
                             ELSE RuleSays(r, shown) # "unknown"
           Ending(shown) == {r \in p.hide : Decisive(r, shown)}
<1>1. \A shown : HideVerdicts(p, shown) =
        IF p.hide = {} THEN {TRUE} ELSE IF Ending(shown) = {} THEN {FALSE}
        ELSE {Says(r, shown) : r \in Ending(shown)}
  BY DEF HideVerdicts
<1>2. CASE p.hide = {}
  BY <1>1, <1>2
<1>3. CASE p.hide # {}
  <2>1. PICK r \in Ending(ShownOf(T)) : Says(r, ShownOf(T))
    BY <1>1, <1>3
  <2>2. r \in Ending(ShownOf(U)) /\ Says(r, ShownOf(U))
    <3>1. CASE r.name = "@version"
      BY <2>1, <3>1 DEF RuleSays
    <3>2. CASE r.name # "@version"
      <4>1. RuleSays(r, ShownOf(T)) \notin {"unknown", "in"}
        BY <2>1, <3>2
      <4>2. RuleSays(r, ShownOf(U)) = RuleSays(r, ShownOf(T))
        BY <4>1, SaysOn
      <4>3. QED
        BY <2>1, <3>2, <4>1, <4>2
    <3>3. QED
      BY <3>1, <3>2
  <2> HIDE DEF Ending
  <2>3. Says(r, ShownOf(U)) = TRUE
    BY <2>2
  <2> HIDE DEF Says
  <2>4. QED
    BY <1>1, <1>3, <2>2, <2>3
<1>4. QED
  BY <1>2, <1>3

LEMMA FollowOn ==
  ASSUME ListOK, Orderless, NEW U \in SUBSET Props, NEW T \in SUBSET U
  PROVE  Follow(T) \subseteq Follow(U)
<1>1. ASSUME NEW k \in Props, TRUE \in Verdicts(k, ShownOf(T))
      PROVE  TRUE \in Verdicts(k, ShownOf(U))
  <2>1. PICK s \in BOOLEAN : ShowVerdicts(Property(k), ShownOf(T)) = {s}
    BY ShowOne DEF OneVerdict
  <2>2. PICK h \in BOOLEAN : HideVerdicts(Property(k), ShownOf(T)) = {h}
    BY HideOne DEF OneVerdict
  <2>3. Verdicts(k, ShownOf(T)) = {s /\ h}
    BY <2>1, <2>2 DEF Verdicts
  <2>4. s = TRUE /\ h = TRUE
    BY <1>1, <2>3
  <2>5. /\ TRUE \in ShowVerdicts(Property(k), ShownOf(U))
        /\ TRUE \in HideVerdicts(Property(k), ShownOf(U))
    BY <2>1, <2>2, <2>4, ShowOn, HideOn
  <2>6. PICK t \in BOOLEAN : ShowVerdicts(Property(k), ShownOf(U)) = {t}
    BY ShowOne DEF OneVerdict
  <2>7. PICK g \in BOOLEAN : HideVerdicts(Property(k), ShownOf(U)) = {g}
    BY HideOne DEF OneVerdict
  <2>8. Verdicts(k, ShownOf(U)) = {t /\ g}
    BY <2>6, <2>7 DEF Verdicts
  <2>9. t = TRUE /\ g = TRUE
    BY <2>5, <2>6, <2>7
  <2>10. QED
    BY <2>8, <2>9
<1>2. QED
  BY <1>1 DEF Follow, Props

LEMMA MoreGrows ==
  ASSUME ListOK, Orderless, NEW n \in 0 .. Len(spec.properties), NEW m \in 0 .. n
  PROVE  More[m] \subseteq More[n]
<1> DEFINE K == Len(spec.properties)
           S == {j \in Nat : j + 1 \in 0 .. K => More[j] \subseteq More[j + 1]}
           U == {j \in Nat : m + j \in 0 .. K => More[m] \subseteq More[m + j]}
<1>1. K \in Nat
  BY DEF ListOK
<1>2. \A j \in Nat : j \in S
  <2>1. 0 \in S
    BY RoundsOfMore
  <2>2. ASSUME NEW j \in Nat, j \in S, j + 2 \in 0 .. K PROVE More[j + 1] \subseteq More[j + 2]
    <3>1. j + 1 \in 1 .. K /\ j + 2 \in 1 .. K /\ j \in 0 .. K /\ (j + 1) - 1 = j /\ (j + 2) - 1 = j + 1
      BY <2>2, <1>1
    <3>2. More[j] \subseteq More[j + 1] /\ More[j + 1] \in SUBSET Props
      BY <2>2, <3>1, <1>1, RoundsOfMore
    <3>3. Follow(More[j]) \subseteq Follow(More[j + 1])
      BY <3>2, FollowOn
    <3>4. QED
      BY <3>1, <3>3, RoundsOfMore
  <2>3. ASSUME NEW j \in Nat, j \in S PROVE j + 1 \in S
    <3>1. j + 1 \in Nat /\ (j + 1) + 1 = j + 2
      OBVIOUS
    <3>2. (j + 1) + 1 \in 0 .. K => More[j + 1] \subseteq More[(j + 1) + 1]
      BY <2>2, <2>3, <3>1
    <3>3. QED
      BY <3>1, <3>2
  <2> HIDE DEF S
  <2>4. QED
    BY <2>1, <2>3, Induct
<1>3. \A j \in Nat : j \in U
  <2>1. 0 \in U
    OBVIOUS
  <2>2. ASSUME NEW j \in Nat, j \in U PROVE j + 1 \in U
    <3>1. m + j \in S /\ m + (j + 1) = (m + j) + 1
      BY <1>2
    <3>2. QED
      BY <1>1, <2>2, <3>1
  <2> HIDE DEF U
  <2>3. QED
    BY <2>1, <2>2, Induct
<1>4. n - m \in Nat /\ m + (n - m) = n
  BY <1>1
<1>5. QED
  BY <1>3, <1>4

-----------------------------------------------------------------------------
(* The passes.                                                             *)

Sel == {selected[n] : n \in DOMAIN selected}

ParamTypeOK ==
  /\ ListOK
  /\ confirm \in Seq(Props) /\ remain \in Seq(Props)
  /\ confirmed \in BOOLEAN
  /\ selected = [n \in DOMAIN selected |-> selected[n]]
  /\ \A n \in DOMAIN selected : selected[n] \in Props /\ Property(selected[n]).name = n

(* A lookup comes after the last pass.                                     *)
LookedUp == value # Start => confirm = <<>> /\ ~confirmed

(* No property is lost between the passes.                                 *)
NoneLost == Props = Sel \cup ToSet(confirm) \cup ToSet(remain)

(* As long as a pass has confirmed nothing, what it did not confirm does   *)
(* not follow from what is shown.                                          *)
LeftOut == ~confirmed => \A k \in ToSet(remain) : k \notin Follow(Sel)

(* With c properties shown, each follows in c rounds at the latest.        *)
Derived == Sel \subseteq More[Cardinality(Sel)]

ParamInv ==
  /\ ParamTypeOK
  /\ LookedUp
  /\ Orderless => NoneLost /\ LeftOut /\ Derived

LEMMA SelFinite ==
  ASSUME ParamTypeOK
  PROVE  /\ IsFiniteSet(Props) /\ Sel \in SUBSET Props /\ IsFiniteSet(Sel)
         /\ Cardinality(Sel) \in 0 .. Len(spec.properties)
         /\ \A k \in Props : k \notin Sel => Cardinality(Sel) + 1 \in 0 .. Len(spec.properties)
<1> DEFINE K == Len(spec.properties)
<1>1. K \in Nat /\ Props = 1 .. K
  BY DEF ParamTypeOK, ListOK
<1>2. IsFiniteSet(Props) /\ Cardinality(Props) = K
  <2>1. 1 \in Int /\ K \in Int
    BY <1>1
  <2>2. IsFiniteSet(1 .. K) /\ Cardinality(1 .. K) = IF 1 > K THEN 0 ELSE K - 1 + 1
    BY <2>1, FS_Interval, Zenon
  <2>3. QED
    BY <1>1, <2>2
<1>3. Sel \in SUBSET Props
  BY DEF ParamTypeOK, Sel
<1>4. IsFiniteSet(Sel) /\ Cardinality(Sel) <= K /\ (Cardinality(Props) = Cardinality(Sel) => Props = Sel)
  <2> HIDE DEF K
  <2>1. QED
    BY <1>2, <1>3, FS_Subset
<1>5. Cardinality(Sel) \in Nat
  BY <1>4, FS_CardinalityType
<1>6. \A k \in Props : k \notin Sel => Cardinality(Sel) # K
  BY <1>2, <1>4
<1> HIDE DEF K
<1>7. Cardinality(Sel) \in 0 .. K /\ \A k \in Props : k \notin Sel => Cardinality(Sel) + 1 \in 0 .. K
  BY <1>1, <1>4, <1>5, <1>6
<1>8. QED
  BY <1>2, <1>3, <1>4, <1>7 DEF K

(* What is shown, as the rules see it.                                     *)
LEMMA SelectedIsShown ==
  ASSUME ParamTypeOK, Orderless
  PROVE  ShownOf(Sel) = selected
<1>1. Sel \in SUBSET Props
  BY SelFinite
<1>2. DOMAIN ShownOf(Sel) = {Property(k).name : k \in Sel} /\ \A k \in Sel : ShownOf(Sel)[Property(k).name] = k
  BY <1>1, Named, Zenon
<1>3. DOMAIN ShownOf(Sel) = DOMAIN selected
  <2>1. \A n \in DOMAIN selected : selected[n] \in Sel /\ Property(selected[n]).name = n
    BY DEF ParamTypeOK, Sel
  <2>2. ASSUME NEW n \in DOMAIN ShownOf(Sel) PROVE n \in DOMAIN selected
    <3>1. PICK k \in Sel : n = Property(k).name
      BY <1>2, <2>2
    <3>2. PICK m \in DOMAIN selected : k = selected[m]
      BY <3>1 DEF Sel
    <3>3. QED
      BY <2>1, <3>1, <3>2
  <2>3. QED
    BY <1>2, <2>1, <2>2
<1>4. \A n \in DOMAIN selected : ShownOf(Sel)[n] = selected[n]
  BY <1>2 DEF ParamTypeOK, Sel
<1>5. ShownOf(Sel) = [n \in DOMAIN ShownOf(Sel) |-> ShownOf(Sel)[n]]
  BY DEF ShownOf
<1>6. selected = [n \in DOMAIN selected |-> selected[n]]
  BY DEF ParamTypeOK
<1>7. QED
  BY <1>3, <1>4, <1>5, <1>6

LEMMA ParamInitInv == ParamInit => ParamInv
<1>1. SUFFICES ASSUME ParamInit PROVE ParamInv
  OBVIOUS
<1>2. /\ confirm = Positions /\ remain = <<>> /\ confirmed = FALSE /\ selected = <<>> /\ value = Start
      /\ \E s \in Specs : spec.properties = s.properties
  BY <1>1 DEF ParamInit
<1>3. ListOK
  <2>1. PICK s \in Specs : spec.properties = s.properties
    BY <1>2
  <2>2. /\ s.properties \in Seq(ToSet(s.properties))
        /\ \A p \in ToSet(s.properties) : IsFiniteSet(p.show) /\ IsFiniteSet(p.hide)
    BY <2>1, SpecsAssumption
  <2>3. Len(s.properties) \in Nat /\ DOMAIN s.properties = 1 .. Len(s.properties)
    BY <2>2
  <2>4. \A k \in DOMAIN s.properties : s.properties[k] \in ToSet(s.properties)
    BY DEF ToSet
  <2>5. QED
    BY <2>1, <2>2, <2>3, <2>4 DEF ListOK, Props, Property
<1>4. Sel = {} /\ DOMAIN selected = {}
  BY <1>2 DEF Sel
<1>5. confirm \in Seq(Props) /\ ToSet(confirm) = Props
  <2>1. confirm = [k \in 1 .. Len(spec.properties) |-> k] /\ Len(spec.properties) \in Nat
    BY <1>2, <1>3 DEF Positions, ListOK, Props
  <2>2. QED
    BY <2>1, <1>3 DEF ListOK, ToSet
<1>6. ParamTypeOK
  <2>1. <<>> \in [1 .. 0 -> {}]
    OBVIOUS
  <2>2. selected \in [1 .. 0 -> {}]
    BY <1>2, <2>1
  <2>3. selected = [n \in DOMAIN selected |-> selected[n]]
    BY <2>2
  <2>4. remain \in Seq(Props) /\ confirmed \in BOOLEAN
    <3>1. remain = <<>> /\ confirmed = FALSE
      BY <1>1, Zenon DEF ParamInit
    <3>2. remain \in Seq(Props)
      BY <3>1
    <3>3. QED
      BY <3>1, <3>2
  <2>5. \A n \in DOMAIN selected : selected[n] \in Props /\ Property(selected[n]).name = n
    BY <1>4
  <2>6. QED
    BY <1>3, <1>5, <2>3, <2>4, <2>5 DEF ParamTypeOK
<1>7. NoneLost /\ LeftOut /\ Derived
  BY <1>2, <1>4, <1>5 DEF NoneLost, LeftOut, Derived, ToSet
<1>8. QED
  BY <1>2, <1>6, <1>7 DEF ParamInv, LookedUp

(* What a property shown adds.                                             *)
LEMMA SelectAdds ==
  ASSUME ParamTypeOK, NEW k \in Props, selected' = Select(k), spec' = spec
  PROVE  /\ selected' = [n \in DOMAIN selected' |-> selected'[n]]
         /\ \A n \in DOMAIN selected' : selected'[n] \in Props /\ Property(selected'[n]).name = n
         /\ Orderless => Sel' = Sel \cup {k}
<1>1. /\ DOMAIN selected' = DOMAIN selected \cup {Property(k).name}
      /\ \A n \in DOMAIN selected' : selected'[n] = IF n = Property(k).name THEN k ELSE selected[n]
  BY DEF Select
<1>2. selected' = [n \in DOMAIN selected' |-> selected'[n]]
  BY DEF Select
<1>3. \A n \in DOMAIN selected' : selected'[n] \in Props /\ Property(selected'[n]).name = n
  BY <1>1 DEF ParamTypeOK
<1>4. ASSUME Orderless PROVE Sel' = Sel \cup {k}
  <2>1. \A n \in DOMAIN selected : n = Property(k).name => selected[n] = k
    BY <1>4 DEF ParamTypeOK, Orderless, Props
  <2>2. QED
    BY <1>1, <2>1 DEF Sel
<1>5. QED
  BY <1>2, <1>3, <1>4

LEMMA SameMore ==
  ASSUME spec' = spec
  PROVE  /\ More' = More /\ Props' = Props /\ Orderless' = Orderless /\ ListOK' = ListOK
         /\ \A T : Follow(T)' = Follow(T)
<1>1. \A k : Property(k)' = Property(k)
  BY DEF Property
<1>2. \A q, path : ValueOf(q, path)' = ValueOf(q, path)
  BY DEF ValueOf
<1>3. \A r, shown : RuleSays(r, shown)' = RuleSays(r, shown)
  BY <1>1, <1>2 DEF RuleSays
<1>4. ASSUME NEW q, NEW shown
      PROVE  /\ ShowVerdicts(q, shown)' = ShowVerdicts(q, shown)
             /\ HideVerdicts(q, shown)' = HideVerdicts(q, shown)
  <2>1. ShowVerdicts(q, shown)' = ShowVerdicts(q, shown)
    <3> DEFINE on == {r \in q.show : r.name = "@version"}
               version == {RuleSays(r, shown) = "in" : r \in on}
               fails == \E r \in q.show : r.name # "@version" /\ RuleSays(r, shown) # "in"
    <3>1. version' = version
      BY <1>3
    <3>2. fails' = fails
      BY <1>3
    <3>3. ShowVerdicts(q, shown) = IF version = {} THEN {~fails} ELSE version \cup (IF fails THEN {FALSE} ELSE {})
      BY DEF ShowVerdicts
    <3>4. ShowVerdicts(q, shown)' =
            IF version' = {} THEN {~fails'} ELSE version' \cup (IF fails' THEN {FALSE} ELSE {})
      BY DEF ShowVerdicts
    <3> HIDE DEF version, fails
    <3>5. QED
      BY <3>1, <3>2, <3>3, <3>4
  <2>2. HideVerdicts(q, shown)' = HideVerdicts(q, shown)
    BY <1>3 DEF HideVerdicts
  <2>3. QED
    BY <2>1, <2>2
<1>5. \A k, shown : Verdicts(k, shown)' = Verdicts(k, shown)
  BY <1>1, <1>4 DEF Verdicts
<1>6. \A T : ShownOf(T)' = ShownOf(T)
  BY <1>1 DEF ShownOf
<1>7. \A T : Follow(T)' = Follow(T)
  BY <1>5, <1>6 DEF Follow
<1>8. More' = More
  BY <1>7 DEF More
<1>9. Props' = Props /\ Orderless' = Orderless /\ ListOK' = ListOK
  BY <1>1 DEF Props, Orderless, ListOK
<1>10. QED
  BY <1>7, <1>8, <1>9

LEMMA TailOf ==
  ASSUME NEW A, NEW s \in Seq(A), s # <<>>
  PROVE  Head(s) \in A /\ Tail(s) \in Seq(A) /\ ToSet(s) = {Head(s)} \cup ToSet(Tail(s))
<1>1. Len(s) \in Nat /\ Len(s) # 0 /\ DOMAIN s = 1 .. Len(s) /\ Head(s) = s[1]
  OBVIOUS
<1>2. Len(Tail(s)) = Len(s) - 1 /\ \A i \in 1 .. Len(s) - 1 : Tail(s)[i] = s[i + 1]
  OBVIOUS
<1>3. ASSUME NEW i \in 1 .. Len(s), i # 1 PROVE i - 1 \in 1 .. Len(s) - 1 /\ s[i] = Tail(s)[i - 1]
  <2>1. i - 1 \in 1 .. Len(s) - 1 /\ (i - 1) + 1 = i
    BY <1>1, <1>3
  <2>2. QED
    BY <1>2, <2>1
<1>4. Tail(s) \in Seq(A) /\ DOMAIN Tail(s) = 1 .. Len(s) - 1
  BY <1>1, <1>2
<1>5. ToSet(s) \subseteq {Head(s)} \cup ToSet(Tail(s))
  BY <1>1, <1>3, <1>4, Zenon DEF ToSet
<1>6. {Head(s)} \cup ToSet(Tail(s)) \subseteq ToSet(s)
  BY <1>1, <1>2, <1>4 DEF ToSet
<1>7. QED
  BY <1>1, <1>4, <1>5, <1>6

LEMMA CheckKeeps == ASSUME ParamInv, CheckProperty PROVE ParamInv'
<1> DEFINE k == Head(confirm)
<1>1. /\ value = Start /\ confirm # <<>> /\ confirm' = Tail(confirm) /\ spec' = spec /\ value' = value
  BY DEF CheckProperty
<1>2. PICK shows \in Verdicts(k, selected) :
        IF shows THEN selected' = Select(k) /\ confirmed' = TRUE /\ remain' = remain
        ELSE remain' = Append(remain, k) /\ UNCHANGED <<selected, confirmed>>
  BY DEF CheckProperty
<1>3. confirm \in Seq(Props) /\ remain \in Seq(Props)
  BY DEF ParamInv, ParamTypeOK
<1>4. k \in Props /\ confirm' \in Seq(Props) /\ ToSet(confirm) = {k} \cup ToSet(confirm')
  BY <1>1, <1>3, TailOf
<1>5. Append(remain, k) \in Seq(Props) /\ ToSet(Append(remain, k)) = ToSet(remain) \cup {k}
  BY <1>3, <1>4, AppendTail
<1> HIDE DEF k
<1>6. /\ More' = More /\ Props' = Props /\ Orderless' = Orderless /\ ListOK' = ListOK
      /\ \A T : Follow(T)' = Follow(T)
  BY <1>1, SameMore
<1>7. LookedUp'
  BY <1>1 DEF LookedUp
<1>8. Orderless => shows \in BOOLEAN
  BY <1>2, <1>4, OneVerdictOnly DEF OneVerdict, ParamInv, ParamTypeOK
<1>9. CASE shows
  <2>0. selected' = Select(k) /\ confirmed' = TRUE /\ remain' = remain
    BY <1>2, <1>9
  <2>1. /\ selected' = [n \in DOMAIN selected' |-> selected'[n]]
        /\ \A n \in DOMAIN selected' : selected'[n] \in Props /\ Property(selected'[n]).name = n
        /\ Orderless => Sel' = Sel \cup {k}
    BY <1>1, <1>4, <2>0, SelectAdds DEF ParamInv
  <2>2. ParamTypeOK'
    <3>1. \A m : Property(m)' = Property(m)
      BY <1>1 DEF Property
    <3>2. QED
      BY <1>3, <1>4, <1>6, <2>0, <2>1, <3>1 DEF ParamInv, ParamTypeOK
  <2>3. ASSUME Orderless PROVE NoneLost' /\ LeftOut' /\ Derived'
    <3>1. NoneLost'
      BY <1>4, <1>6, <2>0, <2>1, <2>3 DEF ParamInv, NoneLost
    <3>2. LeftOut'
      BY <2>0 DEF LeftOut
    <3>3. Derived'
      <4> DEFINE c == Cardinality(Sel)
      <4>1. ParamTypeOK /\ ListOK /\ Sel \subseteq More[c]
        BY <2>3 DEF ParamInv, ParamTypeOK, Derived
      <4>2. CASE k \in Sel
        <5>1. Sel' = Sel
          BY <2>1, <2>3, <4>2
        <5>2. QED
          BY <1>6, <4>1, <5>1 DEF Derived
      <4>3. CASE k \notin Sel
        <5>1. IsFiniteSet(Sel) /\ c \in 0 .. Len(spec.properties) /\ c + 1 \in 0 .. Len(spec.properties)
          BY <1>4, <4>1, <4>3, SelFinite
        <5>2. Cardinality(Sel') = c + 1
          BY <2>1, <2>3, <4>3, <5>1, FS_AddElement
        <5>3. k \in Follow(Sel)
          <6>1. shows = TRUE /\ ShownOf(Sel) = selected
            BY <1>9, <1>8, <2>3, <4>1, SelectedIsShown
          <6>2. TRUE \in Verdicts(k, ShownOf(Sel))
            BY <1>2, <6>1
          <6>3. QED
            BY <1>4, <6>2 DEF Follow, Props
        <5>4. More[c] \in SUBSET Props /\ More[c + 1] = Follow(More[c])
          <6>1. c + 1 \in 1 .. Len(spec.properties) /\ (c + 1) - 1 = c
            BY <5>1
          <6>2. QED
            BY <4>1, <5>1, <6>1, RoundsOfMore
        <5>5. Follow(Sel) \subseteq Follow(More[c])
          BY <2>3, <4>1, <5>4, FollowOn
        <5>6. More[c] \subseteq More[c + 1]
          BY <2>3, <4>1, <5>1, MoreGrows
        <5>7. Sel' \subseteq More[c + 1]
          BY <2>1, <2>3, <4>1, <5>3, <5>4, <5>5, <5>6
        <5>8. QED
          BY <1>6, <5>2, <5>7 DEF Derived
      <4>4. QED
        BY <4>2, <4>3
    <3>4. QED
      BY <3>1, <3>2, <3>3
  <2>4. QED
    BY <1>6, <1>7, <2>2, <2>3 DEF ParamInv
<1>10. CASE ~shows
  <2>0. remain' = Append(remain, k) /\ UNCHANGED <<selected, confirmed>>
    BY <1>2, <1>10
  <2>1. Sel' = Sel
    BY <2>0 DEF Sel
  <2>2. ParamTypeOK'
    <3>1. \A m : Property(m)' = Property(m)
      BY <1>1 DEF Property
    <3>2. QED
      BY <1>4, <1>5, <1>6, <2>0, <3>1 DEF ParamInv, ParamTypeOK
  <2>3. ASSUME Orderless PROVE NoneLost' /\ LeftOut' /\ Derived'
    <3>1. NoneLost'
      BY <1>4, <1>5, <1>6, <2>0, <2>1, <2>3 DEF ParamInv, NoneLost
    <3>2. LeftOut'
      <4>1. ShownOf(Sel) = selected /\ OneVerdict(Verdicts(k, selected))
        BY <1>4, <2>3, SelectedIsShown, OneVerdictOnly DEF ParamInv, ParamTypeOK
      <4>2. k \notin Follow(Sel)
        <5>1. shows = FALSE
          BY <1>10, <1>8, <2>3
        <5>2. TRUE \notin Verdicts(k, ShownOf(Sel))
          <6>1. PICK v \in BOOLEAN : Verdicts(k, selected) = {v}
            BY <4>1 DEF OneVerdict
          <6>2. v = FALSE
            BY <5>1, <6>1
          <6>3. QED
            BY <4>1, <6>1, <6>2
        <5>3. QED
          BY <5>2 DEF Follow
      <4>3. \A m \in ToSet(remain') : m \in ToSet(remain) \/ m = k
        BY <1>5, <2>0
      <4>4. Follow(Sel)' = Follow(Sel)
        BY <1>6, <2>1
      <4>5. QED
        BY <2>0, <2>3, <4>2, <4>3, <4>4 DEF ParamInv, LeftOut
    <3>3. Derived'
      BY <1>6, <2>1, <2>3 DEF ParamInv, Derived
    <3>4. QED
      BY <3>1, <3>2, <3>3
  <2>4. QED
    BY <1>6, <1>7, <2>2, <2>3 DEF ParamInv
<1>11. QED
  BY <1>9, <1>10

LEMMA NextPassKeeps == ASSUME ParamInv, NextPass PROVE ParamInv'
<1>1. /\ value = Start /\ confirm = <<>> /\ confirm' = remain /\ remain' = <<>> /\ confirmed' = FALSE
      /\ UNCHANGED <<spec, selected, value>>
  BY DEF NextPass
<1>2. /\ More' = More /\ Props' = Props /\ Orderless' = Orderless /\ ListOK' = ListOK
  BY <1>1, SameMore
<1>3. Sel' = Sel /\ ToSet(confirm) = {} /\ ToSet(remain') = {} /\ \A m : Property(m)' = Property(m)
  BY <1>1 DEF Sel, ToSet, Property
<1>4. ParamTypeOK' /\ LookedUp'
  BY <1>1, <1>2, <1>3 DEF ParamInv, ParamTypeOK, LookedUp
<1>5. ASSUME Orderless PROVE NoneLost' /\ LeftOut' /\ Derived'
  BY <1>1, <1>2, <1>3, <1>5 DEF ParamInv, NoneLost, LeftOut, Derived
<1>6. QED
  BY <1>2, <1>4, <1>5 DEF ParamInv

(* What leaves the passes as they are leaves the invariant.                *)
LEMMA SamePasses ==
  ASSUME ParamInv, UNCHANGED <<spec, confirm, remain, confirmed, selected>>, LookedUp'
  PROVE  ParamInv'
<1>1. /\ More' = More /\ Props' = Props /\ Orderless' = Orderless /\ ListOK' = ListOK
  BY SameMore
<1>2. Sel' = Sel /\ \A m : Property(m)' = Property(m)
  BY DEF Sel, Property
<1>3. Follow(Sel)' = Follow(Sel)
  BY <1>2, SameMore
<1>4. ParamTypeOK'
  BY <1>1, <1>2 DEF ParamInv, ParamTypeOK
<1>5. ASSUME Orderless PROVE NoneLost' /\ LeftOut' /\ Derived'
  BY <1>1, <1>2, <1>3, <1>5 DEF ParamInv, NoneLost, LeftOut, Derived
<1>6. QED
  BY <1>1, <1>4, <1>5 DEF ParamInv

LEMMA GetKeeps == ASSUME ParamInv, GetNodeParameter PROVE ParamInv'
<1>1. confirm = <<>> /\ ~confirmed /\ UNCHANGED <<spec, confirm, remain, confirmed, selected>>
  BY DEF GetNodeParameter, PassesDone
<1>2. LookedUp'
  BY <1>1 DEF LookedUp
<1>3. QED
  BY <1>1, <1>2, SamePasses

LEMMA ParamStepInv == ParamInv /\ [ParamNext]_paramVars => ParamInv'
<1>1. SUFFICES ASSUME ParamInv, [ParamNext]_paramVars PROVE ParamInv'
  OBVIOUS
<1>2. CASE UNCHANGED paramVars
  <2>1. UNCHANGED <<spec, confirm, remain, confirmed, selected, value>>
    BY <1>2 DEF paramVars
  <2>2. LookedUp'
    BY <1>1, <2>1 DEF ParamInv, LookedUp
  <2>3. QED
    BY <1>1, <2>1, <2>2, SamePasses
<1>3. QED
  BY <1>1, <1>2, CheckKeeps, NextPassKeeps, GetKeeps DEF ParamNext

(* What no more passes would add: the passes have come to the end.         *)
LEMMA EndOfPasses == ASSUME ParamInv PROVE ShownFollowsFromRules
<1>1. SUFFICES ASSUME value[1] = "value", Orderless PROVE Sel = Consequences
  BY DEF ShownFollowsFromRules, Sel
<1> DEFINE K == Len(spec.properties)
           S == {n \in Nat : n \in 0 .. K => More[n] \subseteq Sel}
<1>2. confirm = <<>> /\ ~confirmed
  BY <1>1 DEF ParamInv, LookedUp, Start
<1>3. ParamTypeOK /\ ListOK /\ K \in Nat /\ Sel \in SUBSET Props
  BY SelFinite DEF ParamInv, ParamTypeOK, ListOK
<1>4. Props = Sel \cup ToSet(remain) /\ \A k \in ToSet(remain) : k \notin Follow(Sel)
  BY <1>1, <1>2 DEF ParamInv, NoneLost, LeftOut, ToSet
<1>5. Follow(Sel) \subseteq Sel
  BY <1>4 DEF Follow, Props
<1>6. Sel \subseteq More[K]
  <2>1. Cardinality(Sel) \in 0 .. K /\ K \in 0 .. K
    BY <1>3, SelFinite
  <2>2. Sel \subseteq More[Cardinality(Sel)]
    BY <1>1 DEF ParamInv, Derived
  <2>3. More[Cardinality(Sel)] \subseteq More[K]
    BY <1>1, <1>3, <2>1, MoreGrows
  <2>4. QED
    BY <2>2, <2>3
<1>7. 0 \in S
  BY <1>3, RoundsOfMore
<1>8. ASSUME NEW n \in Nat, n \in S PROVE n + 1 \in S
  <2>1. SUFFICES ASSUME n + 1 \in 0 .. K PROVE More[n + 1] \subseteq Sel
    OBVIOUS
  <2>2. n \in 0 .. K /\ n + 1 \in 1 .. K /\ (n + 1) - 1 = n
    BY <1>3, <2>1
  <2>3. More[n] \subseteq Sel /\ More[n + 1] = Follow(More[n]) /\ More[n] \in SUBSET Sel
    BY <1>3, <1>8, <2>2, RoundsOfMore
  <2>4. Follow(More[n]) \subseteq Follow(Sel)
    BY <1>1, <1>3, <2>3, FollowOn
  <2>5. QED
    BY <1>5, <2>3, <2>4
<1> HIDE DEF S
<1>9. K \in S
  BY <1>3, <1>7, <1>8, Induct
<1>10. More[K] \subseteq Sel
  BY <1>3, <1>9 DEF S
<1>11. QED
  BY <1>6, <1>10 DEF Consequences

(* Whatever properties a node specifies, in whatever order, the passes of  *)
(* FilterPropertiesByDisplayOption show exactly what follows from their    *)
(* rules, where names are unique and no rules depend on their order.       *)
THEOREM PassesShowWhatFollows == ParamSpec => []ShownFollowsFromRules
<1>1. ParamInit => ParamInv
  BY ParamInitInv
<1>2. ParamInv /\ [ParamNext]_paramVars => ParamInv'
  BY ParamStepInv
<1>3. ParamInv => ShownFollowsFromRules
  BY EndOfPasses
<1>4. QED
  BY <1>1, <1>2, <1>3, PTL DEF ParamSpec

-----------------------------------------------------------------------------
(* Switch by rules.                                                        *)

LEMMA SwitchTurns ==
  ASSUME NEW items, NEW c, Len(items) \in Nat
  PROVE  \E g : /\ g[0] = Outputs(<<>>)
                /\ \A k \in 1 .. Len(items) : g[k] = SwitchItem(g[k - 1], items, k, c)
                /\ SwitchExecute(items, c) = g[Len(items)]
<1> DEFINE Turn(f, k) == IF k = 0 THEN Outputs(<<>>) ELSE SwitchItem(f[k - 1], items, k, c)
           Good(n, f) == f = [k \in 0 .. n |-> Turn(f, k)]
           S == {n \in Nat : \E f : Good(n, f)}
<1>1. 0 \in S
  <2> DEFINE f == [k \in 0 .. 0 |-> Outputs(<<>>)]
  <2>1. \A k \in 0 .. 0 : Turn(f, k) = Outputs(<<>>)
    OBVIOUS
  <2>2. Good(0, f)
    BY <2>1
  <2>3. QED
    BY <2>2
<1>2. ASSUME NEW n \in Nat, n \in S PROVE n + 1 \in S
  <2>1. PICK f : Good(n, f)
    BY <1>2
  <2> DEFINE h == [k \in 0 .. n + 1 |-> IF k = n + 1 THEN SwitchItem(f[n], items, n + 1, c) ELSE f[k]]
  <2>2. ASSUME NEW k \in 0 .. n + 1 PROVE h[k] = Turn(h, k)
    <3>1. CASE k = n + 1
      <4>1. n \in 0 .. n + 1 /\ n # n + 1 /\ n + 1 # 0 /\ (n + 1) - 1 = n
        OBVIOUS
      <4>2. h[n] = f[n]
        BY <4>1
      <4>3. QED
        BY <3>1, <4>1, <4>2
    <3>2. CASE k # n + 1 /\ k # 0
      <4>1. k \in 0 .. n /\ k - 1 \in 0 .. n + 1 /\ k - 1 # n + 1
        BY <3>2
      <4>2. h[k - 1] = f[k - 1] /\ h[k] = f[k]
        BY <3>2, <4>1
      <4>3. f[k] = Turn(f, k)
        BY <2>1, <4>1
      <4>4. QED
        BY <3>2, <4>2, <4>3
    <3>3. CASE k = 0
      <4>1. 0 \in 0 .. n /\ 0 # n + 1
        OBVIOUS
      <4>2. f[0] = Turn(f, 0)
        BY <2>1, <4>1
      <4>3. QED
        BY <3>3, <4>1, <4>2
    <3>4. QED
      BY <3>1, <3>2, <3>3
  <2>3. h = [k \in 0 .. n + 1 |-> h[k]]
    OBVIOUS
  <2>4. Good(n + 1, h)
    <3> HIDE DEF h, Turn
    <3>1. QED
      BY <2>2, <2>3
  <2> HIDE DEF h, Good
  <2>5. QED
    BY <2>4
<1>3. Len(items) \in S
  <2> HIDE DEF S
  <2>1. QED
    BY <1>1, <1>2, Induct
<1> DEFINE K == Len(items)
           Whole(f) == [k \in 0 .. K |-> Turn(f, k)]
           g == CHOOSE f : f = Whole(f)
<1>4. \E f : f = Whole(f)
  BY <1>3
<1>5. g = Whole(g)
  <2> HIDE DEF Whole
  <2>1. QED
    BY <1>4
<1>6. SwitchExecute(items, c) = g[K]
  BY DEF SwitchExecute
<1> HIDE DEF g
<1>7. \A k \in 0 .. K : g[k] = Turn(g, k)
  BY <1>5
<1>8. \A k \in 1 .. K : k \in 0 .. K /\ k # 0
  OBVIOUS
<1>9. 0 \in 0 .. K
  OBVIOUS
<1>10. QED
  BY <1>6, <1>7, <1>8, <1>9

(* The rules item k matches, the output it goes to and what is needed to   *)
(* tell; 0 stands for none.                                                *)
HitsOf(c, k) ==
  {m \in DOMAIN c.rules[k] : CompareOperation(c.rules[k][m].op, c.value1[k], c.rules[k][m].value2) = "true"}
Target(c, k) ==
  IF HitsOf(c, k) # {} THEN CHOOSE m \in HitsOf(c, k) : \A l \in HitsOf(c, k) : m <= l
  ELSE IF c.fallback[k] = -1 THEN 0 ELSE c.fallback[k] + 1
RulesRead(c, k) ==
  /\ c.rules[k] # Error /\ c.value1[k] # Error /\ c.fallback[k] # Error
  /\ c.fallback[k] \in -1 .. Len(c.rules[k]) - 1
  /\ Len(c.rules[k]) \in Nat /\ DOMAIN c.rules[k] = 1 .. Len(c.rules[k])

LEMMA TargetOf ==
  ASSUME NEW c, NEW k, RulesRead(c, k)
  PROVE  /\ Target(c, k) \in Nat
         /\ HitsOf(c, k) # {} => /\ Target(c, k) \in HitsOf(c, k) /\ Target(c, k) # 0
                                 /\ \A l \in HitsOf(c, k) : Target(c, k) <= l
<1>1. HitsOf(c, k) \in SUBSET Nat /\ 0 \notin HitsOf(c, k)
  BY DEF HitsOf, RulesRead
<1>2. CASE HitsOf(c, k) # {}
  <2>1. \E m \in HitsOf(c, k) : \A l \in HitsOf(c, k) : m <= l
    BY <1>1, <1>2, Least
  <2>2. Target(c, k) \in HitsOf(c, k) /\ \A l \in HitsOf(c, k) : Target(c, k) <= l
    BY <1>2, <2>1 DEF Target
  <2>3. QED
    BY <1>1, <2>2
<1>3. CASE HitsOf(c, k) = {}
  BY <1>3 DEF Target, RulesRead
<1>4. QED
  BY <1>2, <1>3

LEMMA CompareSays ==
  ASSUME NEW op, NEW v1, NEW v2
  PROVE  CompareOperation(op, v1, v2) \in {"true", "false", "panic"}
BY ZenonT(60) DEF CompareOperation, Verdict

(* The first rule that does not let the item pass.                         *)
LEMMA MatchOf ==
  ASSUME NEW c, NEW k, RulesRead(c, k)
  PROVE  LET match == FirstMatch(c.rules[k], c.value1[k])
         IN  \/ match[1] = "panic"
             \/ match[1] = "true" /\ match[2] = Target(c, k) /\ HitsOf(c, k) # {}
             \/ match[1] = "none" /\ HitsOf(c, k) = {}
<1> DEFINE rules == c.rules[k]
           v1 == c.value1[k]
           stops == Stops(rules, v1)
           first == CHOOSE m \in stops : \A l \in stops : m <= l
           match == FirstMatch(rules, v1)
<1>1. stops \in SUBSET Nat
  BY DEF Stops, RulesRead
<1>2. \A m \in DOMAIN rules : Compare(rules, m, v1) \in {"true", "false", "panic"}
  BY CompareSays DEF Compare
<1>3. HitsOf(c, k) = {m \in DOMAIN rules : Compare(rules, m, v1) = "true"}
  BY DEF HitsOf, Compare
<1>4. CASE stops = {}
  <2>1. match = <<"none">>
    BY <1>4 DEF FirstMatch
  <2>2. HitsOf(c, k) = {}
    BY <1>3, <1>4 DEF Stops
  <2>3. QED
    BY <2>1, <2>2
<1>5. CASE stops # {}
  <2>1. \E m \in stops : \A l \in stops : m <= l
    BY <1>1, <1>5, Least
  <2>2. first \in stops /\ \A l \in stops : first <= l
    BY <2>1
  <2>3. match = <<Compare(rules, first, v1), first>>
    BY <1>5 DEF FirstMatch, MatchAt
  <2> HIDE DEF first, match
  <2>4. first \in DOMAIN rules /\ Compare(rules, first, v1) \in {"true", "panic"}
    BY <1>2, <2>2 DEF Stops
  <2>5. CASE Compare(rules, first, v1) = "panic"
    BY <2>3, <2>5 DEF match
  <2>6. CASE Compare(rules, first, v1) = "true"
    <3>1. first \in HitsOf(c, k)
      BY <1>3, <2>4, <2>6
    <3>2. Target(c, k) \in HitsOf(c, k) /\ Target(c, k) <= first
      BY <3>1, TargetOf
    <3>3. HitsOf(c, k) \subseteq stops
      BY <1>3 DEF Stops
    <3>4. first <= Target(c, k) /\ first \in Nat /\ Target(c, k) \in Nat
      BY <1>1, <2>2, <3>2, <3>3
    <3>5. first = Target(c, k)
      BY <3>2, <3>4
    <3>6. QED
      BY <2>3, <2>6, <3>1, <3>5 DEF match
  <2>7. QED
    BY <2>4, <2>5, <2>6
<1>6. QED
  BY <1>4, <1>5
(* What the loop makes of an item its rules can be read for.               *)
LEMMA RulesDecide ==
  ASSUME NEW c, NEW items, NEW k, NEW r, NEW made, NEW match, RulesRead(c, k),
         made = Fresh(r, k, Len(c.rules[k])), match = FirstMatch(c.rules[k], c.value1[k])
  PROVE  /\ match[1] = "panic" => ByRules(r, items, k, c) = Panics
         /\ match[1] = "true" => ByRules(r, items, k, c) = Put(made, match[2] - 1, items[k])
         /\ match[1] = "none" /\ c.fallback[k] = -1 => ByRules(r, items, k, c) = made
         /\ match[1] = "none" /\ c.fallback[k] # -1 =>
              ByRules(r, items, k, c) =
                PutChecked(made, c.fallback[k], Len(c.rules[k]), items[k], k, c.continueOnFail)
<1>1. c.rules[k] # Error /\ c.value1[k] # Error /\ c.fallback[k] # Error
  BY DEF RulesRead
<1>2. ASSUME match[1] = "panic" PROVE ByRules(r, items, k, c) = Panics
  BY <1>1, <1>2, Zenon DEF ByRules
<1>3. ASSUME match[1] = "true" PROVE ByRules(r, items, k, c) = Put(made, match[2] - 1, items[k])
  BY <1>1, <1>3, Zenon DEF ByRules
<1>4. ASSUME match[1] = "none", c.fallback[k] = -1 PROVE ByRules(r, items, k, c) = made
  BY <1>1, <1>4, Zenon DEF ByRules
<1>5. ASSUME match[1] = "none", c.fallback[k] # -1
      PROVE  ByRules(r, items, k, c) =
               PutChecked(made, c.fallback[k], Len(c.rules[k]), items[k], k, c.continueOnFail)
  BY <1>1, <1>5, Zenon DEF ByRules
<1>6. QED
  BY <1>2, <1>3, <1>4, <1>5

(* An item that is dealt with is put on its output, or on none.            *)
LEMMA ItemRouted ==
  ASSUME NEW c, NEW items, NEW k \in Nat \ {0}, NEW r, RulesRead(c, k), c.mode = "rules",
         r.status = "success", SwitchItem(r, items, k, c).status = "success"
  PROVE  LET lists == IF k = 1 THEN [i \in 1 .. Len(c.rules[k]) |-> None] ELSE r.lists
             t == Target(c, k)
             new == SwitchItem(r, items, k, c).lists
         IN  \/ t = 0 /\ new = lists
             \/ t \in DOMAIN lists /\ new = AppendTo(lists, t, items[k])
<1> DEFINE lists == IF k = 1 THEN [i \in 1 .. Len(c.rules[k]) |-> None] ELSE r.lists
           t == Target(c, k)
           made == Fresh(r, k, Len(c.rules[k]))
           match == FirstMatch(c.rules[k], c.value1[k])
           new == SwitchItem(r, items, k, c)
<1>1. made.lists = lists /\ made.status = "success"
  <2>1. ~(Len(c.rules[k]) < 0)
    BY DEF RulesRead
  <2>2. CASE k = 1
    BY <2>1, <2>2, Zenon DEF Fresh, Outputs
  <2>3. CASE k # 1
    BY <2>3, Zenon DEF Fresh
  <2>4. QED
    BY <2>2, <2>3
<1>2. new = ByRules(r, items, k, c)
  BY DEF SwitchItem
<1>3. Panics.status # "success"
  BY DEF Panics
<1>4. t \in Nat
  BY TargetOf
<1>5. \/ match[1] = "panic"
      \/ match[1] = "true" /\ match[2] = t /\ HitsOf(c, k) # {}
      \/ match[1] = "none" /\ HitsOf(c, k) = {}
  BY MatchOf
<1>6. /\ match[1] = "panic" => new = Panics
      /\ match[1] = "true" => new = Put(made, match[2] - 1, items[k])
      /\ match[1] = "none" /\ c.fallback[k] = -1 => new = made
      /\ match[1] = "none" /\ c.fallback[k] # -1 =>
           new = PutChecked(made, c.fallback[k], Len(c.rules[k]), items[k], k, c.continueOnFail)
  <2> HIDE DEF made, match, new
  <2>1. /\ match[1] = "panic" => ByRules(r, items, k, c) = Panics
        /\ match[1] = "true" => ByRules(r, items, k, c) = Put(made, match[2] - 1, items[k])
        /\ match[1] = "none" /\ c.fallback[k] = -1 => ByRules(r, items, k, c) = made
        /\ match[1] = "none" /\ c.fallback[k] # -1 =>
             ByRules(r, items, k, c) =
               PutChecked(made, c.fallback[k], Len(c.rules[k]), items[k], k, c.continueOnFail)
    BY RulesDecide DEF made, match
  <2>2. QED
    BY <1>2, <2>1
<1> HIDE DEF lists, t, made, match
<1>7. ASSUME NEW index, index = t - 1, new = Put(made, index, items[k])
      PROVE  t \in DOMAIN lists /\ new.lists = AppendTo(lists, t, items[k])
  <2>1. index + 1 = t
    BY <1>4, <1>7
  <2>2. new = IF t \in DOMAIN lists THEN Outputs(AppendTo(lists, t, items[k])) ELSE Panics
    BY <1>1, <1>7, <2>1 DEF Put
  <2>3. QED
    BY <1>3, <2>2 DEF Outputs
<1>8. CASE match[1] = "true" /\ match[2] = t
  <2>1. new = Put(made, t - 1, items[k])
    BY <1>6, <1>8
  <2>2. t \in DOMAIN lists /\ new.lists = AppendTo(lists, t, items[k])
    BY <1>7, <2>1, Zenon
  <2>3. QED
    BY <2>2 DEF lists, t
<1>9. CASE match[1] = "none" /\ HitsOf(c, k) = {} /\ c.fallback[k] = -1
  <2>1. t = 0 /\ new.lists = lists
    BY <1>1, <1>6, <1>9 DEF Target, t
  <2>2. QED
    BY <2>1 DEF lists, t
<1>10. CASE match[1] = "none" /\ HitsOf(c, k) = {} /\ c.fallback[k] # -1
  <2>1. t = c.fallback[k] + 1 /\ c.fallback[k] >= 0 /\ c.fallback[k] < Len(c.rules[k]) /\ c.fallback[k] \in Int
    BY <1>10 DEF Target, t, RulesRead
  <2>2. new = Put(made, c.fallback[k], items[k])
    BY <1>6, <1>10, <2>1 DEF PutChecked
  <2>3. QED
    BY <1>7, <2>1, <2>2 DEF lists, t
<1>11. QED
  BY <1>3, <1>5, <1>6, <1>8, <1>9, <1>10
(* After k items: each is on its output and on no other, in their order.   *)
OnList(list, items, m) == \E a \in DOMAIN list : list[a] = items[m]
Ordered(list, items, k) ==
  \A a, b \in DOMAIN list : a < b => \E m, p \in 1 .. k : m < p /\ items[m] = list[a] /\ items[p] = list[b]
ListHolds(list, items, c, o, k) ==
  /\ list \in Seq(ToSet(items))
  /\ \A a \in DOMAIN list : \E m \in 1 .. k : list[a] = items[m] /\ Target(c, m) = o
  /\ Ordered(list, items, k)
Routed(lists, items, c, k) ==
  /\ 0 \notin DOMAIN lists
  /\ \A o \in DOMAIN lists : ListHolds(Listed(lists[o]), items, c, o, k)
  /\ \A m \in 1 .. k : Target(c, m) # 0 =>
       Target(c, m) \in DOMAIN lists /\ OnList(Listed(lists[Target(c, m)]), items, m)

LEMMA ListGrows ==
  ASSUME NEW items, NEW c, NEW o, NEW k \in Nat \ {0}, k \in DOMAIN items, NEW list, Target(c, k) = o,
         ListHolds(list, items, c, o, k - 1)
  PROVE  /\ ListHolds(Append(list, items[k]), items, c, o, k)
         /\ OnList(Append(list, items[k]), items, k)
         /\ \A m : OnList(list, items, m) => OnList(Append(list, items[k]), items, m)
<1> DEFINE A == ToSet(items)
           e == items[k]
           new == Append(list, e)
<1>1. list \in Seq(A) /\ e \in A
  BY DEF ListHolds, ToSet
<1> HIDE DEF A, e
<1>2. /\ new \in Seq(A) /\ Len(list) \in Nat /\ DOMAIN list = 1 .. Len(list)
      /\ DOMAIN new = 1 .. Len(list) + 1 /\ new[Len(list) + 1] = e
      /\ \A a \in DOMAIN list : new[a] = list[a]
  BY <1>1
<1> HIDE DEF new
<1>3. \A a \in DOMAIN new : a \in DOMAIN list \/ a = Len(list) + 1
  BY <1>2
<1>4. \A m \in 1 .. k - 1 : m \in 1 .. k /\ m < k
  OBVIOUS
<1>5. k \in 1 .. k
  OBVIOUS
<1>6. \A a \in DOMAIN list : \E m \in 1 .. k - 1 : list[a] = items[m] /\ Target(c, m) = o
  BY DEF ListHolds
<1>7. ASSUME NEW a \in DOMAIN new PROVE \E m \in 1 .. k : new[a] = items[m] /\ Target(c, m) = o
  <2>1. CASE a \in DOMAIN list
    BY <1>2, <1>4, <1>6, <2>1
  <2>2. CASE a = Len(list) + 1
    BY <1>2, <1>5, <2>2 DEF e
  <2>3. QED
    BY <1>3, <2>1, <2>2
<1>8. ASSUME NEW a \in DOMAIN new, NEW b \in DOMAIN new, a < b
      PROVE  \E m, p \in 1 .. k : m < p /\ items[m] = new[a] /\ items[p] = new[b]
  <2>1. CASE b \in DOMAIN list
    <3>1. a \in DOMAIN list
      BY <1>2, <1>8, <2>1
    <3>2. PICK m \in 1 .. k - 1, p \in 1 .. k - 1 : m < p /\ items[m] = list[a] /\ items[p] = list[b]
      BY <1>8, <2>1, <3>1 DEF ListHolds, Ordered
    <3>3. QED
      BY <1>2, <1>4, <2>1, <3>1, <3>2
  <2>2. CASE b = Len(list) + 1
    <3>1. a \in DOMAIN list
      BY <1>2, <1>8, <2>2
    <3>2. PICK m \in 1 .. k - 1 : list[a] = items[m]
      BY <1>6, <3>1
    <3>3. QED
      BY <1>2, <1>4, <1>5, <2>2, <3>1, <3>2 DEF e
  <2>3. QED
    BY <1>3, <2>1, <2>2
<1>9. ListHolds(new, items, c, o, k)
  BY <1>2, <1>7, <1>8 DEF ListHolds, Ordered, A
<1>10. OnList(new, items, k)
  BY <1>2 DEF OnList, e
<1>11. ASSUME NEW m, OnList(list, items, m) PROVE OnList(new, items, m)
  BY <1>2, <1>11 DEF OnList
<1>12. QED
  BY <1>9, <1>10, <1>11 DEF new, e

LEMMA ListStays ==
  ASSUME NEW items, NEW c, NEW o, NEW k \in Nat \ {0}, NEW list, ListHolds(list, items, c, o, k - 1)
  PROVE  ListHolds(list, items, c, o, k)
<1>1. \A m \in 1 .. k - 1 : m \in 1 .. k
  OBVIOUS
<1>2. QED
  BY <1>1 DEF ListHolds, Ordered

LEMMA RoutedOn ==
  ASSUME NEW items, NEW c, NEW k \in Nat \ {0}, items \in Seq(ToSet(items)), k \in DOMAIN items,
         None \notin Seq(ToSet(items)), RulesRead(c, k), c.mode = "rules",
         NEW r, r.status = "success", Routed(r.lists, items, c, k - 1),
         NEW new, new = SwitchItem(r, items, k, c), new.status = "success"
  PROVE  Routed(new.lists, items, c, k)
<1> DEFINE lists == IF k = 1 THEN [i \in 1 .. Len(c.rules[k]) |-> None] ELSE r.lists
           t == Target(c, k)
<1>1. \/ t = 0 /\ new.lists = lists
      \/ t \in DOMAIN lists /\ new.lists = AppendTo(lists, t, items[k])
  BY ItemRouted
<1>2. \A o \in DOMAIN lists : ListHolds(Listed(lists[o]), items, c, o, k - 1)
  <2>1. CASE k = 1
    <3>1. ASSUME NEW o \in DOMAIN lists PROVE Listed(lists[o]) = <<>>
      BY <2>1 DEF Listed
    <3>2. \A o : ListHolds(<<>>, items, c, o, k - 1)
      BY DEF ListHolds, Ordered
    <3> HIDE DEF lists
    <3>3. QED
      BY <3>1, <3>2
  <2>2. CASE k # 1
    BY <2>2 DEF Routed
  <2>3. QED
    BY <2>1, <2>2
<1>3. 0 \notin DOMAIN lists
  BY DEF Routed
<1>4. \A m \in 1 .. k - 1 : Target(c, m) # 0 =>
        Target(c, m) \in DOMAIN lists /\ OnList(Listed(lists[Target(c, m)]), items, m)
  BY DEF Routed
<1> HIDE DEF lists, t
<1>5. \A m \in 1 .. k : m \in 1 .. k - 1 \/ m = k
  OBVIOUS
<1>6. CASE t = 0 /\ new.lists = lists
  <2>1. \A o \in DOMAIN lists : ListHolds(Listed(lists[o]), items, c, o, k)
    BY <1>2, ListStays
  <2>2. QED
    BY <1>3, <1>4, <1>5, <1>6, <2>1 DEF Routed, t
<1>7. CASE t \in DOMAIN lists /\ new.lists = AppendTo(lists, t, items[k])
  <2> DEFINE old == Listed(lists[t])
             grown == Append(old, items[k])
  <2>1. /\ ListHolds(grown, items, c, t, k) /\ OnList(grown, items, k)
        /\ \A m : OnList(old, items, m) => OnList(grown, items, m)
    BY <1>2, <1>7, ListGrows DEF t
  <2>2. new.lists = [lists EXCEPT ![t] = grown]
    BY <1>7 DEF AppendTo
  <2>3. Listed(grown) = grown
    BY <2>1 DEF ListHolds, Listed
  <2>4. /\ DOMAIN new.lists = DOMAIN lists
        /\ Listed(new.lists[t]) = grown
        /\ \A o \in DOMAIN lists : o # t => new.lists[o] = lists[o]
    BY <1>7, <2>2, <2>3
  <2> HIDE DEF old, grown
  <2>5. ASSUME NEW o \in DOMAIN lists PROVE ListHolds(Listed(new.lists[o]), items, c, o, k)
    BY <1>2, <2>1, <2>4, ListStays
  <2>6. ASSUME NEW m \in 1 .. k, Target(c, m) # 0
        PROVE  Target(c, m) \in DOMAIN lists /\ OnList(Listed(new.lists[Target(c, m)]), items, m)
    <3>1. CASE m = k
      BY <1>7, <2>1, <2>4, <3>1 DEF t
    <3>2. CASE m \in 1 .. k - 1
      <4>1. Target(c, m) \in DOMAIN lists /\ OnList(Listed(lists[Target(c, m)]), items, m)
        BY <1>4, <2>6, <3>2
      <4>2. CASE Target(c, m) = t
        BY <2>1, <2>4, <4>1, <4>2 DEF old
      <4>3. CASE Target(c, m) # t
        BY <2>4, <4>1, <4>3
      <4>4. QED
        BY <4>1, <4>2, <4>3
    <3>3. QED
      BY <1>5, <3>1, <3>2
  <2>7. QED
    BY <1>3, <2>4, <2>5, <2>6 DEF Routed
<1>8. QED
  BY <1>1, <1>6, <1>7
(* The result of a call is what the node makes of it.                      *)
CallInv ==
  /\ node = "condition" =>
       call \in ConditionCalls /\ result \in {Pending, ExecuteFilterCondition(call.c, call.ignoreCase)}
  /\ node = "if" =>
       call \in FilterCalls /\ result \in {Pending, IfExecute(call.items, call.conditions, call.continueOnFail)}
  /\ node = "switch" => call \in SwitchCalls /\ result \in {Pending, SwitchExecute(call.items, call)}
  /\ node = "html" => call \in HtmlCalls /\ result \in {Pending, Html!HtmlExecute(call)}
  /\ node = "scheduleTrigger" => call \in ScheduleCalls /\ result \in {Pending, Cron!Trigger(call)}
  /\ node = "request" => call \in RequestCalls /\ result \in {Pending} \cup Http!RequestsOf(call)

LEMMA CallInitInv == CallInit => CallInv
BY DEF CallInit, CallInv

LEMMA CallNextInv == CallInv /\ [CallNext]_callVars => CallInv'
<1> SUFFICES ASSUME CallInv, [CallNext]_callVars PROVE CallInv'
  OBVIOUS
<1>1. CASE EvaluateCondition
  BY <1>1 DEF EvaluateCondition, Answer, CallInv, Pending
<1>2. CASE ExecuteIf
  BY <1>2 DEF ExecuteIf, Answer, CallInv, Pending
<1>3. CASE ExecuteSwitch
  BY <1>3 DEF ExecuteSwitch, Answer, CallInv, Pending
<1>4. CASE ExecuteHtml
  BY <1>4 DEF ExecuteHtml, Answer, CallInv, Pending
<1>5. CASE ScheduleCron
  BY <1>5 DEF ScheduleCron, Answer, CallInv, Pending
<1>6. CASE node = "request" /\ BuildRequest
  BY <1>6 DEF BuildRequest, Answer, CallInv, Pending
<1>7. CASE ExecuteFilterNode \/ ExecuteLimit \/ ReadResponse
  BY <1>7 DEF ExecuteFilterNode, ExecuteLimit, ReadResponse, Answer, CallInv, Pending
<1>8. CASE UNCHANGED callVars
  BY <1>8 DEF callVars, CallInv, Pending
<1>9. QED
  BY <1>1, <1>2, <1>3, <1>4, <1>5, <1>6, <1>7, <1>8 DEF CallNext

LEMMA CallInvariant == CallSpec => []CallInv
BY CallInitInv, CallNextInv, PTL DEF CallSpec

LEMMA SwitchRoutes ==
  ASSUME NEW c \in SwitchCalls, c.mode = "rules", NEW res, res = SwitchExecute(c.items, c), res.status = "success",
         \A k \in DOMAIN c.items : RulesRead(c, k)
  PROVE  Routed(res.lists, c.items, c, Len(c.items))
<1> DEFINE items == c.items
           N1 == Len(items)
<1>1. items \in Seq(ToSet(items)) /\ None \notin Seq(ToSet(items)) /\ N1 \in Nat /\ DOMAIN items = 1 .. N1
  BY SwitchAssumption
<1>2. PICK g : /\ g[0] = Outputs(<<>>)
               /\ \A k \in 1 .. N1 : g[k] = SwitchItem(g[k - 1], items, k, c)
               /\ SwitchExecute(items, c) = g[N1]
  BY <1>1, SwitchTurns
<1> HIDE DEF N1, items
<1> DEFINE S == {k \in Nat : k <= N1 /\ g[k].status = "success" => Routed(g[k].lists, items, c, k)}
<1>3. 0 \in S
  <2>1. g[0].lists = <<>>
    BY <1>2 DEF Outputs
  <2>2. Routed(<<>>, items, c, 0)
    BY DEF Routed
  <2>3. QED
    BY <2>1, <2>2
<1>4. ASSUME NEW j \in Nat, j \in S PROVE j + 1 \in S
  <2>1. CASE j + 1 <= N1 /\ g[j + 1].status = "success"
    <3>1. PICK k \in Nat \ {0} : k = j + 1 /\ k - 1 = j /\ k \in 1 .. N1
      BY <1>1, <2>1
    <3>2. g[k] = SwitchItem(g[j], items, k, c)
      BY <1>2, <3>1
    <3>3. g[j].status = "success"
      <4>1. CASE g[j].status # "success"
        <5>1. g[k] = g[j]
          BY <3>2, <4>1 DEF SwitchItem
        <5>2. QED
          BY <2>1, <3>1, <4>1, <5>1
      <4>2. QED
        BY <4>1
    <3>4. Routed(g[j].lists, items, c, k - 1)
      BY <1>1, <1>4, <2>1, <3>1, <3>3
    <3>5. RulesRead(c, k) /\ k \in DOMAIN items
      BY <1>1, <3>1 DEF items
    <3>6. g[k].status = "success"
      BY <2>1, <3>1
    <3>7. Routed(g[k].lists, items, c, k)
      BY <1>1, <3>1, <3>2, <3>3, <3>4, <3>5, <3>6, RoutedOn
    <3>8. QED
      BY <3>1, <3>7
  <2>2. QED
    BY <2>1
<1>5. N1 \in S
  <2> HIDE DEF S
  <2>1. QED
    BY <1>1, <1>3, <1>4, Induct
<1>6. QED
  BY <1>1, <1>2, <1>5 DEF items, N1

(* A switch that succeeds with rules that can be read puts each item on    *)
(* the output of the first rule it matches, or the fallback, and on no     *)
(* other, whatever the items and the rules, which may differ from item to  *)
(* item.                                                                   *)
THEOREM SwitchSendsEachOnce == CallSpec => []SwitchRoutesOnce
<1>1. CallInv => SwitchRoutesOnce
  <2> SUFFICES ASSUME CallInv, Answered("switch"), call.mode = "rules", result.status = "success",
                      \A k \in DOMAIN call.items : Evaluated(k)
               PROVE  /\ \A k \in DOMAIN result.lists : InOrder(Listed(result.lists[k]), call.items)
                      /\ \A k \in DOMAIN call.items :
                           LET rules == call.rules[k]
                               hits == {m \in DOMAIN rules :
                                          CompareOperation(rules[m].op, call.value1[k], rules[m].value2) = "true"}
                           IN  OutputsOf(call.items[k]) =
                                 IF hits # {} THEN {m \in hits : \A l \in hits : m <= l}
                                 ELSE IF call.fallback[k] = -1 THEN {} ELSE {call.fallback[k] + 1}
    BY DEF SwitchRoutesOnce
  <2> DEFINE items == call.items
             top == Len(items)
  <2>1. call \in SwitchCalls /\ result = SwitchExecute(call.items, call)
    BY DEF CallInv, Answered
  <2>2. /\ top \in Nat /\ DOMAIN items = 1 .. top /\ Error \notin Int
        /\ \A k, m \in DOMAIN items : items[k] = items[m] => k = m
    BY <2>1, SwitchAssumption
  <2>3. ASSUME NEW k \in DOMAIN call.items PROVE RulesRead(call, k)
    <3>1. call.rules[k] # Error /\ call.value1[k] # Error /\ call.fallback[k] \in -1 .. Len(call.rules[k]) - 1
      BY <2>3 DEF Evaluated
    <3>2. call.rules[k] \in Seq(ToSet(call.rules[k]))
      BY <2>1, <3>1, SwitchAssumption
    <3>3. Len(call.rules[k]) \in Nat /\ DOMAIN call.rules[k] = 1 .. Len(call.rules[k])
      BY <3>2
    <3>4. call.fallback[k] \in Int
      BY <3>1, <3>3
    <3>5. QED
      BY <2>2, <3>1, <3>3, <3>4 DEF RulesRead
  <2>4. Routed(result.lists, items, call, top)
    BY <2>1, <2>3, SwitchRoutes
  <2> HIDE DEF items, top
  <2>5. ASSUME NEW o \in DOMAIN result.lists PROVE InOrder(Listed(result.lists[o]), items)
    <3> DEFINE list == Listed(result.lists[o])
    <3>1. ListHolds(list, items, call, o, top)
      BY <2>4 DEF Routed
    <3>2. ToSet(list) \subseteq ToSet(items)
      <4>1. list \in Seq(ToSet(items))
        BY <3>1 DEF ListHolds
      <4>2. \A a \in DOMAIN list : list[a] \in ToSet(items)
        BY <4>1
      <4>3. QED
        BY <4>2 DEF ToSet
    <3>3. \A a, b \in DOMAIN list : a < b => \E m, p \in DOMAIN items : m < p /\ items[m] = list[a] /\ items[p] = list[b]
      BY <2>2, <3>1 DEF ListHolds, Ordered
    <3>4. QED
      BY <3>2, <3>3 DEF InOrder
  <2>6. ASSUME NEW k \in DOMAIN items
        PROVE  OutputsOf(items[k]) = IF Target(call, k) = 0 THEN {} ELSE {Target(call, k)}
    <3>1. ASSUME NEW o \in DOMAIN result.lists, items[k] \in ToSet(Listed(result.lists[o])) PROVE o = Target(call, k)
      <4> DEFINE list == Listed(result.lists[o])
      <4>1. ListHolds(list, items, call, o, top)
        BY <2>4 DEF Routed
      <4>2. PICK a \in DOMAIN list : list[a] = items[k]
        BY <3>1 DEF ToSet
      <4>3. PICK m \in 1 .. top : list[a] = items[m] /\ Target(call, m) = o
        BY <4>1, <4>2 DEF ListHolds
      <4>4. m = k
        BY <2>2, <4>2, <4>3
      <4>5. QED
        BY <4>3, <4>4
    <3>2. ASSUME Target(call, k) # 0
          PROVE  Target(call, k) \in DOMAIN result.lists /\ items[k] \in ToSet(Listed(result.lists[Target(call, k)]))
      <4>1. Target(call, k) \in DOMAIN result.lists /\ OnList(Listed(result.lists[Target(call, k)]), items, k)
        BY <2>2, <2>4, <3>2 DEF Routed
      <4>2. QED
        BY <4>1 DEF OnList, ToSet
    <3>3. 0 \notin DOMAIN result.lists
      BY <2>4 DEF Routed
    <3>4. QED
      BY <3>1, <3>2, <3>3 DEF OutputsOf
  <2>7. ASSUME NEW k \in DOMAIN items
        PROVE  OutputsOf(items[k]) =
                 IF HitsOf(call, k) # {} THEN {m \in HitsOf(call, k) : \A l \in HitsOf(call, k) : m <= l}
                 ELSE IF call.fallback[k] = -1 THEN {} ELSE {call.fallback[k] + 1}
    <3>1. RulesRead(call, k)
      BY <2>3 DEF items
    <3>2. CASE HitsOf(call, k) # {}
      <4>1. /\ Target(call, k) \in HitsOf(call, k) /\ Target(call, k) # 0
            /\ \A l \in HitsOf(call, k) : Target(call, k) <= l
        BY <3>1, <3>2, TargetOf
      <4>2. HitsOf(call, k) \subseteq Nat
        BY <3>1 DEF HitsOf, RulesRead
      <4>3. {m \in HitsOf(call, k) : \A l \in HitsOf(call, k) : m <= l} = {Target(call, k)}
        BY <4>1, <4>2
      <4>4. QED
        BY <2>6, <3>2, <4>1, <4>3
    <3>3. CASE HitsOf(call, k) = {}
      <4>1. call.fallback[k] \in Int /\ call.fallback[k] >= -1
        BY <3>1 DEF RulesRead
      <4>2. Target(call, k) = IF call.fallback[k] = -1 THEN 0 ELSE call.fallback[k] + 1
        BY <3>3 DEF Target
      <4>3. QED
        BY <2>6, <3>3, <4>1, <4>2
    <3>4. QED
      BY <3>2, <3>3
  <2>8. QED
    BY <2>5, <2>7 DEF HitsOf, items
<1>2. QED
  BY <1>1, CallInvariant, PTL
-----------------------------------------------------------------------------
(* Templates of the HTML node.                                             *)

LEMMA OneMore ==
  ASSUME NEW A, NEW n \in Nat, NEW e, \A j \in 1 .. n + 1 : e[j] \in A
  PROVE  [j \in 1 .. n |-> e[j]] \o <<e[n + 1]>> = [j \in 1 .. n + 1 |-> e[j]]
<1> DEFINE s == [j \in 1 .. n |-> e[j]]
           t == <<e[n + 1]>>
           u == [j \in 1 .. n + 1 |-> e[j]]
<1>1. s \in Seq(A) /\ Len(s) = n /\ t \in Seq(A) /\ Len(t) = 1 /\ t[1] = e[n + 1]
  <2>1. \A j \in 1 .. n : e[j] \in A
    OBVIOUS
  <2>2. s \in [1 .. n -> A]
    BY <2>1
  <2>3. e[n + 1] \in A
    OBVIOUS
  <2>4. QED
    BY <2>2, <2>3
<1>2. u \in Seq(A) /\ Len(u) = n + 1
  OBVIOUS
<1>3. \A j \in 1 .. n : s[j] = u[j]
  OBVIOUS
<1>4. u[n + 1] = e[n + 1]
  OBVIOUS
<1> HIDE DEF s, t, u
<1>5. s \o t \in Seq(A) /\ Len(s \o t) = n + 1 /\ DOMAIN (s \o t) = 1 .. n + 1
      /\ \A j \in 1 .. n + 1 : (s \o t)[j] = IF j <= n THEN s[j] ELSE t[j - n]
  <2>0. s \in Seq(A) /\ t \in Seq(A)
    BY <1>1
  <2>1. s \o t \in Seq(A) /\ Len(s \o t) = Len(s) + Len(t)
    BY <2>0, Concatenated, Zenon
  <2>2. \A j \in 1 .. Len(s) + Len(t) : (s \o t)[j] = IF j <= Len(s) THEN s[j] ELSE t[j - Len(s)]
    BY <2>0, Concatenated, Zenon
  <2>3. Len(s \o t) = n + 1 /\ DOMAIN (s \o t) = 1 .. n + 1
    BY <1>1, <2>1
  <2>4. QED
    BY <1>1, <2>1, <2>2, <2>3
<1>6. \A j \in 1 .. n + 1 : (s \o t)[j] = u[j]
  <2> TAKE j \in 1 .. n + 1
  <2>1. CASE j <= n
    BY <1>3, <1>5, <2>1
  <2>2. CASE ~(j <= n)
    <3>1. j = n + 1 /\ j - n = 1
      BY <2>2
    <3>2. QED
      BY <1>1, <1>4, <1>5, <2>2, <3>1
  <2>3. QED
    BY <2>1, <2>2
<1>7. DOMAIN u = 1 .. n + 1 /\ u = [j \in 1 .. n + 1 |-> u[j]]
  BY DEF u
<1>8. s \o t = [j \in 1 .. n + 1 |-> (s \o t)[j]]
  <2>1. PICK w : w = s \o t
    OBVIOUS
  <2>2. w \in Seq(A) /\ DOMAIN w = 1 .. n + 1
    BY <1>5, <2>1, Zenon
  <2>3. w = [j \in 1 .. n + 1 |-> w[j]]
    BY <2>2
  <2>4. QED
    BY <2>1, <2>3, Zenon
<1>9. QED
  BY <1>6, <1>7, <1>8 DEF s, t, u

(* Lists of one element each, put together.                                *)
Singles(n, e) == [k \in 1 .. n |-> <<e[k]>>]
Listing(n, e) == [k \in 1 .. n |-> e[k]]

LEMMA FlattenSingles ==
  ASSUME NEW A, NEW n \in Nat, NEW e, \A j \in 1 .. n : e[j] \in A
  PROVE  Html!FlattenSeq(Singles(n, e)) = Listing(n, e)
<1> DEFINE seqs == [k \in 1 .. n |-> <<e[k]>>]
           Turn(f, i) == IF i = 1 THEN seqs[i] ELSE f[i - 1] \o seqs[i]
           Whole(f) == [i \in 1 .. n |-> Turn(f, i)]
           Upto(i) == [j \in 1 .. i |-> e[j]]
           flatten == CHOOSE f : f = Whole(f)
<1>1. Len(seqs) = n
  OBVIOUS
<1>2. CASE n = 0
  BY <1>2 DEF Html!FlattenSeq, Singles, Listing
<1>3. CASE n # 0
  <2>1. Html!FlattenSeq(seqs) = flatten[n]
    BY <1>1, <1>3 DEF Html!FlattenSeq
  <2>2. \A i \in 1 .. n : seqs[i] = <<e[i]>>
    OBVIOUS
  <2>3. Upto(1) = <<e[1]>>
    OBVIOUS
  <2>4. ASSUME NEW i \in 1 .. n, i # 1 PROVE Upto(i - 1) \o <<e[i]>> = Upto(i)
    <3>1. PICK m \in Nat : m = i - 1 /\ m + 1 = i
      BY <2>4
    <3>2. \A j \in 1 .. m + 1 : e[j] \in A
      BY <3>1
    <3>3. [j \in 1 .. m |-> e[j]] \o <<e[m + 1]>> = [j \in 1 .. m + 1 |-> e[j]]
      BY <3>2, OneMore
    <3>4. QED
      BY <3>1, <3>3
  <2> HIDE DEF Upto, seqs
  <2> DEFINE g == [i \in 1 .. n |-> Upto(i)]
  <2>5. g = Whole(g)
    <3>1. ASSUME NEW i \in 1 .. n PROVE Turn(g, i) = Upto(i)
      <4>1. CASE i = 1
        BY <2>2, <2>3, <4>1
      <4>2. CASE i # 1
        <5>1. i - 1 \in 1 .. n
          BY <4>2
        <5>2. g[i - 1] = Upto(i - 1)
          BY <5>1
        <5>3. QED
          BY <2>2, <2>4, <4>2, <5>2
      <4>3. QED
        BY <4>1, <4>2
    <3> HIDE DEF Turn
    <3>2. QED
      BY <3>1
  <2>6. flatten = Whole(flatten)
    <3> HIDE DEF Whole, g
    <3>1. QED
      BY <2>5
  <2> HIDE DEF flatten
  <2>7. \A i \in 1 .. n : flatten[i] = Turn(flatten, i)
    BY <2>6
  <2> DEFINE S == {i \in Nat : i + 1 <= n => flatten[i + 1] = Upto(i + 1)}
  <2>8. 0 \in S
    <3>1. 1 \in 1 .. n
      BY <1>3
    <3>2. flatten[1] = Upto(1)
      BY <2>2, <2>3, <2>7, <3>1
    <3>3. QED
      BY <3>2
  <2>9. ASSUME NEW i \in Nat, i \in S PROVE i + 1 \in S
    <3>1. CASE i + 2 <= n
      <4>1. PICK m \in 1 .. n : m = i + 2 /\ m - 1 = i + 1 /\ m # 1
        BY <3>1
      <4>2. flatten[m - 1] = Upto(m - 1)
        BY <2>9, <3>1, <4>1
      <4>3. flatten[m] = flatten[m - 1] \o <<e[m]>>
        BY <2>2, <2>7, <4>1
      <4>4. flatten[m] = Upto(m)
        BY <2>4, <4>1, <4>2, <4>3
      <4>5. (i + 1) + 1 = m
        BY <4>1
      <4>6. QED
        BY <4>4, <4>5
    <3>2. CASE ~(i + 2 <= n)
      BY <3>2
    <3>3. QED
      BY <3>1, <3>2
  <2>10. n - 1 \in S
    <3> HIDE DEF S
    <3>1. n - 1 \in Nat
      BY <1>3
    <3>2. QED
      BY <2>8, <2>9, <3>1, Induct
  <2>11. flatten[n] = Upto(n)
    BY <1>3, <2>10
  <2>12. QED
    BY <2>1, <2>11 DEF Upto, seqs, Singles, Listing
<1>4. QED
  BY <1>2, <1>3

(* However many templates fail, a call that succeeds answers every item,   *)
(* in its place.                                                           *)
THEOREM TemplatesInOrder == CallSpec => []TemplatePerItem
<1>1. CallInv => TemplatePerItem
  <2> SUFFICES ASSUME CallInv, Answered("html"), call.operation = "generateHtmlTemplate", result.status = "success"
               PROVE  result.items = [k \in DOMAIN call.html |-> <<IF call.html[k] = "error" THEN "error" ELSE "html", k>>]
    BY DEF TemplatePerItem
  <2>1. call \in HtmlCalls /\ result = Html!HtmlExecute(call)
    BY DEF CallInv, Answered
  <2>2. result = Html!Generate(call)
    BY <2>1, Zenon DEF Html!HtmlExecute
  <2>3. Html!NodePanics.status # "success" /\ Html!NodeFailed.status # "success"
    BY DEF Html!NodePanics, Html!NodeFailed
  <2> DEFINE n == Len(call.html)
             e == [k \in 1 .. n |-> <<IF call.html[k] = "error" THEN "error" ELSE "html", k>>]
             answers == [k \in DOMAIN call.html |->
                           IF call.html[k] = "error" THEN Html!ErrorItem(k) ELSE << <<"html", k>> >>]
  <2>4. n \in Nat /\ DOMAIN call.html = 1 .. n
    BY <2>1, HtmlAssumption
  <2>5. result = Html!Success(Html!FlattenSeq(answers))
    <3>1. result \in {Html!NodePanics, Html!NodeFailed, Html!Success(Html!FlattenSeq(answers))}
      BY <2>2 DEF Html!Generate
    <3> HIDE DEF answers
    <3>2. QED
      BY <2>3, <3>1
  <2>6. answers = Singles(n, e)
    <3>1. \A k \in 1 .. n : (IF call.html[k] = "error" THEN Html!ErrorItem(k) ELSE << <<"html", k>> >>) = <<e[k]>>
      BY DEF Html!ErrorItem
    <3> HIDE DEF e, n
    <3>2. QED
      BY <2>4, <3>1 DEF Singles
  <2>7. Html!FlattenSeq(Singles(n, e)) = Listing(n, e)
    <3> DEFINE A == {e[k] : k \in 1 .. n}
    <3>1. \A k \in 1 .. n : e[k] \in A
      OBVIOUS
    <3> HIDE DEF A, e, n
    <3>2. n \in Nat
      BY <2>4
    <3>3. QED
      BY <3>1, <3>2, FlattenSingles, Zenon
  <2>8. result.items = Listing(n, e)
    <3> HIDE DEF answers, e, n
    <3>1. QED
      BY <2>5, <2>6, <2>7 DEF Html!Success
  <2>9. QED
    BY <2>4, <2>8 DEF Listing
<1>2. QED
  BY <1>1, CallInvariant, PTL
-----------------------------------------------------------------------------
(* Filters.                                                                *)

LEMMA ReverseSet ==
  ASSUME NEW A, NEW s \in Seq(A)
  PROVE  /\ DOMAIN Reverse(s) = DOMAIN s
         /\ \A i \in DOMAIN s : \E j \in DOMAIN s : Reverse(s)[i] = s[j]
         /\ \A j \in DOMAIN s : \E i \in DOMAIN s : Reverse(s)[i] = s[j]
<1>1. Len(s) \in Nat /\ DOMAIN s = 1 .. Len(s)
  OBVIOUS
<1>2. DOMAIN Reverse(s) = 1 .. Len(s) /\ \A i \in 1 .. Len(s) : Reverse(s)[i] = s[(Len(s) - i) + 1]
  BY DEF Reverse
<1>3. ASSUME NEW i \in 1 .. Len(s)
      PROVE  (Len(s) - i) + 1 \in 1 .. Len(s) /\ (Len(s) - ((Len(s) - i) + 1)) + 1 = i
  BY <1>1
<1>4. ASSUME NEW i \in DOMAIN s PROVE \E j \in DOMAIN s : Reverse(s)[i] = s[j]
  <2>1. PICK j \in 1 .. Len(s) : j = (Len(s) - i) + 1
    BY <1>1, <1>3
  <2>2. QED
    BY <1>1, <1>2, <2>1
<1>5. ASSUME NEW j \in DOMAIN s PROVE \E i \in DOMAIN s : Reverse(s)[i] = s[j]
  <2>1. PICK i \in 1 .. Len(s) : i = (Len(s) - j) + 1 /\ (Len(s) - i) + 1 = j
    BY <1>1, <1>3
  <2>2. QED
    BY <1>1, <1>2, <2>1
<1>6. QED
  BY <1>1, <1>2, <1>4, <1>5

LEMMA TurnedSays ==
  ASSUME NEW f, f.filter => /\ DOMAIN f = {"filter", "combinator", "conditions", "caseSensitive"}
                            /\ f.conditions \in Seq(ToSet(f.conditions))
  PROVE  ExtractFilter(Turned(f)) = ExtractFilter(f)
<1>1. CASE ~f.filter
  BY <1>1 DEF Turned
<1>2. CASE f.filter
  <2> DEFINE g == [f EXCEPT !.conditions = Reverse(@)]
             Says(cs, k) == ExecuteFilterCondition(cs[k], ~f.caseSensitive)
             SaidOf(cs) == [k \in DOMAIN cs |-> Says(cs, k)]
  <2>1. Turned(f) = g
    BY <1>2 DEF Turned
  <2>2. /\ g.conditions = Reverse(f.conditions) /\ g.filter = f.filter /\ g.combinator = f.combinator
        /\ g.caseSensitive = f.caseSensitive
    BY <1>2
  <2> HIDE DEF g
  <2>3. ExtractFilter(g) = Combine(f.combinator, SaidOf(Reverse(f.conditions)))
    BY <1>2, <2>2 DEF ExtractFilter, ExecuteFilter
  <2>4. ExtractFilter(f) = Combine(f.combinator, SaidOf(f.conditions))
    BY <1>2 DEF ExtractFilter, ExecuteFilter
  <2>5. ToSet(SaidOf(Reverse(f.conditions))) = ToSet(SaidOf(f.conditions))
    <3> DEFINE s == f.conditions
               r == Reverse(s)
    <3>1. /\ DOMAIN r = DOMAIN s
          /\ \A i \in DOMAIN s : \E j \in DOMAIN s : r[i] = s[j]
          /\ \A j \in DOMAIN s : \E i \in DOMAIN s : r[i] = s[j]
      BY <1>2, ReverseSet
    <3> HIDE DEF s, r
    <3>2. ASSUME NEW v PROVE v \in ToSet(SaidOf(s)) <=> \E j \in DOMAIN s : v = Says(s, j)
      BY DEF ToSet
    <3>3. ASSUME NEW v PROVE v \in ToSet(SaidOf(r)) <=> \E j \in DOMAIN s : v = Says(r, j)
      BY <3>1 DEF ToSet
    <3>4. ASSUME NEW i \in DOMAIN s PROVE /\ \E j \in DOMAIN s : Says(r, i) = Says(s, j)
                                          /\ \E j \in DOMAIN s : Says(s, i) = Says(r, j)
      BY <3>1
    <3> HIDE DEF Says, SaidOf
    <3>5. ToSet(SaidOf(r)) \subseteq ToSet(SaidOf(s))
      BY <3>2, <3>3, <3>4
    <3>6. ToSet(SaidOf(s)) \subseteq ToSet(SaidOf(r))
      BY <3>2, <3>3, <3>4
    <3>7. QED
      BY <3>5, <3>6 DEF s, r
  <2> HIDE DEF SaidOf
  <2>6. QED
    BY <2>1, <2>3, <2>4, <2>5 DEF Combine
<1>3. QED
  BY <1>1, <1>2

(* An If divides its items the same way in whatever order the conditions   *)
(* of its filters stand, also where some of them cannot be evaluated.      *)
THEOREM OrderOfConditionsIsFree == CallSpec => []ConditionOrderFree
<1>1. CallInv => ConditionOrderFree
  <2> SUFFICES ASSUME CallInv, Answered("if")
               PROVE  result = IfExecute(call.items, [k \in DOMAIN call.items |-> Turned(call.conditions[k])],
                                         call.continueOnFail)
    BY DEF ConditionOrderFree
  <2>1. call \in FilterCalls /\ result = IfExecute(call.items, call.conditions, call.continueOnFail)
    BY DEF CallInv, Answered
  <2> DEFINE turned == [k \in DOMAIN call.items |-> Turned(call.conditions[k])]
  <2>2. \A k \in DOMAIN call.items : ExtractFilter(turned[k]) = ExtractFilter(call.conditions[k])
    <3> TAKE k \in DOMAIN call.items
    <3>1. ExtractFilter(Turned(call.conditions[k])) = ExtractFilter(call.conditions[k])
      BY <2>1, FilterAssumption, TurnedSays
    <3>2. QED
      BY <3>1
  <2> HIDE DEF turned
  <2>3. [k \in DOMAIN call.items |-> ExtractFilter(turned[k])]
          = [k \in DOMAIN call.items |-> ExtractFilter(call.conditions[k])]
    BY <2>2
  <2>4. IfExecute(call.items, turned, call.continueOnFail)
          = IfExecute(call.items, call.conditions, call.continueOnFail)
    BY <2>3, Zenon DEF IfExecute
  <2>5. QED
    BY <2>1, <2>4 DEF turned
<1>2. QED
  BY <1>1, CallInvariant, PTL
-----------------------------------------------------------------------------
(* An operation and its opposite, type by type.                            *)

LEMMA OnNumbersOpposed ==
  ASSUME NEW l \in Int, NEW r \in Int
  PROVE  /\ OnNumbers("notEquals", l, r) <=> ~OnNumbers("equals", l, r)
         /\ OnNumbers("lte", l, r) <=> ~OnNumbers("gt", l, r)
         /\ OnNumbers("lt", l, r) <=> ~OnNumbers("gte", l, r)
<1>1. /\ OnNumbers("equals", l, r) <=> l = r
      /\ OnNumbers("notEquals", l, r) <=> l # r
  BY Zenon DEF OnNumbers
<1>2. OnNumbers("gt", l, r) <=> l > r
  BY Zenon DEF OnNumbers
<1>3. OnNumbers("lt", l, r) <=> l < r
  BY Zenon DEF OnNumbers
<1>4. OnNumbers("gte", l, r) <=> l >= r
  BY Zenon DEF OnNumbers
<1>5. OnNumbers("lte", l, r) <=> l <= r
  BY Zenon DEF OnNumbers
<1>6. QED
  BY <1>1, <1>2, <1>3, <1>4, <1>5

LEMMA OnDatesOpposed ==
  ASSUME NEW l \in Int, NEW r \in Int
  PROVE  /\ OnDates("notEquals", l, r) <=> ~OnDates("equals", l, r)
         /\ OnDates("beforeEquals", l, r) <=> ~OnDates("after", l, r)
         /\ OnDates("before", l, r) <=> ~OnDates("afterEquals", l, r)
<1>1. /\ OnDates("equals", l, r) <=> l = r
      /\ OnDates("notEquals", l, r) <=> l # r
  BY Zenon DEF OnDates
<1>2. OnDates("after", l, r) <=> l > r
  BY Zenon DEF OnDates
<1>3. OnDates("before", l, r) <=> l < r
  BY Zenon DEF OnDates
<1>4. OnDates("afterEquals", l, r) <=> l = r \/ l > r
  BY Zenon DEF OnDates
<1>5. OnDates("beforeEquals", l, r) <=> l = r \/ l < r
  BY Zenon DEF OnDates
<1>6. QED
  BY <1>1, <1>2, <1>3, <1>4, <1>5

StringPairs ==
  {<<"equals", "notEquals">>, <<"contains", "notContains">>, <<"startsWith", "notStartsWith">>,
   <<"endsWith", "notEndsWith">>, <<"regex", "notRegex">>}

LEMMA StringTestOpposed ==
  ASSUME NEW l, NEW r, NEW p \in StringPairs
  PROVE  StringTest(p[2], l, r) <=> ~StringTest(p[1], l, r)
<1>1. StringTest("notEquals", l, r) <=> ~StringTest("equals", l, r)
  BY Zenon DEF StringTest
<1>2. StringTest("notContains", l, r) <=> ~StringTest("contains", l, r)
  BY Zenon DEF StringTest
<1>3. StringTest("notStartsWith", l, r) <=> ~StringTest("startsWith", l, r)
  BY Zenon DEF StringTest
<1>4. StringTest("notEndsWith", l, r) <=> ~StringTest("endsWith", l, r)
  BY Zenon DEF StringTest
<1>5. StringTest("notRegex", l, r) <=> ~StringTest("regex", l, r)
  BY Zenon DEF StringTest
<1>6. QED
  BY <1>1, <1>2, <1>3, <1>4, <1>5 DEF StringPairs

LEMMA OnStringsOpposed ==
  ASSUME NEW l, NEW r, NEW ic, NEW p \in StringPairs
  PROVE  OnStrings(p[2], ic, l, r) <=> ~OnStrings(p[1], ic, l, r)
<1>1. p[1] \in {"regex", "notRegex"} <=> p[2] \in {"regex", "notRegex"}
  BY DEF StringPairs
<1>2. \A a, b : StringTest(p[2], a, b) <=> ~StringTest(p[1], a, b)
  BY StringTestOpposed
<1>3. QED
  BY <1>1, <1>2, Zenon DEF OnStrings

LengthPairs ==
  {<<"lengthEquals", "lengthNotEquals">>, <<"lengthGt", "lengthLte">>, <<"lengthGte", "lengthLt">>}

(* Verdicts that are opposite.                                             *)
Differ(v, w) == v = "error" \/ (v \in {"true", "false"} /\ w = Verdict(v = "false"))

LEMMA ArrayTestOpposed ==
  ASSUME NEW e, NEW right, Len(e) \in Nat, IsValue(right),
         NEW p \in LengthPairs \cup {<<"contains", "notContains">>, <<"empty", "notEmpty">>}
  PROVE  Differ(ArrayTest(p[1], e, right), ArrayTest(p[2], e, right))
<1>1. CASE p = <<"contains", "notContains">>
  <2>1. /\ ArrayTest("contains", e, right) = Verdict(right \in ToSet(e))
        /\ ArrayTest("notContains", e, right) = Verdict(right \notin ToSet(e))
    BY Zenon DEF ArrayTest, LengthOps
  <2>2. QED
    BY <1>1, <2>1 DEF Differ, Verdict
<1>2. CASE p = <<"empty", "notEmpty">>
  <2>1. /\ ArrayTest("empty", e, right) = Verdict(Len(e) = 0)
        /\ ArrayTest("notEmpty", e, right) = Verdict(Len(e) # 0)
    BY Zenon DEF ArrayTest, LengthOps
  <2>2. QED
    BY <1>2, <2>1 DEF Differ, Verdict
<1>3. CASE p \in LengthPairs /\ ~Ok(right.int)
  <2>1. \A op \in LengthOps : ArrayTest(op, e, right) = "error"
    BY <1>3, Zenon DEF ArrayTest, LengthOps
  <2>2. p[1] \in LengthOps
    BY <1>3 DEF LengthPairs, LengthOps
  <2>3. QED
    BY <2>1, <2>2 DEF Differ
<1>4. CASE p \in LengthPairs /\ Ok(right.int)
  <2> DEFINE n == Len(e)
             m == right.int[1]
  <2>1. n \in Int /\ m \in Int
    BY <1>4 DEF IsValue
  <2>2. /\ ArrayTest("lengthEquals", e, right) = Verdict(n = m)
        /\ ArrayTest("lengthNotEquals", e, right) = Verdict(n # m)
    BY <1>4, Zenon DEF ArrayTest, LengthOps
  <2>3. /\ ArrayTest("lengthGt", e, right) = Verdict(n > m)
        /\ ArrayTest("lengthLte", e, right) = Verdict(n <= m)
    BY <1>4, Zenon DEF ArrayTest, LengthOps
  <2>4. /\ ArrayTest("lengthGte", e, right) = Verdict(n >= m)
        /\ ArrayTest("lengthLt", e, right) = Verdict(n < m)
    BY <1>4, Zenon DEF ArrayTest, LengthOps
  <2> HIDE DEF n, m
  <2>5. (n <= m <=> ~(n > m)) /\ (n < m <=> ~(n >= m))
    BY <2>1
  <2>6. QED
    BY <1>4, <2>2, <2>3, <2>4, <2>5 DEF LengthPairs, Differ, Verdict
<1>5. QED
  BY <1>1, <1>2, <1>3, <1>4

LEMMA BooleanTestOpposed ==
  ASSUME NEW left, NEW right, IsValue(left), IsValue(right), Ok(left.bool),
         NEW p \in {<<"true", "false">>, <<"equals", "notEquals">>}
  PROVE  Differ(BooleanTest(p[1], left, right), BooleanTest(p[2], left, right))
<1>1. left.bool \in {<<TRUE>>, <<FALSE>>}
  BY DEF IsValue
<1>2. /\ BooleanTest("true", left, right) = Verdict(left.bool[1])
      /\ BooleanTest("false", left, right) = Verdict(~left.bool[1])
  BY Zenon DEF BooleanTest
<1>3. CASE p = <<"true", "false">> /\ left.bool = <<TRUE>>
  <2>1. BooleanTest("true", left, right) = "true" /\ BooleanTest("false", left, right) = "false"
    BY <1>2, <1>3 DEF Verdict
  <2>2. QED
    BY <1>3, <2>1 DEF Differ, Verdict
<1>4. CASE p = <<"true", "false">> /\ left.bool = <<FALSE>>
  <2>1. BooleanTest("true", left, right) = "false" /\ BooleanTest("false", left, right) = "true"
    BY <1>2, <1>4 DEF Verdict
  <2>2. QED
    BY <1>4, <2>1 DEF Differ, Verdict
<1>5. CASE p = <<"equals", "notEquals">> /\ ~Ok(right.bool)
  <2>1. BooleanTest("equals", left, right) = "error"
    BY <1>5, Zenon DEF BooleanTest
  <2>2. QED
    BY <1>5, <2>1 DEF Differ
<1>6. CASE p = <<"equals", "notEquals">> /\ Ok(right.bool)
  <2>1. /\ BooleanTest("equals", left, right) = Verdict(left.bool = right.bool)
        /\ BooleanTest("notEquals", left, right) = Verdict(left.bool # right.bool)
    BY <1>6, Zenon DEF BooleanTest
  <2>2. QED
    BY <1>6, <2>1 DEF Differ, Verdict
<1>7. QED
  BY <1>1, <1>3, <1>4, <1>5, <1>6

(* What the evaluation of a condition comes to once both operands are      *)
(* there, type by type.                                                    *)
Tested(l, r, test) == IF ~(Ok(l) /\ Ok(r)) THEN "error" ELSE Verdict(test)

LEMMA TypedResult ==
  ASSUME NEW c, NEW ic, ~c.left.nil, ~c.right.nil
  PROVE  /\ c.type = "string" =>
              OfType(c, ic) = Tested(c.left.text, c.right.text,
                                     OnStrings(c.op, ic, c.left.text[1], c.right.text[1]))
         /\ c.type = "number" =>
              OfType(c, ic) = Tested(c.left.number, c.right.number,
                                     OnNumbers(c.op, c.left.number[1], c.right.number[1]))
         /\ c.type = "dateTime" =>
              OfType(c, ic) = Tested(c.left.date, c.right.date,
                                     OnDates(c.op, c.left.date[1], c.right.date[1]))
         /\ c.type = "boolean" =>
              OfType(c, ic) = IF Ok(c.left.bool) THEN BooleanTest(c.op, c.left, c.right) ELSE "error"
         /\ c.type = "array" =>
              OfType(c, ic) = IF Ok(c.left.array) THEN ArrayTest(c.op, c.left.array[1], c.right) ELSE "error"
         /\ c.type = "object" =>
              OfType(c, ic) = IF Ok(c.left.object) THEN ObjectTest(c.op, c.left.object[1]) ELSE "error"
<1>1. ASSUME c.type = "string"
      PROVE  OfType(c, ic) = Tested(c.left.text, c.right.text,
                                    OnStrings(c.op, ic, c.left.text[1], c.right.text[1]))
  BY <1>1, Zenon DEF OfType, Tested
<1>2. ASSUME c.type = "number"
      PROVE  OfType(c, ic) = Tested(c.left.number, c.right.number,
                                    OnNumbers(c.op, c.left.number[1], c.right.number[1]))
  BY <1>2, Zenon DEF OfType, Tested
<1>3. ASSUME c.type = "dateTime"
      PROVE  OfType(c, ic) = Tested(c.left.date, c.right.date,
                                    OnDates(c.op, c.left.date[1], c.right.date[1]))
  BY <1>3, Zenon DEF OfType, Tested
<1>4. ASSUME c.type = "boolean"
      PROVE  OfType(c, ic) = IF Ok(c.left.bool) THEN BooleanTest(c.op, c.left, c.right) ELSE "error"
  BY <1>4, Zenon DEF OfType
<1>5. ASSUME c.type = "array"
      PROVE  OfType(c, ic) = IF Ok(c.left.array) THEN ArrayTest(c.op, c.left.array[1], c.right) ELSE "error"
  BY <1>5, Zenon DEF OfType
<1>6. ASSUME c.type = "object"
      PROVE  OfType(c, ic) = IF Ok(c.left.object) THEN ObjectTest(c.op, c.left.object[1]) ELSE "error"
  BY <1>6, Zenon DEF OfType
<1>7. QED
  BY <1>1, <1>2, <1>3, <1>4, <1>5, <1>6, Zenon

(* The pairs of opposites among the operations of each type.               *)
LEMMA PairsOfType ==
  ASSUME NEW type \in DOMAIN Operations, NEW q \in Complements, q[1] \in OperationsOf(type),
         q # <<"exists", "notExists">>
  PROVE  /\ type = "string" => q \in StringPairs
         /\ type = "number" => q \in {<<"equals", "notEquals">>, <<"gt", "lte">>, <<"gte", "lt">>}
         /\ type = "dateTime" =>
              q \in {<<"equals", "notEquals">>, <<"after", "beforeEquals">>, <<"afterEquals", "before">>}
         /\ type = "boolean" => q \in {<<"true", "false">>, <<"equals", "notEquals">>}
         /\ type = "array" => q \in LengthPairs \cup {<<"contains", "notContains">>, <<"empty", "notEmpty">>}
         /\ type = "object" => q = <<"empty", "notEmpty">>
  BY DEF Operations, OperationsOf, Complements, StringPairs, LengthPairs, LengthOps

LEMMA OfTypeOpposed ==
  ASSUME NEW c, NEW d, NEW ic, NEW q \in Complements, q # <<"exists", "notExists">>,
         c.type \in DOMAIN Operations, c.op \in OperationsOf(c.type),
         IsValue(c.left), IsValue(c.right), ~c.left.nil, ~c.right.nil,
         c.op = q[1], d.op = q[2], d.type = c.type, d.left = c.left, d.right = c.right
  PROVE  Differ(OfType(c, ic), OfType(d, ic))
<1> DEFINE l == c.left
           r == c.right
<1>1. c.type \in {"string", "number", "dateTime", "boolean", "array", "object"}
  BY DEF Operations
<1>2. ASSUME NEW f, NEW g, NEW s, NEW t, t <=> ~s
      PROVE  Differ(Tested(f, g, s), Tested(f, g, t))
  BY <1>2 DEF Differ, Tested, Verdict
<1>3. CASE c.type = "string"
  <2>1. q \in StringPairs
    BY <1>3, PairsOfType
  <2>2. OnStrings(d.op, ic, l.text[1], r.text[1]) <=> ~OnStrings(c.op, ic, l.text[1], r.text[1])
    BY <2>1, OnStringsOpposed
  <2>3. QED
    BY <1>2, <1>3, <2>2, TypedResult
<1>4. CASE c.type = "number"
  <2>1. q \in {<<"equals", "notEquals">>, <<"gt", "lte">>, <<"gte", "lt">>}
    BY <1>4, PairsOfType
  <2>2. CASE Ok(l.number) /\ Ok(r.number)
    <3>1. l.number[1] \in Int /\ r.number[1] \in Int
      BY <2>2 DEF IsValue
    <3>2. OnNumbers(d.op, l.number[1], r.number[1]) <=> ~OnNumbers(c.op, l.number[1], r.number[1])
      BY <2>1, <3>1, OnNumbersOpposed
    <3>3. QED
      BY <1>2, <1>4, <3>2, TypedResult
  <2>3. CASE ~(Ok(l.number) /\ Ok(r.number))
    BY <1>4, <2>3, TypedResult DEF Tested, Differ
  <2>4. QED
    BY <2>2, <2>3
<1>5. CASE c.type = "dateTime"
  <2>1. q \in {<<"equals", "notEquals">>, <<"after", "beforeEquals">>, <<"afterEquals", "before">>}
    BY <1>5, PairsOfType
  <2>2. CASE Ok(l.date) /\ Ok(r.date)
    <3>1. l.date[1] \in Int /\ r.date[1] \in Int
      BY <2>2 DEF IsValue
    <3>2. OnDates(d.op, l.date[1], r.date[1]) <=> ~OnDates(c.op, l.date[1], r.date[1])
      BY <2>1, <3>1, OnDatesOpposed
    <3>3. QED
      BY <1>2, <1>5, <3>2, TypedResult
  <2>3. CASE ~(Ok(l.date) /\ Ok(r.date))
    BY <1>5, <2>3, TypedResult DEF Tested, Differ
  <2>4. QED
    BY <2>2, <2>3
<1>6. CASE c.type = "boolean"
  <2>1. q \in {<<"true", "false">>, <<"equals", "notEquals">>}
    BY <1>6, PairsOfType
  <2>2. Ok(l.bool) => Differ(BooleanTest(c.op, l, r), BooleanTest(d.op, l, r))
    BY <2>1, BooleanTestOpposed
  <2>3. QED
    BY <1>6, <2>2, TypedResult DEF Differ
<1>7. CASE c.type = "array"
  <2>1. q \in LengthPairs \cup {<<"contains", "notContains">>, <<"empty", "notEmpty">>}
    BY <1>7, PairsOfType
  <2>2. Ok(l.array) => Differ(ArrayTest(c.op, l.array[1], r), ArrayTest(d.op, l.array[1], r))
    BY <2>1, ArrayTestOpposed DEF IsValue
  <2>3. QED
    BY <1>7, <2>2, TypedResult DEF Differ
<1>8. CASE c.type = "object"
  <2>1. q = <<"empty", "notEmpty">>
    BY <1>8, PairsOfType
  <2>2. Differ(ObjectTest(c.op, l.object[1]), ObjectTest(d.op, l.object[1]))
    BY <2>1 DEF ObjectTest, Differ, Verdict
  <2>3. QED
    BY <1>8, <2>2, TypedResult DEF Differ
<1>9. QED
  BY <1>1, <1>3, <1>4, <1>5, <1>6, <1>7, <1>8

(* Where both operands are there, opposite operations give opposite        *)
(* verdicts, of whatever type the condition is.                            *)
LEMMA ConditionOpposed ==
  ASSUME NEW x \in ConditionCalls, NEW q \in Complements,
         ~x.c.left.nil, ~x.c.right.nil, x.c.op = q[1]
  PROVE  Differ(ExecuteFilterCondition(x.c, x.ignoreCase),
                ExecuteFilterCondition([x.c EXCEPT !.op = q[2]], x.ignoreCase))
<1> DEFINE c == x.c
           d == [x.c EXCEPT !.op = q[2]]
<1>1. /\ DOMAIN c = {"type", "op", "left", "right"} /\ c.type \in DOMAIN Operations
      /\ c.op \in OperationsOf(c.type) /\ IsValue(c.left) /\ IsValue(c.right)
  BY ConditionAssumption
<1>2. d.op = q[2] /\ d.type = c.type /\ d.left = c.left /\ d.right = c.right
  BY <1>1
<1> HIDE DEF d, c
<1>3. ~c.left.nil /\ ~c.right.nil /\ c.op = q[1]
  BY DEF c
<1>4. CASE q = <<"exists", "notExists">>
  <2>1. ExecuteFilterCondition(c, x.ignoreCase) = Verdict(~c.left.nil)
    <3>1. c.op = "exists"
      BY <1>3, <1>4
    <3>2. QED
      BY <3>1, Zenon DEF ExecuteFilterCondition
  <2>2. ExecuteFilterCondition(d, x.ignoreCase) = Verdict(d.left.nil)
    <3>1. d.op = "notExists"
      BY <1>2, <1>4
    <3>2. QED
      BY <3>1, Zenon DEF ExecuteFilterCondition
  <2>3. QED
    BY <1>2, <1>3, <2>1, <2>2 DEF Differ, Verdict, c, d
<1>5. CASE q # <<"exists", "notExists">>
  <2>1. q[1] \notin {"exists", "notExists"} /\ q[2] \notin {"exists", "notExists"}
    BY <1>5 DEF Complements
  <2>2. ASSUME NEW e, e.op \notin {"exists", "notExists"}, ~e.left.nil, ~e.right.nil
        PROVE  ExecuteFilterCondition(e, x.ignoreCase) = OfType(e, x.ignoreCase)
    <3>1. e.op # "exists" /\ e.op # "notExists" /\ TRUE \notin {e.left.nil, e.right.nil}
      BY <2>2
    <3>2. QED
      BY <3>1, Zenon DEF ExecuteFilterCondition
  <2>3. /\ ExecuteFilterCondition(c, x.ignoreCase) = OfType(c, x.ignoreCase)
        /\ ExecuteFilterCondition(d, x.ignoreCase) = OfType(d, x.ignoreCase)
    BY <1>2, <1>3, <2>1, <2>2
  <2>4. Differ(OfType(c, x.ignoreCase), OfType(d, x.ignoreCase))
    BY <1>1, <1>2, <1>3, <1>5, OfTypeOpposed
  <2>5. QED
    BY <2>3, <2>4 DEF c, d
<1>6. QED
  BY <1>4, <1>5

(* The two outputs of an If swap when its condition is turned round,       *)
(* whatever the operands are that are there and convert.                   *)
THEOREM OppositesSwap == CallSpec => []OppositesDiffer
<1>1. CallInv => OppositesDiffer
  <2> SUFFICES ASSUME CallInv, Answered("condition"), result # "error", ~call.c.left.nil, ~call.c.right.nil,
                      NEW q \in Complements, call.c.op = q[1]
               PROVE  ExecuteFilterCondition([call.c EXCEPT !.op = q[2]], call.ignoreCase)
                        = Verdict(result = "false")
    BY DEF OppositesDiffer
  <2>1. call \in ConditionCalls /\ result = ExecuteFilterCondition(call.c, call.ignoreCase)
    BY DEF CallInv, Answered
  <2>2. Differ(ExecuteFilterCondition(call.c, call.ignoreCase),
               ExecuteFilterCondition([call.c EXCEPT !.op = q[2]], call.ignoreCase))
    BY <2>1, ConditionOpposed
  <2>3. QED
    BY <2>1, <2>2 DEF Differ
<1>2. QED
  BY <1>1, CallInvariant, PTL

(* What an If decides depends on what its conditions say only.             *)
THEOREM ConditionsSayTheSame == CallSpec => []ConditionsConsistent
BY OppositesSwap, OrderOfConditionsIsFree, PTL DEF ConditionsConsistent

-----------------------------------------------------------------------------
(* HTTP requests.                                                          *)

LEMMA PartsComeFromParts ==
  ASSUME NEW p, p.contentType \in ContentTypes, Http!Body(p).status = "ok"
  PROVE  /\ Http!HasBody(p)
         /\ Http!Body(p).content # <<>> /\ Http!Body(p).content[1] = "parts" =>
              p.contentType = "multipart-form-data"
<1>1. ASSUME ~Http!HasBody(p) PROVE FALSE
  <2>1. Http!Body(p) = [status |-> "none"]
    BY <1>1, Zenon DEF Http!Body
  <2>2. QED
    BY <2>1
<1>2. ASSUME p.contentType = "form-urlencoded", Http!HasBody(p)
      PROVE  Http!Body(p).content[1] # "parts"
  <2>1. Http!Body(p) = [status |-> "ok", type |-> "application/x-www-form-urlencoded",
                        content |-> IF p.specifyBody = "string" THEN <<"text", p.body>>
                                    ELSE <<"form", Http!NormalParametersToMap(p.bodyParameters)>>]
    BY <1>2, Zenon DEF Http!Body
  <2>2. QED
    BY <2>1
<1>3. ASSUME p.contentType = "json", Http!HasBody(p)
      PROVE  Http!Body(p).content[1] # "parts"
  <2>1. Http!Body(p) = [status |-> "ok", type |-> "application/json",
                        content |-> IF p.specifyBody = "json" THEN <<"text", p.body>>
                                    ELSE <<"json", Http!ParametersToMap(p.bodyParameters, p.binaries)>>]
    BY <1>3, Zenon DEF Http!Body
  <2>2. QED
    BY <2>1
<1>4. ASSUME p.contentType = "binaryData", Http!HasBody(p)
      PROVE  Http!Body(p).content[1] # "parts"
  <2> DEFINE mime == p.binaries[p.inputDataFieldName].mimeType
             type == IF mime = "" THEN "application/octet-stream" ELSE mime
  <2>1. Http!Body(p) = IF p.inputDataFieldName \notin DOMAIN p.binaries THEN Http!Unsent
                       ELSE [status |-> "ok", type |-> type, content |-> <<"bytes", p.inputDataFieldName>>]
    BY <1>4, Zenon DEF Http!Body
  <2> HIDE DEF type
  <2>2. QED
    BY <2>1 DEF Http!Unsent
<1>5. ASSUME p.contentType = "raw", Http!HasBody(p)
      PROVE  Http!Body(p).content[1] # "parts"
  <2>1. Http!Body(p) = [status |-> "ok", type |-> p.rawContentType, content |-> <<"text", p.body>>]
    BY <1>5, Zenon DEF Http!Body
  <2>2. QED
    BY <2>1
<1>6. QED
  BY <1>1, <1>2, <1>3, <1>4, <1>5 DEF ContentTypes

LEMMA NoBodyIsNone ==
  ASSUME NEW p, ~Http!HasBody(p)
  PROVE  Http!Body(p).status = "none"
<1>1. Http!Body(p) = [status |-> "none"]
  BY Zenon DEF Http!Body
<1>2. QED
  BY <1>1

OwnHeaders(p) ==
  IF Http!Body(p).status = "ok" THEN Http!Put(Http!Nothing, "content-type", Http!Body(p).type)
  ELSE Http!Nothing

LEMMA WhatIsSent ==
  ASSUME NEW p, NEW r \in Http!RequestsOf(p), r.status = "sent"
  PROVE  \E u \in Http!UserHeaders(p) :
           /\ r.content = IF Http!Body(p).status = "ok" THEN Http!Body(p).content ELSE Http!Nothing
           /\ r.headers = Http!WithBoundary(p, Http!WithAccept(p, Http!Over(OwnHeaders(p), u)))
<1> DEFINE Sent(u) == [status |-> "sent", method |-> p.method, qs |-> Http!Query(p).qs,
                       content |-> IF Http!Body(p).status = "ok" THEN Http!Body(p).content ELSE Http!Nothing,
                       headers |-> Http!WithBoundary(p, Http!WithAccept(p, Http!Over(OwnHeaders(p), u)))]
<1>1. \/ r \in {[status |-> "panic"], Http!Unsent, [status |-> "unbuildable"]}
      \/ r \in {Sent(u) : u \in Http!UserHeaders(p)}
  BY Zenon DEF Http!RequestsOf, OwnHeaders
<1>2. r \in {Sent(u) : u \in Http!UserHeaders(p)}
  BY <1>1 DEF Http!Unsent
<1>3. QED
  BY <1>2

LEMMA HeadersGiven ==
  ASSUME NEW p, NEW u \in Http!UserHeaders(p), "content-type" \in DOMAIN u
  PROVE  \E n \in DOMAIN Http!Given(p) : p.lower[n] = "content-type"
BY Zenon DEF Http!UserHeaders

(* Whatever the parameters of a request and the headers of the user, parts *)
(* are sent with their boundary, and a method that takes no body is sent   *)
(* without one and with no content type but the user's.                    *)
THEOREM BoundaryAlwaysNamed == CallSpec => []PartsHaveBoundary
<1>1. CallInv => PartsHaveBoundary
  <2> SUFFICES ASSUME CallInv, Answered("request"), result.status = "sent"
               PROVE  /\ result.content # <<>> /\ result.content[1] = "parts" =>
                           result.headers["content-type"] = Http!PartsType
                      /\ call.method \notin Http!BodyMethods =>
                           /\ result.content = <<>>
                           /\ "content-type" \in DOMAIN result.headers =>
                                \E n \in DOMAIN Http!Given(call) : call.lower[n] = "content-type"
    BY DEF PartsHaveBoundary
  <2>1. call \in RequestCalls /\ result \in Http!RequestsOf(call)
    BY DEF CallInv, Answered
  <2>2. PICK u \in Http!UserHeaders(call) :
          /\ result.content = IF Http!Body(call).status = "ok" THEN Http!Body(call).content ELSE <<>>
          /\ result.headers = Http!WithBoundary(call, Http!WithAccept(call, Http!Over(OwnHeaders(call), u)))
    BY <2>1, WhatIsSent DEF Http!Nothing
  <2>3. ASSUME result.content # <<>>, result.content[1] = "parts"
        PROVE  result.headers["content-type"] = Http!PartsType
    <3>1. Http!Body(call).status = "ok" /\ Http!Body(call).content = result.content
      BY <2>2, <2>3
    <3>2. call.contentType \in ContentTypes
      BY <2>1, RequestAssumption
    <3>3. Http!HasBody(call) /\ call.contentType = "multipart-form-data"
      BY <2>3, <3>1, <3>2, PartsComeFromParts
    <3>4. QED
      BY <2>2, <3>3 DEF Http!WithBoundary, Http!Put
  <2>4. ASSUME call.method \notin Http!BodyMethods
        PROVE  /\ result.content = <<>>
               /\ "content-type" \in DOMAIN result.headers =>
                    \E n \in DOMAIN Http!Given(call) : call.lower[n] = "content-type"
    <3>1. ~Http!HasBody(call)
      BY <2>4 DEF Http!HasBody
    <3>2. Http!Body(call).status = "none"
      BY <3>1, NoBodyIsNone
    <3>3. result.content = <<>> /\ OwnHeaders(call) = <<>>
      BY <2>2, <3>2 DEF OwnHeaders, Http!Nothing
    <3>4. result.headers = Http!WithAccept(call, Http!Over(<<>>, u))
      BY <2>2, <3>1, <3>3 DEF Http!WithBoundary
    <3>5. DOMAIN Http!Over(<<>>, u) = DOMAIN u
      BY DEF Http!Over
    <3>6. DOMAIN result.headers \subseteq DOMAIN u \cup {"accept"}
      BY <3>4, <3>5 DEF Http!WithAccept, Http!Put
    <3>7. QED
      BY <3>3, <3>6, HeadersGiven
  <2>5. QED
    BY <2>3, <2>4
<1>2. QED
  BY <1>1, CallInvariant, PTL

-----------------------------------------------------------------------------
(* Schedules.                                                              *)

LEMMA NextMultiple ==
  ASSUME NEW n \in Nat \ {0}, NEW t \in Nat
  PROVE  \E u \in t .. t + n - 1 : u % n = 0
<1>1. t = n * (t \div n) + (t % n) /\ t % n \in 0 .. n - 1 /\ t \div n \in Nat
  OBVIOUS
<1>2. CASE t % n = 0
  BY <1>2
<1>3. CASE t % n # 0
  <2> DEFINE q == (t \div n) + 1
  <2>1. q \in Nat /\ n * q = n * (t \div n) + n
    BY <1>1
  <2>2. n * q \in t .. t + n - 1
    BY <1>1, <1>3, <2>1
  <2>3. (n * q) % n = 0
    BY <2>1
  <2>4. QED
    BY <2>2, <2>3
<1>4. QED
  BY <1>2, <1>3

LEMMA StepsFireEvery ==
  ASSUME NEW n \in Nat \ {0}, NEW period \in Nat \ {0}, NEW first \in Nat
  PROVE  /\ FiresEvery(n, Cron!Step(n), first, period)
         /\ FiresEvery(n, Cron!Always, first, period)
<1> SUFFICES ASSUME NEW t \in 0 .. period - 1
             PROVE  /\ \E u \in t .. t + n - 1 : Hits(Cron!Step(n), first + (u % period), first)
                    /\ \E u \in t .. t + n - 1 : Hits(Cron!Always, first + (u % period), first)
  BY DEF FiresEvery
<1>1. PICK u \in t .. t + n - 1 : u % n = 0
  <2>1. t \in Nat
    OBVIOUS
  <2>2. QED
    BY <2>1, NextMultiple, Zenon
<1>2. PICK w \in t .. t + n - 1 : (w % period) % n = 0
  <2>1. CASE u < period
    <3>1. u % period = u
      BY <2>1
    <3>2. QED
      BY <1>1, <3>1
  <2>2. CASE u >= period
    <3>1. period \in t .. t + n - 1
      BY <1>1, <2>2
    <3>2. period % period = 0 /\ 0 % n = 0
      OBVIOUS
    <3>3. QED
      BY <3>1, <3>2
  <2>3. QED
    BY <1>1, <2>1, <2>2
<1>3. (first + (w % period)) - first = w % period
  <2>1. w \in Nat
    BY <1>2
  <2>2. w % period \in Nat
    BY <2>1
  <2>3. QED
    BY <2>2
<1>4. Hits(Cron!Step(n), first + (w % period), first)
  BY <1>2, <1>3 DEF Hits, Cron!Step
<1>5. Hits(Cron!Always, first + (w % period), first)
  BY DEF Hits, Cron!Always
<1>6. QED
  BY <1>2, <1>4, <1>5

(* A field with one value of its period hits once in each.                 *)
LEMMA ValueFiresEvery ==
  ASSUME NEW field, NEW period \in {7, 24}, NEW v \in 0 .. period - 1, <<"at", v>> \in field
  PROVE  FiresEvery(period, field, 0, period)
<1> SUFFICES ASSUME NEW t \in 0 .. period - 1
             PROVE  \E u \in t .. t + period - 1 : Hits(field, 0 + (u % period), 0)
  BY DEF FiresEvery
<1> DEFINE u == IF v >= t THEN v ELSE v + period
<1>1. u \in t .. t + period - 1
  OBVIOUS
<1>2. u % period = v
  <2>1. CASE period = 7  BY <2>1
  <2>2. CASE period = 24  BY <2>2
  <2>3. QED  BY <2>1, <2>2
<1>3. 0 + (u % period) = v
  BY <1>2
<1>4. Hits(field, 0 + (u % period), 0)
  BY <1>3 DEF Hits
<1> HIDE DEF u
<1>5. QED
  BY <1>1, <1>4

(* A field of steps hits where they begin, and one of any value always.    *)
LEMMA StepsHit ==
  ASSUME NEW n \in Nat \ {0}, NEW field, field = Cron!Step(n) \/ (n = 1 /\ field = Cron!Always),
         NEW v \in Int, (v - 1) % n = 0
  PROVE  Hits(field, v, 1)
<1>1. Hits(Cron!Step(n), v, 1)
  BY DEF Hits, Cron!Step
<1>2. Hits(Cron!Always, v, 1)
  BY DEF Hits, Cron!Always
<1>3. QED
  BY <1>1, <1>2, Zenon

(* Steps of n days fire within n days, at the latest on a first.           *)
LEMMA DaysFireEvery ==
  ASSUME NEW n \in Nat \ {0}, result.month = Cron!Always,
         result.day = Cron!Step(n) \/ (n = 1 /\ result.day = Cron!Always)
  PROVE  FiresEveryDays(n)
<1> SUFFICES ASSUME NEW leap \in BOOLEAN, NEW month \in 1 .. 12, NEW day \in 1 .. DaysOf(month, leap)
             PROVE  \E d \in day .. day + n - 1 :
                      \/ d <= DaysOf(month, leap) /\ FiresOn(month, d)
                      \/ d = DaysOf(month, leap) + 1 /\ FiresOn(MonthAfter(month), 1)
  BY DEF FiresEveryDays
<1> DEFINE last == DaysOf(month, leap)
<1>1. last \in Nat /\ day \in Nat \ {0} /\ day <= last
  BY DEF DaysOf
<1>2. PICK u \in (day - 1) .. (day - 1) + n - 1 : u % n = 0
  <2>1. day - 1 \in Nat
    BY <1>1
  <2>2. QED
    BY <2>1, NextMultiple, Zenon
<1>3. \A m : Hits(result.month, m, 1)
  BY DEF Hits, Cron!Always
<1>4. Hits(result.day, u + 1, 1) /\ Hits(result.day, 1, 1)
  <2>1. u + 1 \in Int /\ 1 \in Int /\ (u + 1) - 1 = u /\ 1 - 1 = 0 /\ 0 % n = 0
    BY <1>1, <1>2
  <2>2. ((u + 1) - 1) % n = 0 /\ (1 - 1) % n = 0
    BY <1>2, <2>1
  <2>3. QED
    BY <2>1, <2>2, StepsHit, Zenon
<1> HIDE DEF last
<1>5. CASE u + 1 <= last
  <2>1. u + 1 \in day .. day + n - 1
    BY <1>1, <1>2
  <2>2. QED
    BY <1>3, <1>4, <1>5, <2>1 DEF FiresOn, last
<1>6. CASE u + 1 > last
  <2>1. last + 1 \in day .. day + n - 1
    BY <1>1, <1>2, <1>6
  <2>2. QED
    BY <1>3, <1>4, <2>1 DEF FiresOn, last
<1>7. QED
  BY <1>1, <1>2, <1>5, <1>6

(* A month that is hit and has the day fires.                              *)
LongMonths == {1, 3, 5, 7, 8, 10, 12}
LEMMA MonthFires ==
  ASSUME NEW month \in 1 .. 12, NEW day \in 1 .. 31, result.day = Cron!At(day),
         Hits(result.month, month, 1), day <= 28 \/ month \in LongMonths
  PROVE  FiresIn(month)
<1>1. \A leap \in BOOLEAN : day \in 1 .. DaysOf(month, leap)
  BY DEF DaysOf, LongMonths
<1>2. FiresOn(month, day)
  BY DEF FiresOn, Hits, Cron!At
<1>3. QED
  BY <1>1, <1>2 DEF FiresIn

LEMMA MonthsFireEvery ==
  ASSUME NEW n \in Nat \ {0}, NEW day \in 1 .. 31, result.day = Cron!At(day),
         result.month = Cron!Step(n) \/ (n = 1 /\ result.month = Cron!Always)
  PROVE  FiresEveryMonths(IF day <= 28 THEN n ELSE IF n = 1 THEN 2 ELSE 12)
<1>1. CASE day <= 28
  <2>1. FiresEvery(n, result.month, 1, 12)
    BY StepsFireEvery
  <2>2. SUFFICES ASSUME NEW t \in 0 .. 11 PROVE \E u \in t .. t + n - 1 : FiresIn(1 + (u % 12))
    BY <1>1 DEF FiresEveryMonths
  <2>3. PICK u \in t .. t + n - 1 : Hits(result.month, 1 + (u % 12), 1)
    BY <2>1 DEF FiresEvery
  <2>4. 1 + (u % 12) \in 1 .. 12
    BY <2>3
  <2>5. QED
    BY <1>1, <2>3, <2>4, MonthFires
<1>2. CASE day > 28 /\ n = 1
  <2>1. ASSUME NEW m \in 1 .. 12 PROVE Hits(result.month, m, 1)
    <3>1. m \in Int /\ (m - 1) % n = 0
      BY <1>2
    <3>2. QED
      BY <3>1, StepsHit, Zenon
  <2>2. \A m \in LongMonths : FiresIn(m)
    BY <2>1, MonthFires DEF LongMonths
  <2>3. SUFFICES ASSUME NEW t \in 0 .. 11 PROVE \E u \in t .. t + 2 - 1 : FiresIn(1 + (u % 12))
    BY <1>2 DEF FiresEveryMonths
  <2>4. t \in t .. t + 2 - 1 /\ t + 1 \in t .. t + 2 - 1
    OBVIOUS
  <2>5. 1 + (t % 12) \in LongMonths \/ 1 + ((t + 1) % 12) \in LongMonths
    BY DEF LongMonths
  <2>6. QED
    BY <2>2, <2>4, <2>5
<1>3. CASE day > 28 /\ n # 1
  <2>1. Hits(result.month, 1, 1)
    <3>1. 1 \in Int /\ (1 - 1) % n = 0
      OBVIOUS
    <3>2. QED
      BY <3>1, StepsHit, Zenon
  <2>2. FiresIn(1)
    BY <2>1, MonthFires DEF LongMonths
  <2>3. FiresEveryMonths(12)
    <3> SUFFICES ASSUME NEW t \in 0 .. 11 PROVE \E u \in t .. t + 12 - 1 : FiresIn(1 + (u % 12))
      BY DEF FiresEveryMonths
    <3>1. CASE t = 0
      <4>1. 0 \in t .. t + 12 - 1 /\ 1 + (0 % 12) = 1
        BY <3>1
      <4>2. QED
        BY <2>2, <4>1
    <3>2. CASE t # 0
      <4>1. 12 \in t .. t + 12 - 1 /\ 1 + (12 % 12) = 1
        BY <3>2
      <4>2. QED
        BY <2>2, <4>1
    <3>3. QED
      BY <3>1, <3>2
  <2>4. QED
    BY <1>3, <2>3
<1>4. QED
  BY <1>1, <1>2, <1>3

LEMMA OnThatDayOnly ==
  ASSUME NEW day, result.day = Cron!At(day), NEW month, NEW d, FiresOn(month, d)
  PROVE  d = day
BY DEF FiresOn, Hits, Cron!At

(* The first interval is filled with the defaults.                         *)
LEMMA IntervalFilled ==
  ASSUME NEW c \in ScheduleCalls
  PROVE  LET i == Head(Cron!SetDefaultValues(c))
         IN  \A f \in DOMAIN IntervalTypes : i[f] \in IntervalTypes[f]
<1> DEFINE D == Cron!Defaults
           WithDefaults(k) == [f \in DOMAIN D |-> IF f \in DOMAIN c[k] THEN c[k][f] ELSE D[f]]
<1>1. \A f \in DOMAIN IntervalTypes : f \in DOMAIN D /\ D[f] \in IntervalTypes[f]
  <2>1. DOMAIN IntervalTypes = {"hoursInterval", "daysInterval", "monthsInterval",
                                "triggerAtDayOfMonth", "triggerAtDay", "triggerAtHour"}
    BY DEF IntervalTypes
  <2>2. DOMAIN IntervalTypes \subseteq DOMAIN D
    BY <2>1, Zenon DEF Cron!Defaults
  <2>3. /\ D.hoursInterval = 1 /\ D.daysInterval = 1 /\ D.monthsInterval = 1
        /\ D.triggerAtDayOfMonth = 1 /\ D.triggerAtDay = <<0>> /\ D.triggerAtHour = 0
    BY Zenon DEF Cron!Defaults
  <2> HIDE DEF D
  <2>4. /\ D.hoursInterval \in Nat \ {0} /\ D.daysInterval \in Nat \ {0} /\ D.monthsInterval \in Nat \ {0}
        /\ D.triggerAtDayOfMonth \in 1 .. 31 /\ D.triggerAtDay \in Seq(0 .. 6) /\ D.triggerAtHour \in 0 .. 23
    BY <2>3
  <2>5. /\ IntervalTypes.hoursInterval = Nat \ {0} /\ IntervalTypes.daysInterval = Nat \ {0}
        /\ IntervalTypes.monthsInterval = Nat \ {0} /\ IntervalTypes.triggerAtDayOfMonth = 1 .. 31
        /\ IntervalTypes.triggerAtDay = Seq(0 .. 6) /\ IntervalTypes.triggerAtHour = 0 .. 23
    BY Zenon DEF IntervalTypes
  <2>6. QED
    BY <2>1, <2>2, <2>4, <2>5, Zenon
<1> HIDE DEF D
<1>2. CASE c = <<>>
  <2>1. Cron!SetDefaultValues(c) = <<D>>
    BY <1>2, Zenon DEF Cron!SetDefaultValues, D
  <2>2. QED
    BY <1>1, <2>1
<1>3. CASE c # <<>>
  <2>1. 1 \in DOMAIN c /\ \A f \in DOMAIN IntervalTypes \cap DOMAIN c[1] : c[1][f] \in IntervalTypes[f]
    BY <1>3, ScheduleAssumption
  <2>2. Cron!SetDefaultValues(c) = [k \in DOMAIN c |-> WithDefaults(k)]
    BY <1>3, Zenon DEF Cron!SetDefaultValues, D
  <2>3. Head(Cron!SetDefaultValues(c)) = WithDefaults(1)
    BY <2>1, <2>2
  <2>4. QED
    BY <1>1, <2>1, <2>3
<1>4. QED
  BY <1>2, <1>3

(* The fields of the expression that an interval is turned into.           *)
LEMMA CronOf ==
  ASSUME NEW i
  PROVE  /\ i.field = "hours" => Cron!GenerateCronExpression(i).hour = Cron!HoursBetween(i)
         /\ i.field = "days" =>
              /\ Cron!GenerateCronExpression(i).month = Cron!Always
              /\ Cron!GenerateCronExpression(i).day =
                   IF i.daysInterval = 1 THEN Cron!Always ELSE Cron!Step(i.daysInterval)
         /\ i.field = "weeks" =>
              Cron!GenerateCronExpression(i).weekday = Cron!Weekdays(i.triggerAtDay)
         /\ i.field = "months" =>
              /\ Cron!GenerateCronExpression(i).day = Cron!At(i.triggerAtDayOfMonth)
              /\ Cron!GenerateCronExpression(i).month =
                   IF i.monthsInterval = 1 THEN Cron!Always ELSE Cron!Step(i.monthsInterval)
<1> DEFINE minute == Cron!At(i.triggerAtMinute)
           hour == Cron!At(i.triggerAtHour)
           day == Cron!At(i.triggerAtDayOfMonth)
           any == Cron!Always
<1>1. ASSUME i.field = "hours" PROVE Cron!GenerateCronExpression(i).hour = Cron!HoursBetween(i)
  <2>1. Cron!GenerateCronExpression(i) = Cron!Cron(minute, Cron!HoursBetween(i), any, any, any)
    BY <1>1, Zenon DEF Cron!GenerateCronExpression
  <2>2. QED
    BY <2>1 DEF Cron!Cron
<1>2. ASSUME i.field = "days"
      PROVE  /\ Cron!GenerateCronExpression(i).month = any
             /\ Cron!GenerateCronExpression(i).day =
                  IF i.daysInterval = 1 THEN any ELSE Cron!Step(i.daysInterval)
  <2>1. Cron!GenerateCronExpression(i) =
          IF i.daysInterval = 1 THEN Cron!Cron(minute, hour, any, any, any)
          ELSE Cron!Cron(minute, hour, Cron!Step(i.daysInterval), any, any)
    BY <1>2, Zenon DEF Cron!GenerateCronExpression
  <2>2. QED
    BY <2>1 DEF Cron!Cron
<1>3. ASSUME i.field = "weeks"
      PROVE  Cron!GenerateCronExpression(i).weekday = Cron!Weekdays(i.triggerAtDay)
  <2>1. Cron!GenerateCronExpression(i) = Cron!Cron(minute, hour, any, any, Cron!Weekdays(i.triggerAtDay))
    BY <1>3, Zenon DEF Cron!GenerateCronExpression
  <2>2. QED
    BY <2>1 DEF Cron!Cron
<1>4. ASSUME i.field = "months"
      PROVE  /\ Cron!GenerateCronExpression(i).day = day
             /\ Cron!GenerateCronExpression(i).month =
                  IF i.monthsInterval = 1 THEN any ELSE Cron!Step(i.monthsInterval)
  <2>1. Cron!GenerateCronExpression(i) =
          IF i.monthsInterval = 1 THEN Cron!Cron(minute, hour, day, any, any)
          ELSE Cron!Cron(minute, hour, day, Cron!Step(i.monthsInterval), any)
    BY <1>4, Zenon DEF Cron!GenerateCronExpression
  <2>2. QED
    BY <2>1 DEF Cron!Cron
<1>5. QED
  BY <1>1, <1>2, <1>3, <1>4

LEMMA WeekdaysFireEvery ==
  ASSUME NEW days \in Seq(0 .. 6) PROVE FiresEvery(7, Cron!Weekdays(days), 0, 7)
<1>1. CASE days = <<>>
  BY <1>1, StepsFireEvery DEF Cron!Weekdays
<1>2. CASE days # <<>>
  <2>1. 1 \in DOMAIN days /\ days[1] \in 0 .. 7 - 1
    BY <1>2
  <2>2. days[1] \in Cron!ToSet(days)
    BY <2>1 DEF Cron!ToSet
  <2>3. <<"at", days[1]>> \in Cron!Weekdays(days)
    BY <1>2, <2>2, Zenon DEF Cron!Weekdays
  <2>4. QED
    BY <2>1, <2>3, ValueFiresEvery
<1>3. QED
  BY <1>1, <1>2

(* What a schedule of an interval leaves out, at most, for every interval: *)
(* with n hours (a day, if n is one) or n days, n hours or days; with days *)
(* of the week, a week; with n months, n months, if every month has the    *)
(* day, otherwise two months (n is one) or a year, and it fires on that    *)
(* day only.                                                               *)
THEOREM SilenceIsBounded == CallSpec => []FiresWithinInterval
<1>1. CallInv => FiresWithinInterval
  <2> SUFFICES ASSUME CallInv, Answered("scheduleTrigger") PROVE FiresWithinInterval
    BY DEF FiresWithinInterval
  <2> DEFINE i == Head(Cron!SetDefaultValues(call))
             months == IF i.triggerAtDayOfMonth <= 28 THEN i.monthsInterval
                       ELSE IF i.monthsInterval = 1 THEN 2 ELSE 12
  <2>1. call \in ScheduleCalls /\ result = Cron!GenerateCronExpression(i)
    BY DEF CallInv, Answered, Cron!Trigger
  <2>2. \A f \in DOMAIN IntervalTypes : i[f] \in IntervalTypes[f]
    BY <2>1, IntervalFilled
  <2> HIDE DEF i
  <2>3. /\ i.hoursInterval \in Nat \ {0} /\ i.daysInterval \in Nat \ {0} /\ i.monthsInterval \in Nat \ {0}
        /\ i.triggerAtDayOfMonth \in 1 .. 31 /\ i.triggerAtDay \in Seq(0 .. 6) /\ i.triggerAtHour \in 0 .. 23
    BY <2>2 DEF IntervalTypes
  <2>4. ASSUME i.field = "hours"
        PROVE  FiresEvery(IF i.hoursInterval = 1 THEN 24 ELSE i.hoursInterval, result.hour, 0, 24)
    <3>1. result.hour = Cron!HoursBetween(i)
      BY <2>1, <2>4, CronOf
    <3>2. CASE i.hoursInterval = 1
      <4>1. <<"at", i.triggerAtHour>> \in result.hour /\ i.triggerAtHour \in 0 .. 24 - 1
        BY <2>3, <3>1, <3>2 DEF Cron!HoursBetween, Cron!At
      <4>2. QED
        BY <3>2, <4>1, ValueFiresEvery
    <3>3. CASE i.hoursInterval # 1
      BY <2>3, <3>1, <3>3, StepsFireEvery DEF Cron!HoursBetween
    <3>4. QED
      BY <3>2, <3>3
  <2>5. ASSUME i.field = "days" PROVE FiresEveryDays(i.daysInterval)
    <3>1. /\ result.month = Cron!Always
          /\ result.day = IF i.daysInterval = 1 THEN Cron!Always ELSE Cron!Step(i.daysInterval)
      BY <2>1, <2>5, CronOf
    <3>2. QED
      BY <2>3, <3>1, DaysFireEvery
  <2>6. i.field = "weeks" => FiresEvery(7, result.weekday, 0, 7)
    BY <2>1, <2>3, CronOf, WeekdaysFireEvery
  <2>7. ASSUME i.field = "months"
        PROVE  /\ FiresEveryMonths(months)
               /\ \A month \in 1 .. 12, day \in 1 .. 31 : FiresOn(month, day) => day = i.triggerAtDayOfMonth
    <3>1. /\ result.day = Cron!At(i.triggerAtDayOfMonth)
          /\ result.month = IF i.monthsInterval = 1 THEN Cron!Always ELSE Cron!Step(i.monthsInterval)
      BY <2>1, <2>7, CronOf
    <3>2. FiresEveryMonths(months)
      BY <2>3, <3>1, MonthsFireEvery
    <3>3. QED
      BY <3>1, <3>2, OnThatDayOnly
  <2>8. QED
    BY <2>4, <2>5, <2>6, <2>7 DEF FiresWithinInterval, i
<1>2. QED
  BY <1>1, CallInvariant, PTL

-----------------------------------------------------------------------------
(* Merge and Aggregate.                                                    *)

DataInv ==
  /\ node = "merge" =>
       /\ call \in MergeCalls
       /\ result \in {Pending, Merge!Execute(call.p, call.heap, call.items1, call.items2)}
  /\ node = "aggregate" =>
       call \in AggregateCalls /\ result \in {Pending, Agg!AggregateExecute(call.p, call.items)}

LEMMA DataInitInv == DataInit => DataInv
BY DEF DataInit, CallInit, DataInv

LEMMA DataNextInv == DataInv /\ [DataNext]_callVars => DataInv'
<1> SUFFICES ASSUME DataInv, [DataNext]_callVars PROVE DataInv'
  OBVIOUS
<1>1. CASE ExecuteMerge
  BY <1>1 DEF ExecuteMerge, Answer, DataInv, Pending
<1>2. CASE ExecuteAggregate
  BY <1>2 DEF ExecuteAggregate, Answer, DataInv, Pending
<1>3. CASE CallNext
  BY <1>3 DEF CallNext, EvaluateCondition, ExecuteIf, ExecuteFilterNode, ExecuteSwitch, ExecuteLimit,
              ExecuteHtml, ScheduleCron, BuildRequest, ReadResponse, Answer, DataInv
<1>4. CASE UNCHANGED callVars
  BY <1>4 DEF callVars, DataInv, Pending
<1>5. QED
  BY <1>1, <1>2, <1>3, <1>4 DEF DataNext

LEMMA DataInvariant == DataSpec => []DataInv
BY DataInitInv, DataNextInv, PTL DEF DataSpec

(* The heap after each entry of mergeMatched.                              *)
Turns(p, heap, entries, h) ==
  /\ h[0] = heap
  /\ \A k \in 1 .. Len(entries) : h[k] = Merge!AfterEntry(p, h[k - 1], entries[k])
  /\ Merge!MergeMatched(p, heap, entries) =
       Merge!Result(h[Len(entries)],
         [k \in DOMAIN entries |-> Merge!New(Merge!MergeAll(p.clash, Merge!Objects(p, h[k], entries[k])))])

LEMMA HeapTurns ==
  ASSUME NEW p, NEW heap, NEW entries, Len(entries) \in Nat
  PROVE  \E h : Turns(p, heap, entries, h)
<1> DEFINE Turn(f, k) == IF k = 0 THEN heap ELSE Merge!AfterEntry(p, f[k - 1], entries[k])
           Good(n, f) == f = [k \in 0 .. n |-> Turn(f, k)]
           S == {n \in Nat : \E f : Good(n, f)}
<1>1. 0 \in S
  <2> DEFINE f == [k \in 0 .. 0 |-> heap]
  <2>1. \A k \in 0 .. 0 : Turn(f, k) = heap
    OBVIOUS
  <2>2. Good(0, f)
    BY <2>1
  <2>3. QED
    BY <2>2
<1>2. ASSUME NEW n \in Nat, n \in S PROVE n + 1 \in S
  <2>1. PICK f : Good(n, f)
    BY <1>2
  <2> DEFINE h == [k \in 0 .. n + 1 |-> IF k = n + 1 THEN Merge!AfterEntry(p, f[n], entries[n + 1]) ELSE f[k]]
  <2>2. ASSUME NEW k \in 0 .. n + 1 PROVE h[k] = Turn(h, k)
    <3>1. CASE k = n + 1
      <4>1. n \in 0 .. n + 1 /\ n # n + 1 /\ n + 1 # 0 /\ (n + 1) - 1 = n
        OBVIOUS
      <4>2. h[n] = f[n]
        BY <4>1
      <4>3. QED
        BY <3>1, <4>1, <4>2
    <3>2. CASE k # n + 1 /\ k # 0
      <4>1. k \in 0 .. n /\ k - 1 \in 0 .. n + 1 /\ k - 1 # n + 1
        BY <3>2
      <4>2. h[k - 1] = f[k - 1] /\ h[k] = f[k]
        BY <3>2, <4>1
      <4>3. f[k] = Turn(f, k)
        BY <2>1, <4>1
      <4>4. QED
        BY <3>2, <4>2, <4>3
    <3>3. CASE k = 0
      <4>1. 0 \in 0 .. n /\ 0 # n + 1
        OBVIOUS
      <4>2. f[0] = Turn(f, 0)
        BY <2>1, <4>1
      <4>3. QED
        BY <3>3, <4>1, <4>2
    <3>4. QED
      BY <3>1, <3>2, <3>3
  <2>3. h = [k \in 0 .. n + 1 |-> h[k]]
    OBVIOUS
  <2>4. Good(n + 1, h)
    <3> HIDE DEF h, Turn
    <3>1. QED
      BY <2>2, <2>3
  <2> HIDE DEF h, Good
  <2>5. QED
    BY <2>4
<1>3. Len(entries) \in S
  <2> HIDE DEF S
  <2>1. QED
    BY <1>1, <1>2, Induct
<1> DEFINE K == Len(entries)
           Whole(f) == [k \in 0 .. K |-> Turn(f, k)]
           g == CHOOSE f : f = Whole(f)
<1>4. \E f : f = Whole(f)
  BY <1>3
<1>5. g = Whole(g)
  <2> HIDE DEF Whole
  <2>1. QED
    BY <1>4
<1>6. Merge!MergeMatched(p, heap, entries) =
        Merge!Result(g[K], [k \in DOMAIN entries |->
                              Merge!New(Merge!MergeAll(p.clash, Merge!Objects(p, g[k], entries[k])))])
  BY DEF Merge!MergeMatched
<1> HIDE DEF g
<1>7. \A k \in 0 .. K : g[k] = Turn(g, k)
  BY <1>5
<1>8. \A k \in 1 .. K : k \in 0 .. K /\ k # 0
  OBVIOUS
<1>9. 0 \in 0 .. K
  OBVIOUS
<1>10. Turns(p, heap, entries, g)
  BY <1>6, <1>7, <1>8, <1>9 DEF Turns
<1>11. QED
  BY <1>10

(* Without suffixes merging changes no item.                               *)
LEMMA MergeLeavesHeap ==
  ASSUME NEW p, NEW heap, NEW entries, Len(entries) \in Nat, p.clash.resolve # "addSuffix"
  PROVE  Merge!MergeMatched(p, heap, entries).heap = heap
<1>1. PICK h : /\ h[0] = heap
               /\ \A k \in 1 .. Len(entries) : h[k] = Merge!AfterEntry(p, h[k - 1], entries[k])
               /\ Merge!MergeMatched(p, heap, entries).heap = h[Len(entries)]
  BY HeapTurns DEF Turns, Merge!Result
<1>2. Merge!ResolveClash(p) # "addSuffix"
  BY DEF Merge!ResolveClash
<1> DEFINE S == {k \in Nat : k <= Len(entries) => h[k] = heap}
<1>3. 0 \in S
  BY <1>1
<1>4. ASSUME NEW k \in Nat, k \in S PROVE k + 1 \in S
  <2>1. CASE k + 1 <= Len(entries)
    <3>1. k + 1 \in 1 .. Len(entries) /\ (k + 1) - 1 = k /\ h[k] = heap
      BY <1>4, <2>1
    <3>2. h[k + 1] = heap
      BY <1>1, <1>2, <3>1 DEF Merge!AfterEntry
    <3>3. QED
      BY <3>2
  <2>2. QED
    BY <2>1
<1> HIDE DEF S
<1>5. Len(entries) \in S
  BY <1>3, <1>4, Induct
<1>6. QED
  BY <1>1, <1>5 DEF S

LEMMA MergeFlattens == \A s : Merge!FlattenSeq(s) = FlattenSeq(s)
BY Zenon DEF Merge!FlattenSeq, FlattenSeq

(* Whose list each element comes from: the lists keep their order, and no  *)
(* element of them is lost.                                                *)
PutTogether(s, seqs, k) ==
  /\ \E o \in [DOMAIN s -> 1 .. k] :
       /\ \A a \in DOMAIN s : \E c \in DOMAIN seqs[o[a]] : s[a] = seqs[o[a]][c]
       /\ \A a, b \in DOMAIN s : a < b => o[a] <= o[b]
  /\ \A i \in 1 .. k : \A c \in DOMAIN seqs[i] : \E a \in DOMAIN s : s[a] = seqs[i][c]

LEMMA PutOneMore ==
  ASSUME NEW A, NEW k \in Nat \ {0}, NEW s \in Seq(A), NEW seqs, seqs[k] \in Seq(A), PutTogether(s, seqs, k - 1)
  PROVE  PutTogether(s \o seqs[k], seqs, k)
<1> DEFINE t == seqs[k]
           n == Len(s)
           m == Len(t)
<1>1. n \in Nat /\ m \in Nat /\ DOMAIN s = 1 .. n /\ DOMAIN t = 1 .. m
  OBVIOUS
<1> HIDE DEF n, m, t
<1> DEFINE w == s \o t
<1>2. /\ w \in Seq(A) /\ Len(w) = n + m /\ DOMAIN w = 1 .. n + m
      /\ \A j \in 1 .. n + m : w[j] = IF j <= n THEN s[j] ELSE t[j - n]
  <2>1. w \in Seq(A) /\ Len(w) = n + m /\ \A j \in 1 .. n + m : w[j] = IF j <= n THEN s[j] ELSE t[j - n]
    BY Concatenated DEF n, m, t
  <2> HIDE DEF w
  <2>2. QED
    BY <2>1
<1> HIDE DEF w
<1>3. PICK o \in [DOMAIN s -> 1 .. k - 1] :
        /\ \A a \in DOMAIN s : \E c \in DOMAIN seqs[o[a]] : s[a] = seqs[o[a]][c]
        /\ \A a, b \in DOMAIN s : a < b => o[a] <= o[b]
  BY DEF PutTogether
<1>4. \A i \in 1 .. k - 1 : \A c \in DOMAIN seqs[i] : \E a \in DOMAIN s : s[a] = seqs[i][c]
  BY DEF PutTogether
<1> DEFINE q == [a \in DOMAIN w |-> IF a <= n THEN o[a] ELSE k]
<1>5. \A a \in DOMAIN s : o[a] \in 1 .. k - 1 /\ a \in 1 .. n
  BY <1>1, <1>3
<1>6. q \in [DOMAIN w -> 1 .. k]
  <2>1. ASSUME NEW a \in DOMAIN w PROVE q[a] \in 1 .. k
    <3>1. CASE a <= n
      <4>1. a \in DOMAIN s
        BY <1>1, <1>2, <3>1
      <4>2. QED
        BY <1>5, <3>1, <4>1
    <3>2. CASE ~(a <= n)
      BY <3>2
    <3>3. QED
      BY <3>1, <3>2
  <2> HIDE DEF q
  <2>2. q = [a \in DOMAIN w |-> q[a]]
    BY DEF q
  <2>3. QED
    BY <2>1, <2>2
<1>7. ASSUME NEW a \in DOMAIN w PROVE \E c \in DOMAIN seqs[q[a]] : w[a] = seqs[q[a]][c]
  <2>1. CASE a <= n
    <3>1. a \in DOMAIN s /\ w[a] = s[a] /\ q[a] = o[a]
      BY <1>1, <1>2, <2>1
    <3>2. QED
      BY <1>3, <3>1
  <2>2. CASE ~(a <= n)
    <3>1. q[a] = k /\ w[a] = t[a - n] /\ a - n \in DOMAIN t
      BY <1>1, <1>2, <2>2
    <3>2. QED
      BY <3>1 DEF t
  <2>3. QED
    BY <2>1, <2>2
<1>8. ASSUME NEW a \in DOMAIN w, NEW b \in DOMAIN w, a < b PROVE q[a] <= q[b]
  <2>0. a \in Nat /\ b \in Nat
    BY <1>1, <1>2
  <2>1. CASE b <= n
    <3>1. a \in DOMAIN s /\ b \in DOMAIN s /\ q[a] = o[a] /\ q[b] = o[b]
      BY <1>1, <1>2, <1>8, <2>0, <2>1
    <3>2. QED
      BY <1>3, <1>8, <3>1
  <2>2. CASE ~(b <= n)
    <3>1. q[b] = k /\ q[a] \in 1 .. k
      BY <1>6, <2>2
    <3>2. QED
      BY <3>1
  <2>3. QED
    BY <2>1, <2>2
<1>9. ASSUME NEW i \in 1 .. k, NEW c \in DOMAIN seqs[i] PROVE \E a \in DOMAIN w : w[a] = seqs[i][c]
  <2>1. CASE i = k
    <3>1. c \in 1 .. m
      BY <1>1, <1>9, <2>1 DEF t
    <3>2. n + c \in DOMAIN w /\ w[n + c] = t[c]
      BY <1>1, <1>2, <3>1
    <3>3. QED
      BY <2>1, <3>2 DEF t
  <2>2. CASE i # k
    <3>1. i \in 1 .. k - 1
      BY <2>2
    <3>2. PICK a \in DOMAIN s : s[a] = seqs[i][c]
      BY <1>4, <1>9, <3>1
    <3>3. a \in DOMAIN w /\ w[a] = s[a]
      BY <1>1, <1>2
    <3>4. QED
      BY <3>2, <3>3
  <2>3. QED
    BY <2>1, <2>2
<1> HIDE DEF q
<1>10. PutTogether(w, seqs, k)
  BY <1>6, <1>7, <1>8, <1>9 DEF PutTogether
<1>11. QED
  BY <1>10 DEF w, t

LEMMA Flattened ==
  ASSUME NEW A, NEW n \in Nat, NEW seqs \in [1 .. n -> Seq(A)]
  PROVE  Merge!FlattenSeq(seqs) \in Seq(A) /\ PutTogether(Merge!FlattenSeq(seqs), seqs, n)
<1>1. PICK g : Joins(g, A, seqs, n) /\ Merge!FlattenSeq(seqs) = g[n]
  BY Flattening, MergeFlattens
<1> DEFINE S == {k \in Nat : k <= n => PutTogether(g[k], seqs, k)}
<1>2. 0 \in S
  <2>1. g[0] = <<>>
    BY <1>1 DEF Joins
  <2>2. PutTogether(<<>>, seqs, 0)
    <3>1. DOMAIN <<>> = {} /\ <<>> \in [DOMAIN <<>> -> 1 .. 0]
      OBVIOUS
    <3>2. \E o \in [DOMAIN <<>> -> 1 .. 0] :
            /\ \A a \in DOMAIN <<>> : \E c \in DOMAIN seqs[o[a]] : <<>>[a] = seqs[o[a]][c]
            /\ \A a, b \in DOMAIN <<>> : a < b => o[a] <= o[b]
      <4>1. /\ \A a \in DOMAIN <<>> : \E c \in DOMAIN seqs[<<>>[a]] : <<>>[a] = seqs[<<>>[a]][c]
            /\ \A a, b \in DOMAIN <<>> : a < b => <<>>[a] <= <<>>[b]
        BY <3>1, Zenon
      <4>2. QED
        BY <3>1, <4>1, Zenon
    <3>3. \A i \in 1 .. 0 : \A c \in DOMAIN seqs[i] : \E a \in DOMAIN <<>> : <<>>[a] = seqs[i][c]
      OBVIOUS
    <3>4. QED
      BY <3>2, <3>3, Zenon DEF PutTogether
  <2>3. QED
    BY <2>1, <2>2
<1>3. ASSUME NEW k \in Nat, k \in S PROVE k + 1 \in S
  <2>1. CASE k + 1 <= n
    <3>1. PICK m \in Nat \ {0} : m = k + 1 /\ m - 1 = k /\ m \in 1 .. n
      BY <2>1
    <3>2. PutTogether(g[m - 1], seqs, m - 1)
      <4>1. k <= n
        BY <3>1
      <4>2. PutTogether(g[k], seqs, k)
        BY <1>3, <4>1
      <4>3. QED
        BY <3>1, <4>2
    <3>6. g[m - 1] \in Seq(A) /\ seqs[m] \in Seq(A)
      <4>1. m - 1 \in 0 .. n
        BY <3>1
      <4>2. QED
        BY <1>1, <3>1, <4>1 DEF Joins
    <3>3. g[m] = g[m - 1] \o seqs[m]
      BY <1>1, <3>1 DEF Joins
    <3>4. PutTogether(g[m], seqs, m)
      BY <3>2, <3>3, <3>6, PutOneMore, Zenon
    <3>5. QED
      BY <3>1, <3>4
  <2>2. QED
    BY <2>1
<1> HIDE DEF S
<1>4. n \in S
  BY <1>2, <1>3, Induct
<1>5. QED
  BY <1>1, <1>4 DEF S, Joins

LEMMA SameCardinality == \A S : Merge!Cardinality(S) = Cardinality(S)
BY DEF Merge!Cardinality, Cardinality

LEMMA SameList == \A S : Merge!Ascending(S) = Ascending(S)
BY SameCardinality, Zenon DEF Merge!Ascending, Ascending

LEMMA MergeChooses == \A items, S : Merge!Chosen(items, S) = Chosen(items, S)
BY SameList, Zenon DEF Merge!Chosen, Chosen

(* findMatches: of each item of input 1 the positions it is joined with.   *)
Looked(p, heap, items1) == {k \in DOMAIN items1 : Merge!HasLookup(p, heap[items1[k]])}
FoundFor(p, heap, items1, items2) ==
  [k \in DOMAIN items1 |->
     IF k \in Looked(p, heap, items1) THEN Merge!FindEntryMatches(p, heap, heap[items1[k]], items2) ELSE {}]
Pairwise(p) == p.outputDataFrom = "both" \/ p.joinMode \in {"enrichInput1", "enrichInput2"}

PairOf(i, j) == [entry |-> i, matches |-> <<j>>]
Pairs(e, items1, items2, found) ==
  /\ \E o \in [DOMAIN e -> DOMAIN items1] :
       /\ \A a \in DOMAIN e : \E m \in found[o[a]] : e[a] = PairOf(items1[o[a]], items2[m])
       /\ \A a, b \in DOMAIN e : a < b => o[a] <= o[b]
  /\ \A k \in DOMAIN items1 : \A m \in found[k] : \E a \in DOMAIN e : e[a] = PairOf(items1[k], items2[m])

LEMMA FoundOnes ==
  ASSUME NEW p, NEW heap, NEW items1, NEW items2, NEW k \in DOMAIN items1
  PROVE  FoundFor(p, heap, items1, items2)[k] \in SUBSET DOMAIN items2
BY DEF FoundFor, Merge!FindEntryMatches

LEMMA PairsFound ==
  ASSUME NEW A, NEW p, NEW heap, NEW items1 \in Seq(A), NEW items2 \in Seq(A), Pairwise(p)
  PROVE  LET e == Merge!FindMatches(p, heap, items1, items2).entries
         IN  e \in Seq([entry : A, matches : Seq(A)]) /\ Pairs(e, items1, items2, FoundFor(p, heap, items1, items2))
<1> DEFINE found == FoundFor(p, heap, items1, items2)
           n == Len(items1)
           List(k) == LET c == Merge!Chosen(items2, found[k])
                      IN  [m \in DOMAIN c |-> PairOf(items1[k], c[m])]
           seqs == [k \in DOMAIN items1 |-> List(k)]
           E == [entry : A, matches : Seq(A)]
<1>1. Merge!FindMatches(p, heap, items1, items2).entries = Merge!FlattenSeq(seqs)
  BY Zenon DEF Merge!FindMatches, FoundFor, Looked, Pairwise, PairOf
<1>2. n \in Nat /\ DOMAIN items1 = 1 .. n
  OBVIOUS
<1>3. \A k \in DOMAIN items1 : found[k] \in SUBSET DOMAIN items2
  BY FoundOnes
<1> HIDE DEF found
<1>4. ASSUME NEW k \in DOMAIN items1
      PROVE  /\ List(k) \in Seq(E)
             /\ \A c \in DOMAIN List(k) : \E m \in found[k] : List(k)[c] = PairOf(items1[k], items2[m])
             /\ \A m \in found[k] : \E c \in DOMAIN List(k) : List(k)[c] = PairOf(items1[k], items2[m])
  <2> DEFINE c == Merge!Chosen(items2, found[k])
             ks == Ascending(found[k])
             l == [m \in DOMAIN c |-> PairOf(items1[k], c[m])]
  <2>1. c \in Seq(A) /\ IsChosen(c, items2, found[k], ks)
    BY <1>3, ChosenOnes, MergeChooses, Zenon
  <2>2. List(k) = l
    OBVIOUS
  <2> HIDE DEF c, ks
  <2>3. Len(c) \in Nat /\ DOMAIN c = 1 .. Len(c) /\ \A m \in DOMAIN c : PairOf(items1[k], c[m]) \in E
    BY <2>1 DEF PairOf
  <2>4. l \in Seq(E)
    BY <2>3
  <2>5. \A m \in DOMAIN c : ks[m] \in found[k] /\ c[m] = items2[ks[m]]
    BY <2>1 DEF IsChosen, Entries
  <2>6. \A m \in found[k] : \E a \in DOMAIN c : ks[a] = m
    BY <2>1 DEF IsChosen, Entries
  <2>7. DOMAIN l = DOMAIN c /\ \A m \in DOMAIN c : l[m] = PairOf(items1[k], c[m])
    OBVIOUS
  <2> HIDE DEF l, List
  <2>8. \A a \in DOMAIN l : \E m \in found[k] : l[a] = PairOf(items1[k], items2[m])
    BY <2>5, <2>7
  <2>9. \A m \in found[k] : \E a \in DOMAIN l : l[a] = PairOf(items1[k], items2[m])
    BY <2>5, <2>6, <2>7
  <2>10. QED
    BY <2>2, <2>4, <2>8, <2>9
<1> HIDE DEF List
<1>5. seqs \in [1 .. n -> Seq(E)] /\ DOMAIN seqs = 1 .. n /\ \A k \in 1 .. n : seqs[k] = List(k)
  BY <1>2, <1>4
<1> DEFINE e == Merge!FlattenSeq(seqs)
<1> HIDE DEF seqs, E
<1>6. e \in Seq(E) /\ PutTogether(e, seqs, n)
  BY <1>2, <1>5, Flattened, Zenon
<1> HIDE DEF e
<1>7. Pairs(e, items1, items2, found)
  <2>1. PICK o \in [DOMAIN e -> 1 .. n] :
          /\ \A a \in DOMAIN e : \E c \in DOMAIN seqs[o[a]] : e[a] = seqs[o[a]][c]
          /\ \A a, b \in DOMAIN e : a < b => o[a] <= o[b]
    BY <1>6 DEF PutTogether
  <2>2. ASSUME NEW a \in DOMAIN e PROVE \E m \in found[o[a]] : e[a] = PairOf(items1[o[a]], items2[m])
    <3>1. o[a] \in DOMAIN items1 /\ o[a] \in 1 .. n
      BY <1>2, <2>1
    <3>2. PICK c \in DOMAIN seqs[o[a]] : e[a] = seqs[o[a]][c]
      BY <2>1
    <3>3. QED
      BY <1>4, <1>5, <3>1, <3>2
  <2>3. ASSUME NEW k \in DOMAIN items1, NEW m \in found[k]
        PROVE  \E a \in DOMAIN e : e[a] = PairOf(items1[k], items2[m])
    <3>1. k \in 1 .. n /\ seqs[k] = List(k)
      BY <1>2, <1>5
    <3>2. PICK c \in DOMAIN seqs[k] : seqs[k][c] = PairOf(items1[k], items2[m])
      BY <1>4, <3>1
    <3>3. PICK a \in DOMAIN e : e[a] = seqs[k][c]
      BY <1>6, <3>1 DEF PutTogether
    <3>4. QED
      BY <3>2, <3>3
  <2>4. QED
    BY <1>2, <2>1, <2>2, <2>3 DEF Pairs
<1>8. QED
  BY <1>1, <1>6, <1>7 DEF e, E, found

LEMMA EntriesFinite ==
  ASSUME NEW A, NEW p, NEW heap, NEW items1 \in Seq(A), NEW items2 \in Seq(A), Pairwise(p)
  PROVE  Len(Merge!FindMatches(p, heap, items1, items2).entries) \in Nat
<1> DEFINE e == Merge!FindMatches(p, heap, items1, items2).entries
<1>1. e \in Seq([entry : A, matches : Seq(A)])
  BY PairsFound, Zenon
<1> HIDE DEF e
<1>2. Len(e) \in Nat
  BY <1>1
<1>3. QED
  BY <1>2 DEF e

(* What the options must be for the items to stay as they are.             *)
Untouching(p) ==
  p.clash.resolve # "addSuffix"
  /\ ~(p.mode = "mergeByFields" /\ p.joinMode = "keepNonMatches" /\ p.outputDataFrom = "both")

LEMMA KeepsHeap ==
  ASSUME NEW A, NEW p, NEW heap, NEW items1 \in Seq(A), NEW items2 \in Seq(A), Untouching(p),
         p.mode \in {"append", "chooseBranch", "multiplex", "mergeByPosition", "mergeByFields"},
         p.joinMode \in {"keepMatches", "keepEverything", "keepNonMatches", "enrichInput1", "enrichInput2"},
         p.outputDataFrom \in {"both", "input1", "input2"}
  PROVE  Merge!Execute(p, heap, items1, items2).heap = heap
<1> DEFINE m == Merge!FindMatches(p, heap, items1, items2)
           x == Merge!MergeByFields(p, heap, items1, items2)
<1>0. \A h, out : Merge!Result(h, out).heap = h
  BY DEF Merge!Result
<1>1. p.clash.resolve # "addSuffix"
  BY DEF Untouching
<1>2. CASE p.mode = "append"
  <2>1. Merge!Execute(p, heap, items1, items2) = Merge!Result(heap, Merge!Handed(items1 \o items2))
    BY <1>2, Zenon DEF Merge!Execute
  <2>2. QED
    BY <1>0, <2>1
<1>3. CASE p.mode = "chooseBranch"
  <2>1. \E out : Merge!Execute(p, heap, items1, items2) = Merge!Result(heap, out)
    BY <1>3, Zenon DEF Merge!Execute
  <2>2. QED
    BY <1>0, <2>1
<1>4. CASE p.mode = "multiplex"
  <2>1. Merge!Execute(p, heap, items1, items2) = Merge!Multiplex(p, heap, items1, items2)
    BY <1>4, Zenon DEF Merge!Execute
  <2>2. \A in : Merge!Prepared(p, heap, in) = heap
    BY <1>1 DEF Merge!Prepared
  <2>3. \E out : Merge!Multiplex(p, heap, items1, items2) = Merge!Result(heap, out)
    BY <2>2, Zenon DEF Merge!Multiplex
  <2>4. QED
    BY <1>0, <2>1, <2>3
<1>5. CASE p.mode = "mergeByPosition"
  <2>1. Merge!Execute(p, heap, items1, items2) = Merge!MergeByPosition(p, heap, items1, items2)
    BY <1>5, Zenon DEF Merge!Execute
  <2>2. \A in : Merge!Prepared(p, heap, in) = heap
    BY <1>1 DEF Merge!Prepared
  <2>3. \E out : Merge!MergeByPosition(p, heap, items1, items2) = Merge!Result(heap, out)
    BY <2>2, Zenon DEF Merge!MergeByPosition
  <2>4. QED
    BY <1>0, <2>1, <2>3
<1>6. CASE p.mode = "mergeByFields"
  <2>1. Merge!Execute(p, heap, items1, items2) = x
    BY <1>6, Zenon DEF Merge!Execute
  <2>2. ASSUME NEW r, NEW items, NEW s PROVE Merge!AppendItems(r, items, p, s).heap = r.heap
    BY <1>0, <1>1 DEF Merge!AppendItems, Merge!AddsSuffix
  <2>3. Pairwise(p) => Merge!MergeMatched(p, heap, m.entries).heap = heap
    BY <1>1, EntriesFinite, MergeLeavesHeap
  <2> HIDE DEF m
  <2>4. CASE Merge!FieldsMissing(p)
    <3>1. x = [Merge!Result(heap, <<>>) EXCEPT !.status = "failed"]
      BY <2>4, Zenon DEF Merge!MergeByFields
    <3>2. x.heap = heap
      <4> HIDE DEF x
      <4>1. QED
        BY <3>1 DEF Merge!Result
    <3>3. QED
      BY <2>1, <3>2
  <2>5. CASE ~Merge!FieldsMissing(p) /\ (items1 = <<>> \/ items2 = <<>>)
    <3>1. \E out : Merge!WithoutPartner(p, heap, items1, items2) = Merge!Result(heap, out)
      BY Zenon DEF Merge!WithoutPartner
    <3>2. x = Merge!WithoutPartner(p, heap, items1, items2)
      BY <2>5, Zenon DEF Merge!MergeByFields
    <3> HIDE DEF x
    <3>3. QED
      BY <1>0, <2>1, <3>1, <3>2
  <2>6. CASE ~Merge!FieldsMissing(p) /\ items1 # <<>> /\ items2 # <<>> /\ p.joinMode = "keepNonMatches"
    <3>1. x = Merge!KeepNonMatches(p, heap, m)
      <4>1. ~(items1 = <<>> \/ items2 = <<>>)
        BY <2>6
      <4>2. QED
        BY <2>6, <4>1, Zenon DEF Merge!MergeByFields, m
    <3>2. p.outputDataFrom # "both"
      BY <1>6, <2>6 DEF Untouching
    <3>3. \A items : Merge!NilIfEmpty(heap, items).heap = heap
      BY DEF Merge!NilIfEmpty, Merge!Result
    <3>4. \E items : Merge!KeepNonMatches(p, heap, m) = Merge!NilIfEmpty(heap, items)
      <4>1. p.outputDataFrom = "input1" \/ p.outputDataFrom = "input2"
        BY <3>2
      <4>2. QED
        BY <4>1, Zenon DEF Merge!KeepNonMatches
    <3>5. QED
      BY <2>1, <3>1, <3>3, <3>4, Zenon
  <2>7. CASE ~Merge!FieldsMissing(p) /\ items1 # <<>> /\ items2 # <<>> /\ p.joinMode \in {"keepMatches", "keepEverything"}
    <3>1. x = Merge!Keep(p, heap, m)
      <4>1. ~(items1 = <<>> \/ items2 = <<>>) /\ p.joinMode # "keepNonMatches"
        BY <2>7
      <4>2. QED
        BY <2>7, <4>1, Zenon DEF Merge!MergeByFields, m
    <3> DEFINE joined == CASE p.outputDataFrom = "input1" ->
                                Merge!Result(heap, Merge!Handed([k \in DOMAIN m.entries |-> m.entries[k].entry]))
                           [] p.outputDataFrom = "input2" -> Merge!Result(heap, Merge!Handed(m.matched2))
                           [] p.outputDataFrom = "both" -> Merge!MergeMatched(p, heap, m.entries)
    <3>2. joined.heap = heap
      <4>1. CASE p.outputDataFrom = "both"
        <5>1. p.outputDataFrom # "input1" /\ p.outputDataFrom # "input2"
          BY <4>1
        <5>2. joined = Merge!MergeMatched(p, heap, m.entries)
          BY <4>1, <5>1, Zenon
        <5> HIDE DEF joined
        <5>3. QED
          BY <2>3, <4>1, <5>2 DEF Pairwise
      <4>2. CASE p.outputDataFrom # "both"
        <5>1. p.outputDataFrom = "input1" \/ p.outputDataFrom = "input2"
          BY <4>2
        <5>2. \E out : joined = Merge!Result(heap, out)
          BY <5>1, Zenon
        <5> HIDE DEF joined
        <5>3. QED
          BY <1>0, <5>2
      <4>3. QED
        BY <4>1, <4>2
    <3>3. Merge!Keep(p, heap, m) \in
            {joined, Merge!AppendItems(Merge!AppendItems(joined, m.unmatched1, p, "1"), m.unmatched2, p, "2")}
      BY Zenon DEF Merge!Keep
    <3> HIDE DEF joined, x
    <3>4. Merge!AppendItems(Merge!AppendItems(joined, m.unmatched1, p, "1"), m.unmatched2, p, "2").heap = heap
      BY <2>2, <3>2, Zenon
    <3>5. QED
      BY <2>1, <3>1, <3>2, <3>3, <3>4, Zenon
  <2>8. CASE ~Merge!FieldsMissing(p) /\ items1 # <<>> /\ items2 # <<>> /\ p.joinMode \in {"enrichInput1", "enrichInput2"}
    <3>1. x = Merge!Enrich(p, heap, m)
      <4>1. /\ ~(items1 = <<>> \/ items2 = <<>>) /\ p.joinMode # "keepNonMatches"
            /\ ~(p.joinMode \in {"keepMatches", "keepEverything"})
        BY <2>8
      <4>2. QED
        BY <2>8, <4>1, Zenon DEF Merge!MergeByFields, m
    <3>2. \E items, s : Merge!Enrich(p, heap, m) =
                          Merge!AppendItems(Merge!MergeMatched(p, heap, m.entries), items, p, s)
      BY Zenon DEF Merge!Enrich
    <3>3. Merge!MergeMatched(p, heap, m.entries).heap = heap
      BY <2>3, <2>8 DEF Pairwise
    <3> HIDE DEF x
    <3>4. PICK items, s : x = Merge!AppendItems(Merge!MergeMatched(p, heap, m.entries), items, p, s)
      BY <3>1, <3>2
    <3>5. QED
      BY <2>1, <2>2, <3>3, <3>4
  <2>9. QED
    BY <2>4, <2>5, <2>6, <2>7, <2>8
<1>7. QED
  BY <1>2, <1>3, <1>4, <1>5, <1>6

(* Merging leaves the items of the nodes in front as they are, unless it   *)
(* is told to rename fields or to name the source of what has no match     *)
(* (nodes/merge/node.go), in every call that the assumption describes.     *)
THEOREM MergeSparesInputs == DataSpec => []InputsUntouched
<1>1. ASSUME DataInv PROVE InputsUntouched
  <2> SUFFICES ASSUME Answered("merge"), Untouching(call.p) PROVE result.heap = call.heap
    BY DEF InputsUntouched, Untouching
  <2>1. call \in MergeCalls /\ result = Merge!Execute(call.p, call.heap, call.items1, call.items2)
    BY <1>1 DEF DataInv, Answered
  <2>2. /\ call.items1 \in Seq(DOMAIN call.heap) /\ call.items2 \in Seq(DOMAIN call.heap)
        /\ call.p.mode \in {"append", "chooseBranch", "multiplex", "mergeByPosition", "mergeByFields"}
        /\ call.p.joinMode \in {"keepMatches", "keepEverything", "keepNonMatches", "enrichInput1", "enrichInput2"}
        /\ call.p.outputDataFrom \in {"both", "input1", "input2"}
    BY <2>1, MergeAssumption, Zenon
  <2>3. QED
    BY <2>1, <2>2, KeepsHeap, Zenon
<1>2. QED
  BY <1>1, DataInvariant, PTL

LEMMA SameFlatten == \A s : Agg!FlattenSeq(s) = Html!FlattenSeq(s)
BY Zenon DEF Agg!FlattenSeq, Html!FlattenSeq

(* With missing values kept the list of a field has a place per item.      *)
Column(items, f) == [k \in DOMAIN items |-> Agg!ValueAt(items[k], f.field)]
KeepsAll(p) == p.keepMissing /\ ~p.mergeLists /\ ~p.disableDotNotation

LEMMA ColumnOf ==
  ASSUME NEW p, NEW A, NEW items \in Seq(A), NEW f, KeepsAll(p)
  PROVE  Agg!FieldList(p, items, f) = Column(items, f)
<1> DEFINE n == Len(items)
           e == [k \in DOMAIN items |-> Agg!ValueAt(items[k], f.field)]
           E == {e[k] : k \in 1 .. n}
<1>1. n \in Nat /\ DOMAIN items = 1 .. n
  OBVIOUS
<1>2. \A v : Agg!Contribution(v, p.keepMissing, p.mergeLists) = <<v>>
  <2> TAKE v
  <2>1. p.keepMissing /\ ~p.mergeLists
    BY DEF KeepsAll
  <2>2. (IF Agg!IsArray(v) /\ ~p.keepMissing THEN Agg!WithoutNils(v) ELSE v) = v
    BY <2>1, Zenon
  <2>3. ~(v = Agg!Nil /\ ~p.keepMissing) /\ ~(Agg!IsArray(v) /\ p.mergeLists)
    BY <2>1, Zenon
  <2>4. QED
    BY <2>2, <2>3, Zenon DEF Agg!Contribution
<1>3. \A k \in DOMAIN items : (IF p.disableDotNotation THEN Agg!Field(items[k], Agg!Name(f.field))
                               ELSE Agg!ValueAt(items[k], f.field)) = e[k]
  <2>1. ~p.disableDotNotation
    BY DEF KeepsAll
  <2>2. \A k \in DOMAIN items : e[k] = Agg!ValueAt(items[k], f.field)
    OBVIOUS
  <2>3. QED
    BY <2>1, <2>2, Zenon
<1>4. DOMAIN e = DOMAIN items
  OBVIOUS
<1> HIDE DEF e
<1>5. Agg!FieldList(p, items, f) =
        Agg!FlattenSeq([k \in DOMAIN items |->
           Agg!Contribution(IF p.disableDotNotation THEN Agg!Field(items[k], Agg!Name(f.field))
                            ELSE Agg!ValueAt(items[k], f.field), p.keepMissing, p.mergeLists)])
  BY Zenon DEF Agg!FieldList
<1>6. [k \in DOMAIN items |->
           Agg!Contribution(IF p.disableDotNotation THEN Agg!Field(items[k], Agg!Name(f.field))
                            ELSE Agg!ValueAt(items[k], f.field), p.keepMissing, p.mergeLists)]
        = [k \in DOMAIN items |-> <<e[k]>>]
  BY <1>2, <1>3, Zenon
<1>7. [k \in DOMAIN items |-> <<e[k]>>] = Singles(n, e)
  BY <1>1, Zenon DEF Singles
<1>8. \A k \in 1 .. n : e[k] \in E
  OBVIOUS
<1> HIDE DEF E
<1>9. Html!FlattenSeq(Singles(n, e)) = Listing(n, e)
  BY <1>1, <1>8, FlattenSingles, Zenon
<1>10. Listing(n, e) = e
  <2>1. e = [k \in 1 .. n |-> e[k]]
    BY <1>1, <1>4 DEF e
  <2>2. QED
    BY <2>1, Zenon DEF Listing
<1>11. Agg!FieldList(p, items, f) = e
  BY <1>5, <1>6, <1>7, <1>9, <1>10, SameFlatten, Zenon
<1>12. QED
  BY <1>11 DEF e, Column

(* Lists that are put under a name of their own are found there.           *)
LEMMA TopOfTree ==
  ASSUME NEW Names, NEW lists, \A path \in DOMAIN lists : \E x \in Names : path = <<x>>, NEW at \in DOMAIN lists
  PROVE  Agg!Field(Agg!Tree(lists), at) = Agg!Array(lists[at])
<1> DEFINE tree == CHOOSE t : t = [to \in Seq(STRING) |-> Agg!Branches(lists, to, LAMBDA q : t[q])]
           below == {path \in DOMAIN lists : Len(path) > Len(<<>>) /\ SubSeq(path, 1, Len(<<>>)) = <<>>}
           f == [key \in {<<path[Len(<<>>) + 1]>> : path \in below} |->
                   LET to == <<>> \o key
                   IN  IF to \in below THEN Agg!Array(lists[to]) ELSE tree[to]]
<1>1. Agg!Tree(lists) = Agg!Object(f)
  BY Zenon DEF Agg!Tree, Agg!Branches
<1> HIDE DEF tree
<1>2. PICK x \in Names : at = <<x>>
  OBVIOUS
<1>3. Len(<<>>) = 0 /\ Len(at) = 1 /\ SubSeq(at, 1, 0) = <<>> /\ <<>> \o at = at /\ <<at[1]>> = at
  BY <1>2
<1>4. at \in below
  BY <1>3
<1>5. at \in DOMAIN f
  <2>1. <<at[Len(<<>>) + 1]>> = at
    BY <1>3
  <2>2. at \in {<<path[Len(<<>>) + 1]>> : path \in below}
    BY <1>4, <2>1
  <2> HIDE DEF below
  <2>3. QED
    BY <2>2
<1>6. f[at] = Agg!Array(lists[at])
  <2>1. f[at] = IF <<>> \o at \in below THEN Agg!Array(lists[<<>> \o at]) ELSE tree[<<>> \o at]
    BY <1>5
  <2> HIDE DEF f, below
  <2>2. QED
    BY <1>3, <1>4, <2>1
<1> HIDE DEF f
<1>7. QED
  BY <1>1, <1>5, <1>6 DEF Agg!Field, Agg!Fields, Agg!Object

(* Fields told apart by the last part of their paths.                      *)
Distinct(fields) ==
  \A m \in DOMAIN fields :
    /\ fields[m].field # <<"">> /\ fields[m].outputFieldName = <<"">>
    /\ \A l \in DOMAIN fields : Last(fields[l].field) = Last(fields[m].field) => l = m

LEMMA ColumnsOfItems ==
  ASSUME NEW p, NEW A, NEW items \in Seq(A), NEW B, p.fields \in Seq(B), KeepsAll(p), Distinct(p.fields),
         p.aggregate = "aggregateIndividualFields",
         NEW result1, result1 = Agg!AggregateExecute(p, items), result1.status = "success",
         NEW m \in DOMAIN p.fields
  PROVE  Agg!Field(result1.json, <<Last(p.fields[m].field)>>) =
           Agg!Array([k \in DOMAIN items |-> Agg!ValueAt(items[k], p.fields[m].field)])
<1> DEFINE used == {k \in DOMAIN p.fields : p.fields[k].field # <<"">>}
           outputs == {Agg!OutputField(p, p.fields[k]) : k \in used}
           Of(output) == p.fields[Agg!LastOf({k \in used : Agg!OutputField(p, p.fields[k]) = output})]
           lists == [o \in outputs |-> Agg!FieldList(p, items, Of(o))]
           name == [k \in DOMAIN p.fields |-> Last(p.fields[k].field)]
           Names == {name[k] : k \in DOMAIN p.fields}
           at == <<name[m]>>
<1>1. result1.json = Agg!Tree(lists)
  <2>0. ~p.disableDotNotation
    BY DEF KeepsAll
  <2>1. result1 = Agg!AggregateFields(p, items)
    BY Zenon DEF Agg!AggregateExecute
  <2>2. result1 = Agg!AggregateFailed
        \/ result1 = Agg!Aggregated(IF p.disableDotNotation THEN Agg!Flat(lists) ELSE Agg!Tree(lists))
    BY <2>1, Zenon DEF Agg!AggregateFields
  <2>3. result1 # Agg!AggregateFailed
    BY DEF Agg!AggregateFailed
  <2>4. result1 = Agg!Aggregated(Agg!Tree(lists))
    BY <2>0, <2>2, <2>3, Zenon
  <2> HIDE DEF lists
  <2>5. QED
    BY <2>4 DEF Agg!Aggregated
<1>2. ASSUME NEW k \in DOMAIN p.fields
      PROVE  name[k] = Last(p.fields[k].field) /\ Agg!OutputField(p, p.fields[k]) = <<name[k]>>
  <2>1. name[k] = Last(p.fields[k].field)
    OBVIOUS
  <2>2. ~(p.fields[k].outputFieldName # <<"">>) /\ ~p.disableDotNotation
    BY Zenon DEF Distinct, KeepsAll
  <2> HIDE DEF name
  <2>3. QED
    BY <2>1, <2>2, Zenon DEF Agg!OutputField, Agg!Last, Last
<1>3. \A k, l \in DOMAIN p.fields : name[k] = name[l] => k = l
  BY <1>2, Zenon DEF Distinct
<1>4. used = DOMAIN p.fields /\ DOMAIN p.fields \subseteq Int
  <2>1. used = DOMAIN p.fields
    BY Zenon DEF Distinct
  <2>2. DOMAIN p.fields \subseteq Int
    OBVIOUS
  <2>3. QED
    BY <2>1, <2>2, Zenon
<1> HIDE DEF name
<1>5. \A k \in DOMAIN p.fields : Agg!OutputField(p, p.fields[k]) = at => k = m
  <2>1. \A k \in DOMAIN p.fields : <<name[k]>> = <<name[m]>> => name[k] = name[m]
    OBVIOUS
  <2>2. QED
    BY <1>2, <1>3, <2>1, Zenon
<1> HIDE DEF used
<1>6. Of(at) = p.fields[m]
  <2>1. {k \in used : Agg!OutputField(p, p.fields[k]) = at} = {m}
    BY <1>2, <1>4, <1>5, Zenon
  <2>2. m \in Int /\ m <= m
    BY <1>4
  <2>3. Agg!LastOf({m}) = m
    BY <2>2, Zenon DEF Agg!LastOf
  <2>4. QED
    BY <2>1, <2>3, Zenon
<1>7. at \in outputs
  BY <1>2, <1>4, Zenon
<1>8. \A path \in outputs : \E x \in Names : path = <<x>>
  BY <1>2, <1>4, Zenon
<1>9. at \in DOMAIN lists /\ lists[at] = Agg!FieldList(p, items, Of(at)) /\ DOMAIN lists = outputs
  BY <1>7, Zenon
<1> HIDE DEF lists, Of, outputs, Names
<1>10. Agg!Field(Agg!Tree(lists), at) = Agg!Array(lists[at])
  <2>1. \A path \in DOMAIN lists : \E x \in Names : path = <<x>>
    BY <1>8, <1>9, Zenon
  <2>2. at \in DOMAIN lists
    BY <1>9
  <2> HIDE DEF at
  <2>3. QED
    BY <2>1, <2>2, TopOfTree
<1>11. Agg!FieldList(p, items, p.fields[m]) = Column(items, p.fields[m])
  BY ColumnOf, Zenon
<1>12. lists[at] = Column(items, p.fields[m])
  BY <1>6, <1>9, <1>11, Zenon
<1>13. at = <<Last(p.fields[m].field)>>
  BY <1>2, Zenon
<1>14. QED
  BY <1>1, <1>10, <1>12, <1>13, Zenon DEF Column

(* With missing values kept and lists not merged, the lists that Aggregate *)
(* puts out stay aligned: position k of every one of them is the value of  *)
(* item k (nodes/aggregate/node.go), however many fields and items.        *)
THEOREM ColumnsStayAligned == DataSpec => []ColumnsAligned
<1>1. ASSUME DataInv PROVE ColumnsAligned
  <2>1. SUFFICES ASSUME Answered("aggregate"), result.status = "success",
                        call.p.aggregate = "aggregateIndividualFields",
                        KeepsAll(call.p), Distinct(call.p.fields),
                        NEW m \in DOMAIN call.p.fields
                 PROVE  Agg!Field(result.json, <<Last(call.p.fields[m].field)>>) =
                          Agg!Array([k \in DOMAIN call.items |-> Agg!ValueAt(call.items[k], call.p.fields[m].field)])
    BY Zenon DEF ColumnsAligned, KeepsAll, Distinct
  <2>2. call \in AggregateCalls /\ result = Agg!AggregateExecute(call.p, call.items)
    BY <1>1, <2>1 DEF DataInv, Answered
  <2>3. call.items \in Seq(ToSet(call.items)) /\ call.p.fields \in Seq(ToSet(call.p.fields))
    BY <2>1, <2>2, AggregateAssumption, Zenon
  <2>4. QED
    BY <2>1, <2>2, <2>3, ColumnsOfItems, Zenon
<1>2. QED
  BY <1>1, DataInvariant, PTL

(* Two objects merged have the fields of both, whatever the method.        *)
LEMMA TwoMerged ==
  ASSUME NEW clash, NEW v, NEW w, Merge!IsMap(v), Merge!IsMap(w)
  PROVE  LET x == Merge!MergeAll(clash, <<v, w>>)
         IN  Merge!IsMap(x) /\ DOMAIN Merge!Fields(x) = DOMAIN Merge!Fields(v) \cup DOMAIN Merge!Fields(w)
<1> DEFINE Two(dest, src) == IF clash.mode = "shallowMerge" /\ ~clash.overrideEmpty
                             THEN Merge!ShallowMerge(dest, src) ELSE Merge!MergeObjects(dest, src)
           s == <<v, w>>
           Turn(f, k) == IF k = 1 THEN s[1] ELSE Two(f[k - 1], s[k])
           Whole(f) == [k \in DOMAIN s |-> Turn(f, k)]
           merged == CHOOSE f : f = Whole(f)
           g == [k \in 1 .. 2 |-> IF k = 1 THEN v ELSE Two(v, w)]
<1>1. Merge!MergeAll(clash, s) = merged[Len(s)]
  BY Zenon DEF Merge!MergeAll
<1> HIDE DEF Two
<1>2. DOMAIN s = 1 .. 2 /\ s[1] = v /\ s[2] = w /\ Len(s) = 2
  OBVIOUS
<1> HIDE DEF s
<1>3. g = Whole(g)
  <2>1. ASSUME NEW k \in 1 .. 2 PROVE g[k] = Turn(g, k)
    <3>1. CASE k = 1
      BY <1>2, <3>1
    <3>2. CASE k = 2
      BY <1>2, <3>2
    <3>3. QED
      BY <3>1, <3>2
  <2> HIDE DEF Turn
  <2>2. g = [k \in 1 .. 2 |-> g[k]]
    OBVIOUS
  <2> HIDE DEF g
  <2>3. QED
    BY <1>2, <2>1, <2>2
<1>4. merged = Whole(merged)
  <2> HIDE DEF Whole, g
  <2>1. QED
    BY <1>3
<1> HIDE DEF merged
<1>5. \A k \in 1 .. 2 : merged[k] = Turn(merged, k)
  BY <1>2, <1>4
<1>6. merged[2] = Two(v, w)
  <2>1. 1 \in 1 .. 2 /\ 2 \in 1 .. 2 /\ 2 - 1 = 1 /\ 2 # 1
    OBVIOUS
  <2>2. merged[1] = v
    BY <1>2, <1>5, <2>1
  <2>3. merged[2] = Turn(merged, 2)
    BY <1>5, <2>1
  <2>4. QED
    BY <1>2, <2>1, <2>2, <2>3
<1>7. PICK f : DOMAIN f = DOMAIN Merge!Fields(w) /\ Two(v, w) = Merge!Object(Merge!Either(Merge!Fields(v), f))
  <2>1. \E f : DOMAIN f = DOMAIN Merge!Fields(w) /\ Merge!MergeObjects(v, w) = Merge!Object(Merge!Either(Merge!Fields(v), f))
    <3>1. \E f : /\ \E F : f = [k \in DOMAIN Merge!Fields(w) |-> F[k]]
                 /\ Merge!MergeObjects(v, w) = Merge!Object(Merge!Either(Merge!Fields(v), f))
      <4> DEFINE Below(u, path) == Merge!FoldLeft(LAMBDA x, k : Merge!Fields(x)[k], u, path)
                 deep == CHOOSE d : d = [path \in Seq(Merge!Key) |->
                           Merge!MergeFields(Below(v, path), Below(w, path), LAMBDA k : d[Append(path, k)])]
                 f == [k \in DOMAIN Merge!Fields(w) |->
                         IF k \in DOMAIN Merge!Fields(v) /\ Merge!IsMap(Merge!Fields(v)[k]) /\ Merge!IsMap(Merge!Fields(w)[k])
                         THEN deep[<<k>>] ELSE Merge!Fields(w)[k]]
      <4>1. Merge!MergeObjects(v, w) = Merge!Object(Merge!Either(Merge!Fields(v), f))
        BY Zenon DEF Merge!MergeObjects, Merge!MergeFields
      <4>2. f = [k \in DOMAIN Merge!Fields(w) |-> f[k]]
        OBVIOUS
      <4> HIDE DEF f
      <4>3. QED
        BY <4>1, <4>2, Zenon
    <3>2. QED
      BY <3>1
  <2>2. Merge!ShallowMerge(v, w) = Merge!Object(Merge!Either(Merge!Fields(v), Merge!Fields(w)))
    BY DEF Merge!ShallowMerge
  <2>3. QED
    BY <2>1, <2>2, Zenon DEF Two
<1>8. Merge!MergeAll(clash, s) = Merge!Object(Merge!Either(Merge!Fields(v), f))
  BY <1>1, <1>2, <1>6, <1>7, Zenon
<1> DEFINE x == Merge!Object(Merge!Either(Merge!Fields(v), f))
<1>9. Merge!IsMap(x) /\ DOMAIN Merge!Fields(x) = DOMAIN Merge!Fields(v) \cup DOMAIN Merge!Fields(w)
  BY <1>7 DEF Merge!IsMap, Merge!Fields, Merge!Object, Merge!Either
<1> HIDE DEF x
<1>10. Merge!MergeAll(clash, <<v, w>>) = x
  BY <1>8 DEF s, x
<1>11. QED
  BY <1>9, <1>10, Zenon

(* Renaming puts something in front of a name, whose end stays.            *)
Prefixed(n, suffix, j) == [m \in 1 .. n |-> suffix] \o j

LEMMA EndStays ==
  ASSUME NEW A, NEW n \in Nat, NEW suffix \in A, NEW j \in Seq(A), j # <<>>
  PROVE  LET k == Prefixed(n, suffix, j) IN k \in Seq(A) /\ k # <<>> /\ Last(k) = Last(j)
<1> DEFINE s == [m \in 1 .. n |-> suffix]
<1>1. s \in Seq(A) /\ Len(s) = n
  OBVIOUS
<1> HIDE DEF s
<1>2. Len(j) \in Nat \ {0}
  BY <1>1
<1> DEFINE w == s \o j
<1>3. w \in Seq(A) /\ Len(w) = n + Len(j)
      /\ \A i \in 1 .. n + Len(j) : w[i] = IF i <= n THEN s[i] ELSE j[i - n]
  <2>1. w \in Seq(A) /\ Len(w) = Len(s) + Len(j)
        /\ \A i \in 1 .. Len(s) + Len(j) : w[i] = IF i <= Len(s) THEN s[i] ELSE j[i - Len(s)]
    BY <1>1, Concatenated, Zenon
  <2> HIDE DEF w
  <2>2. QED
    BY <1>1, <2>1
<1> HIDE DEF w
<1>4. w # <<>>
  BY <1>2, <1>3
<1>5. w[Len(w)] = j[Len(j)]
  <2>1. n + Len(j) \in 1 .. n + Len(j) /\ ~(n + Len(j) <= n) /\ (n + Len(j)) - n = Len(j)
    BY <1>2
  <2>2. QED
    BY <1>3, <2>1
<1>6. w \in Seq(A) /\ w # <<>> /\ Last(w) = Last(j)
  BY <1>3, <1>4, <1>5 DEF Last
<1>7. QED
  BY <1>6 DEF w, s, Prefixed

(* The keys there are once fields are renamed.                             *)
Names == STRING \cup {"1", "2"}
Renamed == Seq(Names) \ {<<>>}

LEMMA PrefixedKey ==
  ASSUME NEW n \in Nat, NEW suffix \in Names, NEW j \in Renamed
  PROVE  LET k == Prefixed(n, suffix, j) IN k \in Renamed /\ Last(k) = Last(j)
<1> DEFINE k == Prefixed(n, suffix, j)
<1>1. j \in Seq(Names) /\ j # <<>>
  BY Zenon DEF Renamed
<1>2. k \in Seq(Names) /\ k # <<>> /\ Last(k) = Last(j)
  BY <1>1, EndStays, Zenon
<1> HIDE DEF k
<1>3. k \in Renamed /\ Last(k) = Last(j)
  BY <1>2, Zenon DEF Renamed
<1>4. QED
  BY <1>3 DEF k

LEMMA KeysAreText == Merge!Key \subseteq Renamed
<1>1. ASSUME NEW A, NEW B, A \subseteq B PROVE Seq(A) \subseteq Seq(B)
  BY <1>1
<1>2. STRING \subseteq Names
  BY Zenon DEF Names
<1>3. Seq(STRING) \subseteq Seq(Names)
  BY <1>1, <1>2, Zenon
<1>4. QED
  BY <1>3, Zenon DEF Merge!Key, Renamed

LEMMA SuffixedOne ==
  ASSUME NEW c, NEW v, NEW n \in Nat, NEW suffix \in Names,
         Merge!IsMap(v), DOMAIN Merge!Fields(v) \subseteq Renamed
  PROVE  LET w == Merge!Suffixed(v, suffix, n)
         IN  Merge!IsMap(w) /\ DOMAIN Merge!Fields(w) \subseteq Renamed /\ PartsOf(c, w) = PartsOf(c, v)
<1> DEFINE pre(j) == Prefixed(n, suffix, j)
           keys == {pre(j) : j \in DOMAIN Merge!Fields(v)}
           f == [k \in keys |-> Merge!Fields(v)[SubSeq(k, n + 1, Len(k))]]
           w == Merge!Object(f)
<1>1. Merge!Suffixed(v, suffix, n) = w
  BY Zenon DEF Merge!Suffixed, Prefixed
<1>2. \A j \in DOMAIN Merge!Fields(v) : pre(j) \in Renamed /\ Last(pre(j)) = Last(j)
  <2>1. ASSUME NEW j \in DOMAIN Merge!Fields(v) PROVE pre(j) \in Renamed /\ Last(pre(j)) = Last(j)
    <3>1. j \in Renamed
      OBVIOUS
    <3>2. QED
      BY <3>1, PrefixedKey, Zenon
  <2>2. QED
    BY <2>1
<1>3. DOMAIN f = keys
  OBVIOUS
<1> HIDE DEF pre, f
<1>4. Merge!IsMap(w) /\ Merge!Fields(w) = f
  BY DEF Merge!IsMap, Merge!Fields, Merge!Object
<1> HIDE DEF w
<1>5. keys \subseteq Renamed
  BY <1>2
<1>6. \A i : (\E k \in keys : Last(k) = i) <=> (\E j \in DOMAIN Merge!Fields(v) : Last(j) = i)
  BY <1>2
<1> HIDE DEF keys
<1>7. PartsOf(c, w) = PartsOf(c, v)
  <2>1. \A i : (\E k \in DOMAIN Merge!Fields(w) : Last(k) = i) <=> (\E j \in DOMAIN Merge!Fields(v) : Last(j) = i)
    BY <1>3, <1>4, <1>6
  <2>2. QED
    BY <1>4, <2>1 DEF PartsOf
<1>8. QED
  BY <1>1, <1>3, <1>4, <1>5, <1>7

(* The objects of a call with a key of their own, whatever is renamed.     *)
Keyed(c, h) ==
  /\ DOMAIN h = DOMAIN c.heap
  /\ \A i \in Inputs(c) : Merge!IsMap(c.heap[i]) =>
       Merge!IsMap(h[i]) /\ DOMAIN Merge!Fields(h[i]) \subseteq Renamed /\ PartsOf(c, h[i]) = {i}

LEMMA RenamedKeyed ==
  ASSUME NEW c, NEW h, Keyed(c, h), Inputs(c) \subseteq DOMAIN c.heap,
         NEW A, NEW items \in Seq(A), NEW suffix \in Names
  PROVE  Keyed(c, Merge!AddSuffix(h, items, suffix))
<1> DEFINE count(i) == Merge!Cardinality({k \in DOMAIN items : items[k] = i})
           g == Merge!AddSuffix(h, items, suffix)
<1>1. \A i : count(i) \in Nat
  <2> TAKE i
  <2> DEFINE T == {k \in DOMAIN items : items[k] = i}
  <2>1. Len(items) \in Nat /\ DOMAIN items = 1 .. Len(items) /\ T \subseteq 1 .. Len(items)
    OBVIOUS
  <2> HIDE DEF T
  <2>2. IsFiniteSet(1 .. Len(items))
    BY <2>1, FS_Interval
  <2>3. IsFiniteSet(T)
    BY <2>1, <2>2, FS_Subset
  <2>4. Cardinality(T) \in Nat
    BY <2>3, FS_CardinalityType
  <2>5. QED
    BY <2>4, SameCardinality, Zenon DEF T
<1>2. DOMAIN g = DOMAIN h /\ \A i \in DOMAIN h : g[i] = Merge!Suffixed(h[i], suffix, count(i))
  BY DEF Merge!AddSuffix
<1> HIDE DEF g, count
<1>3. ASSUME NEW i \in Inputs(c), Merge!IsMap(c.heap[i])
      PROVE  Merge!IsMap(g[i]) /\ DOMAIN Merge!Fields(g[i]) \subseteq Renamed /\ PartsOf(c, g[i]) = {i}
  <2>1. Merge!IsMap(h[i]) /\ DOMAIN Merge!Fields(h[i]) \subseteq Renamed /\ PartsOf(c, h[i]) = {i} /\ i \in DOMAIN h
    BY <1>3 DEF Keyed
  <2> DEFINE w == Merge!Suffixed(h[i], suffix, count(i))
  <2>2. Merge!IsMap(w) /\ DOMAIN Merge!Fields(w) \subseteq Renamed /\ PartsOf(c, w) = PartsOf(c, h[i])
    BY <1>1, <2>1, SuffixedOne, Zenon
  <2> HIDE DEF w
  <2>3. g[i] = w
    BY <1>2, <2>1 DEF w
  <2>4. QED
    BY <2>1, <2>2, <2>3
<1>4. Keyed(c, g)
  BY <1>2, <1>3 DEF Keyed
<1>5. QED
  BY <1>4 DEF g

LEMMA EntryKeyed ==
  ASSUME NEW c, NEW h, Keyed(c, h), Inputs(c) \subseteq DOMAIN c.heap,
         NEW A, NEW i \in A, NEW j \in A, NEW p
  PROVE  Keyed(c, Merge!AfterEntry(p, h, PairOf(i, j)))
<1> DEFINE e == PairOf(i, j)
           h1 == Merge!AddSuffix(h, <<e.entry>>, "1")
           h2 == Merge!AddSuffix(h1, e.matches, "2")
<1>1. "1" \in Names /\ "2" \in Names
  BY DEF Names
<1>2. <<e.entry>> \in Seq(A) /\ e.matches \in Seq(A)
  BY DEF PairOf
<1> HIDE DEF e
<1>3. Keyed(c, h1)
  BY <1>1, <1>2, RenamedKeyed, Zenon
<1> HIDE DEF h1
<1>4. Keyed(c, h2)
  BY <1>1, <1>2, <1>3, RenamedKeyed, Zenon
<1>5. Merge!AfterEntry(p, h, e) = h \/ Merge!AfterEntry(p, h, e) = h2
  BY Zenon DEF Merge!AfterEntry, h1
<1> HIDE DEF h2
<1>6. Keyed(c, Merge!AfterEntry(p, h, e))
  BY <1>4, <1>5
<1>7. QED
  BY <1>6 DEF e

(* The key that an object has of its own tells what it is merged from.     *)
LEMMA PartsOfPair ==
  ASSUME NEW c, NEW h, Keyed(c, h), NEW i \in Inputs(c), NEW j \in Inputs(c), NEW p,
         Merge!IsMap(c.heap[i]), Merge!IsMap(c.heap[j])
  PROVE  PartsOf(c, Merge!MergeAll(p.clash, Merge!Objects(p, h, PairOf(i, j)))) = {i, j}
<1>1. \A v, w : Merge!IsMap(v) /\ Merge!IsMap(w) =>
        PartsOf(c, Merge!MergeAll(p.clash, <<v, w>>)) = PartsOf(c, v) \cup PartsOf(c, w)
  <2> TAKE v, w
  <2> HAVE Merge!IsMap(v) /\ Merge!IsMap(w)
  <2> DEFINE x == Merge!MergeAll(p.clash, <<v, w>>)
  <2>1. Merge!IsMap(x) /\ DOMAIN Merge!Fields(x) = DOMAIN Merge!Fields(v) \cup DOMAIN Merge!Fields(w)
    BY TwoMerged
  <2> HIDE DEF x
  <2>2. PartsOf(c, x) = PartsOf(c, v) \cup PartsOf(c, w)
    BY <2>1 DEF PartsOf
  <2>3. QED
    BY <2>2 DEF x
<1>2. /\ Merge!IsMap(h[i]) /\ PartsOf(c, h[i]) = {i}
      /\ Merge!IsMap(h[j]) /\ PartsOf(c, h[j]) = {j}
  BY DEF Keyed
<1> DEFINE objects == Merge!Objects(p, h, PairOf(i, j))
<1>3. objects = <<h[i], h[j]>> \/ objects = <<h[j], h[i]>>
  <2> DEFINE e == PairOf(i, j)
             first == <<h[e.entry]>>
             rest == [m \in DOMAIN e.matches |-> h[e.matches[m]]]
  <2>1. first = <<h[i]>>
    BY DEF PairOf
  <2>2. rest = <<h[j]>>
    BY DEF PairOf
  <2>3. objects = rest \o first \/ objects = first \o rest
    BY Zenon DEF Merge!Objects
  <2> HIDE DEF objects, first, rest
  <2>4. QED
    BY <2>1, <2>2, <2>3
<1> HIDE DEF objects
<1>4. PartsOf(c, Merge!MergeAll(p.clash, objects)) = {i, j}
  <2>1. CASE objects = <<h[i], h[j]>>
    BY <1>1, <1>2, <2>1
  <2>2. CASE objects = <<h[j], h[i]>>
    BY <1>1, <1>2, <2>2
  <2>3. QED
    BY <1>3, <2>1, <2>2
<1>5. QED
  BY <1>4 DEF objects

PairParts(c, p, h, i, j) ==
  Merge!IsMap(c.heap[i]) /\ Merge!IsMap(c.heap[j]) =>
    PartsOf(c, Merge!MergeAll(p.clash, Merge!Objects(p, h, PairOf(i, j)))) = {i, j}

LEMMA PartsOfPairs == \A c, h, p : Keyed(c, h) => \A i, j \in Inputs(c) : PairParts(c, p, h, i, j)
BY PartsOfPair DEF PairParts

(* What mergeMatched makes of pairs of objects.                            *)
ObjectPairs(c, entries) ==
  /\ Len(entries) \in Nat /\ DOMAIN entries = 1 .. Len(entries)
  /\ \A a \in DOMAIN entries : \E i, j \in Inputs(c) :
       entries[a] = PairOf(i, j) /\ Merge!IsMap(c.heap[i]) /\ Merge!IsMap(c.heap[j])
MergedAs(out, c, entries, v) ==
  /\ out = [a \in DOMAIN entries |-> Merge!New(v[a])]
  /\ \A a \in DOMAIN entries : \A i, j \in Inputs(c) : entries[a] = PairOf(i, j) => PartsOf(c, v[a]) = {i, j}

LEMMA MergedPairs ==
  ASSUME NEW c, Keyed(c, c.heap), Inputs(c) \subseteq DOMAIN c.heap, NEW p, NEW entries, ObjectPairs(c, entries)
  PROVE  \E v : MergedAs(Merge!MergeMatched(p, c.heap, entries).out, c, entries, v)
<1>0. /\ Len(entries) \in Nat /\ DOMAIN entries = 1 .. Len(entries)
      /\ \A a \in DOMAIN entries : \E i, j \in Inputs(c) :
           entries[a] = PairOf(i, j) /\ Merge!IsMap(c.heap[i]) /\ Merge!IsMap(c.heap[j])
  BY Zenon DEF ObjectPairs
<1>1. PICK h : Turns(p, c.heap, entries, h)
  BY <1>0, HeapTurns
<1> DEFINE S == {k \in Nat : k <= Len(entries) => Keyed(c, h[k])}
<1>2. 0 \in S
  BY <1>1 DEF Turns
<1>3. ASSUME NEW k \in Nat, k \in S PROVE k + 1 \in S
  <2>1. CASE k + 1 <= Len(entries)
    <3>1. k + 1 \in 1 .. Len(entries) /\ (k + 1) - 1 = k /\ Keyed(c, h[k]) /\ k + 1 \in DOMAIN entries
      BY <1>0, <1>3, <2>1
    <3>2. PICK i, j \in Inputs(c) : entries[k + 1] = PairOf(i, j)
      BY <1>0, <3>1
    <3>3. h[k + 1] = Merge!AfterEntry(p, h[k], PairOf(i, j))
      BY <1>1, <3>1, <3>2 DEF Turns
    <3>4. Keyed(c, Merge!AfterEntry(p, h[k], PairOf(i, j)))
      BY <3>1, EntryKeyed, Zenon
    <3>5. QED
      BY <3>3, <3>4
  <2>2. QED
    BY <2>1
<1> HIDE DEF S
<1>4. \A k \in Nat : k \in S
  BY <1>2, <1>3, Induct, Zenon
<1> DEFINE v == [k \in DOMAIN entries |-> Merge!MergeAll(p.clash, Merge!Objects(p, h[k], entries[k]))]
<1>5. ASSUME NEW a \in DOMAIN entries, NEW i \in Inputs(c), NEW j \in Inputs(c), entries[a] = PairOf(i, j)
      PROVE  PartsOf(c, v[a]) = {i, j}
  <2>1. Keyed(c, h[a])
    BY <1>0, <1>4 DEF S
  <2>2. Merge!IsMap(c.heap[i]) /\ Merge!IsMap(c.heap[j])
    BY <1>0, <1>5 DEF PairOf
  <2>3. v[a] = Merge!MergeAll(p.clash, Merge!Objects(p, h[a], PairOf(i, j)))
    BY <1>5
  <2> HIDE DEF v
  <2>4. QED
    <3>1. PairParts(c, p, h[a], i, j)
      BY <2>1, PartsOfPairs
    <3>2. QED
      BY <2>2, <2>3, <3>1 DEF PairParts
<1>6. [a \in DOMAIN entries |-> Merge!New(v[a])] =
        [k \in DOMAIN entries |-> Merge!New(Merge!MergeAll(p.clash, Merge!Objects(p, h[k], entries[k])))]
  BY Zenon
<1> DEFINE out == Merge!MergeMatched(p, c.heap, entries).out
<1>7. out = [k \in DOMAIN entries |-> Merge!New(Merge!MergeAll(p.clash, Merge!Objects(p, h[k], entries[k])))]
  BY <1>0, <1>1 DEF Turns, Merge!Result
<1> HIDE DEF v, out
<1>8. out = [a \in DOMAIN entries |-> Merge!New(v[a])]
  BY <1>6, <1>7
<1>9. MergedAs(out, c, entries, v)
  BY <1>5, <1>8 DEF MergedAs
<1>10. QED
  BY <1>9 DEF out

-----------------------------------------------------------------------------
(* What a merge takes: the items of a call are told apart.                 *)

TypedMerge ==
  /\ call.items1 \in Seq(Inputs(call)) /\ call.items2 \in Seq(Inputs(call))
  /\ call.p.fields \in Seq(ToSet(call.p.fields))
  /\ \A k, m \in DOMAIN call.items1 : call.items1[k] = call.items1[m] => k = m
  /\ \A k, m \in DOMAIN call.items2 : call.items2[k] = call.items2[m] => k = m
  /\ \A k \in DOMAIN call.items1, m \in DOMAIN call.items2 : call.items1[k] # call.items2[m]
  /\ Inputs(call) \subseteq DOMAIN call.heap
  /\ Keyed(call, call.heap)

LEMMA MergeIsTyped == ASSUME call \in MergeCalls PROVE TypedMerge
<1> DEFINE s == call.items1
           t == call.items2
           all == s \o t
           H == DOMAIN call.heap
<1>1. /\ s \in Seq(H) /\ t \in Seq(H) /\ call.p.fields \in Seq(ToSet(call.p.fields))
      /\ \A k, m \in DOMAIN all : all[k] = all[m] => k = m
      /\ \A i \in Inputs(call) : Merge!IsMap(call.heap[i]) =>
           DOMAIN Merge!Fields(call.heap[i]) \subseteq Merge!Key /\ PartsOf(call, call.heap[i]) = {i}
  BY MergeAssumption, Zenon
<1>2. /\ Len(s) \in Nat /\ Len(t) \in Nat /\ DOMAIN s = 1 .. Len(s) /\ DOMAIN t = 1 .. Len(t)
      /\ \A k \in DOMAIN s : s[k] \in Inputs(call) /\ s[k] \in H
      /\ \A k \in DOMAIN t : t[k] \in Inputs(call) /\ t[k] \in H
  <2>1. Len(s) \in Nat /\ DOMAIN s = 1 .. Len(s) /\ \A k \in DOMAIN s : s[k] \in H
    BY <1>1
  <2>2. Len(t) \in Nat /\ DOMAIN t = 1 .. Len(t) /\ \A k \in DOMAIN t : t[k] \in H
    BY <1>1
  <2>3. \A k \in DOMAIN s : s[k] \in Inputs(call)
    BY Zenon DEF Inputs, ToSet
  <2>4. \A k \in DOMAIN t : t[k] \in Inputs(call)
    BY Zenon DEF Inputs, ToSet
  <2>5. QED
    BY <2>1, <2>2, <2>3, <2>4
<1>3. \A i \in Inputs(call) : (\E k \in DOMAIN s : i = s[k]) \/ (\E k \in DOMAIN t : i = t[k])
  BY Zenon DEF Inputs, ToSet
<1>4. Inputs(call) \subseteq H
  BY <1>2, <1>3
<1>5. Keyed(call, call.heap)
  BY <1>1, KeysAreText DEF Keyed
<1>6. /\ DOMAIN all = 1 .. Len(s) + Len(t)
      /\ \A j \in 1 .. Len(s) + Len(t) : all[j] = IF j <= Len(s) THEN s[j] ELSE t[j - Len(s)]
  <2>1. all \in Seq(H) /\ Len(all) = Len(s) + Len(t)
        /\ \A j \in 1 .. Len(s) + Len(t) : all[j] = IF j <= Len(s) THEN s[j] ELSE t[j - Len(s)]
    BY <1>1, Concatenated, Zenon
  <2> HIDE DEF all, s, t, H
  <2>2. DOMAIN all = 1 .. Len(all)
    BY <2>1
  <2>3. QED
    BY <2>1, <2>2
<1> HIDE DEF all, s, t, H
<1>7. \A k \in DOMAIN s : k \in DOMAIN all /\ all[k] = s[k]
  BY <1>2, <1>6
<1>8. \A k \in DOMAIN t : Len(s) + k \in DOMAIN all /\ all[Len(s) + k] = t[k]
  <2> TAKE k \in DOMAIN t
  <2>1. k \in 1 .. Len(t) /\ Len(s) + k \in 1 .. Len(s) + Len(t) /\ ~(Len(s) + k <= Len(s)) /\ (Len(s) + k) - Len(s) = k
    BY <1>2
  <2>2. QED
    BY <1>6, <2>1
<1>9. \A k, m \in DOMAIN s : s[k] = s[m] => k = m
  BY <1>1, <1>7
<1>10. \A k, m \in DOMAIN t : t[k] = t[m] => k = m
  <2> TAKE k, m \in DOMAIN t
  <2> HAVE t[k] = t[m]
  <2>1. Len(s) + k = Len(s) + m
    BY <1>1, <1>8
  <2>2. k \in Nat /\ m \in Nat /\ Len(s) \in Nat
    BY <1>2
  <2>3. QED
    BY <2>1, <2>2
<1>11. \A k \in DOMAIN s, m \in DOMAIN t : s[k] # t[m]
  <2> TAKE k \in DOMAIN s, m \in DOMAIN t
  <2>1. k \in 1 .. Len(s) /\ m \in 1 .. Len(t) /\ Len(s) \in Nat /\ k # Len(s) + m
    BY <1>2
  <2>2. QED
    BY <1>1, <1>7, <1>8, <2>1
<1>12. s \in Seq(Inputs(call)) /\ t \in Seq(Inputs(call))
  <2>1. s = [k \in 1 .. Len(s) |-> s[k]] /\ t = [k \in 1 .. Len(t) |-> t[k]]
    BY <1>1
  <2>2. QED
    BY <1>2, <2>1
<1>13. QED
  BY <1>1, <1>4, <1>5, <1>9, <1>10, <1>11, <1>12 DEF TypedMerge, s, t, H

ApartFields == \A k, m \in DOMAIN call.p.fields : call.p.fields[k].field2 = call.p.fields[m].field2 => k = m

CallFound == FoundFor(call.p, call.heap, call.items1, call.items2)
CallLooked == Looked(call.p, call.heap, call.items1)

LEMMA LookedHasKeys ==
  ASSUME NEW a \in DOMAIN call.items1
  PROVE  a \in CallLooked <=> ~Keyless(call.items1[a])
BY Zenon DEF CallLooked, Looked, Keyless, Given, Merge!HasLookup

LEMMA AgreeSays ==
  ASSUME TypedMerge, ApartFields, NEW a \in DOMAIN call.items1, NEW b \in DOMAIN call.items2
  PROVE  Agree(call.items1[a], call.items2[b]) <=>
           a \in CallLooked /\ Merge!Matches(call.p, call.heap[call.items1[a]], call.heap[call.items2[b]])
<1> DEFINE v == call.heap[call.items1[a]]
           w == call.heap[call.items2[b]]
           F == call.p.fields
<1>1. \A k \in DOMAIN F : ~\E m \in DOMAIN F : m > k /\ F[m].field2 = F[k].field2
  <2>1. \A k \in DOMAIN F : k \in Int
    BY DEF TypedMerge
  <2>2. \A k, m \in DOMAIN F : F[m].field2 = F[k].field2 => m = k
    BY Zenon DEF ApartFields
  <2>3. QED
    BY <2>1, <2>2
<1>2. Merge!Matches(call.p, v, w) <=>
        /\ Merge!IsMap(w)
        /\ \A k \in DOMAIN F : Merge!FieldValue(call.p, v, F[k].field1) = Merge!FieldValue(call.p, w, F[k].field2)
  BY <1>1, Zenon DEF Merge!Matches
<1>3. a \in CallLooked <=> Merge!IsMap(v) /\ \A k \in DOMAIN F : Merge!FieldValue(call.p, v, F[k].field1) # Merge!Nil
  BY Zenon DEF CallLooked, Looked, Merge!HasLookup
<1>4. Agree(call.items1[a], call.items2[b]) <=>
        /\ Merge!IsMap(v) /\ Merge!IsMap(w)
        /\ \A k \in DOMAIN F : /\ Merge!FieldValue(call.p, v, F[k].field1) # Merge!Nil
                               /\ Merge!FieldValue(call.p, v, F[k].field1) = Merge!FieldValue(call.p, w, F[k].field2)
  BY Zenon DEF Agree, Given
<1> HIDE DEF v, w, F
<1>5. QED
  BY <1>2, <1>3, <1>4 DEF v, w

(* The pairs that are to be joined are the ones that are found.            *)
LEMMA JoinedIsFound ==
  ASSUME TypedMerge, ApartFields, NEW a \in DOMAIN call.items1, NEW b \in DOMAIN call.items2
  PROVE  Joined(call.items1[a], call.items2[b]) <=> b \in CallFound[a]
<1> DEFINE t == call.items2
           i == call.items1[a]
           Match(m) == Merge!Matches(call.p, call.heap[i], call.heap[t[m]])
           all == {m \in DOMAIN t : Match(m)}
           found == IF call.p.multipleMatches = "all" THEN all ELSE {m \in all : \A l \in all : m <= l}
<1>1. CallFound[a] = IF a \in CallLooked THEN found ELSE {}
  BY Zenon DEF CallFound, FoundFor, CallLooked, Merge!FindEntryMatches
<1>2. \A m \in DOMAIN t : Agree(i, t[m]) <=> a \in CallLooked /\ Match(m)
  BY AgreeSays, Zenon
<1>3. /\ DOMAIN t \subseteq Int
      /\ \A k, m \in DOMAIN t : t[k] = t[m] => k = m
  BY DEF TypedMerge
<1>4. (\E first \in ToSet(t) : Before(t, first, t[b]) /\ Agree(i, first)) <=>
        \E m \in DOMAIN t : m < b /\ Agree(i, t[m])
  <2>1. ASSUME NEW first \in ToSet(t), Before(t, first, t[b]), Agree(i, first)
        PROVE  \E m \in DOMAIN t : m < b /\ Agree(i, t[m])
    <3>1. PICK k, m \in DOMAIN t : k < m /\ t[k] = first /\ t[m] = t[b]
      BY <2>1 DEF Before
    <3>2. m = b
      BY <1>3, <3>1
    <3>3. QED
      BY <2>1, <3>1, <3>2
  <2>2. ASSUME NEW m \in DOMAIN t, m < b, Agree(i, t[m])
        PROVE  \E first \in ToSet(t) : Before(t, first, t[b]) /\ Agree(i, first)
    <3>1. t[m] \in ToSet(t)
      BY Zenon DEF ToSet
    <3>2. Before(t, t[m], t[b])
      BY <2>2 DEF Before
    <3>3. QED
      BY <2>2, <3>1, <3>2
  <2>3. QED
    BY <2>1, <2>2
<1>5. Joined(i, t[b]) <=>
        Agree(i, t[b]) /\ (call.p.multipleMatches = "all" \/ ~\E m \in DOMAIN t : m < b /\ Agree(i, t[m]))
  BY <1>4, Zenon DEF Joined
<1> HIDE DEF i, t, Match
<1>6. b \in DOMAIN t
  BY DEF t
<1>7. CASE a \in CallLooked
  <2>1. \A m \in DOMAIN t : Agree(i, t[m]) <=> m \in all
    BY <1>2, <1>7
  <2>2. (\A l \in all : b <= l) <=> ~\E m \in DOMAIN t : m < b /\ m \in all
    BY <1>3, <1>6
  <2> HIDE DEF all
  <2>3. b \in found <=> b \in all /\ (call.p.multipleMatches = "all" \/ \A l \in all : b <= l)
    BY Zenon
  <2> HIDE DEF found
  <2>4. Joined(i, t[b]) <=> b \in found
    BY <1>5, <1>6, <2>1, <2>2, <2>3
  <2>5. QED
    BY <1>1, <1>7, <2>4 DEF i, t
<1>8. CASE a \notin CallLooked
  <2>1. ~Joined(i, t[b])
    BY <1>2, <1>5, <1>6, <1>8
  <2>2. CallFound[a] = {}
    BY <1>1, <1>8, Zenon
  <2>3. QED
    BY <2>1, <2>2 DEF i, t
<1>9. QED
  BY <1>7, <1>8

-----------------------------------------------------------------------------
(* What a join by fields puts out: n merged items, then items that are     *)
(* handed on.                                                              *)
PutOut(A, n, v) == {Merge!New(v[k]) : k \in 1 .. n} \cup {<<"item", i>> : i \in A}
Shape(out, A, n, v, tail) ==
  /\ out \in Seq(PutOut(A, n, v))
  /\ tail \in Seq(A) /\ Len(out) = n + Len(tail)
  /\ \A k \in 1 .. n : out[k] = Merge!New(v[k])
  /\ \A k \in 1 .. Len(tail) : out[n + k] = <<"item", tail[k]>>

LEMMA ShapeOfMerged ==
  ASSUME NEW A, NEW n \in Nat, NEW v
  PROVE  Shape([k \in 1 .. n |-> Merge!New(v[k])], A, n, v, <<>>)
<1> DEFINE W == PutOut(A, n, v)
           out == [k \in 1 .. n |-> Merge!New(v[k])]
<1>1. \A k \in 1 .. n : Merge!New(v[k]) \in W
  BY DEF PutOut
<1> HIDE DEF W
<1>2. out \in Seq(W) /\ Len(out) = n
  BY <1>1
<1>3. <<>> \in Seq(A) /\ Len(<<>>) = 0
  OBVIOUS
<1>4. \A k \in 1 .. n : out[k] = Merge!New(v[k])
  OBVIOUS
<1> HIDE DEF out
<1>5. Shape(out, A, n, v, <<>>)
  BY <1>2, <1>3, <1>4 DEF Shape, W
<1>6. QED
  BY <1>5 DEF out

LEMMA ShapeOfMore ==
  ASSUME NEW A, NEW n \in Nat, NEW v, NEW tail, NEW out, Shape(out, A, n, v, tail), NEW items \in Seq(A)
  PROVE  Shape(out \o Merge!Handed(items), A, n, v, tail \o items)
<1> DEFINE W == PutOut(A, n, v)
           t == Merge!Handed(items)
           w == out \o t
           l == tail \o items
<1>1. /\ out \in Seq(W) /\ tail \in Seq(A) /\ Len(out) = n + Len(tail)
      /\ \A k \in 1 .. n : out[k] = Merge!New(v[k])
      /\ \A k \in 1 .. Len(tail) : out[n + k] = <<"item", tail[k]>>
  BY DEF Shape
<1>2. \A i \in A : <<"item", i>> \in W
  BY DEF PutOut
<1> HIDE DEF W
<1>3. t \in Seq(W) /\ Len(t) = Len(items) /\ \A k \in 1 .. Len(items) : t[k] = <<"item", items[k]>>
  <2>1. Len(items) \in Nat /\ DOMAIN items = 1 .. Len(items) /\ \A k \in DOMAIN items : items[k] \in A
    OBVIOUS
  <2>2. \A k \in DOMAIN items : <<"item", items[k]>> \in W
    BY <1>2, <2>1
  <2>3. t = [k \in 1 .. Len(items) |-> <<"item", items[k]>>]
    <3>1. t = [k \in DOMAIN items |-> <<"item", items[k]>>]
      BY Zenon DEF Merge!Handed
    <3> HIDE DEF t
    <3>2. QED
      BY <2>1, <3>1
  <2> HIDE DEF t
  <2>4. \A k \in 1 .. Len(items) : t[k] = <<"item", items[k]>> /\ t[k] \in W
    BY <2>1, <2>2, <2>3
  <2>5. t = [k \in 1 .. Len(items) |-> t[k]]
    BY <2>3
  <2>6. t \in Seq(W) /\ Len(t) = Len(items)
    BY <2>1, <2>4, <2>5
  <2>7. QED
    BY <2>4, <2>6, Zenon
<1>4. Len(tail) \in Nat /\ Len(items) \in Nat
  BY <1>1
<1> HIDE DEF t
<1>5. w \in Seq(W) /\ Len(w) = Len(out) + Len(t)
      /\ \A j \in 1 .. Len(out) + Len(t) : w[j] = IF j <= Len(out) THEN out[j] ELSE t[j - Len(out)]
  <2>1. out \in Seq(W) /\ t \in Seq(W)
    BY <1>1, <1>3
  <2>2. QED
    BY <2>1, Concatenated, Zenon
<1>6. l \in Seq(A) /\ Len(l) = Len(tail) + Len(items)
      /\ \A j \in 1 .. Len(tail) + Len(items) : l[j] = IF j <= Len(tail) THEN tail[j] ELSE items[j - Len(tail)]
  <2>1. tail \in Seq(A) /\ items \in Seq(A)
    BY <1>1
  <2>2. QED
    BY <2>1, Concatenated, Zenon
<1> HIDE DEF w, l
<1>7. Len(w) = n + Len(l)
  <2>1. /\ Len(out) = n + Len(tail) /\ Len(t) = Len(items)
        /\ Len(w) = Len(out) + Len(t) /\ Len(l) = Len(tail) + Len(items)
    BY <1>1, <1>3, <1>5, <1>6, Zenon
  <2>2. QED
    BY <1>4, <2>1
<1>8. ASSUME NEW k \in 1 .. n PROVE w[k] = Merge!New(v[k])
  <2>1. k \in 1 .. Len(out) + Len(t) /\ k <= Len(out)
    BY <1>1, <1>3, <1>4
  <2>2. QED
    BY <1>1, <1>5, <2>1
<1>9. ASSUME NEW k \in 1 .. Len(l) PROVE w[n + k] = <<"item", l[k]>>
  <2>1. CASE k <= Len(tail)
    <3>1. k \in 1 .. Len(tail) /\ n + k \in 1 .. Len(out) + Len(t) /\ n + k <= Len(out)
      BY <1>1, <1>3, <1>4, <1>6, <2>1
    <3>2. w[n + k] = out[n + k] /\ l[k] = tail[k]
      BY <1>4, <1>5, <1>6, <2>1, <3>1
    <3>3. QED
      BY <1>1, <3>1, <3>2
  <2>2. CASE ~(k <= Len(tail))
    <3>1. /\ k - Len(tail) \in 1 .. Len(items) /\ n + k \in 1 .. Len(out) + Len(t)
          /\ ~(n + k <= Len(out)) /\ (n + k) - Len(out) = k - Len(tail)
      BY <1>1, <1>3, <1>4, <1>6, <2>2
    <3>2. w[n + k] = t[k - Len(tail)] /\ l[k] = items[k - Len(tail)]
      BY <1>4, <1>5, <1>6, <2>2, <3>1
    <3>3. QED
      BY <1>3, <3>1, <3>2
  <2>3. QED
    BY <2>1, <2>2
<1>10. Shape(w, A, n, v, l)
  BY <1>5, <1>6, <1>7, <1>8, <1>9 DEF Shape, W
<1>11. QED
  BY <1>10 DEF w, l, t

(* What a join by fields puts out, before it is known of what it is made.  *)
CallMatches == Merge!FindMatches(call.p, call.heap, call.items1, call.items2)
CallMerged == Merge!MergeMatched(call.p, call.heap, CallMatches.entries)
Joining == ByFields /\ call.p.joinMode # "keepNonMatches"

LEMMA JoinResult ==
  ASSUME DataInv, Joining
  PROVE  /\ call.p.joinMode \in {"keepMatches", "keepEverything", "enrichInput1", "enrichInput2"}
         /\ call \in MergeCalls
         /\ \/ /\ call.p.joinMode = "keepMatches"
               /\ result = CallMerged
            \/ /\ call.p.joinMode = "keepEverything"
               /\ result = Merge!AppendItems(Merge!AppendItems(CallMerged, CallMatches.unmatched1, call.p, "1"),
                                             CallMatches.unmatched2, call.p, "2")
            \/ /\ call.p.joinMode = "enrichInput1"
               /\ result = Merge!AppendItems(CallMerged, CallMatches.unmatched1, call.p, "1")
            \/ /\ call.p.joinMode = "enrichInput2"
               /\ result = Merge!AppendItems(CallMerged, CallMatches.unmatched2, call.p, "2")
<1> DEFINE p == call.p
           m == CallMatches
           x == Merge!MergeByFields(p, call.heap, call.items1, call.items2)
<1>1. call \in MergeCalls /\ result = Merge!Execute(p, call.heap, call.items1, call.items2)
  BY DEF DataInv, Joining, ByFields, Answered
<1>2. p.joinMode \in {"keepMatches", "keepEverything", "enrichInput1", "enrichInput2"}
  <2>1. p.joinMode \in {"keepMatches", "keepEverything", "keepNonMatches", "enrichInput1", "enrichInput2"}
    BY <1>1, MergeAssumption, Zenon
  <2>2. QED
    BY <2>1 DEF Joining
<1>3. /\ p.mode = "mergeByFields" /\ p.outputDataFrom = "both" /\ result.status = "success"
      /\ call.items1 # <<>> /\ call.items2 # <<>>
  BY DEF Joining, ByFields
<1>4. result = x
  BY <1>1, <1>3, Zenon DEF Merge!Execute
<1> DEFINE f == [Merge!Result(call.heap, <<>>) EXCEPT !.status = "failed"]
<1>5. ~Merge!FieldsMissing(p)
  <2>1. Merge!FieldsMissing(p) => result = f
    BY <1>4, Zenon DEF Merge!MergeByFields
  <2>2. f.status = "failed"
    BY DEF Merge!Result
  <2> HIDE DEF f
  <2>3. QED
    BY <1>3, <2>1, <2>2
<1>6. ~(call.items1 = <<>> \/ call.items2 = <<>>)
  BY <1>3
<1> HIDE DEF f
<1>7. CASE p.joinMode \in {"keepMatches", "keepEverything"}
  <2>1. p.joinMode # "keepNonMatches"
    BY <1>7
  <2>2. x = Merge!Keep(p, call.heap, m)
    BY <1>5, <1>6, <1>7, <2>1, Zenon DEF Merge!MergeByFields, CallMatches
  <2> DEFINE joined == CASE p.outputDataFrom = "input1" ->
                              Merge!Result(call.heap, Merge!Handed([k \in DOMAIN m.entries |-> m.entries[k].entry]))
                         [] p.outputDataFrom = "input2" -> Merge!Result(call.heap, Merge!Handed(m.matched2))
                         [] p.outputDataFrom = "both" -> Merge!MergeMatched(p, call.heap, m.entries)
  <2>3. joined = CallMerged
    <3>1. p.outputDataFrom # "input1" /\ p.outputDataFrom # "input2"
      BY <1>3
    <3>2. QED
      BY <1>3, <3>1, Zenon DEF CallMerged
  <2>4. Merge!Keep(p, call.heap, m) =
          IF p.joinMode = "keepMatches" THEN joined
          ELSE Merge!AppendItems(Merge!AppendItems(joined, m.unmatched1, p, "1"), m.unmatched2, p, "2")
    BY Zenon DEF Merge!Keep
  <2> HIDE DEF joined, x
  <2>5. CASE p.joinMode = "keepMatches"
    BY <1>1, <1>2, <1>4, <2>2, <2>3, <2>4, <2>5
  <2>6. CASE p.joinMode = "keepEverything"
    BY <1>1, <1>2, <1>4, <2>2, <2>3, <2>4, <2>6
  <2>7. QED
    BY <1>7, <2>5, <2>6
<1>8. CASE p.joinMode \in {"enrichInput1", "enrichInput2"}
  <2>1. p.joinMode # "keepNonMatches" /\ ~(p.joinMode \in {"keepMatches", "keepEverything"})
    BY <1>8
  <2>2. x = Merge!Enrich(p, call.heap, m)
    BY <1>5, <1>6, <1>8, <2>1, Zenon DEF Merge!MergeByFields, CallMatches
  <2>3. Merge!Enrich(p, call.heap, m) =
          IF p.joinMode = "enrichInput1" THEN Merge!AppendItems(CallMerged, m.unmatched1, p, "1")
          ELSE Merge!AppendItems(CallMerged, m.unmatched2, p, "2")
    BY Zenon DEF Merge!Enrich, CallMerged
  <2> HIDE DEF x
  <2>4. CASE p.joinMode = "enrichInput1"
    BY <1>1, <1>2, <1>4, <2>2, <2>3, <2>4
  <2>5. CASE p.joinMode = "enrichInput2"
    BY <1>1, <1>2, <1>4, <2>2, <2>3, <2>5
  <2>6. QED
    BY <1>8, <2>4, <2>5
<1>9. QED
  BY <1>2, <1>7, <1>8

Alone1 == {k \in CallLooked : CallFound[k] = {}}
Alone2 == DOMAIN call.items2 \ UNION {CallFound[k] : k \in DOMAIN call.items1}

LEMMA AloneOnes ==
  ASSUME TypedMerge
  PROVE  /\ CallMatches.unmatched1 \in Seq(Inputs(call))
         /\ IsChosen(CallMatches.unmatched1, call.items1, Alone1, Ascending(Alone1))
         /\ CallMatches.unmatched2 \in Seq(Inputs(call))
         /\ IsChosen(CallMatches.unmatched2, call.items2, Alone2, Ascending(Alone2))
<1>1. CallMatches.unmatched1 = Merge!Chosen(call.items1, Alone1)
  BY Zenon DEF CallMatches, Merge!FindMatches, Alone1, CallFound, FoundFor, CallLooked, Looked
<1>2. CallMatches.unmatched2 = Merge!Chosen(call.items2, Alone2)
  <2>1. CallMatches.unmatched2 =
          Merge!Chosen(call.items2, DOMAIN call.items2 \ Merge!MatchedPositions(CallFound))
    BY Zenon DEF CallMatches, Merge!FindMatches, CallFound, FoundFor, Looked
  <2>2. DOMAIN CallFound = DOMAIN call.items1
    BY DEF CallFound, FoundFor
  <2>3. QED
    BY <2>1, <2>2, Zenon DEF Merge!MatchedPositions, Alone2
<1>3. Alone1 \subseteq DOMAIN call.items1 /\ Alone2 \subseteq DOMAIN call.items2
  BY DEF Alone1, Alone2, CallLooked, Looked
<1>4. call.items1 \in Seq(Inputs(call)) /\ call.items2 \in Seq(Inputs(call))
  BY DEF TypedMerge
<1>5. QED
  BY <1>1, <1>2, <1>3, <1>4, ChosenOnes, MergeChooses

LEMMA FoundAreMaps ==
  ASSUME NEW a \in DOMAIN call.items1, NEW b \in CallFound[a]
  PROVE  /\ a \in CallLooked /\ b \in DOMAIN call.items2
         /\ Merge!IsMap(call.heap[call.items1[a]]) /\ Merge!IsMap(call.heap[call.items2[b]])
<1> DEFINE found == Merge!FindEntryMatches(call.p, call.heap, call.heap[call.items1[a]], call.items2)
<1>1. CallFound[a] = IF a \in CallLooked THEN found ELSE {}
  BY Zenon DEF CallFound, FoundFor, CallLooked
<1>2. a \in CallLooked /\ b \in found
  <2> HIDE DEF found
  <2>1. CASE a \in CallLooked
    BY <1>1, <2>1
  <2>2. CASE a \notin CallLooked
    BY <1>1, <2>2
  <2>3. QED
    BY <2>1, <2>2
<1>3. b \in DOMAIN call.items2 /\ Merge!Matches(call.p, call.heap[call.items1[a]], call.heap[call.items2[b]])
  BY <1>2 DEF Merge!FindEntryMatches
<1>4. Merge!HasLookup(call.p, call.heap[call.items1[a]])
  BY <1>2 DEF CallLooked, Looked
<1>5. QED
  BY <1>2, <1>3, <1>4, Zenon DEF Merge!Matches, Merge!HasLookup

Then(out, items) == out \o Merge!Handed(items)

LEMMA AppendedOut == \A r, items, p, s : Merge!AppendItems(r, items, p, s).out = Then(r.out, items)
BY DEF Merge!AppendItems, Merge!Result, Then

LEMMA TailOfJoin ==
  ASSUME DataInv, Joining, TypedMerge, NEW n \in Nat, NEW v, CallMerged.out = [k \in 1 .. n |-> Merge!New(v[k])]
  PROVE  \E tail : /\ Shape(result.out, Inputs(call), n, v, tail)
                   /\ call.p.joinMode = "keepEverything" => tail = CallMatches.unmatched1 \o CallMatches.unmatched2
<1> DEFINE I == Inputs(call)
           u1 == CallMatches.unmatched1
           u2 == CallMatches.unmatched2
           out == CallMerged.out
<1>1. Shape(out, I, n, v, <<>>)
  BY ShapeOfMerged
<1>2. u1 \in Seq(I) /\ u2 \in Seq(I)
  BY AloneOnes
<1> HIDE DEF out, u1, u2, I
<1>3. <<>> \o u1 = u1 /\ <<>> \o u2 = u2
  BY <1>2
<1>4. Shape(out \o Merge!Handed(u1), I, n, v, u1) /\ Shape(out \o Merge!Handed(u2), I, n, v, u2)
  <2>1. Shape(out \o Merge!Handed(u1), I, n, v, <<>> \o u1)
    BY <1>1, <1>2, ShapeOfMore, Zenon
  <2>2. Shape(out \o Merge!Handed(u2), I, n, v, <<>> \o u2)
    BY <1>1, <1>2, ShapeOfMore, Zenon
  <2>3. QED
    BY <1>3, <2>1, <2>2, Zenon
<1>5. Shape((out \o Merge!Handed(u1)) \o Merge!Handed(u2), I, n, v, u1 \o u2)
  BY <1>2, <1>4, ShapeOfMore, Zenon
<1>6. /\ Merge!AppendItems(CallMerged, u1, call.p, "1").out = Then(out, u1)
      /\ Merge!AppendItems(CallMerged, u2, call.p, "2").out = Then(out, u2)
      /\ Merge!AppendItems(Merge!AppendItems(CallMerged, u1, call.p, "1"), u2, call.p, "2").out = Then(Then(out, u1), u2)
  BY AppendedOut DEF out
<1>7. CASE call.p.joinMode = "keepMatches"
  <2>1. result.out = out
    BY <1>7, JoinResult DEF out
  <2>2. call.p.joinMode # "keepEverything"
    BY <1>7
  <2>3. QED
    BY <1>1, <2>1, <2>2 DEF I
<1>8. CASE call.p.joinMode = "keepEverything"
  <2>1. result = Merge!AppendItems(Merge!AppendItems(CallMerged, u1, call.p, "1"), u2, call.p, "2")
    BY <1>8, JoinResult DEF u1, u2
  <2>2. QED
    BY <1>5, <1>6, <2>1 DEF Then, I, u1, u2
<1>9. CASE call.p.joinMode = "enrichInput1"
  <2>1. result = Merge!AppendItems(CallMerged, u1, call.p, "1") /\ call.p.joinMode # "keepEverything"
    BY <1>9, JoinResult DEF u1
  <2>2. QED
    BY <1>4, <1>6, <2>1 DEF I, Then
<1>10. CASE call.p.joinMode = "enrichInput2"
  <2>1. result = Merge!AppendItems(CallMerged, u2, call.p, "2") /\ call.p.joinMode # "keepEverything"
    BY <1>10, JoinResult DEF u2
  <2>2. QED
    BY <1>4, <1>6, <2>1 DEF I, Then
<1>11. QED
  BY <1>7, <1>8, <1>9, <1>10, JoinResult

(* What a join by fields has made: n merged items, o of them in the order  *)
(* of input 1, and the items in tail handed on.                            *)
JoinMade(n, o, tail) ==
  /\ n \in Nat /\ o \in [1 .. n -> DOMAIN call.items1] /\ tail \in Seq(Inputs(call))
  /\ MergedOnes = 1 .. n /\ HandedOn = n + 1 .. n + Len(tail)
  /\ \A k \in 1 .. Len(tail) : result.out[n + k] = <<"item", tail[k]>>
  /\ \A k \in 1 .. n : \E m \in CallFound[o[k]] : PartsAt(k) = {call.items1[o[k]], call.items2[m]}
  /\ \A k, l \in 1 .. n : k < l => o[k] <= o[l]
  /\ \A a \in DOMAIN call.items1 : \A m \in CallFound[a] :
       \E k \in 1 .. n : PartsAt(k) = {call.items1[a], call.items2[m]}
  /\ call.p.joinMode = "keepEverything" => tail = CallMatches.unmatched1 \o CallMatches.unmatched2

LEMMA JoinOutcome == ASSUME DataInv, Joining PROVE \E n, o, tail : JoinMade(n, o, tail)
<1> DEFINE I == Inputs(call)
           s == call.items1
           t == call.items2
           e == CallMatches.entries
           n == Len(e)
<1>1. TypedMerge
  BY JoinResult, MergeIsTyped
<1>2. s \in Seq(I) /\ t \in Seq(I) /\ I \subseteq DOMAIN call.heap /\ Keyed(call, call.heap)
  BY <1>1 DEF TypedMerge
<1>3. e \in Seq([entry : I, matches : Seq(I)]) /\ Pairs(e, s, t, CallFound)
  <2>1. Pairwise(call.p)
    BY DEF Pairwise, Joining, ByFields
  <2>2. QED
    BY <1>2, <2>1, PairsFound, Zenon DEF CallMatches, CallFound
<1>4. n \in Nat /\ DOMAIN e = 1 .. n
  <2> HIDE DEF e
  <2>1. QED
    BY <1>3
<1>5. PICK o \in [DOMAIN e -> DOMAIN s] :
        /\ \A a \in DOMAIN e : \E m \in CallFound[o[a]] : e[a] = PairOf(s[o[a]], t[m])
        /\ \A a, b \in DOMAIN e : a < b => o[a] <= o[b]
  BY <1>3, Zenon DEF Pairs
<1>6. \A a \in DOMAIN s : \A m \in CallFound[a] : \E k \in DOMAIN e : e[k] = PairOf(s[a], t[m])
  BY <1>3, Zenon DEF Pairs
<1>7. \A a \in DOMAIN s : \A m \in CallFound[a] :
        s[a] \in I /\ t[m] \in I /\ Merge!IsMap(call.heap[s[a]]) /\ Merge!IsMap(call.heap[t[m]])
  <2>1. \A a \in DOMAIN s : s[a] \in I
    BY <1>2
  <2>2. \A m \in DOMAIN t : t[m] \in I
    BY <1>2
  <2>3. QED
    BY <2>1, <2>2, FoundAreMaps
<1> HIDE DEF e, n
<1>8. \A a \in DOMAIN e : \E i, j \in I :
        e[a] = PairOf(i, j) /\ Merge!IsMap(call.heap[i]) /\ Merge!IsMap(call.heap[j])
  <2> TAKE a \in DOMAIN e
  <2>1. PICK m \in CallFound[o[a]] : e[a] = PairOf(s[o[a]], t[m])
    BY <1>5
  <2>2. o[a] \in DOMAIN s
    BY <1>5
  <2>3. QED
    BY <1>7, <2>1, <2>2
<1>9. PICK v : /\ CallMerged.out = [a \in DOMAIN e |-> Merge!New(v[a])]
               /\ \A a \in DOMAIN e : \A i, j \in I : e[a] = PairOf(i, j) => PartsOf(call, v[a]) = {i, j}
  <2>1. ObjectPairs(call, e)
    BY <1>4, <1>8, Zenon DEF ObjectPairs, n
  <2>2. CallMerged.out = Merge!MergeMatched(call.p, call.heap, e).out
    BY Zenon DEF CallMerged, e
  <2>3. \E v : MergedAs(Merge!MergeMatched(call.p, call.heap, e).out, call, e, v)
    BY <1>2, <2>1, MergedPairs
  <2>4. QED
    BY <2>2, <2>3, Zenon DEF MergedAs
<1>10. CallMerged.out = [k \in 1 .. n |-> Merge!New(v[k])]
  BY <1>4, <1>9
<1>11. PICK tail : /\ Shape(result.out, I, n, v, tail)
                   /\ call.p.joinMode = "keepEverything" => tail = CallMatches.unmatched1 \o CallMatches.unmatched2
  BY <1>1, <1>4, <1>10, TailOfJoin, Zenon
<1>12. /\ DOMAIN result.out = 1 .. n + Len(tail) /\ Len(tail) \in Nat /\ tail \in Seq(I)
       /\ \A k \in 1 .. n : result.out[k] = Merge!New(v[k])
       /\ \A k \in 1 .. Len(tail) : result.out[n + k] = <<"item", tail[k]>>
  <2>1. /\ result.out \in Seq(PutOut(I, n, v)) /\ tail \in Seq(I) /\ Len(result.out) = n + Len(tail)
        /\ \A k \in 1 .. n : result.out[k] = Merge!New(v[k])
        /\ \A k \in 1 .. Len(tail) : result.out[n + k] = <<"item", tail[k]>>
    BY <1>11 DEF Shape
  <2>2. DOMAIN result.out = 1 .. Len(result.out) /\ Len(tail) \in Nat
    BY <2>1
  <2>3. QED
    BY <2>1, <2>2
<1>13. \A k \in 1 .. n : k \in DOMAIN result.out /\ result.out[k][1] # "item" /\ result.out[k][2] = v[k]
  <2> TAKE k \in 1 .. n
  <2>1. k \in DOMAIN result.out
    BY <1>4, <1>12
  <2>2. result.out[k] = <<"new", v[k]>>
    BY <1>12 DEF Merge!New
  <2>3. QED
    BY <2>1, <2>2
<1>14. \A k \in n + 1 .. n + Len(tail) : k \in DOMAIN result.out /\ result.out[k][1] = "item"
  <2> TAKE k \in n + 1 .. n + Len(tail)
  <2>1. k - n \in 1 .. Len(tail) /\ n + (k - n) = k /\ k \in DOMAIN result.out
    BY <1>4, <1>12
  <2>2. result.out[k] = <<"item", tail[k - n]>>
    BY <1>12, <2>1
  <2>3. QED
    BY <2>1, <2>2
<1>15. MergedOnes = 1 .. n /\ HandedOn = n + 1 .. n + Len(tail)
  <2>1. \A k \in DOMAIN result.out : k \in 1 .. n \/ k \in n + 1 .. n + Len(tail)
    BY <1>4, <1>12
  <2>2. \A k \in 1 .. n : k \notin n + 1 .. n + Len(tail)
    BY <1>4
  <2>3. HandedOn = n + 1 .. n + Len(tail)
    BY <1>13, <1>14, <2>1, Zenon DEF HandedOn
  <2>4. MergedOnes = 1 .. n
    BY <1>13, <2>1, <2>2, <2>3, Zenon DEF MergedOnes
  <2>5. QED
    BY <2>3, <2>4
<1>16. \A k \in 1 .. n : \A i, j \in I : e[k] = PairOf(i, j) => PartsAt(k) = {i, j}
  <2>1. \A k \in 1 .. n : PartsAt(k) = PartsOf(call, v[k])
    BY <1>13, Zenon DEF PartsAt, Merge!Seen
  <2>2. QED
    BY <1>4, <1>9, <2>1
<1>17. \A k \in 1 .. n : \E m \in CallFound[o[k]] : PartsAt(k) = {s[o[k]], t[m]}
  <2> TAKE k \in 1 .. n
  <2>1. PICK m \in CallFound[o[k]] : e[k] = PairOf(s[o[k]], t[m])
    BY <1>4, <1>5
  <2>2. o[k] \in DOMAIN s
    BY <1>4, <1>5
  <2>3. s[o[k]] \in I /\ t[m] \in I
    BY <1>7, <2>1, <2>2
  <2>4. QED
    BY <1>16, <2>1, <2>3
<1>18. ASSUME NEW a \in DOMAIN s, NEW m \in CallFound[a] PROVE \E k \in 1 .. n : PartsAt(k) = {s[a], t[m]}
  <2>1. PICK k \in 1 .. n : e[k] = PairOf(s[a], t[m])
    BY <1>4, <1>6
  <2>2. QED
    BY <1>7, <1>16, <2>1
<1>19. o \in [1 .. n -> DOMAIN s] /\ \A k, l \in 1 .. n : k < l => o[k] <= o[l]
  BY <1>4, <1>5
<1>20. JoinMade(n, o, tail)
  BY <1>4, <1>11, <1>12, <1>15, <1>17, <1>18, <1>19, Zenon DEF JoinMade
<1>21. QED
  BY <1>20

(* A join by fields (mergeMatched and findMatches, nodes/merge/node.go)    *)
(* makes of each item of input 1 the pairs with the items of input 2 that  *)
(* agree with it, of all or of the first of them, in the order of the      *)
(* inputs and no others: for lists of any length and any items.            *)
THEOREM JoinMakesThePairs == DataSpec => []MergedPairsAgree
<1>1. ASSUME DataInv PROVE MergedPairsAgree
  <2> SUFFICES ASSUME Joining
               PROVE  /\ \A k \in MergedOnes :
                           \E i \in ToSet(call.items1), j \in ToSet(call.items2) : Joined(i, j) /\ PartsAt(k) = {i, j}
                      /\ \A i \in ToSet(call.items1), j \in ToSet(call.items2) :
                           Joined(i, j) => \E k \in MergedOnes : PartsAt(k) = {i, j}
                      /\ \A k, m \in MergedOnes :
                           k < m => \E i \in PartsAt(k) \cap ToSet(call.items1), j \in PartsAt(m) \cap ToSet(call.items1) :
                                      i = j \/ Before(call.items1, i, j)
    BY Zenon DEF MergedPairsAgree, Joining
  <2> DEFINE s == call.items1
             t == call.items2
  <2>1. TypedMerge /\ ApartFields
    BY <1>1, JoinResult, MergeIsTyped DEF Joining, ByFields, ApartFields
  <2>2. PICK n, o, tail : JoinMade(n, o, tail)
    BY <1>1, JoinOutcome
  <2>3. /\ n \in Nat /\ o \in [1 .. n -> DOMAIN s] /\ MergedOnes = 1 .. n
        /\ \A k \in 1 .. n : \E m \in CallFound[o[k]] : PartsAt(k) = {s[o[k]], t[m]}
        /\ \A k, l \in 1 .. n : k < l => o[k] <= o[l]
        /\ \A a \in DOMAIN s : \A m \in CallFound[a] : \E k \in 1 .. n : PartsAt(k) = {s[a], t[m]}
    BY <2>2, Zenon DEF JoinMade
  <2>4. \A a \in DOMAIN s : \A m \in CallFound[a] : m \in DOMAIN t
    BY FoundAreMaps
  <2>5. /\ \A a \in DOMAIN s : s[a] \in ToSet(s)
        /\ \A b \in DOMAIN t : t[b] \in ToSet(t)
        /\ \A i \in ToSet(s) : \E a \in DOMAIN s : i = s[a]
        /\ \A j \in ToSet(t) : \E b \in DOMAIN t : j = t[b]
    BY Zenon DEF ToSet
  <2>6. \A a \in DOMAIN s : \A b \in DOMAIN t : Joined(s[a], t[b]) <=> b \in CallFound[a]
    BY <2>1, JoinedIsFound
  <2>7. DOMAIN s \subseteq Int
    BY <2>1 DEF TypedMerge
  <2> HIDE DEF s, t
  <2>8. \A k \in 1 .. n : o[k] \in DOMAIN s /\ s[o[k]] \in PartsAt(k) \cap ToSet(s)
    <3> TAKE k \in 1 .. n
    <3>1. o[k] \in DOMAIN s /\ \E m \in CallFound[o[k]] : PartsAt(k) = {s[o[k]], t[m]}
      BY <2>3
    <3>2. QED
      BY <2>5, <3>1
  <2>9. ASSUME NEW k \in MergedOnes
        PROVE  \E i \in ToSet(s), j \in ToSet(t) : Joined(i, j) /\ PartsAt(k) = {i, j}
    <3>1. k \in 1 .. n /\ o[k] \in DOMAIN s
      BY <2>3, <2>8
    <3>2. PICK m \in CallFound[o[k]] : PartsAt(k) = {s[o[k]], t[m]}
      BY <2>3, <3>1
    <3>3. m \in DOMAIN t /\ Joined(s[o[k]], t[m])
      BY <2>4, <2>6, <3>1
    <3>4. QED
      BY <2>5, <3>1, <3>2, <3>3
  <2>10. ASSUME NEW i \in ToSet(s), NEW j \in ToSet(t), Joined(i, j)
         PROVE  \E k \in MergedOnes : PartsAt(k) = {i, j}
    <3>1. PICK a \in DOMAIN s : i = s[a]
      BY <2>5
    <3>2. PICK b \in DOMAIN t : j = t[b]
      BY <2>5
    <3>3. b \in CallFound[a]
      BY <2>6, <2>10, <3>1, <3>2
    <3>4. QED
      BY <2>3, <3>1, <3>2, <3>3
  <2>11. ASSUME NEW k \in MergedOnes, NEW m \in MergedOnes, k < m
         PROVE  \E i \in PartsAt(k) \cap ToSet(s), j \in PartsAt(m) \cap ToSet(s) : i = j \/ Before(s, i, j)
    <3>1. k \in 1 .. n /\ m \in 1 .. n /\ o[k] \in DOMAIN s /\ o[m] \in DOMAIN s /\ o[k] <= o[m]
      BY <2>3, <2>8, <2>11
    <3>2. o[k] = o[m] \/ o[k] < o[m]
      BY <2>7, <3>1
    <3>3. s[o[k]] = s[o[m]] \/ Before(s, s[o[k]], s[o[m]])
      BY <3>1, <3>2 DEF Before
    <3>4. QED
      BY <2>8, <3>1, <3>3
  <2>12. QED
    BY <2>9, <2>10, <2>11, Zenon DEF s, t
<1>2. QED
  BY <1>1, DataInvariant, PTL

(* The items that are handed on, without partner.                          *)
Once(tail, i) == \E c \in DOMAIN tail : tail[c] = i /\ \A d \in DOMAIN tail : tail[d] = i => d = c
Never(tail, i) == \A c \in DOMAIN tail : tail[c] # i

Remaining(tail) == tail = CallMatches.unmatched1 \o CallMatches.unmatched2

LEMMA TailOnce ==
  ASSUME TypedMerge, NEW tail, Remaining(tail)
  PROVE  /\ \A a \in DOMAIN call.items1 : /\ a \in Alone1 => Once(tail, call.items1[a])
                                          /\ a \notin Alone1 => Never(tail, call.items1[a])
         /\ \A b \in DOMAIN call.items2 : /\ b \in Alone2 => Once(tail, call.items2[b])
                                          /\ b \notin Alone2 => Never(tail, call.items2[b])
<1> DEFINE s == call.items1
           t == call.items2
           u1 == CallMatches.unmatched1
           u2 == CallMatches.unmatched2
           k1 == Ascending(Alone1)
           k2 == Ascending(Alone2)
           I == Inputs(call)
<1>1. /\ u1 \in Seq(I) /\ IsChosen(u1, s, Alone1, k1)
      /\ u2 \in Seq(I) /\ IsChosen(u2, t, Alone2, k2)
  BY AloneOnes
<1>2. /\ \A a, c \in DOMAIN s : s[a] = s[c] => a = c
      /\ \A a, c \in DOMAIN t : t[a] = t[c] => a = c
      /\ \A a \in DOMAIN s, c \in DOMAIN t : s[a] # t[c]
  BY DEF TypedMerge
<1>3. Alone1 \subseteq DOMAIN s /\ Alone2 \subseteq DOMAIN t
  BY DEF Alone1, Alone2, CallLooked, Looked
<1> HIDE DEF s, t, u1, u2, k1, k2, I
<1> DEFINE l == Len(u1)
           m == Len(u2)
<1>5. l \in Nat /\ m \in Nat /\ DOMAIN tail = 1 .. l + m
      /\ \A j \in 1 .. l + m : tail[j] = IF j <= l THEN u1[j] ELSE u2[j - l]
  <2>0. u1 \in Seq(I) /\ u2 \in Seq(I)
    BY <1>1
  <2> DEFINE w == u1 \o u2
  <2>1. w \in Seq(I) /\ Len(w) = l + m
        /\ \A j \in 1 .. l + m : w[j] = IF j <= l THEN u1[j] ELSE u2[j - l]
    BY <2>0, Concatenated, Zenon
  <2>2. tail = w
    BY Zenon DEF Remaining, u1, u2
  <2> HIDE DEF w
  <2>3. DOMAIN w = 1 .. Len(w)
    BY <2>1
  <2>4. l \in Nat /\ m \in Nat
    BY <2>0
  <2>5. QED
    BY <2>1, <2>2, <2>3, <2>4
<1>6. /\ DOMAIN k1 = 1 .. l /\ \A j \in 1 .. l : k1[j] \in Alone1 /\ u1[j] = s[k1[j]]
      /\ \A i, j \in 1 .. l : k1[i] = k1[j] => i = j
      /\ \A a \in Alone1 : \E j \in 1 .. l : k1[j] = a
  BY <1>1, Zenon DEF IsChosen, Entries
<1>7. /\ DOMAIN k2 = 1 .. m /\ \A j \in 1 .. m : k2[j] \in Alone2 /\ u2[j] = t[k2[j]]
      /\ \A i, j \in 1 .. m : k2[i] = k2[j] => i = j
      /\ \A a \in Alone2 : \E j \in 1 .. m : k2[j] = a
  BY <1>1, Zenon DEF IsChosen, Entries
<1> HIDE DEF l, m
<1>8. ASSUME NEW j \in DOMAIN tail
      PROVE  \/ j \in 1 .. l /\ k1[j] \in Alone1 /\ tail[j] = s[k1[j]]
             \/ j - l \in 1 .. m /\ k2[j - l] \in Alone2 /\ tail[j] = t[k2[j - l]]
  <2>1. CASE j <= l
    <3>1. j \in 1 .. l /\ tail[j] = u1[j]
      BY <1>5, <2>1
    <3>2. QED
      BY <1>6, <3>1
  <2>2. CASE ~(j <= l)
    <3>1. j - l \in 1 .. m /\ tail[j] = u2[j - l]
      BY <1>5, <2>2
    <3>2. QED
      BY <1>7, <3>1
  <2>3. QED
    BY <2>1, <2>2
<1>9. ASSUME NEW a \in DOMAIN s, NEW j \in DOMAIN tail, tail[j] = s[a]
      PROVE  j \in 1 .. l /\ k1[j] = a /\ a \in Alone1
  BY <1>2, <1>3, <1>8, <1>9
<1>10. ASSUME NEW b \in DOMAIN t, NEW j \in DOMAIN tail, tail[j] = t[b]
       PROVE  j - l \in 1 .. m /\ k2[j - l] = b /\ b \in Alone2
  BY <1>2, <1>3, <1>8, <1>10
<1>11. ASSUME NEW a \in Alone1 PROVE Once(tail, s[a])
  <2>1. a \in DOMAIN s
    BY <1>3
  <2>2. PICK c \in 1 .. l : k1[c] = a
    BY <1>6
  <2>3. c \in DOMAIN tail /\ tail[c] = s[a]
    <3>1. c \in 1 .. l + m /\ c <= l
      BY <1>5, <2>2
    <3>2. QED
      BY <1>5, <1>6, <2>2, <3>1
  <2>4. \A d \in DOMAIN tail : tail[d] = s[a] => d = c
    BY <1>6, <1>9, <2>1, <2>2
  <2>5. QED
    BY <2>3, <2>4 DEF Once
<1>12. ASSUME NEW b \in Alone2 PROVE Once(tail, t[b])
  <2>1. b \in DOMAIN t
    BY <1>3
  <2>2. PICK c \in 1 .. m : k2[c] = b
    BY <1>7
  <2>3. l + c \in DOMAIN tail /\ tail[l + c] = t[b]
    <3>1. l + c \in 1 .. l + m /\ ~(l + c <= l) /\ (l + c) - l = c
      BY <1>5, <2>2
    <3>2. tail[l + c] = u2[c]
      BY <1>5, <3>1
    <3>3. QED
      BY <1>5, <1>7, <2>2, <3>1, <3>2
  <2>4. ASSUME NEW d \in DOMAIN tail, tail[d] = t[b] PROVE d = l + c
    <3>1. d - l \in 1 .. m /\ k2[d - l] = b
      BY <1>10, <2>1, <2>4
    <3>2. d - l = c
      BY <1>7, <2>2, <3>1
    <3>3. d \in Nat /\ l \in Nat /\ c \in Nat
      BY <1>5, <2>2
    <3>4. QED
      BY <3>2, <3>3
  <2>5. QED
    BY <2>3, <2>4 DEF Once
<1>13. \A a \in DOMAIN s : a \notin Alone1 => Never(tail, s[a])
  BY <1>9 DEF Never
<1>14. \A b \in DOMAIN t : b \notin Alone2 => Never(tail, t[b])
  BY <1>10 DEF Never
<1>15. QED
  BY <1>11, <1>12, <1>13, <1>14 DEF s, t

HandedAs(i) == {k \in HandedOn : result.out[k][2] = i}
MergedFrom(i) == {k \in MergedOnes : i \in PartsAt(k)}

LEMMA HandedAsRemaining ==
  ASSUME NEW n, NEW o, NEW tail, JoinMade(n, o, tail), NEW i
  PROVE  /\ Once(tail, i) => \E k \in HandedAs(i) : HandedAs(i) = {k}
         /\ Never(tail, i) => HandedAs(i) = {}
<1>1. /\ n \in Nat /\ HandedOn = n + 1 .. n + Len(tail) /\ tail \in Seq(Inputs(call))
      /\ \A k \in 1 .. Len(tail) : result.out[n + k] = <<"item", tail[k]>>
  BY Zenon DEF JoinMade
<1>2. Len(tail) \in Nat /\ DOMAIN tail = 1 .. Len(tail)
  BY <1>1
<1>3. \A c \in DOMAIN tail : n + c \in HandedOn /\ result.out[n + c][2] = tail[c]
  <2> TAKE c \in DOMAIN tail
  <2>1. n + c \in HandedOn
    BY <1>1, <1>2
  <2>2. result.out[n + c] = <<"item", tail[c]>>
    BY <1>1, <1>2
  <2>3. QED
    BY <2>1, <2>2
<1>4. \A k \in HandedOn : k - n \in DOMAIN tail /\ n + (k - n) = k
  BY <1>1, <1>2
<1>5. \A k \in HandedAs(i) : k - n \in DOMAIN tail /\ n + (k - n) = k /\ tail[k - n] = i
  BY <1>3, <1>4 DEF HandedAs
<1>6. ASSUME Once(tail, i) PROVE \E k \in HandedAs(i) : HandedAs(i) = {k}
  <2>1. PICK c \in DOMAIN tail : tail[c] = i /\ \A d \in DOMAIN tail : tail[d] = i => d = c
    BY <1>6 DEF Once
  <2>2. n + c \in HandedAs(i)
    BY <1>3, <2>1 DEF HandedAs
  <2>3. \A k \in HandedAs(i) : k = n + c
    <3> TAKE k \in HandedAs(i)
    <3>1. k - n = c /\ n + (k - n) = k
      BY <1>5, <2>1
    <3>2. QED
      BY <3>1
  <2>4. QED
    BY <2>2, <2>3
<1>7. ASSUME Never(tail, i) PROVE HandedAs(i) = {}
  BY <1>5, <1>7 DEF Never
<1>8. QED
  BY <1>6, <1>7

LEMMA MergedFromFound ==
  ASSUME TypedMerge, NEW n, NEW o, NEW tail, JoinMade(n, o, tail)
  PROVE  /\ \A a \in DOMAIN call.items1 : MergedFrom(call.items1[a]) # {} <=> CallFound[a] # {}
         /\ \A b \in DOMAIN call.items2 :
              MergedFrom(call.items2[b]) # {} <=> \E a \in DOMAIN call.items1 : b \in CallFound[a]
<1> DEFINE s == call.items1
           t == call.items2
<1>1. /\ o \in [1 .. n -> DOMAIN s] /\ MergedOnes = 1 .. n
      /\ \A k \in 1 .. n : \E m \in CallFound[o[k]] : PartsAt(k) = {s[o[k]], t[m]}
      /\ \A a \in DOMAIN s : \A m \in CallFound[a] : \E k \in 1 .. n : PartsAt(k) = {s[a], t[m]}
  BY Zenon DEF JoinMade
<1>2. /\ \A a, c \in DOMAIN s : s[a] = s[c] => a = c
      /\ \A a, c \in DOMAIN t : t[a] = t[c] => a = c
      /\ \A a \in DOMAIN s, c \in DOMAIN t : s[a] # t[c]
  BY DEF TypedMerge
<1>3. \A a \in DOMAIN s : \A m \in CallFound[a] : m \in DOMAIN t
  BY FoundAreMaps
<1> HIDE DEF s, t
<1>4. ASSUME NEW a \in DOMAIN s, NEW m \in CallFound[a]
      PROVE  MergedFrom(s[a]) # {} /\ MergedFrom(t[m]) # {}
  <2>1. PICK k \in 1 .. n : PartsAt(k) = {s[a], t[m]}
    BY <1>1
  <2>2. k \in MergedFrom(s[a]) /\ k \in MergedFrom(t[m])
    BY <1>1, <2>1 DEF MergedFrom
  <2>3. QED
    BY <2>2
<1>5. \A k \in MergedOnes : k \in 1 .. n /\ o[k] \in DOMAIN s /\ \E m \in CallFound[o[k]] : PartsAt(k) = {s[o[k]], t[m]}
  BY <1>1
<1>6. ASSUME NEW a \in DOMAIN s, MergedFrom(s[a]) # {} PROVE CallFound[a] # {}
  <2>1. PICK k \in MergedOnes : s[a] \in PartsAt(k)
    BY <1>6 DEF MergedFrom
  <2>2. PICK m \in CallFound[o[k]] : PartsAt(k) = {s[o[k]], t[m]}
    BY <1>5
  <2>3. o[k] \in DOMAIN s /\ m \in DOMAIN t
    BY <1>3, <1>5, <2>2
  <2>4. o[k] = a
    BY <1>2, <2>1, <2>2, <2>3
  <2>5. QED
    BY <2>2, <2>4
<1>7. ASSUME NEW b \in DOMAIN t, MergedFrom(t[b]) # {} PROVE \E a \in DOMAIN s : b \in CallFound[a]
  <2>1. PICK k \in MergedOnes : t[b] \in PartsAt(k)
    BY <1>7 DEF MergedFrom
  <2>2. PICK m \in CallFound[o[k]] : PartsAt(k) = {s[o[k]], t[m]}
    BY <1>5
  <2>3. o[k] \in DOMAIN s /\ m \in DOMAIN t
    BY <1>3, <1>5, <2>2
  <2>4. m = b
    BY <1>2, <2>1, <2>2, <2>3
  <2>5. QED
    BY <2>2, <2>3, <2>4
<1>8. QED
  BY <1>4, <1>6, <1>7 DEF s, t

(* What MergeAccountsForAll says of an item.                               *)
HasPartner(i) ==
  \E j \in Inputs(call) : \/ i \in ToSet(call.items1) /\ j \in ToSet(call.items2) /\ Agree(i, j)
                          \/ j \in ToSet(call.items1) /\ i \in ToSet(call.items2) /\ Agree(j, i)
Accounted(i) ==
  IF i \in ToSet(call.items1) /\ Keyless(i) THEN HandedAs(i) = {} /\ MergedFrom(i) = {}
  ELSE \/ MergedFrom(i) = {} /\ \E k \in HandedAs(i) : HandedAs(i) = {k}
       \/ HandedAs(i) = {} /\ MergedFrom(i) # {} /\ HasPartner(i)

(* With keepEverything a merge by fields (nodes/merge/node.go) hands each  *)
(* item without partner on once, merges each one that has a partner, and   *)
(* does both to none: for lists of any length and any items.               *)
THEOREM JoinAccountsForAll == DataSpec => []MergeAccountsForAll
<1>1. ASSUME DataInv PROVE MergeAccountsForAll
  <2> SUFFICES ASSUME ByFields, call.p.joinMode = "keepEverything", NEW i \in Inputs(call)
               PROVE  Accounted(i)
    BY Zenon DEF MergeAccountsForAll, Accounted, HasPartner, HandedAs, MergedFrom
  <2> DEFINE s == call.items1
             t == call.items2
  <2>1. Joining
    BY DEF Joining
  <2>2. TypedMerge /\ ApartFields
    BY <1>1, <2>1, JoinResult, MergeIsTyped DEF ByFields, ApartFields
  <2>3. PICK n, o, tail : JoinMade(n, o, tail)
    BY <1>1, <2>1, JoinOutcome
  <2>4. Remaining(tail)
    BY <2>3, Zenon DEF JoinMade, Remaining
  <2>5. /\ \A a \in DOMAIN s : /\ a \in Alone1 => Once(tail, s[a])
                               /\ a \notin Alone1 => Never(tail, s[a])
        /\ \A b \in DOMAIN t : /\ b \in Alone2 => Once(tail, t[b])
                               /\ b \notin Alone2 => Never(tail, t[b])
    BY <2>2, <2>4, TailOnce, Zenon
  <2>6. /\ Once(tail, i) => \E k \in HandedAs(i) : HandedAs(i) = {k}
        /\ Never(tail, i) => HandedAs(i) = {}
    BY <2>3, HandedAsRemaining, Zenon
  <2>7. /\ \A a \in DOMAIN s : MergedFrom(s[a]) # {} <=> CallFound[a] # {}
        /\ \A b \in DOMAIN t : MergedFrom(t[b]) # {} <=> \E a \in DOMAIN s : b \in CallFound[a]
    BY <2>2, <2>3, MergedFromFound, Zenon
  <2>8. \A a \in DOMAIN s : \A b \in CallFound[a] : a \in CallLooked /\ b \in DOMAIN t /\ Agree(s[a], t[b])
    <3> TAKE a \in DOMAIN s
    <3> TAKE b \in CallFound[a]
    <3>1. a \in CallLooked /\ b \in DOMAIN t
      BY FoundAreMaps
    <3>2. Joined(s[a], t[b])
      BY <2>2, <3>1, JoinedIsFound
    <3>3. QED
      BY <3>1, <3>2 DEF Joined
  <2>9. \A a \in DOMAIN s : a \in CallLooked <=> ~Keyless(s[a])
    BY LookedHasKeys
  <2>10. /\ \A a \in DOMAIN s : s[a] \in ToSet(s) /\ s[a] \in Inputs(call)
         /\ \A b \in DOMAIN t : t[b] \in ToSet(t) /\ t[b] \in Inputs(call)
         /\ (\E a \in DOMAIN s : i = s[a]) \/ (\E b \in DOMAIN t : i = t[b])
    BY Zenon DEF ToSet, Inputs
  <2>11. \A a \in DOMAIN s, b \in DOMAIN t : s[a] # t[b]
    BY <2>2 DEF TypedMerge
  <2>12. /\ \A a \in DOMAIN s : a \in Alone1 <=> a \in CallLooked /\ CallFound[a] = {}
         /\ \A b \in DOMAIN t : b \in Alone2 <=> ~\E a \in DOMAIN s : b \in CallFound[a]
    BY DEF Alone1, Alone2, CallLooked, Looked
  <2>13. \A a \in DOMAIN s : \A b \in CallFound[a] : HasPartner(s[a]) /\ HasPartner(t[b])
    BY <2>8, <2>10, Zenon DEF HasPartner
  <2>14. \A b \in DOMAIN t : t[b] \notin ToSet(s)
    BY <2>11, Zenon DEF ToSet
  <2> HIDE DEF s, t
  <2>15. ASSUME NEW a \in DOMAIN s, i = s[a] PROVE Accounted(i)
    <3>1. CASE a \notin CallLooked
      <4>1. CallFound[a] = {} /\ a \notin Alone1 /\ Keyless(i)
        BY <2>8, <2>9, <2>12, <2>15, <3>1
      <4>2. HandedAs(i) = {} /\ MergedFrom(i) = {} /\ i \in ToSet(s)
        BY <2>5, <2>6, <2>7, <2>10, <2>15, <4>1
      <4>3. QED
        BY <4>1, <4>2 DEF Accounted, s
    <3>2. CASE a \in CallLooked /\ CallFound[a] = {}
      <4>1. a \in Alone1 /\ ~Keyless(i)
        BY <2>9, <2>12, <2>15, <3>2
      <4>2. MergedFrom(i) = {} /\ \E k \in HandedAs(i) : HandedAs(i) = {k}
        BY <2>5, <2>6, <2>7, <2>15, <3>2, <4>1
      <4>3. QED
        BY <4>1, <4>2, Zenon DEF Accounted
    <3>3. CASE a \in CallLooked /\ CallFound[a] # {}
      <4>1. a \notin Alone1 /\ ~Keyless(i) /\ HasPartner(i)
        BY <2>9, <2>12, <2>13, <2>15, <3>3
      <4>2. HandedAs(i) = {} /\ MergedFrom(i) # {}
        BY <2>5, <2>6, <2>7, <2>15, <3>3, <4>1
      <4>3. QED
        BY <4>1, <4>2, Zenon DEF Accounted
    <3>4. QED
      BY <3>1, <3>2, <3>3
  <2>16. ASSUME NEW b \in DOMAIN t, i = t[b] PROVE Accounted(i)
    <3>1. i \notin ToSet(s)
      BY <2>14, <2>16
    <3>2. CASE b \in Alone2
      <4>1. MergedFrom(i) = {} /\ \E k \in HandedAs(i) : HandedAs(i) = {k}
        BY <2>5, <2>6, <2>7, <2>12, <2>16, <3>2
      <4>2. QED
        BY <3>1, <4>1, Zenon DEF Accounted, s
    <3>3. CASE b \notin Alone2
      <4>1. PICK a \in DOMAIN s : b \in CallFound[a]
        BY <2>12, <2>16, <3>3
      <4>2. HandedAs(i) = {} /\ MergedFrom(i) # {} /\ HasPartner(i)
        BY <2>5, <2>6, <2>7, <2>13, <2>16, <3>3, <4>1
      <4>3. QED
        BY <3>1, <4>2, Zenon DEF Accounted, s
    <3>4. QED
      BY <3>2, <3>3
  <2>17. QED
    BY <2>10, <2>15, <2>16
<1>2. QED
  BY <1>1, DataInvariant, PTL
=============================================================================
