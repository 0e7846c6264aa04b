--------------------------- MODULE Services_proofs --------------------------
(***************************************************************************)
(* Proofs about the parts that talk to services: the calls of HTTP Request *)
(* and of BigQuery, with any number of items, any parameters and any       *)
(* answers, and any callers of the secrets manager; and about the machine  *)
(* that evaluates the expressions of a parameter.                          *)
(*                                                                         *)
(* The loop of HTTP Request counts responses, not goroutines; Counting     *)
(* ties the one to the other as long as the context lives.                 *)
(***************************************************************************)
EXTENDS HttpRequest, Secrets, BigQuery, Sandbox, FiniteSetTheorems, TLAPS

-----------------------------------------------------------------------------
(* Numbers and sequences.                                                  *)

(* A set of numbers has a least one.                                       *)
LEMMA Least ==
  ASSUME NEW T \in SUBSET Nat, T # {}
  PROVE  \E m \in T : \A k \in T : m <= k
<1> DEFINE R == OpToRel(<, Nat)
<1>1. IsWellFoundedOn(R, Nat)
  BY NatLessThanWellFounded
<1>2. \A x, y \in Nat : x < y => <<x, y>> \in R
  BY DEF OpToRel
<1> HIDE DEF R
<1>3. PICK x \in T : \A y \in T : ~ (<<y, x>> \in R)
  <2>1. T \subseteq Nat
    OBVIOUS
  <2>2. QED
    BY <1>1, <2>1, WFMin
<1>4. \A y \in T : ~(y < x)
  BY <1>2, <1>3
<1>5. QED
  BY <1>4

(* Induction, over the numbers in a set.                                   *)
LEMMA Induct ==
  ASSUME NEW S, 0 \in S, \A n \in Nat : n \in S => n + 1 \in S
  PROVE  \A n \in Nat : n \in S
<1> DEFINE T == Nat \ S
<1>1. CASE T # {}
  <2>1. PICK m \in T : \A k \in T : m <= k
    BY <1>1, Least
  <2>2. m # 0 /\ m - 1 \in Nat /\ m - 1 \notin T
    BY <2>1
  <2>3. QED
    BY <2>2
<1>2. QED
  BY <1>1

LEMMA AppendTail ==
  ASSUME NEW A, NEW s \in Seq(A), NEW e \in A
  PROVE  Append(s, e) \in Seq(A) /\ ToSet(Append(s, e)) = ToSet(s) \cup {e}
<1>1. /\ Append(s, e) \in Seq(A) /\ Len(Append(s, e)) = Len(s) + 1 /\ Len(s) \in Nat
      /\ DOMAIN s = 1 .. Len(s) /\ DOMAIN Append(s, e) = 1 .. Len(s) + 1
      /\ Append(s, e)[Len(s) + 1] = e /\ \A i \in 1 .. Len(s) : Append(s, e)[i] = s[i]
  OBVIOUS
<1>2. QED
  BY <1>1 DEF ToSet

Senders == {"none", "requesting", "sending", "sent", "panicked"}
Answers == {"none", "response", "nil"}

HttpTypeOK ==
  /\ params \in HttpParams
  /\ sender \in [Items -> Senders]
  /\ answer \in [Items -> Answers]
  /\ received \in Seq(Items \X Answers)
  /\ ctx \in {"live", "cancelled"}

(* Where Execute is; the channel is open until it has returned a result.   *)
Building == \E i \in 1 .. N + 1 : main = <<"build", i>>
Receiving == \E i \in 1 .. N + 1 : main = <<"receive", i>>
Left == main \in {<<"failed">>, <<"panic">>}

Place ==
  \/ (Building \/ Receiving \/ Left) /\ channel = "open"
  \/ main = <<"success">> /\ channel = "closed"

(* The items whose response was taken.                                     *)
Taken == {k \in Items : sender[k] = "sent"}

(* Counting the loop's turns counts the responses taken.                   *)
Counting ==
  /\ Building => Taken = {} /\ received = <<>>
  /\ \A i \in 1 .. N + 1 : main = <<"receive", i>> =>
       Cardinality(Taken) = i - 1 /\ Len(received) = i - 1
  /\ main = <<"success">> => Taken = Items /\ Len(received) = N

Handled == \A k \in Taken : <<k, answer[k]>> \in ToSet(received)

HttpInv ==
  /\ HttpTypeOK
  /\ Place
  /\ ctx = "live" => Counting /\ Handled
  /\ CrashOnlyAfterCancel

-----------------------------------------------------------------------------
LEMMA Size == ASSUME params \in HttpParams PROVE N \in Nat /\ Items = 1 .. N
BY HttpAssumption DEF N, Items

LEMMA TakenFinite ==
  ASSUME params \in HttpParams
  PROVE  IsFiniteSet(Taken) /\ IsFiniteSet(Items) /\ Cardinality(Items) = N
<1>1. N \in Nat /\ Items = 1 .. N  BY Size
<1>2. IsFiniteSet(Items) /\ Cardinality(Items) = N  BY <1>1, FS_Interval
<1>3. IsFiniteSet(Taken)  BY <1>2, FS_Subset DEF Taken
<1>4. QED  BY <1>2, <1>3

(* The places are told apart by their first component.                     *)
LEMMA Apart ==
  ASSUME NEW i, NEW j
  PROVE  /\ <<"build", i>> # <<"receive", j>>
         /\ <<"build", i>> = <<"build", j>> => i = j
         /\ <<"receive", i>> = <<"receive", j>> => i = j
         /\ <<"build", i>> \notin {<<"success">>, <<"failed">>, <<"panic">>}
         /\ <<"receive", i>> \notin {<<"success">>, <<"failed">>, <<"panic">>}
         /\ <<"success">> \notin {<<"failed">>, <<"panic">>}
OBVIOUS

LEMMA HttpInitInv == HttpInit => HttpInv
<1>1. SUFFICES ASSUME HttpInit PROVE HttpInv
  OBVIOUS
<1>2. N \in Nat /\ Items = 1 .. N
  BY <1>1, Size DEF HttpInit
<1>3. HttpTypeOK
  BY <1>1 DEF HttpInit, HttpTypeOK, Senders, Answers
<1>4. Building
  BY <1>1, <1>2 DEF HttpInit, Building
<1>5. Taken = {}
  BY <1>1 DEF HttpInit, Taken
<1>6. Counting /\ Handled
  <2>1. main = <<"build", 1>> /\ received = <<>>
    BY <1>1 DEF HttpInit
  <2>2. QED
    BY <1>5, <2>1, Apart DEF Counting, Handled
<1>7. CrashOnlyAfterCancel
  BY <1>1 DEF HttpInit, CrashOnlyAfterCancel
<1>8. QED
  BY <1>1, <1>3, <1>4, <1>6, <1>7 DEF HttpInv, Place, HttpInit

-----------------------------------------------------------------------------
(* Execute on its way to the responses.                                    *)

LEMMA BuildKeeps == ASSUME HttpInv, NEW k \in Items, Build(k) PROVE HttpInv'
<1>1. N \in Nat /\ Items = 1 .. N /\ UNCHANGED <<N, Items>>
  BY Size DEF HttpInv, HttpTypeOK, Build, N, Items
<1>2. /\ UNCHANGED <<params, answer, channel, ctx, received, process>>
      /\ main = <<"build", k>> /\ main' = <<"build", k + 1>>
      /\ sender' \in {sender, [sender EXCEPT ![k] = "requesting"]}
  BY DEF Build
<1>3. Building /\ Building' /\ k + 1 \in 1 .. N + 1
  BY <1>1, <1>2 DEF Building
<1>4. HttpTypeOK'
  BY <1>1, <1>2 DEF HttpInv, HttpTypeOK, Senders
<1>5. Place'
  <2>1. channel = "open"
    BY <1>2, Apart DEF HttpInv, Place
  <2>2. QED
    BY <1>2, <1>3, <2>1 DEF Place
<1>6. ASSUME ctx = "live" PROVE Counting' /\ Handled'
  <2>1. Taken = {} /\ received = <<>>
    BY <1>3, <1>6 DEF HttpInv, Counting
  <2>2. Taken' = {} /\ received' = <<>>
    BY <1>1, <1>2, <2>1 DEF Taken, HttpInv, HttpTypeOK
  <2>3. QED
    BY <1>2, <2>2, Apart DEF Counting, Handled
<1>7. QED
  BY <1>2, <1>4, <1>5, <1>6 DEF HttpInv, CrashOnlyAfterCancel

LEMMA BuildFailsKeeps == ASSUME HttpInv, NEW k \in Items, BuildFails(k) PROVE HttpInv'
<1>1. N \in Nat /\ Items = 1 .. N /\ UNCHANGED <<N, Items>>
  BY Size DEF HttpInv, HttpTypeOK, BuildFails, N, Items
<1>2. /\ UNCHANGED <<params, sender, answer, channel, ctx, received, process>>
      /\ main = <<"build", k>> /\ main' \in {<<"failed">>, <<"panic">>}
  BY DEF BuildFails, ChannelOnFailure
<1>3. HttpTypeOK'
  BY <1>1, <1>2 DEF HttpInv, HttpTypeOK
<1>4. Place'
  <2>1. channel = "open"
    BY <1>2, Apart DEF HttpInv, Place
  <2>2. QED
    BY <1>2, <2>1 DEF Place, Left
<1>5. ASSUME ctx = "live" PROVE Counting' /\ Handled'
  <2>1. Building
    BY <1>1, <1>2 DEF Building
  <2>2. Taken' = {}
    BY <1>1, <1>2, <1>5, <2>1 DEF HttpInv, Counting, Taken
  <2>3. ~Building' /\ ~Receiving' /\ main' # <<"success">>
    BY <1>2, Apart DEF Building, Receiving
  <2>4. QED
    BY <2>2, <2>3 DEF Counting, Handled, Receiving
<1>6. QED
  BY <1>2, <1>3, <1>4, <1>5 DEF HttpInv, CrashOnlyAfterCancel

LEMMA StartReceivingKeeps == ASSUME HttpInv, StartReceiving PROVE HttpInv'
<1>1. N \in Nat /\ Items = 1 .. N /\ UNCHANGED <<N, Items>>
  BY Size DEF HttpInv, HttpTypeOK, StartReceiving, N, Items
<1>2. /\ UNCHANGED <<params, sender, answer, channel, ctx, received, process>>
      /\ main = <<"build", N + 1>> /\ main' = <<"receive", 1>>
  BY DEF StartReceiving
<1>3. Building /\ Receiving'
  BY <1>1, <1>2 DEF Building, Receiving
<1>4. HttpTypeOK'
  BY <1>1, <1>2 DEF HttpInv, HttpTypeOK
<1>5. Place'
  <2>1. channel = "open"
    BY <1>2, Apart DEF HttpInv, Place
  <2>2. QED
    BY <1>2, <1>3, <2>1 DEF Place
<1>6. ASSUME ctx = "live" PROVE Counting' /\ Handled'
  <2>1. Taken = {} /\ received = <<>>
    BY <1>3, <1>6 DEF HttpInv, Counting
  <2>2. Taken' = {} /\ received' = <<>>
    BY <1>1, <1>2, <2>1 DEF Taken
  <2>3. Cardinality(Taken') = 0 /\ Len(received') = 0
    BY <2>2, FS_EmptySet
  <2>4. ~Building' /\ main' # <<"success">> /\ \A i : main' = <<"receive", i>> => i = 1
    BY <1>2, Apart DEF Building
  <2>5. QED
    BY <1>1, <2>2, <2>3, <2>4 DEF Counting, Handled
<1>7. QED
  BY <1>2, <1>4, <1>5, <1>6 DEF HttpInv, CrashOnlyAfterCancel

-----------------------------------------------------------------------------
(* Execute, taking responses.                                              *)

LEMMA AppendedSet ==
  ASSUME NEW S, NEW s \in Seq(S), NEW e
  PROVE  ToSet(Append(s, e)) = ToSet(s) \cup {e}
<1>1. DOMAIN s = 1 .. Len(s) /\ DOMAIN Append(s, e) = 1 .. Len(s) + 1 /\ Len(s) \in Nat
  OBVIOUS
<1>2. \A i \in 1 .. Len(s) : Append(s, e)[i] = s[i]
  OBVIOUS
<1>3. Append(s, e)[Len(s) + 1] = e
  OBVIOUS
<1>4. QED
  BY <1>1, <1>2, <1>3 DEF ToSet

LEMMA ReceiveKeeps == ASSUME HttpInv, NEW k \in Items, Receive(k) PROVE HttpInv'
<1>1. N \in Nat /\ Items = 1 .. N /\ UNCHANGED <<N, Items>>
  BY Size DEF HttpInv, HttpTypeOK, Receive, N, Items
<1>2. PICK i \in 1 .. N :
        /\ main = <<"receive", i>> /\ main' = <<"receive", i + 1>>
        /\ sender[k] = "sending" /\ sender' = [sender EXCEPT ![k] = "sent"]
        /\ received' = Append(received, <<k, answer[k]>>)
        /\ UNCHANGED <<params, answer, channel, ctx, process>>
  BY DEF Receive
<1>3. i \in 1 .. N + 1 /\ i + 1 \in 1 .. N + 1 /\ Receiving'
  BY <1>1, <1>2 DEF Receiving
<1>4. HttpTypeOK'
  BY <1>1, <1>2 DEF HttpInv, HttpTypeOK, Senders, Answers
<1>5. Place'
  <2>1. channel = "open"
    BY <1>2, Apart DEF HttpInv, Place
  <2>2. QED
    BY <1>2, <1>3, <2>1 DEF Place
<1>6. ASSUME ctx = "live" PROVE Counting' /\ Handled'
  <2>1. Cardinality(Taken) = i - 1 /\ Len(received) = i - 1 /\ Handled
    BY <1>2, <1>3, <1>6 DEF HttpInv, Counting
  <2>2. Taken' = Taken \cup {k} /\ k \notin Taken
    BY <1>1, <1>2 DEF Taken, HttpInv, HttpTypeOK
  <2>3. Cardinality(Taken') = i
    <3>1. IsFiniteSet(Taken)
      BY TakenFinite DEF HttpInv, HttpTypeOK
    <3>2. Cardinality(Taken \cup {k}) = Cardinality(Taken) + 1
      BY <2>2, <3>1, FS_AddElement
    <3>3. QED
      BY <1>1, <1>2, <2>1, <2>2, <3>2
  <2>4. Len(received') = i
    BY <1>2, <2>1 DEF HttpInv, HttpTypeOK
  <2>5. ToSet(received') = ToSet(received) \cup {<<k, answer[k]>>}
    BY <1>2, AppendedSet DEF HttpInv, HttpTypeOK
  <2>6. Handled'
    BY <1>2, <2>1, <2>2, <2>5 DEF Handled
  <2>7. ~Building' /\ main' # <<"success">> /\ \A j : main' = <<"receive", j>> => j = i + 1
    BY <1>2, Apart DEF Building
  <2>8. QED
    BY <1>1, <2>3, <2>4, <2>6, <2>7 DEF Counting
<1>7. QED
  BY <1>2, <1>4, <1>5, <1>6 DEF HttpInv, CrashOnlyAfterCancel

LEMMA SeeCancelledKeeps == ASSUME HttpInv, SeeCancelled PROVE HttpInv'
<1>1. N \in Nat /\ Items = 1 .. N /\ UNCHANGED <<N, Items>>
  BY Size DEF HttpInv, HttpTypeOK, SeeCancelled, N, Items
<1>2. PICK i \in 1 .. N :
        /\ main = <<"receive", i>> /\ main' = <<"receive", i + 1>> /\ ctx = "cancelled"
        /\ UNCHANGED <<params, sender, answer, channel, ctx, received, process>>
  BY DEF SeeCancelled, ContextDone
<1>3. Receiving'
  BY <1>1, <1>2 DEF Receiving
<1>4. HttpTypeOK'
  BY <1>1, <1>2 DEF HttpInv, HttpTypeOK
<1>5. channel = "open"
  BY <1>2, Apart DEF HttpInv, Place
<1>6. QED
  BY <1>2, <1>3, <1>4, <1>5 DEF HttpInv, Place, CrashOnlyAfterCancel

LEMMA ReturnKeeps == ASSUME HttpInv, Return PROVE HttpInv'
<1>1. N \in Nat /\ Items = 1 .. N /\ UNCHANGED <<N, Items>>
  BY Size DEF HttpInv, HttpTypeOK, Return, N, Items
<1>2. /\ UNCHANGED <<params, sender, answer, ctx, received, process>>
      /\ main = <<"receive", N + 1>> /\ main' = <<"success">> /\ channel' = "closed"
  BY DEF Return
<1>3. HttpTypeOK'
  BY <1>1, <1>2 DEF HttpInv, HttpTypeOK
<1>4. ASSUME ctx = "live" PROVE Counting' /\ Handled'
  <2>1. Cardinality(Taken) = N /\ Len(received) = N /\ Handled
    BY <1>1, <1>2, <1>4 DEF HttpInv, Counting
  <2>2. Taken = Items
    <3>1. IsFiniteSet(Items) /\ Cardinality(Items) = N
      BY TakenFinite DEF HttpInv, HttpTypeOK
    <3>2. Taken \in SUBSET Items
      BY DEF Taken
    <3>3. QED
      BY <2>1, <3>1, <3>2, FS_Subset
  <2>3. Taken' = Items' /\ Len(received') = N' /\ Handled'
    BY <1>1, <1>2, <2>1, <2>2 DEF Taken, Handled
  <2>4. ~Building' /\ ~Receiving'
    BY <1>2, Apart DEF Building, Receiving
  <2>5. QED
    BY <2>3, <2>4 DEF Counting, Receiving
<1>5. QED
  BY <1>2, <1>3, <1>4 DEF HttpInv, Place, CrashOnlyAfterCancel

LEMMA CancelKeeps == ASSUME HttpInv, CancelCall PROVE HttpInv'
<1>1. UNCHANGED <<params, main, sender, answer, channel, received, process>> /\ ctx' = "cancelled"
  BY DEF CancelCall
<1>2. HttpTypeOK' /\ Place'
  BY <1>1 DEF HttpInv, HttpTypeOK, Place, Items, N, Building, Receiving, Left
<1>3. QED
  BY <1>1, <1>2 DEF HttpInv, CrashOnlyAfterCancel

-----------------------------------------------------------------------------
(* The goroutines.                                                         *)

LEMMA RequestKeeps == ASSUME HttpInv, NEW k \in Items, Request(k) PROVE HttpInv'
<1>1. UNCHANGED <<N, Items>>
  BY DEF Request, N, Items
<1>2. /\ UNCHANGED <<params, main, channel, ctx, received, process>>
      /\ sender[k] = "requesting" /\ sender' = [sender EXCEPT ![k] = "sending"]
      /\ \E a \in {"response", "nil"} : answer' = [answer EXCEPT ![k] = a]
  BY DEF Request, Sends
<1>3. HttpTypeOK'
  BY <1>1, <1>2 DEF HttpInv, HttpTypeOK, Senders, Answers
<1>4. Place'
  BY <1>1, <1>2 DEF HttpInv, Place, Building, Receiving, Left
<1>5. Taken' = Taken /\ k \notin Taken
  BY <1>1, <1>2 DEF HttpInv, HttpTypeOK, Taken
<1>6. ASSUME ctx = "live" PROVE Counting' /\ Handled'
  <2>1. Counting'
    BY <1>1, <1>2, <1>5, <1>6 DEF HttpInv, Counting, Building
  <2>2. Handled'
    BY <1>2, <1>5, <1>6 DEF HttpInv, Handled, HttpTypeOK, Taken
  <2>3. QED
    BY <2>1, <2>2
<1>7. QED
  BY <1>2, <1>3, <1>4, <1>6 DEF HttpInv, CrashOnlyAfterCancel

(* With a live context the channel is closed once every response was       *)
(* taken: no goroutine is left to send.                                    *)
LEMMA SendClosedKeeps == ASSUME HttpInv, NEW k \in Items, SendClosed(k) PROVE HttpInv'
<1>1. UNCHANGED <<N, Items>>
  BY DEF SendClosed, N, Items
<1>2. /\ UNCHANGED <<params, main, answer, channel, ctx, received>>
      /\ sender[k] = "sending" /\ sender' = [sender EXCEPT ![k] = "panicked"]
      /\ channel = "closed"
  BY DEF SendClosed
<1>3. HttpTypeOK'
  BY <1>1, <1>2 DEF HttpInv, HttpTypeOK, Senders
<1>4. Place'
  BY <1>1, <1>2 DEF HttpInv, Place
<1>5. ctx = "cancelled"
  <2>1. SUFFICES ASSUME ctx = "live" PROVE FALSE
    BY DEF HttpInv, HttpTypeOK
  <2>2. main = <<"success">>
    BY <1>2 DEF HttpInv, Place
  <2>3. Taken = Items
    BY <2>1, <2>2 DEF HttpInv, Counting
  <2>4. QED
    BY <1>2, <2>3 DEF Taken
<1>6. QED
  BY <1>2, <1>3, <1>4, <1>5 DEF HttpInv, CrashOnlyAfterCancel

-----------------------------------------------------------------------------
LEMMA HttpNextInv == HttpInv /\ [HttpNext]_httpVars => HttpInv'
<1>1. SUFFICES ASSUME HttpInv, [HttpNext]_httpVars PROVE HttpInv'
  OBVIOUS
<1>2. CASE MainStep
  BY <1>1, <1>2, BuildKeeps, BuildFailsKeeps, ReceiveKeeps, StartReceivingKeeps,
     SeeCancelledKeeps, ReturnKeeps DEF MainStep
<1>3. CASE CancelCall
  BY <1>1, <1>3, CancelKeeps
<1>4. ASSUME NEW k \in Items, SenderStep(k) PROVE HttpInv'
  BY <1>1, <1>4, RequestKeeps, SendClosedKeeps DEF SenderStep
<1>5. CASE UNCHANGED httpVars
  BY <1>1, <1>5 DEF httpVars, HttpInv, HttpTypeOK, Place, Building, Receiving, Left, Counting,
     Handled, Taken, Items, N, CrashOnlyAfterCancel
<1>6. QED
  BY <1>1, <1>2, <1>3, <1>4, <1>5 DEF HttpNext

LEMMA HttpInvariant == HttpSpec => []HttpInv
<1>1. HttpInit => HttpInv  BY HttpInitInv
<1>2. HttpInv /\ [HttpNext]_httpVars => HttpInv'  BY HttpNextInv
<1>3. QED  BY <1>1, <1>2, PTL DEF HttpSpec

(* Only in a call that was cancelled may a goroutine find the channel      *)
(* closed and take the process down, for any number of items, whatever     *)
(* their parameters and in whatever order the servers answer.              *)
THEOREM NoCrashWhileLive == HttpSpec => []CrashOnlyAfterCancel
<1>1. HttpInv => CrashOnlyAfterCancel  BY DEF HttpInv
<1>2. QED  BY <1>1, HttpInvariant, PTL

(* A call that was not cancelled returns exactly one answer of each item,  *)
(* its own, in whatever order they came.                                   *)
THEOREM EveryItemOnce == HttpSpec => []OneAnswerPerItem
<1>1. ASSUME HttpInv PROVE OneAnswerPerItem
  BY <1>1 DEF HttpInv, Counting, Handled, OneAnswerPerItem
<1>2. QED  BY <1>1, HttpInvariant, PTL

-----------------------------------------------------------------------------
(* The secrets manager.                                                    *)

Phases == {"idle", "looking", "creating", "updating", "deleting", "stored", "unsaved", "read",
           "deleted", "undeleted", "failed"}

SecretsTypeOK ==
  /\ holding \in [Callers -> PrivateKeys \cup {NoKey}]
  /\ given \in [Callers -> PrivateKeys \cup {NoKey}]
  /\ phase \in [Callers -> Phases]
  /\ secret \in PrivateKeys \cup {NoKey}

Asked(c, ask) == IF ask = "deleting" THEN AsksToDelete(c) ELSE AsksToSave(c)
DeleteAsked == \E c \in Callers : AsksToDelete(c)

(* Only what was asked for can come late.                                  *)
LateAsked == \A r \in late : r.caller \in Callers /\ r.ask \in Unanswered /\ Asked(r.caller, r.ask)

(* A caller that saves has a key, its own, and keeps it until it is told   *)
(* that it is stored.                                                      *)
Untouched == \A c \in Callers : phase[c] = "idle" => holding[c] = given[c]
Brought == \A c \in Callers : phase[c] = "looking" \/ AsksToSave(c) => given[c] # NoKey
Kept == \A c \in Callers : given[c] # NoKey => holding[c] = given[c] \/ phase[c] = "stored"

(* The secret comes from a caller that asked to save it; it is there when  *)
(* one was told so, unless a deletion was asked for.                       *)
Sourced(s) == s = NoKey \/ \E d \in Callers : AsksToSave(d) /\ s = given[d]
Readable == (\E c \in Callers : phase[c] = "stored") /\ ~DeleteAsked => secret # NoKey

SecretsInv == SecretsTypeOK /\ LateAsked /\ Untouched /\ Brought /\ Kept /\ Sourced(secret) /\ Readable

LEMMA SecretsInitInv == SecretsInit => SecretsInv
BY DEF SecretsInit, SecretsInv, SecretsTypeOK, Phases, LateAsked, Untouched, Brought, Kept, Sourced,
       Readable, AsksToSave

(* A caller goes on to one of these places.                                *)
Moves(c, places) == \E to \in places : phase' = [phase EXCEPT ![c] = to]

(* The others stay where they are.                                         *)
LEMMA Others ==
  ASSUME SecretsTypeOK, NEW c \in Callers, NEW places \in SUBSET Phases, Moves(c, places)
  PROVE  /\ phase' \in [Callers -> Phases]
         /\ phase'[c] \in places
         /\ \A d \in Callers \ {c} : phase'[d] = phase[d]
BY DEF SecretsTypeOK, Moves

(* Nobody takes back what it asked for.                                    *)
StaysAsked == \A d \in Callers : (AsksToSave(d) => AsksToSave(d)') /\ (AsksToDelete(d) => AsksToDelete(d)')

LEMMA StillAsked ==
  ASSUME SecretsInv, StaysAsked, UNCHANGED given
  PROVE  /\ DeleteAsked => DeleteAsked'
         /\ \A s : Sourced(s) => Sourced(s)'
         /\ late' \subseteq late => LateAsked'
BY DEF SecretsInv, StaysAsked, DeleteAsked, Sourced, LateAsked, Asked

(* A caller that has asked for nothing yet goes on, and changes no key.    *)
LEMMA CallerGoesOn ==
  ASSUME SecretsInv, NEW c \in Callers, phase[c] \in {"idle", "looking"},
         Moves(c, {"failed", "looking", "creating", "updating", "deleting"}),
         phase'[c] \in {"looking", "creating", "updating"} => given[c] # NoKey,
         UNCHANGED <<secret, holding, given, late>>
  PROVE  SecretsInv'
<1> DEFINE places == {"failed", "looking", "creating", "updating", "deleting"}
<1>1. /\ phase' \in [Callers -> Phases]
      /\ phase'[c] \in places
      /\ \A d \in Callers \ {c} : phase'[d] = phase[d]
  <2>1. places \in SUBSET Phases  BY DEF Phases
  <2>2. QED  BY <2>1, Others DEF SecretsInv
<1>2. SecretsTypeOK'  BY <1>1 DEF SecretsInv, SecretsTypeOK
<1>3. StaysAsked  BY <1>1 DEF StaysAsked, AsksToSave, AsksToDelete
<1>4. Untouched' /\ Kept'  BY <1>1 DEF SecretsInv, Untouched, Kept
<1>5. Brought'  BY <1>1 DEF SecretsInv, Brought, AsksToSave
<1>6. Readable'  BY <1>1, <1>3, StillAsked DEF SecretsInv, Readable
<1>7. Sourced(secret)' /\ LateAsked'  BY <1>3, StillAsked DEF SecretsInv, Sourced
<1>8. QED  BY <1>2, <1>4, <1>5, <1>6, <1>7 DEF SecretsInv

(* What the manager makes of a request that was asked for.                 *)
LEMMA RequestTaken ==
  ASSUME SecretsInv, NEW c \in Callers, NEW ask \in Unanswered, Asked(c, ask)
  PROVE  /\ After(c, ask) \in PrivateKeys \cup {NoKey}
         /\ Sourced(After(c, ask))
         /\ ~AsksToDelete(c) /\ (secret # NoKey \/ Accepts(ask)) => After(c, ask) # NoKey
<1>1. given[c] \in PrivateKeys \cup {NoKey} /\ secret \in PrivateKeys \cup {NoKey}
  BY DEF SecretsInv, SecretsTypeOK
<1>2. CASE ask = "deleting"
  BY <1>2 DEF After, Sourced, Asked
<1>3. CASE ask # "deleting"
  <2>1. AsksToSave(c) /\ given[c] # NoKey  BY <1>3 DEF Asked, SecretsInv, Brought
  <2>2. Sourced(given[c])  BY <2>1 DEF Sourced
  <2>3. After(c, ask) = IF Accepts(ask) THEN given[c] ELSE secret  BY <1>3 DEF After
  <2>4. QED  BY <1>1, <2>1, <2>2, <2>3 DEF SecretsInv
<1>4. QED  BY <1>2, <1>3

(* The manager answers a caller that saves.                                *)
LEMMA SaveKeeps ==
  ASSUME SecretsInv, NEW c \in Callers, NEW ask \in {"creating", "updating"}, Save(c, ask)
  PROVE  SecretsInv'
<1>1. /\ phase[c] = ask /\ UNCHANGED <<given, late>>
      /\ secret' = After(c, ask)
      /\ Moves(c, {"stored", "unsaved"})
      /\ phase' = [phase EXCEPT ![c] = IF Accepts(ask) THEN "stored" ELSE "unsaved"]
      /\ holding' = IF Accepts(ask) THEN [holding EXCEPT ![c] = NoKey] ELSE holding
  BY DEF Save, Cleared, Goto, Moves
<1>2. /\ phase' \in [Callers -> Phases]
      /\ phase'[c] \in {"stored", "unsaved"}
      /\ phase'[c] = "stored" <=> Accepts(ask)
      /\ \A d \in Callers \ {c} : phase'[d] = phase[d]
  BY <1>1, Others DEF SecretsInv, SecretsTypeOK, Phases
<1>3. ask \in Unanswered /\ Asked(c, ask) /\ ~AsksToDelete(c)
  BY <1>1 DEF Unanswered, Asked, AsksToSave, AsksToDelete
<1>4. /\ secret' \in PrivateKeys \cup {NoKey}
      /\ Sourced(After(c, ask))
      /\ secret # NoKey \/ Accepts(ask) => secret' # NoKey
  BY <1>1, <1>3, RequestTaken
<1>5. StaysAsked  BY <1>1, <1>2 DEF StaysAsked, AsksToSave, AsksToDelete
<1>6. SecretsTypeOK'  BY <1>1, <1>2, <1>4 DEF SecretsInv, SecretsTypeOK
<1>7. Untouched'  BY <1>1, <1>2 DEF SecretsInv, SecretsTypeOK, Untouched
<1>8. Brought'  BY <1>1, <1>2 DEF SecretsInv, Brought, AsksToSave
<1>9. Kept'  BY <1>1, <1>2 DEF SecretsInv, SecretsTypeOK, Kept
<1>10. Readable'
  <2>1. DeleteAsked => DeleteAsked'  BY <1>1, <1>5, StillAsked
  <2>2. (\E d \in Callers : phase[d] = "stored") \/ Accepts(ask)
        \/ ~(\E d \in Callers : phase'[d] = "stored")
    BY <1>2
  <2>3. QED  BY <1>4, <2>1, <2>2 DEF SecretsInv, Readable
<1>11. Sourced(secret)'
  <2>1. Sourced(After(c, ask)) => \E d \in Callers : After(c, ask) = NoKey \/ (AsksToSave(d)' /\ secret' = given'[d])
    BY <1>1, <1>5 DEF Sourced, StaysAsked
  <2>2. QED  BY <1>1, <1>4, <2>1 DEF Sourced
<1>12. LateAsked'  BY <1>1, <1>5, StillAsked
<1>13. QED  BY <1>6, <1>7, <1>8, <1>9, <1>10, <1>11, <1>12 DEF SecretsInv

LEMMA ReadKeeps == ASSUME SecretsInv, NEW c \in Callers, Read(c) PROVE SecretsInv'
<1> DEFINE key == IF holding[c] # NoKey THEN holding[c] ELSE secret
<1>1. /\ phase[c] = "idle" /\ UNCHANGED <<secret, given, late>>
      /\ holding' = [holding EXCEPT ![c] = key]
      /\ Moves(c, {"failed", "read"})
  BY DEF Read, Goto, Moves
<1>2. /\ phase' \in [Callers -> Phases]
      /\ phase'[c] \in {"failed", "read"}
      /\ \A d \in Callers \ {c} : phase'[d] = phase[d]
  BY <1>1, Others DEF SecretsInv, Phases
<1>3. SecretsTypeOK'  BY <1>1, <1>2 DEF SecretsInv, SecretsTypeOK
<1>4. StaysAsked  BY <1>1, <1>2 DEF StaysAsked, AsksToSave, AsksToDelete
<1>5. Untouched' /\ Kept'  BY <1>1, <1>2 DEF SecretsInv, SecretsTypeOK, Untouched, Kept
<1>6. Brought'  BY <1>1, <1>2 DEF SecretsInv, Brought, AsksToSave
<1>7. Readable'  BY <1>1, <1>2, <1>4, StillAsked DEF SecretsInv, Readable
<1>8. Sourced(secret)' /\ LateAsked'  BY <1>1, <1>4, StillAsked DEF SecretsInv, Sourced
<1>9. QED  BY <1>3, <1>5, <1>6, <1>7, <1>8 DEF SecretsInv

LEMMA DeleteKeeps == ASSUME SecretsInv, NEW c \in Callers, Delete(c) PROVE SecretsInv'
<1>1. /\ phase[c] = "deleting" /\ UNCHANGED <<holding, given, late>>
      /\ secret' = NoKey
      /\ Moves(c, {"deleted"})
  BY DEF Delete, After, Goto, Moves
<1>2. /\ phase' \in [Callers -> Phases]
      /\ phase'[c] = "deleted"
      /\ \A d \in Callers \ {c} : phase'[d] = phase[d]
  BY <1>1, Others DEF SecretsInv, Phases
<1>3. SecretsTypeOK'  BY <1>1, <1>2 DEF SecretsInv, SecretsTypeOK
<1>4. StaysAsked  BY <1>1, <1>2 DEF StaysAsked, AsksToSave, AsksToDelete
<1>5. Untouched' /\ Kept'  BY <1>1, <1>2 DEF SecretsInv, Untouched, Kept
<1>6. Brought'  BY <1>1, <1>2 DEF SecretsInv, Brought, AsksToSave
<1>7. Readable'  BY <1>2 DEF Readable, DeleteAsked, AsksToDelete
<1>8. Sourced(secret)'  BY <1>1 DEF Sourced
<1>9. LateAsked'  BY <1>1, <1>4, StillAsked
<1>10. QED  BY <1>3, <1>5, <1>6, <1>7, <1>8, <1>9 DEF SecretsInv

(* No answer comes: the caller goes on as it is, or gives up.              *)
LEMMA AnswerLostKeeps == ASSUME SecretsInv, NEW c \in Callers, AnswerLost(c) PROVE SecretsInv'
<1>1. /\ phase[c] \in Unanswered
      /\ UNCHANGED <<secret, holding, given>>
      /\ late' = late \cup {[caller |-> c, ask |-> phase[c], nr |-> failures]}
      /\ \/ phase' = phase
         \/ phase' = [phase EXCEPT ![c] = IF phase[c] = "deleting" THEN "undeleted" ELSE "unsaved"]
  BY DEF AnswerLost, Cleared, Goto
<1>2. /\ phase' \in [Callers -> Phases]
      /\ \/ phase'[c] = phase[c]
         \/ phase[c] = "deleting" /\ phase'[c] = "undeleted"
         \/ phase[c] # "deleting" /\ phase'[c] = "unsaved"
      /\ \A d \in Callers \ {c} : phase'[d] = phase[d]
  BY <1>1 DEF SecretsInv, SecretsTypeOK, Phases
<1>3. SecretsTypeOK'  BY <1>1, <1>2 DEF SecretsInv, SecretsTypeOK
<1>4. StaysAsked  BY <1>1, <1>2 DEF StaysAsked, AsksToSave, AsksToDelete, Unanswered
<1>5. Untouched' /\ Kept'  BY <1>1, <1>2 DEF SecretsInv, Untouched, Kept, Unanswered
<1>6. Brought'  BY <1>1, <1>2 DEF SecretsInv, Brought, AsksToSave, Unanswered
<1>7. Readable'  BY <1>1, <1>2, <1>4, StillAsked DEF SecretsInv, Readable, Unanswered
<1>8. Sourced(secret)'  BY <1>1, <1>4, StillAsked DEF SecretsInv, Sourced
<1>9. LateAsked'
  <2>1. SUFFICES ASSUME NEW r \in late'
                 PROVE  r.caller \in Callers /\ r.ask \in Unanswered /\ Asked(r.caller, r.ask)'
    BY DEF LateAsked
  <2>2. CASE r \in late
    BY <1>4, <2>2 DEF SecretsInv, LateAsked, StaysAsked, Asked
  <2>3. CASE r \notin late
    <3>1. r.caller = c /\ r.ask = phase[c]  BY <1>1, <2>1, <2>3
    <3>2. QED  BY <1>1, <1>2, <3>1 DEF Asked, AsksToSave, AsksToDelete, Unanswered
  <2>4. QED  BY <2>2, <2>3
<1>10. QED  BY <1>3, <1>5, <1>6, <1>7, <1>8, <1>9 DEF SecretsInv

(* The manager takes a request whose caller no longer waits for it.        *)
LEMMA LateRequestKeeps ==
  ASSUME SecretsInv, NEW r \in late, LateRequest(r)
  PROVE  SecretsInv'
<1> DEFINE c == r.caller
           ask == r.ask
<1>1. /\ UNCHANGED <<holding, given, phase>>
      /\ c \in Callers /\ ask \in Unanswered
      /\ secret' = After(c, ask)
      /\ late' \subseteq late
      /\ Asked(c, ask)
  BY DEF LateRequest, SecretsInv, LateAsked
<1>2. /\ secret' \in PrivateKeys \cup {NoKey}
      /\ Sourced(After(c, ask))
      /\ ~AsksToDelete(c) /\ secret # NoKey => secret' # NoKey
  BY <1>1, RequestTaken
<1>3. StaysAsked  BY <1>1 DEF StaysAsked, AsksToSave, AsksToDelete
<1>4. SecretsTypeOK'  BY <1>1, <1>2 DEF SecretsInv, SecretsTypeOK
<1>5. Untouched' /\ Kept' /\ Brought'  BY <1>1 DEF SecretsInv, Untouched, Kept, Brought, AsksToSave
<1>6. Readable'  BY <1>1, <1>2 DEF SecretsInv, Readable, DeleteAsked, AsksToDelete
<1>7. Sourced(secret)'  BY <1>1, <1>2 DEF Sourced, AsksToSave
<1>8. LateAsked'  BY <1>1, <1>3, StillAsked
<1>9. QED  BY <1>4, <1>5, <1>6, <1>7, <1>8 DEF SecretsInv

LEMMA SecretsNextInv == SecretsInv /\ [SecretsNext]_secretVars => SecretsInv'
<1>1. SUFFICES ASSUME SecretsInv, [SecretsNext]_secretVars PROVE SecretsInv'
  OBVIOUS
<1>2. ASSUME NEW c \in Callers, Store(c) PROVE SecretsInv'
  <2>1. phase[c] = "idle" /\ (holding[c] # NoKey => given[c] # NoKey)
    BY <1>1, <1>2 DEF Store, SecretsInv, Untouched
  <2>2. holding[c] = NoKey => phase'[c] = "failed"
    BY <1>1, <1>2 DEF Store, Goto, SecretsInv, SecretsTypeOK
  <2>3. QED  BY <1>1, <1>2, <2>1, <2>2, CallerGoesOn DEF Store, Goto, Moves
<1>3. ASSUME NEW c \in Callers, Look(c) PROVE SecretsInv'
  <2>1. phase[c] = "looking" /\ given[c] # NoKey
    BY <1>1, <1>3 DEF Look, SecretsInv, Brought
  <2>2. QED  BY <1>1, <1>3, <2>1, CallerGoesOn DEF Look, Goto, Moves
<1>4. ASSUME NEW c \in Callers, Create(c) PROVE SecretsInv'
  BY <1>1, <1>4, SaveKeeps DEF Create
<1>5. ASSUME NEW c \in Callers, Update(c) PROVE SecretsInv'
  BY <1>1, <1>5, SaveKeeps DEF Update
<1>6. ASSUME NEW c \in Callers, Read(c) PROVE SecretsInv'
  BY <1>1, <1>6, ReadKeeps
<1>7. ASSUME NEW c \in Callers, Forget(c) PROVE SecretsInv'
  <2>1. phase[c] = "idle" /\ phase'[c] = "deleting"
    BY <1>1, <1>7 DEF Forget, Goto, SecretsInv, SecretsTypeOK
  <2>2. QED  BY <1>1, <1>7, <2>1, CallerGoesOn DEF Forget, Goto, Moves
<1>8. ASSUME NEW c \in Callers, Delete(c) PROVE SecretsInv'
  BY <1>1, <1>8, DeleteKeeps
<1>9. ASSUME NEW c \in Callers, AskFails(c) PROVE SecretsInv'
  <2>1. phase[c] \in {"idle", "looking"} /\ phase'[c] = "failed"
    BY <1>1, <1>9 DEF AskFails, Goto, SecretsInv, SecretsTypeOK
  <2>2. QED  BY <1>1, <1>9, <2>1, CallerGoesOn DEF AskFails, Goto, Moves
<1>10. ASSUME NEW c \in Callers, AnswerLost(c) PROVE SecretsInv'
  BY <1>1, <1>10, AnswerLostKeeps
<1>11. ASSUME NEW r \in late, LateRequest(r) PROVE SecretsInv'
  BY <1>1, <1>11, LateRequestKeeps
<1>12. CASE UNCHANGED secretVars
  BY <1>1, <1>12 DEF secretVars, SecretsInv, SecretsTypeOK, LateAsked, Asked, Untouched, Brought, Kept,
                     Sourced, Readable, DeleteAsked, AsksToSave, AsksToDelete
<1>13. QED
  BY <1>1, <1>2, <1>3, <1>4, <1>5, <1>6, <1>7, <1>8, <1>9, <1>10, <1>11, <1>12
  DEF SecretsNext, CallerNext

(* However many callers store, read and fail at the same time, and         *)
(* whatever the requests do whose answers are lost, no key is lost until   *)
(* somebody asks to delete the secret: an integration gives its key up     *)
(* only when the manager has said that it has it, and from then on there   *)
(* is a key to be read that a caller asked to save.                        *)
THEOREM KeysAreKept == SecretsSpec => []KeyNotLost
<1>1. SecretsInit => SecretsInv  BY SecretsInitInv
<1>2. SecretsInv /\ [SecretsNext]_secretVars => SecretsInv'  BY SecretsNextInv
<1>3. SecretsInv => KeyNotLost
  BY DEF SecretsInv, Kept, Readable, DeleteAsked, Sourced, KeyNotLost
<1>4. QED  BY <1>1, <1>2, <1>3, PTL DEF SecretsSpec

-----------------------------------------------------------------------------
(* The batches of BigQuery.                                                *)

Increasing(s) == \A i, j \in DOMAIN s : i < j => s[i] < s[j]

LEMMA LeastOut ==
  ASSUME NEW S \in SUBSET Nat, IsFiniteSet(S), NEW n \in Nat, Cardinality(S) = n + 1
  PROVE  \E m \in S : /\ \A k \in S : m <= k
                      /\ S \ {m} \in SUBSET Nat /\ IsFiniteSet(S \ {m}) /\ Cardinality(S \ {m}) = n
<1>1. S # {}
  BY FS_EmptySet
<1>2. PICK m \in S : \A k \in S : m <= k
  BY <1>1, Least
<1>3. IsFiniteSet(S \ {m}) /\ Cardinality(S \ {m}) = Cardinality(S) - 1
  BY FS_RemoveElement
<1>4. S \ {m} \in SUBSET Nat
  OBVIOUS
<1>5. QED
  BY <1>2, <1>3, <1>4

(* Any finite set of numbers can be listed in increasing order.            *)
CanList(S, n) == \E s \in [1 .. n -> S] : Increasing(s)
Listable(n) == \A S \in SUBSET Nat : IsFiniteSet(S) /\ Cardinality(S) = n => CanList(S, n)

LEMMA ListInOrder == \A n \in Nat : Listable(n)
<1> DEFINE U == {n \in Nat : Listable(n)}
<1>1. 0 \in U
  <2>1. ASSUME NEW S \in SUBSET Nat, Cardinality(S) = 0 PROVE CanList(S, 0)
    <3>1. <<>> \in [1 .. 0 -> S] /\ Increasing(<<>>)
      BY DEF Increasing
    <3>2. QED
      BY <3>1 DEF CanList
  <2>2. QED
    BY <2>1 DEF Listable
<1>2. ASSUME NEW n \in Nat, n \in U PROVE n + 1 \in U
  <2>1. ASSUME NEW S \in SUBSET Nat, IsFiniteSet(S), Cardinality(S) = n + 1 PROVE CanList(S, n + 1)
    <3>1. PICK m \in S : /\ \A k \in S : m <= k
                         /\ S \ {m} \in SUBSET Nat /\ IsFiniteSet(S \ {m}) /\ Cardinality(S \ {m}) = n
      BY <2>1, LeastOut
    <3>2. PICK t \in [1 .. n -> S \ {m}] : Increasing(t)
      BY <1>2, <3>1 DEF Listable, CanList
    <3> DEFINE s == [i \in 1 .. n + 1 |-> IF i = 1 THEN m ELSE t[i - 1]]
    <3>3. \A i \in 1 .. n + 1 : i # 1 => i - 1 \in 1 .. n
      OBVIOUS
    <3>4. s \in [1 .. n + 1 -> S]
      BY <3>2, <3>3
    <3>5. ASSUME NEW i \in 1 .. n + 1, NEW j \in 1 .. n + 1, i < j PROVE s[i] < s[j]
      <4>1. j - 1 \in 1 .. n /\ t[j - 1] \in S \ {m} /\ s[j] = t[j - 1]
        BY <3>2, <3>5
      <4>2. CASE i = 1
        <5>1. s[i] = m /\ m <= t[j - 1] /\ m # t[j - 1]
          BY <3>1, <4>1, <4>2
        <5>2. m \in Nat /\ t[j - 1] \in Nat
          BY <4>1
        <5>3. QED
          BY <4>1, <5>1, <5>2
      <4>3. CASE i # 1
        <5>1. i - 1 \in 1 .. n /\ i - 1 < j - 1 /\ s[i] = t[i - 1]
          BY <3>5, <4>3
        <5>2. QED
          BY <3>2, <4>1, <5>1 DEF Increasing
      <4>4. QED
        BY <4>2, <4>3
    <3>6. Increasing(s)
      BY <3>4, <3>5 DEF Increasing
    <3> HIDE DEF s
    <3>7. QED
      BY <3>4, <3>6 DEF CanList
  <2>2. QED
    BY <2>1 DEF Listable
<1> HIDE DEF U
<1>3. \A n \in Nat : n \in U
  BY <1>1, <1>2, Induct
<1>4. QED
  BY <1>3 DEF U

IsListOf(s, S) ==
  /\ s \in Seq(S) /\ Increasing(s)
  /\ \A k \in S : \E i \in DOMAIN s : s[i] = k

LEMMA AscendingLists ==
  ASSUME NEW n \in Nat, NEW S \in SUBSET (1 .. n)
  PROVE  IsListOf(Ascending(S), S)
<1> DEFINE c == Cardinality(S)
<1>1. IsFiniteSet(S) /\ c \in Nat /\ S \in SUBSET Nat
  <2>1. IsFiniteSet(1 .. n)
    BY FS_Interval
  <2>2. IsFiniteSet(S)
    BY <2>1, FS_Subset, Zenon
  <2>3. QED
    BY <2>2, FS_CardinalityType
<1>2. \E s \in [1 .. c -> S] : Increasing(s)
  BY <1>1, ListInOrder DEF Listable, CanList
<1>3. Ascending(S) \in [1 .. c -> S] /\ Increasing(Ascending(S))
  BY <1>2 DEF Ascending, Increasing
<1> DEFINE s == Ascending(S)
<1> HIDE DEF c, s
<1>4. s \in [1 .. c -> S] /\ Increasing(s)
  BY <1>3 DEF s
<1>5. s \in Injection(1 .. c, S)
  <2>1. ASSUME NEW i \in 1 .. c, NEW j \in 1 .. c, s[i] = s[j] PROVE i = j
    <3>0. DOMAIN s = 1 .. c /\ s[i] \in S /\ s[j] \in S /\ S \subseteq Nat
      BY <1>4
    <3>1. i \in Nat /\ j \in Nat /\ s[i] \in Nat /\ s[j] \in Nat
      <4>1. i \in Nat /\ j \in Nat
        BY <1>1
      <4>2. s[i] \in Nat /\ s[j] \in Nat
        BY <3>0
      <4>3. QED
        BY <4>1, <4>2
    <3>2. ~(i < j) /\ ~(j < i)
      BY <1>4, <2>1, <3>0, <3>1 DEF Increasing
    <3>3. QED
      BY <3>1, <3>2
  <2>2. QED
    BY <1>4, <2>1 DEF Injection, IsInjective
<1>6. s \in Surjection(1 .. c, S)
  <2>1. Cardinality(1 .. c) = c
    BY <1>1, FS_Interval
  <2>2. Cardinality(1 .. c) = Cardinality(S)
    BY <2>1 DEF c
  <2>3. QED
    BY <1>1, <1>5, <2>2, FS_Injection
<1>7. \A k \in S : \E i \in 1 .. c : s[i] = k
  BY <1>6 DEF Surjection
<1>8. s \in Seq(S) /\ DOMAIN s = 1 .. c
  BY <1>1, <1>4
<1>9. IsListOf(s, S)
  BY <1>4, <1>7, <1>8 DEF IsListOf
<1>10. QED
  BY <1>9 DEF s

(* The entries of such a list.                                             *)
Entries(s, S) == /\ s \in Seq(S) /\ Len(s) \in Nat /\ DOMAIN s = 1 .. Len(s)
                 /\ \A i \in DOMAIN s : s[i] \in S
                 /\ \A i, j \in DOMAIN s : s[i] = s[j] => i = j
                 /\ \A k \in S : \E i \in DOMAIN s : s[i] = k

LEMMA ListEntries ==
  ASSUME NEW n \in Nat, NEW S \in SUBSET (1 .. n), NEW s, IsListOf(s, S)
  PROVE  Entries(s, S)
<1>1. s \in Seq(S) /\ Increasing(s) /\ \A k \in S : \E i \in DOMAIN s : s[i] = k
  BY DEF IsListOf
<1>2. Len(s) \in Nat /\ DOMAIN s = 1 .. Len(s) /\ \A i \in DOMAIN s : s[i] \in S
  BY <1>1
<1>3. ASSUME NEW i \in DOMAIN s, NEW j \in DOMAIN s, s[i] = s[j] PROVE i = j
  <2>1. s[i] \in Nat /\ i \in Nat /\ j \in Nat
    <3>1. s[i] \in S /\ S \subseteq Nat
      BY <1>2
    <3>2. i \in Nat /\ j \in Nat
      BY <1>2
    <3>3. QED
      BY <3>1, <3>2
  <2>2. ~(i < j) /\ ~(j < i)
    BY <1>1, <1>3, <2>1 DEF Increasing
  <2>3. QED
    BY <2>1, <2>2
<1>4. QED
  BY <1>1, <1>2, <1>3 DEF Entries

(* The rows of an insert: the good items, in their order.                  *)
GoodItems == {k \in ItemNumbers : ~Bad(k)}
RowsOK == /\ Len(request.inputs) \in Nat /\ ItemNumbers = 1 .. Len(request.inputs)
          /\ BatchSize \in Int
          /\ IsListOf(inserted, GoodItems)
          /\ inserted # <<>> => BatchSize > 0

(* Every bad item has its answer, every answer is of an item or a batch.   *)
IsOf(n, k) == answered[n].of = "item" /\ answered[n].item = k
IsBatch(n) == answered[n].of = "batch"
OwnAnswers ==
  /\ Len(answered) \in Nat /\ DOMAIN answered = 1 .. Len(answered)
  /\ \A k \in ItemNumbers : Bad(k) => \E n \in DOMAIN answered : IsOf(n, k)
  /\ \A n \in DOMAIN answered : \A k : IsOf(n, k) => k \in ItemNumbers /\ Bad(k)
  /\ \A n, m \in DOMAIN answered : \A k : IsOf(n, k) /\ IsOf(m, k) => n = m

(* The batches up to row i are apart from each other and leave no row out. *)
BatchAnswers(i) ==
  /\ \A n \in DOMAIN answered : IsBatch(n) => answered[n].index \in Nat /\ answered[n].index + BatchSize <= i
  /\ \A n, m \in DOMAIN answered :
       IsBatch(n) /\ IsBatch(m) /\ n # m =>
         \/ answered[n].index + BatchSize <= answered[m].index
         \/ answered[m].index + BatchSize <= answered[n].index
  /\ \A p \in DOMAIN inserted :
       p <= i => \E n \in DOMAIN answered : IsBatch(n) /\ Covers(answered[n], p)

(* Only these rows are stored; those of a success are stored once.         *)
StoredOnce(p) ==
  \E t \in DOMAIN table : table[t] = inserted[p] /\ \A u \in DOMAIN table : table[u] = inserted[p] => u = t
TableOK(i) ==
  /\ table \in Seq(GoodItems)
  /\ \A t \in DOMAIN table : \E p \in DOMAIN inserted : p <= i /\ table[t] = inserted[p]
  /\ \A n \in DOMAIN answered, p \in DOMAIN inserted :
       IsBatch(n) /\ answered[n].success /\ Covers(answered[n], p) => StoredOnce(p)

Filled(i) == RowsOK /\ OwnAnswers /\ BatchAnswers(i) /\ TableOK(i)

BigQueryInv ==
  /\ request \in BigQueryCalls
  /\ request.operation = "insert" =>
       \/ stage = <<"connect">> /\ answered = <<>> /\ inserted = <<>> /\ table = <<>>
       \/ \E i \in Nat : stage = <<"put", i>> /\ Filled(i)
       \/ stage = <<"success">> /\ \E i \in Nat : Len(inserted) <= i /\ Filled(i)
       \/ stage \in {<<"failed">>, <<"panic">>}

LEMMA RowsOf ==
  ASSUME RowsOK
  PROVE  /\ inserted \in Seq(GoodItems) /\ Len(inserted) \in Nat /\ DOMAIN inserted = 1 .. Len(inserted)
         /\ \A p \in DOMAIN inserted : inserted[p] \in ItemNumbers /\ ~Bad(inserted[p])
         /\ \A p, q \in DOMAIN inserted : inserted[p] = inserted[q] => p = q
         /\ \A k \in ItemNumbers : ~Bad(k) => \E p \in DOMAIN inserted : inserted[p] = k
<1>1. inserted \in Seq(GoodItems) /\ Increasing(inserted)
      /\ \A k \in GoodItems : \E p \in DOMAIN inserted : inserted[p] = k
  BY DEF RowsOK, IsListOf
<1>2. Len(inserted) \in Nat /\ DOMAIN inserted = 1 .. Len(inserted)
      /\ \A p \in DOMAIN inserted : inserted[p] \in GoodItems
  BY <1>1
<1>3. \A p \in DOMAIN inserted : inserted[p] \in ItemNumbers /\ ~Bad(inserted[p]) /\ inserted[p] \in Nat
  BY <1>2 DEF RowsOK, GoodItems
<1>4. ASSUME NEW p \in DOMAIN inserted, NEW q \in DOMAIN inserted, inserted[p] = inserted[q] PROVE p = q
  <2>1. ~(p < q) /\ ~(q < p)
    BY <1>1, <1>3, <1>4 DEF Increasing
  <2>2. p \in Nat /\ q \in Nat
    BY <1>2
  <2>3. QED
    BY <2>1, <2>2
<1>5. QED
  BY <1>1, <1>2, <1>3, <1>4 DEF GoodItems

(* What an insert that is filled has answered and stored, item by item.    *)
LEMMA FilledAccounts ==
  ASSUME NEW i \in Nat, Filled(i), Len(inserted) <= i, NEW k \in ItemNumbers
  PROVE  LET own == {n \in DOMAIN answered : answered[n].of = "item" /\ answered[n].item = k}
             batches == {n \in DOMAIN answered :
                           answered[n].of = "batch" /\ \E p \in DOMAIN inserted :
                                                         inserted[p] = k /\ Covers(answered[n], p)}
             stored == {n \in DOMAIN table : table[n] = k}
         IN  /\ Cardinality(own) + Cardinality(batches) = 1
             /\ own # {} => stored = {}
             /\ \A n \in batches : answered[n].success => Cardinality(stored) = 1
<1> DEFINE own == {n \in DOMAIN answered : answered[n].of = "item" /\ answered[n].item = k}
           batches == {n \in DOMAIN answered :
                         answered[n].of = "batch" /\ \E p \in DOMAIN inserted :
                                                       inserted[p] = k /\ Covers(answered[n], p)}
           stored == {n \in DOMAIN table : table[n] = k}
<1>1. RowsOK /\ OwnAnswers /\ BatchAnswers(i) /\ TableOK(i)
  BY DEF Filled
<1>2. CASE Bad(k)
  <2>1. PICK n \in DOMAIN answered : IsOf(n, k)
    BY <1>1, <1>2 DEF OwnAnswers
  <2>2. own = {n}
    BY <1>1, <2>1 DEF OwnAnswers, IsOf
  <2>3. \A p \in DOMAIN inserted : inserted[p] # k
    BY <1>1, <1>2, RowsOf
  <2>4. batches = {}
    BY <2>3
  <2>5. stored = {}
    BY <1>1, <2>3 DEF TableOK
  <2> HIDE DEF own, batches, stored
  <2>6. Cardinality(own) = 1 /\ Cardinality(batches) = 0
    BY <2>2, <2>4, FS_Singleton, FS_EmptySet
  <2>7. Cardinality(own) + Cardinality(batches) = 1
    BY <2>6
  <2>8. QED
    BY <2>4, <2>5, <2>7 DEF own, batches, stored
<1>3. CASE ~Bad(k)
  <2>1. PICK p \in DOMAIN inserted : inserted[p] = k
    BY <1>1, <1>3, RowsOf
  <2>2. \A q \in DOMAIN inserted : inserted[q] = k => q = p
    BY <1>1, <2>1, RowsOf
  <2>3. p \in Nat /\ p <= i
    <3>1. Len(inserted) \in Nat /\ DOMAIN inserted = 1 .. Len(inserted)
      BY <1>1, RowsOf
    <3>2. QED
      BY <2>1, <3>1
  <2>4. own = {}
    BY <1>1, <1>3 DEF OwnAnswers, IsOf
  <2>5. PICK n \in DOMAIN answered : IsBatch(n) /\ Covers(answered[n], p)
    BY <1>1, <2>3 DEF BatchAnswers
  <2>6. ASSUME NEW m \in batches PROVE m = n
    <3>1. m \in DOMAIN answered /\ IsBatch(m) /\ Covers(answered[m], p)
      BY <2>2 DEF IsBatch
    <3>2. BatchSize \in Int /\ answered[m].index \in Nat /\ answered[n].index \in Nat
      BY <1>1, <2>5, <3>1 DEF RowsOK, BatchAnswers
    <3>3. ~(answered[n].index + BatchSize <= answered[m].index)
      BY <2>3, <2>5, <3>1, <3>2 DEF Covers
    <3>4. ~(answered[m].index + BatchSize <= answered[n].index)
      BY <2>3, <2>5, <3>1, <3>2 DEF Covers
    <3>5. QED
      BY <1>1, <2>5, <3>1, <3>3, <3>4 DEF BatchAnswers
  <2>7. batches = {n}
    <3>1. n \in batches
      BY <2>1, <2>5 DEF IsBatch
    <3> HIDE DEF batches
    <3>2. QED
      BY <2>6, <3>1
  <2>8. ASSUME answered[n].success PROVE Cardinality(stored) = 1
    <3>1. StoredOnce(p)
      BY <1>1, <2>1, <2>5, <2>8 DEF TableOK
    <3>2. PICK t \in DOMAIN table : stored = {t}
      BY <2>1, <3>1 DEF StoredOnce
    <3> HIDE DEF stored
    <3>3. QED
      BY <3>2, FS_Singleton
  <2> HIDE DEF own, batches, stored
  <2>9. Cardinality(own) = 0 /\ Cardinality(batches) = 1
    BY <2>4, <2>7, FS_Singleton, FS_EmptySet
  <2>10. Cardinality(own) + Cardinality(batches) = 1
    BY <2>9
  <2>11. QED
    BY <2>4, <2>7, <2>8, <2>10 DEF own, batches, stored
<1>4. QED
  BY <1>2, <1>3

(* The two ways a batch ends: its rows are appended, or some of them are.  *)
LastRow(i) == IF i + BatchSize > Len(inserted) THEN Len(inserted) ELSE i + BatchSize

LEMMA RowsOfBatch ==
  ASSUME RowsOK, NEW i \in Nat, i < Len(inserted)
  PROVE  /\ BatchSize > 0 /\ BatchSize \in Nat
         /\ LastRow(i) \in Nat /\ i < LastRow(i) /\ LastRow(i) <= Len(inserted) /\ LastRow(i) <= i + BatchSize
         /\ Batch(i) \in Seq(GoodItems) /\ Len(Batch(i)) = LastRow(i) - i
         /\ \A j \in 1 .. LastRow(i) - i : Batch(i)[j] = inserted[i + j]
         /\ \A p \in DOMAIN inserted : p <= i + BatchSize => p <= LastRow(i)
<1>1. inserted \in Seq(GoodItems) /\ Len(inserted) \in Nat /\ DOMAIN inserted = 1 .. Len(inserted)
  BY RowsOf
<1>2. inserted # <<>>
  BY <1>1
<1>3. BatchSize > 0 /\ BatchSize \in Nat
  BY <1>2 DEF RowsOK
<1>4. LastRow(i) \in Nat /\ i < LastRow(i) /\ LastRow(i) <= Len(inserted) /\ LastRow(i) <= i + BatchSize
  BY <1>1, <1>3 DEF LastRow
<1>5. Batch(i) = SubSeq(inserted, i + 1, LastRow(i))
  BY DEF Batch, LastRow
<1> DEFINE last == LastRow(i)
<1> HIDE DEF last
<1>6. last \in Nat /\ i < last /\ last <= Len(inserted)
  BY <1>4 DEF last
<1>7. /\ SubSeq(inserted, i + 1, last) \in Seq(GoodItems)
      /\ Len(SubSeq(inserted, i + 1, last)) = last - i
      /\ \A j \in 1 .. last - i : SubSeq(inserted, i + 1, last)[j] = inserted[i + j]
  BY <1>1, <1>6
<1>8. \A p \in DOMAIN inserted : p <= i + BatchSize => p <= LastRow(i)
  BY <1>1, <1>3 DEF LastRow
<1>9. QED
  BY <1>3, <1>4, <1>5, <1>7, <1>8 DEF last

(* What a Put stores is rows of its batch, from its first, or all but it.  *)
LEMMA BatchStores ==
  ASSUME NEW i \in Nat, RowsOK, i < Len(inserted),
         NEW st \in {<<>>, SubSeq(Batch(i), 2, Len(Batch(i))), Batch(i)}
  PROVE  /\ st \in Seq(GoodItems) /\ Len(st) \in Nat
         /\ \A t \in 1 .. Len(st) : \E p \in DOMAIN inserted :
              i < p /\ p <= i + BatchSize /\ st[t] = inserted[p]
<1> DEFINE b == Batch(i)  last == LastRow(i)
<1>1. /\ b \in Seq(GoodItems) /\ last \in Nat /\ i < last /\ last <= Len(inserted) /\ last <= i + BatchSize
      /\ Len(b) = last - i /\ BatchSize \in Nat
      /\ \A j \in 1 .. last - i : b[j] = inserted[i + j]
  BY RowsOfBatch
<1>2. Len(inserted) \in Nat /\ DOMAIN inserted = 1 .. Len(inserted)
  BY RowsOf
<1> HIDE DEF b, last
<1>3. ASSUME NEW j \in 1 .. last - i
      PROVE  \E p \in DOMAIN inserted : i < p /\ p <= i + BatchSize /\ b[j] = inserted[p]
  <2>1. i + j \in DOMAIN inserted /\ i < i + j /\ i + j <= i + BatchSize
    BY <1>1, <1>2
  <2>2. QED
    BY <1>1, <2>1
<1>4. CASE st = <<>>
  BY <1>4
<1>5. CASE st = b
  BY <1>1, <1>3, <1>5
<1>6. CASE st = SubSeq(b, 2, Len(b))
  <2>1. Len(b) \in Nat /\ Len(b) >= 1
    BY <1>1
  <2>2. /\ st \in Seq(GoodItems) /\ Len(st) = Len(b) - 1
        /\ \A t \in 1 .. Len(b) - 1 : st[t] = b[t + 1]
    BY <1>1, <1>6, <2>1
  <2>3. ASSUME NEW t \in 1 .. Len(st)
        PROVE  \E p \in DOMAIN inserted : i < p /\ p <= i + BatchSize /\ st[t] = inserted[p]
    <3>1. t + 1 \in 1 .. last - i /\ st[t] = b[t + 1]
      BY <1>1, <2>1, <2>2
    <3>2. QED
      BY <1>3, <3>1
  <2>4. QED
    BY <2>1, <2>2, <2>3
<1>7. QED
  BY <1>4, <1>5, <1>6 DEF b

(* An answer added for the batch at i.                                     *)
LEMMA AnswerAdded ==
  ASSUME NEW i \in Nat, NEW ok \in BOOLEAN, NEW next \in Nat, next = i + BatchSize, RowsOK, OwnAnswers, BatchAnswers(i), i < Len(inserted),
         answered' = Append(answered, Result(i, ok)), UNCHANGED <<request, inserted>>
  PROVE  /\ OwnAnswers' /\ (BatchAnswers(next))'
         /\ DOMAIN answered' = DOMAIN answered \cup {Len(answered) + 1} /\ Len(answered) + 1 \notin DOMAIN answered
         /\ \A n \in DOMAIN answered : answered'[n] = answered[n]
         /\ answered'[Len(answered) + 1] = Result(i, ok)
<1> DEFINE new == Len(answered) + 1
<1>1. BatchSize \in Nat /\ BatchSize > 0 /\ Len(answered) \in Nat /\ DOMAIN answered = 1 .. Len(answered)
  BY RowsOfBatch DEF OwnAnswers
<1>2. /\ Len(answered') = new /\ DOMAIN answered' = 1 .. new /\ answered'[new] = Result(i, ok)
      /\ \A n \in DOMAIN answered : answered'[n] = answered[n]
  BY <1>1
<1>3. DOMAIN answered' = DOMAIN answered \cup {new} /\ new \notin DOMAIN answered
  BY <1>1, <1>2
<1>4. Result(i, ok).of = "batch" /\ Result(i, ok).index = i /\ Result(i, ok).success = ok
  BY DEF Result
<1>5. BatchSize' = BatchSize /\ ItemNumbers' = ItemNumbers /\ \A k : Bad(k)' = Bad(k)
  BY DEF BatchSize, ItemNumbers, Bad
<1>6. OwnAnswers'
  <2>1. \A n \in DOMAIN answered : \A k : (IsOf(n, k))' <=> IsOf(n, k)
    BY <1>2 DEF IsOf
  <2>2. ASSUME NEW n \in DOMAIN answered', NEW k, (IsOf(n, k))'
        PROVE  n \in DOMAIN answered /\ IsOf(n, k)
    <3>1. answered'[n].of = "item"
      BY <2>2 DEF IsOf
    <3>2. n # new
      BY <1>2, <1>4, <3>1
    <3>3. QED
      BY <1>3, <2>1, <2>2, <3>2
  <2>3. \A k : (\E n \in DOMAIN answered : IsOf(n, k)) => (\E n \in DOMAIN answered : IsOf(n, k))'
    BY <1>3, <2>1
  <2>4. Len(answered') \in Nat /\ DOMAIN answered' = 1 .. Len(answered')
    BY <1>1, <1>2
  <2>5. \A n \in DOMAIN answered' : \A k : (IsOf(n, k))' => n \in DOMAIN answered /\ IsOf(n, k)
    BY <2>2
  <2>6. QED
    BY <1>5, <2>3, <2>4, <2>5 DEF OwnAnswers
<1>7. (BatchAnswers(next))'
  <2>1. \A n \in DOMAIN answered : (IsBatch(n))' = IsBatch(n)
    BY <1>2 DEF IsBatch
  <2>2. ASSUME NEW n \in DOMAIN answered', (IsBatch(n))'
        PROVE  answered'[n].index \in Nat /\ answered'[n].index + BatchSize <= i + BatchSize
    <3>1. CASE n = new
      BY <1>1, <1>2, <1>4, <3>1
    <3>2. CASE n \in DOMAIN answered
      <4>1. answered[n].index \in Nat /\ answered[n].index + BatchSize <= i
        BY <2>1, <2>2, <3>2 DEF BatchAnswers
      <4>2. QED
        BY <1>1, <1>2, <3>2, <4>1
    <3>3. QED
      BY <1>3, <3>1, <3>2
  <2>3. ASSUME NEW n \in DOMAIN answered', NEW m \in DOMAIN answered', (IsBatch(n))', (IsBatch(m))', n # m
        PROVE  \/ answered'[n].index + BatchSize <= answered'[m].index
               \/ answered'[m].index + BatchSize <= answered'[n].index
    <3>1. CASE n \in DOMAIN answered /\ m \in DOMAIN answered
      BY <1>2, <2>1, <2>3, <3>1 DEF BatchAnswers
    <3>2. CASE n = new /\ m \in DOMAIN answered
      BY <1>2, <1>4, <2>1, <2>3, <3>2 DEF BatchAnswers
    <3>3. CASE m = new /\ n \in DOMAIN answered
      BY <1>2, <1>4, <2>1, <2>3, <3>3 DEF BatchAnswers
    <3>4. QED
      BY <1>3, <2>3, <3>1, <3>2, <3>3
  <2>4. ASSUME NEW p \in DOMAIN inserted, p <= i + BatchSize
        PROVE  \E n \in DOMAIN answered' : (IsBatch(n))' /\ p > answered'[n].index
                                             /\ p <= answered'[n].index + BatchSize
    <3>1. CASE p <= i
      <4>1. PICK n \in DOMAIN answered : IsBatch(n) /\ Covers(answered[n], p)
        BY <3>1 DEF BatchAnswers
      <4>2. QED
        BY <1>2, <1>3, <2>1, <4>1 DEF Covers
    <3>2. CASE ~(p <= i)
      <4>1. p > i
        BY <3>2, RowsOf
      <4>2. PICK n \in DOMAIN answered' : n = new
        BY <1>3
      <4>3. answered'[n].of = "batch" /\ answered'[n].index = i
        BY <1>2, <1>4, <4>2
      <4>4. (IsBatch(n))'
        BY <4>3 DEF IsBatch
      <4>5. QED
        BY <2>4, <4>1, <4>3, <4>4
    <3>3. QED
      BY <3>1, <3>2
  <2>5. QED
    BY <1>5, <2>2, <2>3, <2>4 DEF BatchAnswers, Covers
<1>8. QED
  BY <1>2, <1>3, <1>6, <1>7

(* What a Put appends to the table.                                        *)
LEMMA RowsStored ==
  ASSUME NEW i \in Nat, NEW ok \in BOOLEAN, NEW next \in Nat, next = i + BatchSize, Filled(i), i < Len(inserted),
         NEW st \in {<<>>, SubSeq(Batch(i), 2, Len(Batch(i))), Batch(i)}, ok => st = Batch(i),
         table' = table \o st, answered' = Append(answered, Result(i, ok)), UNCHANGED <<request, inserted>>
  PROVE  (Filled(next))'
<1> DEFINE new == Len(answered) + 1
<1>1. RowsOK /\ OwnAnswers /\ BatchAnswers(i) /\ TableOK(i)
  BY DEF Filled
<1>2. /\ OwnAnswers' /\ (BatchAnswers(next))'
      /\ DOMAIN answered' = DOMAIN answered \cup {new} /\ new \notin DOMAIN answered
      /\ \A n \in DOMAIN answered : answered'[n] = answered[n]
      /\ answered'[new] = Result(i, ok)
  BY <1>1, AnswerAdded
<1> HIDE DEF new
<1>3. /\ inserted \in Seq(GoodItems) /\ Len(inserted) \in Nat /\ DOMAIN inserted = 1 .. Len(inserted)
      /\ \A p, q \in DOMAIN inserted : inserted[p] = inserted[q] => p = q
      /\ BatchSize \in Nat /\ BatchSize > 0
  BY <1>1, RowsOf, RowsOfBatch
<1>4. /\ st \in Seq(GoodItems) /\ Len(st) \in Nat
      /\ \A t \in 1 .. Len(st) : \E p \in DOMAIN inserted :
           i < p /\ p <= i + BatchSize /\ st[t] = inserted[p]
  BY <1>1, BatchStores
<1>5. BatchSize' = BatchSize /\ inserted' = inserted
  BY DEF BatchSize
<1>6. RowsOK'
  <2>1. ItemNumbers' = ItemNumbers /\ GoodItems' = GoodItems
    BY DEF ItemNumbers, GoodItems, Bad
  <2>2. QED
    BY <1>1, <1>5, <2>1 DEF RowsOK
<1>7. /\ table' \in Seq(GoodItems)
      /\ \A t \in DOMAIN table : t \in DOMAIN table' /\ table'[t] = table[t]
      /\ \A t \in 1 .. Len(st) : Len(table) + t \in DOMAIN table' /\ table'[Len(table) + t] = st[t]
      /\ \A u \in DOMAIN table' : u \in DOMAIN table \/ \E t \in 1 .. Len(st) : u = Len(table) + t
  <2>1. table \in Seq(GoodItems) /\ Len(table) \in Nat /\ DOMAIN table = 1 .. Len(table)
    BY <1>1 DEF TableOK
  <2>2. /\ table' \in Seq(GoodItems) /\ Len(table') = Len(table) + Len(st)
        /\ \A u \in 1 .. Len(table) + Len(st) :
             table'[u] = IF u <= Len(table) THEN table[u] ELSE st[u - Len(table)]
    BY <2>1, <1>4
  <2>3. Len(table') = Len(table) + Len(st) /\ DOMAIN table' = 1 .. Len(table) + Len(st)
    BY <2>1, <2>2, <1>4
  <2>4. \A t \in DOMAIN table : t \in DOMAIN table' /\ table'[t] = table[t]
    BY <2>1, <2>2, <2>3, <1>4
  <2>5. ASSUME NEW t \in 1 .. Len(st)
        PROVE  Len(table) + t \in DOMAIN table' /\ table'[Len(table) + t] = st[t]
    <3>1. Len(table) + t \in 1 .. Len(table) + Len(st) /\ ~(Len(table) + t <= Len(table))
          /\ (Len(table) + t) - Len(table) = t
      BY <2>1, <1>4
    <3>2. QED
      BY <2>2, <2>3, <3>1
  <2>6. ASSUME NEW u \in DOMAIN table', u \notin DOMAIN table PROVE \E t \in 1 .. Len(st) : u = Len(table) + t
    <3>1. u - Len(table) \in 1 .. Len(st) /\ u = Len(table) + (u - Len(table))
      BY <2>1, <2>3, <2>6, <1>4
    <3>2. QED
      BY <3>1
  <2>7. QED
    BY <2>2, <2>4, <2>5, <2>6
<1>8. ASSUME NEW u \in DOMAIN table' PROVE \E p \in DOMAIN inserted : p <= next /\ table'[u] = inserted[p]
  <2>1. CASE u \in DOMAIN table
    <3>1. PICK p \in DOMAIN inserted : p <= i /\ table[u] = inserted[p]
      BY <1>1, <2>1 DEF TableOK
    <3>2. p <= next
      BY <1>3, <3>1
    <3>3. QED
      BY <1>7, <2>1, <3>1, <3>2
  <2>2. CASE u \notin DOMAIN table
    <3>1. PICK t \in 1 .. Len(st) : u = Len(table) + t
      BY <1>7, <2>2
    <3>2. QED
      BY <1>4, <1>7, <3>1
  <2>3. QED
    BY <2>1, <2>2
(* Rows of batches before stay stored once.                                *)
<1>9. ASSUME NEW p \in DOMAIN inserted, p <= i, StoredOnce(p) PROVE (StoredOnce(p))'
  <2>1. PICK t \in DOMAIN table : table[t] = inserted[p] /\ \A u \in DOMAIN table : table[u] = inserted[p] => u = t
    BY <1>9 DEF StoredOnce
  <2>2. ASSUME NEW u \in DOMAIN table', table'[u] = inserted[p] PROVE u = t
    <3>1. CASE u \in DOMAIN table
      BY <1>7, <2>1, <2>2, <3>1
    <3>2. CASE u \notin DOMAIN table
      <4>1. PICK s \in 1 .. Len(st) : u = Len(table) + s
        BY <1>7, <3>2
      <4>2. PICK q \in DOMAIN inserted : i < q /\ st[s] = inserted[q]
        BY <1>4
      <4>3. q = p
        BY <1>3, <1>7, <2>2, <4>1, <4>2
      <4>4. QED
        BY <1>3, <1>9, <4>2, <4>3
    <3>3. QED
      BY <3>1, <3>2
  <2>3. t \in DOMAIN table' /\ table'[t] = inserted[p]
    BY <1>7, <2>1
  <2>4. QED
    BY <1>5, <2>2, <2>3 DEF StoredOnce
(* Rows of this batch are stored once when it is a success.                *)
<1>10. ASSUME NEW p \in DOMAIN inserted, i < p, p <= i + BatchSize, ok PROVE (StoredOnce(p))'
  <2>1. /\ LastRow(i) \in Nat /\ Len(st) = LastRow(i) - i /\ p <= LastRow(i)
        /\ \A j \in 1 .. LastRow(i) - i : st[j] = inserted[i + j]
    BY <1>1, <1>10, RowsOfBatch
  <2>2. p - i \in 1 .. Len(st) /\ i + (p - i) = p
    BY <1>3, <1>10, <2>1
  <2>3. st[p - i] = inserted[p]
    BY <2>1, <2>2
  <2>4. PICK t \in DOMAIN table' : t = Len(table) + (p - i)
    BY <1>7, <2>2
  <2>5. table'[t] = inserted[p]
    BY <1>7, <2>2, <2>3, <2>4
  <2>6. ASSUME NEW u \in DOMAIN table', table'[u] = inserted[p] PROVE u = t
    <3>1. CASE u \in DOMAIN table
      <4>1. PICK q \in DOMAIN inserted : q <= i /\ table[u] = inserted[q]
        BY <1>1, <3>1 DEF TableOK
      <4>2. q = p
        BY <1>3, <1>7, <2>6, <3>1, <4>1
      <4>3. QED
        BY <1>3, <1>10, <4>1, <4>2
    <3>2. CASE u \notin DOMAIN table
      <4>1. PICK s \in 1 .. Len(st) : u = Len(table) + s
        BY <1>7, <3>2
      <4>2. st[s] = inserted[i + s] /\ i + s \in DOMAIN inserted
        <5>1. LastRow(i) <= Len(inserted)
          BY <1>1, RowsOfBatch
        <5>2. QED
          BY <1>3, <2>1, <4>1, <5>1
      <4>3. table'[u] = inserted[i + s]
        BY <1>7, <4>1, <4>2
      <4>4. i + s = p
        BY <1>3, <2>6, <4>2, <4>3
      <4>5. s = p - i
        BY <4>4
      <4>6. QED
        BY <2>4, <4>1, <4>5
    <3>3. QED
      BY <3>1, <3>2
  <2>7. QED
    BY <1>5, <2>5, <2>6 DEF StoredOnce
<1>11. ASSUME NEW n \in DOMAIN answered', NEW p \in DOMAIN inserted,
              (IsBatch(n))', answered'[n].success, p > answered'[n].index, p <= answered'[n].index + BatchSize
       PROVE  (StoredOnce(p))'
  <2>1. CASE n \in DOMAIN answered
    <3>1. IsBatch(n) /\ answered[n].success /\ Covers(answered[n], p)
      BY <1>2, <1>11, <2>1 DEF IsBatch, Covers
    <3>2. answered[n].index \in Nat /\ answered[n].index + BatchSize <= i
      BY <1>1, <2>1, <3>1 DEF BatchAnswers
    <3>3. p <= i
      BY <1>3, <3>1, <3>2 DEF Covers
    <3>4. StoredOnce(p)
      BY <1>1, <2>1, <3>1 DEF TableOK
    <3>5. QED
      BY <1>9, <3>3, <3>4
  <2>2. CASE n = new
    <3>1. answered'[n] = Result(i, ok)
      BY <1>2, <2>2
    <3>2. ok /\ i < p /\ p <= i + BatchSize
      BY <1>3, <1>11, <3>1 DEF Result
    <3>3. QED
      BY <1>10, <3>2
  <2>3. QED
    BY <1>2, <2>1, <2>2
<1>12. (TableOK(next))'
  <2>1. GoodItems' = GoodItems
    BY DEF ItemNumbers, GoodItems, Bad
  <2>2. ASSUME NEW n \in DOMAIN answered', NEW p \in DOMAIN inserted',
               (IsBatch(n) /\ answered[n].success /\ Covers(answered[n], p))'
        PROVE  (StoredOnce(p))'
    BY <1>5, <1>11, <2>2 DEF Covers
  <2>3. table' \in Seq(GoodItems')
    BY <1>7, <2>1
  <2>4. \A t \in DOMAIN table' : \E p \in DOMAIN inserted' : p <= next /\ table'[t] = inserted'[p]
    BY <1>5, <1>8
  <2>5. QED
    BY <2>2, <2>3, <2>4 DEF TableOK
<1>13. QED
  BY <1>2, <1>6, <1>12 DEF Filled
LEMMA FilledStays ==
  ASSUME NEW i \in Nat, Filled(i), UNCHANGED <<request, answered, inserted, table>>
  PROVE  (Filled(i))'
<1>1. /\ BatchSize' = BatchSize /\ ItemNumbers' = ItemNumbers /\ GoodItems' = GoodItems
      /\ \A k : (Bad(k))' <=> Bad(k)
  BY DEF BatchSize, ItemNumbers, GoodItems, Bad
<1>2. RowsOK'
  BY <1>1 DEF Filled, RowsOK
<1>3. /\ \A n, k : (IsOf(n, k))' <=> IsOf(n, k)
      /\ \A n : (IsBatch(n))' <=> IsBatch(n)
      /\ \A p : (StoredOnce(p))' <=> StoredOnce(p)
  BY DEF IsOf, IsBatch, StoredOnce
<1>4. OwnAnswers'
  BY <1>1, <1>3 DEF Filled, OwnAnswers
<1>5. (BatchAnswers(i))'
  BY <1>1, <1>3 DEF Filled, BatchAnswers, Covers
<1>6. (TableOK(i))'
  BY <1>1, <1>3 DEF Filled, TableOK, Covers
<1>7. QED
  BY <1>2, <1>4, <1>5, <1>6 DEF Filled

LEMMA BigQueryInitInv == BigQueryInit => BigQueryInv
BY DEF BigQueryInit, BigQueryInv

LEMMA InputsAreAList ==
  ASSUME request \in BigQueryCalls
  PROVE  /\ Len(request.inputs) \in Nat /\ ItemNumbers = 1 .. Len(request.inputs)
         /\ BatchSize \in Int /\ BatchSize # 0
         /\ GoodItems \in SUBSET (1 .. Len(request.inputs))
         /\ {k \in ItemNumbers : Bad(k)} \in SUBSET (1 .. Len(request.inputs))
<1>1. request.inputs \in Seq(ToSet(request.inputs)) /\ request.batchSize \in Int
  BY BigQueryAssumption
<1>2. Len(request.inputs) \in Nat /\ ItemNumbers = 1 .. Len(request.inputs)
  BY <1>1 DEF ItemNumbers
<1>3. BatchSize \in Int /\ BatchSize # 0
  BY <1>1 DEF BatchSize
<1>4. QED
  BY <1>2, <1>3 DEF GoodItems

(* Before the first batch every bad item has its answer, and none other.   *)
LEMMA ConnectFills ==
  ASSUME request \in BigQueryCalls, NEW rows, NEW bad,
         rows = Ascending(GoodItems), bad = Ascending({k \in ItemNumbers : Bad(k)}),
         ~(rows # <<>> /\ BatchSize < 0), table = <<>>,
         inserted' = rows, answered' = [n \in DOMAIN bad |-> ErrorOf(bad[n])],
         UNCHANGED <<request, table>>
  PROVE  (Filled(0))'
<1> DEFINE B == {k \in ItemNumbers : Bad(k)}
<1>1. /\ BatchSize' = BatchSize /\ ItemNumbers' = ItemNumbers /\ GoodItems' = GoodItems
      /\ \A k : (Bad(k))' <=> Bad(k)
  BY DEF BatchSize, ItemNumbers, GoodItems, Bad
<1>2. /\ Len(request.inputs) \in Nat /\ ItemNumbers = 1 .. Len(request.inputs)
      /\ BatchSize \in Int /\ BatchSize # 0
      /\ GoodItems \in SUBSET (1 .. Len(request.inputs)) /\ B \in SUBSET (1 .. Len(request.inputs))
  BY InputsAreAList
<1>3. IsListOf(rows, GoodItems)
  BY <1>2, AscendingLists, Zenon
<1>4. IsListOf(bad, B)
  BY <1>2, AscendingLists, Zenon
<1>5. RowsOK'
  BY <1>1, <1>2, <1>3 DEF RowsOK
<1> HIDE DEF B
<1>6. /\ Len(bad) \in Nat /\ DOMAIN bad = 1 .. Len(bad)
      /\ \A n \in DOMAIN bad : bad[n] \in B
      /\ \A n, m \in DOMAIN bad : bad[n] = bad[m] => n = m
      /\ \A k \in B : \E n \in DOMAIN bad : bad[n] = k
  <2>1. Len(request.inputs) \in Nat /\ B \in SUBSET (1 .. Len(request.inputs))
    BY <1>2
  <2>2. Entries(bad, B)
    BY <1>4, <2>1, ListEntries, Zenon
  <2>3. QED
    BY <2>2 DEF Entries
<1>7. /\ \A n \in DOMAIN bad : bad[n] \in ItemNumbers /\ Bad(bad[n])
      /\ \A k \in ItemNumbers : Bad(k) => \E n \in DOMAIN bad : bad[n] = k
  BY <1>6, Zenon DEF B
<1>8. /\ Len(answered') \in Nat /\ DOMAIN answered' = 1 .. Len(answered') /\ DOMAIN answered' = DOMAIN bad
      /\ \A n \in DOMAIN bad : answered'[n] = [of |-> "item", item |-> bad[n], success |-> FALSE]
  <2>1. answered' = [n \in 1 .. Len(bad) |-> ErrorOf(bad[n])] /\ DOMAIN answered' = 1 .. Len(bad)
    BY <1>6
  <2>2. Len(answered') = Len(bad)
    BY <1>6, <2>1
  <2>3. QED
    BY <1>6, <2>1, <2>2 DEF ErrorOf
<1>9. ASSUME NEW n \in DOMAIN answered' PROVE (\A k : (IsOf(n, k))' <=> bad[n] = k) /\ ~(IsBatch(n))'
  <2>1. n \in DOMAIN bad /\ answered'[n] = [of |-> "item", item |-> bad[n], success |-> FALSE]
    BY <1>8
  <2>2. answered'[n].of = "item" /\ answered'[n].item = bad[n]
    BY <2>1 DEF ErrorOf
  <2>3. QED
    BY <2>2 DEF IsOf, IsBatch
<1>10. OwnAnswers'
  <2>1. ASSUME NEW k \in ItemNumbers, Bad(k) PROVE \E n \in DOMAIN answered' : (IsOf(n, k))'
    <3>1. PICK n \in DOMAIN answered' : bad[n] = k
      BY <1>7, <1>8, <2>1
    <3>2. (IsOf(n, k))'
      BY <1>9, <3>1
    <3>3. QED
      BY <3>2
  <2>2. ASSUME NEW n \in DOMAIN answered', NEW k, (IsOf(n, k))' PROVE k \in ItemNumbers /\ Bad(k)
    <3>1. bad[n] = k
      BY <1>9, <2>2
    <3>2. QED
      BY <1>7, <1>8, <2>2, <3>1
  <2>3. ASSUME NEW n \in DOMAIN answered', NEW m \in DOMAIN answered', NEW k, (IsOf(n, k))', (IsOf(m, k))'
        PROVE  n = m
    <3>1. bad[n] = k /\ bad[m] = k
      BY <1>9, <2>3
    <3>2. QED
      BY <1>6, <1>8, <2>3, <3>1
  <2>4. QED
    BY <1>1, <1>8, <2>1, <2>2, <2>3 DEF OwnAnswers
<1>11. (BatchAnswers(0))'
  <2>1. ASSUME NEW p \in DOMAIN inserted' PROVE ~(p <= 0)
    <3>1. rows \in Seq(GoodItems)
      BY <1>3 DEF IsListOf
    <3>2. QED
      BY <2>1, <3>1
  <2>2. QED
    BY <1>9, <2>1 DEF BatchAnswers
<1>12. (TableOK(0))'
  BY <1>9 DEF TableOK
<1>13. QED
  BY <1>5, <1>10, <1>11, <1>12 DEF Filled

LEMMA ConnectKeeps == ASSUME BigQueryInv, Connect PROVE BigQueryInv'
<1>1. request' = request /\ table' = table /\ request \in BigQueryCalls
  BY DEF Connect, BigQueryInv
<1>2. CASE request.operation # "insert"
  BY <1>1, <1>2 DEF BigQueryInv
<1>3. CASE request.operation = "insert" /\ request.ready /\ Prepared = "rows"
  <2> DEFINE rows == Ascending(GoodItems)  bad == Ascending({k \in ItemNumbers : Bad(k)})
  <2>1. /\ stage' = IF rows # <<>> /\ BatchSize < 0 THEN <<"panic">> ELSE <<"put", 0>>
        /\ inserted' = rows /\ answered' = [n \in DOMAIN bad |-> ErrorOf(bad[n])]
    BY <1>3 DEF Connect, GoodItems
  <2>2. table = <<>>
    BY <1>3 DEF BigQueryInv, Connect
  <2> HIDE DEF rows, bad
  <2>3. CASE rows # <<>> /\ BatchSize < 0
    BY <1>1, <2>1, <2>3 DEF BigQueryInv
  <2>4. CASE ~(rows # <<>> /\ BatchSize < 0)
    <3>1. (Filled(0))'
      BY <1>1, <2>1, <2>2, <2>4, ConnectFills DEF rows, bad
    <3>2. stage' = <<"put", 0>>
      BY <2>1, <2>4
    <3>3. QED
      BY <1>1, <3>1, <3>2 DEF BigQueryInv
  <2>5. QED
    BY <2>3, <2>4
<1>4. CASE request.operation = "insert" /\ ~(request.ready /\ Prepared = "rows")
  <2>1. Prepared \in {"panic", "failed", "rows"}
    BY DEF Prepared
  <2>2. stage' \in {<<"failed">>, <<"panic">>}
    BY <1>4, <2>1 DEF Connect
  <2>3. QED
    BY <1>1, <2>2 DEF BigQueryInv
<1>5. QED
  BY <1>2, <1>3, <1>4

LEMMA PutBatchKeeps == ASSUME BigQueryInv, PutBatch PROVE BigQueryInv'
<1>1. PICK i \in 0 .. Len(inserted) :
        /\ stage = <<"put", i>> /\ i < Len(inserted)
        /\ \/ /\ table' = table \o Batch(i)
              /\ answered' = Append(answered, Result(i, TRUE))
              /\ stage' = <<"put", NextBatch(i)>>
           \/ /\ \E stored \in {<<>>, SubSeq(Batch(i), 2, Len(Batch(i))), Batch(i)} : table' = table \o stored
              /\ IF request.continueOnFail
                 THEN answered' = Append(answered, Result(i, FALSE)) /\ stage' = <<"put", NextBatch(i)>>
                 ELSE answered' = answered /\ stage' = <<"failed">>
        /\ UNCHANGED <<request, inserted>>
  BY DEF PutBatch
<1>2. request' = request /\ request \in BigQueryCalls
  BY <1>1 DEF BigQueryInv
<1>3. CASE request.operation # "insert"
  BY <1>2, <1>3 DEF BigQueryInv
<1>4. CASE request.operation = "insert"
  <2>1. i \in Nat /\ Filled(i)
    BY <1>1, <1>4 DEF BigQueryInv
  <2>2. RowsOK
    BY <2>1 DEF Filled
  <2>3. PICK next \in Nat : next = i + BatchSize
    BY <1>1, <2>1, <2>2, RowsOfBatch
  <2>4. ASSUME NEW ok \in BOOLEAN, NEW st \in {<<>>, SubSeq(Batch(i), 2, Len(Batch(i))), Batch(i)},
               ok => st = Batch(i), table' = table \o st,
               answered' = Append(answered, Result(i, ok)), stage' = <<"put", NextBatch(i)>>
        PROVE  BigQueryInv'
    <3>1. (Filled(next))'
      BY <1>1, <2>1, <2>3, <2>4, RowsStored
    <3>2. stage' = <<"put", next>>
      BY <2>3, <2>4 DEF NextBatch
    <3>3. QED
      BY <1>2, <3>1, <3>2 DEF BigQueryInv
  <2>5. CASE /\ table' = table \o Batch(i) /\ answered' = Append(answered, Result(i, TRUE))
             /\ stage' = <<"put", NextBatch(i)>>
    BY <2>4, <2>5
  <2>6. CASE /\ \E stored \in {<<>>, SubSeq(Batch(i), 2, Len(Batch(i))), Batch(i)} : table' = table \o stored
             /\ answered' = Append(answered, Result(i, FALSE)) /\ stage' = <<"put", NextBatch(i)>>
    BY <2>4, <2>6
  <2>7. CASE stage' = <<"failed">>
    BY <1>2, <2>7 DEF BigQueryInv
  <2>8. QED
    BY <1>1, <2>5, <2>6, <2>7
<1>5. QED
  BY <1>3, <1>4

LEMMA BigQueryNextInv == BigQueryInv /\ [BigQueryNext]_bigQueryVars => BigQueryInv'
<1> SUFFICES ASSUME BigQueryInv, [BigQueryNext]_bigQueryVars PROVE BigQueryInv'
  OBVIOUS
<1>1. ASSUME UNCHANGED <<request, answered, inserted, table>>,
             \/ stage' = stage
             \/ stage[1] = "put" /\ stage[2] >= Len(inserted) /\ stage' = <<"success">>
      PROVE  BigQueryInv'
  <2>1. request \in BigQueryCalls /\ request' = request
    BY <1>1 DEF BigQueryInv
  <2>2. CASE request.operation # "insert"
    BY <2>1, <2>2 DEF BigQueryInv
  <2>3. CASE request.operation = "insert" /\ \E i \in Nat : stage = <<"put", i>> /\ Filled(i)
    <3>1. PICK i \in Nat : stage = <<"put", i>> /\ Filled(i)
      BY <2>3
    <3>2. (Filled(i))'
      BY <1>1, <3>1, FilledStays
    <3>3. CASE stage' = stage
      BY <2>1, <3>1, <3>2, <3>3 DEF BigQueryInv
    <3>4. CASE stage' = <<"success">> /\ stage[2] >= Len(inserted)
      <4>1. Len(inserted) \in Nat
        BY <3>1, RowsOf DEF Filled
      <4>2. Len(inserted') <= i
        BY <1>1, <3>1, <3>4, <4>1
      <4>3. QED
        BY <2>1, <3>2, <3>4, <4>2 DEF BigQueryInv
    <3>5. QED
      BY <1>1, <3>3, <3>4
  <2>4. CASE /\ request.operation = "insert" /\ stage = <<"success">>
             /\ \E i \in Nat : Len(inserted) <= i /\ Filled(i)
    <3>1. PICK i \in Nat : Len(inserted) <= i /\ Filled(i)
      BY <2>4
    <3>2. (Filled(i))'
      BY <1>1, <3>1, FilledStays
    <3>3. QED
      BY <1>1, <2>1, <2>4, <3>1, <3>2 DEF BigQueryInv
  <2>5. CASE /\ request.operation = "insert"
             /\ stage \in {<<"connect">>, <<"failed">>, <<"panic">>}
             /\ stage = <<"connect">> => answered = <<>> /\ inserted = <<>> /\ table = <<>>
    BY <1>1, <2>1, <2>5 DEF BigQueryInv
  <2>6. QED
    BY <2>2, <2>3, <2>4, <2>5 DEF BigQueryInv
<1>2. ASSUME UNCHANGED request, stage[1] \in {"query", "rows"} PROVE BigQueryInv'
  BY <1>2 DEF BigQueryInv
<1>3. CASE BigQueryNext
  <2>1. CASE Connect
    BY <2>1, ConnectKeeps
  <2>2. CASE PutBatch
    BY <2>2, PutBatchKeeps
  <2>3. CASE AllPut
    BY <1>1, <2>3 DEF AllPut
  <2>4. CASE QueriesDone
    BY <1>2, <2>4 DEF QueriesDone
  <2>5. ASSUME NEW k \in ItemNumbers, QueryFails(k) \/ QueryRuns(k) \/ ReadRow(k) PROVE BigQueryInv'
    <3>1. UNCHANGED request
      BY <2>5 DEF QueryFails, QueryRuns, ReadRow
    <3>2. stage[1] \in {"query", "rows"}
      BY <2>5 DEF QueryFails, QueryRuns, ReadRow
    <3>3. QED
      BY <1>2, <3>1, <3>2
  <2>6. QED
    BY <1>3, <2>1, <2>2, <2>3, <2>4, <2>5 DEF BigQueryNext
<1>4. CASE UNCHANGED bigQueryVars
  BY <1>1, <1>4 DEF bigQueryVars
<1>5. QED
  BY <1>3, <1>4

LEMMA BigQueryInvariant == BigQuerySpec => []BigQueryInv
<1>1. BigQuerySpec => []BigQueryInv
  BY BigQueryInitInv, BigQueryNextInv, PTL DEF BigQuerySpec
<1>2. QED
  BY <1>1

(* An insert that succeeds has one answer for every item, and the rows of  *)
(* a batch reported stored are stored once, whatever the size of the       *)
(* batches, whichever Puts fail and whatever a failed one has stored.      *)
THEOREM InsertsAccountForAll == BigQuerySpec => []RowsAccountedFor
<1>1. BigQueryInv => RowsAccountedFor
  <2> SUFFICES ASSUME BigQueryInv, stage = <<"success">>, request.operation = "insert"
               PROVE  RowsAccountedFor
    BY DEF RowsAccountedFor
  <2>1. PICK i \in Nat : Len(inserted) <= i /\ Filled(i)
    BY DEF BigQueryInv
  <2>2. QED
    BY <2>1, FilledAccounts DEF RowsAccountedFor
<1>2. QED
  BY <1>1, BigQueryInvariant, PTL
-----------------------------------------------------------------------------
(* Lists made step by step, put together and chosen from.                  *)

LEMMA Concatenated ==
  ASSUME NEW A, NEW s \in Seq(A), NEW t \in Seq(A)
  PROVE  /\ s \o t \in Seq(A) /\ Len(s \o t) = Len(s) + Len(t)
         /\ \A j \in 1 .. Len(s) + Len(t) : (s \o t)[j] = IF j <= Len(s) THEN s[j] ELSE t[j - Len(s)]
OBVIOUS

(* A sequence can be made step by step, each step as the list of them says.*)
Made(g, A, b, F, n) ==
  g \in [0 .. n -> A] /\ g[0] = b /\ \A k \in 1 .. n : g[k] = F[k][g[k - 1]]

LEMMA Recursion ==
  ASSUME NEW A, NEW b \in A, NEW n \in Nat, NEW F \in [1 .. n -> [A -> A]]
  PROVE  \E g : Made(g, A, b, F, n)
<1> DEFINE S == {m \in Nat : m <= n => \E g : Made(g, A, b, F, m)}
<1>1. 0 \in S
  <2>1. Made([k \in 0 .. 0 |-> b], A, b, F, 0)
    BY DEF Made
  <2>2. QED
    BY <2>1
<1>2. ASSUME NEW m \in Nat, m \in S PROVE m + 1 \in S
  <2>1. CASE m + 1 <= n
    <3>1. PICK g : Made(g, A, b, F, m)
      BY <1>2, <2>1
    <3> DEFINE h == [k \in 0 .. m + 1 |-> IF k = m + 1 THEN F[m + 1][g[m]] ELSE g[k]]
    <3>2. F[m + 1] \in [A -> A] /\ g[m] \in A
      BY <2>1, <3>1 DEF Made
    <3>3. h \in [0 .. m + 1 -> A] /\ h[0] = b
      BY <3>1, <3>2 DEF Made
    <3>4. ASSUME NEW k \in 1 .. m + 1 PROVE h[k] = F[k][h[k - 1]]
      <4>1. CASE k = m + 1
        <5>1. m \in 0 .. m + 1 /\ m # m + 1 /\ (m + 1) - 1 = m
          OBVIOUS
        <5>2. h[m] = g[m] /\ h[m + 1] = F[m + 1][g[m]]
          BY <5>1
        <5>3. QED
          BY <4>1, <5>1, <5>2
      <4>2. CASE k # m + 1
        <5>1. k \in 1 .. m /\ k - 1 \in 0 .. m + 1 /\ k - 1 # m + 1
          BY <4>2
        <5>2. h[k] = g[k] /\ h[k - 1] = g[k - 1]
          BY <4>2, <5>1
        <5>3. g[k] = F[k][g[k - 1]]
          BY <3>1, <5>1 DEF Made
        <5>4. QED
          BY <5>2, <5>3
      <4>3. QED
        BY <4>1, <4>2
    <3> HIDE DEF h
    <3>5. Made(h, A, b, F, m + 1)
      BY <3>3, <3>4 DEF Made
    <3>6. QED
      BY <3>5
  <2>2. QED
    BY <2>1
<1> HIDE DEF S
<1>3. n \in S
  BY <1>1, <1>2, Induct
<1>4. QED
  BY <1>3 DEF S

(* A list of lists put together, one after the other.                      *)
Joins(g, A, seqs, n) ==
  g \in [0 .. n -> Seq(A)] /\ g[0] = <<>> /\ \A k \in 1 .. n : g[k] = g[k - 1] \o seqs[k]

LEMMA Flattening ==
  ASSUME NEW A, NEW n \in Nat, NEW seqs \in [1 .. n -> Seq(A)]
  PROVE  \E g : Joins(g, A, seqs, n) /\ FlattenSeq(seqs) = g[n]
<1> DEFINE F == [k \in 1 .. n |-> [s \in Seq(A) |-> s \o seqs[k]]]
           Turn(f, i) == IF i = 1 THEN seqs[i] ELSE f[i - 1] \o seqs[i]
           Whole(f) == [i \in 1 .. n |-> Turn(f, i)]
           flatten == CHOOSE f : f = Whole(f)
<1>1. F \in [1 .. n -> [Seq(A) -> Seq(A)]]
  <2>1. \A k \in 1 .. n : \A s \in Seq(A) : s \o seqs[k] \in Seq(A)
    BY Concatenated
  <2>2. \A k \in 1 .. n : [s \in Seq(A) |-> s \o seqs[k]] \in [Seq(A) -> Seq(A)]
    BY <2>1
  <2>3. QED
    BY <2>2
<1>2. <<>> \in Seq(A)
  OBVIOUS
<1>3. PICK g : Made(g, Seq(A), <<>>, F, n)
  BY <1>1, <1>2, Recursion
<1>4. Joins(g, A, seqs, n)
  <2>1. ASSUME NEW k \in 1 .. n PROVE g[k] = g[k - 1] \o seqs[k]
    <3>1. k - 1 \in 0 .. n
      OBVIOUS
    <3>2. g[k - 1] \in Seq(A) /\ g[k] = F[k][g[k - 1]]
      <4> HIDE DEF F
      <4>1. QED
        BY <1>3, <3>1 DEF Made
    <3>3. F[k] = [s \in Seq(A) |-> s \o seqs[k]]
      OBVIOUS
    <3> HIDE DEF F
    <3>4. QED
      BY <3>2, <3>3
  <2>2. QED
    BY <1>3, <2>1 DEF Made, Joins
<1>5. Len(seqs) = n /\ DOMAIN seqs = 1 .. n
  OBVIOUS
<1>6. CASE n = 0
  <2>1. FlattenSeq(seqs) = seqs /\ seqs = <<>>
    BY <1>5, <1>6 DEF FlattenSeq
  <2>2. QED
    BY <1>4, <1>6, <2>1 DEF Joins
<1>7. CASE n # 0
  <2>1. FlattenSeq(seqs) = flatten[n]
    BY <1>5, <1>7 DEF FlattenSeq
  <2> DEFINE h == [i \in 1 .. n |-> g[i]]
  <2>2. h = Whole(h)
    <3>1. ASSUME NEW i \in 1 .. n PROVE Turn(h, i) = g[i]
      <4>1. CASE i = 1
        <5>0. 1 \in 1 .. n /\ 1 - 1 = 0
          BY <4>1
        <5>1. g[1] = g[0] \o seqs[1] /\ g[0] = <<>>
          BY <1>4, <5>0, Zenon DEF Joins
        <5>2. <<>> \o seqs[1] = seqs[1]
          BY <4>1
        <5>3. QED
          BY <4>1, <5>1, <5>2
      <4>2. CASE i # 1
        <5>1. i - 1 \in 1 .. n
          BY <4>2
        <5>2. h[i - 1] = g[i - 1]
          BY <5>1
        <5>3. g[i] = g[i - 1] \o seqs[i]
          BY <1>4 DEF Joins
        <5>4. QED
          BY <4>2, <5>2, <5>3
      <4>3. QED
        BY <4>1, <4>2
    <3> HIDE DEF Turn
    <3>2. QED
      BY <3>1
  <2>3. flatten = Whole(flatten)
    <3> HIDE DEF Whole, h
    <3>1. QED
      BY <2>2
  <2> HIDE DEF flatten
  <2>4. \A i \in 1 .. n : flatten[i] = Turn(flatten, i)
    BY <2>3
  <2> DEFINE S == {i \in Nat : i + 1 <= n => flatten[i + 1] = g[i + 1]}
  <2>5. 0 \in S
    <3>1. 1 \in 1 .. n
      BY <1>7
    <3>2. flatten[1] = seqs[1]
      BY <2>4, <3>1
    <3>3. Turn(h, 1) = h[1] /\ h[1] = g[1]
      BY <2>2, <3>1
    <3>4. QED
      BY <3>2, <3>3
  <2>6. ASSUME NEW i \in Nat, i \in S PROVE i + 1 \in S
    <3>1. CASE i + 2 <= n
      <4>1. PICK m \in 1 .. n : m = i + 2 /\ m - 1 = i + 1 /\ m # 1 /\ (i + 1) + 1 = m
        BY <3>1
      <4>2. flatten[m - 1] = g[m - 1]
        BY <2>6, <3>1, <4>1
      <4>3. flatten[m] = flatten[m - 1] \o seqs[m] /\ g[m] = g[m - 1] \o seqs[m]
        BY <1>4, <2>4, <4>1 DEF Joins
      <4>4. flatten[(i + 1) + 1] = g[(i + 1) + 1]
        BY <4>1, <4>2, <4>3
      <4>5. QED
        BY <4>4
    <3>2. CASE ~(i + 2 <= n)
      BY <3>2
    <3>3. QED
      BY <3>1, <3>2
  <2>7. n - 1 \in S
    <3> HIDE DEF S
    <3>1. n - 1 \in Nat
      BY <1>7
    <3>2. QED
      BY <2>5, <2>6, <3>1, Induct
  <2>8. flatten[n] = g[n]
    BY <1>7, <2>7
  <2>9. QED
    BY <1>4, <2>1, <2>8
<1>8. QED
  BY <1>6, <1>7

(* What is chosen of a list: items at ascending positions, each of them.   *)
IsChosen(c, items, S, ks) ==
  /\ Entries(ks, S) /\ Increasing(ks)
  /\ Len(c) = Len(ks) /\ DOMAIN c = DOMAIN ks /\ \A a \in DOMAIN ks : c[a] = items[ks[a]]

LEMMA ChosenOnes ==
  ASSUME NEW A, NEW items \in Seq(A), NEW S \in SUBSET DOMAIN items
  PROVE  /\ Chosen(items, S) \in Seq(A)
         /\ IsChosen(Chosen(items, S), items, S, Ascending(S))
<1> DEFINE ks == Ascending(S)
           c == [a \in DOMAIN ks |-> items[ks[a]]]
<1>1. Len(items) \in Nat /\ DOMAIN items = 1 .. Len(items) /\ S \in SUBSET (1 .. Len(items))
  OBVIOUS
<1>2. IsListOf(ks, S)
  BY <1>1, AscendingLists, Zenon
<1>3. Entries(ks, S)
  BY <1>1, <1>2, ListEntries, Zenon
<1>4. Chosen(items, S) = c
  BY DEF Chosen
<1> HIDE DEF ks
<1>5. Len(ks) \in Nat /\ DOMAIN ks = 1 .. Len(ks) /\ \A a \in DOMAIN ks : ks[a] \in DOMAIN items
  BY <1>3 DEF Entries
<1>6. \A a \in DOMAIN ks : items[ks[a]] \in A
  BY <1>5
<1>7. c \in Seq(A) /\ Len(c) = Len(ks) /\ DOMAIN c = DOMAIN ks
  BY <1>5, <1>6
<1>8. \A a \in DOMAIN ks : c[a] = items[ks[a]]
  OBVIOUS
<1>9. Increasing(ks)
  BY <1>2 DEF IsListOf
<1> HIDE DEF c
<1>10. IsChosen(c, items, S, ks)
  BY <1>3, <1>7, <1>8, <1>9 DEF IsChosen
<1>11. QED
  BY <1>4, <1>7, <1>10 DEF ks

-----------------------------------------------------------------------------
(* Expressions.  The state of the scanner.                                 *)

ScanStates(A) ==
  [chunks : Seq([type : {"text", "code"}, text : Seq(A)]), buffer : Seq(A), type : {"text", "code"}]

LEMMA EscapedTyped ==
  ASSUME NEW A, CloseBracket \in A, NEW text \in Seq(A)
  PROVE  EscapeCode(text) \in Seq(A)
<1>1. \A k \in DOMAIN text : (IF text[k] = TwiceEscapedClose THEN CloseBracket ELSE text[k]) \in A
  OBVIOUS
<1>2. Len(text) \in Nat /\ DOMAIN text = 1 .. Len(text)
  OBVIOUS
<1> HIDE DEF CloseBracket, TwiceEscapedClose
<1>3. QED
  BY <1>1, <1>2 DEF EscapeCode

LEMMA ClosedTyped ==
  ASSUME NEW A, CloseBracket \in A, NEW s \in ScanStates(A)
  PROVE  Closed(s) \in Seq([type : {"text", "code"}, text : Seq(A)])
<1> DEFINE R == [type : {"text", "code"}, text : Seq(A)]
           t == IF s.type = "code" THEN EscapeCode(s.buffer) ELSE s.buffer
<1>1. s.chunks \in Seq(R) /\ s.buffer \in Seq(A) /\ s.type \in {"text", "code"}
  BY DEF ScanStates
<1>2. t \in Seq(A)
  BY <1>1, EscapedTyped
<1> HIDE DEF t
<1>3. Chunk(s.type, t) \in R
  BY <1>1, <1>2 DEF Chunk
<1> HIDE DEF R
<1>4. Append(s.chunks, Chunk(s.type, t)) \in Seq(R)
  BY <1>1, <1>3
<1>5. Closed(s) = IF s.type = "text" /\ s.buffer = <<>> THEN s.chunks ELSE Append(s.chunks, Chunk(s.type, t))
  BY DEF Closed, t
<1>6. QED
  BY <1>1, <1>4, <1>5 DEF R

LEMMA ScanTyped ==
  ASSUME NEW A, CloseBracket \in A, NEW s \in ScanStates(A), NEW p \in A
  PROVE  Scan(s, p) \in ScanStates(A)
<1> DEFINE C == Closed(s)
<1>1. C \in Seq([type : {"text", "code"}, text : Seq(A)])
  BY ClosedTyped
<1> HIDE DEF C
<1>2. CASE Ends(s.type, p)
  <2>1. Scan(s, p) = [chunks |-> C, buffer |-> <<>>, type |-> IF s.type = "text" THEN "code" ELSE "text"]
    BY <1>2 DEF Scan, C
  <2>2. QED
    BY <1>1, <2>1 DEF ScanStates
<1>3. CASE ~Ends(s.type, p)
  <2>1. Scan(s, p) = [s EXCEPT !.buffer = Append(s.buffer, p)]
    BY <1>3 DEF Scan
  <2>2. s.buffer \in Seq(A) /\ Append(s.buffer, p) \in Seq(A)
    BY DEF ScanStates
  <2>3. QED
    BY <2>1, <2>2 DEF ScanStates
<1>4. QED
  BY <1>2, <1>3

(* The scanner takes the pieces one after the other.                       *)
ScanSteps(f, s, pieces) == f[0] = s /\ \A k \in 1 .. Len(pieces) : f[k] = Scan(f[k - 1], pieces[k])
ScanTurns(f, A, s, pieces) == f \in [0 .. Len(pieces) -> ScanStates(A)] /\ ScanSteps(f, s, pieces)
AgreeUpTo(n, f, g) == \A k \in 0 .. n : f[k] = g[k]

LEMMA ScanTurnsSame ==
  ASSUME NEW A, NEW s, NEW pieces \in Seq(A), NEW f, NEW g, ScanSteps(f, s, pieces), ScanSteps(g, s, pieces)
  PROVE  AgreeUpTo(Len(pieces), f, g)
<1> DEFINE n == Len(pieces)
           S == {k \in Nat : k <= n => g[k] = f[k]}
<1>1. n \in Nat
  OBVIOUS
<1>2. /\ f[0] = s /\ \A k \in 1 .. n : f[k] = Scan(f[k - 1], pieces[k])
      /\ g[0] = s /\ \A k \in 1 .. n : g[k] = Scan(g[k - 1], pieces[k])
  BY DEF ScanSteps
<1> HIDE DEF n
<1>3. 0 \in S
  BY <1>2
<1>4. ASSUME NEW k \in Nat, k \in S PROVE k + 1 \in S
  <2>1. CASE k + 1 <= n
    <3>1. PICK m \in 1 .. n : m = k + 1 /\ m - 1 = k /\ k <= n
      BY <1>1, <2>1
    <3>2. g[m - 1] = f[m - 1]
      BY <1>4, <3>1
    <3>3. g[m] = Scan(g[m - 1], pieces[m]) /\ f[m] = Scan(f[m - 1], pieces[m])
      BY <1>2 DEF n
    <3>4. g[m] = f[m]
      BY <3>2, <3>3
    <3>5. QED
      BY <3>1, <3>4
  <2>2. CASE ~(k + 1 <= n)
    BY <2>2
  <2>3. QED
    BY <2>1, <2>2
<1> HIDE DEF S
<1>5. \A k \in Nat : k \in S
  BY <1>3, <1>4, Induct
<1>6. QED
  BY <1>1, <1>5 DEF S, n, AgreeUpTo

LEMMA ScannedTurns ==
  ASSUME NEW A, CloseBracket \in A, NEW s \in ScanStates(A), NEW pieces \in Seq(A)
  PROVE  \E f : ScanTurns(f, A, s, pieces) /\ Scanned(s, pieces) = f[Len(pieces)]
<1> DEFINE n == Len(pieces)
           T == ScanStates(A)
           F == [k \in 1 .. n |-> [x \in T |-> Scan(x, pieces[k])]]
           Turn(f, k) == IF k = 0 THEN s ELSE Scan(f[k - 1], pieces[k])
           Whole(f) == [k \in 0 .. n |-> Turn(f, k)]
           after == CHOOSE f : f = Whole(f)
<1>1. n \in Nat /\ \A k \in 1 .. n : pieces[k] \in A
  OBVIOUS
<1> HIDE DEF n
<1>2. F \in [1 .. n -> [T -> T]]
  <2>1. \A k \in 1 .. n : \A x \in T : Scan(x, pieces[k]) \in T
    BY <1>1, ScanTyped, Zenon
  <2> HIDE DEF T
  <2>2. \A k \in 1 .. n : [x \in T |-> Scan(x, pieces[k])] \in [T -> T]
    BY <2>1
  <2>3. QED
    BY <2>2
<1>3. PICK g : Made(g, T, s, F, n)
  BY <1>1, <1>2, Recursion, Zenon
<1>4. g \in [0 .. n -> T] /\ g[0] = s /\ \A k \in 1 .. n : g[k] = Scan(g[k - 1], pieces[k])
  <2>1. ASSUME NEW k \in 1 .. n PROVE g[k] = Scan(g[k - 1], pieces[k])
    <3>1. k - 1 \in 0 .. n
      BY <1>1
    <3>2. g[k - 1] \in T /\ g[k] = F[k][g[k - 1]]
      <4> HIDE DEF F, T
      <4>1. QED
        BY <1>3, <3>1 DEF Made
    <3>3. F[k] = [x \in T |-> Scan(x, pieces[k])]
      OBVIOUS
    <3> HIDE DEF F, T
    <3>4. QED
      BY <3>2, <3>3
  <2> HIDE DEF F, T
  <2>2. QED
    BY <1>3, <2>1 DEF Made
<1> HIDE DEF F, T
<1>5. ScanTurns(g, A, s, pieces)
  BY <1>4 DEF ScanTurns, ScanSteps, T, n
<1> DEFINE h == [k \in 0 .. n |-> g[k]]
<1>6. h = Whole(h)
  <2>1. ASSUME NEW k \in 0 .. n PROVE g[k] = Turn(h, k)
    <3>1. CASE k = 0
      BY <1>4, <3>1
    <3>2. CASE k # 0
      <4>1. k - 1 \in 0 .. n /\ k \in 1 .. n
        BY <1>1, <3>2
      <4>2. h[k - 1] = g[k - 1]
        BY <4>1
      <4>3. g[k] = Scan(g[k - 1], pieces[k])
        BY <1>4, <4>1
      <4>4. QED
        BY <3>2, <4>2, <4>3
    <3>3. QED
      BY <3>1, <3>2
  <2> HIDE DEF Turn
  <2>2. QED
    BY <2>1
<1>7. after = Whole(after)
  <2> HIDE DEF Whole, h
  <2>1. QED
    BY <1>6
<1>8. Scanned(s, pieces) = after[n]
  BY DEF Scanned, n
<1> HIDE DEF after
<1>9. \A k \in 0 .. n : after[k] = Turn(after, k)
  BY <1>7
<1>10. after[0] = s /\ \A k \in 1 .. n : after[k] = Scan(after[k - 1], pieces[k])
  <2>1. 0 \in 0 .. n /\ \A k \in 1 .. n : k \in 0 .. n /\ k # 0
    BY <1>1
  <2>2. QED
    BY <1>9, <2>1
<1>11. \A k \in 0 .. n : after[k] = g[k]
  <2>1. ScanSteps(g, s, pieces) /\ pieces \in Seq(A)
    BY <1>5 DEF ScanTurns
  <2>2. ScanSteps(after, s, pieces)
    BY <1>10 DEF ScanSteps, n
  <2>3. AgreeUpTo(Len(pieces), after, g)
    BY <2>1, <2>2, ScanTurnsSame, Zenon
  <2>4. QED
    BY <2>3 DEF n, AgreeUpTo
<1>12. n \in 0 .. n
  BY <1>1
<1>13. QED
  BY <1>5, <1>8, <1>11, <1>12 DEF n

LEMMA ScannedTyped ==
  ASSUME NEW A, CloseBracket \in A, NEW s \in ScanStates(A), NEW pieces \in Seq(A)
  PROVE  Scanned(s, pieces) \in ScanStates(A)
<1>1. PICK f : ScanTurns(f, A, s, pieces) /\ Scanned(s, pieces) = f[Len(pieces)]
  BY ScannedTurns, Zenon
<1>2. Len(pieces) \in 0 .. Len(pieces)
  OBVIOUS
<1>3. QED
  BY <1>1, <1>2 DEF ScanTurns

(* It goes on with the pieces that follow from the state it is in.         *)
GoesOn(s, a, b) == Scanned(s, a \o b) = Scanned(Scanned(s, a), b)

LEMMA ScannedApart ==
  ASSUME NEW A, CloseBracket \in A, NEW s \in ScanStates(A), NEW a \in Seq(A), NEW b \in Seq(A)
  PROVE  GoesOn(s, a, b)
<1> DEFINE n == Len(a)
           m == Len(b)
           c == a \o b
           t == Scanned(s, a)
<1>1. t \in ScanStates(A) /\ n \in Nat /\ m \in Nat
  BY ScannedTyped
<1>2. c \in Seq(A) /\ Len(c) = n + m /\ \A j \in 1 .. n + m : c[j] = IF j <= n THEN a[j] ELSE b[j - n]
  BY Concatenated
<1>3. PICK f : ScanTurns(f, A, s, a) /\ t = f[n]
  BY ScannedTurns, Zenon
<1> HIDE DEF c, t
<1>4. PICK g : ScanTurns(g, A, t, b) /\ Scanned(t, b) = g[m]
  BY <1>1, ScannedTurns, Zenon
<1>5. PICK w : ScanTurns(w, A, s, c) /\ Scanned(s, c) = w[Len(c)]
  BY <1>2, ScannedTurns, Zenon
<1>6. f[0] = s /\ \A k \in 1 .. n : f[k] = Scan(f[k - 1], a[k])
  BY <1>3 DEF ScanTurns, ScanSteps
<1>7. g[0] = t /\ \A k \in 1 .. m : g[k] = Scan(g[k - 1], b[k])
  BY <1>4 DEF ScanTurns, ScanSteps
<1> HIDE DEF n, m
<1> DEFINE h == [k \in 0 .. n + m |-> IF k <= n THEN f[k] ELSE g[k - n]]
<1>8. ASSUME NEW k \in 1 .. n + m PROVE h[k] = Scan(h[k - 1], c[k])
  <2>1. CASE k <= n
    <3>1. k - 1 \in 0 .. n + m /\ k - 1 <= n /\ k \in 1 .. n
      BY <1>1, <2>1
    <3>2. h[k] = f[k] /\ h[k - 1] = f[k - 1] /\ c[k] = a[k]
      BY <1>1, <1>2, <2>1, <3>1
    <3>3. QED
      BY <1>6, <3>1, <3>2
  <2>2. CASE ~(k <= n)
    <3>1. k - n \in 1 .. m /\ k - 1 \in 0 .. n + m /\ k \in 0 .. n + m
      BY <1>1, <2>2
    <3>2. h[k] = g[k - n] /\ c[k] = b[k - n]
      BY <1>1, <1>2, <2>2, <3>1
    <3>3. h[k - 1] = g[(k - n) - 1]
      <4>1. CASE k = n + 1
        <5>1. k - 1 = n /\ (k - n) - 1 = 0 /\ k - 1 <= n
          BY <1>1, <4>1
        <5>2. h[k - 1] = f[n]
          BY <3>1, <5>1
        <5>3. QED
          BY <1>3, <1>7, <5>1, <5>2
      <4>2. CASE k # n + 1
        <5>1. ~(k - 1 <= n) /\ (k - 1) - n = (k - n) - 1
          BY <1>1, <2>2, <4>2
        <5>2. QED
          BY <3>1, <5>1
      <4>3. QED
        BY <4>1, <4>2
    <3>4. g[k - n] = Scan(g[(k - n) - 1], b[k - n])
      BY <1>7, <3>1
    <3>5. QED
      BY <3>2, <3>3, <3>4
  <2>3. QED
    BY <2>1, <2>2
<1>9. h[0] = s
  BY <1>1, <1>6
<1>10. h[n + m] = g[m]
  <2>1. CASE m = 0
    <3>1. n + m = n /\ n + m \in 0 .. n + m /\ n + m <= n
      BY <1>1, <2>1
    <3>2. h[n + m] = f[n]
      BY <3>1
    <3>3. QED
      BY <1>3, <1>7, <2>1, <3>2
  <2>2. CASE m # 0
    <3>1. ~(n + m <= n) /\ n + m \in 0 .. n + m /\ (n + m) - n = m
      BY <1>1, <2>2
    <3>2. QED
      BY <3>1
  <2>3. QED
    BY <2>1, <2>2
<1> HIDE DEF h
<1>11. ScanSteps(h, s, c) /\ ScanSteps(w, s, c)
  BY <1>2, <1>5, <1>8, <1>9 DEF ScanSteps, ScanTurns
<1>12. AgreeUpTo(Len(c), w, h)
  BY <1>2, <1>11, ScanTurnsSame, Zenon
<1>13. n + m \in 0 .. n + m
  BY <1>1
<1>14. w[n + m] = h[n + m]
  BY <1>2, <1>12, <1>13 DEF AgreeUpTo
<1>15. Scanned(s, c) = Scanned(t, b)
  BY <1>2, <1>4, <1>5, <1>10, <1>14
<1>16. QED
  BY <1>15, Zenon DEF c, t, GoesOn

LEMMA ScannedOne ==
  ASSUME NEW A, CloseBracket \in A, NEW s \in ScanStates(A), NEW p \in A
  PROVE  Scanned(s, <<p>>) = Scan(s, p)
<1> DEFINE a == <<p>>
<1>1. a \in Seq(A) /\ Len(a) = 1 /\ a[1] = p
  OBVIOUS
<1> HIDE DEF a
<1>2. PICK f : ScanTurns(f, A, s, a) /\ Scanned(s, a) = f[Len(a)]
  BY <1>1, ScannedTurns, Zenon
<1>3. 1 \in 1 .. 1 /\ 1 - 1 = 0
  OBVIOUS
<1>4. f[0] = s /\ f[1] = Scan(f[1 - 1], a[1])
  BY <1>1, <1>2, <1>3 DEF ScanTurns, ScanSteps
<1>5. f[1 - 1] = s
  BY <1>3, <1>4
<1>6. Scanned(s, a) = Scan(s, p)
  BY <1>1, <1>2, <1>4, <1>5
<1>7. QED
  BY <1>6 DEF a

(* Pieces that end nothing go into the buffer.                             *)
Quiet(type, pieces) == \A k \in DOMAIN pieces : ~Ends(type, pieces[k])

LEMMA ScannedQuietly ==
  ASSUME NEW A, CloseBracket \in A, NEW s \in ScanStates(A), s.buffer = <<>>,
         NEW pieces \in Seq(A), Quiet(s.type, pieces)
  PROVE  Scanned(s, pieces) = [chunks |-> s.chunks, buffer |-> pieces, type |-> s.type]
<1> DEFINE n == Len(pieces)
<1>1. n \in Nat /\ DOMAIN pieces = 1 .. n /\ \A k \in 1 .. n : ~Ends(s.type, pieces[k])
  BY DEF Quiet
<1>2. PICK f : ScanTurns(f, A, s, pieces) /\ Scanned(s, pieces) = f[n]
  BY ScannedTurns, Zenon
<1>3. f \in [0 .. n -> ScanStates(A)] /\ f[0] = s /\ \A k \in 1 .. n : f[k] = Scan(f[k - 1], pieces[k])
  BY <1>2 DEF ScanTurns, ScanSteps
<1> HIDE DEF n
<1> DEFINE Holds(k) == /\ f[k].chunks = s.chunks /\ f[k].type = s.type
                       /\ Len(f[k].buffer) = k /\ \A j \in 1 .. k : f[k].buffer[j] = pieces[j]
           S == {k \in Nat : k <= n => Holds(k)}
<1>4. 0 \in S
  BY <1>3
<1>5. ASSUME NEW k \in Nat, k \in S PROVE k + 1 \in S
  <2>1. CASE k + 1 <= n
    <3>1. PICK m \in 1 .. n : m = k + 1 /\ m - 1 = k /\ k <= n /\ k \in 0 .. n
      BY <1>1, <2>1
    <3>2. Holds(k)
      BY <1>5, <3>1
    <3> DEFINE t == f[k]
    <3>3. t \in ScanStates(A) /\ t.buffer \in Seq(A) /\ Len(t.buffer) = k
      BY <1>3, <3>1, <3>2 DEF ScanStates
    <3>4. f[m] = Scan(t, pieces[m])
      BY <1>3, <3>1
    <3>5. t.type = s.type /\ t.chunks = s.chunks /\ \A j \in 1 .. k : t.buffer[j] = pieces[j]
      BY <3>2
    <3> HIDE DEF t, Holds
    <3>6. f[m] = [t EXCEPT !.buffer = Append(t.buffer, pieces[m])]
      BY <1>1, <3>4, <3>5 DEF Scan
    <3>7. pieces[m] \in A
      BY <1>1
    <3> DEFINE b == Append(t.buffer, pieces[m])
    <3>8. Len(b) = m /\ b[m] = pieces[m] /\ \A j \in 1 .. k : b[j] = pieces[j]
      BY <3>1, <3>3, <3>5, <3>7
    <3> HIDE DEF b
    <3>9. \A j \in 1 .. m : b[j] = pieces[j]
      BY <3>1, <3>8
    <3>10. f[m].chunks = t.chunks /\ f[m].type = t.type /\ f[m].buffer = b
      BY <3>3, <3>6 DEF ScanStates, b
    <3>11. Holds(m)
      BY <3>5, <3>8, <3>9, <3>10 DEF Holds
    <3>12. QED
      BY <3>1, <3>11
  <2>2. CASE ~(k + 1 <= n)
    BY <2>2
  <2>3. QED
    BY <2>1, <2>2
<1> HIDE DEF S
<1>6. n \in S
  BY <1>1, <1>4, <1>5, Induct
<1>7. Holds(n)
  BY <1>1, <1>6 DEF S
<1>8. f[n] \in ScanStates(A)
  BY <1>1, <1>3
<1> DEFINE t == f[n]
<1> HIDE DEF t
<1>9. t \in [chunks : Seq([type : {"text", "code"}, text : Seq(A)]), buffer : Seq(A), type : {"text", "code"}]
  BY <1>8 DEF t, ScanStates
<1>10. t.buffer = pieces
  <2>1. t.buffer \in Seq(A) /\ Len(t.buffer) = n /\ \A j \in 1 .. n : t.buffer[j] = pieces[j]
    BY <1>7, <1>9 DEF t
  <2>2. Len(pieces) = n
    BY DEF n
  <2>3. QED
    BY <2>1, <2>2
<1>11. t.chunks = s.chunks /\ t.type = s.type
  BY <1>7 DEF t
<1>12. t = [chunks |-> s.chunks, buffer |-> pieces, type |-> s.type]
  BY <1>9, <1>10, <1>11
<1>13. QED
  BY <1>2, <1>12 DEF t

LEMMA ScannedCode ==
  ASSUME NEW A, OpenBracket \in A, CloseBracket \in A, NEW s \in ScanStates(A), s.type = "text",
         NEW code \in Seq(A), CloseBracket \notin ToSet(code)
  PROVE  Scanned(s, <<OpenBracket>> \o code \o <<CloseBracket>>)
           = [chunks |-> Append(Closed(s), Chunk("code", EscapeCode(code))), buffer |-> <<>>, type |-> "text"]
<1> DEFINE o == <<OpenBracket>>
           c == <<CloseBracket>>
           i == [chunks |-> Closed(s), buffer |-> <<>>, type |-> "code"]
           j == [chunks |-> Closed(s), buffer |-> code, type |-> "code"]
<1>1. o \in Seq(A) /\ c \in Seq(A)
  OBVIOUS
<1>2. Scanned(s, o) = Scan(s, OpenBracket)
  BY ScannedOne
<1>3. Scan(s, OpenBracket) = i
  BY DEF Scan, Ends
<1>4. Closed(s) \in Seq([type : {"text", "code"}, text : Seq(A)])
  BY ClosedTyped
<1>5. i \in ScanStates(A) /\ j \in ScanStates(A)
  BY <1>4 DEF ScanStates
<1>6. i.buffer = <<>> /\ i.type = "code" /\ i.chunks = Closed(s)
  OBVIOUS
<1>7. Quiet("code", code)
  BY DEF Quiet, Ends, ToSet
<1>8. j.buffer = code /\ j.type = "code" /\ j.chunks = Closed(s)
  OBVIOUS
<1> HIDE DEF i
<1>9. Scanned(i, code) = j
  <2>1. Scanned(i, code) = [chunks |-> i.chunks, buffer |-> code, type |-> i.type]
    BY <1>5, <1>6, <1>7, ScannedQuietly
  <2>2. QED
    BY <1>6, <2>1
<1> HIDE DEF j
<1>10. Scanned(j, c) = Scan(j, CloseBracket)
  BY <1>5, ScannedOne
<1>11. Closed(j) = Append(Closed(s), Chunk("code", EscapeCode(code)))
  BY <1>8 DEF Closed
<1>12. Scan(j, CloseBracket) = [chunks |-> Closed(j), buffer |-> <<>>, type |-> "text"]
  BY <1>8 DEF Scan, Ends
<1> HIDE DEF o, c
<1>13. Scanned(s, o \o code) = j
  <2>1. GoesOn(s, o, code)
    BY <1>1, ScannedApart, Zenon
  <2>2. QED
    BY <1>2, <1>3, <1>9, <2>1, Zenon DEF GoesOn
<1>14. o \o code \in Seq(A)
  BY <1>1, Concatenated
<1>15. Scanned(s, (o \o code) \o c) = Scanned(j, c)
  <2> DEFINE oc == o \o code
  <2>1. oc \in Seq(A) /\ c \in Seq(A)
    BY <1>1, <1>14
  <2>2. Scanned(s, oc) = j
    BY <1>13
  <2> HIDE DEF oc
  <2>3. GoesOn(s, oc, c)
    BY <2>1, ScannedApart, Zenon
  <2>4. QED
    BY <2>2, <2>3, Zenon DEF oc, GoesOn
<1>16. QED
  BY <1>10, <1>11, <1>12, <1>15 DEF o, c

-----------------------------------------------------------------------------
(* A text put together from parts is taken apart into them.                *)

Pieces(parts) == {"=", OpenBracket, CloseBracket} \cup UNION {ToSet(parts[k].text) : k \in DOMAIN parts}
WrittenParts(parts) == [k \in DOMAIN parts |-> Written(parts[k])]

LEMMA TemplateParts ==
  ASSUME NEW parts, Template(parts)
  PROVE  /\ Len(parts) \in Nat /\ DOMAIN parts = 1 .. Len(parts)
         /\ \A k \in DOMAIN parts : /\ parts[k].type \in {"text", "code"}
                                    /\ parts[k].text \in Seq(Pieces(parts))
                                    /\ Written(parts[k]) \in Seq(Pieces(parts))
<1> DEFINE A == Pieces(parts)
<1>1. parts \in Seq(ToSet(parts)) /\ \A k \in DOMAIN parts : parts[k].type \in {"text", "code"}
  BY DEF Template
<1>2. Len(parts) \in Nat /\ DOMAIN parts = 1 .. Len(parts)
  BY <1>1
<1>3. OpenBracket \in A /\ CloseBracket \in A /\ \A k \in DOMAIN parts : ToSet(parts[k].text) \subseteq A
  BY Zenon DEF Pieces
<1> HIDE DEF A
<1>4. ASSUME NEW k \in DOMAIN parts PROVE parts[k].text \in Seq(A) /\ Written(parts[k]) \in Seq(A)
  <2> DEFINE t == parts[k].text
             B == ToSet(t)
  <2>1. t \in Seq(B) /\ B \subseteq A
    BY <1>3 DEF Template
  <2> HIDE DEF t, B
  <2>2. t \in Seq(A)
    BY <2>1
  <2>3. <<OpenBracket>> \in Seq(A) /\ <<CloseBracket>> \in Seq(A)
    BY <1>3
  <2>4. <<OpenBracket>> \o t \in Seq(A)
    BY <2>2, <2>3, Concatenated
  <2>5. <<OpenBracket>> \o t \o <<CloseBracket>> \in Seq(A)
    BY <2>3, <2>4, Concatenated
  <2>6. Written(parts[k]) = IF parts[k].type = "text" THEN t ELSE <<OpenBracket>> \o t \o <<CloseBracket>>
    BY DEF Written, t
  <2>7. QED
    BY <2>2, <2>5, <2>6 DEF t
<1>5. QED
  BY <1>1, <1>2, <1>4 DEF A

ChunkOf(part) == Chunk(part.type, IF part.type = "code" THEN EscapeCode(part.text) ELSE part.text)
ChunkList(parts, k) == [m \in 1 .. k |-> ChunkOf(parts[m])]
AfterParts(s, parts, k) ==
  /\ s \in ScanStates(Pieces(parts))
  /\ s.type = "text"
  /\ Closed(s) = ChunkList(parts, k)
  /\ s.buffer = IF k > 0 /\ parts[k].type = "text" THEN parts[k].text ELSE <<>>

LEMMA ChunkListGrows ==
  ASSUME NEW parts, NEW k \in Nat \ {0}
  PROVE  Append(ChunkList(parts, k - 1), ChunkOf(parts[k])) = ChunkList(parts, k)
<1> DEFINE B == {ChunkOf(parts[m]) : m \in 1 .. k}
           s == ChunkList(parts, k - 1)
           e == ChunkOf(parts[k])
           t == ChunkList(parts, k)
<1>1. s \in Seq(B) /\ Len(s) = k - 1 /\ \A m \in 1 .. k - 1 : s[m] = ChunkOf(parts[m])
  BY DEF ChunkList
<1>2. t \in Seq(B) /\ Len(t) = k /\ \A m \in 1 .. k : t[m] = ChunkOf(parts[m])
  BY DEF ChunkList
<1>3. e \in B /\ t[k] = e
  BY <1>2
<1> HIDE DEF s, t, e, B
<1> DEFINE a == Append(s, e)
<1>4. a \in Seq(B) /\ Len(a) = k /\ a[k] = e /\ \A m \in 1 .. k - 1 : a[m] = s[m]
  BY <1>1, <1>3
<1> HIDE DEF a
<1>5. \A m \in 1 .. k : m = k \/ m \in 1 .. k - 1
  OBVIOUS
<1>6. \A m \in 1 .. k : a[m] = t[m]
  BY <1>1, <1>2, <1>3, <1>4, <1>5
<1>7. a = t
  BY <1>2, <1>4, <1>6
<1>8. QED
  BY <1>7 DEF a, s, e, t

LEMMA OnePartMore ==
  ASSUME NEW parts, Template(parts), NEW k \in DOMAIN parts, NEW s, AfterParts(s, parts, k - 1)
  PROVE  AfterParts(Scanned(s, Written(parts[k])), parts, k)
<1> DEFINE A == Pieces(parts)
           t == parts[k].text
           w == Scanned(s, Written(parts[k]))
<1>1. OpenBracket \in A /\ CloseBracket \in A
  BY Zenon DEF Pieces
<1>2. Len(parts) \in Nat /\ DOMAIN parts = 1 .. Len(parts) /\ t \in Seq(A) /\ parts[k].type \in {"text", "code"}
      /\ Written(parts[k]) \in Seq(A)
  BY TemplateParts
<1>3. s \in ScanStates(A) /\ s.type = "text" /\ Closed(s) = ChunkList(parts, k - 1)
  BY DEF AfterParts
<1>4. k \in Nat \ {0} /\ k > 0
  BY <1>2
<1>5. Append(Closed(s), ChunkOf(parts[k])) = ChunkList(parts, k)
  BY <1>3, <1>4, ChunkListGrows
<1>6. w \in ScanStates(A)
  BY <1>1, <1>2, <1>3, ScannedTyped
<1> HIDE DEF A
<1>7. CASE parts[k].type = "code"
  <2>1. CloseBracket \notin ToSet(t)
    BY <1>7 DEF Template
  <2>2. Written(parts[k]) = <<OpenBracket>> \o t \o <<CloseBracket>>
    BY <1>7 DEF Written
  <2>3. w = [chunks |-> Append(Closed(s), Chunk("code", EscapeCode(t))), buffer |-> <<>>, type |-> "text"]
    <3> HIDE DEF t
    <3>1. QED
      BY <1>1, <1>2, <1>3, <2>1, <2>2, ScannedCode
  <2>4. ChunkOf(parts[k]) = Chunk("code", EscapeCode(t))
    BY <1>7 DEF ChunkOf
  <2> HIDE DEF w
  <2>5. Closed(w) = ChunkList(parts, k)
    BY <1>5, <2>3, <2>4 DEF Closed
  <2>6. w.type = "text" /\ w.buffer = <<>>
    BY <2>3
  <2>7. QED
    BY <1>6, <1>7, <2>5, <2>6 DEF AfterParts, A, w
<1>8. CASE parts[k].type = "text"
  <2>1. t # <<>> /\ OpenBracket \notin ToSet(t)
    BY <1>8 DEF Template
  <2>2. s.buffer = <<>>
    <3>1. CASE k - 1 > 0
      <4>1. k - 1 \in DOMAIN parts /\ k - 1 # Len(parts) /\ (k - 1) + 1 = k
        BY <1>2, <3>1
      <4>2. parts[k - 1].type = "text" => parts[(k - 1) + 1].type = "code"
        BY <4>1 DEF Template
      <4>3. parts[k - 1].type # "text"
        BY <1>8, <4>1, <4>2
      <4>4. QED
        BY <4>3 DEF AfterParts
    <3>2. CASE ~(k - 1 > 0)
      BY <3>2 DEF AfterParts
    <3>3. QED
      BY <3>1, <3>2
  <2>3. Written(parts[k]) = t
    BY <1>8 DEF Written
  <2>4. Quiet("text", t)
    BY <2>1 DEF Quiet, Ends, ToSet
  <2>5. w = [chunks |-> s.chunks, buffer |-> t, type |-> "text"]
    <3> HIDE DEF t
    <3>1. QED
      BY <1>1, <1>2, <1>3, <2>2, <2>3, <2>4, ScannedQuietly
  <2>6. Closed(s) = s.chunks
    BY <1>3, <2>2 DEF Closed
  <2>7. ChunkOf(parts[k]) = Chunk("text", t)
    BY <1>8 DEF ChunkOf
  <2> HIDE DEF w
  <2>8. w.type = "text" /\ w.buffer = t /\ w.chunks = s.chunks
    BY <2>5
  <2> HIDE DEF t
  <2>9. Closed(w) = ChunkList(parts, k)
    BY <1>5, <2>1, <2>6, <2>7, <2>8 DEF Closed
  <2>10. QED
    BY <1>4, <1>6, <1>8, <2>8, <2>9 DEF AfterParts, A, w, t
<1>9. QED
  BY <1>2, <1>7, <1>8

Body(parts) == FlattenSeq(WrittenParts(parts))

(* What the scanner has found when all parts are behind it.                *)
LEMMA ScannedParts ==
  ASSUME NEW parts, Template(parts)
  PROVE  /\ Body(parts) \in Seq(Pieces(parts))
         /\ AfterParts(Scanned(ScanStart, Body(parts)), parts, Len(parts))
<1> DEFINE A == Pieces(parts)
           n == Len(parts)
           seqs == WrittenParts(parts)
<1>1. OpenBracket \in A /\ CloseBracket \in A
  BY Zenon DEF Pieces
<1>2. n \in Nat /\ DOMAIN parts = 1 .. n /\ \A k \in DOMAIN parts : Written(parts[k]) \in Seq(A)
  BY TemplateParts
<1>3. seqs \in [1 .. n -> Seq(A)] /\ \A k \in 1 .. n : seqs[k] = Written(parts[k])
  BY <1>2 DEF WrittenParts
<1> HIDE DEF A, n, seqs
<1>4. PICK g : Joins(g, A, seqs, n) /\ FlattenSeq(seqs) = g[n]
  BY <1>2, <1>3, Flattening, Zenon
<1>5. g \in [0 .. n -> Seq(A)] /\ g[0] = <<>> /\ \A k \in 1 .. n : g[k] = g[k - 1] \o seqs[k]
  BY <1>4, Zenon DEF Joins
<1> DEFINE S == {k \in Nat : k <= n => AfterParts(Scanned(ScanStart, g[k]), parts, k)}
<1>6. ScanStart \in ScanStates(A) /\ ScanStart.buffer = <<>> /\ ScanStart.chunks = <<>> /\ ScanStart.type = "text"
  BY DEF ScanStart, ScanStates
<1>7. 0 \in S
  <2> DEFINE e == <<>>
             w == Scanned(ScanStart, e)
  <2>1. e \in Seq(A) /\ Quiet(ScanStart.type, e)
    BY DEF Quiet
  <2>2. w = [chunks |-> ScanStart.chunks, buffer |-> <<>>, type |-> ScanStart.type]
    <3>1. w = [chunks |-> ScanStart.chunks, buffer |-> e, type |-> ScanStart.type]
      <4> HIDE DEF e
      <4>1. QED
        BY <1>1, <1>6, <2>1, ScannedQuietly
    <3>2. QED
      BY <3>1
  <2> HIDE DEF w
  <2>3. w.chunks = <<>> /\ w.buffer = <<>> /\ w.type = "text"
    BY <1>6, <2>2
  <2>4. Closed(w) = <<>>
    BY <2>3 DEF Closed
  <2>5. ChunkList(parts, 0) = <<>>
    BY DEF ChunkList
  <2>6. w \in ScanStates(A)
    BY <1>6, <2>2 DEF ScanStates
  <2>7. AfterParts(w, parts, 0)
    BY <2>3, <2>4, <2>5, <2>6 DEF AfterParts, A
  <2>8. g[0] = e
    BY <1>5
  <2> HIDE DEF e
  <2>9. AfterParts(Scanned(ScanStart, g[0]), parts, 0)
    BY <2>7, <2>8 DEF w
  <2>10. QED
    BY <2>9
<1>8. ASSUME NEW k \in Nat, k \in S PROVE k + 1 \in S
  <2>1. CASE k + 1 <= n
    <3>1. PICK m \in 1 .. n : m = k + 1 /\ m - 1 = k /\ k <= n /\ k \in 0 .. n
      BY <1>2, <2>1
    <3>2. AfterParts(Scanned(ScanStart, g[m - 1]), parts, m - 1)
      BY <1>8, <3>1
    <3>3. m \in DOMAIN parts
      BY <1>2
    <3>4. AfterParts(Scanned(Scanned(ScanStart, g[m - 1]), Written(parts[m])), parts, m)
      BY <3>2, <3>3, OnePartMore
    <3> DEFINE a == g[m - 1]
               b == Written(parts[m])
    <3>5. a \in Seq(A) /\ b \in Seq(A) /\ g[m] = a \o b
      <4>1. m - 1 \in 0 .. n
        BY <3>1
      <4>2. a \in Seq(A)
        BY <1>5, <4>1
      <4>3. b \in Seq(A) /\ seqs[m] = b
        BY <1>3
      <4>4. g[m] = g[m - 1] \o seqs[m]
        BY <1>5, Zenon
      <4>5. QED
        BY <4>2, <4>3, <4>4, Zenon
    <3> HIDE DEF a, b
    <3>6. GoesOn(ScanStart, a, b)
      BY <1>1, <1>6, <3>5, ScannedApart, Zenon
    <3>7. AfterParts(Scanned(ScanStart, g[m]), parts, m)
      BY <3>4, <3>5, <3>6, Zenon DEF a, b, GoesOn
    <3>8. QED
      BY <3>1, <3>7
  <2>2. CASE ~(k + 1 <= n)
    BY <2>2
  <2>3. QED
    BY <2>1, <2>2
<1> HIDE DEF S
<1>9. n \in S
  BY <1>2, <1>7, <1>8, Induct
<1>10. n \in 0 .. n
  BY <1>2
<1>11. AfterParts(Scanned(ScanStart, g[n]), parts, n) /\ g[n] \in Seq(A)
  BY <1>2, <1>5, <1>9, <1>10 DEF S
<1>12. QED
  BY <1>4, <1>11 DEF Body, A, n, seqs

(* splitExpression finds one chunk for each part.                          *)
LEMMA SplitIntoParts ==
  ASSUME NEW parts, Template(parts)
  PROVE  SplitExpression(Body(parts)) = ChunkList(parts, Len(parts))
<1> DEFINE n == Len(parts)
           end == Scanned(ScanStart, Body(parts))
           list == ChunkList(parts, n)
<1>1. AfterParts(end, parts, n)
  BY ScannedParts
<1>2. n \in Nat /\ DOMAIN parts = 1 .. n
  BY TemplateParts
<1>3. SplitExpression(Body(parts)) =
        IF end.buffer = <<>> \/ Last(end.buffer) \in Escapes(end.type) THEN end.chunks ELSE Closed(end)
  BY DEF SplitExpression
<1> HIDE DEF end, n, list
<1>4. end.type = "text" /\ Closed(end) = list
  BY <1>1 DEF AfterParts, list
<1>5. CASE end.buffer = <<>>
  BY <1>3, <1>4, <1>5 DEF Closed, list, n
<1>6. CASE end.buffer # <<>>
  <2>1. n > 0 /\ parts[n].type = "text" /\ end.buffer = parts[n].text
    BY <1>1, <1>6 DEF AfterParts
  <2>2. n \in DOMAIN parts
    BY <1>2, <2>1
  <2>3. Last(parts[n].text) \notin Escapes("text")
    BY <2>1, <2>2 DEF Template, n
  <2>4. QED
    BY <1>3, <1>4, <1>6, <2>1, <2>3 DEF list, n
<1>7. QED
  BY <1>5, <1>6

LEMMA TextOfParts ==
  ASSUME NEW parts, Template(parts)
  PROVE  ~IsFixed(TextOf(parts)) /\ Tail(TextOf(parts)) = Body(parts)
<1> DEFINE A == Pieces(parts)
           b == Body(parts)
           e == <<"=">>
<1>1. "=" \in A
  BY Zenon DEF Pieces
<1>2. b \in Seq(A) /\ e \in Seq(A) /\ Len(e) = 1 /\ e[1] = "="
  BY <1>1, ScannedParts
<1>3. TextOf(parts) = e \o b
  BY Zenon DEF TextOf, Body, WrittenParts
<1> HIDE DEF A, b, e
<1> DEFINE t == e \o b
<1>4. /\ t \in Seq(A) /\ Len(t) = Len(e) + Len(b)
      /\ \A j \in 1 .. Len(e) + Len(b) : t[j] = IF j <= Len(e) THEN e[j] ELSE b[j - Len(e)]
  BY <1>2, Concatenated
<1> HIDE DEF t
<1>5. Len(b) \in Nat /\ DOMAIN b = 1 .. Len(b)
  BY <1>2
<1>6. Len(t) = 1 + Len(b) /\ t[1] = "=" /\ \A j \in 1 .. Len(b) : t[j + 1] = b[j]
  BY <1>2, <1>4, <1>5
<1>7. t # <<>> /\ Head(t) = "="
  BY <1>4, <1>5, <1>6
<1>8. Tail(t) = b
  <2>1. Tail(t) \in Seq(A) /\ Len(Tail(t)) = Len(b) /\ \A j \in 1 .. Len(b) : Tail(t)[j] = t[j + 1]
    BY <1>4, <1>5, <1>6, <1>7
  <2>2. QED
    BY <1>2, <1>6, <2>1
<1>9. QED
  BY <1>3, <1>7, <1>8 DEF IsFixed, b, t

LEMMA TemplateChunks ==
  ASSUME NEW parts, Template(parts), TextOf(parts) \in Texts
  PROVE  Chunks(TextOf(parts)) = ChunkList(parts, Len(parts))
<1> DEFINE t == TextOf(parts)
<1>1. ~IsFixed(t) /\ Tail(t) = Body(parts)
  BY TextOfParts
<1>2. t \in {u \in Texts : ~IsFixed(u)}
  BY <1>1
<1> HIDE DEF t
<1>3. Chunks(t) = SplitExpression(Tail(t))
  BY <1>2 DEF Chunks, ChunksOf
<1>4. SplitExpression(Body(parts)) = ChunkList(parts, Len(parts))
  BY SplitIntoParts
<1>5. QED
  BY <1>1, <1>3, <1>4 DEF t

CodesIn(parts) == {k \in DOMAIN parts : parts[k].type = "code"}

LEMMA CodeIsSeen ==
  ASSUME NEW parts, Template(parts), NEW k \in CodesIn(parts)
  PROVE  HasCode(Body(parts))
<1> DEFINE A == Pieces(parts)
           b == Body(parts)
           n == Len(parts)
           s == ScanStart
           w == Scanned(s, b)
<1>1. CloseBracket \in A
  BY Zenon DEF Pieces
<1>2. b \in Seq(A) /\ AfterParts(w, parts, n) /\ n \in Nat /\ DOMAIN parts = 1 .. n
  BY ScannedParts, TemplateParts
<1>3. s \in ScanStates(A) /\ s.buffer = <<>> /\ s.chunks = <<>> /\ s.type = "text"
  BY DEF ScanStart, ScanStates
<1> HIDE DEF A, b, n, s
<1>4. Closed(w) = ChunkList(parts, n)
  BY <1>2 DEF AfterParts
<1>5. k \in 1 .. n /\ parts[k].type = "code"
  BY <1>2 DEF CodesIn
<1>6. Len(Closed(w)) = n /\ Closed(w)[k] = ChunkOf(parts[k])
  BY <1>2, <1>4, <1>5 DEF ChunkList
<1>7. ChunkOf(parts[k]).type = "code"
  BY <1>5 DEF ChunkOf, Chunk
<1>8. ASSUME ~HasCode(b) PROVE FALSE
  <2>1. Quiet(s.type, b)
    BY <1>3, <1>8 DEF HasCode, Quiet, Ends
  <2>2. w = [chunks |-> s.chunks, buffer |-> b, type |-> s.type]
    BY <1>1, <1>2, <1>3, <2>1, ScannedQuietly
  <2> HIDE DEF w
  <2>3. w.chunks = <<>> /\ w.buffer = b /\ w.type = "text"
    BY <1>3, <2>2
  <2>4. Closed(w) = <<>> \/ Closed(w) = <<Chunk("text", b)>>
    <3>1. Closed(w) = <<>> \/ Closed(w) = Append(<<>>, Chunk("text", b))
      BY <2>3 DEF Closed
    <3>2. Append(<<>>, Chunk("text", b)) = <<Chunk("text", b)>>
      OBVIOUS
    <3>3. QED
      BY <3>1, <3>2, Zenon
  <2>5. CASE Closed(w) = <<>>
    <3>1. n = 0
      BY <1>6, <2>5
    <3>2. QED
      BY <1>5, <3>1
  <2>6. CASE Closed(w) = <<Chunk("text", b)>>
    <3>1. n = 1
      BY <1>6, <2>6
    <3>2. k = 1
      BY <1>5, <3>1
    <3>3. ChunkOf(parts[k]) = Chunk("text", b)
      BY <1>6, <2>6, <3>2
    <3>4. QED
      BY <1>7, <3>3 DEF Chunk
  <2>7. QED
    BY <2>4, <2>5, <2>6
<1>9. QED
  BY <1>8 DEF b

(* The place of a number in a list in order is how many come up to it.     *)
LEMMA RankInList ==
  ASSUME NEW n \in Nat, NEW S \in SUBSET (1 .. n), NEW ks, Entries(ks, S), Increasing(ks)
  PROVE  /\ Len(ks) = Cardinality(S)
         /\ \A a \in DOMAIN ks : Cardinality({m \in S : m <= ks[a]}) = a
<1>1. /\ Len(ks) \in Nat /\ DOMAIN ks = 1 .. Len(ks) /\ \A a \in DOMAIN ks : ks[a] \in S
      /\ ks \in Seq(S)
      /\ \A a, b \in DOMAIN ks : ks[a] = ks[b] => a = b
      /\ \A k \in S : \E a \in DOMAIN ks : ks[a] = k
  BY DEF Entries
<1>2. Len(ks) = Cardinality(S)
  <2>1. ks \in [1 .. Len(ks) -> S]
    BY <1>1
  <2>2. ks \in Bijection(1 .. Len(ks), S)
    BY <1>1, <2>1 DEF Bijection, Injection, Surjection, IsInjective
  <2>3. ExistsBijection(1 .. Len(ks), S)
    BY <2>2 DEF ExistsBijection
  <2>4. QED
    BY <1>1, <2>3, FS_CountingElements
<1>3. ASSUME NEW a \in DOMAIN ks PROVE Cardinality({m \in S : m <= ks[a]}) = a
  <2> DEFINE T == {m \in S : m <= ks[a]}
             f == [b \in 1 .. a |-> ks[b]]
  <2>1. a \in Nat /\ \A b \in 1 .. a : b \in DOMAIN ks
    BY <1>1
  <2>2. \A b \in DOMAIN ks : ks[b] \in Nat /\ b \in Nat
    <3>1. S \subseteq Nat /\ \A b \in DOMAIN ks : b \in Nat
      BY <1>1
    <3>2. QED
      BY <1>1, <3>1
  <2>3. ASSUME NEW b \in 1 .. a PROVE ks[b] \in T
    <3>1. b \in DOMAIN ks /\ b <= a /\ b \in Nat
      BY <2>1
    <3>2. b = a \/ b < a
      BY <2>1, <3>1
    <3>3. ks[b] <= ks[a]
      BY <2>2, <3>1, <3>2 DEF Increasing
    <3>4. QED
      BY <1>1, <3>1, <3>3
  <2>4. f \in [1 .. a -> T]
    <3> HIDE DEF T
    <3>1. QED
      BY <2>3
  <2>5. ASSUME NEW k \in T PROVE \E b \in 1 .. a : f[b] = k
    <3>1. PICK b \in DOMAIN ks : ks[b] = k
      BY <1>1
    <3>2. ~(a < b)
      BY <2>2, <3>1 DEF Increasing
    <3>3. b \in 1 .. a
      BY <1>1, <2>1, <2>2, <3>1, <3>2
    <3>4. f[b] = k
      BY <3>1, <3>3
    <3>5. QED
      BY <3>3, <3>4
  <2>6. \A b, c \in 1 .. a : f[b] = f[c] => b = c
    BY <1>1, <2>1
  <2> HIDE DEF T, f
  <2>7. f \in Bijection(1 .. a, T)
    BY <2>4, <2>5, <2>6 DEF Bijection, Injection, Surjection, IsInjective
  <2>8. ExistsBijection(1 .. a, T)
    BY <2>7 DEF ExistsBijection
  <2>9. Cardinality(T) = a
    BY <2>1, <2>8, FS_CountingElements
  <2>10. QED
    BY <2>9 DEF T
<1>4. QED
  BY <1>2, <1>3

(* What is evaluated of a text put together from parts: its codes.         *)
CodesFor(c, parts) ==
  /\ Len(c) = CodesUpTo(parts, Len(parts)) /\ Len(c) \in Nat /\ DOMAIN c = 1 .. Len(c) /\ c \in Seq(ToSet(c))
  /\ \A k \in CodesIn(parts) :
       CodesUpTo(parts, k) \in DOMAIN c /\ c[CodesUpTo(parts, k)] = EscapeCode(parts[k].text)

LEMMA CodesOfChunks ==
  ASSUME NEW parts, Template(parts)
  PROVE  LET list == ChunkList(parts, Len(parts))
             codes == Chosen(list, CodesIn(parts))
         IN  CodesFor([a \in DOMAIN codes |-> codes[a].text], parts)
<1> DEFINE n == Len(parts)
           S == CodesIn(parts)
           list == ChunkList(parts, n)
           ks == Ascending(S)
           codes == Chosen(list, S)
           c == [a \in DOMAIN codes |-> codes[a].text]
           B == {ChunkOf(parts[m]) : m \in 1 .. n}
<1>1. n \in Nat /\ DOMAIN parts = 1 .. n
  BY TemplateParts
<1>2. list \in Seq(B) /\ DOMAIN list = 1 .. n /\ \A m \in 1 .. n : list[m] = ChunkOf(parts[m])
  BY <1>1 DEF ChunkList
<1>3. S \in SUBSET DOMAIN list /\ S \in SUBSET (1 .. n) /\ \A k \in S : parts[k].type = "code"
  BY <1>1, <1>2 DEF CodesIn
<1>4. \A k \in 1 .. n : CodesUpTo(parts, k) = Cardinality({m \in S : m <= k})
  <2>1. ASSUME NEW k \in 1 .. n PROVE {m \in 1 .. k : parts[m].type = "code"} = {m \in S : m <= k}
    BY <1>1 DEF CodesIn
  <2>2. QED
    BY <2>1, Zenon DEF CodesUpTo
<1>5. CodesUpTo(parts, n) = Cardinality(S)
  <2>1. {m \in 1 .. n : parts[m].type = "code"} = S
    BY <1>1, Zenon DEF CodesIn
  <2>2. QED
    BY <2>1, Zenon DEF CodesUpTo
<1> HIDE DEF list, S, ks, B, n
<1>6. IsChosen(codes, list, S, ks)
  BY <1>2, <1>3, ChosenOnes, Zenon DEF ks
<1> HIDE DEF codes
<1>7. /\ Entries(ks, S) /\ Increasing(ks) /\ DOMAIN codes = DOMAIN ks
      /\ \A a \in DOMAIN ks : codes[a] = list[ks[a]]
  BY <1>6 DEF IsChosen
<1>8. /\ Len(ks) = Cardinality(S)
      /\ \A a \in DOMAIN ks : Cardinality({m \in S : m <= ks[a]}) = a
  BY <1>1, <1>3, <1>7, RankInList, Zenon
<1>9. /\ Len(ks) \in Nat /\ DOMAIN ks = 1 .. Len(ks)
      /\ \A k \in S : \E a \in DOMAIN ks : ks[a] = k
  BY <1>7 DEF Entries
<1>10. DOMAIN c = 1 .. Len(ks) /\ Len(c) = Len(ks) /\ \A a \in DOMAIN ks : c[a] = codes[a].text
  BY <1>7, <1>9
<1>14. c \in Seq(ToSet(c))
  <2>1. \A a \in DOMAIN codes : c[a] \in ToSet(c)
    BY <1>7, <1>10 DEF ToSet
  <2>2. c = [a \in 1 .. Len(ks) |-> c[a]]
    BY <1>7, <1>10
  <2> HIDE DEF c
  <2>3. QED
    BY <1>7, <1>9, <2>1, <2>2
<1> HIDE DEF c
<1>11. ASSUME NEW k \in S
       PROVE  CodesUpTo(parts, k) \in DOMAIN c /\ c[CodesUpTo(parts, k)] = EscapeCode(parts[k].text)
  <2>1. PICK a \in DOMAIN ks : ks[a] = k
    BY <1>9
  <2>2. k \in 1 .. n
    BY <1>3
  <2>3. CodesUpTo(parts, k) = a
    BY <1>4, <1>8, <2>1, <2>2, Zenon
  <2>4. c[a] = ChunkOf(parts[k]).text
    BY <1>2, <1>7, <1>10, <2>1, <2>2
  <2>5. ChunkOf(parts[k]).text = EscapeCode(parts[k].text)
    BY <1>3 DEF ChunkOf, Chunk
  <2>6. QED
    BY <1>9, <1>10, <2>3, <2>4, <2>5
<1>12. CodesFor(c, parts)
  BY <1>5, <1>8, <1>9, <1>10, <1>11, <1>14 DEF CodesFor, S, n
<1>13. QED
  BY <1>12 DEF c, codes, list, S, n

LEMMA CodeOfTemplate ==
  ASSUME NEW parts, Template(parts), TextOf(parts) \in Texts
  PROVE  CodesFor(CodeOf(TextOf(parts)), parts)
<1> DEFINE t == TextOf(parts)
           n == Len(parts)
           list == ChunkList(parts, n)
           S == CodesIn(parts)
           codes == Chosen(list, S)
           c == [a \in DOMAIN codes |-> codes[a].text]
<1>1. ~IsFixed(t) /\ Tail(t) = Body(parts) /\ Chunks(t) = list
  BY TextOfParts, TemplateChunks
<1>2. n \in Nat /\ DOMAIN parts = 1 .. n
  BY TemplateParts
<1>3. DOMAIN list = 1 .. n /\ \A m \in 1 .. n : list[m].type = parts[m].type
  BY <1>2 DEF ChunkList, ChunkOf, Chunk
<1>4. {k \in DOMAIN list : list[k].type = "code"} = S
  BY <1>2, <1>3 DEF CodesIn
<1>5. CodesFor(c, parts)
  BY CodesOfChunks
<1> HIDE DEF t, list, S
<1>6. CASE HasCode(Body(parts))
  <2>1. CodeOf(t) = c
    BY <1>1, <1>4, <1>6, Zenon DEF CodeOf
  <2>2. QED
    BY <1>5, <2>1 DEF t
<1>7. CASE ~HasCode(Body(parts))
  <2>1. CodeOf(t) = <<>>
    BY <1>1, <1>7 DEF CodeOf
  <2>2. S = {}
    BY <1>7, CodeIsSeen DEF S
  <2>3. CodesUpTo(parts, n) = 0
    <3>1. {m \in 1 .. n : parts[m].type = "code"} = {}
      BY <1>2, <2>2 DEF S, CodesIn
    <3>2. Cardinality({}) = 0
      BY FS_EmptySet
    <3>3. QED
      BY <3>1, <3>2, Zenon DEF CodesUpTo
  <2>4. CodesFor(<<>>, parts)
    BY <2>2, <2>3 DEF CodesFor, S, ToSet
  <2>5. QED
    BY <2>1, <2>4 DEF t
<1>8. QED
  BY <1>6, <1>7

(* Text is put out as it is, code as what it gives.                        *)
InPlace(parts, outs) ==
  [k \in DOMAIN parts |->
     IF parts[k].type = "text" THEN Verbatim(parts[k].text) ELSE Shown(outs[CodesUpTo(parts, k)])]

LEMMA EvaluatedInPlace ==
  ASSUME NEW parts, Template(parts), TextOf(parts) \in Texts, Len(parts) > 1, NEW outs
  PROVE  EvaluateExpression(TextOf(parts), outs) = <<"string", FlattenSeq(InPlace(parts, outs))>>
<1> DEFINE t == TextOf(parts)
           n == Len(parts)
           list == ChunkList(parts, n)
           Of(k) == IF list[k].type = "text" THEN Verbatim(list[k].text) ELSE Shown(outs[CodesUpTo(list, k)])
           places == [k \in DOMAIN list |-> Of(k)]
<1>1. ~IsFixed(t) /\ Tail(t) = Body(parts) /\ Chunks(t) = list
  BY TextOfParts, TemplateChunks
<1>2. n \in Nat /\ DOMAIN parts = 1 .. n /\ 1 \in DOMAIN parts /\ 2 \in DOMAIN parts /\ 1 # n /\ 1 + 1 = 2
  BY TemplateParts
<1>3. DOMAIN list = 1 .. n /\ Len(list) = n /\ \A m \in 1 .. n : list[m] = ChunkOf(parts[m])
  BY <1>2 DEF ChunkList
<1>4. HasCode(Body(parts))
  <2>1. parts[1].type \in {"text", "code"} /\ (parts[1].type = "text" => parts[2].type = "code")
    BY <1>2 DEF Template
  <2>2. 1 \in CodesIn(parts) \/ 2 \in CodesIn(parts)
    BY <1>2, <2>1 DEF CodesIn
  <2>3. QED
    BY <2>2, CodeIsSeen
<1> HIDE DEF list, t
<1>5. ~Alone(t)
  BY <1>1, <1>2, <1>3 DEF Alone
<1>6. EvaluateExpression(t, outs) = <<"string", FlattenSeq(places)>>
  BY <1>1, <1>4, <1>5, Zenon DEF EvaluateExpression
<1>7. ASSUME NEW k \in 1 .. n PROVE Of(k) = InPlace(parts, outs)[k]
  <2>1. list[k].type = parts[k].type
    BY <1>3 DEF ChunkOf, Chunk
  <2>2. parts[k].type = "text" => list[k].text = parts[k].text
    BY <1>3 DEF ChunkOf, Chunk
  <2>3. CodesUpTo(list, k) = CodesUpTo(parts, k)
    <3>1. \A m \in 1 .. k : m \in 1 .. n
      BY <1>2
    <3>2. \A m \in 1 .. k : list[m].type = parts[m].type
      BY <1>3, <3>1 DEF ChunkOf, Chunk
    <3>3. {m \in 1 .. k : list[m].type = "code"} = {m \in 1 .. k : parts[m].type = "code"}
      BY <3>2
    <3>4. QED
      BY <3>3, Zenon DEF CodesUpTo
  <2>4. InPlace(parts, outs)[k] =
          IF parts[k].type = "text" THEN Verbatim(parts[k].text) ELSE Shown(outs[CodesUpTo(parts, k)])
    BY <1>2 DEF InPlace
  <2>5. QED
    BY <2>1, <2>2, <2>3, <2>4, Zenon
<1> HIDE DEF Of
<1>8. places = InPlace(parts, outs)
  <2>1. InPlace(parts, outs) = [k \in 1 .. n |-> InPlace(parts, outs)[k]]
    BY <1>2 DEF InPlace
  <2>2. QED
    BY <1>3, <1>7, <2>1
<1> HIDE DEF places
<1>9. QED
  BY <1>6, <1>8, Zenon DEF t

-----------------------------------------------------------------------------
(* The lists of the texts of a parameter, one behind the other.            *)

AddUp(e, seqs, n) == e[0] = 0 /\ \A k \in 1 .. n : e[k] = e[k - 1] + Len(seqs[k])
HaveLengths(g, e, n) == \A k \in 0 .. n : Len(g[k]) = e[k]

LEMMA LengthsAddUp ==
  ASSUME NEW A, NEW n \in Nat, NEW seqs \in [1 .. n -> Seq(A)], NEW g, Joins(g, A, seqs, n),
         NEW e, AddUp(e, seqs, n)
  PROVE  HaveLengths(g, e, n)
<1>0. e[0] = 0 /\ \A k \in 1 .. n : e[k] = e[k - 1] + Len(seqs[k])
  BY DEF AddUp
<1>1. g \in [0 .. n -> Seq(A)] /\ g[0] = <<>> /\ \A k \in 1 .. n : g[k] = g[k - 1] \o seqs[k]
  BY Zenon DEF Joins
<1> DEFINE S == {k \in Nat : k <= n => Len(g[k]) = e[k]}
<1>2. 0 \in S
  BY <1>0, <1>1
<1>3. ASSUME NEW k \in Nat, k \in S PROVE k + 1 \in S
  <2>1. CASE k + 1 <= n
    <3>1. PICK m \in 1 .. n : m = k + 1 /\ m - 1 = k /\ k <= n /\ k \in 0 .. n
      BY <2>1
    <3> DEFINE a == g[m - 1]
               b == seqs[m]
    <3>2. Len(a) = e[m - 1]
      BY <1>3, <3>1
    <3>3. a \in Seq(A)
      BY <1>1, <3>1
    <3>4. b \in Seq(A) /\ e[m] = e[m - 1] + Len(b)
      BY <1>0
    <3>5. g[m] = a \o b
      BY <1>1, Zenon
    <3> HIDE DEF a, b
    <3>6. Len(a \o b) = Len(a) + Len(b)
      BY <3>3, <3>4, Concatenated
    <3>7. Len(g[m]) = Len(a \o b)
      BY <3>5, Zenon
    <3>8. Len(g[m]) = e[m]
      BY <3>2, <3>4, <3>6, <3>7
    <3>9. QED
      BY <3>1, <3>8
  <2>2. CASE ~(k + 1 <= n)
    BY <2>2
  <2>3. QED
    BY <2>1, <2>2
<1> HIDE DEF S
<1>4. \A k \in Nat : k \in S
  BY <1>2, <1>3, Induct
<1>5. QED
  BY <1>4 DEF S, HaveLengths

(* Each list is found behind those before it.                              *)
IsBehind(g, n, seqs, k, j) ==
  LET p == Len(g[k - 1]) + j IN p \in Nat \ {0} /\ p <= Len(g[n]) /\ g[n][p] = seqs[k][j]

LEMMA FoundBehind ==
  ASSUME NEW A, NEW n \in Nat, NEW seqs \in [1 .. n -> Seq(A)], NEW g, Joins(g, A, seqs, n),
         NEW k \in 1 .. n, NEW j \in 1 .. Len(seqs[k])
  PROVE  IsBehind(g, n, seqs, k, j)
<1>1. g \in [0 .. n -> Seq(A)] /\ \A m \in 1 .. n : g[m] = g[m - 1] \o seqs[m]
  BY Zenon DEF Joins
<1> DEFINE p == Len(g[k - 1]) + j
           Holds(m) == p <= Len(g[m]) /\ g[m][p] = seqs[k][j]
           S == {i \in Nat : k + i <= n => Holds(k + i)}
<1>2. k - 1 \in 0 .. n /\ k \in Nat
  OBVIOUS
<1>3. g[k - 1] \in Seq(A) /\ seqs[k] \in Seq(A) /\ Len(g[k - 1]) \in Nat /\ Len(seqs[k]) \in Nat /\ j \in Nat
      /\ 1 <= j /\ j <= Len(seqs[k])
  BY <1>1, <1>2
<1>4. p \in Nat /\ 1 <= p /\ p <= Len(g[k - 1]) + Len(seqs[k]) /\ ~(p <= Len(g[k - 1])) /\ p - Len(g[k - 1]) = j
  BY <1>3
<1> HIDE DEF p
<1>5. Holds(k)
  <2> DEFINE a == g[k - 1]
             b == seqs[k]
             c == a \o b
  <2>1. /\ c \in Seq(A) /\ Len(c) = Len(a) + Len(b)
        /\ \A i \in 1 .. Len(a) + Len(b) : c[i] = IF i <= Len(a) THEN a[i] ELSE b[i - Len(a)]
    BY <1>3, Concatenated
  <2>2. g[k] = c
    BY <1>1, Zenon
  <2> HIDE DEF c
  <2>3. p \in 1 .. Len(a) + Len(b)
    BY <1>3, <1>4
  <2>4. c[p] = b[j] /\ p <= Len(c)
    BY <1>4, <2>1, <2>3
  <2>5. QED
    BY <2>2, <2>4
<1>6. 0 \in S
  <2>1. k + 0 = k
    OBVIOUS
  <2>2. QED
    BY <1>5, <2>1
<1>7. ASSUME NEW i \in Nat, i \in S PROVE i + 1 \in S
  <2>1. CASE k + (i + 1) <= n
    <3>1. PICK m \in 1 .. n : m = k + (i + 1) /\ m - 1 = k + i /\ k + i <= n /\ m - 1 \in 0 .. n
      BY <1>2, <2>1
    <3> DEFINE a == g[m - 1]
               b == seqs[m]
               c == a \o b
    <3>2. Holds(m - 1)
      BY <1>7, <3>1
    <3>3. p <= Len(a) /\ a[p] = seqs[k][j]
      BY <3>2
    <3>4. a \in Seq(A) /\ b \in Seq(A)
      BY <1>1, <3>1
    <3>5. g[m] = c
      BY <1>1, Zenon
    <3> HIDE DEF a, b
    <3>6. /\ Len(c) = Len(a) + Len(b) /\ Len(a) \in Nat /\ Len(b) \in Nat
          /\ \A h \in 1 .. Len(a) + Len(b) : c[h] = IF h <= Len(a) THEN a[h] ELSE b[h - Len(a)]
      BY <3>4, Concatenated
    <3> HIDE DEF c
    <3>7. p \in 1 .. Len(a) + Len(b)
      BY <1>4, <3>3, <3>6
    <3>8. c[p] = a[p] /\ p <= Len(c)
      BY <3>3, <3>6, <3>7
    <3>9. Holds(m)
      BY <3>3, <3>5, <3>8
    <3> HIDE DEF Holds
    <3>10. QED
      BY <3>1, <3>9
  <2>2. CASE ~(k + (i + 1) <= n)
    BY <2>2
  <2>3. QED
    BY <2>1, <2>2
<1> HIDE DEF S
<1>8. n - k \in Nat /\ k + (n - k) = n
  BY <1>2
<1>9. n - k \in S
  BY <1>6, <1>7, <1>8, Induct
<1>10. Holds(n)
  BY <1>8, <1>9 DEF S
<1>11. QED
  BY <1>4, <1>10 DEF p, IsBehind

CodeCount(t) == CodesUpTo(job.parts[t], Len(job.parts[t]))

LEMMA EarlierTurns ==
  ASSUME NEW n \in Nat, n = Len(job.texts), \A t \in 1 .. n : CodeCount(t) \in Nat
  PROVE  Earlier[0] = 0 /\ \A t \in 1 .. n : Earlier[t] = Earlier[t - 1] + CodeCount(t)
<1> DEFINE F == [t \in 1 .. n |-> [x \in Nat |-> x + CodeCount(t)]]
           Turn(f, t) == IF t = 0 THEN 0 ELSE f[t - 1] + CodeCount(t)
           Whole(f) == [t \in 0 .. n |-> Turn(f, t)]
           codes == CHOOSE f : f = Whole(f)
<1>1. F \in [1 .. n -> [Nat -> Nat]]
  <2>1. \A t \in 1 .. n : \A x \in Nat : x + CodeCount(t) \in Nat
    OBVIOUS
  <2>2. \A t \in 1 .. n : [x \in Nat |-> x + CodeCount(t)] \in [Nat -> Nat]
    BY <2>1
  <2>3. QED
    BY <2>2
<1>2. PICK g : Made(g, Nat, 0, F, n)
  BY <1>1, Recursion
<1>3. g \in [0 .. n -> Nat] /\ g[0] = 0 /\ \A t \in 1 .. n : g[t] = g[t - 1] + CodeCount(t)
  <2>1. ASSUME NEW t \in 1 .. n PROVE g[t] = g[t - 1] + CodeCount(t)
    <3>1. t - 1 \in 0 .. n
      OBVIOUS
    <3>2. g[t - 1] \in Nat /\ g[t] = F[t][g[t - 1]]
      <4> HIDE DEF F
      <4>1. QED
        BY <1>2, <3>1 DEF Made
    <3>3. F[t] = [x \in Nat |-> x + CodeCount(t)]
      OBVIOUS
    <3> HIDE DEF F
    <3>4. QED
      BY <3>2, <3>3
  <2> HIDE DEF F
  <2>2. QED
    BY <1>2, <2>1 DEF Made
<1> DEFINE h == [t \in 0 .. n |-> g[t]]
<1>4. h = Whole(h)
  <2>1. ASSUME NEW t \in 0 .. n PROVE g[t] = Turn(h, t)
    <3>1. CASE t = 0
      BY <1>3, <3>1
    <3>2. CASE t # 0
      <4>1. t - 1 \in 0 .. n /\ t \in 1 .. n
        BY <3>2
      <4>2. h[t - 1] = g[t - 1]
        BY <4>1
      <4>3. g[t] = g[t - 1] + CodeCount(t)
        BY <1>3, <4>1
      <4>4. QED
        BY <3>2, <4>2, <4>3
    <3>3. QED
      BY <3>1, <3>2
  <2> HIDE DEF Turn
  <2>2. QED
    BY <2>1
<1>5. codes = Whole(codes)
  <2> HIDE DEF Whole, h
  <2>1. QED
    BY <1>4
<1>6. Earlier = codes
  BY Zenon DEF Earlier, CodeCount
<1> HIDE DEF codes
<1>7. \A t \in 0 .. n : codes[t] = Turn(codes, t)
  BY <1>5
<1>8. 0 \in 0 .. n /\ \A t \in 1 .. n : t \in 0 .. n /\ t # 0
  OBVIOUS
<1>9. codes[0] = 0 /\ \A t \in 1 .. n : codes[t] = codes[t - 1] + CodeCount(t)
  BY <1>7, <1>8
<1>10. QED
  BY <1>6, <1>9, Zenon

CodesOf(t) == CodeOf(job.texts[t])
RunsOf(t) == [k \in DOMAIN CodesOf(t) |-> [code |-> CodesOf(t)[k], alone |-> Alone(job.texts[t])]]

(* Where the codes of each text stand: the job of a parameter.             *)
Countable(n) ==
  /\ n \in Nat /\ n = Len(job.texts) /\ DOMAIN job.texts = 1 .. n
  /\ \A t \in 1 .. n : CodesOf(t) \in Seq(ToSet(CodesOf(t))) /\ Len(CodesOf(t)) = CodeCount(t)

LEMMA TextCounts ==
  ASSUME job \in ParameterJobs, NEW u \in DOMAIN job.texts, Len(job.parts[u]) > 1
  PROVE  /\ Template(job.parts[u]) /\ job.texts[u] = TextOf(job.parts[u]) /\ TextOf(job.parts[u]) \in Texts
         /\ job.kind = "parameter" /\ Countable(Len(job.texts))
<1> DEFINE n == Len(job.texts)
<1>1. /\ job.texts \in Seq(Texts) /\ job.kind = "parameter"
      /\ \A t \in DOMAIN job.texts :
           \/ Template(job.parts[t]) /\ job.texts[t] = TextOf(job.parts[t])
           \/ (IsFixed(job.texts[t]) \/ Len(job.texts) = 1) /\ job.parts[t] = <<>>
  BY ParameterAssumption
<1>2. n \in Nat /\ DOMAIN job.texts = 1 .. n /\ \A t \in 1 .. n : job.texts[t] \in Texts
  BY <1>1
<1> HIDE DEF n
<1>3. job.parts[u] # <<>>
  OBVIOUS
<1>4. ASSUME NEW t \in 1 .. n PROVE CodesOf(t) \in Seq(ToSet(CodesOf(t))) /\ Len(CodesOf(t)) = CodeCount(t)
  <2>1. CASE Template(job.parts[t]) /\ job.texts[t] = TextOf(job.parts[t])
    <3>1. TextOf(job.parts[t]) \in Texts
      BY <1>2, <2>1
    <3>2. CodesFor(CodesOf(t), job.parts[t])
      BY <2>1, <3>1, CodeOfTemplate, Zenon DEF CodesOf
    <3>3. QED
      BY <3>2 DEF CodesFor, CodeCount
  <2>2. CASE IsFixed(job.texts[t]) /\ job.parts[t] = <<>>
    <3>1. CodesOf(t) = <<>>
      BY <2>2 DEF CodesOf, CodeOf
    <3>2. CodeCount(t) = 0
      <4>1. Len(job.parts[t]) = 0 /\ 1 .. 0 = {}
        BY <2>2
      <4>2. {m \in 1 .. 0 : job.parts[t][m].type = "code"} = {}
        BY <4>1
      <4>3. Cardinality({}) = 0
        BY FS_EmptySet
      <4>4. QED
        BY <4>1, <4>2, <4>3, Zenon DEF CodeCount, CodesUpTo
    <3>3. QED
      BY <3>1, <3>2 DEF ToSet
  <2>3. CASE n = 1 /\ job.parts[t] = <<>>
    <3>1. t = 1 /\ u = 1
      BY <1>2, <2>3
    <3>2. QED
      BY <1>3, <2>3, <3>1
  <2>4. QED
    BY <1>1, <1>2, <2>1, <2>2, <2>3 DEF n
<1>5. Countable(n)
  BY <1>2, <1>4 DEF Countable, n
<1>6. Template(job.parts[u]) /\ job.texts[u] = TextOf(job.parts[u])
  BY <1>1, <1>3
<1>7. QED
  BY <1>1, <1>2, <1>5, <1>6 DEF n

LEMMA EarlierOfJob ==
  ASSUME NEW n, Countable(n)
  PROVE  Earlier[0] = 0 /\ \A t \in 1 .. n : Earlier[t] = Earlier[t - 1] + Len(CodesOf(t))
<1>1. n \in Nat /\ n = Len(job.texts)
      /\ \A t \in 1 .. n : CodesOf(t) \in Seq(ToSet(CodesOf(t))) /\ Len(CodesOf(t)) = CodeCount(t)
  BY DEF Countable
<1>2. \A t \in 1 .. n : CodeCount(t) \in Nat
  BY <1>1
<1>3. Earlier[0] = 0 /\ \A t \in 1 .. n : Earlier[t] = Earlier[t - 1] + CodeCount(t)
  BY <1>1, <1>2, EarlierTurns
<1>4. QED
  BY <1>1, <1>3

CodesBefore(t) == Len(FlattenSeq([k \in 1 .. t - 1 |-> CodeOf(job.texts[k])]))

LEMMA BeforeIsEarlier ==
  ASSUME NEW n, Countable(n), NEW t \in 1 .. n
  PROVE  CodesBefore(t) = Earlier[t - 1]
<1> DEFINE A == UNION {ToSet(CodesOf(k)) : k \in 1 .. n}
           m == t - 1
           seqs == [k \in 1 .. m |-> CodesOf(k)]
<1>1. n \in Nat /\ \A k \in 1 .. n : CodesOf(k) \in Seq(ToSet(CodesOf(k)))
  BY DEF Countable
<1>2. m \in Nat /\ \A k \in 1 .. m : k \in 1 .. n
  BY <1>1
<1>3. ASSUME NEW k \in 1 .. n PROVE CodesOf(k) \in Seq(A)
  <2> DEFINE B == ToSet(CodesOf(k))
             c == CodesOf(k)
  <2>1. B \subseteq A
    BY Zenon
  <2>2. c \in Seq(B)
    BY <1>1
  <2> HIDE DEF A, B, c
  <2>3. c \in Seq(A)
    BY <2>1, <2>2
  <2>4. QED
    BY <2>3 DEF c
<1> HIDE DEF A, m
<1>4. seqs \in [1 .. m -> Seq(A)] /\ \A k \in 1 .. m : seqs[k] = CodesOf(k)
  BY <1>2, <1>3
<1>5. CodesBefore(t) = Len(FlattenSeq(seqs))
  BY Zenon DEF CodesBefore, CodesOf, m
<1> HIDE DEF seqs
<1>6. PICK g : Joins(g, A, seqs, m) /\ FlattenSeq(seqs) = g[m]
  BY <1>2, <1>4, Flattening, Zenon
<1>7. Earlier[0] = 0 /\ \A k \in 1 .. m : Earlier[k] = Earlier[k - 1] + Len(seqs[k])
  BY <1>2, <1>4, EarlierOfJob
<1>8. \A k \in 0 .. m : Len(g[k]) = Earlier[k]
  <2>1. AddUp(Earlier, seqs, m)
    BY <1>7 DEF AddUp
  <2>2. HaveLengths(g, Earlier, m)
    BY <1>2, <1>4, <1>6, <2>1, LengthsAddUp, Zenon
  <2>3. QED
    BY <2>2 DEF HaveLengths
<1>9. m \in 0 .. m
  BY <1>2
<1>10. QED
  BY <1>5, <1>6, <1>8, <1>9, Zenon DEF m

(* The runs of a parameter: those of a text stand behind those of the      *)
(* texts before it.                                                        *)
LEMMA RunsInOrder ==
  ASSUME job.kind = "parameter", NEW n, Countable(n), NEW t \in 1 .. n, NEW j \in DOMAIN CodesOf(t)
  PROVE  /\ Earlier[t - 1] + j \in Nat \ {0} /\ Earlier[t - 1] + j <= Len(Runs)
         /\ Runs[Earlier[t - 1] + j].code = CodesOf(t)[j]
<1> DEFINE A == UNION {ToSet(RunsOf(k)) : k \in 1 .. n}
           seqs == [k \in 1 .. n |-> RunsOf(k)]
<1>1. n \in Nat /\ DOMAIN job.texts = 1 .. n /\ \A k \in 1 .. n : CodesOf(k) \in Seq(ToSet(CodesOf(k)))
  BY DEF Countable
<1>2. \A k \in 1 .. n : /\ Len(CodesOf(k)) \in Nat /\ DOMAIN CodesOf(k) = 1 .. Len(CodesOf(k))
  BY <1>1
<1>3. ASSUME NEW k \in 1 .. n PROVE RunsOf(k) \in Seq(A) /\ Len(RunsOf(k)) = Len(CodesOf(k))
  <2> DEFINE r == RunsOf(k)
             B == ToSet(r)
             l == Len(CodesOf(k))
  <2>1. l \in Nat /\ DOMAIN r = 1 .. l /\ r = [i \in 1 .. l |-> r[i]]
    BY <1>2 DEF RunsOf
  <2>2. B \subseteq A
    BY Zenon
  <2> HIDE DEF A, r, l
  <2>3. \A i \in 1 .. l : r[i] \in B
    BY <2>1 DEF ToSet
  <2> HIDE DEF B
  <2>4. r \in Seq(A) /\ Len(r) = l
    BY <2>1, <2>2, <2>3
  <2>5. QED
    BY <2>4 DEF r, l
<1> HIDE DEF A
<1>4. seqs \in [1 .. n -> Seq(A)] /\ \A k \in 1 .. n : seqs[k] = RunsOf(k)
  BY <1>3
<1>5. Runs = FlattenSeq(seqs)
  BY <1>1, Zenon DEF Runs, RunsOf, CodesOf
<1> HIDE DEF seqs
<1>6. PICK g : Joins(g, A, seqs, n) /\ FlattenSeq(seqs) = g[n]
  BY <1>1, <1>4, Flattening, Zenon
<1>7. Earlier[0] = 0 /\ \A k \in 1 .. n : Earlier[k] = Earlier[k - 1] + Len(seqs[k])
  BY <1>3, <1>4, EarlierOfJob
<1>8. \A k \in 0 .. n : Len(g[k]) = Earlier[k]
  <2>1. AddUp(Earlier, seqs, n)
    BY <1>7 DEF AddUp
  <2>2. HaveLengths(g, Earlier, n)
    BY <1>1, <1>4, <1>6, <2>1, LengthsAddUp, Zenon
  <2>3. QED
    BY <2>2 DEF HaveLengths
<1>9. t - 1 \in 0 .. n /\ j \in 1 .. Len(seqs[t]) /\ seqs[t] = RunsOf(t)
  BY <1>1, <1>2, <1>3, <1>4
<1> DEFINE r == Len(g[t - 1]) + j
<1>10. r \in Nat \ {0} /\ r <= Len(g[n]) /\ g[n][r] = seqs[t][j]
  <2>1. IsBehind(g, n, seqs, t, j)
    BY <1>1, <1>4, <1>6, <1>9, FoundBehind, Zenon
  <2>2. QED
    BY <2>1, Zenon DEF IsBehind
<1>14. r = Earlier[t - 1] + j
  BY <1>8, <1>9, Zenon
<1> HIDE DEF r
<1>11. r <= Len(Runs) /\ Runs[r] = RunsOf(t)[j]
  BY <1>5, <1>6, <1>9, <1>10, Zenon
<1>12. RunsOf(t)[j].code = CodesOf(t)[j]
  BY DEF RunsOf
<1>13. QED
  BY <1>10, <1>11, <1>12, <1>14

LEMMA ValuesInPlace ==
  ASSUME job \in ParameterJobs, jobOutput.values = ParameterValues,
         NEW t \in DOMAIN job.texts, Len(job.parts[t]) > 1
  PROVE  jobOutput.values[t] = <<"string", FlattenSeq([k \in DOMAIN job.parts[t] |-> PlaceOf(t, k)])>>
<1> DEFINE parts == job.parts[t]
           n == Len(job.texts)
           outs == [k \in DOMAIN CodesOf(t) |-> outcomes[CodesBefore(t) + k]]
           places == [k \in DOMAIN parts |-> PlaceOf(t, k)]
<1>1. Template(parts) /\ job.texts[t] = TextOf(parts) /\ TextOf(parts) \in Texts /\ Countable(n)
  BY TextCounts
<1>2. ParameterValues[t] = EvaluateExpression(job.texts[t], outs)
  BY DEF ParameterValues, CodesOf, CodesBefore
<1>3. t \in 1 .. n
  BY <1>1 DEF Countable
<1>4. CodesBefore(t) = Earlier[t - 1]
  BY <1>1, <1>3, BeforeIsEarlier, Zenon
<1>5. CodesFor(CodesOf(t), parts)
  BY <1>1, CodeOfTemplate, Zenon DEF CodesOf
<1>6. ASSUME NEW k \in DOMAIN parts PROVE InPlace(parts, outs)[k] = PlaceOf(t, k)
  <2>1. InPlace(parts, outs)[k] =
          IF parts[k].type = "text" THEN Verbatim(parts[k].text) ELSE Shown(outs[CodesUpTo(parts, k)])
    BY DEF InPlace
  <2>2. PlaceOf(t, k) = IF parts[k].type = "text" THEN Verbatim(parts[k].text) ELSE Shown(outcomes[RunOf(t, k)])
    BY DEF PlaceOf
  <2>3. CASE parts[k].type = "text"
    BY <2>1, <2>2, <2>3, Zenon
  <2>4. CASE parts[k].type # "text"
    <3>1. k \in CodesIn(parts)
      BY <1>1, <2>4, TemplateParts DEF CodesIn
    <3> DEFINE j == CodesUpTo(parts, k)
    <3>2. j \in DOMAIN CodesOf(t)
      BY <1>5, <3>1 DEF CodesFor
    <3>3. RunOf(t, k) = Earlier[t - 1] + j
      BY DEF RunOf
    <3> HIDE DEF j, parts
    <3>4. outs[j] = outcomes[CodesBefore(t) + j]
      BY <3>2
    <3> HIDE DEF outs
    <3>5. outs[j] = outcomes[RunOf(t, k)]
      BY <1>4, <3>3, <3>4, Zenon
    <3>6. QED
      BY <2>1, <2>2, <2>4, <3>5, Zenon DEF j
  <2>5. QED
    BY <2>3, <2>4
<1> HIDE DEF outs
<1>7. places = InPlace(parts, outs)
  <2>1. InPlace(parts, outs) = [k \in DOMAIN parts |-> InPlace(parts, outs)[k]]
    BY DEF InPlace
  <2>2. QED
    BY <1>6, <2>1
<1>8. EvaluateExpression(TextOf(parts), outs) = <<"string", FlattenSeq(InPlace(parts, outs))>>
  BY <1>1, EvaluatedInPlace, Zenon
<1> HIDE DEF places
<1>9. jobOutput.values[t] = <<"string", FlattenSeq(places)>>
  BY <1>1, <1>2, <1>7, <1>8, Zenon
<1>10. QED
  BY <1>9 DEF places

LEMMA CodeIsRun ==
  ASSUME job \in ParameterJobs, NEW t \in DOMAIN job.texts, Len(job.parts[t]) > 1,
         NEW k \in DOMAIN job.parts[t], job.parts[t][k].type = "code"
  PROVE  /\ RunOf(t, k) \in Nat \ {0} /\ RunOf(t, k) <= Len(Runs)
         /\ Runs[RunOf(t, k)].code = EscapeCode(job.parts[t][k].text)
<1> DEFINE parts == job.parts[t]
           n == Len(job.texts)
           j == CodesUpTo(parts, k)
<1>1. Template(parts) /\ job.texts[t] = TextOf(parts) /\ TextOf(parts) \in Texts /\ Countable(n)
      /\ job.kind = "parameter"
  BY TextCounts
<1>2. t \in 1 .. n
  BY <1>1 DEF Countable
<1>3. CodesFor(CodesOf(t), parts)
  BY <1>1, CodeOfTemplate, Zenon DEF CodesOf
<1>4. k \in CodesIn(parts)
  BY DEF CodesIn
<1>5. j \in DOMAIN CodesOf(t) /\ CodesOf(t)[j] = EscapeCode(parts[k].text)
  BY <1>3, <1>4 DEF CodesFor
<1>6. RunOf(t, k) = Earlier[t - 1] + j
  BY DEF RunOf
<1> HIDE DEF j, n
<1>7. /\ Earlier[t - 1] + j \in Nat \ {0} /\ Earlier[t - 1] + j <= Len(Runs)
      /\ Runs[Earlier[t - 1] + j].code = CodesOf(t)[j]
  BY <1>1, <1>2, <1>5, RunsInOrder
<1>8. QED
  BY <1>5, <1>6, <1>7, Zenon

-----------------------------------------------------------------------------
(* Each outcome is of its own run, unless a timer has hit it.  Output is    *)
(* there when the machine is done, and is made of the outcomes.            *)

OutcomesFit == \A i \in DOMAIN outcomes : outcomes[i] \in {OutcomeOf(Runs[i].code), <<"error", "timeout">>}

SandboxInv ==
  /\ job \in ParameterJobs \cup CodeJobs
  /\ outcomes \in Seq(ToSet(outcomes))
  /\ job.kind = "parameter" => OutcomesFit
  /\ machine # "done" => jobOutput.status = "none"
  /\ job.kind = "parameter" /\ jobOutput.status = "success" =>
       jobOutput.values = ParameterValues /\ Len(outcomes) = Len(Runs)

LEMMA SandboxInitInv == SandboxInit => SandboxInv
BY DEF SandboxInit, SandboxInv, NoOutput, OutcomesFit, ToSet

LEMMA SameRuns ==
  ASSUME job' = job
  PROVE  Runs' = Runs /\ \A i : OutcomeOf(Runs[i].code)' = OutcomeOf(Runs[i].code)
<1>1. Runs' = Runs
  BY Zenon DEF Runs
<1>2. ASSUME NEW i PROVE OutcomeOf(Runs[i].code)' = OutcomeOf(Runs[i].code)
  BY <1>1, Zenon DEF OutcomeOf
<1>3. QED
  BY <1>1, <1>2

LEMMA SameOutcomes ==
  ASSUME job' = job, outcomes' = outcomes
  PROVE  Runs' = Runs /\ ParameterValues' = ParameterValues /\ (OutcomesFit => OutcomesFit')
<1>1. Runs' = Runs /\ \A i : OutcomeOf(Runs[i].code)' = OutcomeOf(Runs[i].code)
  BY SameRuns
<1>2. ParameterValues' = ParameterValues
  BY Zenon DEF ParameterValues
<1>3. ASSUME OutcomesFit, NEW i \in DOMAIN outcomes
      PROVE  outcomes[i] \in {OutcomeOf(Runs[i].code)', <<"error", "timeout">>}
  BY <1>1, <1>3, Zenon DEF OutcomesFit
<1>4. QED
  BY <1>1, <1>2, <1>3, Zenon DEF OutcomesFit

LEMMA SilentKeeps ==
  ASSUME SandboxInv, machine # "done", UNCHANGED <<job, outcomes, jobOutput>>
  PROVE  SandboxInv'
BY SameOutcomes DEF SandboxInv

LEMMA OutcomeKeeps ==
  ASSUME SandboxInv, machine = "running", NEW o, EndsWith(o),
         job.kind = "parameter" => o \in {OutcomeOf(Current.code), <<"error", "timeout">>}
  PROVE  SandboxInv'
<1>1. outcomes' = Append(outcomes, o) /\ job' = job /\ jobOutput' = jobOutput /\ jobOutput.status = "none"
  BY DEF EndsWith, SandboxInv
<1> DEFINE A == ToSet(outcomes) \cup {o}
           n == Len(outcomes)
<1>2. outcomes \in Seq(A) /\ o \in A
  <2>1. ToSet(outcomes) \subseteq A
    OBVIOUS
  <2> DEFINE B == ToSet(outcomes)
  <2>2. outcomes \in Seq(B)
    BY DEF SandboxInv
  <2> HIDE DEF B, A
  <2>3. B \subseteq A
    BY <2>1 DEF B
  <2>4. outcomes \in Seq(A)
    BY <2>2, <2>3
  <2>5. QED
    BY <2>4 DEF A
<1>3. n \in Nat /\ DOMAIN outcomes = 1 .. n
  BY <1>2
<1> HIDE DEF A
<1>4. outcomes' \in Seq(A) /\ DOMAIN outcomes' = 1 .. n + 1 /\ outcomes'[n + 1] = o
      /\ Len(outcomes') = n + 1 /\ \A i \in 1 .. n : outcomes'[i] = outcomes[i]
  BY <1>1, <1>2
<1>5. outcomes' \in Seq(ToSet(outcomes'))
  <2> DEFINE w == outcomes'
             B == ToSet(w)
  <2>1. \A i \in 1 .. n + 1 : w[i] \in B
    BY <1>4 DEF ToSet
  <2>2. w \in Seq(A) /\ Len(w) = n + 1
    BY <1>4
  <2> HIDE DEF w, B, n
  <2>3. w \in Seq(B)
    BY <2>1, <2>2
  <2>4. QED
    BY <2>3 DEF B, w
<1>6. ASSUME job.kind = "parameter" PROVE OutcomesFit'
  <2>1. Runs' = Runs /\ \A i : OutcomeOf(Runs[i].code)' = OutcomeOf(Runs[i].code)
    BY <1>1, SameRuns
  <2>2. \A i \in 1 .. n : outcomes[i] \in {OutcomeOf(Runs[i].code), <<"error", "timeout">>}
    BY <1>3, <1>6 DEF SandboxInv, OutcomesFit
  <2>3. o \in {OutcomeOf(Runs[n + 1].code), <<"error", "timeout">>}
    BY <1>6, Zenon DEF Current, NextRun
  <2> HIDE DEF n
  <2>4. ASSUME NEW i \in DOMAIN outcomes'
        PROVE  outcomes'[i] \in {OutcomeOf(Runs[i].code)', <<"error", "timeout">>}
    <3>1. OutcomeOf(Runs[i].code)' = OutcomeOf(Runs[i].code)
      BY <2>1, Zenon
    <3>2. i = n + 1 \/ i \in 1 .. n
      BY <1>3, <1>4
    <3>3. CASE i = n + 1
      BY <1>4, <2>3, <3>1, <3>3, Zenon
    <3>4. CASE i \in 1 .. n
      BY <1>4, <2>2, <3>1, <3>4, Zenon
    <3>5. QED
      BY <3>2, <3>3, <3>4
  <2>5. QED
    BY <2>4, Zenon DEF OutcomesFit
<1>7. QED
  BY <1>1, <1>5, <1>6 DEF SandboxInv

LEMMA FinishJobKeeps == ASSUME SandboxInv, FinishJob PROVE SandboxInv'
<1>1. machine' = "done" /\ UNCHANGED <<job, outcomes>> /\ (GivenUp \/ Len(outcomes) = Len(Runs))
      /\ jobOutput' = IF job.kind = "code" THEN CodeOutput(outcomes[1])
                      ELSE IF GivenUp THEN [status |-> "failed"]
                      ELSE [status |-> "success", values |-> ParameterValues]
  BY DEF FinishJob
<1>2. Runs' = Runs /\ ParameterValues' = ParameterValues /\ (OutcomesFit => OutcomesFit')
  BY <1>1, SameOutcomes
<1>3. ASSUME job.kind = "parameter", jobOutput'.status = "success"
      PROVE  jobOutput'.values = ParameterValues /\ Len(outcomes) = Len(Runs)
  <2>1. jobOutput' = IF GivenUp THEN [status |-> "failed"] ELSE [status |-> "success", values |-> ParameterValues]
    BY <1>1, <1>3
  <2>2. QED
    BY <1>1, <1>3, <2>1
<1>4. QED
  BY <1>1, <1>2, <1>3 DEF SandboxInv

LEMMA RefuseKeeps == ASSUME SandboxInv, Refuse PROVE SandboxInv'
<1>1. UNCHANGED <<job, outcomes>> /\ machine' = "done" /\ Refused # "no" /\ jobOutput'.status = Refused
  BY DEF Refuse
<1>2. Refused \in {"no", "panic", "failed"}
  <2>1. job.kind = "code" \/ job.kind # "code"
    OBVIOUS
  <2>2. QED
    BY Zenon DEF Refused
<1>3. jobOutput'.status # "success"
  BY <1>1, <1>2
<1>4. OutcomesFit => OutcomesFit'
  BY <1>1, SameOutcomes
<1>5. QED
  BY <1>1, <1>3, <1>4 DEF SandboxInv

LEMMA SandboxNextInv == SandboxInv /\ [SandboxNext]_sandboxVars => SandboxInv'
<1> SUFFICES ASSUME SandboxInv, [SandboxNext]_sandboxVars PROVE SandboxInv'
  OBVIOUS
<1>1. CASE Refuse
  BY <1>1, RefuseKeeps
<1>2. CASE StartRun
  BY <1>2, SilentKeeps DEF StartRun
<1>3. CASE EndRun
  <2> DEFINE o == IF job.kind = "code"
                  THEN IF job.returns.kind = "throws" THEN <<"error", "script">> ELSE <<"value", job.returns>>
                  ELSE OutcomeOf(Current.code)
  <2>1. machine = "running" /\ EndsWith(o)
    BY <1>3, Zenon DEF EndRun
  <2>2. job.kind = "parameter" => o = OutcomeOf(Current.code)
    OBVIOUS
  <2> HIDE DEF o
  <2>3. QED
    BY <2>1, <2>2, OutcomeKeeps
<1>4. CASE SeeInterrupt
  <2> DEFINE o == <<"error", "timeout">>
  <2>1. machine = "running" /\ EndsWith(o) /\ o \in {OutcomeOf(Current.code), <<"error", "timeout">>}
    BY <1>4 DEF SeeInterrupt
  <2> HIDE DEF o
  <2>2. QED
    BY <2>1, OutcomeKeeps
<1>5. CASE FinishJob
  BY <1>5, FinishJobKeeps
<1>6. CASE \E k \in armed : TimerFires(k)
  BY <1>6, SilentKeeps DEF TimerFires
<1>7. CASE UNCHANGED sandboxVars
  <2>1. UNCHANGED <<job, outcomes, jobOutput, machine>>
    BY <1>7 DEF sandboxVars
  <2>2. QED
    BY <2>1, SameOutcomes DEF SandboxInv
<1>8. QED
  BY <1>1, <1>2, <1>3, <1>4, <1>5, <1>6, <1>7 DEF SandboxNext, MachineStep

(* Whatever the parameter, its texts and the timers: text comes out as it  *)
(* is, and each code gives its own outcome or is interrupted, and that is  *)
(* put out in its place (EvaluateExpression, resolveParameterValue).       *)
THEOREM ExpressionsKeepPlaces == SandboxSpec => []EachInItsPlace
<1> DEFINE Own(t, k) == outcomes[RunOf(t, k)] \in {OutcomeOf(EscapeCode(job.parts[t][k].text)), <<"error", "timeout">>}
<1>1. SandboxInv => EachInItsPlace
  <2> SUFFICES ASSUME SandboxInv, jobOutput.status = "success", job.kind = "parameter",
                      NEW t \in DOMAIN job.texts, Len(job.parts[t]) > 1
               PROVE  /\ jobOutput.values[t] = <<"string", FlattenSeq([k \in DOMAIN job.parts[t] |-> PlaceOf(t, k)])>>
                      /\ \A k \in DOMAIN job.parts[t] : job.parts[t][k].type = "code" => Own(t, k)
    BY Zenon DEF EachInItsPlace
  <2>1. job \in ParameterJobs /\ jobOutput.values = ParameterValues
    <3>1. job \notin CodeJobs
      BY CodeAssumption
    <3>2. QED
      BY <3>1 DEF SandboxInv
  <2>2. jobOutput.values[t] = <<"string", FlattenSeq([k \in DOMAIN job.parts[t] |-> PlaceOf(t, k)])>>
    BY <2>1, ValuesInPlace, Zenon
  <2>3. ASSUME NEW k \in DOMAIN job.parts[t], job.parts[t][k].type = "code" PROVE Own(t, k)
    <3> DEFINE i == RunOf(t, k)
    <3>1. i \in Nat \ {0} /\ i <= Len(Runs) /\ Runs[i].code = EscapeCode(job.parts[t][k].text)
      BY <2>1, <2>3, CodeIsRun, Zenon
    <3>2. Len(outcomes) = Len(Runs) /\ outcomes \in Seq(ToSet(outcomes)) /\ OutcomesFit
      BY DEF SandboxInv
    <3> HIDE DEF i
    <3>3. i \in DOMAIN outcomes
      BY <3>1, <3>2
    <3>4. outcomes[i] \in {OutcomeOf(Runs[i].code), <<"error", "timeout">>}
      BY <3>2, <3>3, Zenon DEF OutcomesFit
    <3>5. QED
      BY <3>1, <3>4, Zenon DEF i
  <2>4. QED
    BY <2>2, <2>3, Zenon
<1>2. QED
  BY <1>1, SandboxInitInv, SandboxNextInv, PTL DEF SandboxSpec
=============================================================================
