----------------------------- MODULE HttpRequest ----------------------------
(***************************************************************************)
(* A call of the HTTP Request node (nodes/http_request/node.go).  The loop *)
(* of Execute reads the parameters of one item after the other and starts  *)
(* a goroutine for each; then it takes as many responses as there are      *)
(* items from one unbuffered channel, in the order the servers answer.     *)
(*                                                                         *)
(* `params[k]` says what the parameters of item k are: "ok", "failed" (one *)
(* cannot be evaluated or the url is forbidden), "noUrl", or "unbuildable" *)
(* (the goroutine cannot make the request of it).                          *)
(***************************************************************************)
EXTENDS Integers, Sequences, SequencesExt, FiniteSets

CONSTANTS HttpParams,   \* the sequences of params a call may have
          Paginations,  \* what is asked of pagination: "off" or a mode
          MayCancel     \* whether the execution may be stopped

ASSUME HttpAssumption == \A p \in HttpParams : p \in Seq({"ok", "failed", "noUrl", "unbuildable"})

VARIABLES params, paginated,
          main,       \* where Execute is: <<"build", k>>, <<"receive", k>>, <<status>>
          sender,     \* per item, the goroutine: none, requesting, sending, sent, panicked
          answer,     \* per item, what its goroutine sends: a response or nil
          channel,    \* responseChannel: "open" or "closed"
          ctx,        \* the context of the execution: "live" or "cancelled"
          received,     \* <<item, answer>> in the order they were handled
          process     \* "up" or "crashed"

httpVars == <<params, paginated, main, sender, answer, channel, ctx, received, process>>

Items == DOMAIN params
N == Len(params)
HasReturned == main[1] \in {"success", "failed", "panic"}

(* `defer cancelCtx()` cancels the context of the goroutines on every way  *)
(* out.                                                                    *)
ParentDone == ctx = "cancelled" \/ HasReturned

HttpIdle ==
  /\ params = <<>> /\ paginated = "off"
  /\ main = <<"idle">>
  /\ sender = <<>> /\ answer = <<>>
  /\ channel = "open" /\ ctx = "live" /\ received = <<>> /\ process = "up"

HttpInit ==
  /\ params \in HttpParams
  /\ paginated \in Paginations
  /\ main = <<"build", 1>>
  /\ sender = [k \in Items |-> "none"]
  /\ answer = [k \in Items |-> "none"]
  /\ channel = "open" /\ ctx = "live" /\ received = <<>> /\ process = "up"

-----------------------------------------------------------------------------
(* Execute, up to `go sendRequest`.  A page mode is accepted, but nothing  *)
(* is sent then.  An empty url fails with a nil error, whose text is asked *)
(* for: a panic.                                                           *)

(* Mutant: the channel is closed on every way out.                         *)
ClosedOnFailure == "closed"

(* Leaving early cancels the requests but does not close the channel: the  *)
(* goroutines that were started stay blocked.                              *)
ChannelOnFailure == channel

BuildFails(k) ==
  /\ main = <<"build", k>>
  /\ params[k] \in {"failed", "noUrl"}
  /\ main' = IF params[k] = "noUrl" THEN <<"panic">> ELSE <<"failed">>
  /\ channel' = ChannelOnFailure
  /\ UNCHANGED <<params, paginated, sender, answer, ctx, received, process>>

Build(k) ==
  /\ main = <<"build", k>>
  /\ params[k] \in {"ok", "unbuildable"}
  /\ main' = <<"build", k + 1>>
  /\ sender' = IF paginated = "off" THEN [sender EXCEPT ![k] = "requesting"] ELSE sender
  /\ UNCHANGED <<params, paginated, answer, channel, ctx, received, process>>

(* The loop over the responses.                                            *)
StartReceiving ==
  /\ main = <<"build", N + 1>>
  /\ main' = <<"receive", 1>>
  /\ UNCHANGED <<params, paginated, sender, answer, channel, ctx, received, process>>

-----------------------------------------------------------------------------
(* sendRequest.  The timeout is only looked at once the server has         *)
(* answered: it is not given to the request.                               *)

(* Mutant: a request that cannot be made is not answered for.              *)
SilentOnError(k) == IF params[k] = "unbuildable" THEN "sent" ELSE "sending"

Sends(k) == "sending"

Request(k) ==
  /\ sender[k] = "requesting"
  /\ \E a \in {"response", "nil"} :
       /\ params[k] = "unbuildable" \/ ParentDone => a = "nil"
       /\ answer' = [answer EXCEPT ![k] = a]
  /\ sender' = [sender EXCEPT ![k] = Sends(k)]
  /\ UNCHANGED <<params, paginated, main, channel, ctx, received, process>>

(* A send on the closed channel is a panic nobody recovers in a goroutine  *)
(* of its own: it ends the process.                                        *)
SendClosed(k) ==
  /\ sender[k] = "sending"
  /\ channel = "closed"
  /\ sender' = [sender EXCEPT ![k] = "panicked"]
  /\ process' = "crashed"
  /\ UNCHANGED <<params, paginated, main, answer, channel, ctx, received>>

-----------------------------------------------------------------------------
(* Execute, taking the responses.  When it is cancelled the loop goes on   *)
(* and may find the context done or a goroutine ready each time.           *)

Receive(k) ==
  \E i \in 1 .. N :
    /\ main = <<"receive", i>>
    /\ sender[k] = "sending"
    /\ sender' = [sender EXCEPT ![k] = "sent"]
    /\ received' = Append(received, <<k, answer[k]>>)
    /\ main' = <<"receive", i + 1>>
    /\ UNCHANGED <<params, paginated, answer, channel, ctx, process>>

(* Mutant: the loop does not wait for what is not there yet.               *)
GiveUpWaiting == TRUE

ContextDone == ctx = "cancelled"

SeeCancelled ==
  \E i \in 1 .. N :
    /\ main = <<"receive", i>>
    /\ ContextDone
    /\ main' = <<"receive", i + 1>>
    /\ UNCHANGED <<params, paginated, sender, answer, channel, ctx, received, process>>

Return ==
  /\ main = <<"receive", N + 1>>
  /\ channel' = "closed"
  /\ main' = <<"success">>
  /\ UNCHANGED <<params, paginated, sender, answer, ctx, received, process>>

(* The execution is stopped, or its context ends.                          *)
CancelCall ==
  /\ MayCancel
  /\ ctx = "live"
  /\ main[1] \in {"build", "receive"}
  /\ ctx' = "cancelled"
  /\ UNCHANGED <<params, paginated, main, sender, answer, channel, received, process>>

MainStep == StartReceiving \/ SeeCancelled \/ Return \/ \E k \in Items : Build(k) \/ BuildFails(k) \/ Receive(k)
SenderStep(k) == Request(k) \/ SendClosed(k)

HttpNext ==
  /\ process = "up"
  /\ MainStep \/ CancelCall \/ \E k \in Items : SenderStep(k)

HttpSpec == HttpInit /\ [][HttpNext]_httpVars

(* The Go scheduler runs Execute, and every server answers or fails in the *)
(* end: without a timeout on the request nothing else ends the wait.       *)
HttpFairness ==
  /\ WF_httpVars(process = "up" /\ MainStep)
  /\ \A k \in 1 .. 3 : WF_httpVars(process = "up" /\ k \in Items /\ SenderStep(k))
-----------------------------------------------------------------------------
(* The result of a call that was not cancelled has exactly one answer of   *)
(* every item, its own, though the answers come in any order.              *)
OneAnswerPerItem ==
  main = <<"success">> /\ ctx = "live" =>
    /\ Len(received) = N
    /\ \A k \in Items : <<k, answer[k]>> \in ToSet(received)

(* Only in a call that was cancelled may a goroutine find the channel      *)
(* closed, which takes the whole process down.                             *)
CrashOnlyAfterCancel == process = "crashed" => ctx = "cancelled"

(* A call without pagination returns, when all servers answer.  With       *)
(* pagination it waits for responses nobody sends.                         *)
HttpCallReturns == main = <<"build", 1>> /\ paginated = "off" ~> HasReturned \/ process = "crashed"
=============================================================================
