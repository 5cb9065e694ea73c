------------------------------- MODULE Stream -------------------------------
(***************************************************************************)
(* One streaming attempt at an upstream: the first-token watchdog, the     *)
(* commit of the response header, the loop that turns upstream events into *)
(* frames, the heartbeat and the idle watchdog beside it, and the verdict  *)
(* when it is over.  Meanwhile the client leaves, its connection breaks,   *)
(* the total budget runs out, the upstream fails or falls silent.          *)
(* Sources: internal/dataplane/handler.go (attemptStream), outcome.go,     *)
(* internal/outwire (Sinks, Outcomes); the SDK's stream is external.       *)
(***************************************************************************)
EXTENDS Sinks, Outcomes

CONSTANTS
  Replies,     \* the replies an upstream may stream, see Script
  Troubled,    \* those the world interferes with (a bound)
  Faults,      \* the errors it may break off with (a bound)
  Downstream   \* the protocols of the clients

ASSUME StreamAssumption ==
  /\ Troubled \subseteq Replies
  /\ Faults \subseteq Errors
  /\ Downstream \subseteq Protocols

VARIABLES
  reply,       \* the reply the upstream has in mind
  rest,        \* the events it has not sent yet
  usage,       \* does its last event report usage?
  ended,       \* how its stream ended: "open", "eof", "closed", "ctx", an error
  wants,       \* does the client want a usage frame?
  ctx,         \* the request's context: "live", "canceled", "deadline"
  pc,          \* where the handler stands
  ev,          \* the event in the handler's hands
  sink,        \* see Sinks
  due,         \* has the watchdog's time passed since it was set?
  stamped,     \* is lastEventAt younger than the idle timeout?
  timer,       \* the running watchdog: "armed", "fired", "stopped"
  ttft, idle,  \* ttftTimedOut and idleTimedOut
  got,         \* what attemptStream counted: runes and usage seen
  status,      \* the usage status it decided on
  settled,     \* "none", "commit" or "release"
  outcome,     \* its verdict
  cause        \* what ended the upstream's stream, for the properties

upstream == <<reply, rest, usage, ended, cause>>
clock    == <<due, stamped, timer, ttft, idle>>
result   == <<got, status, settled, outcome>>
vars     == <<upstream, wants, ctx, pc, ev, sink, clock, result>>

None == Outcome("none", FALSE, FALSE, 0, 0, "")
Start == Ev("start", 0)

-----------------------------------------------------------------------------
(* The SDK: the events of a reply from an upstream of a family.  A block   *)
(* is [k, n, sealed]: its kind, its pieces, whether the provider sealed    *)
(* it.  A sealed block of `from` = "other" is another provider's.          *)
Piece(i, j) == 10 * i + j

Content(r) ==
  [i \in DOMAIN r.blocks |->
     LET b == r.blocks[i] IN
     [k |-> b.k,
      id |-> CASE b.k = "tool" -> i
               [] b.k = "think" /\ r.from = "responses" -> i [] OTHER -> 0,
      x |-> [j \in 1 .. b.n |-> Piece(i, j)],
      seal |-> IF b.sealed THEN i ELSE 0,
      by |-> IF b.sealed THEN r.from ELSE ""]]

(* ToolIndex: which call, which content block, or which output item.       *)
ToolIndex(r, i) ==
  CASE r.from = "chat" ->
         Cardinality({j \in 1 .. i - 1 : r.blocks[j].k = "tool"})
    [] OTHER -> i - 1

BlockEvents(r, i) ==
  LET b == Content(r)[i]
      item == IF r.from = "responses" /\ (b.k = "think" => r.numbered) THEN i - 1 ELSE -1
      plain(x) == [Ev(b.k, x) EXCEPT !.item = item,
                     !.rid = IF b.k = "think" THEN b.id ELSE 0,
                     !.tool = IF b.k = "tool" THEN ToolIndex(r, i) ELSE 0]
      body == [j \in DOMAIN b.x |-> plain(b.x[j])]
  IN  CASE b.k = "tool" -> <<[plain(0) EXCEPT !.id = b.id]>> \o body
        [] b.k # "tool" /\ b.seal # 0 -> body \o <<[plain(0) EXCEPT !.seal = b.seal, !.by = b.by]>>
        [] OTHER -> body

Script(r) ==
  <<Start>> \o FlattenSeq([i \in DOMAIN r.blocks |-> BlockEvents(r, i)])
            \o <<Ev("end", 0)>>

Init ==
  /\ reply \in Replies
  /\ rest = Script(reply)
  /\ usage \in BOOLEAN
  /\ ended = "open" /\ cause = "none"
  /\ wants \in BOOLEAN
  /\ ctx = "live"
  /\ pc = "calling"
  /\ ev = Start
  /\ sink \in {NewSink(p) : p \in Downstream}
  /\ due = FALSE /\ stamped = TRUE /\ timer = "stopped"
  /\ ttft = FALSE /\ idle = FALSE
  /\ got = [runes |-> 0, usage |-> FALSE]
  /\ status = "ok" /\ settled = "none"
  /\ outcome = None

Verdict(o) ==
  /\ outcome' = o
  /\ pc' = "over"
  /\ UNCHANGED <<got, status, settled>>

-----------------------------------------------------------------------------
(* The upstream and the world.                                             *)

(* The upstream breaks off: cleanly only before the first event or after   *)
(* the last one.                                                           *)
UpstreamEnds ==
  /\ pc # "over" /\ ended = "open"
  /\ \/ /\ rest = <<>> \/ (rest = Script(reply) /\ reply \in Troubled)
        /\ ended' = "eof" /\ cause' = "eof"
     \/ rest # <<>> /\ reply \in Troubled /\ \E e \in Faults : ended' = e /\ cause' = "fault"
  /\ UNCHANGED <<reply, rest, usage, wants, ctx, pc, ev, sink, clock, result>>

(* The client leaves or the total budget runs out: the SDK's stream ends   *)
(* with the context's error.                                               *)
ContextEnds ==
  /\ pc # "over" /\ ctx = "live"
  /\ ctx' \in {"canceled", "deadline"}
  /\ IF ended = "open" THEN ended' = "ctx" /\ cause' = "ctx"
     ELSE UNCHANGED <<ended, cause>>
  /\ UNCHANGED <<reply, rest, usage, wants, pc, ev, sink, clock, result>>

(* Writes to the client begin to fail.                                     *)
ConnectionBreaks ==
  /\ pc # "over" /\ ~sink.broken
  /\ sink' = [sink EXCEPT !.broken = TRUE]
  /\ UNCHANGED <<upstream, wants, ctx, pc, ev, clock, result>>

(* No event for a whole timeout.                                           *)
Silence ==
  /\ pc \in {"first", "next"} /\ ended = "open" /\ ~due
  /\ due' = TRUE /\ stamped' = FALSE
  /\ UNCHANGED <<upstream, wants, ctx, pc, ev, sink, timer, ttft, idle, result>>

-----------------------------------------------------------------------------
(* Before the first event.                                                 *)

(* ChatStream fails ...                                                    *)
CallFails ==
  /\ pc = "calling"
  /\ \/ /\ ended = "open" /\ ctx = "live"
        /\ \E e \in Errors \ {"truncated", "overflow"} :
             Verdict(FromErrCtx(e, ctx))
        /\ cause' = "fault"
     \/ /\ ctx # "live"
        /\ Verdict(FromErrCtx("transport", ctx))
        /\ UNCHANGED cause
  /\ UNCHANGED <<reply, rest, usage, ended, wants, ctx, ev, sink, clock>>

(* ... or returns a stream, and the first-token timer runs.                *)
CallAnswers ==
  /\ pc = "calling"
  /\ pc' = "first"
  /\ timer' = "armed"
  /\ UNCHANGED <<upstream, wants, ctx, ev, sink, due, stamped, ttft, idle, result>>

(* Mutant: the watchdog only takes note.                                   *)
CloseNot(c) == cause' = c /\ UNCHANGED ended

(* stream.Close, on account of c.                                          *)
Close(c) == IF ended = "open" THEN ended' = "closed" /\ cause' = c
            ELSE UNCHANGED <<ended, cause>>

(* The timer's callback.  It may find that the first event came just now:  *)
(* attemptStream then waits for it and takes its word.                     *)
FirstTokenTimesOut ==
  /\ pc \in {"first", "got"} /\ timer = "armed" /\ due
  /\ ttft' = TRUE /\ timer' = "fired"
  /\ Close("silence")
  /\ UNCHANGED <<reply, rest, usage, wants, ctx, pc, ev, sink, due, stamped, idle, result>>

Receive == /\ ended = "open" /\ rest # <<>>
           /\ ev' = Head(rest) /\ rest' = Tail(rest)

FirstArrives ==
  /\ pc = "first"
  /\ Receive
  /\ pc' = "got"
  /\ UNCHANGED <<reply, usage, ended, cause, wants, ctx, sink, clock, result>>

(* stream.Err(): nil after a clean end and after our own Close.            *)
StreamErr == ended \notin {"open", "eof", "closed"}
ErrOf(e) == IF e = "ctx" THEN "transport" ELSE e

NoFirst ==
  /\ \/ pc = "first" /\ ended # "open"
     \/ pc = "got" /\ ttft
  /\ Verdict(CASE StreamErr -> FromErrCtx(ErrOf(ended), ctx)
               [] ~StreamErr /\ ttft ->
                    Outcome("upstream_failed", FALSE, TRUE, 0, 504, "upstream_timeout")
               [] OTHER ->
                    Outcome("upstream_failed", FALSE, TRUE, 0, 502, "upstream_error"))
  /\ UNCHANGED <<upstream, wants, ctx, ev, sink, clock>>

(* The header is written; from here on nobody else can answer.             *)
Commit ==
  /\ pc = "got" /\ ~ttft
  /\ pc' = "stamp"
  /\ timer' = "armed" /\ stamped' = TRUE /\ due' = FALSE
  /\ UNCHANGED <<upstream, wants, ctx, ev, sink, ttft, idle, result>>

-----------------------------------------------------------------------------
(* The loop.                                                               *)

(* consume: lastEventAt first ...                                          *)
Stamp ==
  /\ pc = "stamp"
  /\ stamped' = TRUE
  /\ pc' = "consume"
  /\ UNCHANGED <<upstream, wants, ctx, ev, sink, due, timer, ttft, idle, result>>

(* ... then the timer is reset and the event encoded; a failed write, its  *)
(* own or a heartbeat's, ends the loop.                                    *)
Consume ==
  LET s == Event(sink, ev) IN
  /\ pc = "consume"
  /\ sink' = s
  /\ due' = FALSE
  /\ got' = [runes |-> got.runes + (IF ev.t \in {"text", "think"} /\ ev.x # 0 THEN 1 ELSE 0),
             usage |-> got.usage \/ (ev.t = "end" /\ usage)]
  /\ IF s.writeErr
       THEN pc' = "judge" /\ Close("write")
       ELSE pc' = "next" /\ UNCHANGED <<ended, cause>>
  /\ UNCHANGED <<reply, rest, usage, wants, ctx, ev, stamped, timer, ttft, idle, status, settled, outcome>>

NextEvent ==
  /\ pc = "next"
  /\ Receive
  /\ pc' = "stamp"
  /\ UNCHANGED <<reply, usage, ended, cause, wants, ctx, sink, clock, result>>

NoMore ==
  /\ pc = "next" /\ ended # "open"
  /\ pc' = "judge"
  /\ UNCHANGED <<upstream, wants, ctx, ev, sink, clock, result>>

Streaming == pc \in {"stamp", "consume", "next"}

(* The heartbeat writes through the same sink, until the handler returns.  *)
Heartbeat ==
  /\ Streaming /\ ctx = "live"
  /\ sink' = Keepalive(sink)
  /\ UNCHANGED <<upstream, wants, ctx, pc, ev, clock, result>>

(* The idle timer expires; its callback looks at lastEventAt again, for an *)
(* event may have come in between.                                         *)
IdleExpires ==
  /\ Streaming /\ timer = "armed" /\ due
  /\ timer' = "fired"
  /\ UNCHANGED <<upstream, wants, ctx, pc, ev, sink, due, stamped, ttft, idle, result>>

Lively == stamped

IdleCuts ==
  /\ timer = "fired" /\ Streaming
  /\ IF Lively
       THEN timer' = "armed" /\ UNCHANGED <<idle, ended, cause>>
       ELSE timer' = "stopped" /\ idle' = TRUE
            /\ Close(IF stamped THEN "mistake" ELSE "silence")
  /\ UNCHANGED <<reply, rest, usage, wants, ctx, pc, ev, sink, due, stamped, ttft, result>>

-----------------------------------------------------------------------------
(* The verdict.  A write that failed comes first: what the upstream did    *)
(* afterwards is a consequence.                                            *)
Judged ==
  CASE sink.writeErr -> <<"canceled", "downstream_write_failed">>
    [] ~sink.writeErr /\ StreamErr ->
         CASE ctx = "deadline" -> <<"timeout", "gateway_timeout">>
           [] ctx # "deadline" /\ ended = "truncated" -> <<"truncated", "stream_truncated">>
           [] ctx # "deadline" /\ ended = "overflow" -> <<"overflow", "stream_overflow">>
           [] ctx = "canceled" /\ ended \notin {"truncated", "overflow"} -> <<"canceled", "">>
           [] OTHER -> <<"error", "upstream_error">>
    [] ~sink.writeErr /\ ~StreamErr /\ idle /\ ~sink.terminal -> <<"truncated", "stream_idle_timeout">>
    [] OTHER -> <<"ok", "">>

(* Mutant: only what the upstream reported counts.                         *)
SettlementReported == IF got.usage THEN "commit" ELSE "release"

(* Without a report, what arrived is estimated; with nothing at all, only  *)
(* the quota is given back.                                                *)
Settlement == IF got.usage \/ got.runes > 0 THEN "commit" ELSE "release"

Judge ==
  /\ pc = "judge"
  /\ status' = Judged[1]
  /\ sink' = Finish(sink, Judged[1], "end", wants /\ got.usage)
  /\ outcome' = Outcome(CommittedKind(Judged[1]), TRUE, FALSE, 0, 200, Judged[2])
  /\ settled' = Settlement
  /\ timer' = "stopped"
  /\ pc' = "over"
  /\ UNCHANGED <<upstream, wants, ctx, ev, due, stamped, ttft, idle, got>>

Handler == \/ CallFails \/ CallAnswers \/ FirstArrives \/ NoFirst \/ Commit
           \/ Stamp \/ Consume \/ NextEvent \/ NoMore \/ Judge
Timers  == FirstTokenTimesOut \/ IdleExpires \/ IdleCuts
World   == \/ UpstreamEnds
           \/ reply \in Troubled /\ (ContextEnds \/ ConnectionBreaks \/ Silence \/ Heartbeat)

Next == Handler \/ Timers \/ World

Spec == Init /\ [][Next]_vars

(* The handler and the timers run and time passes; nobody has to send      *)
(* anything, to leave or to break.                                         *)
FairSpec == Spec /\ WF_vars(Handler) /\ WF_vars(Timers) /\ WF_vars(Silence)

-----------------------------------------------------------------------------
(* The frames a client has received are a prefix of what its protocol      *)
(* allows: the message is announced first; an item opens after the last    *)
(* one closed and under a number of its own, the next one up (Chat,        *)
(* Anthropic) or a higher one (Responses); what is added goes to the open  *)
(* item; a closing frame repeats exactly what was added, and the terminal  *)
(* one every item; nothing follows it.                                     *)
Opens(o, i) == {j \in 1 .. i - 1 : o[j].f = "open"}
OpenAt(o, i) ==
  {j \in Opens(o, i) : \A n \in j + 1 .. i - 1 : o[n].f \notin {"open", "close"}}

Announced(o) ==
  \A i \in DOMAIN o : o[i].f \notin {"usage", "error"} => \E j \in 1 .. i : o[j].f = "start"

Numbered(o, contiguous) ==
  \A i \in DOMAIN o : o[i].f = "open" =>
     IF contiguous THEN o[i].ix = Cardinality(Opens(o, i))
     ELSE \A j \in Opens(o, i) : o[j].ix < o[i].ix

OneAtATime(o) ==
  \A i \in DOMAIN o :
    /\ o[i].f \in {"open", "finish", "done", "error"} => OpenAt(o, i) = {}
    /\ o[i].f \in {"delta", "seal"} =>
         \E j \in OpenAt(o, i) : o[j].ix = o[i].ix /\ o[j].k = o[i].k
    /\ o[i].f = "close" => \E j \in OpenAt(o, i) : o[j].ix = o[i].ix

ClosesWhole(o) ==
  /\ \A i \in DOMAIN o : o[i].f = "close" => Last(Received(SubSeq(o, 1, i))) = o[i].x
  /\ \A i \in DOMAIN o : o[i].f = "done" => o[i].x = Received(o)

NothingAfter(o) ==
  \A i \in DOMAIN o : o[i].f \in {"done", "error"} => i = Len(o)

WellFormed ==
  LET o == sink.out IN
  /\ Announced(o) /\ NothingAfter(o)
  /\ Numbered(o, sink.proto # "responses")
  /\ sink.proto # "chat" => OneAtATime(o)
  /\ sink.proto = "chat" =>
       \A i \in DOMAIN o : o[i].f = "delta" /\ o[i].k = "tool" =>
         o[i].ix < Cardinality(Opens(o, i))
  /\ sink.proto = "responses" => ClosesWhole(o)

(* A stream that counts as a success gave the client what a request        *)
(* without streaming would have: the same items in the same order with     *)
(* their names, texts and seals.  Neighbouring texts or thoughts may come  *)
(* as one, except between two Responses dialects.                          *)
Compact(items) == SelectSeq(items, LAMBDA i : i.k = "tool" \/ i.x # <<>> \/ i.seal # 0)

StreamMatchesWhole ==
  outcome.kind = "committed_success" =>
    CASE sink.proto = "chat" ->
           ReceivedChunks(sink.out) = WriteNonStreamResponse(Content(reply))
      [] sink.proto = "anthropic" ->
           Merged(Received(sink.out)) = Merged(WriteAnthropicResponse(Content(reply)))
      [] sink.proto = "responses" /\ reply.from = "responses" ->
           Received(sink.out) = WriteResponsesResponse(Content(reply))
      [] OTHER ->
           Merged(Received(sink.out)) = Merged(WriteResponsesResponse(Content(reply)))

(* The lane blames a target only for what the upstream did itself: an      *)
(* error, an end, or a silence of a whole timeout, and never for what the  *)
(* client, its connection, the budget or a late watchdog brought about.    *)
InnocentTarget ==
  LaneDecision(outcome).penalize => cause \in {"fault", "eof", "silence"}

(* Whatever text or reasoning reached the client is accounted for, however *)
(* the stream ended; only one that brought none gives its quota back.      *)
DeliveredIsCharged ==
  pc = "over" =>
    ((\E i \in DOMAIN sink.out :
        LET fr == sink.out[i] IN fr.f = "delta" /\ fr.k \in {"text", "think"} /\ fr.x # 0)
     => settled = "commit")

(* Every attempt is over some day, be the upstream silent, the client deaf *)
(* or the budget out.                                                      *)
StreamEnds == <>(pc = "over")
=============================================================================
