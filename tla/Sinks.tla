------------------------------- MODULE Sinks --------------------------------
(***************************************************************************)
(* The three encoders of a reply.  A sink turns the unified events of an   *)
(* upstream stream into the frames of the client's protocol; an encoder    *)
(* turns a complete reply into one body.  Text is a sequence of pieces,    *)
(* every piece a number of its own, so a piece that is lost, repeated or   *)
(* put into the wrong item shows.                                          *)
(* Sources: internal/outwire (sink.go, toolindex.go, openai_chat.go,       *)
(* anthropic.go, openai_responses.go, write_error.go).                     *)
(***************************************************************************)
EXTENDS Integers, SequencesExt

Protocols == {"chat", "anthropic", "responses"}
Kinds     == {"text", "think", "tool"}

(* A unified event: what it is, its piece (0 for empty text), upstream's   *)
(* number for the tool (ToolIndex) and for the item (OutputIndex, -1 for   *)
(* none), the call id, the ReasoningID (0 for none), and the seal of a     *)
(* reasoning item: an Anthropic signature or an OpenAI encrypted_content.  *)
Ev(t, x) == [t |-> t, x |-> x, tool |-> 0, id |-> 0, item |-> -1, rid |-> 0,
             seal |-> 0, by |-> ""]

(* What every sink keeps: the frames out, whether the message or role has  *)
(* been announced, the open items with the index, the pieces and the       *)
(* upstream identity of each, the next free index, the tools met so far,   *)
(* the tool of the open item, the last call id given, the items closed.    *)
NewSink(p) ==
  [proto |-> p, out |-> <<>>, started |-> FALSE, open |-> {},
   at |-> [k \in Kinds |-> 0], cur |-> [k \in Kinds |-> <<>>],
   src |-> [k \in Kinds |-> -1], next |-> 0, tools |-> <<>>, tool |-> -1,
   id |-> 0, output |-> <<>>, wrote |-> FALSE, terminal |-> FALSE,
   broken |-> FALSE, writeErr |-> FALSE]

-----------------------------------------------------------------------------
(* Writing: a frame reaches the client or the first failure is noted.      *)
Emit(s, f, ix, k, x) ==
  IF s.broken THEN [s EXCEPT !.writeErr = TRUE]
  ELSE [s EXCEPT !.out = Append(@, [f |-> f, ix |-> ix, k |-> k, x |-> x])]

Keepalive(s) == [s EXCEPT !.writeErr = @ \/ s.broken]

Started(s) ==
  IF s.started THEN s ELSE Emit([s EXCEPT !.started = TRUE], "start", 0, "", 0)

(* Mutant: the upstream's number is taken over.                            *)
ToolNumberAsGiven(s, u) == u

(* toolIndexMapper: tools are numbered in the order of their appearance.   *)
Met(s, u) == IF Contains(s.tools, u) THEN s
             ELSE [s EXCEPT !.tools = Append(@, u)]
ToolNumber(s, u) == CHOOSE i \in 0 .. Len(s.tools) - 1 : s.tools[i + 1] = u

Wrote(s, b) == [s EXCEPT !.wrote = @ \/ b]
Ended(s)    == [s EXCEPT !.terminal = TRUE]

-----------------------------------------------------------------------------
(* Chat Completions: chunks of one choice, tool calls told apart by index. *)
ChatEvent(s, e) ==
  CASE e.t = "start" -> s
    [] e.t = "text"  -> Emit(Started(Wrote(s, e.x # 0)), "delta", 0, "text", e.x)
    [] e.t = "think" -> IF e.x = 0 THEN s
                        ELSE Emit(Started(Wrote(s, TRUE)), "delta", 0, "think", e.x)
    [] e.t = "tool"  ->
         LET m == Met(Started(Wrote(s, TRUE)), e.tool)
             n == ToolNumber(m, e.tool)
         IN  IF e.id # 0 THEN Emit(Emit(m, "open", n, "tool", e.id), "delta", n, "tool", e.x)
             ELSE Emit(m, "delta", n, "tool", e.x)
    [] e.t = "end"   -> Ended(s)

(* The finish chunk and [DONE] only after a good stream; usage whenever    *)
(* the client asked for it and there is some.                              *)
WriteUsage(s, usage) == IF usage THEN Emit(s, "usage", 0, "", 0) ELSE s

ChatFinish(s, status, stop, usage) ==
  LET f == IF status = "ok" THEN Emit(Started(s), "finish", 0, stop, 0) ELSE s
      u == WriteUsage(f, usage)
  IN  IF status = "ok" THEN Emit(u, "done", 0, "", 0) ELSE u

-----------------------------------------------------------------------------
(* Anthropic Messages: numbered content blocks, one open at a time.        *)
CloseBlock(s) ==
  IF s.open = {} THEN s
  ELSE [Emit(s, "close", s.next - 1, "", <<>>) EXCEPT !.open = {}, !.tool = -1]

(* Mutant: the tool of the open block is not compared.                     *)
EnsureBlockOfKind(s, k, tool) ==
  IF k \in s.open THEN s
  ELSE LET c == Started(CloseBlock(s))
       IN  Emit([c EXCEPT !.next = @ + 1, !.open = {k}, !.tool = tool],
                "open", c.next, k, IF k = "tool" THEN c.id ELSE 0)

EnsureBlock(s, k, tool) ==
  IF k \in s.open /\ (k = "tool" => s.tool = tool) THEN s
  ELSE LET c == Started(CloseBlock(s))
       IN  Emit([c EXCEPT !.next = @ + 1, !.open = {k}, !.tool = tool],
                "open", c.next, k, IF k = "tool" THEN c.id ELSE 0)

BlockDelta(s, k, x) == Emit(s, "delta", s.next - 1, k, x)

AnthropicEvent(s, e) ==
  CASE e.t = "start" -> Started(s)
    [] e.t = "text"  -> BlockDelta(Wrote(EnsureBlock(s, "text", 0), e.x # 0), "text", e.x)
    [] e.t = "think" ->
         LET b == EnsureBlock(s, "think", 0)
             d == IF e.x = 0 THEN b ELSE BlockDelta(Wrote(b, TRUE), "think", e.x)
         IN  IF e.seal # 0 /\ e.by = "anthropic" THEN Emit(d, "seal", d.next - 1, "think", e.seal)
             ELSE d
    [] e.t = "tool"  ->
         LET g == IF e.id # 0 THEN [s EXCEPT !.id = e.id] ELSE s
             m == Met(g, e.tool)
         IN  BlockDelta(Wrote(EnsureBlock(m, "tool", ToolNumber(m, e.tool)), TRUE), "tool", e.x)
    [] e.t = "end"   -> Ended(s)

AnthropicFinish(s, status, stop) ==
  LET c == CloseBlock(s) IN
  CASE status = "canceled" -> s
    [] status = "ok" -> Emit(Emit(Started(c), "finish", 0, stop, 0), "done", 0, "", 0)
    [] OTHER -> Emit(c, "error", 0, "", 0)

-----------------------------------------------------------------------------
(* Responses: numbered output items, each announced and closed with its    *)
(* whole content, all of them repeated in the terminal event.              *)
NextIndex(s, up) == IF up >= 0 THEN up ELSE s.next

Alloc(s, up) == [s EXCEPT !.next = IF up >= @ THEN up + 1 ELSE IF up >= 0 THEN @ ELSE @ + 1]

Item(k, id, x, seal) == [k |-> k, id |-> id, x |-> x, seal |-> seal]

(* What the opening frame names: the call, or the reasoning item.          *)
NameOf(s, k, src) == CASE k = "tool" -> s.id [] k = "think" -> src [] OTHER -> 0

CloseItem(s, k, seal) ==
  IF k \notin s.open THEN s
  ELSE LET it == Item(k, NameOf(s, k, s.src[k]), s.cur[k], seal)
       IN  [Emit(s, "close", s.at[k], k, it) EXCEPT
              !.open = @ \ {k}, !.output = Append(@, it)]

(* A new item: its buffer is emptied.                                      *)
OpenItem(s, k, up, src) ==
  Emit([Alloc(s, up) EXCEPT !.open = @ \cup {k}, !.at[k] = NextIndex(s, up),
                            !.cur[k] = <<>>, !.src[k] = src],
       "open", NextIndex(s, up), k, NameOf(s, k, src))

Grow(s, k, x) ==
  IF x = 0 THEN s
  ELSE Emit([s EXCEPT !.cur[k] = Append(@, x)], "delta", s.at[k], k, x)

(* The upstream's ReasoningID tells one reasoning item from the next; the  *)
(* seal ends the one it arrives in.  Another provider's seal is not shown. *)
ReasonEvent(s, e) ==
  LET sealed == IF e.by = "responses" THEN e.seal ELSE 0
      c == IF "think" \in s.open /\ e.rid # 0 /\ s.src["think"] \notin {0, e.rid}
             THEN CloseItem(s, "think", 0) ELSE s
      o == IF "think" \in c.open THEN c
           ELSE OpenItem(CloseItem(CloseItem(Started(c), "text", 0), "tool", 0),
                         "think", e.item, e.rid)
      g == Wrote(Grow(o, "think", e.x), e.x # 0)
  IN  CASE e.by = "other" -> s
        [] e.by # "other" /\ sealed = 0 /\ e.x = 0 -> s
        [] OTHER -> IF sealed = 0 THEN g ELSE CloseItem(g, "think", sealed)

MessageEvent(s, e) ==
  LET c == IF e.item >= 0 /\ "text" \in s.open /\ s.src["text"] \notin {-1, e.item}
             THEN CloseItem(Started(s), "text", 0) ELSE Started(s)
      r == CloseItem(c, "think", 0)
      o == IF "text" \in r.open THEN r
           ELSE OpenItem(CloseItem(r, "tool", 0), "text", e.item, e.item)
  IN  IF e.x = 0 THEN s ELSE Grow(Wrote(o, TRUE), "text", e.x)

ToolEvent(s, e) ==
  LET r == Met(CloseItem(Started(s), "think", 0), e.tool)
      n == ToolNumber(r, e.tool)
      c == CloseItem(CloseItem(r, "text", 0), "tool", 0)
      o == IF "tool" \in r.open /\ r.tool = n THEN r
           ELSE OpenItem([c EXCEPT !.tool = n, !.id = IF e.id # 0 THEN e.id ELSE @],
                         "tool", e.item, -1)
  IN  Grow(Wrote(o, TRUE), "tool", e.x)

ResponsesEvent(s, e) ==
  CASE e.t = "start" -> Started(s)
    [] e.t = "text"  -> MessageEvent(s, e)
    [] e.t = "think" -> ReasonEvent(s, e)
    [] e.t = "tool"  -> ToolEvent(s, e)
    [] e.t = "end"   -> Ended(s)

ResponsesFinish(s, status, stop) ==
  LET c == CloseItem(CloseItem(CloseItem(s, "think", 0), "text", 0), "tool", 0)
      b == Started(c)
  IN  CASE status = "canceled" -> s
        [] status = "ok" -> Emit(b, "done", 0, stop, b.output)
        [] OTHER -> Emit(c, "error", 0, "", 0)

-----------------------------------------------------------------------------
Event(s, e) ==
  CASE s.proto = "chat"      -> ChatEvent(s, e)
    [] s.proto = "anthropic" -> AnthropicEvent(s, e)
    [] s.proto = "responses" -> ResponsesEvent(s, e)

Finish(s, status, stop, usage) ==
  CASE s.proto = "chat"      -> ChatFinish(s, status, stop, usage)
    [] s.proto = "anthropic" -> AnthropicFinish(s, status, stop)
    [] s.proto = "responses" -> ResponsesFinish(s, status, stop)

-----------------------------------------------------------------------------
(* A complete reply is a sequence of blocks, items with the provider of    *)
(* the seal.  The encoders give one body each.                             *)
Pick(items, k) == SelectSeq(items, LAMBDA i : i.k = k)
Pieces(items, k) == FlattenSeq([i \in DOMAIN Pick(items, k) |-> Pick(items, k)[i].x])

(* One string of text, one of reasoning, and the tool calls.               *)
ChatBody(items) ==
  [text |-> Pieces(items, "text"), think |-> Pieces(items, "think"),
   tools |-> [i \in DOMAIN Pick(items, "tool") |->
                Item("tool", Pick(items, "tool")[i].id, Pick(items, "tool")[i].x, 0)]]

WriteNonStreamResponse(reply) == ChatBody(reply)

WriteAnthropicResponse(reply) ==
  [i \in DOMAIN reply |->
     Item(reply[i].k, IF reply[i].k = "tool" THEN reply[i].id ELSE 0, reply[i].x,
          IF reply[i].by = "anthropic" THEN reply[i].seal ELSE 0)]

WriteResponsesResponse(reply) ==
  LET shown == SelectSeq(reply, LAMBDA b : b.k = "think" => b.by # "other")
  IN  [i \in DOMAIN shown |->
         Item(shown[i].k, IF shown[i].k = "text" THEN 0 ELSE shown[i].id, shown[i].x,
              IF shown[i].by = "responses" THEN shown[i].seal ELSE 0)]

-----------------------------------------------------------------------------
(* What a client puts together from the frames of a stream: an item per    *)
(* opening frame (text and reasoning of Chat Completions need none).       *)
LOCAL Extend(items, k, x) ==
  IF x = 0 THEN items
  ELSE [items EXCEPT ![Len(items)].x = Append(@, x)]

LOCAL Receive(items, fr) ==
  CASE fr.f = "open"  -> Append(items, Item(fr.k, fr.x, <<>>, 0))
    [] fr.f = "delta" -> Extend(items, fr.k, fr.x)
    [] fr.f = "seal"  -> [items EXCEPT ![Len(items)].seal = fr.x]
    [] fr.f = "close" /\ fr.k = "think" -> [items EXCEPT ![Len(items)].seal = fr.x.seal]
    [] OTHER -> items

Received(out) == FoldLeft(Receive, <<>>, out)

LOCAL ReceiveChunk(items, fr) ==
  CASE fr.f = "open" -> Append(items, Item("tool", fr.x, <<>>, 0))
    [] fr.f = "delta" /\ fr.k = "tool" ->
         IF fr.x = 0 THEN items
         ELSE LET i == CHOOSE n \in DOMAIN items : items[n].k = "tool"
                         /\ Len(Pick(SubSeq(items, 1, n), "tool")) = fr.ix + 1
              IN  [items EXCEPT ![i].x = Append(@, fr.x)]
    [] fr.f = "delta" /\ fr.x # 0 -> Append(items, Item(fr.k, 0, <<fr.x>>, 0))
    [] OTHER -> items

ReceivedChunks(out) == ChatBody(FoldLeft(ReceiveChunk, <<>>, out))

(* Neighbours of one kind as one, the empty ones left out.                 *)
Merged(items) ==
  FoldLeft(LAMBDA acc, i :
             IF i.k # "tool" /\ i.x = <<>> /\ i.seal = 0 THEN acc
             ELSE IF i.k # "tool" /\ acc # <<>> /\ Last(acc).k = i.k
               THEN [acc EXCEPT ![Len(acc)] = Item(i.k, @.id, @.x \o i.x,
                                                   IF i.seal # 0 THEN i.seal ELSE @.seal)]
             ELSE Append(acc, i),
           <<>>, items)
=============================================================================
