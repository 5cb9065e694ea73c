---------------------------- MODULE Conversation ----------------------------
(***************************************************************************)
(* A conversation of several requests.  The client keeps the history in    *)
(* its own protocol and sends all of it every time: its words, the results *)
(* of the tools it ran, and what the gateway answered.  For every attempt  *)
(* the gateway builds the upstream's request anew from that history, for   *)
(* an upstream of whatever family the route leads to.                      *)
(* Sources: internal/inwire (anthropic.go, openai_chat.go,                 *)
(* openai_responses.go), internal/ingress/request.go,                      *)
(* internal/dataplane/replay.go, handler.go (attemptStream,                *)
(* attemptNonStream); the answers are encoded by Sinks.                    *)
(***************************************************************************)
EXTENDS Sinks, Effort

CONSTANTS
  Answers,     \* [family -> the blocks its upstreams answer], see Content
  Models,      \* the targets a request may be sent to: [family, thinks, levels]
  Wishes,      \* what a client may wish: [tools, choice, spelt, budget]
  Plain,       \* the wish of the longer conversations
  Words,       \* the parts of what a user says: sequences of "text", "media"
  Results,     \* what a tool gives: a sequence of the same
  Media,       \* the protocols whose tools give media (a bound)
  MaxAnswers,  \* answers in a conversation (a bound)
  MaxTries     \* attempts for one request (a bound)

ASSUME ConversationAssumption ==
  /\ MaxAnswers \in Nat /\ MaxTries \in Nat
  /\ Plain \in Wishes
  /\ \A m \in Models : m.family \in Protocols /\ m.thinks \in {"yes", "no", "unknown"}

VARIABLES
  client,      \* its protocol
  wish,        \* its tools, its choice among them, how much thinking
  wire,        \* the history, in its protocol
  said,        \* what the upstreams answered: [from, items]
  calls,       \* the calls it has to run
  pc,          \* "client", "ready" (a request is in), "upstream"
  tries,       \* attempts at this request
  sent         \* the last request sent upstream for what the user said

vars == <<client, wish, wire, said, calls, pc, tries, sent>>

(* A block of a unified message and a message.                             *)
Block(k, id, x, seal, by) == [k |-> k, id |-> id, x |-> x, seal |-> seal, by |-> by]
Message(role, blocks) == [role |-> role, blocks |-> blocks]
Plainly(k, x) == Block(k, 0, x, 0, "")

Gather(s, Op(_)) == FlattenSeq([i \in DOMAIN s |-> Op(s[i])])
OnlyIf(b, s) == IF b THEN s ELSE <<>>

-----------------------------------------------------------------------------
(* Chat Completions.  A message has one text, one reasoning_content, its   *)
(* tool calls, and for a tool the call's id.                               *)
TextOf(parts)  == Gather(parts, LAMBDA p : OnlyIf(p.k = "text", p.x))
MediaOf(parts) == SelectSeq(parts, LAMBDA p : p.k = "media")

(* extractUserContent: the text first, then what is not text.              *)
ChatUserMessage(parts) ==
  Message("user", IF MediaOf(parts) = <<>> THEN <<Plainly("text", TextOf(parts))>>
                  ELSE OnlyIf(TextOf(parts) # <<>>, <<Plainly("text", TextOf(parts))>>)
                       \o MediaOf(parts))

(* A result is a message of its own, of text only.                         *)
ConvertMessage(m) ==
  CASE m.role = "user" -> ChatUserMessage(m.parts)
    [] m.role = "tool" -> Message("tool", <<Block("result", m.id, TextOf(m.parts), 0, "")>>)
    [] m.role = "assistant" /\ m.body.tools = <<>> /\ m.body.think = <<>> ->
         Message("assistant", <<Plainly("text", m.body.text)>>)
    [] OTHER ->
         Message("assistant",
           OnlyIf(m.body.think # <<>>, <<Plainly("think", m.body.think)>>)
           \o OnlyIf(m.body.text # <<>>, <<Plainly("text", m.body.text)>>)
           \o [i \in DOMAIN m.body.tools |->
                 Block("tool", m.body.tools[i].id, m.body.tools[i].x, 0, "")])

ChatToRosetta(history) == [i \in DOMAIN history |-> ConvertMessage(history[i])]

-----------------------------------------------------------------------------
(* Anthropic Messages.  All results of a turn are in one user message.     *)
AssistantBlocks(items) ==
  Gather(items, LAMBDA b :
    OnlyIf(b.k = "text" => b.x # <<>>,
           <<Block(b.k, b.id, b.x, b.seal, IF b.seal # 0 THEN "anthropic" ELSE "")>>))

ToolResultText(b) == Block("result", b.id, TextOf(b.parts), 0, "")

Notice == Plainly("text", <<0>>)

(* The results, then the media they held, then what the user said.         *)
ConvertUserMessage(content) ==
  LET results == SelectSeq(content, LAMBDA b : b.k = "result")
      media   == Gather(results, LAMBDA b : MediaOf(b.parts))
      rest    == SelectSeq(content, LAMBDA b : b.k = "media" \/ (b.k = "text" /\ b.x # <<>>))
      out     == OnlyIf(results # <<>>,
                        <<Message("tool", [i \in DOMAIN results |-> ToolResultText(results[i])])>>)
                 \o OnlyIf(media # <<>>, <<Message("user", <<Notice>> \o media)>>)
                 \o OnlyIf(rest # <<>>, <<Message("user", rest)>>)
  IN  IF out = <<>> THEN <<Message("user", <<Plainly("text", <<>>)>>)>> ELSE out

AnthropicToRosetta(history) ==
  Gather(history, LAMBDA m :
    CASE m.role = "user" -> ConvertUserMessage(m.content)
      [] m.role = "assistant" /\ AssistantBlocks(m.content) # <<>> ->
           <<Message("assistant", AssistantBlocks(m.content))>>
      [] OTHER -> <<Message("assistant", <<Plainly("text", <<>>)>>)>>)

-----------------------------------------------------------------------------
(* Responses.  A flat list of items; the items of one assistant turn are   *)
(* one message.                                                            *)
Flush(acc) ==
  [out |-> acc.out \o OnlyIf(acc.pending # <<>>, <<Message("assistant", acc.pending)>>),
   pending |-> <<>>]

AddMessages(acc, messages) == [Flush(acc) EXCEPT !.out = @ \o messages]

(* Mutant: every item of the assistant is a message of its own.            *)
AddAssistantAlone(acc, blocks) == AddMessages(acc, <<Message("assistant", blocks)>>)

AddAssistant(acc, blocks) == [acc EXCEPT !.pending = @ \o blocks]

ToolOutput(item) ==
  LET text == TextOf(item.parts) media == MediaOf(item.parts)
  IN  OnlyIf(text # <<>> \/ media = <<>>,
             <<Message("tool", <<Block("result", item.id, text, 0, "")>>)>>)
      \o OnlyIf(media # <<>>, <<Message("user", <<Notice>> \o media)>>)

AddItem(acc, item) ==
  CASE item.k \in {"text", "tool"} ->
         AddAssistant(acc, <<Block(item.k, item.id, item.x, 0, "")>>)
    [] item.k = "think" /\ (item.x # <<>> \/ item.seal # 0) ->
         AddAssistant(acc, <<Block("think", item.id, item.x, item.seal,
                               IF item.seal # 0 THEN "responses" ELSE "")>>)
    [] item.k = "think" /\ item.x = <<>> /\ item.seal = 0 -> acc
    [] item.k = "output" -> AddMessages(acc, ToolOutput(item))
    [] item.k = "user" -> AddMessages(acc, OnlyIf(item.parts # <<>>, <<Message("user", item.parts)>>))

ResponsesToRosetta(items) ==
  Flush(FoldLeft(AddItem, [out |-> <<>>, pending |-> <<>>], items)).out

ToRosetta(history) ==
  CASE client = "chat"      -> ChatToRosetta(history)
    [] client = "anthropic" -> AnthropicToRosetta(history)
    [] client = "responses" -> ResponsesToRosetta(history)

-----------------------------------------------------------------------------
(* Tools and the choice among them.  The name of a tool in a namespace is  *)
(* the pair of both names, of any other <<"", n>>; a choice [type, ns,     *)
(* name] names a tool, or a namespace by ns.                               *)
FlattenNamespaceTools(tools) == [i \in DOMAIN tools |-> <<tools[i].ns, tools[i].name>>]

Named(choice) == <<choice.ns, choice.name>>

(* The offered tools a choice may mean that names none of them.            *)
Meant(choice, offered) ==
  CASE choice.type = "namespace" -> {t \in offered : t[1] = choice.ns}
    [] choice.type = "function" /\ choice.ns = "" /\ Named(choice) \notin offered ->
         {t \in offered : t[1] # "" /\ t[2] = choice.name}
    [] OTHER -> {}

(* A bare name that stands in one namespace only, or a namespace of one    *)
(* tool, means that tool; otherwise the choice is left as it is.           *)
RewriteToolChoice(choice, offered) ==
  IF Cardinality(Meant(choice, offered)) = 1
    THEN CHOOSE t \in Meant(choice, offered) : TRUE ELSE <<>>

(* The mode, and the tool when the mode is "tool".                         *)
ToolChoice(w) ==
  LET rewritten == IF client = "responses"
                     THEN RewriteToolChoice(w.choice, ToSet(FlattenNamespaceTools(w.tools)))
                     ELSE <<>>
  IN  CASE rewritten # <<>> -> <<"tool", rewritten>>
        [] rewritten = <<>> /\ w.choice.type = "function" -> <<"tool", Named(w.choice)>>
        [] rewritten = <<>> /\ w.choice.type \in {"auto", "none", "required"} -> <<w.choice.type>>
        [] OTHER -> <<>>

-----------------------------------------------------------------------------
(* applyReplayGate: thoughts the upstream's protocol cannot take back.     *)
Playable(b, family) ==
  CASE family = "chat" -> b.k # "redacted" /\ (b.k = "think" => b.by # "anthropic" /\ b.x # <<>>)
    [] family = "anthropic" -> b.k = "think" => b.by = "anthropic"
    [] family = "responses" -> TRUE

(* Mutant: a turn goes as soon as it has no text.                          *)
WorthATurnText(blocks, family) ==
  family = "chat" => \E i \in DOMAIN blocks : blocks[i].k = "text" /\ blocks[i].x # <<>>

WorthATurn(blocks, family) ==
  /\ blocks # <<>>
  /\ family = "chat" =>
       \E i \in DOMAIN blocks :
         blocks[i].k = "tool" \/ (blocks[i].k = "text" /\ blocks[i].x # <<>>)

ApplyReplayGate(messages, family) ==
  LET Kept(m) ==
        LET blocks == SelectSeq(m.blocks, LAMBDA b : Playable(b, family))
        IN  CASE m.role # "assistant" \/ family = "responses" -> <<m>>
              [] OTHER -> OnlyIf(WorthATurn(blocks, family), <<Message(m.role, blocks)>>)
  IN  Gather(messages, Kept)

(* One attempt's request.                                                  *)
BuildRosetta(history, w, model) ==
  [model |-> model, messages |-> ApplyReplayGate(ToRosetta(history), model.family),
   thinking |-> ApplyThinkingCapability(Asked(w), w, model),
   tools |-> FlattenNamespaceTools(w.tools), choice |-> ToolChoice(w)]

-----------------------------------------------------------------------------
(* The upstream and the client.                                            *)

(* The blocks of the n-th answer.                                          *)
Content(n, from, blocks) ==
  [i \in DOMAIN blocks |->
     LET b == blocks[i] IN
     [k |-> b.k,
      id |-> IF b.k = "tool" \/ (b.k = "think" /\ from = "responses") THEN 10 * n + i ELSE 0,
      x |-> [j \in 1 .. b.n |-> 100 * n + 10 * i + j],
      seal |-> IF b.sealed THEN 10 * n + i ELSE 0,
      by |-> IF b.sealed THEN from ELSE ""]]

Parts(kinds, n) == [i \in DOMAIN kinds |-> Plainly(kinds[i], <<n + i>>)]

(* How each protocol's client writes down an answer, results and words.    *)
NoteAnswer(items) ==
  CASE client = "chat" ->
         Append(wire, [role |-> "assistant", body |-> WriteNonStreamResponse(items)])
    [] client = "anthropic" ->
         Append(wire, [role |-> "assistant", content |-> WriteAnthropicResponse(items)])
    [] client = "responses" -> wire \o WriteResponsesResponse(items)

NoteUser(history, parts) ==
  Append(history,
    CASE client = "chat"      -> [role |-> "user", parts |-> parts]
      [] client = "anthropic" -> [role |-> "user", content |-> parts]
      [] client = "responses" -> [k |-> "user", parts |-> parts])

NoteResults(outs, parts) ==
  CASE client = "chat" ->
         LET told == wire \o [i \in DOMAIN calls |->
                                [role |-> "tool", id |-> calls[i], parts |-> outs[i]]]
         IN  IF parts = <<>> THEN told ELSE NoteUser(told, parts)
    [] client = "anthropic" ->
         NoteUser(wire, [i \in DOMAIN calls |->
                           [k |-> "result", id |-> calls[i], parts |-> outs[i]]] \o parts)
    [] client = "responses" ->
         LET told == wire \o [i \in DOMAIN calls |->
                                [k |-> "output", id |-> calls[i], parts |-> outs[i]]]
         IN  IF parts = <<>> THEN told ELSE NoteUser(told, parts)

-----------------------------------------------------------------------------
Nothing == [messages |-> <<>>]

Init ==
  /\ client \in Protocols
  /\ wish \in Wishes
  /\ wish.budget > 0 => client = "anthropic"
  /\ wish.spelt # "" => client # "anthropic"
  /\ (\E i \in DOMAIN wish.tools : wish.tools[i].ns # "") => client = "responses"
  /\ wire = <<>> /\ said = <<>> /\ calls = <<>>
  /\ pc = "client" /\ tries = 0 /\ sent = Nothing

Say ==
  /\ pc = "client" /\ calls = <<>>
  /\ \E w \in Words : wire' = NoteUser(wire, Parts(w, 1000 * Len(said)))
  /\ pc' = "ready" /\ tries' = 0
  /\ UNCHANGED <<client, wish, said, calls, sent>>

(* The tools were run; the client may add a word.                          *)
RunTools ==
  /\ pc = "client" /\ calls # <<>>
  /\ \E outs \in [DOMAIN calls -> Results], w \in Words \cup {<<>>} :
       /\ client \notin Media => \A i \in DOMAIN outs : ~Contains(outs[i], "media")
       /\ wire' = NoteResults([i \in DOMAIN outs |-> Parts(outs[i], 1000 * Len(said) + 10 * i)],
                              Parts(w, 1000 * Len(said)))
  /\ calls' = <<>>
  /\ pc' = "ready" /\ tries' = 0
  /\ UNCHANGED <<client, wish, said, sent>>

(* Mutant: what the last attempt was sent is sent on.                      *)
RequestOnce(model) ==
  IF tries = 0 THEN BuildRosetta(wire, wish, model)
  ELSE [sent EXCEPT !.model = model, !.messages = ApplyReplayGate(@, model.family)]

Request(model) == BuildRosetta(wire, wish, model)

(* attemptStream, attemptNonStream: the first target or, after a failure,  *)
(* another one.                                                            *)
Attempt ==
  /\ pc = "ready" /\ tries < MaxTries
  /\ \E m \in Models : sent' = Request(m)
  /\ pc' = "upstream" /\ tries' = tries + 1
  /\ UNCHANGED <<client, wish, wire, said, calls>>

Fails ==
  /\ pc = "upstream"
  /\ pc' = "ready"
  /\ UNCHANGED <<client, wish, wire, said, calls, tries, sent>>

Answered ==
  /\ pc = "upstream" /\ wish = Plain /\ Len(said) < MaxAnswers
  /\ \E blocks \in Answers[sent.model.family] :
       LET items == Content(Len(said) + 1, sent.model.family, blocks) IN
       /\ said' = Append(said, [from |-> sent.model.family, items |-> items])
       /\ wire' = NoteAnswer(items)
       /\ calls' = [i \in DOMAIN Pick(items, "tool") |-> Pick(items, "tool")[i].id]
  /\ pc' = "client" /\ sent' = Nothing
  /\ UNCHANGED <<client, wish, tries>>

Next == Say \/ RunTools \/ Attempt \/ Fails \/ Answered

Spec == Init /\ [][Next]_vars

-----------------------------------------------------------------------------
Speech(blocks) ==
  LET spoken == SelectSeq(blocks, LAMBDA b : b.k \in {"text", "tool"})
  IN  [i \in DOMAIN spoken |-> Item(spoken[i].k, spoken[i].id, spoken[i].x, 0)]

(* In Chat Completions all text comes before the calls.                    *)
Spoken(blocks) == IF client = "chat" THEN ChatBody(Speech(blocks)) ELSE Merged(Speech(blocks))

Silent(blocks) == Merged(Speech(blocks)) = <<>>

Turns == SelectSeq(sent.messages, LAMBDA m : m.role = "assistant")

(* Every attempt, to whatever family and after whatever other attempts,    *)
(* tells the upstream all that was said and called in this conversation,   *)
(* in order, one message for each answer.                                  *)
Remembered ==
  LET told  == SelectSeq(Turns, LAMBDA m : ~Silent(m.blocks))
      truth == SelectSeq(said, LAMBDA a : ~Silent(a.items))
  IN  pc = "upstream" =>
        [i \in DOMAIN told |-> Spoken(told[i].blocks)]
          = [i \in DOMAIN truth |-> Spoken(truth[i].items)]

(* A sealed thought goes back to a provider of the family that sealed it,  *)
(* whole and in its place, when the client speaks that family's protocol;  *)
(* nobody else is shown a seal as its own; an Anthropic upstream gets no   *)
(* thought without a seal, a Chat upstream no turn of thoughts alone.      *)
Bare(blocks) ==
  LET kept == SelectSeq(blocks, LAMBDA b : b.k # "text" \/ b.x # <<>>)
  IN  [i \in DOMAIN kept |-> Item(kept[i].k, kept[i].id, kept[i].x, kept[i].seal)]

SealsComeHome ==
  pc = "upstream" =>
    LET family == sent.model.family
        Sealed(blocks) == {i \in DOMAIN blocks : blocks[i].k = "think" /\ blocks[i].seal # 0}
    IN
    /\ \A i \in DOMAIN said :
         said[i].from = family /\ client = family /\ Sealed(said[i].items) # {} =>
           \E t \in DOMAIN Turns :
             Bare(Turns[t].blocks) =
               Bare(SelectSeq(said[i].items, LAMBDA b : family = "anthropic" /\ b.k = "think" => b.seal # 0))
    /\ \A t \in DOMAIN Turns : \A n \in Sealed(Turns[t].blocks) :
         LET b == Turns[t].blocks[n] IN
         b.by = family =>
           \E i \in DOMAIN said : said[i].from = family /\ b.seal \in {said[i].items[j].seal : j \in DOMAIN said[i].items}
    /\ family = "anthropic" =>
         \A t \in DOMAIN Turns : \A n \in DOMAIN Turns[t].blocks :
           Turns[t].blocks[n].k = "think" => n \in Sealed(Turns[t].blocks)
    /\ family = "chat" => \A t \in DOMAIN Turns : ~Silent(Turns[t].blocks)

(* Every upstream API refuses a request in which a call of the assistant   *)
(* is not answered right after it, or a result answers no call.            *)
CallsOf(m)   == {m.blocks[i].id : i \in {n \in DOMAIN m.blocks : m.blocks[n].k = "tool"}}
ResultsOf(m) == {m.blocks[i].id : i \in {n \in DOMAIN m.blocks : m.blocks[n].k = "result"}}

CallsAnswered ==
  LET ms == sent.messages
      After(i) == {j \in i + 1 .. Len(ms) : \A n \in i + 1 .. j : ms[n].role = "tool"}
  IN  pc = "upstream" =>
        /\ \A i \in DOMAIN ms : ms[i].role = "assistant" =>
             CallsOf(ms[i]) = UNION {ResultsOf(ms[j]) : j \in After(i)}
        /\ \A j \in DOMAIN ms : ms[j].role = "tool" =>
             \E i \in 1 .. j - 1 : ms[i].role = "assistant" /\ j \in After(i)

(* An upstream is asked to think just when the client asked and the model  *)
(* can, at a level the model knows and no other is nearer to; a budget     *)
(* reaches only the family that has budgets, unchanged.                    *)
ThinkingFits ==
  LET th == sent.thinking  levels == sent.model.levels
      wanted == Parse(RawEffort(wish))
  IN
  /\ (th = NoThinking) <=> (wanted \in {"", "none"} \/ sent.model.thinks = "no")
  /\ th.raw # "" =>
       IF levels = <<>> THEN th.raw = wanted
       ELSE /\ Contains(levels, th.raw)
            /\ \A i \in DOMAIN levels :
                 \/ Distance(th.raw, wanted) < Distance(levels[i], wanted)
                 \/ /\ Distance(th.raw, wanted) = Distance(levels[i], wanted)
                    /\ RankOf(levels[i]) <= RankOf(th.raw)
  /\ th.budget > 0 => sent.model.family = "anthropic" /\ th.budget = wish.budget
  /\ sent.model.family = "anthropic" => th.raw = ""

(* A tool the client forces is the one it named; a name or a namespace     *)
(* that several offered tools answer to forces none of them.               *)
ForcedToolIsMeant ==
  LET offered == ToSet(sent.tools)
      fits == IF client = "responses" THEN Meant(wish.choice, offered) ELSE {}
  IN  /\ sent.choice # <<>> /\ sent.choice[1] = "tool" /\ sent.choice[2] \in offered =>
           sent.choice[2] = Named(wish.choice) \/ fits = {sent.choice[2]}
      /\ \A t \in fits : fits = {t} => sent.choice = <<"tool", t>>

(* What a client asks of the model beside its words reaches every upstream *)
(* the failover calls, each a model with other abilities, as it was meant: *)
(* the thinking at the nearest level the model has, the forced tool under  *)
(* the name that is offered (effort.go:175, openai_responses.go:593).      *)
AskedAsMeant == pc = "upstream" => ThinkingFits /\ ForcedToolIsMeant
=============================================================================
