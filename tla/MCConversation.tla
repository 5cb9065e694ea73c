--------------------------- MODULE MCConversation ---------------------------
(* Conversation with two answers, of the shapes in which a family's        *)
(* thoughts, texts and calls follow each other.                            *)
EXTENDS Conversation

B(k, n, sealed) == [k |-> k, n |-> n, sealed |-> sealed]
T  == B("text", 1, FALSE)
C  == B("tool", 1, FALSE)
O  == B("think", 1, FALSE)
S  == B("think", 1, TRUE)
E  == B("think", 0, TRUE)

MCAnswers ==
  [chat      |-> {<<T>>, <<O, T, C>>, <<C, C>>},
   anthropic |-> {<<S, T>>, <<S, C, C>>, <<T, S, T, C>>, <<E>>},
   responses |-> {<<O, T>>, <<S, C, E, C>>, <<T, E, C>>, <<S>>}]

Model(f, thinks, csv) == [family |-> f, thinks |-> thinks, levels |-> ParseLevels(csv)]
MCModels ==
  {Model("chat", "unknown", <<>>), Model("chat", "yes", <<"max", "none", "low", "min">>),
   Model("anthropic", "yes", <<"high", "minimal">>), Model("anthropic", "unknown", <<>>),
   Model("responses", "yes", <<"x-high", "odd", "mid">>), Model("chat", "no", <<"low">>)}

Choice(type, ns, name) == [type |-> type, ns |-> ns, name |-> name]
Wish(tools, choice, spelt, budget) ==
  [tools |-> tools, choice |-> choice, spelt |-> spelt, budget |-> budget]
Tool(ns, name) == [ns |-> ns, name |-> name]

Auto == Choice("auto", "", "")
MCPlain == Wish(<<Tool("", "t")>>, Auto, "", 0)
Packed == <<Tool("", "t"), Tool("a", "u"), Tool("a", "v"), Tool("b", "v"), Tool("c", "t")>>

MCWishes ==
  {MCPlain}
  \cup {Wish(<<>>, Choice("", "", ""), s, 0) :
          s \in {"none", "odd"} \cup ToSet(KnownLevels) \cup {"min", "maximum", "very_high"}}
  \cup {Wish(<<>>, Auto, "", b) : b \in {1, 4096, 4097, 16384, 16385}}
  \cup {Wish(Packed, Choice("function", "", n), "", 0) : n \in {"t", "u", "v", "w"}}
  \cup {Wish(Packed, Choice("function", "a", "v"), "", 0)}
  \cup {Wish(Packed, Choice("namespace", n, ""), "", 0) : n \in {"a", "b", "d"}}
  \cup {Wish(<<Tool("", "t")>>, Choice(c, "", "t"), "", 0) : c \in {"function", "none", "required"}}

MCWords == {<<"media", "text">>}
MCResults == {<<"text">>, <<"media">>, <<"text", "media">>}
=============================================================================
