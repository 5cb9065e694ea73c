------------------------------ MODULE MCStream ------------------------------
(* Stream with replies of up to three blocks: texts, thoughts and calls of *)
(* one or two pieces, sealed or not.                                       *)
EXTENDS Stream

Block(k, n, sealed) == [k |-> k, n |-> n, sealed |-> sealed]
Text == {Block("text", n, FALSE) : n \in {1, 2}}
Tool == {Block("tool", n, FALSE) : n \in {0, 1}}
Open == {Block("think", 1, FALSE)}
Seal == {Block("think", n, TRUE) : n \in {0, 1}}

UpTo3(S) == {<<a>> : a \in S} \cup {<<a, b>> : a \in S, b \in S}
            \cup {<<a, b, c>> : a \in S, b \in S, c \in S}

(* Chat: the thought, the text, the calls.  Anthropic: no two thoughts in  *)
(* a row.                                                                  *)
Rank(b) == CASE b.k = "think" -> 1 [] b.k = "text" -> 2 [] OTHER -> 3
Ordered(bs) == \A i \in 1 .. Len(bs) - 1 :
                 Rank(bs[i]) < Rank(bs[i + 1]) \/ (bs[i].k = "tool" /\ bs[i + 1].k = "tool")
Spaced(bs)  == \A i \in 1 .. Len(bs) - 1 : bs[i].k = "think" => bs[i + 1].k # "think"

Reply(f, numbered, bs) == [from |-> f, numbered |-> numbered, blocks |-> bs]

MCReplies ==
  {Reply("chat", TRUE, bs) : bs \in {b \in UpTo3(Text \cup Tool \cup Open) : Ordered(b)}}
  \cup {Reply("anthropic", TRUE, bs) :
          bs \in {b \in UpTo3(Text \cup Tool \cup Open \cup Seal) : Spaced(b)}}
  \cup {Reply("responses", n, bs) :
          n \in BOOLEAN, bs \in UpTo3(Text \cup Tool \cup Open \cup Seal)}

(* The world interferes with these.                                        *)
MCTroubled ==
  {Reply("chat", TRUE, <<Block("think", 1, FALSE), Block("tool", 1, FALSE)>>),
   Reply("anthropic", TRUE, <<Block("think", 1, TRUE), Block("text", 1, FALSE)>>),
   Reply("responses", TRUE, <<Block("text", 1, FALSE), Block("tool", 0, FALSE)>>)}

MCFaults == {"truncated", "overflow", "transport"}
=============================================================================
