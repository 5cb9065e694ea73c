------------------------------- MODULE Effort -------------------------------
(***************************************************************************)
(* How much a model is asked to think: the levels, how a client's wish is  *)
(* moved to the nearest level a model knows, and what is left of it in     *)
(* each family's protocol.  No state.                                      *)
(* Sources: internal/effort/effort.go, internal/ingress/request.go,        *)
(* internal/inwire (the Thinking part of the three ToRosetta).             *)
(***************************************************************************)
EXTENDS Integers, SequencesExt

KnownLevels == <<"minimal", "low", "medium", "high", "xhigh", "max">>

RankOf(l) == IF Contains(KnownLevels, l)
             THEN CHOOSE i \in DOMAIN KnownLevels : KnownLevels[i] = l ELSE -1

(* normalizeAlias, one spelling of each kind; "" is Unset.                 *)
Parse(s) ==
  CASE s \in {"none", "off", "disabled"} -> "none"
    [] s \in {"min"}                     -> "minimal"
    [] s \in {"mid", "default"}          -> "medium"
    [] s \in {"x-high", "very_high"}     -> "xhigh"
    [] s \in {"maximum"}                 -> "max"
    [] Contains(KnownLevels, s)          -> s
    [] OTHER                             -> ""

(* The configured list: known levels, once each, from weak to strong.      *)
ParseLevels(csv) ==
  SetToSortSeq({Parse(csv[i]) : i \in DOMAIN csv} \ {"", "none"},
               LAMBDA a, b : RankOf(a) < RankOf(b))

Distance(a, b) == IF RankOf(a) < RankOf(b) THEN RankOf(b) - RankOf(a)
                        ELSE RankOf(a) - RankOf(b)

(* Mutant: the candidates are compared by strength alone.                  *)
CloserStrongest(wanted, best, s) == best = "" \/ RankOf(s) > RankOf(best)

(* Nearer than the best so far, or as near and stronger.                   *)
Closer(wanted, best, s) ==
  \/ best = ""
  \/ Distance(s, wanted) < Distance(best, wanted)
  \/ Distance(s, wanted) = Distance(best, wanted) /\ RankOf(s) > RankOf(best)

Clamp(wanted, supported) ==
  LET known == SelectSeq(supported, LAMBDA s : RankOf(s) >= 0)
  IN  IF known = <<>> \/ RankOf(wanted) < 0 THEN wanted
      ELSE FoldLeft(LAMBDA best, s : IF Closer(wanted, best, s) THEN s ELSE best, "", known)

Supports(wanted, supported) ==
  wanted = "" \/ supported = <<>> \/ Contains(supported, wanted)

(* The SDK has three levels.                                               *)
ToRosettaLevel(l) ==
  CASE l \in {"minimal", "low"}       -> "low"
    [] l \in {"high", "xhigh", "max"} -> "high"
    [] OTHER                          -> "medium"

ToThinkingLevel(l) == IF l \in {"", "none"} THEN "" ELSE ToRosettaLevel(l)

-----------------------------------------------------------------------------
(* A thinking configuration: a level as it is written (EffortRaw), one of  *)
(* the SDK's, or a budget.                                                 *)
Thinking(raw, effort, budget) == [raw |-> raw, effort |-> effort, budget |-> budget]
NoThinking == Thinking("", "", 0)

(* What the client asks: a spelling (Chat, Responses) or a budget          *)
(* (Anthropic), which stands for a level elsewhere.                        *)
RawEffort(wish) ==
  CASE wish.budget = 0 -> wish.spelt
    [] wish.budget \in 1 .. 4096 -> "low"
    [] wish.budget \in 4097 .. 16384 -> "medium"
    [] OTHER -> "high"

Asked(wish) ==
  CASE wish.budget > 0 -> Thinking("", "", wish.budget)
    [] wish.budget = 0 -> Thinking("", ToThinkingLevel(Parse(wish.spelt)), 0)

(* ApplyThinkingCapability, for a model that may not think at all or only  *)
(* at some levels, behind a family's protocol.                             *)
ApplyThinkingCapability(th, wish, model) ==
  LET wanted  == Parse(RawEffort(wish))
      applied == IF Supports(wanted, model.levels) THEN wanted
                 ELSE Clamp(wanted, model.levels)
  IN  CASE th = NoThinking \/ model.thinks = "no" -> NoThinking
        [] th # NoThinking /\ model.thinks # "no" ->
             CASE model.family = "anthropic" /\ wish.budget > 0 -> Thinking("", "", wish.budget)
               [] wanted = "" /\ wish.budget = 0 -> th
               [] model.family = "anthropic" /\ wish.budget = 0 /\ wanted # "" ->
                    Thinking("", ToRosettaLevel(applied), 0)
               [] model.family # "anthropic" /\ wanted # "" -> Thinking(applied, "", 0)
=============================================================================
