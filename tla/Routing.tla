------------------------------ MODULE Routing -------------------------------
(***************************************************************************)
(* The route index of a snapshot and what the data plane resolves with it  *)
(* (internal/routing/routing.go), filled from the rows of the database the *)
(* way internal/snapshot/rebuild.go does.  A model is the id of its row,   *)
(* which fixes its provider; a chain is a route's targets in the order of  *)
(* their positions.                                                        *)
(***************************************************************************)
EXTENDS Naturals, Sequences, FiniteSets

CONSTANTS Models, ProviderOf       \* rows of upstream_models, their provider

NoModel == "no model"
NoName  == "no name"

\* A target that can be called: it is enabled, its provider is there and
\* enabled, and its model is one of that provider's.
Callable(index, target) ==
  /\ target.on
  /\ index.provider[ProviderOf[target.model]] = "on"
  /\ index.name[target.model] # NoName

ModelOf(target) == target.model

\* The models of a chain's targets that can be called, in the order of the chain.
CallableAt(index, chain) == {i \in DOMAIN chain : Callable(index, chain[i])}

Usable(index, chain) ==
  LET at       == CallableAt(index, chain)
      place(i) == Cardinality({j \in at : j <= i})
  IN  [k \in 1 .. Cardinality(at) |-> ModelOf(chain[CHOOSE i \in at : place(i) = k])]

Own(index, r) == <<[model |-> index.route[r].head, on |-> TRUE]>>

(* Mutant: a route none of whose targets can be called falls back on its row. *)
BuildCandidatesOrOwn(index, r) ==
  IF CallableAt(index, index.chain[r]) # {} THEN Usable(index, index.chain[r])
  ELSE Usable(index, Own(index, r))

\* The candidates of a route: its callable targets in order; the model in the
\* route's own row counts only if the route has no targets at all.
BuildCandidates(index, r) ==
  Usable(index, IF index.chain[r] # <<>> THEN index.chain[r] ELSE Own(index, r))

\* A public name finds its route, and nothing if that is disabled; the caller
\* of an empty result answers that there is no such model.
Resolve(index, r) ==
  IF index.route[r].head # NoModel /\ index.route[r].enabled
  THEN BuildCandidates(index, r) ELSE <<>>

\* A name of the form provider/model calls one model of an enabled provider.
ResolveDirect(index, p, name) ==
  IF index.provider[p] # "on" THEN {}
  ELSE {m \in Models : ProviderOf[m] = p /\ index.name[m] = name}
=============================================================================
