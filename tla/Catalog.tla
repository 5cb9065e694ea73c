------------------------------ MODULE Catalog -------------------------------
(***************************************************************************)
(* Providers, their models, the routes with their chains of targets, and   *)
(* the groups models are counted in, under several administrators and a    *)
(* data plane that uses them: internal/admin/provider_handler.go,          *)
(* model_handler.go, route_handler.go, route_target_handler.go and         *)
(* model_group_handler.go over the tables of internal/store.               *)
(*                                                                         *)
(* A handler that edits a row reads it, changes the fields its request     *)
(* names and writes all of them back: two steps, between which others      *)
(* write.  What is read is checked where it is read.  Everything else is   *)
(* one transaction and one action.  Ids are never used twice, so an edit   *)
(* of a row that was deleted, or that refers to one, fails when it writes  *)
(* (no row, or a foreign key): it ends with the deletion.                  *)
(***************************************************************************)
EXTENDS Routing, FiniteSets, Functions

CONSTANTS
  Providers, Routes, Groups, Admins,
  NamesOf,    \* the names a provider's models may have
  Files,      \* exported configurations that may be imported
  Asked,      \* the chains of targets that requests may ask for
  Grouped,    \* a bound: the models administrators put into groups
  Assigned,   \* a bound: the providers and names they put there by name
  Recorded    \* a bound: the providers and names usage is recorded for

NoGroup == "no group"
Names   == UNION {NamesOf[p] : p \in Providers}

Distinct(c) == \A i, j \in DOMAIN c : c[i] = c[j] => i = j

\* A request for a chain names a model once at most and never asks for none;
\* an exported configuration has the names its own catalogue had: one model of
\* each name for a provider, one target of each model for a route, never none.
ASSUME CatalogConstants ==
  /\ NoModel \notin Models
  /\ ProviderOf \in [Models -> Providers]
  /\ \A p \in Providers : NoName \notin NamesOf[p]
  /\ Grouped \subseteq Models
  /\ {Assigned, Recorded} \subseteq SUBSET UNION {{p} \X NamesOf[p] : p \in Providers}
  /\ \A c \in Asked : /\ c \in Seq([model : Models, on : BOOLEAN]) /\ c # <<>>
                      /\ Distinct([i \in DOMAIN c |-> c[i].model])
  /\ \A f \in Files :
       /\ \A p \in DOMAIN f.providers : f.providers[p] \in {"on", "off"}
       /\ \A e \in f.models : /\ \A p \in Providers : e.name \in NamesOf[p]
                              /\ e.group \in f.groups \cup {NoGroup}
                              /\ \A d \in f.models : d.of = e.of /\ d.name = e.name => d = e
       /\ f.groups \subseteq Groups
       /\ DOMAIN f.providers \subseteq Providers /\ DOMAIN f.routes \subseteq Routes
       /\ \A r \in DOMAIN f.routes :
            LET targets == f.routes[r].targets
            IN  /\ targets \in Seq([of : Providers, name : Names, on : BOOLEAN])
                /\ targets # <<>> /\ f.routes[r].enabled \in BOOLEAN
                /\ Distinct([i \in DOMAIN targets |-> <<targets[i].of, targets[i].name>>])

VARIABLES
  provider,   \* rows of providers: "none", "on" or "off"
  name,       \* upstream_models.model_id, NoName where there is no row
  shadow,     \* upstream_models.group_id
  groups,     \* rows of model_groups
  member,     \* model_group_members, by provider and name
  used,       \* the providers and names usage was recorded for
  route,      \* rows of routes: the first choice and whether it is enabled
  chain,      \* route_targets of each route, by position
  op          \* each administrator's edit under way

configVars == <<provider, name, route, chain>>
groupVars  == <<shadow, groups, member>>
vars == <<provider, name, shadow, groups, member, used, route, chain, op>>

NoRoute == [head |-> NoModel, enabled |-> FALSE]
Idle    == [kind |-> "idle"]
Pairs   == UNION {{p} \X NamesOf[p] : p \in Providers}
PairOf(m, n) == <<ProviderOf[m], n>>

Index == [provider |-> provider, name |-> name, route |-> route, chain |-> chain]

Exists(m)    == name[m] # NoName
HasRow(pair) == \E m \in Models : Exists(m) /\ PairOf(m, name[m]) = pair
ModelsIn(c)  == {c[i].model : i \in DOMAIN c}
Referenced   == {route[r].head : r \in Routes}
                  \cup UNION {ModelsIn(chain[r]) : r \in Routes}

Init ==
  /\ provider = [p \in Providers |-> "on"]
  /\ name = [m \in Models |-> NoName]
  /\ shadow = [m \in Models |-> NoGroup]
  /\ groups = {}
  /\ member = [pair \in Pairs |-> NoGroup]
  /\ used = {}
  /\ route = [r \in Routes |-> NoRoute]
  /\ chain = [r \in Routes |-> <<>>]
  /\ op = [a \in Admins |-> Idle]

\* What an edit under way refers to, and the edits that a deletion ends.
RefersTo(edit) ==
  CASE edit.kind = "model"    -> {edit.id, edit.group}
    [] edit.kind = "route"    -> {edit.id, edit.row.head}
    [] edit.kind = "targets"  -> {edit.id} \cup ModelsIn(edit.chain)
    [] edit.kind = "idle"     -> {}
Refused(ids) ==
  op' = [a \in Admins |-> IF RefersTo(op[a]) \cap ids # {} THEN Idle ELSE op[a]]

Begin(a, edit) == op[a] = Idle /\ op' = [op EXCEPT ![a] = edit]
Done(a)        == op' = [op EXCEPT ![a] = Idle]

-----------------------------------------------------------------------------
(* Providers *)

CreateProvider(p) ==
  /\ provider[p] = "none"
  /\ provider' = [provider EXCEPT ![p] = "on"]
  /\ UNCHANGED <<name, route, chain, groupVars, used, op>>

\* The switch is all of the row that is modelled: a write of what was read
\* earlier, or of what the request says, is a write of either value.
UpdateProvider(p) ==
  /\ provider[p] # "none"
  /\ \E to \in {"on", "off"} \ {provider[p]} : provider' = [provider EXCEPT ![p] = to]
  /\ UNCHANGED <<name, route, chain, groupVars, used, op>>

\* deleteGroupMembershipsWithoutUsage
WithoutUnused(pairs) ==
  [pair \in Pairs |-> IF pair \in pairs \ used THEN NoGroup ELSE member[pair]]

\* Its models go with it, unless a route or a target still refers to it.
DeleteProvider(p) ==
  LET mine == {m \in Models : ProviderOf[m] = p}
  IN  /\ provider[p] # "none"
      /\ mine \cap Referenced = {}
      /\ provider' = [provider EXCEPT ![p] = "none"]
      /\ name' = [m \in Models |-> IF m \in mine THEN NoName ELSE name[m]]
      /\ shadow' = [m \in Models |-> IF m \in mine THEN NoGroup ELSE shadow[m]]
      /\ member' = WithoutUnused({p} \X NamesOf[p])
      /\ Refused({p} \cup mine)
      /\ UNCHANGED <<groups, used, route, chain>>

-----------------------------------------------------------------------------
(* Models *)

Free(m, n) == \A o \in Models \ {m} :
                ~(Exists(o) /\ PairOf(o, name[o]) = PairOf(m, n))

\* A name the provider has already is refused.
CreateModel(m, n) ==
  /\ ~Exists(m) /\ provider[ProviderOf[m]] # "none" /\ Free(m, n)
  /\ name' = [name EXCEPT ![m] = n]
  /\ UNCHANGED <<provider, route, chain, groupVars, used, op>>

\* ImportUpstreamModels, one transaction: a name the provider has already keeps
\* its row, every other one gets a row of its own.
ImportUpstreamModels(p, ns) ==
  LET mine == {m \in Models : ProviderOf[m] = p}
      new  == ns \ {name[m] : m \in mine}
  IN  \E row \in Injection(new, {m \in mine : ~Exists(m)}) :
        name' = [m \in Models |->
                   IF m \in Range(row) THEN CHOOSE n \in new : row[n] = m ELSE name[m]]

\* A choice of the list the provider itself gives, or models entered by hand.
ImportModels(p, ns) ==
  /\ provider[p] # "none"
  /\ ImportUpstreamModels(p, ns)
  /\ UNCHANGED <<provider, route, chain, groupVars, used, op>>

\* A new name is refused once there is usage under the old one.  The group
\* comes from the membership and is written back with the row.
ReadModel(a, m) ==
  /\ Exists(m)
  /\ \E n \in NamesOf[ProviderOf[m]] :
       /\ n # name[m] => PairOf(m, name[m]) \notin used
       /\ Begin(a, [kind |-> "model", id |-> m, name |-> n,
                    group |-> member[PairOf(m, name[m])]])
  /\ UNCHANGED <<configVars, groupVars, used>>

(* Mutant: the membership is moved, the model's own row keeps its group. *)
SetMembershipOnly(pairs, g) ==
  /\ member' = [pair \in Pairs |-> IF pair \in pairs THEN g ELSE member[pair]]
  /\ UNCHANGED shadow

\* setGroupMemberships on one pair: the membership and the column of its row.
SetMembership(pairs, g) ==
  /\ member' = [pair \in Pairs |-> IF pair \in pairs THEN g ELSE member[pair]]
  /\ shadow' = [m \in Models |->
                  IF Exists(m) /\ PairOf(m, name[m]) \in pairs THEN g ELSE shadow[m]]

\* UpdateUpstreamModel: a changed name takes the membership along, a changed
\* group is set.
StoreModel(m, n, g) ==
  LET old   == PairOf(m, name[m])
      new   == PairOf(m, n)
      moved == [member EXCEPT ![old] = NoGroup]
  IN  /\ name' = [name EXCEPT ![m] = n]
      /\ shadow' = [shadow EXCEPT ![m] = g]
      /\ member' = IF new # old
                   THEN IF g # NoGroup THEN [moved EXCEPT ![new] = g] ELSE moved
                   ELSE [member EXCEPT ![new] = g]

WriteModel(a) ==
  LET edit == op[a]
  IN  /\ edit.kind = "model"
      /\ IF Free(edit.id, edit.name)
         THEN StoreModel(edit.id, edit.name, edit.group)
         ELSE UNCHANGED <<name, shadow, member>>
      /\ Done(a)
      /\ UNCHANGED <<provider, route, chain, groups, used>>

\* A chain names a model once at most.
Without(c, m) ==
  LET at == {i \in DOMAIN c : c[i].model = m}
  IN  IF at = {} THEN c
      ELSE LET i == CHOOSE i \in at : TRUE
           IN  [j \in 1 .. Len(c) - 1 |-> IF j < i THEN c[j] ELSE c[j + 1]]

\* DeleteUpstreamModelDetaching: refused for the first choice of a route;
\* the chains that name it elsewhere close up.
DeleteModel(m) ==
  /\ Exists(m)
  /\ \A r \in Routes : /\ route[r].head # m
                       /\ chain[r] # <<>> => chain[r][1].model # m
  /\ chain' = [r \in Routes |-> Without(chain[r], m)]
  /\ name' = [name EXCEPT ![m] = NoName]
  /\ shadow' = [shadow EXCEPT ![m] = NoGroup]
  /\ member' = WithoutUnused({PairOf(m, name[m])})
  /\ Refused({m})
  /\ UNCHANGED <<provider, route, groups, used>>

\* A request that was routed to the model is recorded under its name.
Use(m) ==
  /\ PairOf(m, name[m]) \in Recorded /\ m \in ResolveDirect(Index, ProviderOf[m], name[m])
  /\ used' = used \cup {PairOf(m, name[m])}
  /\ UNCHANGED <<configVars, groupVars, op>>

-----------------------------------------------------------------------------
(* Groups *)

CreateGroup(g) ==
  /\ g \notin groups
  /\ groups' = groups \cup {g}
  /\ UNCHANGED <<configVars, shadow, member, used, op>>

DeleteGroup(g) ==
  /\ g \in groups
  /\ groups' = groups \ {g}
  /\ member' = [pair \in Pairs |-> IF member[pair] = g THEN NoGroup ELSE member[pair]]
  /\ shadow' = [m \in Models |-> IF shadow[m] = g THEN NoGroup ELSE shadow[m]]
  /\ Refused({g})
  /\ UNCHANGED <<configVars, used>>

\* The ids are resolved in the transaction that writes: one that is gone
\* refuses all of an assignment and is skipped when models leave their groups.
AssignModelsToGroup(ms, g) ==
  /\ g # NoGroup => \A m \in ms : Exists(m)
  /\ SetMembership({PairOf(m, name[m]) : m \in {o \in ms : Exists(o)}}, g)

AssignModels(ms, g) ==
  /\ ms # {} /\ g \in groups \cup {NoGroup}
  /\ AssignModelsToGroup(ms, g)
  /\ UNCHANGED <<configVars, groups, used, op>>

\* Meant for names that only history knows; any name is taken (here of Assigned).
AssignHistoryMembers(pairs, g) ==
  /\ pairs # {} /\ g \in groups \cup {NoGroup}
  /\ SetMembership(pairs, g)
  /\ UNCHANGED <<configVars, groups, used, op>>

\* A start of the process copies the columns of the models to the memberships
\* (the repair of memberships of names without a row of a model is left out).
Restart ==
  /\ member' = [pair \in Pairs |->
       LET rows == {m \in Models : /\ Exists(m) /\ PairOf(m, name[m]) = pair
                                   /\ shadow[m] # NoGroup}
       IN  IF rows = {} THEN member[pair] ELSE shadow[CHOOSE m \in rows : TRUE]]
  /\ op' = [a \in Admins |-> Idle]
  /\ UNCHANGED <<configVars, shadow, groups, used>>

-----------------------------------------------------------------------------
(* Routes and their chains *)

\* CreateRouteWithHeadTarget: a route is never without a chain.
NewChain(m) == <<[model |-> m, on |-> TRUE]>>

CreateRoute(r, m) ==
  /\ route[r] = NoRoute /\ Exists(m)
  /\ \E enabled \in BOOLEAN :
       route' = [route EXCEPT ![r] = [head |-> m, enabled |-> enabled]]
  /\ chain' = [chain EXCEPT ![r] = NewChain(m)]
  /\ UNCHANGED <<provider, name, groupVars, used, op>>

\* The request may name another model, the switch, or neither.
ReadRoute(a, r) ==
  /\ route[r] # NoRoute
  /\ \E m \in Models, enabled \in BOOLEAN :
       /\ Exists(m)
       /\ Begin(a, [kind |-> "route", id |-> r,
                    row |-> [head |-> m, enabled |-> enabled]])
  /\ UNCHANGED <<configVars, groupVars, used>>

(* Mutant: the model is put in the first place although it is in the chain. *)
SyncHeadOverwriting(c, m) ==
  IF c = <<>> THEN NewChain(m) ELSE [c EXCEPT ![1].model = m]

\* syncHeadTarget: the model comes first in the chain.  If it is already in
\* it, it changes places with the first target; otherwise it takes that one's
\* place and keeps its switch.
SyncHead(c, m) ==
  LET at == {i \in DOMAIN c : c[i].model = m}
  IN  IF c = <<>> THEN NewChain(m)
      ELSE IF at = {} THEN [c EXCEPT ![1].model = m]
      ELSE LET i == CHOOSE i \in at : TRUE
           IN  [j \in DOMAIN c |-> IF j = 1 THEN c[i] ELSE IF j = i THEN c[1] ELSE c[j]]

WriteRoute(a) ==
  LET r == op[a].id
  IN  /\ op[a].kind = "route"
      /\ route' = [route EXCEPT ![r] = op[a].row]
      /\ chain' = [chain EXCEPT ![r] = SyncHead(chain[r], op[a].row.head)]
      /\ Done(a)
      /\ UNCHANGED <<provider, name, groupVars, used>>

DeleteRoute(r) ==
  /\ route[r] # NoRoute
  /\ route' = [route EXCEPT ![r] = NoRoute]
  /\ chain' = [chain EXCEPT ![r] = <<>>]
  /\ Refused({r})
  /\ UNCHANGED <<provider, name, groupVars, used>>

\* All the models of a chain have to be there.
Chains == {c \in Asked : \A m \in ModelsIn(c) : Exists(m)}

ReadTargets(a, r) ==
  /\ route[r] # NoRoute
  /\ \E c \in Chains : Begin(a, [kind |-> "targets", id |-> r, chain |-> c])
  /\ UNCHANGED <<configVars, groupVars, used>>

\* ReplaceRouteTargets: the chain, and its first target in the route's row.
WriteTargets(a) ==
  LET r == op[a].id
      c == op[a].chain
  IN  /\ op[a].kind = "targets"
      /\ chain' = [chain EXCEPT ![r] = c]
      /\ route' = [route EXCEPT ![r].head = c[1].model]
      /\ Done(a)
      /\ UNCHANGED <<provider, name, groupVars, used>>

-----------------------------------------------------------------------------
(* Import of an exported configuration, which only adds.  A file names its   *)
(* providers, models and routes; a provider's id stands for its name.        *)

\* Which providers a file's names stand for.  The list of providers is read
\* before the transaction, so what it writes to, one by one: a provider the file
\* brings has its own name, or another one if that was taken then; any other is
\* one that was there then and is there still.
Meanings(f) ==
  {to \in [DOMAIN f.providers -> Providers] \X SUBSET (Providers \ DOMAIN f.providers) :
     /\ IsInjective(to[1])
     /\ \A p \in DOMAIN f.providers : provider[to[1][p]] = "none"
     /\ \A p \in to[2] : provider[p] # "none"}
IdOf(to) == [p \in DOMAIN to[1] \cup to[2] |-> IF p \in to[2] THEN p ELSE to[1][p]]

\* attach: models that are there are kept; new ones come with the group that is
\* named, which is made if need be.  row: the row each new model gets.
NewModels(f, id) ==
  {e \in f.models : e.of \in DOMAIN id /\ ~HasRow(<<id[e.of], e.name>>)}

Attach(f, row) ==
  LET entry(m) == CHOOSE e \in DOMAIN row : row[e] = m
      grouped(pair) == {m \in Range(row) : /\ entry(m).group # NoGroup
                                           /\ PairOf(m, entry(m).name) = pair}
  IN  /\ name' = [m \in Models |-> IF m \in Range(row) THEN entry(m).name ELSE name[m]]
      /\ shadow' = [m \in Models |-> IF m \in Range(row) THEN entry(m).group ELSE shadow[m]]
      /\ member' = [pair \in Pairs |->
                      IF grouped(pair) = {} THEN member[pair]
                      ELSE entry(CHOOSE m \in grouped(pair) : TRUE).group]
      /\ groups' = groups \cup f.groups

\* applyRoutes: a public name that is taken is left alone, and a route one of
\* whose targets is not found is left out altogether.
ApplyRoutes(f, id) ==
  LET targets(r) == f.routes[r].targets
      found(t) == {m \in Models : /\ t.of \in DOMAIN id /\ ProviderOf[m] = id[t.of]
                                  /\ name'[m] = t.name}
      resolved(t) == [model |-> CHOOSE m \in found(t) : TRUE, on |-> t.on]
      new == {r \in DOMAIN f.routes :
                route[r] = NoRoute /\ \A t \in Range(targets(r)) : found(t) # {}}
  IN  /\ chain' = [r \in Routes |-> IF r \notin new THEN chain[r]
                     ELSE [i \in DOMAIN targets(r) |-> resolved(targets(r)[i])]]
      /\ route' = [r \in Routes |-> IF r \notin new THEN route[r]
                     ELSE [head |-> chain'[r][1].model, enabled |-> f.routes[r].enabled]]

\* One transaction: a name that was taken meanwhile takes all of it back.
Import(f) ==
  /\ \E to \in Meanings(f) :
       LET id == IdOf(to)
           brought(p) == {q \in DOMAIN f.providers : to[1][q] = p}
       IN  /\ provider' = [p \in Providers |-> IF brought(p) = {} THEN provider[p]
                             ELSE f.providers[CHOOSE q \in brought(p) : TRUE]]
           /\ \E row \in Injection(NewModels(f, id), {m \in Models : ~Exists(m)}) :
                /\ \A e \in DOMAIN row : ProviderOf[row[e]] = id[e.of]
                /\ Attach(f, row)
           /\ ApplyRoutes(f, id)
  /\ UNCHANGED <<used, op>>

-----------------------------------------------------------------------------

Next ==
  \/ \E p \in Providers :
       \/ CreateProvider(p) \/ UpdateProvider(p) \/ DeleteProvider(p)
       \/ \E ns \in (SUBSET NamesOf[p]) \ {{}} : ImportModels(p, ns)
  \/ \E m \in Models :
       \/ \E n \in NamesOf[ProviderOf[m]] : CreateModel(m, n)
       \/ DeleteModel(m) \/ Use(m)
  \/ \E g \in Groups : CreateGroup(g) \/ DeleteGroup(g)
  \/ \E g \in Groups \cup {NoGroup} :
       \/ \E ms \in SUBSET Grouped : AssignModels(ms, g)
       \/ \E pairs \in SUBSET Assigned : AssignHistoryMembers(pairs, g)
  \/ \E r \in Routes : (\E m \in Models : CreateRoute(r, m)) \/ DeleteRoute(r)
  \/ \E a \in Admins :
       \/ \E m \in Models : ReadModel(a, m)
       \/ \E r \in Routes : ReadRoute(a, r) \/ ReadTargets(a, r)
       \/ WriteModel(a) \/ WriteRoute(a) \/ WriteTargets(a)
  \/ \E f \in Files : Import(f)
  \/ Restart

Spec == Init /\ [][Next]_vars

-----------------------------------------------------------------------------

\* The chain and the first choice in the route's row, which are written by
\* different handlers from what they read earlier, stay one: a route that
\* exists has a chain, the model its row shows (and the model list marks as a
\* route's head) is its first target, no model is tried twice, and whatever
\* administrators delete meanwhile every target still names a model that is
\* there.
ChainSound ==
  \A r \in Routes :
    IF route[r] = NoRoute THEN chain[r] = <<>>
    ELSE /\ chain[r] # <<>>
         /\ route[r].head = chain[r][1].model
         /\ Cardinality(ModelsIn(chain[r])) = Len(chain[r])
         /\ \A m \in ModelsIn(chain[r]) : Exists(m)

\* A restart changes nobody's group: where a model's own row names a group, the
\* membership that the statistics use says the same, so copying it over
\* (schema.go) never undoes an assignment made since.
ShadowAgrees ==
  \A m \in Models :
    Exists(m) /\ shadow[m] # NoGroup => member[PairOf(m, name[m])] = shadow[m]

\* What a route shows is what it serves: an enabled route whose first target
\* can be called is resolved to it, and a route that has some callable target is
\* never answered as an unknown model.
ShownIsServed ==
  \A r \in Routes :
    LET served == Resolve(Index, r)
        shown  == [model |-> route[r].head, on |-> TRUE]
    IN  route[r].enabled =>
          /\ Callable(Index, chain[r][1]) => served # <<>> /\ served[1] = shown.model
          /\ (served = <<>>) = (\A i \in DOMAIN chain[r] : ~Callable(Index, chain[r][i]))
=============================================================================
