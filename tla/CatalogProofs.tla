--------------------------- MODULE CatalogProofs ----------------------------
(* Catalog, for any providers, models, routes, groups and administrators and *)
(* any files, from CatalogConstants alone: what the chains of the routes and *)
(* the groups of the models stay like.                                       *)
EXTENDS Catalog, FiniteSetTheorems, TLAPS

Target == [model : Models, on : BOOLEAN]

Edit ==
  {Idle}
    \cup [kind : {"model"}, id : Models, name : Names, group : Groups \cup {NoGroup}]
    \cup [kind : {"route"}, id : Routes, row : [head : Models, enabled : BOOLEAN]]
    \cup [kind : {"targets"}, id : Routes, chain : Asked]

NamesOK(nm) ==
  /\ nm \in [Models -> Names \cup {NoName}]
  /\ \A m \in Models : nm[m] \in NamesOf[ProviderOf[m]] \cup {NoName}

EditsOK ==
  /\ op \in [Admins -> Edit]
  /\ \A a \in Admins : op[a].kind = "model" => op[a].name \in NamesOf[ProviderOf[op[a].id]]

TypeOK ==
  /\ provider \in [Providers -> {"none", "on", "off"}]
  /\ NamesOK(name)
  /\ shadow \in [Models -> Groups \cup {NoGroup}] /\ groups \in SUBSET Groups
  /\ member \in [Pairs -> Groups \cup {NoGroup}] /\ used \in SUBSET Pairs
  /\ route \in [Routes -> [head : Models, enabled : BOOLEAN] \cup {NoRoute}]
  /\ chain \in [Routes -> Seq(Target)]
  /\ EditsOK

(* A row of a route has a head.                                              *)
LEMMA HeadedRow ==
  ASSUME NEW w, w.head \in Models
  PROVE  w # NoRoute
<1>1. NoRoute.head = NoModel
  BY DEF NoRoute
<1> QED
  BY <1>1, CatalogConstants

(* What an edit under way refers to, by its kind.                            *)
LEMMA EditKinds ==
  ASSUME NEW e \in Edit
  PROVE  /\ e.kind = "model" => e.id \in Models /\ e.group \in Groups \cup {NoGroup}
         /\ e.kind \in {"route", "targets"} => e.id \in Routes
BY DEF Edit, Idle

-----------------------------------------------------------------------------
(* The inductive invariants.  Chains: what an edit under way refers to is    *)
(* there, since a deletion ends the edits that refer to it.                  *)

Single(c) == \A i, j \in DOMAIN c : c[i].model = c[j].model => i = j

Whole(c) == c # <<>> /\ Single(c) /\ \A i \in DOMAIN c : Exists(c[i].model)

RouteSound(r) ==
  IF route[r] = NoRoute THEN chain[r] = <<>>
  ELSE Whole(chain[r]) /\ route[r].head = chain[r][1].model

EditSound(e) ==
  /\ e.kind = "route" => route[e.id] # NoRoute /\ Exists(e.row.head)
  /\ e.kind = "targets" => route[e.id] # NoRoute /\ Whole(e.chain)

Chained ==
  TypeOK /\ (\A r \in Routes : RouteSound(r)) /\ (\A a \in Admins : EditSound(op[a]))

(* Groups: a name belongs to one row of its provider, so that a membership   *)
(* is shadowed by one row only.                                              *)
OneRow(m, o) == Exists(m) /\ Exists(o) /\ PairOf(m, name[m]) = PairOf(o, name[o]) => m = o

GroupSound(m) ==
  /\ ~Exists(m) => shadow[m] = NoGroup
  /\ Exists(m) /\ shadow[m] # NoGroup => member[PairOf(m, name[m])] = shadow[m]

Grouping ==
  TypeOK /\ (\A m, o \in Models : OneRow(m, o)) /\ (\A m \in Models : GroupSound(m))

-----------------------------------------------------------------------------
(* Types.                                                                    *)

LEMMA RowTypes ==
  ASSUME TypeOK, NEW m \in Models
  PROVE  /\ ProviderOf[m] \in Providers
         /\ Exists(m) => /\ name[m] \in NamesOf[ProviderOf[m]] /\ name[m] \in Names
                         /\ PairOf(m, name[m]) \in Pairs
BY CatalogConstants DEF TypeOK, NamesOK, Exists, PairOf, Pairs, Names

LEMMA NameTypes ==
  ASSUME NEW m \in Models, NEW n \in NamesOf[ProviderOf[m]]
  PROVE  n \in Names /\ n # NoName /\ PairOf(m, n) \in Pairs
BY CatalogConstants DEF Names, Pairs, PairOf

LEMMA EditsStay ==
  ASSUME EditsOK
  PROVE  /\ UNCHANGED op => EditsOK'
         /\ \A ids : Refused(ids) => EditsOK'
         /\ \A a \in Admins : Done(a) => EditsOK'
         /\ \A a \in Admins, e \in Edit :
              /\ Begin(a, e)
              /\ e.kind = "model" => e.name \in NamesOf[ProviderOf[e.id]]
              => EditsOK'
<1>1. Idle \in Edit /\ Idle.kind # "model"
  BY DEF Edit, Idle
<1>2. ASSUME NEW ids, Refused(ids)
      PROVE  EditsOK'
  BY <1>1, <1>2 DEF EditsOK, Refused
<1>3. ASSUME NEW a \in Admins, Done(a)
      PROVE  EditsOK'
  BY <1>1, <1>3 DEF EditsOK, Done
<1>4. ASSUME NEW a \in Admins, NEW e \in Edit, Begin(a, e),
             e.kind = "model" => e.name \in NamesOf[ProviderOf[e.id]]
      PROVE  EditsOK'
  BY <1>4 DEF EditsOK, Begin
<1> QED
  BY <1>2, <1>3, <1>4 DEF EditsOK

LEMMA NamesFrom ==
  ASSUME NEW nm, DOMAIN nm = Models, nm = [m \in Models |-> nm[m]],
         \A m \in Models : nm[m] \in NamesOf[ProviderOf[m]] \cup {NoName}
  PROVE  NamesOK(nm)
<1>1. \A m \in Models : nm[m] \in Names \cup {NoName}
  BY NameTypes
<1> QED
  BY <1>1 DEF NamesOK

LEMMA TypeInit == Init => TypeOK
BY DEF Init, TypeOK, NamesOK, EditsOK, Edit, Idle, Target

LEMMA TypeProviders ==
  ASSUME TypeOK, NEW p \in Providers,
         \/ CreateProvider(p) \/ UpdateProvider(p) \/ DeleteProvider(p)
         \/ \E ns \in (SUBSET NamesOf[p]) \ {{}} : ImportModels(p, ns)
  PROVE  TypeOK'
<1> USE DEF TypeOK, configVars, groupVars
<1>1. CASE CreateProvider(p)
  BY <1>1, EditsStay DEF CreateProvider
<1>2. CASE UpdateProvider(p)
  BY <1>2, EditsStay DEF UpdateProvider
<1>3. CASE DeleteProvider(p)
  <2>1. EditsOK'
    BY <1>3, EditsStay DEF DeleteProvider
  <2>2. NamesOK(name')
    BY <1>3 DEF DeleteProvider, NamesOK
  <2>3. /\ shadow' \in [Models -> Groups \cup {NoGroup}]
        /\ member' \in [Pairs -> Groups \cup {NoGroup}]
    BY <1>3 DEF DeleteProvider, WithoutUnused
  <2> QED
    BY <1>3, <2>1, <2>2, <2>3 DEF DeleteProvider
<1>4. ASSUME NEW ns \in (SUBSET NamesOf[p]) \ {{}}, ImportModels(p, ns)
      PROVE  TypeOK'
  <2> DEFINE mine == {m \in Models : ProviderOf[m] = p}
             new == ns \ {name[m] : m \in mine}
  <2>1. PICK row \in Injection(new, {m \in mine : ~Exists(m)}) :
          name' = [m \in Models |->
                     IF m \in Range(row) THEN CHOOSE n \in new : row[n] = m ELSE name[m]]
    BY <1>4, Zenon DEF ImportModels, ImportUpstreamModels
  <2>2. ASSUME NEW m \in Models
        PROVE  name'[m] \in NamesOf[ProviderOf[m]] \cup {NoName}
    <3>1. CASE m \in Range(row)
      <4>1. PICK n \in new : row[n] = m
        BY <2>1, <3>1 DEF Range, Injection
      <4>2. name'[m] \in new
        BY <2>1, <3>1, <4>1
      <4>3. ProviderOf[m] = p
        BY <2>1, <4>1 DEF Injection
      <4> QED
        BY <4>2, <4>3
    <3>2. CASE m \notin Range(row)
      BY <2>1, <3>2 DEF NamesOK
    <3> QED
      BY <3>1, <3>2
  <2>3. NamesOK(name')
    <3> DEFINE to(m) == IF m \in Range(row) THEN CHOOSE n \in new : row[n] = m ELSE name[m]
    <3>1. name' = [m \in Models |-> to(m)]
      BY <2>1, Zenon
    <3> HIDE DEF to
    <3> QED
      BY <2>2, <3>1, NamesFrom
  <2> QED
    BY <1>4, <2>3, EditsStay DEF ImportModels
<1> QED
  BY <1>1, <1>2, <1>3, <1>4

LEMMA TypeModels ==
  ASSUME TypeOK, NEW m \in Models,
         \/ \E n \in NamesOf[ProviderOf[m]] : CreateModel(m, n)
         \/ DeleteModel(m) \/ Use(m)
  PROVE  TypeOK'
<1> USE DEF TypeOK, configVars, groupVars
<1>1. ASSUME NEW n \in NamesOf[ProviderOf[m]], CreateModel(m, n)
      PROVE  TypeOK'
  <2>1. NamesOK(name')
    BY <1>1, NameTypes DEF CreateModel, NamesOK
  <2> QED
    BY <1>1, <2>1, EditsStay DEF CreateModel
<1>2. CASE DeleteModel(m)
  <2>1. EditsOK' /\ NamesOK(name')
    BY <1>2, EditsStay DEF DeleteModel, NamesOK
  <2>2. /\ shadow' \in [Models -> Groups \cup {NoGroup}]
        /\ member' \in [Pairs -> Groups \cup {NoGroup}]
    BY <1>2 DEF DeleteModel, WithoutUnused
  <2>3. ASSUME NEW c \in Seq(Target)
        PROVE  Without(c, m) \in Seq(Target)
    <3> DEFINE at == {i \in DOMAIN c : c[i].model = m}
    <3>1. CASE at = {}
      BY <3>1 DEF Without
    <3>2. CASE at # {}
      <4> DEFINE i == CHOOSE i \in at : TRUE
                 d == [j \in 1 .. Len(c) - 1 |-> IF j < i THEN c[j] ELSE c[j + 1]]
      <4>1. i \in 1 .. Len(c)
        BY <3>2
      <4> HIDE DEF i
      <4>2. d \in [1 .. Len(c) - 1 -> Target] /\ Len(c) - 1 \in Nat
        BY <4>1
      <4>3. d \in Seq(Target)
        BY <4>2
      <4> QED
        BY <3>2, <4>3 DEF Without, i
    <3> QED
      BY <3>1, <3>2
  <2>4. chain' \in [Routes -> Seq(Target)]
    BY <1>2, <2>3 DEF DeleteModel
  <2> QED
    BY <1>2, <2>1, <2>2, <2>4 DEF DeleteModel
<1>3. CASE Use(m)
  BY <1>3, EditsStay, CatalogConstants DEF Use, Pairs
<1> QED
  BY <1>1, <1>2, <1>3

LEMMA TypeGroups ==
  ASSUME TypeOK,
         \/ \E g \in Groups : CreateGroup(g) \/ DeleteGroup(g)
         \/ \E g \in Groups \cup {NoGroup} :
              \/ \E ms \in SUBSET Grouped : AssignModels(ms, g)
              \/ \E pairs \in SUBSET Assigned : AssignHistoryMembers(pairs, g)
         \/ Restart
  PROVE  TypeOK'
<1> USE DEF TypeOK, configVars, groupVars
<1>1. ASSUME NEW g \in Groups, CreateGroup(g)
      PROVE  TypeOK'
  BY <1>1, EditsStay DEF CreateGroup
<1>2. ASSUME NEW g \in Groups, DeleteGroup(g)
      PROVE  TypeOK'
  BY <1>2, EditsStay DEF DeleteGroup
<1>3. ASSUME NEW pairs, NEW g \in Groups \cup {NoGroup}, SetMembership(pairs, g)
      PROVE  /\ shadow' \in [Models -> Groups \cup {NoGroup}]
             /\ member' \in [Pairs -> Groups \cup {NoGroup}]
  BY <1>3 DEF SetMembership
<1>4. ASSUME NEW g \in Groups \cup {NoGroup}, NEW ms \in SUBSET Grouped, AssignModels(ms, g)
      PROVE  TypeOK'
  BY <1>3, <1>4, EditsStay DEF AssignModels, AssignModelsToGroup
<1>5. ASSUME NEW g \in Groups \cup {NoGroup}, NEW pairs \in SUBSET Assigned,
             AssignHistoryMembers(pairs, g)
      PROVE  TypeOK'
  BY <1>3, <1>5, EditsStay DEF AssignHistoryMembers
<1>6. CASE Restart
  <2>1. EditsOK'
    BY <1>6 DEF Restart, EditsOK, Edit, Idle
  <2>2. ASSUME NEW pair \in Pairs
        PROVE  member'[pair] \in Groups \cup {NoGroup}
    <3> DEFINE rows == {m \in Models : Exists(m) /\ PairOf(m, name[m]) = pair /\ shadow[m] # NoGroup}
    <3>1. CASE rows = {}
      BY <1>6, <3>1 DEF Restart
    <3>2. CASE rows # {}
      <4>1. (CHOOSE m \in rows : TRUE) \in Models
        BY <3>2
      <4>2. member'[pair] = shadow[CHOOSE m \in rows : TRUE]
        BY <1>6, <3>2 DEF Restart
      <4> QED
        BY <4>1, <4>2
    <3> QED
      BY <3>1, <3>2
  <2> DEFINE new(pair) ==
        LET rows == {m \in Models : Exists(m) /\ PairOf(m, name[m]) = pair /\ shadow[m] # NoGroup}
        IN  IF rows = {} THEN member[pair] ELSE shadow[CHOOSE m \in rows : TRUE]
  <2>3. member' = [pair \in Pairs |-> new(pair)]
    BY <1>6 DEF Restart
  <2> HIDE DEF new
  <2>4. member' \in [Pairs -> Groups \cup {NoGroup}]
    BY <2>2, <2>3
  <2> QED
    BY <1>6, <2>1, <2>4 DEF Restart
<1> QED
  BY <1>1, <1>2, <1>4, <1>5, <1>6

LEMMA ChainTypes ==
  /\ \A m \in Models : NewChain(m) \in Seq(Target) /\ NewChain(m) # <<>>
  /\ \A n \in Nat : \A d : d \in [1 .. n -> Target] => d \in Seq(Target)
  /\ \A c \in Seq(Target) : c # <<>> => 1 \in DOMAIN c
  /\ \A c \in Seq(Target) : \A i \in DOMAIN c : c[i] \in Target /\ c[i].model \in Models
<1>1. ASSUME NEW m \in Models
      PROVE  NewChain(m) \in Seq(Target) /\ NewChain(m) # <<>>
  <2>1. [model |-> m, on |-> TRUE] \in Target
    BY DEF Target
  <2> QED
    BY <2>1 DEF NewChain
<1>2. ASSUME NEW c \in Seq(Target), NEW i \in DOMAIN c
      PROVE  c[i] \in Target /\ c[i].model \in Models
  <2>1. c[i] \in Target
    OBVIOUS
  <2> QED
    BY <2>1 DEF Target
<1> QED
  BY <1>1, <1>2

LEMMA AskedSound ==
  ASSUME NEW c \in Asked
  PROVE  c \in Seq(Target) /\ c # <<>> /\ Single(c) /\ 1 \in DOMAIN c
<1>1. c \in Seq(Target) /\ c # <<>>
  BY CatalogConstants DEF Target
<1>2. Distinct([i \in DOMAIN c |-> c[i].model])
  BY CatalogConstants
<1> QED
  BY <1>1, <1>2 DEF Single, Distinct

LEMMA SyncTyped ==
  ASSUME NEW c \in Seq(Target), NEW m \in Models
  PROVE  SyncHead(c, m) \in Seq(Target)
<1> DEFINE at == {i \in DOMAIN c : c[i].model = m}
<1>1. CASE c = <<>>
  BY <1>1, ChainTypes DEF SyncHead
<1>2. CASE c # <<>> /\ at = {}
  <2>0. c[1] \in Target /\ 1 \in DOMAIN c /\ c \in [1 .. Len(c) -> Target]
    BY <1>2, ChainTypes
  <2>1. [c[1] EXCEPT !.model = m] \in Target
    BY <2>0 DEF Target
  <2>2. [c EXCEPT ![1].model = m] \in [1 .. Len(c) -> Target]
    BY <2>0, <2>1
  <2> QED
    BY <1>2, <2>2, ChainTypes DEF SyncHead
<1>3. CASE c # <<>> /\ at # {}
  <2> DEFINE i == CHOOSE i \in at : TRUE
             d == [j \in DOMAIN c |-> IF j = 1 THEN c[i] ELSE IF j = i THEN c[1] ELSE c[j]]
  <2>1. i \in DOMAIN c /\ 1 \in DOMAIN c
    BY <1>3
  <2> HIDE DEF i
  <2>2. d \in [1 .. Len(c) -> Target] /\ Len(c) \in Nat
    BY <2>1
  <2>3. d \in Seq(Target)
    BY <2>2
  <2> QED
    BY <1>3, <2>3 DEF SyncHead, i
<1> QED
  BY <1>1, <1>2, <1>3

LEMMA TypeRoutes ==
  ASSUME TypeOK, NEW r \in Routes, (\E m \in Models : CreateRoute(r, m)) \/ DeleteRoute(r)
  PROVE  TypeOK'
<1> USE DEF TypeOK, groupVars
<1>1. ASSUME NEW m \in Models, CreateRoute(r, m)
      PROVE  TypeOK'
  <2>1. route' \in [Routes -> [head : Models, enabled : BOOLEAN] \cup {NoRoute}]
    BY <1>1 DEF CreateRoute
  <2>2. chain' \in [Routes -> Seq(Target)]
    BY <1>1, ChainTypes DEF CreateRoute
  <2> QED
    BY <1>1, <2>1, <2>2, EditsStay DEF CreateRoute
<1>2. CASE DeleteRoute(r)
  BY <1>2, EditsStay DEF DeleteRoute
<1> QED
  BY <1>1, <1>2

LEMMA TypeEdits ==
  ASSUME TypeOK, NEW a \in Admins,
         \/ \E m \in Models : ReadModel(a, m)
         \/ \E r \in Routes : ReadRoute(a, r) \/ ReadTargets(a, r)
         \/ WriteModel(a) \/ WriteRoute(a) \/ WriteTargets(a)
  PROVE  TypeOK'
<1> USE DEF TypeOK, configVars, groupVars
<1>1. ASSUME NEW m \in Models, ReadModel(a, m)
      PROVE  TypeOK'
  <2>1. PICK n \in NamesOf[ProviderOf[m]] :
          Begin(a, [kind |-> "model", id |-> m, name |-> n, group |-> member[PairOf(m, name[m])]])
    BY <1>1 DEF ReadModel
  <2>2. n \in Names /\ member[PairOf(m, name[m])] \in Groups \cup {NoGroup}
    BY <1>1, NameTypes, RowTypes DEF ReadModel
  <2>3. EditsOK'
    BY <2>1, <2>2, EditsStay DEF Edit
  <2> QED
    BY <1>1, <2>3 DEF ReadModel
<1>2. ASSUME NEW r \in Routes, ReadRoute(a, r)
      PROVE  TypeOK'
  <2>1. EditsOK'
    BY <1>2, EditsStay DEF ReadRoute, Edit
  <2> QED
    BY <1>2, <2>1 DEF ReadRoute
<1>3. ASSUME NEW r \in Routes, ReadTargets(a, r)
      PROVE  TypeOK'
  <2>1. EditsOK'
    BY <1>3, EditsStay DEF ReadTargets, Edit, Chains
  <2> QED
    BY <1>3, <2>1 DEF ReadTargets
<1>4. CASE WriteModel(a)
  <2>1. EditsOK'
    BY <1>4, EditsStay DEF WriteModel
  <2>2. /\ op[a].id \in Models /\ op[a].group \in Groups \cup {NoGroup}
        /\ op[a].name \in NamesOf[ProviderOf[op[a].id]] /\ op[a].name \in Names
    BY <1>4, NameTypes DEF WriteModel, EditsOK, Edit, Idle
  <2>3. CASE UNCHANGED <<name, shadow, member>>
    BY <1>4, <2>1, <2>3 DEF WriteModel
  <2>4. CASE StoreModel(op[a].id, op[a].name, op[a].group)
    <3>1. NamesOK(name')
      BY <2>2, <2>4 DEF StoreModel, NamesOK
    <3>2. shadow' \in [Models -> Groups \cup {NoGroup}]
      BY <2>2, <2>4 DEF StoreModel
    <3>3. member' \in [Pairs -> Groups \cup {NoGroup}]
      BY <2>2, <2>4 DEF StoreModel
    <3> QED
      BY <1>4, <2>1, <3>1, <3>2, <3>3 DEF WriteModel
  <2> QED
    BY <1>4, <2>3, <2>4 DEF WriteModel
<1>5. CASE WriteRoute(a)
  <2>1. EditsOK'
    BY <1>5, EditsStay DEF WriteRoute
  <2>2. op[a].id \in Routes /\ op[a].row \in [head : Models, enabled : BOOLEAN]
    BY <1>5 DEF WriteRoute, EditsOK, Edit, Idle
  <2>3. SyncHead(chain[op[a].id], op[a].row.head) \in Seq(Target)
    BY <2>2, SyncTyped
  <2> QED
    BY <1>5, <2>1, <2>2, <2>3 DEF WriteRoute
<1>6. CASE WriteTargets(a)
  <2>1. EditsOK'
    BY <1>6, EditsStay DEF WriteTargets
  <2>2. op[a].id \in Routes /\ op[a].chain \in Asked
    BY <1>6 DEF WriteTargets, EditsOK, Edit, Idle
  <2>3. op[a].chain \in Seq(Target) /\ op[a].chain[1].model \in Models
    BY <2>2, AskedSound, ChainTypes
  <2>4. chain' \in [Routes -> Seq(Target)]
    BY <1>6, <2>2, <2>3 DEF WriteTargets
  <2>5. [route[op[a].id] EXCEPT !.head = op[a].chain[1].model] \in [head : Models, enabled : BOOLEAN]
    <3>1. route[op[a].id] \in [head : Models, enabled : BOOLEAN] \cup {NoRoute}
      BY <2>2
    <3>2. ASSUME NEW x \in [head : Models, enabled : BOOLEAN] \cup {NoRoute}, NEW m \in Models
          PROVE  [x EXCEPT !.head = m] \in [head : Models, enabled : BOOLEAN]
      <4>1. CASE x = NoRoute
        BY <4>1 DEF NoRoute
      <4> QED
        BY <4>1
    <3> QED
      BY <2>3, <3>1, <3>2
  <2>6. route' \in [Routes -> [head : Models, enabled : BOOLEAN] \cup {NoRoute}]
    BY <1>6, <2>2, <2>5 DEF WriteTargets
  <2> QED
    BY <1>6, <2>1, <2>4, <2>6 DEF WriteTargets
<1> QED
  BY <1>1, <1>2, <1>3, <1>4, <1>5, <1>6

-----------------------------------------------------------------------------
(* An import: which provider each name of the file stands for, and the rows  *)
(* its new models get.                                                       *)

Means(id) ==
  /\ id = [p \in DOMAIN id |-> id[p]]
  /\ \A p \in DOMAIN id : id[p] \in Providers
  /\ \A p, q \in DOMAIN id : id[p] = id[q] => p = q

Rows(f, id, row) ==
  /\ DOMAIN row = NewModels(f, id)
  /\ \A e \in DOMAIN row : /\ row[e] \in Models /\ ~Exists(row[e])
                           /\ ProviderOf[row[e]] = id[e.of]
  /\ \A d, e \in DOMAIN row : row[d] = row[e] => d = e

LEMMA Meaning ==
  ASSUME TypeOK, NEW f \in Files, NEW to \in Meanings(f)
  PROVE  /\ Means(IdOf(to))
         /\ \A p \in DOMAIN to[1] : to[1][p] \in Providers
         /\ DOMAIN to[1] = DOMAIN f.providers
<1>1. /\ to[1] \in [DOMAIN f.providers -> Providers] /\ to[2] \subseteq Providers \ DOMAIN f.providers
      /\ IsInjective(to[1])
      /\ \A p \in DOMAIN f.providers : provider[to[1][p]] = "none"
      /\ \A p \in to[2] : provider[p] # "none"
  BY DEF Meanings
<1> DEFINE a == to[1]
           b == to[2]
           id == [p \in DOMAIN a \cup b |-> IF p \in b THEN p ELSE a[p]]
<1>2. IdOf(to) = id
  BY DEF IdOf
<1>3. /\ a \in [DOMAIN f.providers -> Providers] /\ b \subseteq Providers \ DOMAIN f.providers
      /\ \A p, q \in DOMAIN f.providers : a[p] = a[q] => p = q
      /\ \A p \in DOMAIN f.providers : provider[a[p]] = "none"
      /\ \A p \in b : provider[p] # "none"
  BY <1>1 DEF IsInjective
<1> HIDE DEF a, b
<1>4. Means(id)
  BY <1>3 DEF Means
<1> QED
  BY <1>2, <1>3, <1>4 DEF a

LEMMA Imported ==
  ASSUME TypeOK, NEW f \in Files, Import(f)
  PROVE  /\ provider' \in [Providers -> {"none", "on", "off"}]
         /\ UNCHANGED <<used, op>>
         /\ \E id, row : /\ Means(id) /\ Rows(f, id, row)
                         /\ Attach(f, row) /\ ApplyRoutes(f, id)
<1>1. PICK to \in Meanings(f) :
        LET id == IdOf(to)
            brought(p) == {q \in DOMAIN f.providers : to[1][q] = p}
        IN  /\ provider' = [p \in Providers |-> IF brought(p) = {} THEN provider[p]
                              ELSE f.providers[CHOOSE q \in brought(p) : TRUE]]
            /\ \E row \in Injection(NewModels(f, id), {m \in Models : ~Exists(m)}) :
                 /\ \A e \in DOMAIN row : ProviderOf[row[e]] = id[e.of]
                 /\ Attach(f, row)
            /\ ApplyRoutes(f, id)
  BY Zenon DEF Import
<1> DEFINE id == IdOf(to)
           brought(p) == {q \in DOMAIN f.providers : to[1][q] = p}
<1>2. PICK row \in Injection(NewModels(f, id), {m \in Models : ~Exists(m)}) :
        /\ \A e \in DOMAIN row : ProviderOf[row[e]] = id[e.of]
        /\ Attach(f, row)
  BY <1>1, Zenon
<1>3. Rows(f, id, row)
  <2> HIDE DEF id
  <2> QED
    BY <1>2 DEF Rows, Injection, IsInjective
<1>4. Means(id) /\ ApplyRoutes(f, id)
  BY <1>1, Meaning
<1>5. provider' \in [Providers -> {"none", "on", "off"}]
  <2> DEFINE value(p) == IF brought(p) = {} THEN provider[p]
                         ELSE f.providers[CHOOSE q \in brought(p) : TRUE]
  <2>1. ASSUME NEW p \in Providers
        PROVE  value(p) \in {"none", "on", "off"}
    <3>1. CASE brought(p) = {}
      BY <3>1 DEF TypeOK
    <3>2. CASE brought(p) # {}
      <4>1. (CHOOSE q \in brought(p) : TRUE) \in DOMAIN f.providers
        BY <3>2
      <4> QED
        BY <3>2, <4>1, CatalogConstants
    <3> QED
      BY <3>1, <3>2
  <2>2. provider' = [p \in Providers |-> value(p)]
    BY <1>1, Zenon
  <2> HIDE DEF value
  <2> QED
    BY <2>1, <2>2
<1>6. UNCHANGED <<used, op>>
  BY DEF Import
<1> QED
  BY <1>2, <1>3, <1>4, <1>5, <1>6

(* The rows afterwards.                                                      *)
LEMMA Attached ==
  ASSUME TypeOK, NEW f \in Files, NEW id, NEW row, Means(id), Rows(f, id, row), Attach(f, row)
  PROVE  /\ name' = [m \in Models |-> name'[m]]
         /\ \A m \in Models :
              \/ name'[m] = name[m] /\ shadow'[m] = shadow[m]
              \/ \E e \in NewModels(f, id) :
                   /\ m = row[e] /\ ~Exists(m) /\ ProviderOf[m] = id[e.of]
                   /\ name'[m] = e.name /\ shadow'[m] = e.group
<1> DEFINE entry(m) == CHOOSE e \in DOMAIN row : row[e] = m
           named(m) == IF m \in Range(row) THEN entry(m).name ELSE name[m]
<1>1. name' = [m \in Models |-> named(m)]
  BY Zenon DEF Attach
<1>2. \A m \in Models : shadow'[m] = IF m \in Range(row) THEN entry(m).group ELSE shadow[m]
  BY DEF Attach
<1>3. ASSUME NEW m \in Models
      PROVE  \/ name'[m] = name[m] /\ shadow'[m] = shadow[m]
             \/ \E e \in NewModels(f, id) :
                  /\ m = row[e] /\ ~Exists(m) /\ ProviderOf[m] = id[e.of]
                  /\ name'[m] = e.name /\ shadow'[m] = e.group
  <2>1. CASE m \in Range(row)
    <3>1. entry(m) \in DOMAIN row /\ row[entry(m)] = m
      BY <2>1 DEF Range
    <3>2. name'[m] = entry(m).name /\ shadow'[m] = entry(m).group
      BY <1>1, <1>2, <2>1
    <3> QED
      BY <3>1, <3>2 DEF Rows
  <2>2. CASE m \notin Range(row)
    BY <1>1, <1>2, <2>2
  <2> QED
    BY <2>1, <2>2
<1>4. name' = [m \in Models |-> name'[m]]
  <2> HIDE DEF named
  <2> QED
    BY <1>1
<1> QED
  BY <1>3, <1>4

LEMMA AttachedMembers ==
  ASSUME NEW f \in Files, NEW id, NEW row, Rows(f, id, row), Attach(f, row)
  PROVE  /\ member' = [pair \in Pairs |-> member'[pair]]
         /\ \A pair \in Pairs :
              \/ /\ member'[pair] = member[pair]
                 /\ \A e \in NewModels(f, id) : PairOf(row[e], e.name) = pair => e.group = NoGroup
              \/ \E e \in NewModels(f, id) :
                   /\ PairOf(row[e], e.name) = pair /\ e.group # NoGroup
                   /\ member'[pair] = e.group
<1> DEFINE entry(m) == CHOOSE e \in DOMAIN row : row[e] = m
           grouped(pair) == {m \in Range(row) : /\ entry(m).group # NoGroup
                                                /\ PairOf(m, entry(m).name) = pair}
           value(pair) == IF grouped(pair) = {} THEN member[pair]
                          ELSE entry(CHOOSE m \in grouped(pair) : TRUE).group
<1>1. member' = [pair \in Pairs |-> value(pair)]
  BY Zenon DEF Attach
<1>2. \A e \in NewModels(f, id) : row[e] \in Range(row) /\ entry(row[e]) = e
  BY DEF Rows, Range
<1>3. \A m \in Range(row) : entry(m) \in NewModels(f, id) /\ row[entry(m)] = m
  BY DEF Rows, Range
<1>4. ASSUME NEW pair \in Pairs
      PROVE  \/ /\ value(pair) = member[pair]
                /\ \A e \in NewModels(f, id) : PairOf(row[e], e.name) = pair => e.group = NoGroup
             \/ \E e \in NewModels(f, id) :
                  PairOf(row[e], e.name) = pair /\ e.group # NoGroup /\ value(pair) = e.group
  <2> HIDE DEF entry
  <2>1. CASE grouped(pair) = {}
    BY <1>2, <2>1
  <2>2. CASE grouped(pair) # {}
    <3>1. PICK m \in grouped(pair) : m = CHOOSE x \in grouped(pair) : TRUE
      BY <2>2
    <3>2. /\ entry(m) \in NewModels(f, id) /\ row[entry(m)] = m /\ entry(m).group # NoGroup
          /\ PairOf(m, entry(m).name) = pair
      BY <1>3, <3>1
    <3>3. value(pair) = entry(m).group
      BY <2>2, <3>1
    <3> QED
      BY <3>2, <3>3
  <2> QED
    BY <2>1, <2>2
<1> HIDE DEF value
<1>5. member' = [pair \in Pairs |-> member'[pair]] /\ \A pair \in Pairs : member'[pair] = value(pair)
  BY <1>1
<1> QED
  BY <1>4, <1>5

LEMMA Routed ==
  ASSUME NEW f \in Files, NEW id, Means(id), ApplyRoutes(f, id)
  PROVE  /\ chain' = [r \in Routes |-> chain'[r]] /\ route' = [r \in Routes |-> route'[r]]
         /\ \A r \in Routes :
              \/ chain'[r] = chain[r] /\ route'[r] = route[r]
              \/ /\ route[r] = NoRoute
                 /\ chain'[r] \in Seq(Target) /\ chain'[r] # <<>> /\ Single(chain'[r])
                 /\ \A i \in DOMAIN chain'[r] : name'[chain'[r][i].model] # NoName
                 /\ route'[r].head = chain'[r][1].model
                 /\ route'[r] \in [head : Models, enabled : BOOLEAN]
<1> DEFINE targets(r) == f.routes[r].targets
           found(t) == {m \in Models : /\ t.of \in DOMAIN id /\ ProviderOf[m] = id[t.of]
                                       /\ name'[m] = t.name}
           resolved(t) == [model |-> CHOOSE m \in found(t) : TRUE, on |-> t.on]
           new == {r \in DOMAIN f.routes :
                     route[r] = NoRoute /\ \A t \in Range(targets(r)) : found(t) # {}}
           path(r) == [i \in DOMAIN targets(r) |-> resolved(targets(r)[i])]
           chained(r) == IF r \notin new THEN chain[r] ELSE path(r)
           routed(r) == IF r \notin new THEN route[r]
                        ELSE [head |-> chain'[r][1].model, enabled |-> f.routes[r].enabled]
<1>1. chain' = [r \in Routes |-> chained(r)] /\ route' = [r \in Routes |-> routed(r)]
  BY Zenon DEF ApplyRoutes
<1>2. ASSUME NEW r \in new
      PROVE  /\ path(r) \in Seq(Target) /\ path(r) # <<>> /\ Single(path(r))
             /\ \A i \in DOMAIN path(r) : name'[path(r)[i].model] # NoName
             /\ 1 \in DOMAIN path(r) /\ path(r)[1].model \in Models
  <2> DEFINE ts == targets(r)
  <2>1. /\ ts \in Seq([of : Providers, name : Names, on : BOOLEAN]) /\ ts # <<>>
        /\ Distinct([i \in DOMAIN ts |-> <<ts[i].of, ts[i].name>>])
    BY CatalogConstants
  <2>2. \A i \in DOMAIN ts : found(ts[i]) # {}
    BY DEF Range
  <2> HIDE DEF targets
  <2>3. ASSUME NEW i \in DOMAIN ts
        PROVE  /\ path(r)[i].model \in Models /\ path(r)[i] \in Target
               /\ ts[i].of \in DOMAIN id /\ ProviderOf[path(r)[i].model] = id[ts[i].of]
               /\ name'[path(r)[i].model] = ts[i].name /\ ts[i].name # NoName
    <3>1. ts[i] \in [of : Providers, name : Names, on : BOOLEAN]
      <4> DEFINE S == [of : Providers, name : Names, on : BOOLEAN]
      <4> HIDE DEF S, ts
      <4>1. ts \in Seq(S)
        BY <2>1 DEF S
      <4>2. ts[i] \in S
        BY <4>1
      <4> QED
        BY <4>2 DEF S
    <3>2. (CHOOSE m \in found(ts[i]) : TRUE) \in found(ts[i])
      BY <2>2
    <3>3. path(r)[i] = [model |-> CHOOSE m \in found(ts[i]) : TRUE, on |-> ts[i].on]
      OBVIOUS
    <3>4. ts[i].name # NoName
      BY <3>1, CatalogConstants DEF Names
    <3> HIDE DEF path, ts
    <3> QED
      BY <3>1, <3>2, <3>3, <3>4 DEF Target
  <2>4. DOMAIN path(r) = 1 .. Len(ts) /\ Len(ts) \in Nat /\ DOMAIN ts = 1 .. Len(ts) /\ Len(ts) # 0
    BY <2>1
  <2>5. path(r) \in Seq(Target)
    <3>1. path(r) = [i \in DOMAIN ts |-> path(r)[i]]
      OBVIOUS
    <3> HIDE DEF path, ts
    <3>2. path(r) \in [1 .. Len(ts) -> Target]
      BY <2>3, <2>4, <3>1
    <3> QED
      BY <2>4, <3>2, ChainTypes
  <2>6. Single(path(r))
    <3>1. \A i, j \in DOMAIN ts : ts[i].of = ts[j].of /\ ts[i].name = ts[j].name => i = j
      BY <2>1 DEF Distinct
    <3> HIDE DEF path, ts
    <3> QED
      BY <2>3, <2>4, <3>1 DEF Single, Means
  <2>7. path(r) # <<>> /\ 1 \in DOMAIN path(r)
    <3> HIDE DEF path, ts
    <3> QED
      BY <2>4
  <2> HIDE DEF path, ts
  <2> QED
    BY <2>3, <2>4, <2>5, <2>6, <2>7
<1>3. \A r \in new : r \in DOMAIN f.routes /\ route[r] = NoRoute /\ f.routes[r].enabled \in BOOLEAN
  BY CatalogConstants
<1> HIDE DEF new, path
<1>4. /\ chain' = [r \in Routes |-> chain'[r]] /\ route' = [r \in Routes |-> route'[r]]
      /\ \A r \in Routes : chain'[r] = chained(r) /\ route'[r] = routed(r)
  <2> HIDE DEF chained, routed
  <2> QED
    BY <1>1
<1> QED
  BY <1>2, <1>3, <1>4

LEMMA TypeImport ==
  ASSUME TypeOK, NEW f \in Files, Import(f)
  PROVE  TypeOK'
<1>1. PICK id, row : Means(id) /\ Rows(f, id, row) /\ Attach(f, row) /\ ApplyRoutes(f, id)
  BY Imported
<1>2. \A e \in NewModels(f, id) :
        /\ \A p \in Providers : e.name \in NamesOf[p]
        /\ e.group \in Groups \cup {NoGroup} /\ e.of \in DOMAIN id
  BY CatalogConstants DEF NewModels
<1>3. NamesOK(name')
  <2>1. \A m \in Models : name'[m] \in NamesOf[ProviderOf[m]] \cup {NoName}
    BY <1>1, <1>2, Attached, RowTypes DEF TypeOK, NamesOK
  <2> QED
    BY <1>1, <2>1, Attached, NamesFrom
<1>4. shadow' \in [Models -> Groups \cup {NoGroup}]
  <2>1. \A m \in Models : shadow'[m] \in Groups \cup {NoGroup}
    BY <1>1, <1>2, Attached DEF TypeOK
  <2>2. shadow' = [m \in Models |-> shadow'[m]]
    BY <1>1 DEF Attach
  <2> QED
    BY <2>1, <2>2
<1>5. member' \in [Pairs -> Groups \cup {NoGroup}]
  <2>1. \A pair \in Pairs : member'[pair] \in Groups \cup {NoGroup}
    BY <1>1, <1>2, AttachedMembers DEF TypeOK
  <2> QED
    BY <1>1, <2>1, AttachedMembers
<1>6. /\ chain' \in [Routes -> Seq(Target)]
      /\ route' \in [Routes -> [head : Models, enabled : BOOLEAN] \cup {NoRoute}]
  <2>1. \A r \in Routes : /\ chain'[r] \in Seq(Target)
                          /\ route'[r] \in [head : Models, enabled : BOOLEAN] \cup {NoRoute}
    BY <1>1, Routed DEF TypeOK
  <2> QED
    BY <1>1, <2>1, Routed
<1>7. groups' \in SUBSET Groups
  BY <1>1, CatalogConstants DEF Attach, TypeOK
<1> QED
  BY <1>3, <1>4, <1>5, <1>6, <1>7, Imported, EditsStay DEF TypeOK

LEMMA TypeStep == TypeOK /\ [Next]_vars => TypeOK'
<1> SUFFICES ASSUME TypeOK, [Next]_vars PROVE TypeOK'
  OBVIOUS
<1>1. CASE UNCHANGED vars
  BY <1>1, EditsStay DEF vars, TypeOK
<1> QED
  BY <1>1, TypeProviders, TypeModels, TypeGroups, TypeRoutes, TypeEdits, TypeImport, Zenon DEF Next

\* The rows of the catalogue, the chains and the edits under way stay what the
\* handlers make of them, for any catalogue and any files.
THEOREM TypeCorrect == Spec => []TypeOK
BY TypeInit, TypeStep, PTL DEF Spec

-----------------------------------------------------------------------------
(* Chains.                                                                   *)

Grows == \A m \in Models : Exists(m) => name'[m] # NoName

LEMMA WholeGrows ==
  ASSUME Grows, NEW c \in Seq(Target), Whole(c)
  PROVE  Whole(c)'
BY ChainTypes DEF Grows, Whole, Exists

LEMMA RouteKept ==
  ASSUME TypeOK, Grows, NEW r \in Routes, RouteSound(r), chain'[r] = chain[r], route'[r] = route[r]
  PROVE  RouteSound(r)'
<1>1. chain[r] \in Seq(Target)
  BY DEF TypeOK
<1>2. Whole(chain[r]) => Whole(chain[r])'
  BY <1>1, ChainTypes DEF Grows, Whole, Exists
<1> QED
  BY <1>2 DEF RouteSound

LEMMA EditKept ==
  ASSUME TypeOK, Grows, NEW a \in Admins, EditSound(op[a]),
         \A r \in Routes : route[r] # NoRoute => route'[r] # NoRoute,
         \/ op'[a] = op[a]
         \/ op'[a].kind \in {"idle", "model"}
  PROVE  EditSound(op[a])'
<1>1. CASE op'[a].kind \in {"idle", "model"}
  BY <1>1 DEF EditSound
<1>2. CASE op'[a] = op[a]
  <2> DEFINE e == op[a]
  <2>1. e \in Edit
    BY DEF TypeOK, EditsOK
  <2>2. CASE e.kind = "route"
    BY <1>2, <2>1, <2>2 DEF EditSound, Edit, Idle, Grows, Exists
  <2>3. CASE e.kind = "targets"
    <3>1. e.chain \in Asked /\ e.id \in Routes
      BY <2>1, <2>3 DEF Edit, Idle
    <3>2. Whole(e.chain)
      BY <2>3 DEF EditSound
    <3> DEFINE c == e.chain
    <3>3. \A i \in DOMAIN c : name'[c[i].model] # NoName
      BY <3>1, <3>2, AskedSound, ChainTypes DEF Whole, Grows, Exists
    <3> QED
      BY <1>2, <2>3, <3>1, <3>2, <3>3 DEF EditSound, Whole, Exists
  <2>4. CASE e.kind \notin {"route", "targets"}
    BY <1>2, <2>4 DEF EditSound
  <2> QED
    BY <2>2, <2>3, <2>4
<1> QED
  BY <1>1, <1>2

(* Steps that leave the routes alone, end no model and begin no edit of one. *)
Quiet ==
  /\ Grows /\ UNCHANGED <<route, chain>>
  /\ \A a \in Admins : op'[a] = op[a] \/ op'[a].kind \in {"idle", "model"}

LEMMA QuietChained ==
  ASSUME Chained, TypeOK', Quiet
  PROVE  Chained'
<1>1. \A r \in Routes : RouteSound(r)'
  BY RouteKept DEF Chained, Quiet
<1>2. \A a \in Admins : EditSound(op[a])'
  BY EditKept DEF Chained, Quiet
<1> QED
  BY <1>1, <1>2 DEF Chained

LEMMA QuietSteps ==
  ASSUME TypeOK, TypeOK', [Next]_vars
  PROVE  \/ Quiet
         \/ \E p \in Providers : DeleteProvider(p)
         \/ \E m \in Models : DeleteModel(m)
         \/ \E r \in Routes : (\E m \in Models : CreateRoute(r, m)) \/ DeleteRoute(r)
         \/ \E a \in Admins : \/ \E r \in Routes : ReadRoute(a, r) \/ ReadTargets(a, r)
                              \/ WriteRoute(a) \/ WriteTargets(a)
         \/ \E f \in Files : Import(f)
<1> USE DEF configVars, groupVars
<1>1. ASSUME NEW p \in Providers, CreateProvider(p) \/ UpdateProvider(p)
      PROVE  Quiet
  BY <1>1 DEF CreateProvider, UpdateProvider, Quiet, Grows, Exists
<1>2. ASSUME NEW p \in Providers, NEW ns, ImportModels(p, ns)
      PROVE  Quiet
  <2> DEFINE mine == {m \in Models : ProviderOf[m] = p}
             new == ns \ {name[m] : m \in mine}
  <2>1. PICK row \in Injection(new, {m \in mine : ~Exists(m)}) :
          name' = [m \in Models |->
                     IF m \in Range(row) THEN CHOOSE n \in new : row[n] = m ELSE name[m]]
    BY <1>2, Zenon DEF ImportModels, ImportUpstreamModels
  <2>2. \A m \in Models : Exists(m) => m \notin Range(row)
    BY <2>1 DEF Range, Injection
  <2>3. Grows
    BY <2>1, <2>2 DEF Grows, Exists
  <2> QED
    BY <1>2, <2>3 DEF ImportModels, Quiet
<1>3. ASSUME NEW m \in Models, \E n \in NamesOf[ProviderOf[m]] : CreateModel(m, n)
      PROVE  Quiet
  BY <1>3, NameTypes DEF CreateModel, Quiet, Grows, Exists, TypeOK, NamesOK
<1>4. ASSUME NEW m \in Models, Use(m)
      PROVE  Quiet
  BY <1>4 DEF Use, Quiet, Grows, Exists
<1>5. ASSUME NEW g, CreateGroup(g)
      PROVE  Quiet
  BY <1>5 DEF CreateGroup, Quiet, Grows, Exists
<1>6. ASSUME NEW g, DeleteGroup(g)
      PROVE  Quiet
  BY <1>6 DEF DeleteGroup, Refused, Quiet, Grows, Exists, Idle
<1>7. ASSUME NEW g, NEW x, AssignModels(x, g) \/ AssignHistoryMembers(x, g)
      PROVE  Quiet
  BY <1>7 DEF AssignModels, AssignHistoryMembers, Quiet, Grows, Exists
<1>8. CASE Restart
  BY <1>8 DEF Restart, Quiet, Grows, Exists, Idle
<1>9. ASSUME NEW a \in Admins, NEW m \in Models, ReadModel(a, m)
      PROVE  Quiet
  <2>1. UNCHANGED <<name, route, chain>> /\ op'[a].kind = "model" /\ \A b \in Admins \ {a} : op'[b] = op[b]
    BY <1>9 DEF ReadModel, Begin, TypeOK, EditsOK
  <2> QED
    BY <2>1 DEF Quiet, Grows, Exists
<1>10. ASSUME NEW a \in Admins, WriteModel(a)
       PROVE  Quiet
  <2>1. /\ op[a].id \in Models /\ op[a].name \in NamesOf[ProviderOf[op[a].id]]
    BY <1>10 DEF WriteModel, TypeOK, EditsOK, Edit, Idle
  <2>2. op[a].name # NoName
    BY <2>1, NameTypes
  <2>3. UNCHANGED name \/ name' = [name EXCEPT ![op[a].id] = op[a].name]
    BY <1>10 DEF WriteModel, StoreModel
  <2>4. Grows
    BY <2>1, <2>2, <2>3 DEF Grows, Exists, TypeOK, NamesOK
  <2>5. UNCHANGED <<route, chain>> /\ \A b \in Admins : op'[b] = op[b] \/ op'[b].kind = "idle"
    BY <1>10 DEF WriteModel, Done, Idle, TypeOK, EditsOK
  <2> QED
    BY <2>4, <2>5 DEF Quiet
<1>11. CASE UNCHANGED vars
  BY <1>11 DEF vars, Quiet, Grows, Exists
<1> QED
  BY <1>1, <1>2, <1>3, <1>4, <1>5, <1>6, <1>7, <1>8, <1>9, <1>10, <1>11, Zenon DEF Next

(* A deletion ends the edits that refer to what it deletes.                  *)
LEMMA EditsRefused ==
  ASSUME Chained, NEW ids, Refused(ids),
         \A m \in Models : Exists(m) /\ m \notin ids => name'[m] # NoName,
         \A r \in Routes : route[r] # NoRoute /\ r \notin ids => route'[r] # NoRoute,
         NEW a \in Admins
  PROVE  EditSound(op[a])'
<1> DEFINE e == op[a]
<1>1. e \in Edit /\ EditSound(e)
  BY DEF Chained, TypeOK, EditsOK
<1>2. op'[a] = IF RefersTo(e) \cap ids # {} THEN Idle ELSE e
  BY DEF Refused
<1>3. CASE e.kind = "route" /\ op'[a] = e
  <2>1. RefersTo(e) = {e.id, e.row.head} /\ e # Idle
    BY <1>3 DEF RefersTo, Idle
  <2>2. e.id \notin ids /\ e.row.head \notin ids
    BY <1>2, <1>3, <2>1
  <2> QED
    BY <1>1, <1>3, <2>2 DEF EditSound, Edit, Idle, Exists
<1>4. CASE e.kind = "targets" /\ op'[a] = e
  <2> DEFINE c == e.chain
  <2>1. RefersTo(e) = {e.id} \cup ModelsIn(c) /\ e # Idle
    BY <1>4 DEF RefersTo, Idle
  <2>2. e.id \notin ids /\ \A i \in DOMAIN c : c[i].model \notin ids
    BY <1>2, <1>4, <2>1 DEF ModelsIn
  <2>3. c \in Asked /\ e.id \in Routes
    BY <1>1, <1>4 DEF Edit, Idle
  <2>4. Whole(c) /\ c \in Seq(Target) /\ route[e.id] # NoRoute
    BY <1>1, <1>4, <2>3, AskedSound DEF EditSound
  <2>5. \A i \in DOMAIN c : name'[c[i].model] # NoName
    BY <2>2, <2>4, ChainTypes DEF Whole, Exists
  <2> QED
    BY <1>4, <2>2, <2>3, <2>4, <2>5 DEF EditSound, Whole, Exists
<1>5. CASE op'[a] = Idle \/ e.kind \notin {"route", "targets"}
  BY <1>2, <1>5 DEF EditSound, Idle
<1> QED
  BY <1>2, <1>3, <1>4, <1>5

LEMMA DeleteProviderChained ==
  ASSUME Chained, TypeOK', NEW p \in Providers, DeleteProvider(p)
  PROVE  Chained'
<1> DEFINE mine == {m \in Models : ProviderOf[m] = p}
<1>1. /\ mine \cap Referenced = {} /\ Refused({p} \cup mine) /\ UNCHANGED <<route, chain>>
      /\ \A m \in Models : m \notin mine => name'[m] = name[m]
  BY DEF DeleteProvider
<1> HIDE DEF mine
<1>2. ASSUME NEW r \in Routes
      PROVE  RouteSound(r)'
  <2>1. RouteSound(r) /\ chain[r] \in Seq(Target)
    BY DEF Chained, TypeOK
  <2>2. \A i \in DOMAIN chain[r] : chain[r][i].model \in Models \ mine
    BY <1>1, <2>1, ChainTypes DEF Referenced, ModelsIn
  <2> QED
    BY <1>1, <2>1, <2>2 DEF RouteSound, Whole, Exists
<1>3. \A a \in Admins : EditSound(op[a])'
  BY <1>1, EditsRefused DEF Exists
<1> QED
  BY <1>2, <1>3 DEF Chained

LEMMA WithoutWhole ==
  ASSUME NEW c \in Seq(Target), Single(c), c # <<>>, NEW m, c[1].model # m
  PROVE  LET d == Without(c, m)
         IN  /\ d # <<>> /\ d[1] = c[1] /\ Single(d)
             /\ \A i \in DOMAIN d : d[i].model # m /\ \E j \in DOMAIN c : d[i] = c[j]
<1> DEFINE at == {i \in DOMAIN c : c[i].model = m}
<1>1. CASE at = {}
  BY <1>1 DEF Without
<1>2. CASE at # {}
  <2> DEFINE i == CHOOSE i \in at : TRUE
             d == [j \in 1 .. Len(c) - 1 |-> IF j < i THEN c[j] ELSE c[j + 1]]
  <2>1. i \in 1 .. Len(c) /\ c[i].model = m /\ Len(c) \in Nat /\ DOMAIN c = 1 .. Len(c)
    BY <1>2
  <2>2. Without(c, m) = d
    BY <1>2 DEF Without
  <2> HIDE DEF i
  <2>3. i # 1 /\ Len(c) >= 2
    BY <2>1
  <2>4. \A j \in DOMAIN c : c[j].model = m => j = i
    BY <2>1 DEF Single
  <2>5. 1 \in DOMAIN d /\ d[1] = c[1] /\ DOMAIN d = 1 .. Len(c) - 1
    BY <2>1, <2>3
  <2>8. d # <<>>
    <3> HIDE DEF d
    <3> QED
      BY <2>5
  <2>6. ASSUME NEW j \in DOMAIN d
        PROVE  d[j].model # m /\ \E k \in DOMAIN c : d[j] = c[k]
    BY <2>1, <2>4
  <2>7. ASSUME NEW j \in DOMAIN d, NEW k \in DOMAIN d, d[j].model = d[k].model
        PROVE  j = k
    <3> DEFINE at2(x) == IF x < i THEN x ELSE x + 1
    <3>1. at2(j) \in DOMAIN c /\ at2(k) \in DOMAIN c /\ d[j] = c[at2(j)] /\ d[k] = c[at2(k)]
      BY <2>1, <2>5
    <3>2. at2(j) = at2(k)
      <4> HIDE DEF at2, d
      <4> QED
        BY <2>7, <3>1 DEF Single
    <3> QED
      BY <2>1, <2>5, <3>2
  <2>9. Single(d)
    BY <2>7 DEF Single
  <2> HIDE DEF d
  <2> QED
    BY <2>2, <2>5, <2>6, <2>8, <2>9
<1> QED
  BY <1>1, <1>2

LEMMA DeleteModelChained ==
  ASSUME Chained, TypeOK', NEW m \in Models, DeleteModel(m)
  PROVE  Chained'
<1>1. /\ \A r \in Routes : /\ chain[r] # <<>> => chain[r][1].model # m
                           /\ chain'[r] = Without(chain[r], m)
      /\ \A o \in Models : o # m => name'[o] = name[o]
      /\ Refused({m}) /\ UNCHANGED route
  BY DEF DeleteModel, Chained, TypeOK, NamesOK
<1>2. ASSUME NEW r \in Routes
      PROVE  RouteSound(r)'
  <2>1. RouteSound(r) /\ chain[r] \in Seq(Target)
    BY DEF Chained, TypeOK
  <2>2. CASE route[r] = NoRoute
    <3>1. chain[r] = <<>> /\ Without(<<>>, m) = <<>>
      BY <2>1, <2>2 DEF RouteSound, Without
    <3> QED
      BY <1>1, <2>2, <3>1 DEF RouteSound
  <2>3. CASE route[r] # NoRoute
    <3> DEFINE c == chain[r]
               d == Without(c, m)
    <3>0. Whole(c) /\ route[r].head = c[1].model
      BY <2>1, <2>3 DEF RouteSound
    <3>1. c # <<>> /\ Single(c) /\ c[1].model # m /\ route[r].head = c[1].model
          /\ \A i \in DOMAIN c : name[c[i].model] # NoName /\ c[i].model \in Models
      <4>1. c[1].model # m
        BY <1>1, <3>0 DEF Whole
      <4> HIDE DEF c
      <4>2. \A i \in DOMAIN c : name[c[i].model] # NoName
        BY <3>0 DEF Whole, Exists
      <4>3. \A i \in DOMAIN c : c[i].model \in Models
        BY <2>1, ChainTypes DEF c
      <4> QED
        BY <3>0, <4>1, <4>2, <4>3 DEF Whole
    <3>2. /\ d # <<>> /\ d[1] = c[1] /\ Single(d)
          /\ \A i \in DOMAIN d : d[i].model # m /\ \E j \in DOMAIN c : d[i] = c[j]
      BY <2>1, <3>1, WithoutWhole
    <3> HIDE DEF c
    <3> HIDE DEF d
    <3>3. \A i \in DOMAIN d : name'[d[i].model] # NoName
      BY <1>1, <3>1, <3>2
    <3>4. chain'[r] = d
      BY <1>1 DEF c, d
    <3> QED
      BY <1>1, <2>3, <3>1, <3>2, <3>3, <3>4 DEF RouteSound, Whole, Single, Exists
  <2> QED
    BY <2>2, <2>3
<1>3. \A a \in Admins : EditSound(op[a])'
  BY <1>1, EditsRefused DEF Exists
<1> QED
  BY <1>2, <1>3 DEF Chained

LEMMA SyncWhole ==
  ASSUME NEW c \in Seq(Target), Whole(c), NEW m \in Models, Exists(m)
  PROVE  Whole(SyncHead(c, m)) /\ SyncHead(c, m)[1].model = m
<1> DEFINE at == {i \in DOMAIN c : c[i].model = m}
<1>1. /\ c # <<>> /\ Single(c) /\ DOMAIN c = 1 .. Len(c) /\ 1 \in DOMAIN c
      /\ \A i \in DOMAIN c : Exists(c[i].model) /\ c[i] \in Target
  BY ChainTypes DEF Whole
<1>2. CASE at = {}
  <2> DEFINE d == [c EXCEPT ![1].model = m]
  <2>1. SyncHead(c, m) = d
    BY <1>1, <1>2 DEF SyncHead
  <2>2. /\ DOMAIN d = DOMAIN c /\ d[1].model = m
        /\ \A i \in DOMAIN c : i # 1 => d[i] = c[i]
    BY <1>1 DEF Target
  <2>3. d # <<>>
    <3> HIDE DEF d
    <3> QED
      BY <1>1, <2>2
  <2>4. \A i \in DOMAIN c : c[i].model # m
    BY <1>2
  <2> HIDE DEF d
  <2> QED
    BY <1>1, <2>1, <2>2, <2>3, <2>4 DEF Whole, Single
<1>3. CASE at # {}
  <2> DEFINE i == CHOOSE i \in at : TRUE
             d == [j \in DOMAIN c |-> IF j = 1 THEN c[i] ELSE IF j = i THEN c[1] ELSE c[j]]
  <2>1. i \in DOMAIN c /\ c[i].model = m
    BY <1>3
  <2>2. SyncHead(c, m) = d
    BY <1>1, <1>3 DEF SyncHead
  <2> HIDE DEF i
  <2>3. /\ DOMAIN d = DOMAIN c /\ d[1] = c[i] /\ d[i] = c[1]
        /\ \A j \in DOMAIN c : j # 1 /\ j # i => d[j] = c[j]
    BY <1>1, <2>1
  <2> HIDE DEF d
  <2>4. d # <<>>
    BY <1>1, <2>3
  <2>5. Single(d)
    BY <1>1, <2>1, <2>3 DEF Single
  <2>6. \A j \in DOMAIN d : Exists(d[j].model)
    BY <1>1, <2>1, <2>3
  <2> QED
    BY <2>1, <2>2, <2>3, <2>4, <2>5, <2>6 DEF Whole
<1> QED
  BY <1>2, <1>3

(* Steps that change one route and leave the models alone.                   *)
LEMMA OneRoute ==
  ASSUME Chained, TypeOK', NEW r \in Routes, UNCHANGED name,
         \A o \in Routes \ {r} : chain'[o] = chain[o] /\ route'[o] = route[o],
         RouteSound(r)', \A a \in Admins : EditSound(op[a])'
  PROVE  Chained'
<1>1. \A o \in Routes : RouteSound(o)'
  BY RouteKept DEF Chained, Grows, Exists
<1> QED
  BY <1>1 DEF Chained

LEMMA RouteSteps ==
  ASSUME Chained, TypeOK', NEW r \in Routes, (\E m \in Models : CreateRoute(r, m)) \/ DeleteRoute(r)
  PROVE  Chained'
<1> USE DEF Chained
<1>1. ASSUME NEW m \in Models, CreateRoute(r, m)
      PROVE  Chained'
  <2>1. /\ chain'[r] = NewChain(m) /\ route'[r].head = m /\ Exists(m) /\ route'[r] # NoRoute
        /\ UNCHANGED <<name, op>>
        /\ \A o \in Routes \ {r} : chain'[o] = chain[o] /\ route'[o] = route[o]
    <3>1. Exists(m) /\ UNCHANGED <<name, op>> /\ chain' = [chain EXCEPT ![r] = NewChain(m)]
      BY <1>1 DEF CreateRoute
    <3>2. PICK enabled : route' = [route EXCEPT ![r] = [head |-> m, enabled |-> enabled]]
      BY <1>1 DEF CreateRoute
    <3>3. /\ chain'[r] = NewChain(m) /\ route'[r].head = m
          /\ \A o \in Routes \ {r} : chain'[o] = chain[o] /\ route'[o] = route[o]
      BY <1>1, <3>1, <3>2 DEF TypeOK
    <3> QED
      BY <3>1, <3>3, CatalogConstants DEF NoRoute
  <2>2. RouteSound(r)'
    BY <2>1 DEF RouteSound, Whole, Single, NewChain, Exists
  <2>3. \A a \in Admins : EditSound(op[a])'
    BY <2>1, EditKept DEF Grows, Exists
  <2> QED
    BY <2>1, <2>2, <2>3, OneRoute
<1>2. CASE DeleteRoute(r)
  <2>1. /\ chain'[r] = <<>> /\ route'[r] = NoRoute /\ UNCHANGED name /\ Refused({r})
        /\ \A o \in Routes \ {r} : chain'[o] = chain[o] /\ route'[o] = route[o]
    BY <1>2 DEF DeleteRoute, TypeOK
  <2>2. RouteSound(r)'
    BY <2>1 DEF RouteSound
  <2>3. \A a \in Admins : EditSound(op[a])'
    BY <2>1, EditsRefused DEF Exists
  <2> QED
    BY <2>1, <2>2, <2>3, OneRoute
<1> QED
  BY <1>1, <1>2

LEMMA EditSteps ==
  ASSUME Chained, TypeOK', NEW a \in Admins,
         \/ \E r \in Routes : ReadRoute(a, r) \/ ReadTargets(a, r)
         \/ WriteRoute(a) \/ WriteTargets(a)
  PROVE  Chained'
<1> USE DEF Chained
<1>1. ASSUME NEW e, Begin(a, e), EditSound(e), UNCHANGED <<name, route, chain>>
      PROVE  Chained'
  <2>1. \A r \in Routes : RouteSound(r)'
    BY <1>1, RouteKept DEF Grows, Exists
  <2>2. ASSUME NEW b \in Admins
        PROVE  EditSound(op[b])'
    <3>1. CASE b = a
      BY <1>1, <3>1 DEF Begin, TypeOK, EditsOK, EditSound, Whole, Exists
    <3>2. CASE b # a
      BY <1>1, <3>2, EditKept DEF Begin, TypeOK, EditsOK, Grows, Exists
    <3> QED
      BY <3>1, <3>2
  <2> QED
    BY <2>1, <2>2
<1>2. ASSUME NEW r \in Routes, ReadRoute(a, r)
      PROVE  Chained'
  <2>1. PICK m \in Models, enabled \in BOOLEAN :
          /\ Exists(m) /\ route[r] # NoRoute
          /\ Begin(a, [kind |-> "route", id |-> r, row |-> [head |-> m, enabled |-> enabled]])
    BY <1>2 DEF ReadRoute
  <2>2. EditSound([kind |-> "route", id |-> r, row |-> [head |-> m, enabled |-> enabled]])
    BY <2>1 DEF EditSound
  <2> QED
    BY <1>1, <1>2, <2>1, <2>2 DEF ReadRoute, configVars
<1>3. ASSUME NEW r \in Routes, ReadTargets(a, r)
      PROVE  Chained'
  <2>1. PICK c \in Chains : Begin(a, [kind |-> "targets", id |-> r, chain |-> c])
    BY <1>3 DEF ReadTargets
  <2>2. Whole(c) /\ route[r] # NoRoute
    BY <1>3, AskedSound DEF ReadTargets, Chains, Whole, ModelsIn
  <2>3. EditSound([kind |-> "targets", id |-> r, chain |-> c])
    BY <2>2 DEF EditSound
  <2> QED
    BY <1>1, <1>3, <2>1, <2>3 DEF ReadTargets, configVars
<1>4. ASSUME WriteRoute(a) \/ WriteTargets(a)
      PROVE  Chained'
  <2>0. PICK r \in Routes : r = op[a].id
    <3>1. op[a] \in Edit /\ op[a].kind \in {"route", "targets"}
      BY <1>4 DEF WriteRoute, WriteTargets, TypeOK, EditsOK
    <3> QED
      BY <3>1, EditKinds
  <2>1. EditSound(op[a]) /\ op[a] \in Edit /\ route[r] # NoRoute
        /\ RouteSound(r) /\ chain[r] \in Seq(Target) /\ route[r] \in [head : Models, enabled : BOOLEAN]
    BY <1>4, <2>0 DEF WriteRoute, WriteTargets, TypeOK, EditsOK, EditSound
  <2>2. /\ UNCHANGED name /\ Done(a)
        /\ \A o \in Routes \ {r} : chain'[o] = chain[o] /\ route'[o] = route[o]
    BY <1>4, <2>0 DEF WriteRoute, WriteTargets, TypeOK
  <2>3. RouteSound(r)' /\ route'[r] # NoRoute
    <3>1. CASE WriteRoute(a)
      <4>1. /\ op[a].row \in [head : Models, enabled : BOOLEAN] /\ Exists(op[a].row.head)
            /\ chain'[r] = SyncHead(chain[r], op[a].row.head) /\ route'[r] = op[a].row
        BY <2>0, <2>1, <3>1 DEF WriteRoute, EditSound, Edit, Idle, TypeOK
      <4>2. Whole(chain'[r]) /\ chain'[r][1].model = op[a].row.head
        BY <2>1, <4>1, SyncWhole DEF RouteSound
      <4>3. route'[r] # NoRoute
        BY <4>1, HeadedRow
      <4> QED
        BY <2>2, <4>1, <4>2, <4>3 DEF RouteSound, Whole, Exists
    <3>2. CASE WriteTargets(a)
      <4>1. /\ op[a].chain \in Asked /\ Whole(op[a].chain) /\ chain'[r] = op[a].chain
            /\ route'[r] = [route[r] EXCEPT !.head = op[a].chain[1].model]
        <5>1. op[a].chain \in Asked /\ Whole(op[a].chain)
          BY <2>1, <3>2 DEF WriteTargets, EditSound, Edit, Idle
        <5>2. /\ chain'[r] = op[a].chain
              /\ route'[r] = [route[r] EXCEPT !.head = op[a].chain[1].model]
          BY <2>0, <3>2 DEF WriteTargets, TypeOK
        <5> QED
          BY <5>1, <5>2
      <4>2. op[a].chain[1].model \in Models
        BY <4>1, AskedSound, ChainTypes
      <4>3. route'[r].head = chain'[r][1].model
        BY <2>1, <4>1
      <4>4. route'[r] # NoRoute
        <5>1. route'[r].head \in Models
          BY <2>1, <4>1, <4>2
        <5> QED
          BY <5>1, HeadedRow
      <4> QED
        BY <2>2, <4>1, <4>3, <4>4 DEF RouteSound, Whole, Exists
    <3> QED
      BY <1>4, <3>1, <3>2
  <2>4. \A b \in Admins : op'[b] = op[b] \/ op'[b].kind = "idle"
    BY <2>2 DEF Done, Idle, TypeOK, EditsOK
  <2>5. \A o \in Routes : route[o] # NoRoute => route'[o] # NoRoute
    BY <2>2, <2>3
  <2>6. \A b \in Admins : EditSound(op[b])'
    BY <2>2, <2>4, <2>5, EditKept DEF Grows, Exists
  <2> QED
    BY <2>1, <2>2, <2>3, <2>6, OneRoute
<1> QED
  BY <1>2, <1>3, <1>4

LEMMA ImportChained ==
  ASSUME Chained, TypeOK', NEW f \in Files, Import(f)
  PROVE  Chained'
<1> USE DEF Chained
<1>1. PICK id, row : Means(id) /\ Rows(f, id, row) /\ Attach(f, row) /\ ApplyRoutes(f, id)
  BY Imported
<1>2. Grows /\ UNCHANGED op
  BY <1>1, Imported, Attached DEF Grows, Exists
<1>3. \A r \in Routes :
        \/ chain'[r] = chain[r] /\ route'[r] = route[r]
        \/ /\ route[r] = NoRoute
           /\ chain'[r] \in Seq(Target) /\ chain'[r] # <<>> /\ Single(chain'[r])
           /\ \A i \in DOMAIN chain'[r] : name'[chain'[r][i].model] # NoName
           /\ route'[r].head = chain'[r][1].model
           /\ route'[r] \in [head : Models, enabled : BOOLEAN]
  BY <1>1, Routed
<1>4. ASSUME NEW r \in Routes
      PROVE  RouteSound(r)' /\ (route[r] # NoRoute => route'[r] # NoRoute)
  <2>1. CASE chain'[r] = chain[r] /\ route'[r] = route[r]
    BY <1>2, <2>1, RouteKept
  <2>2. CASE ~(chain'[r] = chain[r] /\ route'[r] = route[r])
    <3>1. route'[r] # NoRoute
      BY <1>3, <2>2, CatalogConstants DEF NoRoute
    <3>2. /\ chain'[r] # <<>> /\ Single(chain'[r]) /\ route[r] = NoRoute
          /\ \A i \in DOMAIN chain'[r] : name'[chain'[r][i].model] # NoName
          /\ route'[r].head = chain'[r][1].model
      BY <1>3, <2>2
    <3> QED
      BY <3>1, <3>2 DEF RouteSound, Whole, Single, Exists
  <2> QED
    BY <2>1, <2>2
<1>5. \A a \in Admins : EditSound(op[a])'
  BY <1>2, <1>4, EditKept
<1> QED
  BY <1>4, <1>5

LEMMA ChainedInit == Init => Chained
BY TypeInit DEF Init, Chained, RouteSound, EditSound, Idle

LEMMA ChainedStep == Chained /\ [Next]_vars => Chained'
<1> SUFFICES ASSUME Chained, [Next]_vars PROVE Chained'
  OBVIOUS
<1>1. TypeOK /\ TypeOK'
  BY TypeStep DEF Chained
<1> QED
  BY <1>1, QuietSteps, QuietChained, DeleteProviderChained, DeleteModelChained,
     RouteSteps, EditSteps, ImportChained, Zenon

(* What a whole chain is, as the property says it.                           *)
LEMMA WholeCounts ==
  ASSUME NEW c \in Seq(Target), Single(c)
  PROVE  Cardinality(ModelsIn(c)) = Len(c)
<1> DEFINE g == [i \in 1 .. Len(c) |-> c[i].model]
<1>1. Len(c) \in Nat /\ DOMAIN c = 1 .. Len(c)
  OBVIOUS
<1>2. g \in Bijection(1 .. Len(c), ModelsIn(c))
  BY <1>1 DEF Single, ModelsIn, Bijection, Injection, Surjection, IsInjective
<1>3. ExistsBijection(1 .. Len(c), ModelsIn(c))
  BY <1>2 DEF ExistsBijection
<1>4. IsFiniteSet(1 .. Len(c)) /\ Cardinality(1 .. Len(c)) = Len(c)
  BY <1>1, FS_Interval
<1> QED
  BY <1>3, <1>4, FS_Bijection

\* Whatever administrators create, edit, move, delete and import at once, from
\* what they read earlier: a route that exists has a chain of models that are
\* there, none of them twice, and the model its row shows is the first.
THEOREM ChainsAlwaysSound == Spec => []ChainSound
<1>1. Chained => ChainSound
  <2> SUFFICES ASSUME Chained, NEW r \in Routes
               PROVE  IF route[r] = NoRoute THEN chain[r] = <<>>
                      ELSE /\ chain[r] # <<>>
                           /\ route[r].head = chain[r][1].model
                           /\ Cardinality(ModelsIn(chain[r])) = Len(chain[r])
                           /\ \A m \in ModelsIn(chain[r]) : Exists(m)
    BY DEF ChainSound
  <2>1. RouteSound(r) /\ chain[r] \in Seq(Target)
    BY DEF Chained, TypeOK
  <2>2. CASE route[r] = NoRoute
    BY <2>1, <2>2 DEF RouteSound
  <2>3. CASE route[r] # NoRoute
    <3>1. Whole(chain[r]) /\ route[r].head = chain[r][1].model
      BY <2>1, <2>3 DEF RouteSound
    <3>2. Cardinality(ModelsIn(chain[r])) = Len(chain[r])
      BY <2>1, <3>1, WholeCounts DEF Whole
    <3> QED
      BY <2>3, <3>1, <3>2 DEF Whole, ModelsIn
  <2> QED
    BY <2>2, <2>3
<1> QED
  BY <1>1, ChainedInit, ChainedStep, PTL DEF Spec

-----------------------------------------------------------------------------
(* Groups.                                                                   *)

(* Steps after which the rows that are there are rows that were there, with  *)
(* their names; and what follows for names.                                  *)
LEMMA SameRows ==
  ASSUME Grouping,
         \A m \in Models : name'[m] = name[m] \/ name'[m] = NoName
  PROVE  \A m, o \in Models : OneRow(m, o)'
BY DEF Grouping, OneRow, Exists

LEMMA UnchangedGroups ==
  ASSUME Grouping, TypeOK', UNCHANGED <<name, shadow, member>>
  PROVE  Grouping'
BY DEF Grouping, OneRow, GroupSound, Exists

LEMMA DeletesGrouped ==
  ASSUME Grouping, TypeOK',
         \/ \E p \in Providers : DeleteProvider(p)
         \/ \E m \in Models : DeleteModel(m)
         \/ \E g \in Groups : DeleteGroup(g)
  PROVE  Grouping'
<1>0. TypeOK
  BY DEF Grouping
<1>1. ASSUME NEW p \in Providers, DeleteProvider(p)
      PROVE  Grouping'
  <2>1. ASSUME NEW m \in Models
        PROVE  /\ ProviderOf[m] = p => name'[m] = NoName /\ shadow'[m] = NoGroup
               /\ ProviderOf[m] # p => name'[m] = name[m] /\ shadow'[m] = shadow[m]
    BY <1>1 DEF DeleteProvider
  <2>2. ASSUME NEW m \in Models, Exists(m), ProviderOf[m] # p
        PROVE  member'[PairOf(m, name[m])] = member[PairOf(m, name[m])]
    BY <1>0, <1>1, <2>2, RowTypes DEF DeleteProvider, WithoutUnused, PairOf
  <2>3. \A m \in Models : GroupSound(m)'
    BY <2>1, <2>2 DEF Grouping, GroupSound, Exists
  <2> QED
    BY <2>1, <2>3, SameRows DEF Grouping
<1>2. ASSUME NEW d \in Models, DeleteModel(d)
      PROVE  Grouping'
  <2>1. /\ name'[d] = NoName /\ shadow'[d] = NoGroup
        /\ \A m \in Models \ {d} : name'[m] = name[m] /\ shadow'[m] = shadow[m]
    BY <1>0, <1>2 DEF DeleteModel, TypeOK, NamesOK
  <2>2. ASSUME NEW m \in Models \ {d}, Exists(m)
        PROVE  member'[PairOf(m, name[m])] = member[PairOf(m, name[m])]
    <3>1. PairOf(m, name[m]) # PairOf(d, name[d])
      BY <1>2, <2>2 DEF DeleteModel, Grouping, OneRow
    <3> QED
      BY <1>0, <1>2, <2>2, <3>1, RowTypes DEF DeleteModel, WithoutUnused
  <2>3. \A m \in Models : GroupSound(m)'
    BY <2>1, <2>2 DEF Grouping, GroupSound, Exists
  <2> QED
    BY <2>1, <2>3, SameRows DEF Grouping
<1>3. ASSUME NEW g \in Groups, DeleteGroup(g)
      PROVE  Grouping'
  <2>1. ASSUME NEW m \in Models
        PROVE  name'[m] = name[m] /\ shadow'[m] = IF shadow[m] = g THEN NoGroup ELSE shadow[m]
    BY <1>3 DEF DeleteGroup, configVars
  <2>2. ASSUME NEW m \in Models, Exists(m)
        PROVE  LET pair == PairOf(m, name[m])
               IN  member'[pair] = IF member[pair] = g THEN NoGroup ELSE member[pair]
    BY <1>0, <1>3, <2>2, RowTypes DEF DeleteGroup
  <2>3. \A m \in Models : GroupSound(m)'
    BY <2>1, <2>2 DEF Grouping, GroupSound, Exists
  <2> QED
    BY <2>1, <2>3, SameRows DEF Grouping
<1> QED
  BY <1>1, <1>2, <1>3

LEMMA AssignsGrouped ==
  ASSUME Grouping, TypeOK', NEW g \in Groups \cup {NoGroup},
         \/ \E ms \in SUBSET Grouped : AssignModels(ms, g)
         \/ \E pairs \in SUBSET Assigned : AssignHistoryMembers(pairs, g)
  PROVE  Grouping'
<1>0. TypeOK
  BY DEF Grouping
<1>1. \E pairs : SetMembership(pairs, g)
  BY DEF AssignModels, AssignModelsToGroup, AssignHistoryMembers
<1>2. PICK pairs : SetMembership(pairs, g)
  BY <1>1
<1>3. UNCHANGED name
  BY DEF AssignModels, AssignHistoryMembers, configVars
<1>4. ASSUME NEW m \in Models, Exists(m)
      PROVE  LET pair == PairOf(m, name[m])
             IN  /\ member'[pair] = IF pair \in pairs THEN g ELSE member[pair]
                 /\ shadow'[m] = IF pair \in pairs THEN g ELSE shadow[m]
  BY <1>0, <1>2, <1>4, RowTypes DEF SetMembership
<1>5. ASSUME NEW m \in Models, ~Exists(m)
      PROVE  shadow'[m] = shadow[m]
  BY <1>2, <1>5 DEF SetMembership
<1>6. \A m \in Models : GroupSound(m)'
  BY <1>3, <1>4, <1>5 DEF Grouping, GroupSound, Exists
<1> QED
  BY <1>3, <1>6, SameRows DEF Grouping

LEMMA RestartGrouped ==
  ASSUME Grouping, TypeOK', Restart
  PROVE  Grouping'
<1>0. TypeOK
  BY DEF Grouping
<1>1. UNCHANGED <<name, shadow>>
  BY DEF Restart, configVars
<1>2. ASSUME NEW m \in Models, Exists(m), shadow[m] # NoGroup
      PROVE  member'[PairOf(m, name[m])] = shadow[m]
  <2> DEFINE pair == PairOf(m, name[m])
             rows == {o \in Models : Exists(o) /\ PairOf(o, name[o]) = pair /\ shadow[o] # NoGroup}
  <2>1. pair \in Pairs
    BY <1>0, <1>2, RowTypes
  <2>2. rows = {m}
    BY <1>2 DEF Grouping, OneRow
  <2>3. member'[pair] = IF rows = {} THEN member[pair] ELSE shadow[CHOOSE o \in rows : TRUE]
    BY <2>1 DEF Restart
  <2>4. (CHOOSE o \in rows : TRUE) = m
    BY <2>2
  <2> HIDE DEF rows
  <2> QED
    BY <2>2, <2>3, <2>4
<1>3. \A m \in Models : GroupSound(m)'
  BY <1>1, <1>2 DEF Grouping, GroupSound, Exists
<1> QED
  BY <1>1, <1>3, SameRows DEF Grouping

(* New rows with names that nobody has, without a group.                     *)
LEMMA NewRowsGrouped ==
  ASSUME Grouping, TypeOK', UNCHANGED <<shadow, member>>,
         \A m \in Models : Exists(m) => name'[m] = name[m],
         \A m, o \in Models :
           ~Exists(m) /\ name'[m] # NoName /\ name'[o] # NoName /\ ProviderOf[m] = ProviderOf[o]
           /\ name'[m] = name'[o] => m = o
  PROVE  Grouping'
<1>1. \A m, o \in Models : OneRow(m, o)'
  BY DEF Grouping, OneRow, Exists, PairOf
<1>2. \A m \in Models : GroupSound(m)'
  BY DEF Grouping, GroupSound, Exists
<1> QED
  BY <1>1, <1>2 DEF Grouping

LEMMA CreatesGrouped ==
  ASSUME Grouping, TypeOK',
         \/ \E p \in Providers : \E ns \in (SUBSET NamesOf[p]) \ {{}} : ImportModels(p, ns)
         \/ \E m \in Models : \E n \in NamesOf[ProviderOf[m]] : CreateModel(m, n)
  PROVE  Grouping'
<1>0. TypeOK
  BY DEF Grouping
<1>1. ASSUME NEW d \in Models, NEW n \in NamesOf[ProviderOf[d]], CreateModel(d, n)
      PROVE  Grouping'
  <2>1. /\ ~Exists(d) /\ name'[d] = n /\ UNCHANGED <<shadow, member>>
        /\ \A o \in Models \ {d} : name'[o] = name[o]
        /\ \A o \in Models \ {d} : Exists(o) => ~(ProviderOf[o] = ProviderOf[d] /\ name[o] = n)
    BY <1>0, <1>1 DEF CreateModel, Free, PairOf, TypeOK, NamesOK, groupVars
  <2> QED
    BY <2>1, NewRowsGrouped DEF Exists
<1>2. ASSUME NEW p \in Providers, NEW ns \in (SUBSET NamesOf[p]) \ {{}}, ImportModels(p, ns)
      PROVE  Grouping'
  <2> DEFINE mine == {m \in Models : ProviderOf[m] = p}
             new == ns \ {name[m] : m \in mine}
  <2>1. PICK row \in Injection(new, {m \in mine : ~Exists(m)}) :
          name' = [m \in Models |->
                     IF m \in Range(row) THEN CHOOSE n \in new : row[n] = m ELSE name[m]]
    BY <1>2, Zenon DEF ImportModels, ImportUpstreamModels
  <2>2. UNCHANGED <<shadow, member>>
    BY <1>2 DEF ImportModels, groupVars
  <2>3. ASSUME NEW m \in Models
        PROVE  \/ name'[m] = name[m] /\ m \notin Range(row)
               \/ ~Exists(m) /\ ProviderOf[m] = p /\ name'[m] \in new /\ row[name'[m]] = m
    <3>1. CASE m \in Range(row)
      <4>1. PICK n \in new : row[n] = m
        BY <2>1, <3>1 DEF Range, Injection
      <4>2. name'[m] \in new /\ row[name'[m]] = m
        BY <2>1, <3>1, <4>1
      <4> QED
        BY <2>1, <4>1, <4>2 DEF Injection
    <3>2. CASE m \notin Range(row)
      BY <2>1, <3>2
    <3> QED
      BY <3>1, <3>2
  <2>4. \A m, o \in Models :
           ~Exists(m) /\ name'[m] # NoName /\ name'[o] # NoName /\ ProviderOf[m] = ProviderOf[o]
           /\ name'[m] = name'[o] => m = o
    <3> SUFFICES ASSUME NEW m \in Models, NEW o \in Models, ~Exists(m), name'[m] # NoName,
                        ProviderOf[m] = ProviderOf[o], name'[m] = name'[o]
                 PROVE  m = o
      OBVIOUS
    <3>1. name'[m] \in new /\ row[name'[m]] = m /\ ProviderOf[m] = p
      BY <2>3 DEF Exists
    <3>2. o \in mine
      BY <3>1
    <3>3. name[o] \notin new
      BY <3>2
    <3>4. row[name'[o]] = o
      BY <2>3, <3>1, <3>3
    <3> QED
      BY <3>1, <3>4
  <2> QED
    BY <2>2, <2>3, <2>4, NewRowsGrouped
<1> QED
  BY <1>1, <1>2

LEMMA WriteModelGrouped ==
  ASSUME Grouping, TypeOK', NEW a \in Admins, WriteModel(a)
  PROVE  Grouping'
<1>0. TypeOK
  BY DEF Grouping
<1>1. CASE UNCHANGED <<name, shadow, member>>
  BY <1>1, UnchangedGroups
<1>2. CASE Free(op[a].id, op[a].name)
  <2>1. PICK d \in Models : \E n \in NamesOf[ProviderOf[d]] : \E g \in Groups \cup {NoGroup} :
          d = op[a].id /\ n = op[a].name /\ g = op[a].group
    <3>1. op[a] \in Edit /\ op[a].kind = "model" /\ op[a].name \in NamesOf[ProviderOf[op[a].id]]
      BY <1>0 DEF WriteModel, TypeOK, EditsOK
    <3> QED
      BY <3>1, EditKinds
  <2>10. PICK n \in NamesOf[ProviderOf[d]] : \E g \in Groups \cup {NoGroup} :
          d = op[a].id /\ n = op[a].name /\ g = op[a].group
    BY <2>1
  <2>11. PICK g \in Groups \cup {NoGroup} : d = op[a].id /\ n = op[a].name /\ g = op[a].group
    BY <2>10
  <2> DEFINE old == PairOf(d, name[d])
             new == PairOf(d, n)
  <2>2. /\ Free(d, n) /\ StoreModel(d, n, g)
    BY <1>2, <2>11 DEF WriteModel
  <2>3. n # NoName /\ new \in Pairs
    BY NameTypes
  <2>4. /\ name'[d] = n /\ shadow'[d] = g
        /\ \A m \in Models \ {d} : name'[m] = name[m] /\ shadow'[m] = shadow[m]
    BY <1>0, <2>2 DEF StoreModel, TypeOK, NamesOK
  <2>5. g # NoGroup => member'[new] = g
    BY <1>0, <2>2, <2>3 DEF StoreModel, TypeOK
  <2>6. \A pair \in Pairs : pair # new /\ pair # old => member'[pair] = member[pair]
    BY <1>0, <2>2, <2>3 DEF StoreModel, TypeOK
  <2>7. ASSUME NEW m \in Models \ {d}, Exists(m)
        PROVE  PairOf(m, name[m]) # new /\ PairOf(m, name[m]) # old /\ PairOf(m, name[m]) \in Pairs
    <3>1. PairOf(m, name[m]) # new
      BY <2>2, <2>7 DEF Free
    <3>2. PairOf(m, name[m]) # old
      BY <2>7 DEF Grouping, OneRow, PairOf, Exists
    <3> QED
      BY <1>0, <2>7, <3>1, <3>2, RowTypes
  <2>8. \A m \in Models : GroupSound(m)'
    BY <2>3, <2>4, <2>5, <2>6, <2>7 DEF Grouping, GroupSound, Exists
  <2>9. \A m, o \in Models : OneRow(m, o)'
    BY <2>3, <2>4, <2>7 DEF Grouping, OneRow, Exists
  <2> QED
    BY <2>8, <2>9 DEF Grouping
<1> QED
  BY <1>1, <1>2 DEF WriteModel

LEMMA ImportGrouped ==
  ASSUME Grouping, TypeOK', NEW f \in Files, Import(f)
  PROVE  Grouping'
<1>0. TypeOK
  BY DEF Grouping
<1>1. PICK id, row : Means(id) /\ Rows(f, id, row) /\ Attach(f, row) /\ ApplyRoutes(f, id)
  BY <1>0, Imported
<1>2. ASSUME NEW m \in Models
      PROVE  \/ name'[m] = name[m] /\ shadow'[m] = shadow[m]
             \/ \E e \in NewModels(f, id) :
                  /\ m = row[e] /\ ~Exists(m) /\ ProviderOf[m] = id[e.of]
                  /\ name'[m] = e.name /\ shadow'[m] = e.group
  BY <1>0, <1>1, Attached
<1>3. \A e \in NewModels(f, id) :
        /\ e \in f.models /\ e.of \in DOMAIN id /\ ~HasRow(<<id[e.of], e.name>>)
        /\ e.name # NoName
  BY <1>1, CatalogConstants DEF NewModels, Means
<1>4. ASSUME NEW d \in NewModels(f, id), NEW e \in NewModels(f, id), id[d.of] = id[e.of],
             d.name = e.name
      PROVE  d = e
  BY <1>1, <1>3, <1>4, CatalogConstants DEF Means
<1>5. ASSUME NEW m \in Models, NEW o \in Models, ~Exists(m), name'[m] # NoName, name'[o] # NoName,
             ProviderOf[m] = ProviderOf[o], name'[m] = name'[o]
      PROVE  m = o
  <2>1. PICK e \in NewModels(f, id) : m = row[e] /\ ProviderOf[m] = id[e.of] /\ name'[m] = e.name
    BY <1>2, <1>5 DEF Exists
  <2>2. CASE name'[o] = name[o]
    <3>1. HasRow(<<id[e.of], e.name>>)
      BY <1>5, <2>1, <2>2 DEF HasRow, Exists, PairOf
    <3> QED
      BY <1>3, <3>1
  <2>3. CASE name'[o] # name[o]
    <3>1. PICK d \in NewModels(f, id) : o = row[d] /\ ProviderOf[o] = id[d.of] /\ name'[o] = d.name
      BY <1>2, <2>3
    <3> QED
      BY <1>4, <1>5, <2>1, <3>1
  <2> QED
    BY <2>2, <2>3
<1>6. \A m, o \in Models : OneRow(m, o)'
  <2>1. \A m \in Models : Exists(m) => name'[m] = name[m]
    BY <1>2
  <2> QED
    BY <1>5, <2>1 DEF Grouping, OneRow, Exists, PairOf
<1>7. ASSUME NEW pair \in Pairs
      PROVE  \/ /\ member'[pair] = member[pair]
                /\ \A e \in NewModels(f, id) : PairOf(row[e], e.name) = pair => e.group = NoGroup
             \/ \E e \in NewModels(f, id) :
                  PairOf(row[e], e.name) = pair /\ e.group # NoGroup /\ member'[pair] = e.group
  BY <1>1, AttachedMembers
<1>8. \A e \in NewModels(f, id) : row[e] \in Models /\ PairOf(row[e], e.name) = <<id[e.of], e.name>>
  BY <1>1 DEF Rows, PairOf
<1>9. ASSUME NEW m \in Models
      PROVE  GroupSound(m)'
  <2>1. CASE name'[m] = name[m] /\ shadow'[m] = shadow[m]
    <3>1. ASSUME Exists(m)
          PROVE  member'[PairOf(m, name[m])] = member[PairOf(m, name[m])]
      <4>1. PairOf(m, name[m]) \in Pairs /\ HasRow(PairOf(m, name[m]))
        BY <1>0, <3>1, RowTypes DEF HasRow
      <4> QED
        BY <1>3, <1>7, <1>8, <4>1
    <3> QED
      BY <2>1, <3>1 DEF Grouping, GroupSound, Exists
  <2>2. CASE ~(name'[m] = name[m] /\ shadow'[m] = shadow[m])
    <3>1. PICK e \in NewModels(f, id) :
            m = row[e] /\ ProviderOf[m] = id[e.of] /\ name'[m] = e.name /\ shadow'[m] = e.group
      BY <1>2, <2>2
    <3>2. PairOf(m, e.name) \in Pairs /\ e.name # NoName
      <4>1. e \in f.models
        BY <1>3
      <4>2. e.name \in NamesOf[ProviderOf[m]]
        BY <4>1, CatalogConstants
      <4> QED
        BY <4>2, NameTypes
    <3>3. e.group # NoGroup => member'[PairOf(m, e.name)] = e.group
      <4>1. \A d \in NewModels(f, id) : PairOf(row[d], d.name) = PairOf(m, e.name) => d = e
        BY <1>4, <1>8, <3>1
      <4> QED
        BY <1>7, <3>1, <3>2, <4>1
    <3> QED
      BY <3>1, <3>2, <3>3 DEF GroupSound, Exists
  <2> QED
    BY <2>1, <2>2
<1> QED
  BY <1>6, <1>9 DEF Grouping

LEMMA GroupingInit == Init => Grouping
BY TypeInit DEF Init, Grouping, OneRow, GroupSound, Exists

LEMMA GroupingStep == Grouping /\ [Next]_vars => Grouping'
<1> SUFFICES ASSUME Grouping, [Next]_vars PROVE Grouping'
  OBVIOUS
<1>1. TypeOK'
  BY TypeStep DEF Grouping
<1>2. \/ UNCHANGED <<name, shadow, member>>
      \/ \E p \in Providers : DeleteProvider(p)
      \/ \E m \in Models : DeleteModel(m)
      \/ \E g \in Groups : DeleteGroup(g)
      \/ \E g \in Groups \cup {NoGroup} :
           \/ \E ms \in SUBSET Grouped : AssignModels(ms, g)
           \/ \E pairs \in SUBSET Assigned : AssignHistoryMembers(pairs, g)
      \/ Restart
      \/ \E p \in Providers : \E ns \in (SUBSET NamesOf[p]) \ {{}} : ImportModels(p, ns)
      \/ \E m \in Models : \E n \in NamesOf[ProviderOf[m]] : CreateModel(m, n)
      \/ \E a \in Admins : WriteModel(a)
      \/ \E f \in Files : Import(f)
  <2> USE DEF configVars, groupVars
  <2>1. ASSUME \/ \E p \in Providers : CreateProvider(p) \/ UpdateProvider(p)
               \/ \E m \in Models : Use(m)
               \/ \E g \in Groups : CreateGroup(g)
               \/ UNCHANGED vars
        PROVE  UNCHANGED <<name, shadow, member>>
    BY <2>1 DEF CreateProvider, UpdateProvider, Use, CreateGroup, vars
  <2>2. ASSUME \/ \E r \in Routes : (\E m \in Models : CreateRoute(r, m)) \/ DeleteRoute(r)
               \/ \E a \in Admins : \/ \E m \in Models : ReadModel(a, m)
                                    \/ \E r \in Routes : ReadRoute(a, r) \/ ReadTargets(a, r)
                                    \/ WriteRoute(a) \/ WriteTargets(a)
        PROVE  UNCHANGED <<name, shadow, member>>
    BY <2>2 DEF CreateRoute, DeleteRoute, ReadModel, ReadRoute, ReadTargets, WriteRoute, WriteTargets
  <2> QED
    BY <2>1, <2>2, Zenon DEF Next
<1> QED
  BY <1>1, <1>2, UnchangedGroups, DeletesGrouped, AssignsGrouped, RestartGrouped, CreatesGrouped,
     WriteModelGrouped, ImportGrouped, Zenon

\* For any models, groups, edits and files: the group in a model's own row is
\* the one its membership has, so that no restart changes an assignment.
THEOREM ShadowAlwaysAgrees == Spec => []ShadowAgrees
<1>1. Grouping => ShadowAgrees
  BY DEF Grouping, GroupSound, ShadowAgrees
<1> QED
  BY <1>1, GroupingInit, GroupingStep, PTL DEF Spec

LEMMA RestartKeeps ==
  ASSUME Grouping, Restart
  PROVE  UNCHANGED member
<1>0. TypeOK
  BY DEF Grouping
<1> DEFINE rows(pair) == {m \in Models : Exists(m) /\ PairOf(m, name[m]) = pair /\ shadow[m] # NoGroup}
           copied(pair) == IF rows(pair) = {} THEN member[pair]
                           ELSE shadow[CHOOSE m \in rows(pair) : TRUE]
<1>1. member' = [pair \in Pairs |-> copied(pair)]
  BY DEF Restart
<1>2. ASSUME NEW pair \in Pairs
      PROVE  copied(pair) = member[pair]
  <2>1. CASE rows(pair) = {}
    BY <2>1
  <2>2. CASE rows(pair) # {}
    <3> DEFINE m == CHOOSE m \in rows(pair) : TRUE
    <3>1. m \in rows(pair)
      BY <2>2
    <3>2. shadow[m] = member[pair]
      BY <3>1 DEF Grouping, GroupSound
    <3> QED
      BY <2>2, <3>2
  <2> QED
    BY <2>1, <2>2
<1> HIDE DEF copied
<1>3. member = [pair \in Pairs |-> member[pair]]
  BY <1>0 DEF TypeOK
<1> QED
  BY <1>1, <1>2, <1>3

\* For any models, groups, edits and files: a restart, which copies the groups
\* of the rows over the memberships, moves nobody, however the assignment came
\* about and whatever it was before.
THEOREM RestartMovesNobody == Spec => [][Restart => UNCHANGED member]_vars
<1>1. Grouping /\ [Next]_vars => [Restart => UNCHANGED member]_vars
  BY RestartKeeps
<1> QED
  BY <1>1, GroupingInit, GroupingStep, PTL DEF Spec

-----------------------------------------------------------------------------
(* What a route serves, from Chained: its chain is the targets its row       *)
(* promises, and the candidates are those of it that can be called.          *)

LEMMA UsableTargets ==
  ASSUME NEW index, NEW c \in Seq(Target)
  PROVE  /\ (Usable(index, c) = <<>>) = (\A i \in DOMAIN c : ~Callable(index, c[i]))
         /\ c # <<>> /\ Callable(index, c[1]) =>
              Usable(index, c) # <<>> /\ Usable(index, c)[1] = c[1].model
<1> DEFINE at == CallableAt(index, c)
           place(i) == Cardinality({j \in at : j <= i})
           served(k) == ModelOf(c[CHOOSE i \in at : place(i) = k])
<1>1. at \in SUBSET (1 .. Len(c)) /\ Len(c) \in Nat
  BY DEF CallableAt
<1>2. IsFiniteSet(at) /\ Cardinality(at) \in Nat
  <2> HIDE DEF at
  <2>1. 1 \in Int /\ Len(c) \in Int
    BY <1>1
  <2>2. IsFiniteSet(1 .. Len(c))
    BY <2>1, FS_Interval
  <2>3. IsFiniteSet(at)
    BY <1>1, <2>2, FS_Subset
  <2> QED
    BY <2>3, FS_CardinalityType
<1>3. Usable(index, c) = [k \in 1 .. Cardinality(at) |-> served(k)]
  BY DEF Usable
<1>4. (at = {}) = (\A i \in DOMAIN c : ~Callable(index, c[i]))
  BY DEF CallableAt
<1>5. (Usable(index, c) = <<>>) = (Cardinality(at) = 0)
  <2> HIDE DEF at, served
  <2> QED
    BY <1>2, <1>3
<1>6. (Cardinality(at) = 0) = (at = {})
  BY <1>2, FS_EmptySet
<1>7. ASSUME c # <<>>, Callable(index, c[1])
      PROVE  Usable(index, c) # <<>> /\ Usable(index, c)[1] = c[1].model
  <2>1. 1 \in at
    BY <1>7 DEF CallableAt
  <2>2. {j \in at : j <= 1} = {1}
    BY <1>1, <2>1
  <2>3. place(1) = 1
    BY <2>2, FS_Singleton
  <2>4. ASSUME NEW i \in at, i # 1
        PROVE  place(i) # 1
    <3> DEFINE upTo == {j \in at : j <= i}
    <3>1. 1 \in upTo /\ i \in upTo
      BY <1>1, <2>1, <2>4
    <3>2. IsFiniteSet(upTo)
      BY <1>2, FS_Subset
    <3> HIDE DEF upTo
    <3>3. Cardinality(upTo) # 1
      BY <2>4, <3>1, <3>2, FS_Singleton
    <3> QED
      BY <3>3 DEF upTo
  <2>5. (CHOOSE i \in at : place(i) = 1) = 1
    <3> HIDE DEF at, place
    <3> QED
      BY <2>1, <2>3, <2>4
  <2>6. served(1) = c[1].model
    BY <2>5 DEF ModelOf
  <2>7. Cardinality(at) # 0
    BY <1>6, <2>1
  <2>8. 1 \in 1 .. Cardinality(at)
    BY <1>2, <2>7
  <2>9. Usable(index, c)[1] = served(1)
    <3> HIDE DEF at, served
    <3> QED
      BY <1>3, <2>8
  <2> QED
    BY <1>5, <2>6, <2>7, <2>9
<1> QED
  BY <1>4, <1>5, <1>6, <1>7

LEMMA ChainedServes == Chained => ShownIsServed
<1> SUFFICES ASSUME Chained, NEW r \in Routes, route[r].enabled
             PROVE  LET served == Resolve(Index, r)
                    IN  /\ Callable(Index, chain[r][1]) =>
                             served # <<>> /\ served[1] = route[r].head
                        /\ (served = <<>>) = (\A i \in DOMAIN chain[r] : ~Callable(Index, chain[r][i]))
  BY DEF ShownIsServed
<1>1. route[r] # NoRoute
  BY DEF NoRoute
<1>2. /\ chain[r] \in Seq(Target) /\ chain[r] # <<>>
      /\ route[r].head = chain[r][1].model /\ route[r].head \in Models
  <2>1. Whole(chain[r]) /\ route[r].head = chain[r][1].model
    BY <1>1 DEF Chained, RouteSound
  <2>2. route[r] \in [head : Models, enabled : BOOLEAN] /\ chain[r] \in Seq(Target)
    BY <1>1 DEF Chained, TypeOK
  <2> QED
    BY <2>1, <2>2 DEF Whole
<1>3. Index.route = route /\ Index.chain = chain
  BY DEF Index
<1>4. Resolve(Index, r) = Usable(Index, chain[r])
  BY <1>2, <1>3, CatalogConstants DEF Resolve, BuildCandidates
<1> QED
  BY <1>2, <1>4, UsableTargets

\* For any models, routes, administrators and edits: a route that is enabled
\* serves what its row shows as soon as that can be called, and answers that
\* there is no such model only if none of its targets can be.
THEOREM ShownAlwaysServed == Spec => []ShownIsServed
BY ChainedServes, ChainedInit, ChainedStep, PTL DEF Spec
=============================================================================
