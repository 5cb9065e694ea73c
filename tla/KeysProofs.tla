----------------------------- MODULE KeysProofs ------------------------------
(* Keys, for any keys, people, groups, models, files, administrators and     *)
(* calls, from KeyConstants alone: types, and that a call is served only on  *)
(* what the store grants or an edit that was not answered has withdrawn.     *)
(* What a snapshot says was granted when its table was read, and whatever    *)
(* was withdrawn since is in the history of an edit still to be answered.    *)
EXTENDS Keys, TLAPS

-----------------------------------------------------------------------------
(* Tables: a row added, replaced or removed leaves a table.                  *)

LEMMA KeyTable ==
  \A t : t \in KeyTables <=> DOMAIN t \subseteq KeyIds /\ t \in [DOMAIN t -> KeyRow]
BY DEF KeyTables

LEMMA PersonTable ==
  \A t : t \in PersonTables <=> DOMAIN t \subseteq People /\ t \in [DOMAIN t -> PersonRow]
BY DEF PersonTables

LEMMA GroupTable ==
  \A t : t \in GroupTables <=> DOMAIN t \subseteq Groups /\ t \in [DOMAIN t -> SUBSET Models]
BY DEF GroupTables

LEMMA RowsTyped ==
  ASSUME TypeOK
  PROVE  /\ key \in KeyTables /\ person \in PersonTables /\ group \in GroupTables
         /\ Rows \in Tables /\ snap \in Tables
BY DEF TypeOK, Rows, Tables

(* An edit is under way, and not one that has committed.                     *)
LEMMA EditKinds ==
  ASSUME NEW j, EditOK(j)
  PROVE  /\ j.at = "key" => j.id \in KeyIds /\ j.new \in KeyRow
                             /\ j.claim \in {"no", None} \cup People
         /\ j.at = "person" => j.id \in People /\ j.new \in PersonRow
BY DEF EditOK, Idle

LEMMA CommitsTyped ==
  ASSUME TypeOK, NEW e \in Editors, Commits(e), Rows' \in Tables
  PROVE  TypeOK'
<1>1. \A f \in Editors : EditOK(edit'[f])
  BY DEF TypeOK, Commits, EditOK
<1>2. DOMAIN edit' = Editors /\ DOMAIN call' = Calls /\ writes' \in Nat
  BY DEF TypeOK, Commits
<1>3. QED
  BY <1>1, <1>2 DEF TypeOK, Commits, EditOK, Idle

LEMMA RefusedTyped ==
  ASSUME TypeOK, NEW e \in Editors, Refused(e)
  PROVE  TypeOK'
BY DEF TypeOK, Refused, EditOK, Idle, store, Rows

LEMMA BeginsTyped ==
  ASSUME TypeOK, NEW e \in Editors, NEW j, EditOK(j), edit' = [edit EXCEPT ![e] = j],
         UNCHANGED <<store, rebuild, snap, call>>
  PROVE  TypeOK'
BY DEF TypeOK, store, Rows

LEMMA TypeInit == Init => TypeOK
<1> SUFFICES ASSUME Init PROVE TypeOK
  OBVIOUS
<1>1. key \in KeyTables
  BY KeyConstants, KeyTable DEF Init, KeyRow
<1>2. person \in PersonTables
  BY PersonTable DEF Init, PersonRow
<1>3. group \in GroupTables
  BY GroupTable DEF Init
<1>4. Rows \in Tables /\ snap \in Tables
  BY <1>1, <1>2, <1>3 DEF Init, Rows, Tables
<1> QED
  BY <1>4 DEF TypeOK, Init, EditOK

LEMMA TypeEditing ==
  ASSUME TypeOK, NEW e \in Editors, Editing(e)
  PROVE  TypeOK'
<1> USE RowsTyped
<1>1. ASSUME NEW k \in KeyIds, NEW caller \in People \cup {Root}, CreateKey(e, caller, k)
      PROVE  TypeOK'
  <2>1. PICK ms \in Lists, g \in MayBind(caller) :
          key' = [i \in DOMAIN key \cup {k} |-> IF i = k THEN NewKey(caller, ms, g) ELSE key[i]]
    BY <1>1, Zenon DEF CreateKey
  <2>2. NewKey(caller, ms, g) \in KeyRow
    BY GroupTable, KeyConstants DEF NewKey, KeyRow, MayBind
  <2>3. key' \in KeyTables
    BY <2>1, <2>2, KeyTable
  <2> QED
    BY <1>1, <2>3, CommitsTyped DEF CreateKey, Rows, Tables
<1>2. ASSUME NEW k \in KeyIds, NEW caller \in People \cup {Root}, ReadKey(e, caller, k)
      PROVE  TypeOK'
  <2>1. PICK on \in BOOLEAN, ms \in Lists, g \in MayBind(caller) \cup {key[k].group},
             claim \in {"no"} \cup (IF caller = Root THEN {None} \cup DOMAIN person ELSE {}) :
          edit' = [edit EXCEPT ![e] =
            [at |-> "key", id |-> k,
             new |-> [key[k] EXCEPT !.enabled = on, !.models = ms, !.group = g],
             claim |-> claim]]
    <3>1. PICK on \in BOOLEAN, ms \in Lists, g \in MayBind(caller) \cup {key[k].group},
               claim \in {"no"} \cup (IF caller = Root THEN {None} \cup DOMAIN person ELSE {}) :
            LET new == [key[k] EXCEPT !.enabled = on, !.models = ms, !.group = g]
            IN  /\ Cardinality({f \in {"enabled", "models", "group"} : new[f] # key[k][f]})
                     + (IF claim = "no" THEN 0 ELSE 1) <= 1
                /\ GuardNoLoosening(caller, key[k], new)
                /\ edit' = [edit EXCEPT ![e] =
                     [at |-> "key", id |-> k, new |-> new, claim |-> claim]]
      BY <1>2 DEF ReadKey
    <3> QED
      BY <3>1, Zenon
  <2>2. key[k] \in KeyRow
    BY <1>2, KeyTable DEF ReadKey
  <2>3. g \in Groups \cup {None} /\ claim \in {"no", None} \cup People /\ ms \in SUBSET Models
    BY <2>2, GroupTable, PersonTable, KeyConstants DEF MayBind, KeyRow
  <2>4. [key[k] EXCEPT !.enabled = on, !.models = ms, !.group = g] \in KeyRow
    BY <2>2, <2>3 DEF KeyRow
  <2> QED
    BY <1>2, <2>1, <2>3, <2>4, BeginsTyped DEF ReadKey, EditOK
<1>3. ASSUME UpdateAccessKey(e)
      PROVE  TypeOK'
  <2>1. CASE Refused(e)
    BY <2>1, RefusedTyped
  <2>2. CASE ~Refused(e)
    <3>1. PICK owner : /\ key' = [key EXCEPT ![edit[e].id] = [edit[e].new EXCEPT !.owner = owner]]
                       /\ owner = key[edit[e].id].owner \/ owner \in {None} \cup DOMAIN person
                       /\ edit[e].id \in DOMAIN key
                       /\ Commits(e) /\ UNCHANGED <<person, group>>
      BY <1>3, <2>2 DEF UpdateAccessKey
    <3>2. edit[e].new \in KeyRow
      BY <1>3, EditKinds DEF UpdateAccessKey, TypeOK
    <3>3. key[edit[e].id] \in KeyRow
      BY <3>1, KeyTable
    <3>4. owner \in People \cup {Root, None}
      BY <3>1, <3>3, PersonTable DEF KeyRow
    <3>5. [edit[e].new EXCEPT !.owner = owner] \in KeyRow
      BY <3>2, <3>4 DEF KeyRow
    <3>6. key' \in KeyTables
      BY <3>1, <3>5, KeyTable
    <3> QED
      BY <3>1, <3>6, CommitsTyped DEF Rows, Tables
  <2> QED
    BY <2>1, <2>2
<1>4. ASSUME NEW k \in KeyIds, NEW caller \in People \cup {Root}, ReadForDelete(e, caller, k)
      PROVE  TypeOK'
  BY <1>4, BeginsTyped DEF ReadForDelete, EditOK
<1>5. ASSUME DeleteAccessKey(e)
      PROVE  TypeOK'
  <2>1. CASE Refused(e)
    BY <2>1, RefusedTyped
  <2>2. CASE ~Refused(e)
    <3>1. key' \in KeyTables
      BY <1>5, <2>2, KeyTable DEF DeleteAccessKey
    <3> QED
      BY <1>5, <2>2, <3>1, CommitsTyped DEF DeleteAccessKey, Rows, Tables
  <2> QED
    BY <2>1, <2>2
<1>6. ASSUME NEW u \in People, ReadPerson(e, u)
      PROVE  TypeOK'
  <2>1. PICK on \in BOOLEAN, g \in {None} \cup DOMAIN group :
          edit' = [edit EXCEPT ![e] = [at |-> "person", id |-> u,
                                       new |-> [active |-> on, group |-> g]]]
    BY <1>6 DEF ReadPerson
  <2>2. g \in Groups \cup {None}
    BY GroupTable
  <2> QED
    BY <1>6, <2>1, <2>2, BeginsTyped DEF ReadPerson, EditOK, PersonRow
<1>7. ASSUME NEW u \in People, DeleteUser(e, u)
      PROVE  TypeOK'
  <2>1. key' \in KeyTables
    BY <1>7, KeyTable DEF DeleteUser
  <2>2. person' \in PersonTables
    BY <1>7, PersonTable DEF DeleteUser
  <2> QED
    BY <1>7, <2>1, <2>2, CommitsTyped DEF DeleteUser, Rows, Tables
<1>8. ASSUME UpdateUser(e)
      PROVE  TypeOK'
  <2>1. CASE Refused(e)
    BY <2>1, RefusedTyped
  <2>2. CASE ~Refused(e)
    <3>1. edit[e].new \in PersonRow
      BY <1>8, EditKinds DEF UpdateUser, TypeOK
    <3>2. person' \in PersonTables
      BY <1>8, <2>2, <3>1, PersonTable DEF UpdateUser
    <3> QED
      BY <1>8, <2>2, <3>2, CommitsTyped DEF UpdateUser, Rows, Tables
  <2> QED
    BY <2>1, <2>2
<1>9. ASSUME NEW g \in Groups, CreateGroup(e, g)
      PROVE  TypeOK'
  <2>1. group' \in GroupTables
    BY <1>9, GroupTable DEF CreateGroup
  <2> QED
    BY <1>9, <2>1, CommitsTyped DEF CreateGroup, Rows, Tables
<1>10. ASSUME NEW g \in Groups, DeleteGroup(e, g)
       PROVE  TypeOK'
  <2>1. group' \in GroupTables
    BY <1>10, GroupTable DEF DeleteGroup
  <2> QED
    BY <1>10, <2>1, CommitsTyped DEF DeleteGroup, Rows, Tables
<1>11. ASSUME NEW g \in Groups, NEW ms \in Lists, ReplaceGroupModels(e, g, ms)
       PROVE  TypeOK'
  <2>1. group' \in GroupTables
    BY <1>11, GroupTable, KeyConstants DEF ReplaceGroupModels
  <2> QED
    BY <1>11, <2>1, CommitsTyped DEF ReplaceGroupModels, Rows, Tables
<1>12. ASSUME NEW f \in Files, ApplyIdentities(e, f)
       PROVE  TypeOK'
  <2>1. /\ f.groups \in GroupTables /\ f.people \in PersonTables /\ f.keys \in KeyTables
    BY KeyConstants DEF Tables
  <2>2. group' \in GroupTables
    BY <1>12, <2>1, GroupTable DEF ApplyIdentities, Added
  <2>3. ASSUME NEW u \in DOMAIN f.people
        PROVE  Known(f.people[u]) \in PersonRow
    BY <2>1, <2>2, PersonTable, GroupTable DEF Known, PersonRow
  <2>4. person' \in PersonTables
    BY <1>12, <2>1, <2>3, PersonTable DEF ApplyIdentities, Added
  <2>5. ASSUME NEW k \in DOMAIN f.keys
        PROVE  Known(f.keys[k]) \in KeyRow
    BY <2>1, <2>2, KeyTable, GroupTable DEF Known, KeyRow
  <2>6. key' \in KeyTables
    BY <1>12, <2>1, <2>5, KeyTable DEF ApplyIdentities, Added
  <2> QED
    BY <1>12, <2>2, <2>4, <2>6, CommitsTyped DEF ApplyIdentities, Rows, Tables
<1>13. ASSUME Reload(e)
       PROVE  TypeOK'
  BY <1>13 DEF Reload, TypeOK, store, Rows, Tables
<1> QED
  BY <1>1, <1>2, <1>3, <1>4, <1>5, <1>6, <1>7, <1>8, <1>9, <1>10, <1>11, <1>12, <1>13
  DEF Editing

LEMMA TypeStep == TypeOK /\ [Next]_vars => TypeOK'
<1> SUFFICES ASSUME TypeOK, [Next]_vars PROVE TypeOK'
  OBVIOUS
<1> USE RowsTyped
<1>1. ASSUME NEW e \in Editors, Editing(e)
      PROVE  TypeOK'
  BY <1>1, TypeEditing
<1>2. CASE ReadTable
  <2>1. PICK at \in {"people", "keys", "swap"}, new \in Tables :
          rebuild' = [rebuild EXCEPT !.at = at, !.new = new]
    BY <1>2 DEF ReadTable, TypeOK, Tables, NoRebuild
  <2>2. rebuild \in [at : {"groups", "people", "keys", "swap"}, by : Editors, new : Tables]
    BY <1>2 DEF ReadTable, TypeOK, NoRebuild
  <2>3. rebuild' \in [at : {"groups", "people", "keys", "swap"}, by : Editors, new : Tables]
    BY <2>1, <2>2
  <2> QED
    BY <1>2, <2>3 DEF ReadTable, TypeOK, store, Rows
<1>3. CASE Swap
  BY <1>3 DEF Swap, TypeOK, EditOK, NoRebuild, store, Rows
<1>4. ASSUME NEW c \in Calls, Calling(c)
      PROVE  TypeOK'
  BY <1>4 DEF Calling, Lookup, Authenticate, CheckModel, Done, Goes, TypeOK, store, console, Rows
<1>5. CASE UNCHANGED vars
  BY <1>5 DEF vars, store, console, TypeOK, Rows
<1> QED
  BY <1>1, <1>2, <1>3, <1>4, <1>5 DEF Next

(* The tables, the snapshots, the rebuild and the calls under way stay what  *)
(* the handlers make of them, for any of the constants.                      *)
THEOREM TypeCorrect == Spec => []TypeOK
BY TypeInit, TypeStep, PTL DEF Spec

-----------------------------------------------------------------------------
(* The inductive invariant.                                                  *)

(* What the store holds, or one of the editors es withdrew unanswered.       *)
Accounted(es) == Facts(Rows) \cup Withdrawn(es)

SnapSound == Facts(snap) \subseteq Standing

RebuildSound ==
  rebuild # NoRebuild =>
    LET others == Accounted(Editors \ {rebuild.by})
    IN  /\ edit[rebuild.by].at = "wrote"
        /\ rebuild.at \in {"people", "keys", "swap"} => GroupFacts(rebuild.new.groups) \subseteq others
        /\ rebuild.at \in {"keys", "swap"} => PeopleFacts(rebuild.new.people) \subseteq others
        /\ rebuild.at = "swap" => KeyFacts(rebuild.new.keys) \subseteq others

CallSound(j) ==
  /\ j.at = "key" => /\ j.doubt \cap Standing = {}
                     /\ j.allowed => j.doubt \subseteq {<<"active", j.owner>>}
  /\ j.at = "admitted" => (j.allowed => j.doubt = {})
  /\ j.at = "served" => j.doubt = {}
CallsSound == \A c \in Calls : CallSound(call[c])

IInv == TypeOK /\ SnapSound /\ RebuildSound /\ CallsSound

-----------------------------------------------------------------------------
(* What a step of the console does to what is accounted for.                 *)

LEMMA EditingKinds ==
  ASSUME TypeOK, NEW e \in Editors, Editing(e)
  PROVE  \/ edit[e].at # "wrote" /\ Commits(e)
         \/ /\ edit[e].at # "wrote"
            /\ edit'[e].at # "wrote" /\ edit' = [edit EXCEPT ![e] = edit'[e]]
            /\ UNCHANGED <<store, rebuild, snap, call>>
         \/ Reload(e)
<1>1. ASSUME NEW k \in KeyIds, NEW caller \in People \cup {Root}, ReadKey(e, caller, k)
      PROVE  /\ edit[e].at # "wrote"
             /\ edit'[e].at # "wrote" /\ edit' = [edit EXCEPT ![e] = edit'[e]]
             /\ UNCHANGED <<store, rebuild, snap, call>>
  <2>1. \E new, claim : edit' = [edit EXCEPT ![e] = [at |-> "key", id |-> k,
                                                    new |-> new, claim |-> claim]]
    BY <1>1, Zenon DEF ReadKey
  <2> QED
    BY <1>1, <2>1 DEF ReadKey, Idle, TypeOK
<1>2. ASSUME NEW u \in People, ReadPerson(e, u)
      PROVE  /\ edit[e].at # "wrote"
             /\ edit'[e].at # "wrote" /\ edit' = [edit EXCEPT ![e] = edit'[e]]
             /\ UNCHANGED <<store, rebuild, snap, call>>
  <2>1. \E new : edit' = [edit EXCEPT ![e] = [at |-> "person", id |-> u, new |-> new]]
    BY <1>2, Zenon DEF ReadPerson
  <2> QED
    BY <1>2, <2>1 DEF ReadPerson, Idle, TypeOK
<1>3. ASSUME Refused(e), edit[e].at # "wrote"
      PROVE  /\ edit'[e].at # "wrote" /\ edit' = [edit EXCEPT ![e] = edit'[e]]
             /\ UNCHANGED <<store, rebuild, snap, call>>
  BY <1>3 DEF Refused, TypeOK, Idle
<1>4. ASSUME NEW k \in KeyIds, NEW caller \in People \cup {Root}, ReadForDelete(e, caller, k)
      PROVE  /\ edit[e].at # "wrote"
             /\ edit'[e].at # "wrote" /\ edit' = [edit EXCEPT ![e] = edit'[e]]
             /\ UNCHANGED <<store, rebuild, snap, call>>
  BY <1>4 DEF ReadForDelete, TypeOK, Idle
<1>5. \/ edit[e].at # "wrote" /\ (Commits(e) \/ Refused(e))
      \/ Reload(e)
      \/ \E k \in KeyIds, caller \in People \cup {Root} :
           ReadKey(e, caller, k) \/ ReadForDelete(e, caller, k)
      \/ \E u \in People : ReadPerson(e, u)
  <2>1. edit[e] = Idle => edit[e].at # "wrote"
    BY DEF Idle
  <2>2. ASSUME UpdateAccessKey(e) \/ DeleteAccessKey(e) \/ UpdateUser(e)
        PROVE  edit[e].at # "wrote" /\ (Commits(e) \/ Refused(e))
    BY <2>2 DEF UpdateAccessKey, DeleteAccessKey, UpdateUser
  <2>3. ASSUME \/ \E k \in KeyIds, caller \in People \cup {Root} : CreateKey(e, caller, k)
               \/ \E u \in People : DeleteUser(e, u)
               \/ \E g \in Groups : \/ CreateGroup(e, g) \/ DeleteGroup(e, g)
                                    \/ \E ms \in Lists : ReplaceGroupModels(e, g, ms)
               \/ \E f \in Files : ApplyIdentities(e, f)
        PROVE  edit[e].at # "wrote" /\ Commits(e)
    BY <2>1, <2>3, Zenon DEF CreateKey, DeleteUser, CreateGroup, DeleteGroup,
       ReplaceGroupModels, ApplyIdentities
  <2> QED
    BY <2>2, <2>3, Zenon DEF Editing
<1> QED
  BY <1>1, <1>2, <1>3, <1>4, <1>5

LEMMA Commit ==
  ASSUME TypeOK, NEW e \in Editors, edit[e].at # "wrote", Commits(e),
         NEW es \in SUBSET Editors, e \in es
  PROVE  Accounted(es)' = Accounted(es) \cup Facts(Rows)'
BY DEF TypeOK, Commits, Accounted, Withdrawn

LEMMA NoCommit ==
  ASSUME TypeOK, NEW e \in Editors, edit[e].at # "wrote", NEW j, j.at # "wrote",
         edit' = [edit EXCEPT ![e] = j], UNCHANGED store, NEW es \in SUBSET Editors
  PROVE  Accounted(es)' = Accounted(es)
BY DEF TypeOK, Accounted, Withdrawn, store, Rows

(* Each of the three tables has its own part of the facts.                   *)
LEMMA FactsOf ==
  ASSUME NEW r
  PROVE  Facts(r) = KeyFacts(r.keys) \cup PeopleFacts(r.people) \cup GroupFacts(r.groups)
BY DEF Facts

-----------------------------------------------------------------------------
(* The invariant under each kind of step.                                    *)

LEMMA CommitInv ==
  ASSUME IInv, TypeOK', NEW e \in Editors, edit[e].at # "wrote", Commits(e)
  PROVE  IInv'
<1> USE DEF IInv
<1>1. /\ UNCHANGED <<rebuild, snap>>
      /\ \A f \in Editors \ {e} : edit'[f] = edit[f]
      /\ edit'[e].at = "wrote"
  BY DEF TypeOK, Commits
<1>2. \A es \in SUBSET Editors : e \in es => Accounted(es)' = Accounted(es) \cup Facts(Rows)'
  BY Commit
<1>3. Standing' = Standing \cup Facts(Rows)'
  BY <1>2 DEF Standing, Accounted
<1>4. SnapSound'
  BY <1>1, <1>3 DEF IInv, SnapSound
<1>5. RebuildSound'
  <2> SUFFICES ASSUME rebuild # NoRebuild PROVE RebuildSound'
    BY <1>1 DEF RebuildSound
  <2>1. rebuild.by \in Editors
    BY DEF IInv, TypeOK, NoRebuild
  <2>2. rebuild.by # e
    BY DEF IInv, RebuildSound
  <2>3. Accounted(Editors \ {rebuild.by}) \subseteq Accounted(Editors \ {rebuild.by})'
    BY <1>1, <1>2, <2>1, <2>2
  <2> QED
    BY <1>1, <2>1, <2>2, <2>3 DEF IInv, RebuildSound
<1>6. ASSUME NEW c \in Calls
      PROVE  CallSound(call[c])'
  <2>1. CASE call[c].at # "key"
    BY <2>1 DEF IInv, CallsSound, CallSound, Commits
  <2>2. CASE call[c].at = "key"
    <3>1. call'[c] = [call[c] EXCEPT !.doubt = @ \ Facts(Rows)']
      BY <2>2 DEF Commits
    <3> QED
      BY <1>3, <2>2, <3>1 DEF IInv, CallsSound, CallSound
  <2> QED
    BY <2>1, <2>2
<1> QED
  BY <1>4, <1>5, <1>6 DEF IInv, CallsSound

LEMMA NoCommitInv ==
  ASSUME IInv, TypeOK', NEW e \in Editors, edit[e].at # "wrote", edit'[e].at # "wrote",
         edit' = [edit EXCEPT ![e] = edit'[e]], UNCHANGED <<store, rebuild, snap, call>>
  PROVE  IInv'
<1> USE DEF IInv
<1>1. \A es \in SUBSET Editors : Accounted(es)' = Accounted(es)
  BY NoCommit
<1>2. Standing' = Standing
  BY <1>1 DEF Standing, Accounted
<1>3. SnapSound'
  BY <1>2 DEF SnapSound
<1>4. RebuildSound'
  <2> SUFFICES ASSUME rebuild # NoRebuild PROVE RebuildSound'
    BY DEF RebuildSound
  <2>1. rebuild.by \in Editors /\ rebuild.by # e
    BY DEF TypeOK, NoRebuild, RebuildSound
  <2>2. edit'[rebuild.by] = edit[rebuild.by]
    BY <2>1 DEF TypeOK
  <2> QED
    BY <1>1, <2>1, <2>2 DEF RebuildSound
<1>5. CallsSound'
  BY <1>2 DEF CallsSound, CallSound
<1> QED
  BY <1>3, <1>4, <1>5

LEMMA SameStore ==
  ASSUME UNCHANGED <<store, edit>>
  PROVE  Standing' = Standing /\ \A es : Accounted(es)' = Accounted(es)
BY DEF store, Rows, Standing, Accounted, Withdrawn

LEMMA ReloadInv ==
  ASSUME IInv, TypeOK', NEW e \in Editors, Reload(e)
  PROVE  IInv'
BY SameStore DEF IInv, Reload, SnapSound, RebuildSound, CallsSound, CallSound

LEMMA ReadTableInv ==
  ASSUME IInv, TypeOK', ReadTable
  PROVE  IInv'
<1> USE DEF IInv
<1>1. /\ rebuild \in [at : {"groups", "people", "keys", "swap"}, by : Editors, new : Tables]
      /\ rebuild # NoRebuild
  BY DEF ReadTable, TypeOK, NoRebuild
<1>2. Standing' = Standing /\ \A es : Accounted(es)' = Accounted(es)
  BY SameStore DEF ReadTable
<1>3. \A es : /\ KeyFacts(key) \subseteq Accounted(es)
              /\ PeopleFacts(person) \subseteq Accounted(es)
              /\ GroupFacts(group) \subseteq Accounted(es)
  BY DEF Accounted, Facts, Rows
<1>4. RebuildSound'
  <2>1. CASE rebuild.at = "groups"
    <3>1. rebuild' = [rebuild EXCEPT !.at = "people", !.new.groups = group]
      BY <2>1 DEF ReadTable
    <3> QED
      BY <1>1, <1>2, <1>3, <3>1 DEF RebuildSound, ReadTable, Tables
  <2>2. CASE rebuild.at = "people"
    <3>1. rebuild' = [rebuild EXCEPT !.at = "keys", !.new.people = person]
      BY <2>2 DEF ReadTable
    <3> QED
      BY <1>1, <1>2, <1>3, <2>2, <3>1 DEF RebuildSound, ReadTable, Tables
  <2>3. CASE rebuild.at = "keys"
    <3>1. rebuild' = [rebuild EXCEPT !.at = "swap", !.new.keys = key]
      BY <2>3 DEF ReadTable
    <3> QED
      BY <1>1, <1>2, <1>3, <2>3, <3>1 DEF RebuildSound, ReadTable, Tables
  <2> QED
    BY <2>1, <2>2, <2>3 DEF ReadTable
<1> QED
  BY <1>2, <1>4 DEF ReadTable, SnapSound, CallsSound, CallSound

LEMMA SwapInv ==
  ASSUME IInv, TypeOK', Swap
  PROVE  IInv'
<1> USE DEF IInv
<1> DEFINE others == Accounted(Editors \ {rebuild.by})
<1>1. rebuild # NoRebuild /\ rebuild.by \in Editors
  BY DEF Swap, TypeOK, NoRebuild
<1>2. Facts(rebuild.new) \subseteq others
  BY <1>1, FactsOf DEF Swap, RebuildSound
<1>3. Standing' = others /\ others \subseteq Standing
  BY <1>1 DEF Swap, TypeOK, Standing, Accounted, Withdrawn, store, Rows, Idle
<1>4. SnapSound'
  BY <1>2, <1>3 DEF Swap, SnapSound
<1>5. RebuildSound'
  BY DEF Swap, RebuildSound
<1>6. CallsSound'
  BY <1>3 DEF Swap, CallsSound, CallSound
<1> QED
  BY <1>4, <1>5, <1>6

(* A call that is allowed rests on facts of the snapshot, and on its owner   *)
(* being active, which is checked later.                                     *)
LEMMA RestsOnSnapshot ==
  ASSUME TypeOK, NEW k \in DOMAIN snap.keys, NEW m \in Models,
         snap.keys[k].enabled, AllowsModel(snap, k, m)
  PROVE  Rests(snap, k, m) \subseteq Facts(snap) \cup {<<"active", snap.keys[k].owner>>}
<1> DEFINE r == snap.keys[k]
           g == GroupOf(snap, k)
<1>1. /\ snap.keys[k] \in KeyRow
      /\ \A u \in DOMAIN snap.people : snap.people[u] \in PersonRow
  BY RowsTyped, KeyTable, PersonTable DEF Tables
<1>2. g \in Groups \cup {None}
  BY <1>1 DEF GroupOf, KeyRow, PersonRow
<1>3. <<"key", k, r.owner>> \in Facts(snap)
  BY DEF Facts, KeyFacts
<1>4. <<"bound", k, r.group>> \in Facts(snap)
  BY DEF Facts, KeyFacts
<1>5. <<"lists", k, m>> \in Facts(snap)
  BY DEF Facts, KeyFacts, Allowed, AllowsModel
<1>6. g # None => <<"group", g, m>> \in Facts(snap)
  BY <1>2 DEF Facts, GroupFacts, Allowed, AllowsModel, GroupModelAllow
<1>7. r.group = None /\ r.owner \in DOMAIN snap.people => <<"member", r.owner, g>> \in Facts(snap)
  BY DEF Facts, PeopleFacts, GroupOf
<1> QED
  BY <1>3, <1>4, <1>5, <1>6, <1>7 DEF Rests

LEMMA CallingInv ==
  ASSUME IInv, TypeOK', NEW c \in Calls, Calling(c)
  PROVE  IInv'
<1> USE DEF IInv
<1>1. UNCHANGED <<store, console>>
  BY DEF Calling, Lookup, Authenticate, CheckModel, Done
<1>2. Standing' = Standing /\ \A es : Accounted(es)' = Accounted(es)
  BY <1>1, SameStore DEF console
<1>3. SnapSound' /\ RebuildSound'
  BY <1>1, <1>2 DEF SnapSound, RebuildSound, console
<1>4. ASSUME NEW d \in Calls \ {c}
      PROVE  call'[d] = call[d]
  BY <1>4 DEF Calling, Lookup, Authenticate, CheckModel, Done, Goes, TypeOK
<1>5. CallSound(call[c])'
  <2>1. ASSUME NEW k \in KeyIds, NEW m \in Models, Lookup(c, k, m)
        PROVE  CallSound(call[c])'
    <3> DEFINE j == [at |-> "key", key |-> k, model |-> m, owner |-> snap.keys[k].owner,
                     allowed |-> AllowsModel(snap, k, m),
                     doubt |-> Rests(snap, k, m) \ Standing]
    <3>1. call'[c] = j
      BY <2>1 DEF Lookup, Goes, TypeOK
    <3>2. AllowsModel(snap, k, m) =>
            Rests(snap, k, m) \ Standing \subseteq {<<"active", snap.keys[k].owner>>}
      BY <2>1, RestsOnSnapshot DEF Lookup, SnapSound
    <3> QED
      BY <1>2, <3>1, <3>2 DEF CallSound
  <2>2. CASE Authenticate(c)
    <3>1. CASE ~MayCall(call[c].owner)
      BY <2>2, <3>1 DEF Authenticate, Goes, CallSound, Idle, TypeOK
    <3>2. CASE MayCall(call[c].owner)
      <4>1. <<"active", call[c].owner>> \in Standing
        BY <3>2 DEF MayCall, SnapSound, Facts, PeopleFacts
      <4>2. call'[c] = [call[c] EXCEPT !.at = "admitted"] /\ call[c].at = "key"
        BY <2>2, <3>2 DEF Authenticate, Goes, TypeOK
      <4> QED
        BY <4>1, <4>2 DEF CallsSound, CallSound
    <3> QED
      BY <3>1, <3>2
  <2>3. CASE CheckModel(c)
    BY <2>3 DEF CheckModel, Goes, CallsSound, CallSound, Idle, TypeOK
  <2>4. CASE Done(c)
    BY <2>4 DEF Done, Goes, CallSound, Idle, TypeOK
  <2> QED
    BY <2>1, <2>2, <2>3, <2>4 DEF Calling
<1>6. CallsSound'
  BY <1>2, <1>4, <1>5 DEF CallsSound, CallSound
<1> QED
  BY <1>3, <1>6

LEMMA InvInit == Init => IInv
<1> SUFFICES ASSUME Init PROVE IInv
  OBVIOUS
<1> QED
  BY TypeInit DEF Init, IInv, SnapSound, RebuildSound, CallsSound, CallSound, Standing, Idle

LEMMA InvStep == IInv /\ [Next]_vars => IInv'
<1> SUFFICES ASSUME IInv, [Next]_vars PROVE IInv'
  OBVIOUS
<1>1. TypeOK /\ TypeOK'
  BY TypeStep DEF IInv
<1>2. ASSUME NEW e \in Editors, Editing(e)
      PROVE  IInv'
  BY <1>1, <1>2, EditingKinds, CommitInv, NoCommitInv, ReloadInv
<1>3. CASE UNCHANGED vars
  BY <1>1, <1>3, SameStore
  DEF vars, console, IInv, SnapSound, RebuildSound, CallsSound, CallSound
<1> QED
  BY <1>1, <1>2, <1>3, ReadTableInv, SwapInv, CallingInv DEF Next

(* Whatever the console and the rebuilds do meanwhile, a call is served only *)
(* on what the store grants, or what an edit withdrew that was not answered. *)
THEOREM ServedAlwaysAsGranted == Spec => []ServedAsGranted
<1>1. IInv => ServedAsGranted
  BY DEF IInv, CallsSound, CallSound, ServedAsGranted
<1> QED
  BY InvInit, InvStep, <1>1, PTL DEF Spec
=============================================================================
