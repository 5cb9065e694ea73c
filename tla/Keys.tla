--------------------------------- MODULE Keys ---------------------------------
(* Access keys: who may edit them, what a rebuild makes of them, and what a  *)
(* call that arrives with one is allowed.                                    *)
(*   internal/admin/key_handler.go     create, update, claim, delete         *)
(*   internal/admin/group_handler.go   groups and their lists of models      *)
(*   internal/admin/config_transfer_identities.go   import of all three      *)
(*   internal/store/key_dao.go, group_dao.go                                 *)
(*   internal/snapshot/rebuild.go      groups, users and keys, one by one    *)
(*   internal/auth/auth.go             the key, then its owner               *)
(* The quota, the two rates, the expiry and the list of addresses of a key   *)
(* are guarded and written like its list of models, which stands for them.   *)
(* Rebuilds that fail are in Runtime.                                        *)
EXTENDS Naturals, FiniteSets

CONSTANTS
  KeyIds, People, Groups, Models,
  Root,         \* an administrator
  None,         \* no owner, no group
  Editors,      \* requests of the console that may be in flight at once
  Calls,        \* calls of models that may be in flight at once
  Files,        \* exported groups, accounts and keys that may be imported
  Lists,        \* bound: the lists of models that are given to keys and groups
  MaxWrites     \* bound: edits

KeyRow    == [owner : People \cup {Root, None}, enabled : BOOLEAN,
              models : SUBSET Models, group : Groups \cup {None}]
PersonRow == [active : BOOLEAN, group : Groups \cup {None}]

KeyTables    == UNION {[ks -> KeyRow] : ks \in SUBSET KeyIds}
PersonTables == UNION {[us -> PersonRow] : us \in SUBSET People}
GroupTables  == UNION {[gs -> SUBSET Models] : gs \in SUBSET Groups}
Tables == [groups : GroupTables, people : PersonTables, keys : KeyTables]

ASSUME KeyConstants ==
  /\ Root \notin People /\ None \notin People \cup Groups \cup {Root}
  /\ KeyIds # {} /\ Lists \subseteq SUBSET Models
  /\ Files \subseteq Tables

VARIABLES
  key,      \* access_keys: an empty list of models is no list
  person,   \* users that are not administrators
  group,    \* groups and user_group_models
  snap,     \* the snapshot in force
  edit,     \* what each request of the console is about to do
  rebuild,  \* the rebuild that holds Reloader.mu
  writes,   \* edits so far
  call      \* what each call is about to do

store == <<key, person, group, writes>>
console == <<edit, rebuild, snap>>
vars == <<store, console, call>>

Idle == [at |-> "idle"]
NoRebuild == [at |-> "none"]
Rows == [groups |-> group, people |-> person, keys |-> key]

Init ==
  /\ \E u \in People, g \in {None} \cup Groups, m \in Models :
       /\ key = [k \in {CHOOSE k \in KeyIds : TRUE} |->
                   [owner |-> u, enabled |-> TRUE, models |-> {}, group |-> None]]
       /\ person = [v \in People |-> [active |-> TRUE, group |-> IF v = u THEN g ELSE None]]
       /\ group = [h \in {g} \ {None} |-> {m}]
  /\ snap = Rows
  /\ edit = [e \in Editors |-> Idle]
  /\ rebuild = NoRebuild
  /\ writes = 0
  /\ call = [c \in Calls |-> Idle]

-----------------------------------------------------------------------------
(* History: the facts a call may rest on.  The store holds them now, or an   *)
(* edit has withdrawn them and was not answered yet.                         *)

Allowed(list, m) == list # {} => m \in list

KeyFacts(keys) ==
  {<<"key", k, keys[k].owner>> : k \in {i \in DOMAIN keys : keys[i].enabled}}
    \cup {<<"bound", k, keys[k].group>> : k \in DOMAIN keys}
    \cup {f \in {"lists"} \X (DOMAIN keys) \X Models : Allowed(keys[f[2]].models, f[3])}
PeopleFacts(people) ==
  {<<"active", u>> : u \in {v \in DOMAIN people : people[v].active}}
    \cup {<<"member", u, people[u].group>> : u \in DOMAIN people}
GroupFacts(groups) ==
  {f \in {"group"} \X Groups \X Models :
     f[2] \in DOMAIN groups => Allowed(groups[f[2]], f[3])}

Facts(r) == KeyFacts(r.keys) \cup PeopleFacts(r.people) \cup GroupFacts(r.groups)

Withdrawn(es) == UNION {edit[e].withdrawn : e \in {f \in es : edit[f].at = "wrote"}}

Standing == Facts(Rows) \cup Withdrawn(Editors)

(* A transaction of editor e commits: what it withdrew, and for calls under  *)
(* way what it granted, is noted.                                            *)
Commits(e) ==
  /\ writes < MaxWrites /\ writes' = writes + 1
  /\ edit' = [edit EXCEPT ![e] = [at |-> "wrote", withdrawn |-> Facts(Rows) \ Facts(Rows')]]
  /\ call' = [c \in Calls |-> IF call[c].at # "key" THEN call[c]
                              ELSE [call[c] EXCEPT !.doubt = @ \ Facts(Rows')]]
  /\ UNCHANGED <<rebuild, snap>>

Refused(e) ==
  edit' = [edit EXCEPT ![e] = Idle] /\ UNCHANGED <<store, rebuild, snap, call>>

-----------------------------------------------------------------------------
(* Keys.                                                                     *)

(* Only an administrator binds a key to a group, and to one that exists.     *)
MayBind(caller) == {None} \cup (IF caller = Root THEN DOMAIN group ELSE {})

(* Whoever creates a key owns it.                                            *)
NewKey(caller, ms, g) == [owner |-> caller, enabled |-> TRUE, models |-> ms, group |-> g]

CreateKey(e, caller, k) ==
  /\ edit[e] = Idle /\ k \notin DOMAIN key
  /\ \E ms \in Lists, g \in MayBind(caller) :
       key' = [i \in DOMAIN key \cup {k} |-> IF i = k THEN NewKey(caller, ms, g) ELSE key[i]]
  /\ UNCHANGED <<person, group>>
  /\ Commits(e)

ModelAllowlistCanTighten(existing, next) ==
  existing = {} \/ (next # {} /\ next \subseteq existing)

GuardNoLoosening(caller, row, new) ==
  \/ caller = Root
  \/ /\ new.enabled => row.enabled
     /\ new.models # row.models => ModelAllowlistCanTighten(row.models, new.models)
     /\ new.group = row.group

OwnedByCaller(caller, k) == caller = Root \/ key[k].owner = caller

(* Update reads the row, checks the caller and the request against it, and   *)
(* writes all its columns later.  An administrator may hand the key to       *)
(* somebody else, or to nobody.                                              *)
ReadKey(e, caller, k) ==
  /\ edit[e] = Idle /\ k \in DOMAIN key /\ OwnedByCaller(caller, k)
  /\ \E on \in BOOLEAN, ms \in Lists, g \in MayBind(caller) \cup {key[k].group},
        claim \in {"no"} \cup (IF caller = Root THEN {None} \cup DOMAIN person ELSE {}) :
       LET new == [key[k] EXCEPT !.enabled = on, !.models = ms, !.group = g]
       IN  /\ Cardinality({f \in {"enabled", "models", "group"} : new[f] # key[k][f]})
                + (IF claim = "no" THEN 0 ELSE 1) <= 1
           /\ GuardNoLoosening(caller, key[k], new)
           /\ edit' = [edit EXCEPT ![e] = [at |-> "key", id |-> k, new |-> new, claim |-> claim]]
  /\ UNCHANGED <<store, rebuild, snap, call>>

(* UpdateAccessKeyWithOwner: the owner is written by a claim only, and a     *)
(* group or an owner that is gone breaks a foreign key.                      *)
UpdateAccessKey(e) ==
  LET j == edit[e]
      sound == /\ j.id \in DOMAIN key
               /\ j.new.group \in {None} \cup DOMAIN group
               /\ j.claim \in {"no", None} \cup DOMAIN person
      owner == IF j.claim = "no" THEN key[j.id].owner ELSE j.claim
  IN  /\ j.at = "key"
      /\ IF sound
         THEN /\ key' = [key EXCEPT ![j.id] = [j.new EXCEPT !.owner = owner]]
              /\ UNCHANGED <<person, group>>
              /\ Commits(e)
         ELSE Refused(e)

(* Delete reads the row to see whose it is and deletes by id.                *)
ReadForDelete(e, caller, k) ==
  /\ edit[e] = Idle /\ k \in DOMAIN key /\ OwnedByCaller(caller, k)
  /\ edit' = [edit EXCEPT ![e] = [at |-> "drop", id |-> k]]
  /\ UNCHANGED <<store, rebuild, snap, call>>

DeleteAccessKey(e) ==
  /\ edit[e].at = "drop"
  /\ IF edit[e].id \in DOMAIN key
     THEN /\ key' = [i \in DOMAIN key \ {edit[e].id} |-> key[i]]
          /\ UNCHANGED <<person, group>>
          /\ Commits(e)
     ELSE Refused(e)

-----------------------------------------------------------------------------
(* Accounts and groups, which administrators edit.                           *)

ReadPerson(e, u) ==
  /\ edit[e] = Idle /\ u \in DOMAIN person
  /\ \E on \in BOOLEAN, g \in {None} \cup DOMAIN group :
       edit' = [edit EXCEPT ![e] = [at |-> "person", id |-> u, new |-> [active |-> on, group |-> g]]]
  /\ UNCHANGED <<store, rebuild, snap, call>>

UpdateUser(e) ==
  LET j == edit[e]
  IN  /\ j.at = "person"
      /\ IF j.id \in DOMAIN person /\ j.new.group \in {None} \cup DOMAIN group
         THEN /\ person' = [person EXCEPT ![j.id] = j.new]
              /\ UNCHANGED <<key, group>>
              /\ Commits(e)
         ELSE Refused(e)

(* The keys of an account go with it.                                        *)
DeleteUser(e, u) ==
  /\ edit[e] = Idle /\ u \in DOMAIN person
  /\ person' = [v \in DOMAIN person \ {u} |-> person[v]]
  /\ key' = [k \in {i \in DOMAIN key : key[i].owner # u} |-> key[k]]
  /\ UNCHANGED group
  /\ Commits(e)

CreateGroup(e, g) ==
  /\ edit[e] = Idle /\ g \notin DOMAIN group
  /\ group' = [h \in DOMAIN group \cup {g} |-> IF h = g THEN {} ELSE group[h]]
  /\ UNCHANGED <<key, person>>
  /\ Commits(e)

ReplaceGroupModels(e, g, ms) ==
  /\ edit[e] = Idle /\ g \in DOMAIN group
  /\ group' = [group EXCEPT ![g] = ms]
  /\ UNCHANGED <<key, person>>
  /\ Commits(e)

Bound(g) ==
  {u \in DOMAIN person : person[u].group = g} \cup {k \in DOMAIN key : key[k].group = g}

DeleteGroup(e, g) ==
  /\ edit[e] = Idle /\ g \in DOMAIN group /\ Bound(g) = {}
  /\ group' = [h \in DOMAIN group \ {g} |-> group[h]]
  /\ UNCHANGED <<key, person>>
  /\ Commits(e)

(* An import adds what is not there, in one transaction.  Groups and owners  *)
(* are named: a row without the one it names loses it, and a key without an  *)
(* owner is left out.                                                        *)
Added(rows, new) ==
  [x \in DOMAIN rows \cup DOMAIN new |-> IF x \in DOMAIN rows THEN rows[x] ELSE new[x]]
Known(row) == [row EXCEPT !.group = IF @ \in DOMAIN group' THEN @ ELSE None]

ApplyIdentities(e, f) ==
  LET owned == {k \in DOMAIN f.keys : f.keys[k].owner \in DOMAIN person' \cup {Root}}
  IN  /\ edit[e] = Idle
      /\ group' = Added(group, f.groups)
      /\ person' = Added(person, [u \in DOMAIN f.people |-> Known(f.people[u])])
      /\ key' = Added(key, [k \in owned |-> Known(f.keys[k])])
      /\ Commits(e)

-----------------------------------------------------------------------------
(* A rebuild for each edit: groups, users and keys are read one by one.      *)

(* Mutant: a rebuild that is under way is taken for one's own.               *)
ReloadShared(e) ==
  /\ edit[e].at = "wrote"
  /\ IF rebuild = NoRebuild
     THEN rebuild' = [at |-> "groups", by |-> e, new |-> snap] /\ UNCHANGED edit
     ELSE rebuild.by # e /\ edit' = [edit EXCEPT ![e] = Idle] /\ UNCHANGED rebuild
  /\ UNCHANGED <<store, snap, call>>

Reload(e) ==
  /\ edit[e].at = "wrote" /\ rebuild = NoRebuild
  /\ rebuild' = [at |-> "groups", by |-> e, new |-> snap]
  /\ UNCHANGED <<store, edit, snap, call>>

ReadTable ==
  /\ \/ /\ rebuild.at = "groups"
        /\ rebuild' = [rebuild EXCEPT !.at = "people", !.new.groups = group]
     \/ /\ rebuild.at = "people"
        /\ rebuild' = [rebuild EXCEPT !.at = "keys", !.new.people = person]
     \/ /\ rebuild.at = "keys"
        /\ rebuild' = [rebuild EXCEPT !.at = "swap", !.new.keys = key]
  /\ UNCHANGED <<store, edit, snap, call>>

Swap ==
  /\ rebuild.at = "swap"
  /\ snap' = rebuild.new
  /\ edit' = [edit EXCEPT ![rebuild.by] = Idle]
  /\ rebuild' = NoRebuild
  /\ UNCHANGED <<store, call>>

-----------------------------------------------------------------------------
(* A call.                                                                   *)

Goes(c, to) == call' = [call EXCEPT ![c] = to]

(* What the snapshot says of key k and model m, and the facts that rests on. *)
GroupOf(s, k) ==
  IF s.keys[k].group # None THEN s.keys[k].group
  ELSE IF s.keys[k].owner \in DOMAIN s.people THEN s.people[s.keys[k].owner].group
  ELSE None

GroupModelAllow(s, g, m) == g \in DOMAIN s.groups /\ s.groups[g] # {} => m \in s.groups[g]

AllowsModel(s, k, m) ==
  /\ s.keys[k].models # {} => m \in s.keys[k].models
  /\ GroupModelAllow(s, GroupOf(s, k), m)

Rests(s, k, m) ==
  LET r == s.keys[k]
      g == GroupOf(s, k)
  IN  {<<"key", k, r.owner>>, <<"active", r.owner>>, <<"lists", k, m>>, <<"bound", k, r.group>>}
      \cup (IF g = None THEN {} ELSE {<<"group", g, m>>})
      \cup (IF r.group # None \/ r.owner \notin DOMAIN s.people THEN {}
            ELSE {<<"member", r.owner, g>>})

Lookup(c, k, m) ==
  /\ call[c] = Idle /\ k \in DOMAIN snap.keys /\ snap.keys[k].enabled
  /\ Goes(c, [at |-> "key", key |-> k, model |-> m, owner |-> snap.keys[k].owner,
              allowed |-> AllowsModel(snap, k, m), doubt |-> Rests(snap, k, m) \ Standing])
  /\ UNCHANGED <<store, console>>

(* The owner is looked up in the snapshot that is in force by then; nobody's *)
(* and an administrator's key is refused.                                    *)
MayCall(u) == u \in DOMAIN snap.people /\ snap.people[u].active

Authenticate(c) ==
  LET j == call[c]
  IN  /\ j.at = "key"
      /\ Goes(c, IF MayCall(j.owner) THEN [j EXCEPT !.at = "admitted"] ELSE Idle)
      /\ UNCHANGED <<store, console>>

(* The model is checked with what the key was when the call came.            *)
CheckModel(c) ==
  /\ call[c].at = "admitted"
  /\ Goes(c, IF call[c].allowed THEN [call[c] EXCEPT !.at = "served"] ELSE Idle)
  /\ UNCHANGED <<store, console>>

Done(c) == call[c].at = "served" /\ Goes(c, Idle) /\ UNCHANGED <<store, console>>

-----------------------------------------------------------------------------

Editing(e) ==
  \/ \E k \in KeyIds, caller \in People \cup {Root} :
       /\ caller = Root \/ caller \in DOMAIN person
       /\ CreateKey(e, caller, k) \/ ReadKey(e, caller, k) \/ ReadForDelete(e, caller, k)
  \/ UpdateAccessKey(e) \/ DeleteAccessKey(e)
  \/ \E u \in People : ReadPerson(e, u) \/ DeleteUser(e, u)
  \/ UpdateUser(e)
  \/ \E g \in Groups : \/ CreateGroup(e, g) \/ DeleteGroup(e, g)
                       \/ \E ms \in Lists : ReplaceGroupModels(e, g, ms)
  \/ \E f \in Files : ApplyIdentities(e, f)
  \/ Reload(e)

Calling(c) ==
  \/ \E k \in KeyIds, m \in Models : Lookup(c, k, m)
  \/ Authenticate(c) \/ CheckModel(c) \/ Done(c)

Next ==
  \/ \E e \in Editors : Editing(e)
  \/ ReadTable \/ Swap
  \/ \E c \in Calls : Calling(c)

Spec == Init /\ [][Next]_vars

-----------------------------------------------------------------------------

EditOK(j) ==
  \/ j = Idle
  \/ j \in [at : {"key"}, id : KeyIds, new : KeyRow, claim : {"no", None} \cup People]
  \/ j \in [at : {"drop"}, id : KeyIds]
  \/ j \in [at : {"person"}, id : People, new : PersonRow]
  \/ j.at = "wrote"

TypeOK ==
  /\ {Rows, snap} \subseteq Tables
  /\ DOMAIN edit = Editors /\ \A e \in Editors : EditOK(edit[e])
  /\ rebuild \in {NoRebuild}
       \cup [at : {"groups", "people", "keys", "swap"}, by : Editors, new : Tables]
  /\ writes \in Nat
  /\ DOMAIN call = Calls

(* A call is served only on what the store held at some moment of the call,  *)
(* or before it and withdrawn by an edit that nobody was told of yet: who    *)
(* disables a key or an account, takes a model off a list or moves somebody  *)
(* to another group has done so when the console answers (AutoReload), even  *)
(* though a rebuild reads table after table and a call looks into two        *)
(* snapshots (auth.go:76 and :109).                                          *)
ServedAsGranted == \A c \in Calls : call[c].at = "served" => call[c].doubt = {}
=============================================================================
