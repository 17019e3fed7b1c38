-------------------------- MODULE InterfaceContracts --------------------------
(***************************************************************************)
(* The interfaces of the ontology and one ObjectType that implements them. *)
(* An interface extends others; its effective contract merges its own and  *)
(* its ancestors'.  The contract asks for a property p, a type of p, a     *)
(* link of some cardinality and an action; the ObjectType binds p and the  *)
(* link to its own property and to one RelationType.  Every operation      *)
(* checks first and writes after further awaits, without a lock, so the    *)
(* checks of one request may be stale when it writes (definition_cache     *)
(* may serve an old list of ObjectTypes, which is a check made early).     *)
(***************************************************************************)
EXTENDS Naturals, FiniteSets

CONSTANTS Clients, Interfaces, None,
          Base, Derived,  \* the two interfaces that exist at the start
          MaxRequests     \* bound on requests

VARIABLES iface,     \* interface_type: None or a row
          object,    \* the published version of the ObjectType
          relation,  \* outbound cardinality of the RelationType, or "none"
          action,    \* target of the ActionType: "none", "object" or an interface
          pending,   \* per client: None or [op, name, row, stale]
          raced,     \* ghost: a write whose check was stale
          loosened,  \* ghost: a relation, an action or a parent link went away
          asked      \* requests so far

vars == <<iface, object, relation, action, pending, raced, loosened, asked>>

Any == "any"
Types == {Any, "t1", "t2"}
Cardinalities == {Any, "one", "many"}

(***************************************************************************)
(* Hierarchy and effective contract, over a table of rows t                *)
(***************************************************************************)
Parents(t, S) == UNION {t[i].parents : i \in {j \in S : t[j] # None}}
(* ancestor_interface_names: parents of parents, as often as there are rows *)
Ancestors(t, i) ==
  LET up[n \in Nat] == IF n = 0 THEN Parents(t, {i})
                       ELSE LET found == up[n - 1] IN found \cup Parents(t, found)
  IN up[Cardinality(Interfaces) - 1]
Line(t, i) == {i} \cup Ancestors(t, i)
ExpandImplements(t, S) == UNION {Line(t, i) : i \in S}
Descendants(t, i) == {j \in Interfaces : i \in Ancestors(t, j)}

Agree(a, b) == \A x, y \in {a, b} \ {Any} : x = y

(* effective_interface_contract raises nothing: every row is there, no     *)
(* cycle is met, and no two rows of the line disagree                      *)
Mergeable(t, i) ==
  LET line == Line(t, i) IN
  /\ \A j \in line : t[j] # None /\ j \notin Ancestors(t, j)
  /\ \A j, k \in line : Agree(t[j].type, t[k].type) /\ Agree(t[j].link, t[k].link)

Requires(t, i) == \E j \in Line(t, i) : t[j].required
NeedsAction(t, i) == \E j \in Line(t, i) : t[j].needs

PropertiesMatch(t, o, i) ==
  /\ Requires(t, i) => o.has
  /\ \A j \in Line(t, i) : t[j].type # Any => o.has /\ o.type = t[j].type
LinksMatch(t, i) == \A j \in Line(t, i) : t[j].link \in {Any, relation}
(* _actions_available_on_object_type, with the stored hierarchy s *)
ActionAvailable(s, o) == action \in {"object"} \cup ExpandImplements(s, o.implements)

(* Mutant: only the interface's own row is validated, not its ancestors' *)
Implements_Local(s, t, o) ==
  \A i \in o.implements :
    /\ t[i] # None
    /\ t[i].required => o.has
    /\ t[i].type # Any => o.has /\ o.type = t[i].type

(* _validate_implements: contracts of t (with overrides), actions of s *)
Implements(s, t, o) ==
  \A i \in o.implements :
    /\ Mergeable(t, i)
    /\ PropertiesMatch(t, o, i)
    /\ LinksMatch(t, i)
    /\ NeedsAction(t, i) => ActionAvailable(s, o)

(* validate_parent_interfaces *)
ParentsValid(i, parents) ==
  \A p \in parents : p # i /\ iface[p] # None /\ i \notin Ancestors(iface, p)

(* the typed property is one the contract requires, and the row merges *)
Acceptable(i, row) ==
  LET t == [iface EXCEPT ![i] = row] IN
  /\ \A p \in row.parents : Mergeable(iface, p)
  /\ ~row.required /\ row.type # Any => {p \in row.parents : Requires(iface, p)} # {}
  /\ Mergeable(t, i)

(* link_constraints_tighten, property_types_tighten and the rest *)
Tightens(old, new) ==
  \/ new.required /\ ~old.required
  \/ new.needs /\ ~old.needs
  \/ new.type \notin {Any, old.type}
  \/ new.link \notin {Any, old.link}
  \/ ~(new.parents \subseteq old.parents)

(* assert_interface_tighten_compatible *)
TightenCompatible(i, row) ==
  Tightens(iface[i], row) /\ i \in ExpandImplements(iface, object.implements) =>
    Implements(iface, [iface EXCEPT ![i] = row], object)

(* update_interface_type: None leaves a field; a kept type is dropped when *)
(* its property is no longer required                                      *)
Changed(i, field, value) ==
  LET row == [iface[i] EXCEPT ![field] = value]
      allowed == row.required \/ \E p \in row.parents : Mergeable(iface, p) /\ Requires(iface, p)
  IN IF field # "type" /\ ~allowed THEN [row EXCEPT !.type = Any] ELSE row

FieldValues(field) ==
  CASE field = "parents" -> SUBSET Interfaces
    [] field = "type" -> Types
    [] field = "link" -> Cardinalities
    [] OTHER -> BOOLEAN

(***************************************************************************)
(* Requests                                                                *)
(***************************************************************************)
Plain == [parents |-> {}, required |-> TRUE, type |-> Any, link |-> Any,
          needs |-> FALSE, active |-> FALSE]

(* Base asks for p, Derived may extend it and have an implementer *)
Init ==
  /\ \E parents \in {{}, {Base}} :
       iface = [i \in Interfaces |->
                 CASE i = Base -> Plain
                   [] i = Derived -> [Plain EXCEPT !.required = FALSE, !.parents = parents]
                   [] OTHER -> None]
  /\ object \in [implements : {{}, {Derived}}, has : {TRUE}, type : {Any, "t1"}]
  /\ relation = "one"
  /\ action \in {"none", Base}
  /\ pending = [c \in Clients |-> None]
  /\ raced = FALSE /\ loosened = FALSE /\ asked = 0

MayAsk(c) == pending[c] = None /\ asked < MaxRequests /\ ~raced

Ask(c, req) ==
  /\ asked' = asked + 1
  /\ pending' = [pending EXCEPT ![c] = req]
  /\ UNCHANGED <<iface, object, relation, action, raced, loosened>>

(* create_interface_type, up to its insert *)
CheckCreate(c, i, row) ==
  /\ MayAsk(c)
  /\ iface[i] = None
  /\ ParentsValid(i, row.parents)
  /\ Acceptable(i, row)
  /\ Ask(c, [op |-> "create", name |-> i, row |-> row, stale |-> FALSE])

(* update_interface_type, up to its update *)
CheckUpdate(c, i, field, value) ==
  /\ MayAsk(c)
  /\ iface[i] # None
  /\ field = "parents" => ParentsValid(i, value)
  /\ LET row == Changed(i, field, value) IN
     /\ Acceptable(i, row)
     /\ field # "active" => TightenCompatible(i, row)
     /\ Ask(c, [op |-> "update", name |-> i, row |-> row, stale |-> FALSE])

(* delete_interface_type, up to its delete *)
CheckDelete(c, i) ==
  /\ MayAsk(c)
  /\ iface[i] # None
  /\ ~iface[i].active
  /\ Descendants(iface, i) = {}
  /\ i \notin ExpandImplements(iface, object.implements)
  /\ Ask(c, [op |-> "delete", name |-> i, row |-> None, stale |-> FALSE])

(* publish_object_type_version, up to its transaction *)
CheckPublish(c, o) ==
  /\ MayAsk(c)
  /\ Implements(iface, iface, o)
  /\ Ask(c, [op |-> "publish", name |-> None, row |-> o, stale |-> FALSE])

(* the write: a create fails on an existing row, an update or a delete of  *)
(* a missing row changes nothing                                           *)
Write(c) ==
  LET p == pending[c]
      i == p.name
      current == IF p.op = "publish" THEN object ELSE iface[i]
      wins == CASE p.op = "create" -> iface[i] = None
                [] p.op \in {"update", "delete"} -> iface[i] # None
                [] OTHER -> TRUE
  IN
  /\ p # None
  /\ IF ~wins THEN UNCHANGED <<iface, object>>
     ELSE IF p.op = "publish" THEN object' = p.row /\ UNCHANGED iface
     ELSE iface' = [iface EXCEPT ![i] = p.row] /\ UNCHANGED object
  /\ raced' = (raced \/ (wins /\ p.stale))
  /\ loosened' = (loosened \/ (wins /\ p.op = "update" /\ ~(current.parents \subseteq p.row.parents)))
  /\ pending' = [d \in Clients |->
       IF d = c THEN None
       ELSE IF pending[d] # None /\ wins THEN [pending[d] EXCEPT !.stale = TRUE] ELSE pending[d]]
  /\ UNCHANGED <<relation, action, asked>>

(* update_relation_type, delete_relation_type: implementers are not asked *)
SetRelation(card) ==
  /\ asked < MaxRequests /\ asked' = asked + 1
  /\ relation # card
  /\ relation' = card
  /\ loosened' = TRUE
  /\ UNCHANGED <<iface, object, action, pending, raced>>

(* create_action_type, an upsert: implementers are not asked *)
UpsertAction(target) ==
  /\ asked < MaxRequests /\ asked' = asked + 1
  /\ target \in Interfaces => iface[target] # None
  /\ action # target
  /\ action' = target
  /\ loosened' = TRUE
  /\ UNCHANGED <<iface, object, relation, pending, raced>>

(* what clients send: rows with a type or without, versions with p or not *)
NewRows == {[Plain EXCEPT !.parents = ps, !.type = t] : ps \in SUBSET Interfaces, t \in {Any, "t1"}}
NewVersions == {[implements |-> S, has |-> t # Any, type |-> t] :
                 S \in {{}} \cup {{i} : i \in Interfaces}, t \in Types}

Next ==
  \/ \E c \in Clients :
       \/ \E i \in Interfaces :
            \/ \E row \in NewRows : CheckCreate(c, i, row)
            \/ \E field \in {"parents", "required", "type", "link", "needs", "active"} :
                 \E value \in FieldValues(field) :
                   iface[i] # None /\ iface[i][field] # value /\ CheckUpdate(c, i, field, value)
            \/ CheckDelete(c, i)
       \/ \E o \in NewVersions : o # object /\ CheckPublish(c, o)
       \/ Write(c)
  \/ \E card \in {"none", "one", "many"} : SetRelation(card)
  \/ \E target \in {"object"} \cup Interfaces : UpsertAction(target)

Spec == Init /\ [][Next]_vars

(***************************************************************************)
(* Unless a write used a stale check, the published ObjectType satisfies   *)
(* every interface it implements, parents included, whatever was created,  *)
(* changed or deleted since: the rows exist and merge, and its properties  *)
(* match.  Links and actions match too, as long as no RelationType, no     *)
(* ActionType and no parent was taken away, which no check looks at.       *)
(***************************************************************************)
ContractsHold ==
  ~raced => \A i \in object.implements :
    /\ Mergeable(iface, i)
    /\ PropertiesMatch(iface, object, i)
    /\ ~loosened => LinksMatch(iface, i) /\ (NeedsAction(iface, i) => ActionAvailable(iface, object))

(***************************************************************************)
(* Unless a write used a stale check, the hierarchy is well formed: every  *)
(* parent exists and no interface extends itself through any chain, on     *)
(* which every recursive read of a contract relies to end.                 *)
(***************************************************************************)
HierarchySound ==
  ~raced => \A i \in Interfaces : iface[i] # None =>
    /\ \A p \in iface[i].parents : iface[p] # None
    /\ i \notin Ancestors(iface, i)
=============================================================================
