------------------------------ MODULE NftGuards ------------------------------
(***************************************************************************)
(* The application guards as nftables objects                              *)
(* (internal/dataplane/inspection_guards.go over inspection_schema.go).    *)
(*                                                                         *)
(* A conntrack id is routed by an element of the verdict map app_denied_v4 *)
(* (`root') to a chain of its own.  The chain has one rule per zone, and a *)
(* rule matches the original tuple in the timeout set of its zone and id.  *)
(* One guard is in force when the three are in place.  Guards whose zones  *)
(* share an id share the chain, and guards that share zone and id share    *)
(* the set, so installing or removing one rewrites what others depend on.  *)
(*                                                                         *)
(* The `mutation' mutex admits one operation at a time; each of its nft    *)
(* calls is a step.  nft applies a script as a whole or not at all, but it *)
(* may be cut off by the context after the kernel has committed.           *)
(***************************************************************************)
EXTENDS Naturals, FiniteSets

CONSTANTS
  Zone, Id, Tuple,
  Max,           \* InspectionGuardManager.max
  FaultSets,     \* the sets of faults to consider, see `faults'
  None

ASSUME MaxAssumption == Max \in Nat

\* InspectionGuardKey.
Key == [zone : Zone, id : Id, tuple : Tuple]

Group(k) == <<k.zone, k.id>>
GroupsOf(keys, id) == {Group(k) : k \in {j \in keys : j.id = id}}

VARIABLES
  faults,        \* which of these occur: "refused" (nft fails), "late" (nft
                 \* fails after the kernel has committed), "unread" (a readback
                 \* fails), "leftover" (the kernel state is not cleared)
  root,          \* ids in app_denied_v4
  chain,         \* ids with a chain
  rule,          \* <<zone, id>> with a rule in the chain of id
  set,           \* <<zone, id>> with a timeout set
  elem,          \* keys whose tuple is in the set of their zone and id
  owned,         \* InspectionGuardManager.owned
  op             \* the operation that holds the mutation mutex

kernel == <<root, chain, rule, set, elem>>
vars == <<faults, kernel, owned, op>>

\* The step, the guard, and what the first readbacks found.
Idle == [pc |-> "idle", key |-> None, found |-> {}]

Init ==
  /\ faults \in FaultSets
  /\ root = {} /\ chain = {} /\ rule = {} /\ set = {} /\ elem = {}
  /\ owned = {}
  /\ op = Idle

Blocked(k) == k.id \in root /\ Group(k) \in rule /\ k \in elem

At(pc) == op.pc = pc
Goto(pc) == op' = [op EXCEPT !.pc = pc]
Found(pc, what) == op' = [pc |-> pc, key |-> op.key, found |-> what]
Answer == op' = Idle

(***************************************************************************)
(* Calls.  An installation is refused at capacity, a removal of what is    *)
(* not owned succeeds at once, a renewal of it is an installation.         *)
(***************************************************************************)
Call(pc, k) == op' = [pc |-> pc, key |-> k, found |-> {}]

InstallAppGuard(k) ==
  /\ At("idle") /\ (k \in owned \/ Cardinality(owned) < Max)
  /\ Call("probe", k)
  /\ UNCHANGED <<faults, kernel, owned>>

RenewAppGuard(k) ==
  /\ At("idle") /\ k \in owned
  /\ Call("renew", k)
  /\ UNCHANGED <<faults, kernel, owned>>

RemoveAppGuard(k) ==
  /\ At("idle") /\ k \in owned
  /\ Call("find", k)
  /\ UNCHANGED <<faults, kernel, owned>>

(***************************************************************************)
(* Installing                                                              *)
(***************************************************************************)
Routes(k) == IF k.id \in root THEN {"route"} ELSE {}
Elements(k) == IF k \in elem THEN {"element"} ELSE {}

ProbeRoot ==
  /\ At("probe")
  /\ \/ Found("install", Routes(op.key))
     \/ "unread" \in faults /\ Answer
  /\ UNCHANGED <<faults, kernel, owned>>

\* Only the group that is installed: the chain loses the other zones.
GroupsAlone(k) == {Group(k)}

\* groups: the zones of the owned guards of an id, with one added or removed.
GroupsWith(k) == GroupsOf(owned \cup {k}, k.id)
GroupsWithout(k) == GroupsOf(owned \ {k}, k.id)

\* inspectionGuardChainScript: the chain exists and has exactly these rules, all
\* of which refer to a set that exists.
ChainRules(id, groups) == {r \in rule : r[2] # id} \cup groups

InstallScript(k) ==
  /\ GroupsWith(k) \subseteq set \cup {Group(k)}
  /\ "route" \in op.found => k.id \in root
  /\ set' = set \cup {Group(k)}
  /\ chain' = chain \cup {k.id}
  /\ rule' = ChainRules(k.id, GroupsWith(k))
  /\ root' = root \cup {k.id}
  /\ elem' = elem \cup {k}

\* What a call of ApplyInspectionMutation leads to.
Applied(script, next) == script /\ Goto(next)
Late(script, next) == "late" \in faults /\ script /\ Goto(next)
Refused(possible, next) ==
  /\ possible => "refused" \in faults
  /\ UNCHANGED kernel
  /\ Goto(next)

InstallApplies ==
  /\ At("install")
  /\ \/ Applied(InstallScript(op.key), "own")
     \/ Late(InstallScript(op.key), "doubt")
     \/ Refused(GroupsWith(op.key) \subseteq set \cup {Group(op.key)}, "doubt")
  /\ UNCHANGED <<faults, owned>>

\* installed: the element and the route; the rule is not read.
Installed(k) == k \in elem /\ k.id \in root

ReadBack ==
  /\ At("doubt")
  /\ \/ Installed(op.key) /\ Goto("own")
     \/ (Installed(op.key) => "unread" \in faults) /\ Answer
  /\ UNCHANGED <<faults, kernel, owned>>

OwnGuard ==
  /\ At("own")
  /\ owned' = owned \cup {op.key}
  /\ Goto("verify")
  /\ UNCHANGED <<faults, kernel>>

\* The readback that the answer APPLIED rests on.
VerifyApplied == At("verify") /\ Installed(op.key) /\ Answer /\ UNCHANGED <<faults, kernel, owned>>
VerifyFailed ==
  /\ At("verify") /\ (Installed(op.key) => "unread" \in faults)
  /\ Answer /\ UNCHANGED <<faults, kernel, owned>>

(***************************************************************************)
(* Renewing: delete and add in one script, which fails when the element    *)
(* has expired; a failure falls back to an installation.                   *)
(***************************************************************************)
RenewScript(k) == k \in elem /\ UNCHANGED kernel

RenewApplies ==
  /\ At("renew")
  /\ \/ Applied(RenewScript(op.key), "verify")
     \/ Late(RenewScript(op.key), "probe")
     \/ Refused(op.key \in elem, "probe")
  /\ UNCHANGED <<faults, owned>>

(***************************************************************************)
(* Removing.  The set goes with the last guard of its zone and id, the     *)
(* chain and the route with the last of its id.                            *)
(***************************************************************************)
FindGuard ==
  /\ At("find")
  /\ \/ Found("remove", Routes(op.key) \cup Elements(op.key))
     \/ "unread" \in faults /\ Answer
  /\ UNCHANGED <<faults, kernel, owned>>

\* The group of a removed guard is never kept.
KeepNothing(k) == FALSE

KeepGroup(k) == Group(k) \in GroupsWithout(k)

\* The element is deleted alone, ...
RemoveElement(k) ==
  /\ "element" \in op.found => k \in elem
  /\ elem' = IF "element" \in op.found THEN elem \ {k} ELSE elem
  /\ UNCHANGED <<root, chain, rule, set>>

\* ... or with its set and the rule that refers to it, ...
RemoveGroup(k) ==
  /\ "element" \in op.found => k \in elem
  /\ GroupsWithout(k) \subseteq set /\ Group(k) \in set
  /\ chain' = chain \cup {k.id}
  /\ rule' = ChainRules(k.id, GroupsWithout(k))
  /\ set' = set \ {Group(k)}
  /\ elem' = {e \in elem : Group(e) # Group(k)}
  /\ UNCHANGED root

\* ... or with the chain and the route as well.
RemoveChain(k) ==
  /\ "element" \in op.found => k \in elem
  /\ "route" \in op.found => k.id \in root
  /\ k.id \in chain /\ Group(k) \in set
  /\ root' = IF "route" \in op.found THEN root \ {k.id} ELSE root
  /\ chain' = chain \ {k.id}
  /\ rule' = {r \in rule : r[2] # k.id}
  /\ set' = set \ {Group(k)}
  /\ elem' = {e \in elem : Group(e) # Group(k)}

RemoveScript(k) ==
  \/ KeepGroup(k) /\ RemoveElement(k)
  \/ ~KeepGroup(k) /\ GroupsWithout(k) # {} /\ RemoveGroup(k)
  \/ ~KeepGroup(k) /\ GroupsWithout(k) = {} /\ RemoveChain(k)

\* A removal fails when the element expired after it was found or an object is
\* missing; the guard then stays owned.
RemovePossible(k) ==
  /\ "element" \in op.found => k \in elem
  /\ ~KeepGroup(k) => Group(k) \in set /\ GroupsWithout(k) \subseteq set
  /\ ~KeepGroup(k) /\ GroupsWithout(k) = {} => k.id \in chain

\* With its group kept and its element gone there is nothing to run.
RemoveFails(k) ==
  /\ ~(KeepGroup(k) /\ "element" \notin op.found)
  /\ RemovePossible(k) => "refused" \in faults
  /\ UNCHANGED kernel
  /\ Answer

RemoveApplies ==
  /\ At("remove")
  /\ \/ Applied(RemoveScript(op.key), "disown")
     \/ "late" \in faults /\ RemoveScript(op.key) /\ Answer
     \/ RemoveFails(op.key)
  /\ UNCHANGED <<faults, owned>>

DisownGuard ==
  /\ At("disown")
  /\ owned' = owned \ {op.key}
  /\ Answer
  /\ UNCHANGED <<faults, kernel>>

(***************************************************************************)
(* The kernel and the manager's life                                       *)
(***************************************************************************)
ElementExpires(k) ==
  /\ k \in elem
  /\ elem' = elem \ {k}
  /\ UNCHANGED <<faults, root, chain, rule, set, owned, op>>

\* configureInspection: ClearInspectionRuntimeState, then a new manager.  When
\* the clearing fails the next configuration starts over what was left.
Reconfigure ==
  /\ At("idle")
  /\ owned' = {}
  /\ \/ root' = {} /\ chain' = {} /\ rule' = {} /\ set' = {} /\ elem' = {}
     \/ "leftover" \in faults /\ UNCHANGED kernel
  /\ UNCHANGED <<faults, op>>

Next ==
  \/ \E k \in Key : InstallAppGuard(k) \/ RenewAppGuard(k) \/ RemoveAppGuard(k)
  \/ ProbeRoot \/ InstallApplies \/ ReadBack \/ OwnGuard \/ VerifyApplied \/ VerifyFailed
  \/ RenewApplies
  \/ FindGuard \/ RemoveApplies \/ DisownGuard
  \/ \E k \in Key : ElementExpires(k)
  \/ Reconfigure

Spec == Init /\ [][Next]_vars

(***************************************************************************)
(* Properties                                                              *)
(***************************************************************************)
Table == INSTANCE GuardTable WITH guarded <- {k \in owned : Blocked(k)}

\* Installing, renewing or removing one guard never takes another owned guard out
\* of force, whatever zones, conntrack ids and tuples they share and whichever
\* nft call fails; and the manager never owns more than its capacity.
ImplementsGuardTable == Table!Spec

\* As long as readbacks work and the kernel is cleared for a new manager, every
\* guard that the manager owns is in force until its element expires.  The answer
\* APPLIED rests on it: the readback looks at the element and the route, not at
\* the rule.
OwnedIsWired ==
  faults \cap {"unread", "leftover"} = {} => \A k \in owned \cap elem : Blocked(k)

(***************************************************************************)
(* The inductive invariant of the proofs                                   *)
(***************************************************************************)
Pc == {"idle", "probe", "install", "doubt", "own", "verify", "renew", "find", "remove", "disown"}

TypeOK ==
  /\ root \subseteq Id /\ chain \subseteq Id
  /\ rule \subseteq Zone \X Id /\ set \subseteq Zone \X Id
  /\ elem \subseteq Key /\ owned \subseteq Key
  /\ op \in [pc : Pc, key : Key \cup {None}, found : SUBSET {"route", "element"}]
  /\ ~At("idle") => op.key \in Key

\* What the operation in progress may rely on when it owns its guard.
HasRoom ==
  op.pc \in {"probe", "install", "doubt", "own", "renew"} =>
    op.key \in owned \/ Cardinality(owned) < Max

\* Every element is in force, and is owned or about to be.
Wired ==
  faults \cap {"unread", "leftover"} = {} =>
    /\ \A k \in elem : Blocked(k)
    /\ elem \subseteq owned \cup (IF op.pc \in {"doubt", "own"} THEN {op.key} ELSE {})
    /\ At("disown") \/ (At("remove") /\ "element" \notin op.found) => op.key \notin elem

Inductive == TypeOK /\ HasRoom /\ Wired
=============================================================================
