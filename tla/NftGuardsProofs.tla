--------------------------- MODULE NftGuardsProofs ---------------------------
(***************************************************************************)
(* Proofs about NftGuards, for any zones, conntrack ids, tuples and        *)
(* capacity: the inductive invariant, that owned guards are in force, and  *)
(* that the nftables objects implement GuardTable.                         *)
(***************************************************************************)
EXTENDS NftGuards, TLAPS

USE DEF Key, Group, At, Goto, Found, Answer, kernel

\* Where an operation is after the assignments of the module.
LEMMA PcOf ==
  ASSUME NEW p, NEW k, NEW f, op' = [pc |-> p, key |-> k, found |-> f]
  PROVE  op'.pc = p
  OBVIOUS

\* The groups of a set of guards are those of its members that have the id.
LEMMA GroupsOfMembers ==
  ASSUME NEW keys, NEW id, NEW k \in keys, k.id = id
  PROVE  Group(k) \in GroupsOf(keys, id)
  BY DEF GroupsOf

\* They are groups of that id.
LEMMA GroupsOfType ==
  ASSUME NEW keys \in SUBSET Key, NEW id \in Id
  PROVE  /\ GroupsOf(keys, id) \subseteq Zone \X Id
         /\ \A g \in GroupsOf(keys, id) : g[2] = id
  BY DEF GroupsOf

\* The type invariant: every step leaves sets of the right objects and an
\* operation with a key.
LEMMA TypePreserved ==
  ASSUME TypeOK, [Next]_vars
  PROVE  TypeOK'
<1> USE DEF TypeOK, Pc, Idle
<1>1. CASE UNCHANGED vars
  BY <1>1 DEF vars
<1>2. ASSUME NEW k \in Key, InstallAppGuard(k) PROVE TypeOK'
  BY <1>2 DEF InstallAppGuard, Call
<1>3. ASSUME NEW k \in Key, RenewAppGuard(k) PROVE TypeOK'
  BY <1>3 DEF RenewAppGuard, Call
<1>4. ASSUME NEW k \in Key, RemoveAppGuard(k) PROVE TypeOK'
  BY <1>4 DEF RemoveAppGuard, Call
<1>5. CASE ProbeRoot
  <2>1. Routes(op.key) \in SUBSET {"route", "element"}
    BY DEF Routes
  <2> QED BY <1>5, <2>1 DEF ProbeRoot
<1>6. CASE InstallApplies
  <2>1. GroupsWith(op.key) \subseteq Zone \X Id
    BY <1>6, GroupsOfType DEF InstallApplies, GroupsWith
  <2>2. CASE InstallScript(op.key) /\ (Goto("own") \/ Goto("doubt"))
    BY <1>6, <2>1, <2>2 DEF InstallApplies, InstallScript, ChainRules
  <2>3. CASE UNCHANGED kernel /\ Goto("doubt")
    BY <1>6, <2>3 DEF InstallApplies
  <2> QED BY <1>6, <2>2, <2>3 DEF InstallApplies, Applied, Late, Refused
<1>7. CASE ReadBack
  BY <1>7 DEF ReadBack
<1>8. CASE OwnGuard
  BY <1>8 DEF OwnGuard
<1>9. CASE VerifyApplied \/ VerifyFailed
  BY <1>9 DEF VerifyApplied, VerifyFailed
<1>10. CASE RenewApplies
  BY <1>10 DEF RenewApplies, RenewScript, Applied, Late, Refused
<1>11. CASE FindGuard
  <2>1. Routes(op.key) \cup Elements(op.key) \in SUBSET {"route", "element"}
    BY DEF Routes, Elements
  <2> QED BY <1>11, <2>1 DEF FindGuard
<1>12. CASE RemoveApplies
  <2>1. GroupsWithout(op.key) \subseteq Zone \X Id
    BY <1>12, GroupsOfType DEF RemoveApplies, GroupsWithout
  <2>2. CASE RemoveScript(op.key) /\ (Goto("disown") \/ Answer)
    <3>1. CASE RemoveElement(op.key)
      BY <1>12, <2>2, <3>1 DEF RemoveApplies, RemoveElement
    <3>2. CASE RemoveGroup(op.key)
      BY <1>12, <2>1, <2>2, <3>2 DEF RemoveApplies, RemoveGroup, ChainRules
    <3>3. CASE RemoveChain(op.key)
      BY <1>12, <2>2, <3>3 DEF RemoveApplies, RemoveChain
    <3> QED BY <2>2, <3>1, <3>2, <3>3 DEF RemoveScript
  <2>3. CASE UNCHANGED kernel /\ Answer
    BY <1>12, <2>3 DEF RemoveApplies
  <2> QED BY <1>12, <2>2, <2>3 DEF RemoveApplies, Applied, RemoveFails
<1>13. CASE DisownGuard
  BY <1>13 DEF DisownGuard
<1>14. ASSUME NEW k \in Key, ElementExpires(k) PROVE TypeOK'
  BY <1>14 DEF ElementExpires
<1>15. CASE Reconfigure
  BY <1>15 DEF Reconfigure
<1> QED
  BY <1>1, <1>2, <1>3, <1>4, <1>5, <1>6, <1>7, <1>8, <1>9, <1>10, <1>11, <1>12, <1>13,
     <1>14, <1>15 DEF Next

\* The room that the capacity check found is still there when the guard is owned:
\* the mutex keeps every other installation out.
LEMMA RoomPreserved ==
  ASSUME TypeOK, HasRoom, [Next]_vars
  PROVE  HasRoom'
<1> USE DEF HasRoom, Idle, TypeOK, Pc
<1>1. CASE UNCHANGED vars
  BY <1>1 DEF vars
<1>2. ASSUME NEW k \in Key, InstallAppGuard(k) PROVE HasRoom'
  BY <1>2 DEF InstallAppGuard, Call
<1>3. ASSUME NEW k \in Key, RenewAppGuard(k) PROVE HasRoom'
  BY <1>3 DEF RenewAppGuard, Call
<1>4. ASSUME NEW k \in Key, RemoveAppGuard(k) PROVE HasRoom'
  BY <1>4 DEF RemoveAppGuard, Call
<1>5. CASE ProbeRoot
  BY <1>5 DEF ProbeRoot
<1>6. CASE InstallApplies
  BY <1>6 DEF InstallApplies, Applied, Late, Refused
<1>7. CASE ReadBack
  BY <1>7 DEF ReadBack
<1>8. CASE OwnGuard
  BY <1>8 DEF OwnGuard
<1>9. CASE VerifyApplied \/ VerifyFailed
  BY <1>9 DEF VerifyApplied, VerifyFailed
<1>10. CASE RenewApplies
  BY <1>10 DEF RenewApplies, Applied, Late, Refused
<1>11. CASE FindGuard
  BY <1>11 DEF FindGuard
<1>12. CASE RemoveApplies
  BY <1>12 DEF RemoveApplies, Applied, RemoveFails
<1>13. CASE DisownGuard
  BY <1>13 DEF DisownGuard
<1>14. ASSUME NEW k \in Key, ElementExpires(k) PROVE HasRoom'
  BY <1>14 DEF ElementExpires
<1>15. CASE Reconfigure
  BY <1>15 DEF Reconfigure
<1> QED
  BY <1>1, <1>2, <1>3, <1>4, <1>5, <1>6, <1>7, <1>8, <1>9, <1>10, <1>11, <1>12, <1>13,
     <1>14, <1>15 DEF Next
Reliable == faults \cap {"unread", "leftover"} = {}

\* A script that writes the rules of an id for a superset of the groups it must
\* keep leaves those groups with a rule.
LEMMA RulesKept ==
  ASSUME TypeOK, NEW e \in Key, NEW id \in Id, NEW groups,
         Group(e) \in rule \/ e.id = id, e.id = id => Group(e) \in groups
  PROVE  Group(e) \in ChainRules(id, groups)
  BY DEF ChainRules, TypeOK

\* The kernel side of an installation keeps every element that is owned in force
\* and puts the new one in force.
LEMMA InstallWires ==
  ASSUME TypeOK, NEW k \in Key, InstallScript(k),
         NEW e \in Key, e = k \/ (e \in owned /\ Blocked(e))
  PROVE  Blocked(e)'
<1>1. e.id = k.id => Group(e) \in GroupsWith(k)
  BY GroupsOfMembers DEF GroupsWith
<1>2. Group(e) \in rule \/ e.id = k.id
  BY DEF Blocked
<1>3. Group(e) \in ChainRules(k.id, GroupsWith(k))
  <2>1. k.id \in Id
    OBVIOUS
  <2> QED BY <1>1, <1>2, <2>1, RulesKept
<1> QED BY <1>3 DEF InstallScript, Blocked

\* A removal keeps every other owned guard that was in force.
LEMMA RemoveSpares ==
  ASSUME TypeOK, NEW k \in Key, RemoveScript(k),
         NEW e \in owned, e # k, Blocked(e)
  PROVE  Blocked(e)'
<1>0. e \in Key /\ e \in owned \ {k} /\ k.id \in Id
  BY DEF TypeOK
<1>1. e.id = k.id => Group(e) \in GroupsWithout(k)
  BY <1>0, GroupsOfMembers DEF GroupsWithout
<1>2. CASE KeepGroup(k) /\ RemoveElement(k)
  BY <1>0, <1>2 DEF RemoveElement, Blocked
<1>3. CASE ~KeepGroup(k) /\ GroupsWithout(k) # {} /\ RemoveGroup(k)
  <2>1. Group(e) \in ChainRules(k.id, GroupsWithout(k))
    BY <1>0, <1>1, RulesKept DEF Blocked
  <2>2. Group(e) # Group(k)
    BY <1>0, <1>1, <1>3 DEF KeepGroup
  <2> QED BY <1>3, <2>1, <2>2 DEF RemoveGroup, Blocked
<1>4. CASE ~KeepGroup(k) /\ GroupsWithout(k) = {} /\ RemoveChain(k)
  <2>1. e.id # k.id
    BY <1>1, <1>4
  <2> QED BY <1>0, <1>4, <2>1 DEF RemoveChain, Blocked
<1> QED BY <1>2, <1>3, <1>4 DEF RemoveScript

\* What a removal leaves of the elements.
LEMMA RemoveElements ==
  ASSUME TypeOK, NEW k \in Key, RemoveScript(k)
  PROVE  elem' \subseteq elem /\ ("element" \in op.found => k \notin elem')
<1>1. CASE RemoveElement(k)
  BY <1>1 DEF RemoveElement
<1>2. CASE RemoveGroup(k)
  BY <1>2 DEF RemoveGroup
<1>3. CASE RemoveChain(k)
  BY <1>3 DEF RemoveChain
<1> QED BY <1>1, <1>2, <1>3 DEF RemoveScript

\* The three parts of Wired, and what leaves them alone.
AllBlocked == \A k \in elem : Blocked(k)
Awaited == IF op.pc \in {"doubt", "own"} THEN {op.key} ELSE {}
ElementsOwned == elem \subseteq owned \cup Awaited
Withdrawn == op.pc = "disown" \/ (op.pc = "remove" /\ "element" \notin op.found)
WithdrawnGone == Withdrawn => op.key \notin elem

\* Elements stay in force while the objects they go through are left alone.
LEMMA AllBlockedUnchanged ==
  ASSUME AllBlocked, UNCHANGED kernel
  PROVE  AllBlocked'
  BY DEF AllBlocked, Blocked

\* Every element stays in force and owned, or about to be owned.
LEMMA WiredPreserved ==
  ASSUME TypeOK, TypeOK', Wired, [Next]_vars
  PROVE  Wired'
<1> SUFFICES ASSUME Reliable' PROVE AllBlocked' /\ ElementsOwned' /\ WithdrawnGone'
  BY DEF Wired, Reliable, AllBlocked, ElementsOwned, Awaited, WithdrawnGone, Withdrawn
<1>0. faults' = faults
  BY DEF Next, vars, InstallAppGuard, RenewAppGuard, RemoveAppGuard, ProbeRoot,
         InstallApplies, ReadBack, OwnGuard, VerifyApplied, VerifyFailed, RenewApplies,
         FindGuard, RemoveApplies, DisownGuard, ElementExpires, Reconfigure
<1>a. Reliable /\ AllBlocked /\ ElementsOwned /\ WithdrawnGone
  BY <1>0 DEF Wired, Reliable, AllBlocked, ElementsOwned, Awaited, WithdrawnGone, Withdrawn
<1>b. elem \subseteq Key /\ "unread" \notin faults /\ "leftover" \notin faults
  BY <1>a DEF Reliable, TypeOK
<1>c. ASSUME UNCHANGED kernel, owned' = owned, op.pc \notin {"doubt", "own"},
             op'.pc \notin {"remove", "disown"}
      PROVE  AllBlocked' /\ ElementsOwned' /\ WithdrawnGone'
  <2>1. AllBlocked'
    BY <1>a, <1>c, AllBlockedUnchanged
  <2>2. elem \subseteq owned
    BY <1>a, <1>c DEF ElementsOwned, Awaited
  <2>3. ElementsOwned'
    BY <1>c, <2>2 DEF ElementsOwned
  <2>4. WithdrawnGone'
    BY <1>c DEF WithdrawnGone, Withdrawn
  <2> QED BY <2>1, <2>3, <2>4
<1>1. CASE UNCHANGED vars
  <2>1. AllBlocked'
    BY <1>1, <1>a, AllBlockedUnchanged DEF vars
  <2>2. ElementsOwned' /\ WithdrawnGone'
    BY <1>1, <1>a DEF vars, ElementsOwned, Awaited, WithdrawnGone, Withdrawn
  <2> QED BY <2>1, <2>2
<1>2. CASE \E k \in Key : InstallAppGuard(k) \/ RenewAppGuard(k) \/ RemoveAppGuard(k)
  <2>1. PICK k \in Key : InstallAppGuard(k) \/ RenewAppGuard(k) \/ RemoveAppGuard(k)
    BY <1>2
  <2>2. UNCHANGED kernel /\ owned' = owned /\ op.pc = "idle"
    BY <2>1 DEF InstallAppGuard, RenewAppGuard, RemoveAppGuard
  <2>3. Call("probe", k) \/ Call("renew", k) \/ Call("find", k)
    BY <2>1 DEF InstallAppGuard, RenewAppGuard, RemoveAppGuard
  <2>a. Call("probe", k) => op'.pc = "probe"
    BY PcOf DEF Call
  <2>b. Call("renew", k) => op'.pc = "renew"
    BY PcOf DEF Call
  <2>c. Call("find", k) => op'.pc = "find"
    BY PcOf DEF Call
  <2>4. op'.pc \in {"probe", "renew", "find"}
    BY <2>3, <2>a, <2>b, <2>c
  <2> QED BY <1>c, <2>2, <2>4
<1>5. CASE ProbeRoot
  <2>1. UNCHANGED kernel /\ owned' = owned /\ op.pc = "probe"
    BY <1>5 DEF ProbeRoot
  <2>2. Found("install", Routes(op.key)) \/ Answer
    BY <1>5 DEF ProbeRoot
  <2>a. Found("install", Routes(op.key)) => op'.pc = "install"
    BY PcOf
  <2>b. Answer => op'.pc = "idle"
    BY PcOf DEF Idle
  <2>3. op'.pc \in {"install", "idle"}
    BY <2>2, <2>a, <2>b
  <2> QED BY <1>c, <2>1, <2>3
<1>6. CASE InstallApplies
  <2>1. op.key \in Key /\ op.pc = "install" /\ owned' = owned
    BY <1>6 DEF InstallApplies, TypeOK
  <2>2. elem \subseteq owned
    BY <1>a, <2>1 DEF ElementsOwned, Awaited
  <2>3. ASSUME op' = [op EXCEPT !.pc = "own"] \/ op' = [op EXCEPT !.pc = "doubt"]
        PROVE  op'.pc \in {"own", "doubt"} /\ op'.key = op.key
    BY <2>3 DEF TypeOK
  <2>4. CASE InstallScript(op.key) /\ (Goto("own") \/ Goto("doubt"))
    <3>1. elem' = elem \cup {op.key}
      BY <2>4 DEF InstallScript
    <3>2. ASSUME NEW e \in elem' PROVE Blocked(e)'
      <4>1. e \in Key /\ (e = op.key \/ (e \in owned /\ Blocked(e)))
        BY <1>a, <1>b, <2>1, <2>2, <3>1, <3>2 DEF AllBlocked
      <4> QED BY <2>1, <2>4, <4>1, InstallWires
    <3>3. AllBlocked'
      BY <3>2 DEF AllBlocked
    <3>4. op'.pc \in {"own", "doubt"} /\ op'.key = op.key
      BY <2>3, <2>4
    <3>5. ElementsOwned'
      BY <2>1, <2>2, <3>1, <3>4 DEF ElementsOwned, Awaited
    <3>6. WithdrawnGone'
      BY <3>4 DEF WithdrawnGone, Withdrawn
    <3> QED BY <3>3, <3>5, <3>6
  <2>5. CASE UNCHANGED kernel /\ Goto("doubt")
    <3>1. op'.pc = "doubt"
      BY <2>5 DEF TypeOK
    <3> QED BY <1>c, <2>1, <2>5, <3>1
  <2> QED BY <1>6, <2>4, <2>5 DEF InstallApplies, Applied, Late, Refused
<1>7. CASE ReadBack
  <2>1. AllBlocked'
    BY <1>7, <1>a, AllBlockedUnchanged DEF ReadBack
  <2>2. op.pc = "doubt" /\ elem' = elem /\ owned' = owned
    BY <1>7 DEF ReadBack
  <2>3. CASE Goto("own")
    <3>1. op'.pc = "own" /\ op'.key = op.key
      BY <2>3 DEF TypeOK
    <3>2. ElementsOwned'
      BY <1>a, <2>2, <3>1 DEF ElementsOwned, Awaited
    <3>3. WithdrawnGone'
      BY <3>1 DEF WithdrawnGone, Withdrawn
    <3> QED BY <2>1, <3>2, <3>3
  <2>4. CASE (Installed(op.key) => "unread" \in faults) /\ Answer
    <3>1. ~Installed(op.key)
      BY <1>b, <2>4
    <3>2. op.key \notin elem
      BY <1>a, <3>1 DEF Installed, AllBlocked, Blocked
    <3>3. op'.pc = "idle"
      BY <2>4 DEF Idle
    <3>4. ElementsOwned'
      BY <1>a, <2>2, <3>2, <3>3 DEF ElementsOwned, Awaited
    <3>5. WithdrawnGone'
      BY <3>3 DEF WithdrawnGone, Withdrawn
    <3> QED BY <2>1, <3>4, <3>5
  <2> QED BY <1>7, <2>3, <2>4 DEF ReadBack
<1>8. CASE OwnGuard
  <2>1. op.pc = "own" /\ op'.pc = "verify" /\ elem' = elem /\ owned' = owned \cup {op.key}
    BY <1>8 DEF OwnGuard, TypeOK
  <2>2. AllBlocked'
    BY <1>8, <1>a, AllBlockedUnchanged DEF OwnGuard
  <2>3. ElementsOwned'
    BY <1>a, <2>1 DEF ElementsOwned, Awaited
  <2>4. WithdrawnGone'
    BY <2>1 DEF WithdrawnGone, Withdrawn
  <2> QED BY <2>2, <2>3, <2>4
<1>9. CASE VerifyApplied \/ VerifyFailed
  <2>1. UNCHANGED kernel /\ owned' = owned /\ op.pc = "verify" /\ Answer
    BY <1>9 DEF VerifyApplied, VerifyFailed
  <2>2. op'.pc = "idle"
    BY <2>1 DEF Idle
  <2> QED BY <1>c, <2>1, <2>2
<1>10. CASE RenewApplies
  <2>1. UNCHANGED kernel /\ owned' = owned /\ op.pc = "renew"
    BY <1>10 DEF RenewApplies, RenewScript, Applied, Late, Refused
  <2>2. op'.pc \in {"verify", "probe"}
    BY <1>10 DEF RenewApplies, Applied, Late, Refused, TypeOK
  <2> QED BY <1>c, <2>1, <2>2
<1>11. CASE FindGuard
  <2>1. UNCHANGED kernel /\ owned' = owned /\ op.pc = "find"
    BY <1>11 DEF FindGuard
  <2>2. CASE Answer
    <3>1. op'.pc = "idle"
      BY <2>2 DEF Idle
    <3> QED BY <1>c, <2>1, <3>1
  <2>3. CASE Found("remove", Routes(op.key) \cup Elements(op.key))
    <3>1. /\ op'.pc = "remove" /\ op'.key = op.key
          /\ op'.found = Routes(op.key) \cup Elements(op.key)
      BY <2>3
    <3>2. AllBlocked'
      BY <1>a, <2>1, AllBlockedUnchanged
    <3>3. ElementsOwned'
      BY <1>a, <2>1, <3>1 DEF ElementsOwned, Awaited
    <3>4. op.key \in elem => "element" \in op'.found
      BY <3>1 DEF Elements
    <3>5. WithdrawnGone'
      BY <2>1, <3>1, <3>4 DEF WithdrawnGone, Withdrawn
    <3> QED BY <3>2, <3>3, <3>5
  <2> QED BY <1>11, <2>2, <2>3 DEF FindGuard
<1>12. CASE RemoveApplies
  <2>1. op.key \in Key /\ op.pc = "remove" /\ owned' = owned
    BY <1>12 DEF RemoveApplies, TypeOK
  <2>2. elem \subseteq owned
    BY <1>a, <2>1 DEF ElementsOwned, Awaited
  <2>3. CASE RemoveScript(op.key) /\ (Goto("disown") \/ Answer)
    <3>1. elem' \subseteq elem /\ ("element" \in op.found => op.key \notin elem')
      BY <2>1, <2>3, RemoveElements
    <3>2. op.key \notin elem'
      BY <1>a, <2>1, <3>1 DEF WithdrawnGone, Withdrawn
    <3>3. ASSUME NEW e \in elem' PROVE Blocked(e)'
      <4>1. e \in owned /\ e # op.key /\ Blocked(e)
        BY <1>a, <2>2, <3>1, <3>2, <3>3 DEF AllBlocked
      <4> QED BY <2>1, <2>3, <4>1, RemoveSpares
    <3>4. AllBlocked'
      BY <3>3 DEF AllBlocked
    <3>5. op'.pc \in {"disown", "idle"} /\ (op'.pc = "disown" => op'.key = op.key)
      BY <2>3 DEF TypeOK, Idle
    <3>6. ElementsOwned'
      BY <2>1, <2>2, <3>1 DEF ElementsOwned
    <3>7. WithdrawnGone'
      BY <3>2, <3>5 DEF WithdrawnGone, Withdrawn
    <3> QED BY <3>4, <3>6, <3>7
  <2>4. CASE UNCHANGED kernel /\ Answer
    <3>1. op'.pc = "idle"
      BY <2>4 DEF Idle
    <3> QED BY <1>c, <2>1, <2>4, <3>1
  <2> QED BY <1>12, <2>3, <2>4 DEF RemoveApplies, Applied, RemoveFails
<1>13. CASE DisownGuard
  <2>1. /\ UNCHANGED kernel /\ owned' = owned \ {op.key}
        /\ op.pc = "disown" /\ op'.pc = "idle" /\ elem' = elem
    BY <1>13 DEF DisownGuard, Idle
  <2>2. AllBlocked'
    BY <1>a, <2>1, AllBlockedUnchanged
  <2>3. op.key \notin elem /\ elem \subseteq owned
    BY <1>a, <2>1 DEF WithdrawnGone, Withdrawn, ElementsOwned, Awaited
  <2>4. ElementsOwned'
    BY <2>1, <2>3 DEF ElementsOwned
  <2>5. WithdrawnGone'
    BY <2>1 DEF WithdrawnGone, Withdrawn
  <2> QED BY <2>2, <2>4, <2>5
<1>14. CASE \E k \in Key : ElementExpires(k)
  <2>1. PICK k \in Key : ElementExpires(k)
    BY <1>14
  <2>2. /\ elem' \subseteq elem /\ owned' = owned /\ op' = op
        /\ root' = root /\ rule' = rule
    BY <2>1 DEF ElementExpires
  <2>3. AllBlocked'
    BY <1>a, <2>2 DEF AllBlocked, Blocked
  <2>4. ElementsOwned'
    BY <1>a, <2>2 DEF ElementsOwned, Awaited
  <2>5. WithdrawnGone'
    BY <1>a, <2>2 DEF WithdrawnGone, Withdrawn
  <2> QED BY <2>3, <2>4, <2>5
<1>15. CASE Reconfigure
  <2>1. elem' = {} /\ op'.pc = "idle"
    BY <1>15, <1>b DEF Reconfigure
  <2> QED BY <2>1 DEF AllBlocked, ElementsOwned, WithdrawnGone
<1> QED
  BY <1>1, <1>2, <1>5, <1>6, <1>7, <1>8, <1>9, <1>10, <1>11, <1>12, <1>13, <1>14, <1>15
  DEF Next

\* The inductive invariant holds in every reachable state: the objects are of
\* their kinds, the operation in progress has its room, and, with reliable
\* readbacks, every element in the kernel is in force.
THEOREM InductiveInvariant == Spec => []Inductive
<1>1. Init => Inductive
  <2> SUFFICES ASSUME Init PROVE Inductive
    OBVIOUS
  <2>1. op = Idle /\ op.pc = "idle"
    BY DEF Init, Idle
  <2>a. Idle \in [pc : Pc, key : Key \cup {None}, found : SUBSET {"route", "element"}]
    BY DEF Idle, Pc
  <2>b. /\ root \subseteq Id /\ chain \subseteq Id
        /\ rule \subseteq Zone \X Id /\ set \subseteq Zone \X Id
        /\ elem \subseteq Key /\ owned \subseteq Key
    BY DEF Init
  <2>2. TypeOK
    BY <2>1, <2>a, <2>b DEF TypeOK
  <2>3. HasRoom
    BY <2>1 DEF HasRoom
  <2>4. Wired
    BY <2>1 DEF Init, Wired
  <2> QED BY <2>2, <2>3, <2>4 DEF Inductive
<1>2. Inductive /\ [Next]_vars => Inductive'
  BY TypePreserved, RoomPreserved, WiredPreserved DEF Inductive
<1> QED BY <1>1, <1>2, PTL DEF Spec

\* An owned guard is in force until its element expires, for any zones, ids,
\* tuples and capacity, with any refused or late nft calls.
THEOREM GuardsAreWired == Spec => []OwnedIsWired
<1>1. Inductive => OwnedIsWired
  BY DEF Inductive, Wired, OwnedIsWired
<1> QED BY <1>1, InductiveInvariant, PTL

(***************************************************************************)
(* The refinement                                                          *)
(***************************************************************************)
Guarded == {k \in owned : Blocked(k)}

\* A step that leaves the kernel objects and the table alone is a stutter.
LEMMA KernelUnchanged ==
  ASSUME UNCHANGED kernel, owned' = owned
  PROVE  Guarded' = Guarded
  BY DEF Guarded, Blocked

\* Every step of the manager is a step of the table or a stutter.
LEMMA StepImplements ==
  ASSUME Inductive, [Next]_vars
  PROVE  [Table!Next]_(Table!vars)
<1> USE DEF Inductive
<1>s. ASSUME UNCHANGED kernel, owned' = owned PROVE [Table!Next]_(Table!vars)
  <2>1. Guarded' = Guarded
    BY <1>s, KernelUnchanged
  <2> QED BY <1>s, <2>1 DEF Table!vars, Guarded
<1>t. ASSUME NEW k \in Key, owned' = owned, \A e \in owned \ {k} : Blocked(e) => Blocked(e)'
      PROVE  [Table!Next]_(Table!vars)
  <2>1. Table!Touch(k)
    BY <1>t DEF Table!Touch
  <2> QED BY <2>1 DEF Table!Next
<1>1. CASE UNCHANGED vars
  BY <1>1, <1>s DEF vars
<1>2. CASE \E k \in Key : InstallAppGuard(k) \/ RenewAppGuard(k) \/ RemoveAppGuard(k)
  BY <1>2, <1>s DEF InstallAppGuard, RenewAppGuard, RemoveAppGuard
<1>3. CASE ProbeRoot \/ ReadBack \/ VerifyApplied \/ VerifyFailed \/ FindGuard
  BY <1>3, <1>s DEF ProbeRoot, ReadBack, VerifyApplied, VerifyFailed, FindGuard
<1>4. CASE InstallApplies
  <2>1. op.key \in Key /\ owned' = owned /\ owned \subseteq Key
    BY <1>4 DEF InstallApplies, TypeOK
  <2>2. CASE InstallScript(op.key)
    <3>1. \A e \in owned \ {op.key} : Blocked(e) => Blocked(e)'
      BY <2>1, <2>2, InstallWires
    <3> QED BY <1>t, <2>1, <3>1
  <2>3. CASE UNCHANGED kernel
    BY <1>s, <2>1, <2>3
  <2> QED BY <1>4, <2>2, <2>3 DEF InstallApplies, Applied, Late, Refused
<1>5. CASE OwnGuard
  <2>1. op.key \in Key /\ (op.key \in owned \/ Cardinality(owned) < Max)
    BY <1>5 DEF OwnGuard, HasRoom, TypeOK
  <2>2. Table!Own(op.key)
    <3>1. owned' = owned \cup {op.key} /\ UNCHANGED kernel
      BY <1>5 DEF OwnGuard
    <3>2. Guarded \subseteq Guarded' /\ Guarded' \in SUBSET owned'
      BY <3>1 DEF Guarded, Blocked
    <3>3. op.key \in owned \/ Cardinality(owned) < Max
      BY <2>1
    <3>4. {k \in owned : Blocked(k)} \subseteq {k \in owned : Blocked(k)}'
      BY <3>2 DEF Guarded
    <3>5. {k \in owned : Blocked(k)}' \in SUBSET owned'
      BY <3>2 DEF Guarded
    <3> HIDE DEF Key, Group, At, Goto, Found, Answer, kernel
    <3>6. Cardinality(owned) = Table!Cardinality(owned)
      BY Zenon DEF Cardinality, Table!Cardinality
    <3> QED BY <3>1, <3>3, <3>4, <3>5, <3>6 DEF Table!Own
  <2> QED BY <2>1, <2>2 DEF Table!Next
<1>6. CASE RenewApplies
  BY <1>6, <1>s DEF RenewApplies, RenewScript, Applied, Late, Refused
<1>7. CASE RemoveApplies
  <2>1. op.key \in Key /\ owned' = owned /\ owned \subseteq Key
    BY <1>7 DEF RemoveApplies, TypeOK
  <2>2. CASE RemoveScript(op.key)
    <3>1. \A e \in owned \ {op.key} : Blocked(e) => Blocked(e)'
      BY <2>1, <2>2, RemoveSpares
    <3> QED BY <1>t, <2>1, <3>1
  <2>3. CASE UNCHANGED kernel
    BY <1>s, <2>1, <2>3
  <2> QED BY <1>7, <2>2, <2>3 DEF RemoveApplies, Applied, RemoveFails
<1>8. CASE DisownGuard
  <2>1. op.key \in Key
    BY <1>8 DEF DisownGuard, TypeOK
  <2>2. Table!Disown(op.key)
    BY <1>8 DEF DisownGuard, Table!Disown, Blocked
  <2> QED BY <2>1, <2>2 DEF Table!Next
<1>9. ASSUME NEW k \in Key, ElementExpires(k) PROVE [Table!Next]_(Table!vars)
  <2>1. Table!Expire(k)
    BY <1>9 DEF ElementExpires, Table!Expire, Blocked
  <2> QED BY <2>1 DEF Table!Next
<1>10. CASE Reconfigure
  <2>1. Table!Reset
    BY <1>10 DEF Reconfigure, Table!Reset
  <2> QED BY <2>1 DEF Table!Next
<1> QED
  BY <1>1, <1>2, <1>3, <1>4, <1>5, <1>6, <1>7, <1>8, <1>9, <1>10 DEF Next

\* The nftables objects implement the table of independent guards: no operation
\* withdraws another owned guard and the capacity is respected.
THEOREM Refinement == Spec => ImplementsGuardTable
<1>1. Init => Table!Init
  BY DEF Init, Table!Init
<1>2. Inductive /\ [Next]_vars => [Table!Next]_(Table!vars)
  BY StepImplements
<1> QED BY <1>1, <1>2, InductiveInvariant, PTL DEF Spec, ImplementsGuardTable, Table!Spec
=============================================================================
