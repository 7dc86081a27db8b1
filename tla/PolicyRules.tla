---- MODULE PolicyRules ----
\* First-match policy, three times over: the program the engine evaluates
\* (connectivity/program.go), the nftables forward chain the kernel evaluates
\* (dataplane/compiler.go, compiler_m2.go) and the coverage test that refuses a
\* policy no packet can reach (config/policy_reachability.go), over a candidate
\* whose policies are edited through management/api.go. Addresses have AddrBits
\* bits; an empty selector list means any value.
EXTENDS Integers, FiniteSets, Sequences, TLC

CONSTANTS
  AddrBits,
  Addr,        \* of hosts: no interface has one of them
  Port,
  PolicyIDs,   \* a sequence: which id comes first makes no difference
  Body,        \* what a client may write: policies without id and priority
  Priority,
  Interfaces,  \* records [name, zone, prefix]
  Routes       \* records [interface, prefix]

VARIABLES policies, defaultDeny

vars == <<policies, defaultDeny>>

\* netip.Prefix: the first bits of addr, the rest as written.
Masked(p) == [p EXCEPT !.addr = @ - (@ % 2^(AddrBits - p.bits))]
Contains(p, a) == Masked(p).addr = Masked([p EXCEPT !.addr = a]).addr

----
\* connectivity/program.go

\* Program.zonePrefixes: interface networks, and routes through an interface.
ZonePrefixes ==
  {<<i.zone, Masked(i.prefix)>> : i \in Interfaces} \cup
  {<<i.zone, Masked(r.prefix)>> :
     <<i, r>> \in {x \in Interfaces \X Routes : x[2].interface = x[1].name}}

\* The zone of the longest prefix that holds a, "" if none or if two zones tie.
InferAddressZone(a) ==
  LET holding == {zp \in ZonePrefixes : Contains(zp[2], a)}
      best == {zp \in holding : \A other \in holding : zp[2].bits >= other[2].bits}
      zones == {zp[1] : zp \in best}
  IN  IF Cardinality(zones) = 1 THEN CHOOSE z \in zones : TRUE ELSE ""

\* ParseServiceSelector's result: a protocol, and the ports unless allPorts.
PortMatch(s, protocol, port) ==
  s.protocol = protocol /\ (s.allPorts \/ (s.first <= port /\ port <= s.last))

AddressMatch(prefixes, a) == prefixes = {} \/ \E p \in prefixes : Contains(p, a)

RuleMatches(rule, view) ==
  /\ rule.sourceZones = {} \/ view.sourceZone \in rule.sourceZones
  /\ rule.destinationZones = {} \/ view.destinationZone \in rule.destinationZones
  /\ AddressMatch(rule.sourceAddresses, view.sourceIP)
  /\ AddressMatch(rule.destinationAddresses, view.destinationIP)
  /\ \/ rule.services = {}
     \/ \E s \in rule.services : PortMatch(s, view.protocol, view.destinationPort)

\* Enabled policies by priority.
ByPriority(list) ==
  LET enabled == {i \in DOMAIN list : list[i].enabled}
      Rank(i) == Cardinality({j \in enabled : list[j].priority <= list[i].priority})
  IN  [n \in 1 .. Cardinality(enabled) |-> list[CHOOSE i \in enabled : Rank(i) = n]]

\* The first element of a sequence for which Test holds, 0 if none.
First(seq, Test(_)) ==
  LET hits == {n \in DOMAIN seq : Test(seq[n])}
  IN  IF hits = {} THEN 0 ELSE CHOOSE n \in hits : \A m \in hits : n <= m

Compile(list) == ByPriority(list)

\* Evaluate: the deciding policy and its action; rules is a compiled list.
Evaluate(rules, view) ==
  LET Match(rule) == RuleMatches(rule, view)
      n == First(rules, Match)
  IN  IF n > 0 THEN [action |-> rules[n].action, policy |-> rules[n].id]
      ELSE [action |-> IF defaultDeny THEN "DROP" ELSE "ALLOW", policy |-> ""]

\* ViewFromTuple and InferZones.
View(packet) ==
  [sourceZone |-> InferAddressZone(packet.src),
   destinationZone |-> InferAddressZone(packet.dst),
   sourceIP |-> packet.src, destinationIP |-> packet.dst,
   protocol |-> packet.protocol, destinationPort |-> packet.dport]

----
\* dataplane/compiler.go and compiler_m2.go: the forward chain as a list of
\* lines; the kernel takes the first whose expressions all hold.

ZoneInterfaces(zones) == {i.name : i \in {x \in Interfaces : x.zone \in zones}}

\* One line per service, or one for any: iifname and oifname sets, addresses,
\* the port and the direction it is looked for in, the action.
LinesOf(policy, reverse) ==
  LET ends == IF reverse
              THEN [iif |-> policy.destinationZones, oif |-> policy.sourceZones,
                    saddr |-> policy.destinationAddresses, daddr |-> policy.sourceAddresses]
              ELSE [iif |-> policy.sourceZones, oif |-> policy.destinationZones,
                    saddr |-> policy.sourceAddresses, daddr |-> policy.destinationAddresses]
      services == IF policy.services = {} THEN {{}} ELSE {{s} : s \in policy.services}
  IN  {[ends |-> ends, service |-> s, reverse |-> reverse, action |-> policy.action] : s \in services}

\* renderPolicyRules and renderReversePolicyRules: does the packet meet a line?
LineMatches(line, packet) ==
  /\ line.reverse => packet.established
  /\ line.ends.iif = {} \/ packet.iif \in ZoneInterfaces(line.ends.iif)
  /\ line.ends.oif = {} \/ packet.oif \in ZoneInterfaces(line.ends.oif)
  /\ AddressMatch(line.ends.saddr, packet.src)
  /\ AddressMatch(line.ends.daddr, packet.dst)
  /\ \A s \in line.service :
       PortMatch(s, packet.protocol, IF line.reverse THEN packet.sport ELSE packet.dport)


\* The order in which CompileRuleset writes the policies.
ForwardChain(list) == ByPriority(list)

\* CompileM2Ruleset's chain on a packet without a mark: the lines of every
\* policy, then their reverses, then the default.
KernelVerdict(rules, packet) ==
  LET Forward(rule) == \E line \in LinesOf(rule, FALSE) : LineMatches(line, packet)
      Reverse(rule) == \E line \in LinesOf(rule, TRUE) : LineMatches(line, packet)
      f == First(rules, Forward)
      r == First(rules, Reverse)
  IN  CASE f > 0 -> rules[f].action
        [] f = 0 /\ r > 0 -> rules[r].action
        [] OTHER -> IF defaultDeny THEN "DROP" ELSE "ALLOW"

\* The interface the kernel routes an address through: the longest prefix of
\* its table, which holds the interface networks and the configured routes.
RouteOf(a) ==
  LET routes == {<<i.name, i.prefix>> : i \in Interfaces} \cup
               {<<r.interface, r.prefix>> : r \in Routes}
      holding == {e \in routes : Contains(e[2], a)}
  IN  (CHOOSE e \in holding : \A other \in holding : e[2].bits >= other[2].bits)[1]

----
\* config/policy_reachability.go

ZonesCover(earlier, later) == earlier = {} \/ (later # {} /\ later \subseteq earlier)

\* A mutated form: an overlap at the network address passes for coverage.
AddressesCoverLoosely(earlier, later) ==
  \/ earlier = {}
  \/ later # {} /\ \A w \in later : \E c \in earlier : Contains(c, Masked(w).addr)

\* addressSelectorsCover, with selectorPrefix masking both sides.
AddressesCover(earlier, later) ==
  \/ earlier = {}
  \/ later # {} /\ \A w \in later : \E c \in earlier :
                     c.bits <= w.bits /\ Contains(c, Masked(w).addr)

ServicesCover(earlier, later) ==
  \/ earlier = {}
  \/ later # {} /\ \A w \in later : \E c \in earlier :
       /\ c.protocol = w.protocol
       /\ c.allPorts \/ (~w.allPorts /\ c.first <= w.first /\ c.last >= w.last)

PolicyMatchCovers(earlier, later) ==
  /\ ZonesCover(earlier.sourceZones, later.sourceZones)
  /\ ZonesCover(earlier.destinationZones, later.destinationZones)
  /\ AddressesCover(earlier.sourceAddresses, later.sourceAddresses)
  /\ AddressesCover(earlier.destinationAddresses, later.destinationAddresses)
  /\ ServicesCover(earlier.services, later.services)

\* unreachablePolicyErrors: the policies one earlier policy covers.
Unreachable(list) ==
  LET ordered == ByPriority(list)
  IN  {ordered[n].id : n \in {n \in DOMAIN ordered : \E m \in 1 .. n - 1 :
         ordered[m].priority < ordered[n].priority /\ PolicyMatchCovers(ordered[m], ordered[n])}}

----
\* config/policy_canonical.go, config/manager.go and management/api.go

\* normalizeCandidateServices: addresses masked, equal selectors once.
Normalize(policy) ==
  [policy EXCEPT !.sourceAddresses = {Masked(p) : p \in @},
                 !.destinationAddresses = {Masked(p) : p \in @}]

\* effectivePolicyKey: identity and priority left out.
EffectiveKey(policy) ==
  LET p == Normalize(policy)
  IN  [f \in DOMAIN p \ {"id", "priority"} |-> p[f]]

Duplicates(list) ==
  LET effective == [i \in DOMAIN list |-> EffectiveKey(list[i])]
  IN  {i \in DOMAIN list : \E j \in DOMAIN list \ {i} : effective[i] = effective[j]}

\* Validate on policies: no id and no priority twice (the zones and the
\* selectors of Body are well-formed).
Valid(list) ==
  \A i, j \in DOMAIN list : i # j => /\ list[i].id # list[j].id
                                     /\ list[i].priority # list[j].priority

\* validateCandidateConfig
Accepted(list) == Valid(list) /\ Duplicates(list) = {} /\ Unreachable(list) = {}

\* SetCandidate
Store(list) == policies' = [i \in DOMAIN list |-> Normalize(list[i])] /\ UNCHANGED defaultDeny

Policy(id, priority, body) == [id |-> id, priority |-> priority] @@ body

\* policyByID: PUT replaces the policy of that id or appends one,
PutPolicy(id, priority, body) ==
  \E p \in {Policy(id, priority, body)} :
  \E list \in {IF \E i \in DOMAIN policies : policies[i].id = id
               THEN [i \in DOMAIN policies |-> IF policies[i].id = id THEN p ELSE policies[i]]
               ELSE Append(policies, p)} :
    Accepted(list) /\ Store(list)

\* DELETE removes it.
DeletePolicy(id) ==
  \E list \in {SelectSeq(policies, LAMBDA p : p.id # id)} :
    /\ list # policies
    /\ Accepted(list) /\ Store(list)

\* A candidate seeded from a running configuration may hold what an edit would
\* be refused for: it is only valid.
Init ==
  /\ \E n \in 0 .. 2 : \E priority \in [1 .. n -> Priority], body \in [1 .. n -> Body] :
       policies = [i \in 1 .. n |-> Policy(PolicyIDs[i], priority[i], body[i])]
  /\ Valid(policies)
  /\ defaultDeny \in BOOLEAN

Next ==
  \E i \in DOMAIN PolicyIDs :
    \/ \E priority \in Priority, body \in Body : PutPolicy(PolicyIDs[i], priority, body)
    \/ DeletePolicy(PolicyIDs[i])

Spec == Init /\ [][Next]_vars

----
\* Packets the kernel forwards: it routes them in and out by its table.
Packets ==
  {[iif |-> RouteOf(a), oif |-> RouteOf(b), src |-> a, dst |-> b, protocol |-> s[1],
    sport |-> 0, dport |-> s[2], established |-> FALSE] :
     <<a, b, s>> \in {x \in Addr \X Addr \X (({"tcp"} \X Port) \cup {<<"icmp", 0>>}) :
                        RouteOf(x[1]) # RouteOf(x[2])}}

\* Each with what the engine sees of it.
Seen == {[packet |-> p, view |-> View(p)] : p \in Packets}

\* The kernel and the engine give every packet seen the same verdict, though
\* the kernel matches interfaces and lines compiled from the stored, normalized
\* policies and the engine rules compiled from the submitted ones, with zones
\* inferred from addresses (CommitConfig, CompileM2Ruleset; Program.Evaluate).
VerdictsAgree(seen) ==
  LET compiled == Compile(policies)
      chain == ForwardChain([i \in DOMAIN policies |-> Normalize(policies[i])])
  IN  \A s \in seen : KernelVerdict(chain, s.packet) = Evaluate(compiled, s.view).action

\* A policy that edits are refused for as unreachable decides nothing of what is
\* seen, so no useful policy is ever refused (UnreachablePolicyErrorsForConfig).
UnreachableIsIdle(seen) ==
  LET compiled == Compile(policies)
      unreachable == Unreachable(policies)
  IN  \A s \in seen : Evaluate(compiled, s.view).policy \notin unreachable
====
