--------------------------- MODULE HostFirewallProofs ---------------------------
(* Theorems about HostFirewall for every set of rulesets, bans, addresses and  *)
(* requests, and any number of edits and restarts.                             *)
EXTENDS HostFirewall, FiniteSetTheorems, SequenceTheorems, WellFoundedInduction, TLAPS

Job == [pc : {"idle", "enforce", "lift"} \cup Writing \cup Applying,
        on : Names \cup BanIds \cup {None}, pos : Nat]

\* A request has its type, and works on what its label says.
JobOK(q) == /\ q \in Job
            /\ q.pc \in Writing \cup Applying => q.on \in Names
            /\ q.pc \in {"enforce", "lift"} => q.on \in BanIds

RequestTypes == req \in [Reqs -> Job] /\ \A q \in Reqs : JobOK(req[q])
RuleTypes == rules \in [Names -> Seq(Nat)]
KernelTypes ==
    /\ ruleset \in [Names -> {"absent", "inactive", "active"}]
    /\ loaded \in Names \cup {None}
    /\ ban \in [BanIds -> {"unused", "live", "gone"}]
    /\ blacklist \subseteq Ips
    /\ mixed \in BOOLEAN
    /\ raced \subseteq Names
    /\ left \subseteq BanIds
    /\ edits \in 0..MaxEdits /\ restarts \in 0..MaxRestarts

\* The type invariant in three parts.
LEMMA TypeParts ==
    /\ TypeOK <=> KernelTypes /\ RuleTypes /\ RequestTypes
    /\ TypeOK' <=> KernelTypes' /\ RuleTypes' /\ RequestTypes'
BY DEF TypeOK, KernelTypes, RuleTypes, RequestTypes, JobOK, Job

\* An idle request is one.
LEMMA IdleOK == JobOK(Idle)
BY DEF JobOK, Job, Idle, Writing, Applying

\* A request that changes to another one keeps the types of all.
LEMMA PutRequest ==
    ASSUME RequestTypes, NEW q \in Reqs, NEW j, JobOK(j), req' = [req EXCEPT ![q] = j]
    PROVE  RequestTypes'
BY DEF RequestTypes, JobOK

\* A request that starts at a label, on something the label is for.
LEMMA StartOK ==
    ASSUME RequestTypes, NEW q \in Reqs, NEW l, NEW x, Start(q, l, x),
           \/ l \in Writing \cup Applying /\ l \notin {"enforce", "lift"} /\ x \in Names
           \/ l \in {"enforce", "lift"} /\ l \notin Writing \cup Applying /\ x \in BanIds
    PROVE  RequestTypes'
<1> DEFINE j == [pc |-> l, on |-> x, pos |-> 0]
<1>1. JobOK(j)
  BY DEF JobOK, Job
<1>2. req' = [req EXCEPT ![q] = j]
  BY DEF Start
<1> HIDE DEF j
<1> QED
  BY <1>1, <1>2, PutRequest

\* A request that goes on with the ruleset it is about.
LEMMA GotoOK ==
    ASSUME RequestTypes, NEW q \in Reqs, NEW n \in Names, NEW k, At(q, k, n),
           NEW l \in Writing \cup Applying, l \notin {"enforce", "lift"}, Goto(q, l)
    PROVE  RequestTypes'
<1> DEFINE j == [req[q] EXCEPT !.pc = l]
<1>1. req[q] \in Job
  BY DEF RequestTypes
<1>2. JobOK(j)
  BY <1>1 DEF JobOK, Job, At
<1>3. req' = [req EXCEPT ![q] = j]
  BY <1>1 DEF Goto, RequestTypes
<1> HIDE DEF j
<1> QED
  BY <1>2, <1>3, PutRequest

\* A request that returns.
LEMMA FinishOK == ASSUME RequestTypes, NEW q \in Reqs, Finish(q) PROVE RequestTypes'
BY IdleOK, PutRequest DEF Finish

-----------------------------------------------------------------------------
(* the last position *)

\* Every nonempty set of naturals has a least element.
LEMMA LeastNat == ASSUME NEW T, T \subseteq Nat, T # {} PROVE \E x \in T : \A y \in T : x <= y
<1>1. PICK x \in T : \A y \in T : ~ (<<y, x>> \in OpToRel(<, Nat))
  BY WFMin, NatLessThanWellFounded
<1>2. \A y \in T : ~ (y < x)
  BY <1>1 DEF OpToRel
<1> QED
  BY <1>2

\* The first k positions of s are bounded by m.
UpTo(s, k, m) == \A i \in 1..k : s[i] <= m

\* The rows of a ruleset have a bound on their positions.
LEMMA PositionsBounded ==
    ASSUME NEW s \in Seq(Nat)
    PROVE  \E m \in Nat : UpTo(s, Len(s), m)
<1> DEFINE T == {k \in 0..Len(s) : \A m \in Nat : ~UpTo(s, k, m)}
<1>0. Len(s) \in Nat /\ \A i \in 1..Len(s) : s[i] \in Nat
  OBVIOUS
<1> SUFFICES ASSUME T # {} PROVE FALSE
  BY <1>0
<1>1. T \subseteq Nat
  BY <1>0
<1>2. PICK k \in T : \A y \in T : k <= y
  BY <1>1, LeastNat
<1>3. k # 0
  <2>1. UpTo(s, 0, 0)
    BY DEF UpTo
  <2> QED
    BY <2>1
<1>4. k \in 1..Len(s) /\ k - 1 \in 0..Len(s) /\ k - 1 \notin T
  BY <1>0, <1>2, <1>3
<1>5. PICK m \in Nat : UpTo(s, k - 1, m)
  BY <1>4
<1>6. s[k] \in Nat
  BY <1>0, <1>4
<1>7. PICK b \in Nat : b >= m /\ b >= s[k]
  BY <1>6
<1>8. UpTo(s, k, b)
  <2> SUFFICES ASSUME NEW i \in 1..k PROVE s[i] <= b
    BY DEF UpTo
  <2>1. s[i] \in Nat
    BY <1>0, <1>4
  <2>2. CASE i = k
    BY <1>6, <1>7, <2>2
  <2>3. CASE i # k
    <3>1. i \in 1..(k - 1)
      BY <1>4, <2>3
    <3>2. s[i] <= m
      BY <1>5, <3>1 DEF UpTo
    <3> QED
      BY <1>7, <2>1, <3>2
  <2> QED
    BY <2>2, <2>3
<1> QED
  BY <1>8

\* The next position is above every row of the ruleset.
LEMMA NextIsAbove ==
    ASSUME RuleTypes, NEW n \in Names
    PROVE  /\ NextPosition(n) \in Nat
           /\ \A i \in 1..Len(rules[n]) : rules[n][i] < NextPosition(n)
<1> DEFINE s == rules[n]
           S == {0} \cup Range(s)
           B == {m \in Nat : \A x \in S : x <= m}
<1>0. s \in Seq(Nat) /\ Len(s) \in Nat /\ DOMAIN s = 1..Len(s)
  BY DEF RuleTypes
<1>1. S \subseteq Nat /\ 0 \in S /\ \A i \in 1..Len(s) : s[i] \in S
  BY <1>0 DEF Range
<1>2. B # {} /\ B \subseteq Nat
  <2>1. PICK m \in Nat : UpTo(s, Len(s), m)
    BY <1>0, PositionsBounded
  <2>2. m \in B
    BY <1>0, <2>1 DEF UpTo, Range
  <2> QED
    BY <2>2
<1>3. PICK m \in B : \A y \in B : m <= y
  BY <1>2, LeastNat
<1>4. m \in S
  <2> SUFFICES ASSUME m \notin S PROVE FALSE
    OBVIOUS
  <2>1. m \in Nat /\ m # 0 /\ \A x \in S : x <= m - 1
    BY <1>1, <1>3
  <2>2. m - 1 \in B
    BY <2>1
  <2> QED
    BY <1>3, <2>1, <2>2
<1>5. \A x \in S : m >= x
  BY <1>1, <1>3
<1>6. Max(S) \in S /\ \A y \in S : Max(S) >= y
  BY <1>4, <1>5 DEF Max
<1>7. NextPosition(n) = Max(S) + 1
  BY DEF NextPosition
<1>8. Max(S) \in Nat
  BY <1>1, <1>6
<1>9. \A i \in 1..Len(s) : s[i] \in Nat /\ s[i] < Max(S) + 1
  <2> SUFFICES ASSUME NEW i \in 1..Len(s) PROVE s[i] \in Nat /\ s[i] < Max(S) + 1
    OBVIOUS
  <2>1. s[i] \in Nat /\ s[i] \in S
    BY <1>0, <1>1
  <2>2. Max(S) >= s[i]
    BY <1>6, <2>1
  <2> QED
    BY <1>8, <2>1, <2>2
<1> HIDE DEF S
<1> QED
  BY <1>7, <1>8, <1>9

-----------------------------------------------------------------------------
(* types *)

\* No rules are rules.
LEMMA NoRules == <<>> \in Seq(Nat)
OBVIOUS

\* The rules of one name change to another sequence.
LEMMA PutRules ==
    ASSUME RuleTypes, NEW n \in Names, NEW s \in Seq(Nat), rules' = [rules EXCEPT ![n] = s]
    PROVE  RuleTypes'
BY DEF RuleTypes

\* The row of one ruleset changes.
LEMMA PutRuleset ==
    ASSUME KernelTypes, NEW n \in Names, NEW s \in {"absent", "inactive", "active"},
           ruleset' = [ruleset EXCEPT ![n] = s],
           UNCHANGED <<loaded, ban, blacklist, mixed, raced, left, edits, restarts>>
    PROVE  KernelTypes'
BY DEF KernelTypes

\* A writing request that begins.
LEMMA StartEditOK ==
    ASSUME TypeOK, NEW q \in Reqs, NEW n \in Names,
           NEW l \in Writing \cup Applying, l \notin {"enforce", "lift"}, StartEdit(q, l, n),
           UNCHANGED <<tables, loaded, ban, blacklist, mixed, left, restarts>>
    PROVE  TypeOK'
<1>1. KernelTypes /\ RuleTypes /\ RequestTypes
  BY TypeParts
<1>2. RequestTypes'
  BY <1>1, StartOK DEF StartEdit
<1>3. RuleTypes'
  BY <1>1 DEF RuleTypes, tables
<1>4. KernelTypes'
  BY <1>1, FirewallAssumption DEF KernelTypes, StartEdit, tables
<1> QED
  BY <1>2, <1>3, <1>4, TypeParts

\* Labels, each of the kind its action takes it for.
LEMMA Labels ==
    /\ \A l \in {"create", "seed", "last", "add", "clear", "drop", "command", "deactivate",
                 "activate"} : l \in Writing \cup Applying /\ l \notin {"enforce", "lift"}
    /\ \A l \in {"enforce", "lift"} : l \notin Writing \cup Applying
BY DEF Writing, Applying

\* The requests of firewall.ts that write keep the types.
LEMMA WritingTypes ==
    ASSUME TypeOK, NEW q \in Reqs, NEW n \in Names,
           \/ Create(q, n) \/ CreateRow(q, n) \/ SeedRules(q, n)
           \/ AddRule(q, n) \/ ReadLast(q, n) \/ InsertRule(q, n)
           \/ Delete(q, n) \/ DeleteRules(q, n) \/ DeleteRow(q, n)
    PROVE  TypeOK'
<1>0. KernelTypes /\ RuleTypes /\ RequestTypes
  BY TypeParts
<1>s. rules[n] \in Seq(Nat) /\ req[q] \in Job /\ req[q].pos \in Nat
  BY <1>0 DEF RuleTypes, RequestTypes, Job
<1>1. CASE Create(q, n)
  BY <1>1, StartEditOK, Labels DEF Create
<1>2. CASE CreateRow(q, n)
  <2>1. RequestTypes'
    BY <1>0, <1>2, GotoOK, FinishOK, Labels DEF CreateRow
  <2>2. RuleTypes'
    BY <1>0, <1>2 DEF CreateRow, RuleTypes
  <2>3. KernelTypes'
    BY <1>0, <1>2 DEF CreateRow, KernelTypes
  <2> QED
    BY <2>1, <2>2, <2>3, TypeParts
<1>3. CASE SeedRules(q, n)
  <2>1. RequestTypes'
    BY <1>0, <1>3, FinishOK DEF SeedRules
  <2>2. [i \in 1..TemplateRules |-> i] \in Seq(Nat)
    BY FirewallAssumption
  <2>3. rules[n] \o [i \in 1..TemplateRules |-> i] \in Seq(Nat)
    BY <1>s, <2>2
  <2>4. RuleTypes'
    BY <1>0, <1>3, <2>3, PutRules DEF SeedRules
  <2>5. KernelTypes'
    BY <1>0, <1>3 DEF SeedRules, KernelTypes
  <2> QED
    BY <2>1, <2>4, <2>5, TypeParts
<1>4. CASE AddRule(q, n)
  BY <1>4, StartEditOK, Labels DEF AddRule
<1>5. CASE ReadLast(q, n)
  <2> DEFINE j == [req[q] EXCEPT !.pc = "add", !.pos = NextPosition(n)]
  <2>1. NextPosition(n) \in Nat /\ req[q].on \in Names
    BY <1>0, <1>5, NextIsAbove DEF ReadLast, At
  <2>2. JobOK(j)
    BY <1>s, <2>1 DEF JobOK, Job, Writing, Applying
  <2>3. req' = [req EXCEPT ![q] = j]
    BY <1>0, <1>5 DEF ReadLast, RequestTypes
  <2>4. RequestTypes'
    <3> HIDE DEF j
    <3> QED
      BY <1>0, <2>2, <2>3, PutRequest
  <2>5. RuleTypes' /\ KernelTypes'
    BY <1>0, <1>5 DEF ReadLast, RuleTypes, KernelTypes, tables
  <2> QED
    BY <2>4, <2>5, TypeParts
<1>6. CASE InsertRule(q, n)
  <2>1. RequestTypes'
    BY <1>0, <1>6, FinishOK DEF InsertRule
  <2>2. Append(rules[n], req[q].pos) \in Seq(Nat)
    BY <1>s
  <2>3. RuleTypes'
    BY <1>0, <1>6, <2>2, PutRules DEF InsertRule
  <2>4. KernelTypes'
    BY <1>0, <1>6 DEF InsertRule, KernelTypes
  <2> QED
    BY <2>1, <2>3, <2>4, TypeParts
<1>7. CASE Delete(q, n)
  BY <1>7, StartEditOK, Labels DEF Delete
<1>8. CASE DeleteRules(q, n)
  <2>1. RequestTypes'
    BY <1>0, <1>8, GotoOK, Labels DEF DeleteRules
  <2>2. RuleTypes'
    BY <1>0, <1>8, NoRules, PutRules DEF DeleteRules
  <2>3. KernelTypes'
    BY <1>0, <1>8 DEF DeleteRules, KernelTypes
  <2> QED
    BY <2>1, <2>2, <2>3, TypeParts
<1>9. CASE DeleteRow(q, n)
  <2>1. RequestTypes'
    BY <1>0, <1>9, FinishOK DEF DeleteRow
  <2>2. RuleTypes'
    BY <1>0, <1>9 DEF DeleteRow, RuleTypes
  <2>3. KernelTypes'
    BY <1>0, <1>9, PutRuleset DEF DeleteRow
  <2> QED
    BY <2>1, <2>2, <2>3, TypeParts
<1> QED
  BY <1>1, <1>2, <1>3, <1>4, <1>5, <1>6, <1>7, <1>8, <1>9

\* apply() keeps the types.
LEMMA ApplyTypes ==
    ASSUME TypeOK, NEW q \in Reqs, NEW n \in Names,
           \/ Apply(q, n) \/ CommandSucceeds(q, n) \/ CommandFails(q, n)
           \/ DeactivateOthers(q, n) \/ Activate(q, n)
    PROVE  TypeOK'
<1>0. KernelTypes /\ RuleTypes /\ RequestTypes
  BY TypeParts
<1>1. RuleTypes'
  BY <1>0 DEF Apply, CommandSucceeds, CommandFails, DeactivateOthers, Activate, RuleTypes, tables
<1>2. CASE Apply(q, n)
  <2>1. RequestTypes'
    BY <1>0, <1>2, StartOK, Labels DEF Apply
  <2>2. KernelTypes'
    BY <1>0, <1>2 DEF Apply, KernelTypes, tables
  <2> QED
    BY <1>1, <2>1, <2>2, TypeParts
<1>3. CASE CommandSucceeds(q, n)
  <2>1. RequestTypes'
    BY <1>0, <1>3, GotoOK, Labels DEF CommandSucceeds
  <2>2. KernelTypes'
    BY <1>0, <1>3 DEF CommandSucceeds, RunScript, LoadText, KernelTypes, tables
  <2> QED
    BY <1>1, <2>1, <2>2, TypeParts
<1>4. CASE CommandFails(q, n)
  <2>1. RequestTypes'
    BY <1>0, <1>4, FinishOK DEF CommandFails, AfterFailure
  <2>2. KernelTypes'
    BY <1>0, <1>4 DEF CommandFails, KernelTypes, tables
  <2> QED
    BY <1>1, <2>1, <2>2, TypeParts
<1>5. CASE DeactivateOthers(q, n)
  <2>1. RequestTypes'
    BY <1>0, <1>5, GotoOK, Labels DEF DeactivateOthers
  <2>2. KernelTypes'
    BY <1>0, <1>5 DEF DeactivateOthers, KernelTypes
  <2> QED
    BY <1>1, <2>1, <2>2, TypeParts
<1>6. CASE Activate(q, n)
  <2>1. RequestTypes'
    BY <1>0, <1>6, FinishOK DEF Activate
  <2>2. KernelTypes'
    BY <1>0, <1>6 DEF Activate, KernelTypes
  <2> QED
    BY <1>1, <2>1, <2>2, TypeParts
<1> QED
  BY <1>2, <1>3, <1>4, <1>5, <1>6

\* The requests of netsec.ts keep the types.
LEMMA BanTypes ==
    ASSUME TypeOK, NEW q \in Reqs, NEW b \in BanIds,
           Ban(q, b) \/ Enforce(q, b) \/ Unban(q, b) \/ Lift(q, b)
    PROVE  TypeOK'
<1>0. KernelTypes /\ RuleTypes /\ RequestTypes
  BY TypeParts
<1>1. RuleTypes'
  BY <1>0 DEF Ban, Enforce, Unban, Lift, RuleTypes, tables
<1>2. KernelTypes'
  BY <1>0, FirewallAssumption DEF Ban, Enforce, Unban, Lift, Answers, KernelTypes, tables
<1>3. RequestTypes'
  BY <1>0, StartOK, FinishOK, Labels DEF Ban, Enforce, Unban, Lift
<1> QED
  BY <1>1, <1>2, <1>3, TypeParts

\* firewall.ts, netsec.ts: every row, request and kernel set keeps its type.
THEOREM FilterTypes == Spec => []TypeOK
<1>1. Init => TypeOK
  <2> SUFFICES ASSUME Init PROVE TypeOK
    OBVIOUS
  <2>1. RuleTypes
    BY NoRules DEF Init, RuleTypes
  <2>2. RequestTypes
    BY IdleOK DEF Init, RequestTypes, JobOK
  <2>3. 0 \in 0..MaxEdits /\ 0 \in 0..MaxRestarts
    BY FirewallAssumption
  <2>4. KernelTypes
    BY <2>3 DEF Init, KernelTypes
  <2> QED
    BY <2>1, <2>2, <2>4, TypeParts
<1>2. TypeOK /\ [Next]_vars => TypeOK'
  <2> SUFFICES ASSUME TypeOK, [Next]_vars PROVE TypeOK'
    OBVIOUS
  <2>0. KernelTypes /\ RuleTypes /\ RequestTypes
    BY TypeParts
  <2>1. CASE \E n \in Names : \E i \in DOMAIN rules[n] : DeleteRule(n, i)
    <3>1. PICK n \in Names : \E i \in DOMAIN rules[n] : DeleteRule(n, i)
      BY <2>1
    <3>2. PICK i \in DOMAIN rules[n] : DeleteRule(n, i)
      BY <3>1
    <3>3. rules[n] \in Seq(Nat) /\ i \in 1..Len(rules[n]) /\ Len(rules[n]) \in Nat
      BY <2>0 DEF RuleTypes
    <3>4. RemoveAt(rules[n], i) \in Seq(Nat)
      BY <3>3 DEF RemoveAt
    <3>5. RuleTypes'
      BY <2>0, <3>2, <3>4, PutRules DEF DeleteRule
    <3>6. KernelTypes' /\ RequestTypes'
      BY <2>0, <3>2 DEF DeleteRule, KernelTypes, RequestTypes
    <3> QED
      BY <3>5, <3>6, TypeParts
  <2>2. CASE \E i \in Ips : Expire(i)
    BY <2>0, <2>2, TypeParts DEF Expire, tables, KernelTypes, RuleTypes, RequestTypes
  <2>3. CASE Restart
    <3>1. KernelTypes' /\ RuleTypes'
      BY <2>0, <2>3, FirewallAssumption DEF Restart, tables, KernelTypes, RuleTypes
    <3>2. RequestTypes'
      BY <2>3, IdleOK DEF Restart, RequestTypes, JobOK
    <3> QED
      BY <3>1, <3>2, TypeParts
  <2>4. CASE UNCHANGED vars
    BY <2>0, <2>4, TypeParts DEF vars, tables, KernelTypes, RuleTypes, RequestTypes
  <2> QED
    BY <2>1, <2>2, <2>3, <2>4, WritingTypes, ApplyTypes, BanTypes DEF Next
<1> QED
  BY <1>1, <1>2, PTL DEF Spec

-----------------------------------------------------------------------------
(* What the panel shows as active *)

\* A request that changes rows after its command.
Changes(q, n) == At(q, "deactivate", n) \/ At(q, "activate", n)

OneApply == ~mixed =>
    \A p, q \in Reqs : req[p].pc \in Applying /\ req[q].pc \in Applying => p = q

\* An apply that goes through its rows has loaded its own text.
LoadedByIt == ~mixed =>
    \A q \in Reqs, n \in Names \ Scripted : Changes(q, n) => loaded = n

\* Before the last step every other row is inactive.
OthersOff == ~mixed =>
    \A q \in Reqs, n \in Names : At(q, "activate", n) =>
        \A m \in Names \ {n} : ruleset[m] # "active"

ApplyInv == OneApply /\ LoadedByIt /\ OthersOff /\ ActiveIsLoaded

\* A step that leaves applies and the kernel alone, and activates no row.
LEMMA ApplyFrame ==
    ASSUME ApplyInv, mixed' = mixed, loaded' = loaded,
           \A q \in Reqs : req'[q] = req[q] \/ (req[q].pc \notin Applying /\ req'[q].pc \notin Applying),
           \A n \in Names : ruleset'[n] = "active" => ruleset[n] = "active"
    PROVE  ApplyInv'
<1>1. \A q \in Reqs : req'[q].pc \in Applying => req'[q] = req[q]
  OBVIOUS
<1>1a. \A q \in Reqs : req[q].pc \in Applying => req'[q] = req[q]
  OBVIOUS
<1>2. OneApply'
  BY <1>1 DEF ApplyInv, OneApply
<1>3. LoadedByIt'
  BY <1>1 DEF ApplyInv, LoadedByIt, Changes, At, Applying
<1>4. OthersOff'
  BY <1>1 DEF ApplyInv, OthersOff, At, Applying
<1>5. ActiveIsLoaded'
  <2> SUFFICES ASSUME ~mixed, \A q \in Reqs : req'[q].pc \notin {"deactivate", "activate"},
                      NEW n \in Names \ Scripted, ruleset'[n] = "active"
               PROVE  loaded = n
    BY DEF ActiveIsLoaded
  <2>1. \A q \in Reqs : req[q].pc \notin {"deactivate", "activate"}
    BY <1>1a DEF Applying
  <2> QED
    BY <2>1 DEF ApplyInv, ActiveIsLoaded
<1> QED
  BY <1>2, <1>3, <1>4, <1>5 DEF ApplyInv

\* create, addRule and delete leave what is active as it is.
LEMMA WritingKeepsApply ==
    ASSUME TypeOK, ApplyInv, NEW q \in Reqs, NEW n \in Names,
           \/ Create(q, n) \/ CreateRow(q, n) \/ SeedRules(q, n)
           \/ AddRule(q, n) \/ ReadLast(q, n) \/ InsertRule(q, n)
           \/ Delete(q, n) \/ DeleteRules(q, n) \/ DeleteRow(q, n)
    PROVE  ApplyInv'
<1>1. mixed' = mixed /\ loaded' = loaded
  BY DEF Create, CreateRow, SeedRules, AddRule, ReadLast, InsertRule, Delete, DeleteRules,
         DeleteRow
<1>2. \A m \in Names : ruleset'[m] = "active" => ruleset[m] = "active"
  BY DEF TypeOK, Create, CreateRow, SeedRules, AddRule, ReadLast, InsertRule, Delete,
         DeleteRules, DeleteRow, tables
<1>3. req[q].pc \notin Applying
  BY DEF Create, CreateRow, SeedRules, AddRule, ReadLast, InsertRule, Delete, DeleteRules,
         DeleteRow, StartEdit, Start, Idle, At, Applying
<1>4. \A p \in Reqs : req'[p] = req[p] \/ (req[p].pc \notin Applying /\ req'[p].pc \notin Applying)
  <2> SUFFICES ASSUME NEW p \in Reqs, p = q PROVE req'[p].pc \notin Applying
    BY <1>3 DEF TypeOK, Create, CreateRow, SeedRules, AddRule, ReadLast, InsertRule, Delete,
             DeleteRules, DeleteRow, StartEdit, Start, Finish, Goto
  <2> QED
    BY DEF TypeOK, Create, CreateRow, SeedRules, AddRule, ReadLast, InsertRule, Delete,
           DeleteRules, DeleteRow, StartEdit, Start, Finish, Goto, Idle, Applying
<1> QED
  BY <1>1, <1>2, <1>4, ApplyFrame

\* netsec.ts leaves what is active as it is.
LEMMA BanKeepsApply ==
    ASSUME TypeOK, ApplyInv, NEW q \in Reqs, NEW b \in BanIds,
           Ban(q, b) \/ Enforce(q, b) \/ Unban(q, b) \/ Lift(q, b)
    PROVE  ApplyInv'
<1>1. mixed' = mixed /\ loaded' = loaded /\ ruleset' = ruleset
  BY DEF Ban, Enforce, Unban, Lift, tables
<1>2. \A p \in Reqs : req'[p] = req[p] \/ (req[p].pc \notin Applying /\ req'[p].pc \notin Applying)
  BY DEF TypeOK, Ban, Enforce, Unban, Lift, Start, Finish, Idle, At, Applying
<1> QED
  BY <1>1, <1>2, ApplyFrame

\* apply() keeps the four parts.
LEMMA ApplyKeepsApply ==
    ASSUME TypeOK, ApplyInv, NEW q \in Reqs, NEW n \in Names,
           \/ Apply(q, n) \/ CommandSucceeds(q, n) \/ CommandFails(q, n)
           \/ DeactivateOthers(q, n) \/ Activate(q, n)
    PROVE  ApplyInv'
<1>0. \A p \in Reqs \ {q} : req'[p] = req[p]
  BY DEF TypeOK, Apply, CommandSucceeds, CommandFails, DeactivateOthers, Activate, Start,
         Goto, Finish, AfterFailure
<1>r. req \in [Reqs -> Job] /\ ruleset \in [Names -> {"absent", "inactive", "active"}]
  BY DEF TypeOK, Job
<1>1. CASE Apply(q, n)
  <2> SUFFICES ASSUME ~mixed' PROVE ApplyInv'
    BY DEF ApplyInv, OneApply, LoadedByIt, OthersOff, ActiveIsLoaded
  <2>1. ~mixed /\ \A p \in Reqs \ {q} : req[p].pc \notin Applying
    BY <1>1 DEF Apply, OtherApplies
  <2>2. req[q] = Idle /\ req'[q] = [pc |-> "command", on |-> n, pos |-> 0]
    BY <1>1, <1>r DEF Apply, Start
  <2>3. ruleset' = ruleset /\ loaded' = loaded
    BY <1>1 DEF Apply, tables
  <2>4. OneApply'
    BY <1>0, <2>1 DEF OneApply
  <2>5. LoadedByIt' /\ OthersOff'
    BY <1>0, <2>1, <2>2 DEF LoadedByIt, OthersOff, Changes, At, Applying
  <2>6. \A p \in Reqs : req[p].pc \notin {"deactivate", "activate"}
    BY <2>1, <2>2 DEF Idle, Applying
  <2>7. ActiveIsLoaded'
    BY <2>1, <2>3, <2>6 DEF ApplyInv, ActiveIsLoaded
  <2> QED
    BY <2>4, <2>5, <2>7 DEF ApplyInv
<1>2. CASE CommandSucceeds(q, n)
  <2> SUFFICES ASSUME ~mixed' PROVE ApplyInv'
    BY DEF ApplyInv, OneApply, LoadedByIt, OthersOff, ActiveIsLoaded
  <2>1. \A p \in Reqs \ {q} : req[p].pc \notin Applying
    BY <1>2 DEF CommandSucceeds, OtherApplies
  <2>2. req'[q].pc = "deactivate" /\ req'[q].on = n
    BY <1>2, <1>r DEF CommandSucceeds, Goto, At, Job
  <2>3. n \notin Scripted => loaded' = n
    BY <1>2 DEF CommandSucceeds, RunScript, LoadText
  <2>4. OneApply'
    BY <1>0, <2>1 DEF OneApply
  <2>5. LoadedByIt' /\ OthersOff'
    BY <1>0, <2>1, <2>2, <2>3 DEF LoadedByIt, OthersOff, Changes, At, Applying
  <2>6. ActiveIsLoaded'
    BY <2>2 DEF ActiveIsLoaded
  <2> QED
    BY <2>4, <2>5, <2>6 DEF ApplyInv
<1>3. CASE CommandFails(q, n)
  <2> SUFFICES ASSUME ~mixed' PROVE ApplyInv'
    BY DEF ApplyInv, OneApply, LoadedByIt, OthersOff, ActiveIsLoaded
  <2>1. ~mixed /\ ruleset' = ruleset /\ loaded' = loaded /\ req[q].pc = "command"
    BY <1>3 DEF CommandFails, tables, At
  <2>2. \A p \in Reqs \ {q} : req[p].pc \notin Applying
    BY <2>1 DEF ApplyInv, OneApply, Applying
  <2>3. req'[q].pc = "idle"
    BY <1>3, <1>r DEF CommandFails, AfterFailure, Finish, Idle
  <2>4. OneApply' /\ LoadedByIt' /\ OthersOff'
    BY <1>0, <2>2, <2>3 DEF OneApply, LoadedByIt, OthersOff, Changes, At, Applying
  <2>5. \A p \in Reqs : req[p].pc \notin {"deactivate", "activate"}
    BY <2>1, <2>2 DEF Applying
  <2>6. ActiveIsLoaded'
    BY <2>1, <2>5 DEF ApplyInv, ActiveIsLoaded
  <2> QED
    BY <2>4, <2>6 DEF ApplyInv
<1>4. CASE DeactivateOthers(q, n)
  <2> SUFFICES ASSUME ~mixed' PROVE ApplyInv'
    BY DEF ApplyInv, OneApply, LoadedByIt, OthersOff, ActiveIsLoaded
  <2>1. ~mixed /\ loaded' = loaded /\ req[q].pc = "deactivate" /\ req[q].on = n
    BY <1>4 DEF DeactivateOthers, At
  <2>2. \A p \in Reqs \ {q} : req[p].pc \notin Applying
    BY <2>1 DEF ApplyInv, OneApply, Applying
  <2>3. req'[q].pc = "activate" /\ req'[q].on = n
    BY <1>4, <1>r, <2>1 DEF DeactivateOthers, Goto, Job
  <2>4. OneApply'
    BY <1>0, <2>2 DEF OneApply
  <2>5. LoadedByIt'
    BY <1>0, <2>1, <2>2, <2>3 DEF ApplyInv, LoadedByIt, Changes, At, Applying
  <2>6. \A m \in Names \ {n} : ruleset'[m] # "active"
    BY <1>4, <1>r DEF DeactivateOthers
  <2>7. OthersOff'
    BY <1>0, <2>2, <2>3, <2>6 DEF OthersOff, At, Applying
  <2>8. ActiveIsLoaded'
    BY <2>3 DEF ActiveIsLoaded
  <2> QED
    BY <2>4, <2>5, <2>7, <2>8 DEF ApplyInv
<1>5. CASE Activate(q, n)
  <2> SUFFICES ASSUME ~mixed' PROVE ApplyInv'
    BY DEF ApplyInv, OneApply, LoadedByIt, OthersOff, ActiveIsLoaded
  <2>1. ~mixed /\ loaded' = loaded /\ At(q, "activate", n)
    BY <1>5 DEF Activate
  <2>2. \A p \in Reqs \ {q} : req[p].pc \notin Applying
    BY <2>1 DEF ApplyInv, OneApply, Applying, At
  <2>3. req'[q].pc = "idle"
    BY <1>5, <1>r DEF Activate, Finish, Idle
  <2>4. OneApply' /\ LoadedByIt' /\ OthersOff'
    BY <1>0, <2>2, <2>3 DEF OneApply, LoadedByIt, OthersOff, Changes, At, Applying
  <2>5. \A m \in Names \ {n} : ruleset'[m] # "active"
    BY <1>5, <1>r, <2>1 DEF Activate, ApplyInv, OthersOff
  <2>6. n \notin Scripted => loaded = n
    BY <2>1 DEF ApplyInv, LoadedByIt, Changes
  <2>7. ActiveIsLoaded'
    BY <2>1, <2>5, <2>6 DEF ActiveIsLoaded
  <2> QED
    BY <2>4, <2>7 DEF ApplyInv
<1> QED
  BY <1>1, <1>2, <1>3, <1>4, <1>5

\* apply(): among the rulesets nft loads, the one shown as active is the one in the
\* kernel, unless applies overlapped or one was cut by a restart.
THEOREM ShownIsLoaded == Spec => []ActiveIsLoaded
<1>1. Init => ApplyInv
  BY DEF Init, ApplyInv, OneApply, LoadedByIt, OthersOff, ActiveIsLoaded, Changes, At, Idle,
         Applying
<1>2. TypeOK /\ ApplyInv /\ [Next]_vars => ApplyInv'
  <2> SUFFICES ASSUME TypeOK, ApplyInv, [Next]_vars PROVE ApplyInv'
    OBVIOUS
  <2>1. CASE \E n \in Names : \E i \in DOMAIN rules[n] : DeleteRule(n, i)
    BY <2>1, ApplyFrame DEF DeleteRule
  <2>2. CASE \E i \in Ips : Expire(i)
    BY <2>2, ApplyFrame DEF Expire, tables
  <2>3. CASE Restart
    <3> SUFFICES ASSUME ~mixed' PROVE ApplyInv'
      BY DEF ApplyInv, OneApply, LoadedByIt, OthersOff, ActiveIsLoaded
    <3>1. mixed' = mixed
      BY <2>3 DEF Restart, TypeOK
    <3>2. \A q \in Reqs : req[q].pc \notin Applying /\ req'[q].pc \notin Applying
      BY <2>3 DEF Restart, Idle, Applying
    <3> QED
      BY <2>3, <3>1, <3>2, ApplyFrame DEF Restart, tables
  <2>4. CASE UNCHANGED vars
    BY <2>4, ApplyFrame DEF vars, tables
  <2> QED
    BY <2>1, <2>2, <2>3, <2>4, WritingKeepsApply, ApplyKeepsApply, BanKeepsApply DEF Next
<1>3. ApplyInv => ActiveIsLoaded
  BY DEF ApplyInv
<1> QED
  BY <1>1, <1>2, <1>3, FilterTypes, PTL DEF Spec

-----------------------------------------------------------------------------
(* Bans and the set in the kernel *)

\* Bans of i whose element an unban removed, and bans whose add was tried.
Lifted(i) == {b \in BanIds : /\ IpOf[b] = i /\ ban[b] = "gone" /\ b \notin left
                             /\ \A q \in Reqs : ~At(q, "lift", b)}
Tried(i) == {b \in BanIds : /\ IpOf[b] = i /\ ban[b] # "unused"
                            /\ \A q \in Reqs : ~At(q, "enforce", b)}

\* Each removal took an element that some add brought; the one in the set has its own.
Counted(i) ==
    /\ Cardinality(Lifted(i)) <= Cardinality(Tried(i))
    /\ i \in blacklist => Cardinality(Lifted(i)) + 1 <= Cardinality(Tried(i))

\* One request enforces a ban, and its row was made.
OneEnforcer ==
    /\ \A q \in Reqs, b \in BanIds : At(q, "enforce", b) => ban[b] # "unused"
    /\ \A p, q \in Reqs, b \in BanIds : At(p, "enforce", b) /\ At(q, "enforce", b) => p = q

BanInv == OneEnforcer /\ \A i \in Ips : Counted(i)

\* Both sets are finite, now and after a step.
LEMMA CountsAreNat ==
    ASSUME NEW i \in Ips
    PROVE  /\ IsFiniteSet(Lifted(i)) /\ Cardinality(Lifted(i)) \in Nat
           /\ IsFiniteSet(Lifted(i)') /\ Cardinality(Lifted(i)') \in Nat
           /\ IsFiniteSet(Tried(i)) /\ Cardinality(Tried(i)) \in Nat
           /\ IsFiniteSet(Tried(i)') /\ Cardinality(Tried(i)') \in Nat
<1>1. Lifted(i) \subseteq BanIds /\ Tried(i) \subseteq BanIds
  BY DEF Lifted, Tried
<1>2. Lifted(i)' \subseteq BanIds /\ Tried(i)' \subseteq BanIds
  BY DEF Lifted, Tried
<1> QED
  BY <1>1, <1>2, FirewallAssumption, FS_Subset, FS_CardinalityType

\* A step that removes no element by an unban, and adds none.
LEMMA CountFrame ==
    ASSUME NEW i \in Ips, Counted(i), Lifted(i)' \subseteq Lifted(i),
           Tried(i) \subseteq Tried(i)', i \in blacklist' => i \in blacklist
    PROVE  Counted(i)'
<1>1. Cardinality(Lifted(i)') <= Cardinality(Lifted(i))
  BY CountsAreNat, FS_Subset
<1>2. Cardinality(Tried(i)) <= Cardinality(Tried(i)')
  BY CountsAreNat, FS_Subset
<1> QED
  BY <1>1, <1>2, CountsAreNat DEF Counted

\* The request of firewall.ts and a step of the kernel: no ban is touched.
LEMMA OthersKeepBans ==
    ASSUME TypeOK, BanInv, ban' = ban, left' = left, blacklist' \subseteq blacklist,
           \A q \in Reqs : req'[q] = req[q] \/
               (req[q].pc \notin {"enforce", "lift"} /\ req'[q].pc \notin {"enforce", "lift"})
    PROVE  BanInv'
<1>1. \A q \in Reqs, b \in BanIds : /\ At(q, "enforce", b)' <=> At(q, "enforce", b)
                                    /\ At(q, "lift", b)' <=> At(q, "lift", b)
  BY DEF At
<1>2. OneEnforcer'
  BY <1>1 DEF BanInv, OneEnforcer
<1>3. ASSUME NEW i \in Ips PROVE Counted(i)'
  <2>1. Lifted(i)' \subseteq Lifted(i) /\ Tried(i) \subseteq Tried(i)'
    BY <1>1 DEF Lifted, Tried
  <2> QED
    BY <2>1, CountFrame DEF BanInv
<1> QED
  BY <1>2, <1>3 DEF BanInv

\* firewall.ts starts, moves and ends requests of its own only.
LEMMA RulesetsKeepBans ==
    ASSUME TypeOK, BanInv, NEW q \in Reqs, NEW n \in Names,
           \/ Create(q, n) \/ CreateRow(q, n) \/ SeedRules(q, n)
           \/ AddRule(q, n) \/ ReadLast(q, n) \/ InsertRule(q, n)
           \/ Delete(q, n) \/ DeleteRules(q, n) \/ DeleteRow(q, n)
           \/ Apply(q, n) \/ CommandSucceeds(q, n) \/ CommandFails(q, n)
           \/ DeactivateOthers(q, n) \/ Activate(q, n)
    PROVE  BanInv'
<1>1. ban' = ban /\ left' = left /\ blacklist' \subseteq blacklist
  BY DEF Create, CreateRow, SeedRules, AddRule, ReadLast, InsertRule, Delete, DeleteRules,
         DeleteRow, Apply, CommandSucceeds, CommandFails, DeactivateOthers, Activate, RunScript,
         LoadText
<1>2. req[q].pc \notin {"enforce", "lift"}
  BY DEF Create, CreateRow, SeedRules, AddRule, ReadLast, InsertRule, Delete, DeleteRules,
         DeleteRow, Apply, CommandSucceeds, CommandFails, DeactivateOthers, Activate, StartEdit,
         Start, Idle, At
<1>3. \A p \in Reqs : p # q => req'[p] = req[p]
  BY DEF TypeOK, Create, CreateRow, SeedRules, AddRule, ReadLast, InsertRule, Delete,
         DeleteRules, DeleteRow, Apply, CommandSucceeds, CommandFails, DeactivateOthers, Activate,
         StartEdit, Start, Finish, Goto, AfterFailure
<1>4. req'[q].pc \notin {"enforce", "lift"}
  BY DEF TypeOK, Create, CreateRow, SeedRules, AddRule, ReadLast, InsertRule, Delete,
         DeleteRules, DeleteRow, Apply, CommandSucceeds, CommandFails, DeactivateOthers, Activate,
         StartEdit, Start, Finish, Goto, AfterFailure, Idle
<1> QED
  BY <1>1, <1>2, <1>3, <1>4, OthersKeepBans

\* ban() makes a row that counts once its add was tried.
LEMMA BanKeepsCount ==
    ASSUME TypeOK, BanInv, NEW q \in Reqs, NEW b \in BanIds, Ban(q, b)
    PROVE  BanInv'
<1>1. /\ req[q] = Idle /\ req'[q] = [pc |-> "enforce", on |-> b, pos |-> 0]
      /\ \A p \in Reqs : p # q => req'[p] = req[p]
      /\ ban[b] = "unused" /\ ban'[b] = "live"
      /\ \A c \in BanIds : c # b => ban'[c] = ban[c]
      /\ left' = left /\ blacklist' = blacklist
  BY DEF TypeOK, Ban, Start
<1>2. OneEnforcer'
  BY <1>1 DEF BanInv, OneEnforcer, At, Idle
<1>3. ASSUME NEW i \in Ips PROVE Counted(i)'
  <2>1. Lifted(i)' \subseteq Lifted(i)
    BY <1>1 DEF Lifted, At, Idle
  <2>2. Tried(i) \subseteq Tried(i)'
    BY <1>1 DEF Tried, At
  <2> QED
    BY <1>1, <2>1, <2>2, CountFrame DEF BanInv
<1> QED
  BY <1>2, <1>3 DEF BanInv

\* The add is tried: the address may enter the set, and its ban counts from here.
LEMMA EnforceKeepsCount ==
    ASSUME TypeOK, BanInv, NEW q \in Reqs, NEW b \in BanIds, Enforce(q, b)
    PROVE  BanInv'
<1>1. /\ At(q, "enforce", b) /\ req'[q] = Idle
      /\ \A p \in Reqs : p # q => req'[p] = req[p]
      /\ ban' = ban /\ left' = left
      /\ blacklist' \in {blacklist, blacklist \cup {IpOf[b]}}
  BY DEF TypeOK, Enforce, Finish
<1>2. OneEnforcer'
  BY <1>1 DEF BanInv, OneEnforcer, At, Idle
<1>3. ASSUME NEW i \in Ips PROVE Counted(i)'
  <2>1. Lifted(i)' \subseteq Lifted(i)
    BY <1>1 DEF Lifted, At, Idle
  <2>2. Tried(i) \subseteq Tried(i)'
    BY <1>1 DEF Tried, At, Idle
  <2>3. CASE IpOf[b] # i
    BY <1>1, <2>1, <2>2, <2>3, CountFrame DEF BanInv
  <2>4. CASE IpOf[b] = i
    <3>1. b \notin Tried(i) /\ ban[b] # "unused"
      BY <1>1 DEF Tried, BanInv, OneEnforcer
    <3>2. \A p \in Reqs : ~At(p, "enforce", b)'
      BY <1>1 DEF BanInv, OneEnforcer, At, Idle
    <3>3. b \in Tried(i)'
      BY <1>1, <2>4, <3>1, <3>2 DEF Tried
    <3>4. Tried(i) \cup {b} \subseteq Tried(i)'
      BY <2>2, <3>3
    <3>5. /\ IsFiniteSet(Tried(i) \cup {b})
          /\ Cardinality(Tried(i) \cup {b}) = Cardinality(Tried(i)) + 1
      BY <3>1, CountsAreNat, FS_AddElement
    <3>6. Cardinality(Tried(i)) + 1 <= Cardinality(Tried(i)')
      BY <3>4, <3>5, CountsAreNat, FS_Subset
    <3>7. Cardinality(Lifted(i)') <= Cardinality(Lifted(i))
      BY <2>1, CountsAreNat, FS_Subset
    <3> QED
      BY <3>6, <3>7, CountsAreNat DEF Counted, BanInv
  <2> QED
    BY <2>3, <2>4
<1> QED
  BY <1>2, <1>3 DEF BanInv

\* unban() deletes the row before the element.
LEMMA UnbanKeepsCount ==
    ASSUME TypeOK, BanInv, NEW q \in Reqs, NEW b \in BanIds, Unban(q, b)
    PROVE  BanInv'
<1>1. /\ req[q] = Idle /\ req'[q] = [pc |-> "lift", on |-> b, pos |-> 0]
      /\ \A p \in Reqs : p # q => req'[p] = req[p]
      /\ ban[b] = "live" /\ ban'[b] = "gone"
      /\ \A c \in BanIds : c # b => ban'[c] = ban[c]
      /\ left' = left /\ blacklist' = blacklist
  BY DEF TypeOK, Unban, Start
<1>2. OneEnforcer'
  BY <1>1 DEF BanInv, OneEnforcer, At, Idle
<1>3. ASSUME NEW i \in Ips PROVE Counted(i)'
  <2>1. Lifted(i)' \subseteq Lifted(i)
    BY <1>1 DEF Lifted, At, Idle
  <2>2. Tried(i) \subseteq Tried(i)'
    BY <1>1 DEF Tried, At
  <2> QED
    BY <1>1, <2>1, <2>2, CountFrame DEF BanInv
<1> QED
  BY <1>2, <1>3 DEF BanInv

\* The element is removed, or the answer says it may be left.
LEMMA LiftKeepsCount ==
    ASSUME TypeOK, BanInv, NEW q \in Reqs, NEW b \in BanIds, Lift(q, b)
    PROVE  BanInv'
<1>1. /\ At(q, "lift", b) /\ req'[q] = Idle
      /\ \A p \in Reqs : p # q => req'[p] = req[p]
      /\ ban' = ban
  BY DEF TypeOK, Lift, Finish
<1>2. OneEnforcer'
  BY <1>1 DEF BanInv, OneEnforcer, At, Idle
<1>3. CASE blacklist' = blacklist /\ left' = left \cup {b}
  <2>1. ASSUME NEW i \in Ips PROVE Counted(i)'
    <3>1. Lifted(i)' \subseteq Lifted(i)
      BY <1>1, <1>3 DEF Lifted, At, Idle
    <3>2. Tried(i) \subseteq Tried(i)'
      BY <1>1 DEF Tried, At, Idle
    <3> QED
      BY <1>3, <3>1, <3>2, CountFrame DEF BanInv
  <2> QED
    BY <1>2, <2>1 DEF BanInv
<1>4. CASE IpOf[b] \in blacklist /\ blacklist' = blacklist \ {IpOf[b]} /\ left' = left
  <2>1. ASSUME NEW i \in Ips PROVE Counted(i)'
    <3>1. Tried(i) \subseteq Tried(i)'
      BY <1>1 DEF Tried, At, Idle
    <3>2. CASE IpOf[b] # i
      <4>1. Lifted(i)' \subseteq Lifted(i)
        BY <1>1, <1>4, <3>2 DEF Lifted, At, Idle
      <4> QED
        BY <1>4, <3>1, <4>1, CountFrame DEF BanInv
    <3>3. CASE IpOf[b] = i
      <4>1. Lifted(i)' \subseteq Lifted(i) \cup {b}
        BY <1>1, <1>4 DEF Lifted, At, Idle
      <4>2. b \notin Lifted(i)
        BY <1>1 DEF Lifted
      <4>3. /\ IsFiniteSet(Lifted(i) \cup {b})
            /\ Cardinality(Lifted(i) \cup {b}) = Cardinality(Lifted(i)) + 1
        BY <4>2, CountsAreNat, FS_AddElement
      <4>4. Cardinality(Lifted(i)') <= Cardinality(Lifted(i)) + 1
        BY <4>1, <4>3, FS_Subset
      <4>5. Cardinality(Tried(i)) <= Cardinality(Tried(i)')
        BY <3>1, CountsAreNat, FS_Subset
      <4>6. Cardinality(Lifted(i)) + 1 <= Cardinality(Tried(i))
        BY <1>4, <3>3 DEF BanInv, Counted
      <4>7. i \notin blacklist'
        BY <1>4, <3>3
      <4> QED
        BY <4>4, <4>5, <4>6, <4>7, CountsAreNat DEF Counted
    <3> QED
      BY <3>2, <3>3
  <2> QED
    BY <1>2, <2>1 DEF BanInv
<1> QED
  BY <1>3, <1>4 DEF Lift, Answers

\* A restart leaves what an unban had begun as an entry that may be left.
LEMMA RestartKeepsCount == ASSUME TypeOK, BanInv, Restart PROVE BanInv'
<1>1. /\ \A q \in Reqs : req'[q] = Idle
      /\ ban' = ban /\ blacklist' = blacklist
      /\ left' = left \cup {b \in BanIds : \E q \in Reqs : At(q, "lift", b)}
  BY DEF Restart
<1>2. OneEnforcer'
  BY <1>1 DEF OneEnforcer, At, Idle
<1>3. ASSUME NEW i \in Ips PROVE Counted(i)'
  <2>1. Lifted(i)' \subseteq Lifted(i)
    BY <1>1 DEF Lifted
  <2>2. Tried(i) \subseteq Tried(i)'
    BY <1>1 DEF Tried, At, Idle
  <2> QED
    BY <1>1, <2>1, <2>2, CountFrame DEF BanInv
<1> QED
  BY <1>2, <1>3 DEF BanInv

\* unban(): an address that is in the kernel without a row has a removal under way,
\* or one that did not answer that the entry is gone.
THEOREM LiftIsReal == Spec => []NoFabricatedLift
<1>1. Init => BanInv
  <2> SUFFICES ASSUME Init PROVE BanInv
    OBVIOUS
  <2>1. OneEnforcer
    BY DEF Init, OneEnforcer, At, Idle
  <2>2. ASSUME NEW i \in Ips PROVE Counted(i)
    <3>1. Lifted(i) = {} /\ Tried(i) = {} /\ i \notin blacklist
      BY DEF Init, Lifted, Tried
    <3> QED
      BY <3>1, CountsAreNat DEF Counted
  <2> QED
    BY <2>1, <2>2 DEF BanInv
<1>2. TypeOK /\ BanInv /\ [Next]_vars => BanInv'
  <2> SUFFICES ASSUME TypeOK, BanInv, [Next]_vars PROVE BanInv'
    OBVIOUS
  <2>1. CASE \E n \in Names : \E i \in DOMAIN rules[n] : DeleteRule(n, i)
    BY <2>1, OthersKeepBans DEF DeleteRule
  <2>2. CASE \E i \in Ips : Expire(i)
    BY <2>2, OthersKeepBans DEF Expire
  <2>3. CASE UNCHANGED vars
    BY <2>3, OthersKeepBans DEF vars
  <2> QED
    BY <2>1, <2>2, <2>3, RulesetsKeepBans, BanKeepsCount, EnforceKeepsCount, UnbanKeepsCount,
       LiftKeepsCount, RestartKeepsCount DEF Next
<1>3. TypeOK /\ BanInv => NoFabricatedLift
  <2> SUFFICES ASSUME TypeOK, BanInv, NEW i \in blacklist,
                      ~ \E b \in BanIds : IpOf[b] = i /\ ban[b] = "live",
                      ~ \E q \in Reqs, b \in BanIds : At(q, "lift", b) /\ IpOf[b] = i,
                      ~ \E b \in left : IpOf[b] = i
               PROVE  FALSE
    BY DEF NoFabricatedLift
  <2>1. Tried(i) \subseteq Lifted(i)
    BY DEF TypeOK, Tried, Lifted
  <2>2. i \in Ips
    BY DEF TypeOK
  <2>3. Cardinality(Tried(i)) <= Cardinality(Lifted(i))
    BY <2>1, <2>2, CountsAreNat, FS_Subset
  <2> QED
    BY <2>2, <2>3, CountsAreNat DEF BanInv, Counted
<1> QED
  BY <1>1, <1>2, <1>3, FilterTypes, PTL DEF Spec

-----------------------------------------------------------------------------
(* Rules and their positions *)

\* Request q writes rules, or the row, of n.
Writes(q, n) == req[q].pc \in Writing /\ req[q].on = n

\* What holds of a name that two writers never worked on at once.
Consistent(n) ==
    /\ \A p, q \in Reqs : Writes(p, n) /\ Writes(q, n) => p = q
    /\ \A q \in Reqs : At(q, "add", n) => \A i \in 1..Len(rules[n]) : rules[n][i] < req[q].pos
    /\ \A q \in Reqs : At(q, "seed", n) \/ At(q, "drop", n) => rules[n] = <<>>
    /\ \A q \in Reqs : At(q, "seed", n) \/ At(q, "last", n) \/ At(q, "add", n)
            => ruleset[n] # "absent"
    /\ ruleset[n] = "absent" => rules[n] = <<>>
    /\ IsInjective(rules[n])

RulesInv == \A n \in Names \ raced : Consistent(n)

\* A step that leaves the rules of n, and the requests that write them, alone.
LEMMA NameFrame ==
    ASSUME NEW n \in Names, Consistent(n), rules'[n] = rules[n],
           ruleset'[n] = "absent" <=> ruleset[n] = "absent",
           \A q \in Reqs : Writes(q, n)' => req'[q] = req[q]
    PROVE  Consistent(n)'
<1>1. \A q \in Reqs, l \in Writing : At(q, l, n)' => At(q, l, n) /\ req'[q] = req[q]
  BY DEF At, Writes
<1>2. \A q \in Reqs : Writes(q, n)' => Writes(q, n)
  BY DEF Writes
<1>3. "add" \in Writing /\ "seed" \in Writing /\ "drop" \in Writing /\ "last" \in Writing
  BY DEF Writing
<1> QED
  BY <1>1, <1>2, <1>3 DEF Consistent

\* A step that leaves every rule, and the requests that write them, alone.
LEMMA RulesFrame ==
    ASSUME RulesInv, rules' = rules, raced' = raced,
           \A n \in Names : ruleset'[n] = "absent" <=> ruleset[n] = "absent",
           \A q \in Reqs : req'[q] = req[q] \/ req'[q].pc \notin Writing
    PROVE  RulesInv'
<1>1. ASSUME NEW n \in Names \ raced PROVE Consistent(n)'
  <2>1. \A q \in Reqs : Writes(q, n)' => req'[q] = req[q]
    BY DEF Writes
  <2> QED
    BY <2>1, NameFrame DEF RulesInv
<1> QED
  BY <1>1 DEF RulesInv

\* A step of the request q on n is no concern of the other names.
LEMMA OtherNames ==
    ASSUME TypeOK, RulesInv, NEW q \in Reqs, NEW n \in Names, req' = [req EXCEPT ![q] = req'[q]],
           req'[q].pc \in Writing => req'[q].on = n,
           raced \subseteq raced',
           \A m \in Names \ {n} : rules'[m] = rules[m] /\ ruleset'[m] = ruleset[m],
           n \notin raced' => Consistent(n)'
    PROVE  RulesInv'
<1>1. ASSUME NEW m \in Names \ raced', m # n PROVE Consistent(m)'
  <2>1. \A p \in Reqs : Writes(p, m)' => req'[p] = req[p]
    BY <1>1 DEF Writes, TypeOK
  <2> QED
    BY <1>1, <2>1, NameFrame DEF RulesInv
<1> QED
  BY <1>1 DEF RulesInv

\* What a slice of a sequence of positions holds.
LEMMA Slice ==
    ASSUME NEW s \in Seq(Nat), NEW m \in Nat \ {0}, NEW n \in Nat, m <= n + 1, n <= Len(s)
    PROVE  /\ SubSeq(s, m, n) \in Seq(Nat) /\ Len(SubSeq(s, m, n)) = n - m + 1
           /\ \A j \in 1..n - m + 1 : SubSeq(s, m, n)[j] = s[m + j - 1]
<1>1. m \in Int /\ n \in Int /\ \A j \in m..n : s[j] \in Nat
  BY ElementOfSeq
<1>2. /\ SubSeq(s, m, n) \in Seq(Nat)
      /\ Len(SubSeq(s, m, n)) = IF m <= n THEN n - m + 1 ELSE 0
      /\ \A j \in 1..n - m + 1 : SubSeq(s, m, n)[j] = s[m + j - 1]
  BY ONLY <1>1, SubSeqProperties
<1>3. (IF m <= n THEN n - m + 1 ELSE 0) = n - m + 1
  BY ONLY m \in Nat, n \in Nat, m <= n + 1
<1> QED
  BY ONLY <1>2, <1>3

\* Deleting a rule keeps the order and the difference of the others.
LEMMA RemoveKeeps ==
    ASSUME NEW s \in Seq(Nat), NEW i \in 1..Len(s)
    PROVE  /\ RemoveAt(s, i) \in Seq(Nat) /\ Len(RemoveAt(s, i)) = Len(s) - 1
           /\ \A j \in 1..Len(s) - 1 : RemoveAt(s, i)[j] = IF j < i THEN s[j] ELSE s[j + 1]
<1> DEFINE a == SubSeq(s, 1, i - 1)
           b == SubSeq(s, i + 1, Len(s))
<1>1. Len(s) \in Nat
  OBVIOUS
<1>2. a \in Seq(Nat) /\ Len(a) = i - 1 /\ \A j \in 1..i - 1 : a[j] = s[j]
  <2>1. 1 \in Nat \ {0} /\ i - 1 \in Nat /\ 1 <= i - 1 + 1 /\ i - 1 <= Len(s)
    BY <1>1
  <2> HIDE DEF a
  <2>2. /\ a \in Seq(Nat) /\ Len(a) = i - 1 - 1 + 1
        /\ \A j \in 1..i - 1 - 1 + 1 : a[j] = s[1 + j - 1]
    BY ONLY <2>1, s \in Seq(Nat), Slice DEF a
  <2>3. i - 1 - 1 + 1 = i - 1 /\ \A j \in 1..i - 1 : 1 + j - 1 = j
    BY <1>1
  <2> QED
    BY ONLY <2>2, <2>3
<1>3. b \in Seq(Nat) /\ Len(b) = Len(s) - i /\ \A j \in 1..Len(s) - i : b[j] = s[i + j]
  <2>1. i + 1 \in Nat \ {0} /\ Len(s) \in Nat /\ i + 1 <= Len(s) + 1 /\ Len(s) <= Len(s)
    BY <1>1
  <2> HIDE DEF b
  <2>2. /\ b \in Seq(Nat) /\ Len(b) = Len(s) - (i + 1) + 1
        /\ \A j \in 1..Len(s) - (i + 1) + 1 : b[j] = s[i + 1 + j - 1]
    BY ONLY <2>1, s \in Seq(Nat), Slice DEF b
  <2>3. Len(s) - (i + 1) + 1 = Len(s) - i /\ \A j \in 1..Len(s) - i : i + 1 + j - 1 = i + j
    BY <1>1
  <2> QED
    BY ONLY <2>2, <2>3
<1>4. RemoveAt(s, i) = a \o b
  BY DEF RemoveAt
<1> HIDE DEF a, b
<1>5. /\ a \o b \in Seq(Nat) /\ Len(a \o b) = Len(a) + Len(b)
      /\ \A j \in 1..Len(a) + Len(b) : (a \o b)[j] = IF j <= Len(a) THEN a[j] ELSE b[j - Len(a)]
  BY <1>2, <1>3, ConcatProperties
<1>6. Len(a) + Len(b) = Len(s) - 1
  BY <1>1, <1>2, <1>3
<1>7. ASSUME NEW j \in 1..Len(s) - 1 PROVE (a \o b)[j] = IF j < i THEN s[j] ELSE s[j + 1]
  <2>1. CASE j < i
    BY <1>1, <1>2, <1>5, <1>6, <2>1
  <2>2. CASE ~(j < i)
    <3>1. ~(j <= i - 1) /\ j - (i - 1) \in 1..Len(s) - i /\ i + (j - (i - 1)) = j + 1
      BY <1>1, <2>2
    <3>2. (a \o b)[j] = b[j - (i - 1)]
      BY <1>2, <1>5, <1>6, <3>1
    <3>3. b[j - (i - 1)] = s[j + 1]
      BY <1>3, <3>1
    <3> QED
      BY <2>2, <3>2, <3>3
  <2> QED
    BY <2>1, <2>2
<1> QED
  BY <1>4, <1>5, <1>6, <1>7

\* A rule deleted from rules with distinct positions leaves such rules.
LEMMA RemoveInjective ==
    ASSUME NEW s \in Seq(Nat), NEW i \in 1..Len(s), IsInjective(s)
    PROVE  IsInjective(RemoveAt(s, i))
<1> DEFINE r == RemoveAt(s, i)
<1>0. Len(s) \in Nat /\ DOMAIN s = 1..Len(s)
  OBVIOUS
<1>1. /\ r \in Seq(Nat) /\ Len(r) = Len(s) - 1
      /\ \A j \in 1..Len(s) - 1 : r[j] = IF j < i THEN s[j] ELSE s[j + 1]
  BY RemoveKeeps
<1> HIDE DEF r
<1>2. ASSUME NEW x \in 1..Len(s) - 1, NEW y \in 1..Len(s) - 1, r[x] = r[y] PROVE x = y
  <2>1. x \in Nat /\ y \in Nat /\ i \in Nat
    BY <1>0
  <2>2. CASE x < i /\ y < i
    <3>1. s[x] = s[y] /\ x \in DOMAIN s /\ y \in DOMAIN s
      BY <1>0, <1>1, <1>2, <2>1, <2>2
    <3> QED
      BY <3>1 DEF IsInjective
  <2>3. CASE x < i /\ ~(y < i)
    <3>1. s[x] = s[y + 1] /\ x \in DOMAIN s /\ y + 1 \in DOMAIN s
      BY <1>0, <1>1, <1>2, <2>1, <2>3
    <3> QED
      BY <2>1, <2>3, <3>1 DEF IsInjective
  <2>4. CASE ~(x < i) /\ y < i
    <3>1. s[x + 1] = s[y] /\ x + 1 \in DOMAIN s /\ y \in DOMAIN s
      BY <1>0, <1>1, <1>2, <2>1, <2>4
    <3> QED
      BY <2>1, <2>4, <3>1 DEF IsInjective
  <2>5. CASE ~(x < i) /\ ~(y < i)
    <3>1. s[x + 1] = s[y + 1] /\ x + 1 \in DOMAIN s /\ y + 1 \in DOMAIN s
      BY <1>0, <1>1, <1>2, <2>1, <2>5
    <3>2. x + 1 = y + 1
      BY <3>1 DEF IsInjective
    <3> QED
      BY <2>1, <3>2
  <2> QED
    BY <2>2, <2>3, <2>4, <2>5
<1>3. DOMAIN r = 1..Len(s) - 1
  BY <1>1
<1>4. \A x, y \in DOMAIN r : r[x] = r[y] => x = y
  BY <1>2, <1>3
<1> QED
  BY <1>4 DEF IsInjective, r

\* A rule added above all others leaves the positions distinct.
LEMMA AddAbove ==
    ASSUME NEW s \in Seq(Nat), NEW x \in Nat, IsInjective(s), \A i \in 1..Len(s) : s[i] < x
    PROVE  IsInjective(Append(s, x))
<1> DEFINE t == Append(s, x)
<1>0. Len(s) \in Nat /\ DOMAIN s = 1..Len(s)
  OBVIOUS
<1>1. /\ DOMAIN t = 1..Len(s) + 1
      /\ \A j \in 1..Len(s) : t[j] = s[j]
      /\ t[Len(s) + 1] = x
  BY <1>0
<1> HIDE DEF t
<1>2. ASSUME NEW j \in 1..Len(s) + 1, NEW l \in 1..Len(s) + 1, t[j] = t[l]
      PROVE  j = l
  <2>1. \A i \in 1..Len(s) : s[i] \in Nat /\ s[i] # x
    OBVIOUS
  <2>2. CASE j \in 1..Len(s) /\ l \in 1..Len(s)
    BY <1>0, <1>1, <1>2, <2>2 DEF IsInjective
  <2>3. CASE j \in 1..Len(s) /\ l = Len(s) + 1
    BY <1>1, <1>2, <2>1, <2>3
  <2>4. CASE j = Len(s) + 1 /\ l \in 1..Len(s)
    BY <1>1, <1>2, <2>1, <2>4
  <2> QED
    BY <1>0, <2>2, <2>3, <2>4
<1>3. \A j, l \in DOMAIN t : t[j] = t[l] => j = l
  BY <1>1, <1>2
<1> QED
  BY <1>3 DEF IsInjective, t

\* Numbers that count up are distinct.
LEMMA CountingInjective == ASSUME NEW k PROVE IsInjective([i \in 1..k |-> i])
BY DEF IsInjective

\* A writer of n begins while no other is at work, or n is marked.
LEMMA StartKeepsRules ==
    ASSUME TypeOK, RulesInv, NEW q \in Reqs, NEW n \in Names, NEW l \in {"create", "last", "clear"},
           StartEdit(q, l, n), l = "last" => ruleset[n] # "absent",
           rules' = rules, ruleset' = ruleset
    PROVE  RulesInv'
<1>1. /\ req[q] = Idle /\ req'[q] = [pc |-> l, on |-> n, pos |-> 0]
      /\ req' = [req EXCEPT ![q] = req'[q]]
      /\ \A p \in Reqs \ {q} : req'[p] = req[p]
      /\ raced \subseteq raced'
  BY DEF StartEdit, Start, TypeOK
<1>2. ASSUME n \notin raced' PROVE Consistent(n)'
  <2>1. Consistent(n) /\ \A p \in Reqs \ {q} : ~Writes(p, n)
    BY <1>1, <1>2 DEF RulesInv, StartEdit, Others, Writes
  <2>2. \A p \in Reqs \ {q} : ~Writes(p, n)'
    BY <1>1, <2>1 DEF Writes
  <2>3. \A p \in Reqs : At(p, "add", n)' \/ At(p, "seed", n)' \/ At(p, "drop", n)' \/ At(p, "last", n)'
            => p = q /\ l = "last"
    BY <1>1, <2>2 DEF At, Writes, Writing
  <2>4. \A p \in Reqs : ~At(p, "add", n)' /\ ~At(p, "seed", n)' /\ ~At(p, "drop", n)'
    BY <1>1, <2>3 DEF At
  <2>5. \A x, y \in Reqs : Writes(x, n)' /\ Writes(y, n)' => x = y
    BY <2>2
  <2>6. \A p \in Reqs : At(p, "last", n)' => ruleset'[n] # "absent"
    BY <2>3
  <2>7. ruleset'[n] = "absent" => rules'[n] = <<>>
    BY <2>1 DEF Consistent
  <2>8. IsInjective(rules'[n])
    BY <2>1 DEF Consistent
  <2> QED
    BY <2>4, <2>5, <2>6, <2>7, <2>8 DEF Consistent
<1> QED
  BY <1>1, <1>2, OtherNames

\* A writer of n that goes on, or returns, alone on n.
LEMMA AloneOnName ==
    ASSUME TypeOK, NEW q \in Reqs, NEW n \in Names, Consistent(n), Writes(q, n),
           \A p \in Reqs \ {q} : req'[p] = req[p]
    PROVE  \A p \in Reqs \ {q} : ~Writes(p, n)'
BY DEF Consistent, Writes

\* What a lone writer of n leaves is consistent when its own label agrees.
LEMMA LoneKeeps ==
    ASSUME NEW q \in Reqs, NEW n \in Names, \A p \in Reqs \ {q} : ~Writes(p, n)',
           At(q, "add", n)' => \A i \in 1..Len(rules'[n]) : rules'[n][i] < req'[q].pos,
           At(q, "seed", n)' \/ At(q, "drop", n)' => rules'[n] = <<>>,
           At(q, "seed", n)' \/ At(q, "last", n)' \/ At(q, "add", n)' => ruleset'[n] # "absent",
           ruleset'[n] = "absent" => rules'[n] = <<>>,
           IsInjective(rules'[n])
    PROVE  Consistent(n)'
<1>1. \A p \in Reqs, l \in Writing : At(p, l, n)' => p = q
  BY DEF At, Writes
<1>2. "add" \in Writing /\ "seed" \in Writing /\ "drop" \in Writing /\ "last" \in Writing
  BY DEF Writing
<1> QED
  BY <1>1, <1>2 DEF Consistent

\* Where the writers of n stand after a step.
LEMMA WriterSteps ==
    ASSUME TypeOK, NEW q \in Reqs, NEW n \in Names,
           \/ CreateRow(q, n) \/ SeedRules(q, n) \/ ReadLast(q, n) \/ InsertRule(q, n)
           \/ DeleteRules(q, n) \/ DeleteRow(q, n)
    PROVE  /\ Writes(q, n) /\ raced' = raced
           /\ req' = [req EXCEPT ![q] = req'[q]]
           /\ \A p \in Reqs \ {q} : req'[p] = req[p]
           /\ req'[q].pc \in Writing => req'[q].on = n
           /\ \A m \in Names \ {n} : rules'[m] = rules[m] /\ ruleset'[m] = ruleset[m]
<1>1. Writes(q, n)
  BY DEF CreateRow, SeedRules, ReadLast, InsertRule, DeleteRules, DeleteRow, At, Writes, Writing
<1>2. /\ req' = [req EXCEPT ![q] = req'[q]]
      /\ \A p \in Reqs \ {q} : req'[p] = req[p]
      /\ req'[q].pc \in Writing => req'[q].on = n
  BY DEF TypeOK, CreateRow, SeedRules, ReadLast, InsertRule, DeleteRules, DeleteRow, At, Goto,
         Finish, Idle, Writing
<1>3. /\ raced' = raced
      /\ \A m \in Names \ {n} : rules'[m] = rules[m] /\ ruleset'[m] = ruleset[m]
  BY DEF TypeOK, CreateRow, SeedRules, ReadLast, InsertRule, DeleteRules, DeleteRow, tables
<1> QED
  BY <1>1, <1>2, <1>3

\* create, addRule and delete keep the rules of every name that is not marked.
LEMMA WritingKeepsRules ==
    ASSUME TypeOK, RulesInv, NEW q \in Reqs, NEW n \in Names,
           \/ Create(q, n) \/ CreateRow(q, n) \/ SeedRules(q, n)
           \/ AddRule(q, n) \/ ReadLast(q, n) \/ InsertRule(q, n)
           \/ Delete(q, n) \/ DeleteRules(q, n) \/ DeleteRow(q, n)
    PROVE  RulesInv'
<1>0. CASE Create(q, n) \/ AddRule(q, n) \/ Delete(q, n)
  BY <1>0, StartKeepsRules DEF Create, AddRule, Delete, tables
<1>1. ASSUME \/ CreateRow(q, n) \/ SeedRules(q, n) \/ ReadLast(q, n) \/ InsertRule(q, n)
             \/ DeleteRules(q, n) \/ DeleteRow(q, n),
             n \notin raced
      PROVE  Consistent(n)'
  <2>0. /\ Consistent(n) /\ Writes(q, n)
        /\ \A p \in Reqs \ {q} : ~Writes(p, n)'
    BY <1>1, WriterSteps, AloneOnName DEF RulesInv
  <2>t. /\ rules \in [Names -> Seq(Nat)] /\ req \in [Reqs -> Job]
        /\ ruleset \in [Names -> {"absent", "inactive", "active"}]
        /\ rules[n] \in Seq(Nat) /\ req[q].pos \in Nat
    BY DEF TypeOK, Job
  <2>1. CASE CreateRow(q, n)
    <3>1. rules'[n] = rules[n] /\ ruleset'[n] # "absent"
      BY <2>1, <2>t DEF CreateRow
    <3>2. At(q, "seed", n)' => rules[n] = <<>>
      BY <2>0, <2>1, <2>t DEF CreateRow, Finish, Idle, At, Consistent
    <3>3. ~At(q, "add", n)' /\ ~At(q, "drop", n)'
      BY <2>1, <2>t DEF CreateRow, Finish, Goto, Idle, At, Job
    <3>4. IsInjective(rules'[n])
      BY <2>0, <3>1 DEF Consistent
    <3> QED
      BY <2>0, <3>1, <3>2, <3>3, <3>4, LoneKeeps
  <2>2. CASE SeedRules(q, n)
    <3>1. rules[n] = <<>> /\ ruleset[n] # "absent" /\ ruleset' = ruleset
      BY <2>0, <2>2 DEF SeedRules, Consistent
    <3>2. [i \in 1..TemplateRules |-> i] \in Seq(Nat)
      BY FirewallAssumption
    <3>3. rules'[n] = [i \in 1..TemplateRules |-> i]
      BY <2>2, <2>t, <3>1, <3>2, ConcatEmptySeq DEF SeedRules
    <3>4. IsInjective(rules'[n])
      BY <3>3, CountingInjective
    <3>5. req'[q] = Idle
      BY <2>2, <2>t DEF SeedRules, Finish
    <3> QED
      BY <2>0, <3>1, <3>4, <3>5, LoneKeeps DEF At, Idle
  <2>3. CASE ReadLast(q, n)
    <3>1. rules' = rules /\ ruleset' = ruleset /\ ruleset[n] # "absent"
      BY <2>0, <2>3 DEF ReadLast, tables, Consistent
    <3>2. req'[q].pc = "add" /\ req'[q].pos = NextPosition(n)
      BY <2>3, <2>t DEF ReadLast, Job
    <3>3. \A i \in 1..Len(rules'[n]) : rules'[n][i] < req'[q].pos
      BY <3>1, <3>2, NextIsAbove, TypeParts
    <3>4. ~At(q, "seed", n)' /\ ~At(q, "drop", n)'
      BY <3>2 DEF At
    <3>5. IsInjective(rules'[n]) /\ ruleset'[n] # "absent"
      BY <2>0, <3>1 DEF Consistent
    <3> QED
      BY <2>0, <3>3, <3>4, <3>5, LoneKeeps
  <2>4. CASE InsertRule(q, n)
    <3>1. ruleset' = ruleset /\ ruleset[n] # "absent" /\ rules'[n] = Append(rules[n], req[q].pos)
      BY <2>0, <2>4, <2>t DEF InsertRule, Consistent
    <3>2. IsInjective(rules'[n])
      BY <2>0, <2>4, <2>t, <3>1, AddAbove DEF InsertRule, Consistent
    <3>3. req'[q] = Idle
      BY <2>4, <2>t DEF InsertRule, Finish
    <3>4. ~At(q, "add", n)' /\ ~At(q, "seed", n)' /\ ~At(q, "drop", n)' /\ ~At(q, "last", n)'
      BY <3>3 DEF At, Idle
    <3>5. ruleset'[n] # "absent"
      BY <3>1
    <3> QED
      BY <2>0, <3>2, <3>4, <3>5, LoneKeeps
  <2>5. CASE DeleteRules(q, n)
    <3>1. rules'[n] = <<>>
      BY <2>5, <2>t DEF DeleteRules
    <3>2. req'[q].pc = "drop"
      BY <2>5, <2>t DEF DeleteRules, Goto, Job
    <3>3. IsInjective(rules'[n])
      BY <3>1 DEF IsInjective
    <3> QED
      BY <2>0, <3>1, <3>2, <3>3, LoneKeeps DEF At
  <2>6. CASE DeleteRow(q, n)
    <3>1. rules' = rules /\ rules[n] = <<>>
      BY <2>0, <2>6 DEF DeleteRow, Consistent
    <3>2. req'[q] = Idle
      BY <2>6, <2>t DEF DeleteRow, Finish
    <3> QED
      BY <2>0, <3>1, <3>2, LoneKeeps DEF At, Idle, Consistent
  <2> QED
    BY <1>1, <2>1, <2>2, <2>3, <2>4, <2>5, <2>6
<1>2. CASE \/ CreateRow(q, n) \/ SeedRules(q, n) \/ ReadLast(q, n) \/ InsertRule(q, n)
           \/ DeleteRules(q, n) \/ DeleteRow(q, n)
  BY <1>1, <1>2, WriterSteps, OtherNames
<1> QED
  BY <1>0, <1>2

\* apply() writes no rule and makes or drops no row.
LEMMA ApplyKeepsRules ==
    ASSUME TypeOK, RulesInv, NEW q \in Reqs, NEW n \in Names,
           \/ Apply(q, n) \/ CommandSucceeds(q, n) \/ CommandFails(q, n)
           \/ DeactivateOthers(q, n) \/ Activate(q, n)
    PROVE  RulesInv'
<1>1. rules' = rules /\ raced' = raced
  BY DEF Apply, CommandSucceeds, CommandFails, DeactivateOthers, Activate, tables
<1>2. \A m \in Names : ruleset'[m] = "absent" <=> ruleset[m] = "absent"
  BY DEF TypeOK, Apply, CommandSucceeds, CommandFails, DeactivateOthers, Activate, tables
<1>3. \A p \in Reqs : req'[p] = req[p] \/ req'[p].pc \notin Writing
  BY DEF TypeOK, Apply, CommandSucceeds, CommandFails, DeactivateOthers, Activate, Start, Goto,
         Finish, AfterFailure, Idle, Writing
<1> QED
  BY <1>1, <1>2, <1>3, RulesFrame

\* deleteRule keeps positions distinct, and those to be added above them.
LEMMA DeleteKeepsRules ==
    ASSUME TypeOK, RulesInv, NEW n \in Names, NEW i \in DOMAIN rules[n], DeleteRule(n, i)
    PROVE  RulesInv'
<1>1. rules[n] \in Seq(Nat) /\ i \in 1..Len(rules[n]) /\ Len(rules[n]) \in Nat
  BY DEF TypeOK
<1>2. /\ rules'[n] = RemoveAt(rules[n], i)
      /\ \A m \in Names \ {n} : rules'[m] = rules[m]
      /\ ruleset' = ruleset /\ req' = req /\ raced' = raced
  BY DEF DeleteRule, TypeOK
<1>3. ASSUME n \notin raced PROVE Consistent(n)'
  <2>1. Consistent(n) /\ rules[n] # <<>>
    BY <1>1, <1>3 DEF RulesInv
  <2>2. IsInjective(rules'[n])
    BY <1>1, <1>2, <2>1, RemoveInjective DEF Consistent
  <2>3. ASSUME NEW q \in Reqs, At(q, "add", n), NEW j \in 1..Len(rules'[n])
        PROVE  rules'[n][j] < req[q].pos
    <3>1. Len(rules'[n]) = Len(rules[n]) - 1
      BY <1>1, <1>2, RemoveKeeps
    <3>2. \E k \in 1..Len(rules[n]) : rules'[n][j] = rules[n][k]
      <4>1. CASE j < i
        <5>1. j \in 1..Len(rules[n])
          BY <1>1, <3>1
        <5>2. rules'[n][j] = rules[n][j]
          BY <1>1, <1>2, <3>1, <4>1, RemoveKeeps
        <5> QED
          BY <5>1, <5>2
      <4>2. CASE ~(j < i)
        <5>1. j + 1 \in 1..Len(rules[n])
          BY <1>1, <3>1
        <5> QED
          BY <1>1, <1>2, <3>1, <4>2, <5>1, RemoveKeeps
      <4> QED
        BY <4>1, <4>2
    <3> QED
      BY <2>1, <2>3, <3>2 DEF Consistent
  <2> QED
    BY <1>2, <2>1, <2>2, <2>3 DEF Consistent, At, Writes
<1>4. ASSUME NEW m \in Names \ raced, m # n PROVE Consistent(m)'
  BY <1>2, <1>4, NameFrame DEF RulesInv
<1> QED
  BY <1>2, <1>3, <1>4 DEF RulesInv

\* create, addRule, deleteRule and delete: where no two writers met, positions are
\* distinct and a dropped ruleset leaves no rule behind.
THEOREM RulesStayConsistent == Spec => []RulesConsistent
<1>1. Init => RulesInv
  <2> SUFFICES ASSUME Init, NEW n \in Names PROVE Consistent(n)
    BY DEF RulesInv
  <2>1. IsInjective(rules[n])
    BY DEF Init, IsInjective
  <2> QED
    BY <2>1 DEF Init, Consistent, Writes, At, Idle, Writing
<1>2. TypeOK /\ RulesInv /\ [Next]_vars => RulesInv'
  <2> SUFFICES ASSUME TypeOK, RulesInv, [Next]_vars PROVE RulesInv'
    OBVIOUS
  <2>1. CASE \E q \in Reqs, b \in BanIds : Ban(q, b) \/ Enforce(q, b) \/ Unban(q, b) \/ Lift(q, b)
    <3>1. PICK q \in Reqs, b \in BanIds : Ban(q, b) \/ Enforce(q, b) \/ Unban(q, b) \/ Lift(q, b)
      BY <2>1
    <3>2. rules' = rules /\ ruleset' = ruleset /\ raced' = raced
      BY <3>1 DEF Ban, Enforce, Unban, Lift, tables
    <3>3. \A p \in Reqs : req'[p] = req[p] \/ req'[p].pc \notin Writing
      BY <3>1 DEF TypeOK, Ban, Enforce, Unban, Lift, Start, Finish, Idle, Writing
    <3> QED
      BY <3>2, <3>3, RulesFrame
  <2>2. CASE \E i \in Ips : Expire(i)
    BY <2>2, RulesFrame DEF Expire, tables
  <2>3. CASE Restart
    BY <2>3, RulesFrame DEF Restart, tables, Idle, Writing
  <2>4. CASE UNCHANGED vars
    BY <2>4, RulesFrame DEF vars, tables
  <2> QED
    BY <2>1, <2>2, <2>3, <2>4, WritingKeepsRules, ApplyKeepsRules, DeleteKeepsRules DEF Next
<1>3. RulesInv => RulesConsistent
  BY DEF RulesInv, Consistent, RulesConsistent
<1> QED
  BY <1>1, <1>2, <1>3, FilterTypes, PTL DEF Spec
================================================================================
