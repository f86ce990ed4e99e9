------------------------------ MODULE HostFirewall ------------------------------
(***************************************************************************)
(* The packet filter of the host as two bridge modules share it: the       *)
(* rulesets of firewall.ts, one of which apply() loads into the kernel,    *)
(* and the bans of netsec.ts, elements of the set `inet sysdeck            *)
(* blacklist`.  Both keep rows in SQLite and run nft; nothing orders their *)
(* requests, so each handler is split at its awaits.                       *)
(*                                                                         *)
(* The host has nft.  A ruleset made from a template whose script is       *)
(* installed is in Scripted: apply() runs that script without a            *)
(* subcommand, and every shipped script then prints its usage text and     *)
(* exits with 0.  The text synthesized for any other ruleset starts with   *)
(* `flush ruleset`.  Contents of rules, audit rows, dry runs and fail2ban  *)
(* are left out.                                                           *)
(***************************************************************************)
EXTENDS Integers, SequencesExt

CONSTANTS Names,         \* names of rulesets
          Scripted,      \* those applied by a template script
          TemplateRules, \* rules a template brings
          Ips,           \* addresses
          BanIds,        \* ids of ban rows
          IpOf,          \* [BanIds -> Ips]
          Reqs,          \* concurrent requests
          None,
          MaxEdits,      \* bound on the requests that write rules or rulesets
          MaxRestarts    \* bound on restarts of the console

ASSUME FirewallAssumption ==
    /\ Scripted \subseteq Names
    /\ IsFiniteSet(BanIds)
    /\ IpOf \in [BanIds -> Ips]
    /\ None \notin Names \cup BanIds
    /\ TemplateRules \in Nat \ {0}
    /\ MaxEdits \in Nat /\ MaxRestarts \in Nat

VARIABLES
    ruleset,    \* FwRuleset rows: absent, inactive or active
    rules,      \* FwRule rows of each name, by position, in order of creation
    loaded,     \* the ruleset in the kernel's table inet firewall
    ban,        \* NetsecBan rows: unused, live or gone (deleted)
    blacklist,  \* addresses in the kernel's set
    req,        \* the requests: where they stand, and what they carry over an await
    mixed,      \* history: applies overlapped, or one was cut, since the last that ran alone
    raced,      \* history: names two writers of rules worked on at once
    left,       \* history: bans whose unban did not answer that the entry is gone
    edits, restarts

tables == <<ruleset, rules>>
vars == <<ruleset, rules, loaded, ban, blacklist, req, mixed, raced, left, edits, restarts>>

Idle == [pc |-> "idle", on |-> None, pos |-> 0]
Writing == {"create", "seed", "last", "add", "clear", "drop"}
Applying == {"command", "deactivate", "activate"}

TypeOK ==
    /\ ruleset \in [Names -> {"absent", "inactive", "active"}]
    /\ rules \in [Names -> Seq(Nat)]
    /\ loaded \in Names \cup {None}
    /\ ban \in [BanIds -> {"unused", "live", "gone"}]
    /\ blacklist \subseteq Ips
    /\ req \in [Reqs -> [pc : {"idle", "enforce", "lift"} \cup Writing \cup Applying,
                         on : Names \cup BanIds \cup {None}, pos : Nat]]
    /\ \A q \in Reqs : /\ req[q].pc \in Writing \cup Applying => req[q].on \in Names
                       /\ req[q].pc \in {"enforce", "lift"} => req[q].on \in BanIds
    /\ mixed \in BOOLEAN
    /\ raced \subseteq Names
    /\ left \subseteq BanIds
    /\ edits \in 0..MaxEdits /\ restarts \in 0..MaxRestarts

Init ==
    /\ ruleset = [n \in Names |-> "absent"]
    /\ rules = [n \in Names |-> <<>>]
    /\ loaded = None
    /\ ban = [b \in BanIds |-> "unused"]
    /\ blacklist = {}
    /\ req = [q \in Reqs |-> Idle]
    /\ mixed = FALSE /\ raced = {} /\ left = {}
    /\ edits = 0 /\ restarts = 0

-----------------------------------------------------------------------------
Start(q, l, x) == req[q] = Idle /\ req' = [req EXCEPT ![q] = [pc |-> l, on |-> x, pos |-> 0]]
Goto(q, l) == req' = [req EXCEPT ![q].pc = l]
Finish(q) == req' = [req EXCEPT ![q] = Idle]
At(q, l, n) == req[q].pc = l /\ req[q].on = n

Others(q, labels, n) == {p \in Reqs \ {q} : req[p].pc \in labels /\ req[p].on = n}

\* A request that writes rules of n begins.
StartEdit(q, l, n) ==
    /\ edits < MaxEdits
    /\ edits' = edits + 1
    /\ raced' = IF Others(q, Writing, n) = {} THEN raced ELSE raced \cup {n}
    /\ Start(q, l, n)

(* firewall.ts: create *)

Create(q, n) ==
    /\ ruleset[n] = "absent"
    /\ StartEdit(q, "create", n)
    /\ UNCHANGED <<tables, loaded, ban, blacklist, mixed, left, restarts>>

\* The row is inserted, or refused by the unique index.
CreateRow(q, n) ==
    /\ At(q, "create", n)
    /\ \/ /\ ruleset[n] = "absent"
          /\ ruleset' = [ruleset EXCEPT ![n] = "inactive"]
          /\ Goto(q, "seed") \/ (n \notin Scripted /\ Finish(q))
       \/ /\ ruleset[n] # "absent"
          /\ Finish(q)
          /\ UNCHANGED ruleset
    /\ UNCHANGED <<rules, loaded, ban, blacklist, mixed, raced, left, edits, restarts>>

\* The rules of the template, at positions 1, 2, ...
SeedRules(q, n) ==
    /\ At(q, "seed", n)
    /\ rules' = [rules EXCEPT ![n] = @ \o [i \in 1..TemplateRules |-> i]]
    /\ Finish(q)
    /\ UNCHANGED <<ruleset, loaded, ban, blacklist, mixed, raced, left, edits, restarts>>

(* addRule, deleteRule *)

AddRule(q, n) ==
    /\ ruleset[n] # "absent"
    /\ StartEdit(q, "last", n)
    /\ UNCHANGED <<tables, loaded, ban, blacklist, mixed, left, restarts>>

\* Mutant: the next position is the number of rules.
NextPositionByCount(n) == Len(rules[n]) + 1
NextPosition(n) == Max({0} \cup Range(rules[n])) + 1

ReadLast(q, n) ==
    /\ At(q, "last", n)
    /\ req' = [req EXCEPT ![q].pc = "add", ![q].pos = NextPosition(n)]
    /\ UNCHANGED <<tables, loaded, ban, blacklist, mixed, raced, left, edits, restarts>>

InsertRule(q, n) ==
    /\ At(q, "add", n)
    /\ rules' = [rules EXCEPT ![n] = Append(@, req[q].pos)]
    /\ Finish(q)
    /\ UNCHANGED <<ruleset, loaded, ban, blacklist, mixed, raced, left, edits, restarts>>

\* deleteRule finds the row by its id and deletes it; the second of two fails.
DeleteRule(n, i) ==
    /\ rules' = [rules EXCEPT ![n] = RemoveAt(@, i)]
    /\ UNCHANGED <<ruleset, loaded, ban, blacklist, req, mixed, raced, left, edits, restarts>>

(* delete *)

Delete(q, n) ==
    /\ ruleset[n] = "inactive"
    /\ StartEdit(q, "clear", n)
    /\ UNCHANGED <<tables, loaded, ban, blacklist, mixed, left, restarts>>

DeleteRules(q, n) ==
    /\ At(q, "clear", n)
    /\ rules' = [rules EXCEPT ![n] = <<>>]
    /\ Goto(q, "drop")
    /\ UNCHANGED <<ruleset, loaded, ban, blacklist, mixed, raced, left, edits, restarts>>

\* The row goes, active by now or not; the second of two deletes fails.
DeleteRow(q, n) ==
    /\ At(q, "drop", n)
    /\ ruleset' = [ruleset EXCEPT ![n] = "absent"]
    /\ Finish(q)
    /\ UNCHANGED <<rules, loaded, ban, blacklist, mixed, raced, left, edits, restarts>>

-----------------------------------------------------------------------------
(* apply *)

OtherApplies(q) == {p \in Reqs \ {q} : req[p].pc \in Applying}

Apply(q, n) ==
    /\ ruleset[n] # "absent"
    /\ Start(q, "command", n)
    /\ mixed' = (mixed \/ OtherApplies(q) # {})
    /\ UNCHANGED <<tables, loaded, ban, blacklist, raced, left, edits, restarts>>

\* The template script runs without a subcommand: usage text, exit code 0.
RunScript(n) == n \in Scripted /\ UNCHANGED <<loaded, blacklist>>

\* nft -f -: the synthesized text flushes every table and loads its own.
LoadText(n) == n \notin Scripted /\ loaded' = n /\ blacklist' = {}

CommandSucceeds(q, n) ==
    /\ At(q, "command", n)
    /\ RunScript(n) \/ LoadText(n)
    /\ mixed' = (OtherApplies(q) # {})
    /\ Goto(q, "deactivate")
    /\ UNCHANGED <<tables, ban, raced, left, edits, restarts>>

AfterFailureGoOn(q) == Goto(q, "deactivate")     \* mutant: the exit code is not looked at
AfterFailure(q) == Finish(q)

\* No privilege, a timeout, or nft refuses the text: the kernel is unchanged.
CommandFails(q, n) ==
    /\ At(q, "command", n)
    /\ AfterFailure(q)
    /\ UNCHANGED <<tables, loaded, ban, blacklist, mixed, raced, left, edits, restarts>>

\* updateMany: every other active ruleset.
DeactivateOthers(q, n) ==
    /\ At(q, "deactivate", n)
    /\ ruleset' = [m \in Names |->
            IF m # n /\ ruleset[m] = "active" THEN "inactive" ELSE ruleset[m]]
    /\ Goto(q, "activate")
    /\ UNCHANGED <<rules, loaded, ban, blacklist, mixed, raced, left, edits, restarts>>

\* update: throws when the row was deleted meanwhile.
Activate(q, n) ==
    /\ At(q, "activate", n)
    /\ ruleset' = [ruleset EXCEPT ![n] = IF @ = "absent" THEN @ ELSE "active"]
    /\ Finish(q)
    /\ UNCHANGED <<rules, loaded, ban, blacklist, mixed, raced, left, edits, restarts>>

-----------------------------------------------------------------------------
(* netsec.ts: ban, unban *)

Ban(q, b) ==
    /\ ban[b] = "unused"
    /\ ban' = [ban EXCEPT ![b] = "live"]
    /\ Start(q, "enforce", b)
    /\ UNCHANGED <<tables, loaded, blacklist, mixed, raced, left, edits, restarts>>

\* nft adds the element, idempotently, or fails: the row stays either way.
Enforce(q, b) ==
    /\ At(q, "enforce", b)
    /\ blacklist' \in {blacklist, blacklist \cup {IpOf[b]}}
    /\ Finish(q)
    /\ UNCHANGED <<tables, loaded, ban, mixed, raced, left, edits, restarts>>

\* The row is deleted first; unban of a deleted row answers 'ban not found'.
Unban(q, b) ==
    /\ ban[b] = "live"
    /\ ban' = [ban EXCEPT ![b] = "gone"]
    /\ Start(q, "lift", b)
    /\ UNCHANGED <<tables, loaded, blacklist, mixed, raced, left, edits, restarts>>

AnswersGone(b, rc) == UNCHANGED left         \* mutant: an absent element counts as lifted
Answers(b, rc) == left' = IF rc = 0 THEN left ELSE left \cup {b}

\* nft deletes the element; it fails when there is none, or for its own reasons.
Lift(q, b) ==
    /\ At(q, "lift", b)
    /\ \/ /\ IpOf[b] \in blacklist
          /\ blacklist' = blacklist \ {IpOf[b]}
          /\ Answers(b, 0)
       \/ Answers(b, 1) /\ UNCHANGED blacklist
    /\ Finish(q)
    /\ UNCHANGED <<tables, loaded, ban, mixed, raced, edits, restarts>>

\* The 30 days of an element are over.
Expire(i) ==
    /\ i \in blacklist
    /\ blacklist' = blacklist \ {i}
    /\ UNCHANGED <<tables, loaded, ban, req, mixed, raced, left, edits, restarts>>

\* The console process ends, in the middle of anything; the kernel stays.
Restart ==
    /\ restarts < MaxRestarts
    /\ restarts' = restarts + 1
    /\ req' = [q \in Reqs |-> Idle]
    /\ mixed' = (mixed \/ \E q \in Reqs : req[q].pc \in Applying)
    /\ left' = left \cup {b \in BanIds : \E q \in Reqs : At(q, "lift", b)}
    /\ UNCHANGED <<tables, loaded, ban, blacklist, raced, edits>>

Next ==
    \/ \E q \in Reqs, n \in Names :
        \/ Create(q, n) \/ CreateRow(q, n) \/ SeedRules(q, n)
        \/ AddRule(q, n) \/ ReadLast(q, n) \/ InsertRule(q, n)
        \/ Delete(q, n) \/ DeleteRules(q, n) \/ DeleteRow(q, n)
        \/ Apply(q, n) \/ CommandSucceeds(q, n) \/ CommandFails(q, n)
        \/ DeactivateOthers(q, n) \/ Activate(q, n)
    \/ \E n \in Names : \E i \in DOMAIN rules[n] : DeleteRule(n, i)
    \/ \E q \in Reqs, b \in BanIds : Ban(q, b) \/ Enforce(q, b) \/ Unban(q, b) \/ Lift(q, b)
    \/ \E i \in Ips : Expire(i)
    \/ Restart

Spec == Init /\ [][Next]_vars

-----------------------------------------------------------------------------
(* Properties *)

\* apply(): the ruleset the panel shows as active, among those nft loads, is the
\* one in the kernel, whatever else is created, edited, deleted or banned
\* meanwhile, as long as applies do not overlap; one that runs alone mends the rest.
ActiveIsLoaded ==
    ~mixed /\ (\A q \in Reqs : req[q].pc \notin {"deactivate", "activate"})
        => \A n \in Names \ Scripted : ruleset[n] = "active" => loaded = n

\* create, addRule, deleteRule and delete: unless two of them worked on one name
\* at once, positions stay distinct and no rule outlives its ruleset, to be
\* inherited by the next of that name.
RulesConsistent == \A n \in Names \ raced :
    /\ IsInjective(rules[n])
    /\ ruleset[n] = "absent" => rules[n] = <<>>

\* unban(): "a refused or failed delete reports failure, never a fabricated lift":
\* an address that is still in the kernel although its last row is gone had an
\* unban that did not answer that the entry is removed.
NoFabricatedLift == \A i \in blacklist :
    \/ \E b \in BanIds : IpOf[b] = i /\ ban[b] = "live"
    \/ \E q \in Reqs, b \in BanIds : At(q, "lift", b) /\ IpOf[b] = i
    \/ \E b \in left : IpOf[b] = i

\* firewall.ts: "apply() runs the REAL thing: the shipped template script": an
\* active ruleset, with no apply in progress, is what the kernel holds.
AppliedIsLoaded ==
    ~mixed /\ (\A q \in Reqs : req[q].pc \notin Applying)
        => \A n \in Names : ruleset[n] = "active" => loaded = n
================================================================================
