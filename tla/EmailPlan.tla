------------------------------ MODULE EmailPlan ------------------------------
(***************************************************************************)
(* The rules of `inventory email-plan` (accountinventory/emailplan.go), of *)
(* the freshness guard of `email apply` (emailapply.go) and of             *)
(* `email verify` (emailverify.go), as functions of what was read.         *)
(*                                                                         *)
(* An item is what one op is about: a forwarder (an address and a target), *)
(* the default address or the routing of a domain, the autoresponder of an *)
(* address, a filter.  A state of a side gives every item its content, or  *)
(* Absent; a reading may instead hold Unread (the entry is listed, its     *)
(* body or its rules are not) or ListError (the list call failed).         *)
(***************************************************************************)
EXTENDS Naturals, FiniteSets

CONSTANTS
    Items,        \* numbers, in the order of emailOpLess
    Section,      \* the section of an item
    Address,      \* forwarders of one address share it
    Unwritable,   \* no plain single target, or a domain the destination lacks
    Absent, Unread, ListError

Sections == {"forwarders", "default_address", "autoresponders", "filters", "routing"}
In(s)    == {i \in Items : Section[i] = s}
Contents == In("autoresponders") \cup In("filters")
Settings == In("default_address") \cup In("routing")

\* Sections with an availability flag: without it their ops are not planned.
Flagged == {"default_address", "filters", "routing"}

\* The values of a default address.  The text after :fail: depends on the
\* server's language; "own" is the account's user name.
classifyDefaultValue ==
    [own |-> "account_default", fail |-> "fail", fail_it |-> "fail",
     blackhole |-> "blackhole", info |-> "address", sales |-> "address", pipe |-> "other"]

DefaultValues == DOMAIN classifyDefaultValue
RoutingValues == {"local", "remote", "auto"}
Bodies        == {"a", "b", "multi"}   \* "multi": a filter of several rules

Values(i) ==
    CASE Section[i] = "forwarders"      -> {"on", Absent}
      [] Section[i] = "default_address" -> DefaultValues \cup {Absent}
      [] Section[i] = "routing"         -> RoutingValues \cup {Absent}
      [] OTHER                          -> Bodies \cup {Absent}

ASSUME EmailPlanAssumption ==
    /\ Items \subseteq Nat /\ IsFiniteSet(Items)
    /\ Section \in [Items -> Sections]
    /\ Unwritable \subseteq Items
    /\ Absent # Unread /\ Absent # ListError /\ Unread # ListError
    /\ {Absent, Unread, ListError} \cap ({"on"} \cup DefaultValues \cup RoutingValues \cup Bodies) = {}

defaultsEquivalent(v, w) ==
    \/ v = w
    \/ /\ classifyDefaultValue[v] = classifyDefaultValue[w]
       /\ classifyDefaultValue[v] \in {"fail", "blackhole", "account_default"}

isFreshDefault(v) == classifyDefaultValue[v] \in {"fail", "blackhole", "account_default"}

Known(v) == v \notin {Absent, Unread, ListError}

\* Two contents of an item mean the same.
Same(i, v, w) ==
    IF Section[i] = "default_address" /\ Known(v) /\ Known(w)
    THEN defaultsEquivalent(v, w)
    ELSE v = w

\* The targets that an address forwards to.
destForwardTargets(i, side) ==
    {j \in In("forwarders") : Address[j] = Address[i] /\ side[j] = "on"}

-----------------------------------------------------------------------------
(* BuildEmailPlan                                                          *)

\* What is to be written, and the precondition the apply checks: the value
\* of the destination, or the targets its address had.
Op(action, value, was, targets) ==
    [action |-> action, value |-> value, was |-> was, targets |-> targets]

NoOp == Op("none", Absent, Absent, {})

planForwarders(i, src, dest) ==
    IF dest[i] = "on" THEN Op("skip", "on", "on", {})
    ELSE IF i \in Unwritable THEN Op("manual", Absent, Absent, {})
    ELSE Op("create", "on", Absent, destForwardTargets(i, dest))

planDefaultAddresses(i, src, dest) ==
    IF dest[i] = Absent THEN Op("manual", Absent, Absent, {})
    ELSE IF Same(i, src[i], dest[i]) THEN Op("skip", dest[i], dest[i], {})
    ELSE IF isFreshDefault(dest[i]) /\ classifyDefaultValue[src[i]] \in {"address", "fail", "blackhole"}
    THEN Op("set", src[i], dest[i], {})
    ELSE Op("manual", Absent, Absent, {})

\* planAutoresponders and planFilters: never over an existing entry.
planContents(i, src, dest) ==
    IF Unread \in {src[i], dest[i]} \/ (Section[i] = "filters" /\ src[i] = "multi")
    THEN Op("manual", Absent, Absent, {})
    ELSE IF src[i] = dest[i] THEN Op("skip", src[i], src[i], {})
    ELSE IF dest[i] # Absent \/ (Section[i] = "autoresponders" /\ i \in Unwritable)
    THEN Op("manual", Absent, Absent, {})
    ELSE Op("create", src[i], Absent, {})

planRouting(i, src, dest) ==
    IF dest[i] = Absent THEN Op("manual", Absent, Absent, {})
    ELSE IF src[i] = dest[i] THEN Op("skip", dest[i], dest[i], {})
    ELSE Op("set", src[i], dest[i], {})

PlanOp(i, src, dest) ==
    CASE Section[i] = "forwarders"      -> planForwarders(i, src, dest)
      [] Section[i] = "default_address" -> planDefaultAddresses(i, src, dest)
      [] Section[i] = "routing"         -> planRouting(i, src, dest)
      [] OTHER                          -> planContents(i, src, dest)

\* off: sections that an inventory lacks.
BuildEmailPlan(src, dest, off) ==
    [ops |-> [i \in Items |->
                 IF src[i] = Absent \/ Section[i] \in off THEN NoOp ELSE PlanOp(i, src, dest)],
     manualSections |-> off]

Actionable(op) == op.action \in {"create", "set"}

-----------------------------------------------------------------------------
(* EvaluateEmailOp: already there, to be written, or refused               *)

\* Both "refused" and "unreadable" are reported as refused_precondition.
EvaluateEmailOp(i, op, live) ==
    IF live[i] \in {ListError, Unread} THEN "unreadable"
    ELSE IF live[i] # Absent /\ Same(i, op.value, live[i]) THEN "already"
    ELSE IF \/ i \in In("forwarders") /\ destForwardTargets(i, live) = op.targets
            \/ i \in Contents /\ live[i] = Absent
            \/ i \in Settings /\ live[i] # Absent /\ Same(i, op.was, live[i])
    THEN "write"
    ELSE "refused"

EmailOutcomePresent(i, op, live) == Known(live[i]) /\ Same(i, op.value, live[i])

-----------------------------------------------------------------------------
(* VerifyEmailPlan                                                         *)

verifyEmailOp(i, op, live) ==
    IF op.action \in {"none", "manual"} THEN "manual_review"
    ELSE IF live[i] = ListError THEN "unavailable"
    ELSE IF EmailOutcomePresent(i, op, live)
    THEN IF op.action = "skip" THEN "unchanged" ELSE "applied"
    ELSE IF op.action = "skip" THEN "drift"
    ELSE IF live[i] = Unread THEN "unavailable"
    ELSE IF EvaluateEmailOp(i, op, live) = "write" THEN "pending"
    ELSE "drift"

\* Mutant: an op that was not carried out does not gate.
CleanIgnoresPending(p, live) ==
    /\ p.manualSections = {}
    /\ \A i \in Items : verifyEmailOp(i, p.ops[i], live) \notin {"drift", "unavailable"}

\* The gate's predicate: manual ops do not count.
Clean(p, live) ==
    /\ p.manualSections = {}
    /\ \A i \in Items : verifyEmailOp(i, p.ops[i], live) \notin {"pending", "drift", "unavailable"}
=============================================================================
