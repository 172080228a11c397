------------------------------ MODULE DnsPlan ------------------------------
(***************************************************************************)
(* The DNS import plan (internal/accountinventory/dnsplan.go) and its      *)
(* certification (dnsverify.go): pure decisions about two zones.           *)
(*                                                                         *)
(* A zone is a set of records; a record is an rrset key and a value that   *)
(* has gone through canonDNSName, canonIPString and planValue, so TTLs and *)
(* spellings are gone.  Type "A" stands for A and AAAA, "CNAME" for CNAME, *)
(* "MX" for the other types that are copied verbatim, "SRV" for the types  *)
(* the tool does not write.  A TXT value that is in the domain of the      *)
(* ip-map stands for a text that contains that address.                    *)
(***************************************************************************)
EXTENDS Naturals, FiniteSets

CONSTANTS
    Names,            \* owner names
    ValidationNames,  \* the ones AutoSSL and DCV create for a host
    Values,           \* canonical record values, addresses included
    IPMap             \* source address -> destination address

Types           == {"A", "CNAME", "MX", "TXT", "NS", "SOA", "SRV"}
actionableTypes == {"A", "CNAME", "MX", "TXT"}

Keys    == [type : Types, name : Names]
Records == [key : Keys, val : Values]

ASSUME DnsPlanAssumption ==
    /\ ValidationNames \subseteq Names
    /\ DOMAIN IPMap \subseteq Values
    /\ \A a \in DOMAIN IPMap : IPMap[a] \in Values

Actions == {"none", "add", "replace", "manual", "skip"}

\* An op keeps one pair per source record (its value, the value to write) and
\* the values the destination had when the plan was made.  "none": the source
\* has no such rrset.
Ops == [action : Actions, records : SUBSET (Values \X Values), dest : SUBSET Values]

\* groupRRSets, sortedValues
ValuesOf(zone, k) == {v \in Values : [key |-> k, val |-> v] \in zone}
HasRRset(zone, k) == ValuesOf(zone, k) # {}
RRset(k, vals)    == {[key |-> k, val |-> v] : v \in vals}

Desired(op)  == {p[2] : p \in op.records}
Writable(op) == op.action \in {"add", "replace"}

\* valuesEqual compares lists: two source records that translate to one value
\* are two.
SameValues(pairs, vals) ==
    /\ {p[2] : p \in pairs} = vals
    /\ Cardinality(pairs) = Cardinality(vals)

-----------------------------------------------------------------------------
(* BuildDNSPlan                                                            *)

isHostValidationName(name) == name \in ValidationNames

\* Mutant: only the source zone is searched for a CNAME and its company.
crossTypeConflictSource(k, src, dst) ==
    \E t \in Types \ {k.type} :
        /\ HasRRset(src, [type |-> t, name |-> k.name])
        /\ "CNAME" \in {t, k.type} \/ HasRRset(src, [type |-> "CNAME", name |-> k.name])

\* A CNAME on either side shares its name with another type on either side.
crossTypeConflict(k, src, dst) ==
    LET typesAt == {t \in Types : HasRRset(src \cup dst, [type |-> t, name |-> k.name])}
    IN  "CNAME" \in typesAt /\ typesAt \ {k.type} # {}

Mapped(v)    == v \in DOMAIN IPMap
Translate(v) == IF Mapped(v) THEN IPMap[v] ELSE v

\* translateRecords: the ip-map is for addresses, the rest is copied.
translateRecords(k, vals) ==
    {<<v, IF k.type = "A" THEN Translate(v) ELSE v>> : v \in vals}

Decision(action, records, dest) == [action |-> action, records |-> records, dest |-> dest]

classify(k, src, dst) ==
    LET s     == ValuesOf(src, k)
        d     == ValuesOf(dst, k)
        pairs == translateRecords(k, s)
    IN
    IF s = {}                                            THEN Decision("none", {}, {})
    ELSE IF k.type = "SOA"                               THEN Decision("skip", {}, d)
    ELSE IF isHostValidationName(k.name)                 THEN Decision("skip", {}, d)
    ELSE IF k.type = "NS"                                THEN Decision(IF s = d THEN "skip" ELSE "manual", {}, d)
    ELSE IF k.type \notin actionableTypes                THEN Decision("manual", {}, d)
    ELSE IF crossTypeConflict(k, src, dst)               THEN Decision("manual", {}, d)
    ELSE IF k.type = "A" /\ \E v \in s : ~Mapped(v)      THEN Decision("manual", {}, d)
    ELSE IF k.type = "TXT" /\ \E v \in s : Mapped(v)
         THEN Decision(IF SameValues({<<v, Translate(v)>> : v \in s}, d) THEN "skip" ELSE "manual", {}, d)
    ELSE IF SameValues(pairs, d)                         THEN Decision("skip", {}, d)
    ELSE Decision(IF d # {} THEN "replace" ELSE "add", pairs, d)

\* A destination rrset without a source one gets no op: nothing is deleted.
BuildZonePlan(src, dst) == [k \in Keys |-> classify(k, src, dst)]

-----------------------------------------------------------------------------
(* VerifyDNSPlan                                                           *)

verifyOp(op, k, live) ==
    LET observed == ValuesOf(live, k) IN
    IF op.action = "manual" THEN "manual_review"
    ELSE IF op.action = "skip"
         THEN IF k.type = "SOA" \/ isHostValidationName(k.name) THEN "not_checked"
              ELSE IF op.dest # {} /\ observed = op.dest THEN "unchanged" ELSE "drift"
    ELSE IF observed # {} /\ SameValues(op.records, observed) THEN "applied"
    ELSE IF op.action = "add" /\ observed = {} THEN "pending"
    ELSE IF op.action = "replace" /\ observed # {} /\ observed = op.dest THEN "pending"
    ELSE "drift"
=============================================================================
