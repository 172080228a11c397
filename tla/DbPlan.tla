------------------------------- MODULE DbPlan -------------------------------
(***************************************************************************)
(* The database plan of the migration (internal/dbmig/plan.go and          *)
(* preflight.go, internal/migrate/dbfiles_common.go): which destination    *)
(* database, user and password every source database gets, and which of    *)
(* them must not be touched.                                               *)
(*                                                                         *)
(* A MySQL name is a sequence of tokens; the account prefix, when there is *)
(* one, is its first token.  An inventory is a record                      *)
(*   dbs      the source databases, in name order                          *)
(*   creds    site credentials in discovery order, each a record           *)
(*            [db, user, pass, config]; config = Registry for Softaculous  *)
(*   grantee  the first user that the API lists for a database             *)
(*   override what host.yaml says of a database                            *)
(*   src, dest  the prefix that Mysql::get_restrictions reports, NoPrefix  *)
(*            when prefixing is off, Unknown when the call was refused     *)
(*   site     for each config, the fate of its domain on the destination   *)
(*   foreign  whether some docroot has a config format nobody rewrites     *)
(***************************************************************************)
EXTENDS Naturals, Sequences, FiniteSets, SequencesExt

CONSTANTS
    Registry, NoPrefix, Unknown,
    Nobody,       \* no user
    NoPass,       \* the empty password: generate one
    MaxName       \* the longest name cPanel takes, in tokens

HasPrefix(name, p) == name # << >> /\ Head(name) = p

-----------------------------------------------------------------------------
(* Names *)

\* Without restrictions the source's prefix is guessed from the first name.
legacySrcPrefix(inv) ==
    LET prefixed == SelectSeq(inv.dbs, LAMBDA d : Len(d) > 1)
    IN  IF prefixed = << >> THEN NoPrefix ELSE Head(Head(prefixed))

mysqlNamePrefix(reported, legacy) == IF reported = Unknown THEN legacy ELSE reported

dbNameMapping(inv) ==
    [src  |-> mysqlNamePrefix(inv.src, legacySrcPrefix(inv)),
     dest |-> mysqlNamePrefix(inv.dest, NoPrefix)]

\* A name outside the source's prefix stays what it is.
remapName(name, m) ==
    IF m.src # NoPrefix /\ ~HasPrefix(name, m.src) THEN name
    ELSE LET suffix == IF m.src # NoPrefix THEN Tail(name) ELSE name
         IN  IF m.dest = NoPrefix THEN suffix ELSE <<m.dest>> \o suffix

-----------------------------------------------------------------------------
(* The plan *)

\* The first value that s holds for a database, real configs before the registry.
FirstCred(inv, db, field, none) ==
    LET of(real)  == SelectSeq(inv.creds, LAMBDA c : c.db = db /\ c[field] # none
                                                      /\ (c.config # Registry) = real)
        found     == of(TRUE) \o of(FALSE)
    IN  IF found = << >> THEN none ELSE Head(found)[field]

Owner(inv, db) ==
    LET named == FirstCred(inv, db, "user", Nobody)
    IN  IF inv.override[db].user # Nobody THEN inv.override[db].user
        ELSE IF named # Nobody THEN named
        ELSE IF inv.grantee[db] # Nobody THEN inv.grantee[db]
        ELSE db

Password(inv, db) ==
    IF inv.override[db].pass # NoPass THEN inv.override[db].pass
    ELSE FirstCred(inv, db, "pass", NoPass)

\* The configs to rewrite; the registry's file is none.
ConfigsOf(inv, db) ==
    LET refs == SelectSeq(inv.creds, LAMBDA c : c.db = db /\ c.config # Registry)
    IN  [n \in 1..Len(refs) |-> refs[n].config]

BuildPlanWithMapping(inv) ==
    LET m == dbNameMapping(inv)
    IN  [n \in 1..Len(inv.dbs) |->
            LET db == inv.dbs[n]
            IN  [src |-> db, srcUser |-> Owner(inv, db),
                 destDB |-> remapName(db, m), destUser |-> remapName(Owner(inv, db), m),
                 pass |-> Password(inv, db), configs |-> ConfigsOf(inv, db)]]

-----------------------------------------------------------------------------
(* Preflight *)

\* site[c] of an inventory: "unresolved" when no source docroot holds the
\* config, then the state of its domain on the destination.
Fates == {"ok", "unresolved", "failed", "blocked", "type_issue", "collision", "no_docroot"}

domainUnavailable(fate) == fate \in {"failed", "blocked"}

\* Every site that uses the database is known and none can work: the database
\* is left alone.  One unresolved site is enough to migrate it.
dbAllDomainsUnavailableForApply(inv, it) ==
    /\ it.configs # << >>
    /\ \A c \in Range(it.configs) :
           domainUnavailable(inv.site[c].fate) \/ inv.site[c].fate = "type_issue"

\* A type issue among the reasons makes it a failure rather than a skip.
dbUnavailableReasonFailsDB(inv, it) ==
    \E c \in Range(it.configs) : inv.site[c].fate = "type_issue"

LiveItems(inv, plan) ==
    {n \in DOMAIN plan : ~dbAllDomainsUnavailableForApply(inv, plan[n])}

ConflictDestDB(plan, live, n) ==
    \E m \in live \ {n} : plan[m].destDB = plan[n].destDB

\* A shared user is safe only with one known password everywhere.
ConflictDestUser(plan, live, n) ==
    \E m, k \in live :
        /\ plan[m].destUser = plan[n].destUser /\ plan[k].destUser = plan[n].destUser
        /\ m # k
        /\ plan[m].pass # plan[k].pass \/ plan[m].pass = NoPass

\* Mutant: the passwords are compared only where both are known.
ValidateKnownPasswords(plan, live) ==
    {n \in live :
        \/ ConflictDestDB(plan, live, n)
        \/ \E m \in live : /\ plan[m].destUser = plan[n].destUser
                           /\ plan[m].pass # plan[n].pass
                           /\ NoPass \notin {plan[m].pass, plan[n].pass}}

\* The items that collide, by their position in the plan.
ValidatePlan(plan, live) ==
    {n \in live : ConflictDestDB(plan, live, n) \/ ConflictDestUser(plan, live, n)}

validateDestName(name, m) ==
    /\ m.dest = NoPrefix \/ HasPrefix(name, m.dest)
    /\ Len(name) <= MaxName

ValidateDestNameLimits(inv, plan, live) ==
    IF inv.dest = Unknown THEN {}
    ELSE {n \in live : ~ /\ validateDestName(plan[n].destDB, dbNameMapping(inv))
                         /\ validateDestName(plan[n].destUser, dbNameMapping(inv))}
=============================================================================
