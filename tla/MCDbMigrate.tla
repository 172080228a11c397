---------------------------- MODULE MCDbMigrate -----------------------------
(***************************************************************************)
(* Small inventories for DbMigrate: two databases each, and between them   *)
(* every reason to refuse, skip, fail or doubt one.                        *)
(***************************************************************************)
EXTENDS DbMigrate, TLC

A == <<"s_", "a">>
B == <<"s_", "b">>
U == <<"s_", "u">>

Cred(db, user, p, c)          == [db |-> db, user |-> user, pass |-> IF p = NoPass THEN p ELSE <<p>>, config |-> c]
Site(fate, supported, local, trap) ==
    [fate |-> fate, supported |-> supported, local |-> local, trap |-> trap]
Plain == Site("ok", TRUE, TRUE, "none")

Inventory(dbs, sites, src, dst, c1, c2, foreign) ==
    [dbs |-> dbs, creds |-> sites, src |-> src, dest |-> dst,
     grantee |-> [d \in Range(dbs) |-> IF d = B THEN U ELSE Nobody],
     override |-> [d \in Range(dbs) |-> [user |-> Nobody, pass |-> NoPass]],
     site |-> [c \in {"c1", "c2"} |-> IF c = "c1" THEN c1 ELSE c2],
     foreign |-> foreign]

\* One user with one password for both; the second config has a value elsewhere.
Shared == Inventory(<<A, B>>, <<Cred(A, U, "p1", "c1"), Cred(B, U, "p1", "c2")>>,
                    "s_", "d_", Plain, Site("ok", TRUE, TRUE, "stale"), FALSE)
\* A restored database already bears the destination's prefix.
Collision == Inventory(<< <<"d_", "a">>, A >>, <<Cred(A, U, "p1", "c1")>>,
                       "s_", "d_", Plain, Plain, FALSE)
\* The user of an orphan is also the user of a site.
Orphan == Inventory(<<A, B>>, <<Cred(A, U, "p1", "c1"), Cred(A, U, "p1", "c2")>>,
                    "s_", "d_", Plain, Site("ok", TRUE, FALSE, "none"), FALSE)
\* A failed domain; an unresolved config beside a credential of the registry.
Domains == Inventory(<<A, B>>, <<Cred(A, U, "p1", "c1"), Cred(B, Nobody, NoPass, "c2"),
                                 Cred(B, B, "p2", Registry)>>,
                     "s_", "d_", Site("failed", TRUE, TRUE, "none"),
                     Site("unresolved", TRUE, TRUE, "none"), FALSE)
\* No restrictions are known; host.yaml has the password of an ambiguous site.
Guessed == [Inventory(<<A, B>>, <<Cred(A, U, "p1", "c1"), Cred(B, B, "p2", "c2")>>,
                      Unknown, Unknown, Site("type_issue", TRUE, TRUE, "none"),
                      Site("ok", TRUE, TRUE, "ambiguous"), TRUE)
            EXCEPT !.override[B].pass = <<"p3">>]
\* Orphans only, one with a name that becomes too long.
Long == Inventory(<< <<"x", "y">>, <<"z">> >>, << >>, NoPrefix, "d_", Plain, Plain, FALSE)
\* The name of A's database is also that of one whose site fails, and whose
\* user is that of B.
Yielded == Inventory(<< <<"d_", "a">>, A, B >>, <<Cred(<<"d_", "a">>, U, "p1", "c1")>>,
                     "s_", "d_", Site("failed", TRUE, TRUE, "none"), Plain, FALSE)
\* A kind that nobody rewrites.
Unsupported == Inventory(<<A>>, <<Cred(A, A, "p1", "c1"), Cred(A, A, "p1", "c2")>>,
                         "s_", "d_", Plain, Site("ok", FALSE, TRUE, "none"), TRUE)

MCInventories == {Shared, Collision, Orphan, Domains, Guessed, Long, Yielded, Unsupported}
MCGenerated   == [d \in UNION {Range(v.dbs) : v \in MCInventories} |-> d]
\* Version 2 of a table has other rows, as many; 3 has more; 4 has the rows of
\* 1 under another definition.  Of an object, 2 differs in what its hash leaves
\* out, 3 in its body.
MCRows        == <<1, 1, 2, 1>>
MCColl        == <<1, 1, 2, 1>>
MCData        == <<1, 2, 3, 1>>
MCBody        == <<1, 1, 2, 1>>
MCSource      == {[x \in {"t", "v"} |-> 1]}
MCWrites      == {[item |-> "t", version |-> 0], [item |-> "t", version |-> 2],
                  [item |-> "t", version |-> 3], [item |-> "t", version |-> 4],
                  [item |-> "v", version |-> 2], [item |-> "v", version |-> 3]}
MCOldDest     == [x \in {"t", "v"} |-> 3]
=============================================================================
