------------------------------ MODULE MCApply -------------------------------
EXTENDS Apply

\* Two messages in the inbox and one in another folder with the base ID of
\* the first.
MCMsgs == {<<"INBOX", 1>>, <<"INBOX", 2>>, <<"Sent", 1>>}
MCInbox == "INBOX"

Box(files, uids) ==
    [root |-> "ok",
     file |-> [x \in Files |-> IF x \in DOMAIN files THEN files[x] ELSE "none"],
     uid  |-> [f \in Folders |-> IF f \in DOMAIN uids THEN uids[f] ELSE "none"]]

All(files, body) == [x \in files |-> body]

a == <<<<"INBOX", 1>>, "new">>
A == <<<<"INBOX", 1>>, "cur">>
b == <<<<"INBOX", 2>>, "new">>
B == <<<<"INBOX", 2>>, "cur">>
s == <<<<"Sent", 1>>, "cur">>
Both(u) == [f \in {"INBOX", "Sent"} |-> u]
InboxOnly(u) == [f \in {"INBOX"} |-> u]

MCSrcBoxes == {Box(All({a, s}, "whole"), Both("s")),
               Box(All({A, b}, "whole"), InboxOnly("s")),
               Box(All({b}, "whole"), <<>>),
               Box(<<>>, InboxOnly("s"))}

\* Nothing; messages with other flags or only here; one of the source's
\* messages; a torn file; the source's numbering with other messages.
MCDestBoxes == {Box(<<>>, <<>>),
                Box(All({A, B}, "whole"), InboxOnly("d")),
                Box(All({A}, "whole"), InboxOnly("s")),
                Box(All({a}, "torn"), Both("s")),
                Box(All({B, s}, "whole"), Both("s"))}

Options == {o \in AllOptions : o.mode = "delta" \/ o.check = "default"}
Plain == [mode |-> "delta", check |-> "default", entry |-> "ok"]
Addon == [kind |-> "addon", inventory |-> TRUE, label |-> "free", others |-> FALSE]

\* The destination has the domain: every mailbox with every tier and mode; an
\* account that is missing is made alike in all of them.
MailStarts == {x \in [src : MCSrcBoxes, dest : MCDestBoxes, account : BOOLEAN, facts : {Addon},
                      hosted : {TRUE}, tokens : {{}}, opts : {o \in Options : o.entry = "ok"}]
                 : x.account \/ x.opts = Plain}

\* Every domain, and every entry of the inventory, with a mailbox that is
\* absent on the destination.
DomainStarts == [src : {Box(All({a, s}, "whole"), Both("s"))}, dest : {Box(<<>>, <<>>)},
                 account : {FALSE}, facts : DomainFacts, hosted : BOOLEAN,
                 tokens : {{"old"}}, opts : {Plain}]
EntryStarts == [src : {Box(All({a, s}, "whole"), Both("s"))}, dest : {Box(<<>>, <<>>)},
                account : {FALSE}, facts : {Addon}, hosted : BOOLEAN, tokens : {{}},
                opts : {[Plain EXCEPT !.entry = e] : e \in {"nohash", "ambiguous"}}]

MCStarts == MailStarts \cup DomainStarts \cup EntryStarts

MCWords == {"public_html", "cgi-bin", "odd", "main", "addon", "index", "new", "link", "folder"}

\* The main domain's docroot and an addon's.  Names sort in either order.
Home(w) == <<Name(w)>>
In(root, w) == Append(root, Name(w))
Main(to, t) == [from |-> Public, to |-> to, st |-> "main", dt |-> t, ct |-> t, twins |-> "none"]
Sub(from, to) == [from |-> from, to |-> to, st |-> "addon", dt |-> "addon", ct |-> "addon", twins |-> "none"]

Site(x, addon) == (In(Public, "index") :> "v1") @@ (In(Public, "cgi-bin") :> "v1")
                    @@ [p \in {x \o r : r \in DOMAIN addon} |-> addon[Rel(x, p)]]

\* What an addon's docroot may hold: a file and a link, empty directories, nothing.
Pages == {(Home("index") :> "v1") @@ (Home("link") :> "link"),
          Home("folder") :> "dir", <<>> :> "dir"}
OddPages == (Home("index") :> "v1") @@ (<<Odd>> :> "v1")

A1 == In(Public, "addon")
Old == (In(Public, "index") :> "v2") @@ (In(A1, "index") :> "v2") @@ (In(A1, "cgi-bin") :> "v2")
New == Public :> "dir"

Start(items, which, from, addon, old, o) ==
    [items |-> items, which |-> which, site |-> Site(from, addon), live |-> old,
     facts |-> Addon, hosted |-> o.hosted, deep |-> o.deep, big |-> o.big, huge |-> o.huge, tools |-> o.tools]

Default == [hosted |-> TRUE, deep |-> FALSE, big |-> FALSE, huge |-> FALSE, tools |-> TRUE]
Tiers == [hosted : {TRUE}, deep : BOOLEAN, big : BOOLEAN, huge : BOOLEAN, tools : BOOLEAN]

\* The account rebuilt one to one; addons that move into public_html; the main
\* domain that becomes an addon.
Layouts == {<<Main(Public, "main"), Sub(A1, A1)>>,
            <<Main(Public, "main"), Sub(Home("addon"), A1)>>,
            <<Main(In(Public, "main"), "addon"), Sub(A1, A1)>>}

Good == {Start(IF first THEN l ELSE <<l[2], l[1]>>, IF first THEN 2 ELSE 1, l[2].from, pages, old, Default)
           : l \in Layouts, pages \in Pages, old \in {Old, New}, first \in BOOLEAN}

\* Domains that are refused, each beside one that is not.
S1 == Sub(A1, A1)
Refused == {[S1 EXCEPT !.to = Public], [S1 EXCEPT !.to = Home("addon")],
            [S1 EXCEPT !.to = In(Public, "main")],
            [S1 EXCEPT !.dt = "parked"], [S1 EXCEPT !.ct = "other"], [S1 EXCEPT !.to = <<>>],
            [S1 EXCEPT !.to = <<>>, !.twins = "docroots"], [S1 EXCEPT !.to = <<>>, !.twins = "domains"]}
Bad == {Start(<<it, Main(In(Public, "main"), "addon")>>, 1, A1, (Home("index") :> "v1"), Old, Default) : it \in Refused}
         \cup {Start(<<S1, Main(In(Public, "main"), "addon")>>, 1, A1, OddPages, Old, Default)}

\* The tiers of the verification, and a domain that must be created.
Tiered == {Start(<<Sub(Home("addon"), A1)>>, 1, Home("addon"), (Home("index") :> "v1"), New, o) : o \in Tiers}
Absentee == {Start(<<Sub(Home("addon"), A1)>>, 1, Home("addon"), (Home("index") :> "v1"), New,
                   [Default EXCEPT !.hosted = FALSE])}

\* A docroot inside another one, both without a file on the source.
A2 == In(A1, "folder")
Nested == <<Sub(Home("addon"), A1), Sub(Home("main"), A2)>>
Bare == {Start(IF first THEN Nested ELSE <<Nested[2], Nested[1]>>, 1, Home("addon"),
               In(<<>>, "index") :> "dir", (In(A1, "index") :> "v1") @@ (In(A2, "index") :> "v1"), Default)
           : first \in BOOLEAN}

MCWebStarts == Good \cup Bad \cup Tiered \cup Absentee \cup
    {[s0 EXCEPT !.site = @ @@ (Home("main") :> "dir")] : s0 \in Bare}
=============================================================================
