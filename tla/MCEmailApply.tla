---------------------------- MODULE MCEmailApply ----------------------------
(* Two forwarders of one address and one of another, a default address, an  *)
(* autoresponder, a filter and a routing.                                   *)
EXTENDS EmailApply

MCSection == <<"forwarders", "forwarders", "forwarders", "default_address",
               "autoresponders", "filters", "routing">>
MCAddress == <<"info@", "info@", "jobs@", "", "", "", "">>

MCSourceStates == {<<"on", "on", Absent, "info", "a", "b", "remote">>,
                   <<"on", "on", "on", "own", "a", "multi", "local">>}
MCDestStates   == {<<Absent, Absent, Absent, "fail", Absent, Absent, "local">>,
                   <<Absent, "on", Absent, "sales", "b", Absent, "local">>}

\* The two addresses are of different domains.
MCListings == {{1, 2}, {3}, {5}, {6}}

MCOwnerEdits == {<<1, "on">>, <<4, "fail_it">>, <<4, "sales">>, <<5, "b">>, <<5, Absent>>,
                 <<6, "a">>, <<7, "auto">>, <<7, "local">>, <<4, Absent>>}
=============================================================================
