----------------------------- MODULE MCServices -----------------------------
(***************************************************************************)
(* Instance of Services for TLC: what the cfg cannot spell out.            *)
(***************************************************************************)
EXTENDS Services

\* The third item belongs to another tenant than the first two.
MCTenantOf == [i \in Items |-> IF i = "i3" THEN "t2" ELSE "t1"]

\* The second object is above the clearance.
MCLevelOf == [o \in Published |-> IF o = "o1" THEN 0 ELSE 2]

\* A pack with a required source, and one without it and without its metric.
FullPack ==
    [domains |-> {"mobile"}, metrics |-> {"churn"}, entities |-> {}, concepts |-> {},
     categories |-> {"weather"}, excluded |-> {"sports"},
     rules |-> {[allowed |-> TRUE, category |-> "weather", anchors |-> {"churn"},
                 terms |-> {"outage"}]},
     sources |-> {[id |-> "feed", required |-> TRUE, partitions |-> {"current_memory"}]}]
BarePack == [FullPack EXCEPT !.metrics = {}, !.sources = {}]

\* Two memories of the tenant, one above the lower clearance, and a foreign one.
MCFacts ==
    [m \in {"m1", "m2", "m3"} |->
       [tenant |-> IF m = "m3" THEN "other" ELSE "ours", level |-> IF m = "m2" THEN 1 ELSE 0,
        allowed |-> {}, denied |-> {}, started |-> TRUE, ended |-> FALSE,
        domain |-> "mobile", metrics |-> {"churn"}, entities |-> {},
        type |-> "policy", text |-> {"churn", "mobile"}]]

MCPacks == {FullPack, BarePack}

MCQuestions == {{"churn"}, {"weather", "churn"}, {"sports"}, {"mobile"}, {"weather", "outage"}}

MCPrincipals == {[tenant |-> "ours", clearance |-> c, roles |-> {"consumer"}] : c \in {0, 1}}

=============================================================================
