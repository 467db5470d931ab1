----------------------------- MODULE MCDocsNav -----------------------------
(***************************************************************************)
(* Instance of DocsNav for TLC: one tab visits every page under docs/, one *)
(* stays on the home page, one has no storage.                             *)
(***************************************************************************)
EXTENDS DocsNav, TLC

CONSTANTS t1, t2, t3

\* Pages whose table of contents plays no role, and one with an entry without a section
\* and two with one.
Page(file, id) == [file |-> file, id |-> id, toc |-> <<>>, layouts |-> {<<>>}]
Home == Page("index.html", "home")
Sections ==
  [file |-> "caddy.html", id |-> "caddy", toc |-> <<"s1", "gone", "s2">>,
   layouts |-> {"s1" :> 1 @@ "s2" :> 3, "s1" :> 2 @@ "s2" :> 4}]
AllPages ==
  {Page("adminops-ui.html", "adminops"), Page("api-reference.html", "api-reference"),
   Page("architecture.html", "architecture"),
   Page("cli.html", "cli"), Page("concepts.html", "concepts"),
   Page("data-model.html", "data-model"), Page("deployment.html", "deployment"),
   Page("logging.html", "logging"), Page("python-api.html", "python-api"),
   Page("quickstart.html", "quickstart"), Page("registry-health.html", "registry"),
   Page("service-controllersrv.html", "controllersrv"),
   Page("service-infrasrv.html", "infrasrv"), Page("service-opsbffsrv.html", "opsbffsrv"),
   Page("workflow-api.html", "wf-api"), Page("workflow-concepts.html", "wf-concepts"),
   Page("workflow-nodes.html", "wf-nodes"),
   Page("workflow-scheduling.html", "wf-scheduling")}
  \cup {Home, Sections}

MCVisits == t1 :> AllPages @@ t2 :> {Home} @@ t3 :> {Home}
=============================================================================
