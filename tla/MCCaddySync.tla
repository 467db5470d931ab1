---------------------------- MODULE MCCaddySync ----------------------------
(***************************************************************************)
(* Instance of CaddySync for TLC: one route and one rate limit exist, two  *)
(* calls change them or the route next to it, the synchronisation can be   *)
(* asked for at any time.  An update may make a route green, creation must *)
(* not.                                                                    *)
(***************************************************************************)
EXTENDS CaddySync, TLC

CONSTANTS c1, c2, home, shop, limit, blue, green

Request(kind, table, name, on, to) ==
  [kind |-> kind, table |-> table, name |-> name, on |-> on, to |-> to]

MCRequests == c1 :> {
    Request("delete", "routes", home, FALSE, blue),
    Request("update", "routes", home, TRUE, green),
    Request("toggle", "routes", home, TRUE, blue),
    Request("toggle", "limits", limit, FALSE, blue)}
  @@ c2 :> {
    Request("create", "routes", home, TRUE, blue),
    Request("create", "limits", shop, TRUE, green),
    Request("create", "routes", shop, FALSE, blue),
    Request("toggle", "routes", home, FALSE, blue),
    Request("delete", "routes", home, FALSE, blue),
    Request("delete", "limits", limit, FALSE, blue),
    Request("create", "limits", shop, FALSE, blue)}

MCInitial == [t \in Tables |->
  {[id |-> 0, name |-> IF t = "routes" THEN home ELSE limit, on |-> TRUE, to |-> blue]}]
=============================================================================
