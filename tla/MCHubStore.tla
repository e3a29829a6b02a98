----------------------------- MODULE MCHubStore -----------------------------
(* Instances of HubStore for TLC.                                          *)
EXTENDS HubStore, TLC

CONSTANTS n1, n2, g1, g2, g3

\* One resource to begin with, of each kind; "users" is not a kind.
Stocked == [k \in {"skills", "skillcollections", "agentruns", "users"} |->
    CASE k = "skills" -> <<[name |-> n1, spec |-> {"inline"}]>>
      [] k = "skillcollections" -> <<[name |-> n1, spec |-> {"skills", "members"}]>>
      [] k = "agentruns" -> <<[name |-> n1, spec |-> {}]>>
      [] k = "users" -> <<>>]

Message(method, path, json, as, generate, spec) ==
    [method |-> method, path |-> path, json |-> json, as |-> as,
     generate |-> generate, spec |-> spec]

Bare(method, path) == Message(method, path, "object", NoName, FALSE, NoSpec)

Asked ==
    {Bare("GET", NoName), Bare("GET", n1), Bare("DELETE", n1), Bare("PUT", n1),
     Message("PUT", n1, "null", NoName, FALSE, NoSpec),
     Message("PUT", n1, "broken", NoName, FALSE, NoSpec),
     Message("PUT", n2, "object", NoName, FALSE, {"inline", "image"}),
     Message("PUT", n2, "object", NoName, FALSE, {"image"}),
     Message("POST", NoName, "object", n2, TRUE, {"image"}),
     Message("POST", NoName, "object", NoName, TRUE, {"image"}),
     Message("POST", NoName, "object", g1, FALSE, {"skills"}),
     Message("POST", NoName, "null", NoName, FALSE, NoSpec)}
=============================================================================
