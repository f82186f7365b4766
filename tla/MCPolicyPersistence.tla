------------------------- MODULE MCPolicyPersistence -------------------------
(* Instances of PolicyPersistence: p and q hold the rule on browsers, and   *)
(* the policy of config.toml gets it at the first start.                    *)
EXTENDS PolicyPersistence

CONSTANTS p, q, shipped, shippedWithRule

MCPolicies == {p, q, shipped, shippedWithRule}
MCWithBrowserRule == [x \in MCPolicies |-> IF x = shipped THEN shippedWithRule ELSE x]
=============================================================================
