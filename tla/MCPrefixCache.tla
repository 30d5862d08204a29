---------------------------- MODULE MCPrefixCache ----------------------------
(* Instance of PrefixCache: a system token s, a user token u with an idle   *)
(* expiry, and a conversation of two requests.                            *)
EXTENDS PrefixCache

RoleOfDef == [t \in {"s", "u"} |-> t]
TierDef == [t \in {"s", "u"} |-> IF t = "s" THEN 9 ELSE 1]
RequestsDef == << [prompt |-> <<"s", "u">>, full |-> <<"s", "u", "u">>],
                  [prompt |-> <<"s", "u", "u">>, full |-> <<"s", "u", "u", "u">>] >>
=============================================================================
