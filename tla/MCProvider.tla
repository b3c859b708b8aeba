----------------------------- MODULE MCProvider -----------------------------
(***************************************************************************)
(* Model-checking instance of Provider: the User and Group types of       *)
(* MCSilo (a unique userName, an indexed emails, a group displayName),    *)
(* the values of the two templates, and four resource ids, enough for a  *)
(* group insert on every start and the one admin user.                    *)
(***************************************************************************)
EXTENDS Provider, TLC

MCVals  == {"admin", "admin@d", "Administrators"}
MCAttrs == {"username", "emails", "displayname"}
MCLower == [k \in MCVals \cup MCAttrs |-> k]

MCSchema == [rt \in {"User", "Group"} |->
               IF rt = "User" THEN {"username", "emails"} ELSE {"displayname"}]
MCMultiValued == [a \in MCAttrs |-> a = "emails"]
MCCaseExact   == [a \in MCAttrs |-> FALSE]
MCUniqueAts   == [rt \in {"User", "Group"} |->
                    IF rt = "User" THEN {"username"} ELSE {}]
MCIndexFields == [rt \in {"User", "Group"} |->
                    IF rt = "User" THEN {"emails"} ELSE {}]
MCConfigs == {MCIndexFields}

=============================================================================
