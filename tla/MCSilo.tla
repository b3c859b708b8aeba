------------------------------- MODULE MCSilo -------------------------------
(***************************************************************************)
(* Model-checking instance of Silo: a User type with a unique singular    *)
(* userName and an indexed multi-valued emails, a Group type with a       *)
(* singular displayName and members, three resource ids, and values that  *)
(* differ only by case ("a", "A") so that case folding is exercised.      *)
(***************************************************************************)
EXTENDS Silo, TLC

MCVals  == {"a", "A", "b", "a_count"}
MCAttrs == {"username", "emails", "displayname"}
(* Two values that differ only by case, for the refinement run.        *)
MCValsCase == {"a", "A"}
MCLower == [k \in Vals \cup Attrs |-> IF k = "A" THEN "a" ELSE k]
(* The count key of "a" (and of "A") is "a_count", the key of the value  *)
(* "a_count".                                                             *)
MCCountKeyClash == {<<"a", "a_count">>}

MCSchema == [rt \in {"User", "Group"} |->
               IF rt = "User" THEN {"username", "emails"} ELSE {"displayname"}]
MCMultiValued == [a \in Attrs |-> a = "emails"]
MCCaseExact   == [a \in Attrs |-> FALSE]
MCUniqueAts   == [rt \in {"User", "Group"} |->
                    IF rt = "User" THEN {"username"} ELSE {}]
MCIndexFields == [rt \in {"User", "Group"} |->
                    IF rt = "User" THEN {"emails"} ELSE {}]

(* Variants used by the runs that show what the code does in other       *)
(* configurations.                                                        *)
(* A non-unique singular attribute configured as an index field.         *)
MCIndexFieldsGroupName == [rt \in {"User", "Group"} |->
                    IF rt = "User" THEN {"emails"} ELSE {"displayname"}]
(* A configuration without index fields: only the unique attributes are  *)
(* indexed.                                                               *)
MCNoIndexFields == [rt \in {"User", "Group"} |-> {}]
(* Restarts with the configuration unchanged, or with emails no longer   *)
(* or again an index field.                                               *)
MCConfigsSame    == {MCIndexFields}
MCConfigsChanged == {MCIndexFields, MCNoIndexFields}
MCConfigsGroupName == {MCIndexFieldsGroupName}
(* A multi-valued attribute (emails) declared unique.                    *)
MCUniqueEmails == [rt \in {"User", "Group"} |->
                    IF rt = "User" THEN {"username", "emails"} ELSE {}]
(* A case-exact multi-valued indexed attribute.                           *)
MCCaseExactEmails == [a \in Attrs |-> a = "emails"]

(* A dateTime attribute of User, and a restart that makes it an index    *)
(* field.                                                                 *)
MCAttrsDt == MCAttrs \cup {"lastlogin"}
MCDateTimeAts == {"lastlogin"}
MCSchemaDt == [rt \in {"User", "Group"} |->
                 IF rt = "User" THEN {"username", "emails", "lastlogin"} ELSE {"displayname"}]
MCIndexFieldsDt == [rt \in {"User", "Group"} |->
                      IF rt = "User" THEN {"emails", "lastlogin"} ELSE {}]
MCConfigsDt == {MCIndexFields, MCIndexFieldsDt}
MCConfigsChangedDt == {MCIndexFieldsDt, MCNoIndexFields}

MCSymmetry == Permutations(Rids)
=============================================================================
