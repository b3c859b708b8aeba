---------------------------- MODULE AbstractSilo ----------------------------
(***************************************************************************)
(* What the silo promises its callers (spec.md sections 3 and 4.8),       *)
(* without buckets or indices: the live resources, by id.                 *)
(*   Insert stores a resource under a fresh id when none of its unique    *)
(*   values is taken by a live resource of its type (compared by the      *)
(*   attribute's caseExact) and every member of a group names a live      *)
(*   resource (of the "$ref" type when one is given); every member then   *)
(*   lists the new group in its groups.                                    *)
(*   Remove deletes a live resource.                                       *)
(* A failed operation changes nothing and is a stuttering step.           *)
(***************************************************************************)
EXTENDS FiniteSets

CONSTANTS ResTypes, Attrs, Vals, Rids, Lower, CaseExact, UniqueAts, NoRef

VARIABLES
  resources,  \* the live resources: a function from their ids
  issued      \* the ids handed out so far

Member   == [value : Rids, ref : ResTypes \cup {NoRef}]
Resource == [rt : ResTypes, at : [Attrs -> SUBSET Vals],
             members : SUBSET Member, groups : SUBSET Rids]

Live(r) == r \in DOMAIN resources

(* Two values of attribute a are the same value for uniqueness.          *)
Same(a, v, w) == IF CaseExact[a] THEN v = w ELSE Lower[v] = Lower[w]

Taken(in) ==
  \E a \in UniqueAts[in.rt] : \E v \in in.at[a] : \E r \in DOMAIN resources :
    resources[r].rt = in.rt /\ \E w \in resources[r].at[a] : Same(a, v, w)

MemberOk(m) == Live(m.value) /\ (m.ref # NoRef => resources[m.value].rt = m.ref)

Init == resources = <<>> /\ issued = {}

(* The stored resource is the one inserted; naming it resources'[rid]    *)
(* rather than quantifying over all resources keeps the action checkable. *)
Insert(rid) ==
  LET in      == resources'[rid]
      targets == {m.value : m \in in.members}
  IN
  /\ rid \notin issued
  /\ DOMAIN resources' = DOMAIN resources \cup {rid}
  /\ in \in Resource
  /\ ~Taken(in)
  /\ \A m \in in.members : MemberOk(m)
  /\ \A r \in DOMAIN resources :
       resources'[r] = IF r \in targets
                         THEN [resources[r] EXCEPT !.groups = @ \cup {rid}]
                         ELSE resources[r]
  /\ issued' = issued \cup {rid}

Remove(rid) ==
  /\ Live(rid)
  /\ resources' = [r \in DOMAIN resources \ {rid} |-> resources[r]]
  /\ UNCHANGED issued

Next == \E rid \in Rids : Insert(rid) \/ Remove(rid)

Spec == Init /\ [][Next]_<<resources, issued>>

=============================================================================
