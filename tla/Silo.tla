-------------------------------- MODULE Silo --------------------------------
(***************************************************************************)
(* The silo (src/scim/silo/silo.go): resources of several resource types  *)
(* stored in bolt buckets, a secondary index per configured or unique     *)
(* attribute, a presence index per resource type, and the group -> member *)
(* back-references written by Insert.                                      *)
(*                                                                         *)
(* Every mutating operation of the code runs in one bolt write            *)
(* transaction, and bolt admits one writer at a time, so each operation  *)
(* is one atomic action here.  An operation that fails rolls back and     *)
(* leaves the committed state as it was.                                  *)
(*                                                                         *)
(* A resource is a record: its type, its simple attribute values (a set  *)
(* per attribute; a singular attribute has at most one), the members of  *)
(* a group and the group back-references of a member.                     *)
(***************************************************************************)
EXTENDS Integers, FiniteSets, FiniteSetsExt

CONSTANTS
  ResTypes,      \* names of the configured resource types
  Attrs,         \* simple attribute names (already lower case)
  Vals,          \* attribute values
  Rids,          \* the ids utils.GenUUID may return
  Lower,         \* strings.ToLower on Vals \cup Attrs
  CountKeyClash, \* the keys whose bytes are another key's "_count" key
  Schema,        \* [ResTypes -> SUBSET Attrs]: the attributes of a type
  MultiValued,   \* [Attrs -> BOOLEAN]
  CaseExact,     \* [Attrs -> BOOLEAN]
  DateTimeAts,   \* the attributes of type dateTime
  UniqueAts,     \* [ResTypes -> SUBSET Attrs]: ResourceType.UniqueAts
  IndexFields,   \* [ResTypes -> SUBSET Attrs]: ResourceConf.IndexFields
  NoRef,         \* a member without a "$ref" sub-attribute
  NoRes,         \* an absent row of a resource bucket
  NoRid,         \* no resource id
  MaxMembers,    \* bound on the members of one inserted group
  CommitMayFail, \* whether tx.Commit may fail (I/O error)
  Configs        \* the IndexFields configurations the silo may be reopened with

ASSUME "Group" \in ResTypes
ASSUME \A rt \in ResTypes : UniqueAts[rt] \cup IndexFields[rt] \subseteq Schema[rt]
ASSUME IndexFields \in Configs
ASSUME DateTimeAts \subseteq Attrs
ASSUME \A c \in Configs : \A rt \in ResTypes : c[rt] \subseteq Schema[rt]

Ix == INSTANCE SiloIndex

(* The name of the presence system index (createIndexBucket "presence"). *)
Presence == "presence"
IdxNames == Attrs \cup {Presence}

RefVals == ResTypes \cup {NoRef}
Member  == [value : Rids, ref : RefVals]
Resource == [rt : ResTypes, at : [Attrs -> SUBSET Vals],
             members : SUBSET Member, groups : SUBSET Rids]

Errors == {"nil", "uniqueness", "nilAttr", "incompatible", "datetime",
           "refNotFound", "notFound"}

VARIABLES
  store,   \* the resource buckets: rid -> resource or NoRes
  idx,     \* idx[rt][name]: the index buckets of each resource type
  used,    \* the ids already handed out by GenUUID and committed
  resp,    \* the last operation and the result it returned to its caller
  fields   \* the IndexFields of the configuration the silo was opened with

vars == <<store, idx, used, resp, fields>>

(* Open: the indices of a resource type (sl.indices) are the index       *)
(* fields of its configuration and its unique attributes; AllowDupKey    *)
(* follows the attribute's multiValued.                                   *)
Indexed(rt) == fields[rt] \cup UniqueAts[rt]
Conf(a) == [dup |-> MultiValued[a], caseSensitive |-> CaseExact[a]]
(* The presence index is a virtual multi-valued case-insensitive string. *)
PresenceConf == [dup |-> TRUE, caseSensitive |-> FALSE]

Live(r) == store[r] # NoRes
LiveOf(rt) == {r \in Rids : Live(r) /\ store[r].rt = rt}

TypeOK ==
  /\ store \in [Rids -> Resource \cup {NoRes}]
  /\ idx \in [ResTypes -> [IdxNames -> Ix!IndexState]]
  /\ used \subseteq Rids
  /\ resp \in [op : {"none", "insert", "remove"}, rid : Rids \cup {NoRid},
               err : Errors]
  /\ fields \in [ResTypes -> SUBSET Attrs]

Init ==
  /\ store = [r \in Rids |-> NoRes]
  /\ idx = [rt \in ResTypes |-> [n \in IdxNames |-> Ix!EmptyIndex]]
  /\ used = {}
  /\ resp = [op |-> "none", rid |-> NoRid, err |-> "nil"]
  /\ fields = IndexFields

-----------------------------------------------------------------------------
(* The requests a caller can hand to Insert: attributes of the type only, *)
(* a singular attribute with at most one value, members only on a group, *)
(* groups stripped by RemoveReadOnlyAt.                                   *)
InputRes(rt) ==
  {[rt |-> rt, at |-> f, members |-> m, groups |-> {}] :
     f \in {g \in [Attrs -> SUBSET Vals] :
              \A a \in Attrs : /\ a \notin Schema[rt] => g[a] = {}
                               /\ ~MultiValued[a] => Cardinality(g[a]) <= 1},
     m \in IF rt = "Group"
             THEN {s \in SUBSET Member : Cardinality(s) <= MaxMembers}
             ELSE {{}}}

(* Insert's uniqueness check: some value of a unique simple attribute is *)
(* already in that attribute's index.                                     *)
UniqueClash(in) ==
  \E a \in UniqueAts[in.rt] : \E v \in in.at[a] :
     Ix!HasVal(idx[in.rt][a], Conf(a), v)

(* Index maintenance of Insert for resource rid: every value of every   *)
(* indexed attribute that is present, then the attribute's name in the  *)
(* presence index; Adds(ixs, res, rid)[n].ok is FALSE when an add to n   *)
(* fails.                                                                  *)
Adds(ixs, res, rid) ==
  LET rt == res.rt
      present == {a \in Indexed(rt) : res.at[a] # {}}
  IN  [n \in IdxNames |->
         IF n = Presence THEN Ix!IdxAddAll(ixs[n], PresenceConf, present, rid)
         ELSE IF n \in Indexed(rt) THEN Ix!IdxAddAll(ixs[n], Conf(n), res.at[n], rid)
         ELSE [ix |-> ixs[n], ok |-> TRUE]]

AddToIndices(ixs, res, rid) == [n \in IdxNames |-> Adds(ixs, res, rid)[n].ix]

(* Some Index.add of Insert returns an error, which Insert panics with.  *)
AddFails(in, rid) == \E n \in IdxNames : ~Adds(idx[in.rt], in, rid)[n].ok

(* Index.convert panics on a datetime-typed index ("Yet to support      *)
(* converting datetime"): HasVal, add and remove all call it, so any     *)
(* value of an indexed dateTime attribute makes the operation panic.     *)
ConvertPanics(res) == \E a \in Indexed(res.rt) \cap DateTimeAts : res.at[a] # {}

(* Remove's index maintenance: every value of every indexed attribute;  *)
(* the presence index is left as it is.                                   *)
RemoveFromIndices(ixs, res, rid) ==
  [n \in IdxNames |->
     IF n \in Indexed(res.rt)
       THEN FoldSet(LAMBDA v, ix : Ix!IdxRemove(ix, Conf(n), v, rid),
                    ixs[n], res.at[n])
       ELSE ixs[n]]

(* Insert of a group resolves each member through Get on the committed   *)
(* snapshot, in the bucket of the member's "$ref" type, "Group" when the *)
(* member has no "$ref".                                                  *)
(* Mutant: Get finds the member whatever bucket it is in.              *)
ResolvesAnyType(m) == Live(m.value)

RefType(m) == IF m.ref = NoRef THEN "Group" ELSE m.ref
Resolves(m) == Live(m.value) /\ store[m.value].rt = RefType(m)

(* The committed state after a successful Insert of in as rid: the row  *)
(* of in, and a groups back-reference to rid in every member target.     *)
InsertedStore(in, rid) ==
  LET targets == IF in.rt = "Group" THEN {m.value : m \in in.members} ELSE {}
  IN  [r \in Rids |->
         IF r = rid THEN in
         ELSE IF r \in targets
           THEN [store[r] EXCEPT !.groups = @ \cup {rid}]
         ELSE store[r]]

(* The uniqueness loop calls IsSimple on GetAttr(name) without the nil   *)
(* check the index loop has: a request without a unique attribute panics *)
(* there and the panic is recovered as Insert's error.                    *)
MissingUnique(in) == \E a \in UniqueAts[in.rt] : in.at[a] = {}

Insert(rid, in) ==
  LET rt == in.rt IN
  /\ rid \notin used
  /\ UNCHANGED fields
  /\ \/ /\ MissingUnique(in)
        /\ resp' = [op |-> "insert", rid |-> rid, err |-> "nilAttr"]
        /\ UNCHANGED <<store, idx, used>>
     \/ /\ UniqueClash(in)
        /\ resp' = [op |-> "insert", rid |-> rid, err |-> "uniqueness"]
        /\ UNCHANGED <<store, idx, used>>
     \/ /\ ConvertPanics(in)
        /\ resp' = [op |-> "insert", rid |-> rid, err |-> "datetime"]
        /\ UNCHANGED <<store, idx, used>>
     \/ /\ ~MissingUnique(in) /\ ~UniqueClash(in)
        /\ AddFails(in, rid)
        /\ resp' = [op |-> "insert", rid |-> rid, err |-> "incompatible"]
        /\ UNCHANGED <<store, idx, used>>
     \/ /\ ~MissingUnique(in) /\ ~UniqueClash(in) /\ ~AddFails(in, rid)
        /\ ~ConvertPanics(in)
        /\ rt = "Group"
        /\ \E m \in in.members : ~Resolves(m)
        /\ resp' = [op |-> "insert", rid |-> rid, err |-> "refNotFound"]
        /\ UNCHANGED <<store, idx, used>>
     \/ /\ ~MissingUnique(in) /\ ~UniqueClash(in) /\ ~AddFails(in, rid)
        /\ ~ConvertPanics(in)
        /\ rt = "Group" => \A m \in in.members : Resolves(m)
        /\ resp' = [op |-> "insert", rid |-> rid, err |-> "nil"]
        /\ \/ /\ store' = InsertedStore(in, rid)
              /\ idx' = [idx EXCEPT ![rt] = AddToIndices(@, in, rid)]
              /\ used' = used \cup {rid}
           \* the error of tx.Commit is dropped in the deferred function
           \/ /\ CommitMayFail
              /\ UNCHANGED <<store, idx, used>>

(* Mutant: Remove reads the row without checking it belongs to rt.      *)
RemoveAnyType(rt, rid) ==
  /\ UNCHANGED <<used, fields>>
  /\ \/ /\ ~Live(rid)
        /\ resp' = [op |-> "remove", rid |-> rid, err |-> "notFound"]
        /\ UNCHANGED <<store, idx>>
     \/ /\ Live(rid)
        /\ resp' = [op |-> "remove", rid |-> rid, err |-> "nil"]
        /\ idx' = [idx EXCEPT ![rt] = RemoveFromIndices(@, store[rid], rid)]
        /\ store' = [store EXCEPT ![rid] = NoRes]

Remove(rt, rid) ==
  /\ UNCHANGED <<used, fields>>
  /\ \/ /\ ~(Live(rid) /\ store[rid].rt = rt)
        /\ resp' = [op |-> "remove", rid |-> rid, err |-> "notFound"]
        /\ UNCHANGED <<store, idx>>
     \* the deferred recover assigns the panic to a new local err: the
     \* transaction is rolled back and Remove returns nil
     \/ /\ Live(rid) /\ store[rid].rt = rt
        /\ ConvertPanics(store[rid])
        /\ resp' = [op |-> "remove", rid |-> rid, err |-> "nil"]
        /\ UNCHANGED <<store, idx>>
     \/ /\ Live(rid) /\ store[rid].rt = rt
        /\ ~ConvertPanics(store[rid])
        /\ resp' = [op |-> "remove", rid |-> rid, err |-> "nil"]
        /\ \/ /\ idx' = [idx EXCEPT ![rt] = RemoveFromIndices(@, store[rid], rid)]
              /\ store' = [store EXCEPT ![rid] = NoRes]
           \* the error of tx.Commit is dropped in the deferred function
           \/ /\ CommitMayFail
              /\ UNCHANGED <<store, idx>>

(* What Open's pruning transaction does to the bucket of an index that   *)
(* the new configuration no longer has: tx.DeleteBucket drops its        *)
(* contents, and its entry in "counts" stays.                             *)
Pruned(ix) == [Ix!EmptyIndex EXCEPT !.total = ix.total]

(* Mutant: the unique attributes are not appended to the index fields.  *)
ReopenNoUniqueAts(conf) ==
  /\ fields' = [rt \in ResTypes |-> conf[rt]]
  /\ \E pruned \in [ResTypes -> SUBSET Attrs] :
       /\ \A rt \in ResTypes : pruned[rt] \cap conf[rt] = {}
       /\ idx' = [rt \in ResTypes |-> [n \in IdxNames |->
                   IF n \in pruned[rt] THEN Pruned(idx[rt][n]) ELSE idx[rt][n]]]
  /\ resp' = [op |-> "none", rid |-> NoRid, err |-> "nil"]
  /\ UNCHANGED <<store, used>>

(* Close, then Open on the same file with the index fields conf.  Open   *)
(* keeps every existing bucket (CreateBucket answers ErrBucketExists),    *)
(* creates an empty bucket for a new index without filling it from the   *)
(* stored resources, and then deletes the buckets of the indices no      *)
(* longer configured, system indices excepted.  It deletes them inside   *)
(* ForEach over the "indices" bucket, which bolt leaves undefined: any    *)
(* subset of them may be deleted.  The in-memory state of the previous   *)
(* process is gone; the store and the ids handed out stay.               *)
Reopen(conf) ==
  /\ fields' = conf
  /\ \E pruned \in [ResTypes -> SUBSET Attrs] :
       /\ \A rt \in ResTypes : pruned[rt] \cap (conf[rt] \cup UniqueAts[rt]) = {}
       /\ idx' = [rt \in ResTypes |-> [n \in IdxNames |->
                   IF n \in pruned[rt] THEN Pruned(idx[rt][n]) ELSE idx[rt][n]]]
  /\ resp' = [op |-> "none", rid |-> NoRid, err |-> "nil"]
  /\ UNCHANGED <<store, used>>

Next ==
  \/ \E rt \in ResTypes : \E rid \in Rids, in \in InputRes(rt) : Insert(rid, in)
  \/ \E rt \in ResTypes, rid \in Rids : Remove(rt, rid)
  \/ \E conf \in Configs : Reopen(conf)

Spec == Init /\ [][Next]_vars

-----------------------------------------------------------------------------
(* The search executor (Silo.Search) for a filter "a eq v" on one type.  *)
(* Search itself is read-only; it is modelled as an operator on the      *)
(* committed state.  getOptimizedResults: an indexed attribute yields    *)
(* the rids stored under the value's key, any other a full scan of the   *)
(* resource bucket.  The evaluator then keeps the live rows of the type  *)
(* whose value matches, comparing by the attribute's caseExact.          *)
Matches(r, a, v) ==
  \E w \in store[r].at[a] : IF CaseExact[a] THEN w = v ELSE Lower[w] = Lower[v]

Candidates(rt, a, v) ==
  IF a \in Indexed(rt) THEN Ix!GetRids(idx[rt][a], Ix!Convert(Conf(a), v))
                       ELSE Rids

SearchResult(rt, a, v) ==
  {r \in Candidates(rt, a, v) : r \in LiveOf(rt) /\ Matches(r, a, v)}

-----------------------------------------------------------------------------
(* The <key, rid> tuples and the counts an index must hold: one tuple    *)
(* per value of the attribute in each live resource of the type.          *)
Occurrences(rt, a) == UNION {{<<r, v>> : v \in store[r].at[a]} : r \in LiveOf(rt)}

(* Every index of every type holds exactly the tuples of the live        *)
(* resources (no orphan, no missing tuple), and the counts the search     *)
(* optimizer reads, getCount for the index and keyCount for a value,      *)
(* equal the number of values they count.  Insert and Remove maintain   *)
(* them value by value through Index.add/Index.remove.                    *)
IndexConsistent ==
  \A rt \in ResTypes : \A a \in Indexed(rt) :
    LET ix == idx[rt][a]
        occ == Occurrences(rt, a)
    IN  /\ Ix!Tuples(ix) = {<<Ix!Convert(Conf(a), o[2]), o[1]>> : o \in occ}
        /\ Ix!GetCount(ix) = Cardinality(occ)
        /\ Conf(a).dup =>
             \A v \in Vals :
               Ix!KeyCount(ix, Conf(a), v) =
                 Cardinality({o \in occ : Ix!CountKey(o[2]) = Ix!CountKey(v)})

(* A search "a eq v" returns exactly the live resources of the type that *)
(* have a matching value: the index-selected candidates never miss one.  *)
SearchComplete ==
  \A rt \in ResTypes : \A a \in Schema[rt], v \in Vals :
    SearchResult(rt, a, v) = {r \in LiveOf(rt) : Matches(r, a, v)}

(* No two live resources of a type share a value (under the attribute's *)
(* caseExact) of a unique attribute: Insert's HasVal check, done inside  *)
(* the write transaction, keeps them apart.                               *)
UniqueValues ==
  \A rt \in ResTypes : \A a \in UniqueAts[rt] :
    \A r1, r2 \in LiveOf(rt) :
      r1 # r2 =>
        \A v1 \in store[r1].at[a], v2 \in store[r2].at[a] :
          Ix!Convert(Conf(a), v1) # Ix!Convert(Conf(a), v2)

(* An operation that returned no error to its caller is committed: after *)
(* Insert returned the resource its row is stored, after Remove returned *)
(* nil the row is gone.  The deferred function of Insert and Remove      *)
(* calls tx.Commit and drops its error, and Remove's recover of a panic  *)
(* rolls back without setting the error it returns.                      *)
AckedIsDurable ==
  resp.err = "nil" =>
    /\ resp.op = "insert" => Live(resp.rid)
    /\ resp.op = "remove" => ~Live(resp.rid)

(* Group members and member back-references agree (spec invariant 4):   *)
(* a live group lists a member iff the member, live, lists the group in  *)
(* its groups.  Insert writes the back-references; Remove of either side *)
(* must not leave the other pointing at a deleted resource.              *)
BackRefConsistent ==
  /\ \A g \in LiveOf("Group") : \A m \in store[g].members :
       Live(m.value) /\ g \in store[m.value].groups
  /\ \A r \in Rids : Live(r) => \A g \in store[r].groups :
       g \in LiveOf("Group") /\ r \in {m.value : m \in store[g].members}

(* The presence index of a type holds <attribute, rid> exactly for the   *)
(* live resources that have a value for that attribute: added by Insert  *)
(* and, by the spec, removed when the resource loses its last value.     *)
PresenceConsistent ==
  \A rt \in ResTypes :
    Ix!Tuples(idx[rt][Presence]) =
      UNION {{<<Ix!Convert(PresenceConf, a), r>> :
                a \in {b \in Indexed(rt) : store[r].at[b] # {}}} : r \in LiveOf(rt)}

(* Remove leaves nothing behind that still refers to the removed        *)
(* resource: neither a member or groups entry of another resource        *)
(* (BackRefConsistent) nor a presence tuple (PresenceConsistent).         *)
RemoveLeavesNoReference == BackRefConsistent /\ PresenceConsistent

(* The silo implements AbstractSilo: every committed change is an insert *)
(* of a fresh resource whose unique values are free (HasVal on the index *)
(* agrees with the stored data) and whose members exist, with their      *)
(* back-references added, or a removal; nothing else changes the store.  *)
(* The refinement mapping: the abstract resources are the rows that are *)
(* not NoRes, and the ids handed out are the committed ones.             *)
Abs == INSTANCE AbstractSilo
         WITH resources <- [r \in {x \in Rids : Live(x)} |-> store[r]],
              issued    <- used
AbstractSpec == Abs!Spec

=============================================================================
