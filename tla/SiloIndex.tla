----------------------------- MODULE SiloIndex -----------------------------
(***************************************************************************)
(* The index manager of the silo (src/scim/silo/silo.go, type Index).      *)
(*                                                                         *)
(* One index is one bolt bucket.  Its layout is modelled as it is on disk: *)
(*   ex     the keys present in the bucket: for a duplicate-key index each *)
(*          is a nested sub-bucket, for a unique index a plain key;        *)
(*   sub    for each present key, the resource ids stored under it (the    *)
(*          sub-bucket's rids, or the single rid of a plain key);          *)
(*   cnt    the "<lower(value)>_count" keys of a duplicate-key index, 0    *)
(*          standing for an absent key (utils.Btoi(nil) = 0);              *)
(*   total  the index's entry in the "counts" bucket.                      *)
(*                                                                         *)
(* The operators below are state transformers used by the Silo module     *)
(* inside one write transaction.  A value is a string; Lower is           *)
(* strings.ToLower on the values and attribute names the model uses.      *)
(***************************************************************************)
EXTENDS Integers, FiniteSets, FiniteSetsExt

CONSTANTS
  Rids,          \* resource ids (utils.GenUUID)
  Lower,         \* strings.ToLower, a function on every string the model uses
  CountKeyClash  \* <<c, k>>: the bytes of c's count key c + "_count" are key k

Keys == DOMAIN Lower

ASSUME \A k \in Keys : Lower[k] \in Keys /\ Lower[Lower[k]] = Lower[k]
ASSUME CountKeyClash \subseteq Keys \X Keys

(* The configuration an index is created with (createIndexBucket):       *)
(* dup = AllowDupKey, caseSensitive = the attribute's caseExact.         *)
IndexConf == [dup : BOOLEAN, caseSensitive : BOOLEAN]

IndexState == [ex : SUBSET Keys, sub : [Keys -> SUBSET Rids],
               cnt : [Keys -> Nat], total : Nat]

(* A freshly created, empty index bucket with no entry in "counts".      *)
EmptyIndex == [ex |-> {}, sub |-> [k \in Keys |-> {}],
               cnt |-> [k \in Keys |-> 0], total |-> 0]

(* Mutant: the key of a case-insensitive index is not lower-cased.      *)
ConvertNoFold(conf, val) == val

(* Index.convert for a string-typed index: the bucket key of a value.    *)
Convert(conf, val) == IF conf.caseSensitive THEN val ELSE Lower[val]

(* The count key of a value: strings.ToLower(val) + "_count", whatever   *)
(* the index's case sensitivity.                                         *)
CountKey(val) == Lower[val]

(* Mutant: an existing sub-bucket's count is overwritten with 1 instead *)
(* of being incremented.                                                  *)
IdxAddCountReset(ix, conf, val, rid) ==
  LET k  == Convert(conf, val)
      ck == CountKey(val)
  IN  IF conf.dup
        THEN IF k \notin ix.ex
               THEN [ix EXCEPT !.ex = @ \cup {k}, !.sub[k] = {rid},
                               !.cnt[ck] = 1, !.total = @ + 1]
               ELSE [ix EXCEPT !.sub[k] = @ \cup {rid},
                               !.cnt[ck] = 1, !.total = @ + 1]
        ELSE [ix EXCEPT !.ex = @ \cup {k}, !.sub[k] = {rid},
                        !.total = @ + 1]

(* Index.add: insert the tuple <val, rid>.  A duplicate-key index        *)
(* creates the sub-bucket and sets the count to 1 when the sub-bucket is *)
(* missing, and increments the count otherwise; a unique index puts     *)
(* key -> rid, overwriting what was there.  Both bump the total.        *)
IdxAdd(ix, conf, val, rid) ==
  LET k  == Convert(conf, val)
      ck == CountKey(val)
  IN  IF conf.dup
        THEN IF k \notin ix.ex
               THEN [ix EXCEPT !.ex = @ \cup {k}, !.sub[k] = {rid},
                               !.cnt[ck] = 1, !.total = @ + 1]
               ELSE [ix EXCEPT !.sub[k] = @ \cup {rid},
                               !.cnt[ck] = @ + 1, !.total = @ + 1]
        ELSE [ix EXCEPT !.ex = @ \cup {k}, !.sub[k] = {rid},
                        !.total = @ + 1]

(* The count keys and the sub-buckets of a duplicate-key index share the *)
(* bucket's key space.  Index.add fails (bolt's ErrIncompatibleValue)     *)
(* when it creates the sub-bucket of a key that is some value's count key *)
(* holding a count, or when, creating a new sub-bucket, it puts its count *)
(* key where a sub-bucket of the same bytes is.  On an existing sub-bucket *)
(* the error of that Put is overwritten by the Put into "counts".         *)
IdxAddFails(ix, conf, val) ==
  LET k  == Convert(conf, val)
      ck == CountKey(val)
  IN  /\ conf.dup
      /\ \/ k \notin ix.ex /\ \E c \in Keys : <<c, k>> \in CountKeyClash /\ ix.cnt[c] > 0
         \/ k \notin ix.ex /\ \E k2 \in ix.ex : <<ck, k2>> \in CountKeyClash

(* Index.add on each value of an attribute in turn, as Insert's loop does, *)
(* up to the first error, which Insert turns into a panic: the index      *)
(* after the adds, and whether every add succeeded.                        *)
IdxAddAll(ix, conf, vals, rid) ==
  FoldSet(LAMBDA v, acc :
            IF acc.ok /\ ~IdxAddFails(acc.ix, conf, v)
              THEN [ix |-> IdxAdd(acc.ix, conf, v, rid), ok |-> TRUE]
              ELSE [acc EXCEPT !.ok = FALSE],
          [ix |-> ix, ok |-> TRUE], vals)

(* Index.remove: the inverse of add.  A duplicate-key index deletes the  *)
(* rid and decrements the count while the count exceeds 1, and deletes   *)
(* the whole sub-bucket and its count key when the count is 1 or less;   *)
(* a missing sub-bucket is skipped.  A unique index deletes the key      *)
(* whichever rid it holds.  The total is decremented in every case.      *)
IdxRemove(ix, conf, val, rid) ==
  LET k  == Convert(conf, val)
      ck == CountKey(val)
  IN  IF conf.dup
        THEN IF k \notin ix.ex
               THEN [ix EXCEPT !.total = @ - 1]
               ELSE IF ix.cnt[ck] > 1
                      THEN [ix EXCEPT !.sub[k] = @ \ {rid},
                                      !.cnt[ck] = @ - 1, !.total = @ - 1]
                      ELSE [ix EXCEPT !.ex = @ \ {k}, !.sub[k] = {},
                                      !.cnt[ck] = 0, !.total = @ - 1]
        ELSE [ix EXCEPT !.ex = @ \ {k}, !.sub[k] = {}, !.total = @ - 1]

(* Index.GetRid / Index.GetRids: the rids stored under a bucket key.     *)
GetRids(ix, key) == IF key \in ix.ex THEN ix.sub[key] ELSE {}

(* Mutant: HasVal looks the raw value up instead of its converted key.  *)
HasValRaw(ix, conf, val) == ~conf.dup /\ val \in ix.ex

(* Index.HasVal: len(GetRid(convert(val))) != 0.  GetRid is a plain     *)
(* bucket Get, which bolt answers with nil for a nested sub-bucket: on a *)
(* duplicate-key index it is true only when the key's bytes are a count *)
(* key, whose value (the count) it returns.                               *)
HasVal(ix, conf, val) ==
  IF conf.dup
    THEN \E c \in Keys : <<c, Convert(conf, val)>> \in CountKeyClash /\ ix.cnt[c] > 0
    ELSE Convert(conf, val) \in ix.ex

(* Index.getCount: the index's entry in "counts", 0 when absent.         *)
GetCount(ix) == ix.total

(* Index.keyCount: for a duplicate-key index the count stored under the  *)
(* lower-cased value's "_count" key, for a unique index 1 when the       *)
(* converted value is a key of the bucket.                                *)
KeyCount(ix, conf, val) ==
  IF conf.dup THEN ix.cnt[CountKey(val)]
              ELSE IF Convert(conf, val) \in ix.ex THEN 1 ELSE 0

(* The <key, rid> tuples an index holds.                                 *)
Tuples(ix) == UNION {{<<k, r>> : r \in ix.sub[k]} : k \in ix.ex}

=============================================================================
