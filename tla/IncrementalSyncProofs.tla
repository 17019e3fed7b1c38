----------------------- MODULE IncrementalSyncProofs -----------------------
(***************************************************************************)
(* For any number of replicas, rows and cursor values: the stored cursor   *)
(* passes no row that has not landed, and as long as syncs do not overlap  *)
(* each row with a cursor value lands once.                                *)
(***************************************************************************)
EXTENDS IncrementalSync, FiniteSetTheorems, WellFoundedInduction, TLAPS

Places == {"idle", "adopt", "read", "open", "commit", "empty", "cursor", "finalize", "orphan",
           "page"}

(* A cursor stands at the time of some row, and its keys are rows of that  *)
(* time; a cursor of files has one key.                                    *)
CursorOK(c) ==
    /\ c \in CursorRow
    /\ \A i \in c.keys : src[i] = c.cur
    /\ c.cur = 0 => c.keys = {}
    /\ c.cur > 0 => \E i \in Rows : src[i] = c.cur
    /\ mode = "files" /\ c.cur > 0 => \E k \in Rows : c.keys = {k}

(* Row i is in the table once the rows kept have landed.                   *)
LandsWith(i, kept) == table.rows[i] > 0 \/ i \in kept

(* What cursor c passes is in the table once the rows kept have landed.    *)
Honest(c, kept) ==
    /\ CursorOK(c)
    /\ \A i \in c.keys : LandsWith(i, kept)
    /\ \A i \in Rows \ late : src[i] > 0 /\ Covers(c, i) => LandsWith(i, kept)

TableOK ==
    /\ DOMAIN table = {"exists", "snap", "rows", "stamp"}
    /\ table.rows \in [Rows -> Nat]
    /\ table.stamp \in CursorRow \cup {None}

(* Job q is between two pages of the source.                               *)
Reading(q) == mode = "pages" /\ q.pc \in {"page", "open"}

JobFields == {"pc", "kind", "kept", "next", "base", "from", "at"}

JobOK(j) ==
    LET q == job[j] IN
    /\ DOMAIN q = JobFields
    /\ q.pc \in Places
    /\ q.kept \subseteq Rows /\ \A i \in q.kept : src[i] > 0 \/ i \in bare
    /\ q.pc \in {"idle", "adopt", "read", "empty"} => q.kept = {} /\ q.next = None /\ q.at = 0
    /\ q.next \in CursorRow \cup {None}
    /\ q.pc = "page" => mode = "pages"
    /\ Reading(q) => q.next = None
    /\ q.at \in 0 .. MaxRows

ShapeOK ==
    /\ mode \in {"overwrite", "property", "pages", "files"}
    /\ src \in [Rows -> 0 .. MaxCursor]
    /\ bare \subseteq Rows /\ \A i \in bare : src[i] = 0
    /\ TableOK
    /\ job = [j \in Replicas |-> job[j]]
    /\ \A j \in Replicas : JobOK(j)

(* A sync that started at cursor from and has read the pages up to at holds *)
(* the rows of those pages that from does not pass, and no other.          *)
PagesHonest(from, kept, at) ==
    /\ Honest(from, {})
    /\ \A i \in kept : src[i] > 0 => ~Covers(from, i)
    /\ \A i \in Rows \ late : i <= at /\ src[i] > 0 => Covers(from, i) \/ i \in kept

(* A sync stores its cursor once its rows have landed.                     *)
JobHonest(j) ==
    LET q == job[j] IN
    /\ q.pc \in {"cursor", "finalize"} => \A i \in q.kept : table.rows[i] > 0
    /\ q.next # None => Honest(q.next, q.kept)
    /\ Reading(q) => PagesHonest(q.from, q.kept, q.at)

SkipInv ==
    /\ ShapeOK
    /\ Incremental =>
          /\ Honest(cursor, {})
          /\ table.stamp # None => Honest(table.stamp, {})
          /\ \A j \in Replicas : JobHonest(j)

-----------------------------------------------------------------------------
Clean == Incremental /\ ~overlapped /\ ~capped

(* The rows that have landed are behind the cursor that a sync reads from, *)
(* and it holds a row without a cursor value only if it reads from none.   *)
ReadsOnce(from, kept) ==
    /\ \A i \in Rows \ bare : table.rows[i] > 0 => Covers(from, i)
    /\ \A i \in kept : src[i] = 0 => from.cur = 0

(* What a sync holds has not landed, and the cursor it will store covers   *)
(* what has and what it holds.                                             *)
HoldsOnce(next, kept) ==
    /\ \A i \in kept \ bare : table.rows[i] = 0
    /\ \A i \in Rows \ bare : LandsWith(i, kept) => next # None /\ Covers(next, i)

JobOnce(j) ==
    LET q == job[j] IN
    /\ q.pc = "read" => ReadsOnce(cursor, {})
    /\ Reading(q) => ReadsOnce(q.from, q.kept)
    /\ ~Reading(q) /\ q.pc \in {"open", "commit"} => q.kept # {}
    /\ ~Reading(q) /\ q.pc \in {"open", "commit", "orphan"} /\ q.kept # {} => HoldsOnce(q.next, q.kept)

OnceOK ==
    /\ \A j, k \in Replicas : Busy(j) /\ Busy(k) => j = k
    /\ \A i \in Rows \ bare : table.rows[i] > 0 =>
          /\ src[i] > 0
          /\ Covers(cursor, i) \/ (table.stamp # None /\ Covers(table.stamp, i))
    /\ \A j \in Replicas : JobOnce(j)

OnceInv == RowsLandOnce /\ (Clean => OnceOK)
-----------------------------------------------------------------------------
(* Any set of naturals has a least element.                                *)
LEMMA LeastNat ==
    ASSUME NEW S, S \subseteq Nat, S # {}
    PROVE  \E x \in S : \A y \in S : x <= y
<1> DEFINE R == OpToRel(<, Nat)
<1>1. IsWellFoundedOn(R, Nat)
  BY NatLessThanWellFounded
<1> HIDE DEF R
<1>2. PICK x \in S : \A y \in S : ~(<<y, x>> \in R)
  BY <1>1, WFMin
<1>3. \A y \in S : y < x => <<y, x>> \in R
  BY DEF R, OpToRel
<1>4. \A y \in S : ~(y < x)
  BY <1>2, <1>3
<1>5. x \in Nat /\ \A y \in S : y \in Nat
  OBVIOUS
<1>6. \A y \in S : x <= y
  BY <1>4, <1>5
<1> QED
  BY <1>6

(* The greatest of a bounded set of naturals.                              *)
LEMMA MaxIsGreatest ==
    ASSUME NEW S, S \subseteq Nat, S # {}, NEW n \in Nat, \A x \in S : x <= n
    PROVE  Max(S) \in S /\ \A x \in S : x <= Max(S)
<1> DEFINE B == {b \in Nat : \A x \in S : x <= b}
<1>1. PICK b \in B : \A c \in B : b <= c
  BY LeastNat
<1>2. b \in S
  <2> SUFFICES ASSUME b \notin S PROVE FALSE
    OBVIOUS
  <2>1. \A x \in S : x \in Nat /\ x < b
    OBVIOUS
  <2>2. PICK x \in S : TRUE
    OBVIOUS
  <2>3. b - 1 \in Nat /\ \A y \in S : y <= b - 1
    BY <2>1, <2>2
  <2> QED
    BY <1>1, <2>3
<1> QED
  BY <1>2 DEF Max

(* _cap_boundary keeps some of the identities, and all when they are few.  *)
LEMMA CapIsSubset ==
    ASSUME NEW keys, keys \subseteq Rows
    PROVE  /\ CapBoundary(keys) \subseteq keys
           /\ \A k : keys = {k} => CapBoundary(keys) = keys
<1>0. MaxBoundary \in Nat \ {0} /\ 1 \in Int /\ MaxRows \in Int
  BY SyncAssumption
<1>1. IsFiniteSet(keys) /\ MaxBoundary \in Nat \ {0}
  <2>1. IsFiniteSet(Rows)
    BY <1>0, FS_Interval DEF Rows
  <2> QED
    BY <1>0, <2>1, FS_Subset
<1>2. CASE Cardinality(keys) <= MaxBoundary
  BY <1>2 DEF CapBoundary
<1>3. CASE ~(Cardinality(keys) <= MaxBoundary)
  <2> DEFINE n == Cardinality(keys)
             m == MaxBoundary
  <2>1. n \in Nat /\ m < n /\ 1..m \subseteq 1..n
    BY <1>1, <1>3, FS_CardinalityType
  <2>2. PICK f : f \in Bijection(1..n, keys)
    BY <1>1, FS_CardinalityType DEF ExistsBijection
  <2> HIDE DEF n, m
  <2> DEFINE some == {f[i] : i \in 1..m}
             g == [i \in 1..m |-> f[i]]
  <2>3. f \in [1..n -> keys] /\ \A i, j \in 1..n : f[i] = f[j] => i = j
    BY <2>2 DEF Bijection, Injection, IsInjective
  <2>4. some \in SUBSET keys
    BY <2>1, <2>3
  <2>5. g \in Bijection(1..m, some)
    BY <2>1, <2>3 DEF Bijection, Injection, Surjection, IsInjective
  <2>6. Cardinality(some) = m
    BY <1>1, <2>5, FS_Interval, FS_Bijection DEF ExistsBijection, m
  <2>7. CapBoundary(keys) \subseteq keys
    BY <1>3, <2>4, <2>6 DEF CapBoundary, m
  <2>8. \A k : keys # {k}
    BY <1>1, <2>1, FS_Singleton DEF n, m
  <2> QED
    BY <2>7, <2>8
<1> QED
  BY <1>2, <1>3

-----------------------------------------------------------------------------
(* CursorTracker.keep keeps the rows that its cursor does not cover, and   *)
(* rows without a value when it has no cursor.                             *)
LEMMA KeepUncovered ==
    ASSUME ShapeOK, mode # "files", NEW c, CursorOK(c)
    PROVE  /\ KeepRows(c) \subseteq Rows
           /\ \A i \in Rows : src[i] > 0 => (i \in KeepRows(c) <=> ~Covers(c, i))
           /\ \A i \in KeepRows(c) : src[i] > 0 \/ (i \in bare /\ src[i] = 0 /\ c.cur = 0)
<1>1. /\ \A i \in Rows : i \in Nat /\ src[i] \in Nat
      /\ c.cur \in Nat /\ c.keys \subseteq Rows /\ bare \subseteq Rows /\ \A i \in bare : src[i] = 0
  BY SyncAssumption DEF ShapeOK, CursorOK, CursorRow, Rows
<1>2. KeepRows(c) \subseteq Rows
  BY <1>1 DEF KeepRows
<1>3. ASSUME NEW i \in Rows, src[i] > 0 PROVE i \in KeepRows(c) <=> ~Covers(c, i)
  BY <1>1, <1>3 DEF KeepRows, Covers
<1>4. ASSUME NEW i \in KeepRows(c), ~(src[i] > 0) PROVE i \in bare /\ src[i] = 0 /\ c.cur = 0
  BY <1>1, <1>4 DEF KeepRows
<1> QED
  BY <1>2, <1>3, <1>4

(* What a sync that reads in one step reads.                               *)
LEMMA SelectedUncovered ==
    ASSUME ShapeOK, Incremental, mode # "pages", CursorOK(cursor)
    PROVE  /\ Selected \subseteq Rows
           /\ \A i \in Rows : src[i] > 0 => (i \in Selected <=> ~Covers(cursor, i))
           /\ \A i \in Selected : src[i] > 0 \/ (i \in bare /\ src[i] = 0 /\ cursor.cur = 0)
<1>1. CASE mode = "property"
  BY <1>1, KeepUncovered DEF Selected
<1>2. CASE mode = "files"
  <2>1. /\ \A i \in Rows : i \in Nat /\ src[i] \in Nat
        /\ cursor.cur \in Nat /\ cursor.keys \subseteq Rows
    BY SyncAssumption DEF ShapeOK, CursorOK, CursorRow, Rows
  <2>2. \A i \in Rows : (\A k \in cursor.keys : i > k) <=> ~(i \in cursor.keys \/ \E k \in cursor.keys : i < k)
    BY <2>1
  <2> QED
    BY <1>2, <2>1, <2>2 DEF Selected, SelectFiles, Covers
<1> QED
  BY <1>1, <1>2 DEF ShapeOK, Incremental

(* The cursor a sync takes from what it read from cursor from on: it       *)
(* passes nothing else, and it covers what from covers and what was read   *)
(* unless _cap_boundary dropped an identity.                               *)
LEMMA AdvanceHonest ==
    ASSUME ShapeOK, Incremental, NEW from, Honest(from, {}), NEW kept, kept # {}, kept \subseteq Rows,
           \A i \in kept : src[i] > 0 /\ ~Covers(from, i),
           \A i \in Rows \ late : src[i] > 0 => Covers(from, i) \/ i \in kept
    PROVE  /\ Honest(Advance(from, kept), kept)
           /\ Advance(from, kept) = Merged(from, kept) =>
                 \A i \in Rows : src[i] > 0 /\ (Covers(from, i) \/ i \in kept) =>
                    Covers(Advance(from, kept), i)
<1> DEFINE times == {src[i] : i \in kept}
           newest == Max(times)
           ids == {i \in kept : src[i] = newest}
           keys == IF mode = "files" THEN {Max(ids)}
                   ELSE IF newest = from.cur THEN from.keys \cup ids ELSE ids
           c == Advance(from, kept)
<1>1. CursorOK(from) /\ kept \subseteq Rows /\ \A i \in kept : src[i] > 0 /\ ~Covers(from, i)
  BY DEF Honest
<1>2. /\ \A i \in Rows : i \in Nat /\ i <= MaxRows /\ src[i] \in 0 .. MaxCursor /\ src[i] \in Nat
      /\ from.cur \in Nat /\ from.keys \subseteq Rows /\ MaxCursor \in Nat /\ MaxRows \in Nat
      /\ mode \in {"property", "pages", "files"}
  BY <1>1, SyncAssumption DEF ShapeOK, CursorOK, CursorRow, Rows, Incremental
<1>3. newest \in times /\ \A t \in times : t <= newest
  <2>1. times \subseteq Nat /\ times # {} /\ \A t \in times : t <= MaxCursor
    BY <1>1, <1>2
  <2> QED
    BY <1>2, <2>1, MaxIsGreatest
<1> HIDE DEF newest
<1>4. /\ ids # {} /\ ids \subseteq kept /\ newest \in 1 .. MaxCursor
      /\ \A i \in kept : src[i] <= newest /\ from.cur <= src[i]
  BY <1>1, <1>2, <1>3 DEF Covers
<1>5. Max(ids) \in ids /\ \A i \in ids : i <= Max(ids)
  <2>1. ids \subseteq Nat /\ \A i \in ids : i <= MaxRows
    BY <1>1, <1>2
  <2> HIDE DEF ids
  <2> QED
    BY <1>2, <1>4, <2>1, MaxIsGreatest
<1> DEFINE last == Max(ids)
<1>6. last \in kept /\ src[last] = newest /\ last \in Rows
  BY <1>1, <1>5
<1> HIDE DEF last
<1>7. keys = IF mode = "files" THEN {last}
             ELSE IF newest = from.cur THEN from.keys \cup ids ELSE ids
  BY DEF last
<1>8. keys \subseteq Rows /\ \A k \in keys : src[k] = newest /\ LandsWith(k, kept)
  <2>1. \A k \in from.keys : src[k] = from.cur /\ LandsWith(k, kept)
    BY DEF Honest, CursorOK, LandsWith
  <2> QED
    BY <1>1, <1>2, <1>6, <1>7, <2>1 DEF LandsWith
<1>9. Merged(from, kept) = [cur |-> newest, keys |-> keys]
  BY DEF Merged, newest
<1> HIDE DEF keys
<1>10. c.cur = newest /\ c.keys = CapBoundary(keys) /\ c = [cur |-> newest, keys |-> CapBoundary(keys)]
  BY <1>9 DEF Advance
<1>11. c.keys \subseteq keys /\ (mode = "files" => c.keys = {last})
  BY <1>7, <1>8, <1>10, CapIsSubset
<1>12. c \in CursorRow
  BY <1>4, <1>8, <1>10, <1>11 DEF CursorRow
<1> HIDE DEF c
<1>13. CursorOK(c)
  BY <1>4, <1>6, <1>8, <1>10, <1>11, <1>12 DEF CursorOK
<1>14. \A i \in Rows \ late : src[i] > 0 => LandsWith(i, kept)
  BY DEF Honest, LandsWith
<1>15. Honest(c, kept)
  BY <1>8, <1>11, <1>13, <1>14 DEF Honest
<1>16. ASSUME c = Merged(from, kept), NEW i \in Rows, src[i] > 0, Covers(from, i) \/ i \in kept
       PROVE  Covers(c, i)
  <2>1. c.keys = keys
    BY <1>9, <1>16
  <2>2. CASE i \in kept
    <3>1. CASE src[i] < newest
      BY <1>10, <3>1 DEF Covers
    <3>2. CASE src[i] = newest
      <4>1. i \in ids /\ i <= last
        BY <1>5, <2>2, <3>2 DEF last
      <4>2. CASE mode = "files"
        <5>1. keys = {last} /\ (i = last \/ i < last)
          BY <1>2, <1>6, <1>7, <4>1, <4>2
        <5> QED
          BY <1>10, <2>1, <3>2, <4>2, <5>1 DEF Covers
      <4>3. CASE mode # "files"
        <5>1. i \in keys
          BY <1>7, <4>1, <4>3
        <5> QED
          BY <1>10, <2>1, <3>2, <5>1 DEF Covers
      <4> QED
        BY <4>2, <4>3
    <3> QED
      BY <1>2, <1>4, <2>2, <3>1, <3>2
  <2>3. CASE i \notin kept
    <3>1. Covers(from, i)
      BY <1>1, <1>16, <2>3
    <3>2. from.cur <= newest
      BY <1>2, <1>4, <1>6
    <3>3. CASE src[i] < newest
      BY <1>10, <3>3 DEF Covers
    <3>4. CASE ~(src[i] < newest)
      <4>1. src[i] = newest /\ newest = from.cur
        BY <1>2, <1>4, <3>1, <3>2, <3>4 DEF Covers
      <4>2. CASE mode # "files"
        BY <1>7, <1>10, <2>1, <3>1, <4>1, <4>2 DEF Covers
      <4>3. CASE mode = "files"
        <5>1. PICK k \in from.keys : i <= k
          BY <1>2, <3>1, <4>1, <4>3 DEF Covers
        <5>2. k < last
          BY <1>1, <1>2, <1>6, <4>1, <4>3, <5>1 DEF Covers
        <5>3. i < last
          BY <1>2, <1>6, <5>1, <5>2
        <5> QED
          BY <1>10, <1>11, <4>1, <4>3, <5>3 DEF Covers
      <4> QED
        BY <1>2, <4>2, <4>3
    <3> QED
      BY <3>3, <3>4
  <2> QED
    BY <2>2, <2>3
<1> QED
  BY <1>15, <1>16 DEF c

(* The write of a cursor under FOR UPDATE: what is stored covers what was  *)
(* covered and what the new cursor covers, and nothing more.               *)
LEMMA StoreJoins ==
    ASSUME ShapeOK, Incremental, CursorOK(cursor), NEW c, CursorOK(c), Store(c),
           UNCHANGED <<mode, src>>
    PROVE  /\ CursorOK(cursor)'
           /\ cursor'.keys \subseteq cursor.keys \cup c.keys
           /\ \A i \in Rows : Covers(cursor, i)' <=> Covers(cursor, i) \/ Covers(c, i)
<1>1. /\ \A i \in Rows : i \in Nat /\ src[i] \in Nat
      /\ cursor.cur \in Nat /\ cursor.keys \subseteq Rows /\ c.cur \in Nat /\ c.keys \subseteq Rows
      /\ mode \in {"property", "pages", "files"}
  BY SyncAssumption DEF ShapeOK, CursorOK, CursorRow, Rows, Incremental
<1>2. CASE c.cur > cursor.cur
  <2>1. cursor' = c
    BY <1>2 DEF Store, Newer
  <2> QED
    BY <1>1, <1>2, <2>1 DEF CursorOK, Covers
<1>3. CASE c.cur < cursor.cur
  <2>1. cursor' = cursor
    BY <1>1, <1>3 DEF Store, Newer
  <2> QED
    BY <1>1, <1>3, <2>1 DEF CursorOK, Covers
<1>4. CASE c.cur = cursor.cur /\ mode # "files"
  <2>1. cursor' = [cursor EXCEPT !.keys = cursor.keys \cup c.keys]
    BY <1>1, <1>4 DEF Store, Newer
  <2>2. cursor' \in CursorRow /\ cursor'.cur = cursor.cur /\ cursor'.keys = cursor.keys \cup c.keys
    BY <1>1, <2>1 DEF CursorOK, CursorRow
  <2> QED
    BY <1>1, <1>4, <2>2 DEF CursorOK, Covers
<1>5. CASE c.cur = cursor.cur /\ mode = "files" /\ c.cur = 0
  <2>1. c.keys = {} /\ cursor.keys = {}
    BY <1>5 DEF CursorOK
  <2>2. cursor' = cursor \/ cursor' = c
    BY <1>5 DEF Store
  <2> QED
    BY <1>1, <1>5, <2>1, <2>2 DEF CursorOK, Covers
<1>6. CASE c.cur = cursor.cur /\ mode = "files" /\ c.cur > 0
  <2>1. PICK k \in Rows : c.keys = {k}
    BY <1>6 DEF CursorOK
  <2>2. PICK l \in Rows : cursor.keys = {l}
    BY <1>6 DEF CursorOK
  <2>3. Max(c.keys) = k /\ Max(cursor.keys) = l
    BY <1>1, <2>1, <2>2, MaxIsGreatest
  <2>4. CASE k > l
    <3>1. cursor' = c
      BY <1>1, <1>6, <2>3, <2>4 DEF Store, Newer
    <3> QED
      BY <1>1, <1>6, <2>1, <2>2, <2>4, <3>1 DEF CursorOK, Covers
  <2>5. CASE ~(k > l)
    <3>1. cursor' = cursor
      BY <1>1, <1>6, <2>3, <2>5 DEF Store, Newer
    <3> QED
      BY <1>1, <1>6, <2>1, <2>2, <2>5, <3>1 DEF CursorOK, Covers
  <2> QED
    BY <2>4, <2>5
<1> QED
  BY <1>1, <1>2, <1>3, <1>4, <1>5, <1>6

-----------------------------------------------------------------------------
(* An honest cursor stays honest when rows land.                           *)
LEMMA HonestGrows ==
    ASSUME NEW c, NEW kept, NEW kept2, Honest(c, kept), UNCHANGED <<mode, src, late>>,
           \A i \in Rows : LandsWith(i, kept) => LandsWith(i, kept2)'
    PROVE  Honest(c, kept2)'
<1>1. CursorOK(c) /\ c.keys \subseteq Rows
  BY DEF Honest, CursorOK, CursorRow
<1>2. CursorOK(c)'
  BY <1>1 DEF CursorOK
<1>3. \A i \in Rows : Covers(c, i)' <=> Covers(c, i)
  BY DEF Covers
<1> QED
  BY <1>1, <1>2, <1>3 DEF Honest

(* So do the pages read.                                                   *)
LEMMA PagesGrow ==
    ASSUME NEW from, NEW kept, NEW at, PagesHonest(from, kept, at), UNCHANGED <<mode, src, late>>,
           \A i \in Rows : table.rows[i] > 0 => table'.rows[i] > 0
    PROVE  PagesHonest(from, kept, at)'
<1>1. \A i \in Rows : LandsWith(i, {}) => LandsWith(i, {})'
  BY DEF LandsWith
<1>2. Honest(from, {})'
  BY <1>1, HonestGrows DEF PagesHonest
<1>3. \A i : Covers(from, i)' <=> Covers(from, i)
  BY DEF Covers
<1> QED
  BY <1>2, <1>3 DEF PagesHonest

(* Storing an honest cursor leaves an honest cursor.                       *)
LEMMA StoreHonest ==
    ASSUME ShapeOK, Incremental, Honest(cursor, {}), NEW c, Honest(c, {}), Store(c),
           UNCHANGED <<mode, src, late, table>>
    PROVE  Honest(cursor, {})'
<1>1. CursorOK(cursor) /\ CursorOK(c)
  BY DEF Honest
<1>2. /\ CursorOK(cursor)' /\ cursor'.keys \subseteq cursor.keys \cup c.keys
      /\ \A i \in Rows : Covers(cursor, i)' <=> Covers(cursor, i) \/ Covers(c, i)
  BY <1>1, StoreJoins
<1>3. \A i : LandsWith(i, {})' <=> LandsWith(i, {})
  BY DEF LandsWith
<1> QED
  BY <1>2, <1>3 DEF Honest

(* A new row is behind no cursor, except a file that came late.            *)
LEMMA InsertHonest ==
    ASSUME ShapeOK, NEW i \in Rows, InsertRow(i), NEW c, NEW kept, Honest(c, kept),
           kept = {} \/ \E j \in Replicas : kept = job[j].kept
    PROVE  Honest(c, kept)'
<1> DEFINE times == {src[k] : k \in Rows}
           now == Max(times)
<1>1. /\ \A k \in Rows : k \in Nat /\ src[k] \in 0 .. MaxCursor /\ src[k] \in Nat
      /\ MaxCursor \in Nat
  BY SyncAssumption DEF ShapeOK, Rows
<1>2. now \in times /\ \A t \in times : t <= now
  <2>1. times \subseteq Nat /\ times # {} /\ \A t \in times : t <= MaxCursor
    BY <1>1
  <2> QED
    BY <1>1, <2>1, MaxIsGreatest
<1>3. PICK t \in {now, now + 1} \ {0} :
         /\ t <= MaxCursor /\ src' = [src EXCEPT ![i] = t]
         /\ late' = IF \/ mode = "files" /\ \E k \in Rows : k > i /\ src[k] = t /\ Taken(k)
                       \/ \E j \in Replicas : Passed(j, i)
                    THEN late \cup {i} ELSE late
  BY DEF InsertRow
<1> HIDE DEF now
<1>4. /\ src[i] = 0 /\ UNCHANGED <<mode, table>>
      /\ t \in Nat /\ t > 0 /\ \A k \in Rows : src[k] <= t
      /\ src'[i] = t /\ \A k \in Rows \ {i} : src'[k] = src[k]
      /\ late \subseteq late'
  <2>1. src[i] = 0 /\ UNCHANGED <<mode, table>>
    BY DEF InsertRow
  <2>2. now \in Nat /\ \A k \in Rows : src[k] <= now
    BY <1>1, <1>2
  <2>3. t \in Nat /\ t > 0 /\ \A k \in Rows : src[k] <= t
    BY <1>1, <2>2
  <2>4. src'[i] = t /\ \A k \in Rows \ {i} : src'[k] = src[k]
    BY <1>3 DEF ShapeOK
  <2>5. late \subseteq late'
    BY <1>3
  <2> QED
    BY <2>1, <2>3, <2>4, <2>5
<1>5. /\ c \in CursorRow /\ c.cur \in Nat /\ c.keys \subseteq Rows
      /\ \A k \in c.keys : src[k] = c.cur /\ k # i
      /\ c.cur <= t
  <2>1. /\ CursorOK(c) /\ c.cur \in Nat /\ c.keys \subseteq Rows
    BY SyncAssumption DEF Honest, CursorOK, CursorRow
  <2>2. \A k \in c.keys : src[k] = c.cur /\ c.cur # 0
    BY <2>1 DEF CursorOK
  <2>3. c.cur <= t
    BY <1>1, <1>4, <2>1 DEF CursorOK
  <2> QED
    BY <1>4, <2>1, <2>2, <2>3 DEF CursorOK
<1>6. CursorOK(c)'
  <2>1. c.cur > 0 => \E k \in Rows : src'[k] = c.cur
    <3> SUFFICES ASSUME c.cur > 0 PROVE \E k \in Rows : src'[k] = c.cur
      OBVIOUS
    <3>1. PICK k \in Rows : src[k] = c.cur
      BY DEF Honest, CursorOK
    <3> QED
      BY <1>4, <1>5, <3>1
  <2> QED
    BY <1>4, <1>5, <2>1 DEF Honest, CursorOK
<1>7. \A k \in Rows : LandsWith(k, kept)' <=> LandsWith(k, kept)
  BY <1>4 DEF LandsWith
<1>8. \A k \in Rows \ {i} : Covers(c, k)' <=> Covers(c, k)
  BY <1>4 DEF Covers
<1>9. ASSUME i \notin late', Covers(c, i)' PROVE FALSE
  <2>1. t = c.cur /\ mode = "files"
    BY <1>4, <1>5, <1>9 DEF Covers
  <2>2. PICK k \in c.keys : i < k
    BY <1>4, <1>5, <1>9, <2>1 DEF Covers
  <2>3. k \in Rows /\ k > i /\ src[k] = t
    BY <1>1, <1>5, <2>1, <2>2
  <2>4. LandsWith(k, kept)
    BY <2>2 DEF Honest
  <2>5. Taken(k)
    BY <2>4 DEF LandsWith, Taken
  <2> QED
    BY <1>3, <1>9, <2>1, <2>3, <2>5
<1> QED
  <2>1. \A k \in c.keys : LandsWith(k, kept)'
    BY <1>5, <1>7 DEF Honest
  <2>2. ASSUME NEW k \in Rows \ late', src'[k] > 0, Covers(c, k)' PROVE LandsWith(k, kept)'
    <3>1. k # i
      BY <1>9, <2>2
    <3>2. k \in Rows \ late /\ src[k] > 0 /\ Covers(c, k)
      BY <1>4, <1>8, <2>2, <3>1
    <3> QED
      BY <1>7, <3>2 DEF Honest
  <2> QED
    BY <1>6, <2>1, <2>2 DEF Honest

(* A new row on a page that a sync has read is late.                       *)
LEMMA InsertPages ==
    ASSUME ShapeOK, NEW i \in Rows, InsertRow(i), NEW j \in Replicas, Reading(job[j]),
           NEW from, NEW kept, NEW at, kept = job[j].kept, at = job[j].at, PagesHonest(from, kept, at)
    PROVE  PagesHonest(from, kept, at)'
<1>1. Honest(from, {})'
  BY InsertHonest DEF PagesHonest
<1>2. /\ \A k \in Rows \ {i} : src'[k] = src[k]
      /\ src[i] = 0 /\ i \notin bare /\ mode' = mode /\ kept \subseteq Rows
  BY DEF InsertRow, ShapeOK, JobOK
<1>3. \A k \in Rows \ {i} : Covers(from, k)' <=> Covers(from, k)
  BY <1>2 DEF Covers
<1>4. i \notin kept
  BY <1>2 DEF ShapeOK, JobOK
<1>5. late \subseteq late' /\ (i <= at => i \in late')
  <2>1. i <= at => Passed(j, i)
    BY DEF Passed, Reading
  <2> QED
    BY <2>1 DEF InsertRow
<1>6. \A k \in kept : src'[k] > 0 => ~Covers(from, k)'
  BY <1>2, <1>3, <1>4 DEF PagesHonest
<1>7. ASSUME NEW k \in Rows \ late', k <= at, src'[k] > 0 PROVE Covers(from, k)' \/ k \in kept
  <2>1. k # i /\ k \in Rows \ late
    BY <1>5, <1>7
  <2> QED
    BY <1>2, <1>3, <1>7, <2>1 DEF PagesHonest
<1> QED
  BY <1>1, <1>6, <1>7 DEF PagesHonest

-----------------------------------------------------------------------------
(* An idle job holds nothing.                                              *)
LEMMA IdleOK ==
    /\ DOMAIN Idle = JobFields
    /\ Idle.pc = "idle" /\ Idle.kept = {} /\ Idle.next = None /\ Idle.at = 0 /\ 0 \in 0 .. MaxRows
    /\ ~Reading(Idle) /\ ~Reading(Idle)'
BY SyncAssumption DEF Idle, JobFields, Reading

(* At the start nothing has landed and nothing is in flight.               *)
LEMMA InitSkipInv == Init => SkipInv
<1> SUFFICES ASSUME Init PROVE SkipInv
  OBVIOUS
<1>1. /\ mode \in {"overwrite", "property", "pages", "files"} /\ src = [i \in Rows |-> 0] /\ bare = {}
      /\ table = [exists |-> FALSE, snap |-> 0, rows |-> [i \in Rows |-> 0], stamp |-> None]
      /\ cursor = [cur |-> 0, keys |-> {}] /\ job = [r \in Replicas |-> Idle]
  BY DEF Init
<1>2. TableOK /\ table.stamp = None
  BY <1>1 DEF TableOK
<1>3. \A j \in Replicas : job[j] = Idle
  BY <1>1
<1>4. \A j \in Replicas : JobOK(j) /\ JobHonest(j)
  BY <1>3, IdleOK DEF JobOK, JobHonest, Places
<1>5. src \in [Rows -> 0 .. MaxCursor]
  BY <1>1, SyncAssumption
<1>6. ShapeOK
  BY <1>1, <1>2, <1>4, <1>5 DEF ShapeOK
<1>7. cursor \in CursorRow /\ cursor.cur = 0 /\ cursor.keys = {}
  BY <1>1, SyncAssumption DEF CursorRow
<1>8. Honest(cursor, {})
  BY <1>1, <1>7 DEF Honest, CursorOK, Covers
<1> QED
  BY <1>2, <1>4, <1>6, <1>8 DEF SkipInv

(* One job moves on; rows may land, and the cursor may be stored.          *)
LEMMA JobSkipStep ==
    ASSUME SkipInv, NEW j \in Replicas, NEW q, job' = [job EXCEPT ![j] = q],
           UNCHANGED <<mode, src, bare, late>>, TableOK', JobOK(j)',
           Incremental =>
              /\ \A i \in Rows : table.rows[i] > 0 => table'.rows[i] > 0
              /\ Honest(cursor, {})'
              /\ table.stamp' # None => Honest(table.stamp, {})'
              /\ JobHonest(j)'
    PROVE  SkipInv' /\ job'[j] = q /\ \A o \in Replicas \ {j} : job'[o] = job[o]
<1>1. /\ job'[j] = q /\ \A o \in Replicas \ {j} : job'[o] = job[o]
      /\ job' = [o \in Replicas |-> job'[o]]
  BY DEF SkipInv, ShapeOK
<1>2. \A o \in Replicas \ {j} : JobOK(o)'
  BY <1>1 DEF SkipInv, ShapeOK, JobOK, Reading
<1>3. ShapeOK'
  BY <1>1, <1>2 DEF SkipInv, ShapeOK
<1>4. ASSUME Incremental, NEW o \in Replicas \ {j} PROVE JobHonest(o)'
  <2>1. JobHonest(o) /\ job[o].kept \subseteq Rows
    BY <1>4 DEF SkipInv, ShapeOK, JobOK
  <2>2. ASSUME job[o].next # None PROVE Honest(job[o].next, job[o].kept)'
    <3>1. PICK c, kept : c = job[o].next /\ kept = job[o].kept
      OBVIOUS
    <3>2. \A i \in Rows : LandsWith(i, kept) => LandsWith(i, kept)'
      BY <1>4 DEF LandsWith
    <3>3. Honest(c, kept)'
      BY <2>1, <2>2, <3>1, <3>2, HonestGrows DEF JobHonest
    <3> QED
      BY <1>1, <3>1, <3>3
  <2>3. ASSUME Reading(job[o]) PROVE PagesHonest(job[o].from, job[o].kept, job[o].at)'
    <3>1. PICK from, kept, at : from = job[o].from /\ kept = job[o].kept /\ at = job[o].at
      OBVIOUS
    <3>2. PagesHonest(from, kept, at)
      BY <2>1, <2>3, <3>1 DEF JobHonest
    <3>3. PagesHonest(from, kept, at)'
      BY <1>4, <3>2, PagesGrow
    <3> QED
      BY <1>1, <3>1, <3>3
  <2>4. Reading(job[o])' <=> Reading(job[o])
    BY <1>1 DEF Reading
  <2> QED
    BY <1>1, <1>4, <2>1, <2>2, <2>3, <2>4 DEF JobHonest
<1>5. Incremental' <=> Incremental
  BY DEF Incremental
<1> QED
  BY <1>1, <1>3, <1>4, <1>5 DEF SkipInv

(* One job moves on and the stores stay.                                   *)
LEMMA QuietSkipStep ==
    ASSUME SkipInv, NEW j \in Replicas, NEW q, job' = [job EXCEPT ![j] = q],
           UNCHANGED <<mode, src, bare, late, cursor>>,
           TableOK', table'.rows = table.rows, table'.stamp = table.stamp, JobOK(j)',
           Incremental => JobHonest(j)'
    PROVE  SkipInv'
<1>1. ASSUME NEW c, Honest(c, {}) PROVE Honest(c, {})'
  <2>1. \A i \in Rows : LandsWith(i, {}) => LandsWith(i, {})'
    BY DEF LandsWith
  <2> QED
    BY <1>1, <2>1, HonestGrows
<1>2. ASSUME Incremental PROVE Honest(cursor, {})' /\ (table.stamp' # None => Honest(table.stamp, {})')
  <2>1. PICK c, s : c = cursor /\ s = table.stamp
    OBVIOUS
  <2>2. Honest(c, {})' /\ (s # None => Honest(s, {})')
    BY <1>1, <1>2, <2>1 DEF SkipInv
  <2> QED
    BY <2>1, <2>2
<1> QED
  BY <1>2, JobSkipStep

(* One job ends and the stores stay.                                       *)
LEMMA EndSkipStep ==
    ASSUME SkipInv, NEW j \in Replicas, job' = [job EXCEPT ![j] = Idle],
           UNCHANGED <<mode, src, bare, late, cursor, table>>
    PROVE  SkipInv'
<1>1. job'[j] = Idle
  BY DEF SkipInv, ShapeOK
<1>2. JobOK(j)' /\ JobHonest(j)'
  BY <1>1, IdleOK DEF JobOK, JobHonest, Places, Reading
<1>3. TableOK'
  BY DEF SkipInv, ShapeOK, TableOK
<1> QED
  BY <1>2, <1>3, QuietSkipStep

(* What a transaction that lands does to the table.                        *)
LEMMA LandedOK ==
    ASSUME SkipInv, NEW j \in Replicas, table' = Landed(j), mode' = mode
    PROVE  /\ TableOK' /\ table'.stamp = job[j].next
           /\ \A i \in Rows : table'.rows[i] = (IF Incremental THEN table.rows[i] ELSE 0)
                                               + (IF i \in job[j].kept THEN 1 ELSE 0)
           /\ Incremental => \A i \in Rows : table'.rows[i] > 0 <=> LandsWith(i, job[j].kept)
<1>1. /\ table.rows \in [Rows -> Nat] /\ job[j].next \in CursorRow \cup {None}
  BY DEF SkipInv, ShapeOK, TableOK, JobOK
<1> DEFINE n == [i \in Rows |-> (IF Incremental THEN table.rows[i] ELSE 0)
                                + (IF i \in job[j].kept THEN 1 ELSE 0)]
<1>2. n \in [Rows -> Nat]
  BY <1>1
<1>3. table' = [exists |-> TRUE, snap |-> table.snap + 1, stamp |-> job[j].next, rows |-> n]
  BY DEF Landed
<1> HIDE DEF n
<1>4. TableOK' /\ table'.stamp = job[j].next /\ table'.rows = n
  BY <1>1, <1>2, <1>3 DEF TableOK
<1>5. \A i \in Rows : table'.rows[i] = (IF Incremental THEN table.rows[i] ELSE 0)
                                       + (IF i \in job[j].kept THEN 1 ELSE 0)
  BY <1>4 DEF n
<1>6. ASSUME Incremental, NEW i \in Rows PROVE table'.rows[i] > 0 <=> LandsWith(i, job[j].kept)
  BY <1>1, <1>5, <1>6 DEF LandsWith
<1> QED
  BY <1>4, <1>5, <1>6

(* A transaction of job j lands: its snapshot carries the job's cursor.    *)
LEMMA LandSkipStep ==
    ASSUME SkipInv, NEW j \in Replicas, table' = Landed(j), UNCHANGED <<mode, src, bare, late, cursor>>,
           NEW q, job' = [job EXCEPT ![j] = q],
           q = Idle \/ \E b : q = [job[j] EXCEPT !.pc = "cursor", !.base = b]
    PROVE  SkipInv'
<1>1. /\ TableOK' /\ table'.stamp = job[j].next
      /\ Incremental => \A i \in Rows : table'.rows[i] > 0 <=> LandsWith(i, job[j].kept)
  BY LandedOK
<1>2. JobOK(j) /\ \A i \in Rows : table.rows[i] \in Nat
  BY DEF SkipInv, ShapeOK, TableOK
<1>3. PICK c, kept : c = job[j].next /\ kept = job[j].kept
  OBVIOUS
<1>4. ASSUME Incremental
      PROVE  \A i \in Rows : LandsWith(i, kept) <=> LandsWith(i, {})'
  BY <1>1, <1>3, <1>4 DEF LandsWith
<1>5. ASSUME Incremental, c # None PROVE Honest(c, {})'
  <2>1. Honest(c, kept)
    BY <1>3, <1>5 DEF SkipInv, JobHonest
  <2> QED
    BY <1>4, <1>5, <2>1, HonestGrows
<1>6. ASSUME Incremental PROVE Honest(cursor, {})'
  <2>1. PICK s : s = cursor
    OBVIOUS
  <2>2. Honest(s, {}) /\ \A i \in Rows : LandsWith(i, {}) => LandsWith(i, {})'
    BY <1>4, <1>6, <2>1 DEF SkipInv, LandsWith
  <2>3. Honest(s, {})'
    BY <2>2, HonestGrows
  <2> QED
    BY <2>1, <2>3
<1>7. job'[j] = q
  BY DEF SkipInv, ShapeOK
<1>8. CASE q = Idle
  <2>1. JobOK(j)' /\ JobHonest(j)'
    BY <1>7, <1>8, IdleOK DEF JobOK, JobHonest, Places, Reading
  <2> QED
    BY <1>1, <1>2, <1>3, <1>4, <1>5, <1>6, <2>1, JobSkipStep DEF LandsWith
<1>9. CASE q # Idle
  <2>1. /\ DOMAIN q = JobFields
        /\ q.pc = "cursor" /\ q.kept = kept /\ q.next = c /\ q.at = job[j].at /\ ~Reading(q)'
    BY <1>2, <1>3, <1>9 DEF JobOK, JobFields, Reading
  <2>2. JobOK(j)'
    BY <1>2, <1>3, <1>7, <2>1 DEF JobOK, Places
  <2>3. ASSUME Incremental PROVE JobHonest(j)'
    <3>1. \A i \in kept : table'.rows[i] > 0
      BY <1>2, <1>3, <1>4, <2>3 DEF JobOK, LandsWith
    <3>2. c # None => Honest(c, kept)'
      <4> SUFFICES ASSUME c # None PROVE Honest(c, kept)'
        OBVIOUS
      <4>1. \A i \in Rows : LandsWith(i, kept) => LandsWith(i, kept)'
        BY <1>4, <2>3 DEF LandsWith
      <4> QED
        BY <1>3, <2>3, <4>1, HonestGrows DEF SkipInv, JobHonest
    <3>3. PICK p : p = job'[j]
      OBVIOUS
    <3> QED
      BY <1>7, <2>1, <3>1, <3>2 DEF JobHonest
  <2> QED
    BY <1>1, <1>2, <1>3, <1>4, <1>5, <1>6, <2>2, <2>3, JobSkipStep DEF LandsWith
<1> QED
  BY <1>8, <1>9

(* A sync starts.                                                          *)
LEMMA StartSkipStep ==
    ASSUME SkipInv, NEW j \in Replicas, NEW kind, Start(j, kind), UNCHANGED <<mode, src, bare, late, cursor, table>>
    PROVE  SkipInv'
<1> DEFINE pc == IF Incremental THEN "adopt" ELSE "read"
           q == [job[j] EXCEPT !.kind = kind, !.pc = pc]
<1>1. job' = [job EXCEPT ![j] = q] /\ job[j].pc = "idle"
  BY DEF Start, Busy
<1>2. JobOK(j)
  BY DEF SkipInv, ShapeOK
<1>3. /\ DOMAIN q = JobFields
      /\ q.pc = pc /\ q.kept = {} /\ q.next = None /\ q.at = 0 /\ 0 \in 0 .. MaxRows
  BY <1>1, <1>2, SyncAssumption DEF JobOK, JobFields
<1> HIDE DEF q
<1>4. job'[j] = q
  BY <1>1 DEF SkipInv, ShapeOK
<1>5. JobOK(j)' /\ JobHonest(j)'
  BY <1>3, <1>4 DEF JobOK, JobHonest, Places, Reading
<1>6. TableOK'
  BY DEF SkipInv, ShapeOK, TableOK
<1> QED
  BY <1>1, <1>5, <1>6, QuietSkipStep

(* The job goes to another place and holds what it held.                   *)
Moved(q, p, pc) ==
    /\ DOMAIN q = JobFields
    /\ q.pc = pc /\ q.kept = p.kept /\ q.next = p.next /\ q.from = p.from /\ q.at = p.at

(* The two ways an action writes a job's record.                           *)
LEMMA MoveRecord ==
    ASSUME SkipInv, NEW j \in Replicas, NEW pc, NEW n
    PROVE  /\ Moved([job[j] EXCEPT !.pc = pc], job[j], pc)
           /\ Moved([job[j] EXCEPT !.pc = pc, !.base = n], job[j], pc)
BY DEF SkipInv, ShapeOK, JobOK, JobFields, Moved

(* A job that moves keeps its shape.                                       *)
LEMMA GotoOK ==
    ASSUME SkipInv, NEW j \in Replicas, NEW q, NEW pc \in Places, Moved(q, job[j], pc),
           job' = [job EXCEPT ![j] = q], UNCHANGED <<mode, src, bare>>,
           pc \in {"idle", "adopt", "read", "empty"} => job[j].kept = {} /\ job[j].next = None /\ job[j].at = 0,
           pc # "open", pc = "page" => Reading(job[j])
    PROVE  JobOK(j)' /\ job'[j] = q /\ (pc # "page" => ~Reading(q)')
<1>1. JobOK(j) /\ job'[j] = q
  BY DEF SkipInv, ShapeOK
<1> QED
  BY <1>1 DEF JobOK, Moved, Reading

(* _adopt_committed_resume stores the cursor of the current snapshot.      *)
LEMMA AdoptSkipStep ==
    ASSUME SkipInv, NEW j \in Replicas, AdoptResume(j)
    PROVE  SkipInv'
<1>0. PICK q : q = [job[j] EXCEPT !.pc = "read"]
  OBVIOUS
<1>1. job' = [job EXCEPT ![j] = q] /\ job[j].pc = "adopt" /\ UNCHANGED <<mode, src, bare, late, table>>
  BY <1>0 DEF AdoptResume, source
<1>2. job[j].kept = {} /\ job[j].next = None /\ job[j].at = 0
  BY <1>1 DEF SkipInv, ShapeOK, JobOK
<1>3. /\ JobOK(j)' /\ job'[j] = q /\ q.pc = "read" /\ q.kept = {} /\ q.next = None /\ ~Reading(q)'
  <2>1. "read" \in Places /\ Moved(q, job[j], "read")
    BY <1>0, MoveRecord DEF Places
  <2> QED
    BY <1>1, <1>2, <2>1, GotoOK DEF Moved
<1>4. JobHonest(j)' /\ TableOK'
  BY <1>1, <1>3 DEF JobHonest, TableOK, SkipInv, ShapeOK
<1>5. CASE table.stamp = None
  BY <1>1, <1>3, <1>4, <1>5, QuietSkipStep DEF AdoptResume, source
<1>6. CASE table.stamp # None
  <2>1. PICK c : c = table.stamp
    OBVIOUS
  <2>2. Store(c)
    BY <1>6, <2>1 DEF AdoptResume, source
  <2>3. ASSUME Incremental PROVE Honest(cursor, {})' /\ Honest(c, {})'
    <3>1. Honest(cursor, {}) /\ Honest(c, {}) /\ ShapeOK
      BY <1>6, <2>1, <2>3 DEF SkipInv
    <3>2. Honest(cursor, {})'
      BY <1>1, <2>2, <2>3, <3>1, StoreHonest
    <3>3. \A i \in Rows : LandsWith(i, {}) => LandsWith(i, {})'
      BY <1>1 DEF LandsWith
    <3> QED
      BY <1>1, <3>1, <3>2, <3>3, HonestGrows
  <2>4. Incremental => Honest(table.stamp, {})'
    BY <1>1, <2>1, <2>3
  <2> QED
    BY <1>1, <1>3, <1>4, <2>3, <2>4, JobSkipStep
<1> QED
  BY <1>5, <1>6

(* commit_cursor: the rows that the cursor passes have landed.             *)
LEMMA CursorSkipStep ==
    ASSUME SkipInv, NEW j \in Replicas, CommitCursor(j)
    PROVE  SkipInv'
<1>0. PICK q : q = [job[j] EXCEPT !.pc = "finalize"]
  OBVIOUS
<1>1. job' = [job EXCEPT ![j] = q] /\ job[j].pc = "cursor" /\ UNCHANGED <<mode, src, bare, late, table>>
  BY <1>0 DEF CommitCursor, source
<1>2. PICK c, kept : c = job[j].next /\ kept = job[j].kept
  OBVIOUS
<1>3. /\ JobOK(j)' /\ job'[j] = q /\ q.pc = "finalize" /\ q.kept = kept /\ q.next = c /\ ~Reading(q)'
  <2>1. "finalize" \in Places \ {"idle", "adopt", "read", "empty", "open", "page"} /\ Moved(q, job[j], "finalize")
    BY <1>0, MoveRecord DEF Places
  <2> QED
    BY <1>1, <1>2, <2>1, GotoOK DEF Moved
<1>4. TableOK'
  BY <1>1 DEF TableOK, SkipInv, ShapeOK
<1>5. ASSUME Incremental
      PROVE  /\ \A i \in kept : table.rows[i] > 0
             /\ c # None => Honest(c, kept) /\ Honest(c, kept)'
  <2>1. \A i \in Rows : LandsWith(i, kept) => LandsWith(i, kept)'
    BY <1>1 DEF LandsWith
  <2>2. /\ \A i \in kept : table.rows[i] > 0
        /\ c # None => Honest(c, kept)
    BY <1>1, <1>2, <1>5 DEF SkipInv, JobHonest
  <2> QED
    BY <1>1, <2>1, <2>2, HonestGrows
<1>6. Incremental => JobHonest(j)'
  BY <1>1, <1>3, <1>5 DEF JobHonest
<1>7. CASE c = None
  BY <1>1, <1>2, <1>3, <1>4, <1>6, <1>7, QuietSkipStep DEF CommitCursor, source
<1>8. CASE c # None
  <2>1. Store(c)
    BY <1>2, <1>8 DEF CommitCursor, source
  <2>2. ASSUME Incremental PROVE Honest(cursor, {})'
    <3>1. Honest(c, {})
      BY <1>5, <1>8, <2>2 DEF Honest, LandsWith
    <3> QED
      BY <1>1, <2>1, <2>2, <3>1, StoreHonest DEF SkipInv
  <2>3. ASSUME Incremental, table.stamp # None PROVE Honest(table.stamp, {})'
    <3>1. PICK s : s = table.stamp
      OBVIOUS
    <3>2. Honest(s, {}) /\ \A i \in Rows : LandsWith(i, {}) => LandsWith(i, {})'
      BY <1>1, <2>3, <3>1 DEF SkipInv, LandsWith
    <3>3. Honest(s, {})'
      BY <1>1, <3>2, HonestGrows
    <3> QED
      BY <1>1, <3>1, <3>3
  <2> QED
    BY <1>1, <1>3, <1>4, <1>6, <2>2, <2>3, JobSkipStep
<1> QED
  BY <1>7, <1>8

(* What a job holds once it has read the source from cursor from on.       *)
LEMMA SettleOK ==
    ASSUME SkipInv, NEW j \in Replicas, NEW from, NEW kept, NEW pc, Settle(j, from, kept, pc),
           UNCHANGED <<mode, src, bare>>,
           pc \in {"open", "commit"}, mode = "pages" => pc = "commit",
           kept \subseteq Rows, \A i \in kept : src[i] > 0 \/ i \in bare,
           Incremental =>
              /\ Honest(from, {})
              /\ \A i \in kept : src[i] > 0 => ~Covers(from, i)
              /\ \A i \in Rows \ late : src[i] > 0 => Covers(from, i) \/ i \in kept
    PROVE  \E q, c, dated :
              /\ job' = [job EXCEPT ![j] = q] /\ job'[j] = q /\ JobOK(j)' /\ ~Reading(q)'
              /\ q.kept = kept /\ q.next = c /\ q.pc = IF kept = {} THEN "empty" ELSE pc
              /\ dated = kept \cap Dated
              /\ c = IF Incremental /\ dated # {} THEN Advance(from, dated) ELSE None
              /\ Incremental /\ dated # {} => Honest(c, kept)
              /\ Incremental /\ dated # {} /\ Advance(from, dated) # Merged(from, dated) => capped'
<1>1. PICK dated, c, to :
         /\ dated = kept \cap Dated /\ to = IF kept = {} THEN "empty" ELSE pc
         /\ c = IF Incremental /\ dated # {} THEN Advance(from, dated) ELSE None
  OBVIOUS
<1>2. PICK q : q = [job[j] EXCEPT !.pc = to, !.kept = kept, !.next = c, !.from = None, !.at = 0]
  OBVIOUS
<1>3. /\ job' = [job EXCEPT ![j] = q]
      /\ capped' = (capped \/ (Incremental /\ dated # {} /\ Advance(from, dated) # Merged(from, dated)))
  BY <1>1, <1>2 DEF Settle
<1>4. JobOK(j) /\ job'[j] = q
  BY <1>3 DEF SkipInv, ShapeOK
<1>5. DOMAIN q = JobFields /\ q.pc = to /\ q.kept = kept /\ q.next = c /\ q.at = 0
  BY <1>2, <1>4 DEF JobOK, JobFields
<1>6. dated = {i \in kept : src[i] > 0}
  BY <1>1 DEF Dated
<1>7. ASSUME Incremental, dated # {} PROVE Honest(c, kept)
  <2>1. Honest(c, dated)
    BY <1>1, <1>6, <1>7, AdvanceHonest DEF SkipInv
  <2> QED
    BY <1>6, <2>1 DEF Honest, LandsWith
<1>8. c \in CursorRow \cup {None} /\ (kept = {} => c = None)
  BY <1>1, <1>6, <1>7 DEF Honest, CursorOK
<1>9. JobOK(j)' /\ ~Reading(q)'
  BY <1>1, <1>4, <1>5, <1>8, SyncAssumption DEF JobOK, Places, Reading
<1>10. Incremental /\ dated # {} /\ Advance(from, dated) # Merged(from, dated) => capped'
  BY <1>3, Zenon
<1> QED
  BY <1>1, <1>3, <1>4, <1>5, <1>6, <1>7, <1>9, <1>10

(* fetch_for_dataset of a source that is read in one step.                 *)
LEMMA FetchSettles ==
    ASSUME SkipInv, NEW j \in Replicas, Fetch(j)
    PROVE  /\ Settle(j, cursor, Selected, "open") /\ mode # "pages" /\ job[j].pc = "read"
           /\ UNCHANGED <<mode, src, bare, late, cursor, table>>
           /\ Selected \subseteq Rows /\ \A i \in Selected : src[i] > 0 \/ i \in bare
           /\ Incremental =>
                 /\ Honest(cursor, {})
                 /\ \A i \in Rows : src[i] > 0 => (i \in Selected <=> ~Covers(cursor, i))
                 /\ \A i \in Selected : src[i] = 0 => cursor.cur = 0
<1>1. /\ Settle(j, cursor, Selected, "open") /\ mode # "pages" /\ job[j].pc = "read"
      /\ UNCHANGED <<mode, src, bare, late, cursor, table>>
  BY DEF Fetch, stores, source
<1>2. CASE Incremental
  <2>1. ShapeOK /\ Honest(cursor, {}) /\ CursorOK(cursor)
    BY <1>2 DEF SkipInv, Honest
  <2> QED
    BY <1>1, <1>2, <2>1, SelectedUncovered
<1>3. CASE ~Incremental
  BY <1>1, <1>3 DEF Selected, Incremental
<1> QED
  BY <1>1, <1>2, <1>3

(* The last page ends the read.                                            *)
LEMMA LastPageSettles ==
    ASSUME SkipInv, NEW j \in Replicas, LastPage(j)
    PROVE  /\ Settle(j, job[j].from, job[j].kept, "commit") /\ Incremental /\ Reading(job[j])
           /\ UNCHANGED <<mode, src, bare, late, cursor, table>>
           /\ job[j].kept \subseteq Rows /\ \A i \in job[j].kept : src[i] > 0 \/ i \in bare
           /\ Honest(job[j].from, {})
           /\ \A i \in job[j].kept : src[i] > 0 => ~Covers(job[j].from, i)
           /\ \A i \in Rows \ late : src[i] > 0 => Covers(job[j].from, i) \/ i \in job[j].kept
<1>1. /\ Settle(j, job[j].from, job[j].kept, "commit") /\ job[j].pc = "page" /\ job[j].at = MaxRows
      /\ UNCHANGED <<mode, src, bare, late, cursor, table>>
  BY DEF LastPage, stores, source
<1>2. JobOK(j) /\ Reading(job[j]) /\ Incremental
  BY <1>1 DEF SkipInv, ShapeOK, JobOK, Reading, Incremental
<1>3. PagesHonest(job[j].from, job[j].kept, job[j].at)
  BY <1>2 DEF SkipInv, JobHonest
<1>4. \A i \in Rows : i <= job[j].at
  BY <1>1, SyncAssumption DEF Rows
<1> QED
  BY <1>1, <1>2, <1>3, <1>4 DEF PagesHonest, JobOK

(* Either way the cursor to store passes what was read and no more.        *)
LEMMA SettleSkipStep ==
    ASSUME SkipInv, NEW j \in Replicas, Fetch(j) \/ LastPage(j)
    PROVE  SkipInv'
<1>1. /\ UNCHANGED <<mode, src, bare, late, cursor, table>>
      /\ \E from, kept, pc :
            /\ Settle(j, from, kept, pc)
            /\ pc \in {"open", "commit"} /\ (mode = "pages" => pc = "commit")
            /\ kept \subseteq Rows /\ \A i \in kept : src[i] > 0 \/ i \in bare
            /\ Incremental =>
                  /\ Honest(from, {})
                  /\ \A i \in kept : src[i] > 0 => ~Covers(from, i)
                  /\ \A i \in Rows \ late : src[i] > 0 => Covers(from, i) \/ i \in kept
  BY FetchSettles, LastPageSettles
<1>2. PICK q, c, kept :
         /\ job' = [job EXCEPT ![j] = q] /\ job'[j] = q /\ JobOK(j)' /\ ~Reading(q)'
         /\ q.kept = kept /\ q.next = c /\ q.pc \in {"open", "commit", "empty"}
         /\ Incremental /\ c # None => Honest(c, kept)
  <2>1. PICK from, kept, pc :
            /\ Settle(j, from, kept, pc)
            /\ pc \in {"open", "commit"} /\ (mode = "pages" => pc = "commit")
            /\ kept \subseteq Rows /\ \A i \in kept : src[i] > 0 \/ i \in bare
            /\ Incremental =>
                  /\ Honest(from, {})
                  /\ \A i \in kept : src[i] > 0 => ~Covers(from, i)
                  /\ \A i \in Rows \ late : src[i] > 0 => Covers(from, i) \/ i \in kept
    BY <1>1
  <2>2. PICK q, c, dated :
              /\ job' = [job EXCEPT ![j] = q] /\ job'[j] = q /\ JobOK(j)' /\ ~Reading(q)'
              /\ q.kept = kept /\ q.next = c /\ q.pc = IF kept = {} THEN "empty" ELSE pc
              /\ c = IF Incremental /\ dated # {} THEN Advance(from, dated) ELSE None
              /\ Incremental /\ dated # {} => Honest(c, kept)
    BY <1>1, <2>1, SettleOK
  <2> QED
    BY <2>1, <2>2
<1>3. ASSUME Incremental, c # None PROVE Honest(c, kept)'
  <2>1. \A i \in Rows : LandsWith(i, kept) => LandsWith(i, kept)'
    BY <1>1 DEF LandsWith
  <2> QED
    BY <1>1, <1>2, <1>3, <2>1, HonestGrows
<1>4. (Incremental => JobHonest(j)') /\ TableOK'
  BY <1>1, <1>2, <1>3 DEF JobHonest, SkipInv, ShapeOK, TableOK
<1> QED
  BY <1>1, <1>2, <1>4, QuietSkipStep

(* A paged read starts: nothing is behind it.                              *)
LEMMA OpenPagesSkipStep ==
    ASSUME SkipInv, NEW j \in Replicas, OpenPages(j)
    PROVE  SkipInv'
<1>1. PICK q : q = [job[j] EXCEPT !.pc = "page", !.from = cursor]
  OBVIOUS
<1>2. /\ UNCHANGED <<mode, src, bare, late, cursor, table>> /\ job' = [job EXCEPT ![j] = q]
      /\ job[j].pc = "read" /\ mode = "pages"
  BY <1>1 DEF OpenPages, stores, source
<1>3. JobOK(j) /\ job'[j] = q
  BY <1>2 DEF SkipInv, ShapeOK
<1>4. /\ DOMAIN q = JobFields /\ q.pc = "page" /\ q.kept = {} /\ q.next = None
      /\ q.from = cursor /\ q.at = 0
  BY <1>1, <1>2, <1>3 DEF JobOK, JobFields
<1>5. JobOK(j)'
  BY <1>2, <1>3, <1>4 DEF JobOK, Places, Reading
<1>6. Incremental /\ Honest(cursor, {}) /\ \A i \in Rows : ~(i <= 0)
  BY <1>2 DEF SkipInv, Incremental, Rows
<1>7. PagesHonest(cursor, {}, 0)
  BY <1>6 DEF PagesHonest
<1>8. PagesHonest(q.from, q.kept, q.at)'
  <2>1. PICK c : c = cursor
    OBVIOUS
  <2>2. PagesHonest(c, {}, 0)'
    BY <1>2, <1>7, <2>1, PagesGrow
  <2> QED
    BY <1>4, <2>1, <2>2
<1>9. JobHonest(j)' /\ TableOK'
  BY <1>2, <1>3, <1>4, <1>8 DEF JobHonest, SkipInv, ShapeOK, TableOK
<1> QED
  BY <1>2, <1>5, <1>9, QuietSkipStep

(* One page more.                                                          *)
LEMMA ReadPageSkipStep ==
    ASSUME SkipInv, NEW j \in Replicas, ReadPage(j)
    PROVE  SkipInv'
<1>1. PICK from, place, page, kept, pc :
         /\ from = job[j].from /\ place = job[j].at + 1 /\ page = {place} \cap KeepRows(from)
         /\ kept = job[j].kept \cup page
         /\ pc = IF job[j].kept = {} /\ kept # {} THEN "open" ELSE "page"
  OBVIOUS
<1>2. PICK q : q = [job[j] EXCEPT !.at = place, !.kept = kept, !.pc = pc]
  OBVIOUS
<1>3. /\ UNCHANGED <<mode, src, bare, late, cursor, table>> /\ job' = [job EXCEPT ![j] = q]
      /\ job[j].pc = "page" /\ job[j].at < MaxRows
  BY <1>1, <1>2 DEF ReadPage, stores, source
<1>4. JobOK(j) /\ job'[j] = q /\ mode = "pages" /\ Reading(job[j]) /\ Incremental
  BY <1>3 DEF SkipInv, ShapeOK, JobOK, Reading, Incremental
<1>5. /\ DOMAIN q = JobFields /\ q.pc = pc /\ q.kept = kept /\ q.next = None
      /\ q.from = from /\ q.at = place
  BY <1>1, <1>2, <1>4 DEF JobOK, JobFields
<1>6. PagesHonest(from, job[j].kept, job[j].at)
  BY <1>1, <1>4 DEF SkipInv, JobHonest
<1>7. /\ page \subseteq Rows /\ \A i \in page : src[i] > 0 \/ i \in bare
      /\ \A i \in page : src[i] > 0 => ~Covers(from, i)
      /\ place \in Rows /\ src[place] > 0 => Covers(from, place) \/ place \in page
  <2>1. /\ KeepRows(from) \subseteq Rows
        /\ \A i \in Rows : src[i] > 0 => (i \in KeepRows(from) <=> ~Covers(from, i))
        /\ \A i \in KeepRows(from) : src[i] > 0 \/ (i \in bare /\ src[i] = 0 /\ from.cur = 0)
    BY <1>4, <1>6, KeepUncovered DEF SkipInv, PagesHonest, Honest
  <2> QED
    BY <1>1, <2>1
<1>8. /\ place \in 0 .. MaxRows /\ kept \subseteq Rows /\ \A i \in kept : src[i] > 0 \/ i \in bare
      /\ \A i \in Rows : i <= place => i <= job[j].at \/ i = place
  BY <1>1, <1>3, <1>4, <1>7, SyncAssumption DEF JobOK, Rows
<1>9. JobOK(j)'
  BY <1>1, <1>3, <1>4, <1>5, <1>8 DEF JobOK, Places, Reading
<1>10. PagesHonest(from, kept, place)
  <2>1. \A i \in kept : src[i] > 0 => ~Covers(from, i)
    BY <1>1, <1>6, <1>7 DEF PagesHonest
  <2>2. ASSUME NEW i \in Rows \ late, i <= place, src[i] > 0 PROVE Covers(from, i) \/ i \in kept
    BY <1>1, <1>6, <1>7, <1>8, <2>2 DEF PagesHonest
  <2> QED
    BY <1>6, <2>1, <2>2 DEF PagesHonest
<1>11. PagesHonest(from, kept, place)'
  BY <1>3, <1>10, PagesGrow
<1>12. JobHonest(j)' /\ TableOK'
  BY <1>1, <1>3, <1>4, <1>5, <1>11 DEF JobHonest, SkipInv, ShapeOK, TableOK
<1> QED
  BY <1>3, <1>9, <1>12, QuietSkipStep

(* A new row or file in the source.                                        *)
LEMMA InsertSkipStep ==
    ASSUME SkipInv, NEW i \in Rows, InsertRow(i)
    PROVE  SkipInv'
<1>1. UNCHANGED <<mode, bare, table, cursor, job>> /\ i \notin bare
  BY DEF InsertRow
<1>2. src' \in [Rows -> 0 .. MaxCursor] /\ (\A k \in Rows : src[k] > 0 => src'[k] > 0)
      /\ \A k \in Rows \ {i} : src'[k] = src[k]
  <2> DEFINE now == Max({src[k] : k \in Rows})
  <2>1. PICK t \in {now, now + 1} \ {0} : t <= MaxCursor /\ src' = [src EXCEPT ![i] = t]
    BY DEF InsertRow
  <2>2. now \in Nat /\ src[i] = 0
    <3> DEFINE times == {src[k] : k \in Rows}
    <3>1. /\ times \subseteq Nat /\ times # {} /\ MaxCursor \in Nat
          /\ \A t1 \in times : t1 <= MaxCursor
      BY SyncAssumption DEF SkipInv, ShapeOK
    <3> QED
      BY <3>1, MaxIsGreatest DEF InsertRow
  <2> HIDE DEF now
  <2>3. t \in 0 .. MaxCursor
    BY <2>1, <2>2, SyncAssumption
  <2> QED
    BY <2>1, <2>2, <2>3 DEF SkipInv, ShapeOK
<1>3. \A j \in Replicas : JobOK(j)'
  BY <1>1, <1>2 DEF SkipInv, ShapeOK, JobOK, Reading
<1>4. ShapeOK'
  BY <1>1, <1>2, <1>3 DEF SkipInv, ShapeOK, TableOK
<1>5. ASSUME Incremental, NEW j \in Replicas PROVE JobHonest(j)'
  <2>1. JobHonest(j)
    BY <1>5 DEF SkipInv
  <2>2. ASSUME job[j].next # None PROVE Honest(job[j].next, job[j].kept)'
    <3>1. PICK c, kept : c = job[j].next /\ kept = job[j].kept
      OBVIOUS
    <3>2. Honest(c, kept)
      BY <2>1, <2>2, <3>1 DEF JobHonest
    <3>3. Honest(c, kept)'
      BY <3>1, <3>2, InsertHonest DEF SkipInv
    <3> QED
      BY <1>1, <3>1, <3>3
  <2>3. ASSUME Reading(job[j]) PROVE PagesHonest(job[j].from, job[j].kept, job[j].at)'
    <3>1. PICK from, kept, at : from = job[j].from /\ kept = job[j].kept /\ at = job[j].at
      OBVIOUS
    <3>2. PagesHonest(from, kept, at)
      BY <2>1, <2>3, <3>1 DEF JobHonest
    <3>3. PagesHonest(from, kept, at)'
      BY <2>3, <3>1, <3>2, InsertPages DEF SkipInv
    <3> QED
      BY <1>1, <3>1, <3>3
  <2> QED
    BY <1>1, <2>1, <2>2, <2>3 DEF JobHonest, Reading
<1>6. ASSUME Incremental
      PROVE  Honest(cursor, {})' /\ (table.stamp' # None => Honest(table.stamp, {})')
  <2>1. PICK c, s : c = cursor /\ s = table.stamp
    OBVIOUS
  <2>2. Honest(c, {}) /\ (s # None => Honest(s, {}))
    BY <1>6, <2>1 DEF SkipInv
  <2>3. Honest(c, {})' /\ (s # None => Honest(s, {})')
    BY <2>2, InsertHonest DEF SkipInv
  <2> QED
    BY <1>1, <2>1, <2>3
<1> QED
  BY <1>1, <1>4, <1>5, <1>6 DEF SkipInv, Incremental

(* A row without a cursor value is behind no cursor.                       *)
LEMMA BareSkipStep ==
    ASSUME SkipInv, NEW i \in Rows, InsertBare(i)
    PROVE  SkipInv'
<1>1. UNCHANGED <<mode, src, late, table, cursor, job>> /\ bare' = bare \cup {i} /\ src[i] = 0
  BY DEF InsertBare
<1>2. \A j \in Replicas : JobOK(j)'
  BY <1>1 DEF SkipInv, ShapeOK, JobOK, Reading
<1>3. ShapeOK'
  BY <1>1, <1>2 DEF SkipInv, ShapeOK, TableOK
<1> QED
  BY <1>1, <1>3 DEF SkipInv, Incremental, Honest, CursorOK, Covers, LandsWith, JobHonest, PagesHonest, Reading

(* cancel_all leaves the thread of a commit to run on.                     *)
LEMMA CancelledOK ==
    ASSUME SkipInv, NEW j \in Replicas, NEW q, q = Cancelled(job[j])
    PROVE  q \in {job[j], Idle} \/
              (/\ q = [job[j] EXCEPT !.pc = "orphan"]
               /\ job[j].pc \in {"commit", "empty", "orphan"})
BY DEF Cancelled

(* Every step keeps it.                                                    *)
LEMMA StepSkipInv ==
    ASSUME SkipInv, [Next]_vars
    PROVE  SkipInv'
<1>1. ASSUME UNCHANGED <<mode, src, bare, late, cursor, table, job>> PROVE SkipInv'
  BY <1>1 DEF SkipInv, ShapeOK, TableOK, JobOK, Incremental, Honest, CursorOK, Covers, LandsWith,
     JobHonest, PagesHonest, Reading
<1>2. CASE UNCHANGED vars \/ LoseConnection \/ Quiesce \/ \E r \in Replicas : TryLock(r)
  BY <1>1, <1>2 DEF vars, stores, LoseConnection, Quiesce, TryLock, source
<1>3. ASSUME NEW r \in Replicas, RunSync(r) \/ SubmitDue(r) PROVE SkipInv'
  BY <1>3, StartSkipStep DEF RunSync, SubmitDue, stores, source
<1>4. ASSUME NEW r \in Replicas, Crash(r) \/ SyncFails(r) \/ Finalize(r) PROVE SkipInv'
  BY <1>4, EndSkipStep DEF Crash, SyncFails, Finalize, stores, source
<1>5. ASSUME NEW r \in Replicas, NoticeLoss(r) PROVE SkipInv'
  <2>1. PICK q : q = Cancelled(job[r])
    OBVIOUS
  <2>2. /\ UNCHANGED <<mode, src, bare, late, cursor, table>>
        /\ job' = [job EXCEPT ![r] = q] /\ TableOK'
    BY <1>5, <2>1 DEF NoticeLoss, stores, SkipInv, ShapeOK, TableOK, source
  <2>3. CASE q = Idle
    BY <2>2, <2>3, EndSkipStep
  <2>4. CASE q = job[r]
    <3>1. job' = job
      BY <2>2, <2>4 DEF SkipInv, ShapeOK
    <3> QED
      BY <1>1, <2>2, <3>1
  <2>5. CASE q = [job[r] EXCEPT !.pc = "orphan"]
    <3>1. /\ JobOK(r)' /\ job'[r] = q /\ q.pc = "orphan"
          /\ q.kept = job[r].kept /\ q.next = job[r].next /\ ~Reading(q)'
      <4>1. "orphan" \in Places \ {"idle", "adopt", "read", "empty", "open", "page"} /\ Moved(q, job[r], "orphan")
        BY <2>5, MoveRecord DEF Places
      <4> QED
        BY <2>2, <4>1, GotoOK DEF Moved
    <3>2. ASSUME Incremental PROVE JobHonest(r)'
      <4>1. PICK c, kept : c = job[r].next /\ kept = job[r].kept
        OBVIOUS
      <4>2. \A i \in Rows : LandsWith(i, kept) => LandsWith(i, kept)'
        BY <2>2 DEF LandsWith
      <4>3. c # None => Honest(c, kept)'
        BY <2>2, <3>2, <4>1, <4>2, HonestGrows DEF SkipInv, JobHonest
      <4> QED
        BY <3>1, <4>1, <4>3 DEF JobHonest
    <3> QED
      BY <2>2, <3>1, <3>2, QuietSkipStep
  <2> QED
    BY <2>1, <2>3, <2>4, <2>5, CancelledOK
<1>6. ASSUME NEW j \in Replicas, OpenTransaction(j) PROVE SkipInv'
  <2>1. PICK q, pc : /\ pc = IF mode = "pages" THEN "page" ELSE "commit"
                     /\ q = [job[j] EXCEPT !.pc = pc, !.base = table.snap]
    OBVIOUS
  <2>2. /\ UNCHANGED <<mode, src, bare, late, cursor>> /\ job' = [job EXCEPT ![j] = q]
        /\ table' = [table EXCEPT !.exists = TRUE] /\ job[j].pc = "open"
    BY <1>6, <2>1 DEF OpenTransaction, source
  <2>3. TableOK' /\ table'.rows = table.rows /\ table'.stamp = table.stamp
    BY <2>2 DEF SkipInv, ShapeOK, TableOK
  <2>4. /\ JobOK(j)' /\ job'[j] = q /\ q.pc = pc
        /\ q.kept = job[j].kept /\ q.next = job[j].next /\ q.from = job[j].from /\ q.at = job[j].at
        /\ Reading(q)' => Reading(job[j])
    <3>1. pc \in Places \ {"idle", "adopt", "read", "empty", "open"} /\ Moved(q, job[j], pc)
      BY <2>1, MoveRecord DEF Places
    <3>2. pc = "page" => Reading(job[j])
      BY <2>1, <2>2 DEF Reading
    <3> QED
      BY <2>2, <3>1, <3>2, GotoOK DEF Moved
  <2>5. ASSUME Incremental PROVE JobHonest(j)'
    <3>1. PICK c, kept, from, at :
             c = job[j].next /\ kept = job[j].kept /\ from = job[j].from /\ at = job[j].at
      OBVIOUS
    <3>2. \A i \in Rows : LandsWith(i, kept) => LandsWith(i, kept)'
      BY <2>3 DEF LandsWith
    <3>3. c # None => Honest(c, kept)'
      BY <2>2, <2>5, <3>1, <3>2, HonestGrows DEF SkipInv, JobHonest
    <3>4. Reading(job[j]) => PagesHonest(from, kept, at)'
      <4> SUFFICES ASSUME Reading(job[j]) PROVE PagesHonest(from, kept, at)'
        OBVIOUS
      <4>1. PagesHonest(from, kept, at)
        BY <2>5, <3>1 DEF SkipInv, JobHonest
      <4> QED
        BY <2>2, <2>3, <4>1, PagesGrow
    <3>5. q.pc \notin {"cursor", "finalize"}
      BY <2>1, <2>4
    <3> QED
      BY <2>4, <3>1, <3>3, <3>4, <3>5 DEF JobHonest
  <2> QED
    BY <2>2, <2>3, <2>4, <2>5, QuietSkipStep
<1>7. ASSUME NEW j \in Replicas, CommitSnapshot(j) \/ CommitUnknown(j) \/ OrphanEnds(j) PROVE SkipInv'
  <2>1. UNCHANGED <<mode, src, bare, late, cursor>>
    BY <1>7 DEF CommitSnapshot, CommitUnknown, OrphanEnds, source
  <2>2. \/ table' = table /\ job' = [job EXCEPT ![j] = Idle]
        \/ table' = Landed(j) /\ job' = [job EXCEPT ![j] = Idle]
        \/ table' = Landed(j) /\ job' = [job EXCEPT ![j] = [job[j] EXCEPT !.pc = "cursor", !.base = table.snap + 1]]
    BY <1>7 DEF CommitSnapshot, CommitUnknown, OrphanEnds, source
  <2> QED
    BY <2>1, <2>2, EndSkipStep, LandSkipStep
<1>8. ASSUME NEW j \in Replicas, CommitEmpty(j) PROVE SkipInv'
  <2> DEFINE emptied == ~Incremental /\ table.exists
             n == table.snap + (IF emptied THEN 1 ELSE 0)
  <2>1. UNCHANGED <<mode, src, bare, late, cursor>> /\ job[j].pc = "empty"
    BY <1>8 DEF CommitEmpty, source
  <2>2. CASE Incremental /\ ~table.exists
    BY <1>8, <2>1, <2>2, EndSkipStep DEF CommitEmpty, source
  <2>3. CASE ~(Incremental /\ ~table.exists)
    <3>1. PICK q : q = [job[j] EXCEPT !.pc = "cursor", !.base = n]
      OBVIOUS
    <3>2. job' = [job EXCEPT ![j] = q] /\ table' = IF emptied THEN Landed(j) ELSE table
      BY <1>8, <2>3, <3>1 DEF CommitEmpty, source
    <3>3. CASE emptied
      BY <2>1, <3>1, <3>2, <3>3, LandSkipStep
    <3>4. CASE ~emptied
      <4>1. table' = table /\ TableOK'
        BY <3>2, <3>4 DEF SkipInv, ShapeOK, TableOK
      <4>2. /\ JobOK(j)' /\ job'[j] = q /\ q.pc = "cursor"
            /\ q.kept = job[j].kept /\ q.next = job[j].next /\ ~Reading(q)'
        <5>1. "cursor" \in Places \ {"idle", "adopt", "read", "empty", "open", "page"} /\ Moved(q, job[j], "cursor")
          BY <3>1, MoveRecord DEF Places
        <5> QED
          BY <2>1, <3>2, <5>1, GotoOK DEF Moved
      <4>3. q.kept = {} /\ q.next = None
        BY <2>1, <4>2 DEF SkipInv, ShapeOK, JobOK
      <4>4. JobHonest(j)'
        BY <4>2, <4>3 DEF JobHonest
      <4> QED
        BY <2>1, <3>2, <4>1, <4>2, <4>4, QuietSkipStep
    <3> QED
      BY <3>3, <3>4
  <2> QED
    BY <2>2, <2>3
<1> QED
  BY <1>2, <1>3, <1>4, <1>5, <1>6, <1>7, <1>8, InsertSkipStep, BareSkipStep, AdoptSkipStep, SettleSkipStep,
     OpenPagesSkipStep, ReadPageSkipStep, CursorSkipStep DEF Next, Poll, SyncStep

(* The stored cursor passes no row with a cursor value that has not        *)
(* landed, also when syncs of several replicas overlap, fail or are cut    *)
(* off and the source changes between its pages; a file, or a row of a     *)
(* page already read, that came late is the exception.                     *)
THEOREM CursorSkipsNothing == Spec => []NothingSkipped
<1>1. SkipInv => NothingSkipped
  BY DEF SkipInv, Honest, LandsWith, NothingSkipped, Dated
<1> QED
  BY InitSkipInv, StepSkipInv, <1>1, PTL DEF Spec

-----------------------------------------------------------------------------
(* At the start no row has landed.                                         *)
LEMMA InitOnceInv == Init => OnceInv
<1> SUFFICES ASSUME Init PROVE OnceInv
  OBVIOUS
<1>1. (\A i \in Rows : table.rows[i] = 0) /\ \A j \in Replicas : job[j] = Idle
  BY DEF Init
<1>2. \A j \in Replicas : ~Busy(j) /\ JobOnce(j)
  BY <1>1, IdleOK DEF Busy, JobOnce
<1> QED
  BY <1>1, <1>2 DEF OnceInv, OnceOK, RowsLandOnce

(* In a clean run a step is about the one sync in flight.                  *)
LEMMA JobOnceStep ==
    ASSUME SkipInv, OnceOK, NEW j \in Replicas, Busy(j) \/ \A k \in Replicas : ~Busy(k),
           NEW q, job' = [job EXCEPT ![j] = q], JobOnce(j)', UNCHANGED <<mode, src, bare>>,
           \A i \in Rows \ bare : table'.rows[i] > 0 =>
              /\ src[i] > 0
              /\ Covers(cursor, i)' \/ (table.stamp' # None /\ Covers(table.stamp, i)')
    PROVE  OnceOK'
<1>1. ASSUME NEW o \in Replicas \ {j} PROVE job'[o] = job[o] /\ job[o].pc = "idle"
  <2>1. ~Busy(o)
    BY DEF OnceOK
  <2> QED
    BY <2>1 DEF SkipInv, ShapeOK, Busy
<1>2. ASSUME NEW o \in Replicas \ {j} PROVE ~Busy(o)' /\ JobOnce(o)'
  BY <1>1, <1>2 DEF Busy, JobOnce, Reading
<1> QED
  BY <1>2 DEF OnceOK

(* A clean run was clean.                                                  *)
LEMMA StaysClean == ASSUME [Next]_vars PROVE mode' = mode /\ (Clean' => Clean)
<1>1. /\ mode' = mode
      /\ overlapped' = overlapped \/ (\E kind : \E j \in Replicas : Start(j, kind))
      /\ capped' = capped \/ \E j \in Replicas : Fetch(j) \/ LastPage(j)
  BY DEF Next, vars, InsertRow, InsertBare, OpenPages, ReadPage, LastPage, RunSync, Poll, TryLock, SubmitDue, NoticeLoss, Crash, SyncStep,
     AdoptResume, Fetch, OpenTransaction, CommitSnapshot, CommitEmpty, CommitCursor, Finalize,
     OrphanEnds, CommitUnknown, SyncFails, LoseConnection, Quiesce, source
<1>2. overlapped => overlapped'
  <2>1. ASSUME NEW j \in Replicas, NEW kind, Start(j, kind)
        PROVE  overlapped' = (overlapped \/ \E k \in Replicas : Busy(k))
    BY <2>1 DEF Start
  <2> QED
    BY <1>1, <2>1, Zenon
<1>3. capped => capped'
  <2>1. ASSUME NEW j \in Replicas, Fetch(j) \/ LastPage(j)
        PROVE  \E x : capped' = (capped \/ x)
    BY <2>1 DEF Fetch, LastPage, Settle
  <2> QED
    BY <1>1, <2>1, Zenon
<1> QED
  BY <1>1, <1>2, <1>3 DEF Clean, Incremental

(* The sync moves on, and the table's rows and the cursors are as before.  *)
LEMMA QuietOnceStep ==
    ASSUME SkipInv, OnceInv, NEW j \in Replicas, NEW q, job' = [job EXCEPT ![j] = q],
           UNCHANGED <<mode, src, bare, cursor>>,
           table'.rows = table.rows, table'.stamp = table.stamp,
           Clean' => Clean, Clean' => Busy(j) \/ \A k \in Replicas : ~Busy(k),
           Clean' => JobOnce(j)'
    PROVE  OnceInv'
<1>1. RowsLandOnce'
  BY DEF OnceInv, RowsLandOnce, Clean, Incremental
<1>2. ASSUME Clean' PROVE OnceOK'
  <2>1. OnceOK
    BY <1>2 DEF OnceInv
  <2>2. \A i \in Rows \ bare : table'.rows[i] > 0 =>
           /\ src[i] > 0
           /\ Covers(cursor, i)' \/ (table.stamp' # None /\ Covers(table.stamp, i)')
    BY <2>1 DEF OnceOK, Covers
  <2> QED
    BY <1>2, <2>1, <2>2, JobOnceStep
<1> QED
  BY <1>1, <1>2 DEF OnceInv

(* A transaction lands: its rows were not in the table, and its snapshot   *)
(* carries a cursor that covers what the table now holds.                  *)
LEMMA LandOnceStep ==
    ASSUME SkipInv, OnceInv, NEW j \in Replicas, table' = Landed(j),
           UNCHANGED <<mode, src, bare, cursor>>, Clean' => Clean,
           job[j].pc \in {"commit", "orphan", "empty"}, Incremental => job[j].pc # "empty",
           Incremental /\ job[j].pc = "orphan" => job[j].kept # {},
           NEW q, job' = [job EXCEPT ![j] = q], q.pc \in {"idle", "cursor"}
    PROVE  OnceInv'
<1>1. /\ table'.stamp = job[j].next
      /\ \A i \in Rows : table'.rows[i] = (IF Incremental THEN table.rows[i] ELSE 0)
                                          + (IF i \in job[j].kept THEN 1 ELSE 0)
      /\ Incremental => \A i \in Rows : table'.rows[i] > 0 <=> LandsWith(i, job[j].kept)
  BY LandedOK
<1>2. JobOK(j) /\ job'[j] = q /\ \A i \in Rows : table.rows[i] \in Nat
  BY DEF SkipInv, ShapeOK, TableOK
<1>3. CASE ~Incremental
  <2>1. \A i \in Rows : table'.rows[i] <= 1
    BY <1>1, <1>3
  <2> QED
    BY <1>3, <2>1 DEF OnceInv, RowsLandOnce, Clean, Incremental
<1>4. CASE Incremental /\ Clean'
  <2>1. OnceOK /\ RowsLandOnce /\ Busy(j)
    BY <1>4 DEF OnceInv, Busy
  <2>2. /\ job[j].kept # {}
        /\ \A i \in job[j].kept \ bare : table.rows[i] = 0
        /\ \A i \in Rows \ bare :
              LandsWith(i, job[j].kept) => job[j].next # None /\ Covers(job[j].next, i)
    BY <1>4, <2>1 DEF OnceOK, JobOnce, HoldsOnce, Reading
  <2>3. \A i \in Rows \ bare : table.rows[i] <= 1
    BY <1>4, <2>1 DEF RowsLandOnce, Clean
  <2>4. \A i \in Rows \ bare : table'.rows[i] <= 1
    BY <1>1, <1>2, <1>4, <2>2, <2>3
  <2>5. \A i \in Rows : Covers(table.stamp, i)' <=> Covers(job[j].next, i)
    BY <1>1 DEF Covers
  <2>6. \A i \in Rows \ bare : LandsWith(i, job[j].kept) => src[i] > 0
    BY <1>2, <2>1 DEF LandsWith, JobOK, OnceOK
  <2>7. JobOnce(j)'
    BY <1>2 DEF JobOnce, Reading
  <2>8. OnceOK'
    BY <1>1, <1>4, <2>1, <2>2, <2>5, <2>6, <2>7, JobOnceStep
  <2> QED
    BY <1>4, <2>4, <2>8 DEF OnceInv, RowsLandOnce, Incremental
<1> QED
  BY <1>3, <1>4 DEF OnceInv, RowsLandOnce, Clean, Incremental

(* A sync starts, and in a clean run it is alone.                          *)
LEMMA StartOnceStep ==
    ASSUME SkipInv, OnceInv, NEW j \in Replicas, NEW kind, Start(j, kind), Clean' => Clean,
           UNCHANGED <<mode, src, bare, cursor, table>>
    PROVE  OnceInv'
<1> DEFINE pc == IF Incremental THEN "adopt" ELSE "read"
           q == [job[j] EXCEPT !.kind = kind, !.pc = pc]
<1>1. job' = [job EXCEPT ![j] = q] /\ job[j].pc = "idle"
  BY DEF Start, Busy
<1>2. q.pc = pc /\ (Clean' => pc = "adopt")
  BY DEF SkipInv, ShapeOK, JobOK, JobFields, Clean
<1> HIDE DEF q, pc
<1>3. job'[j] = q
  BY <1>1 DEF SkipInv, ShapeOK
<1>4. Clean' => JobOnce(j)'
  BY <1>2, <1>3 DEF JobOnce, Reading
<1>5. Clean' => \A k \in Replicas : ~Busy(k)
  <2>1. overlapped' = (overlapped \/ \E k \in Replicas : Busy(k))
    BY DEF Start
  <2> QED
    BY <2>1, Zenon DEF Clean
<1> QED
  BY <1>1, <1>4, <1>5, QuietOnceStep

(* The sync ends, fails or goes on to a place where nothing is at stake.   *)
LEMMA EndOnceStep ==
    ASSUME SkipInv, OnceInv, NEW j \in Replicas, NEW q, job' = [job EXCEPT ![j] = q],
           q.pc \in {"idle", "cursor", "finalize", "empty"},
           UNCHANGED <<mode, src, bare, cursor, table>>, Clean' => Clean,
           Busy(j) \/ q = Idle
    PROVE  OnceInv'
<1>1. job'[j] = q
  BY DEF SkipInv, ShapeOK
<1>2. JobOnce(j)'
  BY <1>1 DEF JobOnce, Reading
<1>3. CASE Busy(j)
  BY <1>2, <1>3, QuietOnceStep
<1>4. CASE ~Busy(j) /\ q = Idle
  <2>1. RowsLandOnce'
    BY DEF OnceInv, RowsLandOnce, Clean, Incremental
  <2>2. \A o \in Replicas : /\ Busy(o)' => Busy(o)
                            /\ o # j => job'[o] = job[o]
    BY <1>1, <1>4, IdleOK DEF SkipInv, ShapeOK, Busy
  <2>3. ASSUME Clean' PROVE OnceOK'
    <3>1. OnceOK
      BY <2>3 DEF OnceInv
    <3>2. ASSUME NEW o \in Replicas PROVE JobOnce(o)'
      BY <1>2, <2>2, <3>1 DEF OnceOK, JobOnce, ReadsOnce, HoldsOnce, Reading, Covers, LandsWith
    <3> QED
      BY <2>2, <3>1, <3>2 DEF OnceOK, Covers
  <2> QED
    BY <2>1, <2>3 DEF OnceInv
<1> QED
  BY <1>3, <1>4

(* A sync adopts the cursor of the snapshot: what is stored then covers    *)
(* every row that has landed.                                              *)
LEMMA AdoptOnceStep ==
    ASSUME SkipInv, OnceInv, NEW j \in Replicas, AdoptResume(j), Clean' => Clean
    PROVE  OnceInv'
<1> DEFINE q == [job[j] EXCEPT !.pc = "read"]
<1>1. job' = [job EXCEPT ![j] = q] /\ job[j].pc = "adopt" /\ UNCHANGED <<mode, src, bare, table>>
  BY DEF AdoptResume, source
<1>2. Moved(q, job[j], "read")
  BY MoveRecord
<1> HIDE DEF q
<1>3. job'[j] = q /\ q.pc = "read"
  BY <1>1, <1>2 DEF SkipInv, ShapeOK, Moved
<1>4. RowsLandOnce'
  BY <1>1 DEF OnceInv, RowsLandOnce, Clean, Incremental
<1>5. ASSUME Clean' PROVE OnceOK'
  <2>1. OnceOK /\ Clean /\ Incremental /\ Busy(j)
    BY <1>1, <1>5 DEF OnceInv, Clean, Busy
  <2>2. ASSUME NEW i \in Rows \ bare, table.rows[i] > 0 PROVE Covers(cursor, i)'
    <3>1. CASE table.stamp = None
      <4>1. cursor' = cursor /\ Covers(cursor, i)
        BY <2>1, <2>2, <3>1 DEF AdoptResume, OnceOK, source
      <4> QED
        BY <1>1, <4>1 DEF Covers
    <3>2. CASE table.stamp # None
      <4>1. PICK c : c = table.stamp
        OBVIOUS
      <4>2. Store(c) /\ CursorOK(c) /\ CursorOK(cursor) /\ ShapeOK
        BY <2>1, <3>2, <4>1 DEF AdoptResume, SkipInv, Honest, source
      <4>3. Covers(cursor, i) \/ Covers(c, i)
        BY <2>1, <2>2, <4>1 DEF OnceOK
      <4> QED
        BY <1>1, <2>1, <4>2, <4>3, StoreJoins
    <3> QED
      BY <3>1, <3>2
  <2>3. JobOnce(j)'
    BY <1>1, <1>3, <2>2 DEF JobOnce, ReadsOnce, Reading
  <2> QED
    BY <1>1, <2>1, <2>2, <2>3, JobOnceStep DEF OnceOK
<1> QED
  BY <1>4, <1>5 DEF OnceInv

(* A sync stores its cursor: what was covered stays covered.               *)
LEMMA CursorOnceStep ==
    ASSUME SkipInv, OnceInv, NEW j \in Replicas, CommitCursor(j), Clean' => Clean
    PROVE  OnceInv'
<1> DEFINE q == [job[j] EXCEPT !.pc = "finalize"]
<1>1. job' = [job EXCEPT ![j] = q] /\ job[j].pc = "cursor" /\ UNCHANGED <<mode, src, bare, table>>
  BY DEF CommitCursor, source
<1>2. Moved(q, job[j], "finalize")
  BY MoveRecord
<1> HIDE DEF q
<1>3. job'[j] = q /\ q.pc = "finalize"
  BY <1>1, <1>2 DEF SkipInv, ShapeOK, Moved
<1>4. RowsLandOnce'
  BY <1>1 DEF OnceInv, RowsLandOnce, Clean, Incremental
<1>5. ASSUME Clean' PROVE OnceOK'
  <2>1. OnceOK /\ Clean /\ Incremental /\ Busy(j)
    BY <1>1, <1>5 DEF OnceInv, Clean, Busy
  <2>2. \A i \in Rows : Covers(cursor, i) => Covers(cursor, i)'
    <3>1. CASE job[j].next = None
      BY <1>1, <3>1 DEF CommitCursor, Covers, source
    <3>2. CASE job[j].next # None
      <4>1. PICK c : c = job[j].next
        OBVIOUS
      <4>2. Store(c) /\ CursorOK(c) /\ CursorOK(cursor) /\ ShapeOK
        BY <2>1, <3>2, <4>1 DEF CommitCursor, SkipInv, JobHonest, Honest, source
      <4> QED
        BY <1>1, <2>1, <4>2, StoreJoins
    <3> QED
      BY <3>1, <3>2
  <2>3. \A i \in Rows : Covers(table.stamp, i) => Covers(table.stamp, i)'
    BY <1>1 DEF Covers
  <2>4. JobOnce(j)'
    BY <1>3 DEF JobOnce, Reading
  <2> QED
    BY <1>1, <2>1, <2>2, <2>3, <2>4, JobOnceStep DEF OnceOK
<1> QED
  BY <1>4, <1>5 DEF OnceInv

(* A sync reads what its cursor does not cover, and so no row that has     *)
(* landed; the cursor it will store covers both.                           *)
LEMMA SettleOnceStep ==
    ASSUME SkipInv, OnceInv, NEW j \in Replicas, Fetch(j) \/ LastPage(j), Clean' => Clean
    PROVE  OnceInv'
<1>1. /\ UNCHANGED <<mode, src, bare, late, cursor, table>> /\ Busy(j)
      /\ \E from, kept, pc :
            /\ Settle(j, from, kept, pc)
            /\ pc \in {"open", "commit"} /\ (mode = "pages" => pc = "commit")
            /\ kept \subseteq Rows /\ \A i \in kept : src[i] > 0 \/ i \in bare
            /\ Incremental =>
                  /\ Honest(from, {})
                  /\ \A i \in kept : src[i] > 0 => ~Covers(from, i)
                  /\ \A i \in Rows \ late : src[i] > 0 => Covers(from, i) \/ i \in kept
            /\ Clean => ReadsOnce(from, kept)
  <2>1. CASE Fetch(j)
    <3>1. Clean => ReadsOnce(cursor, {})
      BY <2>1, FetchSettles DEF OnceInv, OnceOK, JobOnce
    <3>2. Clean => ReadsOnce(cursor, Selected)
      BY <2>1, <3>1, FetchSettles DEF ReadsOnce, Clean
    <3> QED
      BY <2>1, <3>2, FetchSettles DEF Busy
  <2>2. CASE LastPage(j)
    <3>1. Clean => ReadsOnce(job[j].from, job[j].kept)
      BY <2>2, LastPageSettles DEF OnceInv, OnceOK, JobOnce
    <3> QED
      BY <2>2, <3>1, LastPageSettles DEF Busy, LastPage
  <2> QED
    BY <2>1, <2>2
<1>2. PICK from, kept, pc :
            /\ Settle(j, from, kept, pc)
            /\ pc \in {"open", "commit"} /\ (mode = "pages" => pc = "commit")
            /\ kept \subseteq Rows /\ \A i \in kept : src[i] > 0 \/ i \in bare
            /\ Incremental =>
                  /\ Honest(from, {})
                  /\ \A i \in kept : src[i] > 0 => ~Covers(from, i)
                  /\ \A i \in Rows \ late : src[i] > 0 => Covers(from, i) \/ i \in kept
            /\ Clean => ReadsOnce(from, kept)
  BY <1>1
<1>3. PICK q, c, dated :
              /\ job' = [job EXCEPT ![j] = q] /\ job'[j] = q /\ JobOK(j)' /\ ~Reading(q)'
              /\ q.kept = kept /\ q.next = c /\ q.pc = IF kept = {} THEN "empty" ELSE pc
              /\ dated = kept \cap Dated
              /\ c = IF Incremental /\ dated # {} THEN Advance(from, dated) ELSE None
              /\ Incremental /\ dated # {} => Honest(c, kept)
              /\ Incremental /\ dated # {} /\ Advance(from, dated) # Merged(from, dated) => capped'
  BY <1>1, <1>2, SettleOK
<1>4. \A i \in kept : i \in dated <=> src[i] > 0
  BY <1>2, <1>3 DEF Dated
<1>5. ASSUME Clean' PROVE JobOnce(j)'
  <2>1. /\ OnceOK /\ Incremental /\ ShapeOK /\ ReadsOnce(from, kept) /\ ~capped'
        /\ \A i \in Rows : table.rows[i] \in Nat /\ src[i] \in Nat
    BY <1>2, <1>5, SyncAssumption DEF OnceInv, Clean, SkipInv, ShapeOK, TableOK
  <2>2. CASE dated = {}
    <3>1. kept # {} => from.cur = 0
      <4> SUFFICES ASSUME kept # {} PROVE from.cur = 0
        OBVIOUS
      <4>1. PICK i \in kept : src[i] = 0
        BY <1>2, <1>4, <2>1, <2>2
      <4> QED
        BY <2>1, <4>1 DEF ReadsOnce
    <3>2. ASSUME kept # {}, NEW i \in Rows \ bare PROVE ~LandsWith(i, kept)
      <4>1. i \notin kept
        BY <1>2, <1>4, <2>2, <3>2
      <4>2. table.rows[i] > 0 => src[i] > 0 /\ Covers(from, i)
        BY <2>1, <3>2 DEF OnceOK, ReadsOnce
      <4>3. src[i] > 0 => ~Covers(from, i)
        BY <2>1, <3>1, <3>2 DEF Covers
      <4> QED
        BY <4>1, <4>2, <4>3 DEF LandsWith
    <3>3. kept # {} => HoldsOnce(c, kept)
      BY <2>1, <3>2, <1>2 DEF HoldsOnce, LandsWith
    <3>4. kept # {} => HoldsOnce(c, kept)'
      BY <1>1, <3>3 DEF HoldsOnce, LandsWith, Covers
    <3> QED
      BY <1>2, <1>3, <3>4 DEF JobOnce
  <2>3. CASE dated # {}
    <3>1. Advance(from, dated) = Merged(from, dated) /\ c = Advance(from, dated)
      <4>1. c = Advance(from, dated)
        BY <1>3, <2>1, <2>3
      <4> QED
        BY <1>3, <2>1, <2>3, <4>1, Zenon
    <3>2. \A i \in Rows : src[i] > 0 /\ (Covers(from, i) \/ i \in dated) => Covers(c, i)
      <4>1. /\ \A i \in dated : src[i] > 0 /\ ~Covers(from, i)
            /\ \A i \in Rows \ late : src[i] > 0 => Covers(from, i) \/ i \in dated
            /\ dated \subseteq Rows
        BY <1>2, <1>3, <1>4, <2>1
      <4> QED
        BY <1>2, <2>1, <2>3, <3>1, <4>1, AdvanceHonest
    <3>3. c # None
      BY <1>3, <2>1, <2>3, SyncAssumption DEF Honest, CursorOK
    <3>4. \A i \in kept \ bare : table.rows[i] = 0
      BY <1>2, <2>1 DEF ReadsOnce
    <3>5. ASSUME NEW i \in Rows \ bare, LandsWith(i, kept) PROVE Covers(c, i)
      <4>1. src[i] > 0 /\ (Covers(from, i) \/ i \in dated)
        BY <1>2, <1>4, <2>1, <3>5 DEF LandsWith, OnceOK, ReadsOnce
      <4> QED
        BY <3>2, <4>1
    <3>6. HoldsOnce(c, kept)
      BY <3>3, <3>4, <3>5 DEF HoldsOnce
    <3>7. HoldsOnce(c, kept)'
      BY <1>1, <3>6 DEF HoldsOnce, LandsWith, Covers
    <3> QED
      BY <1>2, <1>3, <3>7 DEF JobOnce
  <2> QED
    BY <2>2, <2>3
<1> QED
  BY <1>1, <1>3, <1>5, QuietOnceStep

(* Between two pages.                                                      *)
LEMMA PagesOnceStep ==
    ASSUME SkipInv, OnceInv, NEW j \in Replicas, OpenPages(j) \/ ReadPage(j), Clean' => Clean
    PROVE  OnceInv'
<1>1. UNCHANGED <<mode, src, bare, cursor, table>> /\ Busy(j) /\ JobOK(j)
  BY DEF OpenPages, ReadPage, stores, source, Busy, SkipInv, ShapeOK
<1>2. CASE OpenPages(j)
  <2>1. PICK q : q = [job[j] EXCEPT !.pc = "page", !.from = cursor]
    OBVIOUS
  <2>2. job' = [job EXCEPT ![j] = q] /\ job[j].pc = "read" /\ mode = "pages"
    BY <1>2, <2>1 DEF OpenPages
  <2>3. job'[j] = q /\ q.pc = "page" /\ q.from = cursor /\ q.kept = {} /\ Reading(q)'
    BY <1>1, <2>1, <2>2 DEF SkipInv, ShapeOK, JobOK, JobFields, Reading
  <2>4. ASSUME Clean' PROVE JobOnce(j)'
    <3>1. ReadsOnce(cursor, {})
      BY <2>2, <2>4 DEF OnceInv, OnceOK, JobOnce
    <3>2. PICK c : c = cursor
      OBVIOUS
    <3>3. ReadsOnce(c, {})'
      BY <1>1, <3>1, <3>2 DEF ReadsOnce, Covers
    <3> QED
      BY <2>3, <3>2, <3>3 DEF JobOnce
  <2> QED
    BY <1>1, <2>2, <2>4, QuietOnceStep
<1>3. CASE ReadPage(j)
  <2>1. PICK from, place, page, kept, pc :
         /\ from = job[j].from /\ place = job[j].at + 1 /\ page = {place} \cap KeepRows(from)
         /\ kept = job[j].kept \cup page
         /\ pc = IF job[j].kept = {} /\ kept # {} THEN "open" ELSE "page"
    OBVIOUS
  <2>2. PICK q : q = [job[j] EXCEPT !.at = place, !.kept = kept, !.pc = pc]
    OBVIOUS
  <2>3. job' = [job EXCEPT ![j] = q] /\ job[j].pc = "page"
    BY <1>3, <2>1, <2>2 DEF ReadPage
  <2>4. /\ job'[j] = q /\ q.pc = pc /\ q.from = from /\ q.kept = kept
        /\ Reading(job[j]) /\ Reading(q)' /\ mode = "pages"
    BY <1>1, <2>1, <2>2, <2>3 DEF SkipInv, ShapeOK, JobOK, JobFields, Reading
  <2>5. ASSUME Clean' PROVE JobOnce(j)'
    <3>1. ReadsOnce(from, job[j].kept)
      BY <2>1, <2>4, <2>5 DEF OnceInv, OnceOK, JobOnce
    <3>2. \A i \in page : src[i] = 0 => from.cur = 0
      <4>1. PagesHonest(from, job[j].kept, job[j].at)
        BY <2>1, <2>4, <2>5 DEF SkipInv, JobHonest, Clean
      <4>2. \A i \in KeepRows(from) : src[i] > 0 \/ (i \in bare /\ src[i] = 0 /\ from.cur = 0)
        BY <2>4, <4>1, KeepUncovered DEF SkipInv, PagesHonest, Honest
      <4> QED
        BY <2>1, <4>2
    <3>3. ReadsOnce(from, kept)
      BY <2>1, <3>1, <3>2 DEF ReadsOnce
    <3>4. ReadsOnce(from, kept)'
      BY <1>1, <3>3 DEF ReadsOnce, Covers
    <3> QED
      BY <2>1, <2>4, <3>4 DEF JobOnce
  <2> QED
    BY <1>1, <2>3, <2>5, QuietOnceStep
<1> QED
  BY <1>2, <1>3

(* A new row has not landed, and what the cursors say of others stands.    *)
LEMMA InsertOnceStep ==
    ASSUME SkipInv, OnceInv, NEW i \in Rows, InsertRow(i), Clean' => Clean
    PROVE  OnceInv'
<1>1. /\ UNCHANGED <<mode, bare, table, cursor, job>> /\ src[i] = 0 /\ i \notin bare
      /\ \A k \in Rows \ {i} : src'[k] = src[k]
  BY DEF InsertRow, SkipInv, ShapeOK
<1>2. RowsLandOnce'
  BY <1>1 DEF OnceInv, RowsLandOnce, Clean, Incremental
<1>3. ASSUME Clean' PROVE OnceOK'
  <2>1. OnceOK
    BY <1>3 DEF OnceInv
  <2>2. \A k \in Rows \ bare : table.rows[k] > 0 => k # i /\ src'[k] = src[k]
    BY <1>1, <2>1 DEF OnceOK
  <2>3. \A k \in Rows \ {i} : \A c : Covers(c, k)' <=> Covers(c, k)
    BY <1>1 DEF Covers
  <2>4. \A k \in Rows \ {i} : /\ Covers(cursor, k)' <=> Covers(cursor, k)
                              /\ Covers(table.stamp, k)' <=> Covers(table.stamp, k)
    BY <1>1 DEF Covers
  <2>5. ASSUME NEW j \in Replicas PROVE JobOnce(j)'
    <3>1. PICK c, kept, from : c = job[j].next /\ kept = job[j].kept /\ from = job[j].from
      OBVIOUS
    <3>2. i \notin kept /\ kept \subseteq Rows /\ JobOnce(j)
      BY <1>1, <2>1, <3>1 DEF SkipInv, ShapeOK, JobOK, OnceOK
    <3>3. \A k \in Rows : LandsWith(k, kept)' <=> LandsWith(k, kept)
      BY <1>1 DEF LandsWith
    <3>4. \A k \in Rows \ bare : LandsWith(k, kept) => k # i
      BY <2>2, <3>2 DEF LandsWith
    <3>5. \A k \in Rows \ {i} : (Covers(c, k)' <=> Covers(c, k)) /\ (Covers(from, k)' <=> Covers(from, k))
      BY <2>3
    <3>6. HoldsOnce(c, kept) => HoldsOnce(c, kept)'
      BY <1>1, <3>3, <3>4, <3>5 DEF HoldsOnce
    <3>7. ReadsOnce(from, kept) => ReadsOnce(from, kept)'
      BY <1>1, <2>2, <3>2, <3>5 DEF ReadsOnce
    <3>8. ReadsOnce(cursor, {}) => ReadsOnce(cursor, {})'
      BY <1>1, <2>2, <2>4 DEF ReadsOnce
    <3> QED
      BY <1>1, <3>1, <3>2, <3>6, <3>7, <3>8 DEF JobOnce, Reading
  <2> QED
    BY <1>1, <2>1, <2>2, <2>4, <2>5 DEF OnceOK, Busy
<1> QED
  BY <1>2, <1>3 DEF OnceInv

(* A row without a cursor value may land as often as it likes.             *)
LEMMA BareOnceStep ==
    ASSUME SkipInv, OnceInv, NEW i \in Rows, InsertBare(i), Clean' => Clean
    PROVE  OnceInv'
<1>1. UNCHANGED <<mode, src, table, cursor, job>> /\ bare' = bare \cup {i}
  BY DEF InsertBare
<1>2. RowsLandOnce'
  BY <1>1 DEF OnceInv, RowsLandOnce, Clean, Incremental
<1>3. ASSUME Clean' PROVE OnceOK'
  <2>1. OnceOK
    BY <1>3 DEF OnceInv
  <2>2. ASSUME NEW j \in Replicas PROVE JobOnce(j)'
    <3>1. JobOnce(j)
      BY <2>1 DEF OnceOK
    <3> QED
      BY <1>1, <3>1 DEF JobOnce, ReadsOnce, HoldsOnce, Reading, Covers, LandsWith
  <2> QED
    BY <1>1, <2>1, <2>2 DEF OnceOK, Busy, Covers
<1> QED
  BY <1>2, <1>3 DEF OnceInv

(* The transaction opens, or its task is cancelled and its thread runs on. *)
LEMMA HoldOnceStep ==
    ASSUME SkipInv, OnceInv, NEW j \in Replicas, NEW q, job' = [job EXCEPT ![j] = q],
           NEW pc \in {"commit", "orphan", "page"}, Moved(q, job[j], pc), Clean' => Clean,
           job[j].pc \in {"open", "commit", "orphan", "empty"},
           pc \in {"commit", "page"} => job[j].pc = "open",
           IF mode = "pages" THEN pc # "commit" ELSE pc # "page",
           pc = "orphan" => job[j].pc # "open",
           UNCHANGED <<mode, src, bare, cursor>>,
           table'.rows = table.rows, table'.stamp = table.stamp
    PROVE  OnceInv'
<1>1. job'[j] = q /\ JobOK(j)
  BY DEF SkipInv, ShapeOK
<1>2. ASSUME Clean' PROVE JobOnce(j)'
  <2>1. JobOnce(j)
    BY <1>2 DEF OnceInv, OnceOK
  <2>2. PICK c, kept, from : c = job[j].next /\ kept = job[j].kept /\ from = job[j].from
    OBVIOUS
  <2>3. q.pc = pc /\ q.kept = kept /\ q.next = c /\ q.from = from
    BY <2>2 DEF Moved
  <2>4. /\ HoldsOnce(c, kept) => HoldsOnce(c, kept)'
        /\ ReadsOnce(from, kept) => ReadsOnce(from, kept)'
    BY DEF HoldsOnce, ReadsOnce, LandsWith, Covers
  <2>5. job[j].pc = "empty" => kept = {}
    BY <1>1, <2>2 DEF JobOK
  <2>6. Reading(q)' => Reading(job[j]) /\ pc = "page"
    BY <2>3 DEF Reading
  <2>7. ~Reading(q)' => ~Reading(job[j])
    BY <2>3 DEF Reading
  <2> QED
    BY <1>1, <2>1, <2>2, <2>3, <2>4, <2>5, <2>6, <2>7 DEF JobOnce
<1> QED
  BY <1>2, QuietOnceStep DEF Busy

(* Every step keeps it.                                                    *)
LEMMA StepOnceInv ==
    ASSUME SkipInv, OnceInv, [Next]_vars
    PROVE  OnceInv'
<1>0. mode' = mode /\ (Clean' => Clean)
  BY StaysClean
<1>1. ASSUME UNCHANGED <<src, bare, cursor, table, job>> PROVE OnceInv'
  BY <1>0, <1>1 DEF OnceInv, OnceOK, RowsLandOnce, Clean, Incremental, Busy, JobOnce, ReadsOnce,
     HoldsOnce, Reading, Covers, LandsWith
<1>2. CASE UNCHANGED vars \/ LoseConnection \/ Quiesce \/ \E r \in Replicas : TryLock(r)
  BY <1>1, <1>2 DEF vars, stores, LoseConnection, Quiesce, TryLock, source
<1>3. ASSUME NEW r \in Replicas, RunSync(r) \/ SubmitDue(r) PROVE OnceInv'
  BY <1>0, <1>3, StartOnceStep DEF RunSync, SubmitDue, stores, source
<1>4. ASSUME NEW r \in Replicas, Crash(r) \/ SyncFails(r) \/ Finalize(r) PROVE OnceInv'
  <2>1. UNCHANGED <<src, bare, cursor, table>> /\ job' = [job EXCEPT ![r] = Idle]
    BY <1>4 DEF Crash, SyncFails, Finalize, stores, source
  <2> QED
    BY <1>0, <2>1, IdleOK, EndOnceStep
<1>5. ASSUME NEW r \in Replicas, NoticeLoss(r) PROVE OnceInv'
  <2>1. PICK q : q = Cancelled(job[r])
    OBVIOUS
  <2>2. UNCHANGED <<src, bare, cursor, table>> /\ job' = [job EXCEPT ![r] = q]
    BY <1>5, <2>1 DEF NoticeLoss, stores, source
  <2>3. CASE q = Idle
    BY <1>0, <2>2, <2>3, IdleOK, EndOnceStep
  <2>4. CASE q = job[r]
    <3>1. job' = job
      BY <2>2, <2>4 DEF SkipInv, ShapeOK
    <3> QED
      BY <1>1, <2>2, <3>1
  <2>5. CASE q = [job[r] EXCEPT !.pc = "orphan"] /\ job[r].pc \in {"commit", "empty", "orphan"}
    <3>1. Moved(q, job[r], "orphan")
      BY <2>5, MoveRecord
    <3> QED
      BY <1>0, <2>2, <2>5, <3>1, HoldOnceStep
  <2> QED
    BY <2>1, <2>3, <2>4, <2>5, CancelledOK
<1>6. ASSUME NEW j \in Replicas, OpenTransaction(j) PROVE OnceInv'
  <2>1. PICK q, pc : /\ pc = IF mode = "pages" THEN "page" ELSE "commit"
                     /\ q = [job[j] EXCEPT !.pc = pc, !.base = table.snap]
    OBVIOUS
  <2>2. /\ UNCHANGED <<src, bare, cursor>> /\ job' = [job EXCEPT ![j] = q] /\ job[j].pc = "open"
        /\ table' = [table EXCEPT !.exists = TRUE]
    BY <1>6, <2>1 DEF OpenTransaction, source
  <2>3. table'.rows = table.rows /\ table'.stamp = table.stamp
    BY <2>2 DEF SkipInv, ShapeOK, TableOK
  <2>4. Moved(q, job[j], pc)
    BY <2>1, MoveRecord
  <2> QED
    BY <1>0, <2>1, <2>2, <2>3, <2>4, HoldOnceStep
<1>7. ASSUME NEW j \in Replicas, CommitSnapshot(j) \/ CommitUnknown(j) \/ OrphanEnds(j) PROVE OnceInv'
  <2>1. UNCHANGED <<src, bare, cursor>> /\ job[j].pc \in {"commit", "orphan"} /\ Busy(j)
    BY <1>7 DEF CommitSnapshot, CommitUnknown, OrphanEnds, Busy, source
  <2>2. PICK q : q = [job[j] EXCEPT !.pc = "cursor", !.base = table.snap + 1]
    OBVIOUS
  <2>3. q.pc = "cursor"
    BY <2>2, MoveRecord DEF Moved
  <2>4. \/ table' = table /\ job' = [job EXCEPT ![j] = Idle]
        \/ /\ table' = Landed(j) /\ (job[j].pc = "orphan" => job[j].kept # {})
           /\ job' = [job EXCEPT ![j] = Idle] \/ job' = [job EXCEPT ![j] = q]
    BY <1>7, <2>2 DEF CommitSnapshot, CommitUnknown, OrphanEnds, source
  <2>5. CASE table' = table /\ job' = [job EXCEPT ![j] = Idle]
    BY <1>0, <2>1, <2>5, IdleOK, EndOnceStep
  <2>6. CASE table' = Landed(j) /\ (job[j].pc = "orphan" => job[j].kept # {})
             /\ job' = [job EXCEPT ![j] = Idle]
    BY <1>0, <2>1, <2>6, IdleOK, LandOnceStep
  <2>7. CASE table' = Landed(j) /\ (job[j].pc = "orphan" => job[j].kept # {})
             /\ job' = [job EXCEPT ![j] = q]
    BY <1>0, <2>1, <2>3, <2>7, LandOnceStep
  <2> QED
    BY <2>4, <2>5, <2>6, <2>7
<1>8. ASSUME NEW j \in Replicas, CommitEmpty(j) PROVE OnceInv'
  <2> DEFINE emptied == ~Incremental /\ table.exists
             n == table.snap + (IF emptied THEN 1 ELSE 0)
  <2>1. UNCHANGED <<src, bare, cursor>> /\ job[j].pc = "empty" /\ Busy(j)
    BY <1>8 DEF CommitEmpty, Busy, source
  <2>2. CASE Incremental /\ ~table.exists
    BY <1>0, <1>8, <2>1, <2>2, IdleOK, EndOnceStep DEF CommitEmpty, source
  <2>3. CASE ~(Incremental /\ ~table.exists)
    <3>1. PICK q : q = [job[j] EXCEPT !.pc = "cursor", !.base = n]
      OBVIOUS
    <3>2. job' = [job EXCEPT ![j] = q] /\ table' = IF emptied THEN Landed(j) ELSE table
      BY <1>8, <2>3, <3>1 DEF CommitEmpty, source
    <3>3. q.pc = "cursor"
      BY <3>1, MoveRecord DEF Moved
    <3>4. CASE emptied
      BY <1>0, <2>1, <3>2, <3>3, <3>4, LandOnceStep
    <3>5. CASE ~emptied
      BY <1>0, <2>1, <3>2, <3>3, <3>5, EndOnceStep
    <3> QED
      BY <3>4, <3>5
  <2> QED
    BY <2>2, <2>3
<1> QED
  BY <1>0, <1>2, <1>3, <1>4, <1>5, <1>6, <1>7, <1>8, InsertOnceStep, BareOnceStep, AdoptOnceStep, SettleOnceStep,
     PagesOnceStep, CursorOnceStep DEF Next, Poll, SyncStep

(* As long as syncs do not overlap and no identity is dropped, each row    *)
(* with a cursor value is appended once, whatever fails or crashes between *)
(* the snapshot's commit and the cursor's, and while the source changes    *)
(* between its pages; a dataset that is overwritten holds no row twice.    *)
THEOREM EachRowLandsOnce == Spec => []RowsLandOnce
<1>1. OnceInv => RowsLandOnce
  BY DEF OnceInv
<1> QED
  BY InitSkipInv, StepSkipInv, InitOnceInv, StepOnceInv, <1>1, PTL DEF Spec
=============================================================================
