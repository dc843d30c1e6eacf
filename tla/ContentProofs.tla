--------------------------- MODULE ContentProofs ---------------------------
(***************************************************************************)
(* Bins and links, reports, blog posts, registrations and the answers of   *)
(* the dashboard, for any number of users, requests, rows and codes: each  *)
(* part has an invariant of its own, which its steps keep one by one.      *)
(***************************************************************************)
EXTENDS MCContent, FiniteSetTheorems, TLAPS

-----------------------------------------------------------------------------
(* Bins and links *)

Kinds == {Bins, Links}
RowType == [at : {"none", "kept", "expired", "gone"}, owner : Users \cup {"none"}]
ClerkType == [at : {"idle", "create", "delete"}, user : Users \cup {"none"},
              kind : Kinds \cup {{}}, item : Items \cup {"none"}, tries : Nat]

ShelvesType ==
  /\ row \in [Items -> RowType]
  /\ clerk \in [Clerks -> ClerkType]
  /\ by \in [Items -> {"nobody", "user", "cleanup", "purge", "admin"}]
  /\ late \in SUBSET Items

\* A request that has found room knows for whom and for what.
ClerksKnow == \A c \in Clerks :
  clerk[c].at = "create" => clerk[c].user \in Users /\ clerk[c].kind \in Kinds

\* Who deleted a row is known exactly of those that are gone.
GoneBySomebody == \A i \in Items : row[i].at = "gone" <=> by[i] # "nobody"

ShelvesFinite == \A u \in Users, kind \in Kinds : IsFiniteSet(Of(u, kind))

ShelvesInv == ShelvesType /\ ClerksKnow /\ GoneBySomebody /\ ShelvesFinite /\ ShelvesKept

\* No number of requests exceeds that of the clerks, and with one of them in
\* another state it is smaller.
LEMMA CreatingFinite ==
  ASSUME NEW u, NEW kind
  PROVE  /\ IsFiniteSet(Creating(u, kind))
         /\ Cardinality(Creating(u, kind)) \in Nat
         /\ Cardinality(Creating(u, kind)) <= Cardinality(Clerks)
         /\ Cardinality(Clerks) \in Nat \ {0}
<1>1. Creating(u, kind) \in SUBSET Clerks
  BY DEF Creating
<1>2. Cardinality(Clerks) \in Nat /\ Cardinality(Clerks) # 0
  BY ShelvesAssumption, FS_CardinalityType, FS_EmptySet
<1> QED
  BY <1>1, <1>2, ShelvesAssumption, FS_Subset, FS_CardinalityType

LEMMA LimitsNat == ASSUME NEW kind PROVE LimitOf(kind) \in Nat
  BY ShelvesAssumption DEF LimitOf

LEMMA IdleType == Idle \in ClerkType /\ Idle.at = "idle"
  BY DEF Idle, ClerkType

LEMMA ShelvesInitial == InitShelves(Files) => ShelvesInv
<1> SUFFICES ASSUME InitShelves(Files) PROVE ShelvesInv
  OBVIOUS
<1> USE DEF InitShelves
<1>1. PICK own \in [Files -> Users] :
        row = [i \in Items |-> IF i \in Files THEN [at |-> "kept", owner |-> own[i]]
                               ELSE [at |-> "none", owner |-> "none"]]
  OBVIOUS
<1>2. ShelvesType
  BY <1>1, IdleType DEF ShelvesType, RowType
<1>3. ClerksKnow
  BY IdleType DEF ClerksKnow
<1>4. \A u \in Users, kind \in Kinds : Of(u, kind) = {}
  BY <1>1, ShelvesAssumption DEF Of, Kept, Kinds, Items
<1>5. \A u \in Users, kind \in Kinds : Creating(u, kind) = {}
  BY IdleType DEF Creating
<1>6. GoneBySomebody
  BY <1>1 DEF GoneBySomebody
<1>7. \A u \in Users, kind \in Kinds :
        Cardinality(Of(u, kind)) + Cardinality(Creating(u, kind))
          <= LimitOf(kind) + Cardinality(Clerks) - 1
  <2> TAKE u \in Users, kind \in Kinds
  <2>1. Cardinality(Of(u, kind)) = 0 /\ Cardinality(Creating(u, kind)) = 0
    BY <1>4, <1>5, FS_EmptySet
  <2> QED
    BY <2>1, CreatingFinite, LimitsNat, SMTT(30)
<1>8. ShelvesKept
  BY <1>7 DEF ShelvesKept, Kinds
<1> QED
  BY <1>2, <1>3, <1>4, <1>6, <1>8, FS_EmptySet DEF ShelvesInv, ShelvesFinite

\* Where requests write no row, those there are can only become fewer: what is
\* kept then was kept before and has the owner it had.
LEMMA FewerRows ==
  ASSUME ShelvesInv, ShelvesType', ClerksKnow', GoneBySomebody',
         \A i \in Items : Kept(i)' => Kept(i) /\ row'[i].owner = row[i].owner,
         \A u \in Users, kind \in Kinds : Creating(u, kind)' \subseteq Creating(u, kind),
         \A u \in closed' \ closed : Of(u, Items)' = {},
         late' = late
  PROVE  ShelvesInv'
<1>1. \A u \in Users, kind \in SUBSET Items : Of(u, kind)' \subseteq Of(u, kind)
  BY DEF Of
<1>2. ASSUME NEW u \in Users, NEW kind \in Kinds
      PROVE  /\ IsFiniteSet(Of(u, kind)')
             /\ Cardinality(Of(u, kind))' + Cardinality(Creating(u, kind))'
                  <= LimitOf(kind) + Cardinality(Clerks) - 1
  <2>1. IsFiniteSet(Of(u, kind)) /\ Of(u, kind)' \in SUBSET Of(u, kind)
    BY <1>1 DEF ShelvesInv, ShelvesFinite, Kinds, Items
  <2>2. /\ IsFiniteSet(Of(u, kind)') /\ Cardinality(Of(u, kind)') \in Nat
        /\ Cardinality(Of(u, kind)) \in Nat
        /\ Cardinality(Of(u, kind)') <= Cardinality(Of(u, kind))
    BY <2>1, FS_Subset, FS_CardinalityType
  <2>3. /\ Cardinality(Creating(u, kind)') \in Nat
        /\ Cardinality(Creating(u, kind)') <= Cardinality(Creating(u, kind))
    BY CreatingFinite, FS_Subset, FS_CardinalityType
  <2>4. Cardinality(Of(u, kind)) + Cardinality(Creating(u, kind))
          <= LimitOf(kind) + Cardinality(Clerks) - 1
    BY DEF ShelvesInv, ShelvesKept, Kinds
  <2> QED
    BY <2>2, <2>3, <2>4, CreatingFinite, LimitsNat
<1>3. \A u \in Users : u \in closed' => Of(u, Items)' \subseteq late'
  BY <1>1 DEF ShelvesInv, ShelvesKept
<1>4. ShelvesKept'
  BY <1>2, <1>3 DEF ShelvesKept, Kinds
<1> QED
  BY <1>2, <1>4 DEF ShelvesInv, ShelvesFinite

\* Rows that are deleted are gone, and all others as they were.
LEMMA DeleteRows ==
  ASSUME ShelvesInv, NEW S, NEW who \in {"user", "cleanup", "purge", "admin"}, Delete(S, who)
  PROVE  /\ row' \in [Items -> RowType]
         /\ by' \in [Items -> {"nobody", "user", "cleanup", "purge", "admin"}]
         /\ GoneBySomebody'
         /\ \A i \in Items : Kept(i)' => Kept(i) /\ row'[i] = row[i]
         /\ \A i \in Items \cap S : ~Kept(i)'
         /\ \A i \in Items : Kept(i) => by[i] = "nobody"
<1> USE DEF ShelvesInv, ShelvesType, Delete, Kept
<1>1. \A i \in Items : row[i] \in RowType /\ [row[i] EXCEPT !.at = "gone"] \in RowType
  BY DEF RowType
<1>2. \A i \in Items : row'[i] = IF i \in S /\ Kept(i) THEN [row[i] EXCEPT !.at = "gone"] ELSE row[i]
  OBVIOUS
<1>3. \A i \in Items : by'[i] = IF i \in S /\ Kept(i) THEN who ELSE by[i]
  OBVIOUS
<1>4. \A i \in Items : [row[i] EXCEPT !.at = "gone"].at = "gone"
  BY <1>1 DEF RowType
<1>5. GoneBySomebody'
  BY <1>2, <1>3, <1>4 DEF GoneBySomebody
<1>6. \A i \in Items : Kept(i)' => Kept(i) /\ row'[i] = row[i]
  BY <1>2, <1>4
<1>7. \A i \in Items \cap S : ~Kept(i)'
  BY <1>2, <1>4
<1>8. \A i \in Items : Kept(i) => by[i] = "nobody"
  BY DEF GoneBySomebody
<1> QED
  BY <1>1, <1>5, <1>6, <1>7, <1>8

\* A deletion in the middle of whatever else happens to no request that writes
\* a row.
LEMMA DeleteKeeps ==
  ASSUME ShelvesInv, NEW S, NEW who \in {"user", "cleanup", "purge", "admin"}, Delete(S, who),
         clerk' \in [Clerks -> ClerkType],
         \A c \in Clerks : clerk'[c] = clerk[c] \/ clerk'[c] = Idle,
         \A u \in closed' \ closed : Of(u, Items) \subseteq S,
         late' = late
  PROVE  ShelvesInv'
<1>1. ShelvesType' /\ GoneBySomebody'
  BY DeleteRows DEF ShelvesType, ShelvesInv
<1>2. ClerksKnow'
  BY IdleType DEF ClerksKnow, ShelvesInv
<1>3. \A i \in Items : Kept(i)' => Kept(i) /\ row'[i].owner = row[i].owner
  BY DeleteRows
<1>4. \A u \in Users, kind \in Kinds : Creating(u, kind)' \subseteq Creating(u, kind)
  BY IdleType DEF Creating
<1>5. \A u \in closed' \ closed : Of(u, Items)' = {}
  BY <1>3, DeleteRows DEF Of
<1> QED
  BY <1>1, <1>2, <1>3, <1>4, <1>5, FewerRows

LEMMA CountKeeps ==
  ASSUME ShelvesInv, NEW c \in Clerks, NEW u \in Users, NEW kind \in Kinds, Count(c, u, kind)
  PROVE  ShelvesInv'
<1> DEFINE new == [Idle EXCEPT !.at = "create", !.user = u, !.kind = kind]
<1>1. /\ new \in ClerkType
      /\ new.at = "create" /\ new.user = u /\ new.kind = kind
  BY DEF Idle, ClerkType
<1> HIDE DEF new
<1>2. /\ clerk' = [clerk EXCEPT ![c] = new]
      /\ Room(u, kind) /\ UNCHANGED <<row, closed, by, late>>
  BY DEF Count, new
<1>3. ShelvesType' /\ ClerksKnow' /\ GoneBySomebody'
  BY <1>1, <1>2 DEF ShelvesType, ShelvesInv, ClerksKnow, GoneBySomebody
<1>4. \A w, k : Of(w, k)' = Of(w, k)
  BY <1>2 DEF Of, Kept
<1>5. ASSUME NEW w \in Users, NEW k \in Kinds
      PROVE  Cardinality(Of(w, k))' + Cardinality(Creating(w, k))'
               <= LimitOf(k) + Cardinality(Clerks) - 1
  <2>1. Cardinality(Of(w, k)) + Cardinality(Creating(w, k))
          <= LimitOf(k) + Cardinality(Clerks) - 1
    BY DEF ShelvesInv, ShelvesKept, Kinds
  <2>2. IsFiniteSet(Of(w, k)) /\ Cardinality(Of(w, k)) \in Nat
    BY FS_CardinalityType DEF ShelvesInv, ShelvesFinite
  <2>3. CASE w = u /\ k = kind
    <3>1. Cardinality(Of(w, k)) < LimitOf(k)
      BY <1>2, <2>3 DEF Room
    <3>2. Creating(w, k)' \in SUBSET Clerks
      BY DEF Creating
    <3>3. /\ Cardinality(Creating(w, k)') <= Cardinality(Clerks)
          /\ Cardinality(Creating(w, k)') \in Nat
      BY <3>2, ShelvesAssumption, FS_Subset, FS_CardinalityType
    <3> QED
      <4>1. LimitOf(k) \in Nat /\ Cardinality(Clerks) \in Nat \ {0}
        BY CreatingFinite, LimitsNat
      <4>2. Cardinality(Of(w, k))' = Cardinality(Of(w, k))
        BY <1>4
      <4> QED
        BY <3>1, <3>3, <2>2, <4>1, <4>2
  <2>4. CASE ~(w = u /\ k = kind)
    <3>1. Creating(w, k)' \in SUBSET Creating(w, k)
      BY <1>1, <1>2, <2>4 DEF Creating, ShelvesInv, ShelvesType
    <3>2. /\ Cardinality(Creating(w, k)') <= Cardinality(Creating(w, k))
          /\ Cardinality(Creating(w, k)') \in Nat /\ Cardinality(Creating(w, k)) \in Nat
      BY <3>1, CreatingFinite, FS_Subset, FS_CardinalityType
    <3> QED
      BY <3>2, <2>1, <2>2, <1>4, CreatingFinite, LimitsNat
  <2> QED
    BY <2>3, <2>4
<1>6. ShelvesKept'
  BY <1>2, <1>4, <1>5 DEF ShelvesKept, Kinds, ShelvesInv
<1> QED
  BY <1>3, <1>4, <1>6 DEF ShelvesInv, ShelvesFinite

LEMMA CreateKeeps ==
  ASSUME ShelvesInv, NEW c \in Clerks, NEW i \in Items, Create(c, i)
  PROVE  ShelvesInv'
<1> DEFINE r == clerk[c]
<1>1. /\ r.at = "create" /\ r.user \in Users /\ r.kind \in Kinds
      /\ i \in r.kind /\ row[i].at = "none"
      /\ row' = [row EXCEPT ![i] = [at |-> "kept", owner |-> r.user]]
      /\ late' = IF r.user \in closed THEN late \cup {i} ELSE late
      /\ clerk' = [clerk EXCEPT ![c] = Idle]
      /\ UNCHANGED <<closed, by>>
  BY DEF Create, Done, ShelvesInv, ClerksKnow
<1>2. ShelvesType'
  BY <1>1, IdleType DEF ShelvesType, ShelvesInv, RowType
<1>3. ClerksKnow'
  BY <1>1, IdleType DEF ShelvesInv, ShelvesType, ClerksKnow
<1>4. /\ row'[i].at = "kept" /\ row'[i].owner = r.user
      /\ \A j \in Items : j # i => row'[j] = row[j]
      /\ ~Kept(i)
  BY <1>1 DEF ShelvesInv, ShelvesType, Kept
<1>5. GoneBySomebody'
  BY <1>1, <1>4 DEF ShelvesInv, GoneBySomebody
<1>6. ASSUME NEW w \in Users, NEW k \in Kinds
      PROVE  /\ IsFiniteSet(Of(w, k)')
             /\ Cardinality(Of(w, k)') + Cardinality(Creating(w, k)')
                  <= LimitOf(k) + Cardinality(Clerks) - 1
  <2>1. Cardinality(Of(w, k)) + Cardinality(Creating(w, k))
          <= LimitOf(k) + Cardinality(Clerks) - 1
    BY DEF ShelvesInv, ShelvesKept, Kinds
  <2>2. IsFiniteSet(Of(w, k)) /\ Cardinality(Of(w, k)) \in Nat
    BY FS_CardinalityType DEF ShelvesInv, ShelvesFinite
  <2>3. k \subseteq Items
    BY DEF Kinds, Items
  <2>4. CASE w = r.user /\ k = r.kind
    <3>1. Of(w, k)' = Of(w, k) \cup {i} /\ i \notin Of(w, k)
      BY <1>1, <1>4, <2>3, <2>4 DEF Of, Kept
    <3>2. Creating(w, k)' = Creating(w, k) \ {c} /\ c \in Creating(w, k)
      BY <1>1, <2>4, IdleType DEF Creating, ShelvesInv, ShelvesType
    <3>3. /\ IsFiniteSet(Of(w, k)') /\ Cardinality(Of(w, k)') = Cardinality(Of(w, k)) + 1
      BY <3>1, <2>2, FS_AddElement
    <3>4. Cardinality(Creating(w, k)') = Cardinality(Creating(w, k)) - 1
      BY <3>2, CreatingFinite, FS_RemoveElement
    <3> QED
      BY <3>3, <3>4, <2>1, <2>2, CreatingFinite, LimitsNat
  <2>5. CASE ~(w = r.user /\ k = r.kind)
    <3>1. k = r.kind \/ i \notin k
      BY <1>1, ShelvesAssumption DEF Kinds
    <3>2. Of(w, k)' = Of(w, k)
      BY <1>4, <2>3, <2>5, <3>1 DEF Of, Kept
    <3>3. Creating(w, k)' = Creating(w, k)
      BY <1>1, <2>5, IdleType DEF Creating, ShelvesInv, ShelvesType
    <3> QED
      BY <3>2, <3>3, <2>1, <2>2
  <2> QED
    BY <2>4, <2>5
<1>7. ASSUME NEW w \in Users, w \in closed', NEW j \in Of(w, Items)'
      PROVE  j \in late'
  <2>1. w \in closed /\ Of(w, Items) \subseteq late
    BY <1>1, <1>7 DEF ShelvesInv, ShelvesKept
  <2>2. j \in Items /\ Kept(j)' /\ row'[j].owner = w
    BY <1>7 DEF Of
  <2>3. j # i => j \in Of(w, Items)
    BY <2>2, <1>4 DEF Of, Kept
  <2> QED
    BY <2>1, <2>2, <2>3, <1>1, <1>4
<1>8. ShelvesKept'
  BY <1>6, <1>7 DEF ShelvesKept, Kinds
<1> QED
  BY <1>2, <1>3, <1>5, <1>6, <1>8 DEF ShelvesInv, ShelvesFinite

\* A request that goes on without a row of its own.
LEMMA ClerkKeeps ==
  ASSUME ShelvesInv, NEW c \in Clerks, NEW j \in ClerkType,
         clerk' = [clerk EXCEPT ![c] = j],
         j.at = "create" =>
           clerk[c].at = "create" /\ j.user = clerk[c].user /\ j.kind = clerk[c].kind,
         UNCHANGED <<row, closed, by, late>>
  PROVE  ShelvesInv'
<1>1. ShelvesType' /\ ClerksKnow' /\ GoneBySomebody'
  BY DEF ShelvesInv, ShelvesType, ClerksKnow, GoneBySomebody
<1>2. \A i \in Items : Kept(i)' => Kept(i) /\ row'[i].owner = row[i].owner
  BY DEF Kept
<1>3. \A u \in Users, kind \in Kinds : Creating(u, kind)' \subseteq Creating(u, kind)
  BY DEF Creating, ShelvesInv, ShelvesType
<1> QED
  BY <1>1, <1>2, <1>3, FewerRows

LEMMA ConflictKeeps == ASSUME ShelvesInv, NEW c \in Clerks, Conflict(c) PROVE ShelvesInv'
<1>1. clerk[c] \in ClerkType
  BY DEF ShelvesInv, ShelvesType
<1>2. CASE clerk[c].tries + 1 = MaxAttempts
  BY <1>2, IdleType, ClerkKeeps DEF Conflict, Done
<1>3. CASE clerk[c].tries + 1 # MaxAttempts
  <2> DEFINE j == [clerk[c] EXCEPT !.tries = @ + 1]
  <2>1. j \in ClerkType /\ j.at = clerk[c].at /\ j.user = clerk[c].user /\ j.kind = clerk[c].kind
    BY <1>1 DEF ClerkType
  <2>2. clerk' = [clerk EXCEPT ![c] = j] /\ clerk[c].at = "create"
        /\ UNCHANGED <<row, closed, by, late>>
    BY <1>3 DEF Conflict
  <2> HIDE DEF j
  <2> QED
    BY <2>1, <2>2, ClerkKeeps
<1> QED
  BY <1>2, <1>3

LEMMA FindKeeps ==
  ASSUME ShelvesInv, NEW c \in Clerks, NEW u \in Users, NEW i \in Items, Find(c, u, i)
  PROVE  ShelvesInv'
<1> DEFINE j == [Idle EXCEPT !.at = "delete", !.user = u, !.item = i]
<1>1. j \in ClerkType /\ j.at = "delete"
  BY DEF Idle, ClerkType
<1>2. clerk' = [clerk EXCEPT ![c] = j] /\ UNCHANGED <<row, closed, by, late>>
  BY DEF Find
<1> HIDE DEF j
<1> QED
  BY <1>1, <1>2, ClerkKeeps

LEMMA DeleteFoundKeeps == ASSUME ShelvesInv, NEW c \in Clerks, DeleteFound(c) PROVE ShelvesInv'
<1>1. /\ clerk' \in [Clerks -> ClerkType]
      /\ \A d \in Clerks : clerk'[d] = clerk[d] \/ clerk'[d] = Idle
  BY IdleType DEF DeleteFound, Done, ShelvesInv, ShelvesType
<1> QED
  BY <1>1, DeleteKeeps DEF DeleteFound

LEMMA ExpiresKeeps == ASSUME ShelvesInv, NEW i \in Items, Expires(i) PROVE ShelvesInv'
<1>1. /\ row[i] \in RowType /\ row[i].at = "kept"
      /\ row' = [row EXCEPT ![i] = [row[i] EXCEPT !.at = "expired"]]
      /\ UNCHANGED <<clerk, closed, by, late>>
  BY DEF ShelvesInv, ShelvesType, Expires
<1>2. /\ row'[i] \in RowType /\ row'[i].at = "expired" /\ row'[i].owner = row[i].owner
      /\ \A j \in Items : j # i => row'[j] = row[j]
  BY <1>1 DEF ShelvesInv, ShelvesType, RowType
<1>3. ShelvesType' /\ ClerksKnow' /\ GoneBySomebody'
  BY <1>1, <1>2 DEF ShelvesInv, ShelvesType, ClerksKnow, GoneBySomebody
<1>4. \A j \in Items : Kept(j)' => Kept(j) /\ row'[j].owner = row[j].owner
  BY <1>1, <1>2 DEF Kept
<1>5. \A u \in Users, kind \in Kinds : Creating(u, kind)' \subseteq Creating(u, kind)
  BY <1>1 DEF Creating
<1> QED
  BY <1>1, <1>3, <1>4, <1>5, FewerRows

LEMMA CleanupKeeps == ASSUME ShelvesInv, Cleanup PROVE ShelvesInv'
<1>1. PICK S : Delete(S, "cleanup")
  BY DEF Cleanup
<1> QED
  BY <1>1, DeleteKeeps DEF Cleanup, ShelvesInv, ShelvesType

LEMMA PurgeKeeps ==
  ASSUME ShelvesInv, NEW u \in Users, NEW ends \in BOOLEAN, Purge(u, ends)
  PROVE  ShelvesInv'
<1>1. Delete(Of(u, Items), "purge") /\ UNCHANGED <<clerk, late>>
  BY DEF Purge, Cleared
<1>2. \A w \in closed' \ closed : Of(w, Items) \subseteq Of(u, Items)
  BY DEF Purge
<1>3. clerk' \in [Clerks -> ClerkType] /\ \A c \in Clerks : clerk'[c] = clerk[c]
  BY <1>1 DEF ShelvesInv, ShelvesType
<1> QED
  BY <1>1, <1>2, <1>3, DeleteKeeps

LEMMA ShelvesStep == ShelvesInv /\ [NextShelves]_shelfVars => ShelvesInv'
<1> SUFFICES ASSUME ShelvesInv, [NextShelves]_shelfVars PROVE ShelvesInv'
  OBVIOUS
<1>1. ASSUME NEW c \in Clerks, ShelfStep(c) PROVE ShelvesInv'
  BY <1>1, CountKeeps, FindKeeps, CreateKeeps, ConflictKeeps, DeleteFoundKeeps
  DEF ShelfStep, Kinds
<1>2. ASSUME NEW i \in Bins \cup Files, Expires(i) PROVE ShelvesInv'
  BY <1>2, ExpiresKeeps DEF Items
<1>3. ASSUME NEW u \in Users, NEW ends \in BOOLEAN, Purge(u, ends) PROVE ShelvesInv'
  BY <1>3, PurgeKeeps
<1>4. CASE UNCHANGED shelfVars
  BY <1>4, ZenonT(60)
  DEF shelfVars, ShelvesInv, ShelvesType, ClerksKnow, GoneBySomebody, ShelvesFinite,
              ShelvesKept, Of, Kept, Creating
<1> QED
  BY <1>1, <1>2, <1>3, <1>4, CleanupKeeps DEF NextShelves

(* However many requests of a user run side by side, his rows exceed the   *)
(* limit by no more than these; and a deleted account keeps no row but     *)
(* those of requests let in before (bins.service.ts createBin,             *)
(* links.service.ts create, users.service.ts clearUserContentRecords).     *)
THEOREM ShelvesHold == ShelvesSpec => []ShelvesKept
<1>1. ShelvesInv => ShelvesKept
  BY DEF ShelvesInv
<1> QED
  BY <1>1, ShelvesInitial, ShelvesStep, PTL DEF ShelvesSpec

-----------------------------------------------------------------------------
(* Reports *)

ReportType == [at : {"none", "filing", "open", "archived"}, target : Contents \cup {Nobody}]
TaskType == [at : {"idle", "files", "rows", "ban", "audit", "decide"},
             op : Actions \cup {"archived", "open", "none"},
             report : Reports \cup {"none"}, item : Contents \cup {Nobody}]

ReportsType ==
  /\ report \in [Reports -> ReportType]
  /\ admin \in [Admins -> TaskType]
  /\ entries \in [Actions \X Subjects -> Nat]
  /\ cut \in [Actions \X Subjects -> Nat]
  /\ direct \in [Files -> Nat]
  /\ banned \in SUBSET Reports

\* What a request of an admin does to a row or a user is what it says it does.
Knows(k) ==
  /\ k.at \in {"files", "rows"} => \/ k.op = "report_content_deleted" /\ k.item \in Contents
                                   \/ k.op = "user_files_deleted" /\ k.item \in Files
  /\ k.at = "ban" => k.op = "report_user_banned" /\ k.report \in Reports
  /\ k.at = "audit" => \/ k.op = "report_content_deleted" /\ k.item \in Contents
                       \/ k.op = "report_user_banned" /\ k.report \in Reports
  /\ k.at = "decide" => k.op \in {"archived", "open"} /\ k.report \in Reports
TasksKnow == \A a \in Admins : Knows(admin[a])

\* What the log says of a file.
FileTold(f) ==
  /\ by[f] = "admin" => entries[<<"user_files_deleted", f>>] > 0
  /\ entries[<<"user_files_deleted", f>>] > 0 => ~Kept(f)
  /\ Entered(<<"report_content_deleted", f>>) + direct[f] = entries[<<"user_files_deleted", f>>]

ReportsInv == ShelvesInv /\ ReportsType /\ TasksKnow /\ DeletionsAudited

\* Requests that are about to write an entry.
Pending(x) == {a \in Admins : admin[a].at = "audit" /\ Entry(a) = x}

LEMMA PendingFinite ==
  ASSUME NEW x
  PROVE  IsFiniteSet(Pending(x)) /\ Cardinality(Pending(x)) \in Nat
<1>1. Pending(x) \in SUBSET Admins
  BY DEF Pending
<1> QED
  BY <1>1, ReportsAssumption, FS_Subset, FS_CardinalityType

LEMMA EnteredSum == ASSUME NEW x PROVE Entered(x) = entries[x] + cut[x] + Cardinality(Pending(x))
  BY DEF Entered, Pending

LEMMA EntryKnown ==
  ASSUME ReportsInv, NEW a \in Admins, admin[a].at = "audit"
  PROVE  /\ Entry(a) \in Actions \X Subjects
         /\ Entry(a)[1] = admin[a].op
         /\ Entry(a)[1] \in {"report_content_deleted", "report_user_banned"}
         /\ Entry(a)[1] = "report_content_deleted" => Entry(a)[2] \in Contents
<1>1. Knows(admin[a])
  BY DEF ReportsInv, TasksKnow
<1>2. CASE admin[a].op = "report_user_banned"
  BY <1>1, <1>2 DEF Knows, Entry, Actions, Subjects
<1>3. CASE admin[a].op # "report_user_banned"
  BY <1>1, <1>3 DEF Knows, Entry, Actions, Subjects, Items, Contents
<1> QED
  BY <1>2, <1>3

LEMMA NoTaskType == NoTask \in TaskType /\ NoTask.at = "idle" /\ Knows(NoTask)
  BY DEF NoTask, TaskType, Knows

LEMMA ReportsInitial == InitShelves(Files) /\ InitReports => ReportsInv
<1> SUFFICES ASSUME InitShelves(Files), InitReports PROVE ReportsInv
  OBVIOUS
<1>1. /\ admin = [a \in Admins |-> NoTask]
      /\ entries = [x \in Actions \X Subjects |-> 0]
      /\ cut = [x \in Actions \X Subjects |-> 0]
      /\ report = [r \in Reports |-> [at |-> "none", target |-> Nobody]]
      /\ banned = {} /\ direct = [f \in Files |-> 0]
  BY DEF InitReports
<1>2. ReportsType
  BY <1>1, NoTaskType DEF ReportsType, ReportType
<1>3. TasksKnow
  BY <1>1, NoTaskType DEF TasksKnow
<1>4. \A x \in Actions \X Subjects : Entered(x) = 0
  <2> TAKE x \in Actions \X Subjects
  <2>1. Pending(x) = {}
    BY <1>1, NoTaskType DEF Pending
  <2>2. Cardinality(Pending(x)) = 0
    BY <2>1, FS_EmptySet
  <2> QED
    BY <1>1, <2>2, EnteredSum
<1>5. \A i \in Items : by[i] = "nobody"
  BY DEF InitShelves
<1>6. DeletionsAudited
  <2>1. ASSUME NEW b \in Bins
        PROVE  Entered(<<"report_content_deleted", b>>) = IF by[b] = "admin" THEN 1 ELSE 0
    <3>1. <<"report_content_deleted", b>> \in Actions \X Subjects
      BY DEF Actions, Subjects, Items
    <3> QED
      BY <1>4, <1>5, <3>1 DEF Items
  <2>2. ASSUME NEW f \in Files PROVE FileTold(f)
    <3>1. /\ <<"report_content_deleted", f>> \in Actions \X Subjects
          /\ <<"user_files_deleted", f>> \in Actions \X Subjects
      BY DEF Actions, Subjects, Items
    <3> QED
      BY <1>1, <1>4, <1>5, <3>1 DEF FileTold, Items
  <2> QED
    BY <2>1, <2>2, <1>1 DEF DeletionsAudited, FileTold
<1> QED
  BY <1>2, <1>3, <1>6, ShelvesInitial DEF ReportsInv

\* Unless a request comes to write an entry or has done so, what was entered or
\* is about to be stays the same.
LEMMA SamePending ==
  ASSUME ReportsInv, NEW a \in Admins, NEW k \in TaskType, admin' = [admin EXCEPT ![a] = k],
         admin[a].at # "audit", k.at # "audit"
  PROVE  \A x : Pending(x)' = Pending(x)
<1>1. /\ admin'[a] = k
      /\ \A d \in Admins : d # a => admin'[d] = admin[d]
  BY DEF ReportsInv, ReportsType
<1> QED
  BY <1>1 DEF Pending, Entry

LEMMA OneMorePending ==
  ASSUME ReportsInv, NEW a \in Admins, NEW k \in TaskType, admin' = [admin EXCEPT ![a] = k],
         admin[a].at # "audit", k.at = "audit", NEW x
  PROVE  Cardinality(Pending(x)') =
           IF Entry(a)' = x THEN Cardinality(Pending(x)) + 1 ELSE Cardinality(Pending(x))
<1>1. /\ admin'[a] = k
      /\ \A d \in Admins : d # a => admin'[d] = admin[d]
  BY DEF ReportsInv, ReportsType
<1>2. CASE Entry(a)' = x
  <2>1. Pending(x)' = Pending(x) \cup {a} /\ a \notin Pending(x)
    BY <1>1, <1>2 DEF Pending, Entry
  <2> QED
    BY <2>1, <1>2, PendingFinite, FS_AddElement
<1>3. CASE Entry(a)' # x
  <2>1. Pending(x)' = Pending(x)
    BY <1>1, <1>3 DEF Pending, Entry
  <2> QED
    BY <2>1, <1>3
<1> QED
  BY <1>2, <1>3

LEMMA OneLessPending ==
  ASSUME ReportsInv, NEW a \in Admins, admin' = [admin EXCEPT ![a] = NoTask],
         admin[a].at = "audit", NEW x
  PROVE  Cardinality(Pending(x)') =
           IF Entry(a) = x THEN Cardinality(Pending(x)) - 1 ELSE Cardinality(Pending(x))
<1>1. /\ admin'[a].at # "audit"
      /\ \A d \in Admins : d # a => admin'[d] = admin[d]
  BY NoTaskType DEF ReportsInv, ReportsType
<1>2. CASE Entry(a) = x
  <2>1. Pending(x)' = Pending(x) \ {a} /\ a \in Pending(x)
    BY <1>1, <1>2 DEF Pending, Entry
  <2> QED
    BY <2>1, <1>2, PendingFinite, FS_RemoveElement
<1>3. CASE Entry(a) # x
  <2>1. Pending(x)' = Pending(x)
    BY <1>1, <1>3 DEF Pending, Entry
  <2> QED
    BY <2>1, <1>3
<1> QED
  BY <1>2, <1>3

LEMMA SameAudit ==
  ASSUME DeletionsAudited, \A x : Pending(x)' = Pending(x), UNCHANGED <<entries, cut, direct, banned>>,
         \A i \in Items : by'[i] = "admin" <=> by[i] = "admin",
         \A f \in Files : Kept(f)' => Kept(f)
  PROVE  DeletionsAudited'
<1>1. \A x : Entered(x)' = Entered(x)
  BY DEF Entered, Pending
<1>2. \A b \in Bins :
        Entered(<<"report_content_deleted", b>>)' = IF by'[b] = "admin" THEN 1 ELSE 0
  BY <1>1 DEF DeletionsAudited, Items
<1>3. \A f \in Files : FileTold(f)'
  BY <1>1 DEF DeletionsAudited, FileTold, Items
<1>4. \A r \in banned' : Entered(<<"report_user_banned", r>>)' > 0
  BY <1>1 DEF DeletionsAudited
<1> QED
  BY <1>2, <1>3, <1>4 DEF DeletionsAudited, FileTold

\* A request goes on, or ends, without anything that is entered.
LEMMA TaskKeeps ==
  ASSUME ReportsInv, NEW a \in Admins, NEW k \in TaskType, Knows(k),
         admin' = [admin EXCEPT ![a] = k], admin[a].at # "audit", k.at # "audit",
         report' \in [Reports -> ReportType],
         UNCHANGED <<shelfVars, entries, banned, cut, direct>>
  PROVE  ReportsInv'
<1>1. ShelvesInv'
  BY ShelvesStep DEF ReportsInv
<1>2. ReportsType'
  BY DEF ReportsInv, ReportsType
<1>3. TasksKnow'
  BY DEF ReportsInv, ReportsType, TasksKnow
<1>4. DeletionsAudited'
  <2>1. \A x : Pending(x)' = Pending(x)
    BY SamePending
  <2> QED
    BY <2>1, SameAudit DEF ReportsInv, shelfVars, Kept
<1> QED
  BY <1>1, <1>2, <1>3, <1>4 DEF ReportsInv

\* Nothing happens to the requests of admins and what they have entered.
LEMMA OthersKeep ==
  ASSUME ReportsInv, ShelvesInv', report' \in [Reports -> ReportType],
         \A i \in Items : by'[i] = "admin" <=> by[i] = "admin",
         \A f \in Files : Kept(f)' => Kept(f),
         UNCHANGED <<admin, entries, banned, cut, direct>>
  PROVE  ReportsInv'
<1>1. ReportsType' /\ TasksKnow'
  BY DEF ReportsInv, ReportsType, TasksKnow
<1>2. \A x : Pending(x)' = Pending(x)
  BY DEF Pending, Entry
<1>3. DeletionsAudited'
  BY <1>2, SameAudit DEF ReportsInv
<1> QED
  BY <1>1, <1>3 DEF ReportsInv

LEMMA NobodyType == [at |-> "none", target |-> Nobody] \in ReportType
  BY DEF ReportType

LEMMA ReportAt ==
  ASSUME NEW r \in ReportType, NEW at \in {"none", "filing", "open", "archived"}
  PROVE  [r EXCEPT !.at = at] \in ReportType
  BY DEF ReportType

LEMMA ClearedType ==
  ASSUME ReportsType, ClearTargets PROVE report' \in [Reports -> ReportType]
<1>1. \A r \in ReportType : [r EXCEPT !.target = Nobody] \in ReportType
  BY DEF ReportType
<1> QED
  BY <1>1 DEF ReportsType, ClearTargets

LEMMA FilingKeeps ==
  ASSUME ReportsInv, NEW r \in Reports, (\E i \in Contents : Resolve(r, i)) \/ File(r)
  PROVE  ReportsInv'
<1>1. report \in [Reports -> ReportType]
  BY DEF ReportsInv, ReportsType
<1>2. CASE \E i \in Contents : Resolve(r, i)
  <2>1. PICK i \in Contents : Resolve(r, i)
    BY <1>2
  <2>2. [at |-> "filing", target |-> i] \in ReportType
    BY DEF ReportType
  <2>3. report' \in [Reports -> ReportType]
    BY <1>1, <2>1, <2>2 DEF Resolve
  <2>4. UNCHANGED <<shelfVars, admin, entries, banned, cut, direct>>
    BY <2>1 DEF Resolve
  <2> QED
    BY <2>3, <2>4, OthersKeep, ShelvesStep DEF shelfVars, ReportsInv, Kept
<1>3. CASE File(r)
  <2>1. report' \in [Reports -> ReportType]
    BY <1>1, <1>3, NobodyType, ReportAt DEF File
  <2>2. UNCHANGED <<shelfVars, admin, entries, banned, cut, direct>>
    BY <1>3 DEF File
  <2> QED
    BY <2>1, <2>2, OthersKeep, ShelvesStep DEF shelfVars, ReportsInv, Kept
<1> QED
  BY <1>2, <1>3

\* What the shelves do of their own is not the work of an admin.
LEMMA NotByAdmins ==
  ASSUME ShelvesInv, NextShelves
  PROVE  \A i \in Items : by'[i] = "admin" <=> by[i] = "admin"
<1>1. ASSUME NEW S, NEW who \in {"user", "cleanup", "purge"}, Delete(S, who)
      PROVE  \A i \in Items : by'[i] = "admin" <=> by[i] = "admin"
  BY <1>1, DeleteRows DEF Delete
<1>2. ASSUME NEW c \in Clerks, ShelfStep(c), by' # by PROVE \E S : Delete(S, "user")
  BY <1>2 DEF ShelfStep, Count, Find, Create, Conflict, DeleteFound
<1>3. ASSUME Cleanup PROVE \E S : Delete(S, "cleanup")
  BY <1>3 DEF Cleanup
<1>4. ASSUME NEW u \in Users, NEW ends \in BOOLEAN, Purge(u, ends) PROVE \E S : Delete(S, "purge")
  BY <1>4 DEF Purge
<1>5. ASSUME NEW i \in Items, Expires(i) PROVE by' = by
  BY <1>5 DEF Expires
<1> QED
  BY <1>1, <1>2, <1>3, <1>4, <1>5 DEF NextShelves, Items

\* A file that has gone is not written anew.
LEMMA FilesStayGone ==
  ASSUME ShelvesInv, NextShelves
  PROVE  \A f \in Files : Kept(f)' => Kept(f)
<1>1. ASSUME NEW S, NEW who \in {"user", "cleanup", "purge"}, Delete(S, who)
      PROVE  \A f \in Files : Kept(f)' => Kept(f)
  BY <1>1, DeleteRows DEF Items
<1>2. ASSUME NEW c \in Clerks, ShelfStep(c) PROVE \A f \in Files : Kept(f)' => Kept(f)
  <2>1. CASE \E i \in Items : Create(c, i)
    <3>1. PICK i \in Items : Create(c, i)
      BY <2>1
    <3>2. i \in clerk[c].kind /\ clerk[c].kind \cap Files = {}
      BY <3>1, ShelvesAssumption DEF Create, ShelvesInv, ShelvesType, ClerkType, Kinds
    <3>3. \A j \in Items : j # i => row'[j] = row[j]
      BY <3>1 DEF Create, ShelvesInv, ShelvesType
    <3> QED
      BY <3>2, <3>3 DEF Items, Kept
  <2>2. CASE \E S : Delete(S, "user")
    BY <1>1, <2>2
  <2>3. CASE row' = row
    BY <2>3 DEF Kept
  <2> QED
    BY <1>2, <2>1, <2>2, <2>3 DEF ShelfStep, Count, Find, Conflict, DeleteFound
<1>3. ASSUME Cleanup PROVE \E S : Delete(S, "cleanup")
  BY <1>3 DEF Cleanup
<1>4. ASSUME NEW u \in Users, NEW ends \in BOOLEAN, Purge(u, ends) PROVE \E S : Delete(S, "purge")
  BY <1>4 DEF Purge
<1>5. ASSUME NEW i \in Items, Expires(i) PROVE \A f \in Files : Kept(f)' => Kept(f)
  BY <1>5 DEF Expires, ShelvesInv, ShelvesType, Items, Kept
<1> QED
  BY <1>1, <1>2, <1>3, <1>4, <1>5 DEF NextShelves, Items

LEMMA TakesKeeps ==
  ASSUME ReportsInv, NEW a \in Admins, NEW r \in Reports, NEW at \in {"files", "rows", "ban", "decide"},
         NEW op \in Actions \cup {"archived", "open"}, Takes(a, at, op, r),
         at \in {"files", "rows"} => op = "report_content_deleted" /\ report[r].target # Nobody,
         at = "ban" => op = "report_user_banned",
         at = "decide" => op \in {"archived", "open"},
         UNCHANGED <<shelfVars, report, entries, banned, cut, direct>>
  PROVE  ReportsInv'
<1> DEFINE k == [at |-> at, op |-> op, report |-> r, item |-> report[r].target]
<1>1. report[r] \in ReportType /\ report \in [Reports -> ReportType]
  BY DEF ReportsInv, ReportsType
<1>2. report[r].target \in Contents \cup {Nobody}
  BY <1>1 DEF ReportType
<1>3. k \in TaskType /\ Knows(k) /\ k.at # "audit"
  BY <1>2 DEF TaskType, Knows
<1>4. admin' = [admin EXCEPT ![a] = k] /\ admin[a].at # "audit"
  BY DEF Takes
<1> HIDE DEF k
<1> QED
  BY <1>1, <1>3, <1>4, TaskKeeps

LEMMA OpenKeeps ==
  ASSUME ReportsInv, NEW a \in Admins, NEW r \in Reports, Open(a, r) PROVE ReportsInv'
<1>1. UNCHANGED <<shelfVars, report, entries, banned, cut, direct>>
  BY DEF Open
<1>2. CASE Takes(a, "ban", "report_user_banned", r)
  BY <1>1, <1>2, TakesKeeps DEF Actions
<1>3. ASSUME NEW at \in {"files", "rows"}, Takes(a, at, "report_content_deleted", r),
             report[r].target # Nobody
      PROVE  ReportsInv'
  BY <1>1, <1>3, TakesKeeps DEF Actions
<1> QED
  BY <1>2, <1>3 DEF Open

LEMMA LookKeeps ==
  ASSUME ReportsInv, NEW a \in Admins, NEW r \in Reports, Look(a, r) PROVE ReportsInv'
<1>1. UNCHANGED <<shelfVars, report, entries, banned, cut, direct>>
  BY DEF Look
<1>2. PICK op \in {"archived", "open"} : Takes(a, "decide", op, r)
  BY DEF Look
<1> QED
  BY <1>1, <1>2, TakesKeeps

LEMMA DeleteUserFilesKeeps ==
  ASSUME ReportsInv, NEW a \in Admins, NEW f \in Files, DeleteUserFiles(a, f) PROVE ReportsInv'
<1> DEFINE k == [at |-> "files", op |-> "user_files_deleted", report |-> "none", item |-> f]
<1>1. /\ admin' = [admin EXCEPT ![a] = k] /\ admin[a].at # "audit"
      /\ UNCHANGED <<shelfVars, report, entries, banned, cut, direct>>
  BY DEF DeleteUserFiles
<1>2. k \in TaskType /\ Knows(k) /\ k.at # "audit"
  BY DEF TaskType, Knows, Actions, Contents
<1>3. report' \in [Reports -> ReportType]
  BY <1>1 DEF ReportsInv, ReportsType
<1> HIDE DEF k
<1> QED
  BY <1>1, <1>2, <1>3, TaskKeeps

LEMMA LeavesKeeps ==
  ASSUME ReportsInv, NEW a \in Admins, Leaves(a), admin[a].at # "audit",
         report' \in [Reports -> ReportType], UNCHANGED <<shelfVars, entries, banned, cut, direct>>
  PROVE  ReportsInv'
  BY NoTaskType, TaskKeeps DEF Leaves

LEMMA SnapshotKeeps == ASSUME ReportsInv, NEW a \in Admins, Snapshot(a) PROVE ReportsInv'
<1>1. /\ admin[a].at = "files"
      /\ UNCHANGED <<shelfVars, report, entries, banned, cut, direct>>
      /\ report \in [Reports -> ReportType]
  BY DEF Snapshot, ReportsInv, ReportsType
<1>2. CASE Leaves(a)
  BY <1>1, <1>2, LeavesKeeps
<1>3. CASE Proceeds(a, "rows")
  <2> DEFINE k == [admin[a] EXCEPT !.at = "rows"]
  <2>1. admin[a] \in TaskType /\ Knows(admin[a])
    BY DEF ReportsInv, ReportsType, TasksKnow
  <2>2. k \in TaskType /\ Knows(k) /\ k.at = "rows"
    BY <1>1, <2>1 DEF TaskType, Knows
  <2>3. admin' = [admin EXCEPT ![a] = k]
    BY <1>3 DEF Proceeds
  <2> HIDE DEF k
  <2> QED
    BY <1>1, <2>2, <2>3, TaskKeeps
<1> QED
  BY <1>2, <1>3 DEF Snapshot

LEMMA DecideKeeps == ASSUME ReportsInv, NEW a \in Admins, Decide(a) PROVE ReportsInv'
<1>1. /\ admin[a].at = "decide" /\ Leaves(a)
      /\ UNCHANGED <<shelfVars, entries, banned, cut, direct>>
      /\ report' = [report EXCEPT ![admin[a].report].at = admin[a].op]
  BY DEF Decide
<1>2. admin[a].report \in Reports /\ admin[a].op \in {"archived", "open"}
  BY <1>1 DEF ReportsInv, TasksKnow, Knows
<1>3. report' \in [Reports -> ReportType]
  <2>1. report \in [Reports -> ReportType]
    BY DEF ReportsInv, ReportsType
  <2>2. [report[admin[a].report] EXCEPT !.at = admin[a].op] \in ReportType
    BY <1>2, <2>1, ReportAt
  <2> QED
    BY <1>1, <1>2, <2>1, <2>2
<1> QED
  BY <1>1, <1>3, LeavesKeeps

LEMMA EnteredNext ==
  ASSUME NEW x PROVE Entered(x)' = entries'[x] + cut'[x] + Cardinality(Pending(x)')
  BY DEF Entered, Pending

\* An entry or its request that is counted is a number.
LEMMA Counts ==
  ASSUME ReportsInv, NEW x \in Actions \X Subjects
  PROVE  entries[x] \in Nat /\ cut[x] \in Nat /\ Cardinality(Pending(x)) \in Nat
  BY PendingFinite DEF ReportsInv, ReportsType

LEMMA SubjectsEntered ==
  /\ \A i \in Contents : <<"report_content_deleted", i>> \in Actions \X Subjects
  /\ \A i \in Contents : <<"user_files_deleted", i>> \in Actions \X Subjects
  /\ \A r \in Reports : <<"report_user_banned", r>> \in Actions \X Subjects
  BY DEF Actions, Subjects, Items, Contents

LEMMA BanKeeps == ASSUME ReportsInv, NEW a \in Admins, Ban(a) PROVE ReportsInv'
<1> DEFINE k == [admin[a] EXCEPT !.at = "audit"]
<1>1. /\ admin[a].at = "ban" /\ banned' = banned \cup {admin[a].report}
      /\ admin' = [admin EXCEPT ![a] = k]
      /\ UNCHANGED <<shelfVars, report, entries, cut, direct>>
  BY DEF Ban, Proceeds
<1>2. admin[a] \in TaskType /\ Knows(admin[a])
  BY DEF ReportsInv, ReportsType, TasksKnow
<1>3. admin[a].report \in Reports /\ admin[a].op = "report_user_banned"
  BY <1>1, <1>2 DEF Knows
<1>4. /\ k \in TaskType /\ Knows(k) /\ k.at = "audit"
      /\ k.op = "report_user_banned" /\ k.report = admin[a].report
  BY <1>2, <1>3 DEF TaskType, Knows
<1> HIDE DEF k
<1>5. ShelvesInv'
  BY <1>1, ShelvesStep DEF ReportsInv
<1>6. ReportsType' /\ TasksKnow'
  BY <1>1, <1>3, <1>4 DEF ReportsInv, ReportsType, TasksKnow
<1>7. admin'[a] = k
  BY <1>1 DEF ReportsInv, ReportsType
<1>8. Entry(a)' = <<"report_user_banned", admin[a].report>>
  BY <1>4, <1>7 DEF Entry
<1>9. ASSUME NEW x \in Actions \X Subjects
      PROVE  /\ Entered(x) \in Nat
             /\ Entered(x)' = IF x = <<"report_user_banned", admin[a].report>>
                              THEN Entered(x) + 1 ELSE Entered(x)
  <2>1. Cardinality(Pending(x)') = IF Entry(a)' = x THEN Cardinality(Pending(x)) + 1
                                   ELSE Cardinality(Pending(x))
    BY <1>1, <1>4, OneMorePending
  <2>2. entries'[x] = entries[x] /\ cut'[x] = cut[x]
    BY <1>1
  <2> QED
    BY <2>1, <2>2, <1>8, Counts, EnteredSum, EnteredNext
<1>10. DeletionsAudited'
  <2>1. \A b \in Bins :
          Entered(<<"report_content_deleted", b>>)' = IF by'[b] = "admin" THEN 1 ELSE 0
    BY <1>1, <1>9, SubjectsEntered DEF DeletionsAudited, ReportsInv, Contents, shelfVars
  <2>2. \A f \in Files : FileTold(f)'
    BY <1>1, <1>9, SubjectsEntered
    DEF FileTold, DeletionsAudited, ReportsInv, Contents, shelfVars, Kept
  <2>3. ASSUME NEW r \in banned' PROVE Entered(<<"report_user_banned", r>>)' > 0
    <3>1. r \in Reports
      BY <1>6 DEF ReportsType
    <3>2. r # admin[a].report => r \in banned
      BY <1>1
    <3>3. r \in banned => Entered(<<"report_user_banned", r>>) > 0
      BY DEF ReportsInv, DeletionsAudited
    <3> QED
      BY <3>1, <3>2, <3>3, <1>9, SubjectsEntered
  <2> QED
    BY <2>1, <2>2, <2>3 DEF DeletionsAudited, FileTold
<1> QED
  BY <1>5, <1>6, <1>10 DEF ReportsInv

\* The entry is written, or is cut off, and counts as one all the same.
LEMMA EntryKeeps ==
  ASSUME ReportsInv, NEW a \in Admins, admin[a].at = "audit", Leaves(a),
         UNCHANGED <<shelfVars, report, banned, direct>>,
         \/ Audit(a)
         \/ UNCHANGED entries /\ cut' = [cut EXCEPT ![Entry(a)] = @ + 1]
  PROVE  ReportsInv'
<1>1. /\ Entry(a) \in Actions \X Subjects
      /\ Entry(a)[1] = admin[a].op
      /\ Entry(a)[1] \in {"report_content_deleted", "report_user_banned"}
  BY EntryKnown
<1>2. entries[Entry(a)] \in Nat /\ cut[Entry(a)] \in Nat
  BY <1>1, Counts
<1>3. ShelvesInv'
  BY ShelvesStep DEF ReportsInv
<1>4. admin' = [admin EXCEPT ![a] = NoTask]
  BY DEF Leaves
<1>5. ReportsType'
  BY <1>1, <1>2, <1>4, NoTaskType DEF ReportsInv, ReportsType, Audit
<1>6. TasksKnow'
  BY <1>4, NoTaskType DEF ReportsInv, ReportsType, TasksKnow
<1>7. ASSUME NEW x \in Actions \X Subjects
      PROVE  /\ Entered(x) \in Nat
             /\ Entered(x)' = Entered(x) \/ (Entered(x)' > 0 /\ x[1] = "report_user_banned")
             /\ x[1] = "user_files_deleted" => entries'[x] = entries[x]
  <2>1. /\ entries[x] \in Nat /\ cut[x] \in Nat /\ Cardinality(Pending(x)) \in Nat
    BY Counts
  <2>2. Cardinality(Pending(x)') = IF Entry(a) = x THEN Cardinality(Pending(x)) - 1
                                   ELSE Cardinality(Pending(x))
    BY <1>4, OneLessPending
  <2>3. Entered(x) = entries[x] + cut[x] + Cardinality(Pending(x))
    BY EnteredSum
  <2>4. Entered(x)' = entries'[x] + cut'[x] + Cardinality(Pending(x)')
    BY EnteredNext
  <2>5. Cardinality(Pending(x)') \in Nat
    <3>1. Pending(x)' \in SUBSET Admins
      BY DEF Pending
    <3> QED
      BY <3>1, ReportsAssumption, FS_Subset, FS_CardinalityType
  <2>6. CASE x # Entry(a)
    <3>1. entries'[x] = entries[x] /\ cut'[x] = cut[x]
      BY <1>1, <2>6 DEF Audit, ReportsInv, ReportsType
    <3> QED
      BY <2>1, <2>2, <2>3, <2>4, <2>6, <3>1
  <2>7. CASE x = Entry(a) /\ Audit(a)
    <3>1. /\ cut'[x] = cut[x]
          /\ entries'[x] = IF admin[a].op = "report_user_banned" THEN 1 ELSE entries[x] + 1
      BY <1>1, <2>7 DEF Audit, ReportsInv, ReportsType
    <3> QED
      BY <1>1, <2>1, <2>2, <2>3, <2>4, <2>5, <2>7, <3>1
  <2>8. CASE x = Entry(a) /\ UNCHANGED entries /\ cut' = [cut EXCEPT ![Entry(a)] = @ + 1]
    <3>1. cut'[x] = cut[x] + 1 /\ entries'[x] = entries[x]
      BY <1>1, <2>8 DEF ReportsInv, ReportsType
    <3> QED
      BY <2>1, <2>2, <2>3, <2>4, <2>8, <3>1
  <2> QED
    BY <2>6, <2>7, <2>8
<1>8. DeletionsAudited'
  <2>1. ASSUME NEW b \in Bins
        PROVE  Entered(<<"report_content_deleted", b>>)' = IF by'[b] = "admin" THEN 1 ELSE 0
    <3>1. <<"report_content_deleted", b>> \in Actions \X Subjects
      BY SubjectsEntered DEF Contents
    <3>2. Entered(<<"report_content_deleted", b>>)' = Entered(<<"report_content_deleted", b>>)
      BY <3>1, <1>7
    <3> QED
      BY <3>2 DEF DeletionsAudited, ReportsInv, shelfVars
  <2>2. ASSUME NEW f \in Files PROVE FileTold(f)'
    <3>1. /\ <<"report_content_deleted", f>> \in Actions \X Subjects
          /\ <<"user_files_deleted", f>> \in Actions \X Subjects
      BY SubjectsEntered DEF Contents
    <3>2. /\ Entered(<<"report_content_deleted", f>>)' = Entered(<<"report_content_deleted", f>>)
          /\ entries'[<<"user_files_deleted", f>>] = entries[<<"user_files_deleted", f>>]
      BY <3>1, <1>7
    <3> QED
      BY <3>2 DEF FileTold, DeletionsAudited, ReportsInv, shelfVars, Kept
  <2>3. ASSUME NEW r \in banned' PROVE Entered(<<"report_user_banned", r>>)' > 0
    <3>1. r \in Reports /\ r \in banned
      BY DEF ReportsInv, ReportsType
    <3>2. Entered(<<"report_user_banned", r>>) > 0
      BY <3>1 DEF ReportsInv, DeletionsAudited
    <3> QED
      BY <3>1, <3>2, <1>7, SubjectsEntered
  <2> QED
    BY <2>1, <2>2, <2>3 DEF DeletionsAudited, FileTold
<1> QED
  BY <1>3, <1>5, <1>6, <1>8 DEF ReportsInv

LEMMA AuditKeeps == ASSUME ReportsInv, NEW a \in Admins, Audit(a) PROVE ReportsInv'
  BY EntryKeeps DEF Audit

LEMMA TroubleKeeps == ASSUME ReportsInv, NEW a \in Admins, Trouble(a) PROVE ReportsInv'
<1>1. Leaves(a) /\ UNCHANGED <<shelfVars, report, entries, banned, direct>>
  BY DEF Trouble
<1>2. CASE admin[a].at = "audit"
  BY <1>1, <1>2, EntryKeeps DEF Trouble
<1>3. CASE admin[a].at # "audit"
  <2>1. UNCHANGED cut /\ report' \in [Reports -> ReportType]
    BY <1>1, <1>3 DEF Trouble, ReportsInv, ReportsType
  <2> QED
    BY <1>1, <1>3, <2>1, LeavesKeeps
<1> QED
  BY <1>2, <1>3

\* A bin is entered by the one request that deletes its row, a file by every
\* request that tries to.
LEMMA DeleteRowKeeps == ASSUME ReportsInv, NEW a \in Admins, DeleteRow(a) PROVE ReportsInv'
<1> DEFINE i == admin[a].item
           ufd == <<"user_files_deleted", i>>
           k == [admin[a] EXCEPT !.at = "audit"]
<1>1. /\ admin[a].at = "rows" /\ Delete({i}, "admin") /\ ClearTargets
      /\ IF Deleted(i) /\ admin[a].op = "report_content_deleted"
         THEN Proceeds(a, "audit") ELSE Leaves(a)
      /\ direct' = IF admin[a].op = "user_files_deleted" THEN [direct EXCEPT ![i] = @ + 1] ELSE direct
      /\ entries' = IF i \in Files THEN [entries EXCEPT ![ufd] = @ + 1] ELSE entries
      /\ UNCHANGED <<clerk, closed, late, banned, cut>>
  BY DEF DeleteRow
<1>2. admin[a] \in TaskType /\ Knows(admin[a])
  BY DEF ReportsInv, ReportsType, TasksKnow
<1>3. i \in Contents /\ \/ admin[a].op = "report_content_deleted"
                        \/ admin[a].op = "user_files_deleted" /\ i \in Files
  BY <1>1, <1>2 DEF Knows, Contents
<1>4. admin[a].op = "report_content_deleted" =>
        /\ k \in TaskType /\ Knows(k) /\ k.at = "audit"
        /\ k.op = "report_content_deleted" /\ k.item = i
  BY <1>2, <1>3 DEF TaskType, Knows
<1>5. ShelvesInv /\ ShelvesInv'
  <2>1. /\ clerk' \in [Clerks -> ClerkType]
        /\ \A c \in Clerks : clerk'[c] = clerk[c]
    BY <1>1 DEF ReportsInv, ShelvesInv, ShelvesType
  <2> QED
    BY <1>1, <2>1, DeleteKeeps DEF ReportsInv
<1>6. report' \in [Reports -> ReportType]
  BY <1>1, ClearedType DEF ReportsInv
<1>7. ufd \in Actions \X Subjects /\ <<"report_content_deleted", i>> \in Actions \X Subjects
  BY <1>3, SubjectsEntered
<1>8. /\ \A j \in Items : j # i => by'[j] = by[j]
      /\ Kept(i) => by[i] = "nobody" /\ by'[i] = "admin"
      /\ ~Kept(i) => by'[i] = by[i]
      /\ \A j \in Items : Kept(j)' => Kept(j) /\ j # i
  <2>1. \A j \in Items : by'[j] = IF j \in {i} /\ Kept(j) THEN "admin" ELSE by[j]
    BY <1>1 DEF Delete
  <2>2. i \in Items
    BY <1>3 DEF Contents, Items
  <2>3. Kept(i) => by[i] = "nobody"
    BY <1>1, <1>5, <2>2, DeleteRows
  <2>4. \A j \in Items : Kept(j)' => Kept(j) /\ j # i
    BY <1>1, <1>5, DeleteRows
  <2> QED
    BY <2>1, <2>2, <2>3, <2>4
<1> HIDE DEF k, ufd
<1>9. CASE Deleted(i) /\ admin[a].op = "report_content_deleted"
  <2>1. admin' = [admin EXCEPT ![a] = k] /\ direct' = direct
    BY <1>1, <1>9 DEF Proceeds, k
  <2>2. entries[ufd] \in Nat
    BY <1>7, Counts
  <2>3. ReportsType'
    BY <1>1, <1>4, <1>6, <1>7, <1>9, <2>1, <2>2 DEF ReportsInv, ReportsType
  <2>4. TasksKnow'
    BY <1>4, <1>9, <2>1 DEF ReportsInv, ReportsType, TasksKnow
  <2>5. Entry(a)' = <<"report_content_deleted", i>>
    BY <1>4, <1>9, <2>1 DEF Entry, ReportsInv, ReportsType
  <2>6. ASSUME NEW x \in Actions \X Subjects
        PROVE  /\ Entered(x) \in Nat /\ entries[x] \in Nat
               /\ entries'[x] = IF i \in Files /\ x = ufd THEN entries[x] + 1 ELSE entries[x]
               /\ x # ufd => Entered(x)' = IF x = <<"report_content_deleted", i>>
                                           THEN Entered(x) + 1 ELSE Entered(x)
    <3>1. Cardinality(Pending(x)') = IF Entry(a)' = x THEN Cardinality(Pending(x)) + 1
                                     ELSE Cardinality(Pending(x))
      BY <1>1, <1>4, <1>9, <2>1, OneMorePending
    <3>2. entries'[x] = IF i \in Files /\ x = ufd THEN entries[x] + 1 ELSE entries[x]
      BY <1>1 DEF ReportsInv, ReportsType
    <3> QED
      BY <3>1, <3>2, <2>5, <1>1, Counts, EnteredSum, EnteredNext
  <2>7. ASSUME NEW b \in Bins
        PROVE  Entered(<<"report_content_deleted", b>>)' = IF by'[b] = "admin" THEN 1 ELSE 0
    <3>1. Entered(<<"report_content_deleted", b>>) = IF by[b] = "admin" THEN 1 ELSE 0
      BY DEF ReportsInv, DeletionsAudited
    <3>2. <<"report_content_deleted", b>> \in Actions \X Subjects
      BY SubjectsEntered DEF Contents
    <3>3. Entered(<<"report_content_deleted", b>>)' =
            IF b = i THEN Entered(<<"report_content_deleted", b>>) + 1
            ELSE Entered(<<"report_content_deleted", b>>)
      BY <3>2, <2>6 DEF ufd
    <3>4. b = i => Kept(i)
      BY <1>9 DEF Deleted
    <3> QED
      BY <3>1, <3>3, <3>4, <1>8 DEF Items
  <2>8. ASSUME NEW f \in Files PROVE FileTold(f)'
    <3>1. FileTold(f)
      BY DEF ReportsInv, DeletionsAudited, FileTold
    <3>2. /\ <<"report_content_deleted", f>> \in Actions \X Subjects
          /\ <<"user_files_deleted", f>> \in Actions \X Subjects
      BY SubjectsEntered DEF Contents
    <3>3. /\ entries'[<<"user_files_deleted", f>>] =
               IF f = i THEN entries[<<"user_files_deleted", f>>] + 1
               ELSE entries[<<"user_files_deleted", f>>]
          /\ entries[<<"user_files_deleted", f>>] \in Nat
      BY <3>2, <2>6 DEF ufd
    <3>4. /\ Entered(<<"report_content_deleted", f>>)' =
               IF f = i THEN Entered(<<"report_content_deleted", f>>) + 1
               ELSE Entered(<<"report_content_deleted", f>>)
          /\ Entered(<<"report_content_deleted", f>>) \in Nat /\ direct[f] \in Nat
      BY <3>2, <2>6 DEF ufd, ReportsInv, ReportsType
    <3> QED
      BY <3>1, <3>3, <3>4, <2>1, <1>8 DEF FileTold, Items
  <2>9. ASSUME NEW r \in banned' PROVE Entered(<<"report_user_banned", r>>)' > 0
    <3>1. r \in Reports /\ r \in banned
      BY <1>1 DEF ReportsInv, ReportsType
    <3>2. Entered(<<"report_user_banned", r>>) > 0
      BY <3>1 DEF ReportsInv, DeletionsAudited
    <3>3. <<"report_user_banned", r>> \in Actions \X Subjects
      BY <3>1, SubjectsEntered
    <3>4. Entered(<<"report_user_banned", r>>)' = Entered(<<"report_user_banned", r>>)
      BY <3>3, <2>6 DEF ufd
    <3> QED
      BY <3>2, <3>4
  <2>10. DeletionsAudited'
    BY <2>7, <2>8, <2>9 DEF DeletionsAudited, FileTold
  <2> QED
    BY <1>5, <2>3, <2>4, <2>10 DEF ReportsInv
<1>10. CASE ~Deleted(i)
  <2>1. i \notin Files /\ ~Kept(i)
    BY <1>10, ShelvesAssumption DEF Deleted
  <2>2. /\ admin' = [admin EXCEPT ![a] = NoTask] /\ UNCHANGED <<entries, cut, direct, banned>>
    BY <1>1, <1>3, <1>10, <2>1 DEF Leaves
  <2>3. ReportsType' /\ TasksKnow'
    BY <1>6, <2>2, NoTaskType DEF ReportsInv, ReportsType, TasksKnow
  <2>4. \A x : Pending(x)' = Pending(x)
    BY <1>1, <2>2, NoTaskType, SamePending
  <2>5. \A j \in Items : by'[j] = "admin" <=> by[j] = "admin"
    BY <1>8, <2>1
  <2>6. \A f \in Files : Kept(f)' => Kept(f)
    BY <1>8 DEF Items
  <2>7. DeletionsAudited'
    BY <2>2, <2>4, <2>5, <2>6, SameAudit DEF ReportsInv
  <2> QED
    BY <1>5, <2>3, <2>7 DEF ReportsInv
<1>11. CASE admin[a].op = "user_files_deleted" /\ i \in Files
  <2>1. /\ admin' = [admin EXCEPT ![a] = NoTask]
        /\ entries' = [entries EXCEPT ![ufd] = @ + 1]
        /\ direct' = [direct EXCEPT ![i] = @ + 1]
        /\ UNCHANGED <<cut, banned>>
    BY <1>1, <1>11 DEF Leaves
  <2>2. entries[ufd] \in Nat /\ direct[i] \in Nat
    BY <1>7, <1>11, Counts DEF ReportsInv, ReportsType
  <2>3. ReportsType'
    BY <1>6, <1>7, <1>11, <2>1, <2>2, NoTaskType DEF ReportsInv, ReportsType
  <2>4. TasksKnow'
    BY <2>1, NoTaskType DEF ReportsInv, ReportsType, TasksKnow
  <2>5. \A x : Pending(x)' = Pending(x)
    BY <1>1, <2>1, NoTaskType, SamePending
  <2>6. ASSUME NEW x \in Actions \X Subjects
        PROVE  /\ Entered(x) \in Nat /\ entries[x] \in Nat
               /\ entries'[x] = IF x = ufd THEN entries[x] + 1 ELSE entries[x]
               /\ x # ufd => Entered(x)' = Entered(x)
    <3>1. entries'[x] = IF x = ufd THEN entries[x] + 1 ELSE entries[x]
      BY <2>1 DEF ReportsInv, ReportsType
    <3>2. cut'[x] = cut[x] /\ Cardinality(Pending(x)') = Cardinality(Pending(x))
      BY <2>1, <2>5
    <3> QED
      BY <3>1, <3>2, Counts, EnteredSum, EnteredNext
  <2>7. ASSUME NEW b \in Bins
        PROVE  Entered(<<"report_content_deleted", b>>)' = IF by'[b] = "admin" THEN 1 ELSE 0
    <3>1. <<"report_content_deleted", b>> \in Actions \X Subjects /\ b # i
      BY <1>11, SubjectsEntered, ShelvesAssumption DEF Contents
    <3>2. Entered(<<"report_content_deleted", b>>)' = Entered(<<"report_content_deleted", b>>)
      BY <3>1, <2>6 DEF ufd
    <3> QED
      BY <3>1, <3>2, <1>8 DEF ReportsInv, DeletionsAudited, Items
  <2>8. ASSUME NEW f \in Files PROVE FileTold(f)'
    <3>1. FileTold(f)
      BY DEF ReportsInv, DeletionsAudited, FileTold
    <3>2. /\ <<"report_content_deleted", f>> \in Actions \X Subjects
          /\ <<"user_files_deleted", f>> \in Actions \X Subjects
      BY SubjectsEntered DEF Contents
    <3>3. /\ entries'[<<"user_files_deleted", f>>] =
               IF f = i THEN entries[<<"user_files_deleted", f>>] + 1
               ELSE entries[<<"user_files_deleted", f>>]
          /\ entries[<<"user_files_deleted", f>>] \in Nat
      BY <3>2, <2>6 DEF ufd
    <3>4. /\ direct'[f] = IF f = i THEN direct[f] + 1 ELSE direct[f]
          /\ direct[f] \in Nat
      BY <2>1 DEF ReportsInv, ReportsType
    <3>5. /\ Entered(<<"report_content_deleted", f>>)' = Entered(<<"report_content_deleted", f>>)
          /\ Entered(<<"report_content_deleted", f>>) \in Nat
      BY <3>2, <2>6 DEF ufd
    <3> QED
      BY <3>1, <3>3, <3>4, <3>5, <1>8 DEF FileTold, Items
  <2>9. ASSUME NEW r \in banned' PROVE Entered(<<"report_user_banned", r>>)' > 0
    <3>1. r \in Reports /\ r \in banned
      BY <2>1 DEF ReportsInv, ReportsType
    <3>2. Entered(<<"report_user_banned", r>>) > 0
      BY <3>1 DEF ReportsInv, DeletionsAudited
    <3>3. Entered(<<"report_user_banned", r>>)' = Entered(<<"report_user_banned", r>>)
      BY <3>1, <2>6, SubjectsEntered DEF ufd
    <3> QED
      BY <3>2, <3>3
  <2>10. DeletionsAudited'
    BY <2>7, <2>8, <2>9 DEF DeletionsAudited, FileTold
  <2> QED
    BY <1>5, <2>3, <2>4, <2>10 DEF ReportsInv
<1> QED
  BY <1>3, <1>9, <1>10, <1>11

\* What happens to reports of bugs is nothing to those of contents.
LEMMA BugsApart ==
  ASSUME NEW x \in BugReports, BugStep(x)
  PROVE  UNCHANGED <<shelfVars, report, admin, entries, banned, cut, direct>>
  BY DEF BugStep, PutAttachment, FileBug, FailBug, KillBug, UndoBug

LEMMA ReportsStep == ReportsInv /\ [NextReports]_<<shelfVars, reportVars>> => ReportsInv'
<1> SUFFICES ASSUME ReportsInv, [NextReports]_<<shelfVars, reportVars>> PROVE ReportsInv'
  OBVIOUS
<1>1. ASSUME NEW a \in Admins, AdminStep(a) PROVE ReportsInv'
  BY <1>1, OpenKeeps, LookKeeps, DeleteUserFilesKeeps, SnapshotKeeps, DeleteRowKeeps, BanKeeps, AuditKeeps,
     DecideKeeps, TroubleKeeps DEF AdminStep
<1>2. ASSUME UNCHANGED <<shelfVars, report, admin, entries, banned, cut, direct>> PROVE ReportsInv'
  <2>1. ShelvesInv' /\ by' = by /\ row' = row
    BY <1>2, ShelvesStep DEF ReportsInv, shelfVars
  <2>2. report' \in [Reports -> ReportType]
    BY <1>2 DEF ReportsInv, ReportsType
  <2> QED
    BY <1>2, <2>1, <2>2, OthersKeep DEF Kept
<1>3. ASSUME NextShelves, ClearTargets, UNCHANGED <<admin, entries, banned, cut, direct>>
      PROVE  ReportsInv'
  <2>1. ShelvesInv'
    BY <1>3, ShelvesStep DEF ReportsInv
  <2>2. report' \in [Reports -> ReportType]
    BY <1>3, ClearedType DEF ReportsInv
  <2>3. \A i \in Items : by'[i] = "admin" <=> by[i] = "admin"
    BY <1>3, NotByAdmins DEF ReportsInv
  <2>4. \A f \in Files : Kept(f)' => Kept(f)
    BY <1>3, FilesStayGone DEF ReportsInv
  <2> QED
    BY <1>3, <2>1, <2>2, <2>3, <2>4, OthersKeep
<1>4. CASE UNCHANGED <<shelfVars, reportVars>>
  BY <1>2, <1>4 DEF reportVars
<1>5. ASSUME NEW x \in BugReports, BugStep(x) PROVE ReportsInv'
  BY <1>2, <1>5, BugsApart
<1>6. ASSUME NEW r \in Reports, (\E i \in Contents : Resolve(r, i)) \/ File(r) PROVE ReportsInv'
  BY <1>6, FilingKeeps
<1> QED
  BY <1>1, <1>3, <1>4, <1>5, <1>6 DEF NextReports

\* Where admins delete rows, too, the limits hold and deletions are complete.
THEOREM ShelvesHoldForAdmins == ReportsSpec => []ShelvesKept
<1>1. ReportsInv => ShelvesKept
  BY DEF ReportsInv, ShelvesInv
<1> QED
  BY <1>1, ReportsInitial, ReportsStep, PTL DEF ReportsSpec

LEMMA DeletionsHold == ReportsSpec => []DeletionsAudited
<1>1. ReportsInv => DeletionsAudited
  BY DEF ReportsInv
<1> QED
  BY <1>1, ReportsInitial, ReportsStep, PTL DEF ReportsSpec

-----------------------------------------------------------------------------
(* Reports of bugs *)

BugType == [at : {"idle", "undo", "ended"}, stored : Nat, row : {"none", "filed", "unheard"}]

\* An object that is not stray was listed for the report it names, and is still
\* needed; all of them are there until the request fails, and where it does not.
AttachmentsInv ==
  /\ bug \in [BugReports -> BugType]
  /\ objects \in SUBSET (BugReports \X Nat)
  /\ \A x \in BugReports :
       /\ bug[x].at = "idle" => bug[x].row = "none"
       /\ bug[x].row = "filed" => bug[x].at = "ended"
       /\ bug[x].at = "idle" \/ bug[x].row = "filed" => Uploaded(x) \subseteq objects
  /\ \A o \in objects \ stray :
       o \in Uploaded(o[1]) /\ (bug[o[1]].at /= "ended" \/ bug[o[1]].row = "filed")

LEMMA AttachmentsInitial == InitReports => AttachmentsInv
  BY DEF InitReports, AttachmentsInv, BugType, Uploaded

\* The object of the next attachment is none of those that are listed.
LEMMA NextIs ==
  ASSUME AttachmentsInv, NEW x \in BugReports
  PROVE  /\ NextObject(x) \in SUBSET (BugReports \X Nat)
         /\ \A o \in NextObject(x) : o[1] = x
         /\ bug[x].stored < Attachments => NextObject(x) = {<<x, bug[x].stored + 1>>}
<1>1. bug[x] \in BugType
  BY DEF AttachmentsInv
<1>2. bug[x].stored \in Nat /\ Attachments \in Nat
  BY <1>1, ReportsAssumption DEF BugType
<1>3. bug[x].stored < Attachments => {bug[x].stored + 1} \cap (1..Attachments) = {bug[x].stored + 1}
  BY <1>2
<1> QED
  BY <1>2, <1>3 DEF NextObject

LEMMA PutKeeps ==
  ASSUME AttachmentsInv, NEW x \in BugReports, PutAttachment(x) PROVE AttachmentsInv'
<1> DEFINE n == bug[x].stored + 1
           b == [bug[x] EXCEPT !.stored = n]
<1>1. bug[x] \in BugType /\ n \in Nat
  BY DEF AttachmentsInv, BugType
<1>2. /\ bug[x].at = "idle" /\ bug' = [bug EXCEPT ![x] = b]
      /\ objects' = objects \cup {<<x, n>>} /\ UNCHANGED stray
  BY NextIs DEF PutAttachment
<1>3. b \in BugType /\ b.at = "idle" /\ b.stored = n /\ b.row = bug[x].row
  BY <1>1, <1>2 DEF BugType
<1> HIDE DEF b
<1>4. /\ bug' \in [BugReports -> BugType] /\ bug'[x] = b
      /\ \A y \in BugReports : y # x => bug'[y] = bug[y]
  BY <1>2, <1>3 DEF AttachmentsInv
<1>5. \A y \in BugReports : y # x => Uploaded(y)' = Uploaded(y)
  BY <1>4 DEF Uploaded
<1>6. Uploaded(x)' = Uploaded(x) \cup {<<x, n>>}
  <2>1. 1..n = 1..bug[x].stored \cup {n}
    BY <1>1 DEF BugType
  <2>2. Uploaded(x)' = {x} \X (1..n)
    BY <1>3, <1>4 DEF Uploaded
  <2>3. Uploaded(x) = {x} \X (1..bug[x].stored)
    BY DEF Uploaded
  <2> QED
    BY <2>1, <2>2, <2>3
<1>7. objects' \in SUBSET (BugReports \X Nat)
  BY <1>1, <1>2 DEF AttachmentsInv
<1>8. ASSUME NEW y \in BugReports
      PROVE  /\ bug'[y].at = "idle" => bug'[y].row = "none"
             /\ bug'[y].row = "filed" => bug'[y].at = "ended"
             /\ bug'[y].at = "idle" \/ bug'[y].row = "filed" => Uploaded(y)' \subseteq objects'
  BY <1>2, <1>3, <1>4, <1>5, <1>6 DEF AttachmentsInv
<1>9. ASSUME NEW o \in objects' \ stray'
      PROVE  o \in Uploaded(o[1])' /\ (bug'[o[1]].at /= "ended" \/ bug'[o[1]].row = "filed")
  <2>1. CASE o \in objects
    <3>1. o \in objects \ stray /\ o[1] \in BugReports
      BY <2>1, <1>2 DEF AttachmentsInv
    <3> QED
      BY <3>1, <1>3, <1>4, <1>5, <1>6 DEF AttachmentsInv
  <2>2. CASE o = <<x, n>>
    <3>1. o[1] = x
      BY <2>2
    <3> QED
      BY <2>2, <3>1, <1>3, <1>4, <1>6
  <2> QED
    BY <2>1, <2>2, <1>2
<1> QED
  BY <1>4, <1>7, <1>8, <1>9 DEF AttachmentsInv

\* The request comes to an end of its own or to its catch, with the objects it
\* has and perhaps one it does not know, or gives some of them up.
LEMMA BugGoesOn ==
  ASSUME AttachmentsInv, NEW x \in BugReports, NEW b \in BugType,
         bug' = [bug EXCEPT ![x] = b], b.stored = bug[x].stored,
         b.at \in {"undo", "ended"}, bug[x].row # "filed",
         NEW put \in SUBSET NextObject(x), put \subseteq stray', stray \subseteq stray',
         objects' \subseteq objects \cup put,
         \A o \in objects \ objects' : o[1] = x /\ b.row # "filed",
         b.row = "filed" => bug[x].at = "idle" /\ b.at = "ended",
         b.at = "ended" /\ b.row # "filed" => objects' \cap Uploaded(x) \subseteq stray'
  PROVE  AttachmentsInv'
<1>1. /\ bug' \in [BugReports -> BugType] /\ bug'[x] = b
      /\ \A y \in BugReports : y # x => bug'[y] = bug[y]
  BY DEF AttachmentsInv
<1>2. \A y \in BugReports : Uploaded(y)' = Uploaded(y)
  BY <1>1 DEF Uploaded
<1>3. objects' \in SUBSET (BugReports \X Nat)
  BY NextIs DEF AttachmentsInv
<1>4. ASSUME NEW y \in BugReports, bug'[y].at = "idle" \/ bug'[y].row = "filed",
             NEW o \in Uploaded(y)'
      PROVE  o \in objects'
  <2>1. (bug[y].at = "idle" \/ bug[y].row = "filed") /\ (y = x => b.row = "filed")
    BY <1>1, <1>4
  <2>2. o \in objects /\ o[1] = y
    BY <1>2, <1>4, <2>1 DEF AttachmentsInv, Uploaded
  <2> QED
    BY <2>1, <2>2
<1>5. ASSUME NEW y \in BugReports
      PROVE  /\ bug'[y].at = "idle" => bug'[y].row = "none"
             /\ bug'[y].row = "filed" => bug'[y].at = "ended"
  BY <1>1 DEF AttachmentsInv
<1>6. ASSUME NEW o \in objects' \ stray'
      PROVE  o \in Uploaded(o[1])' /\ (bug'[o[1]].at /= "ended" \/ bug'[o[1]].row = "filed")
  <2>1. o \in objects \ stray /\ o[1] \in BugReports
    BY <1>3
  <2>2. o \in Uploaded(o[1]) /\ (bug[o[1]].at /= "ended" \/ bug[o[1]].row = "filed")
    BY <2>1 DEF AttachmentsInv
  <2> QED
    BY <2>1, <2>2, <1>1, <1>2
<1> QED
  BY <1>1, <1>3, <1>4, <1>5, <1>6 DEF AttachmentsInv

LEMMA FileKeeps ==
  ASSUME AttachmentsInv, NEW x \in BugReports, FileBug(x) PROVE AttachmentsInv'
<1> DEFINE b == [bug[x] EXCEPT !.at = "ended", !.row = "filed"]
<1>1. bug[x] \in BugType /\ bug[x].at = "idle" /\ bug[x].row = "none"
  BY DEF AttachmentsInv, FileBug
<1>2. b \in BugType /\ b.at = "ended" /\ b.row = "filed" /\ b.stored = bug[x].stored
  BY <1>1 DEF BugType
<1>3. bug' = [bug EXCEPT ![x] = b] /\ UNCHANGED <<objects, stray>>
  BY DEF FileBug
<1>4. {} \in SUBSET NextObject(x) /\ objects' \subseteq objects \cup {}
  BY <1>3
<1> HIDE DEF b
<1> QED
  BY <1>1, <1>2, <1>3, <1>4, BugGoesOn

LEMMA FailKeeps ==
  ASSUME AttachmentsInv, NEW x \in BugReports, FailBug(x) PROVE AttachmentsInv'
<1> DEFINE b(told) == [bug[x] EXCEPT !.at = "undo", !.row = told]
<1>1. bug[x] \in BugType /\ bug[x].at = "idle" /\ bug[x].row = "none"
  BY DEF AttachmentsInv, FailBug
<1>2. \A told \in {"none", "unheard"} :
        /\ b(told) \in BugType /\ b(told).at = "undo" /\ b(told).row = told
        /\ b(told).stored = bug[x].stored
  BY <1>1 DEF BugType
<1>3. [bug[x] EXCEPT !.at = "undo"] = b("none")
  BY <1>1 DEF BugType
<1>4. PICK told \in {"none", "unheard"} : bug' = [bug EXCEPT ![x] = b(told)]
  BY <1>3 DEF FailBug
<1>5. PICK put \in {{}, NextObject(x)} : objects' = objects \cup put /\ stray' = stray \cup put
  BY DEF FailBug
<1> HIDE DEF b
<1> QED
  BY <1>1, <1>2, <1>4, <1>5, BugGoesOn

LEMMA KillKeeps ==
  ASSUME AttachmentsInv, NEW x \in BugReports, KillBug(x) PROVE AttachmentsInv'
<1> DEFINE b == [bug[x] EXCEPT !.at = "ended"]
<1>1. bug[x] \in BugType /\ bug[x].at = "idle" /\ bug[x].row = "none"
  BY DEF AttachmentsInv, KillBug
<1>2. b \in BugType /\ b.at = "ended" /\ b.row = "none" /\ b.stored = bug[x].stored
  BY <1>1 DEF BugType
<1>3. bug' = [bug EXCEPT ![x] = b]
  BY DEF KillBug
<1>4. PICK put \in {{}, NextObject(x)} :
        objects' = objects \cup put /\ stray' = stray \cup Uploaded(x) \cup put
  BY DEF KillBug
<1> HIDE DEF b
<1> QED
  BY <1>1, <1>2, <1>3, <1>4, BugGoesOn

LEMMA UndoKeeps ==
  ASSUME AttachmentsInv, NEW x \in BugReports, UndoBug(x) PROVE AttachmentsInv'
<1> DEFINE b == [bug[x] EXCEPT !.at = "ended"]
<1>1. bug[x] \in BugType /\ bug[x].at = "undo" /\ bug[x].row # "filed"
  BY DEF AttachmentsInv, UndoBug
<1>2. b \in BugType /\ b.at = "ended" /\ b.row # "filed" /\ b.stored = bug[x].stored
  BY <1>1 DEF BugType
<1>3. bug' = [bug EXCEPT ![x] = b]
  BY DEF UndoBug
<1>4. PICK left \in SUBSET Uploaded(x) :
        objects' = objects \ (Uploaded(x) \ left) /\ stray' = stray \cup left
  BY DEF UndoBug, Undone
<1>5. \A o \in objects \ objects' : o[1] = x
  BY <1>4 DEF Uploaded
<1>6. {} \in SUBSET NextObject(x) /\ objects' \subseteq objects \cup {}
  BY <1>4
<1> HIDE DEF b
<1> QED
  BY <1>1, <1>2, <1>3, <1>4, <1>5, <1>6, BugGoesOn, ZenonT(30)

LEMMA AttachmentsStep ==
  AttachmentsInv /\ [NextReports]_<<shelfVars, reportVars>> => AttachmentsInv'
<1> SUFFICES ASSUME AttachmentsInv, [NextReports]_<<shelfVars, reportVars>>
             PROVE  AttachmentsInv'
  OBVIOUS
<1>1. ASSUME NEW x \in BugReports, BugStep(x) PROVE AttachmentsInv'
  BY <1>1, PutKeeps, FileKeeps, FailKeeps, KillKeeps, UndoKeeps DEF BugStep
<1>2. CASE UNCHANGED <<bug, objects, stray>>
  BY <1>2 DEF AttachmentsInv, Uploaded
<1>3. ASSUME NEW a \in Admins, AdminStep(a) PROVE UNCHANGED <<bug, objects, stray>>
  BY <1>3 DEF AdminStep, Open, Look, DeleteUserFiles, Snapshot, DeleteRow, Ban, Audit, Decide, Trouble
<1>4. ASSUME NEW r \in Reports, (\E i \in Contents : Resolve(r, i)) \/ File(r)
      PROVE  UNCHANGED <<bug, objects, stray>>
  BY <1>4 DEF Resolve, File
<1> QED
  BY <1>1, <1>2, <1>3, <1>4 DEF NextReports, reportVars

(* A report of a bug that is filed has all its attachments unless its      *)
(* request took it for refused, and no object is left behind but what S3   *)
(* stored unheard or refused to delete, or the server died over            *)
(* (reports.service.ts, createBugReport).                                  *)
THEOREM AttachmentsHold == ReportsSpec => []AttachmentsStored
<1>1. AttachmentsInv => AttachmentsStored
  BY DEF AttachmentsInv, AttachmentsStored
<1> QED
  BY <1>1, AttachmentsInitial, AttachmentsStep, PTL DEF ReportsSpec

-----------------------------------------------------------------------------
(* Blog *)

Statuses == {"none", "draft", "published", "withdrawn", "deleted"}
RequestType == [at : {"idle", "read", "store", "row", "undo", "unheard", "after", "audit"},
                op : Created \cup Edits \cup {"none"}, post : Posts \cup {"none"},
                size : Nat, stale : BOOLEAN]

BlogType ==
  /\ post \in [Posts -> [status : Statuses, size : Nat]]
  /\ object \in [Posts -> Nat]
  /\ editor \in [Editors -> RequestType]

\* What the step a request has come to says of it.
Fits(r) ==
  /\ r.at # "idle" => r.post \in Posts /\ r.op # "none"
  /\ r.at = "read" => r.op \in Edits
  /\ r.at \in {"undo", "unheard"} => r.op \in Created
  /\ r.at = "after" => r.op # "delete"
  /\ r.at = "store" => r.op \in Created \cup {"delete"} \/ r.size > 0
  /\ r.op \in {"publish", "withdraw", "delete"} => r.size = 0
RequestsFit == \A e \in Editors : Fits(editor[e])

\* A request that creates a post is the only one that knows it.
Creates(r, p) == r.op \in Created /\ r.at \in {"store", "row", "undo"} /\ r.post = p
CreatorsAlone == \A e \in Editors, p \in Posts :
  Creates(editor[e], p) =>
    /\ post[p].status = "none"
    /\ \A f \in Editors \ {e} : editor[f].at # "idle" => editor[f].post # p

\* What is not there has no size.
GoneEmpty == \A p \in Posts : ~Live(p) => post[p].size = 0

\* A request whose object nobody has replaced finds it as it wrote it.
ObjectsFresh == \A e \in Editors, p \in Posts :
  Between(e, p) /\ ~editor[e].stale => object[p] = editor[e].size

BlogInv == BlogType /\ RequestsFit /\ CreatorsAlone /\ GoneEmpty /\ ObjectsFresh
           /\ PostsWhole /\ PostsAudited

\* Between, of a request that is given.
Holds(r, p) == /\ r.at \in {"row", "undo"} /\ r.post = p
               /\ r.op \in Created \cup {"delete"} \/ r.size > 0
LEMMA BetweenHolds == ASSUME NEW e, NEW p PROVE Between(e, p) <=> Holds(editor[e], p)
  BY DEF Between, Writes, Holds

\* What the log will say, of a request that is given.
OutcomeOf(r) == IF r.op = "publish" THEN "published"
                ELSE IF r.op = "withdraw" THEN "withdrawn"
                ELSE IF r.op = "delete" THEN "deleted" ELSE r.op
Promises(r, p) == r.at \in {"after", "audit"} /\ r.post = p /\ OutcomeOf(r) = post[p].status
LEMMA OutcomeIs == ASSUME NEW e PROVE Outcome(e) = OutcomeOf(editor[e])
  BY DEF Outcome, OutcomeOf
LEMMA OutcomeNext == ASSUME NEW e PROVE Outcome(e)' = OutcomeOf(editor'[e])
  BY DEF Outcome, OutcomeOf

LEMMA AuditedIs ==
  PostsAudited <=> \A p \in Posts :
    \/ post[p].status = "none"
    \/ <<p, post[p].status>> \in audit \cup lost
    \/ \E e \in Editors : Promises(editor[e], p)
<1>1. ASSUME NEW p \in Posts
      PROVE  <<p, post[p].status>> \in {<<editor[e].post, Outcome(e)>> :
                 e \in {f \in Editors : editor[f].at \in {"after", "audit"}}}
             <=> \E e \in Editors : Promises(editor[e], p)
  <2>1. \A e \in Editors : Outcome(e) = OutcomeOf(editor[e])
    BY OutcomeIs
  <2> QED
    BY <2>1 DEF Promises
<1> QED
  BY <1>1 DEF PostsAudited

LEMMA NoRequestType == NoRequest \in RequestType /\ NoRequest.at = "idle" /\ Fits(NoRequest)
  BY DEF NoRequest, RequestType, Fits

LEMMA BlogInitial == InitBlog => BlogInv
<1> SUFFICES ASSUME InitBlog PROVE BlogInv
  OBVIOUS
<1>1. \A e \in Editors : editor[e] = NoRequest
  BY DEF InitBlog
<1>2. /\ post = [p \in Posts |-> [status |-> "none", size |-> 0]]
      /\ object = [p \in Posts |-> 0]
      /\ editor = [e \in Editors |-> NoRequest]
  BY DEF InitBlog
<1>3. BlogType /\ RequestsFit
  BY <1>1, <1>2, NoRequestType DEF BlogType, RequestsFit, Statuses
<1>4. CreatorsAlone /\ ObjectsFresh
  BY <1>1, <1>2, NoRequestType DEF CreatorsAlone, Creates, ObjectsFresh, Between
<1>5. GoneEmpty /\ PostsWhole /\ PostsAudited
  BY <1>2 DEF GoneEmpty, PostsWhole, PostsAudited
<1> QED
  BY <1>3, <1>4, <1>5 DEF BlogInv

\* A request begins, goes on or ends and leaves row and object alone.
LEMMA RequestMoves ==
  ASSUME BlogInv, NEW e \in Editors, NEW r \in RequestType, Fits(r),
         editor' = [editor EXCEPT ![e] = r], UNCHANGED <<post, object>>,
         \A p \in Posts : Creates(r, p) =>
           \/ Creates(editor[e], p)
           \/ post[p].status = "none" /\ \A f \in Editors : editor[f].post # p,
         \/ r.at = "idle"
         \/ editor[e].at # "idle" /\ editor[e].post = r.post
         \/ Live(r.post)
         \/ \A f \in Editors : editor[f].post # r.post,
         \A p \in Posts : Holds(r, p) =>
           Holds(editor[e], p) /\ r.size = editor[e].size /\ r.stale = editor[e].stale,
         spoilt \subseteq spoilt',
         \A p \in Posts : Holds(editor[e], p) /\ ~Holds(r, p) => p \in spoilt',
         audit \cup lost \subseteq audit' \cup lost',
         \A p \in Posts : Promises(editor[e], p) =>
           Promises(r, p) \/ <<p, post[p].status>> \in audit' \cup lost'
  PROVE  BlogInv'
<1>1. /\ editor'[e] = r
      /\ \A f \in Editors : f # e => editor'[f] = editor[f]
  BY DEF BlogInv, BlogType
<1>2. BlogType' /\ RequestsFit'
  BY <1>1 DEF BlogInv, BlogType, RequestsFit
<1>3. GoneEmpty'
  BY DEF BlogInv, GoneEmpty, Live
<1>4. CreatorsAlone'
  <2>1. ASSUME NEW f \in Editors, NEW p \in Posts, Creates(editor'[f], p)
        PROVE  /\ post[p].status = "none"
               /\ \A g \in Editors \ {f} : editor'[g].at # "idle" => editor'[g].post # p
    <3>1. CASE f = e
      BY <2>1, <3>1, <1>1 DEF BlogInv, CreatorsAlone
    <3>2. CASE f # e
      <4>1. /\ post[p].status = "none" /\ editor[f].post = p
            /\ \A h \in Editors \ {f} : editor[h].at # "idle" => editor[h].post # p
        BY <2>1, <3>2, <1>1 DEF BlogInv, CreatorsAlone, Creates
      <4>2. r.at # "idle" => r.post # p
        BY <3>2, <4>1 DEF Live
      <4> QED
        BY <4>1, <4>2, <1>1
    <3> QED
      BY <3>1, <3>2
  <2>2. \A f \in Editors, p \in Posts : Creates(editor[f], p)' <=> Creates(editor'[f], p)
    BY DEF Creates
  <2> QED
    BY <2>1, <2>2 DEF CreatorsAlone
<1>5. \A f \in Editors, p \in Posts : Between(f, p)' <=> Holds(editor'[f], p)
  BY DEF Between, Writes, Holds
<1>6. \A f \in Editors, p \in Posts : Between(f, p) <=> Holds(editor[f], p)
  BY BetweenHolds
<1>7. ObjectsFresh'
  BY <1>1, <1>5, <1>6 DEF BlogInv, ObjectsFresh
<1>8. PostsWhole'
  <2> SUFFICES ASSUME NEW p \in Posts \ spoilt', \A f \in Editors : ~Holds(editor'[f], p)
               PROVE  object[p] = post[p].size
    BY <1>5 DEF PostsWhole
  <2>1. p \notin spoilt /\ \A f \in Editors : ~Holds(editor[f], p)
    BY <1>1
  <2> QED
    BY <2>1, <1>6 DEF BlogInv, PostsWhole
<1>9. PostsAudited'
  <2>1. ASSUME NEW p \in Posts, post[p].status # "none",
               <<p, post[p].status>> \notin audit' \cup lost'
        PROVE  \E f \in Editors : Promises(editor'[f], p)
    <3>1. PICK f \in Editors : Promises(editor[f], p)
      BY <2>1, AuditedIs DEF BlogInv
    <3> QED
      BY <2>1, <3>1, <1>1
  <2>2. \A f \in Editors : Outcome(f)' = OutcomeOf(editor'[f])
    BY OutcomeNext
  <2> QED
    BY <2>1, <2>2 DEF PostsAudited, Promises
<1> QED
  BY <1>2, <1>3, <1>4, <1>7, <1>8, <1>9 DEF BlogInv

LEMMA StageType ==
  ASSUME NEW r \in RequestType,
         NEW at \in {"idle", "read", "store", "row", "undo", "unheard", "after", "audit"}
  PROVE  /\ [r EXCEPT !.at = at] \in RequestType
         /\ [r EXCEPT !.at = at].at = at /\ [r EXCEPT !.at = at].op = r.op
         /\ [r EXCEPT !.at = at].post = r.post /\ [r EXCEPT !.at = at].size = r.size
         /\ [r EXCEPT !.at = at].stale = r.stale
  BY DEF RequestType

\* A request that ends without having changed half of a post or the status of one.
LEMMA EndsKeeps ==
  ASSUME BlogInv, NEW e \in Editors, Ends(e), UNCHANGED <<post, object>>,
         spoilt \subseteq spoilt', audit \cup lost \subseteq audit' \cup lost',
         \A p \in Posts : Holds(editor[e], p) => p \in spoilt',
         \A p \in Posts : Promises(editor[e], p) =>
           <<p, post[p].status>> \in audit' \cup lost'
  PROVE  BlogInv'
<1>1. \A p \in Posts : ~Creates(NoRequest, p) /\ ~Holds(NoRequest, p)
  BY NoRequestType DEF Creates, Holds
<1> QED
  BY <1>1, NoRequestType, RequestMoves DEF Ends

LEMMA NewPostKeeps ==
  ASSUME BlogInv, NEW e \in Editors, NEW p \in Posts, NEW op \in Created, NewPost(e, p, op)
  PROVE  BlogInv'
<1>1. PICK n \in Sizes :
        editor' = [editor EXCEPT ![e] = [at |-> "store", op |-> op, post |-> p,
                                         size |-> n, stale |-> FALSE]]
  BY DEF NewPost
<1> DEFINE r == [at |-> "store", op |-> op, post |-> p, size |-> n, stale |-> FALSE]
<1>2. editor' = [editor EXCEPT ![e] = r]
  BY <1>1
<1>3. r \in RequestType /\ Fits(r)
  BY BlogAssumption DEF RequestType, Fits, Created
<1>4. \A q \in Posts : ~Holds(r, q) /\ (Creates(r, q) => q = p)
  BY DEF Holds, Creates
<1>5. r.at = "store" /\ r.post = p
  OBVIOUS
<1>6. /\ editor[e].at = "idle" /\ post[p].status = "none"
      /\ \A f \in Editors : editor[f].post # p
      /\ UNCHANGED <<post, object, audit, lost, spoilt>>
  BY DEF NewPost
<1>7. \A q \in Posts : ~Holds(editor[e], q) /\ ~Promises(editor[e], q)
  BY <1>6 DEF Holds, Promises
<1> HIDE DEF r
<1> QED
  BY <1>2, <1>3, <1>4, <1>5, <1>6, <1>7, RequestMoves

LEMMA EditKeeps ==
  ASSUME BlogInv, NEW e \in Editors, NEW p \in Posts, NEW op \in Edits, Edit(e, p, op)
  PROVE  BlogInv'
<1>1. PICK n \in IF op = "updated" THEN Sizes \cup {0} ELSE {0} :
        editor' = [editor EXCEPT ![e] = [at |-> "read", op |-> op, post |-> p,
                                         size |-> n, stale |-> FALSE]]
  BY DEF Edit
<1> DEFINE r == [at |-> "read", op |-> op, post |-> p, size |-> n, stale |-> FALSE]
<1>2. editor' = [editor EXCEPT ![e] = r]
  BY <1>1
<1>3. r \in RequestType /\ Fits(r)
  BY BlogAssumption DEF RequestType, Fits, Edits
<1>4. \A q \in Posts : ~Holds(r, q) /\ ~Creates(r, q)
  BY DEF Holds, Creates
<1>5. r.post = p
  OBVIOUS
<1>6. editor[e].at = "idle" /\ Live(p) /\ UNCHANGED <<post, object, audit, lost, spoilt>>
  BY DEF Edit
<1>7. \A q \in Posts : ~Holds(editor[e], q) /\ ~Promises(editor[e], q)
  BY <1>6 DEF Holds, Promises
<1> HIDE DEF r
<1> QED
  BY <1>2, <1>3, <1>4, <1>5, <1>6, <1>7, RequestMoves

\* A request goes on to a step that it fits.
LEMMA GoesKeeps ==
  ASSUME BlogInv, NEW e \in Editors, NEW at \in {"store", "row", "undo", "after", "audit"},
         Goes(e, at), editor[e].at # "idle", Fits([editor[e] EXCEPT !.at = at]),
         \A p \in Posts : Creates([editor[e] EXCEPT !.at = at], p) => Creates(editor[e], p),
         \A p \in Posts : Holds(editor[e], p) <=> Holds([editor[e] EXCEPT !.at = at], p),
         editor[e].at \in {"after", "audit"} => at = "audit",
         UNCHANGED <<post, object, audit, lost, spoilt>>
  PROVE  BlogInv'
<1> DEFINE r == [editor[e] EXCEPT !.at = at]
<1>1. editor[e] \in RequestType
  BY DEF BlogInv, BlogType
<1>2. /\ r \in RequestType /\ r.at = at /\ r.op = editor[e].op /\ r.post = editor[e].post
      /\ r.size = editor[e].size /\ r.stale = editor[e].stale
  <2>1. at \in {"idle", "read", "store", "row", "undo", "unheard", "after", "audit"}
    OBVIOUS
  <2> QED
    BY <1>1, <2>1, StageType, ZenonT(60)
<1>3. editor' = [editor EXCEPT ![e] = r]
  BY DEF Goes
<1> HIDE DEF r
<1>4. \A p \in Posts : Promises(editor[e], p) => Promises(r, p)
  BY <1>2 DEF Promises, OutcomeOf
<1>5. /\ Fits(r)
      /\ \A p \in Posts : Creates(r, p) => Creates(editor[e], p)
      /\ \A p \in Posts : Holds(editor[e], p) <=> Holds(r, p)
  BY DEF r
<1> QED
  BY <1>2, <1>3, <1>4, <1>5, RequestMoves

LEMMA ReadKeeps == ASSUME BlogInv, NEW e \in Editors, Read(e) PROVE BlogInv'
<1>1. editor[e] \in RequestType /\ Fits(editor[e])
  BY DEF BlogInv, BlogType, RequestsFit
<1>2. editor[e].at = "read" /\ UNCHANGED <<post, object, audit, lost, spoilt>>
  BY DEF Read
<1>3. editor[e].post \in Posts /\ editor[e].op \in Edits
  BY <1>1, <1>2 DEF Fits
<1>4. \A p \in Posts : ~Holds(editor[e], p) /\ ~Promises(editor[e], p)
  BY <1>2 DEF Holds, Promises
<1>5. CASE Ends(e)
  BY <1>2, <1>4, <1>5, EndsKeeps
<1>6. ASSUME Goes(e, "store"), editor[e].op = "delete" \/ editor[e].size > 0 PROVE BlogInv'
  <2> DEFINE r == [editor[e] EXCEPT !.at = "store"]
  <2>1. r.at = "store" /\ r.op = editor[e].op /\ r.post = editor[e].post /\ r.size = editor[e].size
    BY <1>1, StageType
  <2> HIDE DEF r
  <2>2. Fits(r) /\ \A p \in Posts : ~Creates(r, p) /\ ~Holds(r, p)
    BY <1>1, <1>2, <1>3, <1>6, <2>1 DEF Fits, Creates, Holds, Edits, Created
  <2> QED
    BY <1>2, <1>4, <1>6, <2>2, GoesKeeps DEF r
<1>7. ASSUME Goes(e, "row"), editor[e].op # "delete", editor[e].size = 0 PROVE BlogInv'
  <2> DEFINE r == [editor[e] EXCEPT !.at = "row"]
  <2>1. r.at = "row" /\ r.op = editor[e].op /\ r.post = editor[e].post /\ r.size = editor[e].size
    BY <1>1, StageType
  <2> HIDE DEF r
  <2>2. Fits(r) /\ \A p \in Posts : ~Creates(r, p) /\ ~Holds(r, p)
    BY <1>1, <1>2, <1>3, <1>7, <2>1 DEF Fits, Creates, Holds, Edits, Created
  <2> QED
    BY <1>2, <1>4, <1>7, <2>2, GoesKeeps DEF r
<1>8. ASSUME Goes(e, "after"), editor[e].op = "publish" PROVE BlogInv'
  <2> DEFINE r == [editor[e] EXCEPT !.at = "after"]
  <2>1. r.at = "after" /\ r.op = editor[e].op /\ r.post = editor[e].post /\ r.size = editor[e].size
    BY <1>1, StageType
  <2> HIDE DEF r
  <2>2. Fits(r) /\ \A p \in Posts : ~Creates(r, p) /\ ~Holds(r, p)
    BY <1>1, <1>2, <1>3, <1>8, <2>1 DEF Fits, Creates, Holds
  <2> QED
    BY <1>2, <1>4, <1>8, <2>2, GoesKeeps DEF r
<1>9. editor[e].size \in Nat /\ (editor[e].op \in {"publish", "withdraw"} => editor[e].size = 0)
  BY <1>1 DEF RequestType, Fits
<1>10. \/ Ends(e)
       \/ Goes(e, "store") /\ (editor[e].op = "delete" \/ editor[e].size > 0)
       \/ Goes(e, "row") /\ editor[e].op # "delete" /\ editor[e].size = 0
       \/ Goes(e, "after") /\ editor[e].op = "publish"
  <2>1. CASE ~Live(editor[e].post)
    BY <2>1 DEF Read
  <2>2. CASE Live(editor[e].post) /\ editor[e].op = "updated"
    BY <1>9, <2>2 DEF Read
  <2>3. CASE Live(editor[e].post) /\ editor[e].op = "publish"
    BY <1>9, <2>3 DEF Read
  <2>4. CASE Live(editor[e].post) /\ editor[e].op = "withdraw"
    BY <1>9, <2>4 DEF Read
  <2>5. CASE Live(editor[e].post) /\ editor[e].op = "delete"
    BY <1>9, <2>5 DEF Read
  <2> QED
    BY <1>3, <2>1, <2>2, <2>3, <2>4, <2>5 DEF Edits
<1> QED
  BY <1>5, <1>6, <1>7, <1>8, <1>10

\* The post that is gone when the second snapshot is taken hides no status that
\* the request would have logged.
LEMMA AfterKeeps == ASSUME BlogInv, NEW e \in Editors, After(e) PROVE BlogInv'
<1>1. editor[e] \in RequestType /\ Fits(editor[e])
  BY DEF BlogInv, BlogType, RequestsFit
<1>2. editor[e].at = "after" /\ UNCHANGED <<post, object, audit, lost, spoilt>>
  BY DEF After
<1>3. \A p \in Posts : ~Holds(editor[e], p)
  BY <1>2 DEF Holds
<1>4. CASE Ends(e) /\ ~Live(editor[e].post)
  <2>1. OutcomeOf(editor[e]) # "deleted" /\ OutcomeOf(editor[e]) # "none"
    BY <1>1, <1>2 DEF OutcomeOf, Fits, RequestType, Created, Edits
  <2>2. ASSUME NEW p \in Posts, Promises(editor[e], p) PROVE FALSE
    <3>1. post[p].status \in Statuses /\ ~Live(p)
      BY <1>4, <2>2 DEF BlogInv, BlogType, Promises
    <3> QED
      BY <3>1, <2>1, <2>2 DEF Live, Promises, Statuses
  <2> QED
    BY <1>2, <1>3, <1>4, <2>2, EndsKeeps
<1>5. CASE Goes(e, "audit")
  <2> DEFINE r == [editor[e] EXCEPT !.at = "audit"]
  <2>1. r.at = "audit" /\ r.op = editor[e].op /\ r.post = editor[e].post /\ r.size = editor[e].size
    BY <1>1, StageType
  <2> HIDE DEF r
  <2>2. Fits(r) /\ \A p \in Posts : ~Creates(r, p) /\ ~Holds(r, p)
    BY <1>1, <1>2, <2>1 DEF Fits, Creates, Holds
  <2> QED
    BY <1>2, <1>3, <1>5, <2>2, GoesKeeps DEF r
<1> QED
  BY <1>4, <1>5 DEF After

LEMMA WriteAuditKeeps == ASSUME BlogInv, NEW e \in Editors, WriteAudit(e) PROVE BlogInv'
<1>1. /\ editor[e].at = "audit" /\ Ends(e)
      /\ audit' = IF editor[e].op = "updated" THEN audit
                  ELSE audit \cup {<<editor[e].post, Outcome(e)>>}
      /\ UNCHANGED <<post, object, lost, spoilt>>
  BY DEF WriteAudit
<1>2. \A p \in Posts : ~Holds(editor[e], p)
  BY <1>1 DEF Holds
<1>3. ASSUME NEW p \in Posts, Promises(editor[e], p)
      PROVE  <<p, post[p].status>> \in audit' \cup lost'
  <2>1. editor[e].op # "updated"
    BY <1>3 DEF Promises, OutcomeOf, BlogInv, BlogType, Statuses
  <2> QED
    BY <1>1, <1>3, <2>1, OutcomeIs DEF Promises
<1> QED
  BY <1>1, <1>2, <1>3, EndsKeeps

LEMMA MishapKeeps ==
  ASSUME BlogInv, NEW e \in Editors, NEW dies \in BOOLEAN, Mishap(e, dies) PROVE BlogInv'
<1>1. editor[e] \in RequestType /\ Fits(editor[e])
  BY DEF BlogInv, BlogType, RequestsFit
<1>2. editor[e].at # "idle" /\ UNCHANGED <<post, object, audit>>
  BY DEF Mishap
<1>3. CASE editor[e].at = "row" /\ editor[e].op \in Created /\ ~dies
  <2> DEFINE r == [editor[e] EXCEPT !.at = "undo"]
  <2>1. Goes(e, "undo") /\ UNCHANGED <<lost, spoilt>>
    BY <1>3 DEF Mishap
  <2>2. r.at = "undo" /\ r.op = editor[e].op /\ r.post = editor[e].post /\ r.size = editor[e].size
    BY <1>1, StageType
  <2> HIDE DEF r
  <2>3. Fits(r) /\ \A p \in Posts : /\ Creates(r, p) => Creates(editor[e], p)
                                    /\ Holds(editor[e], p) <=> Holds(r, p)
    BY <1>1, <1>3, <2>2 DEF Fits, Creates, Holds
  <2> QED
    BY <1>2, <1>3, <2>1, <2>3, GoesKeeps DEF r
<1>4. CASE ~(editor[e].at = "row" /\ editor[e].op \in Created /\ ~dies)
  <2>1. /\ Ends(e)
        /\ spoilt' = IF Between(e, editor[e].post) THEN spoilt \cup {editor[e].post} ELSE spoilt
        /\ lost' = IF editor[e].at \in {"after", "audit"} /\ editor[e].op /= "updated"
                   THEN lost \cup {<<editor[e].post, Outcome(e)>>} ELSE lost
    BY <1>4 DEF Mishap
  <2>2. \A p \in Posts : Holds(editor[e], p) => p \in spoilt'
    BY <2>1, BetweenHolds DEF Holds
  <2>3. ASSUME NEW p \in Posts, Promises(editor[e], p)
        PROVE  <<p, post[p].status>> \in audit' \cup lost'
    <3>1. editor[e].op # "updated"
      BY <2>3 DEF Promises, OutcomeOf, BlogInv, BlogType, Statuses
    <3> QED
      BY <2>1, <2>3, <3>1, OutcomeIs DEF Promises
  <2> QED
    BY <1>2, <2>1, <2>2, <2>3, EndsKeeps
<1> QED
  BY <1>3, <1>4

\* The object is written, and every other request that has written it knows that
\* it was replaced.
LEMMA StoreKeeps == ASSUME BlogInv, NEW e \in Editors, Store(e) PROVE BlogInv'
<1> DEFINE p == editor[e].post
           r == [editor[e] EXCEPT !.at = "row"]
           Staled(f) == [editor[f] EXCEPT !.stale = TRUE]
<1>1. /\ editor[e].at = "store"
      /\ object' = [object EXCEPT ![p] = editor[e].size]
      /\ editor' = [f \in Editors |->
           IF f = e THEN r ELSE IF Between(f, p) THEN Staled(f) ELSE editor[f]]
      /\ UNCHANGED <<post, audit, lost, spoilt>>
  BY DEF Store
<1>2. \A f \in Editors : editor[f] \in RequestType /\ Fits(editor[f])
  BY DEF BlogInv, BlogType, RequestsFit
<1>3. /\ r \in RequestType /\ r.at = "row" /\ r.op = editor[e].op /\ r.post = p
      /\ r.size = editor[e].size
  BY <1>2, StageType
<1>4. p \in Posts /\ (editor[e].op \in Created \cup {"delete"} \/ editor[e].size > 0)
  BY <1>1, <1>2 DEF Fits
<1>5. ASSUME NEW f \in Editors
      PROVE  /\ Staled(f) \in RequestType /\ Staled(f).at = editor[f].at
             /\ Staled(f).op = editor[f].op /\ Staled(f).post = editor[f].post
             /\ Staled(f).size = editor[f].size /\ Staled(f).stale = TRUE
  BY <1>2 DEF RequestType
<1> HIDE DEF r, Staled
<1>6. /\ editor'[e] = r
      /\ \A f \in Editors : f # e =>
           editor'[f] = IF Holds(editor[f], p) THEN Staled(f) ELSE editor[f]
  BY <1>1, BetweenHolds
<1>7. \A f \in Editors : f # e =>
        /\ editor'[f].at = editor[f].at /\ editor'[f].op = editor[f].op
        /\ editor'[f].post = editor[f].post /\ editor'[f].size = editor[f].size
        /\ (~editor'[f].stale => ~editor[f].stale /\ ~Holds(editor[f], p))
  BY <1>5, <1>6
<1>8. BlogType'
  <2>1. object' \in [Posts -> Nat]
    BY <1>1, <1>2, <1>4 DEF BlogInv, BlogType, RequestType
  <2>2. \A f \in Editors : editor'[f] \in RequestType
    BY <1>2, <1>3, <1>5, <1>6
  <2> QED
    BY <1>1, <2>1, <2>2 DEF BlogInv, BlogType
<1>9. RequestsFit'
  <2>1. Fits(r)
    BY <1>1, <1>2, <1>3 DEF Fits
  <2>2. \A f \in Editors : f # e => Fits(editor'[f])
    BY <1>2, <1>7 DEF Fits
  <2> QED
    BY <1>6, <2>1, <2>2 DEF RequestsFit
<1>10. \A f \in Editors, q \in Posts : Creates(editor'[f], q) => Creates(editor[f], q)
  BY <1>1, <1>3, <1>6, <1>7 DEF Creates
<1>11. CreatorsAlone'
  <2>1. \A f \in Editors : /\ editor'[f].at = "idle" <=> editor[f].at = "idle"
                           /\ editor'[f].post = editor[f].post
    BY <1>1, <1>3, <1>6, <1>7
  <2>2. \A f \in Editors, q \in Posts : Creates(editor[f], q)' <=> Creates(editor'[f], q)
    BY DEF Creates
  <2>3. ASSUME NEW f \in Editors, NEW q \in Posts, Creates(editor'[f], q)
        PROVE  /\ post[q].status = "none"
               /\ \A g \in Editors \ {f} : editor'[g].at # "idle" => editor'[g].post # q
    BY <2>1, <2>3, <1>10 DEF BlogInv, CreatorsAlone
  <2> QED
    BY <1>1, <2>2, <2>3 DEF CreatorsAlone
<1>12. GoneEmpty'
  BY <1>1 DEF BlogInv, GoneEmpty, Live
<1>13. \A f \in Editors, q \in Posts : Between(f, q)' <=> Holds(editor'[f], q)
  BY DEF Between, Writes, Holds
<1>14. \A f \in Editors, q \in Posts : f # e => (Holds(editor'[f], q) <=> Holds(editor[f], q))
  BY <1>7 DEF Holds
<1>15. Holds(r, p) /\ \A q \in Posts : Holds(r, q) => q = p
  BY <1>3, <1>4 DEF Holds
<1>16. ObjectsFresh'
  <2> SUFFICES ASSUME NEW f \in Editors, NEW q \in Posts, Holds(editor'[f], q), ~editor'[f].stale
               PROVE  object'[q] = editor'[f].size
    BY <1>13 DEF ObjectsFresh
  <2>1. CASE f = e
    BY <2>1, <1>1, <1>3, <1>4, <1>6, <1>15 DEF BlogInv, BlogType
  <2>2. CASE f # e
    <3>1. Holds(editor[f], q) /\ ~editor[f].stale /\ ~Holds(editor[f], p)
      BY <2>2, <1>7, <1>14
    <3>2. object[q] = editor[f].size
      BY <3>1, BetweenHolds DEF BlogInv, ObjectsFresh
    <3> QED
      BY <2>2, <3>1, <3>2, <1>1, <1>7 DEF BlogInv, BlogType
  <2> QED
    BY <2>1, <2>2
<1>17. PostsWhole'
  <2> SUFFICES ASSUME NEW q \in Posts \ spoilt', \A f \in Editors : ~Holds(editor'[f], q)
               PROVE  object'[q] = post'[q].size
    BY <1>13 DEF PostsWhole
  <2>1. q # p
    BY <1>6, <1>15
  <2>2. \A f \in Editors : ~Holds(editor[f], q)
    BY <1>1, <1>14 DEF Holds
  <2>3. object[q] = post[q].size
    BY <1>1, <2>2, BetweenHolds DEF BlogInv, PostsWhole
  <2> QED
    BY <1>1, <2>1, <2>3 DEF BlogInv, BlogType
<1>18. PostsAudited'
  <2>1. \A f \in Editors, q \in Posts : Promises(editor[f], q) => Promises(editor'[f], q)
    BY <1>1, <1>7 DEF Promises, OutcomeOf
  <2>2. \A f \in Editors : Outcome(f)' = OutcomeOf(editor'[f])
    BY OutcomeNext
  <2>3. ASSUME NEW q \in Posts, post[q].status # "none",
               <<q, post[q].status>> \notin audit \cup lost
        PROVE  \E f \in Editors : Promises(editor'[f], q)
    BY <2>1, <2>3, AuditedIs DEF BlogInv
  <2>4. UNCHANGED <<post, audit, lost>>
    BY <1>1
  <2> QED
    BY <2>2, <2>3, <2>4 DEF PostsAudited, Promises
<1> QED
  BY <1>8, <1>9, <1>11, <1>12, <1>16, <1>17, <1>18 DEF BlogInv

\* The object is deleted, and every request that has written it knows.
LEMMA UndoBlogKeeps == ASSUME BlogInv, NEW e \in Editors, Undo(e) PROVE BlogInv'
<1> DEFINE p == editor[e].post
           Staled(f) == [editor[f] EXCEPT !.stale = TRUE]
<1>1. /\ editor[e].at \in {"undo", "unheard"} /\ object' = [object EXCEPT ![p] = 0]
      /\ editor' = [f \in Editors |->
           IF f = e THEN NoRequest ELSE IF Between(f, p) THEN Staled(f) ELSE editor[f]]
      /\ spoilt' = IF Live(p) THEN spoilt \cup {p} ELSE spoilt
      /\ UNCHANGED <<post, audit, lost>>
  BY DEF Undo
<1>2. \A f \in Editors : editor[f] \in RequestType /\ Fits(editor[f])
  BY DEF BlogInv, BlogType, RequestsFit
<1>3. p \in Posts
  BY <1>1, <1>2 DEF Fits
<1>4. ASSUME NEW f \in Editors
      PROVE  /\ Staled(f) \in RequestType /\ Staled(f).at = editor[f].at
             /\ Staled(f).op = editor[f].op /\ Staled(f).post = editor[f].post
             /\ Staled(f).size = editor[f].size /\ Staled(f).stale = TRUE
  BY <1>2 DEF RequestType
<1> HIDE DEF Staled
<1>5. /\ editor'[e] = NoRequest
      /\ \A f \in Editors : f # e =>
           editor'[f] = IF Holds(editor[f], p) THEN Staled(f) ELSE editor[f]
  BY <1>1, BetweenHolds
<1>6. \A f \in Editors : f # e =>
        /\ editor'[f].at = editor[f].at /\ editor'[f].op = editor[f].op
        /\ editor'[f].post = editor[f].post /\ editor'[f].size = editor[f].size
        /\ (~editor'[f].stale => ~editor[f].stale /\ ~Holds(editor[f], p))
  BY <1>4, <1>5
<1>7. \A q \in Posts : ~Holds(NoRequest, q) /\ ~Creates(NoRequest, q) /\ ~Promises(editor[e], q)
  BY <1>1, NoRequestType DEF Holds, Creates, Promises
<1>8. /\ object' \in [Posts -> Nat] /\ object'[p] = 0
      /\ \A q \in Posts : q # p => object'[q] = object[q]
  BY <1>1, <1>3 DEF BlogInv, BlogType
<1>9. BlogType'
  <2>1. \A f \in Editors : editor'[f] \in RequestType
    BY <1>2, <1>4, <1>5, NoRequestType
  <2> QED
    BY <1>1, <1>8, <2>1 DEF BlogInv, BlogType
<1>10. RequestsFit'
  <2>1. \A f \in Editors : f # e => Fits(editor'[f])
    BY <1>2, <1>6 DEF Fits
  <2> QED
    BY <1>5, <2>1, NoRequestType DEF RequestsFit
<1>11. CreatorsAlone'
  <2>1. \A f \in Editors, q \in Posts : Creates(editor[f], q)' <=> Creates(editor'[f], q)
    BY DEF Creates
  <2>2. ASSUME NEW f \in Editors, NEW q \in Posts, Creates(editor'[f], q)
        PROVE  /\ post[q].status = "none"
               /\ \A g \in Editors \ {f} : editor'[g].at # "idle" => editor'[g].post # q
    <3>1. f # e /\ Creates(editor[f], q)
      BY <2>2, <1>5, <1>6, <1>7 DEF Creates
    <3>2. /\ post[q].status = "none"
          /\ \A g \in Editors \ {f} : editor[g].at # "idle" => editor[g].post # q
      BY <3>1 DEF BlogInv, CreatorsAlone
    <3> QED
      BY <3>2, <1>5, <1>6, NoRequestType
  <2>3. post' = post
    BY <1>1
  <2> QED
    BY <2>1, <2>2, <2>3 DEF CreatorsAlone
<1>12. GoneEmpty'
  BY <1>1 DEF BlogInv, GoneEmpty, Live
<1>13. \A f \in Editors, q \in Posts : Between(f, q)' <=> Holds(editor'[f], q)
  BY DEF Between, Writes, Holds
<1>14. \A f \in Editors, q \in Posts : f # e => (Holds(editor'[f], q) <=> Holds(editor[f], q))
  BY <1>6 DEF Holds
<1>15. ObjectsFresh'
  <2> SUFFICES ASSUME NEW f \in Editors, NEW q \in Posts, Holds(editor'[f], q), ~editor'[f].stale
               PROVE  object'[q] = editor'[f].size
    BY <1>13 DEF ObjectsFresh
  <2>1. f # e
    BY <1>5, <1>7
  <2>2. Holds(editor[f], q) /\ ~editor[f].stale /\ ~Holds(editor[f], p)
    BY <2>1, <1>6, <1>14
  <2>3. object[q] = editor[f].size
    BY <2>2, BetweenHolds DEF BlogInv, ObjectsFresh
  <2> QED
    BY <2>1, <2>2, <2>3, <1>6, <1>8
<1>16. PostsWhole'
  <2> SUFFICES ASSUME NEW q \in Posts \ spoilt', \A f \in Editors : ~Holds(editor'[f], q)
               PROVE  object'[q] = post'[q].size
    BY <1>13 DEF PostsWhole
  <2>1. CASE q = p
    <3>1. ~Live(p)
      BY <2>1, <1>1
    <3> QED
      BY <2>1, <3>1, <1>1, <1>8 DEF BlogInv, GoneEmpty
  <2>2. CASE q # p
    <3>1. q \notin spoilt
      BY <1>1
    <3>2. \A f \in Editors : ~Holds(editor[f], q)
      BY <2>2, <1>14 DEF Holds
    <3>3. object[q] = post[q].size
      BY <3>1, <3>2, BetweenHolds DEF BlogInv, PostsWhole
    <3> QED
      BY <2>2, <3>3, <1>1, <1>8
  <2> QED
    BY <2>1, <2>2
<1>17. PostsAudited'
  <2>1. ASSUME NEW q \in Posts, post[q].status # "none",
               <<q, post[q].status>> \notin audit \cup lost
        PROVE  \E f \in Editors : Promises(editor'[f], q)
    <3>1. PICK f \in Editors : Promises(editor[f], q)
      BY <2>1, AuditedIs DEF BlogInv
    <3>2. f # e
      BY <3>1, <1>7
    <3> QED
      BY <3>1, <3>2, <1>6 DEF Promises, OutcomeOf
  <2>2. \A f \in Editors : Outcome(f)' = OutcomeOf(editor'[f])
    BY OutcomeNext
  <2>3. UNCHANGED <<post, audit, lost>>
    BY <1>1
  <2> QED
    BY <2>1, <2>2, <2>3 DEF PostsAudited, Promises
<1> QED
  BY <1>9, <1>10, <1>11, <1>12, <1>15, <1>16, <1>17 DEF BlogInv

\* The request that takes its post for refused will not enter it in the log.
LEMMA UnheardKeeps == ASSUME BlogInv, NEW e \in Editors, Unheard(e) PROVE BlogInv'
<1> DEFINE r == [editor[e] EXCEPT !.at = "unheard"]
<1>1. editor[e] \in RequestType /\ Fits(editor[e])
  BY DEF BlogInv, BlogType, RequestsFit
<1>2. /\ editor[e].at = "after" /\ editor[e].op \in Created
      /\ editor' = [editor EXCEPT ![e] = r]
      /\ lost' = lost \cup {<<editor[e].post, Outcome(e)>>}
      /\ UNCHANGED <<post, object, audit, spoilt>>
  BY DEF Unheard, Goes
<1>3. /\ r \in RequestType /\ r.at = "unheard" /\ r.op = editor[e].op
      /\ r.post = editor[e].post /\ r.size = editor[e].size
  BY <1>1, StageType
<1> HIDE DEF r
<1>4. Fits(r) /\ \A p \in Posts : ~Creates(r, p) /\ ~Holds(r, p) /\ ~Holds(editor[e], p)
  BY <1>1, <1>2, <1>3 DEF Fits, Creates, Holds, Created
<1>5. \A p \in Posts : Promises(editor[e], p) => <<p, post[p].status>> \in lost'
  BY <1>2, OutcomeIs DEF Promises
<1> QED
  BY <1>2, <1>3, <1>4, <1>5, RequestMoves

\* The row is written, or has gone; where it agrees with the object, nothing that
\* was spoilt before matters any more.
LEMMA WriteRowKeeps == ASSUME BlogInv, NEW e \in Editors, WriteRow(e) PROVE BlogInv'
<1> DEFINE p == editor[e].post
           new == [status |-> IF editor[e].op = "updated" THEN post[p].status ELSE Outcome(e),
                   size |-> IF editor[e].op = "delete" THEN 0
                            ELSE IF Writes(e) THEN editor[e].size ELSE post[p].size]
<1>1. /\ editor[e].at = "row" /\ spoilt' = Settled(e) /\ UNCHANGED <<object, audit, lost>>
      /\ IF Live(p) \/ editor[e].op \in Created
         THEN post' = [post EXCEPT ![p] = new] /\ Goes(e, Then(e))
         ELSE Ends(e) /\ UNCHANGED post
  BY DEF WriteRow
<1>2. editor[e] \in RequestType /\ Fits(editor[e])
  BY DEF BlogInv, BlogType, RequestsFit
<1>3. p \in Posts /\ editor[e].op \in Created \cup Edits /\ editor[e].size \in Nat
  BY <1>1, <1>2 DEF Fits, RequestType
<1>4. Writes(e) <=> Holds(editor[e], p)
  BY <1>1 DEF Writes, Holds
<1>5. \A q \in Posts : ~Promises(editor[e], q) /\ (q # p => ~Holds(editor[e], q))
  BY <1>1 DEF Promises, Holds
<1>6. spoilt' = IF ~Writes(e) THEN spoilt
                ELSE IF ~editor[e].stale /\ (editor[e].op \in Created \cup {"delete"} \/ Live(p))
                     THEN spoilt \ {p} ELSE spoilt \cup {p}
  BY <1>1 DEF Settled
<1>7. Writes(e) /\ ~editor[e].stale => object[p] = editor[e].size
  BY <1>3, <1>4, BetweenHolds DEF BlogInv, ObjectsFresh
<1> DEFINE r == IF Live(p) \/ editor[e].op \in Created
                THEN [editor[e] EXCEPT !.at = Then(e)] ELSE NoRequest
<1>8. editor' = [editor EXCEPT ![e] = r]
  BY <1>1 DEF Goes, Ends
<1>9. Then(e) \in {"after", "audit"} /\ (Then(e) = "after" => editor[e].op # "delete")
  BY DEF Then
<1>10. /\ r \in RequestType /\ r.at \in {"idle", "after", "audit"} /\ Fits(r)
       /\ Live(p) \/ editor[e].op \in Created =>
            r.at \in {"after", "audit"} /\ r.op = editor[e].op /\ r.post = p
       /\ r.at # "idle" => r.post = p
  <2>1. CASE Live(p) \/ editor[e].op \in Created
    <3> DEFINE k == [editor[e] EXCEPT !.at = Then(e)]
    <3>1. Then(e) \in {"idle", "read", "store", "row", "undo", "unheard", "after", "audit"}
      BY <1>9
    <3>2. k \in RequestType /\ k.at = Then(e) /\ k.op = editor[e].op
          /\ k.post = p /\ k.size = editor[e].size
      BY <1>2, <3>1, StageType, ZenonT(60)
    <3>3. r = k
      BY <2>1
    <3> HIDE DEF k
    <3>4. Fits(k)
      BY <3>2, <1>1, <1>2, <1>9 DEF Fits
    <3> QED
      BY <2>1, <3>2, <3>3, <3>4, <1>9
  <2>2. CASE ~(Live(p) \/ editor[e].op \in Created)
    BY <2>2, NoRequestType
  <2> QED
    BY <2>1, <2>2
<1> HIDE DEF r
<1>11. /\ editor'[e] = r
       /\ \A f \in Editors : f # e => editor'[f] = editor[f]
  BY <1>8 DEF BlogInv, BlogType
<1>12. \A q \in Posts : ~Holds(r, q) /\ ~Creates(r, q)
  BY <1>10 DEF Holds, Creates
<1>13. Outcome(e) = OutcomeOf(editor[e])
  BY OutcomeIs
<1>14. new \in [status : Statuses, size : Nat]
  <2>1. post[p] \in [status : Statuses, size : Nat]
    BY <1>3 DEF BlogInv, BlogType
  <2>2. editor[e].op = "updated" \/ Outcome(e) \in Statuses
    BY <1>3, <1>13 DEF OutcomeOf, Statuses, Created, Edits
  <2> QED
    BY <1>3, <2>1, <2>2
<1>15. /\ new.status = IF editor[e].op = "updated" THEN post[p].status ELSE OutcomeOf(editor[e])
       /\ new.size = IF editor[e].op = "delete" THEN 0
                     ELSE IF Writes(e) THEN editor[e].size ELSE post[p].size
  BY <1>13
<1> HIDE DEF new
<1>16. /\ post' \in [Posts -> [status : Statuses, size : Nat]]
       /\ \A q \in Posts : q # p => post'[q] = post[q]
       /\ post'[p] = IF Live(p) \/ editor[e].op \in Created THEN new ELSE post[p]
  BY <1>1, <1>3, <1>14 DEF BlogInv, BlogType
<1>17. BlogType' /\ RequestsFit'
  BY <1>1, <1>8, <1>10, <1>11, <1>16 DEF BlogInv, BlogType, RequestsFit
<1>18. CreatorsAlone'
  <2>1. \A f \in Editors, q \in Posts : Creates(editor[f], q)' <=> Creates(editor'[f], q)
    BY DEF Creates
  <2>2. ASSUME NEW f \in Editors, NEW q \in Posts, Creates(editor'[f], q)
        PROVE  /\ post'[q].status = "none"
               /\ \A g \in Editors \ {f} : editor'[g].at # "idle" => editor'[g].post # q
    <3>1. f # e /\ Creates(editor[f], q)
      BY <2>2, <1>11, <1>12
    <3>2. /\ post[q].status = "none"
          /\ \A g \in Editors \ {f} : editor[g].at # "idle" => editor[g].post # q
      BY <3>1 DEF BlogInv, CreatorsAlone
    <3>3. q # p
      BY <3>1, <3>2, <1>1
    <3> QED
      BY <3>2, <3>3, <1>10, <1>11, <1>16
  <2> QED
    BY <2>1, <2>2 DEF CreatorsAlone
<1>19. GoneEmpty'
  <2>1. ASSUME NEW q \in Posts, post'[q].status \notin {"draft", "published", "withdrawn"}
        PROVE  post'[q].size = 0
    <3>1. CASE q = p /\ (Live(p) \/ editor[e].op \in Created)
      <4>1. editor[e].op = "delete"
        BY <2>1, <3>1, <1>3, <1>15, <1>16 DEF OutcomeOf, Created, Edits, Live
      <4> QED
        BY <4>1, <3>1, <1>15, <1>16
    <3>2. CASE ~(q = p /\ (Live(p) \/ editor[e].op \in Created))
      BY <2>1, <3>2, <1>16 DEF BlogInv, GoneEmpty, Live
    <3> QED
      BY <3>1, <3>2
  <2> QED
    BY <2>1 DEF GoneEmpty, Live
<1>20. \A f \in Editors, q \in Posts : Between(f, q)' <=> Holds(editor'[f], q)
  BY DEF Between, Writes, Holds
<1>21. ObjectsFresh'
  <2> SUFFICES ASSUME NEW f \in Editors, NEW q \in Posts, Holds(editor'[f], q), ~editor'[f].stale
               PROVE  object'[q] = editor'[f].size
    BY <1>20 DEF ObjectsFresh
  <2>1. f # e /\ editor'[f] = editor[f]
    BY <1>11, <1>12
  <2> QED
    BY <2>1, <1>1, BetweenHolds DEF BlogInv, ObjectsFresh
<1>22. PostsWhole'
  <2> SUFFICES ASSUME NEW q \in Posts \ spoilt', \A f \in Editors : ~Holds(editor'[f], q)
               PROVE  object'[q] = post'[q].size
    BY <1>20 DEF PostsWhole
  <2>1. \A f \in Editors : f # e => ~Holds(editor[f], q)
    BY <1>11
  <2>2. CASE q # p
    <3>1. q \notin spoilt /\ \A f \in Editors : ~Holds(editor[f], q)
      BY <2>1, <2>2, <1>5, <1>6
    <3>2. object[q] = post[q].size
      BY <3>1, BetweenHolds DEF BlogInv, PostsWhole
    <3> QED
      BY <2>2, <3>2, <1>1, <1>16
  <2>3. CASE q = p /\ ~Writes(e)
    <3>1. q \notin spoilt /\ \A f \in Editors : ~Holds(editor[f], q)
      BY <2>1, <2>3, <1>4, <1>6
    <3>2. object[q] = post[q].size
      BY <3>1, BetweenHolds DEF BlogInv, PostsWhole
    <3>3. editor[e].op # "delete"
      BY <2>3 DEF Writes
    <3> QED
      BY <2>3, <3>2, <3>3, <1>1, <1>15, <1>16
  <2>4. CASE q = p /\ Writes(e)
    <3>1. ~editor[e].stale /\ (editor[e].op \in Created \cup {"delete"} \/ Live(p))
      BY <2>4, <1>6
    <3>2. object[p] = editor[e].size /\ (editor[e].op = "delete" => editor[e].size = 0)
      BY <2>4, <3>1, <1>2, <1>7 DEF Fits
    <3>3. CASE Live(p) \/ editor[e].op \in Created
      BY <2>4, <3>2, <3>3, <1>1, <1>15, <1>16
    <3>4. CASE ~(Live(p) \/ editor[e].op \in Created)
      BY <2>4, <3>1, <3>2, <3>4, <1>1, <1>3, <1>16 DEF BlogInv, GoneEmpty
    <3> QED
      BY <3>3, <3>4
  <2> QED
    BY <2>2, <2>3, <2>4
<1>23. PostsAudited'
  <2>1. ASSUME NEW q \in Posts, post'[q].status # "none",
               <<q, post'[q].status>> \notin audit \cup lost
        PROVE  \E f \in Editors : /\ editor'[f].at \in {"after", "audit"} /\ editor'[f].post = q
                                  /\ OutcomeOf(editor'[f]) = post'[q].status
    <3>1. CASE post'[q].status = post[q].status
      <4>1. PICK f \in Editors : Promises(editor[f], q)
        BY <2>1, <3>1, AuditedIs DEF BlogInv
      <4>2. f # e
        BY <4>1, <1>5
      <4> QED
        BY <3>1, <4>1, <4>2, <1>11 DEF Promises
    <3>2. CASE post'[q].status # post[q].status
      <4>1. q = p /\ (Live(p) \/ editor[e].op \in Created) /\ post'[p].status = OutcomeOf(editor[e])
        BY <3>2, <1>15, <1>16
      <4> QED
        BY <4>1, <1>10, <1>11 DEF OutcomeOf
    <3> QED
      BY <3>1, <3>2
  <2>2. \A f \in Editors : Outcome(f)' = OutcomeOf(editor'[f])
    BY OutcomeNext
  <2>3. UNCHANGED <<audit, lost>>
    BY <1>1
  <2>4. ASSUME NEW q \in Posts, post'[q].status # "none",
               <<q, post'[q].status>> \notin audit' \cup lost'
        PROVE  \E f \in Editors : /\ editor'[f].at \in {"after", "audit"}
                                  /\ <<q, post'[q].status>> = <<editor'[f].post, Outcome(f)'>>
    BY <2>1, <2>2, <2>3, <2>4
  <2> QED
    BY <2>4 DEF PostsAudited
<1> QED
  BY <1>17, <1>18, <1>19, <1>21, <1>22, <1>23 DEF BlogInv

LEMMA BlogStep == BlogInv /\ [NextBlog]_blogVars => BlogInv'
<1>1. ASSUME BlogInv, UNCHANGED blogVars PROVE BlogInv'
  BY <1>1 DEF blogVars, BlogInv, BlogType, RequestsFit, CreatorsAlone, Creates, GoneEmpty, Live,
              ObjectsFresh, Between, Writes, PostsWhole, PostsAudited, Outcome
<1> QED
  BY <1>1, NewPostKeeps, EditKeeps, ReadKeeps, StoreKeeps, WriteRowKeeps, UndoBlogKeeps,
     AfterKeeps, WriteAuditKeeps, UnheardKeeps, MishapKeeps DEF NextBlog

(* A post that no request has left half way has one object of the size its *)
(* row says, and none where it has no row (blog.service.ts).               *)
THEOREM PostsStayWhole == BlogSpec => []PostsWhole
<1>1. BlogInv => PostsWhole
  BY DEF BlogInv
<1> QED
  BY <1>1, BlogInitial, BlogStep, PTL DEF BlogSpec

(* The audit log tells of every post who brought it to the status it has,  *)
(* and of content who took it away, whatever requests run side by side     *)
(* (admin-blog.service.ts, admin-reports.service.ts).                      *)
THEOREM AuditHolds == BlogSpec /\ ReportsSpec => []AuditTrue
<1>1. BlogSpec => []PostsAudited
  <2>1. BlogInv => PostsAudited
    BY DEF BlogInv
  <2> QED
    BY <2>1, BlogInitial, BlogStep, PTL DEF BlogSpec
<1> QED
  BY <1>1, DeletionsHold, PTL DEF AuditTrue

-----------------------------------------------------------------------------
(* Registration *)

CodeType == [state : {"on", "off", "deleted"}, uses : Int, granted : Nat]
PageType == [step : {"credentials", "phrase", "verify", "in"},
             busy : {"no", "fetching", "registering"}, name : Names \cup {"none"}, phrase : Nat]
AskType == [by : Visitors, name : Names \cup {"none"}, phrase : Nat,
            pc : {"sent", "found", "committed"}, code : Nat]
AccountType == [by : Visitors, name : Names \cup {"none"}, phrase : Nat, code : Nat]

RegistrationType ==
  /\ code \in Seq(CodeType)
  /\ codeLog \in Seq({"on", "off", "deleted"}) /\ Len(codeLog) = Len(code)
  /\ task \in [Tasks -> 0 .. Len(code)]
  /\ page \in [Visitors -> PageType]
  /\ made \in Nat
  /\ noted \in [Visitors -> SUBSET Nat]
  /\ requests \in SUBSET AskType
  /\ accounts \in SUBSET AccountType /\ IsFiniteSet(accounts)

\* What the server was sent was noted before; the code it has found is there;
\* and what it has committed is an account.
Told(r, n, phrases, there) ==
  /\ r.phrase \in phrases[r.by] /\ r.phrase # 0
  /\ r.pc # "sent" => r.code \in 1 .. n
  /\ r.pc = "committed" => \E a \in there : a.by = r.by /\ a.name = r.name
RequestsTold == \A r \in requests : Told(r, Len(code), noted, accounts)

AccountsHaveCodes == \A a \in accounts : a.code \in 1 .. Len(code)

\* Who sees the dashboard waits for nothing.
InAtRest == \A v \in Visitors : page[v].step = "in" => page[v].busy = "no"

RegistrationInv == RegistrationType /\ RequestsTold /\ AccountsHaveCodes /\ InAtRest
                   /\ RegistrationsKept

\* The parts of RegistrationsKept.
CodesKept == \A c \in 1 .. Len(code) :
  /\ codeLog[c] = code[c].state
  /\ code[c].uses = code[c].granted - Cardinality(RegisteredWith(c))
AccountsRecoverable == \A a \in accounts : a.phrase \in noted[a.by] /\ a.phrase # 0
InsHaveAccounts == \A v \in Visitors :
  page[v].step = "in" => \E a \in accounts : a.by = v /\ a.name = page[v].name

LEMMA KeptParts ==
  RegistrationType => (RegistrationsKept <=> CodesKept /\ AccountsRecoverable /\ InsHaveAccounts)
<1> SUFFICES ASSUME RegistrationType
             PROVE  RegistrationsKept <=> CodesKept /\ AccountsRecoverable /\ InsHaveAccounts
  OBVIOUS
<1>1. Codes = 1 .. Len(code)
  BY DEF RegistrationType, Codes
<1> QED
  BY <1>1 DEF RegistrationsKept, CodesKept, AccountsRecoverable, InsHaveAccounts

LEMMA KeptPartsNext ==
  RegistrationType' => (RegistrationsKept' <=> CodesKept' /\ AccountsRecoverable' /\ InsHaveAccounts')
<1> SUFFICES ASSUME RegistrationType'
             PROVE  RegistrationsKept' <=> CodesKept' /\ AccountsRecoverable' /\ InsHaveAccounts'
  OBVIOUS
<1>1. Codes' = 1 .. Len(code')
  BY DEF RegistrationType, Codes
<1> QED
  BY <1>1 DEF RegistrationsKept, CodesKept, AccountsRecoverable, InsHaveAccounts

LEMMA RegistrationInitial == InitRegistration => RegistrationInv
<1> SUFFICES ASSUME InitRegistration PROVE RegistrationInv
  OBVIOUS
<1> USE DEF InitRegistration
<1>1. NewPage \in PageType /\ NewPage.step = "credentials"
  BY DEF NewPage, PageType
<1>2. RegistrationType
  BY <1>1, FS_EmptySet DEF RegistrationType
<1>3. CodesKept /\ AccountsRecoverable /\ InsHaveAccounts
  BY <1>1 DEF CodesKept, AccountsRecoverable, InsHaveAccounts
<1> QED
  BY <1>1, <1>2, <1>3, KeptParts DEF RegistrationInv, RequestsTold, AccountsHaveCodes, InAtRest

\* What admins do to codes is nothing to requests, accounts and pages, as long
\* as they take none away.
LEMMA CodesChange ==
  ASSUME RegistrationInv, UNCHANGED <<visitorVars, requests, accounts>>,
         code' \in Seq(CodeType), codeLog' \in Seq({"on", "off", "deleted"}),
         Len(codeLog') = Len(code'), Len(code') >= Len(code),
         task' \in [Tasks -> 0 .. Len(code')], CodesKept'
  PROVE  RegistrationInv'
<1>1. Len(code) \in Nat /\ Len(code') \in Nat
  BY DEF RegistrationInv, RegistrationType
<1>2. RegistrationType'
  BY DEF RegistrationInv, RegistrationType, visitorVars
<1>3. RequestsTold' /\ AccountsHaveCodes'
  BY <1>1 DEF RegistrationInv, RequestsTold, Told, AccountsHaveCodes, visitorVars
<1>4. InAtRest'
  BY DEF RegistrationInv, InAtRest, visitorVars
<1>5. AccountsRecoverable' /\ InsHaveAccounts'
  BY KeptParts DEF RegistrationInv, AccountsRecoverable, InsHaveAccounts, visitorVars
<1> QED
  BY <1>2, <1>3, <1>4, <1>5, KeptPartsNext DEF RegistrationInv

LEMMA CreateCodeKeeps ==
  ASSUME RegistrationInv, NEW state \in {"on", "off"}, NEW n \in 1 .. MaxUses, CreateCode(state, n)
  PROVE  RegistrationInv'
<1> DEFINE k == [state |-> state, uses |-> n, granted |-> n]
<1>1. k \in CodeType /\ k.state = state /\ k.uses = n /\ k.granted = n /\ n \in Nat
  BY RegistrationAssumption DEF CodeType
<1> HIDE DEF k
<1>2. /\ code' = Append(code, k) /\ codeLog' = Append(codeLog, state)
      /\ UNCHANGED <<task, visitorVars, requests, accounts>>
  BY DEF CreateCode, k
<1>3. /\ code \in Seq(CodeType) /\ codeLog \in Seq({"on", "off", "deleted"})
      /\ Len(codeLog) = Len(code) /\ task \in [Tasks -> 0 .. Len(code)]
      /\ IsFiniteSet(accounts)
  BY DEF RegistrationInv, RegistrationType
<1>4. /\ code' \in Seq(CodeType) /\ codeLog' \in Seq({"on", "off", "deleted"})
      /\ Len(code') = Len(code) + 1 /\ Len(codeLog') = Len(code) + 1
      /\ code'[Len(code) + 1] = k /\ codeLog'[Len(code) + 1] = state
      /\ \A c \in 1 .. Len(code) : code'[c] = code[c] /\ codeLog'[c] = codeLog[c]
  BY <1>1, <1>2, <1>3
<1>5. \A c : RegisteredWith(c)' = RegisteredWith(c)
  BY <1>2 DEF RegisteredWith
<1>6. Len(code) \in Nat
  BY <1>3
<1>7. RegisteredWith(Len(code) + 1) = {}
  BY <1>6 DEF RegistrationInv, AccountsHaveCodes, RegisteredWith
<1>8. CodesKept
  BY KeptParts DEF RegistrationInv
<1>9. CodesKept'
  <2> SUFFICES ASSUME NEW c \in 1 .. Len(code')
               PROVE  /\ codeLog'[c] = code'[c].state
                      /\ code'[c].uses = code'[c].granted - Cardinality(RegisteredWith(c))
    BY <1>5 DEF CodesKept
  <2>1. CASE c \in 1 .. Len(code)
    BY <2>1, <1>4, <1>8 DEF CodesKept
  <2>2. CASE c = Len(code) + 1
    <3>1. Cardinality(RegisteredWith(c)) = 0
      BY <2>2, <1>7, FS_EmptySet
    <3>2. code'[c] = k /\ codeLog'[c] = state
      BY <2>2, <1>4
    <3> QED
      BY <3>1, <3>2, <1>1
  <2> QED
    BY <2>1, <2>2, <1>4, <1>6
<1>10. task' \in [Tasks -> 0 .. Len(code')]
  BY <1>2, <1>3, <1>4, <1>6
<1>11. Len(codeLog') = Len(code') /\ Len(code') >= Len(code)
  BY <1>4, <1>6
<1> QED
  BY <1>2, <1>4, <1>9, <1>10, <1>11, CodesChange

LEMMA FindCodeKeeps ==
  ASSUME RegistrationInv, NEW t \in Tasks, NEW c \in Codes, FindCode(t, c) PROVE RegistrationInv'
<1>1. c \in 0 .. Len(code)
  BY DEF RegistrationInv, RegistrationType, Codes
<1>2. /\ task' \in [Tasks -> 0 .. Len(code')]
      /\ UNCHANGED <<code, codeLog, visitorVars, requests, accounts>>
  BY <1>1 DEF FindCode, RegistrationInv, RegistrationType
<1>3. CodesKept'
  BY <1>2, KeptParts DEF RegistrationInv, CodesKept, RegisteredWith
<1> QED
  BY <1>2, <1>3, CodesChange DEF RegistrationInv, RegistrationType

LEMMA SetCodeKeeps ==
  ASSUME RegistrationInv, NEW t \in Tasks, NEW state \in {"on", "off", "deleted"}, SetCode(t, state)
  PROVE  RegistrationInv'
<1> DEFINE c == task[t]
           k == [code[c] EXCEPT !.state = state]
<1>1. c \in 1 .. Len(code) /\ code[c] \in CodeType
  BY DEF SetCode, RegistrationInv, RegistrationType
<1>2. /\ k \in CodeType /\ k.state = state /\ k.uses = code[c].uses /\ k.granted = code[c].granted
  BY <1>1 DEF CodeType
<1>3. /\ code' = IF Exists(c) THEN [code EXCEPT ![c] = k] ELSE code
      /\ codeLog' = IF Exists(c) THEN [codeLog EXCEPT ![c] = state] ELSE codeLog
      /\ task' = [task EXCEPT ![t] = 0]
      /\ UNCHANGED <<visitorVars, requests, accounts>>
  BY DEF SetCode, Logged
<1> HIDE DEF k
<1>4. /\ code \in Seq(CodeType) /\ codeLog \in Seq({"on", "off", "deleted"})
      /\ Len(codeLog) = Len(code) /\ task \in [Tasks -> 0 .. Len(code)]
  BY DEF RegistrationInv, RegistrationType
<1>5. /\ code' \in Seq(CodeType) /\ codeLog' \in Seq({"on", "off", "deleted"})
      /\ Len(code') = Len(code) /\ Len(codeLog') = Len(code)
  BY <1>1, <1>2, <1>3, <1>4
<1>6. CodesKept
  BY KeptParts DEF RegistrationInv
<1>7. \A d \in 1 .. Len(code) :
        /\ codeLog'[d] = code'[d].state
        /\ code'[d].uses = code[d].uses /\ code'[d].granted = code[d].granted
  BY <1>1, <1>2, <1>3, <1>4, <1>6 DEF CodesKept
<1>8. CodesKept'
  BY <1>3, <1>5, <1>6, <1>7 DEF CodesKept, RegisteredWith
<1>9. task' \in [Tasks -> 0 .. Len(code')]
  BY <1>3, <1>4, <1>5
<1>10. Len(codeLog') = Len(code') /\ Len(code') >= Len(code)
  BY <1>4, <1>5
<1> QED
  BY <1>3, <1>5, <1>8, <1>9, <1>10, CodesChange

\* A page goes on, and what its visitor has noted stays noted.
LEMMA PageMoves ==
  ASSUME RegistrationInv, NEW v \in Visitors, NEW k \in PageType,
         page' = [page EXCEPT ![v] = k], UNCHANGED <<inviteVars, requests, accounts>>,
         k.step # "in", made' \in Nat, noted' = noted
  PROVE  RegistrationInv'
<1>1. /\ page' \in [Visitors -> PageType] /\ page'[v] = k
      /\ \A w \in Visitors : w # v => page'[w] = page[w]
  BY DEF RegistrationInv, RegistrationType
<1>2. RegistrationType'
  BY <1>1 DEF RegistrationInv, RegistrationType, inviteVars
<1>3. RequestsTold' /\ AccountsHaveCodes'
  BY DEF RegistrationInv, RequestsTold, AccountsHaveCodes, inviteVars
<1>4. InAtRest'
  BY <1>1 DEF RegistrationInv, InAtRest
<1>5. CodesKept'
  BY KeptParts DEF RegistrationInv, CodesKept, RegisteredWith, inviteVars
<1>6. AccountsRecoverable'
  BY KeptParts DEF RegistrationInv, AccountsRecoverable
<1>7. InsHaveAccounts'
  BY <1>1, KeptParts DEF RegistrationInv, InsHaveAccounts
<1> QED
  BY <1>2, <1>3, <1>4, <1>5, <1>6, <1>7, KeptPartsNext DEF RegistrationInv

LEMMA PageTypes ==
  ASSUME NEW k \in PageType
  PROVE  /\ \A step \in {"credentials", "phrase", "verify", "in"} :
              [k EXCEPT !.step = step] \in PageType /\ [k EXCEPT !.step = step].step = step
              /\ [k EXCEPT !.step = step].busy = k.busy /\ [k EXCEPT !.step = step].name = k.name
         /\ \A busy \in {"no", "fetching", "registering"} :
              [k EXCEPT !.busy = busy] \in PageType /\ [k EXCEPT !.busy = busy].step = k.step
              /\ [k EXCEPT !.busy = busy].busy = busy /\ [k EXCEPT !.busy = busy].name = k.name
  BY DEF PageType

LEMMA ValidateKeeps ==
  ASSUME RegistrationInv, NEW v \in Visitors, NEW name \in Names, Validate(v, name)
  PROVE  RegistrationInv'
<1> DEFINE k == [page[v] EXCEPT !.name = name, !.busy = "fetching"]
<1>1. page[v] \in PageType /\ page[v].step = "credentials" /\ made \in Nat
  BY DEF RegistrationInv, RegistrationType, Validate, AtPage
<1>2. k \in PageType /\ k.step # "in"
  BY <1>1 DEF PageType
<1>3. /\ page' = [page EXCEPT ![v] = k]
      /\ UNCHANGED <<inviteVars, requests, accounts, made, noted>>
  BY DEF Validate, SetPage, VisitorsOnly
<1> HIDE DEF k
<1> QED
  BY <1>1, <1>2, <1>3, PageMoves

LEMMA RegenerateKeeps ==
  ASSUME RegistrationInv, NEW v \in Visitors, Regenerate(v) PROVE RegistrationInv'
<1> DEFINE k == [page[v] EXCEPT !.busy = "fetching"]
<1>1. page[v] \in PageType /\ page[v].step = "phrase" /\ made \in Nat
  BY DEF RegistrationInv, RegistrationType, Regenerate, AtPage
<1>2. k \in PageType /\ k.step # "in"
  BY <1>1, PageTypes
<1>3. /\ page' = [page EXCEPT ![v] = k]
      /\ UNCHANGED <<inviteVars, requests, accounts, made, noted>>
  BY DEF Regenerate, SetPage, VisitorsOnly
<1> HIDE DEF k
<1> QED
  BY <1>1, <1>2, <1>3, PageMoves

LEMMA FetchPhraseKeeps ==
  ASSUME RegistrationInv, NEW v \in Visitors, NEW ok \in BOOLEAN, FetchPhrase(v, ok)
  PROVE  RegistrationInv'
<1>1. page[v] \in PageType /\ made \in Nat
  BY DEF RegistrationInv, RegistrationType
<1> DEFINE ph == IF ok THEN made + 1 ELSE page[v].phrase
           k == [page[v] EXCEPT !.step = "phrase", !.busy = "no", !.phrase = ph]
<1>2. ph \in Nat
  BY <1>1 DEF PageType
<1>3. page' = [page EXCEPT ![v] = k]
  BY DEF FetchPhrase, SetPage
<1> HIDE DEF ph
<1>4. k \in PageType /\ k.step # "in"
  BY <1>1, <1>2 DEF PageType
<1>5. made' \in Nat /\ UNCHANGED <<inviteVars, requests, accounts, noted>>
  BY <1>1 DEF FetchPhrase, VisitorsOnly
<1> HIDE DEF k
<1> QED
  BY <1>3, <1>4, <1>5, PageMoves

LEMMA ContinueKeeps ==
  ASSUME RegistrationInv, NEW v \in Visitors, Continue(v) \/ Back(v) PROVE RegistrationInv'
<1>1. page[v] \in PageType /\ made \in Nat
  BY DEF RegistrationInv, RegistrationType
<1>2. PICK step \in {"verify", "phrase"} : page' = [page EXCEPT ![v] = [page[v] EXCEPT !.step = step]]
  BY DEF Continue, Back, SetPage
<1> DEFINE k == [page[v] EXCEPT !.step = step]
<1>3. k \in PageType /\ k.step # "in"
  BY <1>1, PageTypes
<1>4. UNCHANGED <<inviteVars, requests, accounts, made, noted>>
  BY DEF Continue, Back, VisitorsOnly
<1> HIDE DEF k
<1>5. page' = [page EXCEPT ![v] = k]
  BY <1>2 DEF k
<1> QED
  BY <1>1, <1>3, <1>4, <1>5, PageMoves

LEMMA ReloadKeeps ==
  ASSUME RegistrationInv, NEW v \in Visitors, Reload(v) PROVE RegistrationInv'
<1>1. NewPage \in PageType /\ NewPage.step # "in"
  BY DEF NewPage, PageType
<1>2. page' = [page EXCEPT ![v] = NewPage] /\ made' \in Nat
      /\ UNCHANGED <<inviteVars, requests, accounts, noted>>
  BY DEF Reload, SetPage, VisitorsOnly, RegistrationInv, RegistrationType
<1> QED
  BY <1>1, <1>2, PageMoves

LEMMA NotePhraseKeeps ==
  ASSUME RegistrationInv, NEW v \in Visitors, NotePhrase(v) PROVE RegistrationInv'
<1>1. page[v].phrase \in Nat
  BY DEF RegistrationInv, RegistrationType, PageType
<1>2. /\ noted' = [noted EXCEPT ![v] = @ \cup {page[v].phrase}]
      /\ UNCHANGED <<page, made, inviteVars, requests, accounts>>
  BY DEF NotePhrase, VisitorsOnly
<1>3. RegistrationType'
  BY <1>1, <1>2 DEF RegistrationInv, RegistrationType, inviteVars
<1>4. \A w \in Visitors : noted[w] \subseteq noted'[w]
  BY <1>2 DEF RegistrationInv, RegistrationType
<1>5. requests \subseteq AskType /\ accounts \subseteq AccountType
  BY DEF RegistrationInv, RegistrationType
<1>6. RequestsTold'
  <2>1. \A r \in requests : r.by \in Visitors /\ Told(r, Len(code), noted, accounts)
    BY <1>5 DEF RegistrationInv, RequestsTold, AskType
  <2>2. \A r \in requests : Told(r, Len(code), noted', accounts)
    BY <2>1, <1>4 DEF Told
  <2> QED
    BY <1>2, <2>2 DEF RequestsTold, inviteVars
<1>7. AccountsRecoverable'
  <2>1. \A a \in accounts : a.by \in Visitors /\ a.phrase \in noted[a.by] /\ a.phrase # 0
    BY <1>5, KeptParts DEF RegistrationInv, AccountsRecoverable, AccountType
  <2> QED
    BY <2>1, <1>2, <1>4 DEF AccountsRecoverable
<1>8. AccountsHaveCodes' /\ InAtRest'
  BY <1>2 DEF RegistrationInv, AccountsHaveCodes, InAtRest, inviteVars
<1>9. CodesKept' /\ InsHaveAccounts'
  BY <1>2, KeptParts DEF RegistrationInv, CodesKept, RegisteredWith, InsHaveAccounts, inviteVars
<1> QED
  BY <1>3, <1>6, <1>7, <1>8, <1>9, KeptPartsNext DEF RegistrationInv

LEMMA VerifyKeeps ==
  ASSUME RegistrationInv, NEW v \in Visitors, NEW typed \in noted[v], Verify(v, typed)
  PROVE  RegistrationInv'
<1> DEFINE k == [page[v] EXCEPT !.busy = "registering"]
           r == [by |-> v, name |-> page[v].name, phrase |-> page[v].phrase,
                 pc |-> "sent", code |-> 0]
<1>1. page[v] \in PageType /\ page[v].step = "verify"
  BY DEF RegistrationInv, RegistrationType, Verify, AtPage
<1>2. k \in PageType /\ k.step = "verify"
  BY <1>1, PageTypes
<1>3. /\ page' = [page EXCEPT ![v] = k] /\ requests' = requests \cup {r}
      /\ UNCHANGED <<made, noted, reloads, inviteVars, accounts>>
  BY DEF Verify, SetPage
<1>4. page[v].phrase \in noted[v] /\ page[v].phrase # 0
  BY DEF Verify, Matches
<1>5. r \in AskType /\ Told(r, Len(code), noted, accounts)
  BY <1>1, <1>4 DEF AskType, PageType, Told
<1> HIDE DEF k, r
<1>6. /\ page' \in [Visitors -> PageType] /\ page'[v] = k
      /\ \A w \in Visitors : w # v => page'[w] = page[w]
  BY <1>2, <1>3 DEF RegistrationInv, RegistrationType
<1>7. RegistrationType'
  BY <1>3, <1>5, <1>6 DEF RegistrationInv, RegistrationType, inviteVars
<1>8. RequestsTold' /\ AccountsHaveCodes'
  BY <1>3, <1>5 DEF RegistrationInv, RequestsTold, AccountsHaveCodes, inviteVars
<1>9. InAtRest'
  BY <1>2, <1>6 DEF RegistrationInv, InAtRest
<1>10. CodesKept' /\ AccountsRecoverable'
  BY <1>3, KeptParts
  DEF RegistrationInv, CodesKept, RegisteredWith, AccountsRecoverable, inviteVars
<1>11. InsHaveAccounts'
  BY <1>2, <1>3, <1>6, KeptParts DEF RegistrationInv, InsHaveAccounts
<1> QED
  BY <1>7, <1>8, <1>9, <1>10, <1>11, KeptPartsNext DEF RegistrationInv

\* Whatever the page is told, it is told of an account if it is let in.
LEMMA AnswerKeeps ==
  ASSUME RegistrationInv, NEW r \in requests, NEW step \in {"verify", "in"},
         AnswerRegister(r, step), UNCHANGED accounts, step = "in" => r.pc = "committed"
  PROVE  RegistrationInv'
<1>1. requests' \subseteq requests /\ UNCHANGED <<made, noted, reloads, inviteVars, accounts>>
  BY DEF AnswerRegister
<1>2. r \in AskType /\ r.by \in Visitors
  BY DEF RegistrationInv, RegistrationType, AskType
<1> DEFINE v == r.by
           k == [page[v] EXCEPT !.busy = "no", !.step = step]
<1>3. page[v] \in PageType
  BY <1>2 DEF RegistrationInv, RegistrationType
<1>4. k \in PageType /\ k.step = step /\ k.busy = "no" /\ k.name = page[v].name
  BY <1>3 DEF PageType
<1>5. IF Waits(r) THEN page' = [page EXCEPT ![v] = k] ELSE UNCHANGED page
  BY DEF AnswerRegister, SetPage
<1> HIDE DEF k
<1>6. /\ page' \in [Visitors -> PageType]
      /\ \A w \in Visitors : page'[w] = page[w] \/ (w = v /\ page'[w] = k /\ page[w].name = r.name)
  BY <1>2, <1>4, <1>5 DEF RegistrationInv, RegistrationType, Waits
<1>7. RegistrationType'
  BY <1>1, <1>6 DEF RegistrationInv, RegistrationType, inviteVars
<1>8. RequestsTold' /\ AccountsHaveCodes'
  BY <1>1 DEF RegistrationInv, RequestsTold, AccountsHaveCodes, inviteVars
<1>9. InAtRest'
  BY <1>4, <1>6 DEF RegistrationInv, InAtRest
<1>10. CodesKept' /\ AccountsRecoverable'
  BY <1>1, KeptParts
  DEF RegistrationInv, CodesKept, RegisteredWith, AccountsRecoverable, inviteVars
<1>11. InsHaveAccounts'
  <2>1. step = "in" => \E a \in accounts : a.by = v /\ a.name = r.name
    BY DEF RegistrationInv, RequestsTold, Told
  <2>2. InsHaveAccounts
    BY KeptParts DEF RegistrationInv
  <2>3. ASSUME NEW w \in Visitors, page'[w].step = "in"
        PROVE  \E a \in accounts : a.by = w /\ a.name = page'[w].name
    <3>1. CASE page'[w] = page[w]
      BY <2>2, <2>3, <3>1 DEF InsHaveAccounts
    <3>2. CASE w = v /\ page'[w] = k /\ page[w].name = r.name
      BY <2>1, <2>3, <3>2, <1>4
    <3> QED
      BY <3>1, <3>2, <1>6
  <2> QED
    BY <2>3, <1>1 DEF InsHaveAccounts
<1> QED
  BY <1>7, <1>8, <1>9, <1>10, <1>11, KeptPartsNext DEF RegistrationInv

LEMMA FindInviteKeeps ==
  ASSUME RegistrationInv, NEW r \in requests, NEW c \in Codes, FindInvite(r, c)
  PROVE  RegistrationInv'
<1> DEFINE q == [r EXCEPT !.pc = "found", !.code = c]
<1>1. r \in AskType /\ c \in 1 .. Len(code) /\ Len(code) \in Nat
  BY DEF RegistrationInv, RegistrationType, Codes
<1>2. /\ q \in AskType /\ q.by = r.by /\ q.phrase = r.phrase /\ q.pc = "found" /\ q.code = c
  <2>1. c \in Nat
    BY <1>1
  <2> QED
    BY <1>1, <2>1 DEF AskType
<1>3. /\ requests' = (requests \ {r}) \cup {q}
      /\ UNCHANGED <<inviteVars, visitorVars, accounts>>
  BY DEF FindInvite
<1> HIDE DEF q
<1>4. Told(q, Len(code), noted, accounts)
  BY <1>1, <1>2 DEF RegistrationInv, RequestsTold, Told
<1>5. RegistrationType'
  BY <1>2, <1>3 DEF RegistrationInv, RegistrationType, inviteVars, visitorVars
<1>6. RequestsTold' /\ AccountsHaveCodes'
  BY <1>3, <1>4 DEF RegistrationInv, RequestsTold, AccountsHaveCodes, inviteVars, visitorVars
<1>7. InAtRest' /\ InsHaveAccounts' /\ CodesKept' /\ AccountsRecoverable'
  BY <1>3, KeptParts DEF RegistrationInv, InAtRest, InsHaveAccounts, CodesKept, RegisteredWith,
                         AccountsRecoverable, inviteVars, visitorVars
<1> QED
  BY <1>5, <1>6, <1>7, KeptPartsNext DEF RegistrationInv

\* The account and the use of the code it was made with come together.
LEMMA CommitUserKeeps ==
  ASSUME RegistrationInv, NEW r \in requests, CommitUser(r) PROVE RegistrationInv'
<1> DEFINE q == [r EXCEPT !.pc = "committed"]
           x == [by |-> r.by, name |-> r.name, phrase |-> r.phrase, code |-> r.code]
           n == r.code
           left == code[n].uses - 1
           k == [code[n] EXCEPT !.uses = left]
<1>1. r \in AskType /\ Told(r, Len(code), noted, accounts) /\ Len(code) \in Nat
  BY DEF RegistrationInv, RegistrationType, RequestsTold
<1>2. /\ r.pc = "found" /\ ~Taken(r.name)
      /\ accounts' = accounts \cup {x}
      /\ code' = [code EXCEPT ![n] = k]
      /\ requests' = (requests \ {r}) \cup {q}
      /\ UNCHANGED <<codeLog, task, visitorVars>>
  BY DEF CommitUser
<1>3. n \in 1 .. Len(code) /\ code[n] \in CodeType /\ code \in Seq(CodeType)
  BY <1>1, <1>2 DEF Told, RegistrationInv, RegistrationType
<1>4. /\ q \in AskType /\ q.by = r.by /\ q.name = r.name /\ q.phrase = r.phrase
      /\ q.pc = "committed" /\ q.code = n
  BY <1>1 DEF AskType
<1>5. x \in AccountType /\ x.by = r.by /\ x.name = r.name /\ x.phrase = r.phrase /\ x.code = n
  BY <1>1 DEF AskType, AccountType
<1>6. left \in Int /\ left = code[n].uses - 1
  BY <1>3 DEF CodeType
<1> HIDE DEF left
<1>6a. k \in CodeType /\ k.uses = left /\ k.state = code[n].state /\ k.granted = code[n].granted
  BY <1>3, <1>6 DEF CodeType
<1> HIDE DEF k, q, x
<1>7. /\ code' \in Seq(CodeType) /\ Len(code') = Len(code) /\ code'[n] = k
      /\ \A c \in 1 .. Len(code) : c # n => code'[c] = code[c]
  BY <1>2, <1>3, <1>6a
<1>8. x \notin accounts
  BY <1>2, <1>5 DEF Taken
<1>9. RegistrationType'
  <2>1. IsFiniteSet(accounts') /\ accounts' \in SUBSET AccountType
    BY <1>2, <1>5, FS_AddElement DEF RegistrationInv, RegistrationType
  <2>2. requests' \in SUBSET AskType
    BY <1>2, <1>4 DEF RegistrationInv, RegistrationType
  <2>3. /\ codeLog \in Seq({"on", "off", "deleted"}) /\ Len(codeLog) = Len(code')
        /\ task \in [Tasks -> 0 .. Len(code')]
    BY <1>7 DEF RegistrationInv, RegistrationType
  <2>4. page \in [Visitors -> PageType] /\ made \in Nat /\ noted \in [Visitors -> SUBSET Nat]
    BY DEF RegistrationInv, RegistrationType
  <2> QED
    BY <1>2, <1>7, <2>1, <2>2, <2>3, <2>4 DEF RegistrationType, visitorVars
<1>10. RequestsTold'
  <2>1. accounts \subseteq accounts' /\ x \in accounts'
    BY <1>2
  <2>2. \A p \in requests : Told(p, Len(code), noted, accounts')
    BY <2>1 DEF RegistrationInv, RequestsTold, Told
  <2>3. Told(q, Len(code), noted, accounts')
    BY <1>1, <1>2, <1>4, <1>5, <2>1 DEF Told
  <2> QED
    BY <1>2, <1>7, <2>2, <2>3 DEF RequestsTold, visitorVars
<1>11. AccountsHaveCodes'
  BY <1>2, <1>3, <1>5, <1>7 DEF RegistrationInv, AccountsHaveCodes
<1>12. InAtRest'
  BY <1>2 DEF RegistrationInv, InAtRest, visitorVars
<1>13. AccountsRecoverable'
  BY <1>1, <1>2, <1>5, KeptParts DEF RegistrationInv, AccountsRecoverable, Told, visitorVars
<1>14. InsHaveAccounts'
  BY <1>2, KeptParts DEF RegistrationInv, InsHaveAccounts, visitorVars
<1>15. CodesKept'
  <2> SUFFICES ASSUME NEW c \in 1 .. Len(code)
               PROVE  /\ codeLog'[c] = code'[c].state
                      /\ code'[c].uses = code'[c].granted - Cardinality(RegisteredWith(c)')
    BY <1>7 DEF CodesKept
  <2>1. /\ codeLog[c] = code[c].state
        /\ code[c].uses = code[c].granted - Cardinality(RegisteredWith(c))
    BY KeptParts DEF RegistrationInv, CodesKept
  <2>2. CASE c = n
    <3>1. RegisteredWith(c)' = RegisteredWith(c) \cup {x} /\ x \notin RegisteredWith(c)
      BY <1>2, <1>5, <1>8, <2>2 DEF RegisteredWith
    <3>2. RegisteredWith(c) \in SUBSET accounts /\ IsFiniteSet(accounts)
      BY DEF RegisteredWith, RegistrationInv, RegistrationType
    <3>3. IsFiniteSet(RegisteredWith(c)) /\ Cardinality(RegisteredWith(c)) \in Nat
      BY <3>2, FS_Subset, FS_CardinalityType
    <3>4. Cardinality(RegisteredWith(c)') = Cardinality(RegisteredWith(c)) + 1
      BY <3>1, <3>3, FS_AddElement
    <3>5. code[n].granted \in Nat
      BY <1>3 DEF CodeType
    <3> QED
      BY <1>2, <1>6, <1>7, <1>6a, <2>1, <2>2, <3>3, <3>4, <3>5
  <2>3. CASE c # n
    <3>1. RegisteredWith(c)' = RegisteredWith(c)
      BY <1>2, <1>5, <2>3 DEF RegisteredWith
    <3> QED
      BY <1>2, <1>7, <2>1, <2>3, <3>1
  <2> QED
    BY <2>2, <2>3
<1> QED
  BY <1>9, <1>10, <1>11, <1>12, <1>13, <1>14, <1>15, KeptPartsNext DEF RegistrationInv

LEMMA RegistrationStep == RegistrationInv /\ [NextRegistration]_registrationVars => RegistrationInv'
<1> SUFFICES ASSUME RegistrationInv, [NextRegistration]_registrationVars PROVE RegistrationInv'
  OBVIOUS
<1>1. ASSUME NEW t \in Tasks, InviteStep(t) PROVE RegistrationInv'
  BY <1>1, FindCodeKeeps, SetCodeKeeps DEF InviteStep, DeleteCode, UpdateCode
<1>2. ASSUME NEW v \in Visitors, VisitorStep(v) PROVE RegistrationInv'
  BY <1>2, ValidateKeeps, RegenerateKeeps, FetchPhraseKeeps, NotePhraseKeeps, ContinueKeeps,
     VerifyKeeps, ReloadKeeps DEF VisitorStep
<1>3. ASSUME NEW r \in requests, RequestStep(r) PROVE RegistrationInv'
  BY <1>3, FindInviteKeeps, CommitUserKeeps, AnswerKeeps
  DEF RequestStep, RefuseInvite, CommitFails, Registered, FailsLate
<1>4. CASE UNCHANGED registrationVars
  <2>1. UNCHANGED <<visitorVars, requests, accounts, code, codeLog, task>>
    BY <1>4 DEF registrationVars, inviteVars
  <2>2. CodesKept'
    BY <2>1, KeptParts DEF RegistrationInv, CodesKept, RegisteredWith
  <2>3. /\ code' \in Seq(CodeType) /\ codeLog' \in Seq({"on", "off", "deleted"})
        /\ Len(codeLog') = Len(code') /\ Len(code') >= Len(code)
        /\ task' \in [Tasks -> 0 .. Len(code')]
    BY <2>1 DEF RegistrationInv, RegistrationType
  <2> QED
    BY <2>1, <2>2, <2>3, CodesChange
<1> QED
  BY <1>1, <1>2, <1>3, <1>4, CreateCodeKeeps DEF NextRegistration

(* A code is used once for every account registered with it, whatever      *)
(* admins do to it meanwhile; every account can be recovered with a phrase *)
(* its visitor has noted; and who sees the dashboard has an account        *)
(* (auth.service.ts register, admin-invites.service.ts, RegisterForm.tsx). *)
THEOREM RegistrationsHold == SpecRegistration => []RegistrationsKept
<1>1. RegistrationInv => RegistrationsKept
  BY DEF RegistrationInv
<1> QED
  BY <1>1, RegistrationInitial, RegistrationStep, PTL DEF SpecRegistration

-----------------------------------------------------------------------------
(* Answers of the dashboard *)

\* A set of numbers that is not empty has a smallest element, and so induction
\* over a set of numbers is sound.
LEMMA LeastBy ==
  ASSUME NEW R, IsWellFoundedOn(R, Nat), \A x, y \in Nat : y < x => <<y, x>> \in R,
         NEW T, T \subseteq Nat, T /= {}
  PROVE  \E x \in T : \A y \in T : x <= y
<1>1. \E x \in T : \A y \in T : ~(<<y, x>> \in R)
  BY WFMin
<1>2. PICK x \in T : \A y \in T : ~(<<y, x>> \in R)
  BY <1>1
<1>3. ASSUME NEW y \in T PROVE x <= y
  <2>1. x \in Nat /\ y \in Nat /\ ~(y < x)
    BY <1>2
  <2> QED
    BY <2>1
<1> QED
  BY <1>3

LEMMA LeastElement ==
  ASSUME NEW T, T \subseteq Nat, T /= {}
  PROVE  \E x \in T : \A y \in T : x <= y
<1>1. IsWellFoundedOn(OpToRel(<, Nat), Nat)
  BY NatLessThanWellFounded
<1>2. \A x, y \in Nat : y < x => <<y, x>> \in OpToRel(<, Nat)
  BY Zenon DEF OpToRel
<1> QED
  BY <1>1, <1>2, LeastBy, Zenon

LEMMA Induction ==
  ASSUME NEW S, 0 \in S, \A n \in Nat : n \in S => n + 1 \in S
  PROVE  Nat \subseteq S
<1> SUFFICES ASSUME Nat \ S /= {} PROVE FALSE
  OBVIOUS
<1>1. PICK x \in Nat \ S : \A y \in Nat \ S : x <= y
  BY LeastElement
<1>2. x - 1 \in Nat /\ x - 1 \in S
  BY <1>1
<1> QED
  BY <1>1, <1>2

\* The cursor stands at c when the records up to a time are the first c.
EndsAt(times, time, c) ==
  /\ c \in 0..Len(times)
  /\ \A k \in 1..c : times[k] <= time
  /\ c < Len(times) => times[c + 1] > time

Ascending(times) == \A i, j \in DOMAIN times : i <= j => times[i] <= times[j]

LEMMA EndsOnce ==
  ASSUME NEW times \in Seq(Int), NEW time \in Int, NEW c, NEW d,
         EndsAt(times, time, c), EndsAt(times, time, d)
  PROVE  c = d
<1>1. \A i, j \in 0..Len(times) :
        (\A k \in 1..j : times[k] <= time) /\ (i < Len(times) => times[i + 1] > time) => ~(i < j)
  OBVIOUS
<1> QED
  BY <1>1 DEF EndsAt

LEMMA PassedFacts ==
  ASSUME NEW times \in Seq(Int), NEW time \in Int, NEW c \in 0..Len(times)
  PROVE  LET d == Passed(times, time, c) IN
         /\ d \in c..Len(times)
         /\ \A k \in (c + 1)..d : times[k] <= time
         /\ d < Len(times) => times[d + 1] > time
<1> DEFINE stops == {k \in c..Len(times) : k < Len(times) => times[k + 1] > time}
<1>1. Len(times) \in Nat /\ Len(times) \in stops
  OBVIOUS
<1>2. \E x \in stops : \A y \in stops : x <= y
  <2>1. stops \subseteq Nat /\ stops /= {}
    BY <1>1
  <2> HIDE DEF stops
  <2> QED
    BY <2>1, LeastElement
<1>3. PICK x : x = Passed(times, time, c)
  OBVIOUS
<1>4. x \in stops /\ \A y \in stops : x <= y
  BY <1>2, <1>3, Zenon DEF Passed, Min
<1>5. /\ x \in c..Len(times) /\ (x < Len(times) => times[x + 1] > time)
      /\ \A y \in c..Len(times) : (y < Len(times) => times[y + 1] > time) => x <= y
  BY <1>4
<1> HIDE DEF stops
<1>6. ASSUME NEW k \in (c + 1)..x PROVE times[k] <= time
  <2>1. PICK y : y = k - 1 /\ y \in c..Len(times) /\ y < Len(times) /\ ~(x <= y) /\ k = y + 1
    BY <1>1, <1>5
  <2>2. k \in 1..Len(times) /\ times[k] \in Int
    BY <1>1, <2>1
  <2>3. ~(times[y + 1] > time)
    BY <1>5, <2>1
  <2> QED
    BY <2>1, <2>2, <2>3
<1> QED
  BY <1>3, <1>5, <1>6

\* Cursors is what its definition says, at every bucket.
CountsUp(g, times, buckets, at, n) ==
  g = [i \in 0..n |-> IF i = 0 THEN 0 ELSE Passed(times, Capped(buckets[i], at), g[i - 1])]

LEMMA CountsSteps ==
  ASSUME NEW times, NEW buckets, NEW at, NEW n \in Nat, NEW g, CountsUp(g, times, buckets, at, n)
  PROVE  /\ g[0] = 0
         /\ \A i \in 1..n : g[i] = Passed(times, Capped(buckets[i], at), g[i - 1])
BY DEF CountsUp

LEMMA CountsExists ==
  ASSUME NEW times, NEW buckets, NEW at
  PROVE  \A n \in Nat : \E g : CountsUp(g, times, buckets, at, n)
<1> DEFINE S == {n \in Nat : \E g : CountsUp(g, times, buckets, at, n)}
<1>1. 0 \in S
  <2> DEFINE g == [i \in 0..0 |-> 0]
  <2>1. CountsUp(g, times, buckets, at, 0)
    BY DEF CountsUp
  <2> QED
    BY <2>1
<1>2. ASSUME NEW n \in Nat, n \in S PROVE n + 1 \in S
  <2>1. PICK g : CountsUp(g, times, buckets, at, n)
    BY <1>2
  <2>2. /\ g[0] = 0
        /\ \A i \in 1..n : g[i] = Passed(times, Capped(buckets[i], at), g[i - 1])
    BY <2>1, CountsSteps
  <2>3. PICK new : new = Passed(times, Capped(buckets[n + 1], at), g[n])
    OBVIOUS
  <2> DEFINE h == [i \in 0..(n + 1) |-> IF i <= n THEN g[i] ELSE new]
  <2>4. /\ h = [i \in 0..(n + 1) |-> h[i]]
        /\ h[n + 1] = new /\ \A i \in 0..n : h[i] = g[i]
    OBVIOUS
  <2> HIDE DEF h
  <2>5. ASSUME NEW i \in 1..(n + 1)
        PROVE  h[i] = Passed(times, Capped(buckets[i], at), h[i - 1])
    <3>1. CASE i = n + 1
      <4>1. i - 1 = n /\ n \in 0..n
        BY <3>1
      <4> QED
        BY <2>3, <2>4, <3>1, <4>1, Zenon
    <3>2. CASE i <= n
      <4>1. i \in 0..n /\ i - 1 \in 0..n /\ i \in 1..n
        BY <3>2
      <4> QED
        BY <2>2, <2>4, <4>1, Zenon
    <3>3. i = n + 1 \/ i <= n
      OBVIOUS
    <3> QED
      BY <3>1, <3>2, <3>3, Zenon
  <2>6. CountsUp(h, times, buckets, at, n + 1)
    <3>1. h[0] = 0
      <4>1. 0 \in 0..n
        OBVIOUS
      <4> QED
        BY <2>2, <2>4, <4>1, Zenon
    <3>2. \A i \in 0..(n + 1) :
            h[i] = IF i = 0 THEN 0 ELSE Passed(times, Capped(buckets[i], at), h[i - 1])
      <4>1. \A i \in 0..(n + 1) : i = 0 \/ i \in 1..(n + 1)
        OBVIOUS
      <4>2. \A i \in 1..(n + 1) : i /= 0
        OBVIOUS
      <4> QED
        BY <2>5, <3>1, <4>1, <4>2, Zenon
    <3> QED
      BY <2>4, <3>2, Zenon DEF CountsUp
  <2> QED
    BY <2>6
<1> HIDE DEF S
<1>3. Nat \subseteq S
  BY <1>1, <1>2, Induction
<1> QED
  BY <1>3 DEF S

LEMMA CursorsAre ==
  ASSUME NEW times, NEW buckets, NEW at, Len(buckets) \in Nat
  PROVE  \E g : /\ g[0] = 0
                /\ \A i \in 1..Len(buckets) : g[i] = Passed(times, Capped(buckets[i], at), g[i - 1])
                /\ Cursors(times, buckets, at) = [i \in DOMAIN buckets |-> g[i]]
<1> DEFINE h == CHOOSE g : CountsUp(g, times, buckets, at, Len(buckets))
<1>1. CountsUp(h, times, buckets, at, Len(buckets))
  BY CountsExists, Zenon
<1>2. Cursors(times, buckets, at) = [i \in DOMAIN buckets |-> h[i]]
  BY Zenon DEF Cursors, CountsUp
<1> HIDE DEF h
<1> QED
  BY <1>1, <1>2, CountsSteps

\* Where the cursor is after the first i buckets.
Reached(times, buckets, at, i, c) ==
  /\ c \in 0..Len(times)
  /\ \A k \in 1..c : times[k] <= at
  /\ i = 0 => c = 0
  /\ i /= 0 /\ Ascending(buckets) => EndsAt(times, Capped(buckets[i], at), c)

LEMMA ReachedNext ==
  ASSUME NEW times \in Seq(Int), NEW buckets \in Seq(Int), NEW at \in Int, NEW i \in Nat,
         i + 1 \in 1..Len(buckets), NEW c, Reached(times, buckets, at, i, c)
  PROVE  LET d == Passed(times, Capped(buckets[i + 1], at), c) IN
         /\ Reached(times, buckets, at, i + 1, d) /\ c <= d
         /\ at <= buckets[i + 1] => EndsAt(times, at, d)
<1>1. PICK time : time = Capped(buckets[i + 1], at)
  OBVIOUS
<1>2. time \in Int /\ time <= at /\ (at <= buckets[i + 1] => time = at)
  BY <1>1 DEF Capped
<1>3. PICK d : d = Passed(times, time, c)
  OBVIOUS
<1>4. /\ c \in 0..Len(times) /\ d \in c..Len(times) /\ d \in 0..Len(times)
      /\ \A k \in (c + 1)..d : times[k] <= time
      /\ d < Len(times) => times[d + 1] > time
  BY <1>2, <1>3, PassedFacts DEF Reached
<1>5. ASSUME NEW k \in 1..d PROVE times[k] <= at
  <2>1. CASE k <= c
    BY <1>4, <2>1 DEF Reached
  <2>2. CASE ~(k <= c)
    <3>1. k \in (c + 1)..d /\ times[k] \in Int
      BY <1>4, <2>2
    <3> QED
      BY <1>2, <1>4, <3>1
  <2> QED
    BY <2>1, <2>2
<1>6. ASSUME Ascending(buckets) PROVE EndsAt(times, time, d)
  <2>1. ASSUME NEW k \in 1..c PROVE times[k] <= time
    <3>1. i /= 0 /\ i \in DOMAIN buckets /\ i + 1 \in DOMAIN buckets
      BY <2>1 DEF Reached
    <3>2. {buckets[i], buckets[i + 1], times[k]} \subseteq Int /\ buckets[i] <= buckets[i + 1]
      BY <1>4, <1>6, <2>1, <3>1 DEF Ascending
    <3>3. times[k] <= Capped(buckets[i], at)
      BY <1>6, <2>1, <3>1 DEF Reached, EndsAt
    <3> QED
      BY <1>1, <3>2, <3>3 DEF Capped
  <2> QED
    BY <1>4, <2>1 DEF EndsAt
<1> QED
  BY <1>1, <1>2, <1>3, <1>4, <1>5, <1>6 DEF Reached, EndsAt

LEMMA CursorsFacts ==
  ASSUME NEW times \in Seq(Int), NEW buckets \in Seq(Int), Len(buckets) /= 0, NEW at \in Int
  PROVE  LET cursors == Cursors(times, buckets, at)
             n == Len(buckets)
         IN /\ cursors \in Seq(Int) /\ Len(cursors) = n /\ cursors \in [1..n -> 0..Len(times)]
            /\ Grows(cursors)
            /\ at <= buckets[n] => EndsAt(times, at, LastOf(cursors))
            /\ Ascending(buckets) =>
                 \A i \in 1..n : EndsAt(times, Capped(buckets[i], at), cursors[i])
<1>1. PICK n \in Nat \ {0} : n = Len(buckets) /\ DOMAIN buckets = 1..n
  OBVIOUS
<1>2. PICK g : /\ g[0] = 0
               /\ \A i \in 1..n : g[i] = Passed(times, Capped(buckets[i], at), g[i - 1])
               /\ Cursors(times, buckets, at) = [i \in DOMAIN buckets |-> g[i]]
  <2>1. Len(buckets) \in Nat
    BY <1>1
  <2>2. PICK g : /\ g[0] = 0
                 /\ \A i \in 1..Len(buckets) :
                      g[i] = Passed(times, Capped(buckets[i], at), g[i - 1])
                 /\ Cursors(times, buckets, at) = [i \in DOMAIN buckets |-> g[i]]
    BY <2>1, CursorsAre, ZenonT(60)
  <2> QED
    BY <1>1, <2>2, Zenon
<1>3. ASSUME NEW i \in Nat, i + 1 <= n, Reached(times, buckets, at, i, g[i])
      PROVE  /\ Reached(times, buckets, at, i + 1, g[i + 1]) /\ g[i] <= g[i + 1]
             /\ at <= buckets[i + 1] => EndsAt(times, at, g[i + 1])
  <2>1. i + 1 \in 1..n /\ i + 1 - 1 = i
    BY <1>3
  <2>2. g[i + 1] = Passed(times, Capped(buckets[i + 1], at), g[i])
    BY <1>2, <2>1
  <2> QED
    BY <1>1, <1>3, <2>1, <2>2, ReachedNext
<1>4. \A i \in 0..n : Reached(times, buckets, at, i, g[i])
  <2> DEFINE S == {i \in Nat : i <= n => Reached(times, buckets, at, i, g[i])}
  <2>1. 0 \in S
    BY <1>2 DEF Reached
  <2>2. ASSUME NEW i \in Nat, i \in S PROVE i + 1 \in S
    BY <1>3, <2>2
  <2> HIDE DEF S
  <2>3. Nat \subseteq S
    BY <2>1, <2>2, Induction
  <2> QED
    BY <2>3 DEF S
<1>5. PICK cursors : cursors = Cursors(times, buckets, at)
  OBVIOUS
<1>6. /\ DOMAIN cursors = 1..n /\ \A i \in 1..n : cursors[i] = g[i] /\ g[i] \in 0..Len(times)
      /\ cursors = [i \in 1..n |-> g[i]]
  BY <1>1, <1>2, <1>4, <1>5 DEF Reached
<1>7. /\ cursors \in [1..n -> 0..Len(times)] /\ cursors \in Seq(Int) /\ Len(cursors) = n
  BY <1>6
<1>8. Grows(cursors)
  <2>1. ASSUME NEW i \in 1..(n - 1) PROVE cursors[i] <= cursors[i + 1]
    BY <1>3, <1>4, <1>6
  <2> QED
    BY <1>7, <2>1 DEF Grows
<1>9. at <= buckets[n] => EndsAt(times, at, LastOf(cursors))
  <2>1. PICK m : m \in Nat /\ m + 1 = n /\ m + 1 <= n /\ m \in 0..n /\ n \in 1..n
    <3>1. n - 1 \in Nat /\ n - 1 + 1 = n /\ n - 1 + 1 <= n /\ n - 1 \in 0..n /\ n \in 1..n
      OBVIOUS
    <3> QED
      BY <3>1
  <2>2. LastOf(cursors) = g[n]
    BY <1>6, <1>7, <2>1 DEF LastOf
  <2>3. Reached(times, buckets, at, m, g[m])
    BY <1>4, <2>1
  <2>4. at <= buckets[m + 1] => EndsAt(times, at, g[m + 1])
    BY <1>3, <2>1, <2>3
  <2> QED
    BY <2>1, <2>2, <2>4
<1>10. Ascending(buckets) => \A i \in 1..n : EndsAt(times, Capped(buckets[i], at), cursors[i])
  BY <1>4, <1>6 DEF Reached
<1> QED
  BY <1>1, <1>5, <1>7, <1>8, <1>9, <1>10

\* The buckets of a range end with the request, those of a daily one with the ends of
\* days.
DayStep(r) == IF r = "7d" THEN 1 ELSE 5
DayBack(at, i, step) == at \div Day - step * (7 - i)
EndOf(day) == Day * day + Day - 1

LEMMA DailyBuckets ==
  ASSUME NEW r \in {"7d", "30d"}, NEW first \in Int, NEW at \in Int
  PROVE  LET buckets == Buckets(r, first, at) IN
         /\ buckets \in Seq(Int) /\ Len(buckets) = 7 /\ at <= buckets[7] /\ Ascending(buckets)
         /\ \A i \in 1..7 : buckets[i] = EndOf(DayBack(at, i, DayStep(r)))
<1>1. PICK day \in Int : day = at \div Day /\ Day * day <= at /\ at <= Day * day + Day - 1
  BY DEF Day
<1>2. PICK buckets : buckets = [i \in 1..7 |-> EndOf(day - DayStep(r) * (7 - i))]
  OBVIOUS
<1>3. Buckets(r, first, at) = buckets
  BY <1>1, <1>2 DEF Buckets, EndOfDay, StartOfDay, EndOf, DayStep, Day
<1>4. \A i \in 1..7 : /\ buckets[i] = EndOf(day - DayStep(r) * (7 - i))
                      /\ buckets[i] \in Int
  BY <1>1, <1>2 DEF EndOf, DayStep, Day
<1>5. buckets \in Seq(Int) /\ Len(buckets) = 7 /\ DOMAIN buckets = 1..7
  BY <1>2, <1>4
<1>6. at <= buckets[7]
  BY <1>1, <1>4 DEF EndOf, DayStep, Day
<1>7. Ascending(buckets)
  <2>1. CASE r = "7d"
    <3>1. \A i \in 1..7 : buckets[i] = 24 * day + 24 * i - 145
      BY <1>1, <1>4, <2>1 DEF EndOf, DayStep, Day
    <3>2. ASSUME NEW i \in 1..7, NEW j \in 1..7, i <= j PROVE buckets[i] <= buckets[j]
      <4>1. buckets[i] = 24 * day + 24 * i - 145 /\ buckets[j] = 24 * day + 24 * j - 145
        BY <3>1
      <4> QED
        BY <3>2, <4>1
    <3> QED
      BY <1>5, <3>2 DEF Ascending
  <2>2. CASE r = "30d"
    <3>1. \A i \in 1..7 : buckets[i] = 24 * day + 120 * i - 817
      BY <1>1, <1>4, <2>2 DEF EndOf, DayStep, Day
    <3>2. ASSUME NEW i \in 1..7, NEW j \in 1..7, i <= j PROVE buckets[i] <= buckets[j]
      <4>1. buckets[i] = 24 * day + 120 * i - 817 /\ buckets[j] = 24 * day + 120 * j - 817
        BY <3>1
      <4> QED
        BY <3>2, <4>1
    <3> QED
      BY <1>5, <3>2 DEF Ascending
  <2> QED
    BY <2>1, <2>2
<1> QED
  BY <1>1, <1>3, <1>4, <1>5, <1>6, <1>7 DEF DayBack

LEMMA BucketsEnd ==
  ASSUME NEW r \in Ranges, NEW first \in Int, NEW at \in Int
  PROVE  LET buckets == Buckets(r, first, at) IN
         /\ buckets \in Seq(Int) /\ Len(buckets) \in Nat \ {0}
         /\ at <= buckets[Len(buckets)]
<1>1. CASE r \in {"7d", "30d"}
  <2>1. PICK buckets : buckets = Buckets(r, first, at)
    OBVIOUS
  <2>2. buckets \in Seq(Int) /\ Len(buckets) = 7 /\ at <= buckets[7]
    BY <1>1, <2>1, DailyBuckets
  <2> QED
    BY <2>1, <2>2
<1>2. CASE r = "24h"
  <2>1. PICK day \in Int : day = at \div Day /\ at <= Day * day + Day - 1
    BY DEF Day
  <2>2. PICK buckets : buckets = [i \in 1..5 |-> Day * day + 6 * (i - 1)]
    OBVIOUS
  <2>3. Buckets(r, first, at) = buckets
    BY <1>2, <2>1, <2>2 DEF Buckets, StartOfDay
  <2>4. /\ \A i \in 1..5 : buckets[i] = Day * day + 6 * (i - 1) /\ buckets[i] \in Int
        /\ buckets \in Seq(Int) /\ Len(buckets) = 5
    BY <2>1, <2>2 DEF Day
  <2> QED
    BY <2>1, <2>3, <2>4 DEF Day
<1>3. CASE r = "total"
  <2>1. PICK span : span = IF at > first THEN at - first ELSE 0
    OBVIOUS
  <2>2. PICK buckets :
          buckets = [i \in 1..6 |-> IF i = 6 THEN at ELSE first + (span * (i - 1)) \div 5]
    OBVIOUS
  <2>3. Buckets(r, first, at) = buckets
    BY <1>3, <2>1, <2>2 DEF Buckets, TotalBuckets
  <2>4. ASSUME NEW i \in 1..6 PROVE buckets[i] \in Int
    <3>1. PICK part : part = span * (i - 1) /\ part \in Int
      BY <2>1
    <3>2. part \div 5 \in Int
      BY <3>1
    <3> QED
      BY <2>2, <3>1, <3>2
  <2>5. buckets \in Seq(Int) /\ Len(buckets) = 6 /\ buckets[6] = at
    BY <2>2, <2>4
  <2> QED
    BY <2>3, <2>5
<1> QED
  BY <1>1, <1>2, <1>3 DEF Ranges

\* A history ends with the present; a daily one says how many records there were at the
\* end of each day.
Daily(times, at, cursors, r) ==
  \A i \in 1..7 : EndsAt(times, Capped(EndOf(DayBack(at, i, DayStep(r))), at), cursors[i])

LEMMA RangeFacts ==
  ASSUME NEW times \in Seq(Int), NEW first \in Int, NEW at \in Int, NEW r \in Ranges
  PROVE  LET cursors == Cursors(times, Buckets(r, first, at), at) IN
         /\ cursors \in Seq(Int) /\ Len(cursors) \in Nat \ {0}
         /\ \A i \in DOMAIN cursors : cursors[i] \in 0..Len(times)
         /\ Grows(cursors) /\ EndsAt(times, at, LastOf(cursors))
         /\ r \in {"7d", "30d"} => Daily(times, at, cursors, r) /\ Len(cursors) = 7
<1>1. PICK buckets : buckets = Buckets(r, first, at)
  OBVIOUS
<1>2. /\ buckets \in Seq(Int) /\ Len(buckets) \in Nat \ {0}
      /\ at <= buckets[Len(buckets)]
  BY <1>1, BucketsEnd
<1>3. r \in {"7d", "30d"} => /\ Len(buckets) = 7 /\ Ascending(buckets)
                             /\ \A i \in 1..7 : buckets[i] = EndOf(DayBack(at, i, DayStep(r)))
  BY <1>1, DailyBuckets
<1>4. PICK cursors : cursors = Cursors(times, buckets, at)
  OBVIOUS
<1>5. /\ cursors \in Seq(Int) /\ Len(cursors) = Len(buckets)
      /\ cursors \in [1..Len(buckets) -> 0..Len(times)]
      /\ Grows(cursors) /\ EndsAt(times, at, LastOf(cursors))
      /\ Ascending(buckets) =>
           \A i \in 1..Len(buckets) : EndsAt(times, Capped(buckets[i], at), cursors[i])
  BY <1>2, <1>4, CursorsFacts
<1>6. r \in {"7d", "30d"} => Daily(times, at, cursors, r)
  BY <1>3, <1>5 DEF Daily
<1> QED
  BY <1>1, <1>2, <1>3, <1>4, <1>5, <1>6

LEMMA CumulativeFacts ==
  ASSUME NEW times \in Seq(Int), NEW first \in Int, NEW at \in Int
  PROVE  LET history == CumulativeHistory(times, first, at) IN
         /\ history \in [Ranges -> Seq(Int)]
         /\ \A r \in Ranges : /\ Grows(history[r]) /\ EndsAt(times, at, LastOf(history[r]))
                              /\ LastOf(history[r]) = LastOf(history["total"])
         /\ \A r \in {"7d", "30d"} : Daily(times, at, history[r], r)
<1>1. PICK history : history = CumulativeHistory(times, first, at)
  OBVIOUS
<1>2. /\ DOMAIN history = Ranges
      /\ history = [r \in Ranges |-> Cursors(times, Buckets(r, first, at), at)]
      /\ \A r \in Ranges : history[r] = Cursors(times, Buckets(r, first, at), at)
  BY <1>1 DEF CumulativeHistory
<1>3. ASSUME NEW r \in Ranges
      PROVE  /\ history[r] \in Seq(Int) /\ Grows(history[r])
             /\ EndsAt(times, at, LastOf(history[r]))
             /\ r \in {"7d", "30d"} => Daily(times, at, history[r], r)
  BY <1>2, RangeFacts
<1>4. "total" \in Ranges /\ {"7d", "30d"} \subseteq Ranges
  BY DEF Ranges
<1>5. history \in [Ranges -> Seq(Int)]
  BY <1>2, <1>3
<1>6. \A r \in Ranges : LastOf(history[r]) = LastOf(history["total"])
  BY <1>3, <1>4, EndsOnce
<1> QED
  BY <1>1, <1>3, <1>4, <1>5, <1>6

\* What the history of the storage takes of a snapshot.
TimesOf(shots) == [i \in DOMAIN shots |-> shots[i].at]
FirstTime(shots, at) == IF shots = <<>> THEN at ELSE TimesOf(shots)[1]
ValueAt(shots, used, c) ==
  IF c = 0 THEN (IF shots = <<>> THEN used ELSE shots[1].used) ELSE shots[c].used
Shots == Seq([at : Int, used : Int])

LEMMA Element ==
  ASSUME NEW S, NEW s \in Seq(S), NEW i \in DOMAIN s
  PROVE  s[i] \in S
OBVIOUS

LEMMA ShotsFacts ==
  ASSUME NEW shots \in Shots
  PROVE  /\ TimesOf(shots) \in Seq(Int) /\ Len(TimesOf(shots)) = Len(shots)
         /\ Len(shots) \in Nat /\ DOMAIN shots = 1..Len(shots)
         /\ \A i \in 1..Len(shots) : /\ TimesOf(shots)[i] = shots[i].at
                                     /\ shots[i].at \in Int /\ shots[i].used \in Int
<1>1. PICK n \in Nat : n = Len(shots) /\ DOMAIN shots = 1..n
  BY DEF Shots
<1>2. \A i \in 1..n : shots[i].at \in Int /\ shots[i].used \in Int
  <2>1. ASSUME NEW i \in 1..n PROVE shots[i] \in [at : Int, used : Int]
    <3>1. shots \in Seq([at : Int, used : Int]) /\ i \in DOMAIN shots
      BY <1>1, Zenon DEF Shots
    <3> QED
      BY <3>1, Element, Zenon
  <2> QED
    BY <2>1
<1>3. PICK times : times = [i \in 1..n |-> shots[i].at]
  OBVIOUS
<1>4. \A i \in 1..n : times[i] = shots[i].at
  BY <1>3
<1>5. times \in Seq(Int) /\ Len(times) = n
  BY <1>2, <1>3
<1>6. TimesOf(shots) = times
  BY <1>1, <1>3, Zenon DEF TimesOf
<1> QED
  BY <1>1, <1>2, <1>4, <1>5, <1>6

LEMMA StorageFacts ==
  ASSUME NEW shots \in Shots, NEW used \in Int, NEW at \in Int
  PROVE  LET history == StorageHistory(shots, used, at)
             times == TimesOf(shots)
         IN /\ history \in [Ranges -> Seq(Int)]
            /\ \A r \in Ranges : LastOf(history[r]) = LastOf(history["total"])
            /\ \A r \in {"7d", "30d"} : \A i \in 1..7 : \E c :
                 /\ EndsAt(times, Capped(EndOf(DayBack(at, i, DayStep(r))), at), c)
                 /\ history[r][i] = ValueAt(shots, used, c)
<1>1. PICK times : times = TimesOf(shots) /\ times \in Seq(Int) /\ Len(times) = Len(shots)
  BY ShotsFacts
<1>2. PICK first \in Int : first = FirstTime(shots, at)
  BY <1>1 DEF FirstTime, Shots
<1>3. PICK cursors : cursors = [r \in Ranges |-> Cursors(times, Buckets(r, first, at), at)]
  OBVIOUS
<1>4. ASSUME NEW r \in Ranges
      PROVE  /\ cursors[r] \in Seq(Int) /\ Len(cursors[r]) \in Nat \ {0}
             /\ \A i \in DOMAIN cursors[r] : cursors[r][i] \in 0..Len(times)
             /\ EndsAt(times, at, LastOf(cursors[r]))
             /\ r \in {"7d", "30d"} => Daily(times, at, cursors[r], r) /\ Len(cursors[r]) = 7
  BY <1>1, <1>3, RangeFacts
<1>5. PICK history :
        history = [r \in Ranges |-> [i \in DOMAIN cursors[r] |-> ValueAt(shots, used, cursors[r][i])]]
  OBVIOUS
<1>6. StorageHistory(shots, used, at) = history
  BY <1>1, <1>2, <1>3, <1>5 DEF StorageHistory, TimesOf, FirstTime, ValueAt
<1>7. ASSUME NEW c \in 0..Len(times) PROVE ValueAt(shots, used, c) \in Int
  <2>1. Len(shots) \in Nat /\ \A i \in 1..Len(shots) : shots[i].used \in Int
    BY ShotsFacts
  <2>2. CASE c = 0
    <3>1. shots /= <<>> => 1 \in 1..Len(shots)
      BY <2>1 DEF Shots
    <3> QED
      BY <2>1, <2>2, <3>1, Zenon DEF ValueAt
  <2>3. CASE c /= 0
    <3>1. c \in 1..Len(shots)
      BY <1>1, <2>1, <2>3
    <3> QED
      BY <2>1, <2>3, <3>1, Zenon DEF ValueAt
  <2> QED
    BY <2>2, <2>3
<1>8. ASSUME NEW r \in Ranges
      PROVE  /\ history[r] \in Seq(Int) /\ Len(history[r]) = Len(cursors[r])
             /\ \A i \in DOMAIN cursors[r] : history[r][i] = ValueAt(shots, used, cursors[r][i])
             /\ LastOf(history[r]) = ValueAt(shots, used, LastOf(cursors[r]))
  <2>1. PICK h : h = [i \in DOMAIN cursors[r] |-> ValueAt(shots, used, cursors[r][i])]
    OBVIOUS
  <2>2. history[r] = h
    BY <1>5, <2>1
  <2>3. PICK n \in Nat \ {0} : DOMAIN cursors[r] = 1..n /\ Len(cursors[r]) = n
    BY <1>4
  <2>4. \A i \in 1..n : h[i] = ValueAt(shots, used, cursors[r][i]) /\ h[i] \in Int
    BY <1>4, <1>7, <2>1, <2>3
  <2>5. h \in Seq(Int) /\ Len(h) = n
    BY <2>1, <2>3, <2>4
  <2> QED
    BY <2>2, <2>3, <2>4, <2>5 DEF LastOf
<1>9. "total" \in Ranges /\ {"7d", "30d"} \subseteq Ranges
  BY DEF Ranges
<1>10. history \in [Ranges -> Seq(Int)]
  BY <1>5, <1>8
<1>11. \A r \in Ranges : LastOf(history[r]) = LastOf(history["total"])
  BY <1>1, <1>4, <1>8, <1>9, EndsOnce
<1>12. ASSUME NEW r \in {"7d", "30d"}, NEW i \in 1..7
       PROVE  /\ EndsAt(times, Capped(EndOf(DayBack(at, i, DayStep(r))), at), cursors[r][i])
              /\ history[r][i] = ValueAt(shots, used, cursors[r][i])
  <2>1. r \in Ranges
    BY <1>9, Zenon
  <2>2. /\ cursors[r] \in Seq(Int) /\ Len(cursors[r]) = 7
        /\ Daily(times, at, cursors[r], r)
    BY <1>4, <2>1
  <2>3. i \in DOMAIN cursors[r]
    BY <2>2
  <2> QED
    BY <1>8, <2>1, <2>2, <2>3, Zenon DEF Daily
<1> QED
  BY <1>1, <1>6, <1>10, <1>11, <1>12

\* The records up to a day, counted one by one.
LEMMA CountedByDay ==
  ASSUME NEW times \in Seq(Int), Ascending(times), NEW at \in Int,
         \A k \in DOMAIN times : times[k] <= at,
         NEW day \in Int, NEW c, EndsAt(times, Capped(EndOf(day), at), c)
  PROVE  /\ {k \in DOMAIN times : times[k] \div Day <= day} = 1..c
         /\ Cardinality(1..c) = c /\ c \in 0..Len(times)
<1>1. c \in 0..Len(times) /\ DOMAIN times = 1..Len(times) /\ EndOf(day) \in Int
  BY DEF EndsAt, EndOf, Day
<1>2. \A n \in Int : n \div Day <= day <=> n <= EndOf(day)
  BY DEF EndOf, Day
<1>3. ASSUME NEW k \in 1..Len(times) PROVE times[k] <= EndOf(day) <=> k <= c
  <2>1. times[k] \in Int /\ times[k] <= at
    BY <1>1
  <2>2. CASE k <= c
    <3>1. times[k] <= Capped(EndOf(day), at)
      BY <2>2 DEF EndsAt
    <3> QED
      BY <1>1, <2>1, <2>2, <3>1 DEF Capped
  <2>3. CASE ~(k <= c)
    <3>1. c + 1 \in 1..Len(times) /\ c < Len(times) /\ c + 1 <= k
      BY <1>1, <2>3
    <3>2. times[c + 1] > Capped(EndOf(day), at) /\ times[c + 1] <= times[k] /\ times[c + 1] \in Int
      BY <1>1, <3>1, SMTT(30) DEF EndsAt, Ascending
    <3> QED
      BY <1>1, <2>1, <2>3, <3>2 DEF Capped
  <2> QED
    BY <2>2, <2>3
<1>4. {k \in DOMAIN times : times[k] \div Day <= day} = 1..c
  BY <1>1, <1>2, <1>3
<1> QED
  BY <1>1, <1>4, FS_Interval

\* The rows: records in the order of their time, and what is known of an answer.
Queries == {"total", "day", "week", "joined", "used", "snapshots", "reports"}
Histories == {<<>>} \cup [Ranges -> Seq(Int)]
AnswerSet == [pc : {"none", "reading", "shown"}, at : Int, changes : Nat,
              part : SUBSET Queries, left : SUBSET Queries,
              total : Int, day : Int, week : Int, used : Int,
              growth : Histories, reports : Histories, storage : Histories]

Recorded(times, time) ==
  /\ times \in Seq(Int) /\ Ascending(times)
  /\ \A k \in DOMAIN times : 0 <= times[k] /\ times[k] <= time

DashboardType ==
  /\ now \in Nat /\ stored \in Int /\ capture \in Int
  /\ snapshots \in Shots /\ answer \in AnswerSet
  /\ Recorded(person, now) /\ Recorded(reports, now) /\ Recorded(TimesOf(snapshots), now)

\* What the queries that were answered say of the rows there are now: it is off by no
\* more than has changed since.
Since(p, time) == Cardinality({k \in DOMAIN p : p[k] >= time})
Near(a, m, n) == m - n <= a.changes /\ n - m <= a.changes
Both(a, q, z) == q \notin a.left /\ z \notin a.left
Latest(a) == LastOf(a.growth["total"])

GrowthRead(a, p) ==
  /\ a.growth \in [Ranges -> Seq(Int)] /\ Latest(a) \in Int
  /\ \A r \in Ranges : Grows(a.growth[r]) /\ LastOf(a.growth[r]) = Latest(a)
  /\ Near(a, Latest(a), Len(p))
  /\ a.changes = 0 => a.growth = CumulativeHistory(p, FirstOf(p, a.at), a.at)

AccountsRead(a, p) ==
  /\ \A c : EndsAt(p, a.at, c) => Len(p) - c <= a.changes
  /\ "total" \notin a.left => /\ \A c : EndsAt(p, a.at, c) => Near(a, a.total, c)
                              /\ Since(p, a.at - 7 * Day) - a.total <= a.changes
  /\ "day" \notin a.left => a.day - Since(p, a.at - Day) <= a.changes
  /\ "week" \notin a.left => /\ Since(p, a.at - Day) - a.week <= a.changes
                             /\ a.week - Since(p, a.at - 7 * Day) <= a.changes
  /\ "joined" \notin a.left => GrowthRead(a, p)
  /\ Both(a, "total", "joined") => Near(a, Latest(a), a.total)
  /\ Both(a, "day", "week") => a.day - a.week <= a.changes
  /\ Both(a, "week", "total") => a.week - a.total <= a.changes

StorageRead(a, shots, used) ==
  /\ "used" \notin a.left /\ a.changes = 0 => a.used = used
  /\ Both(a, "used", "snapshots") =>
       /\ \A r \in Ranges : LastOf(a.storage[r]) = LastOf(a.storage["total"])
       /\ a.changes = 0 => a.storage = StorageHistory(shots, used, a.at)

ReportsRead(a, times) ==
  /\ \A k \in 1..(Len(times) - a.changes) : times[k] <= a.at
  /\ "reports" \notin a.left => \A r \in Ranges :
       /\ Grows(a.reports[r]) /\ LastOf(a.reports[r]) \in Int
       /\ Near(a, LastOf(a.reports[r]), Len(times))

AnswerRead(a) ==
  /\ a.part \in Parts /\ a.left \subseteq a.part \cup {"snapshots"}
  /\ "snapshots" \in a.left => "used" \in a.part
  /\ a.at <= now /\ (a.changes = 0 => a.at = now)
  /\ "joined" \in a.part => AccountsRead(a, person)
  /\ "used" \in a.part => StorageRead(a, snapshots, stored)
  /\ "reports" \in a.part => ReportsRead(a, reports)

DashboardInv == DashboardType /\ (answer.pc = "reading" => AnswerRead(answer))

LEMMA SinceIs == \A time : Counted(time) = Since(person, time)
BY DEF Counted, Since

LEMMA SinceFacts ==
  ASSUME NEW p \in Seq(Int), NEW s \in Int, NEW t \in Int, s <= t
  PROVE  /\ Since(p, s) \in Nat /\ Since(p, t) \in Nat
         /\ Since(p, t) <= Since(p, s) /\ Since(p, s) <= Len(p)
<1>1. IsFiniteSet(1..Len(p)) /\ Cardinality(1..Len(p)) = Len(p)
  <2>1. PICK n \in Nat : n = Len(p)
    OBVIOUS
  <2>2. IsFiniteSet(1..n) /\ Cardinality(1..n) = n
    BY FS_Interval, SMTT(30)
  <2> QED
    BY <2>1, <2>2
<1>2. /\ {k \in DOMAIN p : p[k] >= t} \subseteq {k \in DOMAIN p : p[k] >= s}
      /\ {k \in DOMAIN p : p[k] >= s} \subseteq 1..Len(p)
  OBVIOUS
<1> QED
  BY <1>1, <1>2, FS_Subset, FS_CardinalityType DEF Since

\* An answer by which the rows have changed once more.
Later(a) == [a EXCEPT !.changes = @ + 1]
Beside(m, n) == m - n <= 1 /\ n - m <= 1

LEMMA BesideFacts ==
  ASSUME NEW m \in Int, NEW c \in Int, NEW d \in Int, NEW k \in Int, Beside(c, d)
  PROVE  /\ m - d <= k => m - c <= k + 1
         /\ d - m <= k => c - m <= k + 1
BY DEF Beside

Moved(p, q) ==
  /\ p \in Seq(Int) /\ q \in Seq(Int) /\ Beside(Len(p), Len(q))
  /\ \A time \in Int : Beside(Since(p, time), Since(q, time))
  /\ \A time \in Int : \A c : EndsAt(q, time, c) =>
       \E d : EndsAt(p, time, d) /\ Beside(c, d) /\ Len(q) - c <= Len(p) - d + 1

LEMMA LaterSet ==
  ASSUME NEW a \in AnswerSet
  PROVE  LET b == Later(a) IN
         /\ b \in AnswerSet /\ b.changes = a.changes + 1 /\ b.changes \in Nat /\ a.changes \in Nat
         /\ b.pc = a.pc /\ b.at = a.at /\ b.at \in Int /\ b.part = a.part /\ b.left = a.left
         /\ b.total = a.total /\ b.day = a.day /\ b.week = a.week /\ b.used = a.used
         /\ b.growth = a.growth /\ b.reports = a.reports /\ b.storage = a.storage
         /\ {a.total, a.day, a.week} \subseteq Int
BY DEF Later, AnswerSet

LEMMA AccountsLater ==
  ASSUME NEW a \in AnswerSet, NEW p, NEW q, Moved(p, q), AccountsRead(a, p)
  PROVE  AccountsRead(Later(a), q)
<1>1. PICK b : b = Later(a)
  OBVIOUS
<1>2. /\ b.changes = a.changes + 1 /\ {a.changes, b.changes} \subseteq Nat
      /\ b.at = a.at /\ b.at \in Int /\ b.left = a.left
      /\ b.total = a.total /\ b.day = a.day /\ b.week = a.week /\ b.growth = a.growth
      /\ {a.total, a.day, a.week} \subseteq Int
  BY <1>1, LaterSet
<1>3. PICK day \in Int, week \in Int :
        day = b.at - Day /\ week = b.at - 7 * Day /\ week <= day
  BY <1>2 DEF Day
<1>4. /\ {Since(p, day), Since(q, day), Since(p, week), Since(q, week)} \subseteq Nat
      /\ Beside(Since(p, day), Since(q, day)) /\ Beside(Since(p, week), Since(q, week))
  BY <1>3, SinceFacts DEF Moved
<1>5. Len(p) \in Nat /\ Len(q) \in Nat /\ Beside(Len(p), Len(q))
  BY DEF Moved
<1>6. ASSUME NEW c, EndsAt(q, b.at, c)
      PROVE  /\ Len(q) - c <= b.changes
             /\ "total" \notin b.left => Near(b, b.total, c)
  <2>1. PICK d : EndsAt(p, b.at, d) /\ Beside(c, d) /\ Len(q) - c <= Len(p) - d + 1
    BY <1>2, <1>6 DEF Moved
  <2>2. c \in Nat /\ d \in Nat
    BY <1>5, <1>6, <2>1 DEF EndsAt
  <2>3. /\ Len(p) - d <= a.changes
        /\ "total" \notin a.left => Near(a, a.total, d)
    BY <1>2, <2>1 DEF AccountsRead
  <2>4. Len(q) - c <= b.changes
    BY <1>2, <1>5, <2>1, <2>2, <2>3
  <2>5. ASSUME "total" \notin b.left PROVE Near(b, b.total, c)
    <3>1. a.total - d <= a.changes /\ d - a.total <= a.changes
      BY <1>2, <2>3, <2>5 DEF Near
    <3>2. a.total - c <= a.changes + 1 /\ c - a.total <= a.changes + 1
      <4>1. {a.total, c, d, a.changes} \subseteq Int
        BY <1>2, <2>2
      <4> QED
        BY <2>1, <3>1, <4>1, BesideFacts
    <3> QED
      BY <1>2, <3>2 DEF Near
  <2> QED
    BY <2>4, <2>5
<1>7. "joined" \notin b.left => GrowthRead(b, q)
  <2> SUFFICES ASSUME "joined" \notin b.left PROVE GrowthRead(b, q)
    OBVIOUS
  <2>1. GrowthRead(a, p)
    BY <1>2 DEF AccountsRead
  <2>2. Latest(b) = Latest(a) /\ Latest(a) \in Int
    BY <1>2, <2>1 DEF GrowthRead, Latest
  <2>3. Near(b, Latest(b), Len(q))
    BY <1>2, <1>5, <2>1, <2>2 DEF GrowthRead, Near, Beside
  <2> QED
    BY <1>2, <2>1, <2>2, <2>3 DEF GrowthRead
<1>8. Both(b, "total", "joined") => Near(b, Latest(b), b.total)
  <2> SUFFICES ASSUME Both(b, "total", "joined") PROVE Near(b, Latest(b), b.total)
    OBVIOUS
  <2>1. Near(a, Latest(a), a.total) /\ Latest(a) \in Int
    BY <1>2 DEF AccountsRead, GrowthRead, Both
  <2>2. Latest(b) = Latest(a)
    BY <1>2 DEF Latest
  <2> QED
    BY <1>2, <2>1, <2>2 DEF Near
<1>9. /\ "total" \notin b.left => Since(q, week) - b.total <= b.changes
      /\ "day" \notin b.left => b.day - Since(q, day) <= b.changes
      /\ "week" \notin b.left => /\ Since(q, day) - b.week <= b.changes
                                 /\ b.week - Since(q, week) <= b.changes
  <2>1. PICK total, d, w, ch, s1, s2, s3, s4 :
          /\ total = a.total /\ d = a.day /\ w = a.week /\ ch = a.changes
          /\ s1 = Since(p, day) /\ s2 = Since(q, day) /\ s3 = Since(p, week) /\ s4 = Since(q, week)
    BY Zenon
  <2>2. {total, d, w, ch, s1, s2, s3, s4} \subseteq Int /\ Beside(s1, s2) /\ Beside(s3, s4)
    BY <1>2, <1>4, <2>1
  <2>3. /\ "total" \notin b.left => s3 - total <= ch
        /\ "day" \notin b.left => d - s1 <= ch
        /\ "week" \notin b.left => s1 - w <= ch /\ w - s3 <= ch
    BY <1>2, <1>3, <2>1 DEF AccountsRead
  <2>4. /\ "total" \notin b.left => s4 - total <= ch + 1
        /\ "day" \notin b.left => d - s2 <= ch + 1
        /\ "week" \notin b.left => s2 - w <= ch + 1 /\ w - s4 <= ch + 1
    BY <2>2, <2>3 DEF Beside
  <2> QED
    BY <1>2, <2>1, <2>4
<1>10. /\ Both(b, "day", "week") => b.day - b.week <= b.changes
       /\ Both(b, "week", "total") => b.week - b.total <= b.changes
  BY <1>2 DEF AccountsRead, Both
<1>11. AccountsRead(b, q)
  BY <1>3, <1>6, <1>7, <1>8, <1>9, <1>10 DEF AccountsRead
<1> QED
  BY <1>1, <1>11

LEMMA StorageLater ==
  ASSUME NEW a \in AnswerSet, NEW shots, NEW used, NEW shots2, NEW used2,
         StorageRead(a, shots, used)
  PROVE  StorageRead(Later(a), shots2, used2)
<1>1. PICK b : b = Later(a)
  OBVIOUS
<1>2. b.changes /= 0 /\ b.left = a.left /\ b.storage = a.storage
  BY <1>1, LaterSet
<1> QED
  BY <1>1, <1>2 DEF StorageRead, Both

LEMMA ReportsLater ==
  ASSUME NEW a \in AnswerSet, NEW times \in Seq(Int), NEW more \in Seq(Int),
         Len(more) \in {Len(times), Len(times) + 1}, \A k \in 1..Len(times) : more[k] = times[k],
         ReportsRead(a, times)
  PROVE  ReportsRead(Later(a), more)
<1>1. PICK b : b = Later(a)
  OBVIOUS
<1>2. /\ b.changes = a.changes + 1 /\ a.changes \in Nat
      /\ b.left = a.left /\ b.reports = a.reports /\ b.at = a.at
  BY <1>1, LaterSet
<1>3. ASSUME NEW k \in 1..(Len(more) - b.changes) PROVE more[k] <= b.at
  <2>1. k \in 1..Len(times) /\ k \in 1..(Len(times) - a.changes)
    <3>1. PICK n, m, ch : n = Len(times) /\ m = Len(more) /\ ch = a.changes
      OBVIOUS
    <3>2. n \in Nat /\ m \in Nat /\ ch \in Nat /\ m <= n + 1
      BY <1>2, <3>1
    <3>3. k \in 1..(m - (ch + 1))
      BY <1>2, <3>1
    <3>4. k \in 1..n /\ k \in 1..(n - ch)
      BY <3>2, <3>3
    <3> QED
      BY <3>1, <3>4
  <2> QED
    BY <1>2, <2>1 DEF ReportsRead
<1>4. ASSUME "reports" \notin b.left, NEW r \in Ranges
      PROVE  /\ Grows(b.reports[r]) /\ LastOf(b.reports[r]) \in Int
             /\ Near(b, LastOf(b.reports[r]), Len(more))
  <2>1. /\ Grows(a.reports[r]) /\ LastOf(a.reports[r]) \in Int
        /\ Near(a, LastOf(a.reports[r]), Len(times))
    BY <1>2, <1>4 DEF ReportsRead
  <2> QED
    BY <1>2, <2>1 DEF Near
<1>5. ReportsRead(b, more)
  BY <1>3, <1>4 DEF ReportsRead
<1> QED
  BY <1>1, <1>5

\* How rows move: not at all, by one that is added, and by one that is taken out.
LEMMA MovedNot == ASSUME NEW p \in Seq(Int) PROVE Moved(p, p)
<1>1. \A time \in Int : Since(p, time) \in Nat
  BY SinceFacts
<1>2. ASSUME NEW time \in Int, NEW c, EndsAt(p, time, c)
      PROVE  Beside(c, c) /\ Len(p) - c <= Len(p) - c + 1
  <2>1. Len(p) \in Nat /\ c \in 0..Len(p)
    BY <1>2 DEF EndsAt
  <2> QED
    BY <2>1 DEF Beside
<1>3. Len(p) \in Nat /\ Beside(Len(p), Len(p))
  BY DEF Beside
<1>4. \A time \in Int : Beside(Since(p, time), Since(p, time))
  BY <1>1 DEF Beside
<1> QED
  BY <1>2, <1>3, <1>4, Zenon DEF Moved

LEMMA RecordedLater ==
  ASSUME NEW times, NEW t \in Int, NEW u \in Int, t <= u, Recorded(times, t)
  PROVE  Recorded(times, u)
BY DEF Recorded

LEMMA Appended ==
  ASSUME NEW p \in Seq(Int), NEW x \in Int
  PROVE  /\ Append(p, x) \in Seq(Int) /\ Len(Append(p, x)) = Len(p) + 1
         /\ Append(p, x)[Len(p) + 1] = x
         /\ \A k \in 1..Len(p) : Append(p, x)[k] = p[k]
OBVIOUS

LEMMA MovedAppend ==
  ASSUME NEW p \in Seq(Int), NEW x \in Int
  PROVE  Moved(p, Append(p, x))
<1>1. PICK q : q = Append(p, x)
  OBVIOUS
<1>2. PICK n \in Nat : n = Len(p)
  OBVIOUS
<1>3. /\ q \in Seq(Int) /\ Len(q) = n + 1 /\ q[n + 1] = x
      /\ \A k \in 1..n : q[k] = p[k]
  BY <1>1, <1>2, Appended
<1>4. ASSUME NEW time \in Int PROVE Beside(Since(p, time), Since(q, time))
  <2>1. PICK P : P = {k \in DOMAIN p : p[k] >= time}
    OBVIOUS
  <2>2. IsFiniteSet(P) /\ n + 1 \notin P
    <3>1. P \subseteq 1..n
      BY <1>2, <2>1
    <3>2. n + 1 \notin 1..n
      OBVIOUS
    <3>3. IsFiniteSet(1..n)
      BY FS_Interval
    <3> QED
      BY <3>1, <3>2, <3>3, FS_Subset, Zenon
  <2>3. {k \in DOMAIN q : q[k] >= time} = IF x >= time THEN P \cup {n + 1} ELSE P
    BY <1>2, <1>3, <2>1
  <2>4. Cardinality(P) \in Nat /\ Cardinality(P \cup {n + 1}) = Cardinality(P) + 1
    BY <2>2, FS_CardinalityType, FS_AddElement
  <2>5. PICK m \in Nat : m = Cardinality(P) /\ Cardinality(P \cup {n + 1}) = m + 1
    BY <2>4
  <2>6. Since(p, time) = m /\ Since(q, time) \in {m, m + 1}
    BY <2>1, <2>3, <2>5, Zenon DEF Since
  <2> QED
    BY <2>6 DEF Beside
<1>5. ASSUME NEW time \in Int, NEW c, EndsAt(q, time, c)
      PROVE  \E d : EndsAt(p, time, d) /\ Beside(c, d) /\ Len(q) - c <= Len(p) - d + 1
  <2>1. c \in 0..(n + 1)
    BY <1>3, <1>5 DEF EndsAt
  <2>2. CASE c = n + 1
    <3>1. EndsAt(p, time, n)
      BY <1>2, <1>3, <1>5, <2>2 DEF EndsAt
    <3> QED
      BY <1>2, <1>3, <2>2, <3>1 DEF Beside
  <2>3. CASE c \in 0..n
    <3>1. EndsAt(p, time, c)
      BY <1>2, <1>3, <1>5, <2>3 DEF EndsAt
    <3> QED
      BY <1>2, <1>3, <2>3, <3>1 DEF Beside
  <2> QED
    BY <2>1, <2>2, <2>3
<1>6. Beside(Len(p), Len(q))
  BY <1>2, <1>3 DEF Beside
<1> QED
  BY <1>1, <1>3, <1>4, <1>5, <1>6 DEF Moved

LEMMA RecordedAppend ==
  ASSUME NEW times, NEW t \in Nat, Recorded(times, t)
  PROVE  Recorded(Append(times, t), t)
<1>1. PICK more : more = Append(times, t)
  OBVIOUS
<1>2. /\ times \in Seq(Int) /\ more \in Seq(Int) /\ Len(more) = Len(times) + 1
      /\ Len(times) \in Nat /\ more[Len(times) + 1] = t
      /\ \A k \in 1..Len(times) : more[k] = times[k]
  BY <1>1, Appended DEF Recorded
<1>3. DOMAIN times = 1..Len(times) /\ DOMAIN more = 1..(Len(times) + 1)
  BY <1>2
<1>4. \A k \in DOMAIN more : more[k] \in Int /\ 0 <= more[k] /\ more[k] <= t
  BY <1>2, <1>3 DEF Recorded
<1>5. ASSUME NEW i \in DOMAIN more, NEW j \in DOMAIN more, i <= j PROVE more[i] <= more[j]
  <2>1. CASE j = Len(times) + 1
    BY <1>2, <1>4, <2>1
  <2>2. CASE j \in 1..Len(times)
    <3>1. i \in DOMAIN times /\ j \in DOMAIN times
      BY <1>2, <1>3, <1>5, <2>2
    <3>2. times[i] <= times[j]
      BY <1>5, <3>1 DEF Recorded, Ascending
    <3> QED
      BY <1>2, <1>3, <3>1, <3>2
  <2> QED
    BY <1>3, <2>1, <2>2
<1> QED
  BY <1>1, <1>2, <1>4, <1>5 DEF Recorded, Ascending

LEMMA Removed ==
  ASSUME NEW p \in Seq(Int), NEW i \in 1..Len(p)
  PROVE  /\ RemoveAt(p, i) \in Seq(Int) /\ Len(RemoveAt(p, i)) = Len(p) - 1
         /\ \A k \in 1..(Len(p) - 1) : RemoveAt(p, i)[k] = IF k < i THEN p[k] ELSE p[k + 1]
<1>1. PICK n \in Nat : n = Len(p)
  OBVIOUS
<1>2. PICK head, tail : head = SubSeq(p, 1, i - 1) /\ tail = SubSeq(p, i + 1, n)
  OBVIOUS
<1>3. /\ head \in Seq(Int) /\ Len(head) = i - 1
      /\ \A k \in 1..(i - 1) : head[k] = p[k]
  BY <1>1, <1>2
<1>4. /\ tail \in Seq(Int) /\ Len(tail) = n - i
      /\ \A k \in 1..(n - i) : tail[k] = p[i + k]
  BY <1>1, <1>2
<1>5. RemoveAt(p, i) = head \o tail
  BY <1>1, <1>2 DEF RemoveAt
<1>6. /\ head \o tail \in Seq(Int) /\ Len(head \o tail) = n - 1
      /\ \A k \in 1..(n - 1) : (head \o tail)[k] = IF k < i THEN head[k] ELSE tail[k - i + 1]
  <2>1. Len(head \o tail) = n - 1 /\ head \o tail \in Seq(Int)
    BY <1>1, <1>3, <1>4
  <2>2. ASSUME NEW k \in 1..(n - 1), k < i PROVE (head \o tail)[k] = head[k]
    BY <1>1, <1>3, <1>4, <2>2
  <2>3. ASSUME NEW k \in 1..(n - 1), ~(k < i) PROVE (head \o tail)[k] = tail[k - i + 1]
    BY <1>1, <1>3, <1>4, <2>3, SMTT(30)
  <2> QED
    BY <2>1, <2>2, <2>3
<1>7. ASSUME NEW k \in 1..(n - 1) PROVE (head \o tail)[k] = IF k < i THEN p[k] ELSE p[k + 1]
  <2>1. CASE k < i
    BY <1>3, <1>6, <2>1
  <2>2. CASE ~(k < i)
    <3>1. k - i + 1 \in 1..(n - i) /\ i + (k - i + 1) = k + 1
      BY <1>1, <2>2
    <3>2. tail[k - i + 1] = p[k + 1]
      BY <1>4, <3>1
    <3> QED
      BY <1>6, <2>2, <3>2
  <2> QED
    BY <2>1, <2>2
<1> QED
  BY <1>1, <1>5, <1>6, <1>7

LEMMA SinceRemoved ==
  ASSUME NEW p \in Seq(Int), NEW i \in 1..Len(p), NEW time \in Int
  PROVE  Beside(Since(p, time), Since(RemoveAt(p, i), time))
<1>1. PICK n \in Nat : n = Len(p)
  OBVIOUS
<1> PICK q : q = RemoveAt(p, i)
  OBVIOUS
<1>2. /\ q \in Seq(Int) /\ Len(q) = n - 1 /\ i \in 1..n
      /\ \A k \in 1..(n - 1) : q[k] = IF k < i THEN p[k] ELSE p[k + 1]
  BY <1>1, Removed
<1> DOMAIN p = 1..n /\ DOMAIN q = 1..(n - 1) /\ n - 1 \in Nat
  BY <1>1, <1>2
<1>3. PICK P, Q : /\ P = {k \in 1..n : p[k] >= time}
                  /\ Q = {k \in 1..(n - 1) : q[k] >= time}
  OBVIOUS
<1>4. IsFiniteSet(P) /\ IsFiniteSet(Q) /\ IsFiniteSet(P \ {i})
  <2>1. P \subseteq 1..n /\ Q \subseteq 1..(n - 1) /\ P \ {i} \subseteq 1..n
    BY <1>3
  <2>2. IsFiniteSet(1..n) /\ IsFiniteSet(1..(n - 1))
    BY FS_Interval
  <2> QED
    BY <2>1, <2>2, FS_Subset, Zenon
<1>5. Cardinality(Q) = Cardinality(P \ {i})
  <2> DEFINE f == [k \in Q |-> IF k < i THEN k ELSE k + 1]
  <2>1. \A k \in Q : f[k] \in P \ {i}
    BY <1>1, <1>2, <1>3, SMTT(30)
  <2>2. \A k \in Q, m \in Q : f[k] = f[m] => k = m
    BY <1>2, <1>3, SMTT(30)
  <2>3. ASSUME NEW m \in P \ {i} PROVE \E k \in Q : f[k] = m
    <3>1. CASE m < i
      <4>1. m \in Q /\ f[m] = m
        BY <1>1, <1>2, <1>3, <3>1
      <4> QED
        BY <4>1
    <3>2. CASE ~(m < i)
      <4>1. m - 1 \in 1..(n - 1) /\ ~(m - 1 < i) /\ m - 1 + 1 = m
        BY <1>2, <1>3, <3>2
      <4>2. q[m - 1] = p[m]
        BY <1>2, <4>1
      <4>3. m - 1 \in Q
        BY <1>2, <1>3, <4>1, <4>2
      <4>4. f[m - 1] = m
        BY <4>1, <4>3
      <4> QED
        BY <4>3, <4>4
    <3> QED
      BY <3>1, <3>2
  <2>4. f \in [Q -> P \ {i}]
    BY <2>1
  <2> HIDE DEF f
  <2>5. f \in Bijection(Q, P \ {i})
    BY <2>2, <2>3, <2>4 DEF Bijection, Injection, Surjection, IsInjective
  <2>6. ExistsBijection(Q, P \ {i})
    BY <2>5 DEF ExistsBijection
  <2> QED
    BY <1>4, <2>6, FS_Bijection
<1>6. Cardinality(P) \in Nat /\ Cardinality(P \ {i}) \in Nat
      /\ Cardinality(P \ {i}) = IF i \in P THEN Cardinality(P) - 1 ELSE Cardinality(P)
  BY <1>4, FS_CardinalityType, FS_RemoveElement
<1>7. Since(p, time) = Cardinality(P) /\ Since(q, time) = Cardinality(Q)
  BY <1>3, Zenon DEF Since
<1>8. PICK m \in Nat : m = Cardinality(P)
  BY <1>6
<1> QED
  BY <1>5, <1>6, <1>7, <1>8 DEF Beside

LEMMA MovedRemove ==
  ASSUME NEW p \in Seq(Int), Ascending(p), NEW i \in 1..Len(p)
  PROVE  Moved(p, RemoveAt(p, i))
<1>1. PICK n \in Nat : n = Len(p) /\ i \in 1..n
  OBVIOUS
<1> PICK q : q = RemoveAt(p, i)
  OBVIOUS
<1> n - 1 \in Nat /\ Len(p) - 1 = n - 1
  BY <1>1
<1>2. /\ q \in Seq(Int) /\ Len(q) = n - 1 /\ n - 1 \in Nat
      /\ \A k \in 1..(n - 1) : q[k] = IF k < i THEN p[k] ELSE p[k + 1]
  <2>1. /\ q \in Seq(Int) /\ Len(q) = Len(p) - 1
        /\ \A k \in 1..(Len(p) - 1) : q[k] = IF k < i THEN p[k] ELSE p[k + 1]
    BY Removed, Zenon
  <2> QED
    BY <1>1, <2>1
<1>3. ASSUME NEW time \in Int, NEW c, EndsAt(q, time, c)
      PROVE  \E d : EndsAt(p, time, d) /\ Beside(c, d) /\ Len(q) - c <= Len(p) - d + 1
  <2>1. /\ c \in 0..(n - 1) /\ \A k \in 1..c : q[k] <= time
        /\ c < n - 1 => q[c + 1] > time
    BY <1>2, <1>3 DEF EndsAt
  <2>2. /\ \A j \in 1..n : p[j] \in Int
        /\ \A j, k \in 1..n : j <= k => p[j] <= p[k]
    BY <1>1 DEF Ascending
  <2>3. i <= c => p[c + 1] <= time
    <3>1. i <= c => c \in 1..(n - 1) /\ ~(c < i) /\ c \in 1..c
      BY <1>1, <2>1
    <3>2. i <= c => q[c] = p[c + 1] /\ q[c] <= time
      BY <1>2, <2>1, <3>1
    <3> QED
      BY <3>2
  <2>4. CASE p[i] <= time
    <3>1. ASSUME NEW k \in 1..(c + 1) PROVE p[k] <= time
      <4>1. k \in 1..n /\ c + 1 \in 1..n /\ i \in 1..n
        BY <1>1, <2>1
      <4>2. CASE i <= c
        BY <2>2, <2>3, <4>1, <4>2
      <4>3. CASE ~(i <= c)
        <5>1. k <= i
          BY <2>1, <4>3
        <5> QED
          BY <2>2, <2>4, <4>1, <5>1
      <4> QED
        BY <4>2, <4>3
    <3>2. ASSUME c + 1 < n PROVE p[c + 2] > time
      <4>1. c + 1 \in 1..(n - 1) /\ c + 1 + 1 = c + 2 /\ c < n - 1
        BY <2>1, <3>2
      <4>2. CASE c + 1 < i
        <5>1. q[c + 1] = p[c + 1] /\ p[c + 1] <= time /\ p[c + 1] \in Int
          BY <1>2, <2>2, <3>1, <4>1, <4>2, SMTT(30)
        <5> QED
          BY <2>1, <4>1, <5>1
      <4>3. CASE ~(c + 1 < i)
        BY <1>2, <2>1, <4>1, <4>3
      <4> QED
        BY <4>2, <4>3
    <3>3. EndsAt(p, time, c + 1)
      <4>1. c + 1 \in 0..n /\ c + 1 + 1 = c + 2
        BY <2>1
      <4> QED
        BY <1>1, <3>1, <3>2, <4>1 DEF EndsAt
    <3>4. /\ Beside(c, c + 1) /\ n - 1 - c <= n - (c + 1) + 1
          /\ n - 1 = Len(q) /\ n = Len(p)
      BY <1>1, <1>2, <2>1 DEF Beside
    <3> QED
      BY <3>3, <3>4, Zenon
  <2>5. CASE ~(p[i] <= time)
    <3>1. c < i
      <4>1. i <= c => i \in 1..n /\ c + 1 \in 1..n /\ i <= c + 1
        BY <1>1, <2>1
      <4>2. i <= c => p[i] \in Int /\ p[c + 1] \in Int /\ p[i] <= p[c + 1]
        BY <2>2, <4>1
      <4> QED
        BY <1>1, <2>1, <2>3, <2>5, <4>2
    <3>2. ASSUME NEW k \in 1..c PROVE p[k] <= time
      <4>1. k \in 1..(n - 1) /\ k < i
        BY <2>1, <3>1
      <4> QED
        BY <1>2, <2>1, <4>1
    <3>3. p[c + 1] > time
      <4>1. CASE c + 1 = i
        <5>1. p[i] \in Int
          BY <1>1, <2>2
        <5> QED
          BY <2>5, <4>1, <5>1
      <4>2. CASE c + 1 < i
        <5>1. c + 1 \in 1..(n - 1) /\ c < n - 1
          BY <1>1, <2>1, <4>2
        <5> QED
          BY <1>2, <2>1, <4>2, <5>1
      <4> QED
        BY <2>1, <3>1, <4>1, <4>2
    <3>4. EndsAt(p, time, c)
      <4>1. c \in 0..n
        BY <2>1
      <4> QED
        BY <1>1, <3>2, <3>3, <4>1 DEF EndsAt
    <3> QED
      BY <1>1, <1>2, <2>1, <3>4, SMTT(30) DEF Beside
  <2> QED
    BY <2>4, <2>5
<1>4. Beside(Len(p), Len(q))
  BY <1>1, <1>2 DEF Beside
<1> QED
  BY <1>1, <1>2, <1>3, <1>4, SinceRemoved DEF Moved

LEMMA RecordedRemove ==
  ASSUME NEW times, NEW t \in Nat, Recorded(times, t), NEW i \in DOMAIN times
  PROVE  Recorded(RemoveAt(times, i), t)
<1>1. PICK n \in Nat : n = Len(times)
  BY DEF Recorded
<1> PICK q : q = RemoveAt(times, i)
  OBVIOUS
<1>2. times \in Seq(Int) /\ DOMAIN times = 1..n /\ i \in 1..n
  BY <1>1 DEF Recorded
<1>3. /\ q \in Seq(Int) /\ Len(q) = n - 1
      /\ \A k \in 1..(n - 1) : q[k] = IF k < i THEN times[k] ELSE times[k + 1]
  BY <1>1, <1>2, Removed
<1> DOMAIN q = 1..(n - 1)
  BY <1>3
<1>4. \A k \in DOMAIN q : \E m \in 1..n : q[k] = times[m] /\ m = IF k < i THEN k ELSE k + 1
  <2>1. ASSUME NEW k \in 1..(n - 1)
        PROVE  \E m \in 1..n : q[k] = times[m] /\ m = IF k < i THEN k ELSE k + 1
    <3>1. k \in 1..n /\ k + 1 \in 1..n
      OBVIOUS
    <3> QED
      BY <1>3, <3>1, Zenon
  <2> QED
    BY <2>1
<1>5. \A k \in DOMAIN q : 0 <= q[k] /\ q[k] <= t
  BY <1>2, <1>4 DEF Recorded
<1>6. ASSUME NEW j \in DOMAIN q, NEW k \in DOMAIN q, j <= k PROVE q[j] <= q[k]
  <2>1. PICK l, m \in 1..n : /\ q[j] = times[l] /\ l = IF j < i THEN j ELSE j + 1
                             /\ q[k] = times[m] /\ m = IF k < i THEN k ELSE k + 1
    BY <1>4
  <2>2. l <= m
    BY <1>3, <1>6, <2>1
  <2> QED
    BY <1>2, <2>1, <2>2 DEF Recorded, Ascending
<1> QED
  BY <1>1, <1>3, <1>5, <1>6 DEF Recorded, Ascending

\* What one more answer to a query says of the rows.
LEMMA GotTotalRead ==
  ASSUME NEW a \in AnswerSet, NEW b \in AnswerSet, NEW p \in Seq(Int), AccountsRead(a, p),
         b.at = a.at, b.changes = a.changes, b.left = a.left \ {"total"}, b.total = Len(p),
         b.day = a.day, b.week = a.week, b.growth = a.growth
  PROVE  AccountsRead(b, p)
<1>1. /\ b.at \in Int /\ {a.changes, Len(p)} \subseteq Nat /\ b.week \in Int
      /\ Latest(b) = Latest(a)
  BY DEF AnswerSet, Latest
<1>2. PICK week \in Int : week = b.at - 7 * Day
  BY <1>1 DEF Day
<1>3. Since(p, week) \in Nat /\ Since(p, week) <= Len(p)
  BY <1>2, SinceFacts
<1>4. ASSUME NEW c, EndsAt(p, b.at, c)
      PROVE  c \in 0..Len(p) /\ Near(b, b.total, c)
  <2>1. Len(p) - c <= a.changes
    BY <1>4 DEF AccountsRead
  <2>2. c \in 0..Len(p)
    BY <1>4 DEF EndsAt
  <2> QED
    BY <1>1, <2>1, <2>2 DEF Near
<1>5. Both(b, "total", "joined") => Near(b, Latest(b), b.total)
  BY <1>1 DEF Both, Near, AccountsRead, GrowthRead
<1>6. Both(b, "week", "total") => b.week - b.total <= b.changes
  BY <1>1, <1>2, <1>3 DEF Both, AccountsRead
<1>7. "joined" \notin b.left => GrowthRead(b, p)
  BY <1>1 DEF AccountsRead, GrowthRead, Near
<1>8. "total" \notin b.left => Since(p, b.at - 7 * Day) - b.total <= b.changes
  BY <1>1, <1>2, <1>3
<1> QED
  BY <1>4, <1>5, <1>6, <1>7, <1>8 DEF AccountsRead, Both

LEMMA GotDayRead ==
  ASSUME NEW a \in AnswerSet, NEW b \in AnswerSet, NEW p \in Seq(Int), AccountsRead(a, p),
         b.at = a.at, b.changes = a.changes, b.left = a.left \ {"day"},
         b.day = Since(p, a.at - Day),
         b.total = a.total, b.week = a.week, b.growth = a.growth
  PROVE  AccountsRead(b, p)
<1>1. b.at \in Int /\ a.changes \in Nat /\ Latest(b) = Latest(a)
  BY DEF AnswerSet, Latest
<1>2. PICK day \in Int : day = b.at - Day
  BY <1>1 DEF Day
<1>3. Since(p, day) \in Nat
  BY <1>2, SinceFacts
<1>4. "day" \notin b.left => b.day - Since(p, b.at - Day) <= b.changes
  BY <1>1, <1>2, <1>3
<1>5. Both(b, "day", "week") => b.day - b.week <= b.changes
  BY DEF Both, AccountsRead
<1>6. "joined" \notin b.left => GrowthRead(b, p)
  BY <1>1 DEF AccountsRead, GrowthRead, Near
<1>7. Both(b, "total", "joined") => Near(b, Latest(b), b.total)
  BY <1>1 DEF Both, Near, AccountsRead
<1> QED
  BY <1>4, <1>5, <1>6, <1>7 DEF AccountsRead, Both, Near

LEMMA GotWeekRead ==
  ASSUME NEW a \in AnswerSet, NEW b \in AnswerSet, NEW p \in Seq(Int), AccountsRead(a, p),
         b.at = a.at, b.changes = a.changes, b.left = a.left \ {"week"},
         b.week = Since(p, a.at - 7 * Day),
         b.total = a.total, b.day = a.day, b.growth = a.growth
  PROVE  AccountsRead(b, p)
<1>1. b.at \in Int /\ a.changes \in Nat /\ {b.day, b.total} \subseteq Int /\ Latest(b) = Latest(a)
  BY DEF AnswerSet, Latest
<1>2. PICK day \in Int, week \in Int : day = b.at - Day /\ week = b.at - 7 * Day /\ week <= day
  BY <1>1 DEF Day
<1>3. {Since(p, day), Since(p, week)} \subseteq Nat /\ Since(p, day) <= Since(p, week)
  BY <1>2, SinceFacts
<1>4. "week" \notin b.left => /\ Since(p, b.at - Day) - b.week <= b.changes
                              /\ b.week - Since(p, b.at - 7 * Day) <= b.changes
  BY <1>1, <1>2, <1>3
<1>5. Both(b, "day", "week") => b.day - b.week <= b.changes
  BY <1>1, <1>2, <1>3 DEF Both, AccountsRead
<1>6. Both(b, "week", "total") => b.week - b.total <= b.changes
  BY <1>1, <1>2, <1>3 DEF Both, AccountsRead
<1>7. "joined" \notin b.left => GrowthRead(b, p)
  BY <1>1 DEF AccountsRead, GrowthRead, Near
<1>8. Both(b, "total", "joined") => Near(b, Latest(b), b.total)
  BY <1>1 DEF Both, Near, AccountsRead
<1> QED
  BY <1>4, <1>5, <1>6, <1>7, <1>8 DEF AccountsRead, Near

LEMMA GotGrowthRead ==
  ASSUME NEW a \in AnswerSet, NEW b \in AnswerSet, NEW p \in Seq(Int), AccountsRead(a, p),
         b.at = a.at, b.changes = a.changes, b.left = a.left \ {"joined"},
         b.growth = CumulativeHistory(p, FirstOf(p, a.at), a.at),
         b.total = a.total, b.day = a.day, b.week = a.week
  PROVE  AccountsRead(b, p)
<1>1. b.at \in Int /\ a.changes \in Nat /\ b.total \in Int /\ FirstOf(p, b.at) \in Int
  BY DEF AnswerSet, FirstOf
<1>2. /\ b.growth \in [Ranges -> Seq(Int)]
      /\ \A r \in Ranges : /\ Grows(b.growth[r]) /\ EndsAt(p, b.at, LastOf(b.growth[r]))
                           /\ LastOf(b.growth[r]) = LastOf(b.growth["total"])
  BY <1>1, CumulativeFacts
<1>3. "total" \in Ranges
  BY DEF Ranges
<1>4. EndsAt(p, b.at, Latest(b)) /\ Latest(b) \in 0..Len(p) /\ Len(p) \in Nat
  BY <1>2, <1>3 DEF Latest, EndsAt
<1>5. Near(b, Latest(b), Len(p))
  BY <1>1, <1>4 DEF AccountsRead, Near
<1>6. GrowthRead(b, p)
  BY <1>2, <1>4, <1>5 DEF GrowthRead, Latest
<1>7. Both(b, "total", "joined") => Near(b, Latest(b), b.total)
  BY <1>1, <1>4 DEF Both, Near, AccountsRead
<1> QED
  BY <1>6, <1>7 DEF AccountsRead, Both, Near

LEMMA GotReportsRead ==
  ASSUME NEW a \in AnswerSet, NEW b \in AnswerSet, NEW times \in Seq(Int), ReportsRead(a, times),
         b.at = a.at, b.changes = a.changes, NEW first \in Int,
         b.reports = CumulativeHistory(times, first, a.at)
  PROVE  ReportsRead(b, times)
<1>1. b.at \in Int /\ a.changes \in Nat /\ Len(times) \in Nat
  BY DEF AnswerSet
<1>2. ASSUME NEW r \in Ranges
      PROVE  /\ Grows(b.reports[r]) /\ LastOf(b.reports[r]) \in Int
             /\ Near(b, LastOf(b.reports[r]), Len(times))
  <2>1. Grows(b.reports[r]) /\ EndsAt(times, b.at, LastOf(b.reports[r]))
    BY <1>1, CumulativeFacts
  <2>2. PICK c : c = LastOf(b.reports[r])
    OBVIOUS
  <2>3. c \in 0..Len(times) /\ (c < Len(times) => times[c + 1] > b.at)
    BY <2>1, <2>2 DEF EndsAt
  <2>4. Len(times) - c <= a.changes
    <3> SUFFICES ASSUME ~(Len(times) - c <= a.changes) PROVE FALSE
      OBVIOUS
    <3>1. c + 1 \in 1..(Len(times) - a.changes) /\ c < Len(times) /\ c + 1 \in 1..Len(times)
      BY <1>1, <2>3
    <3>2. times[c + 1] <= b.at /\ times[c + 1] > b.at /\ times[c + 1] \in Int
      BY <2>3, <3>1 DEF ReportsRead
    <3> QED
      BY <1>1, <3>2
  <2> QED
    BY <1>1, <2>1, <2>2, <2>3, <2>4 DEF Near
<1> QED
  BY <1>2 DEF ReportsRead

LEMMA GotSnapshotsRead ==
  ASSUME NEW a \in AnswerSet, NEW b \in AnswerSet, NEW shots \in Shots, NEW used \in Int,
         NEW at \in Int, a.changes = 0 => at = a.at,
         StorageRead(a, shots, used), "snapshots" \in a.left,
         b.at = a.at, b.changes = a.changes, b.left = a.left \ {"snapshots"}, b.used = a.used,
         b.storage = StorageHistory(shots, a.used, at)
  PROVE  StorageRead(b, shots, used)
<1>1. a.used \in Int
  BY DEF AnswerSet
<1>2. \A r \in Ranges : LastOf(b.storage[r]) = LastOf(b.storage["total"])
  BY <1>1, StorageFacts
<1> QED
  BY <1>2 DEF StorageRead, Both

\* Which answer has a query in it.
LEMMA PartIs ==
  ASSUME NEW a, AnswerRead(a), NEW q \in a.left
  PROVE  /\ q \in {"total", "day", "week", "joined"} =>
              "joined" \in a.part /\ "used" \notin a.part /\ "reports" \notin a.part
         /\ q \in {"used", "snapshots"} =>
              "joined" \notin a.part /\ "used" \in a.part /\ "reports" \notin a.part
         /\ q = "reports" =>
              "joined" \notin a.part /\ "used" \notin a.part /\ "reports" \in a.part
BY DEF AnswerRead, Parts

LEMMA AnswerStays ==
  ASSUME DashboardInv, UNCHANGED <<now, rowVars, snapshots, capture>>,
         answer' \in AnswerSet, answer'.pc = "reading" => AnswerRead(answer')
  PROVE  DashboardInv'
<1>1. DashboardType'
  BY DEF DashboardInv, DashboardType, Recorded, TimesOf, rowVars
<1>2. answer'.pc = "reading" => AnswerRead(answer)'
  BY DEF AnswerRead, rowVars
<1> QED
  BY <1>1, <1>2 DEF DashboardInv

LEMMA InvAsk ==
  ASSUME DashboardInv, NEW part \in Parts, Ask(part)
  PROVE  DashboardInv'
<1>1. PICK a : a = answer'
  OBVIOUS
<1>2. part \subseteq Queries /\ "snapshots" \notin part
  BY DEF Parts, Queries
<1>3. a = [NoAnswer EXCEPT !.pc = "reading", !.at = now, !.part = part, !.left = part]
  BY <1>1 DEF Ask
<1>4. /\ a \in AnswerSet /\ a.at = now /\ a.part = part /\ a.left = part /\ a.changes = 0
  <2>1. a = [pc |-> "reading", at |-> now, changes |-> 0, part |-> part, left |-> part,
             total |-> 0, day |-> 0, week |-> 0, used |-> 0, growth |-> <<>>,
             reports |-> <<>>, storage |-> <<>>]
    BY <1>3 DEF NoAnswer
  <2>2. <<>> \in Histories /\ now \in Int /\ part \in SUBSET Queries
    BY <1>2 DEF Histories, DashboardInv, DashboardType
  <2> QED
    BY <2>1, <2>2 DEF AnswerSet
<1>5. Recorded(person, now) /\ Recorded(reports, now) /\ now \in Nat
  BY DEF DashboardInv, DashboardType
<1>6. "joined" \in part => AccountsRead(a, person)
  <2> SUFFICES ASSUME "joined" \in part PROVE AccountsRead(a, person)
    OBVIOUS
  <2>1. {"total", "day", "week", "joined"} \subseteq a.left
    BY <1>4 DEF Parts
  <2>2. ASSUME NEW c, EndsAt(person, now, c) PROVE Len(person) - c <= 0
    <3>1. c \in 0..Len(person) /\ Len(person) \in Nat /\ (c < Len(person) => person[c + 1] > now)
      BY <1>5, <2>2 DEF EndsAt, Recorded
    <3>2. c < Len(person) => /\ c + 1 \in DOMAIN person /\ person[c + 1] \in Int
                             /\ person[c + 1] <= now
      BY <1>5, <3>1 DEF Recorded
    <3> QED
      BY <1>5, <3>1, <3>2
  <2> QED
    BY <1>4, <2>1, <2>2 DEF AccountsRead, Both
<1>7. "used" \in part => StorageRead(a, snapshots, stored)
  BY <1>4 DEF Parts, StorageRead, Both
<1>8. "reports" \in part => ReportsRead(a, reports)
  BY <1>4, <1>5 DEF Parts, ReportsRead, Recorded
<1>9. AnswerRead(a)
  BY <1>2, <1>4, <1>5, <1>6, <1>7, <1>8 DEF AnswerRead
<1> QED
  BY <1>1, <1>4, <1>9, AnswerStays DEF Ask

\* An answer to a query leaves the others alone.
QueryKept(a, b, q) ==
  /\ b \in AnswerSet /\ b.pc = a.pc /\ b.at = a.at /\ b.changes = a.changes /\ b.part = a.part
  /\ b.left = (a.left \ {q}) \cup IF q = "used" THEN {"snapshots"} ELSE {}
  /\ q /= "total" => b.total = a.total
  /\ q /= "day" => b.day = a.day
  /\ q /= "week" => b.week = a.week
  /\ q /= "joined" => b.growth = a.growth
  /\ q /= "used" => b.used = a.used

LEMMA RowsAre ==
  DashboardInv => /\ answer \in AnswerSet /\ now \in Nat /\ stored \in Int /\ snapshots \in Shots
                  /\ person \in Seq(Int) /\ reports \in Seq(Int)
                  /\ answer.at \in Int /\ DOMAIN person = 1..Len(person)
BY DEF DashboardInv, DashboardType, Recorded, AnswerSet

LEMMA GotKeeps ==
  ASSUME DashboardInv, answer.pc = "reading", NEW q \in answer.left, QueryKept(answer, answer', q),
         UNCHANGED <<now, rowVars, snapshots, capture>>,
         "joined" \in answer.part => AccountsRead(answer', person),
         "used" \in answer.part => StorageRead(answer', snapshots, stored),
         "reports" \in answer.part => ReportsRead(answer', reports)
  PROVE  DashboardInv'
<1>1. AnswerRead(answer)
  BY DEF DashboardInv
<1>2. q = "used" => "used" \in answer.part
  BY <1>1, PartIs
<1>3. AnswerRead(answer')
  BY <1>1, <1>2 DEF AnswerRead, QueryKept
<1> QED
  BY <1>3, AnswerStays DEF QueryKept

LEMMA InvGetTotal == DashboardInv /\ GetTotal => DashboardInv'
<1> SUFFICES ASSUME DashboardInv, GetTotal PROVE DashboardInv'
  OBVIOUS
<1>1. /\ answer.pc = "reading" /\ "total" \in answer.left
      /\ UNCHANGED <<now, rowVars, snapshots, capture>>
      /\ answer' = [[answer EXCEPT !.total = Counted(0)]
                      EXCEPT !.left = (@ \ {"total"}) \cup {}]
  BY DEF GetTotal, Got
<1>2. Counted(0) = Len(person) /\ Len(person) \in Nat
  <2>1. {k \in DOMAIN person : person[k] >= 0} = 1..Len(person)
    BY RowsAre DEF DashboardInv, DashboardType, Recorded
  <2>2. PICK n \in Nat : n = Len(person)
    <3>1. person \in Seq(Int)
      BY RowsAre, Zenon
    <3> QED
      BY <3>1
  <2>3. Cardinality(1..n) = n
    BY FS_Interval, SMTT(30)
  <2> QED
    BY <2>1, <2>2, <2>3 DEF Counted
<1>3. QueryKept(answer, answer', "total") /\ answer'.total = Len(person)
  <2>1. PICK x \in Int : x = Len(person) /\ x = Counted(0)
    BY <1>2
  <2>2. answer' = [[answer EXCEPT !.total = x] EXCEPT !.left = (@ \ {"total"}) \cup {}]
    BY <1>1, <2>1
  <2> QED
    BY <2>1, <2>2, RowsAre DEF QueryKept, AnswerSet
<1>4. "joined" \in answer.part /\ "used" \notin answer.part /\ "reports" \notin answer.part
      /\ AccountsRead(answer, person)
  BY <1>1, PartIs DEF DashboardInv, AnswerRead
<1>5. AccountsRead(answer', person)
  BY <1>3, <1>4, RowsAre, GotTotalRead DEF QueryKept
<1> QED
  BY <1>1, <1>3, <1>4, <1>5, GotKeeps

LEMMA InvGetDay == DashboardInv /\ GetDay => DashboardInv'
<1> SUFFICES ASSUME DashboardInv, GetDay PROVE DashboardInv'
  OBVIOUS
<1>1. PICK x : x = Since(person, answer.at - Day)
  OBVIOUS
<1>2. x \in Nat
  BY <1>1, RowsAre, SinceFacts DEF Day
<1>3. /\ answer.pc = "reading" /\ "day" \in answer.left
      /\ UNCHANGED <<now, rowVars, snapshots, capture>>
      /\ answer' = [[answer EXCEPT !.day = x] EXCEPT !.left = (@ \ {"day"}) \cup {}]
  BY <1>1, SinceIs DEF GetDay, Got
<1>4. QueryKept(answer, answer', "day") /\ answer'.day = x
  <2>1. x \in Int
    BY <1>2
  <2> QED
    BY <1>3, <2>1, RowsAre DEF QueryKept, AnswerSet
<1>5. "joined" \in answer.part /\ "used" \notin answer.part /\ "reports" \notin answer.part
      /\ AccountsRead(answer, person)
  BY <1>3, PartIs DEF DashboardInv, AnswerRead
<1>6. AccountsRead(answer', person)
  BY <1>1, <1>4, <1>5, RowsAre, GotDayRead DEF QueryKept
<1> QED
  BY <1>3, <1>4, <1>5, <1>6, GotKeeps

LEMMA InvGetWeek == DashboardInv /\ GetWeek => DashboardInv'
<1> SUFFICES ASSUME DashboardInv, GetWeek PROVE DashboardInv'
  OBVIOUS
<1>1. PICK x : x = Since(person, answer.at - 7 * Day)
  OBVIOUS
<1>2. x \in Nat
  BY <1>1, RowsAre, SinceFacts DEF Day
<1>3. /\ answer.pc = "reading" /\ "week" \in answer.left
      /\ UNCHANGED <<now, rowVars, snapshots, capture>>
      /\ answer' = [[answer EXCEPT !.week = x] EXCEPT !.left = (@ \ {"week"}) \cup {}]
  BY <1>1, SinceIs DEF GetWeek, Got
<1>4. QueryKept(answer, answer', "week") /\ answer'.week = x
  <2>1. x \in Int
    BY <1>2
  <2> QED
    BY <1>3, <2>1, RowsAre DEF QueryKept, AnswerSet
<1>5. "joined" \in answer.part /\ "used" \notin answer.part /\ "reports" \notin answer.part
      /\ AccountsRead(answer, person)
  BY <1>3, PartIs DEF DashboardInv, AnswerRead
<1>6. AccountsRead(answer', person)
  BY <1>1, <1>4, <1>5, RowsAre, GotWeekRead DEF QueryKept
<1> QED
  BY <1>3, <1>4, <1>5, <1>6, GotKeeps

LEMMA InvGetGrowth == DashboardInv /\ GetGrowth => DashboardInv'
<1> SUFFICES ASSUME DashboardInv, GetGrowth PROVE DashboardInv'
  OBVIOUS
<1>1. PICK x : x = CumulativeHistory(person, FirstOf(person, answer.at), answer.at)
  OBVIOUS
<1>2. x \in Histories
  <2>1. FirstOf(person, answer.at) \in Int
    BY RowsAre DEF FirstOf
  <2> QED
    BY <1>1, <2>1, RowsAre, CumulativeFacts DEF Histories
<1>3. /\ answer.pc = "reading" /\ "joined" \in answer.left
      /\ UNCHANGED <<now, rowVars, snapshots, capture>>
      /\ answer' = [[answer EXCEPT !.growth = x] EXCEPT !.left = (@ \ {"joined"}) \cup {}]
  BY <1>1 DEF GetGrowth, Got
<1>4. QueryKept(answer, answer', "joined") /\ answer'.growth = x
  BY <1>2, <1>3, RowsAre DEF QueryKept, AnswerSet
<1>5. "joined" \in answer.part /\ "used" \notin answer.part /\ "reports" \notin answer.part
      /\ AccountsRead(answer, person)
  BY <1>3, PartIs DEF DashboardInv, AnswerRead
<1>6. AccountsRead(answer', person)
  BY <1>1, <1>4, <1>5, RowsAre, GotGrowthRead DEF QueryKept
<1> QED
  BY <1>3, <1>4, <1>5, <1>6, GotKeeps

LEMMA InvGetReports == DashboardInv /\ GetReports => DashboardInv'
<1> SUFFICES ASSUME DashboardInv, GetReports PROVE DashboardInv'
  OBVIOUS
<1>1. PICK first : first = FirstOf(reports, answer.at - 30 * Day)
  OBVIOUS
<1>2. first \in Int
  BY <1>1, RowsAre DEF FirstOf, Day
<1>3. PICK x : x = CumulativeHistory(reports, first, answer.at)
  OBVIOUS
<1>4. x \in Histories
  BY <1>2, <1>3, RowsAre, CumulativeFacts DEF Histories
<1>5. /\ answer.pc = "reading" /\ "reports" \in answer.left
      /\ UNCHANGED <<now, rowVars, snapshots, capture>>
      /\ answer' = [[answer EXCEPT !.reports = x] EXCEPT !.left = (@ \ {"reports"}) \cup {}]
  BY <1>1, <1>3 DEF GetReports, Got
<1>6. QueryKept(answer, answer', "reports") /\ answer'.reports = x
  BY <1>4, <1>5, RowsAre DEF QueryKept, AnswerSet
<1>7. "reports" \in answer.part /\ "used" \notin answer.part /\ "joined" \notin answer.part
      /\ ReportsRead(answer, reports)
  BY <1>5, PartIs DEF DashboardInv, AnswerRead
<1>8. ReportsRead(answer', reports)
  BY <1>2, <1>3, <1>6, <1>7, RowsAre, GotReportsRead DEF QueryKept
<1> QED
  BY <1>5, <1>6, <1>7, <1>8, GotKeeps

LEMMA InvGetUsed == DashboardInv /\ GetUsed => DashboardInv'
<1> SUFFICES ASSUME DashboardInv, GetUsed PROVE DashboardInv'
  OBVIOUS
<1>1. /\ answer.pc = "reading" /\ "used" \in answer.left
      /\ UNCHANGED <<now, rowVars, snapshots, capture>>
      /\ answer' = [[answer EXCEPT !.used = stored]
                      EXCEPT !.left = (@ \ {"used"}) \cup {"snapshots"}]
  BY DEF GetUsed, Got
<1>2. QueryKept(answer, answer', "used") /\ answer'.used = stored
  BY <1>1, RowsAre DEF QueryKept, AnswerSet, Queries
<1>3. "joined" \notin answer.part /\ "used" \in answer.part /\ "reports" \notin answer.part
  BY <1>1, PartIs DEF DashboardInv, AnswerRead
<1>4. StorageRead(answer', snapshots, stored)
  BY <1>2 DEF StorageRead, Both, QueryKept
<1> QED
  BY <1>1, <1>2, <1>3, <1>4, GotKeeps

LEMMA InvGetSnapshots == DashboardInv /\ GetSnapshots => DashboardInv'
<1> SUFFICES ASSUME DashboardInv, GetSnapshots PROVE DashboardInv'
  OBVIOUS
<1>1. PICK x : x = StorageHistory(snapshots, answer.used, now)
  OBVIOUS
<1>2. x \in Histories
  <2>1. answer.used \in Int
    BY RowsAre DEF AnswerSet
  <2> QED
    BY <1>1, <2>1, RowsAre, StorageFacts DEF Histories
<1>3. /\ answer.pc = "reading" /\ "snapshots" \in answer.left
      /\ UNCHANGED <<now, rowVars, snapshots, capture>>
      /\ answer' = [[answer EXCEPT !.storage = x] EXCEPT !.left = (@ \ {"snapshots"}) \cup {}]
  BY <1>1 DEF GetSnapshots, Got
<1>4. QueryKept(answer, answer', "snapshots") /\ answer'.storage = x
  BY <1>2, <1>3, RowsAre DEF QueryKept, AnswerSet
<1>5. "used" \in answer.part /\ "joined" \notin answer.part /\ "reports" \notin answer.part
      /\ StorageRead(answer, snapshots, stored)
      /\ now \in Int /\ (answer.changes = 0 => now = answer.at)
  BY <1>3, PartIs, RowsAre DEF DashboardInv, AnswerRead
<1>6. answer'.left = answer.left \ {"snapshots"}
  BY <1>4 DEF QueryKept
<1>7. StorageRead(answer', snapshots, stored)
  <2>1. /\ answer \in AnswerSet /\ answer' \in AnswerSet
        /\ snapshots \in Shots /\ stored \in Int
    BY <1>4, RowsAre DEF QueryKept
  <2>2. /\ answer'.at = answer.at /\ answer'.changes = answer.changes
        /\ answer'.used = answer.used
        /\ answer'.storage = StorageHistory(snapshots, answer.used, now)
    BY <1>1, <1>4 DEF QueryKept
  <2> QED
    BY <1>3, <1>5, <1>6, <2>1, <2>2, GotSnapshotsRead, ZenonT(30)
<1> QED
  BY <1>3, <1>4, <1>5, <1>7, GotKeeps

LEMMA InvComplete == DashboardInv /\ Complete => DashboardInv'
<1> SUFFICES ASSUME DashboardInv, Complete PROVE DashboardInv'
  OBVIOUS
<1>1. answer' \in AnswerSet /\ answer'.pc = "shown"
  BY RowsAre DEF Complete, AnswerSet
<1> QED
  BY <1>1, AnswerStays DEF Complete

\* What happens to the rows while an answer is put together.
LEMMA ChangeKeeps ==
  ASSUME DashboardInv, DashboardType', now <= now',
         answer' = IF answer.pc = "reading"
                   THEN [answer EXCEPT !.changes = @ + 1] ELSE answer,
         Moved(person, person'),
         Len(reports') \in {Len(reports), Len(reports) + 1},
         \A k \in 1..Len(reports) : reports'[k] = reports[k]
  PROVE  DashboardInv'
<1>1. CASE answer.pc /= "reading"
  BY <1>1 DEF DashboardInv
<1>2. CASE answer.pc = "reading"
  <2>1. PICK b : b = Later(answer)
    OBVIOUS
  <2>2. answer' = b
    BY <1>2, <2>1 DEF Later
  <2>3. AnswerRead(answer) /\ answer \in AnswerSet
    BY <1>2, RowsAre DEF DashboardInv
  <2>4. /\ b.at = answer.at /\ b.part = answer.part /\ b.left = answer.left
        /\ b.changes /= 0 /\ b.at \in Int
    BY <2>1, <2>3, LaterSet
  <2>5. b.at <= now' /\ reports' \in Seq(Int)
    BY <2>3, <2>4 DEF AnswerRead, DashboardInv, DashboardType, Recorded
  <2>6. "joined" \in b.part => AccountsRead(b, person')
    BY <2>1, <2>3, <2>4, AccountsLater DEF AnswerRead
  <2>7. "used" \in b.part => StorageRead(b, snapshots', stored')
    BY <2>1, <2>3, <2>4, StorageLater DEF AnswerRead
  <2>8. "reports" \in b.part => ReportsRead(b, reports')
    BY <2>1, <2>3, <2>4, <2>5, RowsAre, ReportsLater DEF AnswerRead
  <2>9. AnswerRead(answer)'
    BY <2>2, <2>3, <2>4, <2>5, <2>6, <2>7, <2>8 DEF AnswerRead
  <2> QED
    BY <2>9 DEF DashboardInv
<1> QED
  BY <1>1, <1>2

LEMMA ChangedSet ==
  ASSUME NEW a \in AnswerSet
  PROVE  (IF a.pc = "reading" THEN [a EXCEPT !.changes = @ + 1] ELSE a) \in AnswerSet
BY DEF AnswerSet

LEMMA InvPass ==
  ASSUME DashboardInv, NEW hours \in Jumps, Pass(hours)
  PROVE  DashboardInv'
<1>1. now' \in Nat /\ now <= now' /\ UNCHANGED <<rowVars, snapshots, capture>>
  BY RowsAre, DashboardAssumption DEF Pass, Change
<1>2. answer' \in AnswerSet
  BY RowsAre, ChangedSet DEF Pass, Change
<1>3. DashboardType'
  <2>1. {now, now'} \subseteq Int
    BY <1>1, RowsAre
  <2>2. /\ Recorded(person, now') /\ Recorded(reports, now')
        /\ Recorded(TimesOf(snapshots), now')
    BY <1>1, <2>1, RecordedLater DEF DashboardInv, DashboardType
  <2>3. UNCHANGED <<person, reports, snapshots, stored, capture>>
    BY <1>1 DEF rowVars
  <2>4. TimesOf(snapshots)' = TimesOf(snapshots)
    BY <2>3 DEF TimesOf
  <2> QED
    BY <1>1, <1>2, <2>2, <2>3, <2>4 DEF DashboardInv, DashboardType
<1> QED
  BY <1>1, <1>3, RowsAre, MovedNot, ChangeKeeps DEF Pass, Change, rowVars

LEMMA InvRegister == DashboardInv /\ Register => DashboardInv'
<1> SUFFICES ASSUME DashboardInv, Register PROVE DashboardInv'
  OBVIOUS
<1>1. person' = Append(person, now) /\ UNCHANGED <<now, stored, reports, snapshots, capture>>
  BY DEF Register, Change
<1>2. answer' \in AnswerSet
  BY RowsAre, ChangedSet DEF Register, Change
<1>3. DashboardType'
  <2>1. Recorded(person', now)
    BY <1>1, RecordedAppend DEF DashboardInv, DashboardType
  <2>2. TimesOf(snapshots)' = TimesOf(snapshots)
    BY <1>1 DEF TimesOf
  <2> QED
    BY <1>1, <1>2, <2>1, <2>2 DEF DashboardInv, DashboardType
<1> QED
  BY <1>1, <1>3, RowsAre, MovedAppend, ChangeKeeps DEF Register, Change

LEMMA InvDeleteAccount ==
  ASSUME DashboardInv, NEW p \in DOMAIN person, DeleteAccount(p)
  PROVE  DashboardInv'
<1>1. person' = RemoveAt(person, p) /\ UNCHANGED <<now, stored, reports, snapshots, capture>>
  BY DEF DeleteAccount, Change
<1>2. answer' \in AnswerSet
  BY RowsAre, ChangedSet DEF DeleteAccount, Change
<1>3. DashboardType'
  <2>1. Recorded(person', now)
    BY <1>1, RecordedRemove DEF DashboardInv, DashboardType
  <2>2. TimesOf(snapshots)' = TimesOf(snapshots)
    BY <1>1 DEF TimesOf
  <2> QED
    BY <1>1, <1>2, <2>1, <2>2 DEF DashboardInv, DashboardType
<1>4. Moved(person, person')
  BY <1>1, RowsAre, MovedRemove DEF DashboardInv, DashboardType, Recorded
<1> QED
  BY <1>1, <1>3, <1>4, RowsAre, ChangeKeeps DEF DeleteAccount, Change

LEMMA InvReport == DashboardInv /\ Report => DashboardInv'
<1> SUFFICES ASSUME DashboardInv, Report PROVE DashboardInv'
  OBVIOUS
<1>1. reports' = Append(reports, now) /\ UNCHANGED <<now, person, stored, snapshots, capture>>
  BY DEF Report, Change
<1>2. answer' \in AnswerSet
  BY RowsAre, ChangedSet DEF Report, Change
<1>3. DashboardType'
  <2>1. Recorded(reports', now)
    BY <1>1, RecordedAppend DEF DashboardInv, DashboardType
  <2>2. TimesOf(snapshots)' = TimesOf(snapshots)
    BY <1>1 DEF TimesOf
  <2> QED
    BY <1>1, <1>2, <2>1, <2>2 DEF DashboardInv, DashboardType
<1>4. /\ Len(reports') = Len(reports) + 1
      /\ \A k \in 1..Len(reports) : reports'[k] = reports[k]
  BY <1>1, RowsAre, Appended
<1> QED
  BY <1>1, <1>3, <1>4, RowsAre, MovedNot, ChangeKeeps DEF Report, Change

\* Storage and its snapshots.
LEMMA ShotAppended ==
  ASSUME NEW shots \in Shots, NEW shot \in [at : Int, used : Int]
  PROVE  /\ Append(shots, shot) \in Shots
         /\ TimesOf(Append(shots, shot)) = Append(TimesOf(shots), shot.at)
<1>1. PICK more : more = Append(shots, shot)
  OBVIOUS
<1>2. /\ more \in Shots /\ Len(more) = Len(shots) + 1 /\ Len(shots) \in Nat
      /\ more[Len(shots) + 1] = shot /\ \A k \in 1..Len(shots) : more[k] = shots[k]
  <2>1. PICK S : S = [at : Int, used : Int]
    OBVIOUS
  <2>2. shots \in Seq(S) /\ shot \in S
    BY <2>1, Zenon DEF Shots
  <2>3. more \in Seq(S)
    BY <1>1, <2>2
  <2>4. more \in Shots
    BY <2>1, <2>3, Zenon DEF Shots
  <2>5. /\ Len(more) = Len(shots) + 1 /\ Len(shots) \in Nat
        /\ more[Len(shots) + 1] = shot /\ \A k \in 1..Len(shots) : more[k] = shots[k]
    BY <1>1, <2>2
  <2> QED
    BY <2>4, <2>5
<1>3. /\ TimesOf(shots) \in Seq(Int) /\ Len(TimesOf(shots)) = Len(shots)
      /\ \A k \in 1..Len(shots) : TimesOf(shots)[k] = shots[k].at
      /\ TimesOf(more) \in Seq(Int) /\ Len(TimesOf(more)) = Len(shots) + 1
      /\ \A k \in 1..(Len(shots) + 1) : TimesOf(more)[k] = more[k].at
      /\ shot.at \in Int
  <2>1. shot.at \in Int
    OBVIOUS
  <2> QED
    BY <1>2, <2>1, ShotsFacts
<1>4. PICK s, t : s = TimesOf(more) /\ t = TimesOf(shots)
  OBVIOUS
<1>5. s = Append(t, shot.at)
  BY <1>2, <1>3, <1>4, SMTT(30)
<1> QED
  BY <1>1, <1>2, <1>4, <1>5

LEMMA InvStorage ==
  DashboardInv /\ (Save \/ Erase \/ Measure \/ Record \/ RecordFails) => DashboardInv'
<1> SUFFICES ASSUME DashboardInv, Save \/ Erase \/ Measure \/ Record \/ RecordFails
             PROVE  DashboardInv'
  OBVIOUS
<1>1. /\ UNCHANGED <<now, person, reports>> /\ stored' \in Int /\ capture' \in Int
      /\ \/ UNCHANGED snapshots
         \/ snapshots' = Append(snapshots, [at |-> now, used |-> capture])
      /\ answer' = IF answer.pc = "reading"
                   THEN [answer EXCEPT !.changes = @ + 1] ELSE answer
  BY RowsAre DEF DashboardInv, DashboardType, Save, Erase, Measure, Record, RecordFails,
                 Change, rowVars, Never
<1>2. answer' \in AnswerSet
  BY <1>1, RowsAre, ChangedSet
<1>3. snapshots' \in Shots /\ Recorded(TimesOf(snapshots'), now)
  <2>1. CASE UNCHANGED snapshots
    BY <2>1 DEF DashboardInv, DashboardType
  <2>2. CASE snapshots' = Append(snapshots, [at |-> now, used |-> capture])
    <3>1. PICK shot \in [at : Int, used : Int] :
            shot = [at |-> now, used |-> capture] /\ shot.at = now
      <4>1. now \in Int /\ capture \in Int
        BY DEF DashboardInv, DashboardType
      <4>2. PICK s : s = [at |-> now, used |-> capture]
        OBVIOUS
      <4>3. s \in [at : Int, used : Int] /\ s.at = now
        BY <4>1, <4>2
      <4> QED
        BY <4>2, <4>3, Zenon
    <3>2. /\ snapshots' \in Shots
          /\ TimesOf(snapshots') = Append(TimesOf(snapshots), now)
      BY <2>2, <3>1, RowsAre, ShotAppended
    <3> QED
      BY <3>2, RecordedAppend DEF DashboardInv, DashboardType
  <2> QED
    BY <1>1, <2>1, <2>2
<1>4. TimesOf(snapshots') = TimesOf(snapshots)'
  BY DEF TimesOf
<1>5. DashboardType'
  BY <1>1, <1>2, <1>3, <1>4 DEF DashboardInv, DashboardType
<1> QED
  BY <1>1, <1>5, RowsAre, MovedNot, ChangeKeeps

LEMMA DashboardInvInit == InitDashboard => DashboardInv
<1> SUFFICES ASSUME InitDashboard PROVE DashboardInv
  OBVIOUS
<1>1. <<>> \in Seq(Int) /\ DOMAIN <<>> = {} /\ TimesOf(<<>>) = <<>> /\ <<>> \in Shots
  BY DEF TimesOf, Shots
<1>2. Recorded(<<>>, now)
  BY <1>1 DEF Recorded, Ascending
<1>3. NoAnswer \in AnswerSet
  BY DEF NoAnswer, AnswerSet, Histories
<1>4. now \in Nat /\ stored \in Int /\ capture \in Int
  BY DEF InitDashboard, Day, Never
<1> QED
  BY <1>1, <1>2, <1>3, <1>4 DEF InitDashboard, DashboardInv, DashboardType, NoAnswer

\* What an answer says of each day when nothing has happened meanwhile.
LEMMA DailyAccounts ==
  ASSUME DashboardInv, answer.at = now, NEW r \in {"7d", "30d"}, NEW i \in 1..7,
         answer.growth = CumulativeHistory(person, FirstOf(person, answer.at), answer.at)
  PROVE  answer.growth[r][i] = AccountsBy(DaysBack(i, DayStep(r)))
<1>1. /\ Recorded(person, now) /\ person \in Seq(Int) /\ now \in Int
      /\ FirstOf(person, now) \in Int
  BY RowsAre DEF DashboardInv, DashboardType, FirstOf
<1>2. PICK day \in Int : day = DayBack(now, i, DayStep(r)) /\ day = DaysBack(i, DayStep(r))
  BY <1>1 DEF DayBack, DaysBack, DayStep, Day
<1>3. PICK c : c = answer.growth[r][i]
  OBVIOUS
<1>4. EndsAt(person, Capped(EndOf(day), now), c)
  BY <1>1, <1>2, <1>3, CumulativeFacts DEF Daily
<1>5. /\ {k \in DOMAIN person : person[k] \div Day <= day} = 1..c
      /\ Cardinality(1..c) = c
  BY <1>1, <1>2, <1>4, CountedByDay DEF Recorded
<1> QED
  BY <1>2, <1>3, <1>5 DEF AccountsBy

LEMMA DailyStorage ==
  ASSUME DashboardInv, answer.at = now, NEW r \in {"7d", "30d"}, NEW i \in 1..7,
         answer.storage = StorageHistory(snapshots, stored, answer.at)
  PROVE  answer.storage[r][i] = UsedBy(DaysBack(i, DayStep(r)))
<1>1. PICK times : times = TimesOf(snapshots)
  OBVIOUS
<1>2. /\ Recorded(times, now) /\ times \in Seq(Int) /\ now \in Int /\ stored \in Int
      /\ snapshots \in Shots
  BY <1>1, RowsAre DEF DashboardInv, DashboardType, Recorded
<1>3. DOMAIN snapshots = DOMAIN times /\ \A k \in DOMAIN snapshots : snapshots[k].at = times[k]
  BY <1>1 DEF TimesOf
<1>4. PICK day \in Int : day = DayBack(now, i, DayStep(r)) /\ day = DaysBack(i, DayStep(r))
  BY <1>2 DEF DayBack, DaysBack, DayStep, Day
<1>5. PICK c : /\ EndsAt(times, Capped(EndOf(day), now), c)
               /\ answer.storage[r][i] = ValueAt(snapshots, stored, c)
  <2>1. \A s \in {"7d", "30d"} : \A j \in 1..7 : \E c :
          /\ EndsAt(TimesOf(snapshots), Capped(EndOf(DayBack(now, j, DayStep(s))), now), c)
          /\ StorageHistory(snapshots, stored, now)[s][j] = ValueAt(snapshots, stored, c)
    BY <1>2, StorageFacts, Zenon
  <2> QED
    BY <1>1, <1>4, <2>1, Zenon
<1>6. /\ {k \in DOMAIN times : times[k] \div Day <= day} = 1..c
      /\ Cardinality(1..c) = c /\ c \in Nat
  BY <1>2, <1>4, <1>5, CountedByDay DEF Recorded
<1>7. {k \in DOMAIN snapshots : snapshots[k].at \div Day <= day} = 1..c
  BY <1>3, <1>6
<1>8. 1..c /= {} <=> c /= 0
  BY <1>6
<1> QED
  BY <1>4, <1>5, <1>6, <1>7, <1>8 DEF UsedBy, ValueAt

LEMMA DashboardInvEntails == DashboardInv => AnswersAgree
<1> SUFFICES ASSUME DashboardInv, answer.pc = "reading", answer.left = {}
             PROVE  /\ "joined" \in answer.part => AccountsAgree
                    /\ "used" \in answer.part => StorageAgrees
                    /\ "reports" \in answer.part => ReportsAgree
  BY DEF AnswersAgree
<1>1. AnswerRead(answer) /\ (answer.changes = 0 => answer.at = now)
  BY DEF DashboardInv, AnswerRead
<1>2. DayStep("7d") = 1 /\ DayStep("30d") = 5
  BY DEF DayStep
<1>3. ASSUME "joined" \in answer.part PROVE AccountsAgree
  <2>1. AccountsRead(answer, person)
    BY <1>1, <1>3 DEF AnswerRead
  <2>2. GrowthRead(answer, person)
    BY <2>1 DEF AccountsRead
  <2>3. /\ Near(answer, Latest(answer), answer.total)
        /\ answer.day - answer.week <= answer.changes
        /\ answer.week - answer.total <= answer.changes
    BY <2>1 DEF AccountsRead, Both
  <2>4. \A r \in Ranges : /\ Grows(answer.growth[r])
                          /\ Close(LastOf(answer.growth[r]), answer.total)
                          /\ LastOf(answer.growth[r]) = LastOf(answer.growth["total"])
    BY <2>2, <2>3 DEF GrowthRead, Latest, Near, Close
  <2>5. answer.changes = 0 => \A r \in {"7d", "30d"}, i \in 1..7 :
           answer.growth[r][i] = AccountsBy(DaysBack(i, DayStep(r)))
    BY <1>1, <2>2, DailyAccounts DEF GrowthRead
  <2> QED
    BY <1>2, <2>3, <2>4, <2>5 DEF AccountsAgree
<1>4. ASSUME "used" \in answer.part PROVE StorageAgrees
  <2>1. StorageRead(answer, snapshots, stored)
    BY <1>1, <1>4 DEF AnswerRead
  <2>2. /\ \A r \in Ranges : LastOf(answer.storage[r]) = LastOf(answer.storage["total"])
        /\ answer.changes = 0 =>
             answer.storage = StorageHistory(snapshots, stored, answer.at)
    BY <2>1 DEF StorageRead, Both
  <2>3. answer.changes = 0 => \A r \in {"7d", "30d"}, i \in 1..7 :
           answer.storage[r][i] = UsedBy(DaysBack(i, DayStep(r)))
    BY <1>1, <2>2, DailyStorage
  <2> QED
    BY <1>2, <2>2, <2>3 DEF StorageAgrees
<1>5. ASSUME "reports" \in answer.part PROVE ReportsAgree
  BY <1>1, <1>5 DEF AnswerRead, ReportsRead, ReportsAgree, Near, Close
<1> QED
  BY <1>3, <1>4, <1>5

\* Every history ends with the present and grows where nothing is taken out, what two
\* queries say of the same rows differs by no more than happened between them, and if
\* nothing did each point of a daily chart is what there was at the end of its day
\* (admin-dashboard.service.ts): AnswersAgree, for any number of rows, of changes while
\* an answer is put together, and for any hours that pass.
THEOREM AnswersDoAgree == DashboardSpec => []AnswersAgree
<1>1. ASSUME DashboardInv, [NextDashboard]_dashboardVars
      PROVE  DashboardInv'
  <2>1. CASE UNCHANGED dashboardVars
    BY <1>1, <2>1 DEF dashboardVars, DashboardInv, DashboardType, TimesOf, AnswerRead
  <2>2. CASE NextDashboard
    BY <1>1, <2>2, InvPass, InvRegister, InvDeleteAccount, InvReport, InvStorage, InvAsk,
       InvGetTotal, InvGetDay, InvGetWeek, InvGetGrowth, InvGetReports, InvGetUsed,
       InvGetSnapshots, InvComplete DEF NextDashboard
  <2> QED
    BY <1>1, <2>1, <2>2
<1> QED
  BY <1>1, DashboardInvInit, DashboardInvEntails, PTL DEF DashboardSpec
=============================================================================
